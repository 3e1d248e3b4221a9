---- MODULE RunCoordinator ----
(* Server-owned runs of one coding session: RunCoordinator
   (core/coding/run_coordinator.py) and CodingRunRegistry
   (api/coding_runs.py) in every application instance, over the shared
   session journal.  An instance boots once, hydrates the session once,
   and dies by a crash or after a shutdown.

   Every await is a point where other work may run, so a coroutine is a
   small control state.  A worker thread that asyncio.to_thread started
   outlives the cancellation of the task that awaited it: such a thread is
   kept in "orphans" until it commits or fails. *)
EXTENDS SessionJournal

CONSTANTS NoRun,      \* no run
          Overlap,    \* TRUE: several instances may serve the session at once
          StreamEnds, \* terminal statuses the event stream may yield
          MaxEvents,  \* bound on the nonterminal events a stream may add
          MaxTokens,  \* bound on the leases handed out
          MaxFaults   \* bound on journal transactions failing (SQLITE_BUSY, disk)

ASSUME CoordinatorAssumption ==
    /\ NoRun \notin Runs
    /\ Overlap \in BOOLEAN
    /\ StreamEnds \subseteq Statuses
    /\ MaxEvents \in Nat /\ MaxTokens \in Nat /\ MaxFaults \in Nat

VARIABLES up,        \* up[p]: off, up, closing (lifespan shutdown) or dead
          hyd,       \* hyd[p]: progress of CodingRunRegistry.hydrate
          todo,      \* todo[p]: unfinished runs recovery still has to look at
          start,     \* start[p]: start_run or start_existing_run in progress
          task,      \* task[p]: the _consume task and the active run
          inner,     \* inner[p]: the shielded _persist of a stream event
          orphans,   \* orphans[p]: threads left by a cancelled _persist
          suspend,   \* suspend[p]: the run is in _suspend_on_cancel
          audit,     \* audit[p]: audit events left by cancel
          stop,      \* stop[p]: cancel() in progress
          shut,      \* shut[p]: _shutdown_run and suspend_for_restart
          reject,    \* reject[p]: run id of an input being rejected
          faults     \* journal transactions that have failed

procVars == <<up, hyd, todo, start, task, inner, orphans, suspend, audit, stop, shut, reject>>
vars == <<journalVars, procVars, faults>>

NoJob == [pc |-> "idle", run |-> NoRun, token |-> 0]
NoEvent == [state |-> "none", run |-> NoRun, token |-> 0, kind |-> "note", info |-> "none"]

\* task[p].pc: "idle"  no active run           "new"     created, never scheduled
\*   "stream"   awaiting the event stream      "persist" awaiting inner[p]
\*   "complete" persisting run_completed       "fail"    persisting run_error
\*   "cancel"   cleanup: audit and cancelled   "suspend" cleanup: release the lease
\*   "final"    in the finally block           "raise"   same, with SessionRunLeaseLostError
\*   "ended"    finished with _active_run_id still set
Job(pcs) == [pc : pcs, run : Runs \cup {NoRun}, token : Nat]

StartPCs == {"idle", "begin", "begun", "resume", "resumed"}
TaskPCs  == {"idle", "new", "stream", "persist", "complete", "fail",
             "cancel", "suspend", "final", "raise", "ended"}
StopPCs  == {"idle", "wait", "check", "persist", "clear"}

Init ==
    /\ JournalInit
    /\ up      = [p \in Owners |-> "off"]
    /\ hyd     = [p \in Owners |-> "no"]
    /\ todo    = [p \in Owners |-> {}]
    /\ start   = [p \in Owners |-> NoJob]
    /\ task    = [p \in Owners |-> NoJob]
    /\ inner   = [p \in Owners |-> NoEvent]
    /\ orphans = [p \in Owners |-> {}]
    /\ suspend = [p \in Owners |-> FALSE]
    /\ audit   = [p \in Owners |-> 0]
    /\ stop    = [p \in Owners |-> NoJob]
    /\ shut    = [p \in Owners |-> "idle"]
    /\ reject  = [p \in Owners |-> NoRun]
    /\ faults  = 0

Alive(p)  == up[p] \in {"up", "closing"}
Active(p) == task[p].pc # "idle"

\* The endpoints reach the coordinator of a hydrated session only.
Serving(p) == up[p] = "up" /\ hyd[p] = "yes"

\* A journal transaction fails (SQLITE_BUSY, disk) and rolls back.
Fault ==
    /\ faults < MaxFaults
    /\ faults' = faults + 1
    /\ UNCHANGED journalVars

--------------------
(* Instances: start of the process, crash, lifespan shutdown. *)

Boot(p) ==
    /\ up[p] = "off"
    /\ Overlap \/ \A q \in Owners : ~Alive(q)
    /\ up' = [up EXCEPT ![p] = "up"]
    /\ UNCHANGED <<journalVars, hyd, todo, start, task, inner, orphans, suspend,
                   audit, stop, shut, reject, faults>>

\* The process ends, after a shutdown or without one: memory and threads go.
Crash(p) ==
    /\ Alive(p)
    /\ up'      = [up      EXCEPT ![p] = "dead"]
    /\ hyd'     = [hyd     EXCEPT ![p] = "no"]
    /\ todo'    = [todo    EXCEPT ![p] = {}]
    /\ start'   = [start   EXCEPT ![p] = NoJob]
    /\ task'    = [task    EXCEPT ![p] = NoJob]
    /\ inner'   = [inner   EXCEPT ![p] = NoEvent]
    /\ orphans' = [orphans EXCEPT ![p] = {}]
    /\ suspend' = [suspend EXCEPT ![p] = FALSE]
    /\ audit'   = [audit   EXCEPT ![p] = 0]
    /\ stop'    = [stop    EXCEPT ![p] = NoJob]
    /\ shut'    = [shut    EXCEPT ![p] = "idle"]
    /\ reject'  = [reject  EXCEPT ![p] = NoRun]
    /\ UNCHANGED <<journalVars, faults>>

\* The server has drained its requests; the tasks of runs go on.
ShutdownBegin(p) ==
    /\ Serving(p)
    /\ start[p].pc = "idle" /\ stop[p].pc = "idle" /\ reject[p] = NoRun
    /\ up' = [up EXCEPT ![p] = "closing"]
    /\ UNCHANGED <<journalVars, hyd, todo, start, task, inner, orphans, suspend,
                   audit, stop, shut, reject, faults>>

--------------------
(* hydrate and recover_interrupted_runs. *)

\* Mutant of RecoverLease: the owner of the lease is not probed.
RecoverLeaseBlindly(p) ==
    /\ up[p] = "up"
    /\ hyd[p] = "no"
    /\ IF lease # {} THEN RecoverDeadLease ELSE UNCHANGED journalVars
    /\ hyd' = [hyd EXCEPT ![p] = "list"]
    /\ UNCHANGED <<up, todo, start, task, inner, orphans, suspend, audit, stop,
                   shut, reject, faults>>

\* recover_run_lease: a live owner keeps its lease.  An unverifiable owner
\* raises, which leaves the session unhydrated: no step.
RecoverLease(p) ==
    /\ up[p] = "up"
    /\ hyd[p] = "no"
    /\ IF \E l \in lease : ~Alive(l.owner)
       THEN RecoverDeadLease
       ELSE UNCHANGED journalVars
    /\ hyd' = [hyd EXCEPT ![p] = "list"]
    /\ UNCHANGED <<up, todo, start, task, inner, orphans, suspend, audit, stop,
                   shut, reject, faults>>

ListUnfinished(p) ==
    /\ hyd[p] = "list"
    /\ todo' = [todo EXCEPT ![p] = UnfinishedRuns]
    /\ hyd'  = [hyd  EXCEPT ![p] = "check"]
    /\ UNCHANGED <<journalVars, up, start, task, inner, orphans, suspend, audit,
                   stop, shut, reject, faults>>

\* unfinished_run_ids is ordered by the first event of each run.
NextTodo(p, r) ==
    /\ r \in todo[p]
    /\ \A q \in todo[p] : \A n \in Of(q, "started") : \E m \in Of(r, "started") : m <= n

\* Mutant of RecoverCheck: every unfinished run is closed.
RecoverCheckCloseAll(p) ==
    /\ hyd[p] = "check"
    /\ hyd' = [hyd EXCEPT ![p] = IF todo[p] = {} THEN "yes" ELSE "close"]
    /\ UNCHANGED <<journalVars, up, todo, start, task, inner, orphans, suspend, audit,
                   stop, shut, reject, faults>>

\* A run with a recoverable approval stays open.
RecoverCheck(p) ==
    /\ hyd[p] = "check"
    /\ \/ /\ todo[p] = {}
          /\ hyd' = [hyd EXCEPT ![p] = "yes"]
          /\ UNCHANGED todo
       \/ \E r \in todo[p] :
            /\ NextTodo(p, r)
            /\ IF RecoverableApproval(r)
               THEN todo' = [todo EXCEPT ![p] = @ \ {r}] /\ UNCHANGED hyd
               ELSE hyd' = [hyd EXCEPT ![p] = "close"] /\ UNCHANGED todo
    /\ UNCHANGED <<journalVars, up, start, task, inner, orphans, suspend, audit,
                   stop, shut, reject, faults>>

\* The interrupted terminal is persisted without credentials: if another
\* instance holds the run by now, the call raises and hydration starts over.
RecoverClose(p) ==
    /\ hyd[p] = "close"
    /\ \E r \in todo[p] :
         /\ NextTodo(p, r)
         /\ \/ /\ CloseUnleased(r, "interrupted")
               /\ hyd'  = [hyd  EXCEPT ![p] = "check"]
               /\ todo' = [todo EXCEPT ![p] = @ \ {r}]
            \/ /\ ~Unleased(r)
               /\ hyd'  = [hyd  EXCEPT ![p] = "no"]
               /\ todo' = [todo EXCEPT ![p] = {}]
               /\ UNCHANGED journalVars
    /\ UNCHANGED <<up, start, task, inner, orphans, suspend, audit, stop, shut,
                   reject, faults>>

\* A transaction of recover_interrupted_runs fails: hydrate raises, and starts
\* over with the next request.
RecoveryFails(p) ==
    /\ up[p] = "up"
    /\ hyd[p] # "yes"
    /\ Fault
    /\ hyd'  = [hyd  EXCEPT ![p] = "no"]
    /\ todo' = [todo EXCEPT ![p] = {}]
    /\ UNCHANGED <<up, start, task, inner, orphans, suspend, audit, stop, shut, reject>>

--------------------
(* start_run and start_existing_run. *)

Reserved == {start[q].run : q \in Owners} \cup {reject[q] : q \in Owners}

Fresh(r) == ~HasHistory(r) /\ r \notin Reserved

\* Mutant of StartCheck: the session is not read for a resumable approval.
StartCheckActiveOnly(p, r) ==
    /\ Serving(p)
    /\ start[p].pc = "idle"
    /\ ~Active(p)
    /\ Fresh(r)
    /\ start' = [start EXCEPT ![p] = [pc |-> "begin", run |-> r, token |-> 0]]
    /\ UNCHANGED <<journalVars, up, hyd, todo, task, inner, orphans, suspend, audit,
                   stop, shut, reject, faults>>

\* Under _state_lock: no active run, and the session is read for a resumable
\* approval in a transaction of its own.
StartCheck(p, r) ==
    /\ Serving(p)
    /\ start[p].pc = "idle"
    /\ ~Active(p)
    /\ Fresh(r)
    /\ ~AnyRecoverableApproval
    /\ start' = [start EXCEPT ![p] = [pc |-> "begin", run |-> r, token |-> 0]]
    /\ UNCHANGED <<journalVars, up, hyd, todo, task, inner, orphans, suspend, audit,
                   stop, shut, reject, faults>>

\* A transaction raises because the lease is lost or because SQLite failed.
Raises(r, p, t) ==
    \/ ~Fenced(r, p, t) /\ UNCHANGED <<journalVars, faults>>
    \/ Fenced(r, p, t) /\ Fault

Idle(p) == start' = [start EXCEPT ![p] = NoJob]

\* _begin_run under _publish_lock; a lease of another instance is a conflict.
Begin(p) ==
    /\ start[p].pc = "begin"
    /\ inner[p].state # "pending"
    /\ \/ /\ nextToken <= MaxTokens
          /\ BeginRun(start[p].run, p)
          /\ start' = [start EXCEPT ![p].pc = "begun", ![p].token = nextToken]
          /\ UNCHANGED faults
       \/ lease # {} /\ Idle(p) /\ UNCHANGED <<journalVars, faults>>
       \/ Fault /\ Idle(p)
    /\ UNCHANGED <<up, hyd, todo, task, inner, orphans, suspend, audit, stop, shut,
                   reject>>

\* The approval endpoint: with no active run, the durable approval of r is
\* read and resolved; start_existing_run then finds no active run.
RespondCheck(p, r) ==
    /\ Serving(p)
    /\ start[p].pc = "idle"
    /\ ~Active(p)
    /\ RecoverableApproval(r)
    /\ start' = [start EXCEPT ![p] = [pc |-> "resume", run |-> r, token |-> 0]]
    /\ UNCHANGED <<journalVars, up, hyd, todo, task, inner, orphans, suspend, audit,
                   stop, shut, reject, faults>>

Resume(p) ==
    /\ start[p].pc = "resume"
    /\ \/ /\ nextToken <= MaxTokens
          /\ ResumeRun(start[p].run, p)
          /\ start' = [start EXCEPT ![p].pc = "resumed", ![p].token = nextToken]
          /\ UNCHANGED faults
       \/ /\ lease # {} \/ HasTerminal(start[p].run)
          /\ Idle(p)
          /\ UNCHANGED <<journalVars, faults>>
       \/ Fault /\ Idle(p)
    /\ UNCHANGED <<up, hyd, todo, task, inner, orphans, suspend, audit, stop, shut,
                   reject>>

\* The caller is still there: the run becomes active and its task is created.
StartOwn(p) ==
    /\ start[p].pc \in {"begun", "resumed"}
    /\ task' = [task EXCEPT ![p] =
                  [pc |-> "new", run |-> start[p].run, token |-> start[p].token]]
    /\ Idle(p)
    /\ UNCHANGED <<journalVars, up, hyd, todo, inner, orphans, suspend, audit, stop,
                   shut, reject, faults>>

\* The caller was cancelled while the transaction ran: a begun run is closed
\* as cancelled, a resumed one gives its lease back.
StartAbort(p) ==
    /\ start[p].pc \in {"begun", "resumed"}
    /\ \/ /\ start[p].pc = "begun"
          /\ AppendTerminalAndRelease(start[p].run, p, start[p].token, "cancelled")
          /\ UNCHANGED faults
       \/ /\ start[p].pc = "resumed"
          /\ ReleaseRunLease(start[p].run, p, start[p].token)
          /\ UNCHANGED faults
       \/ Raises(start[p].run, p, start[p].token)
    /\ Idle(p)
    /\ UNCHANGED <<up, hyd, todo, task, inner, orphans, suspend, audit, stop, shut,
                   reject>>

\* _start_rejected_input_run: notes, then append_terminal_once, under a fresh
\* run id and in separate transactions.
RejectBegin(p, r) ==
    /\ Serving(p)
    /\ reject[p] = NoRun
    /\ Fresh(r)
    /\ Len(events) < MaxEvents
    /\ AppendUnfenced(r)
    /\ reject' = [reject EXCEPT ![p] = r]
    /\ UNCHANGED <<up, hyd, todo, start, task, inner, orphans, suspend, audit, stop,
                   shut, faults>>

RejectEnd(p) ==
    /\ reject[p] # NoRun
    /\ AppendTerminalOnce(reject[p], "error")
    /\ reject' = [reject EXCEPT ![p] = NoRun]
    /\ UNCHANGED <<up, hyd, todo, start, task, inner, orphans, suspend, audit, stop,
                   shut, faults>>

--------------------
(* The _consume task. *)

Step(p, to) == task' = [task EXCEPT ![p].pc = to]

TaskBegin(p) ==
    /\ task[p].pc = "new"
    /\ Step(p, "stream")
    /\ UNCHANGED <<journalVars, up, hyd, todo, start, inner, orphans, suspend, audit,
                   stop, shut, reject, faults>>

\* The stream of the agent run is external: it yields nonterminal events, asks
\* for an approval once per tool call and answers it with the call's result,
\* yields its own terminal, returns or raises.
Yields(p, c) ==
    LET r == task[p].run IN
    CASE c.kind = "approval" -> \A n \in Of(r, "approval") : events[n].info # c.info
      [] c.kind = "result"   -> \A n \in Of(r, "result") : events[n].info # c.info
      [] c.kind = "terminal" -> c.info \in StreamEnds
      [] OTHER -> TRUE

StreamYield(p, c) ==
    /\ task[p].pc = "stream"
    /\ Yields(p, c)
    /\ c.kind = "terminal" \/ Len(events) < MaxEvents
    /\ inner' = [inner EXCEPT ![p] = [state |-> "pending", run |-> task[p].run,
                                       token |-> task[p].token, kind |-> c.kind, info |-> c.info]]
    /\ Step(p, "persist")
    /\ UNCHANGED <<journalVars, up, hyd, todo, start, orphans, suspend, audit, stop,
                   shut, reject, faults>>

StreamEnd(p) ==
    /\ task[p].pc = "stream"
    /\ \/ Step(p, "complete")
       \/ Step(p, "fail")
    /\ UNCHANGED <<journalVars, up, hyd, todo, start, inner, orphans, suspend, audit,
                   stop, shut, reject, faults>>

\* _persist of a stream or audit event, and of a terminal.
PersistEvent(r, p, t, c) ==
    /\ IF c.kind = "terminal"
       THEN AppendTerminalAndRelease(r, p, t, c.info)
       ELSE AppendFenced(r, p, t, c)
    /\ UNCHANGED faults

PersistTerminal(p, s) ==
    /\ AppendTerminalAndRelease(task[p].run, p, task[p].token, s)
    /\ UNCHANGED faults

TaskRaises(p) == Raises(task[p].run, p, task[p].token)

\* The shielded _persist commits or fails, whether or not the task still waits.
InnerCommit(p) ==
    LET Settle(st) == inner' = [inner EXCEPT ![p] =
                         IF task[p].pc = "persist" THEN [@ EXCEPT !.state = st] ELSE NoEvent]
    IN  /\ inner[p].state = "pending"
        /\ \/ /\ PersistEvent(inner[p].run, p, inner[p].token,
                              [kind |-> inner[p].kind, info |-> inner[p].info])
              /\ Settle("stored")
           \/ Raises(inner[p].run, p, inner[p].token) /\ Settle("raised")
        /\ UNCHANGED <<up, hyd, todo, start, task, orphans, suspend, audit, stop, shut,
                       reject>>

PersistReturn(p) ==
    /\ task[p].pc = "persist"
    /\ inner[p].state \in {"stored", "raised"}
    /\ Step(p, IF inner[p].state = "raised" THEN "fail"
               ELSE IF inner[p].kind = "terminal" THEN "final" ELSE "stream")
    /\ inner' = [inner EXCEPT ![p] = NoEvent]
    /\ UNCHANGED <<journalVars, up, hyd, todo, start, orphans, suspend, audit, stop,
                   shut, reject, faults>>

\* The stream returned without a terminal.
CompletePersist(p) ==
    /\ task[p].pc = "complete"
    /\ \/ PersistTerminal(p, "completed") /\ Step(p, "final")
       \/ TaskRaises(p) /\ Step(p, "fail")
    /\ UNCHANGED <<up, hyd, todo, start, inner, orphans, suspend, audit, stop, shut,
                   reject>>

\* The stream, or a _persist, raised.
FailPersist(p) ==
    /\ task[p].pc = "fail"
    /\ \/ PersistTerminal(p, "error")
       \/ TaskRaises(p)
    /\ Step(p, "final")
    /\ UNCHANGED <<up, hyd, todo, start, inner, orphans, suspend, audit, stop, shut,
                   reject>>

\* _persist_cancelled_run: _publish_lock is granted in order, so a shielded
\* _persist goes first; then the audit events, then, even if one of them
\* raised, the terminal.
CancelCleanup(p) ==
    /\ task[p].pc = "cancel"
    /\ inner[p].state # "pending"
    /\ IF audit[p] > 0
       THEN /\ \/ /\ PersistEvent(task[p].run, p, task[p].token,
                                  [kind |-> "note", info |-> "none"])
                  /\ audit' = [audit EXCEPT ![p] = @ - 1]
               \/ /\ TaskRaises(p)
                  /\ audit' = [audit EXCEPT ![p] = 0]
            /\ UNCHANGED task
       ELSE /\ \/ PersistTerminal(p, "cancelled") /\ Step(p, "final")
               \/ TaskRaises(p) /\ Step(p, "raise")
            /\ UNCHANGED audit
    /\ UNCHANGED <<up, hyd, todo, start, inner, orphans, suspend, stop, shut, reject>>

\* The run is being suspended: only the lease goes, without _publish_lock.
SuspendCleanup(p) ==
    /\ task[p].pc = "suspend"
    /\ \/ /\ ReleaseRunLease(task[p].run, p, task[p].token)
          /\ UNCHANGED faults
          /\ Step(p, "final")
       \/ TaskRaises(p) /\ Step(p, "raise")
    /\ UNCHANGED <<up, hyd, todo, start, inner, orphans, suspend, audit, stop, shut,
                   reject>>

\* The finally block: the coordinator forgets the run, and whoever awaits the
\* task in cancel() or suspend_for_restart() goes on, or raises in its turn.
Final(p) ==
    /\ task[p].pc \in {"final", "raise"}
    /\ task'    = [task    EXCEPT ![p] = NoJob]
    /\ suspend' = [suspend EXCEPT ![p] = FALSE]
    /\ audit'   = [audit   EXCEPT ![p] = 0]
    /\ stop'    = [stop    EXCEPT ![p] =
                     IF @.pc # "wait" THEN @
                     ELSE IF task[p].pc = "raise" THEN NoJob ELSE [@ EXCEPT !.pc = "check"]]
    /\ shut'    = [shut    EXCEPT ![p] = IF @ = "wait" THEN "done" ELSE @]
    /\ UNCHANGED <<journalVars, up, hyd, todo, start, inner, orphans, reject, faults>>

\* A thread whose awaiting task was cancelled.
OrphanCommit(p) ==
    \E o \in orphans[p] :
        /\ \/ /\ AppendTerminalAndRelease(o.run, p, o.token, o.status)
              /\ UNCHANGED faults
           \/ Raises(o.run, p, o.token)
        /\ orphans' = [orphans EXCEPT ![p] = @ \ {o}]
        /\ UNCHANGED <<up, hyd, todo, start, task, inner, suspend, audit, stop, shut,
                       reject>>

--------------------
(* cancel(), the stop endpoint, and suspend_for_restart(). *)

\* Where task.cancel() takes the task: an unscheduled task and a finally block
\* end at once, cleanup goes on (_wait_through_cancellation), everything else
\* reaches the CancelledError handler; the error handler has none.
Interrupted(p) ==
    LET pc == task[p].pc IN
    CASE pc \in {"new", "final", "raise"}          -> "ended"
      [] pc \in {"stream", "persist", "complete"}  -> IF suspend'[p] THEN "suspend" ELSE "cancel"
      [] pc = "fail"                               -> "final"
      [] OTHER                                     -> pc

\* A terminal being persisted without a shield may live on as a thread.
Orphan(p) == [run |-> task[p].run, token |-> task[p].token,
              status |-> IF task[p].pc = "complete" THEN "completed" ELSE "error"]

Interrupt(p) ==
    /\ Step(p, Interrupted(p))
    /\ \/ UNCHANGED orphans
       \/ /\ task[p].pc \in {"complete", "fail"}
          /\ orphans' = [orphans EXCEPT ![p] = @ \cup {Orphan(p)}]
    /\ inner' = [inner EXCEPT ![p] = IF @.state = "pending" THEN @ ELSE NoEvent]

Await(p) == IF Interrupted(p) = "ended" THEN "check" ELSE "wait"

\* Mutant of StopRun: every request adds its audit events to the earlier ones.
StopRunAddsAudit(p, n) ==
    /\ Active(p)
    /\ audit' = [audit EXCEPT ![p] = @ + n]
    /\ UNCHANGED suspend
    /\ Interrupt(p)
    /\ stop' = [stop EXCEPT ![p] = [task[p] EXCEPT !.pc = Await(p)]]

\* n is the number of child runs the stop endpoint found active.  Cleanup has
\* already taken its audit events when a second request arrives.
StopRun(p, n) ==
    /\ Active(p)
    /\ audit' = [audit EXCEPT ![p] = IF @ = 0 /\ task[p].pc # "cancel" THEN n ELSE @]
    /\ UNCHANGED suspend
    /\ Interrupt(p)
    /\ stop' = [stop EXCEPT ![p] = [task[p] EXCEPT !.pc = Await(p)]]

StopRequest(p) ==
    /\ Serving(p)
    /\ stop[p].pc \in {"idle", "wait"}
    /\ \E n \in 0..1 : StopRun(p, n)
    /\ UNCHANGED <<journalVars, up, hyd, todo, start, shut, reject, faults>>

\* Mutant of StopCheck: the task is trusted to have closed the run.
StopCheckTrusting(p) ==
    /\ stop[p].pc = "check"
    /\ stop' = [stop EXCEPT ![p].pc = "clear"]
    /\ UNCHANGED <<journalVars, up, hyd, todo, start, task, inner, orphans, suspend,
                   audit, shut, reject, faults>>

\* cancel() after the task: is the run still leased?
StopCheck(p) ==
    /\ stop[p].pc = "check"
    /\ \/ /\ stop' = [stop EXCEPT ![p].pc =
                        IF \E l \in lease : l.run = stop[p].run THEN "persist" ELSE "clear"]
          /\ UNCHANGED <<journalVars, faults>>
       \/ Fault /\ stop' = [stop EXCEPT ![p] = NoJob]
    /\ UNCHANGED <<up, hyd, todo, start, task, inner, orphans, suspend, audit, shut,
                   reject>>

StopPersist(p) ==
    /\ stop[p].pc = "persist"
    /\ \/ /\ AppendTerminalAndRelease(stop[p].run, p, stop[p].token, "cancelled")
          /\ UNCHANGED faults
          /\ stop' = [stop EXCEPT ![p].pc = "clear"]
       \/ /\ Raises(stop[p].run, p, stop[p].token)
          /\ stop' = [stop EXCEPT ![p] = NoJob]
    /\ UNCHANGED <<up, hyd, todo, start, task, inner, orphans, suspend, audit, shut,
                   reject>>

\* The coordinator forgets the task unless the finally block has done so.
Forget(p, t) ==
    LET mine == task[p].pc = "ended" /\ task[p].token = t IN
    /\ task'    = [task    EXCEPT ![p] = IF mine THEN NoJob ELSE @]
    /\ audit'   = [audit   EXCEPT ![p] = IF mine THEN 0 ELSE @]
    /\ suspend' = [suspend EXCEPT ![p] = IF mine THEN FALSE ELSE @]

StopClear(p) ==
    /\ stop[p].pc = "clear"
    /\ Forget(p, stop[p].token)
    /\ stop' = [stop EXCEPT ![p] = NoJob]
    /\ UNCHANGED <<journalVars, up, hyd, todo, start, inner, orphans, shut, reject,
                   faults>>

\* CodingRunRegistry.shutdown and _shutdown_run: the approval is read first,
\* the run is suspended or cancelled afterwards.
ShutdownDecide(p) ==
    /\ up[p] = "closing"
    /\ shut[p] = "idle"
    /\ Active(p)
    /\ shut' = [shut EXCEPT ![p] =
                  IF RecoverableApproval(task[p].run) THEN "suspend" ELSE "cancel"]
    /\ UNCHANGED <<journalVars, up, hyd, todo, start, task, inner, orphans, suspend,
                   audit, stop, reject, faults>>

ShutdownSuspend(p) ==
    /\ shut[p] = "suspend"
    /\ Active(p)
    /\ suspend' = [suspend EXCEPT ![p] = TRUE]
    /\ Interrupt(p)
    /\ shut' = [shut EXCEPT ![p] = Await(p)]
    /\ UNCHANGED <<journalVars, up, hyd, todo, start, audit, stop, reject, faults>>

ShutdownCancel(p) ==
    /\ shut[p] = "cancel"
    /\ StopRun(p, 0)
    /\ shut' = [shut EXCEPT ![p] = "done"]
    /\ UNCHANGED <<journalVars, up, hyd, todo, start, reject, faults>>

SuspendClear(p) ==
    /\ shut[p] = "check"
    /\ Forget(p, task[p].token)
    /\ shut' = [shut EXCEPT ![p] = "done"]
    /\ UNCHANGED <<journalVars, up, hyd, todo, start, inner, orphans, stop, reject,
                   faults>>

--------------------
Recovery(p) == RecoverLease(p) \/ ListUnfinished(p) \/ RecoverCheck(p) \/ RecoverClose(p)

Starting(p) == Begin(p) \/ Resume(p) \/ StartOwn(p) \/ StartAbort(p)

\* What the event loop does by itself once the stream has spoken.
Consuming(p) ==
    \/ TaskBegin(p) \/ InnerCommit(p) \/ PersistReturn(p)
    \/ CompletePersist(p) \/ FailPersist(p) \/ CancelCleanup(p) \/ SuspendCleanup(p)
    \/ Final(p) \/ OrphanCommit(p)

Stopping(p) ==
    \/ StopCheck(p) \/ StopPersist(p) \/ StopClear(p)
    \/ ShutdownDecide(p) \/ ShutdownSuspend(p) \/ ShutdownCancel(p) \/ SuspendClear(p)

Requests(p) ==
    \/ \E r \in Runs : StartCheck(p, r) \/ RespondCheck(p, r) \/ RejectBegin(p, r)
    \/ RejectEnd(p)
    \/ \E c \in Contents : StreamYield(p, c)
    \/ StreamEnd(p)
    \/ StopRequest(p)
    \/ ShutdownBegin(p)

Next == \E p \in Owners :
    \/ Boot(p) \/ Crash(p) \/ RecoveryFails(p)
    \/ Recovery(p) \/ Starting(p) \/ Consuming(p) \/ Stopping(p) \/ Requests(p)

Spec == Init /\ [][Next]_vars

\* The event loop and the worker threads of a live instance keep running, and
\* the client that opened the session keeps its request alive.  Nothing is
\* assumed of the stream, of users or of crashes.
Fairness == \A p \in Owners :
    WF_vars(Recovery(p)) /\ WF_vars(Starting(p)) /\ WF_vars(Consuming(p)) /\ WF_vars(Stopping(p))

FairSpec == Spec /\ Fairness

--------------------
TypeOK ==
    /\ JournalTypeOK
    /\ up      \in [Owners -> {"off", "up", "closing", "dead"}]
    /\ hyd     \in [Owners -> {"no", "list", "check", "close", "yes"}]
    /\ todo    \in [Owners -> SUBSET Runs]
    /\ start   \in [Owners -> Job(StartPCs)]
    /\ task    \in [Owners -> Job(TaskPCs)]
    /\ inner   \in [Owners -> [state : {"none", "pending", "stored", "raised"},
                               run : Runs \cup {NoRun}, token : Nat,
                               kind : Kinds, info : Infos]]
    /\ orphans \in [Owners -> SUBSET [run : Runs \cup {NoRun}, token : Nat, status : Statuses]]
    /\ suspend \in [Owners -> BOOLEAN]
    /\ audit   \in [Owners -> 0..1]
    /\ stop    \in [Owners -> Job(StopPCs)]
    /\ shut    \in [Owners -> {"idle", "suspend", "cancel", "wait", "check", "done"}]
    /\ reject  \in [Owners -> Runs \cup {NoRun}]
    /\ faults  \in Nat

(* While a live instance consumes the stream of a run, that instance holds
   the session lease under the token of the task: no recovery, late thread
   or second instance takes a run away from a live owner. *)
LiveRunHoldsLease ==
    \A p \in Owners :
        task[p].pc \in {"new", "stream", "complete"}
          => lease = {LeaseRow(task[p].run, p, task[p].token)}

(* A live instance with nothing in progress does not sit on the lease: if
   it did, the session would accept no run until the process restarts,
   because recovery never takes a lease from a live owner.  (A failed
   journal transaction may leave it there.) *)
Quiescent(p) ==
    /\ up[p] = "up"
    /\ start[p].pc = "idle" /\ task[p].pc = "idle" /\ stop[p].pc = "idle"

NoLeakedLease ==
    faults = 0 => \A p \in Owners : Quiescent(p) => \A l \in lease : l.owner # p

(* The lease follows the work of live instances: never taken from one that
   streams, never kept by one that is idle. *)
LeasesHold == LiveRunHoldsLease /\ NoLeakedLease

(* Two runs of a session are never open at the same time, not even when
   the older one waits for an approval without a lease. *)
OneOpenRun ==
    \A q, r \in Runs :
        /\ HasStarted(q) /\ ~HasTerminal(q)
        /\ HasStarted(r) /\ ~HasTerminal(r)
        => q = r

(* Recovery closes only runs nobody can resume: a run that waits for an
   approval is never recorded as interrupted by a later instance. *)
RecoveryKeepsApprovals ==
    [][\A r \in Runs :
          RecoverableApproval(r) /\ HasTerminal(r)' => events'[Len(events')].token # 0]_vars

(* A stopped run comes to a terminal event, unless its instance goes away
   first: cancel() may meet any await of the task, a shielded write or a
   second cancel(). *)
StopTerminates ==
    \A p \in Owners, r \in Runs :
        (stop[p].pc # "idle" /\ stop[p].run = r) ~> (HasTerminal(r) \/ ~Serving(p))

(* A run whose owner died does not stay open without a reason: once some
   instance serves the session for good, every started run is being worked
   on, waits for an approval, or is closed (recover_interrupted_runs). *)
Abandoned(r) ==
    /\ HasStarted(r) /\ ~HasTerminal(r) /\ ~RecoverableApproval(r)
    /\ \A p \in Owners : task[p].run # r /\ start[p].run # r /\ stop[p].run # r

AbandonedRunIsClosed ==
    \A p \in Owners, r \in Runs :
        (up[p] = "up" /\ Abandoned(r)) ~> (~Abandoned(r) \/ up[p] # "up")

(* No run stays open: neither a stopped one nor an abandoned one. *)
RunsSettle == StopTerminates /\ AbandonedRunIsClosed

(* CodingRunRegistry.shutdown promises to stop app-owned tasks "while
   preserving checkpoint-backed approvals": an instance that is shutting
   down never closes as cancelled a run that waits for an approval. *)
ShutdownKeepsApprovals ==
    [][\A r \in Runs, l \in lease :
          /\ l.run = r /\ up[l.owner] = "closing"
          /\ RecoverableApproval(r)
          /\ HasTerminal(r)'
          => events'[Len(events')].info # "cancelled"]_vars
====
