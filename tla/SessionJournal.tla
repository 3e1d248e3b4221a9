---- MODULE SessionJournal ----
(* The durable timeline of one coding session
   (core/coding/persistence/session_event_journal.py): the append-only
   table session_events, the single-row table active_run_lease and the
   fencing counter run_fence_state.  Every method of the journal is one
   BEGIN IMMEDIATE transaction, hence one action; a call that raises
   leaves the tables alone and is not a step.

   Owners are application instances: each has its own owner_id and its own
   process fingerprint, so a restarted server is another owner. *)
EXTENDS Naturals, Sequences

CONSTANTS Runs,      \* run identifiers
          Owners,    \* application instances
          Calls      \* tool calls that may need an approval

VARIABLES events,    \* session_events, in order of their sequence number
          lease,     \* active_run_lease: a table of at most one row
          nextToken  \* run_fence_state.next_token

journalVars == <<events, lease, nextToken>>

Statuses == {"completed", "cancelled", "interrupted", "error"}

\* What the lease rules tell apart in an event.  "note" stands for every other
\* kind of nonterminal event; info is the tool call of an approval request or
\* of a tool result, and the status of a terminal.
Contents ==
    [kind : {"note"}, info : {"none"}]
      \cup [kind : {"approval", "result"}, info : Calls]
      \cup [kind : {"terminal"}, info : Statuses]

Kinds == {"started", "note", "approval", "result", "terminal"}
Infos == {"none"} \cup Calls \cup Statuses

\* token is a history field: the fencing token the writer presented, 0 if none.
Event(r, k, i, t) == [run |-> r, kind |-> k, info |-> i, token |-> t]

LeaseRow(r, o, t) == [run |-> r, owner |-> o, token |-> t]

--------------------
Of(r, k) == {n \in DOMAIN events : events[n].run = r /\ events[n].kind = k}

HasHistory(r)  == \E n \in DOMAIN events : events[n].run = r
HasStarted(r)  == Of(r, "started") # {}
HasTerminal(r) == Of(r, "terminal") # {}

\* _has_unresolved_approval: one pending slot, overwritten by each approval
\* request and emptied by the result of the call it holds.
HasUnresolvedApproval(r) ==
    \E n \in Of(r, "approval") :
        /\ \A m \in Of(r, "approval") : m <= n
        /\ \A m \in Of(r, "result") : m > n => events[m].info # events[n].info

\* recoverable_approval(run_id): some approval request that no later result of
\* its call answers; the search for an answer stops at a repeated request.
RecoverableApproval(r) ==
    /\ ~HasTerminal(r)
    /\ \E n \in Of(r, "approval") :
          ~ \E m \in Of(r, "result") :
                /\ m > n
                /\ events[m].info = events[n].info
                /\ \A k \in Of(r, "approval") :
                       n < k /\ k < m => events[k].info # events[n].info

\* recoverable_approval(None): over every run of the session.
AnyRecoverableApproval == \E r \in Runs : RecoverableApproval(r)

\* Mutant of UnfinishedRuns: any run with an event counts, not only a started one.
UnfinishedRunsAny ==
    {r \in Runs : HasHistory(r) /\ ~HasTerminal(r) /\ \A l \in lease : l.run # r}

UnfinishedRuns ==
    {r \in Runs : HasStarted(r) /\ ~HasTerminal(r) /\ \A l \in lease : l.run # r}

\* _assert_run_lease, with and without credentials.
Fenced(r, o, t) == LeaseRow(r, o, t) \in lease
Unleased(r)     == \A l \in lease : l.run # r

--------------------
JournalInit ==
    /\ events = <<>>
    /\ lease = {}
    /\ nextToken = 1

\* Mutant of AppendFenced: a missing lease row passes the check.
AppendFencedOrFree(r, o, t, c) ==
    /\ Fenced(r, o, t) \/ Unleased(r)
    /\ events' = Append(events, Event(r, c.kind, c.info, t))
    /\ UNCHANGED <<lease, nextToken>>

\* append: a nonterminal event under the lease.
AppendFenced(r, o, t, c) ==
    /\ Fenced(r, o, t)
    /\ events' = Append(events, Event(r, c.kind, c.info, t))
    /\ UNCHANGED <<lease, nextToken>>

\* append without credentials.
AppendUnfenced(r) ==
    /\ Unleased(r)
    /\ events' = Append(events, Event(r, "note", "none", 0))
    /\ UNCHANGED <<lease, nextToken>>

\* _terminal_in_transaction: the first terminal of a run wins.
WithTerminal(r, s, t) ==
    IF HasTerminal(r) THEN events ELSE Append(events, Event(r, "terminal", s, t))

\* append_terminal_once, always called without credentials.
AppendTerminalOnce(r, s) ==
    /\ Unleased(r)
    /\ events' = WithTerminal(r, s, 0)
    /\ UNCHANGED <<lease, nextToken>>

\* append_terminal_and_release under the lease.
AppendTerminalAndRelease(r, o, t, s) ==
    /\ Fenced(r, o, t)
    /\ events' = WithTerminal(r, s, t)
    /\ lease' = {l \in lease : l.run # r}
    /\ UNCHANGED nextToken

\* append_terminal_and_release without credentials: there is no row to delete.
CloseUnleased(r, s) ==
    /\ Unleased(r)
    /\ events' = WithTerminal(r, s, 0)
    /\ UNCHANGED <<lease, nextToken>>

\* begin_run: the lease and the run_started event in one transaction.
BeginRun(r, o) ==
    /\ lease = {}
    /\ ~HasTerminal(r)
    /\ nextToken' = nextToken + 1
    /\ lease' = {LeaseRow(r, o, nextToken)}
    /\ events' = Append(events, Event(r, "started", "none", nextToken))

\* resume_run: a fresh lease on a run with history, and no event.
ResumeRun(r, o) ==
    /\ lease = {}
    /\ HasHistory(r)
    /\ ~HasTerminal(r)
    /\ nextToken' = nextToken + 1
    /\ lease' = {LeaseRow(r, o, nextToken)}
    /\ UNCHANGED events

\* release_run_lease.
ReleaseRunLease(r, o, t) ==
    /\ Fenced(r, o, t)
    /\ lease' = {l \in lease : l.run # r}
    /\ UNCHANGED <<events, nextToken>>

\* recover_run_lease once the recorded owner is known to be gone (no such
\* process, or another fingerprint under its pid).  With a live or an
\* unverifiable owner the method changes nothing.
RecoverDeadLease ==
    \E l \in lease :
        /\ events' = IF HasUnresolvedApproval(l.run) THEN events
                     ELSE WithTerminal(l.run, "interrupted", 0)
        /\ lease' = {}
        /\ UNCHANGED nextToken

--------------------
(* The journal as its callers use it, whatever their order, their timing
   and their judgement of who is alive.  Callers draw a fresh identifier
   for begin_run and for the note-and-terminal record of a rejected input,
   so only events of such a record are ever appended without a lease. *)
RejectedInput(r) == \A n \in DOMAIN events :
                        events[n].run = r => events[n].kind = "note" /\ events[n].token = 0

JournalNext ==
    \/ \E r \in Runs, o \in Owners :
          \/ ~HasHistory(r) /\ BeginRun(r, o)
          \/ ResumeRun(r, o)
    \/ \E l \in lease :
          \/ \E c \in Contents : c.kind # "terminal" /\ AppendFenced(l.run, l.owner, l.token, c)
          \/ \E s \in Statuses : AppendTerminalAndRelease(l.run, l.owner, l.token, s)
          \/ ReleaseRunLease(l.run, l.owner, l.token)
    \/ \E r \in Runs :
          \/ RejectedInput(r) /\ AppendUnfenced(r)
          \/ RejectedInput(r) /\ AppendTerminalOnce(r, "error")
          \/ HasStarted(r) /\ CloseUnleased(r, "interrupted")
    \/ RecoverDeadLease

JournalSpec == JournalInit /\ [][JournalNext]_journalVars

--------------------
JournalTypeOK ==
    /\ events \in Seq([run : Runs, kind : Kinds, info : Infos, token : Nat])
    /\ lease \in SUBSET [run : Runs, owner : Owners, token : Nat]
    /\ nextToken \in Nat \ {0}

(* Nothing is recorded for a run after its terminal event, so a run has at
   most one terminal: neither a stale owner, nor a recovery, nor a late
   thread of a cancelled task writes to a closed run
   (append, append_terminal_and_release, recover_run_lease). *)
TerminalIsLast ==
    \A m, n \in DOMAIN events :
        m < n /\ events[m].run = events[n].run => events[m].kind # "terminal"

(* Fencing: once an event has been written under a token, no event is ever
   written under an older one, so an owner that lost its lease and does
   not know it cannot interleave with its successor (_assert_run_lease). *)
TokensNeverGoBack ==
    \A m, n \in DOMAIN events :
        m < n /\ events[n].token # 0 => events[m].token <= events[n].token

(* The lease row is the youngest token ever handed out and belongs to a
   run that is still open (begin_run, resume_run and the release that
   append_terminal_and_release does in the transaction of the terminal). *)
LeaseIsCurrent ==
    \A l \in lease : ~HasTerminal(l.run) /\ l.token = nextToken - 1
====
