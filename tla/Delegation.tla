---- MODULE Delegation ----
(* Awaited child agents of the graph harness: the budget of a parent run
   (RunBudgetMiddleware), the delegation ledger in the checkpoint
   (SubagentLifecycleMiddleware and the reducers of state.py), the task
   tool with its timeout (subagents/tool.py), and the executor that runs a
   child on Sage's engine and records it in the run store
   (core/harness/subagent_adapter.py).

   The tool calls of one model message run concurrently; their results
   reach the ledger together, when the last of them is in (one superstep
   of the graph).  A child is identified by its parent run and its tool
   call (derive_child_run_id), so a model that repeats a call id within a
   run names the same child again. *)
EXTENDS Naturals, FiniteSets, Sequences, FiniteSetsExt, SequencesExt

CONSTANTS
  DgCalls,         \* tool call ids the model may use
  DgTypes,         \* subagent types the model may ask for
  DgProfiles,      \* [type -> [tokens, steps]] of the registered profiles
  DgDefaults,      \* [tokens, steps] when the type is not registered
  DgMinReserve,    \* _MIN_CHILD_RESERVATION
  DgConcurrent,    \* SubagentLimits.max_concurrent
  DgTotal,         \* SubagentLimits.max_total_per_run
  DgLimit,         \* [tokens, models, tools] of RunBudgetMiddleware
  DgUsages,        \* token usage a model call may report
  DgReuse,         \* may the model repeat a call id of an earlier message
  DgMaxRuns,       \* bound: parent runs of the thread
  DgMaxBatch,      \* bound: tool calls in one message
  DgMaxFaults      \* bound: failed writes of the run store

ASSUME DgAssumption ==
  /\ IsFiniteSet(DgCalls) /\ DgCalls # {}
  /\ \A type \in DOMAIN DgProfiles : DgProfiles[type] \in [tokens : Nat, steps : Nat]
  /\ DgDefaults \in [tokens : Nat, steps : Nat]
  /\ DgMinReserve \in Nat \ {0} /\ DgConcurrent \in Nat /\ DgTotal \in Nat
  /\ DgLimit \in [tokens : Nat, models : Nat, tools : Nat]
  /\ DgUsages \in SUBSET Nat /\ DgUsages # {} /\ IsFiniteSet(DgUsages)
  /\ DgReuse \in BOOLEAN
  /\ DgMaxRuns \in Nat \ {0} /\ DgMaxBatch \in Nat /\ DgMaxFaults \in Nat

VARIABLES
  dgRun,           \* the parent run
  dgAt,            \* where the parent graph is: "idle", "model", "tools"
  dgUsed,          \* the parent's own [tokens, models, tools] of this run
  dgLedger,        \* checkpointed delegations, by child
  dgEvidence,      \* children whose evidence the checkpoint holds
  dgTask,          \* the task tool of every child of the current batch
  dgChild,         \* the run store's view of a child
  dgStop,          \* runtime.stop_requested
  dgCrashed,       \* the process died since the run began
  dgFaults         \* run store writes that failed so far

dgVars == <<dgRun, dgAt, dgUsed, dgLedger, dgEvidence, dgTask, dgChild,
            dgStop, dgCrashed, dgFaults>>

--------------------

Children == (1..DgMaxRuns) \X DgCalls

Terminal == {"succeeded", "failed", "cancelled", "timed_out"}

None == [tokens |-> 0, models |-> 0, tools |-> 0]

Plus(a, b) == [k \in DOMAIN a |-> a[k] + b[k]]

Minus(a, b) == [k \in DOMAIN a |-> IF a[k] > b[k] THEN a[k] - b[k] ELSE 0]

(* derive_child_run_id *)
ChildOf(call) == <<dgRun, call>>

(* The children the ledger has an entry for in the current run. *)
Prior == {c \in Children : c[1] = dgRun /\ dgLedger[c].status # "none"}

(* SubagentToolConfig.resolve *)
Registered(type) == type \in DOMAIN DgProfiles

Profile(type) == IF Registered(type) THEN DgProfiles[type] ELSE DgDefaults

(* delegation_budget_usage: an open child counts for all it reserved. *)
BudgetUsage(entry) ==
  IF entry.status = "running" THEN entry.reserved
  ELSE IF entry.status \in Terminal THEN entry.used ELSE None

(* _child_budget_usage, _child_usage *)
ChildUsage ==
  FoldSet(LAMBDA c, acc : Plus(BudgetUsage(dgLedger[c]), acc), None, Prior)

--------------------
(* The ledger. *)

(* merge_delegations on one entry: a terminal entry is never reopened, and
   a second, different terminal status is an error of the graph. *)
Conflict(old, new) ==
  /\ old.status \in Terminal
  /\ new.status \in Terminal
  /\ old.status # new.status

MergeEntry(old, new) ==
  IF old.status \in Terminal /\ new.status \notin Terminal THEN old ELSE new

(* _needs_reservation *)
NeedsReservation(entry) ==
  /\ entry.status = "running"
  /\ \/ entry.reserved.tokens < DgMinReserve
     \/ entry.reserved.models < 3
     \/ entry.reserved.tools < 1

(* _close_stale, before_agent: what another run left open is cancelled. *)
CloseStale(ledger, run) ==
  [c \in Children |->
     IF ledger[c].status = "running" /\ c[1] # run
     THEN [ledger[c] EXCEPT !.status = "cancelled"]
     ELSE ledger[c]]

(* What is left to reserve once the message is counted: one more model
   call is kept back for the parent's answer. *)
Remaining(used) ==
  Minus(Minus(DgLimit, Plus(used, ChildUsage)),
        [tokens |-> 0, models |-> 1, tools |-> 0])

(* reservation_slots: over how many new children the rest is shared out. *)
Slots(batch, rest, total) ==
  LET candidates == {ChildOf(batch[i].call) : i \in DOMAIN batch}
      fresh == {c \in candidates : c \notin Prior \/ NeedsReservation(dgLedger[c])}
  IN Min({DgConcurrent, total, Cardinality(fresh),
          rest.tokens \div DgMinReserve, rest.models \div 3, rest.tools})

Share(n, slots) == n \div Max({1, slots})

(* The part of the rest one new child gets; 0 steps when it is too little. *)
Reserve(type, rest, slots) ==
  LET steps == Min({Profile(type).steps, Share(rest.tools, slots),
                    Minus([n |-> Share(rest.models, slots)], [n |-> 2]).n})
      tokens == Min({Profile(type).tokens, Share(rest.tokens, slots)})
  IN IF tokens < DgMinReserve \/ steps < 1 THEN None
     ELSE [tokens |-> tokens, models |-> steps + 2, tools |-> steps]

(* Mutant: what one child reserved is offered to the next one again. *)
LeftUntouched(rest, share) == rest

(* What is left for the children after this one. *)
Left(rest, share) == Minus(rest, share)

ActivePractice == {c \in Prior : dgLedger[c].type = "practice"
                                 /\ dgLedger[c].status = "running"}

(* One task call of _after_model, given what the earlier ones took. *)
Admit(acc, item, slots) ==
  LET c == ChildOf(item.call)
      known == c \in Prior
      allowed == /\ c \notin acc.seen
                 /\ Cardinality(acc.kept) < DgConcurrent
                 /\ known \/ acc.total > 0
                 /\ item.type = "practice"
                    => /\ ~acc.practice
                       /\ ActivePractice = {} \/ c \in ActivePractice
      settled == known /\ ~NeedsReservation(dgLedger[c])
      share == Reserve(item.type, acc.rest, Minus([n |-> slots], [n |-> acc.taken]).n)
      opens == ~settled /\ share # None
      entry == [status |-> "running", type |-> item.type, reserved |-> share,
                used |-> None, evidence |-> FALSE]
  IN IF ~allowed THEN acc
     ELSE [kept     |-> IF settled \/ opens
                        THEN acc.kept \cup {[child |-> c, type |-> item.type]} ELSE acc.kept,
           seen     |-> acc.seen \cup {c},
           total    |-> IF opens /\ ~known THEN acc.total - 1 ELSE acc.total,
           rest     |-> IF opens THEN Left(acc.rest, share) ELSE acc.rest,
           taken    |-> IF settled THEN acc.taken ELSE acc.taken + 1,
           practice |-> acc.practice \/ item.type = "practice",
           ledger   |-> IF opens THEN [acc.ledger EXCEPT ![c] = entry] ELSE acc.ledger]

(* SubagentLifecycleMiddleware._after_model *)
AfterModel(batch, used) ==
  LET total == Minus([n |-> DgTotal], [n |-> Cardinality(Prior)]).n
      rest == Remaining(used)
      slots == Slots(batch, rest, total)
  IN FoldLeft(LAMBDA acc, item : Admit(acc, item, slots),
              [kept |-> {}, seen |-> {}, total |-> total, rest |-> rest, taken |-> 0,
               practice |-> FALSE, ledger |-> dgLedger],
              batch)

--------------------
(* The parent graph. *)

NoTask == [at |-> "none", type |-> "none", result |-> "none",
           used |-> None, evidence |-> FALSE]

NoTasks == [c \in Children |-> NoTask]

DgNoEntry == [status |-> "none", type |-> "none", reserved |-> None, used |-> None,
            evidence |-> FALSE]

NoChild == [at |-> "none", terminal |-> "none", used |-> None, evidence |-> FALSE]

(* The thread begins with a run that was cut off while a child was open
   (which call started it does not matter): the ledger still holds its
   entry and the run store its started event. *)
DgInit ==
  /\ dgRun = 1
  /\ dgAt = "idle"
  /\ dgUsed = None
  /\ LET open == <<1, CHOOSE call \in DgCalls : TRUE>>
     IN /\ dgLedger = [c \in Children |->
             IF c = open
             THEN [status |-> "running", type |-> "research", used |-> None, evidence |-> FALSE,
                   reserved |-> [tokens |-> DgMinReserve, models |-> 3, tools |-> 1]]
             ELSE DgNoEntry]
        /\ dgChild = [c \in Children |->
             IF c = open THEN [NoChild EXCEPT !.at = "lost"] ELSE NoChild]
  /\ dgEvidence = {}
  /\ dgTask = NoTasks
  /\ dgStop = FALSE
  /\ dgCrashed = FALSE
  /\ dgFaults = 0

(* A turn begins: RunBudgetMiddleware.before_agent starts the counters of
   the new run, SubagentLifecycleMiddleware.before_agent closes the rest. *)
DgBegin ==
  /\ dgAt = "idle"
  /\ dgRun < DgMaxRuns
  /\ dgRun' = dgRun + 1
  /\ dgAt' = "model"
  /\ dgUsed' = None
  /\ dgLedger' = CloseStale(dgLedger, dgRun + 1)
  /\ dgTask' = NoTasks
  /\ dgStop' = FALSE
  /\ dgCrashed' = FALSE
  /\ UNCHANGED <<dgEvidence, dgChild, dgFaults>>

(* RunBudgetMiddleware.before_model *)
Exhausted(total) == total.tokens >= DgLimit.tokens \/ total.models >= DgLimit.models

(* jump_to end, with the budget stop recorded. *)
DgCapped ==
  /\ dgAt = "model"
  /\ Exhausted(Plus(dgUsed, ChildUsage))
  /\ dgAt' = "idle"
  /\ UNCHANGED <<dgRun, dgUsed, dgLedger, dgEvidence, dgTask, dgChild, dgStop,
                 dgCrashed, dgFaults>>

(* RunBudgetMiddleware.after_model: the message may not use its tools when
   the tokens are spent, or no model call or too few tool calls are left. *)
StopsTools(used, wanted) ==
  LET total == Plus(used, ChildUsage)
  IN \/ total.tokens >= DgLimit.tokens
     \/ wanted > 0 /\ total.models >= DgLimit.models
     \/ wanted > 0 /\ total.tools + wanted > DgLimit.tools

(* The calls of a message.  A provider mints a new id for every call; one
   that does not repeats ids of the run. *)
Batches ==
  {b \in SeqOf([call : DgCalls, type : DgTypes], DgMaxBatch) :
     DgReuse \/ \A i \in DOMAIN b : ChildOf(b[i].call) \notin Prior}

(* A model call of the parent, with the hooks that follow it.  A message
   without tool calls, or left without any, ends the run. *)
DgModel(batch, tokens) ==
  LET used == Plus(dgUsed, [tokens |-> tokens, models |-> 1, tools |-> 0])
      counted == [used EXCEPT !.tools = @ + Len(batch)]
      after == AfterModel(batch, counted)
  IN /\ dgAt = "model"
     /\ ~Exhausted(Plus(dgUsed, ChildUsage))
     /\ IF StopsTools(used, Len(batch)) \/ batch = << >>
        THEN dgAt' = "idle" /\ dgUsed' = used /\ UNCHANGED <<dgLedger, dgTask>>
        ELSE /\ dgUsed' = counted
             /\ dgLedger' = after.ledger
             /\ dgAt' = IF after.kept = {} THEN "idle" ELSE "tools"
             /\ dgTask' = [c \in Children |->
                  IF \E k \in after.kept : k.child = c
                  THEN [at |-> "starting", type |-> (CHOOSE k \in after.kept : k.child = c).type,
                        result |-> "none", used |-> None, evidence |-> FALSE]
                  ELSE NoTask]
     /\ UNCHANGED <<dgRun, dgEvidence, dgChild, dgStop, dgCrashed, dgFaults>>

--------------------
(* The task tool and the executor. *)

(* _reserved_token_budget, _reserved_max_steps: what the child may use. *)
Granted(c) == dgLedger[c].reserved

Result(c, status, used, evidence) ==
  dgTask' = [dgTask EXCEPT ![c] = [at |-> "done", type |-> @.type, result |-> status,
                                   used |-> used, evidence |-> evidence]]

(* A prompt that is blank makes SubagentRequest raise before the executor
   is reached: the tool answers with an error and the ledger is untouched. *)
DgBlankPrompt(c) ==
  /\ dgTask[c].at = "starting"
  /\ dgTask' = [dgTask EXCEPT ![c].at = "done"]
  /\ UNCHANGED <<dgRun, dgAt, dgUsed, dgLedger, dgEvidence, dgChild, dgStop,
                 dgCrashed, dgFaults>>

(* _validate, for the part that depends on the state: a Synthesize child
   needs the evidence of a Research child of this run that succeeded. *)
Valid(c) ==
  dgTask[c].type = "synthesize" =>
    \E r \in Prior \cap dgEvidence :
      dgLedger[r].type = "research" /\ dgLedger[r].status = "succeeded"
                                   /\ dgLedger[r].evidence

(* _cached_result: the last terminal the run store has of this child. *)
Cached(c) == dgChild[c].terminal # "none"

DgStart(c) ==
  /\ dgTask[c].at = "starting"
  /\ IF ~Registered(dgTask[c].type) \/ ~Valid(c)
     THEN Result(c, "failed", None, FALSE) /\ UNCHANGED dgChild
     ELSE IF Cached(c)
     THEN /\ Result(c, dgChild[c].terminal, dgChild[c].used, dgChild[c].evidence)
          /\ UNCHANGED dgChild
     ELSE /\ dgTask' = [dgTask EXCEPT ![c].at = "running"]
          /\ dgChild' = [dgChild EXCEPT ![c].at = "running"]
  /\ UNCHANGED <<dgRun, dgAt, dgUsed, dgLedger, dgEvidence, dgStop, dgCrashed, dgFaults>>

Running(c) == dgTask[c].at = "running" /\ dgChild[c].at = "running"

(* should_stop of the worker: the parent stops, or its tokens are spent. *)
OverBudget(c) == dgChild[c].used.tokens >= Granted(c).tokens

(* The child's engine loop may go on: steps and attempts are left. *)
MayGoOn(c) ==
  /\ ~dgStop
  /\ ~OverBudget(c)
  /\ dgChild[c].used.tools < Granted(c).tools
  /\ dgChild[c].used.models < Granted(c).tools + 2

(* _search_knowledge, _search_web, _fetch_web and _read_evidence_bundle
   may bring evidence; the tools of the other profiles never do. *)
FindsEvidence(type, tools) == tools > 0 /\ type \in {"research", "synthesize"}

(* One model call of the child and the tools it asks for, counted as their
   events are emitted. *)
DgChildStep(c, tokens, tools, found) ==
  /\ Running(c)
  /\ MayGoOn(c)
  /\ dgChild[c].used.tools + tools <= Granted(c).tools
  /\ found => FindsEvidence(dgTask[c].type, tools)
  /\ dgChild' = [dgChild EXCEPT ![c] =
        [at |-> @.at, terminal |-> @.terminal, evidence |-> @.evidence \/ found,
         used |-> Plus(@.used, [tokens |-> tokens, models |-> 1, tools |-> tools])]]
  /\ UNCHANGED <<dgRun, dgAt, dgUsed, dgLedger, dgEvidence, dgTask, dgStop,
                 dgCrashed, dgFaults>>

(* _settled_token_usage: a provider that reports no usage costs it all. *)
DgSettled(c, used) ==
  IF used.tokens > 0 \/ used.models = 0 THEN used
  ELSE [used EXCEPT !.tokens = Granted(c).tokens]

(* _append_terminal, then the return of execute; the task tool has not
   woken up yet. *)
Ended(c, status, used, evidence) ==
  /\ dgChild' = [dgChild EXCEPT ![c] = [at |-> "ended", terminal |-> status,
                    used |-> DgSettled(c, used), evidence |-> evidence]]
  /\ dgTask' = [dgTask EXCEPT ![c] = [at |-> "returned", type |-> @.type, result |-> status,
                   used |-> DgSettled(c, used), evidence |-> evidence]]

(* The child answers, in its last model call or with the summary of the
   step limit.  An empty answer, or a synthesis that read no evidence, is
   a failure. *)
DgChildAnswers(c, tokens, text) ==
  LET limit == /\ ~MayGoOn(c) /\ ~dgStop /\ ~OverBudget(c)
      used == IF limit THEN dgChild[c].used
              ELSE Plus(dgChild[c].used, [tokens |-> tokens, models |-> 1, tools |-> 0])
      good == text /\ (dgTask[c].type = "synthesize" => dgChild[c].evidence)
  IN /\ Running(c)
     /\ MayGoOn(c) \/ limit
     /\ limit => text
     /\ Ended(c, IF good THEN "succeeded" ELSE "failed", used, dgChild[c].evidence)
     /\ UNCHANGED <<dgRun, dgAt, dgUsed, dgLedger, dgEvidence, dgStop, dgCrashed,
                    dgFaults>>

(* The engine sees should_stop: WorkerTaskBudgetExceeded when the tokens
   are spent, WorkerTaskCancelled otherwise.  Neither reports evidence. *)
DgChildStops(c) ==
  /\ Running(c)
  /\ dgStop \/ OverBudget(c)
  /\ Ended(c, IF OverBudget(c) THEN "failed" ELSE "cancelled", dgChild[c].used, FALSE)
  /\ UNCHANGED <<dgRun, dgAt, dgUsed, dgLedger, dgEvidence, dgStop, dgCrashed, dgFaults>>

(* The model or a tool of the child raises. *)
DgChildFails(c) ==
  /\ Running(c)
  /\ Ended(c, "failed", dgChild[c].used, FALSE)
  /\ UNCHANGED <<dgRun, dgAt, dgUsed, dgLedger, dgEvidence, dgStop, dgCrashed, dgFaults>>

(* The run store cannot be written: _append_terminal raises too, and the
   task tool only knows that the executor failed. *)
DgStoreFails(c) ==
  /\ Running(c)
  /\ dgFaults < DgMaxFaults
  /\ dgFaults' = dgFaults + 1
  /\ dgChild' = [dgChild EXCEPT ![c].at = "ended"]
  /\ Result(c, "failed", None, FALSE)
  /\ UNCHANGED <<dgRun, dgAt, dgUsed, dgLedger, dgEvidence, dgStop, dgCrashed>>

(* The awaited result wakes the task tool in time. *)
DgReturns(c) ==
  /\ dgTask[c].at = "returned"
  /\ dgTask' = [dgTask EXCEPT ![c].at = "done"]
  /\ UNCHANGED <<dgRun, dgAt, dgUsed, dgLedger, dgEvidence, dgChild, dgStop,
                 dgCrashed, dgFaults>>

(* What cancel and the awaited CancelledError do to a child that still
   runs: the executor records the terminal for that reason. *)
CancelChild(child, status) ==
  IF child.at = "running"
  THEN [at |-> "ended", terminal |-> status, used |-> child.used, evidence |-> FALSE]
  ELSE child

(* wait_for expires, perhaps after the child has returned: the whole
   reservation is charged, whatever the child had used. *)
DgTimesOut(c) ==
  /\ dgTask[c].at \in {"running", "returned"}
  /\ dgChild' = [dgChild EXCEPT ![c] = CancelChild(@, "timed_out")]
  /\ Result(c, "timed_out", Granted(c), FALSE)
  /\ UNCHANGED <<dgRun, dgAt, dgUsed, dgLedger, dgEvidence, dgStop, dgCrashed, dgFaults>>

(* _terminal_command of every task of the batch, merged by the reducers
   when the superstep ends. *)
Entry(c) ==
  [status |-> dgTask[c].result, type |-> dgTask[c].type, reserved |-> dgLedger[c].reserved,
   used |-> dgTask[c].used, evidence |-> dgTask[c].evidence]

Answered == {c \in Children : dgTask[c].at = "done" /\ dgTask[c].result # "none"}

DgApply ==
  /\ dgAt = "tools"
  /\ \A c \in Children : dgTask[c].at \in {"none", "done"}
  /\ IF \E c \in Answered : Conflict(dgLedger[c], Entry(c))
     THEN dgAt' = "idle" /\ UNCHANGED <<dgLedger, dgEvidence>>
     ELSE /\ dgAt' = "model"
          /\ dgLedger' = [c \in Children |->
               IF c \in Answered THEN MergeEntry(dgLedger[c], Entry(c)) ELSE dgLedger[c]]
          /\ dgEvidence' = dgEvidence \cup {c \in Answered : dgTask[c].evidence}
  /\ dgTask' = NoTasks
  /\ UNCHANGED <<dgRun, dgUsed, dgChild, dgStop, dgCrashed, dgFaults>>

--------------------
(* Stopping and dying. *)

(* runtime.request_stop *)
DgRequestStop ==
  /\ dgAt # "idle"
  /\ ~dgStop
  /\ dgStop' = TRUE
  /\ UNCHANGED <<dgRun, dgAt, dgUsed, dgLedger, dgEvidence, dgTask, dgChild,
                 dgCrashed, dgFaults>>

(* The run's task is cancelled, by the stop or by the time limit of the
   graph: every task tool cancels its child and waits for it. *)
DgCancelled ==
  /\ dgAt # "idle"
  /\ dgAt' = "idle"
  /\ dgChild' = [c \in Children |->
       IF dgTask[c].at = "running" THEN CancelChild(dgChild[c], "cancelled") ELSE dgChild[c]]
  /\ dgTask' = NoTasks
  /\ UNCHANGED <<dgRun, dgUsed, dgLedger, dgEvidence, dgStop, dgCrashed, dgFaults>>

(* The process dies: what ran stays open in the run store. *)
DgCrash ==
  /\ dgAt # "idle"
  /\ dgAt' = "idle"
  /\ dgCrashed' = TRUE
  /\ dgChild' = [c \in Children |->
       IF dgChild[c].at = "running" THEN [dgChild[c] EXCEPT !.at = "lost"] ELSE dgChild[c]]
  /\ dgTask' = NoTasks
  /\ UNCHANGED <<dgRun, dgUsed, dgLedger, dgEvidence, dgStop, dgFaults>>

--------------------

DgParent ==
  \/ DgCapped
  \/ \E batch \in Batches, t \in DgUsages : DgModel(batch, t)
  \/ DgApply

DgWork(c) ==
  \/ DgBlankPrompt(c)
  \/ DgStart(c)
  \/ \E t \in DgUsages, n \in 0..2, found \in BOOLEAN : DgChildStep(c, t, n, found)
  \/ \E t \in DgUsages, text \in BOOLEAN : DgChildAnswers(c, t, text)
  \/ DgChildStops(c)
  \/ DgChildFails(c)
  \/ DgReturns(c)
  \/ DgTimesOut(c)

DgNext ==
  \/ DgBegin
  \/ DgParent
  \/ \E c \in Children : DgWork(c) \/ DgStoreFails(c)
  \/ DgRequestStop
  \/ DgCancelled
  \/ DgCrash

(* The event loop goes on with the graph and with every child. *)
DgSpec ==
  /\ DgInit
  /\ [][DgNext]_dgVars
  /\ WF_dgVars(DgParent)
  /\ \A c \in Children : WF_dgVars(DgWork(c))

--------------------

Amounts == [tokens : Nat, models : Nat, tools : Nat]

(* Type correctness. *)
DgTypeOK ==
  /\ dgRun \in 1..DgMaxRuns
  /\ dgAt \in {"idle", "model", "tools"}
  /\ dgUsed \in Amounts
  /\ \A c \in Children :
       /\ dgLedger[c].status \in Terminal \cup {"none", "running"}
       /\ dgLedger[c].reserved \in Amounts /\ dgLedger[c].used \in Amounts
       /\ dgTask[c].at \in {"none", "starting", "running", "returned", "done"}
       /\ dgTask[c].result \in Terminal \cup {"none"}
       /\ dgChild[c].at \in {"none", "running", "ended", "lost"}
       /\ dgChild[c].terminal \in Terminal \cup {"none"}
       /\ dgChild[c].used \in Amounts
  /\ dgEvidence \subseteq Children
  /\ dgStop \in BOOLEAN /\ dgCrashed \in BOOLEAN
  /\ dgFaults \in 0..DgMaxFaults

(* What the parent and its children really used in this run. *)
Spent ==
  FoldSet(LAMBDA c, acc : Plus(dgChild[c].used, acc), dgUsed,
          {c \in Children : c[1] = dgRun})

(* The parent and all its children share one budget: the model and tool
   calls they really make stay within the run's limits however the batch
   was shared out and whichever children time out or are cancelled, and
   the tokens exceed the limit by no more than one call of every agent.
   (A child whose terminal the store could not record is not charged.) *)
DgWithinBudget ==
  dgFaults = 0 =>
    /\ Spent.models <= DgLimit.models
    /\ Spent.tools <= DgLimit.tools
    /\ Spent.tokens <= DgLimit.tokens
                        + Max(DgUsages) * (1 + Cardinality(Prior))

(* No child outlives its run, and the books agree: when the parent graph
   is idle and the process did not die, every child the executor started
   has its terminal in the run store, and a child the ledger calls
   succeeded, or whose evidence it holds, succeeded or ended there as it
   says. *)
DgChildrenSettled ==
  /\ (dgAt = "idle" /\ ~dgCrashed) =>
       \A c \in Children : c[1] = dgRun => dgChild[c].at # "running"
  /\ \A c \in Children :
       /\ dgChild[c].at = "ended" /\ dgFaults = 0 => dgChild[c].terminal # "none"
       /\ dgLedger[c].status = "succeeded" => dgChild[c].terminal = "succeeded"
       /\ c \in dgEvidence => dgChild[c].evidence

(* A turn with children ends: the budget bounds the parent's model calls,
   the steps and the timeout bound every child. *)
DgRunEnds == dgAt # "idle" ~> dgAt = "idle"

(* Children keep to the budget and to the life of their run. *)
DgRunHolds == DgWithinBudget /\ DgChildrenSettled
====
