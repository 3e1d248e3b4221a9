---- MODULE TurnEngine ----
(* One coding session's turns: CodingRuntime.run_turn around
   Engine.run_turn around ToolExecutor.execute, with the approval queue,
   the plan review and the permission and policy gates they consult
   (core/coding/runtime.py, engine/engine.py, tool_executor/*.py,
   plan_mode.py, plan_review.py, context/workspace.py).

   All three are generators: between two yielded events, and while an
   approval is awaited, the user may stop the run, answer or ignore the
   approval, review the plan, change the permission mode, edit the file
   the agent works on, or go away.

   Messages, prompts and tool output are left out.  The workspace is one
   file, of which only matters whether the version on disk is one the
   agent read or wrote.  The trace is the one of the latest run, and keeps
   the events that decide how a run ended.  Of the approvals of earlier
   calls only those still in the queue matter. *)
EXTENDS Naturals, Sequences, FiniteSets

CONSTANTS
    TeTools,          \* the tools the model may call
    TePermissions,    \* the permission modes a user may choose
    TeApprovalPolicy, \* approval_policy of the session, "ask" or "never"
    TeMaxSteps,       \* max_steps of the engine
    TeMaxRetries,     \* MAX_PROTOCOL_RETRIES and MAX_TOOL_ARGUMENT_RETRIES
    TeMaxRepeat       \* MAX_REPEAT

TeAllTools == {"read_file", "write_file", "run_shell", "remember",
               "enter_plan_mode", "exit_plan_mode"}

ASSUME TeAssumption ==
    /\ TeTools \subseteq TeAllTools
    /\ TePermissions \subseteq {"default", "accept_edits", "auto", "plan"}
    /\ "default" \in TePermissions
    /\ TeApprovalPolicy \in {"ask", "never"}
    /\ {TeMaxSteps, TeMaxRetries, TeMaxRepeat} \subseteq Nat

VARIABLES
    teSession,   \* mode, permission mode, stop flag, pending plan review,
                 \* patterns approved for the session
    teFresh,     \* the agent knows the version of the file on disk
    teStale,     \* tools of queued approvals that nobody waits for any more
    teEntry,     \* the approval the executor waits for
    tePc,
    teEngine,    \* the locals of the running engine
    teTrace      \* run_store: the events of the latest run

teVars == <<teSession, teFresh, teStale, teEntry, tePc, teEngine, teTrace>>

TeEnded == {"completed", "cancelled", "error", "step_limit"}

--------------------
(* The gates. *)

TeReadOnly == {"read_file", "enter_plan_mode", "exit_plan_mode"}

\* PermissionChecker.check: allow, ask or deny.
Permission(checker, tool) ==
    CASE checker.plan \/ checker.mode = "plan" ->
            IF tool \in TeReadOnly THEN "allow" ELSE "deny"
      [] tool \in TeReadOnly -> "allow"
      [] TeApprovalPolicy = "never" -> "deny"
      [] tool = "remember" -> "ask"
      [] checker.mode = "auto" -> IF tool = "run_shell" THEN "ask" ELSE "allow"
      [] checker.mode = "accept_edits" /\ tool = "write_file" -> "allow"
      [] OTHER -> "ask"

PermissionChecker == [mode |-> teSession.permission, plan |-> teSession.mode = "plan"]

\* ToolPolicyChecker.check: a file is modified only after a fresh read.
PolicyAllows(tool) == tool = "write_file" => teFresh

--------------------
(* The approval queue. *)

NoEntry == [tool |-> "none", result |-> "none", queued |-> FALSE]

Submit(tool) == [tool |-> tool, result |-> "none", queued |-> TRUE]

\* A durable effect is never approved for more than the one call.
EffectiveChoice(tool, choice) ==
    IF tool = "remember" /\ choice = "session" THEN "once" ELSE choice

\* What the session has approved once the choice is made.
SessionApproved(tool, choice) ==
    teSession.approved \cup
        (IF EffectiveChoice(tool, choice) = "session" THEN {tool} ELSE {})

\* Mutant of CancelSession: the waiter is woken, its entry keeps no answer.
CancelUnanswered == [teEntry EXCEPT !.queued = FALSE]

CancelSession ==
    IF teEntry.queued THEN [teEntry EXCEPT !.result = "deny", !.queued = FALSE]
    ELSE teEntry

\* The waiter is woken when its entry leaves the queue.
Woken == ~teEntry.queued
TeDenied == teEntry.result = "deny"

\* A waiter that gives up leaves its entry in the queue.
Abandon ==
    /\ teEntry' = NoEntry
    /\ teStale' = teStale \cup (IF teEntry.queued THEN {teEntry.tool} ELSE {})

--------------------
(* The trace of a run. *)

InTrace(type) == \E i \in DOMAIN teTrace : teTrace[i].type = type

TeEvent(type) == [type |-> type, status |-> "none"]

TeStatusOf ==
    IF InTrace("run_finished")
    THEN LET i == CHOOSE j \in DOMAIN teTrace : teTrace[j].type = "run_finished"
         IN teTrace[i].status
    ELSE IF InTrace("cancelled") THEN "cancelled"
    ELSE IF InTrace("error") THEN "error"
    ELSE IF InTrace("final") THEN "completed"
    ELSE IF InTrace("step_limit") THEN "step_limit" ELSE "running"

Finished(status) == [type |-> "run_finished", status |-> status]

AppendTrace(events) == teTrace' = teTrace \o events

\* _persist_run_terminal: what the trace still lacks of an ending.
MissingTerminals(status) ==
    (IF status = "cancelled" /\ ~InTrace("cancelled")
     THEN <<TeEvent("cancelled")>> ELSE <<>>)
    \o (IF InTrace("run_finished") THEN <<>> ELSE <<Finished(status)>>)
    \o (IF InTrace("turn_finished") THEN <<>> ELSE <<TeEvent("turn_finished")>>)

PersistRunTerminal ==
    MissingTerminals(IF TeStatusOf = "running" THEN "cancelled" ELSE TeStatusOf)

--------------------

TeNewEngine ==
    [checker |-> PermissionChecker, steps |-> 0, attempts |-> 0, retries |-> 0,
     argRetries |-> 0, last |-> "none", repeats |-> 0, calls |-> <<>>]

TeNoEngine ==
    [checker |-> [mode |-> "default", plan |-> FALSE], steps |-> 0, attempts |-> 0,
     retries |-> 0, argRetries |-> 0, last |-> "none", repeats |-> 0,
     calls |-> <<>>]

TeInit ==
    /\ teSession = [mode |-> "default", permission |-> "default", stop |-> FALSE,
                    review |-> FALSE, approved |-> {}]
    /\ teFresh = FALSE
    /\ teStale = {}
    /\ teEntry = NoEntry
    /\ tePc = "idle"
    /\ teEngine = TeNoEngine
    /\ teTrace = <<>>

TeGoto(pc) == tePc' = pc

TeReleased ==
    /\ tePc' = "idle"
    /\ teEngine' = TeNoEngine
    /\ teSession' = [teSession EXCEPT !.stop = FALSE]

\* The operation lock and the run's evidence.
TeStart ==
    /\ tePc = "idle"
    /\ teTrace' = <<TeEvent("turn_started")>>
    /\ teSession' = [teSession EXCEPT !.stop = FALSE]
    /\ TeGoto("prepare")
    /\ UNCHANGED <<teFresh, teStale, teEntry, teEngine>>

\* Context prepared, user item appended, engine built with today's checker.
TePrepare ==
    /\ tePc = "prepare"
    /\ teEngine' = TeNewEngine
    /\ TeGoto("loop")
    /\ UNCHANGED <<teSession, teFresh, teStale, teEntry, teTrace>>

TePrepareFails ==
    /\ tePc = "prepare"
    /\ \E ending \in {<<TeEvent("error")>>, <<>>} :
          LET status == IF ending = <<>> THEN "cancelled" ELSE "error"
          IN AppendTrace(ending \o MissingTerminals(status))
    /\ TeReleased
    /\ UNCHANGED <<teFresh, teStale, teEntry>>

--------------------
(* The engine. *)

\* The engine's stream ends with these events; the runtime goes on.
EngineEnds(types) ==
    /\ AppendTrace([i \in DOMAIN types |-> TeEvent(types[i])])
    /\ teEngine' = TeNoEngine
    /\ TeGoto("diff")

Cancels == teSession.stop /\ EngineEnds(<<"cancelled">>)

LoopGoesOn ==
    teEngine.steps < TeMaxSteps /\ teEngine.attempts < TeMaxSteps + 2

TeLoop ==
    /\ tePc = "loop"
    /\ \/ ~LoopGoesOn /\ EngineEnds(<<"step_limit">>)
       \/ LoopGoesOn /\ Cancels
       \/ /\ LoopGoesOn /\ ~teSession.stop
          /\ \/ EngineEnds(<<"error", "cancelled">>)
             \/ /\ teEngine' = [teEngine EXCEPT !.attempts = @ + 1]
                /\ TeGoto("model")
                /\ UNCHANGED teTrace
    /\ UNCHANGED <<teSession, teFresh, teStale, teEntry>>

\* The answer is text the parser cannot read as a call or as a final answer.
CanAcceptPlainFinal == teEngine.steps > 0 /\ teEngine.retries > 0

RetryAnswer ==
    \/ CanAcceptPlainFinal /\ EngineEnds(<<"final">>)
    \/ IF teEngine.retries >= TeMaxRetries
       THEN EngineEnds(<<"final">>)
       ELSE /\ teEngine' = [teEngine EXCEPT !.retries = @ + 1]
            /\ TeGoto("loop") /\ UNCHANGED teTrace

\* A call whose arguments do not validate runs nothing.
InvalidArguments ==
    IF teEngine.argRetries >= TeMaxRetries
    THEN EngineEnds(<<"final">>)
    ELSE /\ teEngine' = [teEngine EXCEPT !.argRetries = @ + 1]
         /\ TeGoto("loop") /\ UNCHANGED teTrace

ToolCalls ==
    \E first \in TeTools : \E more \in {<<>>} \cup {<<t>> : t \in TeTools} :
        /\ teEngine' = [teEngine EXCEPT !.calls = <<first>> \o more]
        /\ TeGoto("tool") /\ UNCHANGED teTrace

TeModel ==
    /\ tePc = "model"
    /\ \/ Cancels
       \/ /\ ~teSession.stop
          /\ \/ EngineEnds(<<"final">>)
             \/ RetryAnswer
             \/ InvalidArguments
             \/ ToolCalls
    /\ UNCHANGED <<teSession, teFresh, teStale, teEntry>>

\* The model, or the trace file, raises inside the engine loop.
TeEngineFails ==
    /\ tePc \in {"model", "tool"}
    /\ EngineEnds(<<"error">>)
    /\ UNCHANGED <<teSession, teFresh, teStale, teEntry>>

\* The call at the head of the list is done, whatever came of it.
ToolDone(e) ==
    /\ teEngine' = [e EXCEPT !.steps = @ + 1, !.calls = Tail(@)]
    /\ TeGoto(IF Len(e.calls) > 1 THEN "tool" ELSE "loop")
    /\ Abandon
    /\ UNCHANGED teTrace

Repeats(tool) == IF tool = teEngine.last THEN teEngine.repeats + 1 ELSE 0

\* The engine takes the next call of the answer, unless it is one too many.
NextCall(tool) ==
    \/ /\ Repeats(tool) >= TeMaxRepeat
       /\ EngineEnds(<<"final">>)
    \/ /\ Repeats(tool) < TeMaxRepeat /\ teEngine.steps >= TeMaxSteps
       /\ teEngine' = [teEngine EXCEPT !.last = tool, !.repeats = Repeats(tool),
                                       !.calls = <<>>]
       /\ TeGoto("loop") /\ UNCHANGED teTrace
    \/ /\ Repeats(tool) < TeMaxRepeat /\ teEngine.steps < TeMaxSteps
       /\ Cancels

TeTool ==
    /\ tePc = "tool"
    /\ NextCall(Head(teEngine.calls))
    /\ UNCHANGED <<teSession, teFresh, teStale, teEntry>>

\* The executor's gates: permission, policy, approval.
TeGate ==
    /\ tePc = "tool" /\ ~teSession.stop
    /\ LET tool == Head(teEngine.calls)
           e == [teEngine EXCEPT !.last = tool, !.repeats = Repeats(tool)]
           verdict == Permission(e.checker, tool)
           passed == verdict # "deny" /\ PolicyAllows(tool)
           free == verdict = "allow" \/ tool \in teSession.approved
       IN /\ Repeats(tool) < TeMaxRepeat /\ e.steps < TeMaxSteps
          /\ \/ ~passed /\ ToolDone(e)
             \/ /\ passed /\ free
                /\ teEngine' = e /\ TeGoto("call")
                /\ UNCHANGED <<teTrace, teStale, teEntry>>
             \/ /\ passed /\ ~free
                /\ teEngine' = e /\ TeGoto("waiting")
                /\ teEntry' = Submit(tool)
                /\ UNCHANGED <<teTrace, teStale>>
    /\ UNCHANGED <<teSession, teFresh>>

TimesOut == teEntry.queued

\* The waiter's next look at the stop flag and at its entry, or its timeout.
TeWaiting ==
    /\ tePc = "waiting"
    /\ \/ Cancels /\ UNCHANGED <<teStale, teEntry>>
       \/ (TimesOut \/ (Woken /\ TeDenied)) /\ ToolDone(teEngine)
       \/ /\ Woken /\ ~TeDenied
          /\ TeGoto("call")
          /\ UNCHANGED <<teEngine, teTrace, teStale, teEntry>>
    /\ UNCHANGED <<teSession, teFresh>>

\* What a tool does.
ToolEffect(tool) ==
    /\ teFresh' = (teFresh \/ tool \in {"read_file", "write_file"})
    /\ teSession' =
         CASE tool = "enter_plan_mode" -> [teSession EXCEPT !.mode = "plan"]
           [] tool = "exit_plan_mode" ->
                 [teSession EXCEPT !.review = @ \/ teSession.mode = "plan"]
           [] OTHER -> teSession

\* The tool runs; a stop that came in the meantime ends the run after it.
TeCall ==
    /\ tePc = "call"
    /\ ToolEffect(Head(teEngine.calls))
    /\ \/ Cancels /\ UNCHANGED <<teStale, teEntry>>
       \/ ~teSession.stop /\ ToolDone(teEngine)

--------------------
(* The end of a turn. *)

TeDiff ==
    /\ tePc = "diff"
    /\ \E type \in {"workspace_diff_ready", "error"} : AppendTrace(<<TeEvent(type)>>)
    /\ TeGoto("finish")
    /\ UNCHANGED <<teSession, teFresh, teStale, teEntry, teEngine>>

TeFinish ==
    /\ tePc = "finish"
    /\ AppendTrace(<<Finished(TeStatusOf)>>)
    /\ TeGoto("turn_end")
    /\ UNCHANGED <<teSession, teFresh, teStale, teEntry, teEngine>>

TeTurnEnd ==
    /\ tePc = "turn_end"
    /\ AppendTrace(<<TeEvent("turn_finished")>>)
    /\ TeGoto("close")
    /\ UNCHANGED <<teSession, teFresh, teStale, teEntry, teEngine>>

\* The consumer closes the stream at a yield: straight to the finally block.
TeConsumerGone ==
    /\ tePc \in {"loop", "model", "tool", "waiting", "call", "diff", "finish",
                 "turn_end"}
    /\ TeGoto("close")
    /\ teEngine' = TeNoEngine
    /\ UNCHANGED <<teSession, teFresh, teStale, teEntry, teTrace>>

TeClose ==
    /\ tePc = "close"
    /\ AppendTrace(PersistRunTerminal)
    /\ TeReleased
    /\ Abandon
    /\ UNCHANGED teFresh

--------------------
(* The user. *)

\* The answer to the approval that is awaited, or to one left in the queue.
TeResolve(choice) ==
    /\ \/ /\ teEntry.queued
          /\ teEntry' = [teEntry EXCEPT !.queued = FALSE,
                             !.result = EffectiveChoice(teEntry.tool, choice)]
          /\ teSession' = [teSession EXCEPT
                             !.approved = SessionApproved(teEntry.tool, choice)]
          /\ UNCHANGED teStale
       \/ \E tool \in teStale :
             /\ teStale' = teStale \ {tool}
             /\ teSession' = [teSession EXCEPT !.approved = SessionApproved(tool, choice)]
             /\ UNCHANGED teEntry
    /\ UNCHANGED <<teFresh, tePc, teEngine, teTrace>>

\* request_stop: the flag, every queued approval, the plan review.
TeRequestStop ==
    /\ tePc # "idle"
    /\ teSession' = [teSession EXCEPT !.stop = TRUE, !.review = FALSE]
    /\ teEntry' = CancelSession
    /\ teStale' = {}
    /\ UNCHANGED <<teFresh, tePc, teEngine, teTrace>>

TeSetPermissionMode(mode) ==
    /\ teSession' = [teSession EXCEPT !.permission = mode]
    /\ UNCHANGED <<teFresh, teStale, teEntry, tePc, teEngine, teTrace>>

TeReviewPlan(approved) ==
    /\ teSession.review
    /\ teSession' = [teSession EXCEPT !.review = FALSE,
                                      !.mode = IF approved THEN "default" ELSE @]
    /\ UNCHANGED <<teFresh, teStale, teEntry, tePc, teEngine, teTrace>>

TeUserEdits ==
    /\ teFresh' = FALSE
    /\ UNCHANGED <<teSession, teStale, teEntry, tePc, teEngine, teTrace>>

TeProcess ==
    \/ TePrepare \/ TePrepareFails \/ TeLoop \/ TeModel \/ TeEngineFails
    \/ TeTool \/ TeGate \/ TeWaiting \/ TeCall \/ TeDiff \/ TeFinish \/ TeTurnEnd
    \/ TeClose

TeUser ==
    \/ TeStart
    \/ \E choice \in {"once", "session", "deny"} : TeResolve(choice)
    \/ TeRequestStop
    \/ \E mode \in TePermissions : TeSetPermissionMode(mode)
    \/ \E approved \in BOOLEAN : TeReviewPlan(approved)
    \/ TeUserEdits \/ TeConsumerGone

TeNext == TeProcess \/ TeUser

\* The event loop runs the generators; nothing obliges the user.
TeSpec == TeInit /\ [][TeNext]_teVars /\ WF_teVars(TeProcess)

--------------------
(* Properties *)

TeTypeOK ==
    /\ teSession.mode \in {"default", "plan"} /\ teSession.permission \in TePermissions
    /\ teSession.approved \subseteq TeTools
    /\ teStale \subseteq TeTools
    /\ teEntry.result \in {"none", "once", "session", "deny"}
    /\ teEngine.steps \in 0..TeMaxSteps

\* A run that is over is closed once: its trace ends with one run_finished and
\* one turn_finished, and the status it records is the one its own events
\* give, whoever went away between which two events (runtime.py run_turn,
\* _persist_run_terminal).
TeClosedOnce ==
    tePc = "idle" /\ teTrace # <<>> =>
        LET n == Len(teTrace)
        IN /\ teTrace[n].type = "turn_finished"
           /\ teTrace[n - 1].type = "run_finished" /\ teTrace[n - 1].status \in TeEnded
           /\ \A i \in 1..n - 2 : teTrace[i].type \notin {"run_finished", "turn_finished"}
           /\ (teTrace[n - 1].status = "cancelled")
                 <=> \E i \in 1..n - 2 : teTrace[i].type = "cancelled"

\* A tool that needs a person's consent runs only with it: an approval that
\* was stopped, timed out or denied never lets the call through
\* (executor.py _approval_events, approval.py cancel_session).
TeOnlyGranted ==
    tePc = "call" =>
      LET tool == Head(teEngine.calls)
      IN Permission(teEngine.checker, tool) = "ask" =>
           \/ tool \in teSession.approved
           \/ teEntry.tool = tool /\ teEntry.result \in {"once", "session"}

\* Every run ends, even when the model only ever answers nonsense and nobody
\* answers an approval (engine.py run_turn, executor.py _approval_events).
TeRunEnds == tePc # "idle" ~> tePc = "idle"

\* A turn runs only what it may and is closed once.
TeTurnHolds == TeClosedOnce /\ TeOnlyGranted
====
