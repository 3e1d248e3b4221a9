---- MODULE GraphTurn ----
(* One run of the graph harness: the tool calls of a model message run in
   parallel, a risky one interrupts the graph until its approval is
   answered, the host resumes the graph with the answer, and the event
   adapter turns the graph's streams into the run's public timeline.
   Sources: _deerflow_timeline_events and coding_approval_respond of
   api/coding.py, core/harness/tools_adapter.py, runtime_adapter.py and
   event_adapter.py, the ApprovalManager, and recoverable_approval of the
   session journal.

   The graph library is external: the calls of a message are tasks of one
   superstep, a finished task's write is saved at once, an interrupted
   task is run again from its beginning when the graph is resumed, and a
   plain resume value is refused while several tasks are interrupted. *)
EXTENDS Naturals, FiniteSets, Sequences, SequencesExt

CONSTANTS
  GtCalls,         \* tool call ids the model may use in the run
  GtTool,          \* [call -> tool name]
  GtRiskyTools,    \* tools that need an approval (their pattern is the tool)
  GtDirectTools,   \* tools that do not go through the ToolExecutor
  GtContents,      \* results of a tool; "big" ones are archived
  GtNone,          \* no call
  GtMaxBatch,      \* bound: calls of one message
  GtMaxCrashes,    \* bound: process crashes
  GtMaxFaults      \* bound: resumed runs that cannot be started

VARIABLES
  gtAt,            \* idle, model, tools, blocked, ended, down, parked
  gtEnd,           \* how the run ended
  gtBatch,         \* the calls of the current message, in order
  gtCall,          \* [call -> state of its task]
  gtContent,       \* [call -> content of its result]
  gtAd,            \* the event adapter: [pending, seen, custom]
  gtLog,           \* the published timeline: <<kind, call>>
  gtStreams,       \* stream namespaces with an event in the journal
  gtQueue,         \* approvals waiting for an answer, by call
  gtResolved,      \* [call -> choice not yet consumed]
  gtApproved,      \* patterns approved for the session
  gtRan,           \* [call -> times it ran on a grant of its own]
  gtOnce,          \* [call -> times the user granted it]
  gtCrashes,       \* crashes so far
  gtFaults         \* failed starts so far

gtVars == <<gtAt, gtEnd, gtBatch, gtCall, gtContent, gtAd, gtLog, gtStreams,
            gtQueue, gtResolved, gtApproved, gtRan, gtOnce, gtCrashes, gtFaults>>

gtApprovalVars == <<gtQueue, gtResolved, gtApproved, gtOnce>>

--------------------
(* The event adapter. *)

FreshAdapter(seen) == [pending |-> << >>, seen |-> seen, custom |-> {}]

(* _messages on an AI message: its calls wait until they are run. *)
HoldCalls(ad, batch) ==
  [ad EXCEPT !.pending = @ \o SelectSeq(batch, LAMBDA c : c \notin ad.seen)]

(* _take_pending_tool_call: the call itself, or else the first held call
   of the same tool. *)
HeldFor(ad, c) ==
  LET same == SelectSeq(ad.pending, LAMBDA d : GtTool[d] = GtTool[c])
  IN IF c \in Range(ad.pending) THEN c
     ELSE IF same # << >> THEN Head(same) ELSE GtNone

TakePending(ad, c) ==
  LET id == HeldFor(ad, c)
      held == [ad EXCEPT !.pending = SelectSeq(@, LAMBDA d : d # id)]
  IN IF id = GtNone \/ id \in ad.seen
     THEN [ad |-> held, out |-> << >>]
     ELSE [ad |-> [held EXCEPT !.seen = @ \cup {id}], out |-> <<<<"call", id>>>>]

(* _tool_call_event *)
ToolCallEvent(ad, c) ==
  LET held == TakePending(ad, c)
  IN IF held.out # << >> \/ c \in held.ad.seen THEN held
     ELSE [ad |-> [held.ad EXCEPT !.seen = @ \cup {c}], out |-> <<<<"call", c>>>>]

(* _tool_result_signature *)
Signature(c, content) == <<GtTool[c], content>>

(* _custom on a tool_result of the executor. *)
CustomResult(ad, c, content) ==
  LET call == ToolCallEvent(ad, c)
  IN [ad |-> [call.ad EXCEPT !.custom = @ \cup {Signature(c, content)}],
      out |-> Append(call.out, <<"result", c>>)]

(* _messages on a ToolMessage: dropped when the executor published it. *)
MessageResult(ad, c, content) ==
  LET call == TakePending(ad, c)
  IN IF Signature(c, content) \in ad.custom
     THEN [ad |-> [ad EXCEPT !.custom = @ \ {Signature(c, content)}], out |-> << >>]
     ELSE [ad |-> call.ad, out |-> Append(call.out, <<"result", c>>)]

(* ToolResultArtifactMiddleware._archive: a large result is replaced by a
   pointer in the message. *)
Archive(content) == IF content = "big" THEN "pointer" ELSE content

(* What an operator of the adapter returned is published in the journal. *)
Publish(step) == gtAd' = step.ad /\ gtLog' = gtLog \o step.out

--------------------
(* Approvals. *)

(* ToolExecutor.approval_requirement *)
NeedsApproval(c) == GtTool[c] \in GtRiskyTools /\ GtTool[c] \notin gtApproved

(* ApprovalManager.resolve *)
Resolve(c, choice) ==
  /\ gtQueue' = gtQueue \ {c}
  /\ gtResolved' = [gtResolved EXCEPT ![c] = choice]
  /\ gtApproved' = IF choice = "session" THEN gtApproved \cup {GtTool[c]} ELSE gtApproved
  /\ gtOnce' = IF choice = "once" THEN [gtOnce EXCEPT ![c] = @ + 1] ELSE gtOnce

(* ApprovalManager.consume_resolution *)
Consume(c) == gtResolved' = [gtResolved EXCEPT ![c] = "none"]

(* The choice a resumed call acts on: what the server recorded, or deny. *)
ServerChoice(c) == IF gtResolved[c] = "none" THEN "deny" ELSE gtResolved[c]

(* journal.recoverable_approval: the newest request without a result of
   its call. *)
Unanswered ==
  {i \in DOMAIN gtLog :
     /\ gtLog[i][1] = "ask"
     /\ \A j \in (i + 1)..Len(gtLog) : gtLog[j] # <<"result", gtLog[i][2]>>}

RecoverableApproval ==
  IF Unanswered = {} THEN GtNone
  ELSE gtLog[CHOOSE i \in Unanswered : \A j \in Unanswered : j <= i][2]

(* approval_counts: the number of the stream that answers a request. *)
ResumeAttempt == Len(SelectSeq(gtLog, LAMBDA e : e[1] = "ask"))

--------------------

Interrupted == {c \in GtCalls : gtCall[c] = "interrupted"}

GtEnds(how) == gtAt' = "ended" /\ gtEnd' = how

GtInit ==
  /\ gtAt = "idle"
  /\ gtEnd = "none"
  /\ gtBatch = << >>
  /\ gtCall = [c \in GtCalls |-> "new"]
  /\ gtContent = [c \in GtCalls |-> "none"]
  /\ gtAd = FreshAdapter({})
  /\ gtLog = << >>
  /\ gtStreams = {}
  /\ gtQueue = {}
  /\ gtResolved = [c \in GtCalls |-> "none"]
  /\ gtApproved = {}
  /\ gtRan = [c \in GtCalls |-> 0]
  /\ gtOnce = [c \in GtCalls |-> 0]
  /\ gtCrashes = 0
  /\ gtFaults = 0

(* stream_turn of a new run, in the namespace "initial". *)
GtStart ==
  /\ gtAt = "idle"
  /\ gtAt' = "model"
  /\ gtAd' = FreshAdapter({})
  /\ gtStreams' = {0}
  /\ UNCHANGED <<gtEnd, gtBatch, gtCall, gtContent, gtLog, gtApprovalVars, gtRan,
                 gtCrashes, gtFaults>>

(* A model message with tool calls. *)
GtModel(batch) ==
  /\ gtAt = "model"
  /\ \A i \in DOMAIN batch : gtCall[batch[i]] = "new"
  /\ gtAt' = "tools"
  /\ gtBatch' = batch
  /\ gtCall' = [c \in GtCalls |-> IF c \in Range(batch) THEN "todo" ELSE gtCall[c]]
  /\ gtAd' = HoldCalls(gtAd, batch)
  /\ UNCHANGED <<gtEnd, gtContent, gtLog, gtStreams, gtApprovalVars, gtRan,
                 gtCrashes, gtFaults>>

(* The budget strips the calls of a message: _budget_events drops what was
   held back, and the notice is the answer. *)
GtCapped(batch) ==
  /\ gtAt = "model"
  /\ \A i \in DOMAIN batch : gtCall[batch[i]] = "new"
  /\ gtAd' = [HoldCalls(gtAd, batch) EXCEPT !.pending = << >>]
  /\ GtEnds("completed")
  /\ UNCHANGED <<gtBatch, gtCall, gtContent, gtLog, gtStreams, gtApprovalVars, gtRan,
                 gtCrashes, gtFaults>>

(* A message without tool calls is the answer; without visible text the
   run fails. *)
GtAnswer ==
  /\ gtAt = "model"
  /\ \E how \in {"completed", "error"} : GtEnds(how)
  /\ UNCHANGED <<gtBatch, gtCall, gtContent, gtAd, gtLog, gtStreams, gtApprovalVars,
                 gtRan, gtCrashes, gtFaults>>

(* The executor announces the call and runs the tool. *)
Begin(c) ==
  /\ gtCall' = [gtCall EXCEPT ![c] = "called"]
  /\ Publish(ToolCallEvent(gtAd, c))
  /\ gtRan' = IF GtTool[c] \in GtRiskyTools \ gtApproved THEN [gtRan EXCEPT ![c] = @ + 1] ELSE gtRan
  /\ UNCHANGED gtContent

(* The executor answers that the approval was denied. *)
Denied(c) ==
  /\ gtCall' = [gtCall EXCEPT ![c] = "resulted"]
  /\ gtContent' = [gtContent EXCEPT ![c] = "denied"]
  /\ Publish(CustomResult(gtAd, c, "denied"))
  /\ UNCHANGED gtRan

(* invoke_impl up to the execution: a call that needs no approval, or
   whose approval was answered, or that interrupts the graph. *)
GtInvoke(c) ==
  /\ gtAt = "tools"
  /\ gtCall[c] \in {"todo", "resumed"}
  /\ GtTool[c] \notin GtDirectTools
  /\ \/ /\ ~NeedsApproval(c)
        /\ Begin(c)
        /\ UNCHANGED <<gtQueue, gtResolved>>
     \/ /\ NeedsApproval(c)
        /\ gtCall[c] = "resumed"
        /\ Consume(c)
        /\ IF ServerChoice(c) = "deny" THEN Denied(c) ELSE Begin(c)
        /\ UNCHANGED gtQueue
     \/ /\ NeedsApproval(c)
        /\ gtCall[c] = "todo"
        /\ gtCall' = [gtCall EXCEPT ![c] = "interrupted"]
        /\ gtQueue' = gtQueue \cup {c}
        /\ UNCHANGED <<gtContent, gtAd, gtLog, gtResolved, gtRan>>
  /\ UNCHANGED <<gtAt, gtEnd, gtBatch, gtStreams, gtApproved, gtOnce, gtCrashes, gtFaults>>

(* The tool has a result. *)
GtToolResult(c, content) ==
  /\ gtAt = "tools"
  /\ gtCall[c] = "called"
  /\ gtCall' = [gtCall EXCEPT ![c] = "resulted"]
  /\ gtContent' = [gtContent EXCEPT ![c] = content]
  /\ Publish(CustomResult(gtAd, c, content))
  /\ UNCHANGED <<gtAt, gtEnd, gtBatch, gtStreams, gtApprovalVars, gtRan, gtCrashes, gtFaults>>

(* The task's ToolMessage is streamed and its write saved. *)
GtToolMessage(c) ==
  /\ gtAt = "tools"
  /\ gtCall[c] = "resulted"
  /\ gtCall' = [gtCall EXCEPT ![c] = "done"]
  /\ Publish(MessageResult(gtAd, c, Archive(gtContent[c])))
  /\ UNCHANGED <<gtAt, gtEnd, gtBatch, gtContent, gtStreams, gtApprovalVars, gtRan,
                 gtCrashes, gtFaults>>

(* A tool that streams nothing of its own: only its message is seen. *)
GtDirect(c, content) ==
  /\ gtAt = "tools"
  /\ gtCall[c] = "todo"
  /\ GtTool[c] \in GtDirectTools
  /\ gtCall' = [gtCall EXCEPT ![c] = "done"]
  /\ Publish(MessageResult(gtAd, c, Archive(content)))
  /\ UNCHANGED <<gtAt, gtEnd, gtBatch, gtContent, gtStreams, gtApprovalVars, gtRan,
                 gtCrashes, gtFaults>>

Settled(c) == gtCall[c] \in {"done", "interrupted"}

(* The superstep is over: the messages are in the checkpoint. *)
GtSuperstep ==
  /\ gtAt = "tools"
  /\ \A i \in DOMAIN gtBatch : gtCall[gtBatch[i]] = "done"
  /\ gtAt' = "model"
  /\ gtBatch' = << >>
  /\ UNCHANGED <<gtEnd, gtCall, gtContent, gtAd, gtLog, gtStreams, gtApprovalVars,
                 gtRan, gtCrashes, gtFaults>>

(* _graph_interrupt: the first interrupted task of the message. *)
FirstInterrupt == Head(SelectSeq(gtBatch, LAMBDA c : c \in Interrupted))

(* _values with an interrupt: the request of the first interrupted task is
   published after its call, and the host waits for the answer. *)
GtBlocks ==
  /\ gtAt = "tools"
  /\ \A i \in DOMAIN gtBatch : Settled(gtBatch[i])
  /\ Interrupted # {}
  /\ gtAt' = "blocked"
  /\ LET call == ToolCallEvent(gtAd, FirstInterrupt)
     IN Publish([call EXCEPT !.out = Append(@, <<"ask", FirstInterrupt>>)])
  /\ UNCHANGED <<gtEnd, gtBatch, gtCall, gtContent, gtStreams, gtApprovalVars, gtRan,
                 gtCrashes, gtFaults>>

--------------------
(* Answering and resuming. *)

(* Mutant: a resumed stream starts with an empty memory. *)
SeenOnResumeNone == {}

(* _checkpoint_pending_tool_call_ids: the calls of the checkpoint that
   have no message there yet. *)
SeenOnResume == Range(gtBatch)

(* stream_turn with resume: the graph refuses one plain value for several
   interrupts; otherwise it first repeats the checkpoint's values, whose
   event id the journal refuses when the namespace was used before. *)
ResumeGraph(attempt) ==
  IF Cardinality(Interrupted) > 1
  THEN GtEnds("error") /\ UNCHANGED <<gtCall, gtAd, gtStreams>>
  ELSE IF attempt \in gtStreams
  THEN GtEnds("conflict") /\ UNCHANGED <<gtCall, gtAd, gtStreams>>
  ELSE /\ gtAt' = "tools"
       /\ gtCall' = [c \in GtCalls |-> IF c \in Interrupted THEN "resumed" ELSE gtCall[c]]
       /\ gtAd' = FreshAdapter(SeenOnResume)
       /\ gtStreams' = gtStreams \cup {attempt}
       /\ UNCHANGED gtEnd

(* coding_approval_respond while the run is live. *)
GtRespond(c, choice) ==
  /\ gtAt \in {"tools", "blocked"}
  /\ c \in gtQueue
  /\ Resolve(c, choice)
  /\ UNCHANGED <<gtAt, gtEnd, gtBatch, gtCall, gtContent, gtAd, gtLog, gtStreams, gtRan,
                 gtCrashes, gtFaults>>

(* The host's wait_for returns and the graph is resumed. *)
GtWake ==
  LET c == FirstInterrupt
  IN /\ gtAt = "blocked"
     /\ c \notin gtQueue
     /\ IF gtResolved[c] = "session" THEN Consume(c) ELSE UNCHANGED gtResolved
     /\ ResumeGraph(ResumeAttempt)
     /\ UNCHANGED <<gtBatch, gtContent, gtLog, gtQueue, gtApproved, gtRan, gtOnce,
                    gtCrashes, gtFaults>>

(* wait_for gives up: the run fails, the request stays in the queue. *)
GtWaitExpires ==
  /\ gtAt = "blocked"
  /\ FirstInterrupt \in gtQueue
  /\ GtEnds("error")
  /\ UNCHANGED <<gtBatch, gtCall, gtContent, gtAd, gtLog, gtStreams, gtApprovalVars,
                 gtRan, gtCrashes, gtFaults>>

(* coding_approval_respond of a run that survived a restart: the answer
   starts the run again. *)
GtRespondParked(c, choice) ==
  /\ gtAt = "parked"
  /\ c \in gtQueue
  /\ RecoverableApproval = c
  /\ Resolve(c, choice)
  /\ ResumeGraph(ResumeAttempt)
  /\ UNCHANGED <<gtBatch, gtContent, gtLog, gtRan, gtCrashes, gtFaults>>

(* The run cannot be started: the answer is taken back. *)
GtStartFails(c) ==
  /\ gtAt = "parked"
  /\ c \in gtQueue
  /\ gtFaults < GtMaxFaults
  /\ gtFaults' = gtFaults + 1
  /\ \E approved \in {gtApproved, gtApproved \cup {GtTool[c]}} : gtApproved' = approved
  /\ UNCHANGED <<gtAt, gtEnd, gtBatch, gtCall, gtContent, gtAd, gtLog, gtStreams,
                 gtQueue, gtResolved, gtRan, gtOnce, gtCrashes>>

(* stop_coding_run: request_stop denies what waits, the task is cancelled. *)
GtStop ==
  /\ gtAt \in {"model", "tools", "blocked"}
  /\ GtEnds("cancelled")
  /\ gtQueue' = {}
  /\ gtResolved' = [c \in GtCalls |-> IF c \in gtQueue THEN "deny" ELSE gtResolved[c]]
  /\ UNCHANGED <<gtBatch, gtCall, gtContent, gtAd, gtLog, gtStreams, gtApproved, gtRan,
                 gtOnce, gtCrashes, gtFaults>>

(* The process dies: approvals and the adapter are lost, the checkpoint
   keeps the finished tasks of the superstep and its interrupts. *)
GtCrash ==
  /\ gtAt \in {"model", "tools", "blocked", "parked"}
  /\ gtCrashes < GtMaxCrashes
  /\ gtCrashes' = gtCrashes + 1
  /\ gtAt' = "down"
  /\ gtCall' = [c \in GtCalls |->
       IF \/ gtCall[c] = "resumed"
          \/ gtCall[c] \in {"called", "resulted"} /\ <<"ask", c>> \in Range(gtLog)
       THEN "interrupted" ELSE gtCall[c]]
  /\ gtQueue' = {}
  /\ gtResolved' = [c \in GtCalls |-> "none"]
  /\ gtApproved' = {}
  /\ UNCHANGED <<gtEnd, gtBatch, gtContent, gtAd, gtLog, gtStreams, gtRan, gtOnce, gtFaults>>

(* Recovery: a run with a recoverable approval stays open and the approval
   is restored (restore_pending); any other run is closed as interrupted. *)
GtRestart ==
  /\ gtAt = "down"
  /\ IF RecoverableApproval = GtNone
     THEN GtEnds("interrupted") /\ UNCHANGED gtQueue
     ELSE gtAt' = "parked" /\ gtQueue' = {RecoverableApproval} /\ UNCHANGED gtEnd
  /\ UNCHANGED <<gtBatch, gtCall, gtContent, gtAd, gtLog, gtStreams, gtResolved,
                 gtApproved, gtRan, gtOnce, gtCrashes, gtFaults>>

--------------------

GtBatches == {b \in SeqOf(GtCalls, GtMaxBatch) : b # << >> /\ IsInjective(b)}

GtChoices == {"once", "session", "deny"}

GtNext ==
  \/ GtStart
  \/ \E b \in GtBatches : GtModel(b) \/ GtCapped(b)
  \/ GtAnswer
  \/ \E c \in GtCalls :
       \/ GtInvoke(c)
       \/ \E content \in GtContents : GtToolResult(c, content) \/ GtDirect(c, content)
       \/ GtToolMessage(c)
       \/ \E choice \in GtChoices : GtRespond(c, choice) \/ GtRespondParked(c, choice)
       \/ GtStartFails(c)
  \/ GtSuperstep
  \/ GtBlocks
  \/ GtWake
  \/ GtWaitExpires
  \/ GtStop
  \/ GtCrash
  \/ GtRestart

GtSpec == GtInit /\ [][GtNext]_gtVars

--------------------

(* Type correctness. *)
GtTypeOK ==
  /\ gtAt \in {"idle", "model", "tools", "blocked", "ended", "down", "parked"}
  /\ gtEnd \in {"none", "completed", "error", "cancelled", "interrupted", "conflict"}
  /\ gtBatch \in Seq(GtCalls)
  /\ gtCall \in [GtCalls -> {"new", "todo", "resumed", "interrupted", "called",
                             "resulted", "done"}]
  /\ gtContent \in [GtCalls -> GtContents \cup {"none", "denied"}]
  /\ gtAd.pending \in Seq(GtCalls) /\ gtAd.seen \subseteq GtCalls
  /\ gtLog \in Seq({"call", "result", "ask"} \X GtCalls)
  /\ gtStreams \subseteq Nat
  /\ gtQueue \subseteq GtCalls
  /\ gtResolved \in [GtCalls -> GtChoices \cup {"none"}]
  /\ gtApproved \subseteq GtRiskyTools
  /\ gtRan \in [GtCalls -> Nat] /\ gtOnce \in [GtCalls -> Nat]
  /\ gtCrashes \in 0..GtMaxCrashes /\ gtFaults \in 0..GtMaxFaults

(* No approval is used twice or for another call: outside a session-wide
   approval of its tool, a risky call runs at most as often as the user
   granted that very call, through parallel calls, answers given before
   the graph blocks, stops, crashes and restored requests. *)
GtRunsAsGranted ==
  \A c \in GtCalls : gtRan[c] <= gtOnce[c]

(* The timeline of a run is well formed across interrupts, resumed streams
   and restarts: no call is published twice, and every result and every
   request for approval comes after its call. *)
GtResultsFollowCalls ==
  \A c \in GtCalls :
    /\ Len(SelectSeq(gtLog, LAMBDA e : e = <<"call", c>>)) <= 1
    /\ \A i \in DOMAIN gtLog :
         gtLog[i] \in {<<"result", c>>, <<"ask", c>>} =>
           \E j \in 1..(i - 1) : gtLog[j] = <<"call", c>>

(* Grants and timeline of a run survive interrupts and restarts. *)
GtTurnHolds == GtRunsAsGranted /\ GtResultsFollowCalls
====
