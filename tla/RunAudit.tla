---- MODULE RunAudit ----
(* The evidence one coding run leaves: its trace file and the audit that
   is computed from it (run_store.py), the Harness stages projected from
   the same events (stage_events.py), the diff of the workspace
   (workspace_diff.py) and the usage ledger (usage_store.py).  The audit
   pairs results with calls by tool and arguments, never by their ids.  A
   legacy run asks before a call and runs one call at a time.  In a graph
   run (deerflow_v2) the lines are what event_adapter.py publishes: a call
   is announced when something of it happens, its results come in any
   order, through the tool executor (with the validated arguments) or as a
   plain message (with none), sometimes as both; after the death of its
   process the run goes on in another one that appends to the same file.
   Result texts, redaction, previews and the times of decisions are left
   out. *)
EXTENDS Naturals, FiniteSets, Sequences, SequencesExt

CONSTANTS
    AuCalls,        \* tool calls; each is made at most once
    AuTool(_),      \* the tool of a call
    AuArgs(_),      \* its arguments, as the model gave them
    AuValid(_),     \* and as the executor's validation leaves them
    AuRisky,        \* calls that may need an approval
    AuPaths,        \* files of the workspace
    AuMaxDiffFiles, \* MAX_DIFF_FILES
    AuMaxAttempts,  \* bound: model requests
    AuMaxGraphCalls,\* bound: calls of a graph run
    AuMaxEdits      \* bound: changes of files

VARIABLES
    auProfile,      \* "legacy" or "deerflow_v2"
    auAt,           \* what the run does
    auTrace,        \* the lines of trace.jsonl
    auTruth,        \* what became of each call in reality
    auPending,      \* HarnessEventAdapter: calls of a message not announced yet
    auOut,          \* calls the executor answered, whose message is still to come
    auTwice,        \* ghost: calls whose result was published twice
    auUnsure,       \* ghost: tools whose results may be taken for another call's
    auStage,        \* the projector and the stages it has opened
    auFiles,        \* the files: path -> version, 0 absent
    auBase,         \* WorkspaceDiffTracker: the baseline, or none
    auStart,        \* the files when the baseline was taken
    auDiff,         \* diff.json
    auUsage,        \* rows of model_usage
    auAttempts,     \* model requests so far
    auReported,     \* provider responses that carried usage
    auEdits

auVars == <<auProfile, auAt, auTrace, auTruth, auPending, auOut, auTwice, auUnsure, auStage,
            auFiles, auBase, auStart, auDiff, auUsage, auAttempts, auReported, auEdits>>
auPairing == <<auPending, auOut, auTwice, auUnsure>>
auEvidence == <<auFiles, auBase, auStart, auDiff, auEdits>>
auLedger == <<auUsage, auAttempts, auReported>>

--------------------
(* run_store.py: the trace. *)

(* A line; "call" is the call it is about, which the file does not say. *)
TornLine == [type |-> "torn", call |-> "", id |-> "", tool |-> "", args |-> "", error |-> FALSE]

Line(type) == [TornLine EXCEPT !.type = type]

(* A line of the executor, without an id; one of a graph, with it. *)
CallLine(type, c, error) ==
    [type |-> type, call |-> c, id |-> "", tool |-> AuTool(c), args |-> AuValid(c),
     error |-> error]

GraphLine(type, c, args, error) ==
    [CallLine(type, c, error) EXCEPT !.id = c, !.args = args]

(* The executor says of an approval it was given no more than the tool. *)
GrantedLine(c) == [CallLine("approval_granted", c, FALSE) EXCEPT !.args = ""]

(* append_trace writes at the end of the file: after a torn line it only
   makes that line longer. *)
Append0(trace, line) ==
    IF trace # <<>> /\ Last(trace) = TornLine THEN trace ELSE Append(trace, line)

Appended(lines) == FoldLeft(Append0, auTrace, lines)

(* _read_events skips what does not parse. *)
ReadEvents(trace) == SelectSeq(trace, LAMBDA e : e # TornLine)

HasType(events, type) == \E i \in DOMAIN events : events[i].type = type

LastOf(events, types) == SelectLastInSeq(events, LAMBDA e : e.type \in types)

Finishes == {"finished_completed", "finished_cancelled", "finished_error",
             "finished_step_limit", "finished_running"}

StatusOf(finish) ==
    CASE finish = "finished_completed"  -> "completed"
      [] finish = "finished_cancelled"  -> "cancelled"
      [] finish = "finished_error"      -> "error"
      [] finish = "finished_step_limit" -> "step_limit"
      [] finish = "finished_running"    -> "running"

FinishLine(status) == Line(CHOOSE f \in Finishes : StatusOf(f) = status)

StatusFromEvents(events) ==
    LET finish == LastOf(events, Finishes) IN
    IF finish # 0 THEN StatusOf(events[finish].type)
    ELSE IF HasType(events, "cancelled")  THEN "cancelled"
    ELSE IF HasType(events, "error")      THEN "error"
    ELSE IF HasType(events, "final")      THEN "completed"
    ELSE IF HasType(events, "step_limit") THEN "step_limit"
    ELSE "running"

--------------------
(* run_store.py: the audit.  A step has a call, a result and an approval
   (a position among the approvals, or 0). *)

NoLine == Line("none")

EmptyAudit == [steps |-> <<>>, approvals |-> <<>>]

(* Mutant: a result goes to the latest open step of its tool, whatever its
   arguments. *)
MatchingStepByTool(steps, e) ==
    SelectLastInSeq(steps, LAMBDA s : /\ s.result = NoLine /\ s.call # NoLine
                                      /\ s.call.tool = e.tool)

(* The latest open step with the same arguments, or else of the same tool. *)
MatchingStep(steps, e) ==
    LET Open(s) == s.result = NoLine /\ s.call # NoLine /\ s.call.tool = e.tool
        exact == SelectLastInSeq(steps, LAMBDA s : Open(s) /\ s.call.args = e.args) IN
    IF exact # 0 THEN exact ELSE SelectLastInSeq(steps, Open)

(* The latest unused approval of the call, its arguments, or its tool. *)
MatchingApproval(approvals, e) ==
    LET byId   == SelectLastInSeq(approvals, LAMBDA a : ~a.used /\ a.event.id = e.id)
        byArgs == SelectLastInSeq(approvals, LAMBDA a : /\ ~a.used /\ a.event.tool = e.tool
                                                        /\ a.event.args = e.args)
        byTool == SelectLastInSeq(approvals, LAMBDA a : ~a.used /\ a.event.tool = e.tool) IN
    IF e.id # "" /\ byId # 0 THEN byId ELSE IF byArgs # 0 THEN byArgs ELSE byTool

UseApproval(audit, i) ==
    IF i = 0 THEN audit ELSE [audit EXCEPT !.approvals[i].used = TRUE]

AddStep(audit, call, result, approval) ==
    [UseApproval(audit, approval) EXCEPT
        !.steps = Append(@, [call |-> call, result |-> result, approval |-> approval])]

AddResult(audit, e) ==
    LET step == MatchingStep(audit.steps, e)
        approval == MatchingApproval(audit.approvals, e) IN
    IF step = 0 THEN AddStep(audit, NoLine, e, approval)
    ELSE IF audit.steps[step].approval # 0
         THEN [audit EXCEPT !.steps[step].result = e]
         ELSE [UseApproval(audit, approval) EXCEPT !.steps[step].result = e,
                                                   !.steps[step].approval = approval]

AuditEvent(audit, e) ==
    CASE e.type = "approval_required" ->
            [audit EXCEPT !.approvals =
                Append(@, [event |-> e, used |-> FALSE])]
      [] e.type = "tool_call" ->
            AddStep(audit, e, NoLine, MatchingApproval(audit.approvals, e))
      [] e.type = "tool_result" -> AddResult(audit, e)
      [] OTHER -> audit

(* Every approval no call or result took is a step of its own. *)
AddWaiting(audit) ==
    FoldLeft(LAMBDA a, i : IF a.approvals[i].used THEN a ELSE AddStep(a, NoLine, NoLine, i),
             audit, [i \in DOMAIN audit.approvals |-> i])

(* What the audit shows of a step, and (not shown) whose call and whose
   result it is made of. *)
ProjectStep(audit, s) ==
    LET source == IF s.call # NoLine THEN s.call
                  ELSE IF s.result # NoLine THEN s.result
                  ELSE audit.approvals[s.approval].event IN
    [tool |-> source.tool, call |-> source.call, result |-> s.result.call,
     status |-> IF s.result # NoLine
                THEN IF s.result.error THEN "error" ELSE "completed"
                ELSE IF s.call = NoLine THEN "waiting" ELSE "running"]

AuditSummary(trace) ==
    LET audit == AddWaiting(FoldLeft(AuditEvent, EmptyAudit, ReadEvents(trace))) IN
    [i \in DOMAIN audit.steps |-> ProjectStep(audit, audit.steps[i])]

RunToolCount(trace) == Len(SelectSeq(ReadEvents(trace), LAMBDA e : e.type = "tool_result"))

--------------------
(* stage_events.py: the projector of a legacy run.  "open" are the stages
   whose start has been published and whose end has not. *)

NewProjector == [active |-> "", open |-> {}, decided |-> 0, finished |-> FALSE]

StartStage(p, stage) == [p EXCEPT !.active = stage, !.open = @ \cup {stage}]

SettleActive(p) == [p EXCEPT !.active = "", !.open = @ \ {p.active}]

EnterStage(p, stage) == IF p.active = stage THEN p ELSE StartStage(SettleActive(p), stage)

StartTool(p, tool) ==
    LET q == EnterStage(p, "act") IN
    IF tool = "knowledge_search" /\ q.decided = 0 THEN [q EXCEPT !.decided = 1] ELSE q

FinishTool(p) ==
    LET q == IF p.active # "act" THEN StartStage(p, "act") ELSE p IN
    StartStage(SettleActive(q), "plan")

FinishStages(p) ==
    [SettleActive(p) EXCEPT !.finished = TRUE, !.decided = IF @ = 0 THEN 1 ELSE @]

ProjectEvent(p, e) ==
    CASE e.type = "model_requested"                    -> EnterStage(p, "plan")
      [] e.type = "text_delta"                         -> EnterStage(p, "reply")
      [] e.type \in {"tool_call", "approval_required"} -> StartTool(p, e.tool)
      [] e.type = "tool_result"                        -> FinishTool(p)
      [] e.type \in {"final", "step_limit"}            -> SettleActive(EnterStage(p, "reply"))
      [] e.type \in {"cancelled", "error"}             -> SettleActive(p)
      [] OTHER                                         -> p

Projected(lines) ==
    IF auProfile = "legacy" THEN FoldLeft(ProjectEvent, auStage, lines) ELSE auStage

Writes(lines) ==
    /\ auTrace' = Appended(SelectSeq(lines, LAMBDA e : e.type # "text_delta"))
    /\ auStage' = Projected(lines)

--------------------
(* workspace_diff.py *)

NoBase == [ready |-> FALSE, files |-> [p \in AuPaths |-> 0]]

ScanWorkspace == [ready |-> TRUE, files |-> auFiles]

Changed(base) == {p \in AuPaths : base.files[p] # auFiles[p]}

(* At most MAX_DIFF_FILES changes are listed, and the diff says so. *)
SnapshotAfterRun(base) ==
    \E listed \in SUBSET Changed(base) :
        /\ Cardinality(listed) = IF Cardinality(Changed(base)) > AuMaxDiffFiles
                                 THEN AuMaxDiffFiles ELSE Cardinality(Changed(base))
        /\ auDiff' = [files |-> listed,
                      truncated |-> Cardinality(Changed(base)) > AuMaxDiffFiles]

--------------------
(* The run. *)

AuBegin ==
    /\ auAt = "new"
    /\ auAt' = "model"
    /\ auBase' = ScanWorkspace
    /\ auStart' = auFiles
    /\ auTrace' = IF auProfile = "legacy" THEN Appended(<<Line("turn_started")>>) ELSE auTrace
    /\ auStage' = StartStage(auStage, "context")
    /\ UNCHANGED <<auProfile, auTruth, auPairing, auFiles, auDiff, auEdits, auLedger>>

Calls(status) == {c \in AuCalls : auTruth[c] = status}

Open == Calls("waiting") \cup Calls("proposed") \cup Calls("running")

Quiet == Open = {}

AuEnded == Calls("completed") \cup Calls("error")

Truth(c, status) == auTruth' = [auTruth EXCEPT ![c] = status]

(* A model request; a response that carries usage is recorded under the
   run and the attempt, once.  The message of a graph names its calls, one
   of them risky at most: GraphTurn shows that two such approvals end the
   run. *)
RecordUsage(attempt) == auUsage' = auUsage \cup {attempt}

AuModel ==
    \E reported \in BOOLEAN, named \in SUBSET Calls("none") :
        /\ auAt = "model" \/ (auAt = "acting" /\ Quiet)
        /\ auAttempts < AuMaxAttempts
        /\ Cardinality(named \cap AuRisky) <= 1
        /\ named # {} => /\ auProfile = "deerflow_v2"
                         /\ Cardinality(named \cup AuEnded) <= AuMaxGraphCalls
        /\ auAttempts' = auAttempts + 1
        /\ Writes(IF auProfile = "legacy" THEN <<Line("model_requested")>> ELSE <<>>)
        /\ IF reported THEN RecordUsage(auAttempts + 1) ELSE UNCHANGED auUsage
        /\ auReported' = IF reported THEN auReported + 1 ELSE auReported
        /\ auTruth' = [c \in AuCalls |-> IF c \in named THEN "proposed" ELSE auTruth[c]]
        /\ auPending' = named
        /\ auOut' = {}
        /\ auAt' = "acting"
        /\ UNCHANGED <<auProfile, auTwice, auUnsure, auEvidence>>

(* A call ends; a risky one may have changed a file. *)
Ends(c, error, touched) ==
    /\ auAt = "acting"
    /\ Cardinality(touched) <= IF c \in AuRisky THEN 1 ELSE 0
    /\ auEdits + Cardinality(touched) <= AuMaxEdits
    /\ Truth(c, IF error THEN "error" ELSE "completed")
    /\ auFiles' = [p \in AuPaths |-> IF p \in touched THEN auFiles[p] + 1 ELSE auFiles[p]]
    /\ auEdits' = auEdits + Cardinality(touched)
    /\ UNCHANGED <<auProfile, auAt, auBase, auStart, auDiff, auLedger>>

(* Legacy: one call at a time; an approval comes first, a call that is
   refused (unknown, invalid, not permitted) has only a result. *)
AuAskFirst(c) ==
    /\ auProfile = "legacy" /\ auAt = "acting" /\ Quiet
    /\ c \in AuRisky /\ auTruth[c] = "none"
    /\ Truth(c, "waiting")
    /\ Writes(<<CallLine("approval_required", c, FALSE)>>)
    /\ UNCHANGED <<auProfile, auAt, auPairing, auEvidence, auLedger>>

AuCall(c) ==
    /\ auProfile = "legacy" /\ auAt = "acting"
    /\ c \in Calls("waiting") \/ (Quiet /\ auTruth[c] = "none")
    /\ Truth(c, "running")
    /\ Writes((IF c \in AuRisky THEN <<GrantedLine(c)>> ELSE <<>>)
              \o <<CallLine("tool_call", c, FALSE)>>)
    /\ UNCHANGED <<auProfile, auAt, auPairing, auEvidence, auLedger>>

AuRefused(c) ==
    /\ auProfile = "legacy" /\ auAt = "acting"
    /\ c \in Calls("waiting") \/ (Quiet /\ auTruth[c] = "none")
    /\ Truth(c, "error")
    /\ Writes(<<CallLine("tool_result", c, TRUE)>>)
    /\ UNCHANGED <<auProfile, auAt, auPairing, auEvidence, auLedger>>

AuResult(c) ==
    \E error \in BOOLEAN, touched \in SUBSET AuPaths :
        /\ auProfile = "legacy"
        /\ auTruth[c] = "running"
        /\ Ends(c, error, touched)
        /\ Writes(<<CallLine("tool_result", c, error)>>)
        /\ UNCHANGED auPairing

--------------------
(* event_adapter.py: an event about a call first announces a call that is
   still pending: that one, or else one of the same tool (the first). *)
Taken(c) ==
    IF c \in auPending THEN {c} ELSE {d \in auPending : AuTool(d) = AuTool(c)}

Announces(c, lines) ==
    IF Taken(c) = {} THEN Writes(lines) /\ UNCHANGED auPending
    ELSE \E d \in Taken(c) :
            /\ auPending' = auPending \ {d}
            /\ Writes(<<GraphLine("tool_call", d, AuArgs(d), FALSE)>> \o lines)

(* The executor begins a call. *)
AuStarts(c) ==
    /\ auProfile = "deerflow_v2" /\ auAt = "acting"
    /\ auTruth[c] = "proposed"
    /\ Truth(c, "running")
    /\ Announces(c, <<>>)
    /\ UNCHANGED <<auProfile, auAt, auOut, auTwice, auUnsure, auEvidence, auLedger>>

Rivals(c) == {d \in Open \ {c} : AuTool(d) = AuTool(c)}

(* Where the tool and the arguments do not tell two open calls apart. *)
Confuses(c, plain) ==
    /\ Rivals(c) # {}
    /\ \/ plain \/ AuValid(c) # AuArgs(c)
       \/ \E d \in Rivals(c) : AuArgs(d) = AuArgs(c)

(* The result of the executor, or the plain message of a tool that does not
   use it (or of a call that was refused before it got there). *)
AuGraphResult(c) ==
    \E error \in BOOLEAN, touched \in SUBSET AuPaths, plain \in BOOLEAN :
        /\ auProfile = "deerflow_v2"
        /\ auTruth[c] \in {"proposed", "running"}
        /\ Ends(c, error, touched)
        /\ Announces(c, <<GraphLine("tool_result", c, IF plain THEN "" ELSE AuValid(c), error)>>)
        /\ auOut' = IF plain THEN auOut ELSE auOut \cup {c}
        /\ auUnsure' = IF Confuses(c, plain) THEN auUnsure \cup {AuTool(c)} ELSE auUnsure
        /\ UNCHANGED auTwice

(* The message of a call the executor answered is dropped when an event with
   its tool and text is on record, and is otherwise (an archived result,
   whose message has a preview; the second of two equal results) published
   as a result of its own, and never as an error: the tool returned text. *)
AuEcho(c) ==
    /\ auProfile = "deerflow_v2" /\ auAt = "acting"
    /\ c \in auOut
    /\ auOut' = auOut \ {c}
    /\ Announces(c, <<GraphLine("tool_result", c, "", FALSE)>>)
    /\ auTwice' = auTwice \cup {c}
    /\ auUnsure' = auUnsure \cup {AuTool(c)}
    /\ UNCHANGED <<auProfile, auAt, auTruth, auEvidence, auLedger>>

Asked(c) == \E i \in DOMAIN auTrace : auTrace[i].type = "approval_required" /\ auTrace[i].call = c

AuAskLater(c) ==
    /\ auProfile = "deerflow_v2" /\ auAt = "acting"
    /\ c \in AuRisky \cap Calls("proposed")
    /\ ~Asked(c)
    /\ Announces(c, <<GraphLine("approval_required", c, AuValid(c), FALSE)>>)
    /\ auOut' = {}
    /\ auAt' = "asked"
    /\ UNCHANGED <<auProfile, auTruth, auTwice, auUnsure, auEvidence, auLedger>>

(* The answer resumes the graph with a new adapter, to which the calls the
   checkpoint has not answered count as announced. *)
AuAnswered(c) ==
    \E granted \in BOOLEAN :
        /\ auAt = "asked"
        /\ c \in Open /\ Asked(c)
        /\ Writes(IF granted THEN <<GrantedLine(c)>> ELSE <<>>)
        /\ auPending' = {}
        /\ auUnsure' = auUnsure \cup {AuTool(d) : d \in {e \in Open : Rivals(e) # {}}}
        /\ auAt' = "acting"
        /\ UNCHANGED <<auProfile, auTruth, auOut, auTwice, auEvidence, auLedger>>

--------------------
(* The engine's last event: an answer (streamed first), a stop, a failure,
   or no steps left. *)
AuEngineEnds ==
    \E line \in {"final", "cancelled", "error", "step_limit"} :
        /\ auAt = "acting"
        /\ line \in {"final", "step_limit"} => Quiet
        /\ Writes((IF line = "final" THEN <<Line("text_delta")>> ELSE <<>>)
                  \o (IF line = "cancelled" /\ auProfile = "deerflow_v2" THEN <<>>
                      ELSE <<Line(line)>>))
        /\ auAt' = IF line = "cancelled" THEN "cancelled" ELSE "ending"
        /\ UNCHANGED <<auProfile, auTruth, auPairing, auEvidence, auLedger>>

(* Legacy: the diff, or an error event when it fails, then run_finished
   with the status read back from the trace; then the stages are closed. *)
AuFinishLegacy ==
    \E fails \in BOOLEAN :
        LET trace == Append0(auTrace, Line(IF fails THEN "error" ELSE "workspace_diff_ready"))
            status == StatusFromEvents(ReadEvents(trace)) IN
        /\ auProfile = "legacy" /\ auAt \in {"ending", "cancelled"}
        /\ IF fails THEN UNCHANGED auDiff ELSE SnapshotAfterRun(auBase)
        /\ auTrace' = Append0(trace, FinishLine(status))
        /\ auStage' = FinishStages(auStage)
        /\ auBase' = NoBase
        /\ auAt' = "done"
        /\ UNCHANGED <<auProfile, auTruth, auPairing, auFiles, auStart, auEdits, auLedger>>

(* Graph: finish_harness_evidence when the stream reached its terminal,
   abort_harness_evidence when it was cancelled. *)
AuFinishGraph ==
    /\ auProfile = "deerflow_v2" /\ auAt \in {"ending", "cancelled"}
    /\ IF auAt = "ending"
       THEN /\ SnapshotAfterRun(auBase)
            /\ auTrace' = Appended(<<Line("workspace_diff_ready"),
                                     FinishLine(StatusFromEvents(ReadEvents(auTrace)))>>)
       ELSE /\ auTrace' = Appended(<<FinishLine("cancelled")>>)
            /\ UNCHANGED auDiff
    /\ auBase' = NoBase
    /\ auAt' = "done"
    /\ UNCHANGED <<auProfile, auTruth, auPairing, auStage, auFiles, auStart, auEdits, auLedger>>

(* The process dies, within a write or while it waits for an answer (a death
   elsewhere leaves what a run leaves that never goes on).  A graph run that
   waited is resumed: the baseline is taken again, the file appended to. *)
AuDie ==
    \E torn \in BOOLEAN :
        /\ auAt \in {"model", "acting", "asked"}
        /\ torn \/ auAt = "asked"
        /\ auTrace' = IF torn THEN Append0(auTrace, TornLine) ELSE auTrace
        /\ auAt' = IF auAt = "asked" THEN "resumable" ELSE "dead"
        /\ auBase' = NoBase
        /\ UNCHANGED <<auProfile, auTruth, auPairing, auStage, auFiles, auStart, auDiff,
                       auEdits, auLedger>>

AuResume ==
    /\ auAt = "resumable"
    /\ auBase' = ScanWorkspace
    /\ auStart' = auFiles
    /\ auAt' = "asked"
    /\ UNCHANGED <<auProfile, auTrace, auTruth, auPairing, auStage, auFiles, auDiff, auEdits,
                   auLedger>>

--------------------
AuInit ==
    /\ auProfile \in {"legacy", "deerflow_v2"}
    /\ auAt = "new"
    /\ auTrace = <<>>
    /\ auTruth = [c \in AuCalls |-> "none"]
    /\ auPending = {}
    /\ auOut = {}
    /\ auTwice = {}
    /\ auUnsure = {}
    /\ auStage = NewProjector
    /\ auFiles = [p \in AuPaths |-> 0]
    /\ auBase = NoBase
    /\ auStart = auFiles
    /\ auDiff = [files |-> {}, truncated |-> FALSE]
    /\ auUsage = {}
    /\ auAttempts = 0
    /\ auReported = 0
    /\ auEdits = 0

AuNext ==
    \/ AuBegin \/ AuModel
    \/ \E c \in AuCalls : \/ AuAskFirst(c) \/ AuCall(c) \/ AuRefused(c) \/ AuResult(c)
                          \/ AuStarts(c) \/ AuGraphResult(c) \/ AuEcho(c)
                          \/ AuAskLater(c) \/ AuAnswered(c)
    \/ AuEngineEnds \/ AuFinishLegacy \/ AuFinishGraph \/ AuDie \/ AuResume

AuSpec == AuInit /\ [][AuNext]_auVars

AuTypeOK ==
    /\ auAt \in {"new", "model", "acting", "asked", "ending", "cancelled", "done", "dead",
                 "resumable"}
    /\ auTruth \in [AuCalls -> {"none", "waiting", "proposed", "running", "completed", "error"}]
    /\ auPending \cup auTwice \cup auOut \subseteq AuCalls
    /\ auUnsure \subseteq {AuTool(c) : c \in AuCalls}
    /\ auUsage \subseteq 1..AuMaxAttempts
    /\ \A i \in DOMAIN auTrace : DOMAIN auTrace[i] = DOMAIN TornLine

Intact == TornLine \notin ToSet(auTrace)

(* The audit of a run, at any moment, shows as many completed and as many
   failed steps of a tool as calls of it completed and failed, plus one
   completed step for each result that was published twice, and once no
   call is under way no other step (until then an asked graph call is shown
   twice, as running and as waiting).  Where the arguments told the calls
   of a tool apart, each of them has the step that shows its own result.  A
   torn line may hide events, but never makes a tool look completed. *)
AuAuditIsTrue ==
    LET steps == AuditSummary(auTrace)
        Of(t, calls) == Cardinality({c \in calls : AuTool(c) = t})
        Shown(t, status) == Cardinality({i \in DOMAIN steps : /\ steps[i].tool = t
                                                              /\ steps[i].status = status}) IN
    /\ \A i \in DOMAIN steps : steps[i].status = "completed" =>
            \E c \in Calls("completed") \cup auTwice :
                /\ AuTool(c) = steps[i].tool
                /\ AuTool(c) \notin auUnsure => c = steps[i].call
    /\ Intact =>
        /\ \A t \in {AuTool(c) : c \in AuCalls} :
               /\ Shown(t, "completed") = Of(t, Calls("completed")) + Of(t, auTwice)
               /\ Shown(t, "error") = Of(t, Calls("error"))
        /\ Quiet => Len(steps) = Cardinality(AuEnded) + Cardinality(auTwice)
        /\ \A c \in AuEnded : AuTool(c) \notin auUnsure =>
               \E i \in DOMAIN steps : /\ steps[i].call = c /\ steps[i].result = c
                                       /\ steps[i].status = auTruth[c]
        /\ RunToolCount(auTrace) = Cardinality(AuEnded) + Cardinality(auTwice)

(* A finished run reports how it ended, and never that it is running. *)
AuStatusIsFinal ==
    auAt = "done" /\ Intact => StatusFromEvents(auTrace) # "running"

(* Between events exactly the active stage is open, a finished legacy run
   has closed every stage it started, and it decided once about retrieval. *)
AuStagesClose ==
    auProfile = "legacy" =>
        /\ auStage.open = {auStage.active} \ {""}
        /\ auStage.finished => auStage.open = {} /\ auStage.decided = 1

(* The diff lists what changed since the baseline, or says it is truncated. *)
AuDiffIsTrue ==
    auAt = "done" /\ HasType(auTrace, "workspace_diff_ready") =>
        auDiff.truncated \/ auDiff.files = {p \in AuPaths : auStart[p] # auFiles[p]}

(* Every usage a provider reported is in the ledger once. *)
AuUsageCounts == Cardinality(auUsage) = auReported

(* The evidence of a run says what happened in it. *)
AuEvidenceIsTrue ==
    AuAuditIsTrue /\ AuStatusIsFinal /\ AuStagesClose /\ AuDiffIsTrue /\ AuUsageCounts
====
