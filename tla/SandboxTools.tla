---- MODULE SandboxTools ----
(* The file and shell tools of a graph turn, run through its sandbox
   (core/harness/container_sandbox.py, local_sandbox.py, sandbox_factory.py
   tools/file_tools.py, shell_tool.py) behind the fresh-read policy of
   tool_executor/policy.py.  Each turn makes a sandbox of its own for the
   session; a container is found by a name that is the session's.  The
   calls of one message run in threads, which go on when the turn's task
   is cancelled.  One workspace file of two blocks; a write gives it a new
   stamp (its mtime and size).  Approvals are GraphTurn's: here a call that
   passed its checks may simply wait. *)
EXTENDS Naturals, FiniteSets

CONSTANTS
    SbCalls,        \* tool calls
    SbKinds,        \* configured providers, of "local", "container"
    SbMaxTurns, SbMaxEdits, SbMaxFaults     \* bounds

ASSUME SbAssumption ==
    /\ SbCalls \cap {"old", "user", "none"} = {}
    /\ SbKinds \subseteq {"local", "container"}
    /\ SbMaxTurns \in Nat /\ SbMaxEdits \in Nat /\ SbMaxFaults \in Nat

VARIABLES
    sbKind,         \* the provider of the deployment
    sbFile,         \* the file: who wrote each block, and its stamp; 0: absent
    sbMarks,        \* WorkspaceContext: stamps read and self-authored, 0: none
    sbSeen,         \* history: the text the agent knows
    sbCalls,        \* call |-> where it is
    sbTurn,         \* turns begun, and if one is open, closing or over
    sbBoxes,        \* turn |-> its sandbox object
    sbDocker,       \* the container of the name: its id and state
    sbReconcile,    \* reconcile_stopped of a starting instance: ids to remove
    sbPast,         \* history: what happened
    sbCount         \* edits and faults so far

sbVars == <<sbKind, sbFile, sbMarks, sbSeen, sbCalls, sbTurn, sbBoxes, sbDocker,
            sbReconcile, sbPast, sbCount>>

SbOps == {"read_file", "write_file", "patch_file", "run_shell"}
SbWriters == SbCalls \cup {"old", "user", "none"}
SbText(x, y) == [x |-> x, y |-> y]
SbNoText == SbText("none", "none")
SbExists == sbFile.stamp # 0

SbFault == sbCount.faults < SbMaxFaults /\ sbCount' = [sbCount EXCEPT !.faults = @ + 1]
SbDone == [pc |-> "done", op |-> "none", turn |-> 0, text |-> SbNoText, stamp |-> 0, orphan |-> FALSE]
SbGo(c, pc) == sbCalls' = [sbCalls EXCEPT ![c].pc = pc]
(* A thread whose caller went away ends with its function. *)
SbThen(c, pc) == sbCalls' = [sbCalls EXCEPT ![c] = IF @.orphan THEN SbDone ELSE [@ EXCEPT !.pc = pc]]
SbEnd(c) == sbCalls' = [sbCalls EXCEPT ![c] = SbDone]

--------------------
(* The policy. *)

(* Mutant: any reading of the file will do. *)
SbFreshEver == sbMarks.read # 0 \/ sbMarks.authored # 0

(* _has_fresh_read: the stamp the agent read, or wrote, is the file's. *)
SbFresh == sbFile.stamp # 0 /\ sbFile.stamp \in {sbMarks.read, sbMarks.authored}

(* validate_tool: a file to read or patch; the old text occurs once. *)
SbValid(call) ==
    /\ call.op \in {"read_file", "patch_file"} => SbExists
    /\ call.op = "patch_file" => sbFile.text.x = call.text.x

SbPolicy(op) ==
    CASE op = "patch_file" -> SbFresh
      [] op = "write_file" -> ~SbExists \/ SbFresh
      [] OTHER             -> TRUE

(* A message of the model: calls with what the agent knows of the file. *)
SbMessage(calls) ==
    /\ sbTurn.state = "open" /\ \A c \in SbCalls : sbCalls[c] = SbDone \/ sbCalls[c].orphan
    /\ calls # {} /\ calls \cap sbPast.used = {}
    /\ \E op \in [calls -> SbOps] :
        sbCalls' = [c \in SbCalls |-> IF c \in calls
                        THEN [SbDone EXCEPT !.pc = "check", !.op = op[c], !.turn = sbTurn.n, !.text = sbSeen]
                        ELSE sbCalls[c]]
    /\ sbPast' = [sbPast EXCEPT !.used = @ \cup calls]
    /\ UNCHANGED <<sbKind, sbFile, sbMarks, sbSeen, sbTurn, sbBoxes, sbDocker, sbReconcile, sbCount>>

(* ToolExecutor.execute up to the sandbox. *)
SbCheck(c) ==
    LET call == sbCalls[c]
        valid == SbValid(call)
        allowed == SbPolicy(call.op)
    IN
    /\ call.pc = "check"
    /\ sbCalls' = [sbCalls EXCEPT ![c] = IF valid /\ allowed THEN [@ EXCEPT !.pc = "invoke"] ELSE SbDone]
    /\ sbPast' = [sbPast EXCEPT
            !.refused = @ \/ (valid /\ ~allowed /\ call.text = sbFile.text),
            !.blind = @ \/ (valid /\ allowed /\ call.op = "patch_file" /\ sbSeen # sbFile.text
                        /\ ~sbPast.raced)]
    /\ UNCHANGED <<sbKind, sbFile, sbMarks, sbSeen, sbTurn, sbBoxes, sbDocker, sbReconcile, sbCount>>

(* invoke: a closed sandbox refuses; the rest runs in a thread. *)
SbInvoke(c) ==
    LET call == sbCalls[c] IN
    /\ call.pc = "invoke"
    /\ SbGo(c, IF sbBoxes[call.turn].closed THEN "done"
               ELSE IF sbKind = "container" THEN "ensure" ELSE "validate")
    /\ UNCHANGED <<sbKind, sbFile, sbMarks, sbSeen, sbTurn, sbBoxes, sbDocker, sbReconcile, sbPast, sbCount>>

--------------------
(* The container. *)

(* A provider of a turn: nothing is started before its first call. *)
SbNewBox == [closed |-> FALSE, started |-> FALSE, lock |-> FALSE]

SbBox(c) == sbBoxes[sbCalls[c].turn]
SbSetBox(c, box) == sbBoxes' = [sbBoxes EXCEPT ![sbCalls[c].turn] = box]
SbUnchangedButStart == UNCHANGED <<sbKind, sbFile, sbMarks, sbSeen, sbTurn, sbReconcile>>

(* _ensure_started finds its container running. *)
SbFound(box) == [box EXCEPT !.lock = FALSE, !.started = TRUE]

(* _ensure_started, under the lock of this sandbox object. *)
SbEnsure(c) ==
    /\ sbCalls[c].pc = "ensure" /\ ~SbBox(c).lock
    /\ IF SbBox(c).started
       THEN SbThen(c, "exec") /\ UNCHANGED sbBoxes
       ELSE IF sbDocker.state = "running"
       THEN SbThen(c, "exec") /\ SbSetBox(c, SbFound(SbBox(c)))
       ELSE SbGo(c, "clear") /\ SbSetBox(c, [SbBox(c) EXCEPT !.lock = TRUE])
    /\ UNCHANGED <<sbDocker, sbPast, sbCount>> /\ SbUnchangedButStart

(* rm -f of whatever has the name. *)
SbClear(c) ==
    /\ sbCalls[c].pc = "clear"
    /\ SbGo(c, "create")
    /\ sbDocker' = [sbDocker EXCEPT !.state = "none"]
    /\ UNCHANGED <<sbBoxes, sbPast, sbCount>> /\ SbUnchangedButStart

(* docker run creates the container, unless the name is taken, ... *)
SbCreate(c) ==
    /\ sbCalls[c].pc = "create"
    /\ IF sbDocker.state = "none"
       THEN SbGo(c, "start") /\ sbDocker' = [id |-> sbDocker.id + 1, state |-> "created"] /\ UNCHANGED sbBoxes
       ELSE SbEnd(c) /\ SbSetBox(c, [SbBox(c) EXCEPT !.lock = FALSE]) /\ UNCHANGED sbDocker
    /\ UNCHANGED <<sbPast, sbCount>> /\ SbUnchangedButStart

(* ... and starts it. *)
SbStart(c) ==
    /\ sbCalls[c].pc = "start"
    /\ IF sbDocker.state = "created"
       THEN /\ sbDocker' = [sbDocker EXCEPT !.state = "running"]
            /\ SbThen(c, "exec") /\ SbSetBox(c, [SbBox(c) EXCEPT !.lock = FALSE, !.started = TRUE])
            /\ sbPast' = [sbPast EXCEPT !.left = @ \/ sbCalls[c].orphan]
       ELSE SbEnd(c) /\ SbSetBox(c, [SbBox(c) EXCEPT !.lock = FALSE]) /\ UNCHANGED <<sbDocker, sbPast>>
    /\ UNCHANGED sbCount /\ SbUnchangedButStart

(* docker exec: fails unless the container runs. *)
SbExec(c) ==
    /\ sbCalls[c].pc = "exec"
    /\ IF sbDocker.state = "running" THEN SbGo(c, "load") ELSE SbEnd(c)
    /\ sbPast' = [sbPast EXCEPT !.ran = @ \/ sbDocker.state = "running"]
    /\ UNCHANGED <<sbBoxes, sbDocker, sbCount>> /\ SbUnchangedButStart

(* The docker command times out; what it started in the container goes on. *)
SbTimeout(c) ==
    /\ sbKind = "container" /\ sbCalls[c].pc \in {"load", "store"} /\ ~sbCalls[c].orphan
    /\ SbFault
    /\ sbCalls' = [sbCalls EXCEPT ![c].orphan = TRUE]
    /\ UNCHANGED <<sbBoxes, sbDocker, sbPast>> /\ SbUnchangedButStart

--------------------
(* The tools. *)

SbUnchangedButFile == UNCHANGED <<sbKind, sbTurn, sbBoxes, sbDocker, sbReconcile, sbCount>>
(* What runs in a container dies with it. *)
SbAlive == sbKind = "local" \/ sbDocker.state = "running"

(* The local tool validates again. *)
SbValidate(c) ==
    /\ sbCalls[c].pc = "validate"
    /\ IF SbValid(sbCalls[c]) THEN SbGo(c, "load") ELSE SbEnd(c)
    /\ UNCHANGED <<sbFile, sbMarks, sbSeen, sbPast>> /\ SbUnchangedButFile

(* The tool reads the file; in a container patch_file asserts its old text,
   and a reading is over. *)
SbLoad(c) ==
    LET call == sbCalls[c]
        reads == call.op = "read_file"
        fails == ~SbAlive \/ (reads /\ ~SbExists)
                 \/ (sbKind = "container" /\ call.op = "patch_file" /\ sbFile.text.x # call.text.x)
    IN
    /\ call.pc = "load"
    /\ sbCalls' = [sbCalls EXCEPT ![c] =
            IF fails \/ (reads /\ sbKind = "container") THEN SbDone
            ELSE [@ EXCEPT !.pc = IF reads THEN "mark" ELSE "store", !.text = sbFile.text, !.stamp = sbFile.stamp]]
    /\ sbSeen' = IF reads /\ sbKind = "container" /\ ~fails /\ ~call.orphan THEN sbFile.text ELSE sbSeen
    /\ UNCHANGED <<sbFile, sbMarks, sbPast>> /\ SbUnchangedButFile

(* What a shell command may do to the file, as far as it got. *)
SbShell(text, c) == [text EXCEPT !.y = c]

(* What a tool writes. *)
SbWritten(c) ==
    CASE sbCalls[c].op = "patch_file" -> [sbCalls[c].text EXCEPT !.x = c]
      [] sbCalls[c].op = "write_file" -> SbText(c, c)
      [] sbCalls[c].op = "run_shell"  -> SbShell(sbCalls[c].text, c)

(* The tool writes the file; only a local one goes on to mark it. *)
SbStore(c) ==
    LET call == sbCalls[c]
        marks == sbKind = "local" /\ call.op # "run_shell" IN
    /\ call.pc = "store"
    /\ IF ~SbAlive THEN SbEnd(c) /\ UNCHANGED <<sbFile, sbSeen>>
       ELSE /\ sbFile' = [text |-> SbWritten(c), stamp |-> sbFile.stamp + 1]
            /\ sbCalls' = [sbCalls EXCEPT ![c] = IF marks
                    THEN [@ EXCEPT !.pc = "mark", !.text = SbWritten(c), !.stamp = sbFile.stamp + 1] ELSE SbDone]
            /\ sbSeen' = IF marks \/ call.op = "run_shell" \/ call.orphan THEN sbSeen ELSE SbWritten(c)
    /\ UNCHANGED <<sbMarks, sbPast>> /\ SbUnchangedButFile

(* mark_read, mark_self_authored: the stamp the file has by now. *)
SbMark(c) ==
    LET call == sbCalls[c] IN
    /\ call.pc = "mark"
    /\ sbMarks' = IF call.op = "read_file" THEN [sbMarks EXCEPT !.read = sbFile.stamp]
                  ELSE [sbMarks EXCEPT !.authored = sbFile.stamp]
    /\ sbPast' = [sbPast EXCEPT !.raced = @ \/ call.orphan \/ sbFile.stamp # call.stamp]
    /\ sbSeen' = IF call.orphan THEN sbSeen ELSE call.text
    /\ SbEnd(c)
    /\ UNCHANGED sbFile /\ SbUnchangedButFile

--------------------
(* Turns, and the rest of the world. *)

SbBegin ==
    /\ sbTurn.state = "over" /\ sbTurn.n < SbMaxTurns
    /\ sbTurn' = [n |-> sbTurn.n + 1, state |-> "open"]
    /\ sbPast' = [sbPast EXCEPT !.ran = FALSE]
    /\ UNCHANGED <<sbKind, sbFile, sbMarks, sbSeen, sbCalls, sbBoxes, sbDocker, sbReconcile, sbCount>>

(* The turn ends when its calls did, or its task is cancelled: a call that
   is not in a thread goes with it.  Then aclose marks the sandbox closed. *)
SbFinish(cancelled) ==
    /\ sbTurn.state = "open"
    /\ cancelled \/ \A c \in SbCalls : sbCalls[c] = SbDone \/ sbCalls[c].orphan
    /\ sbCalls' = [c \in SbCalls |->
            IF sbCalls[c].pc \in {"done", "check", "invoke", "exec"} THEN SbDone ELSE [sbCalls[c] EXCEPT !.orphan = TRUE]]
    /\ sbBoxes' = [sbBoxes EXCEPT ![sbTurn.n].closed = TRUE]
    /\ sbTurn' = [sbTurn EXCEPT !.state = "closing"]
    /\ UNCHANGED <<sbKind, sbFile, sbMarks, sbSeen, sbDocker, sbReconcile, sbPast, sbCount>>

(* aclose stops the container this sandbox started. *)
SbClose ==
    LET box == sbBoxes[sbTurn.n]
        stops == sbKind = "container" /\ box.started
    IN
    /\ sbTurn.state = "closing"
    /\ stops => ~box.lock
    /\ sbTurn' = [sbTurn EXCEPT !.state = "over"]
    /\ sbBoxes' = [sbBoxes EXCEPT ![sbTurn.n].started = FALSE]
    /\ sbDocker' = IF stops THEN [sbDocker EXCEPT !.state = "none"] ELSE sbDocker
    /\ sbPast' = [sbPast EXCEPT !.left = @ /\ ~sbPast.ran]
    /\ UNCHANGED <<sbKind, sbFile, sbMarks, sbSeen, sbCalls, sbReconcile, sbCount>>

(* The process dies; the container and what runs in it stay. *)
SbCrash ==
    /\ SbFault
    /\ sbTurn.state # "over"
    /\ sbTurn' = [sbTurn EXCEPT !.state = "over"]
    /\ sbCalls' = [c \in SbCalls |-> SbDone]
    /\ sbMarks' = [read |-> 0, authored |-> 0]
    /\ sbSeen' = SbNoText
    /\ sbPast' = [sbPast EXCEPT !.left = @ \/ sbDocker.state = "running"]
    /\ UNCHANGED <<sbKind, sbFile, sbBoxes, sbDocker, sbReconcile>>

(* An instance starts: reconcile_stopped lists the containers that do not
   run, and removes them by id. *)
SbList ==
    /\ sbKind = "container" /\ sbDocker.state \in {"created", "exited"}
    /\ sbDocker.id \notin sbReconcile
    /\ sbReconcile' = sbReconcile \cup {sbDocker.id}
    /\ UNCHANGED <<sbKind, sbFile, sbMarks, sbSeen, sbCalls, sbTurn, sbBoxes, sbDocker, sbPast, sbCount>>

SbRemove(id) ==
    /\ id \in sbReconcile
    /\ sbReconcile' = sbReconcile \ {id}
    /\ sbDocker' = IF sbDocker.id = id THEN [sbDocker EXCEPT !.state = "none"] ELSE sbDocker
    /\ UNCHANGED <<sbKind, sbFile, sbMarks, sbSeen, sbCalls, sbTurn, sbBoxes, sbPast, sbCount>>

SbContainerDies ==
    /\ sbDocker.state = "running" /\ SbFault
    /\ sbDocker' = [sbDocker EXCEPT !.state = "exited"]
    /\ UNCHANGED <<sbKind, sbFile, sbMarks, sbSeen, sbCalls, sbTurn, sbBoxes, sbReconcile, sbPast>>

(* The user edits the second block in another program. *)
SbUserEdits ==
    /\ sbCount.edits < SbMaxEdits
    /\ sbFile' = [text |-> [sbFile.text EXCEPT !.y = "user"], stamp |-> sbFile.stamp + 1]
    /\ sbCount' = [sbCount EXCEPT !.edits = @ + 1]
    /\ UNCHANGED <<sbKind, sbMarks, sbSeen, sbCalls, sbTurn, sbBoxes, sbDocker, sbReconcile, sbPast>>

--------------------
SbInit ==
    /\ sbKind \in SbKinds
    /\ sbFile \in {[text |-> SbNoText, stamp |-> 0], [text |-> SbText("old", "old"), stamp |-> 1]}
    /\ sbMarks = [read |-> 0, authored |-> 0]
    /\ sbSeen = SbNoText
    /\ sbCalls = [c \in SbCalls |-> SbDone]
    /\ sbTurn = [n |-> 0, state |-> "over"]
    /\ sbBoxes = [t \in 1..SbMaxTurns |-> SbNewBox]
    /\ sbDocker = [id |-> 0, state |-> "none"]
    /\ sbReconcile = {}
    /\ sbPast = [used |-> {}, refused |-> FALSE, blind |-> FALSE, raced |-> FALSE,
                 ran |-> FALSE, left |-> FALSE]
    /\ sbCount = [edits |-> 0, faults |-> 0]

SbNext ==
    \/ \E calls \in SUBSET SbCalls : SbMessage(calls)
    \/ \E c \in SbCalls :
        \/ SbCheck(c) \/ SbInvoke(c) \/ SbEnsure(c) \/ SbClear(c) \/ SbCreate(c) \/ SbStart(c)
        \/ SbExec(c) \/ SbTimeout(c)
        \/ SbValidate(c) \/ SbLoad(c) \/ SbStore(c) \/ SbMark(c)
    \/ SbBegin \/ (\E b \in BOOLEAN : SbFinish(b)) \/ SbClose \/ SbCrash
    \/ SbList \/ (\E id \in sbReconcile : SbRemove(id)) \/ SbContainerDies \/ SbUserEdits

SbSpec == SbInit /\ [][SbNext]_sbVars

SbTypeOK ==
    /\ sbKind \in SbKinds
    /\ sbFile.text \in [x: SbWriters, y: SbWriters]
    /\ sbDocker.state \in {"none", "created", "running", "exited"}
    /\ sbTurn.state \in {"open", "closing", "over"}
    /\ sbCount.edits <= SbMaxEdits /\ sbCount.faults <= SbMaxFaults

(* A patch the policy lets through is of a text a tool has read for the
   agent, although the user and its other calls write the same file, unless
   the file changed between a tool's use of it and its mark. *)
SbPatchesKnownText == ~sbPast.blind

(* A local turn never refuses an edit of a file the agent knows as it is,
   unless the user has saved the same text again, which a stamp of time and
   size tells apart. *)
SbLocalEdits ==
    sbKind = "local" /\ ~sbPast.raced /\ sbCount.edits <= 1 => ~sbPast.refused

(* After a turn that used the container it is gone, whoever started it: one
   is left only by a start that was under way when its turn was cancelled,
   or by a process that died, and until the next turn that uses it. *)
SbClosedIsGone ==
    sbTurn.state = "over" /\ ~sbPast.left => sbDocker.state # "running"

(* Reads, edits and containers are accounted for. *)
SbSandboxHolds == SbPatchesKnownText /\ SbLocalEdits /\ SbClosedIsGone
====
