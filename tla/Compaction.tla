---- MODULE Compaction ----
(* The context of one coding session: the canonical transcript on disk,
   the projection of it that the model is shown, and the checkpoints that
   replace the oldest turns of the projection by a summary
   (core/coding/context, core/coding/persistence/transcript_store.py and
   compaction_store.py, and the parts of core/coding/runtime.py that join
   them).

   A turn and a manual compaction share one operation lock.  A compaction
   is an attempt on disk ("started"), an await for the summarizer, a
   terminal record of the attempt, and only then a new projection in
   memory: the process may die, and the disk may refuse, between any two.

   A summary is abstracted to the set of transcript sequences it speaks
   for.  Token counts are the environment's choice: whether the context is
   full, how many recent turns fit, whether the summary saves enough. *)
EXTENDS Naturals, Sequences, FiniteSets

CONSTANTS
    CpMinRecent,        \* CompactionPolicy.min_recent_turns
    CpMaxRecent,        \* CompactionPolicy.max_recent_turns
    CpIneffectiveLimit, \* CompactionPolicy.ineffective_limit
    CpAnchorKeys,       \* the configurations: is there a checkpoint anchor key
    CpMaxItems,         \* bound on the transcript
    CpMaxAttempts,      \* bound on compaction attempts
    CpMaxFaults         \* bound on crashes, disk failures and damaged files

ASSUME CpAssumption ==
    /\ CpMinRecent \in Nat \ {0}
    /\ CpMaxRecent \in Nat /\ CpMaxRecent >= CpMinRecent
    /\ CpIneffectiveLimit \in Nat \ {0}
    /\ CpAnchorKeys \subseteq BOOLEAN /\ CpAnchorKeys # {}
    /\ {CpMaxItems, CpMaxAttempts, CpMaxFaults} \subseteq Nat

VARIABLES
    cpItems,     \* the transcript: the role of each item, by sequence
    cpAttempts,  \* the compaction attempts on disk, in the order they began
    cpKey,       \* this process has an anchor key
    cpUp,        \* the process is running
    cpProj,      \* _active_projection: what the summary covers, and the tail
    cpActive,    \* _active_checkpoint: an attempt, or 0
    cpHealth,    \* _SessionState of the compactor
    cpOp,        \* the operation that holds _context_operation_lock
    cpAttempt,   \* the attempt the operation is making, or 0
    cpResult,    \* the result that waits for its terminal record
    cpFaults

cpVars == <<cpItems, cpAttempts, cpKey, cpUp, cpProj, cpActive, cpHealth,
            cpOp, cpAttempt, cpResult, cpFaults>>

CpKinds == {"run", "graph", "manual"}
CpNoOp == [kind |-> "none", pc |-> "idle"]
CpHealthy == [ineffective |-> 0, circuit |-> FALSE, cooldown |-> FALSE]
CpUnchanged == [applied |-> FALSE, from |-> 0, to |-> 0, covered |-> {}, tail |-> <<>>]

\* The items after the n-th, in canonical order.
TailAfter(n) == [i \in 1..(Len(cpItems) - n) |-> n + i]

--------------------
(* The projection as turns. *)

UserPositions == {i \in DOMAIN cpProj.tail : cpItems[cpProj.tail[i]] = "user"}

CpTurns == Cardinality(UserPositions)

\* Where the last `keep` turns begin in the tail.
TailStart(keep) ==
    CHOOSE i \in UserPositions : Cardinality({j \in UserPositions : j >= i}) = keep

\* The numbers of recent turns the tail budget may allow.
RecentTurns ==
    LET Least(n) == IF CpTurns < n THEN CpTurns ELSE n
    IN Least(CpMinRecent) .. Least(CpMaxRecent)

\* Items before the first user item cannot be archived.
SupportedLayout == cpProj.tail # <<>> => 1 \in UserPositions

--------------------
(* The checkpoint store. *)

BeginAttempt ==
    Append(cpAttempts, [status |-> "started", from |-> 0, to |-> 0,
                        covered |-> {}, anchored |-> FALSE, damaged |-> FALSE])

\* A checkpoint is trusted under the key that anchored it, and only then.
VerifyCheckpoint(i) ==
    /\ cpAttempts[i].status = "completed"
    /\ cpKey /\ cpAttempts[i].anchored
    /\ ~cpAttempts[i].damaged

CompletedAttempts == {i \in DOMAIN cpAttempts : cpAttempts[i].status = "completed"}

LatestCompleted ==
    IF CompletedAttempts = {} THEN 0
    ELSE CHOOSE i \in CompletedAttempts : \A j \in CompletedAttempts : j <= i

LoadLatestCheckpoint ==
    IF LatestCompleted # 0 /\ VerifyCheckpoint(LatestCompleted)
    THEN LatestCompleted ELSE 0

Completed(i, r) ==
    [cpAttempts EXCEPT ![i] = [status |-> "completed", from |-> r.from, to |-> r.to,
                               covered |-> r.covered, anchored |-> cpKey,
                               damaged |-> cpAttempts[i].damaged]]

\* A failed attempt records the checkpoint it started from, if it is trusted.
FailAllowed == cpActive # 0 => VerifyCheckpoint(cpActive)
Failed(i) == [cpAttempts EXCEPT ![i].status = "failed"]

--------------------
(* The compactor. *)

PreviousEnd == IF cpActive = 0 THEN 0 ELSE cpAttempts[cpActive].to

\* The summary of the previous checkpoint must be trusted to be extended.
ValidatedPrevious == cpActive # 0 => VerifyCheckpoint(cpActive)

\* What would be archived starts where the previous checkpoint ended.
ContiguousRange(keep) ==
    LET last == cpProj.tail[TailStart(keep) - 1]
    IN /\ cpActive # 0 => cpProj.tail[1] = PreviousEnd + 1
       /\ last - cpProj.tail[1] + 1 = TailStart(keep) - 1

AutoHeld == cpHealth.cooldown \/ cpHealth.circuit

\* compact() can produce a summary of the turns older than the last `keep`.
CanArchive(keep) ==
    /\ cpOp.kind # "manual" => ~AutoHeld
    /\ ValidatedPrevious
    /\ SupportedLayout
    /\ CpTurns > keep
    /\ ContiguousRange(keep)

Archived(keep) ==
    LET stop == TailStart(keep) - 1
    IN [applied |-> TRUE, from |-> cpProj.tail[1], to |-> cpProj.tail[stop],
        covered |-> cpProj.covered \cup {cpProj.tail[i] : i \in 1..stop},
        tail |-> SubSeq(cpProj.tail, stop + 1, Len(cpProj.tail))]

StartCooldown == [cpHealth EXCEPT !.cooldown = TRUE]

Ineffective ==
    [cpHealth EXCEPT !.ineffective = @ + 1,
                     !.circuit = @ \/ cpHealth.ineffective + 1 >= CpIneffectiveLimit]

--------------------
(* The session. *)

\* What a process shows the model after _backfill_transcript and
\* _restore_context_state under key k.
CanonicalFallback == [covered |-> {}, tail |-> TailAfter(0)]

\* Mutant of RestoreContextState: the tail starts at the wrong end of the range.
RestoreOverlapping(c) ==
    IF c = 0 THEN CanonicalFallback
    ELSE [covered |-> cpAttempts[c].covered, tail |-> TailAfter(cpAttempts[c].from)]

RestoreContextState(c) ==
    IF c = 0 THEN CanonicalFallback
    ELSE [covered |-> cpAttempts[c].covered, tail |-> TailAfter(cpAttempts[c].to)]

CheckpointMatchesTranscript(c) ==
    /\ c # 0
    /\ 1 <= cpAttempts[c].from /\ cpAttempts[c].from <= cpAttempts[c].to
    /\ cpAttempts[c].to <= Len(cpItems)

AppendCanonicalItem(role) ==
    /\ Len(cpItems) < CpMaxItems
    /\ cpItems' = Append(cpItems, role)
    /\ cpProj' = [cpProj EXCEPT !.tail = Append(@, Len(cpItems) + 1)]

ApplyCompactionResult(i, r) ==
    /\ cpProj' = [covered |-> r.covered, tail |-> r.tail]
    /\ cpActive' = i

Release == cpOp' = CpNoOp /\ cpAttempt' = 0 /\ cpResult' = CpUnchanged

CpFault == cpFaults < CpMaxFaults /\ cpFaults' = cpFaults + 1

CpInit ==
    /\ cpItems = <<>>
    /\ cpAttempts = <<>>
    /\ cpKey \in CpAnchorKeys
    /\ cpUp = TRUE
    /\ cpProj = [covered |-> {}, tail |-> <<>>]
    /\ cpActive = 0
    /\ cpHealth = CpHealthy
    /\ cpOp = CpNoOp
    /\ cpAttempt = 0
    /\ cpResult = CpUnchanged
    /\ cpFaults = 0

\* run_turn and harness_turn take the lock and the active run.
CpStartTurn(kind) ==
    /\ cpUp /\ cpOp = CpNoOp /\ kind # "manual"
    /\ Len(cpItems) + 1 < CpMaxItems
    /\ cpOp' = [kind |-> kind, pc |-> "preparing"]
    /\ UNCHANGED <<cpItems, cpAttempts, cpKey, cpUp, cpProj, cpActive, cpHealth,
                   cpAttempt, cpResult, cpFaults>>

\* on_turn_start below the compaction threshold: the user item is next.
CpTurnFits ==
    /\ cpUp /\ cpOp.pc \in {"preparing", "prepared"}
    /\ AppendCanonicalItem("user")
    /\ cpOp' = [cpOp EXCEPT !.pc = "running"]
    /\ UNCHANGED <<cpAttempts, cpKey, cpUp, cpActive, cpHealth, cpAttempt,
                   cpResult, cpFaults>>

\* The started lifecycle event of an automatic or a manual compaction.
BeginCompaction(kind) ==
    /\ Len(cpAttempts) < CpMaxAttempts
    /\ cpAttempts' = BeginAttempt
    /\ cpAttempt' = Len(cpAttempts) + 1
    /\ cpOp' = [kind |-> kind, pc |-> "summarizing"]
    /\ UNCHANGED <<cpItems, cpKey, cpUp, cpProj, cpActive, cpHealth, cpResult,
                   cpFaults>>

CpAutoCompact == cpUp /\ cpOp.pc = "preparing" /\ BeginCompaction(cpOp.kind)

CpManualCompact == cpUp /\ cpOp = CpNoOp /\ BeginCompaction("manual")

\* The summarizer answers and compact() builds its result.
CpSummarized ==
    /\ cpUp /\ cpOp.pc = "summarizing"
    /\ cpOp' = [cpOp EXCEPT !.pc = "settling"]
    /\ \E keep \in RecentTurns :
          IF CanArchive(keep)
          THEN \/ cpResult' = CpUnchanged /\ cpHealth' \in {StartCooldown, Ineffective}
               \/ cpResult' = Archived(keep) /\ cpHealth' = CpHealthy
          ELSE cpResult' = CpUnchanged /\ cpHealth' = cpHealth
    /\ UNCHANGED <<cpItems, cpAttempts, cpKey, cpUp, cpProj, cpActive, cpAttempt,
                   cpFaults>>

CpCooldownEnds ==
    /\ cpUp /\ cpHealth.cooldown
    /\ cpHealth' = [cpHealth EXCEPT !.cooldown = FALSE]
    /\ UNCHANGED <<cpItems, cpAttempts, cpKey, cpUp, cpProj, cpActive, cpOp,
                   cpAttempt, cpResult, cpFaults>>

\* What the operation does once its compaction is settled.
AfterCompaction ==
    IF cpOp.kind = "manual" THEN Release
    ELSE /\ cpOp' = [cpOp EXCEPT !.pc = "prepared"]
         /\ cpAttempt' = 0
         /\ cpResult' = CpUnchanged

\* The completed lifecycle event is delivered, then the result is applied.
CpComplete ==
    /\ cpUp /\ cpOp.pc = "settling" /\ cpResult.applied
    /\ cpAttempts' = Completed(cpAttempt, cpResult)
    /\ ApplyCompactionResult(cpAttempt, cpResult)
    /\ AfterCompaction
    /\ UNCHANGED <<cpItems, cpKey, cpUp, cpHealth, cpFaults>>

CpFail ==
    /\ cpUp /\ cpOp.pc = "settling" /\ ~cpResult.applied
    /\ FailAllowed
    /\ cpAttempts' = Failed(cpAttempt)
    /\ AfterCompaction
    /\ UNCHANGED <<cpItems, cpKey, cpUp, cpProj, cpActive, cpHealth, cpFaults>>

\* The failed lifecycle event cannot be recorded: the previous checkpoint is
\* not trusted.  The turn fails in preparation, or manual_compact raises.
CpFailRefused ==
    /\ cpUp /\ cpOp.pc = "settling" /\ ~cpResult.applied
    /\ ~FailAllowed
    /\ Release
    /\ UNCHANGED <<cpItems, cpAttempts, cpKey, cpUp, cpProj, cpActive, cpHealth,
                   cpFaults>>

\* The disk refuses the lifecycle record, before or after the checkpoint is
\* published; preparation fails and the lock is released.
CpSinkFails ==
    /\ cpUp /\ cpOp.pc = "settling"
    /\ CpFault
    /\ \/ cpAttempts' = cpAttempts
       \/ cpResult.applied /\ cpAttempts' = Completed(cpAttempt, cpResult)
    /\ Release
    /\ UNCHANGED <<cpItems, cpKey, cpUp, cpProj, cpActive, cpHealth>>

\* The caller is cancelled while it awaits the summarizer.  manual_compact
\* records the failure, if it can; a turn leaves the attempt started.
CpCancelled ==
    /\ cpUp /\ cpOp.pc = "summarizing"
    /\ cpAttempts' = IF cpOp.kind = "manual" /\ FailAllowed
                     THEN Failed(cpAttempt) ELSE cpAttempts
    /\ Release
    /\ UNCHANGED <<cpItems, cpKey, cpUp, cpProj, cpActive, cpHealth, cpFaults>>

\* The engine or the graph appends an assistant or a tool item.
CpReply ==
    /\ cpUp /\ cpOp.pc = "running"
    /\ AppendCanonicalItem("reply")
    /\ UNCHANGED <<cpAttempts, cpKey, cpUp, cpActive, cpHealth, cpOp, cpAttempt,
                   cpResult, cpFaults>>

\* The turn ends, fails, or its consumer goes away: the lock is released.
CpEndTurn ==
    /\ cpUp /\ cpOp.pc \in {"preparing", "prepared", "running"}
    /\ Release
    /\ UNCHANGED <<cpItems, cpAttempts, cpKey, cpUp, cpProj, cpActive, cpHealth,
                   cpFaults>>

CpCrash ==
    /\ cpUp
    /\ CpFault
    /\ cpUp' = FALSE
    /\ cpHealth' = CpHealthy
    /\ Release
    /\ UNCHANGED <<cpItems, cpAttempts, cpKey, cpProj, cpActive>>

\* A checkpoint file is damaged on disk.
CpDamage ==
    /\ CpFault
    /\ \E i \in CompletedAttempts : cpAttempts' = [cpAttempts EXCEPT ![i].damaged = TRUE]
    /\ UNCHANGED <<cpItems, cpKey, cpUp, cpProj, cpActive, cpHealth, cpOp,
                   cpAttempt, cpResult>>

\* A new process, perhaps with another configuration, reads the session.
\* The key is the new process's, so trust is judged in the next step.
CpBoot ==
    /\ ~cpUp /\ cpOp = CpNoOp
    /\ cpKey' \in CpAnchorKeys
    /\ cpOp' = [kind |-> "none", pc |-> "restoring"]
    /\ UNCHANGED <<cpItems, cpAttempts, cpUp, cpProj, cpActive, cpHealth,
                   cpAttempt, cpResult, cpFaults>>

CpRestore ==
    /\ cpOp.pc = "restoring"
    /\ LET c == IF CheckpointMatchesTranscript(LoadLatestCheckpoint)
                THEN LoadLatestCheckpoint ELSE 0
       IN cpActive' = c /\ cpProj' = RestoreContextState(c)
    /\ cpUp' = TRUE
    /\ cpOp' = CpNoOp
    /\ UNCHANGED <<cpItems, cpAttempts, cpKey, cpHealth, cpAttempt, cpResult,
                   cpFaults>>

CpNext ==
    \/ \E kind \in CpKinds : CpStartTurn(kind)
    \/ CpTurnFits \/ CpAutoCompact \/ CpManualCompact \/ CpSummarized
    \/ CpCooldownEnds \/ CpComplete \/ CpFail \/ CpFailRefused \/ CpSinkFails
    \/ CpCancelled \/ CpReply \/ CpEndTurn \/ CpCrash \/ CpDamage \/ CpBoot
    \/ CpRestore

CpSpec == CpInit /\ [][CpNext]_cpVars

--------------------
(* Properties *)

CpTypeOK ==
    /\ cpItems \in Seq({"user", "reply"})
    /\ \A i \in DOMAIN cpAttempts :
          cpAttempts[i].status \in {"started", "completed", "failed"}
    /\ {cpKey, cpUp} \subseteq BOOLEAN
    /\ cpActive \in 0..Len(cpAttempts) /\ cpAttempt \in 0..Len(cpAttempts)
    /\ cpOp.kind \in CpKinds \cup {"none"}

\* Every item of the transcript reaches the model exactly once, either through
\* the summary or in the tail and in order, whatever compactions, failed
\* records, crashes and restores came before (runtime.py
\* _restore_context_state, _apply_compaction_result, _append_canonical_item).
CpProjectionIsWhole ==
    cpUp =>
      /\ \A i \in 1..Len(cpProj.tail) - 1 : cpProj.tail[i] < cpProj.tail[i + 1]
      /\ LET tail == {cpProj.tail[i] : i \in DOMAIN cpProj.tail}
         IN /\ cpProj.covered \cap tail = {}
            /\ cpProj.covered \cup tail = DOMAIN cpItems
====
