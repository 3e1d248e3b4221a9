---- MODULE EvidenceStore ----
(* The canonical evidence of one coding session on disk:
   - the transcript table (transcript_store.py), which stores an item
   once by its message id and answers with a stable sequence;
   - its JSONL export (atomic_export.py), published by a locked
   write, backup, rename and fsync with a rollback when the last step
   fails;
   - the full result of one tool call with its optional metadata sidecar
   (tool_result_store.py), which a retried call writes again.
   Several processes append and export.  A file operation may fail, a
   process may die at any step (the kernel drops its lock), and the
   machine may lose power: what was not fsynced is then either on disk or
   not.  Message contents are opaque values; SQLite's transaction is one
   step, because BEGIN IMMEDIATE serialises writers and an unfinished one
   leaves no row. *)
EXTENDS Naturals, FiniteSets, Sequences, SequencesExt

CONSTANTS
    EvIds,          \* message ids
    EvValues,       \* the canonical values an item may carry
    EvExporters,    \* processes that export
    EvNoFile,       \* no export file
    EvMaxRows,      \* bound: rows of the transcript
    EvMaxFaults     \* bound: failed file operations, deaths and power losses

\* A payload of which only a part is on disk.
Torn == "torn"

ASSUME EvAssumption ==
    /\ Torn \notin Seq(EvIds \X EvValues)
    /\ EvNoFile \notin [content : {Torn} \cup Seq(EvIds \X EvValues)]
    /\ EvMaxRows \in Nat

VARIABLES
    evRows,         \* transcript: a row is <<message id, value>>, its place its sequence
    evAnswers,      \* what append answered: <<message id, value, sequence>>
    evExport,       \* exports/transcript.jsonl as a reader sees it
    evDisk,         \* the same name as the last directory fsync left it
    evBackups,      \* the .bak files that exist
    evLock,         \* holders of .export.lock
    evProc,         \* the exporters
    evPublished,    \* the snapshot of the last committed publication
    evArtifact,     \* <call>.txt: absent, plain, or described by metadata
    evSidecar,      \* <call>.metadata.json: none, the result's own, or an earlier one's
    evArchiving,    \* the archive call under way; whether the result's own was cut short
    evFaults

evTranscript == <<evRows, evAnswers>>
evExports == <<evExport, evDisk, evBackups, evLock, evProc, evPublished>>
evResults == <<evArtifact, evSidecar, evArchiving>>
evVars == <<evTranscript, evExports, evResults, evFaults>>

Row(id, v) == <<id, v>>

(* A file holds a complete payload, or only part of one (Torn). *)
File(rows) == [content |-> rows]

IdleExporter == [at |-> "idle", payload |-> <<>>, target |-> EvNoFile,
                 tmp |-> EvNoFile, synced |-> FALSE, backup |-> EvNoFile]

--------------------
(* transcript_store.py *)

Stored(rows, id) == {i \in DOMAIN rows : rows[i][1] = id}

(* One item of a transaction: the same values again are the same row, other
   values under a known id are a conflict. *)
Conflicts(rows, item) == \E i \in Stored(rows, item[1]) : rows[i] # item

Inserted(rows, item) ==
    IF Stored(rows, item[1]) = {} THEN Append(rows, item) ELSE rows

SequenceOf(rows, item) == CHOOSE i \in Stored(rows, item[1]) : TRUE

EvAppend ==
    \E item \in EvIds \X EvValues :
        /\ Len(Inserted(evRows, item)) <= EvMaxRows
        /\ ~Conflicts(evRows, item)
        /\ evRows' = Inserted(evRows, item)
        /\ evAnswers' = evAnswers \cup
               {<<item[1], item[2], SequenceOf(evRows', item)>>}
        /\ UNCHANGED <<evExports, evResults, evFaults>>

(* append_many: every item or none of them. *)
EvAppendMany ==
    \E first, second \in EvIds \X EvValues :
        LET once  == Inserted(evRows, first)
            twice == Inserted(once, second) IN
        /\ first # second
        /\ Len(twice) <= EvMaxRows
        /\ ~Conflicts(evRows, first)
        /\ ~Conflicts(once, second)
        /\ evRows' = twice
        /\ evAnswers' = evAnswers \cup
               {<<first[1], first[2], SequenceOf(twice, first)>>,
                <<second[1], second[2], SequenceOf(twice, second)>>}
        /\ UNCHANGED <<evExports, evResults, evFaults>>

--------------------
(* atomic_export.py *)

Set(p, f) == [evProc EXCEPT ![p] = f]

Step(p, at, f) == Set(p, [f EXCEPT !.at = at])

(* Mutant: the lock file is opened but never locked. *)
Unlocked(p) == TRUE

Free(p) == evLock = {}

EvLock(p) ==
    /\ evProc[p].at = "idle"
    /\ Free(p)
    /\ evLock' = evLock \cup {p}
    /\ evProc' = Step(p, "locked", IdleExporter)
    /\ UNCHANGED <<evTranscript, evResults, evExport, evDisk, evBackups, evPublished,
                   evFaults>>

(* The payload is read in one snapshot, by the holder of the lock; the
   present export is kept open as the rollback's source. *)
Snapshot(p) == [evProc[p] EXCEPT !.payload = evRows, !.target = evExport]

EvSnapshot(p) ==
    /\ evProc[p].at = "locked"
    /\ evProc' = Step(p, "snapshot", Snapshot(p))
    /\ UNCHANGED <<evTranscript, evResults, evExport, evDisk, evBackups, evLock,
                   evPublished, evFaults>>

(* The temporary file is written and fsynced before it gets the name. *)
Written(f) == [f EXCEPT !.tmp = File(f.payload), !.synced = TRUE]

EvWriteTemp(p) ==
    /\ evProc[p].at = "snapshot"
    /\ evProc' = Step(p, "written", Written(evProc[p]))
    /\ UNCHANGED <<evTranscript, evResults, evExport, evDisk, evBackups, evLock,
                   evPublished, evFaults>>

EvBackup(p) ==
    /\ evProc[p].at = "written"
    /\ IF evProc[p].target = EvNoFile
       THEN /\ evProc' = Step(p, "backed", evProc[p])
            /\ UNCHANGED <<evBackups, evDisk>>
       ELSE /\ evProc' = Step(p, "backed",
                               [evProc[p] EXCEPT !.backup = evProc[p].target])
            /\ evBackups' = evBackups \cup {evProc[p].target}
            /\ evDisk' = evExport
    /\ UNCHANGED <<evTranscript, evResults, evExport, evLock, evPublished, evFaults>>

EvReplace(p) ==
    /\ evProc[p].at = "backed"
    /\ evExport' = evProc[p].tmp
    /\ evProc' = Step(p, "replaced", [evProc[p] EXCEPT !.tmp = EvNoFile])
    /\ UNCHANGED <<evTranscript, evResults, evDisk, evBackups, evLock, evPublished,
                   evFaults>>

(* The directory's fsync commits the publication. *)
EvSync(p) ==
    /\ evProc[p].at = "replaced"
    /\ evDisk' = evExport
    /\ evPublished' = evProc[p].payload
    /\ evProc' = Step(p, "cleanup", evProc[p])
    /\ UNCHANGED <<evTranscript, evResults, evExport, evBackups, evLock, evFaults>>

(* The finally of _publish_locked and of _export_lock: the temporary file
   and, unless the rollback failed, the backup go; a removal that fails is
   only logged and leaves the file behind. *)
EvCleanup(p) ==
    /\ evProc[p].at \in {"cleanup", "preserve"}
    /\ evBackups' \in (IF evProc[p].at = "preserve" THEN {evBackups}
                       ELSE {evBackups, evBackups \ {evProc[p].backup}})
    /\ evLock' = evLock \ {p}
    /\ evProc' = Set(p, IdleExporter)
    /\ UNCHANGED <<evTranscript, evResults, evExport, evDisk, evPublished, evFaults>>

--------------------
(* tool_result_store.py *)

(* A result without metadata removes the sidecar of an earlier archive of
   the same call before it replaces the content; one with metadata replaces
   the content under the earlier sidecar, then the sidecar. *)
SidecarStays(meta) == meta

EvArchive ==
    \E meta \in BOOLEAN :
        /\ evArchiving.at = "idle"
        /\ evArchiving' = [evArchiving EXCEPT !.at = "content", !.meta = meta]
        /\ evSidecar' = IF SidecarStays(meta) THEN evSidecar ELSE "none"
        /\ UNCHANGED <<evTranscript, evExports, evArtifact, evFaults>>

EvArchiveContent ==
    /\ evArchiving.at = "content"
    /\ evArtifact' = IF evArchiving.meta THEN "described" ELSE "plain"
    /\ evSidecar' = IF evSidecar = "none" THEN "none" ELSE "earlier"
    /\ evArchiving' = [evArchiving EXCEPT !.at = IF evArchiving.meta THEN "sidecar" ELSE "idle",
                                          !.cut = FALSE]
    /\ UNCHANGED <<evTranscript, evExports, evFaults>>

EvArchiveSidecar ==
    /\ evArchiving.at = "sidecar"
    /\ evSidecar' = "own"
    /\ evArchiving' = [evArchiving EXCEPT !.at = "idle"]
    /\ UNCHANGED <<evTranscript, evExports, evArtifact, evFaults>>

--------------------
(* Failures *)

Faulty == evFaults < EvMaxFaults /\ evFaults' = evFaults + 1

(* A step before the rename raises: nothing but the private files changed. *)
EvFailBefore(p) ==
    /\ Faulty
    /\ evProc[p].at \in {"locked", "snapshot", "written", "backed"}
    /\ evProc' = Step(p, "cleanup", evProc[p])
    /\ UNCHANGED <<evTranscript, evResults, evExport, evDisk, evBackups, evLock,
                   evPublished>>

(* The directory's fsync raises after the rename: restore the old file
   through a new fsynced copy, or remove the name where there was none. *)
RolledBack(p) == evProc[p].target

EvFailSync(p) ==
    /\ Faulty
    /\ evProc[p].at = "replaced"
    /\ \/ /\ evExport' = RolledBack(p)
          /\ evDisk' = RolledBack(p)
          /\ evProc' = Step(p, "cleanup", evProc[p])
       \/ /\ evExport' \in {evExport, RolledBack(p)}
          /\ evDisk' \in {evExport, evDisk}
          /\ evProc' = Step(p, "preserve", evProc[p])
    /\ UNCHANGED <<evTranscript, evResults, evBackups, evLock, evPublished>>

(* The process dies: its lock goes, the files stay. *)
EvDie(p) ==
    /\ Faulty
    /\ evProc[p].at # "idle"
    /\ evLock' = evLock \ {p}
    /\ evProc' = Set(p, IdleExporter)
    /\ UNCHANGED <<evTranscript, evResults, evExport, evDisk, evBackups, evPublished>>

(* The archiving process dies, or one of its writes raises. *)
EvArchiveStops ==
    /\ Faulty
    /\ evArchiving.at # "idle"
    /\ evArchiving' = [evArchiving EXCEPT !.at = "idle",
                                          !.cut = evArchiving.cut \/ evArchiving.at = "sidecar"]
    /\ UNCHANGED <<evTranscript, evExports, evArtifact, evSidecar>>

(* The machine dies: a rename that was not fsynced may be undone, and a
   file that was renamed before its content was fsynced may come back torn. *)
EvPowerLoss ==
    /\ Faulty
    /\ evExport' \in {evExport, evDisk} \cup
           {File(Torn) : p \in {q \in EvExporters :
                            evProc[q].at = "replaced" /\ ~evProc[q].synced}}
    /\ evDisk' = evExport'
    /\ evLock' = {}
    /\ evProc' = [p \in EvExporters |-> IdleExporter]
    /\ UNCHANGED <<evTranscript, evResults, evBackups, evPublished>>

--------------------

EvInit ==
    /\ evRows = <<>> /\ evAnswers = {}
    /\ evExport = EvNoFile /\ evDisk = EvNoFile
    /\ evBackups = {} /\ evLock = {}
    /\ evProc = [p \in EvExporters |-> IdleExporter]
    /\ evPublished = <<>>
    /\ evArtifact = "absent" /\ evSidecar = "none"
    /\ evArchiving = [at |-> "idle", meta |-> FALSE, cut |-> FALSE]
    /\ evFaults = 0

EvNext ==
    \/ EvAppend \/ EvAppendMany \/ EvPowerLoss
    \/ EvArchive \/ EvArchiveContent \/ EvArchiveSidecar \/ EvArchiveStops
    \/ \E p \in EvExporters :
          \/ EvLock(p) \/ EvSnapshot(p) \/ EvWriteTemp(p) \/ EvBackup(p)
          \/ EvReplace(p) \/ EvSync(p) \/ EvCleanup(p)
          \/ EvFailBefore(p) \/ EvFailSync(p) \/ EvDie(p)

EvSpec == EvInit /\ [][EvNext]_evVars

EvFiles == {EvNoFile} \cup {File(r) : r \in BoundedSeq(EvIds \X EvValues, EvMaxRows)}

EvTypeOK ==
    /\ evRows \in BoundedSeq(EvIds \X EvValues, EvMaxRows)
    /\ evExport \in EvFiles /\ evDisk \in EvFiles /\ evBackups \subseteq EvFiles
    /\ evLock \subseteq EvExporters
    /\ evArtifact \in {"absent", "plain", "described"}
    /\ evSidecar \in {"none", "own", "earlier"}
    /\ evPublished \in BoundedSeq(EvIds \X EvValues, EvMaxRows)

(* Every sequence append or append_many ever answered still names the very
   item it was answered for: an id is never stored twice, a retried append
   finds its first row, and a message id reused for other content is refused
   instead of being taken for the old one. *)
EvAnswersHold ==
    \A a \in evAnswers : a[3] \in DOMAIN evRows /\ evRows[a[3]] = Row(a[1], a[2])

(* Whoever died, failed or lost power, and wherever: the export is either
   absent, and then no publication ever committed, or one whole snapshot of
   the transcript, and never an older one than was already published. *)
EvExportNeverGoesBack ==
    IF evExport = EvNoFile THEN evPublished = <<>>
    ELSE /\ evExport.content # Torn
         /\ IsPrefix(evExport.content, evRows)
         /\ IsPrefix(evPublished, evExport.content)

(* A result that was archived without metadata is never read with a sidecar,
   even when the process dies between the two files.  One with metadata is
   read with an earlier result's only until its own is written, or when its
   archive died before that. *)
EvSidecarFits ==
    /\ evArtifact = "plain" => evSidecar = "none"
    /\ evSidecar = "earlier" => evArchiving.at = "sidecar" \/ evArchiving.cut

(* The evidence a session shows was really recorded, and is not lost again. *)
EvEvidenceIsKept == EvAnswersHold /\ EvExportNeverGoesBack /\ EvSidecarFits
====
