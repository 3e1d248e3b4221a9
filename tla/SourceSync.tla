---- MODULE SourceSync ----
(* Incremental synchronisation of one knowledge source: preview_sync scans
   the source and stores a plan against the committed manifest; the job of
   a plan applies its changes to the knowledge store; when the last item
   of the job is done, _finalize_sync_plan commits the manifest, the
   watermark and the checkpoint, or finds that another plan was faster
   (core/knowledge/jobs/{service,repository,sync}.py).

   Plans are named by their content, as in build_plan_id.  Hashes are the
   values they are taken of.  How workers share the items of a job is the
   subject of IngestJobs: here an item is held from the claim of its
   idempotency key to its outcome.  scan_status and the other diagnostic
   columns of a source are left out. *)
EXTENDS Naturals, FiniteSets

CONSTANTS Paths,       \* source keys
          Revisions,   \* content hashes of files
          None,        \* no file, no revision, no checkpoint, no hash, no owner
          Scopes,      \* the directories that may be synchronised, as sets of paths
          Scanners,    \* application instances, each with its own scan lock
          MaxEdits,    \* bound on changes of the source
          MaxPlans     \* bound on plans: no scan begins once there are as many

ASSUME SyncAssumption ==
    /\ None \notin Revisions
    /\ Scopes \subseteq SUBSET Paths
    /\ MaxEdits \in Nat /\ MaxPlans \in Nat

VARIABLES disk,      \* the files of the source
          manifest,  \* knowledge_source_manifest: revision and status by path
          sync,      \* knowledge_source_sync: watermark, hash, checkpoint
          plans,     \* knowledge_sync_plans: status and target hash by plan
          jobs,      \* the job of a plan: item statuses, cancel_requested, status
          keys,      \* knowledge_idempotency: status and owner by key
          store,     \* knowledge_sources: last revision taken in, and retraction
          scan,      \* scan[s]: the preview_sync in progress
          edits

ssVars == <<disk, manifest, sync, plans, jobs, keys, store, scan, edits>>

Kinds == {"added", "modified", "deleted"}
Open == {"todo", "held"}
NoScan == [pc |-> "idle"]

\* Functions over the rows that exist.
Put(f, x, v) == [y \in DOMAIN f \cup {x} |-> IF y = x THEN v ELSE f[y]]
Row(f, x, default) == IF x \in DOMAIN f THEN f[x] ELSE default

SsInit ==
    /\ disk \in [Paths -> Revisions \cup {None}]
    /\ manifest = [q \in Paths |-> [rev |-> None, status |-> "none"]]
    /\ sync = [mark |-> 0, hash |-> None, checkpoint |-> None]
    /\ plans = [p \in {} |-> None]
    /\ jobs = [p \in {} |-> None]
    /\ keys = [k \in {} |-> None]
    /\ store = [q \in Paths |-> [rev |-> None, retracted |-> FALSE]]
    /\ scan = [s \in Scanners |-> NoScan]
    /\ edits = 0

\* The source changes by itself.
Edit(q, v) ==
    /\ edits < MaxEdits
    /\ disk[q] # v
    /\ disk' = [disk EXCEPT ![q] = v]
    /\ edits' = edits + 1
    /\ UNCHANGED <<manifest, sync, plans, jobs, keys, store, scan>>

--------------------
(* build_sync_changes, build_manifest_hash and build_plan_id. *)

Change(q, kind, prev, rev) == [path |-> q, kind |-> kind, prev |-> prev, rev |-> rev]

\* Mutant of BuildSyncChanges: files outside the scope count as deleted.
BuildSyncChangesEverywhere(found, prev, scope) ==
    LET seen == {f[1] : f \in found} IN
    {Change(f[1], IF prev[f[1]].status = "present" THEN "modified" ELSE "added",
            prev[f[1]].rev, f[2]) :
        f \in {g \in found : prev[g[1]] # [rev |-> g[2], status |-> "present"]}}
    \cup
    {Change(q, "deleted", prev[q].rev, None) :
        q \in {r \in Paths \ seen : prev[r].status = "present"}}

\* found: the files a scan of the scope has seen, as a set of <<path, revision>>.
BuildSyncChanges(found, prev, scope) ==
    LET seen == {f[1] : f \in found} IN
    {Change(f[1], IF prev[f[1]].status = "present" THEN "modified" ELSE "added",
            prev[f[1]].rev, f[2]) :
        f \in {g \in found : prev[g[1]] # [rev |-> g[2], status |-> "present"]}}
    \cup
    {Change(q, "deleted", prev[q].rev, None) :
        q \in {r \in scope \ seen : prev[r].status = "present"}}

\* The revision recorded for a change; a deletion keeps the last one.
SsRevisionOf(c) == IF c.kind = "deleted" THEN c.prev ELSE c.rev

\* The manifest after the changes: what build_manifest_hash hashes, and what
\* _finalize_sync_plan writes.
Applied(prev, changes) ==
    [q \in Paths |->
        IF \E c \in changes : c.path = q
        THEN LET c == CHOOSE d \in changes : d.path = q IN
             [rev |-> SsRevisionOf(c), status |-> IF c.kind = "deleted" THEN "deleted" ELSE "present"]
        ELSE prev[q]]

\* _idempotency_key.
SsKeyOf(c) == <<c.path, c.kind, SsRevisionOf(c)>>

--------------------
(* preview_sync. *)

\* begin_source_scan: the checkpoint is read before the source is.
BeginScan(s, scope) ==
    /\ scan[s].pc = "idle"
    /\ Cardinality(DOMAIN plans) < MaxPlans
    /\ scan' = [scan EXCEPT ![s] = [pc |-> "scan", scope |-> scope, base |-> sync.checkpoint]]
    /\ UNCHANGED <<disk, manifest, sync, plans, jobs, keys, store, edits>>

\* _scan_adapter: a source that changes between two pages fails the scan, so the
\* pages show one state; the checkpoint is the hash of what was found.
Scan(s) ==
    /\ scan[s].pc = "scan"
    /\ scan' = [scan EXCEPT ![s] =
                  [pc |-> "read", scope |-> @.scope, base |-> @.base,
                   found |-> {<<q, disk[q]>> : q \in {r \in @.scope : disk[r] # None}}]]
    /\ UNCHANGED <<disk, manifest, sync, plans, jobs, keys, store, edits>>

\* The scan raises: record_source_scan_failure notes it for the user only.
ScanFails(s) ==
    /\ scan[s].pc = "scan"
    /\ scan' = [scan EXCEPT ![s] = NoScan]
    /\ UNCHANGED <<disk, manifest, sync, plans, jobs, keys, store, edits>>

\* get_manifest and the diff.
ReadManifest(s) ==
    LET t == scan[s] IN
    /\ t.pc = "read"
    /\ scan' = [scan EXCEPT ![s] =
          [pc |-> "plan",
           hash |-> Applied(manifest, BuildSyncChanges(t.found, manifest, t.scope)),
           plan |-> [scope |-> t.scope, base |-> t.base, target |-> t.found, mark |-> sync.mark,
                     changes |-> BuildSyncChanges(t.found, manifest, t.scope)]]]
    /\ UNCHANGED <<disk, manifest, sync, plans, jobs, keys, store, edits>>

\* The source has not moved on since the plan was made.
SsCurrent(p) == sync.mark = p.mark /\ sync.checkpoint = p.base

\* create_sync_plan: a plan that exists is returned whatever became of it, and a
\* plan that is out of date raises.
CreateSyncPlan(s) ==
    /\ scan[s].pc = "plan"
    /\ LET p == scan[s].plan IN
       \/ /\ p \notin DOMAIN plans /\ SsCurrent(p)
          /\ plans' = Put(plans, p, [status |-> "planned", hash |-> scan[s].hash])
       \/ /\ p \in DOMAIN plans \/ ~SsCurrent(p)
          /\ UNCHANGED plans
    /\ scan' = [scan EXCEPT ![s] = NoScan]
    /\ UNCHANGED <<disk, manifest, sync, jobs, keys, store, edits>>

--------------------
(* The job of a plan. *)

Target(p) == p.mark + (IF p.changes = {} THEN 0 ELSE 1)

\* _refresh_job.
Verdict(items, cancel) ==
    IF \E c \in DOMAIN items : items[c] \in Open
    THEN IF cancel THEN "cancelling" ELSE "running"
    ELSE IF cancel THEN "cancelled"
    ELSE IF \E c \in DOMAIN items : items[c] = "dead_letter" THEN "completed_with_errors"
    ELSE "completed"

\* Mutant of Finalized: a plan is committed without another look at the source.
FinalizedUnchecked(p, status) ==
    CASE status = "completed" -> "completed"
      [] status = "cancelled" -> "cancelled"
      [] OTHER                -> "retryable"

\* Mutant of Finalized: the status of the job is copied to the plan.
FinalizedAsJob(p, status) ==
    IF status = "completed" /\ ~SsCurrent(p) THEN "conflict" ELSE status

\* _finalize_sync_plan: what a finished job makes of its plan.
Finalized(p, status) ==
    CASE status = "completed" -> IF SsCurrent(p) THEN "completed" ELSE "conflict"
      [] status = "cancelled" -> "cancelled"
      [] OTHER                -> "retryable"

\* _refresh_job, which finalizes the plan of a finished job once.
SsRefreshJob(p, items, cancel) ==
    LET status == Verdict(items, cancel)
        final  == /\ status \in {"completed", "completed_with_errors", "cancelled"}
                  /\ plans[p].status \notin {"completed", "cancelled", "conflict"}
        after  == IF final THEN Finalized(p, status) ELSE plans[p].status
        commit == final /\ after = "completed"
    IN  /\ plans' = [plans EXCEPT ![p].status = after]
        /\ jobs' = Put(jobs, p, [items |-> items, cancel |-> cancel,
                                 status |-> IF final /\ after = "conflict"
                                            THEN "completed_with_errors" ELSE status])
        /\ manifest' = IF commit THEN Applied(manifest, p.changes) ELSE manifest
        /\ sync' = IF commit
                   THEN [mark |-> Target(p), hash |-> plans[p].hash, checkpoint |-> p.target]
                   ELSE sync

\* create_job: the existing job of a plan is returned, a stale plan raises.
SsCreateJob(p) ==
    /\ p \in DOMAIN plans \ DOMAIN jobs
    /\ plans[p].status = "planned"
    /\ SsCurrent(p)
    /\ IF p.changes = {}
       THEN SsRefreshJob(p, [c \in {} |-> "todo"], FALSE)
       ELSE /\ plans' = [plans EXCEPT ![p].status = "running"]
            /\ jobs' = Put(jobs, p, [items |-> [c \in p.changes |-> "todo"], cancel |-> FALSE,
                                     status |-> "queued"])
            /\ UNCHANGED <<manifest, sync>>
    /\ UNCHANGED <<disk, keys, store, scan, edits>>

\* An item changes its status, and the job and its plan with it.
SetItem(p, c, status) == SsRefreshJob(p, [jobs[p].items EXCEPT ![c] = status], jobs[p].cancel)

\* The row of a key, if any.
KeyRow(c) == Row(keys, SsKeyOf(c), [status |-> "none", owner |-> None])

\* claim_item and claim_idempotency: the change is taken on, or was applied
\* before (skipped), or another item is at it (a conflict, hence a dead letter).
StartItem(p, c) ==
    LET k == KeyRow(c)
        me == <<p, c>>
    IN  /\ jobs[p].items[c] = "todo"
        /\ ~jobs[p].cancel
        /\ \/ /\ k.status = "completed"
              /\ SetItem(p, c, "skipped") /\ UNCHANGED keys
           \/ /\ k.status \in {"none", "failed"} \/ (k.status = "processing" /\ k.owner = me)
              /\ keys' = Put(keys, SsKeyOf(c), IF k.owner = me THEN k
                                             ELSE [status |-> "processing", owner |-> me])
              /\ SetItem(p, c, "held")
           \/ /\ k.status = "processing" /\ k.owner # me
              /\ SetItem(p, c, "dead_letter") /\ UNCHANGED keys
        /\ UNCHANGED <<disk, store, scan, edits>>

\* fetch and ingest_prepared check that the file still has the revision of the
\* item; propose_source_retraction that the store does.
Applicable(c) ==
    IF c.kind = "deleted" THEN store[c.path].rev = c.prev ELSE disk[c.path] = c.rev

\* The knowledge store takes the change in and complete_item records it, also
\* when the job has been cancelled meanwhile.
FinishItem(p, c) ==
    LET k == KeyRow(c) IN
    /\ jobs[p].items[c] = "held"
    /\ Applicable(c)
    /\ store' = [store EXCEPT ![c.path] = [rev |-> SsRevisionOf(c), retracted |-> c.kind = "deleted"]]
    /\ keys' = IF k.owner = <<p, c>> THEN Put(keys, SsKeyOf(c), [k EXCEPT !.status = "completed"])
               ELSE keys
    /\ SetItem(p, c, "completed")
    /\ UNCHANGED <<disk, scan, edits>>

\* fail_item for good: a dead letter, or cancelled with its job.
SsFailItem(p, c) ==
    LET k == KeyRow(c) IN
    /\ jobs[p].items[c] = "held"
    /\ keys' = IF k.owner = <<p, c>> THEN Put(keys, SsKeyOf(c), [k EXCEPT !.status = "failed"])
               ELSE keys
    /\ SetItem(p, c, IF jobs[p].cancel THEN "cancelled" ELSE "dead_letter")
    /\ UNCHANGED <<disk, store, scan, edits>>

\* cancel_job: W are the held items no worker has in hand just now; their keys
\* stay taken.
SsCancelJob(p) ==
    LET items == jobs[p].items IN
    /\ jobs[p].status \notin {"completed", "completed_with_errors", "cancelled"}
    /\ \E W \in SUBSET {c \in DOMAIN items : items[c] = "held"} :
          SsRefreshJob(p, [c \in DOMAIN items |-> IF items[c] = "todo" \/ c \in W THEN "cancelled"
                                               ELSE items[c]], TRUE)
    /\ UNCHANGED <<disk, keys, store, scan, edits>>

SsRetryItem(p, c) ==
    /\ jobs[p].items[c] = "dead_letter"
    /\ ~jobs[p].cancel
    /\ SetItem(p, c, "todo")
    /\ UNCHANGED <<disk, keys, store, scan, edits>>

--------------------
SsNext ==
    \/ \E q \in Paths, v \in Revisions \cup {None} : Edit(q, v)
    \/ \E s \in Scanners :
          \/ \E scope \in Scopes : BeginScan(s, scope)
          \/ Scan(s) \/ ScanFails(s) \/ ReadManifest(s) \/ CreateSyncPlan(s)
    \/ \E p \in DOMAIN plans : SsCreateJob(p)
    \/ \E p \in DOMAIN jobs :
          \/ SsCancelJob(p)
          \/ \E c \in p.changes :
                StartItem(p, c) \/ FinishItem(p, c) \/ SsFailItem(p, c) \/ SsRetryItem(p, c)

SsSpec == SsInit /\ [][SsNext]_ssVars

--------------------
PlanIds == [scope : Scopes, base : {None} \cup SUBSET (Paths \X Revisions),
            target : SUBSET (Paths \X Revisions), mark : Nat,
            changes : SUBSET [path : Paths, kind : Kinds, prev : Revisions \cup {None},
                              rev : Revisions \cup {None}]]

SsTypeOK ==
    /\ disk \in [Paths -> Revisions \cup {None}]
    /\ manifest \in [Paths -> [rev : Revisions \cup {None}, status : {"none", "present", "deleted"}]]
    /\ sync.mark \in Nat
    /\ \A p \in DOMAIN plans :
          /\ p \in PlanIds
          /\ plans[p].status \in {"planned", "running", "retryable", "completed", "cancelled", "conflict"}
    /\ DOMAIN jobs \subseteq DOMAIN plans
    /\ \A p \in DOMAIN jobs :
          /\ DOMAIN jobs[p].items = p.changes
          /\ jobs[p].status \in {"queued", "running", "cancelling", "completed",
                                 "completed_with_errors", "cancelled"}
    /\ edits \in Nat

(* The hash a source shows is the hash of its manifest: it was computed
   when the plan was made, and is stored after a whole job, any number of
   scans, retries and other jobs later (build_manifest_hash,
   _finalize_sync_plan). *)
HashIsManifest == sync.hash # None => sync.hash = manifest

(* A commit is faithful to its scan: once a plan is completed, the files
   the manifest shows in the scope of the plan are the files the scan saw,
   and nothing outside the scope has changed: a scan of a directory
   deletes nothing elsewhere. *)
PresentIn(m, scope) == {<<q, m[q].rev>> : q \in {r \in scope : m[r].status = "present"}}

CommitShowsTheScan ==
    \A p \in DOMAIN plans :
        plans[p].status # "completed" /\ plans'[p].status = "completed" =>
          /\ PresentIn(manifest', p.scope) = p.target
          /\ \A q \in Paths \ p.scope : manifest'[q] = manifest[q]

(* The watermark names a version of the manifest: the manifest changes
   only together with it, by one, and only when every change of one plan
   has been applied or found applied. *)
WatermarkNamesManifest ==
    manifest' # manifest =>
        /\ sync'.mark = sync.mark + 1
        /\ \E p \in DOMAIN jobs :
              \A c \in p.changes : jobs'[p].items[c] \in {"completed", "skipped"}

(* A job reports "completed" only if its plan was committed: of two plans
   made against one state of the source, one wins and the job of the other
   reports errors (_finalize_sync_plan). *)
CompletedJobsCommitted ==
    /\ \A p \in DOMAIN jobs : jobs[p].status = "completed" <=> plans[p].status = "completed"
    /\ \A p, o \in DOMAIN plans :
          /\ plans[p].status = "completed" /\ plans[o].status = "completed"
          /\ p.mark = o.mark /\ p.base = o.base /\ p.changes # {} /\ o.changes # {}
          => p = o

(* The source and its jobs agree, whatever plans raced: the hash is the
   manifest's, and exactly the committed plans have completed jobs. *)
SyncHolds == HashIsManifest /\ CompletedJobsCommitted

(* The manifest moves by whole, faithful commits only. *)
CommitsHold == [][CommitShowsTheScan /\ WatermarkNamesManifest]_ssVars

(* "Same hash skipped, changed hash updated": when a plan is committed,
   the knowledge store holds the new revision of every file the plan found
   modified. *)
ModificationsReachStore ==
    [][\A p \in DOMAIN plans :
          plans[p].status # "completed" /\ plans'[p].status = "completed" =>
            \A c \in p.changes : c.kind = "modified" => store'[c.path].rev = c.rev]_ssVars
====
