---- MODULE CanaryDeploy ----
(* Deployment of the private Canary: deployctl.py on the server (apply and
   rollback, a sequence of commands of which any may fail or be the last
   before the process dies) and canaryctl.py on another machine, which
   every few minutes checks the service and applies the branch when its CI
   passed.  canaryctl keeps its own state file; a run holds a lock, the
   check and resume commands do not.  Tags are commits in branch order and
   a tag needs the database schema of its own migrations.  Preflight
   conditions are one nondeterministic failure. *)
EXTENDS Naturals, FiniteSets

CONSTANTS
    CdMaxTag,       \* commits 1..CdMaxTag
    CdGood,         \* commits whose containers become healthy
    CdJobs,         \* slots for deployctl processes
    CdNoJob,
    CdPauseAfter,   \* consecutive failures that pause automatic deployment
    CdMaxRollbacks, \* bound: manual rollbacks
    CdMaxRuns,      \* bound: scheduled runs
    CdMaxFaults     \* bound: failed commands, deaths and lost connections

CdTags == 1..CdMaxTag

\* The pause comes after three failures in a row.
ASSUME CdAssumption ==
    /\ CdMaxTag \in Nat /\ CdGood \subseteq CdTags /\ CdNoJob \notin CdJobs
    /\ CdPauseAfter \in Nat \ {0}

VARIABLES
    cdBranch,       \* the tip of the branch
    cdCi,           \* required checks of each commit
    cdHead,         \* the server's checkout
    cdImages,       \* tags whose images are built
    cdSchema,       \* the latest tag whose migrations have run
    cdRunning,      \* the tag api and web run, 0 if they are down
    cdFile,         \* deployctl's state file
    cdJob,          \* deployctl processes
    cdCtl,          \* canaryctl's state file
    cdRun,          \* the scheduled run
    cdCheck,        \* a manual check: the state it loaded, if any
    cdDrift,        \* history: a deployment died, overlapped, or a rollback failed
    cdTouched,      \* history: check or resume overlapped with a run
    cdStreak,       \* history: failed deployments in a row
    cdCount         \* runs, rollbacks and faults so far

cdServer == <<cdHead, cdImages, cdSchema, cdRunning, cdFile, cdJob, cdDrift>>
cdLocal == <<cdCtl, cdRun, cdCheck, cdTouched, cdStreak>>
cdVars == <<cdBranch, cdCi, cdServer, cdLocal, cdCount>>

--------------------
(* deployctl.py *)

CdNoWork == [op |-> "none", tag |-> 0, at |-> "idle", prev |-> 0]

CdBusy == {j \in CdJobs : cdJob[j].at \notin {"idle", "done", "failed"}}

(* The commands of apply and of rollback, in order. *)
CdAfter(op, at) ==
    CASE at = "preflight" -> IF op = "apply" THEN "build" ELSE "switch"
      [] at = "build"     -> "data"
      [] at = "data"      -> "backup"
      [] at = "backup"    -> "migrate"
      [] at = "migrate"   -> "switch"
      [] at = "switch"    -> "health"
      [] at = "health"    -> "record"
      [] at = "record"    -> "done"
      [] at = "restore"   -> "failed"

(* Mutant: only a failed switch restores the previous image. *)
CdAfterSwitchFailure(job) ==
    IF job.op = "apply" /\ job.at = "switch" /\ job.prev # 0 THEN "restore" ELSE "failed"

(* A failed switch or health check of apply restores the previous image. *)
CdAfterFailure(job) ==
    IF job.op = "apply" /\ job.at \in {"switch", "health"} /\ job.prev # 0
    THEN "restore" ELSE "failed"

(* What may start: apply needs its commit checked out, rollback its images. *)
CdMayStart(op, tag) == IF op = "apply" THEN cdHead = tag ELSE tag \in cdImages

CdFault == cdCount.faults < CdMaxFaults /\ cdCount' = [cdCount EXCEPT !.faults = @ + 1]

(* One command succeeds.  The gateway answers only for a good tag. *)
CdStep(j) ==
    LET job == cdJob[j] IN
    /\ j \in CdBusy
    /\ job.at = "preflight" => CdMayStart(job.op, job.tag)
    /\ job.at = "health" => cdRunning \in CdGood
    /\ cdJob' = [cdJob EXCEPT ![j].at = CdAfter(job.op, job.at),
                              ![j].prev = IF job.at = "preflight" THEN cdFile.current ELSE @]
    /\ cdImages' = IF job.at = "build" THEN cdImages \cup {job.tag} ELSE cdImages
    /\ cdSchema' = IF job.at = "migrate" /\ job.tag > cdSchema THEN job.tag ELSE cdSchema
    /\ cdRunning' = CASE job.at = "switch"  -> job.tag
                      [] job.at = "restore" -> job.prev
                      [] OTHER              -> cdRunning
    /\ cdFile' = IF job.at = "record" THEN [current |-> job.tag, previous |-> job.prev] ELSE cdFile
    /\ UNCHANGED <<cdBranch, cdCi, cdHead, cdDrift, cdLocal, cdCount>>

(* A command fails: by chance, or because the gateway does not answer. *)
CdFails(j) ==
    LET job == cdJob[j]
        expected == \/ job.at = "preflight" /\ ~CdMayStart(job.op, job.tag)
                    \/ job.at = "health" /\ cdRunning \notin CdGood IN
    /\ j \in CdBusy
    /\ IF expected THEN UNCHANGED cdCount ELSE CdFault
    /\ cdJob' = [cdJob EXCEPT ![j].at = CdAfterFailure(job)]
    /\ cdRunning' \in IF job.at \in {"switch", "restore"} THEN {cdRunning, job.tag, 0} ELSE {cdRunning}
    /\ cdDrift' = (cdDrift \/ (job.op = "rollback" /\ job.at \in {"switch", "health", "record"})
                           \/ job.at \in {"record", "restore"})
    /\ UNCHANGED <<cdBranch, cdCi, cdHead, cdImages, cdSchema, cdFile, cdLocal>>

(* The process is killed. *)
CdDies(j) ==
    /\ j \in CdBusy
    /\ CdFault
    /\ cdJob' = [cdJob EXCEPT ![j].at = "failed"]
    /\ cdDrift' = (cdDrift \/ cdJob[j].at \in {"health", "record", "restore"})
    /\ UNCHANGED <<cdBranch, cdCi, cdHead, cdImages, cdSchema, cdRunning, cdFile, cdLocal>>

CdFreeJobs == {j \in CdJobs : cdJob[j].at \in {"idle", "done", "failed"} /\ cdRun.job # j}

CdLaunch(j, op, tag) ==
    /\ j \in CdFreeJobs
    /\ cdJob' = [cdJob EXCEPT ![j] = [CdNoWork EXCEPT !.op = op, !.tag = tag, !.at = "preflight"]]
    /\ cdDrift' = (cdDrift \/ CdBusy # {})
    /\ cdHead' = IF op = "apply" THEN tag ELSE cdHead

(* The operator checks a commit out and applies it while nothing runs, or
   rolls back to a commit that was deployed before. *)
CdOperatorApplies(j) ==
    /\ cdRunning \notin CdGood
    /\ cdBranch # 0 /\ cdCi[cdBranch] = "passed"
    /\ CdLaunch(j, "apply", cdBranch)
    /\ cdCount.rollbacks < CdMaxRollbacks
    /\ cdCount' = [cdCount EXCEPT !.rollbacks = @ + 1]
    /\ UNCHANGED <<cdBranch, cdCi, cdImages, cdSchema, cdRunning, cdFile, cdLocal>>

CdOperatorRollsBack(j) ==
    /\ cdFile.previous # 0
    /\ CdLaunch(j, "rollback", cdFile.previous)
    /\ cdCount.rollbacks < CdMaxRollbacks
    /\ cdCount' = [cdCount EXCEPT !.rollbacks = @ + 1]
    /\ UNCHANGED <<cdBranch, cdCi, cdImages, cdSchema, cdRunning, cdFile, cdLocal>>

--------------------
(* The branch and its checks. *)

CdPush ==
    /\ cdBranch < CdMaxTag
    /\ cdBranch' = cdBranch + 1
    /\ UNCHANGED <<cdCi, cdServer, cdLocal, cdCount>>

(* parse_check_runs: missing or running checks defer, a failed one blocks. *)
CdChecked(tag) ==
    /\ tag <= cdBranch
    /\ cdCi[tag] = "pending"
    /\ cdCi' \in {[cdCi EXCEPT ![tag] = result] : result \in {"passed", "failed"}}
    /\ UNCHANGED <<cdBranch, cdServer, cdLocal, cdCount>>

--------------------
(* canaryctl.py *)

CdHealthy == cdRunning \in CdGood

(* check: the observed health goes into the state loaded after the probe. *)
CdObserved(state) ==
    [state EXCEPT !.health = IF CdHealthy THEN "HEALTHY" ELSE "UNHEALTHY"]

CdNoState == [health |-> "UNKNOWN", failures |-> 0, paused |-> FALSE]

CdIdleRun == [at |-> "idle", sha |-> 0, state |-> CdNoState, job |-> CdNoJob]

CdOver(state) == cdCtl' = state /\ cdRun' = CdIdleRun

(* A write of the run while a check is between its load and its write. *)
CdOverlaps == cdTouched' = (cdTouched \/ cdCheck # {})

(* deploy succeeded, or found the commit deployed: the state is loaded
   again and written. *)
CdSucceeded ==
    /\ CdOver([cdCtl EXCEPT !.failures = 0, !.paused = FALSE])
    /\ cdStreak' = 0
    /\ CdOverlaps

(* deploy raised CanaryError: the count goes into the state loaded before. *)
CdFailed ==
    LET count == cdRun.state.failures + 1 IN
    /\ CdOver([cdRun.state EXCEPT !.failures = count, !.paused = count >= CdPauseAfter])
    /\ cdStreak' = cdStreak + 1
    /\ CdOverlaps

(* run_once: check, and sync only a healthy service that is not paused. *)
CdRunBegins ==
    LET state == CdObserved(cdCtl) IN
    /\ cdRun.at = "idle"
    /\ cdCount.runs < CdMaxRuns
    /\ cdBranch # 0
    /\ cdCount' = [cdCount EXCEPT !.runs = @ + 1]
    /\ cdCtl' = state
    /\ cdRun' = IF CdHealthy /\ ~state.paused
                THEN [CdIdleRun EXCEPT !.at = "deploy", !.sha = cdBranch, !.state = state]
                ELSE cdRun
    /\ CdOverlaps
    /\ UNCHANGED <<cdBranch, cdCi, cdServer, cdCheck, cdStreak>>

(* deploy: the checks, then the deployed version, then the remote script. *)
CdDeploys ==
    LET sha == cdRun.sha IN
    /\ cdRun.at = "deploy"
    /\ CASE cdCi[sha] = "pending" ->
                /\ CdOver([cdRun.state EXCEPT !.paused = FALSE])
                /\ CdOverlaps
                /\ UNCHANGED <<cdServer, cdStreak>>
         [] cdCi[sha] = "failed" -> CdFailed /\ UNCHANGED cdServer
         [] cdCi[sha] = "passed" /\ cdFile.current = sha /\ CdHealthy ->
                CdSucceeded /\ UNCHANGED cdServer
         [] OTHER ->
                \E j \in CdJobs :
                    /\ CdLaunch(j, "apply", sha)
                    /\ cdRun' = [cdRun EXCEPT !.at = "waiting", !.job = j]
                    /\ UNCHANGED <<cdImages, cdSchema, cdRunning, cdFile, cdCtl, cdTouched,
                                   cdStreak>>
    /\ UNCHANGED <<cdBranch, cdCi, cdCheck, cdCount>>

CdRunEnds ==
    /\ cdRun.at = "waiting"
    /\ \/ cdJob[cdRun.job].at = "done" /\ CdSucceeded
       \/ cdJob[cdRun.job].at = "failed" /\ CdFailed
    /\ UNCHANGED <<cdBranch, cdCi, cdServer, cdCheck, cdCount>>

(* The connection is lost: the remote script goes on unobserved. *)
CdConnectionLost ==
    /\ cdRun.at = "waiting"
    /\ CdFault
    /\ CdFailed
    /\ UNCHANGED <<cdBranch, cdCi, cdServer, cdCheck>>

(* canaryctl check: load, perhaps a notification, write. *)
CdCheckLoads ==
    /\ cdCheck = {}
    /\ CdObserved(cdCtl) # cdCtl
    /\ cdCheck' = {CdObserved(cdCtl)}
    /\ UNCHANGED <<cdBranch, cdCi, cdServer, cdCtl, cdRun, cdTouched, cdStreak, cdCount>>

CdCheckWrites ==
    /\ cdCheck # {}
    /\ cdCtl' \in cdCheck
    /\ cdCheck' = {}
    /\ cdTouched' = (cdTouched \/ cdRun.at # "idle")
    /\ UNCHANGED <<cdBranch, cdCi, cdServer, cdRun, cdStreak, cdCount>>

CdResume ==
    /\ cdCtl.failures > 0
    /\ cdCtl' = [cdCtl EXCEPT !.paused = FALSE, !.failures = 0]
    /\ cdStreak' = 0
    /\ cdTouched' = (cdTouched \/ cdRun.at # "idle" \/ cdCheck # {})
    /\ UNCHANGED <<cdBranch, cdCi, cdServer, cdRun, cdCheck, cdCount>>

--------------------
CdInit ==
    /\ cdBranch = 0
    /\ cdCi = [t \in CdTags |-> "pending"]
    /\ cdHead = 0
    /\ cdImages = {}
    /\ cdSchema = 0
    /\ cdRunning = 0
    /\ cdFile = [current |-> 0, previous |-> 0]
    /\ cdJob = [j \in CdJobs |-> CdNoWork]
    /\ cdCtl = CdNoState
    /\ cdRun = CdIdleRun
    /\ cdCheck = {}
    /\ cdDrift = FALSE
    /\ cdTouched = FALSE
    /\ cdStreak = 0
    /\ cdCount = [runs |-> 0, rollbacks |-> 0, faults |-> 0]

CdNext ==
    \/ CdPush \/ (\E t \in CdTags : CdChecked(t))
    \/ CdRunBegins \/ CdDeploys \/ CdRunEnds \/ CdConnectionLost
    \/ CdCheckLoads \/ CdCheckWrites \/ CdResume
    \/ \E j \in CdJobs : \/ CdStep(j) \/ CdFails(j) \/ CdDies(j)
                         \/ CdOperatorApplies(j) \/ CdOperatorRollsBack(j)

CdSpec == CdInit /\ [][CdNext]_cdVars

CdTypeOK ==
    /\ cdRunning \in CdTags \cup {0}
    /\ cdFile.current \in CdTags \cup {0} /\ cdFile.previous \in CdTags \cup {0}
    /\ cdCtl.paused \in BOOLEAN
    /\ \A j \in CdJobs : cdJob[j].at \in {"idle", "preflight", "build", "data", "backup",
                              "migrate", "switch", "health", "record", "restore", "done", "failed"}

(* Whatever fails or overlaps, the running containers find the schema their
   migrations made: migrations only go forward and precede every switch. *)
CdSchemaCovers == cdRunning <= cdSchema

(* Between deployments that neither died nor overlapped, what runs is what
   the state file says, or nothing: a failed switch puts the recorded
   version back. *)
CdRecordIsTrue ==
    CdBusy = {} /\ ~cdDrift /\ cdFile.current # 0 => cdRunning \in {cdFile.current, 0}

(* Automatic deployment is paused after CdPauseAfter failures in a row,
   unless an unlocked command wrote the state file during a run. *)
CdPauses == cdStreak >= CdPauseAfter /\ ~cdTouched => cdCtl.paused

(* The deployed service, its record and the controller stay in step. *)
CdReleaseHolds == CdSchemaCovers /\ CdRecordIsTrue /\ CdPauses
====
