---- MODULE LoopHarness ----
(* The maintenance loop (core/loop_harness): runs that scan the
   repository, fix, publish a draft pull request, have it reviewed and
   merge it (runner.py), the SQLite state with its single lease (state.py),
   the git and GitHub adapters, and the operator's commands (cli.py).

   A step of a run is one outside effect with the two checks of _fenced
   around it: the check after an effect and the check before the next one
   are adjacent in the code and are made together at the end of the step,
   so between a step's check and its effect the lease may be lost, the
   mode changed or the target branch pushed.  run_id, owner and fencing
   token are fresh in every acquisition: the run stands for all three. *)
EXTENDS Integers, FiniteSets

CONSTANTS LhRuns, LhCleaner, LhNobody,
          LhPatches,     \* what a fixer may produce; the patch names the branch
          LhDiffs,       \* shapes of a fixer's diff
          LhModes,       \* the modes the operator enables
          LhPauseAfter,  \* equal errors in a row that pause the loop (3 in the code)
          LhMaxEvents    \* bound on commands, human moves, faults and expiries

ASSUME LhAssumption ==
  /\ LhCleaner \notin LhRuns /\ LhNobody \notin LhRuns \cup {LhCleaner}
  /\ LhPauseAfter \in Nat \ {0}
  /\ LhModes \subseteq {"DRY_RUN", "SHADOW_WRITE", "PR_CANARY", "AUTO_MERGE_TIER_A"}
  /\ LhMaxEvents \in Nat

VARIABLES lhSettings,   \* the settings table: enabled, mode, errors in a row
          lhLease,      \* the row of "loop-run"
          lhRunRows,    \* runs.state
          lhPrRows,     \* pull_requests: state and created_day
          lhProc,       \* the processes
          lhWorktrees,  \* worktree of a run: none, clean or dirty
          lhBranches,   \* pushed candidate branches
          lhPrs,        \* pull requests as GitHub has them
          lhTarget,     \* head of the target branch
          lhDay, lhEvents,
          lhOverruns    \* leases that expired under a live holder

lhVars == <<lhSettings, lhLease, lhRunRows, lhPrRows, lhProc, lhWorktrees, lhBranches, lhPrs,
            lhTarget, lhDay, lhEvents, lhOverruns>>
lhWorld == <<lhBranches, lhPrs, lhTarget, lhDay>>
lhBounds == <<lhEvents, lhOverruns>>

ActiveModes == {"DRY_RUN", "SHADOW_WRITE", "PR_CANARY", "AUTO_MERGE_TIER_A"}
WriteModes == {"SHADOW_WRITE", "PR_CANARY", "AUTO_MERGE_TIER_A"}
PrModes == {"PR_CANARY", "AUTO_MERGE_TIER_A"}
OpenStates == {"DRAFT", "REVIEWING", "DRAFT_REVIEWED", "CHANGES_REQUESTED"}
Failures == {"environment", "policy", "mode", "lease"}  \* error codes by class
LhSteps == {"begin", "preflight", "fetch", "scan", "fix", "validate", "commit", "push", "create",
            "record", "review", "merge", "checks", "merging", "recordMerge", "finish"}
Outcomes == {"BLOCKED", "SKIPPED", "ended"}  \* ended: every other terminal state

LhIdle == [pc |-> "idle", mode |-> "DRY_RUN", base |-> 0, patch |-> LhNobody, tier |-> "C",
           day |-> 0, outcome |-> "ended", code |-> ""]

LhTypeOK ==
  /\ lhSettings \in [enabled: BOOLEAN, mode: ActiveModes \cup {"PAUSED_MANUAL", "PAUSED_ERROR"},
                     code: Failures \cup {""}, count: 0..LhPauseAfter]
  /\ lhLease \in [run: LhRuns \cup {LhCleaner, LhNobody}, expired: BOOLEAN]
  /\ lhRunRows \in [LhRuns -> {"none", "RUNNING", "terminal"}]
  /\ lhPrRows \in [LhRuns -> [state: OpenStates \cup {"none", "MERGED"}, day: Nat]]
  /\ \A r \in LhRuns :
       /\ lhProc[r].pc \in LhSteps \cup {"idle", "done", "dead"}
       /\ lhProc[r].outcome \in Outcomes /\ lhProc[r].code \in Failures \cup {"", "capacity"}
  /\ lhWorktrees \in [LhRuns -> {"none", "clean", "dirty"}]
  /\ lhBranches \subseteq LhPatches /\ lhTarget \in Nat /\ lhDay \in Nat
  /\ lhPrs \in [LhRuns -> [state: {"none", "open", "closed", "merged"}, draft: BOOLEAN,
                           held: BOOLEAN, own: BOOLEAN]]

\* initialize: the loop starts paused in DRY_RUN.
LhInit ==
  /\ lhSettings = [enabled |-> FALSE, mode |-> "DRY_RUN", code |-> "", count |-> 0]
  /\ lhLease = [run |-> LhNobody, expired |-> FALSE]
  /\ lhRunRows = [r \in LhRuns |-> "none"]
  /\ lhPrRows = [r \in LhRuns |-> [state |-> "none", day |-> 0]]
  /\ lhProc = [r \in LhRuns |-> LhIdle]
  /\ lhWorktrees = [r \in LhRuns |-> "none"]
  /\ lhBranches = {} /\ lhTarget = 0 /\ lhDay = 0
  /\ lhPrs = [r \in LhRuns |-> [state |-> "none", draft |-> TRUE, held |-> FALSE, own |-> TRUE]]
  /\ lhEvents = 0 /\ lhOverruns = 0

--------------------

Event == lhEvents < LhMaxEvents /\ lhEvents' = lhEvents + 1
At(r, pc) == lhProc[r].pc = pc
LeaseFree == lhLease.run = LhNobody \/ lhLease.expired

\* assert_lease, _assert_lease_row and _require_active_mode.
Held(r) == lhLease.run = r /\ ~lhLease.expired
ModeHolds(r) == lhSettings.enabled /\ lhSettings.mode = lhProc[r].mode

Stopped(p, code) ==
  [p EXCEPT !.pc = "finish", !.code = code,
            !.outcome = IF code = "capacity" THEN "SKIPPED" ELSE "BLOCKED"]

\* The step that follows in _fenced, unless the lease or the mode is gone.
Fenced(r, p) == IF ~Held(r) THEN Stopped(p, "lease")
                ELSE IF ~ModeHolds(r) THEN Stopped(p, "mode") ELSE p
\* A transaction of LoopState checks the lease only.
Leased(r, p) == IF Held(r) THEN p ELSE Stopped(p, "lease")

Goto(r, p) == lhProc' = [lhProc EXCEPT ![r] = p]
Fails(r, codes) == \E code \in codes : Goto(r, Stopped(lhProc[r], code))
Then(r, pc) == [lhProc[r] EXCEPT !.pc = pc]
Ends(r) == Then(r, "finish")

\* A run that is over: of its variables only what a request was made of matters.
Over(r, pc) == IF lhPrs[r].state = "none" THEN [LhIdle EXCEPT !.pc = pc]
               ELSE [lhProc[r] EXCEPT !.pc = pc, !.outcome = "ended", !.code = ""]

\* acquire_lease, terminalize and release_lease as far as the lease goes.
AcquireLease(holder) == LeaseFree /\ lhLease' = [run |-> holder, expired |-> FALSE]
NoLease == [run |-> LhNobody, expired |-> FALSE]

\* run of a process that finds the loop enabled and reads the mode; a busy
\* lease makes it report SKIPPED and leaves no trace.
LhAcquire(r) ==
  /\ At(r, "idle") /\ lhSettings.enabled
  /\ AcquireLease(r)
  /\ Goto(r, [LhIdle EXCEPT !.pc = "begin", !.mode = lhSettings.mode])
  /\ UNCHANGED <<lhSettings, lhRunRows, lhPrRows, lhWorktrees, lhWorld, lhBounds>>

\* begin_run.
BeginRun(r) == lhRunRows' = IF Held(r) THEN [lhRunRows EXCEPT ![r] = "RUNNING"] ELSE lhRunRows

LhBegin(r) ==
  /\ At(r, "begin")
  /\ BeginRun(r)
  /\ Goto(r, IF Held(r) THEN Then(r, "preflight") ELSE Over(r, "done"))
  /\ UNCHANGED <<lhSettings, lhLease, lhPrRows, lhWorktrees, lhWorld, lhBounds>>

\* begin_run fails in the database: the lease is given back.
LhBeginFails(r) ==
  /\ At(r, "begin") /\ Event
  /\ lhLease' = IF Held(r) THEN NoLease ELSE lhLease
  /\ Goto(r, Over(r, "done"))
  /\ UNCHANGED <<lhSettings, lhRunRows, lhPrRows, lhWorktrees, lhWorld, lhOverruns>>

\* require_pr_capacity, of the state and of GitHub.
LocalCapacity ==
  \A r \in LhRuns : LET row == lhPrRows[r] IN
    row.state \notin OpenStates /\ (row.state = "none" \/ row.day # lhDay)
RemoteCapacity == \A r \in LhRuns : lhPrs[r].state # "open"

\* run, from the static checks to the reservation of the day.
LhPreflight(r) ==
  /\ At(r, "preflight")
  /\ IF lhProc[r].mode \in PrModes /\ ~(RemoteCapacity /\ LocalCapacity) THEN Fails(r, {"capacity"})
     ELSE Goto(r, Fenced(r, [Then(r, "fetch") EXCEPT !.day = lhDay])) \/ Fails(r, {"environment"})
  /\ UNCHANGED <<lhSettings, lhLease, lhRunRows, lhPrRows, lhWorktrees, lhWorld, lhBounds>>

\* create_detached_worktree and remove_managed_worktree.
CreateWorktree(r) == lhWorktrees' = [lhWorktrees EXCEPT ![r] = "clean"]
RemoveWorktree(r, removed) ==
  /\ removed \/ lhWorktrees[r] # "none"
  /\ lhWorktrees' = IF removed THEN [lhWorktrees EXCEPT ![r] = "none"] ELSE lhWorktrees

\* fetch, remote_sha, set_run_base_sha and the comparison with the root.
LhFetch(r) ==
  /\ At(r, "fetch")
  /\ \/ /\ Goto(r, Fenced(r, [Then(r, "scan") EXCEPT !.base = lhTarget]))
        /\ CreateWorktree(r)
     \/ Fails(r, {"environment"}) /\ UNCHANGED lhWorktrees
  /\ UNCHANGED <<lhSettings, lhLease, lhRunRows, lhPrRows, lhWorld, lhBounds>>

\* classify_candidate: whether a candidate may go on to the fixer.
ScanVerdicts(r) == IF lhProc[r].mode \in WriteModes THEN {"report", "candidate"} ELSE {"report"}

\* worker.run: a verdict, or the failure of its second attempt.
LhScanFails(r) ==
  /\ At(r, "scan") /\ Fails(r, {"environment", "policy"})
  /\ UNCHANGED <<lhSettings, lhLease, lhRunRows, lhPrRows, lhWorktrees, lhWorld, lhBounds>>

\* classify_candidate, record_worker_result, record_scan_scope and
\* _terminal_result: in a write mode an allowed candidate goes on to the fixer.
LhScan(r) ==
  /\ At(r, "scan")
  /\ \E verdict \in ScanVerdicts(r) :
       Goto(r, IF verdict = "report" THEN Leased(r, Ends(r)) ELSE Fenced(r, Then(r, "fix")))
  /\ UNCHANGED <<lhSettings, lhLease, lhRunRows, lhPrRows, lhWorktrees, lhWorld, lhBounds>>

\* evaluate_diff: the tier of a diff that keeps to the declared paths.
EvaluateDiff(d) ==
  IF d.prod + d.tests = 0 \/ d.forbidden THEN "C"
  ELSE IF d.prod \in 1..2 /\ d.tests <= 1 /\ d.lines <= 80 /\ (d.behavior => d.tests > 0) THEN "A"
  ELSE IF d.prod + d.tests <= 3 /\ d.lines <= 150 THEN "B" ELSE "C"

\* The comparison of the fetched head with base_sha, made three times.
Drifted(r) == lhTarget # lhProc[r].base

\* fixer.run edits the worktree, and may fail half way.
FixerEdits(r) == lhWorktrees' = [lhWorktrees EXCEPT ![r] = "dirty"]
LhFixFails(r) ==
  /\ At(r, "fix") /\ FixerEdits(r) /\ Fails(r, {"environment", "policy"})
  /\ UNCHANGED <<lhSettings, lhLease, lhRunRows, lhPrRows, lhWorld, lhBounds>>

\* fixer.run, then fetch, diff_snapshot and evaluate_diff.
LhFix(r) ==
  /\ At(r, "fix") /\ FixerEdits(r)
  /\ \/ Drifted(r) /\ Fails(r, {"policy"})
     \/ /\ ~Drifted(r)
        /\ \E p \in LhPatches, d \in LhDiffs :
             IF EvaluateDiff(d) = "C" THEN Fails(r, {"policy"})
             ELSE Goto(r, Fenced(r, [Then(r, "validate") EXCEPT !.patch = p,
                                                                !.tier = EvaluateDiff(d)]))
  /\ UNCHANGED <<lhSettings, lhLease, lhRunRows, lhPrRows, lhWorld, lhBounds>>

\* validate and save_shadow: a failing step, a mutated diff or a full store.
LhValidateFails(r) ==
  /\ At(r, "validate") /\ Fails(r, {"environment", "policy"})
  /\ UNCHANGED <<lhSettings, lhLease, lhRunRows, lhPrRows, lhWorktrees, lhWorld, lhBounds>>

\* validate, the second snapshot, the second fetch, _save_shadow_artifact and
\* record_shadow_result.
LhValidate(r) ==
  /\ At(r, "validate")
  /\ \/ Drifted(r) /\ Fails(r, {"policy"})
     \/ /\ ~Drifted(r)
        /\ Goto(r, IF lhProc[r].mode = "SHADOW_WRITE"
                     THEN Fenced(r, Ends(r)) ELSE Fenced(r, Then(r, "commit")))
  /\ UNCHANGED <<lhSettings, lhLease, lhRunRows, lhPrRows, lhWorktrees, lhWorld, lhBounds>>

\* commit_candidate leaves a clean worktree.
CommitCandidate(r) == lhWorktrees' = [lhWorktrees EXCEPT ![r] = "clean"]

\* The commit, fetch and the comparison before the push, github.probe.
LhCommit(r) ==
  /\ At(r, "commit") /\ CommitCandidate(r)
  /\ IF Drifted(r) THEN Fails(r, {"policy"})
     ELSE Goto(r, Fenced(r, Then(r, "push"))) \/ Fails(r, {"environment"})
  /\ UNCHANGED <<lhSettings, lhLease, lhRunRows, lhPrRows, lhWorld, lhBounds>>

\* push_candidate, never forced: a branch another run pushed rejects it.
PushRejected(r) == lhProc[r].patch \in lhBranches
LhPush(r) ==
  /\ At(r, "push")
  /\ IF PushRejected(r) THEN Fails(r, {"environment"}) /\ UNCHANGED lhBranches
     ELSE /\ lhBranches' = lhBranches \cup {lhProc[r].patch}
          /\ Goto(r, Fenced(r, Then(r, "create"))) \/ Fails(r, {"environment"})
  /\ UNCHANGED <<lhSettings, lhLease, lhRunRows, lhPrRows, lhWorktrees, lhPrs, lhTarget, lhDay,
                 lhBounds>>

\* _find_by_branch, in any state.
OtherOnBranch(r) ==
  \E q \in LhRuns \ {r} : lhPrs[q].state # "none" /\ lhProc[q].patch = lhProc[r].patch

\* create_draft: a request of another commit on the branch, open or not, is
\* drift.  The answer of GitHub may be lost after the request was created.
LhCreateDraft(r) ==
  /\ At(r, "create")
  /\ IF OtherOnBranch(r)
       THEN Fails(r, {"policy"}) /\ UNCHANGED lhPrs
       ELSE \/ /\ lhPrs' = [lhPrs EXCEPT ![r].state = "open"]
               /\ Goto(r, Fenced(r, Then(r, "record"))) \/ Fails(r, {"environment"})
            \/ Fails(r, {"environment"}) /\ UNCHANGED lhPrs
  /\ UNCHANGED <<lhSettings, lhLease, lhRunRows, lhPrRows, lhWorktrees, lhBranches, lhTarget,
                 lhDay, lhBounds>>

\* record_pull_request, record_review_result and record_merge_result.
RecordPr(r, state) ==
  lhPrRows' = IF Held(r) THEN [lhPrRows EXCEPT ![r] = [state |-> state, day |-> lhProc[r].day]]
              ELSE lhPrRows

\* The request is recorded with the day reserved by the preflight.
LhRecordPullRequest(r) ==
  /\ At(r, "record") /\ RecordPr(r, "DRAFT")
  /\ Goto(r, Fenced(r, Then(r, "review")))
  /\ UNCHANGED <<lhSettings, lhLease, lhRunRows, lhWorktrees, lhWorld, lhBounds>>

\* review: without an answer, or with one that comes after lease or mode went.
LhReviewFails(r) ==
  /\ At(r, "review")
  /\ \/ Fails(r, {"environment"})
     \/ ~(Held(r) /\ ModeHolds(r)) /\ Goto(r, Fenced(r, lhProc[r]))
  /\ UNCHANGED <<lhSettings, lhLease, lhRunRows, lhPrRows, lhWorktrees, lhWorld, lhBounds>>

\* A verdict is recorded; PASS on Tier A goes on to the merge.
LhReview(r) ==
  /\ At(r, "review") /\ Held(r) /\ ModeHolds(r)
  /\ \/ /\ RecordPr(r, "DRAFT_REVIEWED")
        /\ Goto(r, IF lhProc[r].mode = "AUTO_MERGE_TIER_A" /\ lhProc[r].tier = "A"
                     THEN Then(r, "merge") ELSE Ends(r))
     \/ RecordPr(r, "CHANGES_REQUESTED") /\ Goto(r, Ends(r))
  /\ UNCHANGED <<lhSettings, lhLease, lhRunRows, lhWorktrees, lhWorld, lhBounds>>

\* _require_merge_candidate.
MergeCandidate(r) ==
  lhPrs[r].state = "open" /\ lhPrs[r].own /\ ~Drifted(r) /\ ~lhPrs[r].held

\* merge_tier_a: the request is marked ready.
LhMarkReady(r) ==
  /\ At(r, "merge")
  /\ \/ /\ MergeCandidate(r) /\ Goto(r, Then(r, "checks"))
        /\ lhPrs' = [lhPrs EXCEPT ![r].draft = FALSE]
     \/ ~MergeCandidate(r) /\ Fails(r, {"policy"}) /\ UNCHANGED lhPrs
     \/ Fails(r, {"environment"}) /\ UNCHANGED lhPrs
  /\ UNCHANGED <<lhSettings, lhLease, lhRunRows, lhPrRows, lhWorktrees, lhBranches, lhTarget,
                 lhDay, lhBounds>>

\* _wait_for_successful_checks and the last comparison.
LhChecks(r) ==
  /\ At(r, "checks")
  /\ Fails(r, {"environment"}) \/ (IF MergeCandidate(r) THEN Goto(r, Then(r, "merging"))
                              ELSE Fails(r, {"policy"}))
  /\ UNCHANGED <<lhSettings, lhLease, lhRunRows, lhPrRows, lhWorktrees, lhWorld, lhBounds>>

\* Mutant of GitHubMerges: the merge does not name the reviewed head.
MergesAnyHead(r) == lhPrs[r].state = "open"

\* What GitHub compares when it merges: the head, not the base nor the labels.
GitHubMerges(r) == lhPrs[r].state = "open" /\ lhPrs[r].own

\* gh pr merge --squash --delete-branch; the answer may be lost.
LhMerge(r) ==
  /\ At(r, "merging")
  /\ IF GitHubMerges(r)
       THEN /\ lhPrs' = [lhPrs EXCEPT ![r].state = "merged"]
            /\ lhTarget' = lhTarget + 1 /\ lhBranches' = lhBranches \ {lhProc[r].patch}
            /\ Goto(r, Fenced(r, Then(r, "recordMerge"))) \/ Fails(r, {"environment"})
       ELSE Fails(r, {"environment"}) /\ UNCHANGED <<lhPrs, lhTarget, lhBranches>>
  /\ UNCHANGED <<lhSettings, lhLease, lhRunRows, lhPrRows, lhWorktrees, lhDay, lhBounds>>

\* record_merge_result.
LhRecordMerge(r) ==
  /\ At(r, "recordMerge") /\ RecordPr(r, "MERGED")
  /\ Goto(r, Leased(r, Ends(r)))
  /\ UNCHANGED <<lhSettings, lhLease, lhRunRows, lhWorktrees, lhWorld, lhBounds>>

\* Mutant of RegisterOutcome: a run that was skipped for want of capacity counts.
RegisterEveryCode(p) ==
  LET count == IF p.code = lhSettings.code THEN lhSettings.count + 1 ELSE 1
      failed == [lhSettings EXCEPT !.code = p.code, !.count = count]
  IN  IF p.code = "" THEN [lhSettings EXCEPT !.code = "", !.count = 0]
      ELSE IF count >= LhPauseAfter THEN [failed EXCEPT !.enabled = FALSE, !.mode = "PAUSED_ERROR"]
      ELSE failed

\* _register_outcome_row.
RegisterOutcome(p) ==
  LET count == IF p.code = lhSettings.code THEN lhSettings.count + 1 ELSE 1
      failed == [lhSettings EXCEPT !.code = p.code, !.count = count]
  IN  IF p.outcome # "BLOCKED" THEN [lhSettings EXCEPT !.code = "", !.count = 0]
      ELSE IF count >= LhPauseAfter THEN [failed EXCEPT !.enabled = FALSE, !.mode = "PAUSED_ERROR"]
      ELSE failed

\* terminalize: the outcome is stored and the lease released together.
Terminalize(r, p) ==
  /\ lhRunRows' = [lhRunRows EXCEPT ![r] = "terminal"]
  /\ lhSettings' = RegisterOutcome(p)
  /\ lhLease' = NoLease

\* The finally block, which removes the worktree unless git fails, and
\* terminalize, all under the lease.
LhFinish(r) ==
  /\ At(r, "finish")
  /\ Goto(r, Over(r, "done"))
  /\ IF Held(r)
       THEN \E removed \in BOOLEAN :
              LET p == IF removed THEN lhProc[r] ELSE Stopped(lhProc[r], "environment") IN
              RemoveWorktree(r, removed) /\ Terminalize(r, p)
       ELSE UNCHANGED <<lhWorktrees, lhRunRows, lhSettings, lhLease>>
  /\ UNCHANGED <<lhPrRows, lhWorld, lhBounds>>

\* A run is killed, by its scheduler or with its machine: its lease stays.
LhCrash(r) ==
  /\ lhProc[r].pc \in LhSteps /\ Event
  /\ Goto(r, Over(r, "dead"))
  /\ UNCHANGED <<lhSettings, lhLease, lhRunRows, lhPrRows, lhWorktrees, lhWorld, lhOverruns>>

\* expires_at passes; under a live holder only when the machine slept.
LhExpire ==
  /\ lhLease.run # LhNobody /\ ~lhLease.expired
  /\ lhLease' = [lhLease EXCEPT !.expired = TRUE]
  /\ IF lhLease.run \in LhRuns /\ lhProc[lhLease.run].pc = "dead" THEN UNCHANGED lhBounds
     ELSE Event /\ lhOverruns' = lhOverruns + 1
  /\ UNCHANGED <<lhSettings, lhRunRows, lhPrRows, lhProc, lhWorktrees, lhWorld>>

\* The operator's enable and pause.
LhEnable(mode) ==
  /\ Event
  /\ lhSettings' = [enabled |-> TRUE, mode |-> mode, code |-> "", count |-> 0]
  /\ UNCHANGED <<lhLease, lhRunRows, lhPrRows, lhProc, lhWorktrees, lhWorld, lhOverruns>>

LhPause ==
  /\ lhSettings.enabled /\ Event
  /\ lhSettings' = [lhSettings EXCEPT !.enabled = FALSE, !.mode = "PAUSED_MANUAL"]
  /\ UNCHANGED <<lhLease, lhRunRows, lhPrRows, lhProc, lhWorktrees, lhWorld, lhOverruns>>

\* The cleanup command: its lease, then the worktrees in order up to the
\* first dirty one, which raises, and the release of what it still holds.
LhCleanupStart ==
  /\ lhLease.run # LhCleaner /\ AcquireLease(LhCleaner)
  /\ \E r \in LhRuns : lhWorktrees[r] # "none"
  /\ UNCHANGED <<lhSettings, lhRunRows, lhPrRows, lhProc, lhWorktrees, lhWorld, lhBounds>>

LhCleanup ==
  /\ lhLease.run = LhCleaner
  /\ LET clean == {r \in LhRuns : lhWorktrees[r] = "clean"}
         dirty == {r \in LhRuns : lhWorktrees[r] = "dirty"}
     IN  \E removed \in SUBSET clean :
           /\ dirty # {} \/ removed = clean
           /\ lhWorktrees' = [r \in LhRuns |-> IF r \in removed THEN "none" ELSE lhWorktrees[r]]
  /\ lhLease' = IF lhLease.expired THEN lhLease ELSE NoLease
  /\ UNCHANGED <<lhSettings, lhRunRows, lhPrRows, lhProc, lhWorld, lhBounds>>

\* People: a push to the target branch, a commit on a candidate branch, a
\* blocking label or review, the close of a request; and the next day.
LhHuman ==
  /\ Event
  /\ \/ lhTarget' = lhTarget + 1 /\ UNCHANGED <<lhPrs, lhDay>>
     \/ lhDay' = lhDay + 1 /\ UNCHANGED <<lhPrs, lhTarget>>
     \/ \E r \in LhRuns :
          /\ lhPrs[r].state = "open"
          /\ \E pr \in {[lhPrs[r] EXCEPT !.own = FALSE], [lhPrs[r] EXCEPT !.held = TRUE],
                        [lhPrs[r] EXCEPT !.state = "closed"]} : lhPrs' = [lhPrs EXCEPT ![r] = pr]
          /\ UNCHANGED <<lhTarget, lhDay>>
  /\ UNCHANGED <<lhSettings, lhLease, lhRunRows, lhPrRows, lhProc, lhWorktrees, lhBranches, lhOverruns>>

LhRun(r) ==
  \/ LhAcquire(r) \/ LhBegin(r) \/ LhBeginFails(r) \/ LhPreflight(r) \/ LhFetch(r) \/ LhScan(r)
  \/ LhScanFails(r) \/ LhFixFails(r) \/ LhValidateFails(r) \/ LhReviewFails(r) \/ LhFix(r) \/ LhValidate(r) \/ LhCommit(r) \/ LhPush(r) \/ LhCreateDraft(r)
  \/ LhRecordPullRequest(r) \/ LhReview(r) \/ LhMarkReady(r) \/ LhChecks(r) \/ LhMerge(r)
  \/ LhRecordMerge(r) \/ LhFinish(r) \/ LhCrash(r)

LhNext ==
  \/ \E r \in LhRuns : LhRun(r)
  \/ \E mode \in LhModes : LhEnable(mode)
  \/ LhPause \/ LhExpire \/ LhCleanupStart \/ LhCleanup \/ LhHuman

LhSpec == LhInit /\ [][LhNext]_lhVars

--------------------

\* "同时最多保留 1 个 Harness 自动 PR" (docs/loop-harness/README.md:40): the loop has at
\* most one request open on GitHub, whatever run died between creating and
\* recording it; each further one is paid for by a lease that expired under a
\* live run (runner.py _fenced, require_pr_capacity).
LhOneOpenPr == Cardinality({r \in LhRuns : lhPrs[r].state = "open"}) <= 1 + lhOverruns

\* What the loop merged is the very commit it validated and had reviewed, of
\* Tier A, in AUTO_MERGE_TIER_A, although people may push to the branch at any
\* moment up to the merge (github.py merge_tier_a).
LhMergedAsReviewed ==
  \A r \in LhRuns : lhPrs[r].state = "merged" =>
    /\ lhPrs[r].own /\ lhPrRows[r].state \in {"DRAFT_REVIEWED", "MERGED"}
    /\ lhProc[r].tier = "A" /\ lhProc[r].mode = "AUTO_MERGE_TIER_A"

\* The requests of the loop stay few and are merged as they were reviewed.
LhRequestsHold == LhOneOpenPr /\ LhMergedAsReviewed
====
