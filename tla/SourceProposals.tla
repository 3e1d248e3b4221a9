---- MODULE SourceProposals ----
(* A web page an agent proposes as a knowledge source: the row
   (knowledge/source_proposals/repository.py), and the service that copies
   the fetched artifact into a private source root and creates its
   ingestion job (harness/knowledge_source_proposal_adapter.py).  Every
   repository method locks the row: one action.  One proposal; its
   reviewers' requests interleave at every await. *)
EXTENDS Integers

CONSTANTS SpReviewers, SpContents,
          SpMaxRev,    \* bound on the row's revision
          SpMaxFaults  \* bound on failed calls and deaths of the process

ASSUME SpAssumption == SpMaxRev \in Nat /\ SpMaxFaults \in Nat

VARIABLES spRow,       \* status, revision, content_hash, job_id (0 is none)
          spArtifact,  \* what the tool result store holds now
          spSnapshot,  \* source.md in the private root, a set of at most one
          spJobs,      \* ingestion jobs created for the proposal
          spRoot,      \* the source root is registered in this process
          spOp, spFaults

spVars == <<spRow, spArtifact, spSnapshot, spJobs, spRoot, spOp, spFaults>>

\* A row of knowledge_source_proposals.
ProposalRow(status, rev, hash, job) == [status |-> status, rev |-> rev, hash |-> hash, job |-> job]

SpIdle == [pc |-> "idle", job |-> 0]

SpTypeOK ==
  /\ spRow \in [status: {"none", "pending", "applying", "approved", "rejected"},
                rev: 0..SpMaxRev + 1, hash: SpContents, job: 0..SpMaxRev]
  /\ spArtifact \in SpContents /\ spSnapshot \subseteq SpContents
  /\ spJobs \in 0..SpMaxRev /\ spRoot \in BOOLEAN
  /\ spOp \in [SpReviewers -> [pc: {"idle", "verify", "create", "attach", "mark", "fail"},
                               job: 0..SpMaxRev]]
  /\ spFaults \in 0..SpMaxFaults

SpInit ==
  /\ spArtifact \in SpContents
  /\ spRow = ProposalRow("none", 0, spArtifact, 0)
  /\ spSnapshot = {} /\ spJobs = 0 /\ spRoot = FALSE
  /\ spOp = [a \in SpReviewers |-> SpIdle] /\ spFaults = 0

Go(a, pc) == spOp' = [spOp EXCEPT ![a].pc = pc]
SetStatus(status) == spRow' = ProposalRow(status, spRow.rev + 1, spRow.hash, spRow.job)

\* create: the row of this artifact and content, once (UNIQUE on its identity).
SpPropose ==
  /\ spRow.status = "none"
  /\ spRow' = ProposalRow("pending", spRow.rev, spArtifact, spRow.job)
  /\ UNCHANGED <<spArtifact, spSnapshot, spJobs, spRoot, spOp, spFaults>>

\* The file of the tool result is replaced by something else.
SpArtifactChanges(c) ==
  /\ c # spArtifact /\ spFaults < SpMaxFaults
  /\ spArtifact' = c /\ spFaults' = spFaults + 1
  /\ UNCHANGED <<spRow, spSnapshot, spJobs, spRoot, spOp>>

\* claim_applying: a proposal that is already applying is claimed again by
\* whoever knows its revision, after a crash or next to another reviewer.
SpClaim(a, expected) ==
  /\ spOp[a].pc = "idle" /\ spRow.rev = expected /\ spRow.rev <= SpMaxRev
  /\ spRow.status \in {"pending", "applying"}
  /\ IF spRow.status = "pending" THEN SetStatus("applying") ELSE UNCHANGED spRow
  /\ Go(a, "verify")
  /\ UNCHANGED <<spArtifact, spSnapshot, spJobs, spRoot, spFaults>>

\* Mutant: the content is not compared with the one that was proposed.
VerifiedByName(a) == spSnapshot \subseteq {spArtifact}

\* _verified_artifact and _materialize: the content is the proposed one, and a
\* snapshot that exists is the same.
Verified(a) == spArtifact = spRow.hash /\ spSnapshot \subseteq {spArtifact}

SpMaterialize(a) ==
  /\ spOp[a].pc = "verify"
  /\ IF Verified(a)
       THEN spSnapshot' = {spArtifact} /\ spRoot' = TRUE /\ Go(a, "create")
       ELSE UNCHANGED <<spSnapshot, spRoot>> /\ Go(a, "fail")
  /\ UNCHANGED <<spRow, spArtifact, spJobs, spFaults>>

\* create_batch: a job with a new id, each time.
SpCreateJob(a) ==
  /\ spOp[a].pc = "create" /\ spJobs < SpMaxRev
  /\ spJobs' = spJobs + 1
  /\ spOp' = [spOp EXCEPT ![a] = [pc |-> "attach", job |-> spJobs + 1]]
  /\ UNCHANGED <<spRow, spArtifact, spSnapshot, spRoot, spFaults>>

SpAttachJob(a) ==
  /\ spOp[a].pc = "attach" /\ spRow.rev <= SpMaxRev
  /\ IF spRow.status = "applying" /\ spRow.job \in {0, spOp[a].job}
       THEN /\ spRow' = ProposalRow(spRow.status, spRow.rev + 1, spRow.hash, spOp[a].job)
            /\ Go(a, "mark")
       ELSE UNCHANGED spRow /\ Go(a, "fail")
  /\ UNCHANGED <<spArtifact, spSnapshot, spJobs, spRoot, spFaults>>

SpMarkApproved(a) ==
  /\ spOp[a].pc = "mark" /\ spRow.rev <= SpMaxRev
  /\ CASE spRow.status = "approved" ->
            UNCHANGED spRow /\ spOp' = [spOp EXCEPT ![a] = SpIdle]
       [] spRow.status = "applying" /\ spRow.job # 0 ->
            SetStatus("approved") /\ spOp' = [spOp EXCEPT ![a] = SpIdle]
       [] OTHER -> UNCHANGED spRow /\ Go(a, "fail")
  /\ UNCHANGED <<spArtifact, spSnapshot, spJobs, spRoot, spFaults>>

\* Any of the calls raises.
SpCallFails(a) ==
  /\ spOp[a].pc \in {"verify", "create", "attach", "mark"} /\ spFaults < SpMaxFaults
  /\ Go(a, "fail") /\ spFaults' = spFaults + 1
  /\ UNCHANGED <<spRow, spArtifact, spSnapshot, spJobs, spRoot>>

\* mark_failed: back to pending, unless somebody else has decided.
SpMarkFailed(a) ==
  /\ spOp[a].pc = "fail" /\ spRow.rev <= SpMaxRev
  /\ IF spRow.status = "applying" THEN SetStatus("pending") ELSE UNCHANGED spRow
  /\ spOp' = [spOp EXCEPT ![a] = SpIdle]
  /\ UNCHANGED <<spArtifact, spSnapshot, spJobs, spRoot, spFaults>>

SpReject(expected) ==
  /\ spRow.status = "pending" /\ spRow.rev = expected
  /\ SetStatus("rejected")
  /\ UNCHANGED <<spArtifact, spSnapshot, spJobs, spRoot, spOp, spFaults>>

\* The process dies; prepare registers the root again only for a proposal with
\* a job (has_materialized_source).
SpRestart ==
  /\ spFaults < SpMaxFaults
  /\ spFaults' = spFaults + 1
  /\ spOp' = [a \in SpReviewers |-> SpIdle]
  /\ spRoot' = (spRow.job # 0)
  /\ UNCHANGED <<spRow, spArtifact, spSnapshot, spJobs>>

SpNext ==
  \/ SpPropose \/ SpRestart
  \/ \E c \in SpContents : SpArtifactChanges(c)
  \/ \E expected \in 0..SpMaxRev : SpReject(expected)
  \/ \E a \in SpReviewers :
       \/ \E expected \in 0..SpMaxRev : SpClaim(a, expected)
       \/ SpMaterialize(a) \/ SpCreateJob(a) \/ SpAttachJob(a) \/ SpMarkApproved(a)
       \/ SpCallFails(a) \/ SpMarkFailed(a)

SpSpec == SpInit /\ [][SpNext]_spVars

\* An approved source is backed for good: by a job that exists, by a snapshot
\* of exactly the content that was reviewed, in a root this process knows;
\* whatever a second reviewer, a changed artifact or a restart did meanwhile
\* (approve, mark_approved, prepare).
SpApprovedIsBacked ==
  spRow.status = "approved" =>
    /\ spRow.job \in 1..spJobs
    /\ spSnapshot = {spRow.hash}
    /\ spRoot
====
