---- MODULE AgentProofs ----
(* What an agent does to a workspace.  Its proposals wait for a person: an
   approved source stays backed, for any number of reviewers and contents,
   any number of claims and any sequence of failures, and every step of
   the memory of a workspace is a step of Decision or leaves it as it is,
   for any number of proposals, interruptions and restarts.  Its tools act
   at once, on one file and in one container: what they may patch and what
   is left of the container, for any number of calls, turns and edits.

   The turn it does this in runs what needs consent with it, and is closed
   once: its trace is open, or closed by its run, or by its turn as well,
   and whoever ends it adds exactly what is missing.

   Its tools may live on a server: the pool of its sessions stays within
   its limit and loses none, whoever closes, joins, evicts or gives up.

   What it does is shown and kept.  Delivery of its timeline is in order
   and free of gaps, for every page, queue and history: the strengthening
   says where the cursor, the page in hand and the target stand in each
   phase of the subscription, and that everything broadcast or queued is
   already in the journal.  Memory files show decisions only: a call that
   appends the candidates of a proposal has those left to append that no
   file has.  Restarts of the gateway it is reached by are a cooldown
   apart: a check works on what the file says, and unless the clock was
   set back the file's age of the last restart is no more than the real
   one. *)
EXTENDS SourceProposals, MemoryProposals, SandboxTools, TurnEngine, McpSessions,
        TimelineFeed, GatewayWatchdog, FiniteSetTheorems, SequenceTheorems, TLAPS

--------------------
(* Knowledge sources. *)

\* A reviewer who is past the copy has seen the snapshot of the proposed
\* content, and its job exists once it has been created.
SpReviewersHold ==
  \A a \in SpReviewers :
    /\ spOp[a].pc \in {"create", "attach", "mark"} => spSnapshot = {spRow.hash} /\ spRoot
    /\ spOp[a].pc = "attach" => spOp[a].job \in 1..spJobs
    /\ spOp[a].pc = "mark" => spRow.job # 0

\* The row names a job only when there are a job, a snapshot and a root; so
\* it does as soon as it is approved.  Before it exists nothing has happened.
SpRowHolds ==
  /\ spSnapshot \subseteq {spRow.hash}
  /\ spRow.job \in 0..spJobs
  /\ spRow.job # 0 => spSnapshot = {spRow.hash} /\ spRoot
  /\ spRow.status = "approved" => spRow.job # 0
  /\ spRow.status = "none" =>
       spSnapshot = {} /\ spRow.job = 0 /\ \A a \in SpReviewers : spOp[a].pc = "idle"

\* The inductive invariant.
SpInv == SpTypeOK /\ SpReviewersHold /\ SpRowHolds

\* An approved proposal is backed, since its row names a job.
LEMMA SpInvBacks == SpInv => SpApprovedIsBacked
BY DEF SpInv, SpTypeOK, SpRowHolds, SpApprovedIsBacked

\* Nothing has happened to a proposal that does not exist yet.
LEMMA SpInitHolds == SpInit => SpInv
<1> SUFFICES ASSUME SpInit PROVE SpInv OBVIOUS
<1>1. SpTypeOK
 <2>1. spRow \in [status: {"none", "pending", "applying", "approved", "rejected"},
                 rev: 0..SpMaxRev + 1, hash: SpContents, job: 0..SpMaxRev]
   BY SpAssumption DEF SpAssumption, SpInit, ProposalRow
 <2>2. spOp \in [SpReviewers -> [pc: {"idle", "verify", "create", "attach", "mark", "fail"},
                                job: 0..SpMaxRev]]
  <3>1. SpIdle \in [pc: {"idle", "verify", "create", "attach", "mark", "fail"}, job: 0..SpMaxRev]
    BY SpAssumption DEF SpAssumption, SpIdle
  <3> QED BY <3>1 DEF SpInit
 <2>3. spJobs \in 0..SpMaxRev /\ spFaults \in 0..SpMaxFaults
   BY SpAssumption DEF SpAssumption, SpInit
 <2>4. spArtifact \in SpContents /\ spSnapshot \subseteq SpContents /\ spRoot \in BOOLEAN
   BY DEF SpInit
 <2> QED BY <2>1, <2>2, <2>3, <2>4 DEF SpTypeOK
<1>2. SpReviewersHold BY DEF SpInit, SpReviewersHold, SpIdle
<1>3. SpRowHolds BY DEF SpInit, ProposalRow, SpRowHolds, SpIdle
<1> QED BY <1>1, <1>2, <1>3 DEF SpInv

\* Proposal and review: the content is fixed while no reviewer is at work, and
\* a claim leaves everything but the status.
LEMMA SpDecisionsKeepInv ==
  ASSUME SpInv,
         \/ SpPropose
         \/ \E expected \in 0..SpMaxRev : SpReject(expected)
         \/ \E a \in SpReviewers, expected \in 0..SpMaxRev : SpClaim(a, expected)
  PROVE  SpInv'
<1> USE SpAssumption DEF SpAssumption, SpInv, ProposalRow, Go, SetStatus
<1>1. CASE SpPropose
 <2>1. SpTypeOK' BY <1>1 DEF SpTypeOK, SpPropose
 <2>2. SpReviewersHold' BY <1>1 DEF SpTypeOK, SpPropose, SpReviewersHold, SpRowHolds
 <2>3. SpRowHolds' BY <1>1 DEF SpTypeOK, SpPropose, SpReviewersHold, SpRowHolds
 <2> QED BY <2>1, <2>2, <2>3
<1>2. ASSUME NEW expected \in 0..SpMaxRev, SpReject(expected)
      PROVE  SpInv'
 <2>1. SpTypeOK' BY <1>2 DEF SpTypeOK, SpReject
 <2>2. SpReviewersHold' BY <1>2 DEF SpTypeOK, SpReject, SpReviewersHold, SpRowHolds
 <2>3. SpRowHolds' BY <1>2 DEF SpTypeOK, SpReject, SpReviewersHold, SpRowHolds
 <2> QED BY <2>1, <2>2, <2>3
<1>3. ASSUME NEW a \in SpReviewers, NEW expected \in 0..SpMaxRev, SpClaim(a, expected)
      PROVE  SpInv'
 <2>1. SpTypeOK' BY <1>3 DEF SpTypeOK, SpClaim
 <2>2. SpReviewersHold' BY <1>3 DEF SpTypeOK, SpClaim, SpReviewersHold, SpRowHolds
 <2>3. SpRowHolds' BY <1>3 DEF SpTypeOK, SpClaim, SpReviewersHold, SpRowHolds
 <2> QED BY <2>1, <2>2, <2>3
<1> QED BY <1>1, <1>2, <1>3

\* The copy fixes snapshot and root, from which the job and its entry in the
\* row follow one step at a time.
LEMMA SpApprovalKeepsInv ==
  ASSUME SpInv, NEW a \in SpReviewers,
         SpMaterialize(a) \/ SpCreateJob(a) \/ SpAttachJob(a) \/ SpMarkApproved(a)
  PROVE  SpInv'
<1> USE SpAssumption DEF SpAssumption, SpInv, ProposalRow, Go, SetStatus, SpIdle
<1>1. CASE SpMaterialize(a)
 <2>1. SpTypeOK'
  <3>1. CASE Verified(a) BY <1>1, <3>1 DEF SpTypeOK, SpMaterialize
  <3>2. CASE ~Verified(a) BY <1>1, <3>2 DEF SpTypeOK, SpMaterialize
  <3> QED BY <3>1, <3>2
 <2>2. SpReviewersHold' BY <1>1 DEF SpTypeOK, SpMaterialize, Verified, SpReviewersHold, SpRowHolds
 <2>3. SpRowHolds' BY <1>1 DEF SpTypeOK, SpMaterialize, Verified, SpReviewersHold, SpRowHolds
 <2> QED BY <2>1, <2>2, <2>3
<1>2. CASE SpCreateJob(a)
 <2>1. SpTypeOK' BY <1>2 DEF SpTypeOK, SpCreateJob
 <2>2. SpReviewersHold' BY <1>2 DEF SpTypeOK, SpCreateJob, SpReviewersHold, SpRowHolds
 <2>3. SpRowHolds' BY <1>2 DEF SpTypeOK, SpCreateJob, SpReviewersHold, SpRowHolds
 <2> QED BY <2>1, <2>2, <2>3
<1>3. CASE SpAttachJob(a)
 <2>1. SpTypeOK' BY <1>3 DEF SpTypeOK, SpAttachJob
 <2>2. SpReviewersHold' BY <1>3 DEF SpTypeOK, SpAttachJob, SpReviewersHold, SpRowHolds
 <2>3. SpRowHolds' BY <1>3 DEF SpTypeOK, SpAttachJob, SpReviewersHold, SpRowHolds
 <2> QED BY <2>1, <2>2, <2>3
<1>4. CASE SpMarkApproved(a)
 <2>1. SpTypeOK' BY <1>4 DEF SpTypeOK, SpMarkApproved
 <2>2. SpReviewersHold' BY <1>4 DEF SpTypeOK, SpMarkApproved, SpReviewersHold, SpRowHolds
 <2>3. SpRowHolds' BY <1>4 DEF SpTypeOK, SpMarkApproved, SpReviewersHold, SpRowHolds
 <2> QED BY <2>1, <2>2, <2>3
<1> QED BY <1>1, <1>2, <1>3, <1>4

\* A failure takes back a claim only, and a restart finds the root again by
\* the job in the row.
LEMMA SpFailuresKeepInv ==
  ASSUME SpInv,
         \/ SpRestart
         \/ \E c \in SpContents : SpArtifactChanges(c)
         \/ \E a \in SpReviewers : SpCallFails(a) \/ SpMarkFailed(a)
  PROVE  SpInv'
<1> USE SpAssumption DEF SpAssumption, SpInv, ProposalRow, Go, SetStatus, SpIdle
<1>1. CASE SpRestart
 <2>1. SpTypeOK' BY <1>1 DEF SpTypeOK, SpRestart
 <2>2. SpReviewersHold' BY <1>1 DEF SpTypeOK, SpRestart, SpReviewersHold, SpRowHolds
 <2>3. SpRowHolds' BY <1>1 DEF SpTypeOK, SpRestart, SpReviewersHold, SpRowHolds
 <2> QED BY <2>1, <2>2, <2>3
<1>2. ASSUME NEW c \in SpContents, SpArtifactChanges(c)
      PROVE  SpInv'
 <2>1. SpTypeOK' BY <1>2 DEF SpTypeOK, SpArtifactChanges
 <2>2. SpReviewersHold' BY <1>2 DEF SpTypeOK, SpArtifactChanges, SpReviewersHold, SpRowHolds
 <2>3. SpRowHolds' BY <1>2 DEF SpTypeOK, SpArtifactChanges, SpReviewersHold, SpRowHolds
 <2> QED BY <2>1, <2>2, <2>3
<1>3. ASSUME NEW a \in SpReviewers, SpCallFails(a)
      PROVE  SpInv'
 <2>1. SpTypeOK' BY <1>3 DEF SpTypeOK, SpCallFails
 <2>2. SpReviewersHold' BY <1>3 DEF SpTypeOK, SpCallFails, SpReviewersHold, SpRowHolds
 <2>3. SpRowHolds' BY <1>3 DEF SpTypeOK, SpCallFails, SpReviewersHold, SpRowHolds
 <2> QED BY <2>1, <2>2, <2>3
<1>4. ASSUME NEW a \in SpReviewers, SpMarkFailed(a)
      PROVE  SpInv'
 <2>1. SpTypeOK' BY <1>4 DEF SpTypeOK, SpMarkFailed
 <2>2. SpReviewersHold' BY <1>4 DEF SpTypeOK, SpMarkFailed, SpReviewersHold, SpRowHolds
 <2>3. SpRowHolds' BY <1>4 DEF SpTypeOK, SpMarkFailed, SpReviewersHold, SpRowHolds
 <2> QED BY <2>1, <2>2, <2>3
<1> QED BY <1>1, <1>2, <1>3, <1>4

\* Whatever reviewers, failures and restarts do in whatever order, an approved
\* source has its job, the snapshot of the reviewed content and a registered
\* root (KnowledgeSourceProposalService.approve).
THEOREM SourcesBacked == SpSpec => [](SpTypeOK /\ SpApprovedIsBacked)
<1>1. SpInv /\ [SpNext]_spVars => SpInv'
 <2> SUFFICES ASSUME SpInv, [SpNext]_spVars PROVE SpInv' OBVIOUS
 <2>1. CASE UNCHANGED spVars BY <2>1 DEF spVars, SpInv, SpTypeOK, SpReviewersHold, SpRowHolds
 <2>2. CASE SpNext BY <2>2, SpDecisionsKeepInv, SpApprovalKeepsInv, SpFailuresKeepInv DEF SpNext
 <2> QED BY <2>1, <2>2
<1>2. SpInv => SpTypeOK /\ SpApprovedIsBacked BY SpInvBacks DEF SpInv
<1> QED BY SpInitHolds, <1>1, <1>2, PTL DEF SpSpec

--------------------
(* Memory. *)

MpStatuses == {"none", "pending", "approved", "rejected"}
MpRowType  == [status: MpStatuses, proj: {"pending", "complete"}, rev: Nat,
               base: {Cardinality(X) : X \in SUBSET MpContents}, cands: SUBSET MpContents]
MpRowsType == [MpProposals -> MpRowType]
MpOpType   == [pc: {"idle", "append", "index", "mark"}, ref: MpProposals \cup {MpUser},
               todo: SUBSET MpContents, replay: BOOLEAN]

MpTypes ==
  /\ mpRows \in MpRowsType /\ mpFacts \subseteq MpContents
  /\ mpFile \in Seq(MpLine) /\ mpOp \in MpOpType

\* A proposal that is not decided has not been carried out, and only an
\* approved one is projected.
MpDecided ==
  /\ \A p \in MpProposals : mpRows[p].status \in {"none", "pending"} => mpRows[p].proj = "pending"
  /\ mpOp.pc # "idle" /\ mpOp.ref # MpUser => mpRows[mpOp.ref].status = "approved"
  /\ mpOp.pc = "mark" => mpOp.ref # MpUser

\* The inductive invariant.
MpInv == MpTypes /\ MpDecided

\* The proposals whose effect is complete, as Decision sees them.
CarriedOut == {p \in MpProposals : mpRows[p].status = "approved" /\ mpRows[p].proj = "complete"}

\* The text of the topic files is made of contents.
LEMMA FileContentsTyped == MpTypes => FileContents \subseteq MpContents
<1> SUFFICES ASSUME mpFile \in Seq(MpLine), NEW n \in DOMAIN mpFile
             PROVE  mpFile[n].content \in MpContents BY DEF MpTypes, FileContents, Lines
<1>1. mpFile[n] \in MpLine OBVIOUS
<1> QED BY <1>1 DEF MpLine

\* What Decision sees of a proposal follows its status.
LEMMA VerdictFollowsStatus ==
  ASSUME mpRows \in MpRowsType
  PROVE  /\ MpVerdict = [p \in MpProposals |-> MpVerdict[p]]
         /\ \A p \in MpProposals :
              /\ mpRows[p].status = "none"     => MpVerdict[p] = "none"
              /\ mpRows[p].status = "pending"  => MpVerdict[p] = "open"
              /\ mpRows[p].status = "approved" => MpVerdict[p] = "accepted"
              /\ mpRows[p].status = "rejected" => MpVerdict[p] = "refused"
BY DEF MpVerdict, MpRowsType, MpRowType, MpStatuses

\* A step that leaves the rows alone is none of Decision's.
LEMMA RowsUnchanged ==
  UNCHANGED mpRows => UNCHANGED MpDecision!decisionVars
BY DEF MpDecision!decisionVars, MpVerdict

\* A row that is replaced by one whose effect is not complete moves one
\* verdict and nothing else.
LEMMA RowMoves ==
  ASSUME mpRows \in MpRowsType, NEW p \in MpProposals, p \notin CarriedOut,
         NEW row \in MpRowType, mpRows' = [mpRows EXCEPT ![p] = row],
         row.status = "approved" => row.proj = "pending",
         NEW from, NEW to,
         MpVerdict[p] = from,
         row.status = "pending"  => to = "open",
         row.status = "approved" => to = "accepted",
         row.status = "rejected" => to = "refused",
         row.status # "none"
  PROVE  MpDecision!Move(p, from, to)
<1>1. mpRows' \in MpRowsType BY DEF MpRowsType
<1>2. \A q \in MpProposals : mpRows'[q] = IF q = p THEN row ELSE mpRows[q] BY DEF MpRowsType
<1>3. MpVerdict' = [MpVerdict EXCEPT ![p] = to] BY <1>1, <1>2 DEF MpVerdict, MpRowType, MpStatuses
<1>4. CarriedOut' = CarriedOut BY <1>2 DEF CarriedOut
<1> QED BY <1>3, <1>4 DEF MpDecision!Move, CarriedOut

\* At first nothing is proposed.
LEMMA MpInitHolds == MpInit => MpInv /\ MpDecision!Init
<1> SUFFICES ASSUME MpInit PROVE MpInv /\ MpDecision!Init OBVIOUS
<1>1. mpRows \in MpRowsType
 <2>1. Cardinality({}) = 0 BY FS_EmptySet
 <2>2. 0 \in {Cardinality(X) : X \in SUBSET MpContents} BY <2>1
 <2> QED BY <2>2 DEF MpInit, MpRowsType, MpRowType, MpStatuses
<1>2. MpTypes BY <1>1 DEF MpInit, MpTypes, MpOpType, MpIdle, MpLine
<1>3. MpDecided BY DEF MpInit, MpDecided, MpIdle
<1>4. MpVerdict = [p \in MpProposals |-> "none"] BY DEF MpInit, MpVerdict
<1>5. CarriedOut = {} BY DEF MpInit, CarriedOut
<1> QED BY <1>2, <1>3, <1>4, <1>5 DEF MpInv, MpDecision!Init, CarriedOut

\* Proposing: the new row is a row, and its verdict opens.
LEMMA MpProposeHolds ==
  ASSUME MpInv, NEW p \in MpProposals, NEW cands \in SUBSET MpContents, MpPropose(p, cands)
  PROVE  MpInv' /\ MpDecision!Propose(p)
<1> DEFINE row == [status |-> "pending", proj |-> "pending", rev |-> 0,
                   base |-> Cardinality(mpFacts), cands |-> cands]
<1>1. row \in MpRowType BY DEF MpInv, MpTypes, MpRowType, MpStatuses
<1>2. mpRows' = [mpRows EXCEPT ![p] = row] /\ mpRows[p].status = "none" /\ mpOp.pc = "idle"
  BY DEF MpPropose
<1>3. MpDecision!Move(p, "none", "open")
 <2>1. mpRows \in MpRowsType /\ p \notin CarriedOut /\ MpVerdict[p] = "none"
   BY <1>2, VerdictFollowsStatus DEF MpInv, MpTypes, CarriedOut
 <2> QED BY <1>1, <1>2, <2>1, RowMoves
<1>4. MpTypes' BY <1>1, <1>2 DEF MpInv, MpTypes, MpPropose, MpRowsType
<1>5. MpDecided' BY <1>2 DEF MpInv, MpTypes, MpDecided, MpPropose, MpRowsType
<1> QED BY <1>3, <1>4, <1>5 DEF MpInv, MpDecision!Propose

\* Deciding: whichever revision the reviewer saw, an open verdict is closed.
LEMMA MpTransitionHolds ==
  ASSUME MpInv, NEW p \in MpProposals, NEW expected \in 0..1, NEW status, NEW proj,
         \/ status = "approved" /\ proj = "pending"
         \/ status = "rejected" /\ proj = "complete",
         Transition(p, expected, status, proj)
  PROVE  /\ mpRows' \in MpRowsType
         /\ mpRows'[p].status = status
         /\ \A q \in MpProposals : mpRows'[q].status \in {"none", "pending"} => mpRows'[q].proj = "pending"
         /\ status = "approved" => MpDecision!Accept(p)
         /\ status = "rejected" => MpDecision!Refuse(p)
<1> DEFINE row == [status |-> status, proj |-> proj, rev |-> expected + 1,
                   base |-> mpRows[p].base, cands |-> mpRows[p].cands]
<1>1. mpRows \in MpRowsType /\ mpRows[p] \in MpRowType BY DEF MpInv, MpTypes, MpRowsType
<1>2. row \in MpRowType BY <1>1 DEF MpRowType, MpStatuses
<1>3. mpRows' = [mpRows EXCEPT ![p] = row] /\ mpRows[p].status = "pending" BY DEF Transition
<1>4. p \notin CarriedOut /\ MpVerdict[p] = "open"
  BY <1>1, <1>3, VerdictFollowsStatus DEF CarriedOut
<1>5. status = "approved" => MpDecision!Move(p, "open", "accepted")
  BY <1>1, <1>2, <1>3, <1>4, RowMoves
<1>6. status = "rejected" => MpDecision!Move(p, "open", "refused")
  BY <1>1, <1>2, <1>3, <1>4, RowMoves
<1>7. mpRows' \in MpRowsType /\ mpRows'[p].status = status BY <1>1, <1>2, <1>3 DEF MpRowsType
<1>8. \A q \in MpProposals : mpRows'[q].status \in {"none", "pending"} => mpRows'[q].proj = "pending"
  BY <1>1, <1>3 DEF MpInv, MpDecided, MpRowsType
<1> QED BY <1>5, <1>6, <1>7, <1>8 DEF MpDecision!Accept, MpDecision!Refuse

\* An approval is projected at once.
LEMMA MpApproveHolds ==
  ASSUME MpInv, NEW p \in MpProposals, NEW expected \in 0..1, MpApprove(p, expected)
  PROVE  MpInv' /\ MpDecision!Accept(p)
<1>1. /\ mpRows' \in MpRowsType /\ mpRows'[p].status = "approved" /\ MpDecision!Accept(p)
      /\ \A q \in MpProposals : mpRows'[q].status \in {"none", "pending"} => mpRows'[q].proj = "pending"
  BY MpTransitionHolds DEF MpApprove
<1>2. mpRows[p] \in MpRowType BY DEF MpInv, MpTypes, MpRowsType
<1>3. mpRows[p].cands \subseteq MpContents BY <1>2 DEF MpRowType
<1>4. ToWrite(p) \subseteq MpContents BY <1>3 DEF ToWrite
<1>5. mpOp' = Projection(p, FALSE) /\ UNCHANGED mpFile /\ mpFacts' \subseteq MpContents
  BY <1>3 DEF MpApprove, MpInv, MpTypes
<1>6. MpTypes' BY <1>1, <1>4, <1>5 DEF MpInv, MpTypes, MpOpType, Projection
<1>7. MpDecided' BY <1>1, <1>5 DEF MpDecided, Projection
<1> QED BY <1>1, <1>6, <1>7 DEF MpInv

\* A rejection refuses a proposal that was pending.
LEMMA MpRejectHolds ==
  ASSUME MpInv, NEW p \in MpProposals, NEW expected \in 0..1, MpReject(p, expected)
  PROVE  MpInv' /\ MpDecision!Refuse(p)
<1>1. /\ mpRows' \in MpRowsType /\ MpDecision!Refuse(p)
      /\ \A q \in MpProposals : mpRows'[q].status \in {"none", "pending"} => mpRows'[q].proj = "pending"
  BY MpTransitionHolds DEF MpReject
<1>2. mpOp.pc = "idle" /\ UNCHANGED <<mpFacts, mpFile, mpOp>> BY DEF MpReject, Transition
<1> QED BY <1>1, <1>2 DEF MpInv, MpTypes, MpDecided

\* The projection of a proposal that is approved is a call about it.
LEMMA ProjectionHolds ==
  ASSUME mpRows \in MpRowsType, NEW p \in MpProposals, NEW replay \in BOOLEAN
  PROVE  Projection(p, replay) \in MpOpType
<1>1. mpRows[p] \in MpRowType BY DEF MpRowsType
<1> QED BY <1>1 DEF MpRowType, Projection, ToWrite, MpOpType

\* Writing, remembering, replaying and interruptions touch no row.
LEMMA MpWritingHolds ==
  ASSUME MpInv,
         \/ \E c \in MpContents : MpRemember(c)
         \/ MpAppend \/ MpRebuildIndex \/ MpOpenSession \/ MpInterrupted
  PROVE  MpInv' /\ UNCHANGED mpRows
<1> USE DEF MpInv, MpTypes, MpOpType, MpDecided, MpIdle
<1>1. ASSUME NEW c \in MpContents, MpRemember(c)
      PROVE  MpInv' /\ UNCHANGED mpRows BY <1>1 DEF MpRemember
<1>2. CASE MpAppend
 <2>1. CASE mpOp.todo = {} BY <1>2, <2>1 DEF MpAppend
 <2>2. CASE mpOp.todo # {}
  <3>1. PICK c \in mpOp.todo :
          /\ mpFile' = Append(mpFile, [content |-> c, ref |-> mpOp.ref])
          /\ mpOp' = [mpOp EXCEPT !.todo = mpOp.todo \ {c}]
          /\ UNCHANGED <<mpRows, mpFacts, mpIndex, mpFaults>> BY <1>2, <2>2 DEF MpAppend
  <3>2. [content |-> c, ref |-> mpOp.ref] \in MpLine BY DEF MpLine
  <3>3. mpFile' \in Seq(MpLine) BY <3>1, <3>2
  <3> QED BY <3>1, <3>3
 <2> QED BY <2>1, <2>2
<1>3. CASE MpRebuildIndex BY <1>3 DEF MpRebuildIndex
<1>4. CASE MpOpenSession
 <2>1. PICK p \in PendingProjections : mpOp' = Projection(p, TRUE) BY <1>4 DEF MpOpenSession
 <2>2. p \in MpProposals /\ mpRows[p].status = "approved" BY DEF PendingProjections
 <2>3. mpOp' \in MpOpType BY <2>1, <2>2, ProjectionHolds
 <2> QED BY <1>4, <2>1, <2>2, <2>3 DEF MpOpenSession, Projection
<1>5. CASE MpInterrupted BY <1>5 DEF MpInterrupted
<1> QED BY <1>1, <1>2, <1>3, <1>4, <1>5

\* Marking a projection carries its proposal out; marking it again does nothing.
LEMMA MpMarkHolds ==
  ASSUME MpInv, MpMark, NEW p \in MpProposals, p = mpOp.ref
  PROVE  MpInv' /\ (UNCHANGED MpDecision!decisionVars \/ MpDecision!CarryOut(p))
<1>1. mpRows[p].status = "approved" /\ mpRows[p] \in MpRowType
  BY DEF MpInv, MpTypes, MpDecided, MpOpType, MpRowsType, MpMark
<1>2. /\ mpRows' = [mpRows EXCEPT ![p].proj = "complete"]
      /\ UNCHANGED <<mpFacts, mpFile>> BY DEF MpMark
<1>3. mpRows' \in MpRowsType BY <1>1, <1>2 DEF MpInv, MpTypes, MpRowsType, MpRowType
<1>4. /\ \A q \in MpProposals : mpRows'[q].status = mpRows[q].status
      /\ mpRows'[p].proj = "complete"
      /\ \A q \in MpProposals : q # p => mpRows'[q].proj = mpRows[q].proj
  BY <1>1, <1>2 DEF MpInv, MpTypes, MpRowsType, MpRowType
<1>5. UNCHANGED MpVerdict BY <1>4 DEF MpVerdict
<1>6. CarriedOut' = CarriedOut \cup {p} BY <1>1, <1>4 DEF CarriedOut
<1>7. UNCHANGED MpDecision!decisionVars \/ MpDecision!CarryOut(p)
 <2>1. MpVerdict[p] = "accepted" BY <1>1, VerdictFollowsStatus DEF MpInv, MpTypes
 <2>2. CASE p \in CarriedOut BY <1>5, <1>6, <2>2 DEF MpDecision!decisionVars, CarriedOut
 <2>3. CASE p \notin CarriedOut BY <1>5, <1>6, <2>1, <2>3 DEF MpDecision!CarryOut, CarriedOut
 <2> QED BY <2>2, <2>3
<1>8. /\ mpOp' \in MpOpType
      /\ \/ mpOp'.pc = "idle"
         \/ /\ mpOp'.pc = "append" /\ mpRows[mpOp'.ref].status = "approved"
            /\ mpOp'.ref \in MpProposals
 <2>1. \/ mpOp' = MpIdle
       \/ \E q \in PendingProjections : mpOp' = Projection(q, TRUE)
  <3>1. CASE mpOp.replay /\ PendingProjections \ {mpOp.ref} # {}
   <4>1. PICK q \in PendingProjections \ {mpOp.ref} : mpOp' = Projection(q, TRUE)
     BY <3>1, ZenonT(30) DEF MpMark
   <4> QED BY <4>1
  <3>2. CASE ~(mpOp.replay /\ PendingProjections \ {mpOp.ref} # {}) BY <3>2, ZenonT(30) DEF MpMark
  <3> QED BY <3>1, <3>2
 <2>2. MpIdle \in MpOpType /\ MpIdle.pc = "idle" BY DEF MpIdle, MpOpType
 <2>3. CASE mpOp' = MpIdle BY <2>2, <2>3
 <2>4. ASSUME NEW q \in PendingProjections, mpOp' = Projection(q, TRUE)
       PROVE  /\ mpOp' \in MpOpType
              /\ \/ mpOp'.pc = "idle"
                 \/ /\ mpOp'.pc = "append" /\ mpRows[mpOp'.ref].status = "approved"
                    /\ mpOp'.ref \in MpProposals
  <3>1. q \in MpProposals /\ mpRows[q].status = "approved" BY DEF PendingProjections
  <3>2. Projection(q, TRUE) \in MpOpType BY <3>1, ProjectionHolds DEF MpInv, MpTypes
  <3>3. Projection(q, TRUE).pc = "append" /\ Projection(q, TRUE).ref = q BY DEF Projection
  <3> QED BY <2>4, <3>1, <3>2, <3>3
 <2> QED BY <2>1, <2>3, <2>4
<1>9. MpTypes' BY <1>2, <1>3, <1>8 DEF MpInv, MpTypes
<1>10. MpDecided' BY <1>4, <1>8, <1>1 DEF MpInv, MpDecided
<1> QED BY <1>7, <1>9, <1>10 DEF MpInv

\* A proposal of a workspace's memory is decided at most once, and nothing but
\* an approved one is carried out, whatever write fails and whenever the process
\* dies (MemoryManager.approve, reject and _replay_projections): the safety part
\* of MpImplementsDecision.
THEOREM MemoryImplementsDecision ==
  MpSpec => MpDecision!Init /\ [][MpDecision!Next]_MpDecision!decisionVars
<1>1. MpInv /\ [MpNext]_mpVars => MpInv' /\ [MpDecision!Next]_MpDecision!decisionVars
 <2> SUFFICES ASSUME MpInv, [MpNext]_mpVars
              PROVE  MpInv' /\ [MpDecision!Next]_MpDecision!decisionVars OBVIOUS
 <2>1. ASSUME NEW p \in MpProposals, NEW cands \in SUBSET MpContents, MpPropose(p, cands)
       PROVE  MpInv' /\ [MpDecision!Next]_MpDecision!decisionVars
   BY <2>1, MpProposeHolds DEF MpDecision!Next
 <2>2. ASSUME NEW p \in MpProposals, NEW expected \in 0..1,
              MpApprove(p, expected) \/ MpReject(p, expected)
       PROVE  MpInv' /\ [MpDecision!Next]_MpDecision!decisionVars
   BY <2>2, MpApproveHolds, MpRejectHolds DEF MpDecision!Next
 <2>3. CASE MpMark
  <3>1. PICK p \in MpProposals : p = mpOp.ref
    BY <2>3 DEF MpInv, MpTypes, MpDecided, MpOpType, MpMark
  <3> QED BY <2>3, <3>1, MpMarkHolds DEF MpDecision!Next
 <2>4. CASE (\E c \in MpContents : MpRemember(c)) \/ MpAppend \/ MpRebuildIndex
            \/ MpOpenSession \/ MpInterrupted BY <2>4, MpWritingHolds, RowsUnchanged
 <2>5. CASE UNCHANGED mpVars BY <2>5, RowsUnchanged DEF mpVars, MpInv, MpTypes, MpDecided
 <2>6. FileContents \subseteq MpContents BY FileContentsTyped DEF MpInv
 <2> QED BY <2>1, <2>2, <2>3, <2>4, <2>5, <2>6 DEF MpNext, MpStep
<1> QED BY MpInitHolds, <1>1, PTL DEF MpSpec

--------------------
(* The sandbox and the file tools. *)

(* Where a call may be in the container, and what a row of each table holds. *)
SbAt == {"done", "check", "invoke", "ensure", "clear", "create", "start", "exec", "validate",
         "load", "store", "mark"}
SbInBox == {"ensure", "clear", "create", "start", "exec"}
SbTextRow == [x: SbWriters, y: SbWriters]
SbCallRow == [pc: SbAt, op: SbOps \cup {"none"}, turn: Nat, text: SbTextRow, stamp: Nat,
              orphan: BOOLEAN]
SbFileRow == [text: SbTextRow, stamp: Nat]
SbBoxRow == [closed: BOOLEAN, started: BOOLEAN, lock: BOOLEAN]
SbDockerRow == [id: Nat, state: {"none", "created", "running", "exited"}]
SbPastRow == [used: SUBSET SbCalls, refused: BOOLEAN, blind: BOOLEAN, raced: BOOLEAN,
              ran: BOOLEAN, left: BOOLEAN]

SbTyped ==
  /\ sbKind \in SbKinds
  /\ sbFile \in SbFileRow
  /\ sbMarks \in [read: Nat, authored: Nat]
  /\ sbSeen \in SbTextRow
  /\ sbCalls \in [SbCalls -> SbCallRow]
  /\ sbTurn \in [n: Nat, state: {"open", "closing", "over"}]
  /\ sbTurn.n <= SbMaxTurns
  /\ sbBoxes \in [1..SbMaxTurns -> SbBoxRow]
  /\ sbDocker \in SbDockerRow
  /\ sbPast \in SbPastRow
  /\ sbCount \in [edits: 0..SbMaxEdits, faults: 0..SbMaxFaults]

\* A call that is not in a thread left behind belongs to the open turn; one in
\* the container found its sandbox started; what it marks it has seen.
SbFits(q, c) ==
  /\ q.pc # "done" => /\ q.turn \in 1..SbMaxTurns /\ q.op \in SbOps /\ c \in sbPast.used
                      /\ ~q.orphan => sbTurn.state = "open" /\ q.turn = sbTurn.n
  /\ q.pc \in SbInBox => sbKind = "container"
  /\ q.pc = "exec" => ~q.orphan /\ sbBoxes[q.turn].started
  /\ q.pc = "store" => q.op # "read_file"
  /\ q.pc = "mark" => /\ sbKind = "local" /\ q.stamp <= sbFile.stamp
                      /\ q.stamp = sbFile.stamp => q.text = sbFile.text

SbAllFit == \A c \in SbCalls : SbFits(sbCalls[c], c)

\* A running container is the open turn's to stop, and so is one it has used.
SbBoxHolds ==
  /\ sbTurn.state # "over" => sbTurn.n \in 1..SbMaxTurns
  /\ sbDocker.state = "running" /\ ~sbPast.left =>
       sbTurn.state # "over" /\ sbKind = "container" /\ sbBoxes[sbTurn.n].started
  /\ sbTurn.state # "over" /\ sbPast.ran => sbKind = "container" /\ sbBoxes[sbTurn.n].started

\* A mark that is the file's stands for the text the agent knows.
SbMarksHold ==
  /\ sbMarks.read <= sbFile.stamp /\ sbMarks.authored <= sbFile.stamp
  /\ sbKind = "container" => sbMarks.read = 0 /\ sbMarks.authored = 0
  /\ SbFresh /\ ~sbPast.raced => sbSeen = sbFile.text
  /\ SbPatchesKnownText

SbInv == SbTyped /\ SbAllFit /\ SbBoxHolds /\ SbMarksHold

\* Who wrote a part of a text, and who has yet to write for the only time.
SbIn(w, t) == w = t.x \/ w = t.y
SbYet(w) == \/ w \in SbCalls /\ (w \notin sbPast.used \/ sbCalls[w].pc \notin {"done", "mark"})
            \/ w = "user" /\ sbCount.edits = 0

\* No text comes back: the stamp the agent knows a text under is the file's as
\* long as the text is.
SbTextsNew ==
  \A w \in SbWriters : SbYet(w) =>
    ~SbIn(w, sbSeen) /\ ~SbIn(w, sbFile.text) /\ \A c \in SbCalls : ~SbIn(w, sbCalls[c].text)

SbFileWritten ==
  /\ sbFile.stamp # 0 => sbFile.text.y # "none"
  /\ \A c \in SbCalls : sbCalls[c].op = "patch_file" /\ sbCalls[c].pc \notin {"done", "check"} =>
       sbFile.stamp # 0 /\ (sbCalls[c].pc = "store" => sbCalls[c].text.y # "none")

SbKnownIsFresh ==
  sbKind = "local" /\ ~sbPast.raced /\ sbCount.edits <= 1 /\ sbFile.stamp # 0 =>
    /\ sbSeen = sbFile.text => SbFresh
    /\ \A c \in SbCalls : sbCalls[c].pc = "check" /\ sbCalls[c].text = sbFile.text => SbFresh

SbEditInv == SbTextsNew /\ SbFileWritten /\ SbKnownIsFresh /\ SbLocalEdits

\* What a step may do to what a call relies on.
SbWorldKept ==
  /\ sbKind' = sbKind
  /\ sbTurn' = sbTurn \/ sbTurn.state # "open"
  /\ sbPast.used \subseteq sbPast'.used
  /\ sbTurn.state = "open" =>
       \A t \in 1..SbMaxTurns : sbBoxes[t].started => sbBoxes'[t].started
  /\ sbFile' = sbFile \/ sbFile'.stamp = sbFile.stamp + 1

\* A call that does not move goes on fitting.
LEMMA SbFitsKept ==
  ASSUME SbTyped, SbWorldKept, NEW q \in SbCallRow, NEW c \in SbCalls, SbFits(q, c)
  PROVE  SbFits(q, c)'
<1>1. q.stamp \in Nat /\ sbFile.stamp \in Nat BY DEF SbTyped, SbCallRow, SbFileRow
<1>2. q.pc # "done" => /\ q.turn \in 1..SbMaxTurns /\ q.op \in SbOps /\ c \in sbPast'.used
                       /\ ~q.orphan => sbTurn'.state = "open" /\ q.turn = sbTurn'.n
  BY DEF SbFits, SbWorldKept
<1>3. q.pc = "exec" => ~q.orphan /\ sbBoxes'[q.turn].started BY DEF SbFits, SbWorldKept
<1>4. q.pc = "mark" => /\ sbKind' = "local" /\ q.stamp <= sbFile'.stamp
                       /\ q.stamp = sbFile'.stamp => q.text = sbFile'.text
 <2>1. CASE sbFile' = sbFile BY <2>1 DEF SbFits, SbWorldKept
 <2>2. CASE sbFile'.stamp = sbFile.stamp + 1
  <3>1. q.pc = "mark" => sbKind' = "local" /\ q.stamp <= sbFile.stamp BY DEF SbFits, SbWorldKept
  <3> QED BY <1>1, <2>2, <3>1
 <2> QED BY <2>1, <2>2 DEF SbWorldKept
<1> QED BY <1>2, <1>3, <1>4 DEF SbFits, SbWorldKept

\* Nothing but one call moves.
LEMMA SbOneMoves ==
  ASSUME SbTyped, SbAllFit, SbWorldKept, NEW c \in SbCalls, NEW q \in SbCallRow,
         sbCalls' = [sbCalls EXCEPT ![c] = q], SbFits(q, c)'
  PROVE  SbAllFit' /\ sbCalls' \in [SbCalls -> SbCallRow]
<1>1. /\ sbCalls' \in [SbCalls -> SbCallRow] /\ sbCalls'[c] = q
      /\ \A x \in SbCalls \ {c} : sbCalls'[x] = sbCalls[x] BY DEF SbTyped
<1>2. \A x \in SbCalls : sbCalls[x] \in SbCallRow /\ SbFits(sbCalls[x], x) BY DEF SbTyped, SbAllFit
<1>3. ASSUME NEW x \in SbCalls \ {c} PROVE SbFits(sbCalls[x], x)'
 <2>1. PICK p \in SbCallRow : p = sbCalls[x] BY <1>2
 <2>2. SbFits(p, x)' BY <1>2, <2>1, SbFitsKept
 <2>3. sbCalls'[x] = p BY <1>1, <2>1
 <2> QED BY <2>2, <2>3 DEF SbFits
<1>4. SbFits(sbCalls[c], c)' BY <1>1 DEF SbFits
<1>5. \A x \in SbCalls : SbFits(sbCalls[x], x)' BY <1>3, <1>4
<1> QED BY <1>1, <1>5 DEF SbAllFit

\* Nothing but the world moves.
LEMMA SbNoneMoves ==
  ASSUME SbTyped, SbAllFit, SbWorldKept, sbCalls' = sbCalls
  PROVE  SbAllFit' /\ sbCalls' \in [SbCalls -> SbCallRow]
<1>1. ASSUME NEW x \in SbCalls PROVE SbFits(sbCalls[x], x)'
 <2>1. PICK p \in SbCallRow : p = sbCalls[x] BY DEF SbTyped
 <2>2. SbFits(p, x)' BY <2>1, SbFitsKept DEF SbAllFit
 <2> QED BY <2>1, <2>2 DEF SbFits
<1>2. \A x \in SbCalls : SbFits(sbCalls[x], x)' BY <1>1
<1> QED BY <1>2 DEF SbAllFit, SbTyped

\* Containers and marks stay as they are.
LEMMA SbBoxSame ==
  ASSUME SbBoxHolds, UNCHANGED <<sbKind, sbTurn, sbBoxes, sbDocker>>,
         sbPast'.left = sbPast.left, sbPast'.ran = sbPast.ran
  PROVE  SbBoxHolds'
BY DEF SbBoxHolds

\* Without an edit, a mark or news to the agent the marks stand for the same.
LEMMA SbMarksSame ==
  ASSUME SbMarksHold, UNCHANGED <<sbKind, sbFile, sbMarks, sbSeen>>,
         sbPast'.raced = sbPast.raced, sbPast'.blind = sbPast.blind
  PROVE  SbMarksHold'
BY DEF SbMarksHold, SbFresh, SbPatchesKnownText

\* A message makes calls of the open turn.
LEMMA SbMessageKeeps ==
  ASSUME SbInv, NEW calls \in SUBSET SbCalls, SbMessage(calls)
  PROVE  SbInv'
<1>0. SbTyped /\ SbAllFit /\ SbBoxHolds /\ SbMarksHold BY DEF SbInv
<1>1. PICK op \in [calls -> SbOps] :
        sbCalls' = [c \in SbCalls |-> IF c \in calls
                      THEN [SbDone EXCEPT !.pc = "check", !.op = op[c], !.turn = sbTurn.n, !.text = sbSeen]
                      ELSE sbCalls[c]] BY DEF SbMessage
<1>2. /\ sbTurn.state = "open" /\ sbTurn.n \in 1..SbMaxTurns
      /\ UNCHANGED <<sbKind, sbFile, sbMarks, sbSeen, sbTurn, sbBoxes, sbDocker, sbReconcile, sbCount>>
  BY <1>0 DEF SbMessage, SbBoxHolds
<1>3. PICK p : p = sbPast OBVIOUS
<1>4. p \in SbPastRow /\ sbPast' = [p EXCEPT !.used = p.used \cup calls]
  BY <1>0, <1>3 DEF SbTyped, SbMessage
<1>5. /\ sbPast' \in SbPastRow /\ sbPast'.used = sbPast.used \cup calls
      /\ sbPast'.left = sbPast.left /\ sbPast'.ran = sbPast.ran
      /\ sbPast'.raced = sbPast.raced /\ sbPast'.blind = sbPast.blind BY <1>3, <1>4 DEF SbPastRow
<1>6. SbWorldKept BY <1>2, <1>5 DEF SbWorldKept
<1>7. ASSUME NEW c \in SbCalls PROVE sbCalls'[c] \in SbCallRow /\ SbFits(sbCalls[c], c)'
 <2>1. CASE c \in calls
  <3>1. PICK q : q = [SbDone EXCEPT !.pc = "check", !.op = op[c], !.turn = sbTurn.n, !.text = sbSeen]
    OBVIOUS
  <3>2. sbCalls'[c] = q BY <1>1, <2>1, <3>1
  <3>3. /\ q \in SbCallRow /\ q.pc = "check" /\ q.turn = sbTurn.n /\ q.op \in SbOps
    BY <1>0, <1>2, <2>1, <3>1 DEF SbDone, SbCallRow, SbAt, SbTyped, SbOps
  <3>4. SbFits(q, c)' BY <1>2, <1>5, <2>1, <3>3 DEF SbFits, SbInBox
  <3> QED BY <3>2, <3>3, <3>4 DEF SbFits
 <2>2. CASE c \notin calls
  <3>1. PICK q \in SbCallRow : q = sbCalls[c] BY <1>0 DEF SbTyped
  <3>2. SbFits(q, c)' BY <1>0, <1>6, <3>1, SbFitsKept DEF SbAllFit
  <3>3. sbCalls'[c] = q BY <1>1, <2>2, <3>1
  <3> QED BY <3>2, <3>3 DEF SbFits
 <2> QED BY <2>1, <2>2
<1>8. SbTyped' /\ SbAllFit'
 <2>1. sbCalls' \in [SbCalls -> SbCallRow] BY <1>1, <1>7
 <2>2. \A c \in SbCalls : SbFits(sbCalls[c], c)' BY <1>7
 <2> QED BY <1>0, <1>2, <1>5, <2>1, <2>2 DEF SbTyped, SbAllFit
<1> QED BY <1>0, <1>2, <1>5, <1>8, SbBoxSame, SbMarksSame DEF SbInv

\* The policy lets through what is known.
LEMMA SbCheckKeeps ==
  ASSUME SbInv, NEW c \in SbCalls, SbCheck(c)
  PROVE  SbInv'
<1>0. SbTyped /\ SbAllFit /\ SbBoxHolds /\ SbMarksHold BY DEF SbInv
<1>1. PICK q \in SbCallRow : q = sbCalls[c] BY <1>0 DEF SbTyped
<1>2. /\ q.pc = "check" /\ SbFits(q, c)
      /\ UNCHANGED <<sbKind, sbFile, sbMarks, sbSeen, sbTurn, sbBoxes, sbDocker, sbReconcile, sbCount>>
  BY <1>0, <1>1 DEF SbCheck, SbAllFit
<1>3. PICK p : p = sbPast OBVIOUS
<1>4. PICK b \in BOOLEAN : b <=> (p.refused \/ (SbValid(q) /\ ~SbPolicy(q.op) /\ q.text = sbFile.text))
  OBVIOUS
<1>5. PICK d \in BOOLEAN : d <=> (p.blind \/ (SbValid(q) /\ SbPolicy(q.op) /\ q.op = "patch_file"
                                               /\ sbSeen # sbFile.text /\ ~p.raced)) OBVIOUS
<1>6. p \in SbPastRow /\ ~p.blind BY <1>0, <1>3 DEF SbTyped, SbMarksHold, SbPatchesKnownText
<1>7. ~d
 <2>1. q.op = "patch_file" /\ SbPolicy(q.op) => SbFresh BY DEF SbPolicy
 <2>2. SbFresh /\ ~p.raced => sbSeen = sbFile.text BY <1>0, <1>3 DEF SbMarksHold
 <2> QED BY <1>5, <1>6, <2>1, <2>2
<1>8. sbPast' = [p EXCEPT !.refused = b, !.blind = d]
 <2>1. b = (p.refused \/ (SbValid(q) /\ ~SbPolicy(q.op) /\ q.text = sbFile.text))
   BY <1>4, <1>6 DEF SbPastRow
 <2>2. d = (p.blind \/ (SbValid(q) /\ SbPolicy(q.op) /\ q.op = "patch_file"
                        /\ sbSeen # sbFile.text /\ ~p.raced)) BY <1>5, <1>6 DEF SbPastRow
 <2> QED BY <1>1, <1>3, <2>1, <2>2 DEF SbCheck
<1>9. /\ sbPast' \in SbPastRow /\ sbPast'.used = sbPast.used
      /\ sbPast'.left = sbPast.left /\ sbPast'.ran = sbPast.ran
      /\ sbPast'.raced = sbPast.raced /\ sbPast'.blind = sbPast.blind
  BY <1>3, <1>6, <1>7, <1>8 DEF SbPastRow
<1>10. PICK r : r = IF SbValid(q) /\ SbPolicy(q.op) THEN [q EXCEPT !.pc = "invoke"] ELSE SbDone
  OBVIOUS
<1>11. sbCalls' = [sbCalls EXCEPT ![c] = r] BY <1>1, <1>10 DEF SbCheck
<1>12. SbWorldKept BY <1>2, <1>9 DEF SbWorldKept
<1>13. r \in SbCallRow /\ SbFits(r, c)'
 <2>1. CASE r = [q EXCEPT !.pc = "invoke"]
  <3>1. r \in SbCallRow /\ r.pc = "invoke" /\ r.turn = q.turn /\ r.op = q.op /\ r.orphan = q.orphan
    BY <2>1 DEF SbCallRow, SbAt
  <3> QED BY <1>2, <1>9, <3>1 DEF SbFits, SbInBox
 <2>2. CASE r = SbDone
   BY <2>2 DEF SbDone, SbCallRow, SbAt, SbTextRow, SbText, SbNoText, SbWriters, SbFits, SbInBox
 <2> QED BY <1>10, <2>1, <2>2
<1>14. SbAllFit' /\ sbCalls' \in [SbCalls -> SbCallRow] BY <1>0, <1>11, <1>12, <1>13, SbOneMoves
<1>15. SbTyped' BY <1>0, <1>2, <1>9, <1>14 DEF SbTyped
<1> QED BY <1>0, <1>2, <1>9, <1>14, <1>15, SbBoxSame, SbMarksSame DEF SbInv

\* A call that is over has nothing to fit.
LEMMA SbOver ==
  /\ SbDone \in SbCallRow /\ SbDone.pc = "done"
  /\ \A q \in SbCallRow, c \in SbCalls : q.pc = "done" => SbFits(q, c)'
BY DEF SbDone, SbCallRow, SbAt, SbTextRow, SbText, SbNoText, SbWriters, SbFits, SbInBox

\* One call takes a step in its sandbox.
LEMMA SbCallSteps ==
  ASSUME SbInv, NEW c \in SbCalls, NEW q \in SbCallRow,
         sbCalls' = [sbCalls EXCEPT ![c] = q], SbFits(q, c)',
         UNCHANGED <<sbKind, sbFile, sbMarks, sbTurn>>,
         sbSeen' = sbSeen \/ (sbKind = "container" /\ sbSeen' \in SbTextRow),
         sbPast' \in SbPastRow, sbPast'.used = sbPast.used,
         sbPast'.raced = sbPast.raced, sbPast'.blind = sbPast.blind,
         sbBoxes' \in [1..SbMaxTurns -> SbBoxRow],
         \A t \in 1..SbMaxTurns : sbBoxes[t].started => sbBoxes'[t].started,
         sbDocker' \in SbDockerRow,
         sbCount' \in [edits: 0..SbMaxEdits, faults: 0..SbMaxFaults],
         SbBoxHolds'
  PROVE  SbInv'
<1>1. SbTyped /\ SbAllFit /\ SbMarksHold BY DEF SbInv
<1>2. SbWorldKept BY DEF SbWorldKept
<1>3. SbAllFit' /\ sbCalls' \in [SbCalls -> SbCallRow] BY <1>1, <1>2, SbOneMoves
<1>4. sbSeen' \in SbTextRow BY <1>1 DEF SbTyped
<1>5. SbTyped' BY <1>1, <1>3, <1>4 DEF SbTyped
<1>6. SbMarksHold'
 <2>1. CASE sbSeen' = sbSeen BY <1>1, <2>1, SbMarksSame
 <2>2. CASE sbKind = "container"
  <3>1. sbMarks.read = 0 /\ sbMarks.authored = 0 BY <1>1, <2>2 DEF SbMarksHold
  <3>2. ~SbFresh' BY <3>1 DEF SbFresh
  <3>3. /\ sbMarks'.read <= sbFile'.stamp /\ sbMarks'.authored <= sbFile'.stamp
        /\ sbMarks'.read = 0 /\ sbMarks'.authored = 0 /\ ~sbPast'.blind
    BY <1>1, <3>1 DEF SbMarksHold, SbPatchesKnownText
  <3> QED BY <3>2, <3>3 DEF SbMarksHold, SbPatchesKnownText
 <2> QED BY <2>1, <2>2
<1> QED BY <1>3, <1>5, <1>6 DEF SbInv

\* Steps outside the container change the call alone.
LEMMA SbAloneKeeps ==
  ASSUME SbInv, NEW c \in SbCalls, SbInvoke(c) \/ SbValidate(c)
  PROVE  SbInv'
<1>0. SbTyped /\ SbAllFit /\ SbBoxHolds BY DEF SbInv
<1>1. PICK q \in SbCallRow : q = sbCalls[c] BY <1>0 DEF SbTyped
<1>2. /\ q.pc # "done" /\ SbFits(q, c) /\ q.pc \notin SbInBox
      /\ UNCHANGED <<sbKind, sbFile, sbMarks, sbSeen, sbTurn, sbBoxes, sbDocker, sbPast, sbCount>>
  BY <1>0, <1>1 DEF SbInvoke, SbValidate, SbUnchangedButFile, SbAllFit, SbInBox
<1>3. /\ sbKind \in {"local", "container"}
      /\ \/ sbCalls' = [sbCalls EXCEPT ![c] = SbDone]
         \/ \E at \in {"done", "ensure", "validate", "load"} :
              /\ sbCalls' = [sbCalls EXCEPT ![c] = [q EXCEPT !.pc = at]]
              /\ at = "ensure" => sbKind = "container"
  BY <1>0, <1>1, SbAssumption DEF SbInvoke, SbValidate, SbGo, SbEnd, SbTyped
<1>4. SbBoxHolds' BY <1>0, <1>2, SbBoxSame
<1>5. PICK r \in SbCallRow : sbCalls' = [sbCalls EXCEPT ![c] = r] /\ SbFits(r, c)'
 <2>1. CASE sbCalls' = [sbCalls EXCEPT ![c] = SbDone] BY <2>1, SbOver
 <2>2. ASSUME NEW at \in {"done", "ensure", "validate", "load"},
              sbCalls' = [sbCalls EXCEPT ![c] = [q EXCEPT !.pc = at]],
              at = "ensure" => sbKind = "container"
       PROVE  \E r \in SbCallRow : sbCalls' = [sbCalls EXCEPT ![c] = r] /\ SbFits(r, c)'
  <3>1. PICK r : r = [q EXCEPT !.pc = at] OBVIOUS
  <3>2. r \in SbCallRow /\ r.pc = at /\ r.turn = q.turn /\ r.op = q.op /\ r.orphan = q.orphan
    BY <3>1 DEF SbCallRow, SbAt
  <3>3. SbFits(r, c)' BY <1>2, <2>2, <3>2 DEF SbFits, SbInBox
  <3> QED BY <2>2, <3>1, <3>2, <3>3
 <2> QED BY <1>3, <2>1, <2>2
<1> QED BY <1>0, <1>2, <1>4, <1>5, SbCallSteps DEF SbTyped

\* Steps of a call in its container: where it may go next, and what is fit there.
LEMMA SbGoesOn ==
  ASSUME SbTyped, SbAllFit, NEW c \in SbCalls, NEW q \in SbCallRow, q = sbCalls[c], q.pc # "done",
         NEW at \in SbAt, NEW r \in SbCallRow,
         r = SbDone \/ (r = [q EXCEPT !.pc = at]),
         UNCHANGED <<sbKind, sbTurn, sbFile>>, sbPast'.used = sbPast.used,
         at \in SbInBox => sbKind = "container",
         at = "exec" => r = SbDone \/ (~q.orphan /\ sbBoxes'[q.turn].started),
         at \notin {"store", "mark"}
  PROVE  SbFits(r, c)'
<1>1. CASE r = SbDone BY <1>1, SbOver
<1>2. CASE r # SbDone
 <2>1. r.pc = at /\ r.turn = q.turn /\ r.op = q.op /\ r.orphan = q.orphan BY <1>2 DEF SbCallRow
 <2>2. SbFits(q, c) BY DEF SbAllFit
 <2> QED BY <1>2, <2>1, <2>2 DEF SbFits
<1> QED BY <1>1, <1>2

\* The lock is all that changes.
LEMMA SbLocks ==
  ASSUME NEW b \in SbBoxRow, NEW v \in BOOLEAN
  PROVE  \E box \in SbBoxRow : box = [b EXCEPT !.lock = v] /\ box.started = b.started
<1>1. PICK box : box = [b EXCEPT !.lock = v] OBVIOUS
<1>2. box \in SbBoxRow /\ box.started = b.started BY <1>1 DEF SbBoxRow
<1> QED BY <1>1, <1>2

\* A sandbox object is locked, unlocked or finds its container started.
LEMMA SbBoxMoves ==
  ASSUME SbTyped, NEW t \in 1..SbMaxTurns, NEW box \in SbBoxRow,
         sbBoxes[t].started => box.started,
         sbBoxes' = sbBoxes \/ sbBoxes' = [sbBoxes EXCEPT ![t] = box]
  PROVE  /\ sbBoxes' \in [1..SbMaxTurns -> SbBoxRow]
         /\ \A u \in 1..SbMaxTurns : sbBoxes[u].started => sbBoxes'[u].started
<1>1. CASE sbBoxes' = sbBoxes BY <1>1 DEF SbTyped
<1>2. CASE sbBoxes' = [sbBoxes EXCEPT ![t] = box]
 <2>1. sbBoxes' \in [1..SbMaxTurns -> SbBoxRow] /\ sbBoxes'[t] = box
       /\ \A u \in 1..SbMaxTurns \ {t} : sbBoxes'[u] = sbBoxes[u] BY <1>2 DEF SbTyped
 <2> QED BY <2>1
<1> QED BY <1>1, <1>2

\* No container begins to run, and sandboxes stay started.
LEMMA SbBoxGrows ==
  ASSUME SbBoxHolds, UNCHANGED <<sbKind, sbTurn>>,
         \A u \in 1..SbMaxTurns : sbBoxes[u].started => sbBoxes'[u].started,
         sbDocker'.state = "running" => sbDocker.state = "running",
         sbPast'.left = sbPast.left, sbPast'.ran = sbPast.ran
  PROVE  SbBoxHolds'
BY DEF SbBoxHolds

\* _ensure_started finds its container or goes on to make one.
LEMMA SbEnsureKeeps ==
  ASSUME SbInv, NEW c \in SbCalls, SbEnsure(c)
  PROVE  SbInv'
<1>0. SbTyped /\ SbAllFit /\ SbBoxHolds BY DEF SbInv
<1>1. PICK q \in SbCallRow : q = sbCalls[c] BY <1>0 DEF SbTyped
<1>2. /\ q.pc = "ensure" /\ q.turn \in 1..SbMaxTurns /\ sbKind = "container"
      /\ UNCHANGED <<sbKind, sbFile, sbMarks, sbSeen, sbTurn, sbDocker, sbPast, sbCount>>
  BY <1>0, <1>1 DEF SbEnsure, SbUnchangedButStart, SbAllFit, SbFits, SbInBox
<1>3. PICK b \in SbBoxRow : b = sbBoxes[q.turn] BY <1>0, <1>2 DEF SbTyped
<1>4. PICK r : r = IF q.orphan THEN SbDone ELSE [q EXCEPT !.pc = "exec"] OBVIOUS
<1>5. \/ b.started /\ sbCalls' = [sbCalls EXCEPT ![c] = r] /\ sbBoxes' = sbBoxes
      \/ /\ sbCalls' = [sbCalls EXCEPT ![c] = r]
         /\ sbBoxes' = [sbBoxes EXCEPT ![q.turn] = SbFound(b)]
      \/ /\ sbCalls' = [sbCalls EXCEPT ![c] = [q EXCEPT !.pc = "clear"]]
         /\ sbBoxes' = [sbBoxes EXCEPT ![q.turn] = [b EXCEPT !.lock = TRUE]]
  BY <1>1, <1>3, <1>4 DEF SbEnsure, SbThen, SbGo, SbBox, SbSetBox
<1>6. r \in SbCallRow /\ (r = SbDone \/ (~q.orphan /\ r = [q EXCEPT !.pc = "exec"]))
  BY <1>4, SbOver DEF SbCallRow, SbAt
<1>7. CASE b.started /\ sbCalls' = [sbCalls EXCEPT ![c] = r] /\ sbBoxes' = sbBoxes
 <2>1. SbFits(r, c)' BY <1>0, <1>1, <1>2, <1>3, <1>6, <1>7, SbGoesOn DEF SbAt
 <2>2. SbBoxHolds' BY <1>0, <1>2, <1>7, SbBoxSame
 <2> QED BY <1>0, <1>2, <1>6, <1>7, <2>1, <2>2, SbCallSteps DEF SbTyped
<1>8. CASE /\ sbCalls' = [sbCalls EXCEPT ![c] = r]
           /\ sbBoxes' = [sbBoxes EXCEPT ![q.turn] = SbFound(b)]
 <2>1. SbFound(b) \in SbBoxRow /\ SbFound(b).started BY DEF SbFound, SbBoxRow
 <2>2. PICK box \in SbBoxRow : box = SbFound(b) /\ box.started BY <2>1
 <2>3. /\ sbBoxes' \in [1..SbMaxTurns -> SbBoxRow]
       /\ \A u \in 1..SbMaxTurns : sbBoxes[u].started => sbBoxes'[u].started
   BY <1>0, <1>2, <1>8, <2>2, SbBoxMoves
 <2>4. sbBoxes'[q.turn].started BY <1>0, <1>2, <1>8, <2>2 DEF SbTyped
 <2>5. SbFits(r, c)' BY <1>0, <1>1, <1>2, <1>6, <2>4, SbGoesOn DEF SbAt
 <2>6. SbBoxHolds' BY <1>0, <1>2, <2>3, SbBoxGrows
 <2> QED BY <1>0, <1>2, <1>6, <1>8, <2>3, <2>5, <2>6, SbCallSteps DEF SbTyped
<1>9. CASE /\ sbCalls' = [sbCalls EXCEPT ![c] = [q EXCEPT !.pc = "clear"]]
           /\ sbBoxes' = [sbBoxes EXCEPT ![q.turn] = [b EXCEPT !.lock = TRUE]]
 <2>1. PICK box \in SbBoxRow : box = [b EXCEPT !.lock = TRUE] /\ box.started = b.started BY SbLocks
 <2>2. PICK s \in SbCallRow : s = [q EXCEPT !.pc = "clear"] BY DEF SbCallRow, SbAt
 <2>3. /\ sbBoxes' \in [1..SbMaxTurns -> SbBoxRow]
       /\ \A u \in 1..SbMaxTurns : sbBoxes[u].started => sbBoxes'[u].started
   BY <1>0, <1>2, <1>3, <1>9, <2>1, SbBoxMoves
 <2>4. SbFits(s, c)' BY <1>0, <1>1, <1>2, <2>2, SbGoesOn DEF SbAt
 <2>5. SbBoxHolds' BY <1>0, <1>2, <2>3, SbBoxGrows
 <2> QED BY <1>0, <1>2, <1>9, <2>2, <2>3, <2>4, <2>5, SbCallSteps DEF SbTyped
<1> QED BY <1>5, <1>7, <1>8, <1>9

\* Whatever has the name goes, and a container is created.
LEMMA SbClearKeeps ==
  ASSUME SbInv, NEW c \in SbCalls, SbClear(c) \/ SbCreate(c)
  PROVE  SbInv'
<1>0. SbTyped /\ SbAllFit /\ SbBoxHolds BY DEF SbInv
<1>1. PICK q \in SbCallRow : q = sbCalls[c] BY <1>0 DEF SbTyped
<1>2. /\ q.pc \in {"clear", "create"} /\ q.turn \in 1..SbMaxTurns /\ sbKind = "container"
      /\ UNCHANGED <<sbKind, sbFile, sbMarks, sbSeen, sbTurn, sbPast, sbCount>>
  BY <1>0, <1>1 DEF SbClear, SbCreate, SbUnchangedButStart, SbAllFit, SbFits, SbInBox
<1>3. PICK b \in SbBoxRow : b = sbBoxes[q.turn] BY <1>0, <1>2 DEF SbTyped
<1>4. PICK d \in SbDockerRow : d = sbDocker BY <1>0 DEF SbTyped
<1>5. PICK box \in SbBoxRow : box = [b EXCEPT !.lock = FALSE] /\ box.started = b.started BY SbLocks
<1>6. sbBoxes' = sbBoxes \/ sbBoxes' = [sbBoxes EXCEPT ![q.turn] = box]
  BY <1>1, <1>3, <1>5 DEF SbClear, SbCreate, SbBox, SbSetBox
<1>7. /\ sbBoxes' \in [1..SbMaxTurns -> SbBoxRow]
      /\ \A u \in 1..SbMaxTurns : sbBoxes[u].started => sbBoxes'[u].started
  BY <1>0, <1>2, <1>3, <1>5, <1>6, SbBoxMoves
<1>8. /\ sbDocker' \in SbDockerRow
      /\ sbDocker'.state = "running" => sbDocker.state = "running"
 <2>1. sbDocker' \in {d, [d EXCEPT !.state = "none"], [id |-> d.id + 1, state |-> "created"]}
   BY <1>4 DEF SbClear, SbCreate
 <2> QED BY <1>4, <2>1 DEF SbDockerRow
<1>9. SbBoxHolds' BY <1>0, <1>2, <1>7, <1>8, SbBoxGrows
<1>10. PICK r \in SbCallRow : sbCalls' = [sbCalls EXCEPT ![c] = r] /\ SbFits(r, c)'
 <2>1. CASE sbCalls' = [sbCalls EXCEPT ![c] = SbDone] BY <2>1, SbOver
 <2>2. ASSUME NEW at \in {"create", "start"}, sbCalls' = [sbCalls EXCEPT ![c] = [q EXCEPT !.pc = at]]
       PROVE  \E r \in SbCallRow : sbCalls' = [sbCalls EXCEPT ![c] = r] /\ SbFits(r, c)'
  <3>1. PICK r \in SbCallRow : r = [q EXCEPT !.pc = at] BY DEF SbCallRow, SbAt
  <3>2. SbFits(r, c)' BY <1>0, <1>1, <1>2, <2>2, <3>1, SbGoesOn DEF SbAt
  <3> QED BY <2>2, <3>1, <3>2
 <2>3. \/ sbCalls' = [sbCalls EXCEPT ![c] = SbDone]
       \/ sbCalls' = [sbCalls EXCEPT ![c] = [q EXCEPT !.pc = "create"]]
       \/ sbCalls' = [sbCalls EXCEPT ![c] = [q EXCEPT !.pc = "start"]]
   BY <1>1 DEF SbClear, SbCreate, SbGo, SbEnd
 <2> QED BY <2>1, <2>2, <2>3
<1> QED BY <1>0, <1>2, <1>7, <1>8, <1>9, <1>10, SbCallSteps DEF SbTyped

\* A container starts for the open turn, or for nobody.
LEMMA SbStartKeeps ==
  ASSUME SbInv, NEW c \in SbCalls, SbStart(c)
  PROVE  SbInv'
<1>0. SbTyped /\ SbAllFit /\ SbBoxHolds BY DEF SbInv
<1>1. PICK q \in SbCallRow : q = sbCalls[c] BY <1>0 DEF SbTyped
<1>2. /\ q.pc = "start" /\ q.turn \in 1..SbMaxTurns /\ sbKind = "container"
      /\ ~q.orphan => sbTurn.state = "open" /\ q.turn = sbTurn.n
      /\ UNCHANGED <<sbKind, sbFile, sbMarks, sbSeen, sbTurn, sbCount>>
  BY <1>0, <1>1 DEF SbStart, SbUnchangedButStart, SbAllFit, SbFits, SbInBox
<1>3. PICK b \in SbBoxRow : b = sbBoxes[q.turn] BY <1>0, <1>2 DEF SbTyped
<1>4. PICK d \in SbDockerRow : d = sbDocker BY <1>0 DEF SbTyped
<1>5. PICK p \in SbPastRow : p = sbPast BY <1>0 DEF SbTyped
<1>6. CASE /\ sbCalls' = [sbCalls EXCEPT ![c] = SbDone]
           /\ sbBoxes' = [sbBoxes EXCEPT ![q.turn] = [b EXCEPT !.lock = FALSE]]
           /\ UNCHANGED <<sbDocker, sbPast>>
 <2>1. PICK box \in SbBoxRow : box = [b EXCEPT !.lock = FALSE] /\ box.started = b.started BY SbLocks
 <2>2. /\ sbBoxes' \in [1..SbMaxTurns -> SbBoxRow]
       /\ \A u \in 1..SbMaxTurns : sbBoxes[u].started => sbBoxes'[u].started
   BY <1>0, <1>2, <1>3, <1>6, <2>1, SbBoxMoves
 <2>3. SbBoxHolds' BY <1>0, <1>2, <1>6, <2>2, SbBoxGrows
 <2> QED BY <1>0, <1>2, <1>6, <2>2, <2>3, SbOver, SbCallSteps DEF SbTyped
<1>7. PICK r : r = IF q.orphan THEN SbDone ELSE [q EXCEPT !.pc = "exec"] OBVIOUS
<1>8. PICK left \in BOOLEAN : left = (p.left \/ q.orphan) OBVIOUS
<1>9. PICK box : box = [b EXCEPT !.lock = FALSE, !.started = TRUE] OBVIOUS
<1>10. CASE /\ sbDocker' = [d EXCEPT !.state = "running"]
            /\ sbCalls' = [sbCalls EXCEPT ![c] = r]
            /\ sbBoxes' = [sbBoxes EXCEPT ![q.turn] = box]
            /\ sbPast' = [p EXCEPT !.left = left]
 <2>1. box \in SbBoxRow /\ box.started BY <1>9 DEF SbBoxRow
 <2>2. /\ sbBoxes' \in [1..SbMaxTurns -> SbBoxRow]
       /\ \A u \in 1..SbMaxTurns : sbBoxes[u].started => sbBoxes'[u].started
   BY <1>0, <1>2, <1>10, <2>1, SbBoxMoves
 <2>3. sbBoxes'[q.turn].started BY <1>0, <1>2, <1>10, <2>1 DEF SbTyped
 <2>4. /\ sbPast' \in SbPastRow /\ sbPast'.used = sbPast.used /\ sbPast'.ran = sbPast.ran
       /\ sbPast'.raced = sbPast.raced /\ sbPast'.blind = sbPast.blind
       /\ sbPast'.left = left BY <1>5, <1>10 DEF SbPastRow
 <2>5. sbDocker' \in SbDockerRow BY <1>10 DEF SbDockerRow
 <2>6. r \in SbCallRow /\ (r = SbDone \/ (~q.orphan /\ r = [q EXCEPT !.pc = "exec"]))
   BY <1>7, SbOver DEF SbCallRow, SbAt
 <2>7. SbFits(r, c)' BY <1>0, <1>1, <1>2, <2>3, <2>4, <2>6, SbGoesOn DEF SbAt
 <2>8. SbBoxHolds'
  <3>1. ~left => sbTurn.state = "open" /\ q.turn = sbTurn.n BY <1>2, <1>8 DEF SbCallRow
  <3> QED BY <1>0, <1>2, <2>2, <2>3, <2>4, <3>1 DEF SbBoxHolds
 <2> QED BY <1>0, <1>2, <1>10, <2>2, <2>4, <2>5, <2>6, <2>7, <2>8, SbCallSteps DEF SbTyped
<1> QED BY <1>1, <1>3, <1>4, <1>5, <1>6, <1>7, <1>8, <1>9, <1>10
     DEF SbStart, SbThen, SbEnd, SbBox, SbSetBox

\* docker exec runs in a started sandbox.
LEMMA SbExecKeeps ==
  ASSUME SbInv, NEW c \in SbCalls, SbExec(c)
  PROVE  SbInv'
<1>0. SbTyped /\ SbAllFit /\ SbBoxHolds BY DEF SbInv
<1>1. PICK q \in SbCallRow : q = sbCalls[c] BY <1>0 DEF SbTyped
<1>2. /\ q.pc = "exec" /\ q.turn \in 1..SbMaxTurns /\ sbKind = "container"
      /\ sbTurn.state = "open" /\ q.turn = sbTurn.n /\ sbBoxes[q.turn].started
      /\ UNCHANGED <<sbKind, sbFile, sbMarks, sbSeen, sbTurn, sbBoxes, sbDocker, sbCount>>
  BY <1>0, <1>1 DEF SbExec, SbUnchangedButStart, SbAllFit, SbFits, SbInBox
<1>3. PICK p \in SbPastRow : p = sbPast BY <1>0 DEF SbTyped
<1>4. PICK ran \in BOOLEAN : ran = (p.ran \/ sbDocker.state = "running") OBVIOUS
<1>5. sbPast' = [p EXCEPT !.ran = ran] BY <1>3, <1>4 DEF SbExec
<1>6. /\ sbPast' \in SbPastRow /\ sbPast'.used = sbPast.used /\ sbPast'.left = sbPast.left
      /\ sbPast'.raced = sbPast.raced /\ sbPast'.blind = sbPast.blind BY <1>3, <1>5 DEF SbPastRow
<1>7. SbBoxHolds' BY <1>0, <1>2, <1>6 DEF SbBoxHolds
<1>8. PICK r \in SbCallRow : /\ sbCalls' = [sbCalls EXCEPT ![c] = r]
                             /\ r = SbDone \/ r = [q EXCEPT !.pc = "load"]
 <2>1. SbDone \in SbCallRow /\ [q EXCEPT !.pc = "load"] \in SbCallRow BY SbOver DEF SbCallRow, SbAt
 <2> QED BY <1>1, <2>1 DEF SbExec, SbGo, SbEnd
<1>9. SbFits(r, c)' BY <1>0, <1>1, <1>2, <1>6, <1>8, SbGoesOn DEF SbAt, SbInBox
<1> QED BY <1>0, <1>2, <1>6, <1>7, <1>8, <1>9, SbCallSteps DEF SbTyped

\* Whoever waits for a call in its container may give up.
LEMMA SbTimeoutKeeps ==
  ASSUME SbInv, NEW c \in SbCalls, SbTimeout(c)
  PROVE  SbInv'
<1>0. SbTyped /\ SbAllFit /\ SbBoxHolds BY DEF SbInv
<1>1. PICK q \in SbCallRow : q = sbCalls[c] BY <1>0 DEF SbTyped
<1>2. /\ q.pc \in {"load", "store"} /\ SbFits(q, c)
      /\ UNCHANGED <<sbKind, sbFile, sbMarks, sbSeen, sbTurn, sbBoxes, sbDocker, sbPast>>
      /\ sbCount' = [sbCount EXCEPT !.faults = @ + 1] /\ sbCount.faults < SbMaxFaults
  BY <1>0, <1>1 DEF SbTimeout, SbUnchangedButStart, SbFault, SbAllFit
<1>3. sbCount' \in [edits: 0..SbMaxEdits, faults: 0..SbMaxFaults]
  BY <1>0, <1>2, SbAssumption DEF SbTyped
<1>4. PICK r : r = [q EXCEPT !.orphan = TRUE] OBVIOUS
<1>5. /\ r \in SbCallRow /\ sbCalls' = [sbCalls EXCEPT ![c] = r] /\ r.pc = q.pc
      /\ r.turn = q.turn /\ r.op = q.op /\ r.orphan BY <1>1, <1>4 DEF SbTimeout, SbCallRow
<1>6. SbFits(r, c)' BY <1>2, <1>5 DEF SbFits, SbInBox
<1>7. SbBoxHolds' BY <1>0, <1>2, SbBoxSame
<1> QED BY <1>0, <1>2, <1>3, <1>5, <1>6, <1>7, SbCallSteps DEF SbTyped

\* A tool reads the file.
LEMMA SbLoadKeeps ==
  ASSUME SbInv, NEW c \in SbCalls, SbLoad(c)
  PROVE  SbInv'
<1>0. SbTyped /\ SbAllFit /\ SbBoxHolds BY DEF SbInv
<1>1. PICK q \in SbCallRow : q = sbCalls[c] BY <1>0 DEF SbTyped
<1>2. /\ q.pc = "load" /\ SbFits(q, c)
      /\ UNCHANGED <<sbKind, sbFile, sbMarks, sbTurn, sbBoxes, sbDocker, sbPast, sbCount>>
  BY <1>0, <1>1 DEF SbLoad, SbUnchangedButFile, SbAllFit
<1>3. PICK at : at = IF q.op = "read_file" THEN "mark" ELSE "store" OBVIOUS
<1>4. PICK r : r = [q EXCEPT !.pc = at, !.text = sbFile.text, !.stamp = sbFile.stamp] OBVIOUS
<1>5. \/ sbCalls' = [sbCalls EXCEPT ![c] = SbDone]
      \/ /\ sbCalls' = [sbCalls EXCEPT ![c] = r]
         /\ ~(q.op = "read_file" /\ sbKind = "container") BY <1>1, <1>3, <1>4 DEF SbLoad
<1>6. sbSeen' = sbSeen \/ (sbKind = "container" /\ sbSeen' \in SbTextRow)
  BY <1>0 DEF SbLoad, SbTyped, SbFileRow
<1>7. r \in SbCallRow /\ (~(q.op = "read_file" /\ sbKind = "container") => SbFits(r, c)')
 <2>1. sbFile.text \in SbTextRow /\ sbFile.stamp \in Nat /\ at \in SbAt
   BY <1>0, <1>3 DEF SbTyped, SbFileRow, SbAt
 <2>2. /\ r \in SbCallRow /\ r.pc = at /\ r.turn = q.turn /\ r.op = q.op /\ r.orphan = q.orphan
       /\ r.text = sbFile.text /\ r.stamp = sbFile.stamp BY <1>4, <2>1 DEF SbCallRow
 <2>3. sbKind \in {"local", "container"} BY <1>0, SbAssumption DEF SbTyped
 <2> QED BY <1>2, <1>3, <2>1, <2>2, <2>3 DEF SbFits, SbInBox
<1>8. SbBoxHolds' BY <1>0, <1>2, SbBoxSame
<1>9. PICK s \in SbCallRow : sbCalls' = [sbCalls EXCEPT ![c] = s] /\ SbFits(s, c)'
  BY <1>5, <1>7, SbOver
<1> QED BY <1>0, <1>2, <1>6, <1>8, <1>9, SbCallSteps DEF SbTyped

\* What a tool writes is a text with its own part in it.
LEMMA SbWrites ==
  ASSUME NEW c \in SbCalls, NEW q \in SbCallRow, q = sbCalls[c], q.op \in SbOps,
         q.op # "read_file"
  PROVE  /\ SbWritten(c) \in SbTextRow
         /\ SbIn(c, SbWritten(c))
<1>1. q.text \in SbTextRow /\ c \in SbWriters BY DEF SbCallRow, SbWriters
<1>2. CASE q.op = "patch_file"
 <2>1. SbWritten(c) = [q.text EXCEPT !.x = c] BY <1>2 DEF SbWritten
 <2> QED BY <1>1, <2>1 DEF SbTextRow, SbIn
<1>3. CASE q.op = "write_file"
 <2>1. SbWritten(c) = [x |-> c, y |-> c] BY <1>3 DEF SbWritten, SbText
 <2> QED BY <1>1, <2>1 DEF SbTextRow, SbIn
<1>4. CASE q.op = "run_shell"
 <2>1. SbWritten(c) = [q.text EXCEPT !.y = c] BY <1>4 DEF SbWritten, SbShell
 <2> QED BY <1>1, <2>1 DEF SbTextRow, SbIn
<1> QED BY <1>2, <1>3, <1>4 DEF SbOps

\* A tool writes the file: no mark is the new stamp.
LEMMA SbStoreKeeps ==
  ASSUME SbInv, NEW c \in SbCalls, SbStore(c)
  PROVE  SbInv'
<1>0. SbTyped /\ SbAllFit /\ SbBoxHolds /\ SbMarksHold BY DEF SbInv
<1>1. PICK q \in SbCallRow : q = sbCalls[c] BY <1>0 DEF SbTyped
<1>2. /\ q.pc = "store" /\ SbFits(q, c) /\ q.op \in SbOps /\ q.op # "read_file"
      /\ UNCHANGED <<sbKind, sbMarks, sbTurn, sbBoxes, sbDocker, sbPast, sbCount>>
  BY <1>0, <1>1 DEF SbStore, SbUnchangedButFile, SbAllFit, SbFits
<1>3. SbBoxHolds' BY <1>0, <1>2, SbBoxSame
<1>4. CASE ~SbAlive
 <2>1. sbCalls' = [sbCalls EXCEPT ![c] = SbDone] /\ UNCHANGED <<sbFile, sbSeen>>
   BY <1>4 DEF SbStore, SbEnd
 <2> QED BY <1>0, <1>2, <1>3, <2>1, SbOver, SbCallSteps DEF SbTyped
<1>5. CASE SbAlive
 <2>1. PICK text \in SbTextRow : text = SbWritten(c) BY <1>1, <1>2, SbWrites
 <2>2. PICK stamp \in Nat : stamp = sbFile.stamp + 1 BY <1>0 DEF SbTyped, SbFileRow
 <2>3. PICK r : r = [q EXCEPT !.pc = "mark", !.text = text, !.stamp = stamp] OBVIOUS
 <2>4. /\ sbFile' = [text |-> text, stamp |-> stamp]
       /\ sbSeen' \in {sbSeen, text}
       /\ sbKind = "local" => sbSeen' = sbSeen
       /\ \/ sbCalls' = [sbCalls EXCEPT ![c] = SbDone]
          \/ sbKind = "local" /\ sbCalls' = [sbCalls EXCEPT ![c] = r]
   BY <1>1, <1>5, <2>1, <2>2, <2>3 DEF SbStore
 <2>5. sbFile' \in SbFileRow /\ sbFile'.stamp = sbFile.stamp + 1 BY <2>2, <2>4 DEF SbFileRow
 <2>6. SbWorldKept BY <1>2, <2>5 DEF SbWorldKept
 <2>7. PICK s \in SbCallRow : sbCalls' = [sbCalls EXCEPT ![c] = s] /\ SbFits(s, c)'
  <3>1. /\ r \in SbCallRow /\ r.pc = "mark" /\ r.turn = q.turn /\ r.op = q.op
        /\ r.orphan = q.orphan /\ r.text = text /\ r.stamp = stamp BY <2>3 DEF SbCallRow, SbAt
  <3>2. sbKind = "local" => SbFits(r, c)' BY <1>2, <2>4, <3>1 DEF SbFits, SbInBox
  <3> QED BY <2>4, <3>1, <3>2, SbOver
 <2>8. SbAllFit' /\ sbCalls' \in [SbCalls -> SbCallRow] BY <1>0, <2>6, <2>7, SbOneMoves
 <2>9. SbTyped' BY <1>0, <1>2, <2>4, <2>5, <2>8 DEF SbTyped
 <2>10. SbMarksHold'
  <3>1. /\ sbMarks.read \in Nat /\ sbMarks.authored \in Nat /\ sbFile.stamp \in Nat
        /\ sbMarks.read <= sbFile.stamp /\ sbMarks.authored <= sbFile.stamp
    BY <1>0 DEF SbTyped, SbFileRow, SbMarksHold
  <3>2. /\ sbMarks'.read <= sbFile'.stamp /\ sbMarks'.authored <= sbFile'.stamp
        /\ sbFile'.stamp \notin {sbMarks'.read, sbMarks'.authored} BY <1>2, <2>5, <3>1
  <3> QED BY <1>0, <1>2, <3>2 DEF SbMarksHold, SbFresh, SbPatchesKnownText
 <2> QED BY <1>3, <2>8, <2>9, <2>10 DEF SbInv
<1> QED BY <1>4, <1>5

\* A local tool marks the file, and tells the agent what it saw.
LEMMA SbMarkKeeps ==
  ASSUME SbInv, NEW c \in SbCalls, SbMark(c)
  PROVE  SbInv'
<1>0. SbTyped /\ SbAllFit /\ SbBoxHolds /\ SbMarksHold BY DEF SbInv
<1>1. PICK q \in SbCallRow : q = sbCalls[c] BY <1>0 DEF SbTyped
<1>2. /\ q.pc = "mark" /\ SbFits(q, c) /\ sbKind = "local"
      /\ UNCHANGED <<sbKind, sbFile, sbTurn, sbBoxes, sbDocker, sbCount>>
      /\ sbCalls' = [sbCalls EXCEPT ![c] = SbDone]
  BY <1>0, <1>1 DEF SbMark, SbUnchangedButFile, SbAllFit, SbFits, SbEnd
<1>3. PICK p \in SbPastRow : p = sbPast BY <1>0 DEF SbTyped
<1>4. PICK raced \in BOOLEAN : raced = (p.raced \/ q.orphan \/ sbFile.stamp # q.stamp) OBVIOUS
<1>5. sbPast' = [p EXCEPT !.raced = raced] BY <1>1, <1>3, <1>4 DEF SbMark
<1>6. /\ sbPast' \in SbPastRow /\ sbPast'.used = sbPast.used /\ sbPast'.left = sbPast.left
      /\ sbPast'.ran = sbPast.ran /\ sbPast'.blind = sbPast.blind /\ sbPast'.raced = raced
  BY <1>3, <1>5 DEF SbPastRow
<1>7. SbBoxHolds' BY <1>0, <1>2, <1>6, SbBoxSame
<1>8. SbWorldKept BY <1>2, <1>6 DEF SbWorldKept
<1>9. SbAllFit' /\ sbCalls' \in [SbCalls -> SbCallRow] BY <1>0, <1>2, <1>8, SbOver, SbOneMoves
<1>10. PICK m : m = sbMarks OBVIOUS
<1>11. /\ sbFile.stamp \in Nat /\ m \in [read: Nat, authored: Nat]
       /\ m.read <= sbFile.stamp /\ m.authored <= sbFile.stamp
  BY <1>0, <1>10 DEF SbTyped, SbFileRow, SbMarksHold
<1>12. \/ sbMarks' = [m EXCEPT !.read = sbFile.stamp]
       \/ sbMarks' = [m EXCEPT !.authored = sbFile.stamp] BY <1>10 DEF SbMark
<1>13. /\ sbMarks' \in [read: Nat, authored: Nat]
       /\ sbMarks'.read <= sbFile.stamp /\ sbMarks'.authored <= sbFile.stamp BY <1>11, <1>12
<1>14. sbSeen' = IF q.orphan THEN sbSeen ELSE q.text BY <1>1 DEF SbMark
<1>15. SbTyped'
 <2>1. sbSeen' \in SbTextRow BY <1>0, <1>14 DEF SbTyped, SbCallRow
 <2> QED BY <1>0, <1>2, <1>6, <1>9, <1>13, <2>1 DEF SbTyped
<1>16. SbMarksHold'
 <2>1. ~raced => ~q.orphan /\ sbFile.stamp = q.stamp BY <1>4 DEF SbCallRow
 <2>2. ~raced => sbSeen' = sbFile.text BY <1>2, <1>14, <2>1 DEF SbFits
 <2> QED BY <1>0, <1>2, <1>6, <1>13, <2>2 DEF SbMarksHold, SbPatchesKnownText
<1> QED BY <1>7, <1>9, <1>15, <1>16 DEF SbInv

\* A turn begins with calls of none but earlier turns under way.
LEMMA SbBeginKeeps ==
  ASSUME SbInv, SbBegin
  PROVE  SbInv'
<1>0. SbTyped /\ SbAllFit /\ SbBoxHolds /\ SbMarksHold BY DEF SbInv
<1>1. /\ sbTurn.state = "over" /\ sbTurn.n < SbMaxTurns /\ sbTurn.n \in Nat
      /\ sbTurn' = [n |-> sbTurn.n + 1, state |-> "open"]
      /\ UNCHANGED <<sbKind, sbFile, sbMarks, sbSeen, sbCalls, sbBoxes, sbDocker, sbCount>>
  BY <1>0 DEF SbBegin, SbTyped
<1>2. PICK p \in SbPastRow : p = sbPast BY <1>0 DEF SbTyped
<1>3. sbPast' = [p EXCEPT !.ran = FALSE] BY <1>2 DEF SbBegin
<1>4. /\ sbPast' \in SbPastRow /\ sbPast'.used = sbPast.used /\ sbPast'.left = sbPast.left
      /\ ~sbPast'.ran /\ sbPast'.blind = sbPast.blind /\ sbPast'.raced = sbPast.raced
  BY <1>2, <1>3 DEF SbPastRow
<1>5. SbWorldKept BY <1>1, <1>4 DEF SbWorldKept
<1>6. SbAllFit' BY <1>0, <1>1, <1>5, SbNoneMoves
<1>7. sbTurn' \in [n: Nat, state: {"open", "closing", "over"}] /\ sbTurn'.n \in 1..SbMaxTurns
  BY <1>1, SbAssumption
<1>8. SbTyped' BY <1>0, <1>1, <1>4, <1>7 DEF SbTyped
<1>9. SbBoxHolds' BY <1>0, <1>1, <1>4, <1>7 DEF SbBoxHolds
<1> QED BY <1>0, <1>1, <1>4, <1>6, <1>8, <1>9, SbMarksSame DEF SbInv

\* When a turn ends its calls are over or go on for nobody.
LEMMA SbFinishKeeps ==
  ASSUME SbInv, NEW cancelled \in BOOLEAN, SbFinish(cancelled)
  PROVE  SbInv'
<1>0. SbTyped /\ SbAllFit /\ SbBoxHolds /\ SbMarksHold BY DEF SbInv
<1>1. PICK turn : turn = sbTurn OBVIOUS
<1>2. /\ turn \in [n: Nat, state: {"open", "closing", "over"}] /\ turn.state = "open"
      /\ turn.n \in 1..SbMaxTurns
      /\ sbTurn' = [turn EXCEPT !.state = "closing"]
      /\ UNCHANGED <<sbKind, sbFile, sbMarks, sbSeen, sbDocker, sbPast, sbCount>>
  BY <1>0, <1>1 DEF SbFinish, SbTyped, SbBoxHolds
<1>3. /\ sbTurn' \in [n: Nat, state: {"open", "closing", "over"}]
      /\ sbTurn'.n = sbTurn.n /\ sbTurn'.state = "closing" BY <1>1, <1>2
<1>4. PICK b \in SbBoxRow : b = sbBoxes[turn.n] BY <1>0, <1>2 DEF SbTyped
<1>5. PICK box : box = [b EXCEPT !.closed = TRUE] OBVIOUS
<1>6. sbBoxes' = [sbBoxes EXCEPT ![turn.n] = box]
  BY <1>0, <1>1, <1>2, <1>4, <1>5 DEF SbFinish, SbTyped
<1>7. /\ sbBoxes' \in [1..SbMaxTurns -> SbBoxRow]
      /\ \A u \in 1..SbMaxTurns : sbBoxes[u].started => sbBoxes'[u].started
 <2>1. box \in SbBoxRow /\ box.started = b.started BY <1>5 DEF SbBoxRow
 <2> QED BY <1>0, <1>2, <1>4, <1>6, <2>1, SbBoxMoves
<1>8. ASSUME NEW c \in SbCalls PROVE sbCalls'[c] \in SbCallRow /\ SbFits(sbCalls[c], c)'
 <2>1. PICK q \in SbCallRow : q = sbCalls[c] /\ SbFits(q, c) BY <1>0 DEF SbTyped, SbAllFit
 <2>2. PICK r : r = [q EXCEPT !.orphan = TRUE] OBVIOUS
 <2>3. \/ sbCalls'[c] = SbDone
       \/ q.pc \notin {"done", "exec"} /\ sbCalls'[c] = r BY <2>1, <2>2 DEF SbFinish
 <2>4. CASE sbCalls'[c] = SbDone BY <2>4, SbOver DEF SbFits
 <2>5. CASE q.pc \notin {"done", "exec"} /\ sbCalls'[c] = r
  <3>1. /\ r \in SbCallRow /\ r.pc = q.pc /\ r.op = q.op /\ r.turn = q.turn /\ r.orphan
        /\ r.text = q.text /\ r.stamp = q.stamp BY <2>2 DEF SbCallRow
  <3>2. SbFits(r, c)' BY <1>2, <2>1, <2>5, <3>1 DEF SbFits, SbInBox
  <3> QED BY <2>5, <3>1, <3>2 DEF SbFits
 <2> QED BY <2>3, <2>4, <2>5
<1>9. SbAllFit' /\ sbCalls' \in [SbCalls -> SbCallRow]
 <2>1. \A c \in SbCalls : SbFits(sbCalls[c], c)' BY <1>8
 <2>2. sbCalls' = [c \in SbCalls |-> IF sbCalls[c].pc \in {"done", "check", "invoke", "exec"}
                                     THEN SbDone ELSE [sbCalls[c] EXCEPT !.orphan = TRUE]]
   BY DEF SbFinish
 <2> QED BY <1>8, <2>1, <2>2 DEF SbAllFit
<1>10. SbTyped' BY <1>0, <1>2, <1>3, <1>7, <1>9 DEF SbTyped
<1>11. SbBoxHolds' BY <1>0, <1>2, <1>3, <1>7, <1>1 DEF SbBoxHolds
<1> QED BY <1>0, <1>2, <1>9, <1>10, <1>11, SbMarksSame DEF SbInv

\* aclose stops the container that the turn has used.
LEMMA SbCloseKeeps ==
  ASSUME SbInv, SbClose
  PROVE  SbInv'
<1>0. SbTyped /\ SbAllFit /\ SbBoxHolds /\ SbMarksHold BY DEF SbInv
<1>1. PICK turn : turn = sbTurn OBVIOUS
<1>2. /\ turn \in [n: Nat, state: {"open", "closing", "over"}] /\ turn.state = "closing"
      /\ turn.n \in 1..SbMaxTurns
      /\ sbTurn' = [turn EXCEPT !.state = "over"]
      /\ UNCHANGED <<sbKind, sbFile, sbMarks, sbSeen, sbCalls, sbCount>>
  BY <1>0, <1>1 DEF SbClose, SbTyped, SbBoxHolds
<1>3. /\ sbTurn' \in [n: Nat, state: {"open", "closing", "over"}]
      /\ sbTurn'.n = sbTurn.n /\ sbTurn'.state = "over" BY <1>1, <1>2
<1>4. PICK b \in SbBoxRow : b = sbBoxes[turn.n] BY <1>0, <1>2 DEF SbTyped
<1>5. sbBoxes' \in [1..SbMaxTurns -> SbBoxRow]
 <2>1. PICK box : box = [b EXCEPT !.started = FALSE] OBVIOUS
 <2>2. box \in SbBoxRow BY <2>1 DEF SbBoxRow
 <2>3. sbBoxes' = [sbBoxes EXCEPT ![turn.n] = box]
   BY <1>0, <1>1, <1>2, <1>4, <2>1 DEF SbClose, SbTyped
 <2> QED BY <1>0, <2>2, <2>3 DEF SbTyped
<1>6. PICK d \in SbDockerRow : d = sbDocker BY <1>0 DEF SbTyped
<1>7. PICK stops \in BOOLEAN : stops <=> (sbKind = "container" /\ b.started) OBVIOUS
<1>8. sbDocker' = IF stops THEN [d EXCEPT !.state = "none"] ELSE d
  BY <1>1, <1>4, <1>6, <1>7 DEF SbClose
<1>9. sbDocker' \in SbDockerRow /\ (sbDocker'.state = "running" => sbDocker.state = "running" /\ ~stops)
  BY <1>6, <1>8 DEF SbDockerRow
<1>10. PICK p \in SbPastRow : p = sbPast BY <1>0 DEF SbTyped
<1>11. PICK left \in BOOLEAN : left = (p.left /\ ~p.ran) OBVIOUS
<1>12. sbPast' = [p EXCEPT !.left = left] BY <1>10, <1>11 DEF SbClose
<1>13. /\ sbPast' \in SbPastRow /\ sbPast'.used = sbPast.used /\ sbPast'.left = left
       /\ sbPast'.ran = sbPast.ran /\ sbPast'.blind = sbPast.blind /\ sbPast'.raced = sbPast.raced
  BY <1>10, <1>12 DEF SbPastRow
<1>14. SbAllFit'
 <2>1. SbWorldKept BY <1>1, <1>2, <1>13 DEF SbWorldKept
 <2> QED BY <1>0, <1>2, <2>1, SbNoneMoves
<1>15. SbTyped' BY <1>0, <1>2, <1>3, <1>5, <1>9, <1>13 DEF SbTyped
<1>16. SbBoxHolds'
 <2>1. sbDocker'.state # "running" \/ left
  <3>1. p.ran => stops BY <1>0, <1>1, <1>2, <1>4, <1>7, <1>10 DEF SbBoxHolds
  <3>2. sbDocker'.state = "running" => p.left
    BY <1>0, <1>1, <1>2, <1>4, <1>7, <1>9, <1>10 DEF SbBoxHolds
  <3>3. ~p.ran /\ p.left => left BY <1>11 DEF SbPastRow
  <3> QED BY <1>9, <3>1, <3>2, <3>3
 <2> QED BY <1>3, <1>13, <2>1 DEF SbBoxHolds
<1> QED BY <1>0, <1>2, <1>13, <1>14, <1>15, <1>16, SbMarksSame DEF SbInv

\* A process that dies forgets what it knew and leaves its container.
LEMMA SbCrashKeeps ==
  ASSUME SbInv, SbCrash
  PROVE  SbInv'
<1>0. SbTyped /\ SbAllFit /\ SbBoxHolds /\ SbMarksHold BY DEF SbInv
<1>1. /\ sbTurn' = [sbTurn EXCEPT !.state = "over"]
      /\ sbCalls' = [c \in SbCalls |-> SbDone]
      /\ sbMarks' = [read |-> 0, authored |-> 0]
      /\ sbSeen' = SbNoText
      /\ sbCount' = [sbCount EXCEPT !.faults = @ + 1] /\ sbCount.faults < SbMaxFaults
      /\ UNCHANGED <<sbKind, sbFile, sbBoxes, sbDocker>> BY DEF SbCrash, SbFault
<1>2. sbCount' \in [edits: 0..SbMaxEdits, faults: 0..SbMaxFaults]
  BY <1>0, <1>1, SbAssumption DEF SbTyped
<1>3. /\ sbTurn' \in [n: Nat, state: {"open", "closing", "over"}]
      /\ sbTurn'.n = sbTurn.n /\ sbTurn'.state = "over" BY <1>0, <1>1 DEF SbTyped
<1>4. PICK p \in SbPastRow : p = sbPast BY <1>0 DEF SbTyped
<1>5. PICK left \in BOOLEAN : left = (p.left \/ sbDocker.state = "running") OBVIOUS
<1>6. sbPast' = [p EXCEPT !.left = left] BY <1>4, <1>5 DEF SbCrash
<1>7. /\ sbPast' \in SbPastRow /\ sbPast'.left = left
      /\ sbPast'.ran = sbPast.ran /\ sbPast'.blind = sbPast.blind BY <1>4, <1>6 DEF SbPastRow
<1>8. SbAllFit' /\ sbCalls' \in [SbCalls -> SbCallRow]
 <2>1. \A c \in SbCalls : sbCalls'[c] = SbDone /\ SbFits(SbDone, c)' BY <1>1, SbOver
 <2>2. \A c \in SbCalls : SbFits(sbCalls[c], c)' BY <2>1 DEF SbFits
 <2> QED BY <1>1, <2>2, SbOver DEF SbAllFit
<1>9. sbSeen' \in SbTextRow BY <1>1 DEF SbNoText, SbText, SbTextRow, SbWriters
<1>10. sbMarks' \in [read: Nat, authored: Nat] BY <1>1
<1>11. SbTyped' BY <1>0, <1>1, <1>2, <1>3, <1>7, <1>8, <1>9, <1>10 DEF SbTyped
<1>12. SbBoxHolds'
 <2>1. sbDocker.state = "running" => left BY <1>5 DEF SbPastRow
 <2> QED BY <1>1, <1>3, <1>7, <2>1 DEF SbBoxHolds
<1>13. SbMarksHold'
 <2>1. sbFile.stamp \in Nat /\ sbMarks'.read = 0 /\ sbMarks'.authored = 0
   BY <1>0, <1>1 DEF SbTyped, SbFileRow
 <2>2. ~SbFresh' BY <1>1, <2>1 DEF SbFresh
 <2>3. ~sbPast'.blind BY <1>0, <1>7 DEF SbMarksHold, SbPatchesKnownText
 <2>4. sbMarks'.read <= sbFile'.stamp /\ sbMarks'.authored <= sbFile'.stamp BY <1>1, <2>1
 <2> QED BY <2>1, <2>2, <2>3, <2>4 DEF SbMarksHold, SbPatchesKnownText
<1> QED BY <1>8, <1>11, <1>12, <1>13 DEF SbInv

\* Another instance removes containers, one dies by itself, the user edits.
LEMMA SbOutsideKeeps ==
  ASSUME SbInv, SbList \/ (\E id \in sbReconcile : SbRemove(id)) \/ SbContainerDies \/ SbUserEdits
  PROVE  SbInv'
<1>0. SbTyped /\ SbAllFit /\ SbBoxHolds /\ SbMarksHold BY DEF SbInv
<1>1. UNCHANGED <<sbKind, sbMarks, sbSeen, sbCalls, sbTurn, sbBoxes, sbPast>>
  BY DEF SbList, SbRemove, SbContainerDies, SbUserEdits
<1>2. PICK d \in SbDockerRow : d = sbDocker BY <1>0 DEF SbTyped
<1>3. sbDocker' \in SbDockerRow /\ (sbDocker'.state = "running" => sbDocker.state = "running")
 <2>1. sbDocker' \in {d, [d EXCEPT !.state = "none"], [d EXCEPT !.state = "exited"]}
   BY <1>2 DEF SbList, SbRemove, SbContainerDies, SbUserEdits
 <2> QED BY <1>2, <2>1 DEF SbDockerRow
<1>4. PICK n : n = sbCount OBVIOUS
<1>5. sbCount' \in [edits: 0..SbMaxEdits, faults: 0..SbMaxFaults]
 <2>1. /\ n \in [edits: 0..SbMaxEdits, faults: 0..SbMaxFaults]
       /\ \/ sbCount' = n
          \/ n.faults < SbMaxFaults /\ sbCount' = [n EXCEPT !.faults = n.faults + 1]
          \/ n.edits < SbMaxEdits /\ sbCount' = [n EXCEPT !.edits = n.edits + 1]
   BY <1>0, <1>4 DEF SbList, SbRemove, SbContainerDies, SbUserEdits, SbFault, SbTyped
 <2> QED BY <2>1, SbAssumption
<1>6. sbFile' \in SbFileRow /\ (sbFile' = sbFile \/ sbFile'.stamp = sbFile.stamp + 1)
 <2>1. CASE SbUserEdits
  <3>1. PICK text : text = [sbFile.text EXCEPT !.y = "user"] OBVIOUS
  <3>2. text \in SbTextRow BY <1>0, <3>1 DEF SbTyped, SbFileRow, SbTextRow, SbWriters
  <3>3. sbFile' = [text |-> text, stamp |-> sbFile.stamp + 1] BY <2>1, <3>1 DEF SbUserEdits
  <3> QED BY <1>0, <3>2, <3>3 DEF SbTyped, SbFileRow
 <2>2. CASE sbFile' = sbFile BY <1>0, <2>2 DEF SbTyped
 <2> QED BY <2>1, <2>2 DEF SbList, SbRemove, SbContainerDies
<1>7. SbWorldKept BY <1>1, <1>6 DEF SbWorldKept
<1>8. SbAllFit' BY <1>0, <1>1, <1>7, SbNoneMoves
<1>9. SbTyped' BY <1>0, <1>1, <1>3, <1>5, <1>6 DEF SbTyped
<1>10. SbBoxHolds' BY <1>0, <1>1, <1>3, SbBoxGrows
<1>11. SbMarksHold'
 <2>1. CASE sbFile' = sbFile BY <1>0, <1>1, <2>1, SbMarksSame
 <2>2. CASE sbFile'.stamp = sbFile.stamp + 1
  <3>1. /\ sbMarks.read \in Nat /\ sbMarks.authored \in Nat /\ sbFile.stamp \in Nat
        /\ sbMarks.read <= sbFile.stamp /\ sbMarks.authored <= sbFile.stamp
    BY <1>0 DEF SbTyped, SbFileRow, SbMarksHold
  <3>2. /\ sbMarks'.read <= sbFile'.stamp /\ sbMarks'.authored <= sbFile'.stamp
        /\ sbFile'.stamp \notin {sbMarks'.read, sbMarks'.authored} BY <1>1, <2>2, <3>1
  <3> QED BY <1>0, <1>1, <3>2 DEF SbMarksHold, SbFresh, SbPatchesKnownText
 <2> QED BY <1>6, <2>1, <2>2
<1> QED BY <1>8, <1>9, <1>10, <1>11 DEF SbInv

\* Every step keeps the invariant.
LEMMA SbNextKeepsInv == SbInv /\ [SbNext]_sbVars => SbInv'
<1> SUFFICES ASSUME SbInv, [SbNext]_sbVars PROVE SbInv' OBVIOUS
<1>1. CASE SbNext
 <2>1. ASSUME NEW c \in SbCalls,
              \/ SbCheck(c) \/ SbInvoke(c) \/ SbEnsure(c) \/ SbClear(c) \/ SbCreate(c) \/ SbStart(c)
              \/ SbExec(c) \/ SbTimeout(c) \/ SbValidate(c) \/ SbLoad(c) \/ SbStore(c) \/ SbMark(c)
       PROVE  SbInv'
   BY <2>1, SbCheckKeeps, SbAloneKeeps, SbEnsureKeeps, SbClearKeeps, SbStartKeeps, SbExecKeeps,
      SbTimeoutKeeps, SbLoadKeeps, SbStoreKeeps, SbMarkKeeps
 <2>2. CASE \/ SbBegin \/ (\E b \in BOOLEAN : SbFinish(b)) \/ SbClose \/ SbCrash
            \/ SbList \/ (\E id \in sbReconcile : SbRemove(id)) \/ SbContainerDies \/ SbUserEdits
   BY <2>2, SbBeginKeeps, SbFinishKeeps, SbCloseKeeps, SbCrashKeeps, SbOutsideKeeps
 <2> QED BY <1>1, <2>1, <2>2, SbMessageKeeps DEF SbNext
<1>2. CASE UNCHANGED sbVars
 <2>1. UNCHANGED <<sbKind, sbFile, sbMarks, sbSeen, sbCalls, sbTurn, sbBoxes, sbDocker, sbPast, sbCount>>
   BY <1>2 DEF sbVars
 <2>2. SbWorldKept BY <2>1 DEF SbWorldKept
 <2> QED BY <2>1, <2>2, SbNoneMoves, SbBoxSame, SbMarksSame DEF SbInv, SbTyped
<1> QED BY <1>1, <1>2

\* No turn has begun, and no tool has run.
LEMMA SbInitHolds == SbInit => SbInv
<1> SUFFICES ASSUME SbInit PROVE SbInv OBVIOUS
<1>1. SbTyped
 <2>1. sbFile \in SbFileRow /\ sbSeen \in SbTextRow
   BY DEF SbInit, SbFileRow, SbTextRow, SbText, SbNoText, SbWriters
 <2>2. sbCalls \in [SbCalls -> SbCallRow] BY SbOver DEF SbInit
 <2>3. sbBoxes \in [1..SbMaxTurns -> SbBoxRow] /\ sbDocker \in SbDockerRow /\ sbPast \in SbPastRow
   BY DEF SbInit, SbNewBox, SbBoxRow, SbDockerRow, SbPastRow
 <2>4. 0 \in 0..SbMaxEdits /\ 0 \in 0..SbMaxFaults /\ 0 <= SbMaxTurns BY SbAssumption
 <2> QED BY <2>1, <2>2, <2>3, <2>4 DEF SbInit, SbTyped
<1>2. SbAllFit BY DEF SbInit, SbAllFit, SbFits, SbDone, SbInBox
<1>3. SbBoxHolds BY DEF SbInit, SbBoxHolds
<1>4. SbMarksHold
 <2>1. sbFile.stamp \in {0, 1} /\ sbMarks.read = 0 /\ sbMarks.authored = 0 /\ ~sbPast.blind
   BY DEF SbInit
 <2>2. ~SbFresh BY <2>1 DEF SbFresh
 <2>3. sbMarks.read <= sbFile.stamp /\ sbMarks.authored <= sbFile.stamp BY <2>1
 <2> QED BY <2>1, <2>2, <2>3 DEF SbMarksHold, SbPatchesKnownText
<1> QED BY <1>1, <1>2, <1>3, <1>4 DEF SbInv

--------------------
(* A local turn does not refuse what the agent knows. *)

\* A text that is somewhere.
SbKnown(t) == \/ t \in {sbSeen, sbFile.text, SbNoText}
              \/ \E c \in SbCalls : t = sbCalls[c].text

\* Who has yet to write has a part in no text.
LEMMA SbKnownLacks ==
  ASSUME SbTextsNew, NEW w \in SbWriters, SbYet(w), NEW t, SbKnown(t)
  PROVE  ~SbIn(w, t)
<1>1. CASE t = SbNoText
 <2>1. w # "none" BY SbAssumption DEF SbYet
 <2>2. t.x = "none" /\ t.y = "none" BY <1>1 DEF SbNoText, SbText
 <2> QED BY <2>1, <2>2 DEF SbIn
<1>2. CASE t # SbNoText BY <1>2 DEF SbTextsNew, SbKnown
<1> QED BY <1>1, <1>2

\* Texts move about, and nobody has to write a second time.
LEMMA SbTextsKept ==
  ASSUME SbTextsNew, \A w \in SbWriters : SbYet(w)' => SbYet(w),
         SbKnown(sbSeen'), SbKnown(sbFile'.text), \A c \in SbCalls : SbKnown(sbCalls'[c].text)
  PROVE  SbTextsNew'
<1> SUFFICES ASSUME NEW w \in SbWriters, SbYet(w)'
             PROVE  ~SbIn(w, sbSeen') /\ ~SbIn(w, sbFile'.text)
                    /\ \A c \in SbCalls : ~SbIn(w, sbCalls'[c].text) BY DEF SbTextsNew, SbIn
<1>1. SbYet(w) OBVIOUS
<1>2. \A t : SbKnown(t) => ~SbIn(w, t) BY <1>1, SbKnownLacks
<1> QED BY <1>2

\* Where a tool goes without touching the file or its marks.
SbMovesTo(q, r) ==
  \/ r = SbDone
  \/ /\ r.op = q.op /\ r.text = q.text /\ r.pc \notin {"check", "mark"}
     /\ r.pc = "store" => q.pc = "store"

\* A call goes on, or reads the file.
LEMMA SbQuietKeeps ==
  ASSUME SbTyped, SbEditInv, NEW c \in SbCalls, NEW q \in SbCallRow, q = sbCalls[c],
         q.pc \notin {"done", "check", "mark"},
         NEW r \in SbCallRow, sbCalls' = [sbCalls EXCEPT ![c] = r],
         \/ SbMovesTo(q, r)
         \/ /\ r.text = sbFile.text /\ r.op = q.op /\ r.pc \in {"store", "mark"},
         UNCHANGED <<sbKind, sbFile, sbMarks>>,
         sbSeen' = sbSeen \/ (sbKind = "container" /\ sbSeen' = sbFile.text),
         sbPast'.used = sbPast.used, sbPast'.raced = sbPast.raced,
         sbPast'.refused = sbPast.refused, sbCount'.edits = sbCount.edits
  PROVE  SbEditInv'
<1>1. SbTextsNew /\ SbFileWritten /\ SbKnownIsFresh /\ SbLocalEdits BY DEF SbEditInv
<1>2. sbCalls'[c] = r /\ \A x \in SbCalls \ {c} : sbCalls'[x] = sbCalls[x] BY DEF SbTyped
<1>3. r.pc # "check" /\ (r = SbDone => r.pc = "done" /\ r.text = SbNoText) BY DEF SbMovesTo, SbDone
<1>4. SbTextsNew'
 <2>1. \A w \in SbWriters : SbYet(w)' => SbYet(w) BY <1>2 DEF SbYet
 <2>2. SbKnown(r.text) BY <1>3 DEF SbMovesTo, SbKnown
 <2>3. \A x \in SbCalls : SbKnown(sbCalls'[x].text) BY <1>2, <2>2 DEF SbKnown
 <2>4. SbKnown(sbSeen') /\ SbKnown(sbFile'.text) BY DEF SbKnown
 <2> QED BY <1>1, <2>1, <2>3, <2>4, SbTextsKept
<1>5. SbFileWritten'
 <2>1. r.op = "patch_file" /\ r.pc # "done" =>
         sbFile.stamp # 0 /\ (r.pc = "store" => r.text.y # "none")
   BY <1>1, <1>3 DEF SbMovesTo, SbFileWritten
 <2> QED BY <1>1, <1>2, <2>1 DEF SbFileWritten
<1>6. SbKnownIsFresh' BY <1>1, <1>2, <1>3 DEF SbKnownIsFresh, SbFresh
<1>7. SbLocalEdits' BY <1>1 DEF SbLocalEdits
<1> QED BY <1>4, <1>5, <1>6, <1>7 DEF SbEditInv

\* The steps of a call between the policy and the file.
LEMMA SbQuietSteps ==
  ASSUME SbInv, SbEditInv, NEW c \in SbCalls,
         \/ SbInvoke(c) \/ SbEnsure(c) \/ SbClear(c) \/ SbCreate(c) \/ SbStart(c)
         \/ SbExec(c) \/ SbTimeout(c) \/ SbValidate(c) \/ SbLoad(c)
  PROVE  SbEditInv'
<1>0. SbTyped /\ SbAllFit /\ SbTyped'
  BY SbAloneKeeps, SbEnsureKeeps, SbClearKeeps, SbStartKeeps, SbExecKeeps, SbTimeoutKeeps,
     SbLoadKeeps DEF SbInv
<1>1. PICK q \in SbCallRow : q = sbCalls[c] BY <1>0 DEF SbTyped
<1>2. q.pc \in {"invoke", "ensure", "clear", "create", "start", "exec", "validate", "load", "store"}
  BY <1>1 DEF SbInvoke, SbEnsure, SbClear, SbCreate, SbStart, SbExec, SbTimeout, SbValidate, SbLoad
<1>3. UNCHANGED <<sbKind, sbFile, sbMarks>> /\ sbCount'.edits = sbCount.edits
 <2>1. sbCount' = sbCount \/ sbCount' = [sbCount EXCEPT !.faults = @ + 1]
   BY DEF SbInvoke, SbEnsure, SbClear, SbCreate, SbStart, SbExec, SbTimeout, SbValidate, SbLoad,
      SbUnchangedButStart, SbUnchangedButFile, SbFault
 <2>2. UNCHANGED <<sbKind, sbFile, sbMarks>>
   BY DEF SbInvoke, SbEnsure, SbClear, SbCreate, SbStart, SbExec, SbTimeout, SbValidate, SbLoad,
      SbUnchangedButStart, SbUnchangedButFile
 <2> QED BY <1>0, <2>1, <2>2 DEF SbTyped
<1>4. /\ sbPast'.used = sbPast.used /\ sbPast'.raced = sbPast.raced
      /\ sbPast'.refused = sbPast.refused
 <2>1. PICK p \in SbPastRow : p = sbPast BY <1>0 DEF SbTyped
 <2>2. \/ sbPast' = p
       \/ \E b : sbPast' = [p EXCEPT !.left = b]
       \/ \E b : sbPast' = [p EXCEPT !.ran = b]
   BY <2>1 DEF SbInvoke, SbEnsure, SbClear, SbCreate, SbStart, SbExec, SbTimeout, SbValidate, SbLoad,
      SbUnchangedButStart, SbUnchangedButFile
 <2> QED BY <2>1, <2>2 DEF SbPastRow
<1>5. sbSeen' = sbSeen \/ (sbKind = "container" /\ sbSeen' = sbFile.text)
  BY DEF SbInvoke, SbEnsure, SbClear, SbCreate, SbStart, SbExec, SbTimeout, SbValidate, SbLoad,
     SbUnchangedButStart, SbUnchangedButFile
<1>6. PICK r : r = sbCalls'[c] OBVIOUS
<1>7. r \in SbCallRow /\ sbCalls' = [sbCalls EXCEPT ![c] = r]
 <2>1. \E s : sbCalls' = [sbCalls EXCEPT ![c] = s]
   BY DEF SbInvoke, SbEnsure, SbClear, SbCreate, SbStart, SbExec, SbTimeout, SbValidate, SbLoad,
      SbGo, SbThen, SbEnd
 <2> QED BY <1>0, <1>6, <2>1 DEF SbTyped
<1>8. \/ SbMovesTo(q, r)
      \/ /\ r.text = sbFile.text /\ r.op = q.op /\ r.pc \in {"store", "mark"}
 <2> DEFINE Goes(x) == r = SbDone \/ r = [q EXCEPT !.pc = x]
 <2>1. CASE SbInvoke(c) BY <1>0, <1>1, <1>6, <2>1 DEF SbInvoke, SbGo, SbTyped, SbCallRow, SbMovesTo
 <2>2. CASE SbLoad(c)
  <3>1. PICK at : at = IF q.op = "read_file" THEN "mark" ELSE "store" OBVIOUS
  <3>2. \/ sbCalls' = [sbCalls EXCEPT ![c] = SbDone]
        \/ sbCalls' = [sbCalls EXCEPT ![c] =
                        [q EXCEPT !.pc = at, !.text = sbFile.text, !.stamp = sbFile.stamp]]
    BY <1>1, <2>2, <3>1 DEF SbLoad
  <3>3. r = SbDone \/ r = [q EXCEPT !.pc = at, !.text = sbFile.text, !.stamp = sbFile.stamp]
    BY <1>0, <1>6, <3>2 DEF SbTyped
  <3>4. CASE r # SbDone BY <3>1, <3>3, <3>4 DEF SbCallRow
  <3> QED BY <3>4 DEF SbMovesTo
 <2>3. CASE SbTimeout(c)
   BY <1>0, <1>1, <1>2, <1>6, <2>3 DEF SbTimeout, SbTyped, SbCallRow, SbMovesTo
 <2>4. CASE \/ SbEnsure(c) \/ SbClear(c) \/ SbCreate(c) \/ SbStart(c) \/ SbExec(c) \/ SbValidate(c)
  <3>1. Goes("clear") \/ Goes("create") \/ Goes("start") \/ Goes("exec") \/ Goes("load")
    BY <1>0, <1>1, <1>6, <2>4
       DEF SbEnsure, SbClear, SbCreate, SbStart, SbExec, SbValidate, SbGo, SbThen, SbEnd, SbTyped
  <3> QED BY <3>1 DEF SbCallRow, SbMovesTo
 <2> QED BY <2>1, <2>2, <2>3, <2>4
<1> QED BY <1>0, <1>1, <1>2, <1>3, <1>4, <1>5, <1>7, <1>8, SbQuietKeeps

\* A message is made of what the agent knows.
LEMMA SbMessageEdits ==
  ASSUME SbInv, SbEditInv, NEW calls \in SUBSET SbCalls, SbMessage(calls)
  PROVE  SbEditInv'
<1>0. SbTyped /\ SbAllFit /\ SbTextsNew /\ SbFileWritten /\ SbKnownIsFresh /\ SbLocalEdits
  BY DEF SbInv, SbEditInv
<1>1. PICK op \in [calls -> SbOps] :
        sbCalls' = [c \in SbCalls |-> IF c \in calls
                      THEN [SbDone EXCEPT !.pc = "check", !.op = op[c], !.turn = sbTurn.n, !.text = sbSeen]
                      ELSE sbCalls[c]] BY DEF SbMessage
<1>2. /\ UNCHANGED <<sbKind, sbFile, sbMarks, sbSeen, sbCount>> /\ calls \cap sbPast.used = {}
  BY DEF SbMessage
<1>3. PICK p \in SbPastRow : p = sbPast BY <1>0 DEF SbTyped
<1>4. sbPast' = [p EXCEPT !.used = p.used \cup calls] BY <1>3 DEF SbMessage
<1>5. /\ sbPast'.used = sbPast.used \cup calls
      /\ sbPast'.raced = sbPast.raced /\ sbPast'.refused = sbPast.refused
  BY <1>3, <1>4 DEF SbPastRow
<1>6. ASSUME NEW c \in SbCalls
      PROVE  \/ /\ c \in calls /\ sbCalls'[c].pc = "check" /\ sbCalls'[c].text = sbSeen
             \/ c \notin calls /\ sbCalls'[c] = sbCalls[c] BY <1>1 DEF SbDone
<1>7. SbTextsNew'
 <2>1. \A w \in SbWriters : SbYet(w)' => SbYet(w) BY <1>2, <1>5, <1>6 DEF SbYet
 <2>2. \A c \in SbCalls : SbKnown(sbCalls'[c].text) BY <1>6 DEF SbKnown
 <2>3. SbKnown(sbSeen') /\ SbKnown(sbFile'.text) BY <1>2 DEF SbKnown
 <2> QED BY <1>0, <2>1, <2>2, <2>3, SbTextsKept
<1>8. SbFileWritten' BY <1>0, <1>2, <1>6 DEF SbFileWritten
<1>9. SbKnownIsFresh' BY <1>0, <1>2, <1>5, <1>6 DEF SbKnownIsFresh, SbFresh
<1>10. SbLocalEdits' BY <1>0, <1>2, <1>5 DEF SbLocalEdits
<1> QED BY <1>7, <1>8, <1>9, <1>10 DEF SbEditInv

\* What the agent knows as it is is fresh, and passes.
LEMMA SbCheckEdits ==
  ASSUME SbInv, SbEditInv, NEW c \in SbCalls, SbCheck(c)
  PROVE  SbEditInv'
<1>0. SbTyped /\ SbAllFit /\ SbTextsNew /\ SbFileWritten /\ SbKnownIsFresh /\ SbLocalEdits
  BY DEF SbInv, SbEditInv
<1>1. PICK q \in SbCallRow : q = sbCalls[c] BY <1>0 DEF SbTyped
<1>2. q.pc = "check" /\ UNCHANGED <<sbKind, sbFile, sbMarks, sbSeen, sbCount>> BY <1>1 DEF SbCheck
<1>3. PICK p \in SbPastRow : p = sbPast BY <1>0 DEF SbTyped
<1>4. PICK b \in BOOLEAN : b <=> (p.refused \/ (SbValid(q) /\ ~SbPolicy(q.op) /\ q.text = sbFile.text))
  OBVIOUS
<1>5. b = (p.refused \/ (SbValid(q) /\ ~SbPolicy(q.op) /\ q.text = sbFile.text))
  BY <1>4 DEF SbPastRow
<1>6. PICK d : sbPast' = [p EXCEPT !.refused = b, !.blind = d] BY <1>1, <1>3, <1>5 DEF SbCheck
<1>7. /\ sbPast'.used = sbPast.used /\ sbPast'.raced = sbPast.raced /\ sbPast'.refused = b
  BY <1>3, <1>6 DEF SbPastRow
<1>8. PICK r : r = IF SbValid(q) /\ SbPolicy(q.op) THEN [q EXCEPT !.pc = "invoke"] ELSE SbDone
  OBVIOUS
<1>9. sbCalls' = [sbCalls EXCEPT ![c] = r] BY <1>1, <1>8 DEF SbCheck
<1>10. sbCalls'[c] = r /\ \A x \in SbCalls \ {c} : sbCalls'[x] = sbCalls[x]
  BY <1>0, <1>9 DEF SbTyped
<1>11. \/ SbValid(q) /\ r.pc = "invoke" /\ r.op = q.op /\ r.text = q.text
       \/ r.pc = "done" /\ r.text = SbNoText BY <1>8 DEF SbCallRow, SbDone
<1>12. SbTextsNew'
 <2>1. \A w \in SbWriters : SbYet(w)' => SbYet(w) BY <1>1, <1>2, <1>7, <1>10 DEF SbYet
 <2>2. \A x \in SbCalls : SbKnown(sbCalls'[x].text) BY <1>1, <1>10, <1>11 DEF SbKnown
 <2>3. SbKnown(sbSeen') /\ SbKnown(sbFile'.text) BY <1>2 DEF SbKnown
 <2> QED BY <1>0, <2>1, <2>2, <2>3, SbTextsKept
<1>13. SbFileWritten'
 <2>1. SbValid(q) /\ q.op = "patch_file" => sbFile.stamp # 0 BY DEF SbValid, SbExists
 <2> QED BY <1>0, <1>2, <1>10, <1>11, <2>1 DEF SbFileWritten
<1>14. SbKnownIsFresh' BY <1>0, <1>2, <1>7, <1>10, <1>11 DEF SbKnownIsFresh, SbFresh
<1>15. SbLocalEdits'
 <2> SUFFICES ASSUME sbKind = "local", ~sbPast.raced, sbCount.edits <= 1, b
              PROVE  FALSE BY <1>2, <1>7 DEF SbLocalEdits
 <2>1. SbValid(q) /\ ~SbPolicy(q.op) /\ q.text = sbFile.text BY <1>0, <1>3, <1>4 DEF SbLocalEdits
 <2>2. ~SbFresh /\ sbFile.stamp # 0 BY <2>1 DEF SbPolicy, SbValid, SbExists
 <2> QED BY <1>0, <1>1, <1>2, <2>1, <2>2 DEF SbKnownIsFresh
<1> QED BY <1>12, <1>13, <1>14, <1>15 DEF SbEditInv

\* The file gets a part it never had, so that no known text is its text.
LEMMA SbStoreEdits ==
  ASSUME SbInv, SbEditInv, NEW c \in SbCalls, SbStore(c)
  PROVE  SbEditInv'
<1>0. SbTyped /\ SbAllFit /\ SbTextsNew /\ SbFileWritten /\ SbKnownIsFresh /\ SbLocalEdits
  BY DEF SbInv, SbEditInv
<1>1. PICK q \in SbCallRow : q = sbCalls[c] BY <1>0 DEF SbTyped
<1>2. /\ q.pc = "store" /\ q.op \in SbOps /\ q.op # "read_file"
      /\ UNCHANGED <<sbKind, sbMarks, sbPast, sbCount>>
  BY <1>0, <1>1 DEF SbStore, SbUnchangedButFile, SbAllFit, SbFits
<1>3. CASE ~SbAlive
 <2>1. sbCalls' = [sbCalls EXCEPT ![c] = SbDone] /\ UNCHANGED <<sbFile, sbSeen>>
   BY <1>3 DEF SbStore, SbEnd
 <2>2. SbDone \in SbCallRow /\ SbMovesTo(q, SbDone) BY SbOver DEF SbMovesTo
 <2> QED BY <1>0, <1>1, <1>2, <2>1, <2>2, SbQuietKeeps
<1>4. CASE SbAlive
 <2>1. PICK text \in SbTextRow : text = SbWritten(c) /\ SbIn(c, text) BY <1>1, <1>2, SbWrites
 <2>2. PICK r : r = [q EXCEPT !.pc = "mark", !.text = text, !.stamp = sbFile.stamp + 1] OBVIOUS
 <2>3. /\ sbFile' = [text |-> text, stamp |-> sbFile.stamp + 1]
       /\ sbSeen' \in {sbSeen, text}
       /\ sbKind = "local" => sbSeen' = sbSeen
       /\ \/ sbCalls' = [sbCalls EXCEPT ![c] = SbDone]
          \/ sbCalls' = [sbCalls EXCEPT ![c] = r] BY <1>1, <1>4, <2>1, <2>2 DEF SbStore
 <2>4. /\ \A x \in SbCalls \ {c} : sbCalls'[x] = sbCalls[x]
       /\ sbCalls'[c].pc \in {"done", "mark"} /\ sbCalls'[c].text \in {SbNoText, text}
  <3>1. r.pc = "mark" /\ r.text = text BY <2>2 DEF SbCallRow
  <3> QED BY <1>0, <2>3, <3>1 DEF SbTyped, SbDone
 <2>5. SbYet(c) /\ c \in SbWriters /\ c \in sbPast.used
   BY <1>0, <1>1, <1>2 DEF SbYet, SbWriters, SbAllFit, SbFits
 <2>6. \A w : SbIn(w, text) => w = c \/ SbIn(w, q.text)
   BY <1>1, <1>2, <2>1 DEF SbWritten, SbShell, SbText, SbIn, SbOps, SbCallRow, SbTextRow
 <2>7. SbTextsNew'
  <3> SUFFICES ASSUME NEW w \in SbWriters, SbYet(w)'
               PROVE  ~SbIn(w, sbSeen') /\ ~SbIn(w, sbFile'.text)
                      /\ \A x \in SbCalls : ~SbIn(w, sbCalls'[x].text) BY DEF SbTextsNew, SbIn
  <3>1. SbYet(w) /\ w # c BY <1>1, <1>2, <2>4, <2>5, SbAssumption DEF SbYet
  <3>2. \A t : SbKnown(t) => ~SbIn(w, t) BY <1>0, <3>1, SbKnownLacks
  <3>3. ~SbIn(w, text) BY <1>1, <2>6, <3>1, <3>2 DEF SbKnown
  <3>4. ~SbIn(w, SbNoText) /\ ~SbIn(w, sbSeen) /\ \A x \in SbCalls : ~SbIn(w, sbCalls[x].text)
    BY <3>2 DEF SbKnown
  <3> QED BY <2>3, <2>4, <3>3, <3>4
 <2>8. SbFileWritten'
  <3>1. text.y # "none"
   <4>1. q.op = "patch_file" => q.text.y # "none" BY <1>0, <1>1, <1>2 DEF SbFileWritten
   <4>2. c # "none" BY SbAssumption
   <4> QED BY <1>1, <1>2, <2>1, <4>1, <4>2
           DEF SbWritten, SbShell, SbText, SbOps, SbCallRow, SbTextRow
  <3>2. sbFile'.stamp # 0 BY <1>0, <2>3 DEF SbTyped, SbFileRow
  <3>3. sbFile'.text = text BY <2>3
  <3> QED BY <1>0, <2>4, <3>1, <3>2, <3>3 DEF SbFileWritten
 <2>9. SbKnownIsFresh'
  <3>1. ~SbIn(c, sbSeen) /\ \A x \in SbCalls : ~SbIn(c, sbCalls[x].text)
    BY <1>0, <2>5 DEF SbTextsNew
  <3>2. sbSeen # text /\ \A x \in SbCalls : sbCalls[x].text # text BY <2>1, <3>1
  <3>3. sbFile'.text = text BY <2>3
  <3> QED BY <1>2, <2>3, <2>4, <3>2, <3>3 DEF SbKnownIsFresh
 <2>10. SbLocalEdits' BY <1>0, <1>2 DEF SbLocalEdits
 <2> QED BY <2>7, <2>8, <2>9, <2>10 DEF SbEditInv
<1> QED BY <1>3, <1>4

\* The mark is the file's stamp, or the file was raced.
LEMMA SbMarkEdits ==
  ASSUME SbInv, SbEditInv, NEW c \in SbCalls, SbMark(c)
  PROVE  SbEditInv'
<1>0. SbTyped /\ SbAllFit /\ SbTextsNew /\ SbFileWritten /\ SbKnownIsFresh /\ SbLocalEdits
  BY DEF SbInv, SbEditInv
<1>1. PICK q \in SbCallRow : q = sbCalls[c] BY <1>0 DEF SbTyped
<1>2. /\ q.pc = "mark" /\ UNCHANGED <<sbKind, sbFile, sbCount>>
      /\ sbCalls' = [sbCalls EXCEPT ![c] = SbDone] BY <1>1 DEF SbMark, SbUnchangedButFile, SbEnd
<1>3. sbCalls'[c] = SbDone /\ \A x \in SbCalls \ {c} : sbCalls'[x] = sbCalls[x]
  BY <1>0, <1>2 DEF SbTyped
<1>4. PICK p \in SbPastRow : p = sbPast BY <1>0 DEF SbTyped
<1>5. PICK raced \in BOOLEAN : raced = (p.raced \/ q.orphan \/ sbFile.stamp # q.stamp) OBVIOUS
<1>6. sbPast' = [p EXCEPT !.raced = raced] BY <1>1, <1>4, <1>5 DEF SbMark
<1>7. /\ sbPast'.used = sbPast.used /\ sbPast'.refused = sbPast.refused
      /\ sbPast.raced => sbPast'.raced BY <1>4, <1>5, <1>6 DEF SbPastRow
<1>8. sbSeen' \in {sbSeen, q.text} BY <1>1 DEF SbMark
<1>9. SbFresh' \/ sbFile.stamp = 0
 <2>1. sbMarks'.read = sbFile.stamp \/ sbMarks'.authored = sbFile.stamp BY <1>0 DEF SbMark, SbTyped
 <2> QED BY <1>2, <2>1 DEF SbFresh
<1>10. SbTextsNew'
 <2>1. \A w \in SbWriters : SbYet(w)' => SbYet(w) BY <1>2, <1>3, <1>7 DEF SbYet, SbDone
 <2>2. \A x \in SbCalls : SbKnown(sbCalls'[x].text) BY <1>3 DEF SbKnown, SbDone
 <2>3. SbKnown(sbSeen') /\ SbKnown(sbFile'.text) BY <1>1, <1>2, <1>8 DEF SbKnown
 <2> QED BY <1>0, <2>1, <2>2, <2>3, SbTextsKept
<1>11. SbFileWritten' BY <1>0, <1>2, <1>3 DEF SbFileWritten, SbDone
<1>12. SbKnownIsFresh' BY <1>2, <1>9 DEF SbKnownIsFresh
<1>13. SbLocalEdits' BY <1>0, <1>2, <1>7 DEF SbLocalEdits
<1> QED BY <1>10, <1>11, <1>12, <1>13 DEF SbEditInv

\* Turns end and sandboxes close: calls are over or left to themselves.
LEMMA SbTurnEdits ==
  ASSUME SbTyped, SbEditInv, UNCHANGED <<sbKind, sbFile, sbMarks, sbSeen>>,
         sbCount'.edits = sbCount.edits,
         sbPast'.used = sbPast.used, sbPast'.raced = sbPast.raced,
         sbPast'.refused = sbPast.refused,
         \A c \in SbCalls : \/ sbCalls'[c] = sbCalls[c]
                            \/ sbCalls'[c] = SbDone
                            \/ /\ sbCalls[c].pc \notin {"done", "check"}
                               /\ sbCalls'[c] = [sbCalls[c] EXCEPT !.orphan = TRUE]
  PROVE  SbEditInv'
<1>0. SbTextsNew /\ SbFileWritten /\ SbKnownIsFresh /\ SbLocalEdits BY DEF SbEditInv
<1>1. ASSUME NEW c \in SbCalls
      PROVE  \/ sbCalls'[c].pc = "done" /\ sbCalls'[c].text = SbNoText
             \/ /\ sbCalls'[c].pc = sbCalls[c].pc /\ sbCalls'[c].op = sbCalls[c].op
                /\ sbCalls'[c].text = sbCalls[c].text
 <2>1. CASE sbCalls'[c] = sbCalls[c] BY <2>1
 <2>2. CASE sbCalls'[c] = SbDone BY <2>2 DEF SbDone
 <2>3. CASE sbCalls'[c] = [sbCalls[c] EXCEPT !.orphan = TRUE]
  <3>1. PICK q \in SbCallRow : q = sbCalls[c] BY DEF SbTyped
  <3>2. PICK r : r = [q EXCEPT !.orphan = TRUE] OBVIOUS
  <3>3. r.pc = q.pc /\ r.op = q.op /\ r.text = q.text BY <3>1, <3>2 DEF SbCallRow
  <3> QED BY <2>3, <3>1, <3>2, <3>3
 <2> QED BY <2>1, <2>2, <2>3
<1>2. SbTextsNew'
 <2>1. \A w \in SbWriters : SbYet(w)' => SbYet(w) BY <1>1 DEF SbYet
 <2>2. \A c \in SbCalls : SbKnown(sbCalls'[c].text) BY <1>1 DEF SbKnown
 <2>3. SbKnown(sbSeen') /\ SbKnown(sbFile'.text) BY DEF SbKnown
 <2> QED BY <1>0, <2>1, <2>2, <2>3, SbTextsKept
<1>3. SbFileWritten' BY <1>0, <1>1 DEF SbFileWritten
<1>4. SbKnownIsFresh' BY <1>0, <1>1 DEF SbKnownIsFresh, SbFresh
<1>5. SbLocalEdits' BY <1>0 DEF SbLocalEdits
<1> QED BY <1>2, <1>3, <1>4, <1>5 DEF SbEditInv

\* The steps of turns and of other instances.
LEMMA SbTurnSteps ==
  ASSUME SbInv, SbEditInv,
         \/ SbBegin \/ (\E b \in BOOLEAN : SbFinish(b)) \/ SbClose
         \/ SbList \/ (\E id \in sbReconcile : SbRemove(id)) \/ SbContainerDies
  PROVE  SbEditInv'
<1>0. SbTyped BY DEF SbInv
<1>1. UNCHANGED <<sbKind, sbFile, sbMarks, sbSeen>>
  BY DEF SbBegin, SbFinish, SbClose, SbList, SbRemove, SbContainerDies
<1>2. sbCount'.edits = sbCount.edits
 <2>1. sbCount' = sbCount \/ sbCount' = [sbCount EXCEPT !.faults = @ + 1]
   BY DEF SbBegin, SbFinish, SbClose, SbList, SbRemove, SbContainerDies, SbFault
 <2> QED BY <1>0, <2>1 DEF SbTyped
<1>3. /\ sbPast'.used = sbPast.used /\ sbPast'.raced = sbPast.raced
      /\ sbPast'.refused = sbPast.refused
 <2>1. PICK p \in SbPastRow : p = sbPast BY <1>0 DEF SbTyped
 <2>2. \/ sbPast' = p
       \/ \E b : sbPast' = [p EXCEPT !.left = b]
       \/ \E b : sbPast' = [p EXCEPT !.ran = b]
   BY <2>1 DEF SbBegin, SbFinish, SbClose, SbList, SbRemove, SbContainerDies
 <2> QED BY <2>1, <2>2 DEF SbPastRow
<1>4. ASSUME NEW c \in SbCalls
      PROVE  \/ sbCalls'[c] = sbCalls[c]
             \/ sbCalls'[c] = SbDone
             \/ /\ sbCalls[c].pc \notin {"done", "check"}
                /\ sbCalls'[c] = [sbCalls[c] EXCEPT !.orphan = TRUE]
  BY DEF SbBegin, SbFinish, SbClose, SbList, SbRemove, SbContainerDies
<1> QED BY <1>0, <1>1, <1>2, <1>3, <1>4, SbTurnEdits

\* A process that dies knows no text that a file has.
LEMMA SbCrashEdits ==
  ASSUME SbInv, SbEditInv, SbCrash
  PROVE  SbEditInv'
<1>0. SbTyped /\ SbTextsNew /\ SbFileWritten /\ SbKnownIsFresh /\ SbLocalEdits
  BY DEF SbInv, SbEditInv
<1>1. /\ sbCalls' = [c \in SbCalls |-> SbDone] /\ sbSeen' = SbNoText
      /\ sbCount' = [sbCount EXCEPT !.faults = @ + 1]
      /\ UNCHANGED <<sbKind, sbFile>> BY DEF SbCrash, SbFault
<1>2. sbCount'.edits = sbCount.edits BY <1>0, <1>1 DEF SbTyped
<1>3. /\ sbPast'.used = sbPast.used /\ sbPast'.raced = sbPast.raced
      /\ sbPast'.refused = sbPast.refused
 <2>1. PICK p \in SbPastRow : p = sbPast BY <1>0 DEF SbTyped
 <2>2. \E b : sbPast' = [p EXCEPT !.left = b] BY <2>1 DEF SbCrash
 <2> QED BY <2>1, <2>2 DEF SbPastRow
<1>4. \A c \in SbCalls : sbCalls'[c].pc = "done" /\ sbCalls'[c].text = SbNoText BY <1>1 DEF SbDone
<1>5. SbTextsNew'
 <2>1. \A w \in SbWriters : SbYet(w)' => SbYet(w) BY <1>2, <1>3, <1>4 DEF SbYet
 <2>2. \A c \in SbCalls : SbKnown(sbCalls'[c].text) BY <1>4 DEF SbKnown
 <2>3. SbKnown(sbSeen') /\ SbKnown(sbFile'.text) BY <1>1 DEF SbKnown
 <2> QED BY <1>0, <2>1, <2>2, <2>3, SbTextsKept
<1>6. SbFileWritten' BY <1>0, <1>1, <1>4 DEF SbFileWritten
<1>7. SbKnownIsFresh'
 <2>1. SbNoText.y = "none" BY DEF SbNoText, SbText
 <2> QED BY <1>0, <1>1, <1>4, <2>1 DEF SbKnownIsFresh, SbFileWritten
<1>8. SbLocalEdits' BY <1>0, <1>1, <1>2, <1>3 DEF SbLocalEdits
<1> QED BY <1>5, <1>6, <1>7, <1>8 DEF SbEditInv

\* The user's first edit is in no text that the agent knows.
LEMMA SbUserEditsKeep ==
  ASSUME SbInv, SbEditInv, SbUserEdits
  PROVE  SbEditInv'
<1>0. SbTyped /\ SbTextsNew /\ SbFileWritten /\ SbKnownIsFresh /\ SbLocalEdits
  BY DEF SbInv, SbEditInv
<1>1. UNCHANGED <<sbKind, sbMarks, sbSeen, sbCalls, sbPast>> BY DEF SbUserEdits
<1>2. PICK edits \in Nat : edits = sbCount.edits /\ sbCount'.edits = edits + 1
 <2>1. PICK n : n = sbCount OBVIOUS
 <2>2. n \in [edits: 0..SbMaxEdits, faults: 0..SbMaxFaults] /\ sbCount' = [n EXCEPT !.edits = n.edits + 1]
   BY <1>0, <2>1 DEF SbUserEdits, SbTyped
 <2>3. n.edits \in Nat /\ sbCount'.edits = n.edits + 1 BY <2>2, SbAssumption
 <2> QED BY <2>1, <2>3
<1>3. PICK old \in SbTextRow : old = sbFile.text BY <1>0 DEF SbTyped, SbFileRow
<1>4. PICK text : text = [old EXCEPT !.y = "user"] OBVIOUS
<1>5. sbFile' = [text |-> text, stamp |-> sbFile.stamp + 1] BY <1>3, <1>4 DEF SbUserEdits
<1>6. /\ text.y = "user" /\ SbIn("user", text) /\ text.x = old.x
      /\ \A w : SbIn(w, text) => w = "user" \/ SbIn(w, old) BY <1>4 DEF SbTextRow, SbIn
<1>7. SbTextsNew'
 <2> SUFFICES ASSUME NEW w \in SbWriters, SbYet(w)'
              PROVE  ~SbIn(w, sbSeen') /\ ~SbIn(w, sbFile'.text)
                     /\ \A c \in SbCalls : ~SbIn(w, sbCalls'[c].text) BY DEF SbTextsNew, SbIn
 <2>1. SbYet(w) /\ w # "user" BY <1>1, <1>2, SbAssumption DEF SbYet
 <2>2. /\ ~SbIn(w, sbSeen) /\ ~SbIn(w, old) /\ \A c \in SbCalls : ~SbIn(w, sbCalls[c].text)
   BY <1>0, <1>3, <2>1 DEF SbTextsNew
 <2>3. ~SbIn(w, text) BY <1>6, <2>1, <2>2
 <2> QED BY <1>1, <1>5, <2>2, <2>3
<1>8. SbFileWritten'
 <2>1. sbFile'.text.y # "none" /\ sbFile'.stamp # 0 BY <1>0, <1>5, <1>6 DEF SbTyped, SbFileRow
 <2> QED BY <1>0, <1>1, <2>1 DEF SbFileWritten
<1>9. SbKnownIsFresh'
 <2> SUFFICES ASSUME sbCount'.edits <= 1
              PROVE  sbSeen # text /\ \A c \in SbCalls : sbCalls[c].text # text
   BY <1>1, <1>5 DEF SbKnownIsFresh
 <2>1. edits = 0 BY <1>2
 <2>2. SbYet("user") /\ "user" \in SbWriters BY <1>2, <2>1 DEF SbYet, SbWriters
 <2>3. ~SbIn("user", sbSeen) /\ \A c \in SbCalls : ~SbIn("user", sbCalls[c].text)
   BY <1>0, <2>2 DEF SbTextsNew
 <2> QED BY <1>6, <2>3
<1>10. SbLocalEdits' BY <1>0, <1>1, <1>2 DEF SbLocalEdits
<1> QED BY <1>7, <1>8, <1>9, <1>10 DEF SbEditInv

\* Every step keeps what is said of edits.
LEMMA SbNextKeepsEdits == SbInv /\ SbEditInv /\ [SbNext]_sbVars => SbEditInv'
<1> SUFFICES ASSUME SbInv, SbEditInv, [SbNext]_sbVars PROVE SbEditInv' OBVIOUS
<1>1. CASE SbNext
 <2>1. ASSUME NEW c \in SbCalls,
              \/ SbCheck(c) \/ SbInvoke(c) \/ SbEnsure(c) \/ SbClear(c) \/ SbCreate(c) \/ SbStart(c)
              \/ SbExec(c) \/ SbTimeout(c) \/ SbValidate(c) \/ SbLoad(c) \/ SbStore(c) \/ SbMark(c)
       PROVE  SbEditInv' BY <2>1, SbCheckEdits, SbQuietSteps, SbStoreEdits, SbMarkEdits
 <2>2. CASE \/ SbBegin \/ (\E b \in BOOLEAN : SbFinish(b)) \/ SbClose \/ SbCrash
            \/ SbList \/ (\E id \in sbReconcile : SbRemove(id)) \/ SbContainerDies \/ SbUserEdits
   BY <2>2, SbTurnSteps, SbCrashEdits, SbUserEditsKeep
 <2> QED BY <1>1, <2>1, <2>2, SbMessageEdits DEF SbNext
<1>2. CASE UNCHANGED sbVars BY <1>2, SbTurnEdits DEF sbVars, SbInv
<1> QED BY <1>1, <1>2

\* At first only what is on the disk has been written.
LEMMA SbInitEdits == SbInit => SbEditInv
<1> SUFFICES ASSUME SbInit PROVE SbEditInv OBVIOUS
<1>1. /\ sbSeen = SbNoText /\ \A c \in SbCalls : sbCalls[c].text = SbNoText /\ sbCalls[c].pc = "done"
      /\ ~sbPast.refused
      /\ \/ sbFile.text = SbNoText /\ sbFile.stamp = 0
         \/ sbFile.text = SbText("old", "old") /\ sbFile.stamp = 1 BY DEF SbInit, SbDone
<1>2. /\ SbNoText.x = "none" /\ SbNoText.y = "none"
      /\ SbText("old", "old").x = "old" /\ SbText("old", "old").y = "old" BY DEF SbNoText, SbText
<1>3. SbTextsNew
 <2> SUFFICES ASSUME NEW w \in SbWriters, SbYet(w)
              PROVE  /\ ~SbIn(w, sbSeen) /\ ~SbIn(w, sbFile.text)
                     /\ \A c \in SbCalls : ~SbIn(w, sbCalls[c].text) BY DEF SbTextsNew
 <2>1. w \notin {"old", "none"} BY SbAssumption DEF SbYet
 <2> QED BY <1>1, <1>2, <2>1 DEF SbIn
<1>4. SbFileWritten BY <1>1, <1>2 DEF SbFileWritten
<1>5. SbKnownIsFresh BY <1>1, <1>2 DEF SbKnownIsFresh
<1>6. SbLocalEdits BY <1>1 DEF SbLocalEdits
<1> QED BY <1>3, <1>4, <1>5, <1>6 DEF SbEditInv

\* The invariants imply what is checked.
LEMMA SbInvHolds == SbInv /\ SbEditInv => SbTypeOK /\ SbSandboxHolds
<1> SUFFICES ASSUME SbInv, SbEditInv PROVE SbTypeOK /\ SbSandboxHolds OBVIOUS
<1>1. SbTypeOK
 <2>1. sbCount.edits <= SbMaxEdits /\ sbCount.faults <= SbMaxFaults
   BY SbAssumption DEF SbInv, SbTyped
 <2> QED BY <2>1 DEF SbTypeOK, SbInv, SbTyped, SbFileRow, SbTextRow, SbDockerRow
<1>2. SbClosedIsGone BY DEF SbInv, SbBoxHolds, SbClosedIsGone
<1> QED BY <1>1, <1>2 DEF SbInv, SbMarksHold, SbEditInv, SbSandboxHolds

\* Tools of a turn patch what was read, local edits of what the agent knows pass,
\* and a container is gone when the turn that used it is (container_sandbox.py,
\* policy.py; SbSandboxHolds).
THEOREM SandboxSafe == SbSpec => [](SbTypeOK /\ SbSandboxHolds)
<1>1. SbInit => SbInv /\ SbEditInv BY SbInitHolds, SbInitEdits
<1>2. SbInv /\ SbEditInv /\ [SbNext]_sbVars => SbInv' /\ SbEditInv'
  BY SbNextKeepsInv, SbNextKeepsEdits
<1> QED BY <1>1, <1>2, SbInvHolds, PTL DEF SbSpec

--------------------
(* Turns. *)

(* What an engine, a session and an approval are, and the rows of a trace. *)
TeEngineRow(e) ==
  /\ e = [checker |-> e.checker, steps |-> e.steps, attempts |-> e.attempts, retries |-> e.retries,
          argRetries |-> e.argRetries, last |-> e.last, repeats |-> e.repeats, calls |-> e.calls]
  /\ e.steps \in 0..TeMaxSteps /\ e.calls \in Seq(TeTools)

TeSessionRow(s) ==
  /\ s = [mode |-> s.mode, permission |-> s.permission, stop |-> s.stop, review |-> s.review,
          approved |-> s.approved]
  /\ s.mode \in {"default", "plan"} /\ s.permission \in TePermissions /\ s.approved \subseteq TeTools

TeResults == {"none", "once", "session", "deny"}

TeEntryRow(e) ==
  /\ e = [tool |-> e.tool, result |-> e.result, queued |-> e.queued]
  /\ e.result \in TeResults

TeTypes == {"turn_started", "error", "cancelled", "final", "step_limit", "workspace_diff_ready",
            "run_finished", "turn_finished"}
TeEventRow == [type: TeTypes, status: TeEnded \cup {"none"}]

TePcs == {"idle", "prepare", "loop", "model", "tool", "waiting", "call", "diff", "finish",
          "turn_end", "close"}

TeTyped ==
  /\ TeSessionRow(teSession) /\ TeEngineRow(teEngine) /\ TeEntryRow(teEntry)
  /\ teStale \subseteq TeTools
  /\ tePc \in TePcs
  /\ teTrace \in Seq(TeEventRow)

(* The engine has a call in hand where it decides on one, with a step left
   for it where it waits for an answer or runs it. *)
TeCallInHand ==
  /\ tePc \in {"tool", "waiting", "call"} => teEngine.calls # <<>>
  /\ tePc \in {"waiting", "call"} => teEngine.steps < TeMaxSteps

(* An approval is queued only while its waiter, or what is left of its run,
   is there; the waiter's is that of the call in hand, and has an answer
   once it has left the queue. *)
TeEntryHolds ==
  /\ teEntry.queued => /\ teEntry.tool \in TeTools /\ teEntry.result = "none"
                       /\ tePc \in {"waiting", "diff", "finish", "turn_end", "close"}
  /\ tePc = "waiting" => /\ teEntry.tool = Head(teEngine.calls)
                         /\ ~teEntry.queued => teEntry.result \in {"once", "session", "deny"}

(* The forms a trace has: open, with the run closed, with the turn closed. *)
TeIsEnd(event) == event.type \in {"run_finished", "turn_finished"}
TeIn(tr, type) == \E i \in 1..Len(tr) : tr[i].type = type
TeOpen(tr) == \A i \in 1..Len(tr) : ~TeIsEnd(tr[i])
TeDecided(tr) == \E type \in {"cancelled", "error", "final", "step_limit"} : TeIn(tr, type)

TeRunClosed(tr) ==
  /\ Len(tr) >= 1 /\ tr[Len(tr)].type = "run_finished" /\ tr[Len(tr)].status \in TeEnded
  /\ \A i \in 1..Len(tr) - 1 : ~TeIsEnd(tr[i])
  /\ tr[Len(tr)].status = "cancelled" <=> \E i \in 1..Len(tr) - 1 : tr[i].type = "cancelled"

TeTurnClosed(tr) ==
  /\ Len(tr) >= 2 /\ tr[Len(tr)].type = "turn_finished"
  /\ tr[Len(tr) - 1].type = "run_finished" /\ tr[Len(tr) - 1].status \in TeEnded
  /\ \A i \in 1..Len(tr) - 2 : ~TeIsEnd(tr[i])
  /\ tr[Len(tr) - 1].status = "cancelled" <=> \E i \in 1..Len(tr) - 2 : tr[i].type = "cancelled"

TeTraceHolds ==
  /\ tePc \in {"prepare", "loop", "model", "tool", "waiting", "call", "diff", "finish"} => TeOpen(teTrace)
  /\ tePc = "prepare" => ~TeIn(teTrace, "cancelled")
  /\ tePc \in {"diff", "finish"} => TeDecided(teTrace)
  /\ tePc = "turn_end" => TeRunClosed(teTrace)
  /\ tePc = "close" => TeOpen(teTrace) \/ TeRunClosed(teTrace) \/ TeTurnClosed(teTrace)
  /\ tePc = "idle" => teTrace = <<>> \/ TeTurnClosed(teTrace)

TeInv == TeTyped /\ TeCallInHand /\ TeEntryHolds /\ TeTraceHolds /\ TeOnlyGranted

--------------------
(* What is appended to a trace. *)

\* What a sequence of events that end nothing leaves open stays open, and keeps
\* its events.
LEMMA TeAppendOpen ==
  ASSUME NEW tr \in Seq(TeEventRow), NEW es \in Seq(TeEventRow), TeOpen(tr),
         \A i \in 1..Len(es) : ~TeIsEnd(es[i])
  PROVE  /\ tr \o es \in Seq(TeEventRow) /\ TeOpen(tr \o es)
         /\ \A type : TeIn(tr \o es, type) <=> TeIn(tr, type) \/ TeIn(es, type)
<1> DEFINE all == tr \o es
<1>1. /\ all \in Seq(TeEventRow) /\ Len(all) = Len(tr) + Len(es) /\ Len(tr) \in Nat /\ Len(es) \in Nat
      /\ \A i \in 1..Len(tr) : all[i] = tr[i]
      /\ \A i \in 1..Len(es) : all[Len(tr) + i] = es[i] BY ConcatProperties
<1>2. \A i \in 1..Len(all) : i \in 1..Len(tr) \/ \E j \in 1..Len(es) : i = Len(tr) + j
 <2> SUFFICES ASSUME NEW i \in 1..Len(all), i \notin 1..Len(tr)
              PROVE  \E j \in 1..Len(es) : i = Len(tr) + j OBVIOUS
 <2>1. i - Len(tr) \in 1..Len(es) /\ i = Len(tr) + (i - Len(tr)) BY <1>1
 <2> QED BY <2>1
<1>3. /\ \A i \in 1..Len(tr) : i \in 1..Len(all)
      /\ \A j \in 1..Len(es) : Len(tr) + j \in 1..Len(all) BY <1>1
<1> HIDE DEF all
<1>4. TeOpen(all) BY <1>1, <1>2 DEF TeOpen
<1>5. \A type : TeIn(all, type) <=> TeIn(tr, type) \/ TeIn(es, type)
 <2> SUFFICES ASSUME NEW type PROVE TeIn(all, type) <=> TeIn(tr, type) \/ TeIn(es, type) OBVIOUS
 <2>1. ASSUME TeIn(all, type) PROVE TeIn(tr, type) \/ TeIn(es, type)
  <3>1. PICK i \in 1..Len(all) : all[i].type = type BY <2>1 DEF TeIn
  <3>2. CASE i \in 1..Len(tr) BY <1>1, <3>1, <3>2 DEF TeIn
  <3>3. CASE \E j \in 1..Len(es) : i = Len(tr) + j BY <1>1, <3>1, <3>3 DEF TeIn
  <3> QED BY <1>2, <3>2, <3>3
 <2>2. ASSUME TeIn(tr, type) PROVE TeIn(all, type) BY <1>1, <1>3, <2>2 DEF TeIn
 <2>3. ASSUME TeIn(es, type) PROVE TeIn(all, type)
  <3>1. PICK j \in 1..Len(es) : es[j].type = type BY <2>3 DEF TeIn
  <3>2. all[Len(tr) + j].type = type /\ Len(tr) + j \in 1..Len(all) BY <1>1, <1>3, <3>1
  <3> QED BY <3>2 DEF TeIn
 <2> QED BY <2>1, <2>2, <2>3
<1> QED BY <1>1, <1>4, <1>5 DEF all

\* A run is closed by a status that agrees with its events.
LEMMA TeCloseRun ==
  ASSUME NEW tr \in Seq(TeEventRow), TeOpen(tr), NEW status \in TeEnded,
         status = "cancelled" <=> TeIn(tr, "cancelled")
  PROVE  /\ tr \o <<Finished(status)>> \in Seq(TeEventRow)
         /\ TeRunClosed(tr \o <<Finished(status)>>)
<1> DEFINE all == tr \o <<Finished(status)>>
<1>1. Finished(status) \in TeEventRow /\ Finished(status).type = "run_finished" /\ Finished(status).status = status
  BY DEF Finished, TeEventRow, TeTypes
<1>2. /\ all \in Seq(TeEventRow) /\ Len(all) = Len(tr) + 1 /\ Len(tr) \in Nat
      /\ \A i \in 1..Len(tr) : all[i] = tr[i]
      /\ all[Len(tr) + 1] = Finished(status) BY <1>1
<1> HIDE DEF all
<1>3. TeRunClosed(all) BY <1>1, <1>2 DEF TeRunClosed, TeOpen, TeIn
<1> QED BY <1>2, <1>3 DEF all

\* A turn is closed after its run.
LEMMA TeCloseTurn ==
  ASSUME NEW tr \in Seq(TeEventRow), TeRunClosed(tr)
  PROVE  /\ tr \o <<TeEvent("turn_finished")>> \in Seq(TeEventRow)
         /\ TeTurnClosed(tr \o <<TeEvent("turn_finished")>>)
<1> DEFINE all == tr \o <<TeEvent("turn_finished")>>
<1>1. TeEvent("turn_finished") \in TeEventRow /\ TeEvent("turn_finished").type = "turn_finished"
  BY DEF TeEvent, TeEventRow, TeTypes
<1>2. /\ all \in Seq(TeEventRow) /\ Len(all) = Len(tr) + 1 /\ Len(tr) \in Nat
      /\ \A i \in 1..Len(tr) : all[i] = tr[i]
      /\ all[Len(tr) + 1] = TeEvent("turn_finished") BY <1>1
<1> HIDE DEF all
<1>3. TeTurnClosed(all) BY <1>1, <1>2 DEF TeTurnClosed, TeRunClosed
<1> QED BY <1>2, <1>3 DEF all

\* The status of a trace: of an open one by its events, of a closed one the
\* one it records.
LEMMA TeStatus ==
  ASSUME teTrace \in Seq(TeEventRow)
  PROVE  /\ TeOpen(teTrace) =>
              /\ ~InTrace("run_finished") /\ ~InTrace("turn_finished")
              /\ TeStatusOf = "cancelled" <=> TeIn(teTrace, "cancelled")
              /\ TeDecided(teTrace) => TeStatusOf \in TeEnded
              /\ TeStatusOf \in TeEnded \cup {"running"}
         /\ \A type : InTrace(type) <=> TeIn(teTrace, type)
<1>1. \A type : InTrace(type) <=> TeIn(teTrace, type) BY DEF InTrace, TeIn
<1>2. ASSUME TeOpen(teTrace) PROVE ~InTrace("run_finished") /\ ~InTrace("turn_finished")
  BY <1>1, <1>2 DEF TeOpen, TeIn, TeIsEnd
<1>3. ASSUME TeOpen(teTrace) PROVE TeStatusOf = "cancelled" <=> TeIn(teTrace, "cancelled")
  BY <1>1, <1>2, <1>3 DEF TeStatusOf
<1>4. ASSUME TeOpen(teTrace), TeDecided(teTrace) PROVE TeStatusOf \in TeEnded
  BY <1>1, <1>2, <1>4 DEF TeStatusOf, TeEnded, TeDecided
<1>5. ASSUME TeOpen(teTrace) PROVE TeStatusOf \in TeEnded \cup {"running"}
  BY <1>1, <1>2, <1>5 DEF TeStatusOf, TeEnded
<1> QED BY <1>1, <1>2, <1>3, <1>4, <1>5

(* A turn's end at the end of a sequence, and a cancellation before it. *)
TeSeals(w, status) ==
  /\ Len(w) >= 2 /\ w[Len(w)].type = "turn_finished"
  /\ w[Len(w) - 1].type = "run_finished" /\ w[Len(w) - 1].status = status
  /\ \A i \in 1..Len(w) - 2 : ~TeIsEnd(w[i])
TeCancels(w) == \E i \in 1..Len(w) - 2 : w[i].type = "cancelled"

\* What seals an open trace is sealed.
LEMMA TeSealed ==
  ASSUME NEW tr \in Seq(TeEventRow), TeOpen(tr), NEW w \in Seq(TeEventRow), NEW status, TeSeals(w, status)
  PROVE  /\ tr \o w \in Seq(TeEventRow) /\ TeSeals(tr \o w, status)
         /\ TeCancels(tr \o w) <=> TeIn(tr, "cancelled") \/ TeCancels(w)
<1> DEFINE all == tr \o w
<1>1. /\ all \in Seq(TeEventRow) /\ Len(all) = Len(tr) + Len(w) /\ Len(tr) \in Nat /\ Len(w) \in Nat
      /\ \A i \in 1..Len(tr) : all[i] = tr[i]
      /\ \A i \in 1..Len(w) : all[Len(tr) + i] = w[i] BY ConcatProperties
<1>2. Len(w) >= 2 /\ Len(w) \in 1..Len(w) /\ Len(w) - 1 \in 1..Len(w) BY <1>1 DEF TeSeals
<1> HIDE DEF all
<1>3. \A i \in 1..Len(all) - 2 : i \in 1..Len(tr) \/ \E j \in 1..Len(w) - 2 : i = Len(tr) + j
 <2> SUFFICES ASSUME NEW i \in 1..Len(all) - 2, i \notin 1..Len(tr)
              PROVE  \E j \in 1..Len(w) - 2 : i = Len(tr) + j OBVIOUS
 <2>1. i - Len(tr) \in 1..Len(w) - 2 /\ i = Len(tr) + (i - Len(tr)) BY <1>1, <1>2
 <2> QED BY <2>1
<1>4. /\ \A i \in 1..Len(tr) : i \in 1..Len(all) - 2
      /\ \A j \in 1..Len(w) - 2 : Len(tr) + j \in 1..Len(all) - 2 /\ j \in 1..Len(w) BY <1>1, <1>2
<1>5. all[Len(all)] = w[Len(w)] /\ all[Len(all) - 1] = w[Len(w) - 1] /\ Len(all) >= 2
 <2>1. Len(all) = Len(tr) + Len(w) /\ Len(all) - 1 = Len(tr) + (Len(w) - 1) BY <1>1
 <2> QED BY <1>1, <1>2, <2>1
<1>6. \A i \in 1..Len(all) - 2 : ~TeIsEnd(all[i]) BY <1>1, <1>3, <1>4 DEF TeOpen, TeSeals
<1>7. TeSeals(all, status) BY <1>5, <1>6 DEF TeSeals
<1>8. TeCancels(all) <=> TeIn(tr, "cancelled") \/ TeCancels(w)
 <2>1. ASSUME TeCancels(all) PROVE TeIn(tr, "cancelled") \/ TeCancels(w)
   BY <1>1, <1>3, <1>4, <2>1 DEF TeCancels, TeIn
 <2>2. ASSUME TeIn(tr, "cancelled") PROVE TeCancels(all) BY <1>1, <1>4, <2>2 DEF TeCancels, TeIn
 <2>3. ASSUME TeCancels(w) PROVE TeCancels(all)
  <3>1. PICK j \in 1..Len(w) - 2 : w[j].type = "cancelled" BY <2>3 DEF TeCancels
  <3>2. all[Len(tr) + j].type = "cancelled" /\ Len(tr) + j \in 1..Len(all) - 2 BY <1>1, <1>4, <3>1
  <3> QED BY <3>2 DEF TeCancels
 <2> QED BY <2>1, <2>2, <2>3
<1> QED BY <1>1, <1>7, <1>8 DEF all

\* A sealed trace is closed if its status agrees with its events.
LEMMA TeSealCloses ==
  ASSUME NEW tr, NEW status \in TeEnded, TeSeals(tr, status),
         status = "cancelled" <=> TeCancels(tr)
  PROVE  TeTurnClosed(tr)
BY DEF TeSeals, TeCancels, TeTurnClosed

\* What an open trace still lacks: the cancellation it ends by, its run's end
\* and its turn's.
LEMMA TeMissing ==
  ASSUME teTrace \in Seq(TeEventRow), TeOpen(teTrace), NEW status \in TeEnded
  PROVE  /\ MissingTerminals(status) \in Seq(TeEventRow)
         /\ TeSeals(MissingTerminals(status), status)
         /\ TeCancels(MissingTerminals(status)) <=> status = "cancelled" /\ ~TeIn(teTrace, "cancelled")
<1>1. /\ ~InTrace("run_finished") /\ ~InTrace("turn_finished")
      /\ InTrace("cancelled") <=> TeIn(teTrace, "cancelled") BY TeStatus
<1>. PICK fin : fin = Finished(status) OBVIOUS
<1>. PICK tur : tur = TeEvent("turn_finished") OBVIOUS
<1>. PICK can : can = TeEvent("cancelled") OBVIOUS
<1>2. fin \in TeEventRow /\ fin = Finished(status) /\ fin.type = "run_finished" /\ fin.status = status
  BY DEF Finished, TeEventRow, TeTypes
<1>3. tur \in TeEventRow /\ tur = TeEvent("turn_finished") /\ tur.type = "turn_finished"
  BY DEF TeEvent, TeEventRow, TeTypes
<1>4. can \in TeEventRow /\ can = TeEvent("cancelled") /\ can.type = "cancelled"
  BY DEF TeEvent, TeEventRow, TeTypes
<1>5. CASE status = "cancelled" /\ ~InTrace("cancelled")
 <2>1. MissingTerminals(status) = <<can>> \o <<fin>> \o <<tur>>
   BY <1>1, <1>2, <1>3, <1>4, <1>5 DEF MissingTerminals
 <2>2. PICK w : w = <<can>> \o <<fin>> \o <<tur>> OBVIOUS
 <2>3. w \in Seq(TeEventRow) /\ Len(w) = 3 /\ w[1] = can /\ w[2] = fin /\ w[3] = tur
   BY <1>2, <1>3, <1>4, <2>2
 <2>4. TeSeals(w, status) /\ TeCancels(w)
  <3>1. \A i \in 1..Len(w) - 2 : i = 1 BY <2>3
  <3> QED BY <1>2, <1>3, <1>4, <2>3, <3>1 DEF TeSeals, TeCancels, TeIsEnd
 <2> QED BY <1>1, <1>5, <2>1, <2>2, <2>3, <2>4
<1>6. CASE ~(status = "cancelled" /\ ~InTrace("cancelled"))
 <2>1. MissingTerminals(status) = <<>> \o <<fin>> \o <<tur>>
   BY <1>1, <1>2, <1>3, <1>6 DEF MissingTerminals
 <2>2. PICK w : w = <<>> \o <<fin>> \o <<tur>> OBVIOUS
 <2>3. w \in Seq(TeEventRow) /\ Len(w) = 2 /\ w[1] = fin /\ w[2] = tur BY <1>2, <1>3, <1>4, <2>2
 <2>4. TeSeals(w, status) /\ ~TeCancels(w) BY <1>2, <1>3, <2>3 DEF TeSeals, TeCancels
 <2> QED BY <1>1, <1>6, <2>1, <2>2, <2>3, <2>4
<1> QED BY <1>5, <1>6

\* Whenever a turn's stream is over, closing it closes its trace once.
LEMMA TeClosing ==
  ASSUME teTrace \in Seq(TeEventRow),
         TeOpen(teTrace) \/ TeRunClosed(teTrace) \/ TeTurnClosed(teTrace)
  PROVE  /\ teTrace \o PersistRunTerminal \in Seq(TeEventRow)
         /\ TeTurnClosed(teTrace \o PersistRunTerminal)
<1>1. CASE TeOpen(teTrace)
 <2>1. PICK status : status = IF TeStatusOf = "running" THEN "cancelled" ELSE TeStatusOf OBVIOUS
 <2>2. PersistRunTerminal = MissingTerminals(status) BY <2>1 DEF PersistRunTerminal
 <2>3. status \in TeEnded /\ (status = "cancelled" \/ ~TeIn(teTrace, "cancelled"))
   BY <1>1, <2>1, TeStatus DEF TeEnded
 <2>4. /\ teTrace \o MissingTerminals(status) \in Seq(TeEventRow)
       /\ TeSeals(teTrace \o MissingTerminals(status), status)
       /\ status = "cancelled" <=> TeCancels(teTrace \o MissingTerminals(status))
   BY <1>1, <2>3, TeMissing, TeSealed
 <2> QED BY <2>2, <2>3, <2>4, TeSealCloses
<1>2. CASE TeRunClosed(teTrace)
 <2>1. InTrace("run_finished") /\ ~InTrace("turn_finished")
   BY <1>2 DEF InTrace, TeRunClosed, TeIsEnd
 <2>2. TeStatusOf = "cancelled" => InTrace("cancelled")
  <3>1. PICK n : n = Len(teTrace) /\ n \in 1..Len(teTrace) BY <1>2 DEF TeRunClosed
  <3>2. \A j \in DOMAIN teTrace : teTrace[j].type = "run_finished" => j = n
    BY <1>2, <3>1 DEF TeRunClosed, TeIsEnd
  <3>3. (CHOOSE j \in DOMAIN teTrace : teTrace[j].type = "run_finished") = n
    BY <1>2, <3>1, <3>2 DEF TeRunClosed
  <3>4. TeStatusOf = teTrace[n].status BY <2>1, <3>3 DEF TeStatusOf
  <3> QED BY <1>2, <3>1, <3>4 DEF TeRunClosed, InTrace
 <2>3. TeStatusOf # "running"
  <3>1. PICK n : n = Len(teTrace) /\ n \in 1..Len(teTrace) BY <1>2 DEF TeRunClosed
  <3>2. \A j \in DOMAIN teTrace : teTrace[j].type = "run_finished" => j = n
    BY <1>2, <3>1 DEF TeRunClosed, TeIsEnd
  <3>3. (CHOOSE j \in DOMAIN teTrace : teTrace[j].type = "run_finished") = n
    BY <1>2, <3>1, <3>2 DEF TeRunClosed
  <3>4. TeStatusOf = teTrace[n].status BY <2>1, <3>3 DEF TeStatusOf
  <3> QED BY <1>2, <3>1, <3>4 DEF TeRunClosed, TeEnded
 <2>4. PersistRunTerminal = <<TeEvent("turn_finished")>>
  <3>1. PersistRunTerminal = <<>> \o <<>> \o <<TeEvent("turn_finished")>>
    BY <2>1, <2>2, <2>3 DEF PersistRunTerminal, MissingTerminals
  <3>2. TeEvent("turn_finished") \in TeEventRow BY DEF TeEvent, TeEventRow, TeTypes
  <3> QED BY <3>1, <3>2
 <2> QED BY <1>2, <2>4, TeCloseTurn
<1>3. CASE TeTurnClosed(teTrace)
 <2>1. PICK n : n = Len(teTrace) - 1 /\ n \in 1..Len(teTrace) /\ n + 1 = Len(teTrace) /\ n \in Nat
   BY <1>3 DEF TeTurnClosed
 <2>2. InTrace("run_finished") /\ InTrace("turn_finished") BY <1>3, <2>1 DEF InTrace, TeTurnClosed
 <2>3. \A j \in DOMAIN teTrace : teTrace[j].type = "run_finished" => j = n
   BY <1>3, <2>1 DEF TeTurnClosed, TeIsEnd
 <2>4. (CHOOSE j \in DOMAIN teTrace : teTrace[j].type = "run_finished") = n
   BY <1>3, <2>1, <2>3 DEF TeTurnClosed
 <2>5. TeStatusOf = teTrace[n].status BY <2>2, <2>4 DEF TeStatusOf
 <2>6. TeStatusOf \in TeEnded /\ (TeStatusOf = "cancelled" => InTrace("cancelled"))
   BY <1>3, <2>1, <2>5 DEF TeTurnClosed, InTrace
 <2>7. PersistRunTerminal = <<>> BY <2>2, <2>6 DEF PersistRunTerminal, MissingTerminals, TeEnded
 <2> QED BY <1>3, <2>7
<1> QED BY <1>1, <1>2, <1>3

--------------------
(* The steps of a turn. *)

\* The engine's events of an ending.
TeEndings == {<<"cancelled">>, <<"step_limit">>, <<"error", "cancelled">>, <<"final">>, <<"error">>}

\* An ending leaves the run open, and decides it.
LEMMA TeEndingEvents ==
  ASSUME NEW types \in TeEndings
  PROVE  \E es \in Seq(TeEventRow) :
           /\ es = [i \in DOMAIN types |-> TeEvent(types[i])]
           /\ \A i \in 1..Len(es) : ~TeIsEnd(es[i])
           /\ TeDecided(es)
<1> PICK es : es = [i \in DOMAIN types |-> TeEvent(types[i])] OBVIOUS
<1>1. ASSUME NEW t \in {"cancelled", "error", "final", "step_limit"}
      PROVE  TeEvent(t) \in TeEventRow /\ TeEvent(t).type = t /\ ~TeIsEnd(TeEvent(t))
  BY DEF TeEvent, TeEventRow, TeTypes, TeIsEnd
<1>2. CASE types = <<"error", "cancelled">>
 <2>1. es \in Seq(TeEventRow) /\ Len(es) = 2 /\ es[1] = TeEvent("error") /\ es[2] = TeEvent("cancelled")
  <3>1. DOMAIN types = 1..2 /\ types[1] = "error" /\ types[2] = "cancelled" BY <1>2
  <3>2. es = [i \in 1..2 |-> TeEvent(types[i])] BY <3>1
  <3>3. \A i \in 1..2 : es[i] \in TeEventRow
   <4>1. \A i \in 1..2 : i = 1 \/ i = 2 OBVIOUS
   <4> QED BY <1>1, <3>1, <3>2, <4>1
  <3>4. es \in Seq(TeEventRow) /\ Len(es) = 2
   <4>1. es \in [1..2 -> TeEventRow] BY <3>2, <3>3
   <4> QED BY <4>1
  <3> QED BY <3>1, <3>2, <3>4
 <2>2. \A i \in 1..Len(es) : i = 1 \/ i = 2 BY <2>1
 <2>3. \A i \in 1..Len(es) : ~TeIsEnd(es[i]) BY <1>1, <2>1, <2>2
 <2>4. TeDecided(es) BY <1>1, <2>1 DEF TeDecided, TeIn
 <2> QED BY <2>1, <2>3, <2>4
<1>3. CASE \E t \in {"cancelled", "error", "final", "step_limit"} : types = <<t>>
 <2>1. PICK t \in {"cancelled", "error", "final", "step_limit"} : types = <<t>> BY <1>3
 <2>2. DOMAIN types = 1..1 /\ types[1] = t BY <2>1
 <2>3. es = [i \in 1..1 |-> TeEvent(types[i])] BY <2>2
 <2>4. \A i \in 1..1 : es[i] = TeEvent(t) /\ es[i] \in TeEventRow
  <3>1. \A i \in 1..1 : i = 1 OBVIOUS
  <3> QED BY <1>1, <2>2, <2>3, <3>1
 <2>5. es \in Seq(TeEventRow) /\ Len(es) = 1
  <3>1. es \in [1..1 -> TeEventRow] BY <2>3, <2>4
  <3> QED BY <3>1
 <2>6. \A i \in 1..Len(es) : ~TeIsEnd(es[i]) BY <1>1, <2>4, <2>5
 <2>7. TeDecided(es) BY <1>1, <2>4, <2>5 DEF TeDecided, TeIn
 <2> QED BY <2>5, <2>6, <2>7
<1> QED BY <1>2, <1>3 DEF TeEndings

\* Nobody waits with no engine or no approval.
LEMMA TeNothing ==
  /\ TeEngineRow(TeNoEngine) /\ TeEntryRow(NoEntry) /\ ~NoEntry.queued
<1>1. TeMaxSteps \in Nat BY TeAssumption
<1> QED BY <1>1 DEF TeNoEngine, TeEngineRow, NoEntry, TeEntryRow, TeResults

\* The engine's stream ends, by whatever it ends.
LEMMA TeEngineEndKeeps ==
  ASSUME TeInv, tePc \in {"loop", "model", "tool", "waiting", "call"},
         NEW types \in TeEndings, EngineEnds(types),
         UNCHANGED <<teStale, teEntry>>, TeSessionRow(teSession')
  PROVE  TeInv'
<1>0. TeTyped /\ TeCallInHand /\ TeEntryHolds /\ TeTraceHolds BY DEF TeInv
<1>1. PICK es \in Seq(TeEventRow) : /\ teTrace' = teTrace \o es
                                    /\ \A i \in 1..Len(es) : ~TeIsEnd(es[i])
                                    /\ TeDecided(es) BY TeEndingEvents DEF EngineEnds, AppendTrace
<1>2. tePc' = "diff" /\ teEngine' = TeNoEngine BY DEF EngineEnds, TeGoto
<1>3. teTrace' \in Seq(TeEventRow) /\ TeOpen(teTrace') /\ TeDecided(teTrace')
 <2>1. teTrace \in Seq(TeEventRow) /\ TeOpen(teTrace) BY <1>0 DEF TeTyped, TeTraceHolds
 <2>2. /\ teTrace \o es \in Seq(TeEventRow) /\ TeOpen(teTrace \o es)
       /\ \A type : TeIn(teTrace \o es, type) <=> TeIn(teTrace, type) \/ TeIn(es, type)
   BY <1>1, <2>1, TeAppendOpen
 <2> QED BY <1>1, <2>2 DEF TeDecided
<1>4. TeTyped' BY <1>0, <1>2, <1>3, TeNothing DEF TeTyped, TePcs
<1>5. TeCallInHand' BY <1>2 DEF TeCallInHand
<1>6. TeEntryHolds' BY <1>0, <1>2 DEF TeEntryHolds
<1>7. TeTraceHolds' BY <1>2, <1>3 DEF TeTraceHolds
<1>8. TeOnlyGranted' BY <1>2 DEF TeOnlyGranted
<1> QED BY <1>4, <1>5, <1>6, <1>7, <1>8 DEF TeInv

\* A call is done, whatever came of it: the next one, or another round.
LEMMA TeToolDoneKeeps ==
  ASSUME TeInv, tePc \in {"tool", "waiting", "call"}, NEW e, TeEngineRow(e),
         e.calls = teEngine.calls, e.steps < TeMaxSteps, ToolDone(e), TeSessionRow(teSession')
  PROVE  TeInv'
<1>0. TeTyped /\ TeCallInHand /\ TeEntryHolds /\ TeTraceHolds BY DEF TeInv
<1>1. e.calls \in Seq(TeTools) /\ e.calls # <<>> BY <1>0 DEF TeCallInHand, TeEngineRow
<1>2. PICK f : f = [e EXCEPT !.steps = e.steps + 1, !.calls = Tail(e.calls)] OBVIOUS
<1>3. teEngine' = f /\ tePc' = (IF Len(e.calls) > 1 THEN "tool" ELSE "loop")
  BY <1>2 DEF ToolDone, TeGoto
<1>4. TeEngineRow(f) /\ f.calls = Tail(e.calls)
 <2>1. Tail(e.calls) \in Seq(TeTools) BY <1>1
 <2>2. e.steps + 1 \in 0..TeMaxSteps BY TeAssumption DEF TeEngineRow
 <2>3. /\ f = [checker |-> f.checker, steps |-> f.steps, attempts |-> f.attempts, retries |-> f.retries,
               argRetries |-> f.argRetries, last |-> f.last, repeats |-> f.repeats, calls |-> f.calls]
       /\ f.steps = e.steps + 1 /\ f.calls = Tail(e.calls) BY <1>2 DEF TeEngineRow
 <2> QED BY <2>1, <2>2, <2>3 DEF TeEngineRow
<1>5. tePc' = "tool" => teEngine'.calls # <<>>
 <2>1. ASSUME Len(e.calls) > 1 PROVE Tail(e.calls) # <<>>
  <3>1. PICK n \in Nat : n = Len(e.calls) BY <1>1
  <3>2. PICK rest : rest = Tail(e.calls) OBVIOUS
  <3>3. Len(rest) = n - 1 BY <1>1, <3>1, <3>2
  <3>4. n > 1 BY <2>1, <3>1
  <3>5. Len(rest) # 0 BY <3>3, <3>4
  <3>6. Len(<<>>) = 0 OBVIOUS
  <3> QED BY <3>2, <3>5, <3>6
 <2> QED BY <1>3, <1>4, <2>1
<1>6. teEntry' = NoEntry /\ teStale' \subseteq TeTools /\ UNCHANGED teTrace
  BY <1>0 DEF ToolDone, Abandon, TeEntryHolds, TeTyped
<1>7. TeTyped' BY <1>0, <1>3, <1>4, <1>6, TeNothing DEF TeTyped, TePcs
<1>8. TeCallInHand' BY <1>3, <1>5 DEF TeCallInHand
<1>9. TeEntryHolds' BY <1>3, <1>6, TeNothing DEF TeEntryHolds
<1>10. TeTraceHolds' BY <1>0, <1>3, <1>6 DEF TeTraceHolds
<1>11. TeOnlyGranted' BY <1>3 DEF TeOnlyGranted
<1> QED BY <1>7, <1>8, <1>9, <1>10, <1>11 DEF TeInv

\* The user acts: what a call in hand was granted stays granted.
LEMMA TeUserKeeps ==
  ASSUME TeInv, UNCHANGED <<tePc, teEngine, teTrace>>, TeSessionRow(teSession'),
         teSession.approved \subseteq teSession'.approved, teStale' \subseteq TeTools,
         \/ teEntry' = teEntry
         \/ /\ TeEntryRow(teEntry') /\ ~teEntry'.queued /\ teEntry'.tool = teEntry.tool
            /\ teEntry'.result \in {"once", "session", "deny"} /\ teEntry.queued
  PROVE  TeInv'
<1>0. TeTyped /\ TeCallInHand /\ TeEntryHolds /\ TeTraceHolds /\ TeOnlyGranted BY DEF TeInv
<1>1. TeTyped' BY <1>0 DEF TeTyped
<1>2. TeCallInHand' BY <1>0 DEF TeCallInHand
<1>3. TeEntryHolds' BY <1>0 DEF TeEntryHolds
<1>4. TeTraceHolds' BY <1>0 DEF TeTraceHolds
<1>5. TeOnlyGranted'
 <2>1. tePc = "call" => teEntry' = teEntry BY <1>0 DEF TeEntryHolds
 <2> QED BY <1>0, <2>1 DEF TeOnlyGranted
<1> QED BY <1>1, <1>2, <1>3, <1>4, <1>5 DEF TeInv

\* A turn starts with its own trace.
LEMMA TeStartKeeps ==
  ASSUME TeInv, TeStart
  PROVE  TeInv'
<1>0. TeTyped /\ TeCallInHand /\ TeEntryHolds /\ TeTraceHolds BY DEF TeInv
<1>1. /\ tePc = "idle" /\ tePc' = "prepare" /\ teTrace' = <<TeEvent("turn_started")>>
      /\ UNCHANGED <<teFresh, teStale, teEntry, teEngine>> BY DEF TeStart, TeGoto
<1>2. TeSessionRow(teSession')
 <2>1. PICK s : s = [teSession EXCEPT !.stop = FALSE] OBVIOUS
 <2>2. TeSessionRow(s) BY <1>0, <2>1 DEF TeTyped, TeSessionRow
 <2> QED BY <2>1, <2>2 DEF TeStart
<1>3. /\ teTrace' \in Seq(TeEventRow) /\ TeOpen(teTrace') /\ ~TeIn(teTrace', "cancelled")
 <2>1. PICK e : e = TeEvent("turn_started") OBVIOUS
 <2>2. e \in TeEventRow /\ e.type = "turn_started" BY <2>1 DEF TeEvent, TeEventRow, TeTypes
 <2>3. PICK tr : tr = <<e>> OBVIOUS
 <2>4. tr \in Seq(TeEventRow) /\ Len(tr) = 1 /\ tr[1] = e BY <2>2, <2>3
 <2>5. \A i \in 1..Len(tr) : tr[i] = e BY <2>4
 <2>6. TeOpen(tr) /\ ~TeIn(tr, "cancelled") BY <2>2, <2>5 DEF TeOpen, TeIn, TeIsEnd
 <2> QED BY <1>1, <2>1, <2>3, <2>4, <2>6
<1>4. TeTyped' BY <1>0, <1>1, <1>2, <1>3 DEF TeTyped, TePcs
<1>5. TeCallInHand' BY <1>1 DEF TeCallInHand
<1>6. TeEntryHolds' BY <1>0, <1>1 DEF TeEntryHolds
<1>7. TeTraceHolds' BY <1>1, <1>3 DEF TeTraceHolds
<1>8. TeOnlyGranted' BY <1>1 DEF TeOnlyGranted
<1> QED BY <1>4, <1>5, <1>6, <1>7, <1>8 DEF TeInv

\* What runs on without an event: the trace stays, and no call is under way.
LEMMA TeGoesOn ==
  ASSUME TeInv, tePc \in {"prepare", "loop", "model", "tool"},
         tePc' \in {"loop", "model", "tool"}, UNCHANGED <<teSession, teStale, teEntry, teTrace>>,
         TeEngineRow(teEngine'), tePc' = "tool" => teEngine'.calls # <<>>
  PROVE  TeInv'
<1>0. TeTyped /\ TeCallInHand /\ TeEntryHolds /\ TeTraceHolds BY DEF TeInv
<1>1. TeTyped' BY <1>0 DEF TeTyped, TePcs
<1>2. TeCallInHand' BY DEF TeCallInHand
<1>3. TeEntryHolds' BY <1>0 DEF TeEntryHolds
<1>4. TeTraceHolds' BY <1>0 DEF TeTraceHolds
<1>5. TeOnlyGranted' BY DEF TeOnlyGranted
<1> QED BY <1>1, <1>2, <1>3, <1>4, <1>5 DEF TeInv

\* The context is prepared and the engine built.
LEMMA TePrepareKeeps ==
  ASSUME TeInv, TePrepare
  PROVE  TeInv'
<1>1. TeEngineRow(TeNewEngine)
 <2>1. TeMaxSteps \in Nat BY TeAssumption
 <2> QED BY <2>1 DEF TeNewEngine, TeEngineRow
<1> QED BY <1>1, TeGoesOn DEF TePrepare, TeGoto

\* A turn that could not be prepared is closed all the same.
LEMMA TePrepareFailsKeeps ==
  ASSUME TeInv, TePrepareFails
  PROVE  TeInv'
<1>0. TeTyped /\ TeCallInHand /\ TeEntryHolds /\ TeTraceHolds BY DEF TeInv
<1>1. PICK ending \in {<<TeEvent("error")>>, <<>>} :
         teTrace' = teTrace \o (ending \o MissingTerminals(IF ending = <<>> THEN "cancelled" ELSE "error"))
  BY DEF TePrepareFails, AppendTrace
<1>2. tePc = "prepare" /\ tePc' = "idle" /\ teEngine' = TeNoEngine /\ UNCHANGED <<teStale, teEntry>>
  BY DEF TePrepareFails, TeReleased
<1>3. TeSessionRow(teSession')
 <2>1. PICK s : s = [teSession EXCEPT !.stop = FALSE] OBVIOUS
 <2>2. TeSessionRow(s) BY <1>0, <2>1 DEF TeTyped, TeSessionRow
 <2> QED BY <2>1, <2>2 DEF TePrepareFails, TeReleased
<1>4. teTrace \in Seq(TeEventRow) /\ TeOpen(teTrace) /\ ~TeIn(teTrace, "cancelled")
  BY <1>0, <1>2 DEF TeTyped, TeTraceHolds
<1>5. PICK status : status = IF ending = <<>> THEN "cancelled" ELSE "error" OBVIOUS
<1>6. status \in TeEnded BY <1>5 DEF TeEnded
<1>7. PICK w : w = MissingTerminals(status) OBVIOUS
<1>8. /\ w \in Seq(TeEventRow) /\ TeSeals(w, status)
      /\ TeCancels(w) <=> status = "cancelled" BY <1>4, <1>6, <1>7, TeMissing
<1>9. ending \in Seq(TeEventRow) /\ TeOpen(ending) /\ ~TeIn(ending, "cancelled")
 <2>1. CASE ending = <<>> BY <2>1 DEF TeOpen, TeIn
 <2>2. CASE ending = <<TeEvent("error")>>
  <3>1. PICK e : e = TeEvent("error") OBVIOUS
  <3>2. e \in TeEventRow /\ e.type = "error" BY <3>1 DEF TeEvent, TeEventRow, TeTypes
  <3>3. ending = <<e>> /\ ending \in Seq(TeEventRow) /\ Len(ending) = 1 /\ ending[1] = e
    BY <2>2, <3>1, <3>2
  <3>4. \A i \in 1..Len(ending) : ending[i] = e BY <3>3
  <3> QED BY <3>2, <3>3, <3>4 DEF TeOpen, TeIn, TeIsEnd
 <2> QED BY <2>1, <2>2
<1>10. PICK v : v = ending \o w OBVIOUS
<1>11. v \in Seq(TeEventRow) /\ TeSeals(v, status) /\ (TeCancels(v) <=> status = "cancelled")
  BY <1>8, <1>9, <1>10, TeSealed
<1>12. /\ teTrace \o v \in Seq(TeEventRow) /\ TeSeals(teTrace \o v, status)
       /\ TeCancels(teTrace \o v) <=> status = "cancelled" BY <1>4, <1>11, TeSealed
<1>13. teTrace' = teTrace \o v BY <1>1, <1>5, <1>7, <1>10
<1>14. TeTurnClosed(teTrace \o v) BY <1>6, <1>12, TeSealCloses
<1>15. TeTyped' BY <1>0, <1>2, <1>3, <1>12, <1>13, TeNothing DEF TeTyped, TePcs
<1>16. TeCallInHand' BY <1>2 DEF TeCallInHand
<1>17. TeEntryHolds' BY <1>0, <1>2 DEF TeEntryHolds
<1>18. TeTraceHolds' BY <1>2, <1>13, <1>14 DEF TeTraceHolds
<1>19. TeOnlyGranted' BY <1>2 DEF TeOnlyGranted
<1> QED BY <1>15, <1>16, <1>17, <1>18, <1>19 DEF TeInv

\* The session of a step that does not touch it.
LEMMA TeSameSession ==
  ASSUME TeInv, UNCHANGED teSession
  PROVE  TeSessionRow(teSession')
BY DEF TeInv, TeTyped

\* Another round of the engine.
LEMMA TeLoopKeeps ==
  ASSUME TeInv, TeLoop
  PROVE  TeInv'
<1>0. TeTyped /\ tePc = "loop" /\ UNCHANGED <<teSession, teStale, teEntry>> BY DEF TeInv, TeLoop
<1>1. ASSUME NEW types \in TeEndings, EngineEnds(types) PROVE TeInv'
  BY <1>0, <1>1, TeEngineEndKeeps, TeSameSession
<1>2. CASE \E types \in TeEndings : EngineEnds(types) BY <1>1, <1>2
<1>3. CASE teEngine' = [teEngine EXCEPT !.attempts = @ + 1] /\ tePc' = "model" /\ UNCHANGED teTrace
 <2>1. PICK e : e = [teEngine EXCEPT !.attempts = @ + 1] OBVIOUS
 <2>2. TeEngineRow(e) BY <1>0, <2>1 DEF TeTyped, TeEngineRow
 <2> QED BY <1>0, <1>3, <2>1, <2>2, TeGoesOn
<1>4. \/ \E types \in TeEndings : EngineEnds(types)
      \/ teEngine' = [teEngine EXCEPT !.attempts = @ + 1] /\ tePc' = "model" /\ UNCHANGED teTrace
  BY DEF TeLoop, Cancels, TeEndings, TeGoto
<1> QED BY <1>2, <1>3, <1>4

\* The model's answer: a text, a call whose arguments do not validate, or calls.
LEMMA TeModelKeeps ==
  ASSUME TeInv, TeModel
  PROVE  TeInv'
<1>0. TeTyped /\ tePc = "model" /\ UNCHANGED <<teSession, teStale, teEntry>> BY DEF TeInv, TeModel
<1>1. ASSUME NEW types \in TeEndings, EngineEnds(types) PROVE TeInv'
  BY <1>0, <1>1, TeEngineEndKeeps, TeSameSession
<1>2. CASE \E types \in TeEndings : EngineEnds(types) BY <1>1, <1>2
<1>3. CASE teEngine' = [teEngine EXCEPT !.retries = @ + 1] /\ tePc' = "loop" /\ UNCHANGED teTrace
 <2>1. PICK e : e = [teEngine EXCEPT !.retries = @ + 1] OBVIOUS
 <2>2. TeEngineRow(e) BY <1>0, <2>1 DEF TeTyped, TeEngineRow
 <2> QED BY <1>0, <1>3, <2>1, <2>2, TeGoesOn
<1>4. CASE teEngine' = [teEngine EXCEPT !.argRetries = @ + 1] /\ tePc' = "loop" /\ UNCHANGED teTrace
 <2>1. PICK e : e = [teEngine EXCEPT !.argRetries = @ + 1] OBVIOUS
 <2>2. TeEngineRow(e) BY <1>0, <2>1 DEF TeTyped, TeEngineRow
 <2> QED BY <1>0, <1>4, <2>1, <2>2, TeGoesOn
<1>5. CASE ToolCalls
 <2>1. PICK first \in TeTools, more \in {<<>>} \cup {<<t>> : t \in TeTools} :
          teEngine' = [teEngine EXCEPT !.calls = <<first>> \o more] BY <1>5 DEF ToolCalls
 <2>2. PICK calls : calls = <<first>> \o more OBVIOUS
 <2>3. calls \in Seq(TeTools) /\ calls # <<>>
  <3>1. more \in Seq(TeTools)
   <4>1. CASE more = <<>> BY <4>1
   <4>2. CASE \E t \in TeTools : more = <<t>> BY <4>2
   <4> QED BY <4>1, <4>2
  <3>2. <<first>> \in Seq(TeTools) /\ Len(<<first>>) = 1 OBVIOUS
  <3>3. calls \in Seq(TeTools) /\ Len(calls) = 1 + Len(more) /\ Len(more) \in Nat
    BY <2>2, <3>1, <3>2, ConcatProperties
  <3>4. Len(calls) # 0 BY <3>3
  <3>5. Len(<<>>) = 0 OBVIOUS
  <3> QED BY <3>3, <3>4, <3>5
 <2>4. PICK e : e = [teEngine EXCEPT !.calls = calls] OBVIOUS
 <2>5. TeEngineRow(e) /\ e.calls = calls BY <1>0, <2>3, <2>4 DEF TeTyped, TeEngineRow
 <2>6. teEngine' = e /\ tePc' = "tool" /\ UNCHANGED teTrace
   BY <1>5, <2>1, <2>2, <2>4 DEF ToolCalls, TeGoto
 <2> QED BY <1>0, <2>3, <2>5, <2>6, TeGoesOn
<1>6. \/ \E types \in TeEndings : EngineEnds(types)
      \/ teEngine' = [teEngine EXCEPT !.retries = @ + 1] /\ tePc' = "loop" /\ UNCHANGED teTrace
      \/ teEngine' = [teEngine EXCEPT !.argRetries = @ + 1] /\ tePc' = "loop" /\ UNCHANGED teTrace
      \/ ToolCalls BY DEF TeModel, Cancels, RetryAnswer, InvalidArguments, TeEndings, TeGoto
<1> QED BY <1>2, <1>3, <1>4, <1>5, <1>6

\* The model, or the trace file, raises.
LEMMA TeEngineFailsKeeps ==
  ASSUME TeInv, TeEngineFails
  PROVE  TeInv'
<1>1. <<"error">> \in TeEndings BY DEF TeEndings
<1> QED BY <1>1, TeEngineEndKeeps, TeSameSession DEF TeEngineFails

\* A call the engine does not run.
LEMMA TeToolKeeps ==
  ASSUME TeInv, TeTool
  PROVE  TeInv'
<1>0. TeTyped /\ tePc = "tool" /\ UNCHANGED <<teSession, teStale, teEntry>> BY DEF TeInv, TeTool
<1>1. ASSUME NEW types \in TeEndings, EngineEnds(types) PROVE TeInv'
  BY <1>0, <1>1, TeEngineEndKeeps, TeSameSession
<1>2. CASE \E types \in TeEndings : EngineEnds(types) BY <1>1, <1>2
<1>3. PICK tool : tool = Head(teEngine.calls) OBVIOUS
<1>4. CASE /\ teEngine' = [teEngine EXCEPT !.last = tool, !.repeats = Repeats(tool), !.calls = <<>>]
           /\ tePc' = "loop" /\ UNCHANGED teTrace
 <2>1. PICK e : e = [teEngine EXCEPT !.last = tool, !.repeats = Repeats(tool), !.calls = <<>>]
   OBVIOUS
 <2>2. /\ e = [checker |-> e.checker, steps |-> e.steps, attempts |-> e.attempts, retries |-> e.retries,
               argRetries |-> e.argRetries, last |-> e.last, repeats |-> e.repeats, calls |-> e.calls]
       /\ e.steps = teEngine.steps /\ e.calls = <<>> BY <1>0, <2>1 DEF TeTyped, TeEngineRow
 <2>3. <<>> \in Seq(TeTools) OBVIOUS
 <2>4. TeEngineRow(e) BY <1>0, <2>2, <2>3 DEF TeTyped, TeEngineRow
 <2> QED BY <1>0, <1>4, <2>1, <2>4, TeGoesOn
<1>5. \/ \E types \in TeEndings : EngineEnds(types)
      \/ /\ teEngine' = [teEngine EXCEPT !.last = tool, !.repeats = Repeats(tool), !.calls = <<>>]
         /\ tePc' = "loop" /\ UNCHANGED teTrace
  BY <1>3 DEF TeTool, NextCall, Cancels, TeEndings, TeGoto
<1> QED BY <1>2, <1>4, <1>5

\* The call in hand.
LEMMA TeHead ==
  ASSUME TeInv, tePc \in {"tool", "waiting", "call"}
  PROVE  Head(teEngine.calls) \in TeTools
BY DEF TeInv, TeTyped, TeEngineRow, TeCallInHand

\* The executor's gates: what needs consent and has none waits for it.
LEMMA TeGateKeeps ==
  ASSUME TeInv, TeGate
  PROVE  TeInv'
<1>0. /\ TeTyped /\ TeCallInHand /\ TeEntryHolds /\ TeTraceHolds
      /\ tePc = "tool" /\ UNCHANGED teSession BY DEF TeInv, TeGate
<1>1. PICK tool : tool = Head(teEngine.calls) OBVIOUS
<1>2. PICK e : e = [teEngine EXCEPT !.last = tool, !.repeats = Repeats(tool)] OBVIOUS
<1>3. PICK verdict : verdict = Permission(e.checker, tool) OBVIOUS
<1>4. /\ e.steps < TeMaxSteps
      /\ \/ ToolDone(e)
         \/ /\ verdict = "allow" \/ tool \in teSession.approved
            /\ teEngine' = e /\ tePc' = "call" /\ UNCHANGED <<teTrace, teStale, teEntry>>
         \/ /\ teEngine' = e /\ tePc' = "waiting" /\ teEntry' = Submit(tool)
            /\ UNCHANGED <<teTrace, teStale>> BY <1>1, <1>2, <1>3 DEF TeGate, TeGoto
<1>5. TeEngineRow(e) /\ e.calls = teEngine.calls BY <1>0, <1>2 DEF TeTyped, TeEngineRow
<1>6. e.calls # <<>> /\ tool = Head(e.calls) /\ tool \in TeTools
  BY <1>0, <1>1, <1>5, TeHead DEF TeCallInHand
<1>7. TeSessionRow(teSession') BY <1>0 DEF TeTyped
<1>8. CASE ToolDone(e) BY <1>0, <1>4, <1>5, <1>7, <1>8, TeToolDoneKeeps
<1>9. CASE /\ verdict = "allow" \/ tool \in teSession.approved
           /\ teEngine' = e /\ tePc' = "call" /\ UNCHANGED <<teTrace, teStale, teEntry>>
 <2>1. TeTyped' BY <1>0, <1>5, <1>7, <1>9 DEF TeTyped, TePcs
 <2>2. TeCallInHand' BY <1>4, <1>6, <1>9 DEF TeCallInHand
 <2>3. TeEntryHolds' BY <1>0, <1>9 DEF TeEntryHolds
 <2>4. TeTraceHolds' BY <1>0, <1>9 DEF TeTraceHolds
 <2>5. TeOnlyGranted'
  <3>1. Permission(teEngine'.checker, Head(teEngine'.calls)) = verdict BY <1>3, <1>6, <1>9
  <3> QED BY <1>0, <1>6, <1>9, <3>1 DEF TeOnlyGranted
 <2> QED BY <2>1, <2>2, <2>3, <2>4, <2>5 DEF TeInv
<1>10. CASE /\ teEngine' = e /\ tePc' = "waiting" /\ teEntry' = Submit(tool)
            /\ UNCHANGED <<teTrace, teStale>>
 <2>1. PICK entry : entry = Submit(tool) OBVIOUS
 <2>2. TeEntryRow(entry) /\ entry.tool = tool /\ entry.result = "none" /\ entry.queued
   BY <2>1 DEF Submit, TeEntryRow, TeResults
 <2>3. TeTyped' BY <1>0, <1>5, <1>7, <1>10, <2>1, <2>2 DEF TeTyped, TePcs
 <2>4. TeCallInHand' BY <1>4, <1>6, <1>10 DEF TeCallInHand
 <2>5. TeEntryHolds' BY <1>6, <1>10, <2>1, <2>2 DEF TeEntryHolds
 <2>6. TeTraceHolds' BY <1>0, <1>10 DEF TeTraceHolds
 <2>7. TeOnlyGranted' BY <1>10 DEF TeOnlyGranted
 <2> QED BY <2>3, <2>4, <2>5, <2>6, <2>7 DEF TeInv
<1> QED BY <1>4, <1>8, <1>9, <1>10

\* The waiter gives up, is stopped, or has its answer.
LEMMA TeWaitingKeeps ==
  ASSUME TeInv, TeWaiting
  PROVE  TeInv'
<1>0. /\ TeTyped /\ TeCallInHand /\ TeEntryHolds /\ TeTraceHolds
      /\ tePc = "waiting" /\ UNCHANGED teSession BY DEF TeInv, TeWaiting
<1>1. CASE Cancels /\ UNCHANGED <<teStale, teEntry>>
 <2>1. <<"cancelled">> \in TeEndings BY DEF TeEndings
 <2> QED BY <1>0, <1>1, <2>1, TeEngineEndKeeps, TeSameSession DEF Cancels
<1>2. CASE ToolDone(teEngine)
 <2>1. TeEngineRow(teEngine) /\ teEngine.steps < TeMaxSteps BY <1>0 DEF TeTyped, TeCallInHand
 <2>2. PICK e : e = teEngine OBVIOUS
 <2>3. ToolDone(e) BY <1>2, <2>2 DEF ToolDone, Abandon
 <2> QED BY <1>0, <2>1, <2>2, <2>3, TeToolDoneKeeps, TeSameSession
<1>3. CASE /\ Woken /\ ~TeDenied
           /\ tePc' = "call" /\ UNCHANGED <<teEngine, teTrace, teStale, teEntry>>
 <2>1. TeTyped' BY <1>0, <1>3 DEF TeTyped, TePcs
 <2>2. TeCallInHand' BY <1>0, <1>3 DEF TeCallInHand
 <2>3. TeEntryHolds' BY <1>0, <1>3 DEF TeEntryHolds, Woken
 <2>4. TeTraceHolds' BY <1>0, <1>3 DEF TeTraceHolds
 <2>5. TeOnlyGranted' BY <1>0, <1>3 DEF TeOnlyGranted, TeEntryHolds, Woken, TeDenied
 <2> QED BY <2>1, <2>2, <2>3, <2>4, <2>5 DEF TeInv
<1> QED BY <1>1, <1>2, <1>3 DEF TeWaiting, TeGoto

\* A tool runs.
LEMMA TeCallKeeps ==
  ASSUME TeInv, TeCall
  PROVE  TeInv'
<1>0. TeTyped /\ TeCallInHand /\ tePc = "call" BY DEF TeInv, TeCall
<1>1. TeSessionRow(teSession')
 <2>1. PICK entered : entered = [teSession EXCEPT !.mode = "plan"] OBVIOUS
 <2>2. PICK reviewed : reviewed = [teSession EXCEPT !.review = @ \/ teSession.mode = "plan"] OBVIOUS
 <2>3. TeSessionRow(entered) /\ TeSessionRow(reviewed) BY <1>0, <2>1, <2>2 DEF TeTyped, TeSessionRow
 <2>4. teSession' = entered \/ teSession' = reviewed \/ teSession' = teSession
   BY <2>1, <2>2 DEF TeCall, ToolEffect
 <2> QED BY <1>0, <2>3, <2>4 DEF TeTyped
<1>2. CASE Cancels /\ UNCHANGED <<teStale, teEntry>>
 <2>1. <<"cancelled">> \in TeEndings BY DEF TeEndings
 <2> QED BY <1>0, <1>1, <1>2, <2>1, TeEngineEndKeeps DEF Cancels
<1>3. CASE ToolDone(teEngine)
 <2>1. TeEngineRow(teEngine) /\ teEngine.steps < TeMaxSteps BY <1>0 DEF TeTyped, TeCallInHand
 <2>2. PICK e : e = teEngine OBVIOUS
 <2>3. ToolDone(e) BY <1>3, <2>2 DEF ToolDone, Abandon
 <2> QED BY <1>0, <1>1, <2>1, <2>2, <2>3, TeToolDoneKeeps
<1> QED BY <1>2, <1>3 DEF TeCall

\* The diff's event, or the error it met.
LEMMA TeDiffKeeps ==
  ASSUME TeInv, TeDiff
  PROVE  TeInv'
<1>0. /\ TeTyped /\ TeEntryHolds /\ TeTraceHolds /\ tePc = "diff" /\ tePc' = "finish"
      /\ UNCHANGED <<teSession, teStale, teEntry, teEngine>> BY DEF TeInv, TeDiff, TeGoto
<1>1. PICK type \in {"workspace_diff_ready", "error"} : teTrace' = teTrace \o <<TeEvent(type)>>
  BY DEF TeDiff, AppendTrace
<1>2. PICK e : e = TeEvent(type) OBVIOUS
<1>3. e \in TeEventRow /\ ~TeIsEnd(e) BY <1>2 DEF TeEvent, TeEventRow, TeTypes, TeIsEnd
<1>4. PICK es : es = <<e>> OBVIOUS
<1>5. es \in Seq(TeEventRow) /\ \A i \in 1..Len(es) : ~TeIsEnd(es[i])
 <2>1. es \in Seq(TeEventRow) /\ Len(es) = 1 /\ es[1] = e BY <1>3, <1>4
 <2>2. \A i \in 1..Len(es) : es[i] = e BY <2>1
 <2> QED BY <1>3, <2>1, <2>2
<1>6. teTrace \in Seq(TeEventRow) /\ TeOpen(teTrace) /\ TeDecided(teTrace)
  BY <1>0 DEF TeTyped, TeTraceHolds
<1>7. /\ teTrace \o es \in Seq(TeEventRow) /\ TeOpen(teTrace \o es)
      /\ \A ty : TeIn(teTrace \o es, ty) <=> TeIn(teTrace, ty) \/ TeIn(es, ty)
  BY <1>5, <1>6, TeAppendOpen
<1>8. TeDecided(teTrace \o es) BY <1>6, <1>7 DEF TeDecided
<1>9. teTrace' = teTrace \o es BY <1>1, <1>2, <1>4
<1>10. TeTyped' BY <1>0, <1>7, <1>9 DEF TeTyped, TePcs
<1>11. TeCallInHand' BY <1>0 DEF TeCallInHand
<1>12. TeEntryHolds' BY <1>0 DEF TeEntryHolds
<1>13. TeTraceHolds' BY <1>0, <1>7, <1>8, <1>9 DEF TeTraceHolds
<1>14. TeOnlyGranted' BY <1>0 DEF TeOnlyGranted
<1> QED BY <1>10, <1>11, <1>12, <1>13, <1>14 DEF TeInv

\* The run's end, with the status its events give.
LEMMA TeFinishKeeps ==
  ASSUME TeInv, TeFinish
  PROVE  TeInv'
<1>0. /\ TeTyped /\ TeEntryHolds /\ TeTraceHolds /\ tePc = "finish" /\ tePc' = "turn_end"
      /\ UNCHANGED <<teSession, teStale, teEntry, teEngine>>
      /\ teTrace' = teTrace \o <<Finished(TeStatusOf)>> BY DEF TeInv, TeFinish, TeGoto, AppendTrace
<1>1. teTrace \in Seq(TeEventRow) /\ TeOpen(teTrace) /\ TeDecided(teTrace)
  BY <1>0 DEF TeTyped, TeTraceHolds
<1>2. PICK status : status = TeStatusOf OBVIOUS
<1>3. status \in TeEnded /\ (status = "cancelled" <=> TeIn(teTrace, "cancelled"))
  BY <1>1, <1>2, TeStatus
<1>4. teTrace' \in Seq(TeEventRow) /\ TeRunClosed(teTrace')
 <2>1. /\ teTrace \o <<Finished(status)>> \in Seq(TeEventRow)
       /\ TeRunClosed(teTrace \o <<Finished(status)>>) BY <1>1, <1>3, TeCloseRun
 <2>2. teTrace' = teTrace \o <<Finished(status)>> BY <1>0, <1>2
 <2> QED BY <2>1, <2>2
<1>5. TeTyped' BY <1>0, <1>4 DEF TeTyped, TePcs
<1>6. TeCallInHand' BY <1>0 DEF TeCallInHand
<1>7. TeEntryHolds' BY <1>0 DEF TeEntryHolds
<1>8. TeTraceHolds' BY <1>0, <1>4 DEF TeTraceHolds
<1>9. TeOnlyGranted' BY <1>0 DEF TeOnlyGranted
<1> QED BY <1>5, <1>6, <1>7, <1>8, <1>9 DEF TeInv

\* The turn's end.
LEMMA TeTurnEndKeeps ==
  ASSUME TeInv, TeTurnEnd
  PROVE  TeInv'
<1>0. /\ TeTyped /\ TeEntryHolds /\ TeTraceHolds /\ tePc = "turn_end" /\ tePc' = "close"
      /\ UNCHANGED <<teSession, teStale, teEntry, teEngine>>
      /\ teTrace' = teTrace \o <<TeEvent("turn_finished")>>
  BY DEF TeInv, TeTurnEnd, TeGoto, AppendTrace
<1>1. teTrace' \in Seq(TeEventRow) /\ TeTurnClosed(teTrace')
 <2>1. teTrace \in Seq(TeEventRow) /\ TeRunClosed(teTrace) BY <1>0 DEF TeTyped, TeTraceHolds
 <2> QED BY <1>0, <2>1, TeCloseTurn
<1>2. TeTyped' BY <1>0, <1>1 DEF TeTyped, TePcs
<1>3. TeCallInHand' BY <1>0 DEF TeCallInHand
<1>4. TeEntryHolds' BY <1>0 DEF TeEntryHolds
<1>5. TeTraceHolds' BY <1>0, <1>1 DEF TeTraceHolds
<1>6. TeOnlyGranted' BY <1>0 DEF TeOnlyGranted
<1> QED BY <1>2, <1>3, <1>4, <1>5, <1>6 DEF TeInv

\* The consumer closes the stream.
LEMMA TeConsumerGoneKeeps ==
  ASSUME TeInv, TeConsumerGone
  PROVE  TeInv'
<1>0. /\ TeTyped /\ TeEntryHolds /\ TeTraceHolds /\ tePc' = "close" /\ teEngine' = TeNoEngine
      /\ tePc \in {"loop", "model", "tool", "waiting", "call", "diff", "finish", "turn_end"}
      /\ UNCHANGED <<teSession, teStale, teEntry, teTrace>> BY DEF TeInv, TeConsumerGone, TeGoto
<1>1. TeTyped' BY <1>0, TeNothing DEF TeTyped, TePcs
<1>2. TeCallInHand' BY <1>0 DEF TeCallInHand
<1>3. TeEntryHolds' BY <1>0 DEF TeEntryHolds
<1>4. TeTraceHolds' BY <1>0 DEF TeTraceHolds
<1>5. TeOnlyGranted' BY <1>0 DEF TeOnlyGranted
<1> QED BY <1>1, <1>2, <1>3, <1>4, <1>5 DEF TeInv

\* The finally block closes what is open.
LEMMA TeCloseKeeps ==
  ASSUME TeInv, TeClose
  PROVE  TeInv'
<1>0. /\ TeTyped /\ TeEntryHolds /\ TeTraceHolds /\ tePc = "close" /\ tePc' = "idle"
      /\ teEngine' = TeNoEngine /\ teSession' = [teSession EXCEPT !.stop = FALSE]
      /\ teTrace' = teTrace \o PersistRunTerminal /\ Abandon
  BY DEF TeInv, TeClose, TeReleased, AppendTrace
<1>1. teTrace' \in Seq(TeEventRow) /\ TeTurnClosed(teTrace')
 <2>1. /\ teTrace \in Seq(TeEventRow)
       /\ TeOpen(teTrace) \/ TeRunClosed(teTrace) \/ TeTurnClosed(teTrace)
   BY <1>0 DEF TeTyped, TeTraceHolds
 <2> QED BY <1>0, <2>1, TeClosing
<1>2. TeSessionRow(teSession')
 <2>1. PICK s : s = [teSession EXCEPT !.stop = FALSE] OBVIOUS
 <2>2. TeSessionRow(s) BY <1>0, <2>1 DEF TeTyped, TeSessionRow
 <2> QED BY <1>0, <2>1, <2>2
<1>3. teEntry' = NoEntry /\ teStale' \subseteq TeTools BY <1>0 DEF Abandon, TeEntryHolds, TeTyped
<1>4. TeTyped' BY <1>0, <1>1, <1>2, <1>3, TeNothing DEF TeTyped, TePcs
<1>5. TeCallInHand' BY <1>0 DEF TeCallInHand
<1>6. TeEntryHolds' BY <1>0, <1>3, TeNothing DEF TeEntryHolds
<1>7. TeTraceHolds' BY <1>0, <1>1 DEF TeTraceHolds
<1>8. TeOnlyGranted' BY <1>0 DEF TeOnlyGranted
<1> QED BY <1>4, <1>5, <1>6, <1>7, <1>8 DEF TeInv

\* An approval is answered, awaited or left behind.
LEMMA TeResolveKeeps ==
  ASSUME TeInv, NEW choice \in {"once", "session", "deny"}, TeResolve(choice)
  PROVE  TeInv'
<1>0. TeTyped /\ TeEntryHolds /\ UNCHANGED <<tePc, teEngine, teTrace>> BY DEF TeInv, TeResolve
<1>1. ASSUME NEW tool \in TeTools,
             teSession' = [teSession EXCEPT !.approved = SessionApproved(tool, choice)]
      PROVE  TeSessionRow(teSession') /\ teSession.approved \subseteq teSession'.approved
 <2>1. PICK approved : approved = SessionApproved(tool, choice) OBVIOUS
 <2>2. approved \subseteq TeTools /\ teSession.approved \subseteq approved
   BY <1>0, <2>1 DEF SessionApproved, TeTyped, TeSessionRow
 <2>3. PICK s : s = [teSession EXCEPT !.approved = approved] OBVIOUS
 <2>4. TeSessionRow(s) /\ s.approved = approved BY <1>0, <2>2, <2>3 DEF TeTyped, TeSessionRow
 <2> QED BY <1>1, <2>1, <2>2, <2>3, <2>4
<1>2. CASE /\ teEntry.queued /\ UNCHANGED teStale
           /\ teEntry' = [teEntry EXCEPT !.queued = FALSE,
                             !.result = EffectiveChoice(teEntry.tool, choice)]
           /\ teSession' = [teSession EXCEPT !.approved = SessionApproved(teEntry.tool, choice)]
 <2>1. teEntry.tool \in TeTools BY <1>0, <1>2 DEF TeEntryHolds
 <2>2. PICK result : result = EffectiveChoice(teEntry.tool, choice) OBVIOUS
 <2>3. result \in {"once", "session", "deny"} BY <2>2 DEF EffectiveChoice
 <2>4. PICK entry : entry = [teEntry EXCEPT !.queued = FALSE, !.result = result] OBVIOUS
 <2>5. TeEntryRow(entry) /\ ~entry.queued /\ entry.tool = teEntry.tool /\ entry.result = result
   BY <1>0, <2>3, <2>4 DEF TeTyped, TeEntryRow, TeResults
 <2>6. teEntry' = entry BY <1>2, <2>2, <2>4
 <2>7. TeSessionRow(teSession') /\ teSession.approved \subseteq teSession'.approved
  <3>1. PICK tool \in TeTools : tool = teEntry.tool BY <2>1
  <3> QED BY <1>1, <1>2, <3>1
 <2>8. teStale' \subseteq TeTools BY <1>0, <1>2 DEF TeTyped
 <2> QED BY <1>0, <1>2, <2>3, <2>5, <2>6, <2>7, <2>8, TeUserKeeps
<1>3. CASE \E tool \in teStale :
             /\ teStale' = teStale \ {tool} /\ UNCHANGED teEntry
             /\ teSession' = [teSession EXCEPT !.approved = SessionApproved(tool, choice)]
 <2>1. PICK tool \in teStale :
            /\ teStale' = teStale \ {tool} /\ UNCHANGED teEntry
            /\ teSession' = [teSession EXCEPT !.approved = SessionApproved(tool, choice)] BY <1>3
 <2>2. tool \in TeTools /\ teStale' \subseteq TeTools BY <1>0, <2>1 DEF TeTyped
 <2>3. TeSessionRow(teSession') /\ teSession.approved \subseteq teSession'.approved
   BY <1>1, <2>1, <2>2
 <2> QED BY <1>0, <2>1, <2>2, <2>3, TeUserKeeps
<1> QED BY <1>2, <1>3 DEF TeResolve

\* A stop, which denies what is queued.
LEMMA TeRequestStopKeeps ==
  ASSUME TeInv, TeRequestStop
  PROVE  TeInv'
<1>0. TeTyped /\ UNCHANGED <<tePc, teEngine, teTrace>> BY DEF TeInv, TeRequestStop
<1>1. PICK s : s = [teSession EXCEPT !.stop = TRUE, !.review = FALSE] OBVIOUS
<1>2. TeSessionRow(s) /\ s.approved = teSession.approved BY <1>0, <1>1 DEF TeTyped, TeSessionRow
<1>3. teSession' = s /\ teStale' = {} /\ teEntry' = CancelSession BY <1>1 DEF TeRequestStop
<1>4. PICK entry : entry = [teEntry EXCEPT !.result = "deny", !.queued = FALSE] OBVIOUS
<1>5. TeEntryRow(entry) /\ ~entry.queued /\ entry.tool = teEntry.tool /\ entry.result = "deny"
  BY <1>0, <1>4 DEF TeTyped, TeEntryRow, TeResults
<1>6. (teEntry.queued /\ teEntry' = entry) \/ teEntry' = teEntry BY <1>3, <1>4 DEF CancelSession
<1> QED BY <1>0, <1>2, <1>3, <1>5, <1>6, TeUserKeeps

\* The session's settings.
LEMMA TeSettingsKeep ==
  ASSUME TeInv,
         \/ \E mode \in TePermissions : TeSetPermissionMode(mode)
         \/ \E approved \in BOOLEAN : TeReviewPlan(approved)
         \/ TeUserEdits
  PROVE  TeInv'
<1>0. /\ TeTyped /\ UNCHANGED <<tePc, teEngine, teTrace, teStale, teEntry>>
  BY DEF TeInv, TeSetPermissionMode, TeReviewPlan, TeUserEdits
<1>1. TeSessionRow(teSession') /\ teSession'.approved = teSession.approved
 <2>1. CASE \E mode \in TePermissions : TeSetPermissionMode(mode)
  <3>1. PICK mode \in TePermissions : teSession' = [teSession EXCEPT !.permission = mode]
    BY <2>1 DEF TeSetPermissionMode
  <3>2. PICK s : s = [teSession EXCEPT !.permission = mode] OBVIOUS
  <3>3. TeSessionRow(s) /\ s.approved = teSession.approved BY <1>0, <3>2 DEF TeTyped, TeSessionRow
  <3> QED BY <3>1, <3>2, <3>3
 <2>2. CASE \E approved \in BOOLEAN : TeReviewPlan(approved)
  <3>1. PICK mode \in {"default", teSession.mode} :
           teSession' = [teSession EXCEPT !.review = FALSE, !.mode = mode] BY <2>2 DEF TeReviewPlan
  <3>2. PICK s : s = [teSession EXCEPT !.review = FALSE, !.mode = mode] OBVIOUS
  <3>3. TeSessionRow(s) /\ s.approved = teSession.approved
    BY <1>0, <3>1, <3>2 DEF TeTyped, TeSessionRow
  <3> QED BY <3>1, <3>2, <3>3
 <2>3. CASE TeUserEdits BY <1>0, <2>3 DEF TeUserEdits, TeTyped
 <2> QED BY <2>1, <2>2, <2>3
<1>2. teStale' \subseteq TeTools /\ teSession.approved \subseteq teSession'.approved
  BY <1>0, <1>1 DEF TeTyped
<1> QED BY <1>0, <1>1, <1>2, TeUserKeeps

\* The invariant holds at first.
LEMMA TeInitHolds ==
  ASSUME TeInit
  PROVE  TeInv
<1>1. /\ tePc = "idle" /\ teTrace = <<>> /\ teEntry = NoEntry /\ teStale = {} /\ teEngine = TeNoEngine
      /\ teSession = [mode |-> "default", permission |-> "default", stop |-> FALSE,
                      review |-> FALSE, approved |-> {}] BY DEF TeInit
<1>2. TeSessionRow(teSession) BY <1>1, TeAssumption DEF TeSessionRow
<1>3. <<>> \in Seq(TeEventRow) OBVIOUS
<1>4. TeTyped BY <1>1, <1>2, <1>3, TeNothing DEF TeTyped, TePcs
<1>5. TeCallInHand /\ TeEntryHolds /\ TeTraceHolds /\ TeOnlyGranted
  BY <1>1, TeNothing DEF TeCallInHand, TeEntryHolds, TeTraceHolds, TeOnlyGranted
<1> QED BY <1>4, <1>5 DEF TeInv

\* Every step of a turn and of its user keeps the invariant.
LEMMA TeNextKeeps ==
  ASSUME TeInv, [TeNext]_teVars
  PROVE  TeInv'
<1>1. CASE TeNext
 <2>1. CASE TeProcess
   BY <2>1, TePrepareKeeps, TePrepareFailsKeeps, TeLoopKeeps, TeModelKeeps, TeEngineFailsKeeps,
      TeToolKeeps, TeGateKeeps, TeWaitingKeeps, TeCallKeeps, TeDiffKeeps, TeFinishKeeps,
      TeTurnEndKeeps, TeCloseKeeps DEF TeProcess
 <2>2. CASE TeUser
   BY <2>2, TeStartKeeps, TeResolveKeeps, TeRequestStopKeeps, TeSettingsKeep, TeConsumerGoneKeeps
   DEF TeUser
 <2> QED BY <1>1, <2>1, <2>2 DEF TeNext
<1>2. CASE UNCHANGED teVars
  BY <1>2 DEF teVars, TeInv, TeTyped, TeCallInHand, TeEntryHolds, TeTraceHolds, TeOnlyGranted
<1> QED BY <1>1, <1>2

\* The invariant says what the runs check: a trace that is over is closed once,
\* with the status its events give, and what needs consent runs with it.
LEMMA TeInvHolds ==
  ASSUME TeInv
  PROVE  TeTypeOK /\ TeTurnHolds
<1>1. TeTyped /\ TeTraceHolds /\ TeOnlyGranted BY DEF TeInv
<1>2. TeTypeOK BY <1>1 DEF TeTyped, TeTypeOK, TeSessionRow, TeEngineRow, TeEntryRow, TeResults
<1>3. TeClosedOnce
 <2>1. tePc = "idle" /\ teTrace # <<>> => TeTurnClosed(teTrace) BY <1>1 DEF TeTraceHolds
 <2> QED BY <2>1 DEF TeClosedOnce, TeTurnClosed, TeIsEnd
<1> QED BY <1>1, <1>2, <1>3 DEF TeTurnHolds

\* A turn runs only what it may, and its trace is closed once whoever went away
\* in between (runtime.py run_turn, executor.py _approval_events).
THEOREM TurnSafe == TeSpec => [](TeTypeOK /\ TeTurnHolds)
<1>1. TeInit => TeInv BY TeInitHolds
<1>2. TeInv /\ [TeNext]_teVars => TeInv' BY TeNextKeeps
<1>3. TeInv => TeTypeOK /\ TeTurnHolds BY TeInvHolds
<1> QED BY <1>1, <1>2, <1>3, PTL DEF TeSpec

--------------------
(* The sessions of an MCP server. *)

MsOwnerPoints == {"new", "opening", "open", "gone"}
MsOwnerRow == [scope: MsScopes, at: MsOwnerPoints, ready: {"pending", "result", "failed", "cancelled"},
               close: BOOLEAN, cancel: BOOLEAN, broken: BOOLEAN]

(* What a request keeps, of a pool of n owners; only a discovery of the
   catalog starts by looking for a session, only a call of a tool reaches
   one without, and who waits for a session knows its owner. *)
MsRecord(r, n) ==
  /\ r = [at |-> r.at, scope |-> r.scope, op |-> r.op, owner |-> r.owner, drain |-> r.drain,
          cancel |-> r.cancel, then |-> r.then, late |-> r.late]
  /\ r.owner \in 0..n /\ r.drain \in Seq(1..n)
  /\ r.op \in {"catalog", "invoke"} => r.scope \in MsScopes

MsCallerRow(r, n) ==
  /\ MsRecord(r, n)
  /\ (r.at = "get" => r.op = "catalog") /\ (r.at = "call" => r.op = "invoke")
  /\ r.at \in {"wait", "join"} => r.owner # 0
  /\ r.at = "drain" => /\ r.drain # <<>> /\ r.then \notin {"get", "drain", "call"}
                       /\ r.then \in {"wait", "join"} => r.owner # 0

MsTyped ==
  /\ msOwners \in Seq(MsOwnerRow)
  /\ msEntries \in Seq(1..Len(msOwners))
  /\ msInflight \in [MsScopes -> 0..Len(msOwners)]
  /\ msTools \in [MsScopes -> 0..Len(msOwners)]
  /\ msWrapped \subseteq MsScopes
  /\ msCaller = [c \in MsCallers |-> msCaller[c]]
  /\ \A c \in MsCallers : MsCallerRow(msCaller[c], Len(msOwners))

(* A request is responsible for the session it opens until it has
   registered it, and for those it has yet to close. *)
MsOpens(r, o) == r.owner = o /\ (r.at = "wait" \/ (r.at = "drain" /\ r.then = "wait"))
MsYetToClose(r, o) == r.at = "drain" /\ \E n \in 2..Len(r.drain) : r.drain[n] = o
MsHolds(r, o) == MsOpens(r, o) \/ MsYetToClose(r, o)

MsKept ==
  \A o \in 1..Len(msOwners) :
    \/ MsGone(o) \/ msOwners[o].close \/ o \in MsRegistered
    \/ \E c \in MsCallers : MsHolds(msCaller[c], o)

MsInv == MsTyped /\ MsKept /\ MsBounded

\* A list of owners is one of the owners of a larger pool as well.
LEMMA MsMore ==
  ASSUME NEW n \in Nat, NEW m \in Nat, n <= m
  PROVE  /\ \A q \in Seq(1..n) : q \in Seq(1..m)
         /\ \A i \in 0..n : i \in 0..m
         /\ \A r : MsCallerRow(r, n) => MsCallerRow(r, m)
<1>1. 1..n \subseteq 1..m /\ 0..n \subseteq 0..m OBVIOUS
<1>2. \A q \in Seq(1..n) : q \in Seq(1..m) BY <1>1, SeqMonotonic
<1>3. \A r : MsCallerRow(r, n) => MsCallerRow(r, m) BY <1>1, <1>2 DEF MsCallerRow, MsRecord
<1> QED BY <1>1, <1>2, <1>3

\* What is taken out of a list is all that it lacks.
LEMMA MsRemoved ==
  ASSUME NEW S, NEW q \in Seq(S), NEW k \in 1..Len(q)
  PROVE  /\ RemoveAt(q, k) \in Seq(S) /\ Len(RemoveAt(q, k)) = Len(q) - 1
         /\ \A i \in 1..Len(q) : i = k \/ \E j \in 1..Len(RemoveAt(q, k)) : RemoveAt(q, k)[j] = q[i]
<1>1. PICK a : a = SubSeq(q, 1, k - 1) OBVIOUS
<1>2. PICK b : b = SubSeq(q, k + 1, Len(q)) OBVIOUS
<1>3. PICK w : w = a \o b OBVIOUS
<1>4. w = RemoveAt(q, k) BY <1>1, <1>2, <1>3 DEF RemoveAt
<1>5. a \in Seq(S) /\ Len(a) = k - 1 /\ \A i \in 1..k - 1 : a[i] = q[i] BY <1>1, SubSeqProperties
<1>6. b \in Seq(S) /\ Len(b) = Len(q) - k /\ \A i \in 1..Len(q) - k : b[i] = q[k + i]
 <2>1. CASE k < Len(q)
  <3>1. b \in Seq(S) /\ Len(b) = Len(q) - (k + 1) + 1 /\ \A i \in 1..Len(q) - (k + 1) + 1 : b[i] = q[(k + 1) + i - 1]
    BY <1>2, <2>1, SubSeqProperties
  <3>2. \A i \in 1..Len(q) - k : i \in 1..Len(q) - (k + 1) + 1 /\ (k + 1) + i - 1 = k + i OBVIOUS
  <3>3. \A i \in 1..Len(q) - k : b[i] = q[k + i] BY <3>1, <3>2
  <3> QED BY <3>1, <3>3
 <2>2. CASE k = Len(q) BY <1>2, <2>2, SubSeqProperties
 <2> QED BY <2>1, <2>2
<1>7. /\ w \in Seq(S) /\ Len(w) = Len(q) - 1
      /\ \A i \in 1..Len(a) : w[i] = a[i]
      /\ \A i \in 1..Len(b) : w[Len(a) + i] = b[i]
 <2>1. /\ w \in Seq(S) /\ Len(w) = Len(a) + Len(b)
       /\ \A i \in 1..Len(a) : w[i] = a[i]
       /\ \A i \in 1..Len(b) : w[Len(a) + i] = b[i]
  <3>1. a \in Seq(S) /\ b \in Seq(S) BY <1>5, <1>6
  <3> QED BY <1>3, <3>1, ConcatProperties
 <2>2. Len(w) = Len(q) - 1 BY <1>5, <1>6, <2>1
 <2> QED BY <2>1, <2>2
<1>8. ASSUME NEW i \in 1..Len(q), i # k
      PROVE  \E j \in 1..Len(w) : w[j] = q[i]
 <2>1. CASE i < k
  <3>1. i \in 1..k - 1 /\ i \in 1..Len(w) BY <1>7, <2>1
  <3> QED BY <1>5, <1>7, <3>1
 <2>2. CASE i > k
  <3>1. i - k \in 1..Len(q) - k /\ i - 1 \in 1..Len(w) /\ k + (i - k) = i BY <1>7, <2>2
  <3>2. Len(a) + (i - k) = i - 1 BY <1>5
  <3> QED BY <1>5, <1>6, <1>7, <3>1, <3>2
 <2> QED BY <1>8, <2>1, <2>2
<1> QED BY <1>4, <1>7, <1>8

\* What is left of the pool without a scope: all but the entry of the scope.
LEMMA MsLeft ==
  ASSUME MsInv, NEW s \in MsScopes
  PROVE  /\ MsWithout(s) \in Seq(1..Len(msOwners)) /\ MsEntry(s) \in Seq(1..Len(msOwners))
         /\ Len(MsEntry(s)) \in {0, 1} /\ Len(MsWithout(s)) = Len(msEntries) - Len(MsEntry(s))
         /\ \A i \in 1..Len(msEntries) :
              \/ \E j \in 1..Len(MsWithout(s)) : MsWithout(s)[j] = msEntries[i]
              \/ Len(MsEntry(s)) = 1 /\ MsEntry(s)[1] = msEntries[i]
<1>0. msEntries \in Seq(1..Len(msOwners)) BY DEF MsInv, MsTyped
<1>1. CASE MsEntriesOf(s) = {} BY <1>0, <1>1 DEF MsWithout, MsEntry
<1>2. CASE MsEntriesOf(s) # {}
 <2>1. PICK k : k = MsPlace(s) OBVIOUS
 <2>2. k \in 1..Len(msEntries) BY <1>0, <1>2, <2>1 DEF MsPlace, MsEntriesOf
 <2>3. MsWithout(s) = RemoveAt(msEntries, k) /\ MsEntry(s) = <<msEntries[k]>>
   BY <1>2, <2>1 DEF MsWithout, MsEntry
 <2>4. msEntries[k] \in 1..Len(msOwners) BY <1>0, <2>2
 <2>5. MsEntry(s) \in Seq(1..Len(msOwners)) /\ Len(MsEntry(s)) = 1 /\ MsEntry(s)[1] = msEntries[k]
   BY <2>3, <2>4
 <2>6. PICK S : S = 1..Len(msOwners) OBVIOUS
 <2>7. PICK w : w = RemoveAt(msEntries, k) OBVIOUS
 <2>8. /\ w \in Seq(S) /\ Len(w) = Len(msEntries) - 1
       /\ \A i \in 1..Len(msEntries) : i = k \/ \E j \in 1..Len(w) : w[j] = msEntries[i]
   BY <1>0, <2>2, <2>6, <2>7, MsRemoved
 <2> QED BY <2>3, <2>5, <2>6, <2>7, <2>8
<1> QED BY <1>1, <1>2

\* The owner that opens a session for a scope, as a list.
LEMMA MsFlyingOwner ==
  ASSUME MsInv, NEW s \in MsScopes
  PROVE  MsFlying(s) \in Seq(1..Len(msOwners))
<1>1. msInflight[s] \in 0..Len(msOwners) BY DEF MsInv, MsTyped
<1>2. CASE msInflight[s] = 0 BY <1>2 DEF MsFlying
<1>3. CASE msInflight[s] # 0
 <2>1. PICK o : o = msInflight[s] OBVIOUS
 <2>2. o \in 1..Len(msOwners) BY <1>1, <1>3, <2>1
 <2> QED BY <1>3, <2>1, <2>2 DEF MsFlying
<1> QED BY <1>2, <1>3

\* The first owner to be closed is told so, and nothing else changes.
LEMMA MsClosingTells ==
  ASSUME NEW os \in Seq(MsOwnerRow), NEW drain \in Seq(1..Len(os)), NEW cancel
  PROVE  /\ MsClosing(os, drain, cancel) \in Seq(MsOwnerRow)
         /\ Len(MsClosing(os, drain, cancel)) = Len(os)
         /\ \A o \in 1..Len(os) :
              /\ MsClosing(os, drain, cancel)[o].at = os[o].at
              /\ os[o].close => MsClosing(os, drain, cancel)[o].close
              /\ drain # <<>> /\ o = drain[1] => MsClosing(os, drain, cancel)[o].close
<1>1. CASE drain = <<>> BY <1>1 DEF MsClosing
<1>2. CASE drain # <<>>
 <2>1. PICK h : h = Head(drain) OBVIOUS
 <2>2. h \in 1..Len(os) /\ h = drain[1] BY <1>2, <2>1
 <2>4. PICK row \in MsOwnerRow : row = os[h] BY <2>2
 <2>3. PICK p : p = (row.cancel \/ h \in cancel) OBVIOUS
 <2>5. PICK told : told = [row EXCEPT !.close = TRUE, !.cancel = p] OBVIOUS
 <2>6. told \in MsOwnerRow /\ told.at = row.at /\ told.close
  <3>1. p \in BOOLEAN BY <2>3
  <3> QED BY <2>4, <2>5, <3>1 DEF MsOwnerRow
 <2>7. PICK w : w = [os EXCEPT ![h] = told] OBVIOUS
 <2>8. w = MsClosing(os, drain, cancel) BY <1>2, <2>1, <2>3, <2>4, <2>5, <2>7 DEF MsClosing
 <2>9. w \in Seq(MsOwnerRow) /\ Len(w) = Len(os) BY <2>2, <2>6, <2>7
 <2>10. \A o \in 1..Len(os) : w[o] = IF o = h THEN told ELSE os[o] BY <2>2, <2>7
 <2> QED BY <2>2, <2>4, <2>6, <2>8, <2>9, <2>10
<1> QED BY <1>1, <1>2

\* A step of one request: what it was responsible for has ended or been told
\* to, is registered, or still its own, and so is what it has opened.
LEMMA MsStepKeeps ==
  ASSUME MsInv, NEW c \in MsCallers, NEW r, msCaller' = [msCaller EXCEPT ![c] = r],
         MsCallerRow(r, Len(msOwners')), msOwners' \in Seq(MsOwnerRow), Len(msOwners) <= Len(msOwners'),
         \A o \in 1..Len(msOwners) : /\ msOwners[o].at = "gone" => msOwners'[o].at = "gone"
                                     /\ msOwners[o].close => msOwners'[o].close,
         msEntries' \in Seq(1..Len(msOwners')), Len(msEntries') <= MsMaxSessions,
         msInflight' \in [MsScopes -> 0..Len(msOwners')], msTools' \in [MsScopes -> 0..Len(msOwners')],
         msWrapped' \subseteq MsScopes,
         \A o \in 1..Len(msOwners') :
            o > Len(msOwners) \/ o \in MsRegistered \/ MsHolds(msCaller[c], o) =>
              \/ msOwners'[o].at = "gone" \/ msOwners'[o].close
              \/ \E i \in 1..Len(msEntries') : msEntries'[i] = o
              \/ MsHolds(r, o)
  PROVE  MsInv'
<1>0. MsTyped /\ MsKept BY DEF MsInv
<1>1. Len(msOwners) \in Nat /\ Len(msOwners') \in Nat BY <1>0 DEF MsTyped
<1>2. \A d \in MsCallers : msCaller'[d] = IF d = c THEN r ELSE msCaller[d] BY <1>0 DEF MsTyped
<1>3. MsTyped'
 <2>1. \A d \in MsCallers : MsCallerRow(msCaller'[d], Len(msOwners'))
  <3>1. \A d \in MsCallers : MsCallerRow(msCaller[d], Len(msOwners'))
    BY <1>0, <1>1, MsMore DEF MsTyped
  <3> QED BY <1>2, <3>1
 <2>2. msCaller' = [d \in MsCallers |-> msCaller'[d]] BY <1>0 DEF MsTyped
 <2> QED BY <2>1, <2>2 DEF MsTyped
<1>4. MsKept'
 <2> SUFFICES ASSUME NEW o \in 1..Len(msOwners'),
                     ~(msOwners'[o].at = "gone"), ~msOwners'[o].close,
                     ~\E i \in 1..Len(msEntries') : msEntries'[i] = o
              PROVE  \E d \in MsCallers : MsHolds(msCaller'[d], o)
   BY DEF MsKept, MsGone, MsRegistered
 <2>1. CASE o > Len(msOwners) \/ o \in MsRegistered \/ MsHolds(msCaller[c], o)
  <3>1. MsHolds(r, o) BY <2>1
  <3> QED BY <1>2, <3>1
 <2>2. CASE ~(o > Len(msOwners) \/ o \in MsRegistered \/ MsHolds(msCaller[c], o))
  <3>1. o \in 1..Len(msOwners) BY <1>1, <2>2
  <3>2. ~MsGone(o) /\ ~msOwners[o].close BY <3>1 DEF MsGone
  <3>3. PICK d \in MsCallers : MsHolds(msCaller[d], o) BY <1>0, <2>2, <3>1, <3>2 DEF MsKept
  <3> QED BY <1>2, <2>2, <3>3
 <2> QED BY <2>1, <2>2
<1>5. MsBounded' BY DEF MsBounded
<1> QED BY <1>3, <1>4, <1>5 DEF MsInv

\* An idle request keeps nothing.
LEMMA MsIdleRow ==
  ASSUME NEW n \in Nat
  PROVE  MsRecord(MsIdle, n) /\ MsCallerRow(MsIdle, n)
<1>1. PICK idle : idle = MsIdle OBVIOUS
<1>2. <<>> \in Seq(1..n) /\ 0 \in 0..n OBVIOUS
<1>3. MsRecord(idle, n) /\ MsCallerRow(idle, n) BY <1>1, <1>2 DEF MsIdle, MsRecord, MsCallerRow
<1> QED BY <1>1, <1>3

\* A request that is over, or elsewhere.
LEMMA MsAtRow ==
  ASSUME NEW n \in Nat, NEW rec, MsRecord(rec, n), NEW at, at \notin {"get", "drain"}, at = "call" => rec.op = "invoke",
         at \in {"wait", "join"} => rec.owner # 0
  PROVE  /\ MsCallerRow(MsAt(rec, at), n)
         /\ at = "wait" => MsOpens(MsAt(rec, at), rec.owner)
<1>1. PICK idle : idle = MsIdle OBVIOUS
<1>2. MsRecord(idle, n) /\ MsCallerRow(idle, n) /\ idle.at = "idle" BY <1>1, MsIdleRow DEF MsIdle
<1>3. PICK r : r = [rec EXCEPT !.at = at] OBVIOUS
<1>4. /\ MsRecord(r, n) /\ r.at = at /\ r.owner = rec.owner /\ r.op = rec.op BY <1>3 DEF MsRecord
<1>5. MsAt(rec, at) = IF rec.op # "catalog" /\ at \in {"failed", "timeout", "cancelled"} THEN idle ELSE r
  BY <1>1, <1>3 DEF MsAt
<1> QED BY <1>2, <1>4, <1>5 DEF MsCallerRow, MsOpens

\* A request that closes some owners, and then goes on.
LEMMA MsDrainingRow ==
  ASSUME NEW n \in Nat, NEW rec, MsRecord(rec, n), NEW drain \in Seq(1..n), NEW cancel,
         NEW then, then \notin {"get", "drain", "call"}, then \in {"wait", "join"} => rec.owner # 0
  PROVE  /\ MsCallerRow(MsDraining(rec, drain, cancel, then), n)
         /\ then = "wait" => MsOpens(MsDraining(rec, drain, cancel, then), rec.owner)
         /\ \A i \in 2..Len(drain) : MsYetToClose(MsDraining(rec, drain, cancel, then), drain[i])
<1>1. CASE drain = <<>>
 <2>1. MsDraining(rec, drain, cancel, then) = MsAt(rec, then) /\ Len(drain) = 0
   BY <1>1 DEF MsDraining
 <2>2. /\ MsCallerRow(MsAt(rec, then), n)
       /\ then = "wait" => MsOpens(MsAt(rec, then), rec.owner) BY MsAtRow
 <2> QED BY <2>1, <2>2
<1>2. CASE drain # <<>>
 <2>1. PICK r : r = [rec EXCEPT !.at = "drain", !.drain = drain, !.cancel = cancel, !.then = then]
   OBVIOUS
 <2>2. /\ r = [at |-> r.at, scope |-> r.scope, op |-> r.op, owner |-> r.owner, drain |-> r.drain,
               cancel |-> r.cancel, then |-> r.then, late |-> r.late]
       /\ r.at = "drain" /\ r.drain = drain /\ r.then = then /\ r.owner = rec.owner
       /\ r.op = rec.op /\ r.scope = rec.scope BY <2>1 DEF MsRecord
 <2>3. MsDraining(rec, drain, cancel, then) = r BY <1>2, <2>1 DEF MsDraining
 <2>4. MsCallerRow(r, n) BY <1>2, <2>2 DEF MsCallerRow, MsRecord
 <2> QED BY <2>2, <2>3, <2>4 DEF MsOpens, MsYetToClose
<1> QED BY <1>1, <1>2

(* A request closes owners, after which it does something else: what it has
   taken out of the pool, opened, or been responsible for, it closes, has
   registered, or opens. *)
MsTakesOver(c, os, rec, drain, cancel, then) ==
  /\ os \in Seq(MsOwnerRow) /\ Len(msOwners) <= Len(os)
  /\ \A o \in 1..Len(msOwners) : os[o] = msOwners[o]
  /\ MsRecord(rec, Len(os)) /\ drain \in Seq(1..Len(os))
  /\ then \notin {"get", "drain", "call"} /\ (then \in {"wait", "join"} => rec.owner # 0)
  /\ msCaller' = [msCaller EXCEPT ![c] = MsDraining(rec, drain, cancel, then)]
  /\ msOwners' = MsClosing(os, drain, cancel)
  /\ msEntries' \in Seq(1..Len(os)) /\ Len(msEntries') <= MsMaxSessions
  /\ msInflight' \in [MsScopes -> 0..Len(os)] /\ msTools' \in [MsScopes -> 0..Len(os)]
  /\ msWrapped' \subseteq MsScopes
  /\ \A o \in 1..Len(os) :
       o > Len(msOwners) \/ o \in MsRegistered \/ MsHolds(msCaller[c], o) =>
         \/ os[o].at = "gone" \/ os[o].close
         \/ \E i \in 1..Len(msEntries') : msEntries'[i] = o
         \/ \E i \in 1..Len(drain) : drain[i] = o
         \/ then = "wait" /\ rec.owner = o

\* A request that closes what it takes out of the pool is responsible for it.
LEMMA MsDrainsKeep ==
  ASSUME MsInv, NEW c \in MsCallers, NEW os, NEW rec, NEW drain, NEW cancel, NEW then,
         MsTakesOver(c, os, rec, drain, cancel, then)
  PROVE  MsInv'
<1>a. /\ os \in Seq(MsOwnerRow) /\ drain \in Seq(1..Len(os)) /\ Len(msOwners) <= Len(os)
      /\ \A o \in 1..Len(msOwners) : os[o] = msOwners[o] BY DEF MsTakesOver
<1>b. /\ MsRecord(rec, Len(os)) /\ then \notin {"get", "drain", "call"} /\ (then \in {"wait", "join"} => rec.owner # 0)
      /\ msCaller' = [msCaller EXCEPT ![c] = MsDraining(rec, drain, cancel, then)]
      /\ msOwners' = MsClosing(os, drain, cancel) BY DEF MsTakesOver
<1>c. /\ msEntries' \in Seq(1..Len(os)) /\ Len(msEntries') <= MsMaxSessions
      /\ msInflight' \in [MsScopes -> 0..Len(os)] /\ msTools' \in [MsScopes -> 0..Len(os)]
      /\ msWrapped' \subseteq MsScopes BY DEF MsTakesOver
<1>d. ASSUME NEW o \in 1..Len(os), o > Len(msOwners) \/ o \in MsRegistered \/ MsHolds(msCaller[c], o)
      PROVE  \/ os[o].at = "gone" \/ os[o].close
             \/ \E i \in 1..Len(msEntries') : msEntries'[i] = o
             \/ \E i \in 1..Len(drain) : drain[i] = o
             \/ then = "wait" /\ rec.owner = o BY <1>d DEF MsTakesOver
<1>0. Len(os) \in Nat /\ Len(drain) \in Nat /\ Len(msOwners) \in Nat BY <1>a DEF MsInv, MsTyped
<1>1. PICK ws : ws = MsClosing(os, drain, cancel) OBVIOUS
<1>2. /\ ws \in Seq(MsOwnerRow) /\ Len(ws) = Len(os) /\ msOwners' = ws
      /\ \A o \in 1..Len(os) : /\ ws[o].at = os[o].at /\ (os[o].close => ws[o].close)
                               /\ drain # <<>> /\ o = drain[1] => ws[o].close
  BY <1>1, <1>a, <1>b, MsClosingTells
<1>3. PICK r : r = MsDraining(rec, drain, cancel, then) OBVIOUS
<1>4. /\ MsCallerRow(r, Len(os)) /\ msCaller' = [msCaller EXCEPT ![c] = r]
      /\ then = "wait" => MsOpens(r, rec.owner)
      /\ \A i \in 2..Len(drain) : MsYetToClose(r, drain[i]) BY <1>0, <1>3, <1>a, <1>b, MsDrainingRow
<1>5. ASSUME NEW o \in 1..Len(os), o > Len(msOwners) \/ o \in MsRegistered \/ MsHolds(msCaller[c], o)
      PROVE  \/ ws[o].at = "gone" \/ ws[o].close
             \/ \E i \in 1..Len(msEntries') : msEntries'[i] = o
             \/ MsHolds(r, o)
 <2>1. CASE \E i \in 1..Len(drain) : drain[i] = o
  <3>1. PICK i \in 1..Len(drain) : drain[i] = o BY <2>1
  <3>2. CASE i = 1
   <4>1. drain # <<>> BY <3>1
   <4> QED BY <1>2, <3>1, <3>2, <4>1
  <3>3. CASE i # 1
   <4>1. i \in 2..Len(drain) BY <1>0, <3>3
   <4> QED BY <1>4, <3>1, <4>1 DEF MsHolds
  <3> QED BY <3>2, <3>3
 <2>2. CASE then = "wait" /\ rec.owner = o BY <1>4, <2>2 DEF MsHolds
 <2>3. CASE os[o].at = "gone" \/ os[o].close \/ \E i \in 1..Len(msEntries') : msEntries'[i] = o
   BY <1>2, <2>3
 <2> QED BY <1>5, <1>d, <2>1, <2>2, <2>3
<1>6. \A o \in 1..Len(msOwners) : /\ msOwners[o].at = "gone" => ws[o].at = "gone"
                                  /\ msOwners[o].close => ws[o].close
 <2>1. \A o \in 1..Len(msOwners) : o \in 1..Len(os) BY <1>0, <1>a
 <2> QED BY <1>2, <1>a, <2>1
<1>7. /\ MsCallerRow(r, Len(msOwners')) /\ msOwners' \in Seq(MsOwnerRow) /\ Len(msOwners) <= Len(msOwners')
      /\ msEntries' \in Seq(1..Len(msOwners'))
      /\ msInflight' \in [MsScopes -> 0..Len(msOwners')] /\ msTools' \in [MsScopes -> 0..Len(msOwners')]
  BY <1>2, <1>4, <1>a, <1>c
<1>8. \A o \in 1..Len(msOwners) : /\ msOwners[o].at = "gone" => msOwners'[o].at = "gone"
                                  /\ msOwners[o].close => msOwners'[o].close BY <1>2, <1>6
<1>9. \A o \in 1..Len(msOwners') :
         o > Len(msOwners) \/ o \in MsRegistered \/ MsHolds(msCaller[c], o) =>
           \/ msOwners'[o].at = "gone" \/ msOwners'[o].close
           \/ \E i \in 1..Len(msEntries') : msEntries'[i] = o
           \/ MsHolds(r, o) BY <1>2, <1>5
<1> QED BY <1>4, <1>7, <1>8, <1>9, <1>c, MsStepKeeps

\* An owner's own step: what has ended stays ended, what was told to end is.
LEMMA MsOwnerKeeps ==
  ASSUME MsInv, NEW o \in DOMAIN msOwners,
         MsOwnerBegins(o) \/ MsOwnerReady(o) \/ MsOwnerFails(o) \/ MsOwnerEnds(o) \/ MsConnectionLost(o)
  PROVE  MsInv'
<1>0. MsTyped /\ MsKept /\ MsBounded BY DEF MsInv
<1>1. PICK row \in MsOwnerRow : row = msOwners[o] BY <1>0 DEF MsTyped
<1>2. /\ o \in 1..Len(msOwners) /\ msOwners \in Seq(MsOwnerRow) BY <1>0 DEF MsTyped
<1>3. PICK at \in MsOwnerPoints, ready \in {"pending", "result", "failed", "cancelled"}, broken \in BOOLEAN :
         /\ msOwners' = [msOwners EXCEPT ![o] = [row EXCEPT !.at = at, !.ready = ready, !.broken = broken]]
         /\ row.at # "gone"
 <2>1. row.at \in MsOwnerPoints /\ row.ready \in {"pending", "result", "failed", "cancelled"} /\ row.broken \in BOOLEAN
   BY DEF MsOwnerRow
 <2>2. row = [scope |-> row.scope, at |-> row.at, ready |-> row.ready, close |-> row.close,
              cancel |-> row.cancel, broken |-> row.broken] BY DEF MsOwnerRow
 <2>3. CASE MsOwnerBegins(o)
  <3>1. CASE row.cancel
   <4>1. [row EXCEPT !.at = "gone", !.ready = row.ready, !.broken = row.broken] = [row EXCEPT !.at = "gone"]
     BY <2>2
   <4>2. msOwners' = [msOwners EXCEPT ![o] = [row EXCEPT !.at = "gone"]] /\ row.at # "gone"
     BY <1>1, <2>3, <3>1 DEF MsOwnerBegins
   <4> QED BY <2>1, <4>1, <4>2 DEF MsOwnerPoints
  <3>2. CASE ~row.cancel
   <4>1. [row EXCEPT !.at = "opening", !.ready = row.ready, !.broken = row.broken] = [row EXCEPT !.at = "opening"]
     BY <2>2
   <4>2. msOwners' = [msOwners EXCEPT ![o] = [row EXCEPT !.at = "opening"]] /\ row.at # "gone"
     BY <1>1, <2>3, <3>2 DEF MsOwnerBegins
   <4> QED BY <2>1, <4>1, <4>2 DEF MsOwnerPoints
  <3> QED BY <3>1, <3>2
 <2>4. CASE MsOwnerReady(o)
  <3>1. [row EXCEPT !.at = "open", !.ready = "result", !.broken = row.broken] = [row EXCEPT !.at = "open", !.ready = "result"]
    BY <2>2
  <3>2. msOwners' = [msOwners EXCEPT ![o] = [row EXCEPT !.at = "open", !.ready = "result"]] /\ row.at # "gone"
    BY <1>1, <2>4 DEF MsOwnerReady
  <3> QED BY <2>1, <3>1, <3>2 DEF MsOwnerPoints
 <2>5. CASE MsOwnerFails(o)
  <3>1. PICK ready \in {"failed", "cancelled"} :
           msOwners' = [msOwners EXCEPT ![o] = [row EXCEPT !.at = "gone", !.ready = ready]] /\ row.at # "gone"
   <4>1. CASE row.cancel BY <1>1, <2>5, <4>1 DEF MsOwnerFails
   <4>2. CASE ~row.cancel BY <1>1, <2>5, <4>2 DEF MsOwnerFails
   <4> QED BY <4>1, <4>2
  <3>2. [row EXCEPT !.at = "gone", !.ready = ready, !.broken = row.broken] = [row EXCEPT !.at = "gone", !.ready = ready]
    BY <2>2
  <3> QED BY <2>1, <3>1, <3>2 DEF MsOwnerPoints
 <2>6. CASE MsOwnerEnds(o)
  <3>1. [row EXCEPT !.at = "gone", !.ready = row.ready, !.broken = row.broken] = [row EXCEPT !.at = "gone"]
    BY <2>2
  <3>2. msOwners' = [msOwners EXCEPT ![o] = [row EXCEPT !.at = "gone"]] /\ row.at # "gone"
    BY <1>1, <2>6 DEF MsOwnerEnds
  <3> QED BY <2>1, <3>1, <3>2 DEF MsOwnerPoints
 <2>7. CASE MsConnectionLost(o)
  <3>1. [row EXCEPT !.at = row.at, !.ready = row.ready, !.broken = TRUE] = [row EXCEPT !.broken = TRUE]
    BY <2>2
  <3>2. msOwners' = [msOwners EXCEPT ![o] = [row EXCEPT !.broken = TRUE]] /\ row.at # "gone"
    BY <1>1, <2>7 DEF MsConnectionLost
  <3> QED BY <2>1, <3>1, <3>2 DEF MsOwnerPoints
 <2> QED BY <2>3, <2>4, <2>5, <2>6, <2>7
<1>4. PICK new : new = [row EXCEPT !.at = at, !.ready = ready, !.broken = broken] OBVIOUS
<1>5. new \in MsOwnerRow /\ new.close = row.close BY <1>4 DEF MsOwnerRow
<1>6. PICK ws : ws = [msOwners EXCEPT ![o] = new] OBVIOUS
<1>7. /\ ws \in Seq(MsOwnerRow) /\ Len(ws) = Len(msOwners) /\ msOwners' = ws
      /\ \A p \in 1..Len(msOwners) : ws[p] = IF p = o THEN new ELSE msOwners[p]
  BY <1>2, <1>3, <1>4, <1>5, <1>6
<1>8. UNCHANGED <<msEntries, msInflight, msTools, msWrapped, msCaller>>
  BY DEF MsOwnerBegins, MsOwnerReady, MsOwnerFails, MsOwnerEnds, MsConnectionLost, MsOwnerOnly, msManager
<1>9. MsTyped' BY <1>0, <1>7, <1>8 DEF MsTyped
<1>10. MsKept'
 <2>1. \A p \in 1..Len(msOwners) : (ws[p].close <=> msOwners[p].close) /\ (msOwners[p].at = "gone" => ws[p].at = "gone")
   BY <1>1, <1>3, <1>5, <1>7
 <2> QED BY <1>0, <1>7, <1>8, <2>1 DEF MsKept, MsGone, MsRegistered
<1>11. MsBounded' BY <1>0, <1>8 DEF MsBounded
<1> QED BY <1>9, <1>10, <1>11 DEF MsInv

\* A request goes on that is responsible for nothing.
LEMMA MsGoKeeps ==
  ASSUME MsInv, NEW c \in MsCallers, NEW r, MsCallerRow(r, Len(msOwners)),
         msCaller' = [msCaller EXCEPT ![c] = r], msCaller[c].at \notin {"wait", "drain"},
         UNCHANGED msPool, msTools' \in [MsScopes -> 0..Len(msOwners)], msWrapped' \subseteq MsScopes
  PROVE  MsInv'
<1>1. /\ msOwners' = msOwners /\ msEntries' = msEntries /\ msInflight' = msInflight BY DEF msPool
<1>2. /\ msOwners \in Seq(MsOwnerRow) /\ msEntries \in Seq(1..Len(msOwners))
      /\ msInflight \in [MsScopes -> 0..Len(msOwners)] /\ Len(msEntries) <= MsMaxSessions
      /\ Len(msOwners) \in Nat BY DEF MsInv, MsTyped, MsBounded
<1>3. \A o \in 1..Len(msOwners) : ~MsHolds(msCaller[c], o) /\ ~(o > Len(msOwners))
  BY <1>2 DEF MsHolds, MsOpens, MsYetToClose
<1>4. \A o \in 1..Len(msOwners) : o \in MsRegistered => \E i \in 1..Len(msEntries) : msEntries[i] = o
  BY <1>2 DEF MsRegistered
<1>5. /\ MsCallerRow(r, Len(msOwners')) /\ msOwners' \in Seq(MsOwnerRow) /\ Len(msOwners) <= Len(msOwners')
      /\ msEntries' \in Seq(1..Len(msOwners')) /\ Len(msEntries') <= MsMaxSessions
      /\ msInflight' \in [MsScopes -> 0..Len(msOwners')] /\ msTools' \in [MsScopes -> 0..Len(msOwners')]
  BY <1>1, <1>2
<1>6. \A o \in 1..Len(msOwners) : /\ msOwners[o].at = "gone" => msOwners'[o].at = "gone"
                                  /\ msOwners[o].close => msOwners'[o].close BY <1>1
<1>7. \A o \in 1..Len(msOwners') :
         o > Len(msOwners) \/ o \in MsRegistered \/ MsHolds(msCaller[c], o) =>
           \/ msOwners'[o].at = "gone" \/ msOwners'[o].close
           \/ \E i \in 1..Len(msEntries') : msEntries'[i] = o
           \/ MsHolds(r, o) BY <1>1, <1>3, <1>4
<1> QED BY <1>5, <1>6, <1>7, MsStepKeeps

(* The same among the owners there are. *)
MsGivesUp(c, rec, drain, cancel, then) ==
  /\ MsRecord(rec, Len(msOwners)) /\ drain \in Seq(1..Len(msOwners))
  /\ then \notin {"get", "drain", "call"} /\ (then \in {"wait", "join"} => rec.owner # 0)
  /\ MsDrains(c, rec, drain, cancel, then)
  /\ msEntries' \in Seq(1..Len(msOwners)) /\ Len(msEntries') <= MsMaxSessions
  /\ msInflight' \in [MsScopes -> 0..Len(msOwners)] /\ msTools' \in [MsScopes -> 0..Len(msOwners)]
  /\ msWrapped' \subseteq MsScopes
  /\ \A o \in 1..Len(msOwners) :
       o \in MsRegistered \/ MsHolds(msCaller[c], o) =>
         \/ msOwners[o].at = "gone" \/ msOwners[o].close
         \/ \E i \in 1..Len(msEntries') : msEntries'[i] = o
         \/ \E i \in 1..Len(drain) : drain[i] = o
         \/ then = "wait" /\ rec.owner = o

\* A request that closes owners of the pool is responsible for them.
LEMMA MsGivesUpKeeps ==
  ASSUME MsInv, NEW c \in MsCallers, NEW rec, NEW drain, NEW cancel, NEW then,
         MsGivesUp(c, rec, drain, cancel, then)
  PROVE  MsInv'
<1>0. msOwners \in Seq(MsOwnerRow) /\ Len(msOwners) \in Nat /\ ~(\E o \in 1..Len(msOwners) : o > Len(msOwners))
  BY DEF MsInv, MsTyped
<1>1. PICK os : os = msOwners OBVIOUS
<1>2. /\ MsRecord(rec, Len(msOwners)) /\ drain \in Seq(1..Len(msOwners))
      /\ then \notin {"get", "drain", "call"} /\ (then \in {"wait", "join"} => rec.owner # 0)
      /\ msCaller' = [msCaller EXCEPT ![c] = MsDraining(rec, drain, cancel, then)]
      /\ msOwners' = MsClosing(msOwners, drain, cancel)
      /\ msEntries' \in Seq(1..Len(msOwners)) /\ Len(msEntries') <= MsMaxSessions
      /\ msInflight' \in [MsScopes -> 0..Len(msOwners)] /\ msTools' \in [MsScopes -> 0..Len(msOwners)]
      /\ msWrapped' \subseteq MsScopes BY DEF MsGivesUp, MsDrains
<1>3. /\ os \in Seq(MsOwnerRow) /\ Len(msOwners) <= Len(os) /\ \A o \in 1..Len(msOwners) : os[o] = msOwners[o]
      /\ MsRecord(rec, Len(os)) /\ drain \in Seq(1..Len(os))
      /\ msOwners' = MsClosing(os, drain, cancel) /\ msEntries' \in Seq(1..Len(os))
      /\ msInflight' \in [MsScopes -> 0..Len(os)] /\ msTools' \in [MsScopes -> 0..Len(os)]
  BY <1>0, <1>1, <1>2
<1>4. \A o \in 1..Len(os) :
         o > Len(msOwners) \/ o \in MsRegistered \/ MsHolds(msCaller[c], o) =>
           \/ os[o].at = "gone" \/ os[o].close
           \/ \E i \in 1..Len(msEntries') : msEntries'[i] = o
           \/ \E i \in 1..Len(drain) : drain[i] = o
           \/ then = "wait" /\ rec.owner = o BY <1>0, <1>1 DEF MsGivesUp
<1>5. MsTakesOver(c, os, rec, drain, cancel, then) BY <1>2, <1>3, <1>4 DEF MsTakesOver
<1> QED BY <1>5, MsDrainsKeep

\* The next owner to be closed, or what comes after the last.
LEMMA MsDrainsOnKeeps ==
  ASSUME MsInv, NEW c \in MsCallers, msCaller[c].at = "drain", NEW rec, MsRecord(rec, Len(msOwners)),
         rec.owner = msCaller[c].owner, rec.drain = msCaller[c].drain,
         rec.then = msCaller[c].then \/ (rec.then = "timeout" /\ msCaller[c].then = "cancelled"),
         MsDrainsOn(c, rec)
  PROVE  MsInv'
<1>0. /\ MsTyped /\ MsBounded /\ MsCallerRow(msCaller[c], Len(msOwners)) /\ Len(msOwners) \in Nat
  BY DEF MsInv, MsTyped
<1>1. PICK rest : rest = Tail(rec.drain) OBVIOUS
<1>2. PICK then : then = IF rest = <<>> /\ rec.then = "drop" THEN "failed" ELSE rec.then OBVIOUS
<1>3. PICK d : d = rec.drain OBVIOUS
<1>4. d \in Seq(1..Len(msOwners)) /\ d # <<>> /\ Len(d) \in Nat /\ Len(d) # 0
  BY <1>0, <1>3 DEF MsRecord, MsCallerRow
<1>5. rest \in Seq(1..Len(msOwners)) /\ Len(rest) = Len(d) - 1 /\ \A i \in 1..Len(rest) : rest[i] = d[i + 1]
 <2>1. rest = Tail(d) BY <1>1, <1>3
 <2>2. rest \in Seq(1..Len(msOwners)) /\ Len(rest) = Len(d) - 1 BY <1>4, <2>1, HeadTailProperties
 <2>3. \A i \in 1..Len(rest) : rest[i] = d[i + 1] BY <1>4, <2>1, <2>2, HeadTailProperties
 <2> QED BY <2>2, <2>3
<1>6. then \notin {"get", "drain", "call"} /\ (then \in {"wait", "join"} => rec.owner # 0)
  BY <1>0, <1>2 DEF MsCallerRow
<1>7. /\ msCaller' = [msCaller EXCEPT ![c] = MsDraining(rec, rest, rec.cancel, then)]
      /\ msOwners' = MsClosing(msOwners, rest, rec.cancel)
      /\ msEntries' = msEntries /\ msWrapped' = msWrapped
  BY <1>1, <1>2 DEF MsDrainsOn, MsDrains, msManager
<1>8. msInflight' \in [MsScopes -> 0..Len(msOwners)] /\ msTools' \in [MsScopes -> 0..Len(msOwners)]
 <2>1. 0 \in 0..Len(msOwners) BY <1>0
 <2>2. \A s \in MsScopes : msInflight[s] \in 0..Len(msOwners) /\ msTools[s] \in 0..Len(msOwners)
   BY <1>0 DEF MsTyped
 <2> QED BY <2>1, <2>2 DEF MsDrainsOn
<1>9. ASSUME NEW o \in 1..Len(msOwners), o \in MsRegistered \/ MsHolds(msCaller[c], o)
      PROVE  \/ msOwners[o].at = "gone" \/ msOwners[o].close
             \/ \E i \in 1..Len(msEntries') : msEntries'[i] = o
             \/ \E i \in 1..Len(rest) : rest[i] = o
             \/ then = "wait" /\ rec.owner = o
 <2>1. CASE o \in MsRegistered
  <3>1. PICK i \in 1..Len(msEntries) : msEntries[i] = o BY <1>0, <2>1 DEF MsRegistered, MsTyped
  <3> QED BY <1>7, <3>1
 <2>2. CASE MsOpens(msCaller[c], o) BY <1>2, <2>2 DEF MsOpens
 <2>3. CASE MsYetToClose(msCaller[c], o)
  <3>1. PICK n \in 2..Len(d) : d[n] = o BY <1>3, <2>3 DEF MsYetToClose
  <3>a. Len(rest) = Len(d) - 1 /\ Len(d) \in Nat BY <1>4, <1>5
  <3>2. n - 1 \in 1..Len(rest) /\ (n - 1) + 1 = n BY <3>a, <3>1
  <3> QED BY <1>5, <3>1, <3>2
 <2> QED BY <1>9, <2>1, <2>2, <2>3 DEF MsHolds
<1>10. /\ msOwners \in Seq(MsOwnerRow) /\ msEntries' \in Seq(1..Len(msOwners)) /\ Len(msEntries') <= MsMaxSessions
       /\ msWrapped' \subseteq MsScopes BY <1>0, <1>7 DEF MsTyped, MsBounded
<1>11. MsGivesUp(c, rec, rest, rec.cancel, then)
  BY <1>5, <1>6, <1>7, <1>8, <1>9, <1>10 DEF MsGivesUp, MsDrains
<1> QED BY <1>11, MsGivesUpKeeps

\* The end of an owner, or of the patience for it.
LEMMA MsWaitsKeep ==
  ASSUME MsInv, NEW c \in MsCallers, MsWaited(c) \/ MsHurried(c)
  PROVE  MsInv'
<1>1. MsRecord(msCaller[c], Len(msOwners)) BY DEF MsInv, MsTyped, MsCallerRow
<1>2. CASE MsWaited(c)
 <2>1. PICK rec : rec = msCaller[c] OBVIOUS
 <2>2. MsDrainsOn(c, rec) /\ msCaller[c].at = "drain" BY <1>2, <2>1 DEF MsWaited
 <2> QED BY <1>1, <2>1, <2>2, MsDrainsOnKeeps
<1>3. CASE MsHurried(c)
 <2>1. PICK then : then = IF msCaller[c].then = "cancelled" THEN "timeout" ELSE msCaller[c].then
   OBVIOUS
 <2>2. PICK rec : rec = [msCaller[c] EXCEPT !.late = TRUE, !.then = then] OBVIOUS
 <2>3. MsRecord(rec, Len(msOwners)) /\ rec.owner = msCaller[c].owner /\ rec.drain = msCaller[c].drain /\ rec.then = then
   BY <1>1, <2>2 DEF MsRecord
 <2>4. MsDrainsOn(c, rec) /\ msCaller[c].at = "drain" BY <1>3, <2>1, <2>2 DEF MsHurried
 <2> QED BY <2>1, <2>3, <2>4, MsDrainsOnKeeps
<1> QED BY <1>2, <1>3

\* What is in the pool is in what is left of it, or is the entry of the scope.
LEMMA MsRegisteredLeft ==
  ASSUME MsInv, NEW s \in MsScopes, NEW o, o \in MsRegistered
  PROVE  \/ \E j \in 1..Len(MsWithout(s)) : MsWithout(s)[j] = o
         \/ Len(MsEntry(s)) = 1 /\ MsEntry(s)[1] = o
<1>0. msEntries \in Seq(1..Len(msOwners)) BY DEF MsInv, MsTyped
<1>1. PICK i \in 1..Len(msEntries) : msEntries[i] = o BY <1>0 DEF MsRegistered
<1> QED BY <1>1, MsLeft

\* What is in the first of two lists is in both together.
LEMMA MsJoined2 ==
  ASSUME NEW S, NEW p \in Seq(S), NEW q \in Seq(S)
  PROVE  /\ p \o q \in Seq(S)
         /\ \A o : (\E i \in 1..Len(p) : p[i] = o) \/ (\E i \in 1..Len(q) : q[i] = o)
                     => \E i \in 1..Len(p \o q) : (p \o q)[i] = o
<1>1. PICK w : w = p \o q OBVIOUS
<1>2. /\ w \in Seq(S) /\ Len(w) = Len(p) + Len(q) /\ Len(p) \in Nat /\ Len(q) \in Nat
      /\ \A i \in 1..Len(p) : w[i] = p[i]
      /\ \A i \in 1..Len(q) : w[Len(p) + i] = q[i] BY <1>1, ConcatProperties
<1>3. \A i \in 1..Len(p) : i \in 1..Len(w) BY <1>2
<1>4. \A i \in 1..Len(q) : Len(p) + i \in 1..Len(w) BY <1>2
<1> QED BY <1>1, <1>2, <1>3, <1>4

\* A request that finds, joins or opens a session.
LEMMA MsGetKeeps ==
  ASSUME MsInv, NEW c \in MsCallers, NEW rec, MsRecord(rec, Len(msOwners)), rec.scope \in MsScopes,
         msCaller[c].at \notin {"wait", "drain"}, MsGetSession(c, rec),
         msTools' \in [MsScopes -> 0..Len(msOwners)], msWrapped' \subseteq MsScopes
  PROVE  MsInv'
<1>0. /\ msOwners \in Seq(MsOwnerRow) /\ Len(msOwners) \in Nat /\ MsMaxSessions \in Nat
      /\ Len(msEntries) \in Nat /\ Len(msEntries) <= MsMaxSessions
      /\ msInflight \in [MsScopes -> 0..Len(msOwners)] BY MsAssumption DEF MsInv, MsTyped, MsBounded
<1>1. \A o : ~MsHolds(msCaller[c], o) BY DEF MsHolds, MsOpens, MsYetToClose
<1>2. PICK s \in MsScopes : s = rec.scope OBVIOUS
<1>3. PICK entry : entry = MsEntry(s) OBVIOUS
<1>4. PICK left : left = MsWithout(s) OBVIOUS
<1>5. /\ left \in Seq(1..Len(msOwners)) /\ entry \in Seq(1..Len(msOwners))
      /\ Len(entry) \in {0, 1} /\ Len(left) = Len(msEntries) - Len(entry)
      /\ Len(left) \in Nat /\ Len(left) <= MsMaxSessions BY <1>0, <1>3, <1>4, MsLeft
<1>6. ASSUME NEW o, o \in MsRegistered
      PROVE  (\E j \in 1..Len(left) : left[j] = o) \/ (Len(entry) = 1 /\ entry[1] = o)
  BY <1>3, <1>4, <1>6, MsRegisteredLeft
<1>7. PICK live : live = (entry # <<>> /\ ~MsGone(Head(entry))) OBVIOUS
<1>8. PICK joins : joins = (msInflight[s] # 0 /\ ~MsGone(msInflight[s])) OBVIOUS
<1>9. PICK stale : stale = IF joins THEN entry ELSE entry \o MsFlying(s) OBVIOUS
<1>10. PICK pending : pending = {o \in DOMAIN msOwners : msOwners[o].ready = "pending"} OBVIOUS
<1>11. PICK new : new = Len(msOwners) + 1 OBVIOUS
<1>12. CASE /\ msCaller' = [msCaller EXCEPT ![c] = MsAt(rec, "failed")]
            /\ UNCHANGED msPool
 <2>1. PICK r : r = MsAt(rec, "failed") OBVIOUS
 <2>2. MsCallerRow(r, Len(msOwners)) BY <1>0, <2>1, MsAtRow
 <2>3. msCaller' = [msCaller EXCEPT ![c] = r] BY <1>12, <2>1
 <2> QED BY <1>12, <2>2, <2>3, MsGoKeeps
<1>13. CASE /\ live
            /\ msEntries' = Append(left, Head(entry))
            /\ msCaller' = [msCaller EXCEPT ![c] = [rec EXCEPT !.at = "load", !.owner = Head(entry)]]
            /\ UNCHANGED <<msOwners, msInflight>>
 <2>1. PICK h : h = Head(entry) OBVIOUS
 <2>2. h \in 1..Len(msOwners) /\ h = entry[1] /\ Len(entry) = 1
  <3>1. entry # <<>> /\ entry \in Seq(1..Len(msOwners)) BY <1>5, <1>7, <1>13
  <3>2. Len(entry) # 0 BY <3>1
  <3>3. h \in 1..Len(msOwners) /\ h = entry[1] BY <2>1, <3>1
  <3> QED BY <1>5, <3>2, <3>3
 <2>3. PICK r : r = [rec EXCEPT !.at = "load", !.owner = h] OBVIOUS
 <2>4. MsCallerRow(r, Len(msOwners)) /\ msCaller' = [msCaller EXCEPT ![c] = r]
  <3>1. h \in 0..Len(msOwners) BY <1>0, <2>2
  <3>2. MsRecord(r, Len(msOwners)) /\ r.at = "load" BY <2>3, <3>1 DEF MsRecord
  <3> QED BY <1>13, <2>1, <2>3, <3>2 DEF MsCallerRow
 <2>5. PICK es : es = Append(left, h) OBVIOUS
 <2>6. /\ es \in Seq(1..Len(msOwners)) /\ Len(es) = Len(left) + 1
       /\ es[Len(left) + 1] = h /\ \A j \in 1..Len(left) : es[j] = left[j] BY <1>5, <2>2, <2>5
 <2>7. msEntries' = es /\ Len(es) <= MsMaxSessions /\ msOwners' = msOwners
  <3>1. Len(left) = Len(msEntries) - 1 BY <1>5, <2>2
  <3>2. Len(es) <= MsMaxSessions BY <1>0, <2>6, <3>1
  <3> QED BY <1>13, <2>1, <2>5, <3>2
 <2>8. ASSUME NEW o \in MsRegistered
       PROVE  \E j \in 1..Len(es) : es[j] = o
  <3>1. \A j \in 1..Len(left) : j \in 1..Len(es) BY <1>5, <2>6
  <3>2. Len(left) + 1 \in 1..Len(es) BY <1>5, <2>6
  <3> QED BY <1>6, <2>2, <2>6, <3>1, <3>2
 <2>9. \A o \in 1..Len(msOwners') :
          o > Len(msOwners) \/ o \in MsRegistered \/ MsHolds(msCaller[c], o) =>
            \/ msOwners'[o].at = "gone" \/ msOwners'[o].close
            \/ \E i \in 1..Len(msEntries') : msEntries'[i] = o
            \/ MsHolds(r, o)
  <3>1. \A o \in 1..Len(msOwners) : ~(o > Len(msOwners)) BY <1>0
  <3> QED BY <1>1, <2>7, <2>8, <3>1
 <2>10. /\ MsCallerRow(r, Len(msOwners')) /\ msOwners' \in Seq(MsOwnerRow) /\ Len(msOwners) <= Len(msOwners')
        /\ msEntries' \in Seq(1..Len(msOwners')) /\ Len(msEntries') <= MsMaxSessions
        /\ msInflight' \in [MsScopes -> 0..Len(msOwners')] /\ msTools' \in [MsScopes -> 0..Len(msOwners')]
  <3>1. msOwners' = msOwners /\ msEntries' = es /\ msInflight' = msInflight BY <1>13, <2>7
  <3>2. MsCallerRow(r, Len(msOwners')) /\ msEntries' \in Seq(1..Len(msOwners')) BY <2>4, <2>6, <3>1
  <3> QED BY <1>0, <2>7, <3>1, <3>2
 <2>11. \A o \in 1..Len(msOwners) : /\ msOwners[o].at = "gone" => msOwners'[o].at = "gone"
                                    /\ msOwners[o].close => msOwners'[o].close BY <2>7
 <2> QED BY <2>4, <2>9, <2>10, <2>11, MsStepKeeps
<1>14. CASE /\ ~live
            /\ msEntries' = left
            /\ msCaller' = [msCaller EXCEPT ![c] =
                 MsDraining([rec EXCEPT !.owner = IF joins THEN msInflight[s] ELSE new], stale, pending,
                            IF joins THEN "join" ELSE "wait")]
            /\ msOwners' = MsClosing(IF joins THEN msOwners ELSE Append(msOwners, MsNewOwner(s)),
                                     stale, pending)
            /\ msInflight' = IF joins THEN msInflight ELSE [msInflight EXCEPT ![s] = new]
 <2>1. stale \in Seq(1..Len(msOwners)) /\ \A o : Len(entry) = 1 /\ entry[1] = o => \E i \in 1..Len(stale) : stale[i] = o
  <3>1. CASE joins
   <4>1. stale = entry BY <1>9, <3>1
   <4> QED BY <1>5, <4>1
  <3>2. CASE ~joins
   <4>1. PICK fly : fly = MsFlying(s) OBVIOUS
   <4>2. fly \in Seq(1..Len(msOwners)) /\ stale = entry \o fly BY <1>9, <3>2, <4>1, MsFlyingOwner
   <4>3. PICK S : S = 1..Len(msOwners) OBVIOUS
   <4>4. /\ entry \o fly \in Seq(S)
         /\ \A o : (\E i \in 1..Len(entry) : entry[i] = o) => \E i \in 1..Len(entry \o fly) : (entry \o fly)[i] = o
     BY <1>5, <4>2, <4>3, MsJoined2
   <4>5. \A o : Len(entry) = 1 /\ entry[1] = o => \E i \in 1..Len(entry) : entry[i] = o OBVIOUS
   <4> QED BY <4>2, <4>3, <4>4, <4>5
  <3> QED BY <3>1, <3>2
 <2>2. CASE joins
  <3>1. PICK o1 : o1 = msInflight[s] OBVIOUS
  <3>2. o1 \in 0..Len(msOwners) BY <1>0, <3>1
  <3>3. PICK r : r = [rec EXCEPT !.owner = o1] OBVIOUS
  <3>4. MsRecord(r, Len(msOwners)) /\ r.owner # 0
   <4>1. o1 # 0 BY <1>8, <2>2, <3>1
   <4> QED BY <3>2, <3>3, <4>1 DEF MsRecord
  <3>5. MsDrains(c, r, stale, pending, "join") BY <1>14, <2>2, <3>1, <3>3 DEF MsDrains
  <3>6. ASSUME NEW o \in 1..Len(msOwners), o \in MsRegistered \/ MsHolds(msCaller[c], o)
        PROVE  \/ \E i \in 1..Len(msEntries') : msEntries'[i] = o
               \/ \E i \in 1..Len(stale) : stale[i] = o
   <4>1. o \in MsRegistered BY <1>1, <3>6
   <4>2. (\E j \in 1..Len(left) : left[j] = o) \/ (Len(entry) = 1 /\ entry[1] = o) BY <1>6, <4>1
   <4>3. msEntries' = left BY <1>14
   <4> QED BY <2>1, <4>2, <4>3
  <3>7. /\ msEntries' \in Seq(1..Len(msOwners)) /\ Len(msEntries') <= MsMaxSessions
        /\ msInflight' \in [MsScopes -> 0..Len(msOwners)] BY <1>0, <1>5, <1>14, <2>2
  <3>8. MsGivesUp(c, r, stale, pending, "join") BY <2>1, <3>4, <3>5, <3>6, <3>7 DEF MsGivesUp
  <3> QED BY <3>8, MsGivesUpKeeps
 <2>3. CASE ~joins
  <3>1. PICK row : row = MsNewOwner(s) OBVIOUS
  <3>2. row \in MsOwnerRow BY <3>1 DEF MsNewOwner, MsOwnerRow, MsOwnerPoints
  <3>3. PICK os : os = Append(msOwners, row) OBVIOUS
  <3>4. /\ os \in Seq(MsOwnerRow) /\ Len(os) = new /\ \A o \in 1..Len(msOwners) : os[o] = msOwners[o]
        /\ Len(msOwners) <= Len(os) /\ new \in 1..Len(os) /\ new # 0 /\ Len(os) \in Nat
    BY <1>0, <1>11, <3>2, <3>3
  <3>5. PICK r : r = [rec EXCEPT !.owner = new] OBVIOUS
  <3>6. MsRecord(r, Len(os)) /\ r.owner = new
   <4>1. rec.drain \in Seq(1..Len(os)) BY <1>0, <3>4, MsMore DEF MsRecord
   <4> QED BY <3>4, <3>5, <4>1 DEF MsRecord
  <3>7. stale \in Seq(1..Len(os)) /\ left \in Seq(1..Len(os)) BY <1>0, <1>5, <2>1, <3>4, MsMore
  <3>8. /\ msCaller' = [msCaller EXCEPT ![c] = MsDraining(r, stale, pending, "wait")]
        /\ msOwners' = MsClosing(os, stale, pending) BY <1>14, <2>3, <3>1, <3>3, <3>5
  <3>9. \A n \in 0..Len(msOwners) : n \in 0..Len(os) BY <1>0, <3>4
  <3>10. msInflight' \in [MsScopes -> 0..Len(os)]
   <4>1. msInflight' = [msInflight EXCEPT ![s] = new] /\ new \in 0..Len(os) BY <1>14, <2>3, <3>4
   <4> QED BY <1>0, <3>9, <4>1
  <3>11. msTools' \in [MsScopes -> 0..Len(os)] BY <3>9
  <3>12. ASSUME NEW o \in 1..Len(os), o > Len(msOwners) \/ o \in MsRegistered \/ MsHolds(msCaller[c], o)
         PROVE  \/ \E i \in 1..Len(msEntries') : msEntries'[i] = o
                \/ \E i \in 1..Len(stale) : stale[i] = o
                \/ r.owner = o
   <4>1. CASE o > Len(msOwners) BY <1>0, <1>11, <3>4, <3>6, <4>1
   <4>2. CASE o \in MsRegistered
    <5>1. (\E j \in 1..Len(left) : left[j] = o) \/ (Len(entry) = 1 /\ entry[1] = o) BY <1>6, <4>2
    <5>2. msEntries' = left BY <1>14
    <5> QED BY <2>1, <5>1, <5>2
   <4> QED BY <1>1, <3>12, <4>1, <4>2
  <3>13. msEntries' \in Seq(1..Len(os)) /\ Len(msEntries') <= MsMaxSessions BY <1>5, <1>14, <3>7
  <3>14. MsTakesOver(c, os, r, stale, pending, "wait")
    BY <3>4, <3>6, <3>7, <3>8, <3>10, <3>11, <3>12, <3>13 DEF MsTakesOver
  <3> QED BY <3>14, MsDrainsKeep
 <2> QED BY <2>2, <2>3
<1> QED
 <2>1. \/ /\ msCaller' = [msCaller EXCEPT ![c] = MsAt(rec, "failed")]
          /\ UNCHANGED msPool
       \/ /\ live
          /\ msEntries' = Append(left, Head(entry))
          /\ msCaller' = [msCaller EXCEPT ![c] = [rec EXCEPT !.at = "load", !.owner = Head(entry)]]
          /\ UNCHANGED <<msOwners, msInflight>>
       \/ /\ ~live
          /\ msEntries' = left
          /\ msCaller' = [msCaller EXCEPT ![c] =
               MsDraining([rec EXCEPT !.owner = IF joins THEN msInflight[s] ELSE new], stale, pending,
                          IF joins THEN "join" ELSE "wait")]
          /\ msOwners' = MsClosing(IF joins THEN msOwners ELSE Append(msOwners, MsNewOwner(s)),
                                   stale, pending)
          /\ msInflight' = IF joins THEN msInflight ELSE [msInflight EXCEPT ![s] = new]
   BY <1>2, <1>3, <1>4, <1>7, <1>8, <1>9, <1>10, <1>11 DEF MsGetSession
 <2> QED BY <1>12, <1>13, <1>14, <2>1

\* A request that starts.
LEMMA MsStartKeeps ==
  ASSUME MsInv, NEW c \in MsCallers, NEW s \in MsScopes, MsCatalog(c, s) \/ MsInvoke(c, s)
  PROVE  MsInv'
<1>0. /\ Len(msOwners) \in Nat /\ msOwners \in Seq(MsOwnerRow) /\ MsCallerRow(msCaller[c], Len(msOwners))
      /\ MsRecord(msCaller[c], Len(msOwners)) /\ msTools \in [MsScopes -> 0..Len(msOwners)]
      /\ msWrapped \subseteq MsScopes BY DEF MsInv, MsTyped, MsCallerRow
<1>1. PICK n : n = Len(msOwners) OBVIOUS
<1>2. PICK idle : idle = MsIdle OBVIOUS
<1>3. MsRecord(idle, n) /\ idle.at = "idle" /\ MsCallerRow(idle, n)
  BY <1>0, <1>1, <1>2, MsIdleRow DEF MsIdle
<1>4. CASE MsCatalog(c, s)
 <2>1. PICK r : r = [idle EXCEPT !.at = "get", !.scope = s, !.op = "catalog"] OBVIOUS
 <2>2. MsCallerRow(r, n) BY <1>3, <2>1 DEF MsCallerRow, MsRecord
 <2>3. msCaller' = [msCaller EXCEPT ![c] = r] /\ msCaller[c].at = "idle"
   BY <1>2, <1>4, <2>1 DEF MsCatalog
 <2>4. UNCHANGED msPool /\ msTools' = msTools /\ msWrapped' = msWrapped BY <1>4 DEF MsCatalog
 <2> QED BY <1>0, <1>1, <2>2, <2>3, <2>4, MsGoKeeps
<1>5. CASE MsInvoke(c, s)
 <2>1. PICK rec : rec = [idle EXCEPT !.scope = s, !.op = "invoke"] OBVIOUS
 <2>2. MsRecord(rec, n) /\ rec.scope = s /\ rec.op = "invoke" BY <1>3, <2>1 DEF MsRecord
 <2>3. msCaller[c].at = "idle" /\ msWrapped' = msWrapped BY <1>5 DEF MsInvoke, msManager
 <2>4. CASE /\ msCaller' = [msCaller EXCEPT ![c] = [rec EXCEPT !.at = "call", !.owner = msTools[s]]]
            /\ UNCHANGED <<msPool, msTools>>
  <3>1. PICK o \in 0..n : o = msTools[s] BY <1>0, <1>1
  <3>2. PICK r : r = [rec EXCEPT !.at = "call", !.owner = o] OBVIOUS
  <3>3. MsCallerRow(r, n) BY <2>2, <3>2 DEF MsCallerRow, MsRecord
  <3>4. msCaller' = [msCaller EXCEPT ![c] = r] BY <2>4, <3>1, <3>2
  <3> QED BY <1>0, <1>1, <2>3, <2>4, <3>3, <3>4, MsGoKeeps
 <2>5. CASE /\ MsGetSession(c, rec)
            /\ msTools' = IF MsHasSession(s) THEN msTools ELSE [msTools EXCEPT ![s] = 0]
  <3>1. msTools' \in [MsScopes -> 0..Len(msOwners)] BY <1>0, <2>5
  <3> QED BY <1>0, <1>1, <2>2, <2>3, <2>5, <3>1, MsGetKeeps
 <2> QED BY <1>2, <1>5, <2>1, <2>4, <2>5 DEF MsInvoke
<1> QED BY <1>4, <1>5

\* A request that goes on with the session it finds, or has.
LEMMA MsRequestKeeps ==
  ASSUME MsInv, NEW c \in MsCallers, MsDiscover(c) \/ MsJoined(c) \/ MsLoaded(c) \/ MsCatalogEnds(c)
  PROVE  MsInv'
<1>0. /\ Len(msOwners) \in Nat /\ msOwners \in Seq(MsOwnerRow) /\ MsCallerRow(msCaller[c], Len(msOwners))
      /\ MsRecord(msCaller[c], Len(msOwners)) /\ msTools \in [MsScopes -> 0..Len(msOwners)]
      /\ msWrapped \subseteq MsScopes BY DEF MsInv, MsTyped, MsCallerRow
<1>1. PICK n : n = Len(msOwners) OBVIOUS
<1>2. PICK idle : idle = MsIdle OBVIOUS
<1>3. MsRecord(idle, n) /\ idle.at = "idle" /\ MsCallerRow(idle, n)
  BY <1>0, <1>1, <1>2, MsIdleRow DEF MsIdle
<1>4. CASE MsDiscover(c)
 <2>1. PICK rec : rec = msCaller[c] OBVIOUS
 <2>2. MsRecord(rec, Len(msOwners)) /\ rec.scope \in MsScopes
   BY <1>0, <1>4, <2>1 DEF MsDiscover, MsCallerRow, MsRecord
 <2>3. /\ MsGetSession(c, rec) /\ msTools' = msTools /\ msWrapped' = msWrapped
       /\ msCaller[c].at = "get" BY <1>4, <2>1 DEF MsDiscover, msManager
 <2> QED BY <1>0, <2>2, <2>3, MsGetKeeps
<1>5. CASE MsJoined(c)
 <2>1. PICK rec : rec = msCaller[c] OBVIOUS
 <2>2. PICK ready : ready = msOwners[rec.owner].ready OBVIOUS
 <2>3. /\ rec.at = "join" /\ ready # "pending" /\ UNCHANGED msPool /\ msTools' = msTools /\ msWrapped' = msWrapped
       /\ msCaller' = [msCaller EXCEPT ![c] = MsAt(rec, IF ready = "result" THEN "load" ELSE ready)]
   BY <1>5, <2>1, <2>2 DEF MsJoined, MsGo, msManager
 <2>4. ready \in {"result", "failed", "cancelled"}
  <3>1. PICK o : o = rec.owner OBVIOUS
  <3>2. o \in 1..Len(msOwners) BY <1>0, <2>1, <2>3, <3>1 DEF MsCallerRow, MsRecord
  <3>3. PICK row \in MsOwnerRow : row = msOwners[o] BY <1>0, <3>2
  <3> QED BY <2>2, <2>3, <3>1, <3>3 DEF MsOwnerRow
 <2>5. PICK at : at = IF ready = "result" THEN "load" ELSE ready OBVIOUS
 <2>6. PICK r : r = MsAt(rec, at) OBVIOUS
 <2>7. at \in {"load", "failed", "cancelled"} BY <2>4, <2>5
 <2>8. MsCallerRow(r, n) BY <1>0, <1>1, <2>1, <2>6, <2>7, MsAtRow
 <2>9. msCaller' = [msCaller EXCEPT ![c] = r] /\ msCaller[c].at \notin {"wait", "drain"}
   BY <2>1, <2>3, <2>5, <2>6
 <2> QED BY <1>0, <1>1, <2>3, <2>8, <2>9, MsGoKeeps
<1>6. CASE MsLoaded(c)
 <2>1. PICK rec : rec = msCaller[c] OBVIOUS
 <2>2. PICK at : at = IF MsUsable(rec.owner) THEN IF rec.op = "invoke" THEN "call" ELSE "found" ELSE "failed"
   OBVIOUS
 <2>3. /\ rec.at = "load" /\ UNCHANGED msPool /\ msWrapped' = msWrapped
       /\ msCaller' = [msCaller EXCEPT ![c] = MsAt(rec, at)]
  <3>1. CASE MsUsable(rec.owner) BY <1>6, <2>1, <2>2, <3>1 DEF MsLoaded, MsGo, msManager
  <3>2. CASE ~MsUsable(rec.owner) BY <1>6, <2>1, <2>2, <3>2 DEF MsLoaded, MsGo, msManager
  <3> QED BY <3>1, <3>2
 <2>4. msTools' \in [MsScopes -> 0..Len(msOwners)]
  <3>1. PICK o \in 0..Len(msOwners) : o = rec.owner BY <1>0, <2>1 DEF MsRecord
  <3>2. CASE msTools' = [msTools EXCEPT ![rec.scope] = o] BY <1>0, <3>1, <3>2
  <3>3. CASE msTools' = msTools BY <1>0, <3>3
  <3> QED BY <1>6, <2>1, <3>1, <3>2, <3>3 DEF MsLoaded
 <2>5. at \in {"call", "found", "failed"} /\ (at = "call" => rec.op = "invoke") BY <2>2
 <2>6. PICK r : r = MsAt(rec, at) OBVIOUS
 <2>7. MsCallerRow(r, n) BY <1>0, <1>1, <2>1, <2>5, <2>6, MsAtRow
 <2>8. msCaller' = [msCaller EXCEPT ![c] = r] /\ msCaller[c].at \notin {"wait", "drain"}
   BY <2>1, <2>3, <2>6
 <2> QED BY <1>0, <1>1, <2>3, <2>4, <2>7, <2>8, MsGoKeeps
<1>7. CASE MsCatalogEnds(c)
 <2>1. /\ msCaller[c].op = "catalog" /\ msCaller[c].at \in {"found", "failed", "timeout", "cancelled"}
       /\ msCaller' = [msCaller EXCEPT ![c] = idle] /\ UNCHANGED msPool /\ msTools' = msTools
       /\ msWrapped' \in {msWrapped, msWrapped \cup {msCaller[c].scope}}
   BY <1>2, <1>7 DEF MsCatalogEnds
 <2>2. msCaller[c].scope \in MsScopes BY <1>0, <2>1 DEF MsRecord
 <2>3. msWrapped' \subseteq MsScopes BY <1>0, <2>1, <2>2
 <2> QED BY <1>0, <1>1, <1>3, <2>1, <2>3, MsGoKeeps
<1> QED BY <1>4, <1>5, <1>6, <1>7

\* Making room: what does not stay in the pool is closed, and what stays is
\* below the limit.
LEMMA MsRoomMade ==
  ASSUME MsInv
  PROVE  /\ SubSeq(msEntries, MsOverflow + 1, Len(msEntries)) \in Seq(1..Len(msOwners))
         /\ SubSeq(msEntries, 1, MsOverflow) \in Seq(1..Len(msOwners))
         /\ Len(SubSeq(msEntries, MsOverflow + 1, Len(msEntries))) < MsMaxSessions
         /\ \A i \in 1..Len(msEntries) :
              \/ \E j \in 1..Len(SubSeq(msEntries, 1, MsOverflow)) : SubSeq(msEntries, 1, MsOverflow)[j] = msEntries[i]
              \/ \E j \in 1..Len(SubSeq(msEntries, MsOverflow + 1, Len(msEntries))) :
                    SubSeq(msEntries, MsOverflow + 1, Len(msEntries))[j] = msEntries[i]
<1>1. PICK S : S = 1..Len(msOwners) OBVIOUS
<1>2. PICK es : es = msEntries OBVIOUS
<1>3. es \in Seq(S) /\ Len(es) \in Nat /\ Len(es) <= MsMaxSessions /\ MsMaxSessions \in Nat \ {0}
  BY <1>1, <1>2, MsAssumption DEF MsInv, MsTyped, MsBounded
<1>4. PICK k : k = MsOverflow OBVIOUS
<1>5. k \in 0..Len(es) /\ Len(es) - k < MsMaxSessions BY <1>2, <1>3, <1>4 DEF MsOverflow
<1>6. PICK a : a = SubSeq(es, 1, k) OBVIOUS
<1>7. PICK b : b = SubSeq(es, k + 1, Len(es)) OBVIOUS
<1>8. a \in Seq(S) /\ Len(a) = k /\ \A i \in 1..k : a[i] = es[i]
 <2>1. CASE k = 0 BY <1>3, <1>6, <2>1, SubSeqProperties
 <2>2. CASE k # 0
  <3>1. a \in Seq(S) /\ Len(a) = k - 1 + 1 /\ \A i \in 1..k - 1 + 1 : a[i] = es[1 + i - 1]
    BY <1>3, <1>5, <1>6, <2>2, SubSeqProperties
  <3>2. k - 1 + 1 = k /\ \A i \in 1..k : 1 + i - 1 = i BY <1>5
  <3> QED BY <3>1, <3>2
 <2> QED BY <2>1, <2>2
<1>9. b \in Seq(S) /\ Len(b) = Len(es) - k /\ \A i \in 1..Len(es) - k : b[i] = es[k + i]
 <2>1. CASE k = Len(es) BY <1>3, <1>7, <2>1, SubSeqProperties
 <2>2. CASE k # Len(es)
  <3>1. b \in Seq(S) /\ Len(b) = Len(es) - (k + 1) + 1 /\ \A i \in 1..Len(es) - (k + 1) + 1 : b[i] = es[(k + 1) + i - 1]
    BY <1>3, <1>5, <1>7, <2>2, SubSeqProperties
  <3>2. Len(es) - (k + 1) + 1 = Len(es) - k /\ \A i \in 1..Len(es) - k : (k + 1) + i - 1 = k + i
    BY <1>3, <1>5
  <3> QED BY <3>1, <3>2
 <2> QED BY <2>1, <2>2
<1>10. ASSUME NEW i \in 1..Len(es)
       PROVE  (\E j \in 1..Len(a) : a[j] = es[i]) \/ (\E j \in 1..Len(b) : b[j] = es[i])
 <2>1. CASE i <= k
  <3>1. i \in 1..k BY <2>1
  <3> QED BY <1>8, <3>1
 <2>2. CASE i > k
  <3>1. i - k \in 1..Len(es) - k /\ k + (i - k) = i BY <1>3, <1>5, <2>2
  <3> QED BY <1>9, <3>1
 <2> QED BY <1>5, <2>1, <2>2
<1> QED BY <1>1, <1>2, <1>4, <1>5, <1>6, <1>7, <1>8, <1>9, <1>10

\* The creator registers its session, making room for it, or closes it.
LEMMA MsRegisterKeeps ==
  ASSUME MsInv, NEW c \in MsCallers, MsRegister(c)
  PROVE  MsInv'
<1>0. /\ Len(msOwners) \in Nat /\ msOwners \in Seq(MsOwnerRow) /\ MsCallerRow(msCaller[c], Len(msOwners))
      /\ MsRecord(msCaller[c], Len(msOwners)) /\ msTools \in [MsScopes -> 0..Len(msOwners)]
      /\ msInflight \in [MsScopes -> 0..Len(msOwners)] /\ msEntries \in Seq(1..Len(msOwners))
      /\ msWrapped \subseteq MsScopes /\ Len(msEntries) <= MsMaxSessions /\ MsMaxSessions \in Nat
  BY MsAssumption DEF MsInv, MsTyped, MsCallerRow, MsBounded
<1>1. PICK rec : rec = msCaller[c] OBVIOUS
<1>2. PICK o : o = rec.owner OBVIOUS
<1>3. rec.at = "wait" /\ msTools' = msTools /\ msWrapped' = msWrapped
  BY <1>1 DEF MsRegister, msManager
<1>4. o \in 1..Len(msOwners) BY <1>0, <1>1, <1>2, <1>3 DEF MsCallerRow, MsRecord
<1>5. \A p : MsHolds(msCaller[c], p) => p = o BY <1>1, <1>2, <1>3 DEF MsHolds, MsOpens, MsYetToClose
<1>6. CASE MsStillCurrent(rec.scope, o)
 <2>1. PICK out : out = SubSeq(msEntries, 1, MsOverflow) OBVIOUS
 <2>2. PICK left : left = SubSeq(msEntries, MsOverflow + 1, Len(msEntries)) OBVIOUS
 <2>3. /\ left \in Seq(1..Len(msOwners)) /\ out \in Seq(1..Len(msOwners)) /\ Len(left) < MsMaxSessions
       /\ \A i \in 1..Len(msEntries) :
            (\E j \in 1..Len(out) : out[j] = msEntries[i]) \/ (\E j \in 1..Len(left) : left[j] = msEntries[i])
   BY <2>1, <2>2, MsRoomMade
 <2>4. PICK es : es = Append(left, o) OBVIOUS
 <2>5. /\ es \in Seq(1..Len(msOwners)) /\ Len(es) = Len(left) + 1 /\ Len(left) \in Nat
       /\ es[Len(left) + 1] = o /\ \A j \in 1..Len(left) : es[j] = left[j] BY <1>4, <2>3, <2>4
 <2>6. /\ msEntries' = es /\ MsDrains(c, rec, out, {}, "load")
       /\ msInflight' = [msInflight EXCEPT ![rec.scope] = 0]
   BY <1>1, <1>2, <1>6, <2>1, <2>2, <2>4 DEF MsRegister
 <2>7. ASSUME NEW p \in 1..Len(msOwners), p \in MsRegistered \/ MsHolds(msCaller[c], p)
       PROVE  \/ \E i \in 1..Len(es) : es[i] = p
              \/ \E i \in 1..Len(out) : out[i] = p
  <3>1. \A j \in 1..Len(left) : j \in 1..Len(es) BY <2>5
  <3>2. Len(left) + 1 \in 1..Len(es) BY <2>5
  <3>3. CASE MsHolds(msCaller[c], p) BY <1>5, <2>5, <3>2, <3>3
  <3>4. CASE p \in MsRegistered
   <4>1. PICK i \in 1..Len(msEntries) : msEntries[i] = p BY <1>0, <3>4 DEF MsRegistered
   <4> QED BY <2>3, <2>5, <3>1, <4>1
  <3> QED BY <2>7, <3>3, <3>4
 <2>8. /\ msEntries' \in Seq(1..Len(msOwners)) /\ Len(msEntries') <= MsMaxSessions
       /\ msInflight' \in [MsScopes -> 0..Len(msOwners)]
  <3>1. Len(es) <= MsMaxSessions BY <1>0, <2>3, <2>5
  <3>2. 0 \in 0..Len(msOwners) BY <1>0
  <3> QED BY <1>0, <2>5, <2>6, <3>1, <3>2
 <2>9. MsGivesUp(c, rec, out, {}, "load") BY <1>0, <1>1, <1>3, <2>3, <2>6, <2>7, <2>8 DEF MsGivesUp
 <2> QED BY <2>9, MsGivesUpKeeps
<1>7. CASE ~MsStillCurrent(rec.scope, o)
 <2>1. PICK out : out = <<o>> OBVIOUS
 <2>2. out \in Seq(1..Len(msOwners)) /\ Len(out) = 1 /\ out[1] = o BY <1>4, <2>1
 <2>3. /\ MsDrains(c, rec, out, {}, "cancelled") /\ msEntries' = msEntries /\ msInflight' = msInflight
   BY <1>1, <1>2, <1>7, <2>1 DEF MsRegister
 <2>4. ASSUME NEW p \in 1..Len(msOwners), p \in MsRegistered \/ MsHolds(msCaller[c], p)
       PROVE  \/ \E i \in 1..Len(msEntries) : msEntries[i] = p
              \/ \E i \in 1..Len(out) : out[i] = p BY <1>0, <1>5, <2>2, <2>4 DEF MsRegistered
 <2>5. MsGivesUp(c, rec, out, {}, "cancelled") BY <1>0, <1>1, <1>3, <2>2, <2>3, <2>4 DEF MsGivesUp
 <2> QED BY <2>5, MsGivesUpKeeps
<1> QED BY <1>6, <1>7

\* A creator that gives up closes its own session.
LEMMA MsAbandonKeeps ==
  ASSUME MsInv, NEW c \in MsCallers, NEW then \in {"failed", "cancelled", "timeout"}, MsAbandon(c, then)
  PROVE  MsInv'
<1>0. /\ Len(msOwners) \in Nat /\ MsCallerRow(msCaller[c], Len(msOwners))
      /\ MsRecord(msCaller[c], Len(msOwners)) /\ msTools \in [MsScopes -> 0..Len(msOwners)]
      /\ msInflight \in [MsScopes -> 0..Len(msOwners)] /\ msEntries \in Seq(1..Len(msOwners))
      /\ msWrapped \subseteq MsScopes /\ Len(msEntries) <= MsMaxSessions
  BY DEF MsInv, MsTyped, MsCallerRow, MsBounded
<1>1. PICK o : o = msCaller[c].owner OBVIOUS
<1>2. msCaller[c].at = "wait" /\ UNCHANGED <<msEntries, msInflight, msTools, msWrapped>>
  BY DEF MsAbandon, msManager
<1>3. o \in 1..Len(msOwners) BY <1>0, <1>1, <1>2 DEF MsCallerRow, MsRecord
<1>4. PICK out : out = <<o>> OBVIOUS
<1>5. out \in Seq(1..Len(msOwners)) /\ Len(out) = 1 /\ out[1] = o BY <1>3, <1>4
<1>6. PICK late : late = (msCaller[c].late \/ then = "timeout") OBVIOUS
<1>7. PICK rec : rec = [msCaller[c] EXCEPT !.late = late] OBVIOUS
<1>8. MsRecord(rec, Len(msOwners)) /\ MsDrains(c, rec, out, {o}, then)
  BY <1>0, <1>1, <1>4, <1>6, <1>7 DEF MsRecord, MsAbandon
<1>9. ASSUME NEW p \in 1..Len(msOwners), p \in MsRegistered \/ MsHolds(msCaller[c], p)
      PROVE  (\E i \in 1..Len(msEntries) : msEntries[i] = p) \/ (\E i \in 1..Len(out) : out[i] = p)
  BY <1>0, <1>1, <1>2, <1>5, <1>9 DEF MsRegistered, MsHolds, MsOpens, MsYetToClose
<1>10. MsGivesUp(c, rec, out, {o}, then) BY <1>0, <1>2, <1>5, <1>8, <1>9 DEF MsGivesUp
<1> QED BY <1>10, MsGivesUpKeeps

\* The failure of an owner, or the time limit of a request.
LEMMA MsStopKeeps ==
  ASSUME MsInv, NEW c \in MsCallers, MsNotReady(c) \/ MsTimeout(c)
  PROVE  MsInv'
<1>1. CASE MsNotReady(c)
 <2>1. PICK then \in {"failed", "cancelled"} : MsAbandon(c, then) BY <1>1 DEF MsNotReady
 <2> QED BY <2>1, MsAbandonKeeps
<1>2. CASE MsAbandon(c, "timeout") BY <1>2, MsAbandonKeeps
<1>3. CASE /\ msCaller[c].at \in {"join", "load", "call"}
           /\ MsGo(c, "timeout")
           /\ UNCHANGED <<msPool, msTools, msManager, msClosed, msFaults>>
 <2>1. /\ Len(msOwners) \in Nat /\ MsRecord(msCaller[c], Len(msOwners))
       /\ msTools \in [MsScopes -> 0..Len(msOwners)] /\ msWrapped \subseteq MsScopes
   BY DEF MsInv, MsTyped, MsCallerRow
 <2>2. PICK rec : rec = msCaller[c] OBVIOUS
 <2>3. PICK r : r = MsAt(rec, "timeout") OBVIOUS
 <2>4. MsCallerRow(r, Len(msOwners)) BY <2>1, <2>2, <2>3, MsAtRow
 <2>5. /\ msCaller' = [msCaller EXCEPT ![c] = r] /\ msCaller[c].at \notin {"wait", "drain"}
       /\ UNCHANGED msPool /\ msTools' = msTools /\ msWrapped' = msWrapped
   BY <1>3, <2>2, <2>3 DEF MsGo, msManager
 <2> QED BY <2>1, <2>4, <2>5, MsGoKeeps
<1> QED BY <1>1, <1>2, <1>3 DEF MsTimeout

\* A call is answered, or its connection closed.
LEMMA MsAnsweredKeeps ==
  ASSUME MsInv, NEW c \in MsCallers, MsAnswered(c)
  PROVE  MsInv'
<1>0. /\ Len(msOwners) \in Nat /\ MsCallerRow(msCaller[c], Len(msOwners))
      /\ MsRecord(msCaller[c], Len(msOwners)) /\ msTools \in [MsScopes -> 0..Len(msOwners)]
      /\ msInflight \in [MsScopes -> 0..Len(msOwners)] /\ msEntries \in Seq(1..Len(msOwners))
      /\ msWrapped \subseteq MsScopes /\ Len(msEntries) <= MsMaxSessions /\ Len(msEntries) \in Nat
      /\ MsMaxSessions \in Nat BY MsAssumption DEF MsInv, MsTyped, MsCallerRow, MsBounded
<1>1. msCaller[c].at = "call" /\ msWrapped' = msWrapped /\ msCaller[c].scope \in MsScopes
  BY <1>0 DEF MsAnswered, MsCallerRow, MsRecord, msManager
<1>2. CASE MsUsable(msCaller[c].owner)
 <2>1. PICK idle : idle = MsIdle OBVIOUS
 <2>2. MsCallerRow(idle, Len(msOwners)) BY <1>0, <2>1, MsIdleRow
 <2>3. msCaller' = [msCaller EXCEPT ![c] = idle] /\ UNCHANGED msPool /\ msTools' = msTools
   BY <1>2, <2>1 DEF MsAnswered
 <2> QED BY <1>0, <1>1, <2>2, <2>3, MsGoKeeps
<1>3. CASE ~MsUsable(msCaller[c].owner)
 <2>1. PICK rec : rec = msCaller[c] OBVIOUS
 <2>2. PICK s \in MsScopes : s = rec.scope BY <1>1, <2>1
 <2>3. PICK entry : entry = MsEntry(s) OBVIOUS
 <2>4. PICK left : left = MsWithout(s) OBVIOUS
 <2>5. PICK fly : fly = MsFlying(s) OBVIOUS
 <2>6. PICK drain : drain = entry \o fly OBVIOUS
 <2>7. PICK then : then = IF drain = <<>> THEN "failed" ELSE "drop" OBVIOUS
 <2>8. PICK cancel : cancel = {msInflight[s]} OBVIOUS
 <2>9. /\ left \in Seq(1..Len(msOwners)) /\ entry \in Seq(1..Len(msOwners)) /\ Len(left) <= Len(msEntries)
       /\ fly \in Seq(1..Len(msOwners)) /\ Len(left) \in Nat
   BY <1>0, <2>3, <2>4, <2>5, MsLeft, MsFlyingOwner
 <2>10. /\ drain \in Seq(1..Len(msOwners))
        /\ \A o : Len(entry) = 1 /\ entry[1] = o => \E i \in 1..Len(drain) : drain[i] = o
  <3>1. PICK S : S = 1..Len(msOwners) OBVIOUS
  <3>2. /\ entry \o fly \in Seq(S)
        /\ \A o : (\E i \in 1..Len(entry) : entry[i] = o) => \E i \in 1..Len(entry \o fly) : (entry \o fly)[i] = o
    BY <2>9, <3>1, MsJoined2
  <3>3. \A o : Len(entry) = 1 /\ entry[1] = o => \E i \in 1..Len(entry) : entry[i] = o OBVIOUS
  <3> QED BY <2>6, <3>1, <3>2, <3>3
 <2>11. /\ msEntries' = left /\ MsDrains(c, rec, drain, cancel, then)
        /\ msInflight' = [msInflight EXCEPT ![s] = 0]
        /\ msTools' \in {msTools, [msTools EXCEPT ![s] = 0]}
   BY <1>3, <2>1, <2>2, <2>3, <2>4, <2>5, <2>6, <2>7, <2>8 DEF MsAnswered
 <2>12. ASSUME NEW o \in 1..Len(msOwners), o \in MsRegistered \/ MsHolds(msCaller[c], o)
        PROVE  (\E i \in 1..Len(left) : left[i] = o) \/ (\E i \in 1..Len(drain) : drain[i] = o)
  <3>1. o \in MsRegistered BY <1>1, <2>12 DEF MsHolds, MsOpens, MsYetToClose
  <3>2. (\E j \in 1..Len(left) : left[j] = o) \/ (Len(entry) = 1 /\ entry[1] = o)
    BY <2>3, <2>4, <3>1, MsRegisteredLeft
  <3> QED BY <2>10, <3>2
 <2>13. /\ msInflight' \in [MsScopes -> 0..Len(msOwners)] /\ msTools' \in [MsScopes -> 0..Len(msOwners)]
        /\ Len(left) <= MsMaxSessions
  <3>1. Len(left) <= MsMaxSessions BY <1>0, <2>9
  <3>2. 0 \in 0..Len(msOwners) BY <1>0
  <3>3. msInflight' \in [MsScopes -> 0..Len(msOwners)] BY <1>0, <2>11, <3>2
  <3>4. msTools' \in [MsScopes -> 0..Len(msOwners)] BY <1>0, <2>11, <3>2
  <3> QED BY <3>1, <3>3, <3>4
 <2>14. MsGivesUp(c, rec, drain, cancel, then)
   BY <1>0, <1>1, <2>1, <2>7, <2>9, <2>10, <2>11, <2>12, <2>13 DEF MsGivesUp
 <2> QED BY <2>14, MsGivesUpKeeps
<1> QED BY <1>2, <1>3

\* A close takes what it finds out of the pool and closes it.
LEMMA MsCloseAllKeeps ==
  ASSUME MsInv, NEW c \in MsCallers, NEW scopes, NEW entries \in Seq(1..Len(msOwners)),
         NEW others \in Seq(1..Len(msOwners)), NEW flying \in Seq(1..Len(msOwners)),
         Len(others) <= MsMaxSessions,
         \A o : o \in MsRegistered => \/ \E i \in 1..Len(others) : others[i] = o
                                      \/ \E i \in 1..Len(entries) : entries[i] = o,
         MsCloseAll(c, scopes, entries, others, flying)
  PROVE  MsInv'
<1>0. /\ Len(msOwners) \in Nat /\ msTools \in [MsScopes -> 0..Len(msOwners)]
      /\ msInflight \in [MsScopes -> 0..Len(msOwners)] /\ msWrapped \subseteq MsScopes
  BY DEF MsInv, MsTyped
<1>1. PICK rec : rec = [MsIdle EXCEPT !.op = "close"] OBVIOUS
<1>2. MsRecord(rec, Len(msOwners))
 <2>1. PICK idle : idle = MsIdle OBVIOUS
 <2>2. MsRecord(idle, Len(msOwners)) BY <1>0, <2>1, MsIdleRow
 <2> QED BY <1>1, <2>1, <2>2 DEF MsRecord
<1>3. PICK drain : drain = entries \o flying OBVIOUS
<1>4. PICK opening : opening = {msInflight[s] : s \in scopes} OBVIOUS
<1>5. /\ msCaller[c].at = "idle" /\ msEntries' = others /\ msWrapped' = msWrapped
      /\ MsDrains(c, rec, drain, opening, "failed") BY <1>1, <1>3, <1>4 DEF MsCloseAll
<1>6. msInflight' \in [MsScopes -> 0..Len(msOwners)] /\ msTools' \in [MsScopes -> 0..Len(msOwners)]
 <2>1. 0 \in 0..Len(msOwners) BY <1>0
 <2> QED BY <1>0, <2>1 DEF MsCloseAll
<1>7. /\ drain \in Seq(1..Len(msOwners))
      /\ \A o : (\E i \in 1..Len(entries) : entries[i] = o) => \E i \in 1..Len(drain) : drain[i] = o
 <2>1. PICK S : S = 1..Len(msOwners) OBVIOUS
 <2>2. /\ entries \o flying \in Seq(S)
       /\ \A o : (\E i \in 1..Len(entries) : entries[i] = o) =>
                   \E i \in 1..Len(entries \o flying) : (entries \o flying)[i] = o
   BY <2>1, MsJoined2
 <2> QED BY <1>3, <2>1, <2>2
<1>8. ASSUME NEW o \in 1..Len(msOwners), o \in MsRegistered \/ MsHolds(msCaller[c], o)
      PROVE  (\E i \in 1..Len(others) : others[i] = o) \/ (\E i \in 1..Len(drain) : drain[i] = o)
 <2>1. o \in MsRegistered BY <1>5, <1>8 DEF MsHolds, MsOpens, MsYetToClose
 <2> QED BY <1>7, <2>1
<1>9. MsGivesUp(c, rec, drain, opening, "failed")
  BY <1>0, <1>2, <1>5, <1>6, <1>7, <1>8 DEF MsGivesUp
<1> QED BY <1>9, MsGivesUpKeeps

\* The close of a chat.
LEMMA MsScopeCloseKeeps ==
  ASSUME MsInv, NEW c \in MsCallers, NEW s \in MsScopes, MsCloseScope(c, s)
  PROVE  MsInv'
<1>0. /\ Len(msOwners) \in Nat /\ msEntries \in Seq(1..Len(msOwners)) /\ Len(msEntries) <= MsMaxSessions
      /\ msInflight \in [MsScopes -> 0..Len(msOwners)] /\ MsMaxSessions \in Nat /\ Len(msEntries) \in Nat
  BY MsAssumption DEF MsInv, MsTyped, MsBounded
<1>1. PICK entry : entry = MsEntry(s) OBVIOUS
<1>2. PICK left : left = MsWithout(s) OBVIOUS
<1>3. PICK fly : fly = MsFlying(s) OBVIOUS
<1>4. /\ left \in Seq(1..Len(msOwners)) /\ entry \in Seq(1..Len(msOwners)) /\ fly \in Seq(1..Len(msOwners))
      /\ Len(left) <= Len(msEntries) /\ Len(left) \in Nat
  BY <1>0, <1>1, <1>2, <1>3, MsLeft, MsFlyingOwner
<1>5. Len(left) <= MsMaxSessions BY <1>0, <1>4
<1>6. ASSUME NEW o, o \in MsRegistered
      PROVE  (\E i \in 1..Len(left) : left[i] = o) \/ (\E i \in 1..Len(entry) : entry[i] = o)
  BY <1>1, <1>2, <1>6, MsRegisteredLeft
<1>7. PICK scopes : scopes = {s} OBVIOUS
<1>8. MsCloseAll(c, scopes, entry, left, fly) BY <1>1, <1>2, <1>3, <1>7 DEF MsCloseScope
<1> QED BY <1>4, <1>5, <1>6, <1>8, MsCloseAllKeeps

\* The close of the application.
LEMMA MsCloseKeeps ==
  ASSUME MsInv, NEW c \in MsCallers, MsClose(c)
  PROVE  MsInv'
<1>0. /\ Len(msOwners) \in Nat /\ msEntries \in Seq(1..Len(msOwners)) /\ Len(msEntries) <= MsMaxSessions
      /\ msInflight \in [MsScopes -> 0..Len(msOwners)] /\ MsMaxSessions \in Nat /\ Len(msEntries) \in Nat
  BY MsAssumption DEF MsInv, MsTyped, MsBounded
<1>1. PICK opening : opening = {msInflight[t] : t \in MsScopes} \ {0} OBVIOUS
<1>2. opening \subseteq 1..Len(msOwners) BY <1>0, <1>1
<1>3. Cardinality(opening) \in Nat
 <2>1. IsFiniteSet(1..Len(msOwners)) BY <1>0, FS_Interval
 <2>2. IsFiniteSet(opening) BY <1>2, <2>1, FS_Subset
 <2> QED BY <2>2, FS_CardinalityType
<1>4. PICK flying \in [1..Cardinality(opening) -> opening] :
         MsCloseAll(c, MsScopes, msEntries, <<>>, flying) BY <1>1 DEF MsClose
<1>5. flying \in Seq(1..Len(msOwners))
 <2>1. \A i \in 1..Cardinality(opening) : flying[i] \in 1..Len(msOwners) BY <1>2, <1>4
 <2>2. flying \in [1..Cardinality(opening) -> 1..Len(msOwners)] BY <1>4, <2>1
 <2> QED BY <1>3, <2>2, SeqDef
<1>6. PICK none : none = <<>> OBVIOUS
<1>7. none \in Seq(1..Len(msOwners)) /\ Len(none) <= MsMaxSessions BY <1>0, <1>6
<1>8. PICK es : es = msEntries OBVIOUS
<1>9. ASSUME NEW o, o \in MsRegistered
      PROVE  (\E i \in 1..Len(none) : none[i] = o) \/ (\E i \in 1..Len(es) : es[i] = o)
  BY <1>0, <1>8, <1>9 DEF MsRegistered
<1>10. PICK all : all = MsScopes OBVIOUS
<1>11. MsCloseAll(c, all, es, none, flying) /\ es \in Seq(1..Len(msOwners))
  BY <1>0, <1>4, <1>6, <1>8, <1>10
<1> QED BY <1>5, <1>7, <1>9, <1>11, MsCloseAllKeeps

\* The invariant holds at first and is preserved, and says what is claimed.
LEMMA MsStarts == MsInit => MsInv
<1> SUFFICES ASSUME MsInit PROVE MsInv OBVIOUS
<1>0. PICK n : n = Len(msOwners) OBVIOUS
<1>1. n = 0 /\ 0 \in 0..n /\ msOwners \in Seq(MsOwnerRow) /\ msEntries \in Seq(1..n) /\ Len(msEntries) = 0
  BY <1>0 DEF MsInit
<1>2. \A c \in MsCallers : MsCallerRow(msCaller[c], n)
 <2>1. n \in Nat BY <1>1
 <2> QED BY <2>1, MsIdleRow DEF MsInit
<1>3. /\ msInflight \in [MsScopes -> 0..n] /\ msTools \in [MsScopes -> 0..n] /\ msWrapped \subseteq MsScopes
      /\ msCaller = [c \in MsCallers |-> msCaller[c]] BY <1>1 DEF MsInit
<1>4. MsTyped BY <1>0, <1>1, <1>2, <1>3 DEF MsTyped
<1>5. MsKept BY <1>0, <1>1 DEF MsKept
<1>6. MsBounded BY <1>1, MsAssumption DEF MsBounded
<1> QED BY <1>4, <1>5, <1>6 DEF MsInv

\* Every step of the pool, its owners and its requests preserves it.
LEMMA MsNextKeeps == MsInv /\ [MsNext]_msVars => MsInv'
<1> SUFFICES ASSUME MsInv, [MsNext]_msVars PROVE MsInv' OBVIOUS
<1>1. CASE UNCHANGED msVars
  BY <1>1 DEF msVars, msPool, msManager, MsInv, MsTyped, MsKept, MsBounded, MsGone, MsRegistered
<1>2. CASE MsOwnerSteps \/ \E o \in DOMAIN msOwners : MsConnectionLost(o)
 <2>1. PICK o \in DOMAIN msOwners :
          MsOwnerBegins(o) \/ MsOwnerReady(o) \/ MsOwnerFails(o) \/ MsOwnerEnds(o) \/ MsConnectionLost(o)
   BY <1>2 DEF MsOwnerSteps
 <2> QED BY <2>1, MsOwnerKeeps
<1>3. ASSUME NEW c \in MsCallers, MsCallerSteps(c) PROVE MsInv'
 <2>1. CASE MsWaited(c) \/ MsHurried(c) BY <2>1, MsWaitsKeep
 <2>2. CASE MsRegister(c) BY <2>2, MsRegisterKeeps
 <2>3. CASE MsNotReady(c) \/ MsTimeout(c) BY <2>3, MsStopKeeps
 <2>4. CASE MsAnswered(c) BY <2>4, MsAnsweredKeeps
 <2>5. CASE MsDiscover(c) \/ MsJoined(c) \/ MsLoaded(c) \/ MsCatalogEnds(c)
   BY <1>3, <2>5, MsRequestKeeps
 <2> QED BY <1>3, <2>1, <2>2, <2>3, <2>4, <2>5 DEF MsCallerSteps
<1>4. ASSUME NEW c \in MsCallers, NEW s \in MsScopes, MsCatalog(c, s) \/ MsInvoke(c, s) PROVE MsInv'
  BY <1>4, MsStartKeeps
<1>5. ASSUME NEW c \in MsCallers, NEW s \in MsScopes, MsCloseScope(c, s) PROVE MsInv'
  BY <1>5, MsScopeCloseKeeps
<1>6. ASSUME NEW c \in MsCallers, MsClose(c) PROVE MsInv' BY <1>6, MsCloseKeeps
<1> QED BY <1>1, <1>2, <1>3, <1>4, <1>5, <1>6 DEF MsNext

(* The invariant says what the pool of sessions promises. *)
LEMMA MsInvHolds == MsInv => MsTypeOK /\ MsSessionsHold
<1> SUFFICES ASSUME MsInv PROVE MsTypeOK /\ MsSessionsHold OBVIOUS
<1>1. MsTyped /\ MsKept /\ MsBounded /\ Len(msOwners) \in Nat BY DEF MsInv, MsTyped
<1>2. MsTypeOK
 <2>1. \A n \in DOMAIN msEntries : msEntries[n] \in DOMAIN msOwners BY <1>1 DEF MsTyped
 <2>2. \A s \in MsScopes : msInflight[s] \in 0..Len(msOwners) /\ msTools[s] \in 0..Len(msOwners)
   BY <1>1 DEF MsTyped
 <2>3. \A o \in DOMAIN msOwners : msOwners[o].at \in {"new", "opening", "open", "gone"}
  <3> SUFFICES ASSUME NEW o \in DOMAIN msOwners PROVE msOwners[o].at \in {"new", "opening", "open", "gone"}
    OBVIOUS
  <3>1. PICK row \in MsOwnerRow : row = msOwners[o] BY <1>1 DEF MsTyped
  <3> QED BY <3>1 DEF MsOwnerRow, MsOwnerPoints
 <2> QED BY <1>1, <2>1, <2>2, <2>3 DEF MsTyped, MsTypeOK
<1>3. MsNothingLeaks
 <2> SUFFICES ASSUME \A c \in MsCallers : msCaller[c].at = "idle", NEW o \in DOMAIN msOwners
              PROVE  MsGone(o) \/ msOwners[o].close \/ o \in MsRegistered BY DEF MsNothingLeaks
 <2>1. o \in 1..Len(msOwners) BY <1>1 DEF MsTyped
 <2>2. \A c \in MsCallers : ~MsHolds(msCaller[c], o) BY DEF MsHolds, MsOpens, MsYetToClose
 <2> QED BY <1>1, <2>1, <2>2 DEF MsKept
<1> QED BY <1>1, <1>2, <1>3 DEF MsSessionsHold

(* For any scopes, requests and limits: the pool stays within its limit and
   loses no session - once no request is under way, an owner task that runs
   is registered, so that a close finds it, or has been told to end. *)
THEOREM McpSafe == MsSpec => [](MsTypeOK /\ MsSessionsHold)
BY MsStarts, MsNextKeeps, MsInvHolds, PTL DEF MsSpec

--------------------
(* The timeline. *)

\* Where the subscription stands in what has been recorded.
Positions ==
    /\ cursor <= high /\ stored <= high /\ last <= high
    /\ \A n \in DOMAIN queue : queue[n] <= high
    /\ pc \in {"replay", "repair"} => cursor <= page /\ page <= target /\ target <= high
    /\ pc = "live" => page = cursor
    /\ pc # "error"

FeedInv == TypeOK /\ Positions /\ InOrder

\* Yielding the event after the cursor extends the delivered prefix by one.
LEMMA DeliverNext ==
    ASSUME FeedInv, cursor' = cursor + 1, delivered' = Append(delivered, cursor + 1)
    PROVE  InOrder' /\ cursor' \in Nat /\ delivered' \in Seq(Nat) BY DEF FeedInv, TypeOK, InOrder

\* A new subscription starts with nothing delivered.
LEMMA FeedInitInv == Init => FeedInv
<1> SUFFICES ASSUME Init PROVE FeedInv OBVIOUS
<1>1. TypeOK BY FeedAssumption DEF Init, TypeOK
<1>2. Positions /\ InOrder BY DEF Init, Positions, InOrder
<1> QED BY <1>1, <1>2 DEF FeedInv

\* Every step of the writers and of the reader keeps the positions in order.
LEMMA FeedStepInv == FeedInv /\ [Next]_vars => FeedInv'
<1> SUFFICES ASSUME FeedInv, [Next]_vars PROVE FeedInv' OBVIOUS
<1> USE FeedAssumption
<1>0. TypeOK /\ Positions /\ InOrder BY DEF FeedInv
<1>1. CASE LocalCommit BY <1>0, <1>1 DEF LocalCommit, FeedInv, TypeOK, Positions, InOrder
<1>2. CASE LocalExisting BY <1>0, <1>2 DEF LocalExisting, FeedInv, TypeOK, Positions, InOrder
<1>3. CASE Broadcast
 <2>1. /\ stored' = 0 /\ last' \in Nat /\ last' <= high
       /\ UNCHANGED <<high, pc, cursor, target, page, delivered, drops>>
   BY <1>0, <1>3 DEF Broadcast, TypeOK, Positions
 <2>2. queue' \in Seq(Nat) /\ Len(queue') <= QueueSize /\ \A n \in DOMAIN queue' : queue'[n] <= high
  <3>1. CASE queue' = queue BY <1>0, <3>1 DEF TypeOK, Positions
  <3>2. CASE queue' = Append(queue, stored) /\ Len(queue) # QueueSize
    BY <1>0, <3>2 DEF TypeOK, Positions
  <3>3. CASE queue' = Append(Tail(queue), stored) /\ Len(queue) = QueueSize
    BY <1>0, <3>3 DEF TypeOK, Positions
  <3> QED BY <1>3, <3>1, <3>2, <3>3 DEF Broadcast
 <2> QED BY <1>0, <2>1, <2>2 DEF FeedInv, TypeOK, Positions, InOrder
<1>4. CASE RemoteCommit BY <1>0, <1>4 DEF RemoteCommit, FeedInv, TypeOK, Positions, InOrder
<1>5. CASE Subscribe BY <1>0, <1>5 DEF Subscribe, FeedInv, TypeOK, Positions, InOrder
<1>6. CASE Disconnect BY <1>0, <1>6 DEF Disconnect, FeedInv, TypeOK, Positions, InOrder
<1>7. CASE ReadPage
 <2>1. page' = MinOf(MinOf(cursor + PageSize, high), target) /\ cursor < target /\ target <= high
   BY <1>0, <1>7 DEF ReadPage, Positions
 <2>2. page' \in Nat /\ cursor < page' /\ page' <= target BY <1>0, <2>1 DEF TypeOK, MinOf
 <2> QED BY <1>0, <1>7, <2>2 DEF ReadPage, FeedInv, TypeOK, Positions, InOrder
<1>8. CASE YieldPage
 <2>1. InOrder' /\ cursor' \in Nat /\ delivered' \in Seq(Nat) BY <1>8, DeliverNext DEF YieldPage
 <2> QED BY <1>0, <1>8, <2>1 DEF YieldPage, FeedInv, TypeOK, Positions
<1>9. CASE GoLive BY <1>0, <1>9 DEF GoLive, FeedInv, TypeOK, Positions, InOrder
<1>10. CASE TakeLive
 <2>1. /\ Head(queue) \in Nat /\ Head(queue) <= high
       /\ queue' \in Seq(Nat) /\ Len(queue') <= QueueSize
       /\ \A n \in DOMAIN queue' : queue'[n] <= high
       /\ UNCHANGED <<high, last, stored, drops>>
  <3>1. queue \in Seq(Nat) /\ queue # <<>> /\ queue' = Tail(queue) /\ Len(queue) <= QueueSize
    BY <1>0, <1>10 DEF TakeLive, TypeOK
  <3>2. \A n \in DOMAIN queue : queue[n] <= high BY <1>0 DEF Positions
  <3>3. /\ Head(queue) \in Nat /\ Head(queue) <= high
        /\ Tail(queue) \in Seq(Nat) /\ Len(Tail(queue)) <= Len(queue)
        /\ \A n \in DOMAIN Tail(queue) : Tail(queue)[n] <= high BY <3>1, <3>2
  <3>4. UNCHANGED <<high, last, stored, drops>> BY <1>10 DEF TakeLive
  <3> QED BY <1>0, <3>1, <3>3, <3>4 DEF TypeOK
 <2>2. CASE UNCHANGED <<pc, cursor, target, page, delivered>>
   BY <1>0, <2>1, <2>2 DEF FeedInv, TypeOK, Positions, InOrder
 <2>3. CASE /\ Head(queue) = cursor + 1
            /\ cursor' = cursor + 1 /\ page' = cursor + 1
            /\ delivered' = Append(delivered, cursor + 1)
            /\ UNCHANGED <<pc, target>>
  <3>1. InOrder' /\ cursor' \in Nat /\ delivered' \in Seq(Nat) BY <2>3, DeliverNext
  <3> QED BY <1>0, <1>10, <2>1, <2>3, <3>1 DEF TakeLive, FeedInv, TypeOK, Positions
 <2>4. CASE /\ Head(queue) > cursor + 1
            /\ pc' = "repair" /\ target' = Head(queue)
            /\ UNCHANGED <<cursor, page, delivered>>
   BY <1>0, <1>10, <2>1, <2>4 DEF TakeLive, FeedInv, TypeOK, Positions, InOrder
 <2> QED BY <1>10, <2>2, <2>3, <2>4 DEF TakeLive
<1>11. CASE Poll BY <1>0, <1>11 DEF Poll, FeedInv, TypeOK, Positions, InOrder
<1>12. CASE UNCHANGED vars BY <1>0, <1>12 DEF vars, FeedInv, TypeOK, Positions, InOrder
<1> QED BY <1>1, <1>2, <1>3, <1>4, <1>5, <1>6, <1>7, <1>8, <1>9, <1>10, <1>11, <1>12
        DEF Next, Reader

\* What the invariant says of a reader.
LEMMA FeedInvHolds == FeedInv => TypeOK /\ InOrder /\ GapsAreRepairable
BY DEF FeedInv, TypeOK, Positions, GapsAreRepairable

\* The inductive invariant holds throughout.
LEMMA FeedInvariant == Spec => []FeedInv
<1>1. Init => FeedInv BY FeedInitInv
<1>2. FeedInv /\ [Next]_vars => FeedInv' BY FeedStepInv
<1> QED BY <1>1, <1>2, PTL DEF Spec

(* A reader of subscribe() receives 1, 2, 3, ..., never an event that is
   not durable, and never the gap error, for every page and queue size. *)
THEOREM FeedSafe == Spec => [](TypeOK /\ InOrder /\ GapsAreRepairable)
BY FeedInvHolds, FeedInvariant, PTL

(* The safety part of the refinement: every step of the feed is a commit,
   the delivery of the next event in order, or invisible to the reader. *)
THEOREM FeedImplementsDelivery ==
    Spec => Delivery!Init /\ [][Delivery!Next]_(Delivery!deliveryVars)
<1>1. Init => Delivery!Init BY DEF Init, Delivery!Init
<1>2. FeedInv /\ [Next]_vars => [Delivery!Next]_(Delivery!deliveryVars)
 <2> SUFFICES ASSUME FeedInv, [Next]_vars
              PROVE  Delivery!Commit \/ Delivery!Deliver \/ UNCHANGED <<high, delivered>>
   BY DEF Delivery!Next, Delivery!deliveryVars
 <2>0. /\ cursor = Len(delivered) /\ cursor \in Nat /\ high \in Nat /\ page \in Nat
       /\ target \in Nat
       /\ pc \in {"replay", "repair"} => page <= target /\ target <= high
       /\ queue \in Seq(Nat) /\ \A n \in DOMAIN queue : queue[n] <= high
   BY DEF FeedInv, TypeOK, Positions, InOrder
 <2>1. CASE LocalCommit \/ RemoteCommit BY <2>1 DEF LocalCommit, RemoteCommit, Delivery!Commit
 <2>2. CASE YieldPage BY <2>0, <2>2 DEF YieldPage, Delivery!Deliver
 <2>3. CASE TakeLive
  <3>1. CASE delivered' = Append(delivered, cursor + 1) /\ Head(queue) = cursor + 1
    BY <2>0, <2>3, <3>1 DEF TakeLive, Delivery!Deliver
  <3> QED BY <2>3, <3>1 DEF TakeLive
 <2>4. CASE LocalExisting \/ Broadcast \/ Subscribe \/ Disconnect \/ ReadPage \/ GoLive \/ Poll
            \/ UNCHANGED vars
   BY <2>4 DEF LocalExisting, Broadcast, Subscribe, Disconnect, ReadPage, GoLive, Poll, vars
 <2> QED BY <2>1, <2>2, <2>3, <2>4 DEF Next, Reader
<1> QED BY <1>1, <1>2, FeedInvariant, PTL DEF Spec

--------------------
(* The watchdog. *)

WdMemory == [state: {"UNKNOWN", "HEALTHY", "UNHEALTHY"}, restart: BOOLEAN, pending: BOOLEAN,
             alert: BOOLEAN]

\* A check that is under way works on what the file says; the file remembers
\* that there was a restart, and the age it shows of it is no more than the
\* real one unless the clock was set back.
WdInv ==
  /\ wdFile \in WdMemory /\ wdMem \in WdMemory
  /\ wdAt \in {"idle", "judge", "flush", "alert", "restart", "watch"}
  /\ wdAge \in 0..WdCooldown /\ wdReal \in 0..WdCooldown /\ wdSetBack \in BOOLEAN
  /\ wdAt # "idle" => wdMem = wdFile
  /\ ~wdFile.restart => wdReal = WdCooldown
  /\ wdAt = "restart" => wdFile.restart
  /\ ~wdSetBack => wdAge <= wdReal
  /\ ~wdSetBack /\ wdAt = "restart" => wdAge = 0 /\ wdReal = WdCooldown

\* What a check writes is a memory, and only an intention changes the restart.
LEMMA WdMemories ==
  ASSUME NEW mem \in WdMemory
  PROVE  /\ \A recovered \in BOOLEAN :
              /\ WdHealthy(mem, recovered) \in WdMemory
              /\ WdHealthy(mem, recovered).restart = mem.restart
         /\ \A b \in BOOLEAN :
              /\ [mem EXCEPT !.pending = b] \in WdMemory /\ [mem EXCEPT !.pending = b].restart = mem.restart
              /\ [mem EXCEPT !.alert = b] \in WdMemory /\ [mem EXCEPT !.alert = b].restart = mem.restart
         /\ [mem EXCEPT !.state = "UNHEALTHY"] \in WdMemory
         /\ [mem EXCEPT !.state = "UNHEALTHY"].restart = mem.restart
         /\ [mem EXCEPT !.state = "UNHEALTHY", !.restart = TRUE] \in WdMemory
         /\ [mem EXCEPT !.state = "UNHEALTHY", !.restart = TRUE].restart = TRUE
<1>1. ASSUME NEW recovered \in BOOLEAN
      PROVE  /\ WdHealthy(mem, recovered) \in WdMemory
             /\ WdHealthy(mem, recovered).restart = mem.restart
 <2>1. PICK pending \in BOOLEAN : pending = (mem.pending \/ recovered) BY DEF WdMemory
 <2>2. WdHealthy(mem, recovered) = [mem EXCEPT !.state = "HEALTHY", !.alert = FALSE, !.pending = pending]
   BY <2>1 DEF WdHealthy, WdMemory
 <2> QED BY <2>2 DEF WdMemory
<1>2. ASSUME NEW b \in BOOLEAN
      PROVE  /\ [mem EXCEPT !.pending = b] \in WdMemory /\ [mem EXCEPT !.pending = b].restart = mem.restart
             /\ [mem EXCEPT !.alert = b] \in WdMemory /\ [mem EXCEPT !.alert = b].restart = mem.restart
  BY DEF WdMemory
<1>3. /\ [mem EXCEPT !.state = "UNHEALTHY"] \in WdMemory
      /\ [mem EXCEPT !.state = "UNHEALTHY"].restart = mem.restart
      /\ [mem EXCEPT !.state = "UNHEALTHY", !.restart = TRUE] \in WdMemory
      /\ [mem EXCEPT !.state = "UNHEALTHY", !.restart = TRUE].restart = TRUE BY DEF WdMemory
<1> QED BY <1>1, <1>2, <1>3

\* No check is under way at first, and no restart is remembered.
LEMMA WdStarts == WdInit => WdInv
<1> SUFFICES ASSUME WdInit PROVE WdInv OBVIOUS
<1>1. WdDefault \in WdMemory /\ WdDefault.restart = FALSE BY DEF WdDefault, WdMemory
<1>2. WdCooldown \in 0..WdCooldown /\ WdCooldown <= WdCooldown BY WdAssumption
<1> QED BY <1>1, <1>2 DEF WdInit, WdInv

\* A write that leaves the restart as it is.
LEMMA WdWriteKeeps ==
  ASSUME WdInv, wdAt \notin {"idle", "restart"}, NEW mem \in WdMemory, mem.restart = wdMem.restart,
         wdMem' = mem, wdFile' = mem, wdAt' \in {"idle", "flush", "alert"},
         UNCHANGED <<wdAge, wdReal, wdSetBack>>
  PROVE  WdInv' BY DEF WdInv

\* The steps of a check.
LEMMA WdCheckKeeps ==
  ASSUME WdInv, WdCheck
  PROVE  WdInv'
<1>1. CASE WdLoad BY <1>1 DEF WdLoad, WdGo, WdInv, wdWorld
<1>2. wdMem \in WdMemory BY DEF WdInv
<1>3. ASSUME NEW mem \in WdMemory, mem.restart = wdMem.restart, WdPersist(mem), UNCHANGED wdWorld,
             wdAt \in {"judge", "flush", "alert", "watch"}, wdAt' \in {"idle", "flush", "alert"}
      PROVE  WdInv' BY <1>3, WdWriteKeeps DEF WdPersist, wdWorld
<1>4. CASE WdSeesHealthy
 <2>1. PICK recovered \in BOOLEAN : recovered = (wdMem.state = "UNHEALTHY") OBVIOUS
 <2>2. PICK mem : mem = WdHealthy(wdMem, recovered) OBVIOUS
 <2>3. WdPersist(mem) /\ wdAt = "judge" /\ wdAt' = "flush" /\ UNCHANGED wdWorld
   BY <1>4, <2>1, <2>2 DEF WdSeesHealthy, WdGo
 <2> QED BY <1>2, <1>3, <2>2, <2>3, WdMemories
<1>5. CASE WdFlush
 <2>1. wdAt = "flush" /\ wdAt' = "idle" /\ UNCHANGED wdWorld BY <1>5 DEF WdFlush, WdGo
 <2>2. CASE wdMem.pending /\ WdSends
  <3>1. PICK mem : mem = [wdMem EXCEPT !.pending = FALSE] OBVIOUS
  <3>2. WdPersist(mem) BY <1>5, <2>2, <3>1 DEF WdFlush
  <3>3. mem \in WdMemory /\ mem.restart = wdMem.restart BY <1>2, <3>1, WdMemories
  <3> QED BY <1>3, <2>1, <3>2, <3>3
 <2>3. CASE ~(wdMem.pending /\ WdSends) BY <1>5, <2>1, <2>3 DEF WdFlush, WdInv, wdWorld
 <2> QED BY <2>2, <2>3
<1>6. CASE WdSeesOther \/ WdHeldBack
 <2>1. PICK mem : mem = [wdMem EXCEPT !.state = "UNHEALTHY"] OBVIOUS
 <2>2. WdPersist(mem) /\ wdAt = "judge" /\ wdAt' \in {"alert", "idle"} /\ UNCHANGED wdWorld
   BY <1>6, <2>1 DEF WdSeesOther, WdHeldBack, WdGo
 <2>3. mem \in WdMemory /\ mem.restart = wdMem.restart BY <1>2, <2>1, WdMemories
 <2> QED BY <1>3, <2>2, <2>3
<1>7. CASE WdAlert
 <2>1. wdAt = "alert" /\ wdAt' = "idle" /\ UNCHANGED wdWorld BY <1>7 DEF WdAlert, WdGo
 <2>2. CASE ~wdMem.alert /\ WdSends
  <3>1. PICK mem : mem = [wdMem EXCEPT !.alert = TRUE] OBVIOUS
  <3>2. WdPersist(mem) BY <1>7, <2>2, <3>1 DEF WdAlert
  <3>3. mem \in WdMemory /\ mem.restart = wdMem.restart BY <1>2, <3>1, WdMemories
  <3> QED BY <1>3, <2>1, <3>2, <3>3
 <2>3. CASE ~(~wdMem.alert /\ WdSends) BY <1>7, <2>1, <2>3 DEF WdAlert, WdInv, wdWorld
 <2> QED BY <2>2, <2>3
<1>8. CASE WdIntends
 <2>1. PICK mem : mem = [wdMem EXCEPT !.state = "UNHEALTHY", !.restart = TRUE] OBVIOUS
 <2>2. mem \in WdMemory /\ mem.restart = TRUE BY <1>2, <2>1, WdMemories
 <2>3. /\ wdMem' = mem /\ wdFile' = mem /\ wdAge' = 0 /\ wdAt' = "restart"
       /\ UNCHANGED <<wdReal, wdSetBack>> BY <1>8, <2>1 DEF WdIntends, WdPersist, WdGo
 <2>4. ~wdSetBack => wdReal = WdCooldown
  <3>1. ~wdFile.restart \/ wdAge >= WdCooldown
   <4>1. ~(wdFile.restart /\ wdAge < WdCooldown) BY <1>8 DEF WdIntends, WdInCooldown, WdInv
   <4> QED BY <4>1, WdAssumption DEF WdInv
  <3> QED BY <3>1, WdAssumption DEF WdInv
 <2>5. 0 \in 0..WdCooldown /\ wdReal \in 0..WdCooldown BY WdAssumption DEF WdInv
 <2> QED BY <2>2, <2>3, <2>4, <2>5 DEF WdInv
<1>9. CASE WdRestart
 <2>1. /\ wdAt = "restart" /\ wdReal' = 0 /\ wdAt' \in {"watch", "idle"}
       /\ UNCHANGED <<wdAge, wdSetBack, wdFile, wdMem>> BY <1>9 DEF WdRestart, WdGo
 <2> QED BY <2>1, WdAssumption DEF WdInv
<1>10. CASE WdWatch
 <2>1. wdAt = "watch" /\ UNCHANGED wdWorld BY <1>10 DEF WdWatch
 <2>2. PICK mem : mem = IF WdHealth = "healthy" THEN WdHealthy(wdMem, TRUE) ELSE wdMem OBVIOUS
 <2>3. WdPersist(mem) /\ wdAt' \in {"flush", "alert", "idle"} BY <1>10, <2>2 DEF WdWatch, WdGo
 <2>4. mem \in WdMemory /\ mem.restart = wdMem.restart BY <1>2, <2>2, WdMemories
 <2> QED BY <1>3, <2>1, <2>3, <2>4
<1> QED BY <1>1, <1>4, <1>5, <1>6, <1>7, <1>8, <1>9, <1>10 DEF WdCheck

\* Deaths, time, the clock and the operator.
LEMMA WdNextKeeps == WdInv /\ [WdNext]_wdVars => WdInv'
<1> SUFFICES ASSUME WdInv, [WdNext]_wdVars PROVE WdInv' OBVIOUS
<1>1. CASE WdCheck BY <1>1, WdCheckKeeps
<1>2. CASE WdDies BY <1>2 DEF WdDies, WdGo, WdInv, WdDefault, WdMemory
<1>3. CASE WdTick
 <2>1. /\ wdAt # "restart" /\ UNCHANGED <<wdFile, wdMem, wdAt, wdSetBack>>
       /\ wdAge' = IF wdAge < WdCooldown THEN wdAge + 1 ELSE wdAge
       /\ wdReal' = IF wdReal < WdCooldown THEN wdReal + 1 ELSE wdReal BY <1>3 DEF WdTick
 <2>2. /\ wdAge' \in 0..WdCooldown /\ wdReal' \in 0..WdCooldown
       /\ wdAge <= wdReal => wdAge' <= wdReal'
       /\ wdReal = WdCooldown => wdReal' = WdCooldown BY <2>1, WdAssumption DEF WdInv
 <2> QED BY <2>1, <2>2 DEF WdInv
<1>4. CASE WdClockSetBack BY <1>4, WdAssumption DEF WdClockSetBack, WdInv
<1>5. CASE WdBreaks \/ WdOperatorStartsDaemon \/ WdOperatorRestoresCron \/ UNCHANGED wdVars
  BY <1>5 DEF WdBreaks, WdOperatorStartsDaemon, WdOperatorRestoresCron, wdVars, WdInv
<1> QED BY <1>1, <1>2, <1>3, <1>4, <1>5 DEF WdNext

\* The restarts of the gateway are a cooldown apart.
LEMMA WdInvHolds == WdInv => WdTypeOK /\ WdRestartsSpaced
BY WdAssumption DEF WdInv, WdTypeOK, WdRestartsSpaced, WdMemory

--------------------
(* The memory files. *)

\* The rows, the revisions a reviewer may have seen and the number of facts.
MpKept ==
  /\ \A p \in MpProposals : mpRows[p].rev \in 0..1 /\ mpRows[p].base \in Nat
  /\ \A p \in MpProposals : mpRows[p].status = "pending" => mpRows[p].rev = 0
  /\ IsFiniteSet(mpFacts) /\ \A p \in MpProposals : IsFiniteSet(mpRows[p].cands)
  /\ mpIndex \in Seq(MpLine) /\ mpFaults \in 0..MpMaxFaults

\* A call that appends the candidates of a proposal has those left to append
\* that are in no file, and after them none is left.
MpProjects ==
  mpOp.pc # "idle" /\ mpOp.ref # MpUser =>
    ToWrite(mpOp.ref) = IF mpOp.pc = "append" THEN mpOp.todo ELSE {}

\* The inductive invariant of the files.
MpFilesInv == MpInv /\ MpKept /\ MpProjects /\ MpFilesFollowDecisions

\* The lines of a file that has one more.
LEMMA MpLineAdded ==
  ASSUME NEW file \in Seq(MpLine), NEW line \in MpLine
  PROVE  /\ Append(file, line) \in Seq(MpLine)
         /\ DOMAIN Append(file, line) = DOMAIN file \cup {Len(file) + 1}
         /\ \A n \in DOMAIN file : n \in Nat /\ n < Len(file) + 1 /\ Append(file, line)[n] = file[n]
         /\ Append(file, line)[Len(file) + 1] = line OBVIOUS

\* The facts of a file are finitely many.
LEMMA MpFileFinite ==
  ASSUME mpFile \in Seq(MpLine)
  PROVE  IsFiniteSet(FileContents)
<1>1. IsFiniteSet(DOMAIN mpFile) BY FS_Interval
<1>2. PICK f : f = [n \in DOMAIN mpFile |-> mpFile[n].content] OBVIOUS
<1>3. f \in Surjection(DOMAIN mpFile, FileContents)
 <2>1. f \in [DOMAIN mpFile -> FileContents] BY <1>2 DEF FileContents, Lines
 <2>2. ASSUME NEW c \in FileContents PROVE \E n \in DOMAIN mpFile : f[n] = c
   BY <1>2 DEF FileContents, Lines
 <2> QED BY <2>1, <2>2 DEF Surjection
<1> QED BY <1>1, <1>3, FS_Surjection

\* A step that writes no file: what was decided and written stays.
LEMMA MpSameFile ==
  ASSUME MpFilesFollowDecisions, UNCHANGED mpFile,
         \A p \in MpProposals : mpRows[p].status # "none" => mpRows'[p].cands = mpRows[p].cands,
         \A p \in MpProposals : mpRows[p].status = "approved" => mpRows'[p].status = "approved",
         mpFile \in Seq(MpLine)
  PROVE  /\ \A p \in MpProposals : mpRows[p].status # "none" => ToWrite(p)' = ToWrite(p)
         /\ \A n \in DOMAIN mpFile' : mpFile'[n].ref # MpUser =>
              /\ mpRows'[mpFile'[n].ref].status = "approved"
              /\ mpFile'[n].content \in mpRows'[mpFile'[n].ref].cands
              /\ \A m \in 1..n - 1 : mpFile'[m] # mpFile'[n]
<1>1. Lines' = Lines BY DEF Lines
<1>2. ASSUME NEW p \in MpProposals, mpRows[p].status # "none" PROVE ToWrite(p)' = ToWrite(p)
  BY <1>1, <1>2 DEF ToWrite
<1>3. ASSUME NEW n \in DOMAIN mpFile, mpFile[n].ref # MpUser
      PROVE  /\ mpRows'[mpFile[n].ref].status = "approved"
             /\ mpFile[n].content \in mpRows'[mpFile[n].ref].cands
             /\ \A m \in 1..n - 1 : mpFile[m] # mpFile[n]
 <2>1. mpFile[n].ref \in MpProposals
  <3>1. mpFile[n] \in MpLine OBVIOUS
  <3> QED BY <1>3, <3>1 DEF MpLine
 <2>2. /\ mpRows[mpFile[n].ref].status = "approved"
       /\ mpFile[n].content \in mpRows[mpFile[n].ref].cands
       /\ \A m \in 1..n - 1 : mpFile[m] # mpFile[n] BY <1>3 DEF MpFilesFollowDecisions
 <2> QED BY <2>1, <2>2
<1> QED BY <1>2, <1>3

\* Nothing is proposed, decided or written at first.
LEMMA MpFilesStart ==
  ASSUME MpInit
  PROVE  MpFilesInv
<1>1. MpInv BY MpInitHolds
<1>2. IsFiniteSet({}) BY FS_EmptySet
<1>3. <<>> \in Seq(MpLine) /\ mpFile = <<>> /\ mpIndex = <<>> /\ mpFacts = {} /\ mpFaults = 0
  BY DEF MpInit
<1>4. \A p \in MpProposals : /\ mpRows[p].status = "none" /\ mpRows[p].rev = 0
                            /\ mpRows[p].base = 0 /\ mpRows[p].cands = {} BY DEF MpInit
<1>5. MpKept
 <2>1. 0 \in 0..MpMaxFaults /\ 0 \in 0..1 /\ 0 \in Nat BY MpAssumption
 <2>2. \A p \in MpProposals : IsFiniteSet(mpRows[p].cands) BY <1>2, <1>4
 <2>3. IsFiniteSet(mpFacts) BY <1>2, <1>3
 <2> QED BY <1>3, <1>4, <2>1, <2>2, <2>3 DEF MpKept
<1>6. MpProjects BY DEF MpInit, MpIdle, MpProjects
<1>7. MpFilesFollowDecisions
 <2>1. DOMAIN mpFile = {} BY <1>3
 <2> QED BY <1>4, <2>1 DEF MpFilesFollowDecisions
<1> QED BY <1>1, <1>5, <1>6, <1>7 DEF MpFilesInv

\* A proposal.
LEMMA MpProposeFiles ==
  ASSUME MpFilesInv, NEW p \in MpProposals, NEW cands \in SUBSET MpContents, IsFiniteSet(cands),
         MpPropose(p, cands)
  PROVE  MpFilesInv'
<1>1. MpInv' BY MpProposeHolds DEF MpFilesInv
<1>2. PICK row : row = [status |-> "pending", proj |-> "pending", rev |-> 0,
                        base |-> Cardinality(mpFacts), cands |-> cands] OBVIOUS
<1>3. /\ mpOp.pc = "idle" /\ mpRows[p].status = "none"
      /\ mpRows' = [mpRows EXCEPT ![p] = row]
      /\ UNCHANGED <<mpFacts, mpFile, mpIndex, mpOp, mpFaults>> BY <1>2 DEF MpPropose
<1>4. mpRows \in MpRowsType /\ mpFile \in Seq(MpLine) BY DEF MpFilesInv, MpInv, MpTypes
<1>5. \A q \in MpProposals : mpRows'[q] = IF q = p THEN row ELSE mpRows[q]
  BY <1>3, <1>4 DEF MpRowsType
<1>6. Cardinality(mpFacts) \in Nat BY FS_CardinalityType DEF MpFilesInv, MpKept
<1>7. /\ row.status = "pending" /\ row.rev = 0 /\ row.base \in Nat /\ row.cands = cands
  BY <1>2, <1>6
<1>8. MpKept' BY <1>3, <1>5, <1>7 DEF MpFilesInv, MpKept
<1>9. MpProjects' BY <1>3 DEF MpProjects
<1>10. MpFilesFollowDecisions'
 <2>1. /\ \A q \in MpProposals : mpRows[q].status # "none" => mpRows'[q].cands = mpRows[q].cands
       /\ \A q \in MpProposals : mpRows[q].status = "approved" => mpRows'[q].status = "approved"
       /\ \A q \in MpProposals : mpRows'[q].status = "approved" => q # p BY <1>3, <1>5, <1>7
 <2>2. /\ \A q \in MpProposals : mpRows[q].status # "none" => ToWrite(q)' = ToWrite(q)
       /\ \A n \in DOMAIN mpFile' : mpFile'[n].ref # MpUser =>
             /\ mpRows'[mpFile'[n].ref].status = "approved"
             /\ mpFile'[n].content \in mpRows'[mpFile'[n].ref].cands
             /\ \A m \in 1..n - 1 : mpFile'[m] # mpFile'[n]
   BY <1>3, <1>4, <2>1, MpSameFile DEF MpFilesInv
 <2>3. ASSUME NEW q \in MpProposals, mpRows'[q].status = "approved"
       PROVE  /\ mpRows'[q].cands \subseteq mpFacts'
              /\ mpRows'[q].proj = "complete" => ToWrite(q)' = {}
  <3>1. q # p /\ mpRows'[q] = mpRows[q] BY <1>5, <2>1, <2>3
  <3>2. /\ mpRows[q].cands \subseteq mpFacts
        /\ mpRows[q].proj = "complete" => ToWrite(q) = {}
    BY <2>3, <3>1 DEF MpFilesInv, MpFilesFollowDecisions
  <3> QED BY <1>3, <2>2, <2>3, <3>1, <3>2
 <2> QED BY <2>2, <2>3 DEF MpFilesFollowDecisions
<1> QED BY <1>1, <1>8, <1>9, <1>10 DEF MpFilesInv

\* What a proposal's decision is: of its first revision.
LEMMA MpDecides ==
  ASSUME MpFilesInv, NEW p \in MpProposals, NEW expected \in 0..1, NEW status, NEW proj,
         Transition(p, expected, status, proj)
  PROVE  /\ mpOp.pc = "idle" /\ mpRows[p].status = "pending"
         /\ \A q \in MpProposals : q # p => mpRows'[q] = mpRows[q]
         /\ mpRows'[p].status = status /\ mpRows'[p].proj = proj /\ mpRows'[p].rev = 1
         /\ mpRows'[p].base = mpRows[p].base /\ mpRows'[p].cands = mpRows[p].cands
<1>1. mpRows \in MpRowsType BY DEF MpFilesInv, MpInv, MpTypes
<1>2. expected = 0 BY DEF Transition, MpFilesInv, MpKept
<1> QED BY <1>1, <1>2 DEF Transition, MpRowsType

\* A decision of a proposal leaves the others and their files alone.
LEMMA MpDecideFiles ==
  ASSUME MpFilesInv, NEW p \in MpProposals, NEW expected \in 0..1, MpApprove(p, expected) \/ MpReject(p, expected)
  PROVE  MpFilesInv'
<1>1. MpInv' BY MpApproveHolds, MpRejectHolds DEF MpFilesInv
<1>2. PICK status \in {"approved", "rejected"}, proj \in {"pending", "complete"} :
        /\ Transition(p, expected, status, proj)
        /\ status = "approved" => MpApprove(p, expected) /\ proj = "pending"
        /\ status = "rejected" => MpReject(p, expected) BY DEF MpApprove, MpReject
<1>3. /\ mpOp.pc = "idle" /\ mpRows[p].status = "pending"
      /\ \A q \in MpProposals : q # p => mpRows'[q] = mpRows[q]
      /\ mpRows'[p].status = status /\ mpRows'[p].proj = proj /\ mpRows'[p].rev = 1
      /\ mpRows'[p].base = mpRows[p].base /\ mpRows'[p].cands = mpRows[p].cands BY <1>2, MpDecides
<1>4. /\ UNCHANGED <<mpFile, mpIndex, mpFaults>>
      /\ status = "approved" => mpFacts' = mpFacts \cup mpRows[p].cands /\ mpOp' = Projection(p, FALSE)
      /\ status = "rejected" => UNCHANGED <<mpFacts, mpOp>>
  BY <1>2 DEF MpApprove, MpReject, Transition
<1>5. mpFile \in Seq(MpLine) BY DEF MpFilesInv, MpInv, MpTypes
<1>6. mpFacts \subseteq mpFacts' /\ (status = "approved" => mpRows[p].cands \subseteq mpFacts')
  BY <1>2, <1>4
<1>7. MpKept'
 <2>1. IsFiniteSet(mpFacts')
  <3>1. IsFiniteSet(mpFacts) /\ IsFiniteSet(mpRows[p].cands) BY DEF MpFilesInv, MpKept
  <3> QED BY <1>2, <1>4, <3>1, FS_Union
 <2>2. ASSUME NEW q \in MpProposals
       PROVE  /\ mpRows'[q].rev \in 0..1 /\ mpRows'[q].base \in Nat
              /\ mpRows'[q].status = "pending" => mpRows'[q].rev = 0
              /\ IsFiniteSet(mpRows'[q].cands)
  <3>1. /\ mpRows[q].rev \in 0..1 /\ mpRows[q].base \in Nat
        /\ mpRows[q].status = "pending" => mpRows[q].rev = 0
        /\ IsFiniteSet(mpRows[q].cands) BY DEF MpFilesInv, MpKept
  <3> QED BY <1>2, <1>3, <3>1
 <2> QED BY <1>4, <2>1, <2>2 DEF MpFilesInv, MpKept
<1>8. /\ \A q \in MpProposals : mpRows[q].status # "none" => ToWrite(q)' = ToWrite(q)
      /\ \A n \in DOMAIN mpFile' : mpFile'[n].ref # MpUser =>
            /\ mpRows'[mpFile'[n].ref].status = "approved"
            /\ mpFile'[n].content \in mpRows'[mpFile'[n].ref].cands
            /\ \A m \in 1..n - 1 : mpFile'[m] # mpFile'[n]
 <2>1. /\ \A q \in MpProposals : mpRows[q].status # "none" => mpRows'[q].cands = mpRows[q].cands
       /\ \A q \in MpProposals : mpRows[q].status = "approved" => mpRows'[q].status = "approved"
   BY <1>3
 <2> QED BY <1>4, <1>5, <2>1, MpSameFile DEF MpFilesInv
<1>9. MpProjects'
 <2>1. CASE status = "approved"
  <3>1. mpOp'.pc = "append" /\ mpOp'.ref = p /\ mpOp'.todo = ToWrite(p) BY <1>4, <2>1 DEF Projection
  <3>2. ToWrite(p)' = ToWrite(p) BY <1>3, <1>8
  <3>3. ToWrite(mpOp.ref)' = ToWrite(p)' BY <3>1 DEF ToWrite, Lines
  <3> QED BY <3>1, <3>2, <3>3 DEF MpProjects
 <2>2. CASE status = "rejected" BY <1>3, <1>4, <2>2 DEF MpProjects
 <2> QED BY <1>2, <2>1, <2>2
<1>10. MpFilesFollowDecisions'
 <2>1. ASSUME NEW q \in MpProposals, mpRows'[q].status = "approved"
       PROVE  /\ mpRows'[q].cands \subseteq mpFacts'
              /\ mpRows'[q].proj = "complete" => ToWrite(q)' = {}
  <3>1. CASE q = p BY <1>2, <1>3, <1>6, <2>1, <3>1
  <3>2. CASE q # p
   <4>1. mpRows'[q] = mpRows[q] BY <1>3, <3>2
   <4>2. /\ mpRows[q].cands \subseteq mpFacts
         /\ mpRows[q].proj = "complete" => ToWrite(q) = {}
     BY <2>1, <4>1 DEF MpFilesInv, MpFilesFollowDecisions
   <4> QED BY <1>6, <1>8, <2>1, <4>1, <4>2
  <3> QED BY <3>1, <3>2
 <2> QED BY <1>8, <2>1 DEF MpFilesFollowDecisions
<1> QED BY <1>1, <1>7, <1>9, <1>10 DEF MpFilesInv

\* A step that leaves the rows, the facts and the topic files alone.
LEMMA MpCallFiles ==
  ASSUME MpFilesInv, MpInv', UNCHANGED <<mpRows, mpFacts, mpFile>>,
         mpIndex' \in Seq(MpLine), mpFaults' \in 0..MpMaxFaults,
         \/ mpOp'.pc = "idle" \/ mpOp'.ref = MpUser
         \/ ToWrite(mpOp'.ref) = IF mpOp'.pc = "append" THEN mpOp'.todo ELSE {}
  PROVE  MpFilesInv'
<1>1. MpKept' BY DEF MpFilesInv, MpKept
<1>2. MpProjects'
 <2>1. ToWrite(mpOp.ref)' = ToWrite(mpOp'.ref) BY DEF ToWrite, Lines
 <2> QED BY <2>1 DEF MpProjects
<1>3. MpFilesFollowDecisions'
 <2>1. \A p \in MpProposals : ToWrite(p)' = ToWrite(p) BY DEF ToWrite, Lines
 <2> QED BY <2>1 DEF MpFilesInv, MpFilesFollowDecisions
<1> QED BY <1>1, <1>2, <1>3 DEF MpFilesInv

\* The projection of a proposal appends what no file has.
LEMMA MpProjectionIs ==
  ASSUME NEW p, NEW replay
  PROVE  /\ Projection(p, replay).pc = "append" /\ Projection(p, replay).ref = p
         /\ Projection(p, replay).todo = ToWrite(p) BY DEF Projection

\* A line is appended.
LEMMA MpAppendFiles ==
  ASSUME MpFilesInv, MpAppend
  PROVE  MpFilesInv'
<1>1. MpInv' BY MpWritingHolds DEF MpFilesInv
<1>2. /\ mpRows \in MpRowsType /\ mpFile \in Seq(MpLine) /\ Len(mpFile) \in Nat
      /\ mpOp \in MpOpType /\ mpOp.pc = "append"
      /\ UNCHANGED <<mpRows, mpFacts, mpIndex, mpFaults>>
  BY DEF MpFilesInv, MpInv, MpTypes, MpAppend
<1>3. /\ mpIndex \in Seq(MpLine) /\ mpFaults \in 0..MpMaxFaults
      /\ mpOp.ref # MpUser => ToWrite(mpOp.ref) = mpOp.todo
  BY <1>2 DEF MpFilesInv, MpKept, MpProjects
<1>4. CASE mpOp.todo = {}
 <2>1. mpOp' = [mpOp EXCEPT !.pc = "index"] /\ UNCHANGED mpFile BY <1>4 DEF MpAppend
 <2>2. mpOp'.pc = "index" /\ mpOp'.ref = mpOp.ref BY <1>2, <2>1 DEF MpOpType
 <2>3. mpOp'.ref # MpUser => ToWrite(mpOp'.ref) = {} BY <1>3, <1>4, <2>2
 <2> QED BY <1>1, <1>2, <1>3, <2>1, <2>2, <2>3, MpCallFiles
<1>5. CASE mpOp.todo # {}
 <2>1. PICK c \in mpOp.todo : /\ mpFile' = Append(mpFile, [content |-> c, ref |-> mpOp.ref])
                              /\ mpOp' = [mpOp EXCEPT !.todo = @ \ {c}] BY <1>5 DEF MpAppend
 <2>2. PICK ref \in MpProposals \cup {MpUser} : ref = mpOp.ref BY <1>2 DEF MpOpType
 <2>3. PICK line \in MpLine : line = [content |-> c, ref |-> ref] /\ line.content = c /\ line.ref = ref
  <3>1. c \in MpContents BY <1>2, <2>1 DEF MpOpType
  <3>2. PICK new : new = [content |-> c, ref |-> ref] OBVIOUS
  <3>3. new \in MpLine /\ new.content = c /\ new.ref = ref BY <3>1, <3>2 DEF MpLine
  <3> QED BY <3>2, <3>3
 <2>4. PICK file : file = Append(mpFile, line) OBVIOUS
 <2>5. /\ mpFile' = file /\ file \in Seq(MpLine)
       /\ DOMAIN file = DOMAIN mpFile \cup {Len(mpFile) + 1}
       /\ \A n \in DOMAIN mpFile : n \in Nat /\ n < Len(mpFile) + 1 /\ file[n] = mpFile[n]
       /\ file[Len(mpFile) + 1] = line BY <1>2, <2>1, <2>2, <2>3, <2>4, MpLineAdded
 <2>6. mpOp'.pc = "append" /\ mpOp'.ref = ref /\ mpOp'.todo = mpOp.todo \ {c}
   BY <1>2, <2>1, <2>2 DEF MpOpType
 <2>7. Lines' = Lines \cup {line} BY <2>5 DEF Lines
 <2>8. ref # MpUser => line \notin Lines /\ c \in mpRows[ref].cands
   BY <1>3, <2>1, <2>2, <2>3 DEF ToWrite
 <2>9. ref # MpUser => /\ ref \in MpProposals /\ mpRows[ref].status = "approved"
   BY <1>2, <2>2 DEF MpFilesInv, MpInv, MpDecided
 <2>10. \A p \in MpProposals : ToWrite(p)' \subseteq ToWrite(p) BY <1>2, <2>7 DEF ToWrite
 <2>11. MpProjects'
  <3>1. SUFFICES ASSUME ref # MpUser PROVE ToWrite(ref)' = mpOp.todo \ {c}
   <4>1. ToWrite(mpOp.ref)' = ToWrite(ref)' BY <2>6 DEF ToWrite, Lines
   <4> QED BY <2>6, <4>1 DEF MpProjects
  <3>2. ToWrite(ref)' = {d \in mpRows[ref].cands : [content |-> d, ref |-> ref] \notin Lines \cup {line}}
    BY <1>2, <2>7 DEF ToWrite
  <3>3. ToWrite(ref) = {d \in mpRows[ref].cands : [content |-> d, ref |-> ref] \notin Lines}
    BY DEF ToWrite
  <3>4. \A d : [content |-> d, ref |-> ref] = line <=> d = c BY <2>3
  <3> QED BY <1>3, <2>2, <3>1, <3>2, <3>3, <3>4
 <2>12. MpKept' BY <1>2 DEF MpFilesInv, MpKept
 <2>13. MpFilesFollowDecisions'
  <3>1. ASSUME NEW p \in MpProposals, mpRows'[p].status = "approved"
        PROVE  /\ mpRows'[p].cands \subseteq mpFacts'
               /\ mpRows'[p].proj = "complete" => ToWrite(p)' = {}
    BY <1>2, <2>10, <3>1 DEF MpFilesInv, MpFilesFollowDecisions
  <3>2. ASSUME NEW n \in DOMAIN file, file[n].ref # MpUser
        PROVE  /\ mpRows[file[n].ref].status = "approved" /\ file[n].content \in mpRows[file[n].ref].cands
               /\ \A m \in 1..n - 1 : file[m] # file[n]
   <4>1. CASE n \in DOMAIN mpFile
    <5>1. /\ mpRows[mpFile[n].ref].status = "approved"
          /\ mpFile[n].content \in mpRows[mpFile[n].ref].cands
          /\ \A m \in 1..n - 1 : mpFile[m] # mpFile[n]
      BY <2>5, <3>2, <4>1 DEF MpFilesInv, MpFilesFollowDecisions
    <5>2. \A m \in 1..n - 1 : m \in DOMAIN mpFile BY <1>2, <4>1
    <5> QED BY <2>5, <4>1, <5>1, <5>2
   <4>2. CASE n = Len(mpFile) + 1
    <5>1. file[n] = line BY <2>5, <4>2
    <5>2. \A m \in 1..n - 1 : m \in DOMAIN mpFile /\ file[m] = mpFile[m] /\ mpFile[m] \in Lines
      BY <1>2, <2>5, <4>2 DEF Lines
    <5>3. ref # MpUser BY <2>3, <3>2, <5>1
    <5> QED BY <2>3, <2>8, <2>9, <5>1, <5>2, <5>3
   <4> QED BY <2>5, <4>1, <4>2
  <3> QED BY <1>2, <2>5, <3>1, <3>2 DEF MpFilesFollowDecisions
 <2> QED BY <1>1, <2>11, <2>12, <2>13 DEF MpFilesInv
<1> QED BY <1>4, <1>5

\* Remembering, indexing, replaying and interruptions.
LEMMA MpOtherFiles ==
  ASSUME MpFilesInv,
         (\E c \in MpContents : MpRemember(c)) \/ MpRebuildIndex \/ MpOpenSession \/ MpInterrupted
  PROVE  MpFilesInv'
<1>1. MpInv' BY MpWritingHolds DEF MpFilesInv
<1>2. /\ mpIndex \in Seq(MpLine) /\ mpFaults \in 0..MpMaxFaults /\ mpFile \in Seq(MpLine)
      /\ mpOp \in MpOpType BY DEF MpFilesInv, MpKept, MpInv, MpTypes
<1>3. MpIdle.pc = "idle" BY DEF MpIdle
<1>4. CASE \E c \in MpContents : MpRemember(c)
 <2>1. mpOp'.ref = MpUser /\ UNCHANGED <<mpRows, mpFacts, mpFile, mpIndex, mpFaults>>
   BY <1>4 DEF MpRemember
 <2> QED BY <1>1, <1>2, <2>1, MpCallFiles
<1>5. CASE MpRebuildIndex
 <2>1. mpIndex' = mpFile /\ UNCHANGED <<mpRows, mpFacts, mpFile, mpFaults>>
   BY <1>5 DEF MpRebuildIndex
 <2>2. CASE mpOp.ref = MpUser
  <3>1. mpOp'.pc = "idle" BY <1>3, <1>5, <2>2 DEF MpRebuildIndex
  <3> QED BY <1>1, <1>2, <2>1, <3>1, MpCallFiles
 <2>3. CASE mpOp.ref # MpUser
  <3>1. mpOp'.pc = "mark" /\ mpOp'.ref = mpOp.ref /\ mpOp.pc = "index"
    BY <1>2, <1>5, <2>3 DEF MpRebuildIndex, MpOpType
  <3>2. ToWrite(mpOp'.ref) = {} BY <2>3, <3>1 DEF MpFilesInv, MpProjects
  <3> QED BY <1>1, <1>2, <2>1, <3>1, <3>2, MpCallFiles
 <2> QED BY <2>2, <2>3
<1>6. CASE MpOpenSession
 <2>1. PICK p \in PendingProjections : mpOp' = Projection(p, TRUE) BY <1>6 DEF MpOpenSession
 <2>2. mpOp'.pc = "append" /\ mpOp'.ref = p /\ mpOp'.todo = ToWrite(p) BY <2>1, MpProjectionIs
 <2>3. UNCHANGED <<mpRows, mpFacts, mpFile, mpIndex, mpFaults>> BY <1>6 DEF MpOpenSession
 <2> QED BY <1>1, <1>2, <2>2, <2>3, MpCallFiles
<1>7. CASE MpInterrupted
 <2>1. mpOp'.pc = "idle" /\ UNCHANGED <<mpRows, mpFacts, mpFile, mpIndex>>
   BY <1>3, <1>7 DEF MpInterrupted
 <2>2. mpFaults' \in 0..MpMaxFaults BY <1>2, <1>7, MpAssumption DEF MpInterrupted
 <2> QED BY <1>1, <1>2, <2>1, <2>2, MpCallFiles
<1> QED BY <1>4, <1>5, <1>6, <1>7

\* A projection is marked complete when no candidate is left.
LEMMA MpMarkFiles ==
  ASSUME MpFilesInv, MpMark
  PROVE  MpFilesInv'
<1>1. mpRows \in MpRowsType /\ mpOp \in MpOpType /\ mpFile \in Seq(MpLine)
  BY DEF MpFilesInv, MpInv, MpTypes
<1>2. PICK p \in MpProposals : p = mpOp.ref
  BY <1>1 DEF MpMark, MpFilesInv, MpInv, MpDecided, MpOpType
<1>3. MpInv' BY <1>2, MpMarkHolds DEF MpFilesInv
<1>4. /\ mpOp.pc = "mark" /\ mpRows' = [mpRows EXCEPT ![p].proj = "complete"]
      /\ UNCHANGED <<mpFacts, mpFile, mpIndex, mpFaults>> BY <1>2 DEF MpMark
<1>5. \A q \in MpProposals :
        /\ mpRows'[q].status = mpRows[q].status /\ mpRows'[q].cands = mpRows[q].cands
        /\ mpRows'[q].rev = mpRows[q].rev /\ mpRows'[q].base = mpRows[q].base
        /\ q # p => mpRows'[q].proj = mpRows[q].proj BY <1>1, <1>4 DEF MpRowsType, MpRowType
<1>6. p # MpUser BY MpAssumption
<1>7. ToWrite(p) = {} BY <1>2, <1>4, <1>6 DEF MpFilesInv, MpProjects
<1>8. \A q \in MpProposals : ToWrite(q)' = ToWrite(q) BY <1>4, <1>5 DEF ToWrite, Lines
<1>9. MpKept' BY <1>4, <1>5 DEF MpFilesInv, MpKept
<1>10. MpProjects'
 <2>1. \/ mpOp' = MpIdle
       \/ \E q \in PendingProjections : mpOp' = Projection(q, TRUE)
  <3>1. CASE mpOp.replay /\ PendingProjections \ {mpOp.ref} # {}
   <4>1. PICK q \in PendingProjections \ {mpOp.ref} : mpOp' = Projection(q, TRUE)
     BY <3>1, ZenonT(30) DEF MpMark
   <4> QED BY <4>1
  <3>2. CASE ~(mpOp.replay /\ PendingProjections \ {mpOp.ref} # {}) BY <3>2, ZenonT(30) DEF MpMark
  <3> QED BY <3>1, <3>2
 <2>2. CASE mpOp' = MpIdle BY <2>2 DEF MpIdle, MpProjects
 <2>3. ASSUME NEW q \in PendingProjections, mpOp' = Projection(q, TRUE) PROVE MpProjects'
  <3>1. q \in MpProposals BY DEF PendingProjections
  <3>2. mpOp'.pc = "append" /\ mpOp'.ref = q /\ mpOp'.todo = ToWrite(q) BY <2>3, MpProjectionIs
  <3>3. ToWrite(mpOp.ref)' = ToWrite(q)' BY <3>2 DEF ToWrite, Lines
  <3> QED BY <1>8, <3>1, <3>2, <3>3 DEF MpProjects
 <2> QED BY <2>1, <2>2, <2>3
<1>11. MpFilesFollowDecisions'
 <2>1. ASSUME NEW q \in MpProposals, mpRows'[q].status = "approved"
       PROVE  /\ mpRows'[q].cands \subseteq mpFacts'
              /\ mpRows'[q].proj = "complete" => ToWrite(q)' = {}
  <3>1. /\ mpRows[q].cands \subseteq mpFacts
        /\ mpRows[q].proj = "complete" => ToWrite(q) = {}
    BY <1>5, <2>1 DEF MpFilesInv, MpFilesFollowDecisions
  <3> QED BY <1>4, <1>5, <1>7, <1>8, <3>1
 <2>2. \A n \in DOMAIN mpFile' : mpFile'[n].ref # MpUser =>
         /\ mpRows'[mpFile'[n].ref].status = "approved"
         /\ mpFile'[n].content \in mpRows'[mpFile'[n].ref].cands
         /\ \A m \in 1..n - 1 : mpFile'[m] # mpFile'[n]
   BY <1>1, <1>4, <1>5, MpSameFile DEF MpFilesInv
 <2> QED BY <2>1, <2>2 DEF MpFilesFollowDecisions
<1> QED BY <1>3, <1>9, <1>10, <1>11 DEF MpFilesInv

\* The files follow the decisions through every step.
LEMMA MpNextFiles == MpFilesInv /\ [MpNext]_mpVars => MpFilesInv'
<1> SUFFICES ASSUME MpFilesInv, [MpNext]_mpVars PROVE MpFilesInv' OBVIOUS
<1>1. ASSUME NEW p \in MpProposals, NEW c \in MpContents, MpPropose(p, {c}) PROVE MpFilesInv'
  BY <1>1, MpProposeFiles, FS_Singleton
<1>2. ASSUME NEW p \in MpProposals, MpPropose(p, FileContents) PROVE MpFilesInv'
 <2>1. PICK cands : cands = FileContents OBVIOUS
 <2>2. cands \in SUBSET MpContents /\ IsFiniteSet(cands)
   BY <2>1, FileContentsTyped, MpFileFinite DEF MpFilesInv, MpInv, MpTypes
 <2> QED BY <1>2, <2>1, <2>2, MpProposeFiles
<1>3. ASSUME NEW p \in MpProposals, NEW expected \in 0..1, MpApprove(p, expected) \/ MpReject(p, expected)
      PROVE  MpFilesInv' BY <1>3, MpDecideFiles
<1>4. CASE (\E c \in MpContents : MpRemember(c)) \/ MpRebuildIndex \/ MpOpenSession \/ MpInterrupted
  BY <1>4, MpOtherFiles
<1>5. CASE UNCHANGED mpVars
 <2>1. MpInv' BY <1>5 DEF mpVars, MpFilesInv, MpInv, MpTypes, MpDecided
 <2>2. /\ UNCHANGED <<mpRows, mpFacts, mpFile, mpIndex, mpOp, mpFaults>>
       /\ mpIndex \in Seq(MpLine) /\ mpFaults \in 0..MpMaxFaults
       /\ mpOp.pc = "idle" \/ mpOp.ref = MpUser
          \/ ToWrite(mpOp.ref) = IF mpOp.pc = "append" THEN mpOp.todo ELSE {}
   BY <1>5 DEF mpVars, MpFilesInv, MpKept, MpProjects
 <2> QED BY <2>1, <2>2, MpCallFiles
<1> QED BY <1>1, <1>2, <1>3, <1>4, <1>5, MpAppendFiles, MpMarkFiles DEF MpNext, MpStep

\* The types of the memory, and its files.
LEMMA MpFilesHold == MpFilesInv => MpTypeOK /\ MpFilesFollowDecisions
<1> SUFFICES ASSUME MpFilesInv PROVE MpTypeOK BY DEF MpFilesInv
<1>1. MpTypes /\ MpKept BY DEF MpFilesInv, MpInv
<1>2. mpRows \in [MpProposals -> MpRow]
 <2>1. ASSUME NEW p \in MpProposals PROVE mpRows[p] \in MpRow
  <3>1. mpRows[p] \in MpRowType /\ mpRows[p].rev \in 0..1 /\ mpRows[p].base \in Nat
    BY <1>1 DEF MpTypes, MpRowsType, MpKept
  <3> QED BY <3>1 DEF MpRowType, MpRow, MpStatuses
 <2> QED BY <1>1, <2>1 DEF MpTypes, MpRowsType
<1> QED BY <1>1, <1>2 DEF MpTypes, MpKept, MpTypeOK, MpOpType
====
