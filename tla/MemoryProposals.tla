---- MODULE MemoryProposals ----
(* Durable memory of a workspace: proposals and facts in SQLite
   (persistence/memory_store.py), the topic files and MEMORY.md
   (memory/durable.py), and the manager that keeps them together
   (memory/manager.py).  The calls of a process run one after the other on
   its event loop; every file write and every transaction is an action,
   because an OSError or the death of the process may fall between them. *)
EXTENDS Integers, Sequences, FiniteSets

CONSTANTS MpProposals, MpContents,
          MpUser,       \* the source_ref of what remember writes
          MpMaxFaults,  \* bound on failed writes and deaths
          MpMaxLines    \* bound on lines written by remember

ASSUME MpAssumption ==
  MpUser \notin MpProposals /\ MpMaxFaults \in Nat /\ MpMaxLines \in Nat

VARIABLES mpRows,   \* memory_proposals
          mpFacts,  \* memory_facts, keyed by the hash of their content
          mpFile,   \* lines of the topic files: content and source_ref
          mpIndex,  \* the lines MEMORY.md shows
          mpOp,     \* the call in progress
          mpFaults

mpVars == <<mpRows, mpFacts, mpFile, mpIndex, mpOp, mpFaults>>

MpRow == [status: {"none", "pending", "approved", "rejected"}, proj: {"pending", "complete"},
          rev: 0..1, base: Nat, cands: SUBSET MpContents]
MpLine == [content: MpContents, ref: MpProposals \cup {MpUser}]
MpIdle == [pc |-> "idle", ref |-> MpUser, todo |-> {}, replay |-> FALSE]

MpTypeOK ==
  /\ mpRows \in [MpProposals -> MpRow] /\ mpFacts \subseteq MpContents
  /\ mpFile \in Seq(MpLine) /\ mpIndex \in Seq(MpLine)
  /\ mpOp \in [pc: {"idle", "append", "index", "mark"}, ref: MpProposals \cup {MpUser},
               todo: SUBSET MpContents, replay: BOOLEAN]
  /\ mpFaults \in 0..MpMaxFaults

MpInit ==
  /\ mpRows = [p \in MpProposals |-> [status |-> "none", proj |-> "pending", rev |-> 0,
                                      base |-> 0, cands |-> {}]]
  /\ mpFacts = {} /\ mpFile = <<>> /\ mpIndex = <<>> /\ mpOp = MpIdle /\ mpFaults = 0

Lines == {mpFile[n] : n \in DOMAIN mpFile}
FileContents == {l.content : l \in Lines}

--------------------

\* create_proposal: by the harness with one candidate, or propose_dream with
\* every fact of the topic files.
MpPropose(p, cands) ==
  /\ mpOp.pc = "idle" /\ mpRows[p].status = "none" /\ cands # {}
  /\ mpRows' = [mpRows EXCEPT ![p] = [status |-> "pending", proj |-> "pending", rev |-> 0,
                                      base |-> Cardinality(mpFacts), cands |-> cands]]
  /\ UNCHANGED <<mpFacts, mpFile, mpIndex, mpOp, mpFaults>>

\* approve_dream of a proposal: candidates whose line is not in a topic file.
ToWrite(p) == {c \in mpRows[p].cands : [content |-> c, ref |-> p] \notin Lines}
Projection(p, replay) ==
  [pc |-> "append", ref |-> p, todo |-> ToWrite(p), replay |-> replay]

\* _transition of a pending proposal, of the revision the reviewer was shown.
Transition(p, expected, status, proj) ==
  /\ mpOp.pc = "idle" /\ mpRows[p].status = "pending" /\ mpRows[p].rev = expected
  /\ mpRows' = [mpRows EXCEPT ![p] = [status |-> status, proj |-> proj, rev |-> expected + 1,
                                      base |-> mpRows[p].base, cands |-> mpRows[p].cands]]

\* approve: refused when facts were added since; what it approves is projected.
MpApprove(p, expected) ==
  /\ Transition(p, expected, "approved", "pending")
  /\ Cardinality(mpFacts) = mpRows[p].base
  /\ mpFacts' = mpFacts \cup mpRows[p].cands
  /\ mpOp' = Projection(p, FALSE)
  /\ UNCHANGED <<mpFile, mpIndex, mpFaults>>

MpReject(p, expected) ==
  /\ Transition(p, expected, "rejected", "complete")
  /\ UNCHANGED <<mpFacts, mpFile, mpIndex, mpOp, mpFaults>>

\* remember: no review, not deduplicated.
MpRemember(c) ==
  /\ mpOp.pc = "idle" /\ Cardinality({n \in DOMAIN mpFile : mpFile[n].ref = MpUser}) < MpMaxLines
  /\ mpOp' = [pc |-> "append", ref |-> MpUser, todo |-> {c}, replay |-> FALSE]
  /\ UNCHANGED <<mpRows, mpFacts, mpFile, mpIndex, mpFaults>>

\* _append_topic_file of the next candidate.
MpAppend ==
  /\ mpOp.pc = "append"
  /\ IF mpOp.todo = {}
       THEN mpOp' = [mpOp EXCEPT !.pc = "index"] /\ UNCHANGED mpFile
       ELSE \E c \in mpOp.todo :
              /\ mpFile' = Append(mpFile, [content |-> c, ref |-> mpOp.ref])
              /\ mpOp' = [mpOp EXCEPT !.todo = @ \ {c}]
  /\ UNCHANGED <<mpRows, mpFacts, mpIndex, mpFaults>>

\* _rebuild_index.
MpRebuildIndex ==
  /\ mpOp.pc = "index"
  /\ mpIndex' = mpFile
  /\ mpOp' = IF mpOp.ref = MpUser THEN MpIdle ELSE [mpOp EXCEPT !.pc = "mark"]
  /\ UNCHANGED <<mpRows, mpFacts, mpFile, mpFaults>>

\* Mutant: a projection that has begun is taken for done.
UnstartedProjections ==
  {p \in MpProposals : mpRows[p].status = "approved" /\ mpRows[p].proj # "complete"
                       /\ \A l \in Lines : l.ref # p}

\* pending_projections.
PendingProjections ==
  {p \in MpProposals : mpRows[p].status = "approved" /\ mpRows[p].proj # "complete"}

\* mark_projection_complete; a replay goes on with the next proposal.
MpMark ==
  /\ mpOp.pc = "mark"
  /\ mpRows' = [mpRows EXCEPT ![mpOp.ref].proj = "complete"]
  /\ LET rest == PendingProjections \ {mpOp.ref}
     IN  IF mpOp.replay /\ rest # {} THEN \E p \in rest : mpOp' = Projection(p, TRUE)
         ELSE mpOp' = MpIdle
  /\ UNCHANGED <<mpFacts, mpFile, mpIndex, mpFaults>>

\* A session is opened, here or after a restart: its manager replays what an
\* earlier one left (_replay_projections).
MpOpenSession ==
  /\ mpOp.pc = "idle"
  /\ \E p \in PendingProjections : mpOp' = Projection(p, TRUE)
  /\ UNCHANGED <<mpRows, mpFacts, mpFile, mpIndex, mpFaults>>

\* A file write raises, or the process dies: the call ends where it is.
MpInterrupted ==
  /\ mpOp.pc # "idle" /\ mpFaults < MpMaxFaults
  /\ mpOp' = MpIdle /\ mpFaults' = mpFaults + 1
  /\ UNCHANGED <<mpRows, mpFacts, mpFile, mpIndex>>

MpStep == MpAppend \/ MpRebuildIndex \/ MpMark

MpNext ==
  \/ \E p \in MpProposals : \/ \E c \in MpContents : MpPropose(p, {c})
                            \/ MpPropose(p, FileContents)
                            \/ \E expected \in 0..1 : MpApprove(p, expected) \/ MpReject(p, expected)
  \/ \E c \in MpContents : MpRemember(c)
  \/ MpStep \/ MpOpenSession \/ MpInterrupted

\* The event loop finishes what it began, and sessions are opened again.
MpFairness == WF_mpVars(MpStep) /\ WF_mpVars(MpOpenSession)
MpSpec == MpInit /\ [][MpNext]_mpVars /\ MpFairness

--------------------

\* The topic files hold nothing that was not approved or remembered, an
\* approved candidate once only, and all of them when the projection is said
\* to be complete; the facts table holds them from the approval on
\* (approve_dream, _replay_projections after an interrupted write).
MpFilesFollowDecisions ==
  /\ \A n \in DOMAIN mpFile : mpFile[n].ref # MpUser =>
       /\ mpRows[mpFile[n].ref].status = "approved" /\ mpFile[n].content \in mpRows[mpFile[n].ref].cands
       /\ \A m \in 1..n - 1 : mpFile[m] # mpFile[n]
  /\ \A p \in MpProposals : mpRows[p].status = "approved" =>
       /\ mpRows[p].cands \subseteq mpFacts
       /\ mpRows[p].proj = "complete" => ToWrite(p) = {}

\* A memory proposal is a reviewed proposal: decided once, carried out if and
\* only if it was approved, even when its projection was interrupted.
MpVerdict == [p \in MpProposals |-> CASE mpRows[p].status = "pending" -> "open"
                                      [] mpRows[p].status = "approved" -> "accepted"
                                      [] mpRows[p].status = "rejected" -> "refused"
                                      [] OTHER -> "none"]
MpDecision == INSTANCE Decision WITH
  Subjects <- MpProposals, verdict <- MpVerdict,
  carriedOut <- {p \in MpProposals : mpRows[p].status = "approved" /\ mpRows[p].proj = "complete"}
MpImplementsDecision == MpDecision!Spec
====
