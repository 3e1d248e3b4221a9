---- MODULE KnowledgeStore ----
(* core/knowledge/store.py: proposals, their review by people and by the
   autonomy policy, and the projection of an approved proposal into the
   Git wiki, the database and the retrieval index.

   Every operation is a sequence of sections under one exclusive file
   lock, and each section is one action; the lock is kept from the commit
   that approves a proposal to the end of its projection.  A projection
   has four durable effects (files, git index, HEAD, database), a step
   each, and an exception, the death of the process or somebody with an
   editor, who takes no lock, may come between any two.
   index.md and log.md are written and staged together and are one file,
   Log, whose content is the set of proposals it lists. *)
EXTENDS Integers, Sequences, FiniteSets

CONSTANTS
  Sources,       \* source files under a registered root; each has one page
  SourceRevs,    \* contents a source file may have (positive naturals)
  TrustedSources,\* sources whose parser is a trusted local one
  Actors,        \* request threads and job workers
  NoActor,
  MaxRequests, MaxFaults

ASSUME KbAssumption ==
  /\ SourceRevs \subseteq Nat \ {0} /\ 1 \in SourceRevs
  /\ TrustedSources \subseteq Sources
  /\ NoActor \notin Actors
  /\ {"overview", "learning", "log"} \cap Sources = {}
  /\ MaxRequests \in Nat /\ MaxFaults \in Nat

VARIABLES
  kbFile,      \* source files on disk
  kbKnown,     \* knowledge_sources.current_revision; 0 is no row
  kbProps,     \* knowledge_proposals with their knowledge_policy_decisions row
  kbRevs,      \* knowledge_page_revisions in the order they were recorded
  kbWork, kbStage, kbHead,  \* working tree, git index and HEAD
  kbSaved,     \* the files as the projection under way read them
  kbLate,      \* history: files edited since it compared the base
  kbIndex,     \* the revision of a page whose chunks are active; 0 is none
  kbIndexErr,  \* revisions whose index row has status error
  kbOp,        \* the operation each actor is in
  kbLock,      \* holder of the lock through a projection
  kbRequests,  \* calls of the store so far
  kbFaults     \* exceptions, crashes and outside edits so far

kbVars == <<kbFile, kbKnown, kbProps, kbRevs, kbWork, kbStage, kbHead, kbSaved, kbLate,
            kbIndex, kbIndexErr, kbOp, kbLock, kbRequests, kbFaults>>
kbWikiVars == <<kbWork, kbStage, kbHead, kbSaved, kbLate>>
kbIndexVars == <<kbIndex, kbIndexErr>>

Log == "log"
Pages == Sources \cup {"overview", "learning"}
Files == Pages \cup {Log}

\* A page body: an ingested source revision, a tombstone of a proposal, a
\* derived page and what it cites, the log, or text nobody proposed.
Content == [kind: {"absent", "initial", "source", "tombstone", "derived", "log", "edit"},
            rev: Nat, cites: SUBSET Nat]
Body(kind, rev, cites) == [kind |-> kind, rev |-> rev, cites |-> cites]
Absent == Body("absent", 0, {})

ChangeKinds == {"ingest", "synthesis", "learning", "rollback", "retraction"}
Proposal ==
  [kind: ChangeKinds, page: Pages, source: Nat, body: Content, base: Nat,
   cites: SUBSET Nat, parsed: BOOLEAN, of: Nat, status: {"pending", "approved", "rejected"},
   proj: {"pending", "complete", "error"}, revision: Nat,
   action: {"none", "auto_apply", "draft", "require_review", "block"},
   applied: Nat, undone: Nat]

\* A new row: pending at revision 0, no policy decision.
NewProposal(kind, page, source, body, base, cites, of) ==
  [kind |-> kind, page |-> page, source |-> source, body |-> body, base |-> base,
   cites |-> cites, parsed |-> kind = "ingest", of |-> of, status |-> "pending", proj |-> "pending",
   revision |-> 0, action |-> "none", applied |-> 0, undone |-> 0]

Idle == [pc |-> "idle", p |-> 0, rev |-> 0, then |-> "", orig |-> 0,
         outcome |-> "none"]

\* knowledge_pages.current_revision, written together with the revision row.
KbCurrent(page) ==
  LET mine == {r \in DOMAIN kbRevs : kbRevs[r].page = page}
  IN  IF mine = {} THEN 0 ELSE CHOOSE r \in mine : \A q \in mine : q <= r

KbRevisionOf(p) == CHOOSE r \in DOMAIN kbRevs : kbRevs[r].prop = p
Youngest(ps) == CHOOSE p \in ps : \A q \in ps : KbRevisionOf(q) <= KbRevisionOf(p)
Projected(p) == kbProps[p].status = "approved" /\ kbProps[p].proj = "complete"

\* A request begins.
Request == kbRequests < MaxRequests /\ kbRequests' = kbRequests + 1
Free == kbLock = NoActor

\* git status --porcelain of a file is not empty.
Dirty(f) == kbWork[f] # kbStage[f] \/ kbStage[f] # kbHead[f]

\* Mutant: git status alone is trusted.
BaseHoldsByStatus(p) == ~Dirty(Log) /\ ~Dirty(kbProps[p].page)

\* _assert_projection_base: nothing changed outside the store, and the page is
\* still at the revision the proposal was made against.
BaseHolds(p) ==
  LET pr == kbProps[p]  cur == KbCurrent(pr.page)
  IN  /\ ~Dirty(Log) /\ ~Dirty(pr.page)
      /\ pr.base = cur
      /\ IF cur = 0
           THEN \/ kbWork[pr.page] = Absent
                \/ pr.kind = "synthesis" /\ kbWork[pr.page].kind = "initial"
           ELSE kbWork[pr.page] = kbRevs[cur].body

\* _evidence_learning_is_current: every cited revision still has active chunks.
EvidenceCurrent(p) == kbProps[p].cites \subseteq {kbIndex[s] : s \in Sources}

\* evaluate_knowledge_policy for proposals this store makes: private pages
\* below their own wiki directory.
Policy(p) ==
  CASE kbProps[p].kind = "ingest" ->
         IF ~kbProps[p].parsed THEN "block"
         ELSE IF kbProps[p].page \in TrustedSources THEN "auto_apply" ELSE "draft"
    [] kbProps[p].kind = "synthesis" -> "draft"
    [] kbProps[p].kind = "learning" -> IF EvidenceCurrent(p) THEN "auto_apply" ELSE "block"
    [] OTHER -> "require_review"

\* A projection under the lock, which has compared the base in the last five.
Projecting == {"project", "backup", "write", "stage", "commit", "record"}
Ops == [pc: {"idle", "read", "decide", "act", "approve", "applied", "reject", "undone",
             "retire"} \cup Projecting,
        p: Nat, rev: Nat, then: {"", "user", "policy", "undo", "migrate"}, orig: Nat,
        outcome: {"none", "auto_apply", "draft", "require_review", "block"}]

KbTypeOK ==
  /\ kbFile \in [Sources -> SourceRevs]
  /\ kbKnown \in [Sources -> SourceRevs \cup {0}]
  /\ kbProps \in Seq(Proposal)
  /\ kbRevs \in Seq([page: Pages, body: Content, prop: Nat])
  /\ kbWork \in [Files -> Content] /\ kbStage \in [Files -> Content]
  /\ kbHead \in [Files -> Content] /\ kbSaved \in [Files -> Content] /\ kbLate \subseteq Files
  /\ kbIndex \in [Pages -> Nat] /\ kbIndexErr \subseteq Nat
  /\ kbOp \in [Actors -> Ops] /\ kbLock \in Actors \cup {NoActor}
  /\ kbRequests \in 0..MaxRequests /\ kbFaults \in 0..MaxFaults

\* _prepare_workspace.
InitialWiki == [f \in Files |-> CASE f = Log -> Body("log", 0, {})
                                  [] f = "overview" -> Body("initial", 0, {})
                                  [] OTHER -> Absent]

NoBackup == [f \in Files |-> Absent]

\* A database of an older version may hold a pending ingest without a parse
\* artifact; a later one holds pages the policy has applied.
OldPending(s) ==
  [NewProposal("ingest", s, 1, Body("source", 1, {}), 0, {}, 0) EXCEPT !.parsed = FALSE]
OldApplied(s) ==
  [NewProposal("ingest", s, 1, Body("source", 1, {}), 0, {}, 0) EXCEPT
     !.status = "approved", !.proj = "complete", !.revision = 1, !.action = "auto_apply",
     !.applied = 1]
AppliedWiki(s) == [InitialWiki EXCEPT ![s] = Body("source", 1, {}), ![Log] = Body("log", 0, {1})]

KbInit ==
  /\ kbFile = [s \in Sources |-> 1]
  /\ \E s \in Sources :
       \/ /\ kbKnown = [x \in Sources |-> 0]
          /\ kbProps = <<OldPending(s)>> /\ kbRevs = <<>>
          /\ kbWork = InitialWiki /\ kbIndex = [page \in Pages |-> 0]
       \/ /\ kbKnown = [x \in Sources |-> IF x = s THEN 1 ELSE 0]
          /\ kbProps = <<OldApplied(s)>>
          /\ kbRevs = <<[page |-> s, body |-> Body("source", 1, {}), prop |-> 1]>>
          /\ kbWork = AppliedWiki(s) /\ kbIndex = [page \in Pages |-> IF page = s THEN 1 ELSE 0]
  /\ kbStage = kbWork /\ kbHead = kbWork /\ kbSaved = NoBackup /\ kbLate = {}
  /\ kbIndexErr = {}
  /\ kbOp = [a \in Actors |-> Idle] /\ kbLock = NoActor
  /\ kbRequests = 0 /\ kbFaults = 0

--------------------
(* The world outside: source files and the wiki in an editor. *)

KbSourceChanges(s, r) ==
  /\ kbFile[s] # r
  /\ kbFile' = [kbFile EXCEPT ![s] = r]
  /\ UNCHANGED <<kbKnown, kbProps, kbRevs, kbWikiVars, kbIndexVars, kbOp, kbLock, kbFaults, kbRequests>>

\* Somebody edits a wiki file at any time, or puts back what is committed.
KbOutsideEdit(f) ==
  /\ \/ /\ kbWork[f].kind # "edit" /\ kbFaults < MaxFaults
        /\ kbWork' = [kbWork EXCEPT ![f] = Body("edit", 0, {})]
        /\ kbFaults' = kbFaults + 1
     \/ /\ kbWork[f].kind = "edit"
        /\ kbWork' = [kbWork EXCEPT ![f] = kbHead[f]]
        /\ UNCHANGED kbFaults
  /\ kbLate' = IF Free \/ kbOp[kbLock].pc = "project" THEN kbLate ELSE kbLate \cup {f}
  /\ UNCHANGED <<kbFile, kbKnown, kbProps, kbRevs, kbStage, kbHead, kbSaved, kbIndexVars,
                 kbOp, kbLock, kbRequests>>

--------------------
(* Proposals. *)

\* ingest_prepared: the source still has the content that was parsed.  An
\* unchanged page returns the last projected proposal with this text, a known
\* (source, revision, base, artifact) the proposal that has this identity.
Parses(s) ==
  {p \in DOMAIN kbProps : /\ kbProps[p].kind = "ingest" /\ kbProps[p].page = s
                          /\ kbProps[p].parsed /\ kbProps[p].source = kbFile[s]}
Unchanged(s) ==
  {p \in Parses(s) : Projected(p) /\ kbRevs[KbCurrent(s)].body = kbProps[p].body}
Known(s) == {p \in Parses(s) : kbProps[p].base = KbCurrent(s)}

Ingested(s, result) ==
  LET hits == IF Unchanged(s) # {} THEN {Youngest(Unchanged(s))} ELSE Known(s)
  IN  IF hits # {}
        THEN result \in hits /\ UNCHANGED <<kbKnown, kbProps>>
        ELSE /\ result = Len(kbProps) + 1
             /\ kbKnown' = [kbKnown EXCEPT ![s] = kbFile[s]]
             /\ kbProps' = Append(kbProps, NewProposal("ingest", s, kbFile[s],
                                    Body("source", kbFile[s], {}), KbCurrent(s), {}, 0))

\* The ingest endpoint and the job worker: ingest, then evaluate the policy.
KbIngest(a, s) ==
  /\ kbOp[a].pc = "idle" /\ Free /\ Request
  /\ \E p \in 1..Len(kbProps) + 1 :
       /\ Ingested(s, p)
       /\ kbOp' = [kbOp EXCEPT ![a] = [Idle EXCEPT !.pc = "read", !.p = p, !.then = "policy"]]
  /\ UNCHANGED <<kbFile, kbRevs, kbWikiVars, kbIndexVars, kbLock, kbFaults>>

\* propose_source_retraction of the source revision the caller saw deleted:
\* once for the last projected ingest of that revision.
KbRetractSource(s, r) ==
  LET ingests == {p \in DOMAIN kbProps : /\ kbProps[p].kind = "ingest" /\ kbProps[p].page = s
                                         /\ kbProps[p].source = r /\ Projected(p)}
      orig    == Youngest(ingests)
  IN  /\ Free /\ kbKnown[s] = r /\ ingests # {} /\ Request
      /\ \A q \in DOMAIN kbProps :
           kbProps[q].kind = "retraction" /\ kbProps[q].of = orig => kbProps[q].status = "rejected"
      /\ kbProps' = Append(kbProps, NewProposal("retraction", s, r,
                      Body("tombstone", Len(kbProps) + 1, {}), KbCurrent(s), {}, orig))
      /\ UNCHANGED <<kbFile, kbKnown, kbRevs, kbWikiVars, kbIndexVars, kbOp, kbLock, kbFaults>>

\* propose_rollback to a recorded revision of the page, then its policy
\* decision (require_review).
KbRollback(r) ==
  /\ Free /\ r # KbCurrent(kbRevs[r].page) /\ Request
  /\ kbProps' = Append(kbProps,
       [NewProposal("rollback", kbRevs[r].page, r, kbRevs[r].body,
                    KbCurrent(kbRevs[r].page), {}, 0) EXCEPT !.action = "require_review"])
  /\ UNCHANGED <<kbFile, kbKnown, kbRevs, kbWikiVars, kbIndexVars, kbOp, kbLock, kbFaults>>

\* propose_workspace_synthesis over the pages whose current revision is a
\* projected ingest; the same inputs were synthesised only once, whatever the
\* base, because synthesis_id is a primary key.
KbSynthesis(a) ==
  LET cites == {r \in {KbCurrent(s) : s \in Sources} \ {0} : kbProps[kbRevs[r].prop].kind = "ingest"}
  IN  /\ kbOp[a].pc = "idle" /\ Free /\ cites # {} /\ Request
      /\ \A p \in DOMAIN kbProps : kbProps[p].kind = "synthesis" => kbProps[p].cites # cites
      /\ kbProps' = Append(kbProps, NewProposal("synthesis", "overview", 0,
                             Body("derived", 0, cites), KbCurrent("overview"), cites, 0))
      /\ kbOp' = [kbOp EXCEPT ![a] = [Idle EXCEPT !.pc = "read", !.p = Len(kbProps) + 1,
                                                  !.then = "policy"]]
      /\ UNCHANGED <<kbFile, kbKnown, kbRevs, kbWikiVars, kbIndexVars, kbLock, kbFaults>>

\* propose_evidence_learning: citations resolve to active chunks of ingested
\* pages; the new page keeps what the old one cited.
KbLearn(a, cites) ==
  LET base == KbCurrent("learning")
      old  == IF base = 0 THEN {} ELSE kbRevs[base].body.cites
  IN  /\ kbOp[a].pc = "idle" /\ Free /\ cites # {} /\ Request
      /\ \A r \in cites : r # 0 /\ kbProps[kbRevs[r].prop].kind = "ingest"
      /\ \A p \in DOMAIN kbProps : kbProps[p].kind = "learning" => kbProps[p].cites # cites
      /\ kbProps' = Append(kbProps, NewProposal("learning", "learning", 0,
                             Body("derived", 0, cites \cup old), base, cites, 0))
      /\ kbOp' = [kbOp EXCEPT ![a] = [Idle EXCEPT !.pc = "read", !.p = Len(kbProps) + 1,
                                                  !.then = "policy"]]
      /\ UNCHANGED <<kbFile, kbKnown, kbRevs, kbWikiVars, kbIndexVars, kbLock, kbFaults>>

--------------------
(* Policy and review. *)

\* evaluate_and_apply_policy reads the proposal and its decision; a decided or
\* reviewed proposal is not decided again.
ReadDecision(a, op) ==
  LET pr == kbProps[op.p]
  IN  /\ kbOp' = [kbOp EXCEPT ![a] =
           IF pr.action # "none" THEN [op EXCEPT !.pc = "act"]
           ELSE IF pr.status # "pending" THEN Idle
           ELSE [op EXCEPT !.pc = "decide", !.outcome = Policy(op.p)]]
      /\ UNCHANGED <<kbFile, kbKnown, kbProps, kbRevs, kbWikiVars, kbIndexVars, kbLock, kbFaults>>

\* After the proposal of this call, or for an older one (a repeated ingest, a
\* job item that is worked on again).
KbReadDecision(a) == kbOp[a].pc = "read" /\ ReadDecision(a, kbOp[a]) /\ UNCHANGED kbRequests
KbEvaluate(a, p) ==
  /\ kbOp[a].pc = "idle" /\ kbProps[p].applied = 0 /\ Request
  /\ kbProps[p].status = "pending" \/ kbProps[p].action = "auto_apply"
  /\ ReadDecision(a, [Idle EXCEPT !.p = p, !.then = "policy"])

\* INSERT OR IGNORE of the decision.
KbDecide(a) ==
  LET op == kbOp[a]
  IN  /\ op.pc = "decide" /\ Free
      /\ kbProps' = [kbProps EXCEPT ![op.p].action = IF @ = "none" THEN op.outcome ELSE @]
      /\ kbOp' = [kbOp EXCEPT ![a].pc = "act", ![a].outcome = "none"]
      /\ UNCHANGED <<kbFile, kbKnown, kbRevs, kbWikiVars, kbIndexVars, kbLock, kbFaults, kbRequests>>

\* Reads the proposal again and takes the transition the decision allows.
KbAct(a) ==
  LET op == kbOp[a]  pr == kbProps[op.p]
  IN  /\ op.pc = "act"
      /\ kbOp' = [kbOp EXCEPT ![a] =
           CASE pr.action = "auto_apply" /\ pr.status = "pending" ->
                  [op EXCEPT !.pc = "approve", !.rev = pr.revision]
             [] pr.action = "auto_apply" /\ Projected(op.p) -> [op EXCEPT !.pc = "applied"]
             [] pr.action = "block" /\ pr.status = "pending" ->
                  [op EXCEPT !.pc = "reject", !.rev = pr.revision]
             [] OTHER -> Idle]
      /\ UNCHANGED <<kbFile, kbKnown, kbProps, kbRevs, kbWikiVars, kbIndexVars, kbLock, kbFaults, kbRequests>>

\* The caller after approve returned: evaluate_and_apply_policy goes on to
\* record the revision, undo_auto_apply to mark the decision.
Continue(op) ==
  CASE op.then \in {"policy", "migrate"} -> [op EXCEPT !.pc = "applied"]
    [] op.then = "undo" -> [op EXCEPT !.pc = "undone"]
    [] OTHER -> Idle

\* Mutant: a conflict is taken for success.
ApproveIgnoringConflict(a, op) ==
  /\ Free
  /\ LET fresh == kbProps[op.p].status = "pending" /\ BaseHolds(op.p)
     IN  /\ kbProps' = IF fresh THEN [kbProps EXCEPT ![op.p].status = "approved",
                                                     ![op.p].revision = @ + 1]
                       ELSE kbProps
         /\ kbLock' = IF fresh THEN a ELSE kbLock
         /\ kbOp' = [kbOp EXCEPT ![a] = IF fresh THEN [op EXCEPT !.pc = "project"]
                                        ELSE Continue(op)]
  /\ UNCHANGED <<kbFile, kbKnown, kbRevs, kbWikiVars, kbIndexVars, kbFaults>>

\* approve up to its first commit, of the revision the caller was shown.  A
\* conflict ends the call; the policy goes on when the proposal has been
\* projected by somebody else.
Approve(a, op) ==
  LET pr == kbProps[op.p]
      fresh == pr.status = "pending" /\ pr.revision = op.rev /\ BaseHolds(op.p)
      retry == pr.status = "approved" /\ pr.revision = op.rev /\ pr.proj # "complete"
      done  == Projected(op.p) /\ (pr.revision = op.rev \/ op.then \in {"policy", "migrate"})
  IN  /\ Free
      /\ kbProps' = IF fresh
                      THEN [kbProps EXCEPT ![op.p].status = "approved", ![op.p].proj = "pending",
                                           ![op.p].revision = @ + 1]
                      ELSE kbProps
      /\ kbLock' = IF fresh \/ retry THEN a ELSE kbLock
      /\ kbOp' = [kbOp EXCEPT ![a] =
           IF fresh \/ retry
             THEN [op EXCEPT !.pc = "project"]
             ELSE IF done THEN Continue(op) ELSE Idle]
      /\ UNCHANGED <<kbFile, kbKnown, kbRevs, kbWikiVars, kbIndexVars, kbFaults>>

\* reject, by a person or by a block decision.
Reject(a, op) ==
  LET pr == kbProps[op.p]
  IN  /\ Free
      /\ kbProps' = IF pr.status = "pending" /\ pr.revision = op.rev
                      THEN [kbProps EXCEPT ![op.p].status = "rejected", ![op.p].proj = "complete",
                                           ![op.p].revision = @ + 1]
                      ELSE kbProps
      /\ kbOp' = [kbOp EXCEPT ![a] = Idle]
      /\ UNCHANGED <<kbFile, kbKnown, kbRevs, kbWikiVars, kbIndexVars, kbLock, kbFaults>>

\* A person decides on a proposal, having seen any revision of it.
KbReview(a, p, rev) ==
  /\ kbOp[a].pc = "idle" /\ Request
  /\ LET op == [Idle EXCEPT !.p = p, !.rev = rev, !.then = "user"]
     IN  Approve(a, op) \/ Reject(a, op)

\* The calls of evaluate_and_apply_policy and undo_auto_apply.
KbApprove(a) == kbOp[a].pc = "approve" /\ Approve(a, kbOp[a]) /\ UNCHANGED kbRequests
KbReject(a)  == kbOp[a].pc = "reject" /\ Reject(a, kbOp[a]) /\ UNCHANGED kbRequests

--------------------
(* The projection, _project, under the lock. *)

\* Only the holder of the lock is in one of its steps, and at the end of the
\* call, whatever ends it, the lock is free.
At(a, pc) == kbOp[a].pc = pc
Goes(a, pc) == kbOp' = [kbOp EXCEPT ![a].pc = pc]
Release == kbLock' = NoActor /\ kbSaved' = NoBackup /\ kbLate' = {}

\* The base is compared again, outside the try: a conflict leaves the proposal
\* approved and not projected.
KbCheckBase(a) ==
  /\ At(a, "project")
  /\ IF BaseHolds(kbOp[a].p)
       THEN Goes(a, "backup") /\ UNCHANGED <<kbSaved, kbLate, kbLock>>
       ELSE kbOp' = [kbOp EXCEPT ![a] = Idle] /\ Release
  /\ UNCHANGED <<kbFile, kbKnown, kbProps, kbRevs, kbWork, kbStage, kbHead, kbIndexVars,
                 kbFaults, kbRequests>>

\* The files are read; they are what index.md and log.md are made from, and
\* what a failure puts back.
KbBackup(a) ==
  /\ At(a, "backup") /\ Goes(a, "write")
  /\ kbSaved' = kbWork
  /\ UNCHANGED <<kbFile, kbKnown, kbProps, kbRevs, kbWork, kbStage, kbHead, kbLate, kbIndexVars,
                 kbLock, kbFaults, kbRequests>>

\* Page, index.md and log.md are written.
KbWrite(a) ==
  LET p == kbOp[a].p
  IN  /\ At(a, "write") /\ Goes(a, "stage")
      /\ kbWork' = [kbWork EXCEPT ![kbProps[p].page] = kbProps[p].body,
                                  ![Log] = [kbSaved[Log] EXCEPT !.cites = @ \cup {p}]]
      /\ UNCHANGED <<kbFile, kbKnown, kbProps, kbRevs, kbStage, kbHead, kbSaved, kbLate,
                     kbIndexVars, kbLock, kbFaults, kbRequests>>

\* git add takes them as they are by then.
KbStage(a) ==
  LET page == kbProps[kbOp[a].p].page
  IN  /\ At(a, "stage") /\ Goes(a, "commit")
      /\ kbStage' = [kbStage EXCEPT ![page] = kbWork[page], ![Log] = kbWork[Log]]
      /\ UNCHANGED <<kbFile, kbKnown, kbProps, kbRevs, kbWork, kbHead, kbSaved, kbLate,
                     kbIndexVars, kbLock, kbFaults, kbRequests>>

\* git commit takes all that is staged.
KbCommit(a) ==
  /\ At(a, "commit") /\ kbStage # kbHead /\ Goes(a, "record")
  /\ kbHead' = kbStage
  /\ UNCHANGED <<kbFile, kbKnown, kbProps, kbRevs, kbWork, kbStage, kbSaved, kbLate, kbIndexVars,
                 kbLock, kbFaults, kbRequests>>

\* sync_revision_safely: the new revision's chunks replace the active ones, or
\* the savepoint keeps the old ones and the revision is marked.
Indexed(page, r, ok) ==
  /\ kbIndex' = [kbIndex EXCEPT ![page] = IF ok THEN r ELSE @]
  /\ kbIndexErr' = IF ok THEN kbIndexErr \ {r} ELSE kbIndexErr \cup {r}

\* _record_projection: revision, page row, proposal and index in one
\* transaction.
KbRecord(a, ok) ==
  LET op == kbOp[a]  pr == kbProps[op.p]
  IN  /\ At(a, "record") /\ KbCurrent(pr.page) = pr.base
      /\ ok \/ kbFaults < MaxFaults
      /\ kbFaults' = IF ok THEN kbFaults ELSE kbFaults + 1
      /\ kbRevs' = Append(kbRevs, [page |-> pr.page, body |-> pr.body, prop |-> op.p])
      /\ kbProps' = [kbProps EXCEPT ![op.p].proj = "complete"]
      /\ Indexed(pr.page, Len(kbRevs) + 1, ok)
      /\ Release
      /\ kbOp' = [kbOp EXCEPT ![a] = Continue(op)]
      /\ UNCHANGED <<kbFile, kbKnown, kbWork, kbStage, kbHead, kbRequests>>

\* A file, git or database call raises, a commit also when nothing is staged:
\* the files are put back, not the git index or HEAD, and the proposal is marked.
KbProjectionFails(a) ==
  LET op == kbOp[a]  page == kbProps[op.p].page
  IN  /\ op.pc \in Projecting \ {"project", "backup"}
      /\ \/ kbFaults < MaxFaults /\ kbFaults' = kbFaults + 1
         \/ op.pc = "commit" /\ kbStage = kbHead /\ UNCHANGED kbFaults
      /\ kbWork' = [kbWork EXCEPT ![page] = kbSaved[page], ![Log] = kbSaved[Log]]
      /\ kbProps' = [kbProps EXCEPT ![op.p].proj = "error"]
      /\ Release
      /\ kbOp' = [kbOp EXCEPT ![a] = Idle]
      /\ UNCHANGED <<kbFile, kbKnown, kbRevs, kbStage, kbHead, kbIndexVars, kbRequests>>

\* The policy's last transaction: applied_page_revision, once.
KbApplied(a) ==
  LET op == kbOp[a]
  IN  /\ op.pc = "applied"
      /\ kbProps' = [kbProps EXCEPT ![op.p].applied =
                       IF @ = 0 THEN KbRevisionOf(op.p) ELSE @]
      /\ kbOp' = [kbOp EXCEPT ![a] =
                    IF op.then = "migrate" THEN [op EXCEPT !.pc = "retire"] ELSE Idle]
      /\ UNCHANGED <<kbFile, kbKnown, kbRevs, kbWikiVars, kbIndexVars, kbLock, kbFaults, kbRequests>>

--------------------
(* Undo and migration. *)

\* undo_auto_apply up to its approve: a rollback to the decision's base, or a
\* retraction when the page did not exist before.
KbUndo(a, p) ==
  LET pr == kbProps[p]  q == Len(kbProps) + 1
  IN  /\ kbOp[a].pc = "idle" /\ Free /\ Request
      /\ pr.action = "auto_apply" /\ pr.applied # 0 /\ pr.undone = 0
      /\ KbCurrent(pr.page) = pr.applied
      /\ kbProps' = Append(kbProps,
           [IF pr.base # 0
              THEN NewProposal("rollback", pr.page, pr.base, kbRevs[pr.base].body, pr.applied, {}, 0)
              ELSE NewProposal("retraction", pr.page, pr.source, Body("tombstone", q, {}),
                               pr.applied, {}, p)
            EXCEPT !.action = "require_review"])
      /\ kbOp' = [kbOp EXCEPT ![a] = [Idle EXCEPT !.pc = "approve", !.p = q, !.then = "undo",
                                                  !.orig = p]]
      /\ UNCHANGED <<kbFile, kbKnown, kbRevs, kbWikiVars, kbIndexVars, kbLock, kbFaults>>

\* The decision is marked undone, unless somebody else has done it.
KbUndone(a) ==
  LET op == kbOp[a]
  IN  /\ op.pc = "undone" /\ Free
      /\ kbProps' = [kbProps EXCEPT ![op.orig].undone = IF @ = 0 THEN op.p ELSE @]
      /\ kbOp' = [kbOp EXCEPT ![a] = Idle]
      /\ UNCHANGED <<kbFile, kbKnown, kbRevs, kbWikiVars, kbIndexVars, kbLock, kbFaults, kbRequests>>

\* _plan_pending_proposal for a pending ingest whose root is configured.
Disposition(p) ==
  CASE kbFile[kbProps[p].page] # kbProps[p].source -> "retire"
    [] kbProps[p].page \in TrustedSources -> "auto_apply"
    [] OTHER -> "review"

\* One auto_apply item of execute_pending_migration: ingest the source again,
\* evaluate, then retire the old proposal unless it was the same.
KbMigrate(a, p) ==
  /\ kbOp[a].pc = "idle" /\ Free /\ Request
  /\ kbProps[p].kind = "ingest" /\ kbProps[p].status = "pending" /\ Disposition(p) = "auto_apply"
  /\ \E q \in 1..Len(kbProps) + 1 :
       /\ Ingested(kbProps[p].page, q)
       /\ kbOp' = [kbOp EXCEPT ![a] = [Idle EXCEPT !.pc = "read", !.p = q, !.then = "migrate",
                                                   !.orig = p]]
  /\ UNCHANGED <<kbFile, kbRevs, kbWikiVars, kbIndexVars, kbLock, kbFaults>>

\* A retire item: the source is gone or has changed.
KbMigrateRetire(a, p) ==
  /\ kbOp[a].pc = "idle" /\ kbProps[p].kind = "ingest" /\ kbProps[p].status = "pending" /\ Request
  /\ Disposition(p) = "retire"
  /\ kbOp' = [kbOp EXCEPT ![a] = [Idle EXCEPT !.pc = "retire", !.orig = p]]
  /\ UNCHANGED <<kbFile, kbKnown, kbProps, kbRevs, kbWikiVars, kbIndexVars, kbLock, kbFaults>>

\* _retire_pending_proposal.
KbRetire(a) ==
  LET op == kbOp[a]
  IN  /\ op.pc = "retire" /\ Free
      /\ kbProps' = IF kbProps[op.orig].status = "pending" /\ op.orig # op.p
                      THEN [kbProps EXCEPT ![op.orig].status = "rejected",
                                           ![op.orig].proj = "complete",
                                           ![op.orig].revision = @ + 1]
                      ELSE kbProps
      /\ kbOp' = [kbOp EXCEPT ![a] = Idle]
      /\ UNCHANGED <<kbFile, kbKnown, kbRevs, kbWikiVars, kbIndexVars, kbLock, kbFaults, kbRequests>>

--------------------
(* The index, and restarts. *)

\* rebuild_index: chunks and index rows are deleted and made again from the
\* recorded revisions.
KbRebuildIndex ==
  /\ Free
  /\ kbIndex' = [page \in Pages |-> KbCurrent(page)] /\ kbIndexErr' = {}
  /\ kbIndexVars' # kbIndexVars
  /\ UNCHANGED <<kbFile, kbKnown, kbProps, kbRevs, kbWikiVars, kbOp, kbLock, kbFaults, kbRequests>>

\* The process dies and starts again: operations and the lock are gone, the
\* wiki is as a projection has left it, and the backfill of initialize indexes
\* what is not ready.
KbCrash ==
  /\ kbFaults < MaxFaults /\ \E a \in Actors : kbOp[a].pc # "idle"
  /\ kbFaults' = kbFaults + 1
  /\ kbOp' = [a \in Actors |-> Idle] /\ Release
  /\ kbIndex' = [page \in Pages |-> IF KbCurrent(page) \in kbIndexErr THEN KbCurrent(page)
                                    ELSE kbIndex[page]]
  /\ kbIndexErr' = {}
  /\ UNCHANGED <<kbFile, kbKnown, kbProps, kbRevs, kbWork, kbStage, kbHead, kbRequests>>

KbActorStep(a) ==
  \/ \E s \in Sources : KbIngest(a, s)
  \/ KbSynthesis(a)
  \/ \E cites \in SUBSET {kbIndex[s] : s \in Sources} : KbLearn(a, cites)
  \/ \E p \in DOMAIN kbProps : KbEvaluate(a, p) \/ KbUndo(a, p) \/ KbMigrate(a, p)
                               \/ KbMigrateRetire(a, p)
  \/ \E p \in DOMAIN kbProps : \E rev \in 0..kbProps[p].revision : KbReview(a, p, rev)
  \/ KbReadDecision(a) \/ KbDecide(a) \/ KbAct(a) \/ KbApprove(a) \/ KbReject(a)
  \/ KbCheckBase(a) \/ KbBackup(a) \/ KbWrite(a) \/ KbStage(a) \/ KbCommit(a)
  \/ KbRecord(a, TRUE) \/ KbRecord(a, FALSE) \/ KbProjectionFails(a)
  \/ KbApplied(a) \/ KbUndone(a) \/ KbRetire(a)

KbNext ==
  \/ \E s \in Sources, r \in SourceRevs : KbSourceChanges(s, r) \/ KbRetractSource(s, r)
  \/ \E f \in Sources \cup {Log} : KbOutsideEdit(f)
  \/ \E r \in DOMAIN kbRevs : KbRollback(r)
  \/ \E a \in Actors : KbActorStep(a)
  \/ KbRebuildIndex
  \/ KbCrash

KbSpec == KbInit /\ [][KbNext]_kbVars

--------------------
(* Properties. *)

\* No lost update: the committed text of a page changes only to the text of an
\* approved proposal, and only from the text its reviewer compared it with, or
\* to an edit that git add has met; through stale approvals, retries, failed
\* projections, crashes and concurrent reviewers (approve, _project,
\* _assert_projection_base).
BaseText(pr) == IF pr.base = 0 THEN InitialWiki[pr.page] ELSE kbRevs[pr.base].body
KbNoLostUpdate ==
  \A page \in Pages : kbHead'[page] # kbHead[page] =>
    \/ kbStage[page].kind = "edit"
    \/ \E p \in DOMAIN kbProps : /\ kbProps[p].page = page /\ kbProps[p].status = "approved"
                                 /\ kbProps[p].body = kbHead'[page]
                                 /\ BaseText(kbProps[p]) = kbHead[page]

\* The store overwrites an edit of a file, or takes it into git, only if it was
\* made after the projection under way had compared the base: _project and
\* _restore never touch one that was there to be seen, and no later projection
\* does (_assert_projection_base).
KbOutsideEditsSurvive ==
  \A f \in Files \ kbLate :
    /\ kbWork[f].kind = "edit" /\ kbWork'[f].kind # "edit" => kbOp' = kbOp
    /\ kbStage'[f].kind = "edit" => kbStage[f].kind = "edit"

\* What was written survives: neither the reviewed text of a page nor an edit
\* made beside the store is lost to a stale, failed or repeated projection that
\* could have seen it.
KbUpdatesSurvive == [][KbNoLostUpdate /\ KbOutsideEditsSurvive]_kbVars

\* Retrieval serves an outdated revision only while the index row of the
\* current one says error (sync_revision_safely, backfill).
KbIndexIsCurrent ==
  \A page \in Pages : kbIndex[page] # KbCurrent(page) => KbCurrent(page) \in kbIndexErr

\* A decision marked undone names a projected proposal made against the
\* revision the decision had applied, with the text the page had before
\* (undo_auto_apply).
KbUndoRestores ==
  \A p \in DOMAIN kbProps : kbProps[p].undone # 0 =>
    LET q == kbProps[kbProps[p].undone]
    IN  /\ Projected(kbProps[p].undone) /\ q.base = kbProps[p].applied
        /\ IF kbProps[p].base = 0 THEN q.body.kind = "tombstone"
           ELSE q.body = kbRevs[kbProps[p].base].body

\* What the store serves and what it has undone are true of its history.
KbStoreHolds == KbIndexIsCurrent /\ KbUndoRestores
====
