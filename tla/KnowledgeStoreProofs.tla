---- MODULE KnowledgeStoreProofs ----
(* Proofs about the knowledge store, for every set of sources, of their
   versions and of concurrent operations, and for every number of requests
   and of faults.

   A projection compares the base of its proposal with the page once and
   then writes four things, a step each: the work tree, the index of git,
   the commit and the tables of the store.  KbNoLostUpdate is therefore
   not visible from the step that commits.  KbInv carries to it what the
   holder of the lock has seen (KbSees), files edited since then excepted,
   and that what a projection, or a failed or crashed one before it, has
   left staged is an edit or the text of an approved proposal for the text
   that is committed (KbStageHolds): a commit takes all of it along.

   KbUndoRestores relates two proposals and two revisions.  KbOpFits
   records for an undo in progress that its new proposal has the text of
   the base of the one it undoes (KbUndoes), from the request on; KbGrows
   is what every step leaves of the two tables, so that this stays true. *)
EXTENDS KnowledgeStore, SequenceTheorems, WellFoundedInduction, TLAPS

KbCount == Len(kbProps)
KbAges == 0..Len(kbRevs)

(* The proposal q undoes what p had applied. *)
KbUndoes(q, p) ==
  /\ q \in 1..KbCount /\ p \in 1..KbCount /\ kbProps[p].applied # 0
  /\ kbProps[q].base = kbProps[p].applied
  /\ IF kbProps[p].base = 0 THEN kbProps[q].body.kind = "tombstone"
     ELSE kbProps[q].body = kbRevs[kbProps[p].base].body

(* A proposal names revisions there are, has a text of its own, and is
   recorded once it has been projected. *)
KbText(body) == body.kind \notin {"absent", "initial", "edit"}
KbRowHolds(p) ==
  /\ kbProps[p].base \in KbAges /\ kbProps[p].applied \in KbAges
  /\ KbText(kbProps[p].body)
  /\ kbProps[p].kind = "synthesis" => kbProps[p].page = "overview"
  /\ Projected(p) => \E r \in 1..Len(kbRevs) : kbRevs[r].prop = p
  /\ kbProps[p].undone # 0 => KbUndoes(kbProps[p].undone, p) /\ Projected(kbProps[p].undone)

(* What an operation has in hand at each of its points. *)
KbOpFits(op) ==
  /\ op.pc \notin {"idle", "retire"} => op.p \in 1..KbCount
  /\ op.pc = "retire" \/ op.then = "migrate" => op.orig \in 1..KbCount
  /\ op.pc \in {"applied", "undone"} => Projected(op.p)
  /\ op.pc = "undone" => op.then = "undo"
  /\ op.then = "undo" => KbUndoes(op.p, op.orig)
KbOpHolds(a) == KbOpFits(kbOp[a]) /\ (kbOp[a].pc \in Projecting => kbLock = a)

(* The overview is there, and a first one has the first text. *)
KbKept(body) ==
  body.kind # "absent" /\ (body.kind = "initial" => body = Body("initial", 0, {}))

(* What the projection of p knows at a step: since it compared the base git
   has the text compared, and the files are as it has left them, but for
   those edited since. *)
KbSees(p, pc) ==
  LET page == kbProps[p].page IN
  /\ pc \in {"backup", "write", "stage"} =>
       /\ kbStage[page] = kbHead[page] /\ kbStage[Log] = kbHead[Log]
       /\ BaseText(kbProps[p]) = kbHead[page]
  /\ pc \in {"backup", "write"} =>
       /\ page \notin kbLate => kbWork[page] = kbHead[page]
       /\ Log \notin kbLate => kbWork[Log] = kbHead[Log]
  /\ pc = "write" => /\ page \notin kbLate => kbSaved[page] = kbHead[page]
                     /\ Log \notin kbLate => kbSaved[Log] = kbHead[Log]
  /\ pc \in {"stage", "commit", "record"} =>
       /\ page \notin kbLate => kbWork[page] = kbProps[p].body
       /\ Log \notin kbLate => kbWork[Log].kind = kbSaved[Log].kind
  /\ pc = "stage" =>
       /\ Log \notin kbLate => kbSaved[Log].kind = kbHead[Log].kind
       /\ \/ kbWork[page].kind = "edit" \/ kbWork[page] = kbProps[p].body
          \/ kbWork[page] = kbHead[page]
  /\ pc \notin {"project", "backup"} => KbKept(kbSaved["overview"])

(* Whoever has the lock projects an approved proposal. *)
KbLockHolds ==
  kbLock # NoActor =>
    /\ kbOp[kbLock].pc \in Projecting
    /\ kbProps[kbOp[kbLock].p].status = "approved" /\ kbProps[kbOp[kbLock].p].proj # "complete"
    /\ KbSees(kbOp[kbLock].p, kbOp[kbLock].pc)

(* What is staged is committed, an edit, or the text of an approved proposal
   for the committed one: a failed projection has left it there. *)
KbReplaces(p, page, old, new) ==
  /\ kbProps[p].page = page /\ kbProps[p].status = "approved"
  /\ kbProps[p].body = new /\ BaseText(kbProps[p]) = old
KbStaged(page) ==
  \/ kbStage[page] = kbHead[page] \/ kbStage[page].kind = "edit"
  \/ \E p \in 1..KbCount : KbReplaces(p, page, kbHead[page], kbStage[page])
KbStageHolds == \A page \in Pages : KbStaged(page)

KbWikiHolds == KbKept(kbWork["overview"]) /\ KbKept(kbStage["overview"]) /\ KbKept(kbHead["overview"])

KbRevsHold ==
  \A r \in 1..Len(kbRevs) : KbText(kbRevs[r].body) /\ kbRevs[r].prop \in 1..KbCount

KbInv ==
  /\ KbTypeOK /\ KbRevsHold
  /\ \A p \in 1..KbCount : KbRowHolds(p)
  /\ \A a \in Actors : KbOpHolds(a)
  /\ KbLockHolds /\ KbStageHolds /\ KbWikiHolds
  /\ KbIndexIsCurrent

\* The tables as sequences.
LEMMA KbTables ==
  ASSUME KbTypeOK
  PROVE  /\ kbProps \in Seq(Proposal) /\ KbCount \in Nat /\ DOMAIN kbProps = 1..KbCount
         /\ kbRevs \in Seq([page: Pages, body: Content, prop: Nat]) /\ Len(kbRevs) \in Nat
         /\ DOMAIN kbRevs = 1..Len(kbRevs)
         /\ \A p \in 1..KbCount : kbProps[p] \in Proposal
         /\ \A r \in 1..Len(kbRevs) : kbRevs[r] \in [page: Pages, body: Content, prop: Nat]
<1>1. PICK S : S = Proposal OBVIOUS
<1>2. PICK R : R = [page: Pages, body: Content, prop: Nat] OBVIOUS
<1>3. kbProps \in Seq(S) /\ kbRevs \in Seq(R) BY <1>1, <1>2 DEF KbTypeOK
<1>4. /\ KbCount \in Nat /\ DOMAIN kbProps = 1..KbCount
      /\ \A p \in 1..KbCount : kbProps[p] \in S BY <1>3 DEF KbCount
<1>5. /\ Len(kbRevs) \in Nat /\ DOMAIN kbRevs = 1..Len(kbRevs)
      /\ \A r \in 1..Len(kbRevs) : kbRevs[r] \in R BY <1>3
<1> QED BY <1>1, <1>2, <1>3, <1>4, <1>5

\* A set of naturals has a least one.
LEMMA KbLeast ==
  ASSUME NEW T \in SUBSET Nat, T # {}
  PROVE  \E m \in T : \A x \in T : m <= x
<1>1. PICK R : R = OpToRel(<, Nat) OBVIOUS
<1>2. IsWellFoundedOn(R, Nat) BY <1>1, NatLessThanWellFounded
<1>3. PICK m \in T : \A y \in T : ~(<<y, m>> \in R) BY <1>2, WFMin
<1>4. ASSUME NEW x \in Nat, NEW y \in Nat, x < y PROVE <<x, y>> \in R BY <1>1, <1>4 DEF OpToRel
<1>5. ASSUME NEW x \in T PROVE m <= x
 <2>1. ~(x < m) BY <1>3, <1>4
 <2> QED BY <2>1
<1> QED BY <1>5

\* A bounded set of naturals has a largest one.
LEMMA KbLargest ==
  ASSUME NEW n \in Nat, NEW S \in SUBSET (0..n), S # {}
  PROVE  \E m \in S : \A x \in S : x <= m
<1>0. \A x \in S : n - x \in Nat OBVIOUS
<1>1. PICK T : T = {n - x : x \in S} OBVIOUS
<1>2. T \in SUBSET Nat /\ T # {} BY <1>0, <1>1
<1>3. PICK k \in T : \A j \in T : k <= j BY <1>2, KbLeast
<1>4. PICK m \in S : k = n - m BY <1>1, <1>3
<1>5. ASSUME NEW x \in S PROVE x <= m
 <2>1. n - x \in T BY <1>1
 <2>2. n - m <= n - x BY <1>3, <1>4, <2>1
 <2>3. n \in Nat /\ x \in Nat /\ m \in Nat OBVIOUS
 <2> QED BY <2>2, <2>3
<1> QED BY <1>5

\* The current revision is the newest one of the page, if it has any.
LEMMA KbCurrentIsNewest ==
  ASSUME KbTypeOK, NEW page \in Pages
  PROVE  /\ KbCurrent(page) \in KbAges
         /\ KbCurrent(page) = 0 => \A r \in 1..Len(kbRevs) : kbRevs[r].page # page
         /\ KbCurrent(page) # 0 => /\ kbRevs[KbCurrent(page)].page = page
                                   /\ \A r \in 1..Len(kbRevs) : kbRevs[r].page = page => r <= KbCurrent(page)
<1>0. DOMAIN kbRevs = 1..Len(kbRevs) /\ Len(kbRevs) \in Nat BY KbTables
<1>1. PICK mine : mine = {r \in DOMAIN kbRevs : kbRevs[r].page = page} OBVIOUS
<1>2. CASE mine = {} BY <1>0, <1>1, <1>2 DEF KbCurrent, KbAges
<1>3. CASE mine # {}
 <2>1. PICK c : c = CHOOSE r \in mine : \A q \in mine : q <= r OBVIOUS
 <2>2. \E r \in mine : \A q \in mine : q <= r
  <3>1. mine \in SUBSET (0..Len(kbRevs)) /\ Len(kbRevs) \in Nat BY <1>0, <1>1
  <3> QED BY <1>3, <3>1, KbLargest
 <2>3. c \in mine /\ \A q \in mine : q <= c BY <2>1, <2>2
 <2>4. KbCurrent(page) = c BY <1>1, <1>3, <2>1 DEF KbCurrent
 <2>5. c \in 1..Len(kbRevs) /\ c # 0 /\ c \in KbAges BY <1>0, <1>1, <2>3 DEF KbAges
 <2> QED BY <1>0, <1>1, <2>3, <2>4, <2>5
<1> QED BY <1>2, <1>3

\* A recorded revision is the current one of its page, and of no other.
LEMMA KbCurrentAfter ==
  ASSUME KbTypeOK, NEW row \in [page: Pages, body: Content, prop: Nat],
         kbRevs' = Append(kbRevs, row)
  PROVE  /\ Len(kbRevs') = Len(kbRevs) + 1 /\ kbRevs'[Len(kbRevs) + 1] = row
         /\ \A r \in 1..Len(kbRevs) : kbRevs'[r] = kbRevs[r]
         /\ kbRevs' \in Seq([page: Pages, body: Content, prop: Nat])
         /\ KbCurrent(row.page)' = Len(kbRevs) + 1
         /\ \A page \in Pages : page # row.page => KbCurrent(page)' = KbCurrent(page)
<1>0. DOMAIN kbRevs = 1..Len(kbRevs) /\ Len(kbRevs) \in Nat /\ kbRevs \in Seq([page: Pages, body: Content, prop: Nat])
  BY KbTables
<1>1. PICK n : n = Len(kbRevs) + 1 OBVIOUS
<1>2. /\ Len(kbRevs') = n /\ kbRevs'[n] = row /\ DOMAIN kbRevs' = 1..n /\ n \in Nat
      /\ \A r \in 1..Len(kbRevs) : kbRevs'[r] = kbRevs[r]
      /\ kbRevs' \in Seq([page: Pages, body: Content, prop: Nat]) BY <1>0, <1>1
<1>3. \A r \in 1..n : r = n \/ r \in 1..Len(kbRevs) BY <1>0, <1>1
<1>4. \A r \in 1..Len(kbRevs) : r \in 1..n /\ r <= n /\ r # n BY <1>0, <1>1
<1>5. n \in 1..n /\ n <= n BY <1>0, <1>1
<1>7. KbCurrent(row.page)' = n
 <2>1. PICK mine : mine = {r \in DOMAIN kbRevs' : kbRevs'[r].page = row.page} OBVIOUS
 <2>2. n \in mine /\ \A q \in mine : q <= n BY <1>2, <1>3, <1>4, <1>5, <2>1
 <2>3. \A r \in mine : (\A q \in mine : q <= r) => r = n
  <3>1. \A r \in mine : r \in 1..n BY <1>2, <2>1
  <3> QED BY <1>2, <2>2, <3>1
 <2>4. (CHOOSE r \in mine : \A q \in mine : q <= r) = n BY <2>2, <2>3
 <2> QED BY <2>1, <2>2, <2>4 DEF KbCurrent
<1>8. ASSUME NEW page \in Pages, page # row.page
      PROVE  KbCurrent(page)' = KbCurrent(page)
 <2>1. PICK mine : mine = {r \in DOMAIN kbRevs : kbRevs[r].page = page} OBVIOUS
 <2>0. PICK after : after = {r \in DOMAIN kbRevs' : kbRevs'[r].page = page} OBVIOUS
 <2>2. after = mine BY <1>0, <1>2, <1>3, <1>4, <1>8, <2>0, <2>1
 <2>5. KbCurrent(page)' = IF after = {} THEN 0 ELSE CHOOSE r \in after : \A q \in after : q <= r
   BY <2>0 DEF KbCurrent
 <2>3. KbCurrent(page)' = IF mine = {} THEN 0 ELSE CHOOSE r \in mine : \A q \in mine : q <= r
   BY <2>2, <2>5
 <2>4. KbCurrent(page) = IF mine = {} THEN 0 ELSE CHOOSE r \in mine : \A q \in mine : q <= r
   BY <2>1 DEF KbCurrent
 <2> QED BY <2>3, <2>4
<1> QED BY <1>1, <1>2, <1>7, <1>8

(* What no step takes back: proposals stay what they are, approved,
   projected and applied, and recorded revisions stay. *)
KbKeepsRow(p) ==
  /\ kbProps'[p].kind = kbProps[p].kind /\ kbProps'[p].page = kbProps[p].page
  /\ kbProps'[p].body = kbProps[p].body /\ kbProps'[p].base = kbProps[p].base
  /\ kbProps[p].status = "approved" => kbProps'[p].status = "approved"
  /\ Projected(p) => kbProps'[p].proj = "complete"
  /\ kbProps[p].applied # 0 => kbProps'[p].applied = kbProps[p].applied
KbGrows ==
  /\ KbCount <= KbCount' /\ Len(kbRevs) <= Len(kbRevs')
  /\ \A r \in 1..Len(kbRevs) : kbRevs'[r] = kbRevs[r]
  /\ \A p \in 1..KbCount : KbKeepsRow(p)

\* Both tables have a length before and after.
LEMMA KbStayed ==
  ASSUME KbTypeOK, KbTypeOK'
  PROVE  /\ KbCount \in Nat /\ Len(kbRevs) \in Nat
         /\ KbCount' \in Nat /\ Len(kbRevs') \in Nat
<1>a. /\ KbCount \in Nat /\ Len(kbRevs) \in Nat BY KbTables
<1>b. /\ KbCount' \in Nat /\ Len(kbRevs') \in Nat
 <2>1. KbTypeOK' OBVIOUS
 <2>2. PICK S : S = Proposal OBVIOUS
 <2>3. PICK R : R = [page: Pages, body: Content, prop: Nat] OBVIOUS
 <2>4. kbProps' \in Seq(S) /\ kbRevs' \in Seq(R) BY <2>1, <2>2, <2>3 DEF KbTypeOK, Proposal, Content
 <2> QED BY <2>4 DEF KbCount
<1> QED BY <1>a, <1>b

\* What holds of them goes on holding.
LEMMA KbStays ==
  ASSUME KbInv, KbTypeOK', KbGrows
  PROVE  /\ \A p \in 1..KbCount : p \in 1..KbCount' /\ (Projected(p) => Projected(p)')
         /\ KbAges \subseteq KbAges'
         /\ \A p \in 1..KbCount : BaseText(kbProps[p])' = BaseText(kbProps[p])
         /\ \A p, q : KbUndoes(q, p) => KbUndoes(q, p)'
<1>a. /\ KbCount \in Nat /\ Len(kbRevs) \in Nat
      /\ KbCount' \in Nat /\ Len(kbRevs') \in Nat BY KbStayed DEF KbInv
<1>c. /\ \A p \in 1..KbCount : KbRowHolds(p) /\ KbKeepsRow(p)
      /\ \A r \in 1..Len(kbRevs) : kbRevs'[r] = kbRevs[r]
      /\ KbCount <= KbCount' /\ Len(kbRevs) <= Len(kbRevs') BY DEF KbInv, KbGrows
<1>0. /\ KbCount \in Nat /\ KbCount' \in Nat /\ Len(kbRevs) \in Nat /\ Len(kbRevs') \in Nat
      /\ \A p \in 1..KbCount : KbRowHolds(p) /\ KbKeepsRow(p)
      /\ \A r \in 1..Len(kbRevs) : kbRevs'[r] = kbRevs[r]
      /\ KbCount <= KbCount' /\ Len(kbRevs) <= Len(kbRevs') BY <1>a, <1>c
<1>1. \A p \in 1..KbCount : p \in 1..KbCount' /\ (Projected(p) => Projected(p)')
  BY <1>0 DEF KbKeepsRow, Projected
<1>2. KbAges \subseteq KbAges' BY <1>0 DEF KbAges
<1>3. \A p \in 1..KbCount : kbProps[p].base # 0 => kbRevs'[kbProps[p].base] = kbRevs[kbProps[p].base]
  BY <1>0 DEF KbRowHolds, KbAges
<1>4. ASSUME NEW p \in 1..KbCount
      PROVE  BaseText(kbProps[p])' = BaseText(kbProps[p])
 <2>1. kbProps'[p].base = kbProps[p].base /\ kbProps'[p].page = kbProps[p].page
   BY <1>0 DEF KbKeepsRow
 <2> QED BY <1>3, <2>1 DEF BaseText
<1>5. ASSUME NEW p, NEW q, KbUndoes(q, p)
      PROVE  KbUndoes(q, p)'
 <2>1. q \in 1..KbCount /\ p \in 1..KbCount BY <1>5 DEF KbUndoes
 <2>2. KbKeepsRow(p) /\ KbKeepsRow(q) /\ q \in 1..KbCount' /\ p \in 1..KbCount' BY <1>0, <1>1, <2>1
 <2> QED BY <1>3, <1>5, <2>1, <2>2 DEF KbUndoes, KbKeepsRow
<1> QED BY <1>1, <1>2, <1>4, <1>5

\* A proposal goes on holding when it is projected, applied and undone as it
\* may be.
LEMMA KbRowStays ==
  ASSUME KbInv, KbTypeOK', KbGrows, NEW p \in 1..KbCount,
         kbProps'[p].applied \in KbAges',
         Projected(p)' => Projected(p) \/ \E r \in 1..Len(kbRevs') : kbRevs'[r].prop = p,
         kbProps'[p].undone = kbProps[p].undone \/ (KbUndoes(kbProps[p].undone, p) /\ Projected(kbProps[p].undone))'
  PROVE  KbRowHolds(p)'
<1>1. KbRowHolds(p) /\ KbKeepsRow(p) BY DEF KbInv, KbGrows
<1>2. KbAges \subseteq KbAges' /\ (\A q \in 1..KbCount : Projected(q) => Projected(q)')
      /\ \A q : KbUndoes(q, p) => KbUndoes(q, p)' BY KbStays
<1>3. Projected(p)' => \E r \in 1..Len(kbRevs') : kbRevs'[r].prop = p
 <2>1. SUFFICES ASSUME Projected(p) PROVE \E r \in 1..Len(kbRevs') : kbRevs'[r].prop = p OBVIOUS
 <2>2. PICK r \in 1..Len(kbRevs) : kbRevs[r].prop = p BY <1>1, <2>1 DEF KbRowHolds
 <2>3. kbRevs'[r] = kbRevs[r] /\ Len(kbRevs) <= Len(kbRevs') BY DEF KbGrows
 <2>4. Len(kbRevs) \in Nat /\ Len(kbRevs)' \in Nat BY KbStayed
 <2>5. r \in 1..Len(kbRevs') BY <2>3, <2>4
 <2> QED BY <2>2, <2>3, <2>5
<1>4. kbProps'[p].undone # 0 => KbUndoes(kbProps[p].undone, p)' /\ Projected(kbProps[p].undone)'
 <2>1. CASE kbProps'[p].undone = kbProps[p].undone
  <3>1. kbProps[p].undone # 0 => KbUndoes(kbProps[p].undone, p) /\ Projected(kbProps[p].undone)
    BY <1>1 DEF KbRowHolds
  <3>2. PICK q : q = kbProps[p].undone OBVIOUS
  <3>3. q # 0 => q \in 1..KbCount BY <3>1, <3>2 DEF KbUndoes
  <3>4. q # 0 => KbUndoes(q, p)' /\ Projected(q)' BY <1>2, <3>1, <3>2, <3>3
  <3>5. kbProps'[p].undone = q BY <2>1, <3>2
  <3> QED BY <3>4, <3>5 DEF KbUndoes, Projected
 <2> QED BY <2>1
<1>5. kbProps'[p].base \in KbAges' /\ KbText(kbProps'[p].body)
      /\ (kbProps'[p].kind = "synthesis" => kbProps'[p].page = "overview")
  BY <1>1, <1>2 DEF KbKeepsRow, KbRowHolds
<1> QED BY <1>3, <1>4, <1>5 DEF KbRowHolds

\* What an operation has in hand goes on being true.
LEMMA KbFitsStays ==
  ASSUME KbInv, KbTypeOK', KbGrows, NEW op, KbOpFits(op)
  PROVE  KbOpFits(op)'
<1>1. /\ \A q \in 1..KbCount : q \in 1..KbCount' /\ (Projected(q) => Projected(q)')
      /\ \A p, q : KbUndoes(q, p) => KbUndoes(q, p)' BY KbStays
<1>2. op.pc \notin {"idle", "retire"} => op.p \in 1..KbCount /\ op.p \in 1..KbCount'
  BY <1>1 DEF KbOpFits
<1>3. op.pc \in {"applied", "undone"} => Projected(op.p)' BY <1>1, <1>2 DEF KbOpFits
<1>4. op.then = "undo" => KbUndoes(op.p, op.orig)' BY <1>1 DEF KbOpFits
<1>5. op.pc = "retire" \/ op.then = "migrate" => op.orig \in 1..KbCount' BY <1>1 DEF KbOpFits
<1> QED BY <1>2, <1>3, <1>4, <1>5 DEF KbOpFits

\* An operation that a step leaves alone keeps what it has in hand, whatever
\* rows and revisions the step adds.
LEMMA KbOpStays ==
  ASSUME KbInv, KbTypeOK', KbGrows, NEW a \in Actors, kbOp'[a] = kbOp[a],
         kbOp[a].pc \in Projecting => kbLock' = a
  PROVE  KbOpHolds(a)'
<1>1. PICK op : op = kbOp[a] OBVIOUS
<1>2. KbOpFits(op) BY <1>1 DEF KbInv, KbOpHolds
<1>3. KbOpFits(op)' BY <1>2, KbFitsStays
<1>4. kbOp'[a] = op BY <1>1
<1>5. KbOpFits(kbOp[a])' BY <1>3, <1>4 DEF KbOpFits, KbUndoes, Projected
<1> QED BY <1>5 DEF KbOpHolds

(* The wiki, its history and the index are left alone. *)
KbQuiet == UNCHANGED <<kbRevs, kbWork, kbStage, kbHead, kbSaved, kbLate, kbIndex, kbIndexErr>>

\* A step that leaves them alone and keeps the proposals keeps what is true of
\* them.
LEMMA KbQuietHolds ==
  ASSUME KbInv, KbTypeOK', KbGrows, KbQuiet
  PROVE  KbRevsHold' /\ KbStageHolds' /\ KbWikiHolds' /\ KbIndexIsCurrent'
<1>0. /\ \A p \in 1..KbCount : p \in 1..KbCount'
      /\ \A p \in 1..KbCount : BaseText(kbProps[p])' = BaseText(kbProps[p]) BY KbStays
<1>1. KbWikiHolds' BY DEF KbInv, KbQuiet, KbWikiHolds
<1>2. KbRevsHold' BY <1>0 DEF KbInv, KbQuiet, KbRevsHold
<1>3. KbIndexIsCurrent'
 <2>1. \A page \in Pages : KbCurrent(page)' = KbCurrent(page) BY DEF KbQuiet, KbCurrent
 <2> QED BY <2>1 DEF KbInv, KbQuiet, KbIndexIsCurrent
<1>4. KbStageHolds'
 <2> SUFFICES ASSUME NEW page \in Pages PROVE KbStaged(page)' BY DEF KbStageHolds
 <2>1. KbStaged(page) /\ kbStage' = kbStage /\ kbHead' = kbHead
   BY DEF KbInv, KbStageHolds, KbQuiet
 <2>2. ASSUME NEW p \in 1..KbCount, KbReplaces(p, page, kbHead[page], kbStage[page])
       PROVE  KbReplaces(p, page, kbHead[page], kbStage[page])'
  <3>1. KbKeepsRow(p) BY DEF KbGrows
  <3> QED BY <1>0, <2>1, <2>2, <3>1 DEF KbReplaces, KbKeepsRow
 <2> QED BY <1>0, <2>1, <2>2 DEF KbStaged
<1> QED BY <1>1, <1>2, <1>3, <1>4

\* What the projection of a row that is kept sees.
LEMMA KbSeesStays ==
  ASSUME KbInv, KbTypeOK', KbGrows, KbQuiet, NEW p \in 1..KbCount, NEW pc, KbSees(p, pc)
  PROVE  KbSees(p, pc)'
<1>1. BaseText(kbProps[p])' = BaseText(kbProps[p]) /\ KbKeepsRow(p) BY KbStays DEF KbGrows
<1> QED BY <1>1 DEF KbSees, KbKeepsRow, KbQuiet

\* The holder's view, named by its proposal and its step.
LEMMA KbSeesOfHolder ==
  ASSUME NEW p, NEW pc, KbSees(p, pc)', kbOp'[kbLock'].p = p, kbOp'[kbLock'].pc = pc
  PROVE  KbSees(kbOp[kbLock].p, kbOp[kbLock].pc)'
BY DEF KbSees, BaseText

\* Whoever has the lock keeps what it needs while others step.
LEMMA KbLockStays ==
  ASSUME KbInv, KbTypeOK', KbGrows, KbQuiet, kbLock' = kbLock,
         kbLock # NoActor => /\ kbOp'[kbLock] = kbOp[kbLock]
                             /\ kbProps'[kbOp[kbLock].p].proj = kbProps[kbOp[kbLock].p].proj
  PROVE  KbLockHolds'
<1>1. CASE kbLock = NoActor BY <1>1 DEF KbLockHolds
<1>2. CASE kbLock # NoActor
 <2>1. kbLock \in Actors BY <1>2 DEF KbInv, KbTypeOK
 <2>2. PICK p : p = kbOp[kbLock].p OBVIOUS
 <2>a. PICK pc : pc = kbOp[kbLock].pc OBVIOUS
 <2>3. /\ pc \in Projecting /\ KbSees(p, pc)
       /\ kbProps[p].status = "approved" /\ kbProps[p].proj # "complete"
   BY <1>2, <2>2, <2>a DEF KbInv, KbLockHolds
 <2>4. p \in 1..KbCount BY <2>1, <2>2, <2>3, <2>a DEF KbInv, KbOpHolds, KbOpFits, Projecting
 <2>5. KbKeepsRow(p) /\ kbProps'[p].proj = kbProps[p].proj BY <1>2, <2>2, <2>4 DEF KbGrows
 <2>7. KbSees(p, pc)' BY <2>3, <2>4, KbSeesStays
 <2>8. kbOp'[kbLock'].pc = pc /\ kbOp'[kbLock'].p = p BY <1>2, <2>2, <2>a
 <2>9. kbProps'[p].status = "approved" /\ kbProps'[p].proj # "complete" BY <2>3, <2>5 DEF KbKeepsRow
 <2>10. KbSees(kbOp[kbLock].p, kbOp[kbLock].pc)' BY <2>7, <2>8, KbSeesOfHolder
 <2> QED BY <2>3, <2>8, <2>9, <2>10 DEF KbLockHolds
<1> QED BY <1>1, <1>2

\* A new proposal is the last row, and the others stay.
LEMMA KbAppended ==
  ASSUME KbInv, NEW new \in Proposal, kbProps' = Append(kbProps, new), kbRevs' = kbRevs
  PROVE  /\ kbProps' \in Seq(Proposal) /\ KbCount' = KbCount + 1 /\ KbCount \in Nat
         /\ kbProps'[KbCount + 1] = new /\ KbGrows
         /\ \A p \in 1..KbCount : kbProps'[p] = kbProps[p] /\ p \in 1..KbCount'
         /\ KbCount + 1 \in 1..KbCount' /\ \A p \in 1..KbCount' : p \in 1..KbCount \/ p = KbCount + 1
<1>1. PICK S : S = Proposal OBVIOUS
<1>2. kbProps \in Seq(S) /\ new \in S /\ KbCount \in Nat BY <1>1, KbTables DEF KbInv, KbTypeOK
<1>3. /\ kbProps' \in Seq(S) /\ KbCount' = KbCount + 1 /\ kbProps'[KbCount + 1] = new
      /\ \A p \in 1..KbCount : kbProps'[p] = kbProps[p] BY <1>2 DEF KbCount
<1>4. /\ \A p \in 1..KbCount : p \in 1..KbCount'
      /\ KbCount + 1 \in 1..KbCount' /\ \A p \in 1..KbCount' : p \in 1..KbCount \/ p = KbCount + 1
  BY <1>2, <1>3
<1>5. KbGrows
 <2>1. \A p \in 1..KbCount : KbKeepsRow(p) BY <1>3 DEF KbKeepsRow, Projected
 <2>2. KbCount <= KbCount' /\ Len(kbRevs) <= Len(kbRevs') BY <1>2, <1>3, KbTables DEF KbInv
 <2> QED BY <2>1, <2>2 DEF KbGrows
<1> QED BY <1>1, <1>2, <1>3, <1>4, <1>5

\* A changed row leaves the others as they are.
LEMMA KbChanged ==
  ASSUME KbInv, NEW p \in 1..KbCount, NEW new \in Proposal, kbProps' = [kbProps EXCEPT ![p] = new]
  PROVE  /\ kbProps' \in Seq(Proposal) /\ KbCount' = KbCount /\ KbCount \in Nat
         /\ kbProps'[p] = new /\ \A q \in 1..KbCount : q # p => kbProps'[q] = kbProps[q]
<1>1. PICK S : S = Proposal OBVIOUS
<1>2. kbProps \in Seq(S) /\ new \in S /\ KbCount \in Nat /\ DOMAIN kbProps = 1..KbCount
  BY <1>1, KbTables DEF KbInv, KbTypeOK
<1>3. kbProps' \in Seq(S) /\ KbCount' = KbCount BY <1>2 DEF KbCount
<1>4. kbProps'[p] = new /\ \A q \in 1..KbCount : q # p => kbProps'[q] = kbProps[q] BY <1>2
<1> QED BY <1>1, <1>2, <1>3, <1>4

\* A step beside the wiki keeps the invariant when the proposals and the
\* operations it changes hold, and the holder of the lock is left alone.
LEMMA KbStep ==
  ASSUME KbInv, KbTypeOK', KbGrows, KbQuiet, kbLock' = kbLock,
         kbLock # NoActor => /\ kbOp'[kbLock] = kbOp[kbLock]
                             /\ kbProps'[kbOp[kbLock].p].proj = kbProps[kbOp[kbLock].p].proj,
         \A p \in 1..KbCount' : (p \in 1..KbCount /\ kbProps'[p] = kbProps[p]) \/ KbRowHolds(p)',
         \A a \in Actors : kbOp'[a] = kbOp[a] \/ KbOpHolds(a)'
  PROVE  KbInv'
<1>1. KbRevsHold' /\ KbStageHolds' /\ KbWikiHolds' /\ KbIndexIsCurrent' BY KbQuietHolds
<1>2. KbLockHolds' BY KbLockStays
<1>3. ASSUME NEW a \in Actors PROVE KbOpHolds(a)'
 <2>1. CASE kbOp'[a] = kbOp[a]
  <3>1. kbOp[a].pc \in Projecting => kbLock' = a BY DEF KbInv, KbOpHolds
  <3> QED BY <2>1, <3>1, KbOpStays
 <2> QED BY <2>1
<1>4. ASSUME NEW p \in 1..KbCount' PROVE KbRowHolds(p)'
 <2>1. CASE p \in 1..KbCount /\ kbProps'[p] = kbProps[p]
  <3>1. KbAges \subseteq KbAges' BY KbStays
  <3>2. kbProps'[p].applied \in KbAges' BY <2>1, <3>1 DEF KbInv, KbRowHolds
  <3>3. (Projected(p)' => Projected(p)) /\ kbProps'[p].undone = kbProps[p].undone
    BY <2>1 DEF Projected
  <3> QED BY <2>1, <3>2, <3>3, KbRowStays
 <2> QED BY <2>1
<1> QED BY <1>1, <1>2, <1>3, <1>4 DEF KbInv

\* Types of a step beside the wiki.
LEMMA KbQuietTyped ==
  ASSUME KbInv, KbQuiet, kbProps' \in Seq(Proposal), kbOp' \in [Actors -> Ops],
         kbFile' \in [Sources -> SourceRevs], kbKnown' \in [Sources -> SourceRevs \cup {0}],
         kbRequests' \in 0..MaxRequests, kbLock' = kbLock, kbFaults' = kbFaults
  PROVE  KbTypeOK'
<1> KbTypeOK BY DEF KbInv
<1>1. kbRevs' \in Seq([page: Pages, body: Content, prop: Nat]) BY DEF KbTypeOK, KbQuiet
<1>2. /\ kbWork' \in [Files -> Content] /\ kbStage' \in [Files -> Content] /\ kbHead' \in [Files -> Content]
      /\ kbSaved' \in [Files -> Content] /\ kbLate' \subseteq Files
      /\ kbIndex' \in [Pages -> Nat] /\ kbIndexErr' \subseteq Nat
      /\ kbLock' \in Actors \cup {NoActor} /\ kbFaults' \in 0..MaxFaults BY DEF KbTypeOK, KbQuiet
<1> QED BY <1>1, <1>2 DEF KbTypeOK

\* An operation moves on by itself.
LEMMA KbOpStep ==
  ASSUME KbInv, KbQuiet, UNCHANGED <<kbFile, kbKnown, kbProps, kbLock, kbFaults>>,
         kbRequests' \in 0..MaxRequests,
         NEW a \in Actors, NEW op \in Ops, op.pc \notin Projecting, KbOpFits(op),
         kbOp[a].pc \notin Projecting, kbOp' = [kbOp EXCEPT ![a] = op]
  PROVE  KbInv'
<1>0. KbTypeOK /\ KbLockHolds BY DEF KbInv
<1>1. KbTypeOK' BY <1>0, KbQuietTyped DEF KbTypeOK
<1>2. KbGrows /\ KbCount' = KbCount
  BY KbTables, <1>0 DEF KbGrows, KbKeepsRow, KbQuiet, Projected, KbCount
<1>3. kbLock # NoActor => kbLock # a /\ kbOp'[kbLock] = kbOp[kbLock]
  BY <1>0 DEF KbLockHolds, KbTypeOK
<1>4. \A b \in Actors : kbOp'[b] = kbOp[b] \/ KbOpHolds(b)'
 <2>1. kbOp'[a] = op BY <1>0 DEF KbTypeOK
 <2>2. KbOpFits(op)' BY <1>1, <1>2, KbFitsStays
 <2>3. KbOpFits(kbOp[a])' BY <2>1, <2>2 DEF KbOpFits, KbUndoes, Projected
 <2>4. KbOpHolds(a)' BY <2>1, <2>3 DEF KbOpHolds
 <2> QED BY <1>0, <2>4 DEF KbTypeOK
<1>5. \A p \in 1..KbCount' : p \in 1..KbCount /\ kbProps'[p] = kbProps[p] BY <1>2
<1> QED BY <1>1, <1>2, <1>3, <1>4, <1>5, KbStep

\* A proposal is made.
LEMMA KbAppendStep ==
  ASSUME KbInv, KbQuiet, Free, NEW new \in Proposal, kbProps' = Append(kbProps, new),
         new.base \in KbAges, new.applied = 0, new.undone = 0, new.status = "pending",
         KbText(new.body), new.kind = "synthesis" => new.page = "overview",
         UNCHANGED <<kbFile, kbLock, kbFaults>>,
         kbKnown' \in [Sources -> SourceRevs \cup {0}], kbRequests' \in 0..MaxRequests,
         kbOp' \in [Actors -> Ops],
         \A b \in Actors : kbOp'[b] = kbOp[b] \/ (kbOp'[b].pc \notin Projecting /\ KbOpFits(kbOp[b])')
  PROVE  KbInv'
<1>0. KbTypeOK BY DEF KbInv
<1>a. /\ kbProps' \in Seq(Proposal) /\ kbProps'[KbCount + 1] = new /\ KbGrows
      /\ \A p \in 1..KbCount : kbProps'[p] = kbProps[p]
      /\ \A p \in 1..KbCount' : p \in 1..KbCount \/ p = KbCount + 1 BY KbAppended DEF KbQuiet
<1>1. KbTypeOK' BY <1>0, <1>a, KbQuietTyped DEF KbTypeOK
<1>2. ASSUME NEW p \in 1..KbCount'
      PROVE  (p \in 1..KbCount /\ kbProps'[p] = kbProps[p]) \/ KbRowHolds(p)'
 <2>1. CASE p = KbCount + 1
  <3>1. kbProps'[p] = new /\ KbAges' = KbAges /\ 0 \in KbAges
    BY <1>0, <1>a, <2>1, KbTables DEF KbAges, KbQuiet
  <3>2. ~Projected(p)' BY <3>1 DEF Projected
  <3> QED BY <3>1, <3>2 DEF KbRowHolds
 <2> QED BY <1>a, <2>1
<1>3. \A b \in Actors : kbOp'[b] = kbOp[b] \/ KbOpHolds(b)' BY DEF KbOpHolds
<1> QED BY <1>1, <1>a, <1>2, <1>3, KbStep DEF Free

\* What fits goes on fitting when one row changes.
LEMMA KbFitsChanged ==
  ASSUME KbInv, NEW p \in 1..KbCount, NEW new \in Proposal, kbRevs' = kbRevs,
         kbProps' = [kbProps EXCEPT ![p] = new], KbKeepsRow(p), NEW op, KbOpFits(op)
  PROVE  KbOpFits(op)'
<1>a. /\ KbCount' = KbCount /\ kbProps'[p] = new
      /\ \A q \in 1..KbCount : q # p => kbProps'[q] = kbProps[q] BY KbChanged
<1>1. \A q \in 1..KbCount : KbKeepsRow(q) BY <1>a DEF KbKeepsRow, Projected
<1>2. \A q \in 1..KbCount : Projected(q) => Projected(q)' BY <1>1 DEF KbKeepsRow, Projected
<1>3. \A q \in 1..KbCount : /\ kbProps'[q].base = kbProps[q].base /\ kbProps'[q].body = kbProps[q].body
                            /\ kbProps[q].applied # 0 => kbProps'[q].applied = kbProps[q].applied
  BY <1>1 DEF KbKeepsRow
<1>4. ASSUME NEW q, NEW r, KbUndoes(q, r) PROVE KbUndoes(q, r)'
 <2>1. q \in 1..KbCount /\ r \in 1..KbCount /\ kbProps[r].applied # 0 BY <1>4 DEF KbUndoes
 <2> QED BY <1>a, <1>3, <1>4, <2>1 DEF KbUndoes
<1>5. op.pc \in {"applied", "undone"} => Projected(op.p)' BY <1>2 DEF KbOpFits
<1>6. op.then = "undo" => KbUndoes(op.p, op.orig)' BY <1>4 DEF KbOpFits
<1> QED BY <1>a, <1>5, <1>6 DEF KbOpFits

\* The row of one proposal changes and the operation that did it moves on.
LEMMA KbChangeStep ==
  ASSUME KbInv, KbQuiet, NEW p \in 1..KbCount, NEW new \in Proposal,
         kbProps' = [kbProps EXCEPT ![p] = new], KbKeepsRow(p),
         new.applied \in KbAges, Projected(p)' => Projected(p),
         new.undone = kbProps[p].undone \/ (KbUndoes(new.undone, p) /\ Projected(new.undone)),
         Free \/ new.proj = kbProps[p].proj,
         UNCHANGED <<kbFile, kbKnown, kbLock, kbFaults>>, kbRequests' \in 0..MaxRequests,
         NEW a \in Actors, NEW op \in Ops, op.pc \notin Projecting, KbOpFits(op)',
         kbOp[a].pc \notin Projecting, kbOp' = [kbOp EXCEPT ![a] = op]
  PROVE  KbInv'
<1>0. KbTypeOK /\ KbLockHolds BY DEF KbInv
<1>a. /\ kbProps' \in Seq(Proposal) /\ KbCount' = KbCount /\ KbCount \in Nat /\ kbProps'[p] = new
      /\ \A q \in 1..KbCount : q # p => kbProps'[q] = kbProps[q] BY KbChanged
<1>1. KbTypeOK' BY <1>0, <1>a, KbQuietTyped DEF KbTypeOK
<1>2. KbGrows
 <2>1. \A q \in 1..KbCount : KbKeepsRow(q) BY <1>a DEF KbKeepsRow, Projected
 <2>2. KbCount <= KbCount' /\ Len(kbRevs) <= Len(kbRevs') /\ \A r \in 1..Len(kbRevs) : kbRevs'[r] = kbRevs[r]
   BY <1>0, <1>a, KbTables DEF KbQuiet
 <2> QED BY <2>1, <2>2 DEF KbGrows
<1>3. kbLock # NoActor => kbLock # a /\ kbOp'[kbLock] = kbOp[kbLock]
  BY <1>0 DEF KbLockHolds, KbTypeOK
<1>4. \A b \in Actors : kbOp'[b] = kbOp[b] \/ KbOpHolds(b)'
 <2>1. kbOp'[a] = op BY <1>0 DEF KbTypeOK
 <2>3. KbOpFits(kbOp[a])' BY <2>1 DEF KbOpFits, KbUndoes, Projected
 <2>4. KbOpHolds(a)' BY <2>1, <2>3 DEF KbOpHolds
 <2> QED BY <1>0, <2>4 DEF KbTypeOK
<1>5. KbRowHolds(p)'
 <2>1. kbProps'[p].applied \in KbAges' BY <1>a DEF KbAges, KbQuiet
 <2>2. kbProps'[p].undone = kbProps[p].undone \/ (KbUndoes(kbProps[p].undone, p) /\ Projected(kbProps[p].undone))'
  <3>1. CASE new.undone = kbProps[p].undone BY <1>a, <3>1
  <3>2. CASE KbUndoes(new.undone, p) /\ Projected(new.undone)
   <4>1. PICK q : q = new.undone OBVIOUS
   <4>2. q \in 1..KbCount BY <3>2, <4>1 DEF KbUndoes
   <4>3. KbUndoes(q, p)' /\ Projected(q)' BY <1>1, <1>2, <3>2, <4>1, <4>2, KbStays
   <4>4. kbProps'[p].undone = q BY <1>a, <4>1
   <4> QED BY <4>3, <4>4 DEF KbUndoes, Projected
  <3> QED BY <3>1, <3>2
 <2> QED BY <1>1, <1>2, <2>1, <2>2, KbRowStays
<1>6. \A q \in 1..KbCount' : (q \in 1..KbCount /\ kbProps'[q] = kbProps[q]) \/ KbRowHolds(q)'
  BY <1>a, <1>5
<1>7. kbLock # NoActor => kbProps'[kbOp[kbLock].p].proj = kbProps[kbOp[kbLock].p].proj
 <2>1. SUFFICES ASSUME kbLock # NoActor PROVE kbProps'[kbOp[kbLock].p].proj = kbProps[kbOp[kbLock].p].proj
   OBVIOUS
 <2>2. kbLock \in Actors /\ kbOp[kbLock].pc \in Projecting BY <1>0, <2>1 DEF KbLockHolds, KbTypeOK, Projecting
 <2>3. kbOp[kbLock].p \in 1..KbCount BY <2>2 DEF KbInv, KbOpHolds, KbOpFits, Projecting
 <2> QED BY <1>a, <2>1, <2>3 DEF Free
<1> QED BY <1>1, <1>2, <1>3, <1>4, <1>6, <1>7, KbStep

\* The caller between two operations, and a request that begins.
LEMMA KbIdleFits ==
  /\ Idle \in Ops /\ Idle.pc = "idle" /\ Idle.then = "" /\ Idle.p = 0 /\ Idle.orig = 0
  /\ KbInv => KbOpFits(Idle)
  /\ KbTypeOK /\ Request => kbRequests' \in 0..MaxRequests
<1>1. Idle \in Ops /\ Idle.pc = "idle" /\ Idle.then = "" /\ Idle.p = 0 /\ Idle.orig = 0
  BY DEF Idle, Ops
<1>2. KbTypeOK /\ Request => kbRequests' \in 0..MaxRequests BY KbAssumption DEF Request, KbTypeOK
<1> QED BY <1>1, <1>2 DEF KbOpFits

\* The policy reads a proposal and its decision.
LEMMA KbReadStep ==
  ASSUME KbInv, NEW a \in Actors, NEW op \in Ops, KbOpFits(op), op.p \in 1..KbCount,
         kbOp[a].pc \notin Projecting, ReadDecision(a, op), kbRequests' \in 0..MaxRequests
  PROVE  KbInv'
<1>0. KbQuiet /\ UNCHANGED <<kbFile, kbKnown, kbProps, kbLock, kbFaults>>
  BY DEF ReadDecision, KbQuiet, kbWikiVars, kbIndexVars
<1>1. PICK new : new = IF kbProps[op.p].action # "none" THEN [op EXCEPT !.pc = "act"]
                       ELSE IF kbProps[op.p].status # "pending" THEN Idle
                       ELSE [op EXCEPT !.pc = "decide", !.outcome = Policy(op.p)] OBVIOUS
<1>2. kbOp' = [kbOp EXCEPT ![a] = new] BY <1>1 DEF ReadDecision
<1>3. Policy(op.p) \in {"none", "auto_apply", "draft", "require_review", "block"} BY DEF Policy
<1>4. new \in Ops /\ new.pc \notin Projecting BY <1>1, <1>3, KbIdleFits DEF Ops, Projecting
<1>5. KbOpFits(new)
 <2>1. CASE new = Idle BY <2>1, KbIdleFits
 <2>2. CASE new.p = op.p /\ new.then = op.then /\ new.orig = op.orig /\ new.pc \in {"act", "decide"}
   BY <2>2 DEF KbOpFits
 <2> QED BY <1>1, <2>1, <2>2 DEF Ops
<1> QED BY <1>0, <1>2, <1>4, <1>5, KbOpStep

\* Reading the decision of a policy, and evaluating one (_decision, evaluate).
LEMMA KbReadSteps ==
  ASSUME KbInv, NEW a \in Actors
  PROVE  /\ KbReadDecision(a) => KbInv'
         /\ \A p \in DOMAIN kbProps : KbEvaluate(a, p) => KbInv'
<1>0. KbTypeOK BY DEF KbInv
<1>1. ASSUME KbReadDecision(a) PROVE KbInv'
 <2>1. PICK op : op = kbOp[a] OBVIOUS
 <2>2. op \in Ops /\ KbOpFits(op) /\ op.pc = "read" /\ ReadDecision(a, op)
   BY <1>0, <1>1, <2>1 DEF KbReadDecision, KbInv, KbOpHolds, KbTypeOK
 <2>3. op.p \in 1..KbCount BY <2>2 DEF KbOpFits
 <2>4. kbRequests' \in 0..MaxRequests /\ kbOp[a].pc \notin Projecting
   BY <1>0, <1>1, <2>1, <2>2 DEF KbReadDecision, KbTypeOK, Projecting
 <2> QED BY <2>2, <2>3, <2>4, KbReadStep
<1>2. ASSUME NEW p \in DOMAIN kbProps, KbEvaluate(a, p) PROVE KbInv'
 <2>1. PICK op : op = [Idle EXCEPT !.p = p, !.then = "policy"] OBVIOUS
 <2>2. p \in 1..KbCount /\ p \in Nat BY <1>0, KbTables
 <2>3. op \in Ops /\ op.p = p /\ op.pc = "idle" /\ op.then = "policy"
   BY <2>1, <2>2, KbIdleFits DEF Ops
 <2>4. KbOpFits(op) BY <2>3 DEF KbOpFits
 <2>5. ReadDecision(a, op) /\ kbRequests' \in 0..MaxRequests /\ kbOp[a].pc \notin Projecting
   BY <1>0, <1>2, <2>1, KbIdleFits DEF KbEvaluate, Projecting
 <2> QED BY <2>2, <2>3, <2>4, <2>5, KbReadStep
<1> QED BY <1>1, <1>2

\* It takes the transition the decision allows.
LEMMA KbActStep ==
  ASSUME KbInv, NEW a \in Actors, KbAct(a)
  PROVE  KbInv'
<1>0. KbTypeOK /\ KbQuiet /\ UNCHANGED <<kbFile, kbKnown, kbProps, kbLock, kbFaults>>
  BY DEF KbAct, KbQuiet, kbWikiVars, kbIndexVars, KbInv
<1>1. PICK op : op = kbOp[a] OBVIOUS
<1>2. op \in Ops /\ KbOpFits(op) /\ op.pc = "act" /\ kbRequests' \in 0..MaxRequests
  BY <1>0, <1>1 DEF KbAct, KbInv, KbOpHolds, KbTypeOK
<1>3. op.p \in 1..KbCount BY <1>2 DEF KbOpFits
<1>4. PICK pr : pr = kbProps[op.p] OBVIOUS
<1>5. pr \in Proposal /\ pr.revision \in Nat BY <1>0, <1>3, <1>4, KbTables DEF Proposal
<1>6. PICK new : new = CASE pr.action = "auto_apply" /\ pr.status = "pending" ->
                  [op EXCEPT !.pc = "approve", !.rev = pr.revision]
             [] pr.action = "auto_apply" /\ Projected(op.p) -> [op EXCEPT !.pc = "applied"]
             [] pr.action = "block" /\ pr.status = "pending" ->
                  [op EXCEPT !.pc = "reject", !.rev = pr.revision]
             [] OTHER -> Idle OBVIOUS
<1>7. kbOp' = [kbOp EXCEPT ![a] = new] BY <1>1, <1>4, <1>6 DEF KbAct
<1>8. \/ new = Idle
      \/ /\ new = [op EXCEPT !.pc = "approve", !.rev = pr.revision]
      \/ /\ new = [op EXCEPT !.pc = "reject", !.rev = pr.revision]
      \/ /\ new = [op EXCEPT !.pc = "applied"] /\ Projected(op.p) BY <1>6
<1>9. new \in Ops /\ new.pc \notin Projecting BY <1>2, <1>5, <1>8, KbIdleFits DEF Ops, Projecting
<1>10. KbOpFits(new)
 <2>1. CASE new = Idle BY <2>1, KbIdleFits
 <2>2. CASE new # Idle
  <3>1. new.p = op.p /\ new.then = op.then /\ new.orig = op.orig
        /\ (new.pc \in {"approve", "reject"} \/ (new.pc = "applied" /\ Projected(op.p)))
   <4>1. CASE new = [op EXCEPT !.pc = "approve", !.rev = pr.revision] BY <1>2, <4>1 DEF Ops
   <4>2. CASE new = [op EXCEPT !.pc = "reject", !.rev = pr.revision] BY <1>2, <4>2 DEF Ops
   <4>3. CASE new = [op EXCEPT !.pc = "applied"] /\ Projected(op.p) BY <1>2, <4>3 DEF Ops
   <4> QED BY <1>8, <2>2, <4>1, <4>2, <4>3
  <3> QED BY <1>2, <1>3, <3>1 DEF KbOpFits
 <2> QED BY <2>1, <2>2
<1> QED BY <1>0, <1>1, <1>2, <1>7, <1>9, <1>10, KbOpStep DEF Projecting

\* A retire item of the migration begins.
LEMMA KbMigrateRetireStep ==
  ASSUME KbInv, NEW a \in Actors, NEW p \in DOMAIN kbProps, KbMigrateRetire(a, p)
  PROVE  KbInv'
<1>0. KbTypeOK /\ KbQuiet /\ UNCHANGED <<kbFile, kbKnown, kbProps, kbLock, kbFaults>>
  BY DEF KbMigrateRetire, KbQuiet, kbWikiVars, kbIndexVars, KbInv
<1>1. PICK op : op = [Idle EXCEPT !.pc = "retire", !.orig = p] OBVIOUS
<1>2. p \in 1..KbCount /\ p \in Nat BY <1>0, KbTables
<1>3. op \in Ops /\ op.orig = p /\ op.pc = "retire" /\ op.then = ""
  BY <1>1, <1>2, KbIdleFits DEF Ops
<1>4. KbOpFits(op) BY <1>2, <1>3 DEF KbOpFits
<1>5. kbOp' = [kbOp EXCEPT ![a] = op] /\ kbRequests' \in 0..MaxRequests /\ kbOp[a].pc \notin Projecting
  BY <1>0, <1>1, KbIdleFits DEF KbMigrateRetire, Projecting
<1> QED BY <1>0, <1>3, <1>4, <1>5, KbOpStep DEF Projecting

\* The decision is recorded, unless there is one.
LEMMA KbDecideStep ==
  ASSUME KbInv, NEW a \in Actors, KbDecide(a)
  PROVE  KbInv'
<1>0. KbTypeOK /\ KbQuiet /\ UNCHANGED <<kbFile, kbKnown, kbLock, kbFaults>> /\ Free
      /\ kbRequests' \in 0..MaxRequests
  BY DEF KbDecide, KbQuiet, kbWikiVars, kbIndexVars, KbInv, KbTypeOK
<1>1. PICK op : op = kbOp[a] OBVIOUS
<1>2. op \in Ops /\ KbOpFits(op) /\ op.pc = "decide"
  BY <1>0, <1>1 DEF KbDecide, KbInv, KbOpHolds, KbTypeOK
<1>3. PICK p : p = op.p OBVIOUS
<1>4. p \in 1..KbCount /\ kbProps[p] \in Proposal /\ KbRowHolds(p)
  BY <1>0, <1>2, <1>3, KbTables DEF KbOpFits, KbInv
<1>5. PICK act : act = IF kbProps[p].action = "none" THEN op.outcome ELSE kbProps[p].action OBVIOUS
<1>6. PICK new : new = [kbProps[p] EXCEPT !.action = act] OBVIOUS
<1>7. kbProps' = [kbProps EXCEPT ![p] = new] BY <1>1, <1>3, <1>5, <1>6 DEF KbDecide
<1>8. new \in Proposal BY <1>2, <1>4, <1>5, <1>6 DEF Proposal, Ops
<1>9. /\ new.kind = kbProps[p].kind /\ new.page = kbProps[p].page /\ new.body = kbProps[p].body
      /\ new.base = kbProps[p].base /\ new.status = kbProps[p].status /\ new.proj = kbProps[p].proj
      /\ new.applied = kbProps[p].applied /\ new.undone = kbProps[p].undone
  BY <1>4, <1>6 DEF Proposal
<1>10. kbProps'[p] = new BY <1>4, <1>7, <1>8, KbChanged
<1>11. KbKeepsRow(p) /\ (Projected(p)' => Projected(p)) /\ new.applied \in KbAges
  BY <1>4, <1>9, <1>10 DEF KbKeepsRow, Projected, KbRowHolds
<1>12. PICK next : next = [op EXCEPT !.pc = "act", !.outcome = "none"] OBVIOUS
<1>13. next \in Ops /\ next.pc = "act" /\ next.p = p /\ next.orig = op.orig /\ next.then = op.then
  BY <1>2, <1>3, <1>12 DEF Ops
<1>14. kbOp' = [kbOp EXCEPT ![a] = next] BY <1>0, <1>1, <1>2, <1>12 DEF KbDecide, KbTypeOK, Ops
<1>15. KbOpFits(next) BY <1>2, <1>3, <1>4, <1>13 DEF KbOpFits
<1>16. KbOpFits(next)' BY <1>0, <1>4, <1>7, <1>8, <1>11, <1>13, <1>15, KbFitsChanged DEF KbQuiet
<1> QED BY <1>0, <1>1, <1>2, <1>4, <1>7, <1>8, <1>9, <1>11, <1>13, <1>14, <1>16, KbChangeStep DEF Projecting

\* A pending proposal is rejected.
LEMMA KbDismissStep ==
  ASSUME KbInv, KbQuiet, UNCHANGED <<kbFile, kbKnown, kbLock, kbFaults>>, Free,
         kbRequests' \in 0..MaxRequests, NEW p \in 1..KbCount, kbProps[p].status = "pending",
         kbProps' = [kbProps EXCEPT ![p].status = "rejected", ![p].proj = "complete",
                                    ![p].revision = @ + 1],
         NEW a \in Actors, kbOp[a].pc \notin Projecting, kbOp' = [kbOp EXCEPT ![a] = Idle]
  PROVE  KbInv'
<1>0. KbTypeOK BY DEF KbInv
<1>4. kbProps[p] \in Proposal /\ KbRowHolds(p) BY <1>0, KbTables DEF KbInv
<1>6. PICK new : new = [kbProps[p] EXCEPT !.status = "rejected", !.proj = "complete", !.revision = @ + 1]
  OBVIOUS
<1>7. kbProps' = [kbProps EXCEPT ![p] = new]
 <2>1. DOMAIN kbProps = 1..KbCount BY <1>0, KbTables
 <2> QED BY <1>4, <1>6, <2>1 DEF Proposal
<1>8. new \in Proposal
 <2>1. PICK old : old = kbProps[p] OBVIOUS
 <2>2. PICK age : age = old.revision + 1 OBVIOUS
 <2>3. old \in Proposal /\ age \in Nat BY <1>4, <2>1, <2>2 DEF Proposal
 <2>4. new = [old EXCEPT !.status = "rejected", !.proj = "complete", !.revision = age]
   BY <1>6, <2>1, <2>2
 <2> QED BY <2>3, <2>4 DEF Proposal
<1>9. /\ new.kind = kbProps[p].kind /\ new.page = kbProps[p].page /\ new.body = kbProps[p].body
      /\ new.base = kbProps[p].base /\ new.status = "rejected"
      /\ new.applied = kbProps[p].applied /\ new.undone = kbProps[p].undone
 <2>1. PICK old : old = kbProps[p] OBVIOUS
 <2>2. old \in Proposal /\ new = [old EXCEPT !.status = "rejected", !.proj = "complete", !.revision = old.revision + 1]
   BY <1>4, <1>6, <2>1
 <2>3. /\ new.kind = old.kind /\ new.page = old.page /\ new.body = old.body /\ new.base = old.base
       /\ new.status = "rejected" /\ new.applied = old.applied /\ new.undone = old.undone
   BY <2>2 DEF Proposal
 <2> QED BY <2>1, <2>3
<1>10. kbProps'[p] = new BY <1>7, <1>8, KbChanged
<1>11. KbKeepsRow(p) /\ (Projected(p)' => Projected(p)) /\ new.applied \in KbAges
  BY <1>4, <1>9, <1>10 DEF KbKeepsRow, Projected, KbRowHolds
<1>12. Idle \in Ops /\ Idle.pc \notin Projecting /\ KbOpFits(Idle) BY KbIdleFits DEF Projecting
<1>13. KbOpFits(Idle)' BY <1>7, <1>8, <1>11, <1>12, KbFitsChanged DEF KbQuiet
<1> QED BY <1>7, <1>8, <1>9, <1>11, <1>12, <1>13, KbChangeStep

\* A person or a block decision rejects a proposal, if it is still pending.
LEMMA KbRejectStep ==
  ASSUME KbInv, NEW a \in Actors, NEW op, op.p \in 1..KbCount, Reject(a, op),
         kbOp[a].pc \notin Projecting, kbRequests' \in 0..MaxRequests
  PROVE  KbInv'
<1>0. KbTypeOK /\ KbQuiet /\ UNCHANGED <<kbFile, kbKnown, kbLock, kbFaults>> /\ Free
      /\ kbOp' = [kbOp EXCEPT ![a] = Idle] BY DEF Reject, KbQuiet, kbWikiVars, kbIndexVars, KbInv
<1>1. PICK p : p = op.p OBVIOUS
<1>2. CASE kbProps[p].status = "pending" /\ kbProps[p].revision = op.rev
 <2>1. kbProps' = [kbProps EXCEPT ![p].status = "rejected", ![p].proj = "complete", ![p].revision = @ + 1]
   BY <1>1, <1>2 DEF Reject
 <2> QED BY <1>0, <1>1, <1>2, <2>1, KbDismissStep
<1>3. CASE ~(kbProps[p].status = "pending" /\ kbProps[p].revision = op.rev)
 <2>1. kbProps' = kbProps BY <1>1, <1>3 DEF Reject
 <2>2. Idle \in Ops /\ Idle.pc \notin Projecting /\ KbOpFits(Idle) BY KbIdleFits DEF Projecting
 <2> QED BY <1>0, <2>1, <2>2, KbOpStep
<1> QED BY <1>2, <1>3

\* The migration retires the old proposal, if it is still pending.
LEMMA KbRetireStep ==
  ASSUME KbInv, NEW a \in Actors, KbRetire(a)
  PROVE  KbInv'
<1>0. KbTypeOK /\ KbQuiet /\ UNCHANGED <<kbFile, kbKnown, kbLock, kbFaults>> /\ Free
      /\ kbOp' = [kbOp EXCEPT ![a] = Idle] /\ kbRequests' \in 0..MaxRequests /\ kbOp[a].pc = "retire"
  BY DEF KbRetire, KbQuiet, kbWikiVars, kbIndexVars, KbInv, KbTypeOK
<1>1. PICK p : p = kbOp[a].orig OBVIOUS
<1>a. p \in 1..KbCount BY <1>0, <1>1 DEF KbInv, KbOpHolds, KbOpFits
<1>2. CASE kbProps[p].status = "pending" /\ p # kbOp[a].p
 <2>1. kbProps' = [kbProps EXCEPT ![p].status = "rejected", ![p].proj = "complete", ![p].revision = @ + 1]
   BY <1>1, <1>2 DEF KbRetire
 <2> QED BY <1>0, <1>a, <1>2, <2>1, KbDismissStep DEF Projecting
<1>3. CASE ~(kbProps[p].status = "pending" /\ p # kbOp[a].p)
 <2>1. kbProps' = kbProps BY <1>1, <1>3 DEF KbRetire
 <2>2. Idle \in Ops /\ Idle.pc \notin Projecting /\ KbOpFits(Idle) BY KbIdleFits DEF Projecting
 <2> QED BY <1>0, <2>1, <2>2, KbOpStep DEF Projecting
<1> QED BY <1>2, <1>3

\* The decision is marked undone by the projected proposal that undid it.
LEMMA KbUndoneStep ==
  ASSUME KbInv, NEW a \in Actors, KbUndone(a)
  PROVE  KbInv'
<1>0. KbTypeOK /\ KbQuiet /\ UNCHANGED <<kbFile, kbKnown, kbLock, kbFaults>> /\ Free
      /\ kbOp' = [kbOp EXCEPT ![a] = Idle] /\ kbRequests' \in 0..MaxRequests
  BY DEF KbUndone, KbQuiet, kbWikiVars, kbIndexVars, KbInv, KbTypeOK
<1>1. PICK op : op = kbOp[a] OBVIOUS
<1>2. op \in Ops /\ KbOpFits(op) /\ op.pc = "undone"
  BY <1>0, <1>1 DEF KbUndone, KbInv, KbOpHolds, KbTypeOK
<1>3. PICK p : p = op.orig OBVIOUS
<1>4. KbUndoes(op.p, p) /\ Projected(op.p) /\ op.p \in Nat BY <1>2, <1>3 DEF KbOpFits, Ops
<1>5. p \in 1..KbCount /\ kbProps[p] \in Proposal /\ KbRowHolds(p)
 <2>1. p \in 1..KbCount BY <1>4 DEF KbUndoes
 <2> QED BY <1>0, <2>1, KbTables DEF KbInv
<1>6. PICK by : by = IF kbProps[p].undone = 0 THEN op.p ELSE kbProps[p].undone OBVIOUS
<1>7. PICK new : new = [kbProps[p] EXCEPT !.undone = by] OBVIOUS
<1>8. kbProps' = [kbProps EXCEPT ![p] = new] BY <1>1, <1>3, <1>6, <1>7 DEF KbUndone
<1>9. new \in Proposal BY <1>4, <1>5, <1>6, <1>7 DEF Proposal
<1>10. /\ new.kind = kbProps[p].kind /\ new.page = kbProps[p].page /\ new.body = kbProps[p].body
       /\ new.base = kbProps[p].base /\ new.status = kbProps[p].status /\ new.proj = kbProps[p].proj
       /\ new.applied = kbProps[p].applied /\ new.undone = by BY <1>5, <1>7 DEF Proposal
<1>11. kbProps'[p] = new BY <1>5, <1>8, <1>9, KbChanged
<1>12. KbKeepsRow(p) /\ (Projected(p)' => Projected(p)) /\ new.applied \in KbAges
  BY <1>5, <1>10, <1>11 DEF KbKeepsRow, Projected, KbRowHolds
<1>13. new.undone = kbProps[p].undone \/ (KbUndoes(new.undone, p) /\ Projected(new.undone))
  BY <1>4, <1>6, <1>10
<1>14. Idle \in Ops /\ Idle.pc \notin Projecting /\ KbOpFits(Idle) BY KbIdleFits DEF Projecting
<1>15. KbOpFits(Idle)' BY <1>0, <1>5, <1>8, <1>9, <1>12, <1>14, KbFitsChanged DEF KbQuiet
<1>16. kbOp[a].pc \notin Projecting BY <1>1, <1>2 DEF Projecting
<1> QED BY <1>0, <1>5, <1>8, <1>9, <1>12, <1>13, <1>14, <1>15, <1>16, KbChangeStep

\* The policy records the revision that its projection made.
LEMMA KbAppliedStep ==
  ASSUME KbInv, NEW a \in Actors, KbApplied(a)
  PROVE  KbInv'
<1>0. KbTypeOK /\ KbQuiet /\ UNCHANGED <<kbFile, kbKnown, kbLock, kbFaults>>
      /\ kbRequests' \in 0..MaxRequests
  BY DEF KbApplied, KbQuiet, kbWikiVars, kbIndexVars, KbInv, KbTypeOK
<1>1. PICK op : op = kbOp[a] OBVIOUS
<1>2. op \in Ops /\ KbOpFits(op) /\ op.pc = "applied"
  BY <1>0, <1>1 DEF KbApplied, KbInv, KbOpHolds, KbTypeOK
<1>3. PICK p : p = op.p OBVIOUS
<1>4. p \in 1..KbCount /\ Projected(p) BY <1>2, <1>3 DEF KbOpFits
<1>5. kbProps[p] \in Proposal /\ KbRowHolds(p) BY <1>0, <1>4, KbTables DEF KbInv
<1>6. KbRevisionOf(p) \in 1..Len(kbRevs)
 <2>1. \E r \in DOMAIN kbRevs : kbRevs[r].prop = p BY <1>0, <1>4, <1>5, KbTables DEF KbRowHolds
 <2>2. KbRevisionOf(p) \in DOMAIN kbRevs BY <2>1 DEF KbRevisionOf
 <2> QED BY <1>0, <2>2, KbTables
<1>7. PICK age : age = IF kbProps[p].applied = 0 THEN KbRevisionOf(p) ELSE kbProps[p].applied
  OBVIOUS
<1>8. age \in KbAges /\ age \in Nat BY <1>0, <1>5, <1>6, <1>7, KbTables DEF KbAges, KbRowHolds
<1>9. PICK new : new = [kbProps[p] EXCEPT !.applied = age] OBVIOUS
<1>10. kbProps' = [kbProps EXCEPT ![p] = new] BY <1>1, <1>3, <1>7, <1>9 DEF KbApplied
<1>11. new \in Proposal BY <1>5, <1>8, <1>9 DEF Proposal
<1>12. /\ new.kind = kbProps[p].kind /\ new.page = kbProps[p].page /\ new.body = kbProps[p].body
       /\ new.base = kbProps[p].base /\ new.status = kbProps[p].status /\ new.proj = kbProps[p].proj
       /\ new.applied = age /\ new.undone = kbProps[p].undone BY <1>5, <1>9 DEF Proposal
<1>13. kbProps'[p] = new BY <1>4, <1>10, <1>11, KbChanged
<1>14. KbKeepsRow(p) /\ (Projected(p)' => Projected(p))
  BY <1>7, <1>12, <1>13 DEF KbKeepsRow, Projected
<1>15. PICK next : next = IF op.then = "migrate" THEN [op EXCEPT !.pc = "retire"] ELSE Idle OBVIOUS
<1>16. kbOp' = [kbOp EXCEPT ![a] = next] BY <1>1, <1>15 DEF KbApplied
<1>17. next \in Ops /\ next.pc \notin Projecting BY <1>2, <1>15, KbIdleFits DEF Ops, Projecting
<1>18. KbOpFits(next)
 <2>1. CASE op.then = "migrate"
  <3>1. next.pc = "retire" /\ next.then = "migrate" /\ next.orig = op.orig
    BY <1>2, <1>15, <2>1 DEF Ops
  <3> QED BY <1>2, <2>1, <3>1 DEF KbOpFits
 <2>2. CASE op.then # "migrate" BY <1>15, <2>2, KbIdleFits
 <2> QED BY <2>1, <2>2
<1>19. KbOpFits(next)' BY <1>0, <1>4, <1>10, <1>11, <1>14, <1>18, KbFitsChanged DEF KbQuiet
<1>20. kbOp[a].pc \notin Projecting BY <1>1, <1>2 DEF Projecting
<1>21. new.applied \in KbAges /\ new.undone = kbProps[p].undone /\ new.proj = kbProps[p].proj
  BY <1>8, <1>12
<1> QED BY <1>0, <1>4, <1>10, <1>11, <1>14, <1>16, <1>17, <1>19, <1>20, <1>21, KbChangeStep

\* A body has the text it is given, and a new row nothing that happened to it.
LEMMA KbBodies ==
  ASSUME NEW kind \in {"absent", "initial", "source", "tombstone", "derived", "log", "edit"},
         NEW rev \in Nat, NEW cites \in SUBSET Nat
  PROVE  Body(kind, rev, cites) \in Content /\ Body(kind, rev, cites).kind = kind
  BY DEF Body, Content

\* A new proposal is a pending row that nothing has applied or undone.
LEMMA KbNewRow ==
  ASSUME NEW kind \in ChangeKinds, NEW page \in Pages, NEW source \in Nat, NEW body \in Content,
         NEW base \in Nat, NEW cites \in SUBSET Nat, NEW of \in Nat
  PROVE  LET new == NewProposal(kind, page, source, body, base, cites, of) IN
         /\ new \in Proposal /\ new.kind = kind /\ new.page = page /\ new.body = body /\ new.base = base
         /\ new.applied = 0 /\ new.undone = 0 /\ new.status = "pending"
<1>1. PICK new : new = NewProposal(kind, page, source, body, base, cites, of) OBVIOUS
<1>2. new \in Proposal
 <2>1. PICK parsed : parsed = (kind = "ingest") OBVIOUS
 <2>2. parsed \in BOOLEAN BY <2>1
 <2>3. new = [kind |-> kind, page |-> page, source |-> source, body |-> body, base |-> base,
              cites |-> cites, parsed |-> parsed, of |-> of, status |-> "pending", proj |-> "pending",
              revision |-> 0, action |-> "none", applied |-> 0, undone |-> 0]
   BY <1>1, <2>1 DEF NewProposal
 <2> QED BY <2>2, <2>3 DEF Proposal
<1>3. /\ new.kind = kind /\ new.page = page /\ new.body = body /\ new.base = base
      /\ new.applied = 0 /\ new.undone = 0 /\ new.status = "pending" BY <1>1 DEF NewProposal
<1> QED BY <1>1, <1>2, <1>3

\* The same row with a policy decision.
LEMMA KbDecidedRow ==
  ASSUME NEW row \in Proposal, row.applied = 0, row.undone = 0, row.status = "pending"
  PROVE  LET new == [row EXCEPT !.action = "require_review"] IN
         /\ new \in Proposal /\ new.kind = row.kind /\ new.page = row.page /\ new.body = row.body
         /\ new.base = row.base /\ new.applied = 0 /\ new.undone = 0 /\ new.status = "pending"
  BY DEF Proposal

\* An operation begins with the proposal it has just made.
LEMMA KbFitsNew ==
  ASSUME KbInv, NEW new \in Proposal, kbProps' = Append(kbProps, new), kbRevs' = kbRevs,
         NEW op, op.pc \in {"read", "approve"}, op.p = KbCount + 1,
         op.then = "migrate" => op.orig \in 1..KbCount,
         op.then = "undo" =>
           /\ op.orig \in 1..KbCount /\ kbProps[op.orig].applied # 0
           /\ new.base = kbProps[op.orig].applied
           /\ IF kbProps[op.orig].base = 0 THEN new.body.kind = "tombstone"
              ELSE new.body = kbRevs[kbProps[op.orig].base].body
  PROVE  KbOpFits(op)'
<1>1. /\ kbProps'[KbCount + 1] = new /\ KbCount + 1 \in 1..KbCount'
      /\ \A p \in 1..KbCount : kbProps'[p] = kbProps[p] /\ p \in 1..KbCount' BY KbAppended
<1>2. op.p \in 1..KbCount' /\ (op.then = "migrate" => op.orig \in 1..KbCount') BY <1>1
<1>3. op.then = "undo" => KbUndoes(op.p, op.orig)'
 <2>1. SUFFICES ASSUME op.then = "undo" PROVE KbUndoes(op.p, op.orig)' OBVIOUS
 <2>2. kbProps'[op.orig] = kbProps[op.orig] /\ op.orig \in 1..KbCount' /\ kbProps'[op.p] = new
   BY <1>1, <2>1
 <2> QED BY <1>2, <2>1, <2>2 DEF KbUndoes
<1> QED BY <1>2, <1>3 DEF KbOpFits

\* Of several projected proposals one is the youngest.
LEMMA KbYoungestIsOne ==
  ASSUME KbInv, NEW ps \in SUBSET (1..KbCount), ps # {}, \A p \in ps : Projected(p)
  PROVE  Youngest(ps) \in ps
<1>0. KbTypeOK BY DEF KbInv
<1>1. \A p \in ps : KbRevisionOf(p) \in 1..Len(kbRevs)
 <2> SUFFICES ASSUME NEW p \in ps PROVE KbRevisionOf(p) \in 1..Len(kbRevs) OBVIOUS
 <2>1. KbRowHolds(p) /\ Projected(p) BY DEF KbInv
 <2>2. \E r \in DOMAIN kbRevs : kbRevs[r].prop = p BY <1>0, <2>1, KbTables DEF KbRowHolds
 <2>3. KbRevisionOf(p) \in DOMAIN kbRevs BY <2>2 DEF KbRevisionOf
 <2> QED BY <1>0, <2>3, KbTables
<1>2. PICK S : S = {KbRevisionOf(p) : p \in ps} OBVIOUS
<1>3. S \in SUBSET (0..Len(kbRevs)) /\ S # {} /\ Len(kbRevs) \in Nat
 <2>1. Len(kbRevs) \in Nat BY <1>0, KbTables
 <2>2. \A p \in ps : KbRevisionOf(p) \in 0..Len(kbRevs) BY <1>1, <2>1
 <2> QED BY <1>2, <2>1, <2>2
<1>4. PICK m \in S : \A x \in S : x <= m BY <1>3, KbLargest
<1>5. \E p \in ps : \A q \in ps : KbRevisionOf(q) <= KbRevisionOf(p) BY <1>2, <1>4
<1> QED BY <1>5 DEF Youngest

\* Ingesting a source finds a proposal or makes one.
LEMMA KbIngested ==
  ASSUME KbInv, NEW s \in Sources, NEW q \in 1..Len(kbProps) + 1, Ingested(s, q)
  PROVE  \/ q \in 1..KbCount /\ UNCHANGED <<kbKnown, kbProps>>
         \/ /\ q = KbCount + 1 /\ kbKnown' \in [Sources -> SourceRevs \cup {0}]
            /\ \E new \in Proposal :
                 /\ kbProps' = Append(kbProps, new) /\ new.base \in KbAges
                 /\ new.applied = 0 /\ new.undone = 0 /\ new.status = "pending"
                 /\ KbText(new.body) /\ new.kind = "ingest"
<1>0. KbTypeOK /\ DOMAIN kbProps = 1..KbCount /\ s \in Pages BY KbTables DEF KbInv, Pages
<1>1. PICK hits : hits = IF Unchanged(s) # {} THEN {Youngest(Unchanged(s))} ELSE Known(s) OBVIOUS
<1>2. hits \subseteq 1..KbCount
 <2>1. Parses(s) \subseteq 1..KbCount BY <1>0 DEF Parses
 <2>2. Known(s) \subseteq 1..KbCount BY <2>1 DEF Known
 <2>3. Unchanged(s) # {} => Youngest(Unchanged(s)) \in 1..KbCount
  <3>1. PICK ps : ps = Unchanged(s) OBVIOUS
  <3>2. ps \in SUBSET (1..KbCount) /\ \A p \in ps : Projected(p) BY <2>1, <3>1 DEF Unchanged
  <3>3. ps # {} => Youngest(ps) \in ps BY <3>2, KbYoungestIsOne
  <3> QED BY <3>1, <3>2, <3>3
 <2> QED BY <1>1, <2>2, <2>3
<1>3. CASE hits # {}
 <2>1. q \in hits /\ UNCHANGED <<kbKnown, kbProps>> BY <1>1, <1>3 DEF Ingested
 <2> QED BY <1>2, <2>1
<1>4. CASE hits = {}
 <2>1. PICK new : new = NewProposal("ingest", s, kbFile[s], Body("source", kbFile[s], {}), KbCurrent(s), {}, 0)
   OBVIOUS
 <2>2. /\ q = KbCount + 1 /\ kbKnown' = [kbKnown EXCEPT ![s] = kbFile[s]]
       /\ kbProps' = Append(kbProps, new) BY <1>1, <1>4, <2>1 DEF Ingested, KbCount
 <2>3. kbFile[s] \in SourceRevs /\ kbFile[s] \in Nat /\ KbCurrent(s) \in KbAges
   BY <1>0, KbAssumption, KbCurrentIsNewest DEF KbTypeOK
 <2>4. KbCurrent(s) \in Nat BY <1>0, <2>3, KbTables DEF KbAges
 <2>5. PICK body : body = Body("source", kbFile[s], {}) OBVIOUS
 <2>6. body \in Content /\ body.kind = "source" BY <2>3, <2>5, KbBodies
 <2>7. /\ new \in Proposal /\ new.kind = "ingest" /\ new.body = body /\ new.base = KbCurrent(s)
       /\ new.applied = 0 /\ new.undone = 0 /\ new.status = "pending"
   BY <1>0, <2>1, <2>3, <2>4, <2>5, <2>6, KbNewRow DEF ChangeKinds
 <2>8. kbKnown' \in [Sources -> SourceRevs \cup {0}] BY <1>0, <2>2, <2>3 DEF KbTypeOK
 <2> QED BY <2>2, <2>3, <2>6, <2>7, <2>8 DEF KbText
<1> QED BY <1>3, <1>4

\* A source that is read or ingested: its proposal is there already, or is new.
LEMMA KbIngestedStep ==
  ASSUME KbInv, NEW s \in Sources, NEW q \in 1..Len(kbProps) + 1, Ingested(s, q), Free,
         NEW a \in Actors, kbOp[a].pc = "idle", KbQuiet, UNCHANGED <<kbFile, kbLock, kbFaults>>,
         kbRequests' \in 0..MaxRequests,
         NEW op \in Ops, op.pc = "read", op.p = q, op.then \in {"policy", "migrate"},
         op.then = "migrate" => op.orig \in 1..KbCount, kbOp' = [kbOp EXCEPT ![a] = op]
  PROVE  KbInv'
<1>0. KbTypeOK BY DEF KbInv
<1>1. CASE q \in 1..KbCount /\ UNCHANGED <<kbKnown, kbProps>>
 <2>1. KbOpFits(op) BY <1>1 DEF KbOpFits
 <2> QED BY <1>1, <2>1, KbOpStep DEF Projecting
<1>2. CASE ~(q \in 1..KbCount /\ UNCHANGED <<kbKnown, kbProps>>)
 <2>1. PICK new \in Proposal :
         /\ kbProps' = Append(kbProps, new) /\ new.base \in KbAges
         /\ new.applied = 0 /\ new.undone = 0 /\ new.status = "pending"
         /\ KbText(new.body) /\ new.kind = "ingest" BY <1>2, KbIngested
 <2>2. q = KbCount + 1 /\ kbKnown' \in [Sources -> SourceRevs \cup {0}] BY <1>2, KbIngested
 <2>3. KbOpFits(op)' BY <2>1, <2>2, KbFitsNew DEF KbQuiet
 <2>4. kbOp'[a] = op /\ \A b \in Actors : b # a => kbOp'[b] = kbOp[b] BY <1>0 DEF KbTypeOK
 <2>5. KbOpFits(kbOp[a])' BY <2>3, <2>4 DEF KbOpFits, KbUndoes, Projected
 <2>6. \A b \in Actors : kbOp'[b] = kbOp[b] \/ (kbOp'[b].pc \notin Projecting /\ KbOpFits(kbOp[b])')
   BY <2>4, <2>5 DEF Projecting
 <2>7. kbOp' \in [Actors -> Ops] BY <1>0 DEF KbTypeOK
 <2>8. new.kind = "synthesis" => new.page = "overview" BY <2>1
 <2> QED BY <2>1, <2>2, <2>6, <2>7, <2>8, KbAppendStep
<1> QED BY <1>1, <1>2

\* The ingest endpoint, the job worker and the migration.
LEMMA KbIngestSteps ==
  ASSUME KbInv, NEW a \in Actors
  PROVE  /\ \A s \in Sources : KbIngest(a, s) => KbInv'
         /\ \A p \in DOMAIN kbProps : KbMigrate(a, p) => KbInv'
<1>0. KbTypeOK /\ (\A p \in DOMAIN kbProps : p \in 1..KbCount /\ p \in Nat) /\ (\A q \in 1..Len(kbProps) + 1 : q \in Nat)
 <2>1. KbTypeOK /\ DOMAIN kbProps = 1..KbCount /\ KbCount \in Nat BY KbTables DEF KbInv
 <2> QED BY <2>1 DEF KbCount
<1>1. ASSUME NEW s \in Sources, KbIngest(a, s) PROVE KbInv'
 <2>1. PICK q \in 1..Len(kbProps) + 1 :
         /\ Ingested(s, q)
         /\ kbOp' = [kbOp EXCEPT ![a] = [Idle EXCEPT !.pc = "read", !.p = q, !.then = "policy"]]
   BY <1>1 DEF KbIngest
 <2>2. PICK op : op = [Idle EXCEPT !.pc = "read", !.p = q, !.then = "policy"] OBVIOUS
 <2>3. op \in Ops /\ op.pc = "read" /\ op.p = q /\ op.then = "policy"
   BY <1>0, <2>1, <2>2, KbIdleFits DEF Ops
 <2>4. /\ KbQuiet /\ UNCHANGED <<kbFile, kbLock, kbFaults>> /\ Free /\ kbOp[a].pc = "idle"
       /\ kbRequests' \in 0..MaxRequests
   BY <1>0, <1>1, KbIdleFits DEF KbIngest, KbQuiet, kbWikiVars, kbIndexVars
 <2> QED BY <2>1, <2>2, <2>3, <2>4, KbIngestedStep
<1>2. ASSUME NEW p \in DOMAIN kbProps, KbMigrate(a, p) PROVE KbInv'
 <2>0. kbProps[p].page \in Sources BY <1>2, KbAssumption DEF KbMigrate, Disposition
 <2>1. PICK q \in 1..Len(kbProps) + 1 :
         /\ Ingested(kbProps[p].page, q)
         /\ kbOp' = [kbOp EXCEPT ![a] = [Idle EXCEPT !.pc = "read", !.p = q, !.then = "migrate", !.orig = p]]
   BY <1>2 DEF KbMigrate
 <2>2. PICK op : op = [Idle EXCEPT !.pc = "read", !.p = q, !.then = "migrate", !.orig = p] OBVIOUS
 <2>3. op \in Ops /\ op.pc = "read" /\ op.p = q /\ op.then = "migrate" /\ op.orig = p
   BY <1>0, <2>1, <2>2, KbIdleFits DEF Ops
 <2>4. /\ KbQuiet /\ UNCHANGED <<kbFile, kbLock, kbFaults>> /\ Free /\ kbOp[a].pc = "idle"
       /\ kbRequests' \in 0..MaxRequests
   BY <1>0, <1>2, KbIdleFits DEF KbMigrate, KbQuiet, kbWikiVars, kbIndexVars
 <2> QED BY <1>0, <2>0, <2>1, <2>2, <2>3, <2>4, KbIngestedStep
<1> QED BY <1>1, <1>2

\* A proposal is made beside any operation.
LEMMA KbProposeStep ==
  ASSUME KbInv, KbQuiet, Free, NEW new \in Proposal, kbProps' = Append(kbProps, new),
         new.base \in KbAges, new.applied = 0, new.undone = 0, new.status = "pending",
         KbText(new.body), new.kind # "synthesis",
         UNCHANGED <<kbFile, kbKnown, kbOp, kbLock, kbFaults>>, kbRequests' \in 0..MaxRequests
  PROVE  KbInv'
<1>1. kbKnown' \in [Sources -> SourceRevs \cup {0}] /\ kbOp' \in [Actors -> Ops]
  BY DEF KbInv, KbTypeOK
<1> QED BY <1>1, KbAppendStep

\* A proposal is made by the operation that will act on it.
LEMMA KbBeginStep ==
  ASSUME KbInv, KbQuiet, Free, NEW new \in Proposal, kbProps' = Append(kbProps, new),
         new.base \in KbAges, new.applied = 0, new.undone = 0, new.status = "pending",
         KbText(new.body), new.kind = "synthesis" => new.page = "overview",
         UNCHANGED <<kbFile, kbKnown, kbLock, kbFaults>>, kbRequests' \in 0..MaxRequests,
         NEW a \in Actors, NEW op \in Ops, op.pc \notin Projecting, KbOpFits(op)',
         kbOp' = [kbOp EXCEPT ![a] = op]
  PROVE  KbInv'
<1>0. KbTypeOK BY DEF KbInv
<1>1. kbOp'[a] = op /\ (\A b \in Actors : b # a => kbOp'[b] = kbOp[b]) /\ kbOp' \in [Actors -> Ops]
      /\ kbKnown' \in [Sources -> SourceRevs \cup {0}] BY <1>0 DEF KbTypeOK
<1>2. KbOpFits(kbOp[a])' BY <1>1 DEF KbOpFits, KbUndoes, Projected
<1>3. \A b \in Actors : kbOp'[b] = kbOp[b] \/ (kbOp'[b].pc \notin Projecting /\ KbOpFits(kbOp[b])')
  BY <1>1, <1>2
<1> QED BY <1>1, <1>3, KbAppendStep

\* Numbers in reach.
LEMMA KbNumbers ==
  ASSUME KbInv
  PROVE  /\ KbCount \in Nat /\ KbCount + 1 \in Nat /\ DOMAIN kbProps = 1..KbCount /\ DOMAIN kbRevs = 1..Len(kbRevs)
         /\ KbAges \subseteq Nat
         /\ \A page \in Pages : KbCurrent(page) \in KbAges
         /\ \A p \in 1..KbCount : p \in Nat /\ kbProps[p] \in Proposal /\ KbRowHolds(p)
         /\ \A r \in 1..Len(kbRevs) : /\ r \in Nat /\ kbRevs[r].body \in Content /\ kbRevs[r].page \in Pages
                                      /\ kbRevs[r].body.cites \in SUBSET Nat /\ KbText(kbRevs[r].body)
<1>0. KbTypeOK /\ KbRevsHold BY DEF KbInv
<1>1. KbCount \in Nat /\ DOMAIN kbProps = 1..KbCount /\ DOMAIN kbRevs = 1..Len(kbRevs) /\ Len(kbRevs) \in Nat
  BY <1>0, KbTables
<1>2. KbAges \subseteq Nat BY <1>1 DEF KbAges
<1>3. \A page \in Pages : KbCurrent(page) \in KbAges BY <1>0, KbCurrentIsNewest
<1>4. \A p \in 1..KbCount : p \in Nat /\ kbProps[p] \in Proposal /\ KbRowHolds(p)
  BY <1>0, <1>1, KbTables DEF KbInv
<1>5. ASSUME NEW r \in 1..Len(kbRevs)
      PROVE  /\ r \in Nat /\ kbRevs[r].body \in Content /\ kbRevs[r].page \in Pages
             /\ kbRevs[r].body.cites \in SUBSET Nat /\ KbText(kbRevs[r].body)
 <2>1. kbRevs[r] \in [page: Pages, body: Content, prop: Nat] BY <1>0, KbTables
 <2>2. kbRevs[r].body \in Content /\ kbRevs[r].page \in Pages BY <2>1
 <2>3. kbRevs[r].body.cites \in SUBSET Nat BY <2>2 DEF Content
 <2> QED BY <1>0, <1>1, <2>2, <2>3 DEF KbRevsHold
<1> QED BY <1>1, <1>2, <1>3, <1>4, <1>5

\* A deleted source is proposed for retraction.
LEMMA KbRetractStep ==
  ASSUME KbInv, NEW s \in Sources, NEW r \in SourceRevs, KbRetractSource(s, r)
  PROVE  KbInv'
<1>0. /\ KbQuiet /\ UNCHANGED <<kbFile, kbKnown, kbOp, kbLock, kbFaults>> /\ Free
      /\ kbRequests' \in 0..MaxRequests
  BY KbIdleFits DEF KbRetractSource, KbQuiet, kbWikiVars, kbIndexVars, KbInv
<1>1. PICK ingests : ingests = {p \in DOMAIN kbProps : /\ kbProps[p].kind = "ingest" /\ kbProps[p].page = s
                                                       /\ kbProps[p].source = r /\ Projected(p)}
  OBVIOUS
<1>2. PICK orig : orig = Youngest(ingests) OBVIOUS
<1>3. ingests # {} BY <1>1 DEF KbRetractSource
<1>4. orig \in Nat
 <2>1. ingests \in SUBSET (1..KbCount) /\ \A p \in ingests : Projected(p) BY <1>1, KbNumbers
 <2>2. orig \in ingests BY <1>2, <1>3, <2>1, KbYoungestIsOne
 <2> QED BY <2>1, <2>2, KbNumbers
<1>5. PICK body : body = Body("tombstone", KbCount + 1, {}) OBVIOUS
<1>6. body \in Content /\ body.kind = "tombstone" BY <1>5, KbBodies, KbNumbers
<1>7. PICK new : new = NewProposal("retraction", s, r, body, KbCurrent(s), {}, orig) OBVIOUS
<1>8. s \in Pages /\ KbCurrent(s) \in KbAges /\ KbCurrent(s) \in Nat /\ r \in Nat /\ "retraction" \in ChangeKinds
  BY KbNumbers, KbAssumption DEF Pages, ChangeKinds
<1>9. /\ new \in Proposal /\ new.kind = "retraction" /\ new.body = body /\ new.base = KbCurrent(s)
      /\ new.applied = 0 /\ new.undone = 0 /\ new.status = "pending"
  BY <1>4, <1>6, <1>7, <1>8, KbNewRow
<1>10. kbProps' = Append(kbProps, new) BY <1>1, <1>2, <1>5, <1>7 DEF KbRetractSource, KbCount
<1>11. KbText(new.body) /\ new.kind # "synthesis" /\ new.base \in KbAges
  BY <1>6, <1>8, <1>9 DEF KbText
<1> QED BY <1>0, <1>9, <1>10, <1>11, KbProposeStep

\* A recorded revision is proposed again.
LEMMA KbRollbackStep ==
  ASSUME KbInv, NEW r \in DOMAIN kbRevs, KbRollback(r)
  PROVE  KbInv'
<1>0. /\ KbQuiet /\ UNCHANGED <<kbFile, kbKnown, kbOp, kbLock, kbFaults>> /\ Free
      /\ kbRequests' \in 0..MaxRequests
  BY KbIdleFits DEF KbRollback, KbQuiet, kbWikiVars, kbIndexVars, KbInv
<1>1. PICK body : body = kbRevs[r].body OBVIOUS
<1>2. PICK page : page = kbRevs[r].page OBVIOUS
<1>3. PICK row : row = NewProposal("rollback", page, r, body, KbCurrent(page), {}, 0) OBVIOUS
<1>4. r \in 1..Len(kbRevs) BY KbNumbers
<1>5. r \in Nat /\ body \in Content /\ page \in Pages /\ KbText(body) BY <1>1, <1>2, <1>4, KbNumbers
<1>6. KbCurrent(page) \in KbAges /\ KbCurrent(page) \in Nat /\ "rollback" \in ChangeKinds
  BY <1>5, KbNumbers DEF ChangeKinds
<1>7. /\ row \in Proposal /\ row.kind = "rollback" /\ row.body = body /\ row.base = KbCurrent(page)
      /\ row.applied = 0 /\ row.undone = 0 /\ row.status = "pending" BY <1>3, <1>5, <1>6, KbNewRow
<1>8. PICK new : new = [row EXCEPT !.action = "require_review"] OBVIOUS
<1>9. /\ new \in Proposal /\ new.kind = "rollback" /\ new.body = body /\ new.base = KbCurrent(page)
      /\ new.applied = 0 /\ new.undone = 0 /\ new.status = "pending" BY <1>7, <1>8, KbDecidedRow
<1>10. kbProps' = Append(kbProps, new) BY <1>1, <1>2, <1>3, <1>8 DEF KbRollback
<1>11. KbText(new.body) /\ new.kind # "synthesis" /\ new.base \in KbAges BY <1>5, <1>6, <1>9
<1> QED BY <1>0, <1>9, <1>10, <1>11, KbProposeStep

\* The overview and the learning page are derived again.
LEMMA KbDerivedRow ==
  ASSUME NEW kind \in {"synthesis", "learning"}, NEW page \in {"overview", "learning"},
         NEW body \in Content, NEW base \in Nat, NEW cites \in SUBSET Nat
  PROVE  LET new == NewProposal(kind, page, 0, body, base, cites, 0) IN
         /\ new \in Proposal /\ new.kind = kind /\ new.page = page /\ new.body = body /\ new.base = base
         /\ new.applied = 0 /\ new.undone = 0 /\ new.status = "pending"
<1>1. kind \in ChangeKinds /\ page \in Pages /\ 0 \in Nat BY DEF ChangeKinds, Pages
<1> QED BY <1>1, KbNewRow

\* A page derived from others, proposed against its current revision.
LEMMA KbDerivedStep ==
  ASSUME KbInv, NEW a \in Actors, NEW kind \in {"synthesis", "learning"}, NEW page \in {"overview", "learning"},
         kind = "synthesis" => page = "overview", NEW all \in SUBSET Nat, NEW cites \in SUBSET Nat,
         KbQuiet, Free, UNCHANGED <<kbFile, kbKnown, kbLock, kbFaults>>, kbRequests' \in 0..MaxRequests,
         kbProps' = Append(kbProps, NewProposal(kind, page, 0, Body("derived", 0, all), KbCurrent(page), cites, 0)),
         kbOp' = [kbOp EXCEPT ![a] = [Idle EXCEPT !.pc = "read", !.p = Len(kbProps) + 1, !.then = "policy"]]
  PROVE  KbInv'
<1>1. PICK body : body = Body("derived", 0, all) OBVIOUS
<1>2. body \in Content /\ body.kind = "derived" BY <1>1, KbBodies
<1>3. PICK new : new = NewProposal(kind, page, 0, body, KbCurrent(page), cites, 0) OBVIOUS
<1>4. page \in Pages /\ kind \in ChangeKinds BY DEF Pages, ChangeKinds
<1>5. KbCurrent(page) \in KbAges /\ KbCurrent(page) \in Nat BY <1>4, KbNumbers
<1>6. /\ new \in Proposal /\ new.kind = kind /\ new.page = page /\ new.body = body /\ new.base = KbCurrent(page)
      /\ new.applied = 0 /\ new.undone = 0 /\ new.status = "pending"
  BY <1>2, <1>3, <1>5, KbDerivedRow
<1>7. kbProps' = Append(kbProps, new) BY <1>1, <1>3
<1>8. PICK op : op = [Idle EXCEPT !.pc = "read", !.p = KbCount + 1, !.then = "policy"] OBVIOUS
<1>9. op \in Ops /\ op.pc = "read" /\ op.p = KbCount + 1 /\ op.then = "policy"
 <2>1. KbCount + 1 \in Nat BY KbNumbers
 <2> QED BY <1>8, <2>1, KbIdleFits DEF Ops
<1>10. kbOp' = [kbOp EXCEPT ![a] = op] BY <1>8 DEF KbCount
<1>11. KbOpFits(op)' BY <1>6, <1>7, <1>9, KbFitsNew DEF KbQuiet
<1>12. KbText(new.body) /\ new.base \in KbAges /\ (new.kind = "synthesis" => new.page = "overview")
  BY <1>2, <1>5, <1>6 DEF KbText
<1> QED BY <1>6, <1>7, <1>9, <1>10, <1>11, <1>12, KbBeginStep DEF Projecting

\* The overview is synthesised from the current revisions of the sources.
LEMMA KbSynthesisStep ==
  ASSUME KbInv, NEW a \in Actors, KbSynthesis(a)
  PROVE  KbInv'
<1>0. /\ KbQuiet /\ UNCHANGED <<kbFile, kbKnown, kbLock, kbFaults>> /\ Free
      /\ kbRequests' \in 0..MaxRequests
  BY KbIdleFits DEF KbSynthesis, KbQuiet, kbWikiVars, kbIndexVars, KbInv
<1>1. PICK cites : cites = {r \in {KbCurrent(s) : s \in Sources} \ {0} : kbProps[kbRevs[r].prop].kind = "ingest"}
  OBVIOUS
<1>2. cites \in SUBSET Nat
 <2>1. \A s \in Sources : KbCurrent(s) \in Nat BY KbNumbers DEF Pages
 <2> QED BY <1>1, <2>1
<1>3. /\ kbProps' = Append(kbProps, NewProposal("synthesis", "overview", 0, Body("derived", 0, cites),
                                                KbCurrent("overview"), cites, 0))
      /\ kbOp' = [kbOp EXCEPT ![a] = [Idle EXCEPT !.pc = "read", !.p = Len(kbProps) + 1, !.then = "policy"]]
  BY <1>1 DEF KbSynthesis
<1> QED BY <1>0, <1>2, <1>3, KbDerivedStep

\* A learning note is added to the current one.
LEMMA KbLearnStep ==
  ASSUME KbInv, NEW a \in Actors, NEW cites \in SUBSET {kbIndex[s] : s \in Sources}, KbLearn(a, cites)
  PROVE  KbInv'
<1>0. /\ KbQuiet /\ UNCHANGED <<kbFile, kbKnown, kbLock, kbFaults>> /\ Free
      /\ kbRequests' \in 0..MaxRequests
  BY KbIdleFits DEF KbLearn, KbQuiet, kbWikiVars, kbIndexVars, KbInv
<1>1. PICK base : base = KbCurrent("learning") OBVIOUS
<1>2. PICK old : old = IF base = 0 THEN {} ELSE kbRevs[base].body.cites OBVIOUS
<1>3. cites \in SUBSET Nat BY DEF KbInv, KbTypeOK, Pages
<1>4. old \in SUBSET Nat
 <2>1. base \in KbAges BY <1>1, KbNumbers DEF Pages
 <2>2. base # 0 => base \in 1..Len(kbRevs) BY <2>1 DEF KbAges
 <2> QED BY <1>2, <2>2, KbNumbers
<1>5. PICK all : all = cites \cup old OBVIOUS
<1>6. all \in SUBSET Nat BY <1>3, <1>4, <1>5
<1>7. /\ kbProps' = Append(kbProps, NewProposal("learning", "learning", 0, Body("derived", 0, all),
                                                KbCurrent("learning"), cites, 0))
      /\ kbOp' = [kbOp EXCEPT ![a] = [Idle EXCEPT !.pc = "read", !.p = Len(kbProps) + 1, !.then = "policy"]]
  BY <1>1, <1>2, <1>5 DEF KbLearn
<1> QED BY <1>0, <1>3, <1>6, <1>7, KbDerivedStep

\* What the policy applied is proposed to be undone.
LEMMA KbUndoStep ==
  ASSUME KbInv, NEW a \in Actors, NEW p \in DOMAIN kbProps, KbUndo(a, p)
  PROVE  KbInv'
<1>0. /\ KbQuiet /\ UNCHANGED <<kbFile, kbKnown, kbLock, kbFaults>> /\ Free
      /\ kbRequests' \in 0..MaxRequests
  BY KbIdleFits DEF KbUndo, KbQuiet, kbWikiVars, kbIndexVars, KbInv
<1>1. PICK pr : pr = kbProps[p] OBVIOUS
<1>2. p \in 1..KbCount /\ pr \in Proposal /\ KbRowHolds(p) /\ p \in Nat BY <1>1, KbNumbers
<1>3. pr.base \in KbAges /\ pr.applied \in KbAges /\ pr.applied # 0 /\ pr.page \in Pages /\ pr.source \in Nat
  BY <1>1, <1>2 DEF KbRowHolds, KbUndo, Proposal
<1>4. pr.base \in Nat /\ pr.applied \in Nat /\ (pr.base # 0 => pr.base \in 1..Len(kbRevs))
 <2>1. KbAges \subseteq Nat BY KbNumbers
 <2>2. pr.base # 0 => pr.base \in 1..Len(kbRevs) BY <1>3 DEF KbAges
 <2> QED BY <1>3, <2>1, <2>2
<1>5. PICK row : row = IF pr.base # 0
              THEN NewProposal("rollback", pr.page, pr.base, kbRevs[pr.base].body, pr.applied, {}, 0)
              ELSE NewProposal("retraction", pr.page, pr.source, Body("tombstone", KbCount + 1, {}),
                               pr.applied, {}, p) OBVIOUS
<1>6. /\ row \in Proposal /\ row.kind # "synthesis" /\ row.base = pr.applied /\ KbText(row.body)
      /\ row.applied = 0 /\ row.undone = 0 /\ row.status = "pending"
      /\ IF pr.base = 0 THEN row.body.kind = "tombstone" ELSE row.body = kbRevs[pr.base].body
 <2>1. CASE pr.base # 0
  <3>1. PICK body : body = kbRevs[pr.base].body OBVIOUS
  <3>2. body \in Content /\ KbText(body) BY <1>4, <2>1, <3>1, KbNumbers
  <3>3. row = NewProposal("rollback", pr.page, pr.base, body, pr.applied, {}, 0) BY <1>5, <2>1, <3>1
  <3>4. /\ row \in Proposal /\ row.kind = "rollback" /\ row.base = pr.applied /\ row.body = body
        /\ row.applied = 0 /\ row.undone = 0 /\ row.status = "pending"
    BY <1>3, <1>4, <3>2, <3>3, KbNewRow DEF ChangeKinds
  <3> QED BY <2>1, <3>1, <3>2, <3>4
 <2>2. CASE pr.base = 0
  <3>1. PICK body : body = Body("tombstone", KbCount + 1, {}) OBVIOUS
  <3>2. body \in Content /\ body.kind = "tombstone" BY <3>1, KbBodies, KbNumbers
  <3>3. row = NewProposal("retraction", pr.page, pr.source, body, pr.applied, {}, p)
    BY <1>5, <2>2, <3>1
  <3>4. /\ row \in Proposal /\ row.kind = "retraction" /\ row.base = pr.applied /\ row.body = body
        /\ row.applied = 0 /\ row.undone = 0 /\ row.status = "pending"
    BY <1>2, <1>3, <1>4, <3>2, <3>3, KbNewRow DEF ChangeKinds
  <3> QED BY <2>2, <3>2, <3>4 DEF KbText
 <2> QED BY <2>1, <2>2
<1>7. PICK new : new = [row EXCEPT !.action = "require_review"] OBVIOUS
<1>8. /\ new \in Proposal /\ new.kind = row.kind /\ new.body = row.body /\ new.base = row.base
      /\ new.applied = 0 /\ new.undone = 0 /\ new.status = "pending" BY <1>6, <1>7, KbDecidedRow
<1>9. kbProps' = Append(kbProps, new) BY <1>1, <1>5, <1>7 DEF KbUndo, KbCount
<1>10. PICK op : op = [Idle EXCEPT !.pc = "approve", !.p = KbCount + 1, !.then = "undo", !.orig = p]
  OBVIOUS
<1>11. op \in Ops /\ op.pc = "approve" /\ op.p = KbCount + 1 /\ op.then = "undo" /\ op.orig = p
 <2>1. KbCount + 1 \in Nat BY KbNumbers
 <2> QED BY <1>2, <1>10, <2>1, KbIdleFits DEF Ops
<1>12. kbOp' = [kbOp EXCEPT ![a] = op] BY <1>10 DEF KbUndo, KbCount
<1>13. KbOpFits(op)' BY <1>0, <1>1, <1>2, <1>3, <1>6, <1>8, <1>9, <1>11, KbFitsNew DEF KbQuiet
<1>14. KbText(new.body) /\ new.base \in KbAges /\ (new.kind = "synthesis" => new.page = "overview")
  BY <1>3, <1>6, <1>8
<1> QED BY <1>0, <1>8, <1>9, <1>11, <1>12, <1>13, <1>14, KbBeginStep DEF Projecting

\* An approval takes the lock.
LEMMA KbLockStep ==
  ASSUME KbInv, KbTypeOK', KbGrows, KbQuiet, Free, NEW a \in Actors, kbLock' = a,
         NEW op, op.pc = "project", kbOp' = [kbOp EXCEPT ![a] = op], KbOpFits(op),
         kbProps'[op.p].status = "approved", kbProps'[op.p].proj # "complete",
         KbCount' = KbCount,
         \A p \in 1..KbCount : kbProps'[p] = kbProps[p] \/ KbRowHolds(p)'
  PROVE  KbInv'
<1>0. KbTypeOK BY DEF KbInv
<1>1. KbRevsHold' /\ KbStageHolds' /\ KbWikiHolds' /\ KbIndexIsCurrent' BY KbQuietHolds
<1>2. kbOp'[a] = op /\ (\A b \in Actors : b # a => kbOp'[b] = kbOp[b]) BY <1>0 DEF KbTypeOK
<1>4. ASSUME NEW b \in Actors PROVE KbOpHolds(b)'
 <2>1. CASE b = a
  <3>1. KbOpFits(op)' BY KbFitsStays
  <3>2. KbOpFits(kbOp[b])' BY <1>2, <2>1, <3>1 DEF KbOpFits, KbUndoes, Projected
  <3> QED BY <2>1, <3>2 DEF KbOpHolds
 <2>2. CASE b # a
  <3>1. kbOp[b].pc \notin Projecting BY KbAssumption DEF KbInv, KbOpHolds, Free
  <3> QED BY <1>2, <2>2, <3>1, KbOpStays
 <2> QED BY <2>1, <2>2
<1>5. KbLockHolds'
 <2>1. PICK p : p = op.p OBVIOUS
 <2>2. KbSees(p, "project")' BY DEF KbSees
 <2>3. kbOp'[kbLock'].p = p /\ kbOp'[kbLock'].pc = "project" BY <1>2, <2>1
 <2>4. KbSees(kbOp[kbLock].p, kbOp[kbLock].pc)' BY <2>2, <2>3, KbSeesOfHolder
 <2> QED BY <1>2, <2>4 DEF KbLockHolds, Projecting
<1>6. ASSUME NEW p \in 1..KbCount' PROVE KbRowHolds(p)'
 <2>1. CASE kbProps'[p] = kbProps[p]
  <3>1. KbAges \subseteq KbAges' /\ p \in 1..KbCount BY KbStays
  <3>2. kbProps'[p].applied \in KbAges' BY <2>1, <3>1 DEF KbInv, KbRowHolds
  <3>3. (Projected(p)' => Projected(p)) /\ kbProps'[p].undone = kbProps[p].undone
    BY <2>1 DEF Projected
  <3> QED BY <3>1, <3>2, <3>3, KbRowStays
 <2>2. CASE kbProps'[p] # kbProps[p] BY <2>2
 <2> QED BY <2>1, <2>2
<1> QED BY <1>1, <1>4, <1>5, <1>6 DEF KbInv

\* A pending proposal whose base holds is approved.
LEMMA KbApprovedStep ==
  ASSUME KbInv, KbQuiet, Free, UNCHANGED <<kbFile, kbKnown, kbFaults>>,
         kbRequests' \in 0..MaxRequests, NEW a \in Actors, kbLock' = a,
         NEW op \in Ops, op.pc = "project", kbOp' = [kbOp EXCEPT ![a] = op], KbOpFits(op),
         kbProps[op.p].status = "pending",
         kbProps' = [kbProps EXCEPT ![op.p].status = "approved", ![op.p].proj = "pending",
                                    ![op.p].revision = @ + 1]
  PROVE  KbInv'
<1>0. KbTypeOK BY DEF KbInv
<1>1. PICK p : p = op.p OBVIOUS
<1>2. p \in 1..KbCount BY <1>1 DEF KbOpFits
<1>3. kbProps[p] \in Proposal /\ KbRowHolds(p) BY <1>2, KbNumbers
<1>4. PICK old : old = kbProps[p] OBVIOUS
<1>5. PICK rev : rev = old.revision + 1 OBVIOUS
<1>6. PICK new : new = [old EXCEPT !.status = "approved", !.proj = "pending", !.revision = rev]
  OBVIOUS
<1>7. old \in Proposal /\ rev \in Nat BY <1>3, <1>4, <1>5 DEF Proposal
<1>8. new \in Proposal BY <1>6, <1>7 DEF Proposal
<1>9. kbProps' = [kbProps EXCEPT ![p] = new]
 <2>1. DOMAIN kbProps = 1..KbCount BY KbNumbers
 <2> QED BY <1>1, <1>2, <1>4, <1>5, <1>6, <1>7, <2>1 DEF Proposal
<1>10. /\ new.kind = old.kind /\ new.page = old.page /\ new.body = old.body /\ new.base = old.base
       /\ new.status = "approved" /\ new.proj = "pending" /\ new.applied = old.applied /\ new.undone = old.undone
  BY <1>6, <1>7 DEF Proposal
<1>11. /\ kbProps' \in Seq(Proposal) /\ KbCount' = KbCount /\ kbProps'[p] = new
       /\ \A q \in 1..KbCount : q # p => kbProps'[q] = kbProps[q] BY <1>2, <1>8, <1>9, KbChanged
<1>12. KbTypeOK'
 <2>1. kbOp' \in [Actors -> Ops] /\ kbFile' \in [Sources -> SourceRevs]
       /\ kbKnown' \in [Sources -> SourceRevs \cup {0}] /\ kbFaults' \in 0..MaxFaults
   BY <1>0 DEF KbTypeOK
 <2>2. kbRevs' \in Seq([page: Pages, body: Content, prop: Nat]) BY <1>0 DEF KbTypeOK, KbQuiet
 <2>3. /\ kbWork' \in [Files -> Content] /\ kbStage' \in [Files -> Content] /\ kbHead' \in [Files -> Content]
       /\ kbSaved' \in [Files -> Content] /\ kbLate' \subseteq Files
       /\ kbIndex' \in [Pages -> Nat] /\ kbIndexErr' \subseteq Nat BY <1>0 DEF KbTypeOK, KbQuiet
 <2> QED BY <1>11, <2>1, <2>2, <2>3 DEF KbTypeOK
<1>13. ~Projected(p) /\ ~Projected(p)' /\ KbKeepsRow(p)
  BY <1>1, <1>4, <1>10, <1>11 DEF Projected, KbKeepsRow
<1>14. KbGrows
 <2>1. \A q \in 1..KbCount : KbKeepsRow(q) BY <1>11, <1>13 DEF KbKeepsRow, Projected
 <2>2. KbCount <= KbCount' /\ Len(kbRevs) <= Len(kbRevs') /\ \A r \in 1..Len(kbRevs) : kbRevs'[r] = kbRevs[r]
   BY <1>0, <1>11, KbTables DEF KbQuiet
 <2> QED BY <2>1, <2>2 DEF KbGrows
<1>15. KbRowHolds(p)'
 <2>1. kbProps'[p].applied \in KbAges' BY <1>3, <1>4, <1>10, <1>11 DEF KbRowHolds, KbAges, KbQuiet
 <2>2. kbProps'[p].undone = kbProps[p].undone BY <1>4, <1>10, <1>11
 <2> QED BY <1>2, <1>12, <1>13, <1>14, <2>1, <2>2, KbRowStays
<1>16. \A q \in 1..KbCount : kbProps'[q] = kbProps[q] \/ KbRowHolds(q)' BY <1>11, <1>15
<1>17. kbProps'[op.p].status = "approved" /\ kbProps'[op.p].proj # "complete" BY <1>1, <1>10, <1>11
<1> QED BY <1>11, <1>12, <1>14, <1>16, <1>17, KbLockStep

\* An approved proposal is projected again.
LEMMA KbRetriedStep ==
  ASSUME KbInv, KbQuiet, Free, UNCHANGED <<kbFile, kbKnown, kbFaults, kbProps>>,
         kbRequests' \in 0..MaxRequests, NEW a \in Actors, kbLock' = a,
         NEW op \in Ops, op.pc = "project", kbOp' = [kbOp EXCEPT ![a] = op], KbOpFits(op),
         kbProps[op.p].status = "approved", kbProps[op.p].proj # "complete"
  PROVE  KbInv'
<1>0. KbTypeOK BY DEF KbInv
<1>1. KbTypeOK'
 <2>1. kbOp' \in [Actors -> Ops] /\ kbFile' \in [Sources -> SourceRevs] /\ kbProps' \in Seq(Proposal)
       /\ kbKnown' \in [Sources -> SourceRevs \cup {0}] /\ kbFaults' \in 0..MaxFaults
   BY <1>0 DEF KbTypeOK
 <2>2. kbRevs' \in Seq([page: Pages, body: Content, prop: Nat]) BY <1>0 DEF KbTypeOK, KbQuiet
 <2>3. /\ kbWork' \in [Files -> Content] /\ kbStage' \in [Files -> Content] /\ kbHead' \in [Files -> Content]
       /\ kbSaved' \in [Files -> Content] /\ kbLate' \subseteq Files
       /\ kbIndex' \in [Pages -> Nat] /\ kbIndexErr' \subseteq Nat BY <1>0 DEF KbTypeOK, KbQuiet
 <2> QED BY <2>1, <2>2, <2>3 DEF KbTypeOK
<1>2. KbGrows /\ KbCount' = KbCount
  BY KbTables, <1>0 DEF KbGrows, KbKeepsRow, KbQuiet, Projected, KbCount
<1>3. \A p \in 1..KbCount : kbProps'[p] = kbProps[p] OBVIOUS
<1>4. kbProps'[op.p].status = "approved" /\ kbProps'[op.p].proj # "complete" OBVIOUS
<1> QED BY <1>1, <1>2, <1>3, <1>4, KbLockStep

\* The caller goes on with what has been projected.
LEMMA KbContinued ==
  ASSUME NEW op \in Ops, KbOpFits(op), op.p \in 1..KbCount
  PROVE  /\ Continue(op) \in Ops /\ Continue(op).pc \notin Projecting
         /\ KbInv /\ Projected(op.p) => KbOpFits(Continue(op))
<1>1. CASE op.then \in {"policy", "migrate"}
 <2>1. Continue(op) = [op EXCEPT !.pc = "applied"] BY <1>1 DEF Continue
 <2>2. PICK new : new = Continue(op) OBVIOUS
 <2>3. new \in Ops /\ new.pc = "applied" /\ new.p = op.p /\ new.then = op.then /\ new.orig = op.orig
   BY <2>1, <2>2 DEF Ops
 <2>4. Projected(op.p) => KbOpFits(new) BY <1>1, <2>3 DEF KbOpFits
 <2> QED BY <2>2, <2>3, <2>4 DEF Projecting
<1>2. CASE op.then = "undo"
 <2>1. Continue(op) = [op EXCEPT !.pc = "undone"] BY <1>2 DEF Continue
 <2>2. PICK new : new = Continue(op) OBVIOUS
 <2>3. new \in Ops /\ new.pc = "undone" /\ new.p = op.p /\ new.then = op.then /\ new.orig = op.orig
   BY <2>1, <2>2 DEF Ops
 <2>4. Projected(op.p) => KbOpFits(new) BY <1>2, <2>3 DEF KbOpFits
 <2> QED BY <2>2, <2>3, <2>4 DEF Projecting
<1>3. CASE op.then \notin {"policy", "migrate", "undo"}
 <2>1. Continue(op) = Idle BY <1>3 DEF Continue
 <2> QED BY <2>1, KbIdleFits DEF Projecting
<1> QED BY <1>1, <1>2, <1>3

\* approve, of the revision the caller was shown.
LEMMA KbApproveStep ==
  ASSUME KbInv, NEW a \in Actors, NEW op \in Ops, KbOpFits(op), op.p \in 1..KbCount,
         kbOp[a].pc \notin Projecting, Approve(a, op), kbRequests' \in 0..MaxRequests
  PROVE  KbInv'
<1>0. /\ KbQuiet /\ UNCHANGED <<kbFile, kbKnown, kbFaults>> /\ Free
  BY DEF Approve, KbQuiet, kbWikiVars, kbIndexVars
<1>1. PICK pr : pr = kbProps[op.p] OBVIOUS
<1>2. PICK fresh : fresh = (pr.status = "pending" /\ pr.revision = op.rev /\ BaseHolds(op.p))
  OBVIOUS
<1>3. PICK retry : retry = (pr.status = "approved" /\ pr.revision = op.rev /\ pr.proj # "complete")
  OBVIOUS
<1>4. PICK done : done = (Projected(op.p) /\ (pr.revision = op.rev \/ op.then \in {"policy", "migrate"}))
  OBVIOUS
<1>5. /\ kbProps' = IF fresh
                      THEN [kbProps EXCEPT ![op.p].status = "approved", ![op.p].proj = "pending",
                                           ![op.p].revision = @ + 1]
                      ELSE kbProps
      /\ kbLock' = IF fresh \/ retry THEN a ELSE kbLock
      /\ kbOp' = [kbOp EXCEPT ![a] =
           IF fresh \/ retry
             THEN [op EXCEPT !.pc = "project"]
             ELSE IF done THEN Continue(op) ELSE Idle] BY <1>1, <1>2, <1>3, <1>4 DEF Approve
<1>6. PICK new : new = [op EXCEPT !.pc = "project"] OBVIOUS
<1>7. new \in Ops /\ new.pc = "project" /\ new.p = op.p /\ new.then = op.then /\ new.orig = op.orig
  BY <1>6 DEF Ops, Projecting
<1>8. KbOpFits(new) BY <1>7 DEF KbOpFits
<1>9. CASE fresh
 <2>1. kbProps[new.p].status = "pending" BY <1>1, <1>2, <1>7, <1>9
 <2>2. kbProps' = [kbProps EXCEPT ![new.p].status = "approved", ![new.p].proj = "pending",
                                  ![new.p].revision = @ + 1] BY <1>5, <1>7, <1>9
 <2>3. kbLock' = a /\ kbOp' = [kbOp EXCEPT ![a] = new] BY <1>5, <1>6, <1>9
 <2> QED BY <1>0, <1>7, <1>8, <2>1, <2>2, <2>3, KbApprovedStep
<1>10. CASE ~fresh /\ retry
 <2>1. kbProps[new.p].status = "approved" /\ kbProps[new.p].proj # "complete"
   BY <1>1, <1>3, <1>7, <1>10
 <2>2. kbLock' = a /\ kbOp' = [kbOp EXCEPT ![a] = new] /\ kbProps' = kbProps BY <1>5, <1>6, <1>10
 <2> QED BY <1>0, <1>7, <1>8, <2>1, <2>2, KbRetriedStep
<1>11. CASE ~fresh /\ ~retry
 <2>1. PICK next : next = IF done THEN Continue(op) ELSE Idle OBVIOUS
 <2>2. kbLock' = kbLock /\ kbOp' = [kbOp EXCEPT ![a] = next] /\ kbProps' = kbProps
   BY <1>5, <1>11, <2>1
 <2>3. done => Projected(op.p) BY <1>4
 <2>4. next \in Ops /\ next.pc \notin Projecting /\ KbOpFits(next) BY <2>1, <2>3, KbContinued, KbIdleFits DEF Projecting
 <2> QED BY <1>0, <2>2, <2>4, KbOpStep
<1> QED BY <1>9, <1>10, <1>11

\* A review, and the calls of the policy and of an undo.
LEMMA KbReviewSteps ==
  ASSUME KbInv, NEW a \in Actors
  PROVE  /\ \A p \in DOMAIN kbProps : \A rev \in 0..kbProps[p].revision : KbReview(a, p, rev) => KbInv'
         /\ KbApprove(a) \/ KbReject(a) => KbInv'
<1>0. KbTypeOK BY DEF KbInv
<1>1. ASSUME NEW p \in DOMAIN kbProps, NEW rev \in 0..kbProps[p].revision, KbReview(a, p, rev)
      PROVE  KbInv'
 <2>0. p \in 1..KbCount /\ p \in Nat /\ rev \in Nat
  <3>1. p \in 1..KbCount /\ p \in Nat BY KbNumbers
  <3> QED BY <3>1
 <2>1. PICK op : op = [Idle EXCEPT !.p = p, !.rev = rev, !.then = "user"] OBVIOUS
 <2>2. op \in Ops /\ op.pc = "idle" /\ op.p = p /\ op.then = "user"
   BY <2>0, <2>1, KbIdleFits DEF Ops
 <2>3. KbOpFits(op) BY <2>2 DEF KbOpFits
 <2>4. (Approve(a, op) \/ Reject(a, op)) /\ kbOp[a].pc \notin Projecting /\ kbRequests' \in 0..MaxRequests
   BY <1>0, <1>1, <2>1, KbIdleFits DEF KbReview, Projecting
 <2> QED BY <2>0, <2>2, <2>3, <2>4, KbApproveStep, KbRejectStep
<1>2. ASSUME KbApprove(a) \/ KbReject(a) PROVE KbInv'
 <2>1. PICK op : op = kbOp[a] OBVIOUS
 <2>2. op \in Ops /\ KbOpFits(op) /\ op.pc \in {"approve", "reject"} /\ (Approve(a, op) \/ Reject(a, op))
       /\ kbRequests' \in 0..MaxRequests
   BY <1>0, <1>2, <2>1 DEF KbApprove, KbReject, KbInv, KbOpHolds, KbTypeOK
 <2>3. op.p \in 1..KbCount BY <2>2 DEF KbOpFits
 <2>4. kbOp[a].pc \notin Projecting BY <2>1, <2>2 DEF Projecting
 <2> QED BY <2>2, <2>3, <2>4, KbApproveStep, KbRejectStep
<1> QED BY <1>1, <1>2

\* The projection under way: its proposal, and what it has seen.
LEMMA KbHolderSees ==
  ASSUME KbInv, NEW a \in Actors, kbOp[a].pc \in Projecting
  PROVE  LET p == kbOp[a].p  page == kbProps[p].page IN
         /\ kbLock = a /\ a # NoActor /\ p \in 1..KbCount /\ kbProps[p] \in Proposal /\ KbRowHolds(p)
         /\ kbProps[p].status = "approved" /\ ~Projected(p)
         /\ KbSees(p, kbOp[a].pc)
         /\ page \in Pages /\ page \in Files /\ Log \in Files /\ page # Log
<1>1. PICK p : p = kbOp[a].p OBVIOUS
<1>2. PICK page : page = kbProps[p].page OBVIOUS
<1>3. kbLock = a /\ a # NoActor /\ p \in 1..KbCount
  BY <1>1, KbAssumption DEF KbInv, KbOpHolds, KbOpFits, Projecting
<1>4. kbProps[p] \in Proposal /\ KbRowHolds(p) BY <1>3, KbNumbers
<1>5. kbProps[p].status = "approved" /\ kbProps[p].proj # "complete" /\ KbSees(p, kbOp[a].pc)
  BY <1>1, <1>3 DEF KbInv, KbLockHolds
<1>6. page \in Pages /\ page \in Files /\ Log \in Files /\ page # Log
  BY <1>2, <1>4, KbAssumption DEF Proposal, Files, Pages, Log
<1>7. ~Projected(p) BY <1>5 DEF Projected
<1> QED BY <1>1, <1>2, <1>3, <1>4, <1>5, <1>6, <1>7

\* The text a proposal was compared with is none that somebody else wrote.
LEMMA KbBaseIsText ==
  ASSUME KbInv, NEW p \in 1..KbCount
  PROVE  BaseText(kbProps[p]).kind # "edit"
<1>1. kbProps[p] \in Proposal /\ KbRowHolds(p) BY KbNumbers
<1>2. CASE kbProps[p].base = 0
 <2>1. kbProps[p].page \in Files BY <1>1 DEF Proposal, Files
 <2>2. InitialWiki[kbProps[p].page].kind # "edit" BY <2>1 DEF InitialWiki, Body, Absent
 <2> QED BY <1>2, <2>2 DEF BaseText
<1>3. CASE kbProps[p].base # 0
 <2>1. Len(kbRevs) \in Nat BY KbTables DEF KbInv
 <2>2. kbProps[p].base \in 1..Len(kbRevs) BY <1>1, <1>3, <2>1 DEF KbRowHolds, KbAges
 <2>3. KbText(kbRevs[kbProps[p].base].body) BY <2>2 DEF KbInv, KbRevsHold
 <2> QED BY <1>3, <2>3 DEF BaseText, KbText
<1> QED BY <1>2, <1>3

\* A file whose base holds is as it was committed, with the text the proposal
\* was compared with.
LEMMA KbBaseIsCommitted ==
  ASSUME KbInv, NEW p \in 1..KbCount, BaseHolds(p)
  PROVE  LET page == kbProps[p].page IN
         /\ kbWork[page] = kbHead[page] /\ kbStage[page] = kbHead[page]
         /\ kbWork[Log] = kbHead[Log] /\ kbStage[Log] = kbHead[Log]
         /\ BaseText(kbProps[p]) = kbHead[page]
<1>2. PICK page : page = kbProps[p].page OBVIOUS
<1>4. kbProps[p] \in Proposal /\ KbRowHolds(p) BY KbNumbers
<1>6. page \in Pages /\ (kbProps[p].kind = "synthesis" => page = "overview")
  BY <1>2, <1>4 DEF Proposal, KbRowHolds
<1>7. PICK cur : cur = KbCurrent(page) OBVIOUS
<1>8. /\ ~Dirty(Log) /\ ~Dirty(page) /\ kbProps[p].base = cur
      /\ cur = 0 => kbWork[page] = Absent \/ (kbProps[p].kind = "synthesis" /\ kbWork[page].kind = "initial")
      /\ cur # 0 => kbWork[page] = kbRevs[cur].body BY <1>2, <1>7 DEF BaseHolds
<1>9. /\ kbWork[page] = kbHead[page] /\ kbStage[page] = kbHead[page]
      /\ kbWork[Log] = kbHead[Log] /\ kbStage[Log] = kbHead[Log] BY <1>8 DEF Dirty
<1>10. BaseText(kbProps[p]) = kbWork[page]
 <2>1. CASE cur # 0 BY <1>8, <2>1 DEF BaseText
 <2>2. CASE cur = 0 /\ page = "overview"
  <3>1. page \in Files /\ KbKept(kbWork[page]) BY <1>6, <2>2 DEF KbInv, KbWikiHolds, Files
  <3>2. Absent.kind = "absent" BY DEF Absent, Body
  <3>3. kbWork[page] = Body("initial", 0, {}) BY <1>8, <2>2, <3>1, <3>2 DEF KbKept
  <3>4. InitialWiki[page] = Body("initial", 0, {}) BY <2>2, <3>1 DEF InitialWiki, Log
  <3> QED BY <1>2, <1>8, <2>2, <3>3, <3>4 DEF BaseText
 <2>3. CASE cur = 0 /\ page # "overview"
  <3>1. kbWork[page] = Absent BY <1>6, <1>8, <2>3
  <3>2. page \in Files /\ page # Log BY <1>6, KbAssumption DEF Files, Pages, Log
  <3>3. InitialWiki[page] = Absent BY <2>3, <3>2 DEF InitialWiki
  <3> QED BY <1>2, <1>8, <2>3, <3>1, <3>3 DEF BaseText
 <2> QED BY <2>1, <2>2, <2>3
<1> QED BY <1>2, <1>9, <1>10

\* The lock is released, by the end of a projection or by a crash.
LEMMA KbReleaseStep ==
  ASSUME KbInv, KbTypeOK', KbGrows, KbStageHolds', KbWikiHolds', KbRevsHold', KbIndexIsCurrent',
         kbLock' = NoActor, KbCount' = KbCount,
         \A p \in 1..KbCount : kbProps'[p] = kbProps[p] \/ KbRowHolds(p)',
         \A b \in Actors : \/ kbOp'[b] = kbOp[b] /\ kbOp[b].pc \notin Projecting
                           \/ kbOp'[b].pc \notin Projecting /\ KbOpFits(kbOp[b])'
  PROVE  KbInv'
<1>1. KbLockHolds' BY DEF KbLockHolds
<1>2. ASSUME NEW b \in Actors PROVE KbOpHolds(b)'
 <2>1. CASE kbOp'[b] = kbOp[b] /\ kbOp[b].pc \notin Projecting BY <2>1, KbOpStays
 <2>2. CASE kbOp'[b].pc \notin Projecting /\ KbOpFits(kbOp[b])' BY <2>2 DEF KbOpHolds
 <2> QED BY <2>1, <2>2
<1>3. ASSUME NEW p \in 1..KbCount' PROVE KbRowHolds(p)'
 <2>1. CASE kbProps'[p] = kbProps[p]
  <3>1. KbAges \subseteq KbAges' /\ p \in 1..KbCount BY KbStays
  <3>2. kbProps'[p].applied \in KbAges' BY <2>1, <3>1 DEF KbInv, KbRowHolds
  <3>3. (Projected(p)' => Projected(p)) /\ kbProps'[p].undone = kbProps[p].undone
    BY <2>1 DEF Projected
  <3> QED BY <3>1, <3>2, <3>3, KbRowStays
 <2>2. CASE kbProps'[p] # kbProps[p] BY <2>2
 <2> QED BY <2>1, <2>2
<1> QED BY <1>1, <1>2, <1>3 DEF KbInv

\* The row of the proposal that was projected, or could not be.
LEMMA KbProjRow ==
  ASSUME KbInv, NEW p \in 1..KbCount, NEW proj \in {"pending", "complete", "error"},
         kbProps' = [kbProps EXCEPT ![p].proj = proj]
  PROVE  /\ kbProps' \in Seq(Proposal) /\ KbCount' = KbCount
         /\ \A q \in 1..KbCount : q # p => kbProps'[q] = kbProps[q]
         /\ kbProps'[p].proj = proj /\ kbProps'[p].status = kbProps[p].status
         /\ kbProps'[p].applied = kbProps[p].applied /\ kbProps'[p].undone = kbProps[p].undone
         /\ ~Projected(p) => \A q \in 1..KbCount : KbKeepsRow(q)
<1>1. PICK old : old = kbProps[p] OBVIOUS
<1>2. old \in Proposal BY <1>1, KbNumbers
<1>3. PICK new : new = [old EXCEPT !.proj = proj] OBVIOUS
<1>4. new \in Proposal /\ kbProps' = [kbProps EXCEPT ![p] = new] BY <1>1, <1>2, <1>3 DEF Proposal
<1>5. /\ new.kind = old.kind /\ new.page = old.page /\ new.body = old.body /\ new.base = old.base
      /\ new.status = old.status /\ new.proj = proj /\ new.applied = old.applied /\ new.undone = old.undone
  BY <1>2, <1>3 DEF Proposal
<1>6. /\ kbProps' \in Seq(Proposal) /\ KbCount' = KbCount /\ kbProps'[p] = new
      /\ \A q \in 1..KbCount : q # p => kbProps'[q] = kbProps[q] BY <1>4, KbChanged
<1>7. ~Projected(p) => \A q \in 1..KbCount : KbKeepsRow(q)
  BY <1>1, <1>5, <1>6 DEF KbKeepsRow, Projected
<1> QED BY <1>1, <1>5, <1>6, <1>7

\* Nothing is staged by a step that leaves the git index and HEAD alone.
LEMMA KbStageStays ==
  ASSUME KbInv, KbTypeOK', KbGrows, UNCHANGED <<kbStage, kbHead>>
  PROVE  KbStageHolds'
<1>0. /\ \A p \in 1..KbCount : p \in 1..KbCount' /\ KbKeepsRow(p)
      /\ \A p \in 1..KbCount : BaseText(kbProps[p])' = BaseText(kbProps[p]) BY KbStays DEF KbGrows
<1> SUFFICES ASSUME NEW page \in Pages PROVE KbStaged(page)' BY DEF KbStageHolds
<1>1. KbStaged(page) BY DEF KbInv, KbStageHolds
<1>2. \A p \in 1..KbCount : KbReplaces(p, page, kbHead[page], kbStage[page]) =>
                             KbReplaces(p, page, kbHead[page], kbStage[page])'
  BY <1>0 DEF KbReplaces, KbKeepsRow
<1> QED BY <1>0, <1>1, <1>2 DEF KbStaged

\* Tables that are left alone grow.
LEMMA KbUntouched ==
  ASSUME KbInv, UNCHANGED <<kbProps, kbRevs>>
  PROVE  /\ KbGrows /\ KbCount' = KbCount /\ KbRevsHold'
         /\ kbProps' \in Seq(Proposal) /\ kbRevs' \in Seq([page: Pages, body: Content, prop: Nat])
         /\ \A p \in 1..KbCount : kbProps'[p] = kbProps[p]
         /\ \A page \in Pages : KbCurrent(page)' = KbCurrent(page)
<1>0. KbTypeOK BY DEF KbInv
<1>1. KbCount' = KbCount BY DEF KbCount
<1>2. KbGrows BY <1>0, <1>1, KbTables DEF KbGrows, KbKeepsRow, Projected
<1>3. KbRevsHold' BY <1>1 DEF KbInv, KbRevsHold
<1>4. kbProps' \in Seq(Proposal) /\ kbRevs' \in Seq([page: Pages, body: Content, prop: Nat])
  BY <1>0 DEF KbTypeOK
<1>5. \A page \in Pages : KbCurrent(page)' = KbCurrent(page) BY DEF KbCurrent
<1> QED BY <1>1, <1>2, <1>3, <1>4, <1>5

\* A projection fails: what was written is restored, what was staged is not.
LEMMA KbFailsStep ==
  ASSUME KbInv, NEW a \in Actors, KbProjectionFails(a)
  PROVE  KbInv'
<1>0. KbTypeOK BY DEF KbInv
<1>1. PICK p : p = kbOp[a].p OBVIOUS
<1>a. PICK page : page = kbProps[p].page OBVIOUS
<1>2. /\ kbOp[a].pc \in Projecting \ {"project", "backup"} /\ kbFaults' \in 0..MaxFaults
      /\ kbProps' = [kbProps EXCEPT ![p].proj = "error"] /\ kbLock' = NoActor
      /\ kbOp' = [kbOp EXCEPT ![a] = Idle]
      /\ kbSaved' = NoBackup /\ kbLate' = {}
      /\ UNCHANGED <<kbFile, kbKnown, kbRevs, kbStage, kbHead, kbIndex, kbIndexErr, kbRequests>>
  BY <1>0, <1>1, KbAssumption DEF KbProjectionFails, kbIndexVars, Release, KbTypeOK
<1>3. kbWork' = [kbWork EXCEPT ![page] = kbSaved[page], ![Log] = kbSaved[Log]]
  BY <1>1, <1>a DEF KbProjectionFails
<1>4. p \in 1..KbCount /\ kbLock = a /\ ~Projected(p) /\ KbRowHolds(p)
      /\ page \in Pages /\ page \in Files /\ Log \in Files /\ page # Log
      /\ KbKept(kbSaved["overview"])
  BY <1>1, <1>2, <1>a, KbHolderSees DEF KbSees
<1>b. /\ kbWork' \in [Files -> Content] /\ kbWork'[page] = kbSaved[page] /\ kbWork'[Log] = kbSaved[Log]
      /\ \A f \in Files : f # page /\ f # Log => kbWork'[f] = kbWork[f]
  BY <1>0, <1>3, <1>4 DEF KbTypeOK
<1>5. /\ kbProps' \in Seq(Proposal) /\ KbCount' = KbCount
      /\ \A q \in 1..KbCount : q # p => kbProps'[q] = kbProps[q]
      /\ kbProps'[p].proj = "error"
      /\ kbProps'[p].applied = kbProps[p].applied /\ kbProps'[p].undone = kbProps[p].undone
      /\ \A q \in 1..KbCount : KbKeepsRow(q) BY <1>2, <1>4, KbProjRow
<1>6. KbTypeOK'
 <2>1. /\ kbOp' \in [Actors -> Ops] /\ kbFile' \in [Sources -> SourceRevs]
       /\ kbKnown' \in [Sources -> SourceRevs \cup {0}] /\ kbLock' \in Actors \cup {NoActor}
       /\ kbIndex' \in [Pages -> Nat] /\ kbIndexErr' \subseteq Nat /\ kbRequests' \in 0..MaxRequests
   BY <1>0, <1>2, KbIdleFits DEF KbTypeOK
 <2>3. kbRevs' \in Seq([page: Pages, body: Content, prop: Nat]) BY <1>0, <1>2 DEF KbTypeOK
 <2>4. /\ kbStage' \in [Files -> Content] /\ kbHead' \in [Files -> Content]
       /\ kbSaved' \in [Files -> Content] /\ kbLate' \subseteq Files
   BY <1>0, <1>2, KbBodies DEF KbTypeOK, NoBackup, Absent
 <2> QED BY <1>2, <1>5, <1>b, <2>1, <2>3, <2>4 DEF KbTypeOK
<1>7. KbGrows
 <2>1. KbCount <= KbCount' /\ Len(kbRevs) <= Len(kbRevs') /\ \A r \in 1..Len(kbRevs) : kbRevs'[r] = kbRevs[r]
   BY <1>0, <1>2, <1>5, KbTables
 <2> QED BY <1>5, <2>1 DEF KbGrows
<1>c. KbStageHolds' BY <1>2, <1>6, <1>7, KbStageStays
<1>8. KbWikiHolds'
 <2>1. "overview" \in Files BY DEF Files, Pages
 <2>2. KbWikiHolds BY DEF KbInv
 <2>3. kbWork'["overview"] = kbWork["overview"] \/ kbWork'["overview"] = kbSaved["overview"]
   BY <1>b, <2>1
 <2> QED BY <1>2, <1>4, <2>2, <2>3 DEF KbWikiHolds, KbKept
<1>9. KbRevsHold' BY <1>2, <1>5 DEF KbInv, KbRevsHold
<1>10. KbIndexIsCurrent'
 <2>1. \A q \in Pages : KbCurrent(q)' = KbCurrent(q) BY <1>2 DEF KbCurrent
 <2> QED BY <1>2, <2>1 DEF KbInv, KbIndexIsCurrent
<1>11. KbRowHolds(p)'
 <2>1. kbProps'[p].applied \in KbAges' BY <1>2, <1>4, <1>5 DEF KbRowHolds, KbAges
 <2>2. ~Projected(p)' BY <1>5 DEF Projected
 <2> QED BY <1>4, <1>5, <1>6, <1>7, <2>1, <2>2, KbRowStays
<1>12. ASSUME NEW b \in Actors
       PROVE  \/ kbOp'[b] = kbOp[b] /\ kbOp[b].pc \notin Projecting
              \/ kbOp'[b].pc \notin Projecting /\ KbOpFits(kbOp[b])'
 <2>1. CASE b = a
  <3>1. kbOp'[b] = Idle /\ Idle.pc = "idle" /\ Idle.then = ""
    BY <1>0, <1>2, <2>1, KbIdleFits DEF KbTypeOK
  <3> QED BY <3>1 DEF KbOpFits, Projecting
 <2>2. CASE b # a BY <1>0, <1>2, <1>4, <2>2 DEF KbInv, KbOpHolds, KbTypeOK
 <2> QED BY <2>1, <2>2
<1>13. \A q \in 1..KbCount : kbProps'[q] = kbProps[q] \/ KbRowHolds(q)' BY <1>5, <1>11
<1> QED BY <1>2, <1>5, <1>6, <1>7, <1>8, <1>c, <1>9, <1>10, <1>12, <1>13, KbReleaseStep

\* A projection is recorded, with its revision and its index.
LEMMA KbRecordStep ==
  ASSUME KbInv, NEW a \in Actors, NEW ok \in BOOLEAN, KbRecord(a, ok)
  PROVE  KbInv'
<1>0. KbTypeOK BY DEF KbInv
<1>a. PICK op : op = kbOp[a] OBVIOUS
<1>1. PICK p : p = op.p OBVIOUS
<1>b. PICK page : page = kbProps[p].page OBVIOUS
<1>c. PICK row : row = [page |-> page, body |-> kbProps[p].body, prop |-> p] OBVIOUS
<1>d. PICK n : n = Len(kbRevs) + 1 OBVIOUS
<1>2. /\ op.pc = "record" /\ op.pc \in Projecting /\ (ok \/ kbFaults < MaxFaults)
      /\ kbFaults' = IF ok THEN kbFaults ELSE kbFaults + 1
      /\ kbRevs' = Append(kbRevs, row) /\ kbProps' = [kbProps EXCEPT ![p].proj = "complete"]
      /\ kbIndex' = [kbIndex EXCEPT ![page] = IF ok THEN n ELSE @]
      /\ kbIndexErr' = IF ok THEN kbIndexErr \ {n} ELSE kbIndexErr \cup {n}
      /\ kbLock' = NoActor /\ kbOp' = [kbOp EXCEPT ![a] = Continue(op)]
      /\ kbSaved' = NoBackup /\ kbLate' = {}
      /\ UNCHANGED <<kbFile, kbKnown, kbWork, kbStage, kbHead, kbRequests>>
  BY <1>a, <1>1, <1>b, <1>c, <1>d DEF KbRecord, At, Release, Indexed, Projecting
<1>4. p \in 1..KbCount /\ kbLock = a /\ ~Projected(p) /\ KbRowHolds(p) /\ kbProps[p].status = "approved"
      /\ kbProps[p] \in Proposal BY <1>a, <1>1, <1>2, KbHolderSees
<1>5. /\ kbProps' \in Seq(Proposal) /\ KbCount' = KbCount
      /\ \A q \in 1..KbCount : q # p => kbProps'[q] = kbProps[q]
      /\ kbProps'[p].proj = "complete" /\ kbProps'[p].status = "approved"
      /\ kbProps'[p].applied = kbProps[p].applied /\ kbProps'[p].undone = kbProps[p].undone
      /\ \A q \in 1..KbCount : KbKeepsRow(q) BY <1>2, <1>4, KbProjRow
<1>6. row \in [page: Pages, body: Content, prop: Nat] /\ page \in Pages /\ p \in Nat
 <2>1. p \in Nat /\ page \in Pages /\ kbProps[p].body \in Content
   BY <1>b, <1>4, KbNumbers DEF Proposal
 <2> QED BY <1>c, <2>1
<1>7. /\ Len(kbRevs') = n /\ kbRevs'[n] = row
      /\ \A r \in 1..Len(kbRevs) : kbRevs'[r] = kbRevs[r]
      /\ kbRevs' \in Seq([page: Pages, body: Content, prop: Nat])
      /\ KbCurrent(row.page)' = n
      /\ \A q \in Pages : q # row.page => KbCurrent(q)' = KbCurrent(q)
  BY <1>0, <1>2, <1>6, <1>d, KbCurrentAfter
<1>8. n \in Nat /\ Len(kbRevs) \in Nat /\ n \in 1..n /\ (\A r \in 1..n : r = n \/ r \in 1..Len(kbRevs))
  BY <1>0, <1>d, KbTables
<1>9. Continue(op) \in Ops /\ Continue(op).pc \notin Projecting
  BY <1>0, <1>a, <1>1, <1>4, KbContinued DEF KbInv, KbOpHolds, KbTypeOK
<1>10. KbTypeOK'
 <2>1. /\ kbOp' \in [Actors -> Ops] /\ kbFile' \in [Sources -> SourceRevs]
       /\ kbKnown' \in [Sources -> SourceRevs \cup {0}] /\ kbLock' \in Actors \cup {NoActor}
       /\ kbRequests' \in 0..MaxRequests BY <1>0, <1>2, <1>9 DEF KbTypeOK
 <2>2. kbFaults' \in 0..MaxFaults BY <1>0, <1>2, KbAssumption DEF KbTypeOK
 <2>3. kbIndex' \in [Pages -> Nat] /\ kbIndexErr' \subseteq Nat BY <1>0, <1>2, <1>8 DEF KbTypeOK
 <2>4. /\ kbWork' \in [Files -> Content] /\ kbStage' \in [Files -> Content] /\ kbHead' \in [Files -> Content]
       /\ kbSaved' \in [Files -> Content] /\ kbLate' \subseteq Files
   BY <1>0, <1>2, KbBodies DEF KbTypeOK, NoBackup, Absent
 <2> QED BY <1>5, <1>7, <2>1, <2>2, <2>3, <2>4 DEF KbTypeOK
<1>11. KbGrows
 <2>1. KbCount <= KbCount' /\ Len(kbRevs) <= Len(kbRevs') BY <1>0, <1>5, <1>7, <1>8, <1>d, KbTables
 <2> QED BY <1>5, <1>7, <2>1 DEF KbGrows
<1>12. KbStageHolds' /\ KbWikiHolds' BY <1>2, <1>10, <1>11, KbStageStays DEF KbInv, KbWikiHolds
<1>13. KbRevsHold'
 <2> SUFFICES ASSUME NEW r \in 1..n PROVE KbText(kbRevs'[r].body) /\ kbRevs'[r].prop \in 1..KbCount'
   BY <1>7 DEF KbRevsHold
 <2>1. CASE r = n BY <1>4, <1>5, <1>7, <1>c, <2>1 DEF KbRowHolds
 <2>2. CASE r \in 1..Len(kbRevs) BY <1>5, <1>7, <2>2 DEF KbInv, KbRevsHold
 <2> QED BY <1>8, <2>1, <2>2
<1>14. KbIndexIsCurrent'
 <2> SUFFICES ASSUME NEW q \in Pages PROVE kbIndex'[q] # KbCurrent(q)' => KbCurrent(q)' \in kbIndexErr'
   BY DEF KbIndexIsCurrent
 <2>0. row.page = page /\ kbIndex \in [Pages -> Nat] BY <1>0, <1>c DEF KbTypeOK
 <2>1. CASE q = page
  <3>1. KbCurrent(row.page)' = n BY <1>7
  <3>2. KbCurrent(q)' = n BY <2>0, <2>1, <3>1 DEF KbCurrent
  <3> QED BY <1>2, <2>0, <2>1, <3>2
 <2>2. CASE q # page
  <3>1. KbCurrent(q)' = KbCurrent(q) /\ KbCurrent(q) \in KbAges
    BY <1>0, <1>7, <2>0, <2>2, KbCurrentIsNewest
  <3>2. KbCurrent(q) # n BY <1>8, <1>d, <3>1 DEF KbAges
  <3>3. kbIndex'[q] = kbIndex[q] BY <1>2, <2>0, <2>2
  <3>4. kbIndex[q] # KbCurrent(q) => KbCurrent(q) \in kbIndexErr BY DEF KbInv, KbIndexIsCurrent
  <3> QED BY <1>2, <3>1, <3>2, <3>3, <3>4
 <2> QED BY <2>1, <2>2
<1>15. KbRowHolds(p)'
 <2>1. kbProps'[p].applied \in KbAges'
  <3>1. KbAges \subseteq KbAges' BY <1>10, <1>11, KbStays
  <3> QED BY <1>4, <1>5, <3>1 DEF KbRowHolds
 <2>2. \E r \in 1..Len(kbRevs') : kbRevs'[r].prop = p BY <1>7, <1>8, <1>c
 <2> QED BY <1>4, <1>5, <1>10, <1>11, <2>1, <2>2, KbRowStays
<1>16. KbOpFits(Continue(op))'
 <2>1. KbOpFits(op) /\ op \in Ops BY <1>0, <1>a DEF KbInv, KbOpHolds, KbTypeOK
 <2>2. KbOpFits(op)' BY <1>10, <1>11, <2>1, KbFitsStays
 <2>3. Projected(p)' BY <1>5 DEF Projected
 <2>4. CASE op.then \in {"policy", "migrate"}
  <3>1. PICK new : new = [op EXCEPT !.pc = "applied"] OBVIOUS
  <3>2. new.pc = "applied" /\ new.p = op.p /\ new.then = op.then /\ new.orig = op.orig
    BY <2>1, <3>1 DEF Ops
  <3>3. KbOpFits(new)' BY <1>1, <1>2, <2>2, <2>3, <2>4, <3>2 DEF KbOpFits, Projected
  <3>4. Continue(op) = new BY <2>4, <3>1 DEF Continue
  <3> QED BY <3>3, <3>4
 <2>5. CASE op.then = "undo"
  <3>1. PICK new : new = [op EXCEPT !.pc = "undone"] OBVIOUS
  <3>2. new.pc = "undone" /\ new.p = op.p /\ new.then = op.then /\ new.orig = op.orig
    BY <2>1, <3>1 DEF Ops
  <3>3. KbOpFits(new)' BY <1>1, <1>2, <2>2, <2>3, <2>5, <3>2 DEF KbOpFits, Projected
  <3>4. Continue(op) = new BY <2>5, <3>1 DEF Continue
  <3> QED BY <3>3, <3>4
 <2>6. CASE op.then \notin {"policy", "migrate", "undo"}
  <3>1. Continue(op) = Idle BY <2>6 DEF Continue
  <3>2. Idle.pc = "idle" /\ Idle.then = "" BY KbIdleFits
  <3> QED BY <3>1, <3>2 DEF KbOpFits
 <2> QED BY <2>4, <2>5, <2>6
<1>17. ASSUME NEW b \in Actors
       PROVE  \/ kbOp'[b] = kbOp[b] /\ kbOp[b].pc \notin Projecting
              \/ kbOp'[b].pc \notin Projecting /\ KbOpFits(kbOp[b])'
 <2>1. CASE b = a
  <3>1. PICK new : new = Continue(op) OBVIOUS
  <3>2. kbOp'[b] = new BY <1>0, <1>2, <2>1, <3>1 DEF KbTypeOK
  <3>3. KbOpFits(new)' BY <1>16, <3>1
  <3>4. KbOpFits(kbOp[b])' BY <3>2, <3>3 DEF KbOpFits, KbUndoes, Projected
  <3> QED BY <1>9, <3>1, <3>2, <3>4
 <2>2. CASE b # a BY <1>0, <1>2, <1>4, <2>2 DEF KbInv, KbOpHolds, KbTypeOK
 <2> QED BY <2>1, <2>2
<1>18. \A q \in 1..KbCount : kbProps'[q] = kbProps[q] \/ KbRowHolds(q)' BY <1>5, <1>15
<1> QED BY <1>2, <1>5, <1>10, <1>11, <1>12, <1>13, <1>14, <1>17, <1>18, KbReleaseStep

(* The tables, the lock and the index are left alone. *)
KbTablesStay ==
  UNCHANGED <<kbFile, kbKnown, kbProps, kbRevs, kbIndex, kbIndexErr, kbLock, kbRequests>>

\* A step that changes the wiki under whoever has the lock, by an editor or by
\* the projection itself, which goes on to its step pc.
LEMMA KbWikiStep ==
  ASSUME KbInv, KbTablesStay, kbFaults' \in 0..MaxFaults,
         kbWork' \in [Files -> Content], kbStage' \in [Files -> Content], kbHead' \in [Files -> Content],
         kbSaved' \in [Files -> Content], kbLate' \subseteq Files,
         KbGrows /\ KbTypeOK' => KbStageHolds', KbWikiHolds',
         NEW pc \in Projecting,
         \/ kbOp' = kbOp /\ (kbLock # NoActor => pc = kbOp[kbLock].pc)
         \/ kbLock \in Actors /\ kbOp' = [kbOp EXCEPT ![kbLock].pc = pc],
         NEW p, kbLock # NoActor => p = kbOp[kbLock].p /\ KbSees(p, pc)'
  PROVE  KbInv'
<1>0. KbTypeOK BY DEF KbInv
<1>1. /\ KbGrows /\ KbCount' = KbCount /\ KbRevsHold'
      /\ kbProps' \in Seq(Proposal) /\ kbRevs' \in Seq([page: Pages, body: Content, prop: Nat])
      /\ \A q \in 1..KbCount : kbProps'[q] = kbProps[q]
      /\ \A page \in Pages : KbCurrent(page)' = KbCurrent(page) BY KbUntouched DEF KbTablesStay
<1>2. /\ \A b \in Actors : kbOp[b] \in Ops
      /\ \A b \in Actors : \/ kbOp'[b] = kbOp[b]
                           \/ b = kbLock /\ kbOp'[b] = [kbOp[b] EXCEPT !.pc = pc]
      /\ kbOp' \in [Actors -> Ops]
 <2>0. \A b \in Actors : kbOp[b] \in Ops BY <1>0 DEF KbTypeOK
 <2>1. \A b \in Actors : kbOp[b] \in Ops /\ [kbOp[b] EXCEPT !.pc = pc] \in Ops
   BY <2>0 DEF Ops, Projecting
 <2> QED BY <1>0, <2>1 DEF KbTypeOK
<1>3. KbTypeOK'
 <2>1. /\ kbFile' \in [Sources -> SourceRevs] /\ kbKnown' \in [Sources -> SourceRevs \cup {0}]
       /\ kbLock' \in Actors \cup {NoActor} /\ kbIndex' \in [Pages -> Nat] /\ kbIndexErr' \subseteq Nat
       /\ kbRequests' \in 0..MaxRequests BY <1>0 DEF KbTypeOK, KbTablesStay
 <2> QED BY <1>1, <1>2, <2>1 DEF KbTypeOK
<1>4. KbIndexIsCurrent' BY <1>1 DEF KbInv, KbIndexIsCurrent, KbTablesStay
<1>5. ASSUME NEW b \in Actors PROVE KbOpHolds(b)'
 <2>0. KbOpHolds(b) /\ kbLock' = kbLock BY DEF KbInv, KbTablesStay
 <2>1. CASE kbOp'[b] = kbOp[b]
  <3>1. kbOp[b].pc \in Projecting => kbLock' = b BY <2>0 DEF KbOpHolds
  <3> QED BY <1>1, <1>3, <2>1, <3>1, KbOpStays
 <2>2. CASE b = kbLock /\ kbOp'[b] = [kbOp[b] EXCEPT !.pc = pc]
  <3>1. PICK op : op = kbOp[b] OBVIOUS
  <3>2. op \in Ops /\ op.pc \in Projecting /\ KbOpFits(op)
    BY <1>2, <2>0, <2>2, <3>1, KbAssumption DEF KbInv, KbLockHolds, KbOpHolds
  <3>3. KbOpFits(op)' BY <1>1, <1>3, <3>2, KbFitsStays
  <3>4. PICK new : new = [op EXCEPT !.pc = pc] OBVIOUS
  <3>5. new.pc = pc /\ new.p = op.p /\ new.then = op.then /\ new.orig = op.orig
    BY <3>2, <3>4 DEF Ops
  <3>6. KbOpFits(new)' BY <3>2, <3>3, <3>5 DEF KbOpFits, Projecting
  <3>7. KbOpFits(kbOp[b])' BY <2>2, <3>1, <3>4, <3>6 DEF KbOpFits, KbUndoes, Projected
  <3> QED BY <2>0, <2>2, <3>7 DEF KbOpHolds
 <2> QED BY <1>2, <2>1, <2>2
<1>6. KbLockHolds'
 <2>1. CASE kbLock = NoActor BY <2>1 DEF KbLockHolds, KbTablesStay
 <2>2. CASE kbLock # NoActor
  <3>1. kbLock \in Actors /\ kbLock' = kbLock BY <1>0, <2>2 DEF KbTypeOK, KbTablesStay
  <3>2. p = kbOp[kbLock].p /\ KbSees(p, pc)' BY <2>2
  <3>3. kbProps[p].status = "approved" /\ kbProps[p].proj # "complete"
    BY <2>2, <3>2 DEF KbInv, KbLockHolds
  <3>4. kbOp'[kbLock'].p = p /\ kbOp'[kbLock'].pc = pc
    BY <1>2, <2>2, <3>1, <3>2 DEF Ops, Projecting
  <3>6. KbSees(kbOp[kbLock].p, kbOp[kbLock].pc)' BY <3>2, <3>4, KbSeesOfHolder
  <3> QED BY <3>3, <3>4, <3>6 DEF KbLockHolds, KbTablesStay
 <2> QED BY <2>1, <2>2
<1>7. \A q \in 1..KbCount' : KbRowHolds(q)'
 <2> SUFFICES ASSUME NEW q \in 1..KbCount PROVE KbRowHolds(q)' BY <1>1
 <2>1. KbAges \subseteq KbAges' BY <1>1, <1>3, KbStays
 <2>2. kbProps'[q].applied \in KbAges' BY <1>1, <2>1 DEF KbInv, KbRowHolds
 <2>3. (Projected(q)' => Projected(q)) /\ kbProps'[q].undone = kbProps[q].undone
   BY <1>1 DEF Projected
 <2> QED BY <1>1, <1>3, <2>2, <2>3, KbRowStays
<1> QED BY <1>1, <1>3, <1>4, <1>5, <1>6, <1>7 DEF KbInv

\* Somebody edits a file of the wiki, or puts back what is committed.
LEMMA KbEditStep ==
  ASSUME KbInv, NEW f \in Sources \cup {Log}, KbOutsideEdit(f)
  PROVE  KbInv'
<1>0. KbTypeOK BY DEF KbInv
<1>1. /\ KbTablesStay /\ UNCHANGED <<kbStage, kbHead, kbSaved, kbOp>>
      /\ kbLate' = IF Free \/ kbOp[kbLock].pc = "project" THEN kbLate ELSE kbLate \cup {f}
  BY DEF KbOutsideEdit, kbIndexVars, KbTablesStay
<1>2. PICK text : text = IF kbWork[f].kind # "edit" THEN Body("edit", 0, {}) ELSE kbHead[f] OBVIOUS
<1>3. kbWork' = [kbWork EXCEPT ![f] = text] /\ kbFaults' \in 0..MaxFaults
  BY <1>0, <1>2, KbAssumption DEF KbOutsideEdit, KbTypeOK
<1>4. f \in Files BY DEF Files, Pages
<1>5. text \in Content /\ (text.kind = "edit" \/ text = kbHead[f])
 <2>1. Body("edit", 0, {}) \in Content /\ Body("edit", 0, {}).kind = "edit" BY KbBodies
 <2>2. kbHead[f] \in Content BY <1>0, <1>4 DEF KbTypeOK
 <2> QED BY <1>2, <2>1, <2>2
<1>6. /\ kbWork' \in [Files -> Content] /\ kbWork'[f] = text
      /\ \A g \in Files : g # f => kbWork'[g] = kbWork[g] BY <1>0, <1>3, <1>4, <1>5 DEF KbTypeOK
<1>7. /\ kbStage' \in [Files -> Content] /\ kbHead' \in [Files -> Content]
      /\ kbSaved' \in [Files -> Content] /\ kbLate' \subseteq Files BY <1>0, <1>1, <1>4 DEF KbTypeOK
<1>8. KbGrows /\ KbTypeOK' => KbStageHolds' BY <1>1, KbStageStays
<1>9. KbWikiHolds'
 <2>1. "overview" # f /\ "overview" \in Files BY KbAssumption DEF Files, Pages, Log
 <2> QED BY <1>1, <1>6, <2>1 DEF KbInv, KbWikiHolds
<1>10. CASE kbLock = NoActor
 <2>1. "project" \in Projecting BY DEF Projecting
 <2> QED BY <1>1, <1>3, <1>6, <1>7, <1>8, <1>9, <1>10, <2>1, KbWikiStep
<1>11. CASE kbLock # NoActor
 <2>1. PICK p : p = kbOp[kbLock].p OBVIOUS
 <2>2. PICK pc : pc = kbOp[kbLock].pc OBVIOUS
 <2>3. kbLock \in Actors /\ pc \in Projecting BY <1>0, <1>11, <2>2 DEF KbInv, KbLockHolds, KbTypeOK
 <2>4. PICK page : page = kbProps[p].page OBVIOUS
 <2>5. KbSees(p, pc) /\ page \in Files /\ Log \in Files /\ page # Log /\ p \in 1..KbCount
   BY <2>1, <2>2, <2>3, <2>4, KbHolderSees
 <2>6. KbSees(p, pc)'
  <3>1. CASE pc = "project" BY <3>1 DEF KbSees
  <3>2. CASE pc # "project"
   <4>1. kbLate' = kbLate \cup {f} BY <1>1, <1>11, <2>2, <3>2 DEF Free
   <4>2. \A g \in Files : g \notin kbLate' => g \notin kbLate /\ kbWork'[g] = kbWork[g]
     BY <1>6, <4>1
   <4>3. BaseText(kbProps[p])' = BaseText(kbProps[p]) /\ kbProps'[p] = kbProps[p]
     BY <1>1 DEF KbTablesStay, BaseText
   <4>4. pc = "stage" => \/ kbWork'[page].kind = "edit" \/ kbWork'[page] = kbProps[p].body
                         \/ kbWork'[page] = kbHead[page]
     BY <1>5, <1>6, <2>4, <2>5 DEF KbSees
   <4> QED BY <1>1, <2>4, <2>5, <4>2, <4>3, <4>4 DEF KbSees
  <3> QED BY <3>1, <3>2
 <2> QED BY <1>1, <1>3, <1>6, <1>7, <1>8, <1>9, <1>11, <2>1, <2>2, <2>3, <2>6, KbWikiStep
<1> QED BY <1>10, <1>11

\* The base is compared again: it is what git has, or the call ends.
LEMMA KbCheckStep ==
  ASSUME KbInv, NEW a \in Actors, KbCheckBase(a)
  PROVE  KbInv'
<1>0. KbTypeOK BY DEF KbInv
<1>1. kbOp[a].pc = "project" /\ "project" \in Projecting /\ "backup" \in Projecting
  BY DEF KbCheckBase, At, Projecting
<1>2. PICK p : p = kbOp[a].p OBVIOUS
<1>3. p \in 1..KbCount /\ kbLock = a /\ a # NoActor BY <1>1, <1>2, KbHolderSees
<1>4. UNCHANGED <<kbFile, kbKnown, kbProps, kbRevs, kbWork, kbStage, kbHead, kbIndex, kbIndexErr,
                  kbFaults, kbRequests>> BY DEF KbCheckBase, kbIndexVars
<1>5. CASE BaseHolds(p)
 <2>1. kbOp' = [kbOp EXCEPT ![a].pc = "backup"] /\ UNCHANGED <<kbSaved, kbLate, kbLock>>
   BY <1>2, <1>5 DEF KbCheckBase, Goes
 <2>2. KbSees(p, "backup")'
  <3>1. BaseText(kbProps[p])' = BaseText(kbProps[p]) BY <1>4 DEF BaseText
  <3> QED BY <1>3, <1>4, <1>5, <3>1, KbBaseIsCommitted DEF KbSees
 <2>3. KbTablesStay /\ KbWikiHolds' BY <1>4, <2>1 DEF KbTablesStay, KbInv, KbWikiHolds
 <2>4. KbGrows /\ KbTypeOK' => KbStageHolds' BY <1>4, KbStageStays
 <2>5. /\ kbWork' \in [Files -> Content] /\ kbStage' \in [Files -> Content] /\ kbHead' \in [Files -> Content]
       /\ kbSaved' \in [Files -> Content] /\ kbLate' \subseteq Files /\ kbFaults' \in 0..MaxFaults
   BY <1>0, <1>4, <2>1 DEF KbTypeOK
 <2> QED BY <1>1, <1>2, <1>3, <2>1, <2>2, <2>3, <2>4, <2>5, KbWikiStep
<1>6. CASE ~BaseHolds(p)
 <2>1. /\ kbOp' = [kbOp EXCEPT ![a] = Idle] /\ kbLock' = NoActor
       /\ kbSaved' = NoBackup /\ kbLate' = {} BY <1>2, <1>6 DEF KbCheckBase, Release
 <2>2. /\ KbGrows /\ KbCount' = KbCount /\ KbRevsHold'
       /\ kbProps' \in Seq(Proposal) /\ kbRevs' \in Seq([page: Pages, body: Content, prop: Nat])
       /\ \A q \in 1..KbCount : kbProps'[q] = kbProps[q]
       /\ \A page \in Pages : KbCurrent(page)' = KbCurrent(page) BY <1>4, KbUntouched
 <2>3. KbTypeOK'
  <3>1. /\ kbOp' \in [Actors -> Ops] /\ kbFile' \in [Sources -> SourceRevs]
        /\ kbKnown' \in [Sources -> SourceRevs \cup {0}] /\ kbLock' \in Actors \cup {NoActor}
        /\ kbIndex' \in [Pages -> Nat] /\ kbIndexErr' \subseteq Nat /\ kbRequests' \in 0..MaxRequests
        /\ kbFaults' \in 0..MaxFaults BY <1>0, <1>4, <2>1, KbIdleFits DEF KbTypeOK
  <3>2. /\ kbWork' \in [Files -> Content] /\ kbStage' \in [Files -> Content] /\ kbHead' \in [Files -> Content]
        /\ kbSaved' \in [Files -> Content] /\ kbLate' \subseteq Files
    BY <1>0, <1>4, <2>1, KbBodies DEF KbTypeOK, NoBackup, Absent
  <3> QED BY <2>2, <3>1, <3>2 DEF KbTypeOK
 <2>4. KbStageHolds' /\ KbWikiHolds' BY <1>4, <2>1, <2>2, <2>3, KbStageStays DEF KbInv, KbWikiHolds
 <2>5. KbIndexIsCurrent' BY <1>4, <2>2 DEF KbInv, KbIndexIsCurrent
 <2>6. ASSUME NEW b \in Actors
       PROVE  \/ kbOp'[b] = kbOp[b] /\ kbOp[b].pc \notin Projecting
              \/ kbOp'[b].pc \notin Projecting /\ KbOpFits(kbOp[b])'
  <3>1. CASE b = a
   <4>1. kbOp'[b].pc = "idle" /\ kbOp'[b].then = "" BY <1>0, <2>1, <3>1, KbIdleFits DEF KbTypeOK
   <4> QED BY <4>1 DEF KbOpFits, Projecting
  <3>2. CASE b # a BY <1>0, <1>3, <2>1, <3>2 DEF KbInv, KbOpHolds, KbTypeOK
  <3> QED BY <3>1, <3>2
 <2> QED BY <2>1, <2>2, <2>3, <2>4, <2>5, <2>6, KbReleaseStep
<1> QED BY <1>5, <1>6

\* The files are read.
LEMMA KbBackupStep ==
  ASSUME KbInv, NEW a \in Actors, KbBackup(a)
  PROVE  KbInv'
<1>0. KbTypeOK BY DEF KbInv
<1>1. /\ kbOp[a].pc = "backup" /\ "backup" \in Projecting /\ "write" \in Projecting
      /\ kbOp' = [kbOp EXCEPT ![a].pc = "write"] /\ kbSaved' = kbWork
      /\ KbTablesStay /\ UNCHANGED <<kbWork, kbStage, kbHead, kbLate, kbFaults>>
  BY DEF KbBackup, At, Goes, KbTablesStay, kbIndexVars, Projecting
<1>2. PICK p : p = kbOp[a].p OBVIOUS
<1>3. p \in 1..KbCount /\ kbLock = a /\ KbSees(p, "backup") BY <1>1, <1>2, KbHolderSees
<1>4. KbSees(p, "write")'
 <2>1. BaseText(kbProps[p])' = BaseText(kbProps[p]) /\ kbProps'[p] = kbProps[p]
   BY <1>1 DEF KbTablesStay, BaseText
 <2>2. KbKept(kbSaved["overview"])' BY <1>1 DEF KbInv, KbWikiHolds, KbKept
 <2> QED BY <1>1, <1>3, <2>1, <2>2 DEF KbSees
<1>5. KbWikiHolds' BY <1>1 DEF KbInv, KbWikiHolds
<1>6. KbGrows /\ KbTypeOK' => KbStageHolds' BY <1>1, KbStageStays
<1>7. /\ kbWork' \in [Files -> Content] /\ kbStage' \in [Files -> Content] /\ kbHead' \in [Files -> Content]
      /\ kbSaved' \in [Files -> Content] /\ kbLate' \subseteq Files /\ kbFaults' \in 0..MaxFaults
  BY <1>0, <1>1 DEF KbTypeOK
<1> QED BY <1>1, <1>2, <1>3, <1>4, <1>5, <1>6, <1>7, KbWikiStep

\* What the projection writes.
LEMMA KbWritten ==
  ASSUME KbInv, NEW a \in Actors, KbWrite(a)
  PROVE  LET p == kbOp[a].p  page == kbProps[p].page IN
         /\ kbWork' \in [Files -> Content] /\ kbWork'[page] = kbProps[p].body
         /\ kbWork'[Log].kind = kbSaved[Log].kind
         /\ \A f \in Files : f # page /\ f # Log => kbWork'[f] = kbWork[f]
<1>0. KbTypeOK BY DEF KbInv
<1>1. PICK p : p = kbOp[a].p OBVIOUS
<1>2. PICK page : page = kbProps[p].page OBVIOUS
<1>3. PICK body : body = kbProps[p].body OBVIOUS
<1>4. PICK log : log = [kbSaved[Log] EXCEPT !.cites = @ \cup {p}] OBVIOUS
<1>5. kbOp[a].pc \in Projecting BY DEF KbWrite, At, Projecting
<1>6. page \in Files /\ Log \in Files /\ page # Log /\ p \in Nat /\ body \in Content
  BY <1>1, <1>2, <1>3, <1>5, KbHolderSees, KbNumbers DEF Proposal
<1>7. log \in Content /\ log.kind = kbSaved[Log].kind
 <2>1. PICK old : old = kbSaved[Log] OBVIOUS
 <2>2. old \in Content BY <1>0, <1>6, <2>1 DEF KbTypeOK
 <2>3. PICK cites : cites = old.cites \cup {p} OBVIOUS
 <2>4. cites \in SUBSET Nat BY <1>6, <2>2, <2>3 DEF Content
 <2>5. log = [old EXCEPT !.cites = cites] BY <1>4, <2>1, <2>3
 <2> QED BY <2>1, <2>2, <2>4, <2>5 DEF Content
<1>8. kbWork' = [kbWork EXCEPT ![page] = body, ![Log] = log]
  BY <1>1, <1>2, <1>3, <1>4 DEF KbWrite
<1> QED BY <1>0, <1>1, <1>2, <1>3, <1>6, <1>7, <1>8 DEF KbTypeOK

\* Page and log are written.
LEMMA KbWriteStep ==
  ASSUME KbInv, NEW a \in Actors, KbWrite(a)
  PROVE  KbInv'
<1>0. KbTypeOK BY DEF KbInv
<1>1. /\ kbOp[a].pc = "write" /\ "write" \in Projecting /\ "stage" \in Projecting
      /\ kbOp' = [kbOp EXCEPT ![a].pc = "stage"]
      /\ KbTablesStay /\ UNCHANGED <<kbStage, kbHead, kbSaved, kbLate, kbFaults>>
  BY DEF KbWrite, At, Goes, KbTablesStay, kbIndexVars, Projecting
<1>2. PICK p : p = kbOp[a].p OBVIOUS
<1>a. PICK page : page = kbProps[p].page OBVIOUS
<1>3. /\ p \in 1..KbCount /\ kbLock = a /\ KbSees(p, "write") /\ KbText(kbProps[p].body)
      /\ page \in Files /\ Log \in Files /\ page # Log
  BY <1>1, <1>2, <1>a, KbHolderSees DEF KbRowHolds
<1>b. /\ kbWork' \in [Files -> Content] /\ kbWork'[page] = kbProps[p].body
      /\ kbWork'[Log].kind = kbSaved[Log].kind
      /\ \A f \in Files : f # page /\ f # Log => kbWork'[f] = kbWork[f] BY <1>2, <1>a, KbWritten
<1>4. KbSees(p, "stage")'
 <2>1. BaseText(kbProps[p])' = BaseText(kbProps[p]) /\ kbProps'[p] = kbProps[p]
   BY <1>1 DEF KbTablesStay, BaseText
 <2> QED BY <1>1, <1>3, <1>a, <1>b, <2>1 DEF KbSees
<1>5. KbWikiHolds'
 <2>1. "overview" \in Files /\ "overview" # Log BY DEF Files, Pages, Log
 <2>2. KbWikiHolds BY DEF KbInv
 <2>3. kbWork'["overview"] = kbWork["overview"] \/ KbText(kbWork'["overview"]) BY <1>3, <1>b, <2>1
 <2> QED BY <1>1, <2>2, <2>3 DEF KbWikiHolds, KbKept, KbText
<1>6. KbGrows /\ KbTypeOK' => KbStageHolds' BY <1>1, KbStageStays
<1>7. /\ kbStage' \in [Files -> Content] /\ kbHead' \in [Files -> Content]
      /\ kbSaved' \in [Files -> Content] /\ kbLate' \subseteq Files /\ kbFaults' \in 0..MaxFaults
  BY <1>0, <1>1 DEF KbTypeOK
<1> QED BY <1>1, <1>2, <1>3, <1>4, <1>5, <1>6, <1>7, <1>b, KbWikiStep

\* git add takes what is there.
LEMMA KbStageStep ==
  ASSUME KbInv, NEW a \in Actors, KbStage(a)
  PROVE  KbInv'
<1>0. KbTypeOK BY DEF KbInv
<1>1. /\ kbOp[a].pc = "stage" /\ "stage" \in Projecting /\ "commit" \in Projecting
      /\ kbOp' = [kbOp EXCEPT ![a].pc = "commit"]
      /\ KbTablesStay /\ UNCHANGED <<kbWork, kbHead, kbSaved, kbLate, kbFaults>>
  BY DEF KbStage, At, Goes, KbTablesStay, kbIndexVars, Projecting
<1>2. PICK p : p = kbOp[a].p OBVIOUS
<1>a. PICK page : page = kbProps[p].page OBVIOUS
<1>3. /\ p \in 1..KbCount /\ kbLock = a /\ KbSees(p, "stage") /\ kbProps[p].status = "approved"
      /\ page \in Files /\ Log \in Files /\ page # Log
  BY <1>1, <1>2, <1>a, KbHolderSees
<1>b. kbStage' = [kbStage EXCEPT ![page] = kbWork[page], ![Log] = kbWork[Log]]
  BY <1>2, <1>a DEF KbStage
<1>c. /\ kbStage' \in [Files -> Content] /\ kbStage'[page] = kbWork[page]
      /\ \A f \in Files : f # page /\ f # Log => kbStage'[f] = kbStage[f]
  BY <1>0, <1>3, <1>b DEF KbTypeOK
<1>4. KbSees(p, "commit")'
 <2>1. kbProps'[p] = kbProps[p] BY <1>1 DEF KbTablesStay
 <2> QED BY <1>1, <1>3, <2>1 DEF KbSees, KbKept
<1>5. KbWikiHolds'
 <2>1. "overview" \in Files /\ "overview" # Log BY DEF Files, Pages, Log
 <2>2. kbStage'["overview"] = kbStage["overview"] \/ kbStage'["overview"] = kbWork["overview"]
   BY <1>c, <2>1
 <2> QED BY <1>1, <2>2 DEF KbInv, KbWikiHolds
<1>6. ASSUME KbGrows, KbTypeOK' PROVE KbStageHolds'
 <2>0. /\ \A r \in 1..KbCount : r \in 1..KbCount' /\ KbKeepsRow(r)
       /\ \A r \in 1..KbCount : BaseText(kbProps[r])' = BaseText(kbProps[r])
   BY <1>6, KbStays DEF KbGrows
 <2> SUFFICES ASSUME NEW q \in Pages PROVE KbStaged(q)' BY DEF KbStageHolds
 <2>1. CASE q = page
  <3>1. kbStage'[q] = kbWork[page] /\ kbHead'[q] = kbHead[page] BY <1>1, <1>c, <2>1
  <3>2. \/ kbWork[page].kind = "edit" \/ kbWork[page] = kbProps[p].body
        \/ kbWork[page] = kbHead[page] BY <1>3, <1>a DEF KbSees
  <3>3. CASE kbWork[page] = kbProps[p].body
   <4>1. BaseText(kbProps[p]) = kbHead[page] BY <1>3, <1>a DEF KbSees
   <4>2. /\ kbProps'[p].page = q /\ kbProps'[p].status = "approved"
         /\ kbProps'[p].body = kbStage'[q] /\ BaseText(kbProps[p])' = kbHead'[q]
     BY <1>3, <1>a, <2>0, <2>1, <3>1, <3>3, <4>1 DEF KbKeepsRow
   <4>3. KbReplaces(p, q, kbHead[q], kbStage[q])' BY <4>2 DEF KbReplaces
   <4> QED BY <1>3, <2>0, <4>3 DEF KbStaged
  <3> QED BY <3>1, <3>2, <3>3 DEF KbStaged
 <2>2. CASE q # page
  <3>1. q \in Files /\ q # Log BY KbAssumption DEF Files, Pages, Log
  <3>2. kbStage'[q] = kbStage[q] /\ kbHead'[q] = kbHead[q] BY <1>1, <1>c, <2>2, <3>1
  <3>3. KbStaged(q) BY DEF KbInv, KbStageHolds
  <3>4. \A r \in 1..KbCount : KbReplaces(r, q, kbHead[q], kbStage[q]) =>
                               KbReplaces(r, q, kbHead[q], kbStage[q])'
    BY <2>0, <3>2 DEF KbReplaces, KbKeepsRow
  <3> QED BY <2>0, <3>2, <3>3, <3>4 DEF KbStaged
 <2> QED BY <2>1, <2>2
<1>7. /\ kbWork' \in [Files -> Content] /\ kbHead' \in [Files -> Content]
      /\ kbSaved' \in [Files -> Content] /\ kbLate' \subseteq Files /\ kbFaults' \in 0..MaxFaults
  BY <1>0, <1>1 DEF KbTypeOK
<1> QED BY <1>1, <1>2, <1>3, <1>4, <1>5, <1>6, <1>7, <1>c, KbWikiStep

\* git commit takes all that is staged.
LEMMA KbCommitStep ==
  ASSUME KbInv, NEW a \in Actors, KbCommit(a)
  PROVE  KbInv'
<1>0. KbTypeOK BY DEF KbInv
<1>1. /\ kbOp[a].pc = "commit" /\ "commit" \in Projecting /\ "record" \in Projecting
      /\ kbOp' = [kbOp EXCEPT ![a].pc = "record"] /\ kbHead' = kbStage
      /\ KbTablesStay /\ UNCHANGED <<kbWork, kbStage, kbSaved, kbLate, kbFaults>>
  BY DEF KbCommit, At, Goes, KbTablesStay, kbIndexVars, Projecting
<1>2. PICK p : p = kbOp[a].p OBVIOUS
<1>3. p \in 1..KbCount /\ kbLock = a /\ KbSees(p, "commit") BY <1>1, <1>2, KbHolderSees
<1>4. KbSees(p, "record")'
 <2>1. kbProps'[p] = kbProps[p] BY <1>1 DEF KbTablesStay
 <2> QED BY <1>1, <1>3, <2>1 DEF KbSees, KbKept
<1>5. KbWikiHolds' BY <1>1 DEF KbInv, KbWikiHolds
<1>6. KbStageHolds' BY <1>1 DEF KbStageHolds, KbStaged
<1>7. /\ kbWork' \in [Files -> Content] /\ kbStage' \in [Files -> Content] /\ kbHead' \in [Files -> Content]
      /\ kbSaved' \in [Files -> Content] /\ kbLate' \subseteq Files /\ kbFaults' \in 0..MaxFaults
  BY <1>0, <1>1 DEF KbTypeOK
<1> QED BY <1>1, <1>2, <1>3, <1>4, <1>5, <1>6, <1>7, KbWikiStep

\* The index is made again from the recorded revisions.
LEMMA KbRebuildStep ==
  ASSUME KbInv, KbRebuildIndex
  PROVE  KbInv'
<1>0. KbTypeOK BY DEF KbInv
<1>1. /\ kbLock = NoActor /\ kbLock' = NoActor
      /\ kbIndex' = [page \in Pages |-> KbCurrent(page)] /\ kbIndexErr' = {}
      /\ UNCHANGED <<kbFile, kbKnown, kbProps, kbRevs, kbWork, kbStage, kbHead, kbSaved, kbLate, kbFaults,
                     kbOp, kbRequests>>
  BY DEF KbRebuildIndex, kbWikiVars, Free
<1>7. /\ KbGrows /\ KbCount' = KbCount /\ KbRevsHold'
      /\ kbProps' \in Seq(Proposal) /\ kbRevs' \in Seq([page: Pages, body: Content, prop: Nat])
      /\ \A p \in 1..KbCount : kbProps'[p] = kbProps[p]
      /\ \A page \in Pages : KbCurrent(page)' = KbCurrent(page) BY <1>1, KbUntouched
<1>8. KbTypeOK'
 <2>1. /\ kbOp' \in [Actors -> Ops] /\ kbFile' \in [Sources -> SourceRevs]
       /\ kbKnown' \in [Sources -> SourceRevs \cup {0}] /\ kbLock' \in Actors \cup {NoActor}
       /\ kbRequests' \in 0..MaxRequests /\ kbFaults' \in 0..MaxFaults /\ kbWork' \in [Files -> Content]
       /\ kbStage' \in [Files -> Content] /\ kbHead' \in [Files -> Content]
       /\ kbSaved' \in [Files -> Content] /\ kbLate' \subseteq Files
   BY <1>0, <1>1 DEF KbTypeOK
 <2>2. kbIndex' \in [Pages -> Nat] /\ kbIndexErr' \subseteq Nat BY <1>1, KbNumbers
 <2> QED BY <1>7, <2>1, <2>2 DEF KbTypeOK
<1>9. KbStageHolds' BY <1>1, <1>7, <1>8, KbStageStays
<1>10. KbWikiHolds' BY <1>1 DEF KbInv, KbWikiHolds
<1>11. KbIndexIsCurrent' BY <1>1, <1>7 DEF KbIndexIsCurrent
<1>12. \A b \in Actors : kbOp'[b] = kbOp[b] /\ kbOp[b].pc \notin Projecting
  BY <1>1, KbAssumption DEF KbInv, KbOpHolds
<1> QED BY <1>1, <1>7, <1>8, <1>9, <1>10, <1>11, <1>12, KbReleaseStep

\* The process dies, perhaps in a projection, and starts again: every operation
\* ends and the lock is let go; the index is repaired.
LEMMA KbCrashStep ==
  ASSUME KbInv, KbCrash
  PROVE  KbInv'
<1>0. KbTypeOK BY DEF KbInv
<1>1. /\ kbFaults < MaxFaults /\ kbFaults' = kbFaults + 1 /\ kbLock' = NoActor
      /\ kbOp' = [a \in Actors |-> Idle]
      /\ kbIndex' = [page \in Pages |-> IF KbCurrent(page) \in kbIndexErr THEN KbCurrent(page)
                                        ELSE kbIndex[page]]
      /\ kbIndexErr' = {} /\ kbSaved' = NoBackup /\ kbLate' = {}
      /\ UNCHANGED <<kbFile, kbKnown, kbProps, kbRevs, kbWork, kbStage, kbHead, kbRequests>>
  BY DEF KbCrash, Release
<1>7. /\ KbGrows /\ KbCount' = KbCount /\ KbRevsHold'
      /\ kbProps' \in Seq(Proposal) /\ kbRevs' \in Seq([page: Pages, body: Content, prop: Nat])
      /\ \A p \in 1..KbCount : kbProps'[p] = kbProps[p]
      /\ \A page \in Pages : KbCurrent(page)' = KbCurrent(page) BY <1>1, KbUntouched
<1>8. KbTypeOK'
 <2>1. /\ kbOp' \in [Actors -> Ops] /\ kbFile' \in [Sources -> SourceRevs]
       /\ kbKnown' \in [Sources -> SourceRevs \cup {0}] /\ kbLock' \in Actors \cup {NoActor}
       /\ kbRequests' \in 0..MaxRequests BY <1>0, <1>1, KbIdleFits DEF KbTypeOK
 <2>2. kbIndex' \in [Pages -> Nat] /\ kbIndexErr' \subseteq Nat
   BY <1>0, <1>1, KbNumbers DEF KbTypeOK
 <2>3. kbFaults' \in 0..MaxFaults BY <1>0, <1>1, KbAssumption DEF KbTypeOK
 <2>4. /\ kbWork' \in [Files -> Content] /\ kbStage' \in [Files -> Content] /\ kbHead' \in [Files -> Content]
       /\ kbSaved' \in [Files -> Content] /\ kbLate' \subseteq Files
   BY <1>0, <1>1, KbBodies DEF KbTypeOK, NoBackup, Absent
 <2> QED BY <1>7, <2>1, <2>2, <2>3, <2>4 DEF KbTypeOK
<1>11. KbStageHolds' /\ KbWikiHolds' BY <1>1, <1>7, <1>8, KbStageStays DEF KbInv, KbWikiHolds
<1>9. KbIndexIsCurrent'
 <2> SUFFICES ASSUME NEW page \in Pages PROVE kbIndex'[page] = KbCurrent(page)
   BY <1>7 DEF KbIndexIsCurrent
 <2> QED BY <1>1 DEF KbInv, KbIndexIsCurrent
<1>10. \A b \in Actors : kbOp'[b].pc \notin Projecting /\ KbOpFits(kbOp[b])'
 <2> SUFFICES ASSUME NEW b \in Actors PROVE kbOp'[b].pc \notin Projecting /\ KbOpFits(kbOp[b])' OBVIOUS
 <2>1. kbOp'[b].pc = "idle" /\ kbOp'[b].then = "" BY <1>1, KbIdleFits
 <2> QED BY <2>1 DEF KbOpFits, Projecting
<1> QED BY <1>1, <1>7, <1>8, <1>9, <1>10, <1>11, KbReleaseStep

\* A source file changes on disk.
LEMMA KbSourceStep ==
  ASSUME KbInv, NEW s \in Sources, NEW r \in SourceRevs, KbSourceChanges(s, r)
  PROVE  KbInv'
<1>0. KbTypeOK BY DEF KbInv
<1>1. /\ KbQuiet /\ kbFile' = [kbFile EXCEPT ![s] = r]
      /\ UNCHANGED <<kbKnown, kbProps, kbRevs, kbOp, kbLock, kbFaults, kbRequests>>
  BY DEF KbSourceChanges, KbQuiet, kbWikiVars, kbIndexVars
<1>2. kbFile' \in [Sources -> SourceRevs] BY <1>0, <1>1 DEF KbTypeOK
<1>3. KbTypeOK' BY <1>0, <1>1, <1>2, KbQuietTyped DEF KbTypeOK
<1>4. KbGrows /\ KbCount' = KbCount /\ \A p \in 1..KbCount : kbProps'[p] = kbProps[p]
  BY <1>1, KbUntouched
<1> QED BY <1>1, <1>3, <1>4, KbStep

\* A database that has been used, or is about to be.
LEMMA KbInitHolds ==
  ASSUME KbInit
  PROVE  KbInv
<1>1. PICK s \in Sources :
       \/ /\ kbKnown = [x \in Sources |-> 0]
          /\ kbProps = <<OldPending(s)>> /\ kbRevs = <<>>
          /\ kbWork = InitialWiki /\ kbIndex = [page \in Pages |-> 0]
       \/ /\ kbKnown = [x \in Sources |-> IF x = s THEN 1 ELSE 0]
          /\ kbProps = <<OldApplied(s)>>
          /\ kbRevs = <<[page |-> s, body |-> Body("source", 1, {}), prop |-> 1]>>
          /\ kbWork = AppliedWiki(s) /\ kbIndex = [page \in Pages |-> IF page = s THEN 1 ELSE 0]
  BY DEF KbInit
<1>2. /\ kbFile = [x \in Sources |-> 1] /\ kbStage = kbWork /\ kbHead = kbWork /\ kbIndexErr = {}
      /\ kbSaved = NoBackup /\ kbLate = {}
      /\ kbOp = [a \in Actors |-> Idle] /\ kbLock = NoActor /\ kbRequests = 0 /\ kbFaults = 0
  BY DEF KbInit
<1>3. PICK body : body = Body("source", 1, {}) OBVIOUS
<1>4. body \in Content /\ body.kind = "source" /\ KbText(body) BY <1>3, KbBodies DEF KbText
<1>5. PICK row : row = NewProposal("ingest", s, 1, body, 0, {}, 0) OBVIOUS
<1>6. s \in Pages /\ "ingest" \in ChangeKinds /\ s \in Files /\ s # Log /\ s # "overview"
  BY KbAssumption DEF Pages, ChangeKinds, Files, Log
<1>7. /\ row \in Proposal /\ row.kind = "ingest" /\ row.page = s /\ row.body = body /\ row.base = 0
      /\ row.applied = 0 /\ row.undone = 0 /\ row.status = "pending" BY <1>4, <1>5, <1>6, KbNewRow
<1>8. PICK log : log = Body("log", 0, {}) OBVIOUS
<1>9. PICK first : first = Body("initial", 0, {}) OBVIOUS
<1>10. log \in Content /\ first \in Content /\ log.kind = "log" /\ first.kind = "initial"
       /\ Absent \in Content /\ Absent.kind = "absent" BY <1>8, <1>9, KbBodies DEF Absent
<1>11. /\ InitialWiki \in [Files -> Content] /\ InitialWiki["overview"] = first
       /\ \A f \in Files : InitialWiki[f] \in {log, first, Absent}
 <2>1. \A f \in Files : InitialWiki[f] \in {log, first, Absent} BY <1>8, <1>9 DEF InitialWiki
 <2>2. "overview" \in Files /\ "overview" # Log BY DEF Files, Pages, Log
 <2>3. InitialWiki["overview"] = first BY <1>9, <2>2 DEF InitialWiki
 <2>4. InitialWiki \in [Files -> Content] BY <1>10, <2>1 DEF InitialWiki
 <2> QED BY <2>1, <2>3, <2>4
<1>13. kbFile \in [Sources -> SourceRevs] /\ kbOp \in [Actors -> Ops] /\ kbLock \in Actors \cup {NoActor}
       /\ kbRequests \in 0..MaxRequests /\ kbFaults \in 0..MaxFaults /\ kbIndexErr \subseteq Nat
 <2>1. kbFile \in [Sources -> SourceRevs] /\ kbOp \in [Actors -> Ops] /\ kbLock \in Actors \cup {NoActor}
   BY <1>2, KbAssumption, KbIdleFits
 <2>2. 0 \in 0..MaxRequests /\ 0 \in 0..MaxFaults BY KbAssumption
 <2> QED BY <1>2, <2>1, <2>2
<1>14. \A a \in Actors : KbOpHolds(a) BY <1>2, KbIdleFits DEF KbOpHolds, KbOpFits, Projecting
<1>15. KbLockHolds /\ KbStageHolds BY <1>2 DEF KbLockHolds, KbStageHolds, KbStaged
<1>a. /\ kbSaved \in [Files -> Content] /\ kbLate \subseteq Files
  BY <1>2, <1>10 DEF NoBackup
<1>16. CASE /\ kbKnown = [x \in Sources |-> 0]
            /\ kbProps = <<OldPending(s)>> /\ kbRevs = <<>>
            /\ kbWork = InitialWiki /\ kbIndex = [page \in Pages |-> 0]
 <2>1. PICK new : new = [row EXCEPT !.parsed = FALSE] OBVIOUS
 <2>2. /\ new \in Proposal /\ new.kind = "ingest" /\ new.body = body /\ new.base = 0
       /\ new.applied = 0 /\ new.undone = 0 /\ new.status = "pending" BY <1>7, <2>1 DEF Proposal
 <2>3. kbProps = <<new>> BY <1>3, <1>5, <1>16, <2>1 DEF OldPending
 <2>4. kbProps \in Seq(Proposal) /\ KbCount = 1 /\ kbProps[1] = new BY <2>2, <2>3 DEF KbCount
 <2>5. kbRevs \in Seq([page: Pages, body: Content, prop: Nat]) /\ Len(kbRevs) = 0 BY <1>16
 <2>6. KbTypeOK
  <3>1. kbKnown \in [Sources -> SourceRevs \cup {0}] /\ kbIndex \in [Pages -> Nat] BY <1>16
  <3>2. kbWork \in [Files -> Content] /\ kbStage \in [Files -> Content] /\ kbHead \in [Files -> Content]
    BY <1>2, <1>11, <1>16
  <3> QED BY <1>13, <1>a, <2>4, <2>5, <3>1, <3>2 DEF KbTypeOK
 <2>7. KbRowHolds(1) BY <1>4, <2>2, <2>4, <2>5 DEF KbRowHolds, KbAges, Projected
 <2>8. KbRevsHold BY <2>5 DEF KbRevsHold
 <2>9. KbIndexIsCurrent
  <3>1. DOMAIN kbRevs = {} BY <1>16
  <3>2. \A page : KbCurrent(page) = 0 BY <3>1 DEF KbCurrent
  <3> QED BY <1>16, <3>2 DEF KbIndexIsCurrent
 <2>10. KbWikiHolds BY <1>2, <1>9, <1>10, <1>11, <1>16 DEF KbWikiHolds, KbKept
 <2>11. \A p \in 1..KbCount : p = 1 BY <2>4
 <2> QED BY <1>14, <1>15, <2>6, <2>7, <2>8, <2>9, <2>10, <2>11 DEF KbInv
<1>17. CASE /\ kbKnown = [x \in Sources |-> IF x = s THEN 1 ELSE 0]
            /\ kbProps = <<OldApplied(s)>>
            /\ kbRevs = <<[page |-> s, body |-> Body("source", 1, {}), prop |-> 1]>>
            /\ kbWork = AppliedWiki(s) /\ kbIndex = [page \in Pages |-> IF page = s THEN 1 ELSE 0]
 <2>1. PICK new : new = [row EXCEPT !.status = "approved", !.proj = "complete", !.revision = 1,
                                    !.action = "auto_apply", !.applied = 1] OBVIOUS
 <2>2. /\ new \in Proposal /\ new.kind = "ingest" /\ new.body = body /\ new.base = 0
       /\ new.applied = 1 /\ new.undone = 0 BY <1>7, <2>1 DEF Proposal
 <2>3. kbProps = <<new>> BY <1>3, <1>5, <1>17, <2>1 DEF OldApplied
 <2>4. kbProps \in Seq(Proposal) /\ KbCount = 1 /\ kbProps[1] = new BY <2>2, <2>3 DEF KbCount
 <2>5. PICK rev : rev = [page |-> s, body |-> body, prop |-> 1] OBVIOUS
 <2>6. rev \in [page: Pages, body: Content, prop: Nat] /\ kbRevs = <<rev>>
   BY <1>3, <1>4, <1>6, <1>17, <2>5
 <2>7. kbRevs \in Seq([page: Pages, body: Content, prop: Nat]) /\ Len(kbRevs) = 1 /\ kbRevs[1] = rev
   BY <2>6
 <2>8. KbTypeOK
  <3>1. kbKnown \in [Sources -> SourceRevs \cup {0}] /\ kbIndex \in [Pages -> Nat]
    BY <1>17, KbAssumption
  <3>2. AppliedWiki(s) \in [Files -> Content]
   <4>1. PICK noted : noted = Body("log", 0, {1}) OBVIOUS
   <4>2. noted \in Content
    <5>1. {1} \in SUBSET Nat /\ 0 \in Nat OBVIOUS
    <5> QED BY <4>1, <5>1 DEF Body, Content
   <4>3. AppliedWiki(s) = [InitialWiki EXCEPT ![s] = body, ![Log] = noted]
     BY <1>3, <4>1 DEF AppliedWiki
   <4> QED BY <1>4, <1>11, <4>2, <4>3
  <3>3. kbWork \in [Files -> Content] /\ kbStage \in [Files -> Content] /\ kbHead \in [Files -> Content]
    BY <1>2, <1>17, <3>2
  <3> QED BY <1>13, <1>a, <2>4, <2>7, <3>1, <3>3 DEF KbTypeOK
 <2>9. KbRowHolds(1)
  <3>1. 1 \in 1..Len(kbRevs) /\ kbRevs[1].prop = 1 /\ 0 \in KbAges /\ 1 \in KbAges
    BY <2>5, <2>7 DEF KbAges
  <3> QED BY <1>4, <2>2, <2>4, <3>1 DEF KbRowHolds
 <2>10. KbRevsHold BY <1>4, <2>4, <2>5, <2>7 DEF KbRevsHold
 <2>11. KbIndexIsCurrent
  <3> SUFFICES ASSUME NEW page \in Pages PROVE kbIndex[page] = KbCurrent(page)
    BY DEF KbIndexIsCurrent
  <3>1. KbCurrent(page) \in {0, 1} BY <2>7, <2>8, KbCurrentIsNewest DEF KbAges
  <3>2. \A r \in 1..Len(kbRevs) : r = 1 BY <2>7
  <3>3. CASE page = s
   <4>1. 1 \in 1..Len(kbRevs) /\ kbRevs[1].page = page BY <2>5, <2>7, <3>3
   <4>2. KbCurrent(page) # 0 BY <2>8, <4>1, KbCurrentIsNewest
   <4> QED BY <1>17, <3>1, <3>3, <4>2
  <3>4. CASE page # s
   <4>1. kbRevs[1].page # page BY <2>5, <2>7, <3>4
   <4>2. KbCurrent(page) # 1 BY <2>8, <4>1, KbCurrentIsNewest
   <4> QED BY <1>17, <3>1, <3>4, <4>2
  <3> QED BY <3>3, <3>4
 <2>12. KbWikiHolds
  <3>1. "overview" # s /\ "overview" # Log /\ "overview" \in Files BY <1>6 DEF Files, Pages, Log
  <3>2. AppliedWiki(s)["overview"] = first BY <1>11, <3>1 DEF AppliedWiki
  <3> QED BY <1>2, <1>9, <1>10, <1>17, <3>2 DEF KbWikiHolds, KbKept
 <2>13. \A p \in 1..KbCount : p = 1 BY <2>4
 <2> QED BY <1>14, <1>15, <2>8, <2>9, <2>10, <2>11, <2>12, <2>13 DEF KbInv
<1> QED BY <1>1, <1>16, <1>17

\* Every step keeps the invariant.
LEMMA KbNextHolds ==
  ASSUME KbInv, [KbNext]_kbVars
  PROVE  KbInv'
<1>1. CASE \E s \in Sources, r \in SourceRevs : KbSourceChanges(s, r) \/ KbRetractSource(s, r)
  BY <1>1, KbSourceStep, KbRetractStep
<1>2. CASE \E f \in Sources \cup {Log} : KbOutsideEdit(f) BY <1>2, KbEditStep
<1>3. CASE \E r \in DOMAIN kbRevs : KbRollback(r) BY <1>3, KbRollbackStep
<1>4. CASE KbRebuildIndex BY <1>4, KbRebuildStep
<1>5. CASE KbCrash BY <1>5, KbCrashStep
<1>6. ASSUME NEW a \in Actors, KbActorStep(a)
      PROVE  KbInv'
 <2>1. CASE \E s \in Sources : KbIngest(a, s) BY <2>1, KbIngestSteps
 <2>2. CASE KbSynthesis(a) BY <2>2, KbSynthesisStep
 <2>3. CASE \E cites \in SUBSET {kbIndex[s] : s \in Sources} : KbLearn(a, cites)
   BY <2>3, KbLearnStep
 <2>4. ASSUME NEW p \in DOMAIN kbProps,
              KbEvaluate(a, p) \/ KbUndo(a, p) \/ KbMigrate(a, p) \/ KbMigrateRetire(a, p)
       PROVE  KbInv' BY <2>4, KbReadSteps, KbUndoStep, KbIngestSteps, KbMigrateRetireStep
 <2>5. CASE \E p \in DOMAIN kbProps : \E rev \in 0..kbProps[p].revision : KbReview(a, p, rev)
   BY <2>5, KbReviewSteps
 <2>6. CASE KbReadDecision(a) \/ KbDecide(a) \/ KbAct(a)
   BY <2>6, KbReadSteps, KbDecideStep, KbActStep
 <2>7. CASE KbApprove(a) \/ KbReject(a) BY <2>7, KbReviewSteps
 <2>8. CASE KbRecord(a, TRUE) \/ KbRecord(a, FALSE) \/ KbProjectionFails(a)
   BY <2>8, KbRecordStep, KbFailsStep
 <2>9. CASE KbCheckBase(a) \/ KbBackup(a) \/ KbWrite(a) \/ KbStage(a) \/ KbCommit(a)
   BY <2>9, KbCheckStep, KbBackupStep, KbWriteStep, KbStageStep, KbCommitStep
 <2>10. CASE KbApplied(a) \/ KbUndone(a) \/ KbRetire(a)
   BY <2>10, KbAppliedStep, KbUndoneStep, KbRetireStep
 <2> QED BY <1>6, <2>1, <2>2, <2>3, <2>4, <2>5, <2>6, <2>7, <2>8, <2>9, <2>10 DEF KbActorStep
<1>7. CASE UNCHANGED kbVars
 <2>1. KbQuiet /\ UNCHANGED <<kbFile, kbKnown, kbProps, kbRevs, kbOp, kbLock, kbFaults, kbRequests>>
   BY <1>7 DEF kbVars, KbQuiet
 <2>2. KbTypeOK' BY <2>1, KbQuietTyped DEF KbInv, KbTypeOK
 <2>3. KbGrows /\ KbCount' = KbCount /\ \A p \in 1..KbCount : kbProps'[p] = kbProps[p]
   BY <2>1, KbUntouched
 <2> QED BY <2>1, <2>2, <2>3, KbStep
<1> QED BY <1>1, <1>2, <1>3, <1>4, <1>5, <1>6, <1>7 DEF KbNext

\* What the store serves and what it has undone are true of its history: an
\* outdated revision is served only while the index row of the current one says
\* error, and a decision marked undone names the projected proposal that put
\* back what the page had before (sync_revision_safely, undo_auto_apply).
THEOREM KbStoreSafe == KbSpec => [](KbTypeOK /\ KbStoreHolds)
<1>1. KbInit => KbInv BY KbInitHolds
<1>2. KbInv /\ [KbNext]_kbVars => KbInv' BY KbNextHolds
<1>3. KbInv => KbTypeOK /\ KbStoreHolds
 <2> SUFFICES ASSUME KbInv PROVE KbTypeOK /\ KbStoreHolds OBVIOUS
 <2>1. KbTypeOK /\ KbIndexIsCurrent BY DEF KbInv
 <2>2. KbUndoRestores
  <3> SUFFICES ASSUME NEW p \in 1..KbCount, kbProps[p].undone # 0
               PROVE  LET q == kbProps[kbProps[p].undone]
                      IN  /\ Projected(kbProps[p].undone) /\ q.base = kbProps[p].applied
                          /\ IF kbProps[p].base = 0 THEN q.body.kind = "tombstone"
                             ELSE q.body = kbRevs[kbProps[p].base].body
    BY KbNumbers DEF KbUndoRestores
  <3>1. KbUndoes(kbProps[p].undone, p) /\ Projected(kbProps[p].undone) BY DEF KbInv, KbRowHolds
  <3> QED BY <3>1 DEF KbUndoes
 <2> QED BY <2>1, <2>2 DEF KbStoreHolds
<1> QED BY <1>1, <1>2, <1>3, PTL DEF KbSpec

\* Whose steps write the wiki.
LEMMA KbWriters ==
  ASSUME [KbNext]_kbVars
  PROVE  \/ UNCHANGED <<kbWork, kbStage, kbHead>>
         \/ \E f \in Sources \cup {Log} : KbOutsideEdit(f)
         \/ \E a \in Actors : KbWrite(a) \/ KbStage(a) \/ KbCommit(a) \/ KbProjectionFails(a)
<1>1. CASE \E s \in Sources, r \in SourceRevs : KbSourceChanges(s, r) \/ KbRetractSource(s, r)
  BY <1>1 DEF KbSourceChanges, KbRetractSource, kbWikiVars
<1>2. CASE \E f \in Sources \cup {Log} : KbOutsideEdit(f) BY <1>2
<1>3. CASE \E r \in DOMAIN kbRevs : KbRollback(r) BY <1>3 DEF KbRollback, kbWikiVars
<1>4. CASE KbRebuildIndex BY <1>4 DEF KbRebuildIndex, kbWikiVars
<1>5. CASE KbCrash BY <1>5 DEF KbCrash
<1>6. ASSUME NEW a \in Actors, KbActorStep(a)
      PROVE  \/ UNCHANGED <<kbWork, kbStage, kbHead>>
             \/ KbWrite(a) \/ KbStage(a) \/ KbCommit(a) \/ KbProjectionFails(a)
 <2>1. CASE \/ \E s \in Sources : KbIngest(a, s)
            \/ KbSynthesis(a)
            \/ \E cites \in SUBSET {kbIndex[s] : s \in Sources} : KbLearn(a, cites)
            \/ \E p \in DOMAIN kbProps : KbUndo(a, p) \/ KbMigrate(a, p) \/ KbMigrateRetire(a, p)
   BY <2>1 DEF KbIngest, KbSynthesis, KbLearn, KbUndo, KbMigrate, KbMigrateRetire, kbWikiVars
 <2>2. CASE \/ KbReadDecision(a) \/ KbDecide(a) \/ KbAct(a)
            \/ \E p \in DOMAIN kbProps : KbEvaluate(a, p)
   BY <2>2 DEF KbReadDecision, KbDecide, KbAct, KbEvaluate, ReadDecision, kbWikiVars
 <2>3. CASE \/ KbApprove(a) \/ KbReject(a)
            \/ \E p \in DOMAIN kbProps : \E rev \in 0..kbProps[p].revision : KbReview(a, p, rev)
  <3>1. \A op : Approve(a, op) \/ Reject(a, op) => UNCHANGED <<kbWork, kbStage, kbHead>>
    BY DEF Approve, Reject, kbWikiVars
  <3>2. \E op : Approve(a, op) \/ Reject(a, op) BY <2>3 DEF KbApprove, KbReject, KbReview
  <3> QED BY <3>1, <3>2
 <2>4. CASE KbApplied(a) \/ KbUndone(a) \/ KbRetire(a)
   BY <2>4 DEF KbApplied, KbUndone, KbRetire, kbWikiVars
 <2>5. CASE KbCheckBase(a) \/ KbBackup(a) BY <2>5 DEF KbCheckBase, KbBackup
 <2>6. CASE KbRecord(a, TRUE) \/ KbRecord(a, FALSE) BY <2>6 DEF KbRecord
 <2> QED BY <1>6, <2>1, <2>2, <2>3, <2>4, <2>5, <2>6 DEF KbActorStep
<1>7. CASE UNCHANGED kbVars BY <1>7 DEF kbVars
<1> QED BY <1>1, <1>2, <1>3, <1>4, <1>5, <1>6, <1>7 DEF KbNext

\* Committed texts change by a commit only, to what is staged.
LEMMA KbKeepsReviewed ==
  ASSUME KbInv, [KbNext]_kbVars
  PROVE  KbNoLostUpdate
<1>1. CASE kbHead' = kbHead BY <1>1 DEF KbNoLostUpdate
<1>2. ASSUME NEW a \in Actors, KbCommit(a) PROVE KbNoLostUpdate
 <2> SUFFICES ASSUME NEW q \in Pages, kbHead'[q] # kbHead[q], kbStage[q].kind # "edit"
              PROVE  \E r \in 1..KbCount : /\ kbProps[r].page = q /\ kbProps[r].status = "approved"
                                           /\ kbProps[r].body = kbHead'[q]
                                           /\ BaseText(kbProps[r]) = kbHead[q]
   BY KbNumbers DEF KbNoLostUpdate
 <2>1. kbHead' = kbStage BY <1>2 DEF KbCommit
 <2>2. PICK r \in 1..KbCount : KbReplaces(r, q, kbHead[q], kbStage[q])
   BY <2>1 DEF KbInv, KbStageHolds, KbStaged
 <2> QED BY <2>1, <2>2 DEF KbReplaces
<1>3. \A a \in Actors : KbWrite(a) \/ KbStage(a) \/ KbProjectionFails(a) => kbHead' = kbHead
  BY DEF KbWrite, KbStage, KbProjectionFails
<1>4. \A f : KbOutsideEdit(f) => kbHead' = kbHead BY DEF KbOutsideEdit
<1> QED BY <1>1, <1>2, <1>3, <1>4, KbWriters

\* An edit that was there to be seen is neither overwritten nor committed.
LEMMA KbKeepsEdits ==
  ASSUME KbInv, [KbNext]_kbVars
  PROVE  KbOutsideEditsSurvive
<1>1. CASE kbWork' = kbWork /\ kbStage' = kbStage BY <1>1 DEF KbOutsideEditsSurvive
<1>2. \A f : KbOutsideEdit(f) => kbStage' = kbStage /\ kbOp' = kbOp BY DEF KbOutsideEdit
<1>3. \A a \in Actors : KbCommit(a) => kbWork' = kbWork /\ kbStage' = kbStage BY DEF KbCommit
<1>4. ASSUME NEW a \in Actors, KbWrite(a) \/ KbStage(a) \/ KbProjectionFails(a)
      PROVE  KbOutsideEditsSurvive
 <2>0. kbOp[a].pc \in Projecting /\ kbOp[a].pc \notin {"project", "backup"}
   BY <1>4 DEF KbWrite, KbStage, KbProjectionFails, At, Projecting
 <2>1. PICK p : p = kbOp[a].p OBVIOUS
 <2>2. PICK page : page = kbProps[p].page OBVIOUS
 <2>3. PICK pc : pc = kbOp[a].pc OBVIOUS
 <2>4. /\ p \in 1..KbCount /\ KbSees(p, pc) /\ KbText(kbProps[p].body)
       /\ page \in Files /\ Log \in Files /\ page # Log
   BY <2>0, <2>1, <2>2, <2>3, KbHolderSees DEF KbRowHolds
 <2>5. BaseText(kbProps[p]).kind # "edit" BY <2>4, KbBaseIsText
 <2> SUFFICES ASSUME NEW f \in Files \ kbLate
              PROVE  /\ kbWork[f].kind = "edit" => kbWork'[f].kind = "edit"
                     /\ kbStage'[f].kind = "edit" => kbStage[f].kind = "edit"
   BY DEF KbOutsideEditsSurvive
 <2>6. CASE KbWrite(a)
  <3>1. /\ pc = "write" /\ kbStage' = kbStage /\ kbWork'[Log].kind = kbSaved[Log].kind
        /\ \A g \in Files : g # page /\ g # Log => kbWork'[g] = kbWork[g]
    BY <2>1, <2>2, <2>3, <2>6, KbWritten DEF KbWrite, At
  <3>2. CASE f = page
   <4>1. kbWork[f] = kbHead[page] /\ kbHead[page] = BaseText(kbProps[p])
     BY <2>2, <2>4, <3>1, <3>2 DEF KbSees
   <4> QED BY <2>5, <3>1, <4>1
  <3>3. CASE f = Log
   <4>1. kbWork[Log] = kbHead[Log] /\ kbSaved[Log] = kbHead[Log] BY <2>4, <3>1, <3>3 DEF KbSees
   <4> QED BY <3>1, <3>3, <4>1
  <3> QED BY <3>1, <3>2, <3>3
 <2>7. CASE KbStage(a)
  <3>1. /\ pc = "stage" /\ kbWork' = kbWork
        /\ kbStage' = [kbStage EXCEPT ![page] = kbWork[page], ![Log] = kbWork[Log]]
    BY <2>1, <2>2, <2>3, <2>7 DEF KbStage, At
  <3>2. /\ kbStage'[page] = kbWork[page] /\ kbStage'[Log] = kbWork[Log]
        /\ \A g \in Files : g # page /\ g # Log => kbStage'[g] = kbStage[g]
    BY <2>4, <3>1 DEF KbInv, KbTypeOK
  <3>3. CASE f = page
   <4>1. kbWork[f] = kbProps[p].body BY <2>2, <2>4, <3>1, <3>3 DEF KbSees
   <4> QED BY <2>4, <3>1, <3>2, <3>3, <4>1 DEF KbText
  <3>4. CASE f = Log
   <4>1. kbWork[Log].kind = kbHead[Log].kind /\ kbStage[Log] = kbHead[Log]
     BY <2>4, <3>1, <3>4 DEF KbSees
   <4> QED BY <3>1, <3>2, <3>4, <4>1
  <3> QED BY <3>1, <3>2, <3>3, <3>4
 <2>8. CASE KbProjectionFails(a)
  <3>1. /\ kbStage' = kbStage
        /\ kbWork' = [kbWork EXCEPT ![page] = kbSaved[page], ![Log] = kbSaved[Log]]
    BY <2>1, <2>2, <2>8 DEF KbProjectionFails
  <3>2. /\ kbWork'[page] = kbSaved[page] /\ kbWork'[Log] = kbSaved[Log]
        /\ \A g \in Files : g # page /\ g # Log => kbWork'[g] = kbWork[g]
    BY <2>4, <3>1 DEF KbInv, KbTypeOK
  <3>3. pc \in {"write", "stage", "commit", "record"} BY <2>0, <2>3 DEF Projecting
  <3>4. CASE f = page
   <4>1. kbWork[f] = kbProps[p].body \/ kbWork[f] = BaseText(kbProps[p])
     BY <2>2, <2>4, <3>3, <3>4 DEF KbSees
   <4> QED BY <2>4, <2>5, <3>1, <4>1 DEF KbText
  <3>5. CASE f = Log
   <4>1. kbWork[Log].kind = kbSaved[Log].kind BY <2>4, <3>3, <3>5 DEF KbSees
   <4> QED BY <3>1, <3>2, <3>5, <4>1
  <3> QED BY <3>1, <3>2, <3>4, <3>5
 <2> QED BY <1>4, <2>6, <2>7, <2>8
<1>5. \A f : KbOutsideEdit(f) => KbOutsideEditsSurvive BY <1>2 DEF KbOutsideEditsSurvive
<1> QED BY <1>1, <1>3, <1>4, <1>5, KbWriters

\* The committed text of a page changes only from the text its reviewer saw to
\* the text of an approved proposal, or to an edit that git add has met; an edit
\* is overwritten or taken into git only when it came after the projection had
\* compared the base: through stale approvals, failed and repeated projections
\* and crashes between any two of their effects (approve, _project, _restore).
THEOREM KbNothingLost == KbSpec => KbUpdatesSurvive
<1>1. KbInit => KbInv BY KbInitHolds
<1>2. KbInv /\ [KbNext]_kbVars => KbInv' BY KbNextHolds
<1>3. KbInv /\ [KbNext]_kbVars => [KbNoLostUpdate /\ KbOutsideEditsSurvive]_kbVars
  BY KbKeepsReviewed, KbKeepsEdits
<1> QED BY <1>1, <1>2, <1>3, PTL DEF KbSpec, KbUpdatesSurvive
====
