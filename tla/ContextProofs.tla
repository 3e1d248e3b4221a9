---- MODULE ContextProofs ----
(* Proofs about what an agent's model is shown and may use, and what it
   hands to children: deferred tools, compaction, the channels of a thread
   and delegation, for every set of tools, skills, references and calls,
   every transcript, every limit and any usage a provider reports.

   Much of this state is computed by folds over messages and channels, and
   no induction theorem of the library can be applied here.  The first
   part proves the induction that is needed from the well-foundedness of <
   (the least counterexample), and from it that a fold over a sequence
   keeps what each of its steps keeps (CxFoldRuns, with what a step may
   assume of the elements before it).

   CbOnlySelected: what is promoted under a catalog has been selected
   under it, for every catalog the hash may name (CbInv).
   CpProjectionIsWhole: a completed record, stored or about to be applied,
   covers a prefix of the transcript, and the tail is the rest of it
   (CpInv); that a result is applied at most one step after it was made is
   what keeps the prefix a prefix.
   TsThreadHolds: the sorted list of the largest references does not
   depend on the order in which they arrive (the lemmas on TsSorted), and
   the calls that wait for an answer stand at the end of the messages.

   DgWithinBudget is not inductive: a child that runs may still use all it
   reserved.  DgFits charges every child of the run with what it may count
   on (DgCap: the reservation while it is open, what it used of it when it
   has ended) and says that this and the parent's own usage fit the
   limits; DgChildOk says, for each child, how the ledger, the task tool
   and the run store stand to each other, and that what was really used
   stays within what is charged but for the tokens of the call under way.
   The sums are over sets of children: CxTotal defines them, and what is
   needed of them is proved by induction on finite sets, itself from the
   least cardinality of a counterexample.  What the middleware shares out
   in one message is a fold over its calls (DgAdmitWithin, one call;
   DgAfterModelWithin, all of them).  A model that repeats a call id
   within a run names the same child again, and its second reservation
   replaces the first: that theorem is about models that do not (~DgReuse). *)
EXTENDS Compaction, Capabilities, ThreadState, Delegation, Integers, WellFoundedInduction,
        FiniteSetTheorems, TLAPS

\* A set of naturals that is not empty has a least element.
LEMMA CxLeast ==
  ASSUME NEW T \in SUBSET Nat, T # {}
  PROVE  \E m \in T : \A x \in T : m <= x
<1>1. PICK R : R = OpToRel(<, Nat) OBVIOUS
<1>2. IsWellFoundedOn(R, Nat) BY <1>1, NatLessThanWellFounded
<1>3. PICK m \in T : \A y \in T : ~(<<y, m>> \in R) BY <1>2, WFMin
<1>4. ASSUME NEW x \in Nat, NEW y \in Nat, x < y PROVE <<x, y>> \in R BY <1>1, <1>4 DEF OpToRel
<1>5. ASSUME NEW x \in T PROVE m <= x
 <2>1. ~(x < m) BY <1>3, <1>4
 <2> QED BY <2>1
<1> QED BY <1>5

\* Induction up to a bound, for a property given by the set of the numbers
\* that have it: it holds of 0 and is handed on by each number to the next.
LEMMA CxInduction ==
  ASSUME NEW n \in Nat, NEW Q,
         0 \in Q, \A k \in 1..n : k - 1 \in Q => k \in Q
  PROVE  \A k \in 0..n : k \in Q
<1>1. SUFFICES ASSUME NEW T, T = {k \in 0..n : k \notin Q}, T # {} PROVE FALSE OBVIOUS
<1>2. T \in SUBSET Nat BY <1>1
<1>3. PICK m \in T : \A x \in T : m <= x BY <1>1, <1>2, CxLeast
<1>4. m \in 0..n /\ m \notin Q BY <1>1
<1>5. m # 0 BY <1>4
<1>6. m \in 1..n /\ m - 1 \in 0..n /\ ~(m <= m - 1) BY <1>4, <1>5
<1>7. m - 1 \in Q BY <1>1, <1>3, <1>6
<1> QED BY <1>4, <1>6, <1>7

\* A set of positions of a sequence that is not empty has a last one.
LEMMA CxMax ==
  ASSUME NEW n \in Nat, NEW S \in SUBSET (1..n), S # {}
  PROVE  Max(S) \in S /\ \A x \in S : x <= Max(S)
<1>0. \A x \in S : n - x \in Nat OBVIOUS
<1>1. PICK T : T = {n - x : x \in S} OBVIOUS
<1>2. T \in SUBSET Nat /\ T # {} BY <1>0, <1>1
<1>3. PICK k \in T : \A j \in T : k <= j BY <1>2, CxLeast
<1>4. PICK m \in S : k = n - m BY <1>1, <1>3
<1>5. ASSUME NEW x \in S PROVE m >= x
 <2>1. n - x \in T BY <1>1
 <2>2. n - m <= n - x BY <1>3, <1>4, <2>1
 <2>3. n \in Nat /\ x \in Nat /\ m \in Nat OBVIOUS
 <2> QED BY <2>2, <2>3
<1>6. \E y \in S : \A x \in S : y >= x BY <1>5
<1>7. Max(S) \in S /\ \A x \in S : Max(S) >= x BY <1>6 DEF Max
<1>8. \A x \in S : x \in Nat OBVIOUS
<1> QED BY <1>7, <1>8

\* A function from the sets of positions up to n that is defined by taking the
\* last position away: what a fold over a sequence computes its value with.
CxFolds(h, n, base, G) ==
  \A S \in SUBSET (1..n) : h[S] = IF S = {} THEN base ELSE G[<<h[S \ {Max(S)}], Max(S)>>]

\* A recursion that takes the last position away from a set of positions has
\* a solution: the function a fold over a sequence is the value of.
LEMMA CxFoldExists ==
  ASSUME NEW n \in Nat, NEW B, NEW base \in B, NEW G \in [B \X (1..n) -> B]
  PROVE  \E h \in [SUBSET (1..n) -> B] : CxFolds(h, n, base, G)
<1> DEFINE Rec(h, S) == IF S = {} THEN base ELSE G[<<h[S \ {Max(S)}], Max(S)>>]
           Q == {k \in 0..n : \E h \in [SUBSET (1..n) -> B] :
                                 \A S \in SUBSET (1..k) : h[S] = Rec(h, S)}
<1>1. 0 \in Q
 <2>1. [S \in SUBSET (1..n) |-> base] \in [SUBSET (1..n) -> B] OBVIOUS
 <2>2. PICK h : h = [S \in SUBSET (1..n) |-> base] OBVIOUS
 <2>3. h \in [SUBSET (1..n) -> B] BY <2>2
 <2>4. \A S \in SUBSET (1..0) : h[S] = Rec(h, S) BY <2>2
 <2>5. 0 \in 0..n OBVIOUS
 <2> QED BY <2>3, <2>4, <2>5
<1>2. ASSUME NEW k \in 1..n, k - 1 \in Q PROVE k \in Q
 <2>1. PICK h \in [SUBSET (1..n) -> B] : \A S \in SUBSET (1..(k - 1)) : h[S] = Rec(h, S) BY <1>2
 <2>2. ASSUME NEW S \in SUBSET (1..n), S # {}
       PROVE  /\ Max(S) \in S /\ Max(S) \in 1..n /\ S \ {Max(S)} \in SUBSET (1..n)
              /\ Rec(h, S) \in B
  <3>1. Max(S) \in S BY <2>2, CxMax
  <3>2. h[S \ {Max(S)}] \in B BY <2>1, <3>1
  <3> QED BY <2>2, <3>1, <3>2
 <2>3. PICK g : g = [S \in SUBSET (1..n) |-> Rec(h, S)] OBVIOUS
 <2>4. g \in [SUBSET (1..n) -> B] BY <2>2, <2>3
 <2>5. ASSUME NEW S \in SUBSET (1..(k - 1)) PROVE g[S] = h[S]
  <3>1. S \in SUBSET (1..n) OBVIOUS
  <3> QED BY <2>1, <2>3, <3>1
 <2>6. ASSUME NEW S \in SUBSET (1..k) PROVE g[S] = Rec(g, S)
  <3>1. S \in SUBSET (1..n) OBVIOUS
  <3>2. CASE S = {} BY <2>3, <3>1, <3>2
  <3>3. CASE S # {}
   <4>1. Max(S) \in S /\ \A x \in S : x <= Max(S) BY <3>1, <3>3, CxMax
   <4>2. S \ {Max(S)} \in SUBSET (1..(k - 1))
    <5>1. ASSUME NEW x \in S \ {Max(S)} PROVE x \in 1..(k - 1)
     <6>1. x \in 1..k /\ Max(S) \in 1..k /\ x <= Max(S) /\ x # Max(S) BY <4>1
     <6> QED BY <6>1
    <5> QED BY <5>1
   <4>3. g[S \ {Max(S)}] = h[S \ {Max(S)}] BY <2>5, <4>2
   <4>4. g[S] = G[<<h[S \ {Max(S)}], Max(S)>>] BY <2>3, <3>1, <3>3
   <4> QED BY <3>3, <4>3, <4>4
  <3> QED BY <3>2, <3>3
 <2>7. \E f \in [SUBSET (1..n) -> B] : \A S \in SUBSET (1..k) : f[S] = Rec(f, S) BY <2>4, <2>6
 <2>8. k \in 0..n OBVIOUS
 <2> QED BY <2>7, <2>8
<1>3. n \in Q
 <2> HIDE DEF Q
 <2>1. \A k \in 0..n : k \in Q BY <1>1, <1>2, CxInduction
 <2> QED BY <2>1
<1> QED BY <1>3 DEF CxFolds

\* The values such a recursion takes on the first positions, in order.
LEMMA CxFoldPrefix ==
  ASSUME NEW k \in Nat, k >= 1
  PROVE  1..k # {} /\ Max(1..k) = k /\ (1..k) \ {Max(1..k)} = 1..(k - 1)
<1>1. 1..k # {} /\ k \in 1..k OBVIOUS
<1>2. Max(1..k) \in 1..k /\ k <= Max(1..k) BY <1>1, CxMax
<1>3. Max(1..k) = k BY <1>2
<1>4. (1..k) \ {k} = 1..(k - 1) OBVIOUS
<1> QED BY <1>1, <1>3, <1>4

\* The values it takes on the first positions, one after another.
CxRuns(r, n, B, base, G, last) ==
  /\ r \in [0..n -> B] /\ r[0] = base /\ r[n] = last
  /\ \A k \in 1..n : r[k] = G[<<r[k - 1], k>>]

\* A function that recurs like that, as far as what it recurs to is in B.
CxRecurs(g, n, B, base, G) ==
  /\ g[{}] = base
  /\ \A k \in 1..n : g[1..(k - 1)] \in B => g[1..k] = G[<<g[1..(k - 1)], k>>]

\* A function that recurs so, wherever what it recurs to is in B, takes its
\* values from B; on the first positions it runs through them in order.
LEMMA CxFoldRuns ==
  ASSUME NEW n \in Nat, NEW B, NEW base \in B, NEW G \in [B \X (1..n) -> B], NEW g,
         CxRecurs(g, n, B, base, G)
  PROVE  \E r : CxRuns(r, n, B, base, G, g[1..n])
<1> USE DEF CxRecurs
<1>1. PICK Q : Q = {k \in 0..n : g[1..k] \in B} OBVIOUS
<1>2. 0 \in Q
 <2>1. 1..0 = {} /\ 0 \in 0..n OBVIOUS
 <2> QED BY <1>1, <2>1
<1>3. ASSUME NEW k \in 1..n, k - 1 \in Q PROVE k \in Q
 <2>1. k \in 0..n /\ g[1..(k - 1)] \in B BY <1>1, <1>3
 <2>2. G[<<g[1..(k - 1)], k>>] \in B BY <2>1
 <2> QED BY <1>1, <2>1, <2>2
<1>4. \A k \in 0..n : k \in Q BY <1>2, <1>3, CxInduction
<1>5. PICK r : r = [k \in 0..n |-> g[1..k]] OBVIOUS
<1>6. r \in [0..n -> B] BY <1>1, <1>4, <1>5
<1>7. r[0] = base /\ r[n] = g[1..n]
 <2>1. 1..0 = {} /\ 0 \in 0..n /\ n \in 0..n OBVIOUS
 <2> QED BY <1>5, <2>1
<1>8. ASSUME NEW k \in 1..n PROVE r[k] = G[<<r[k - 1], k>>]
 <2>1. k \in 0..n /\ k - 1 \in 0..n OBVIOUS
 <2> QED BY <1>1, <1>4, <1>5, <2>1
<1> QED BY <1>6, <1>7, <1>8 DEF CxRuns


--------------------
(* Deferred tools: what is promoted under a catalog was selected under it. *)

CbCatalogs ==
  [tools : SUBSET CbTools, schema : [CbTools -> 0..2], limited : BOOLEAN,
   allowed : {CbSkills[s] : s \in DOMAIN CbSkills}]

CbRuns ==
  [at : {"none", "model", "tools", "waiting"}, skill : DOMAIN CbSkills,
   catalog : CbCatalogs, steps : Nat]

CbCallSet ==
  [kind : {"search", "call"}, ids : SUBSET CbIdentifiers, tool : CbTools \cup {CbWorkflow}]

\* The tools that were selected under a catalog's schemas.
CbGood(c, selections) ==
  {t \in CbTools : [tool |-> t, schema |-> c.schema[t]] \in selections}

\* Promotions that a selection justifies, within their limit.
CbPromotions(selections) ==
  {p \in [hash : {<<>>} \cup {<<c>> : c \in CbCatalogs}, ids : Seq(CbTools)] :
     /\ Len(p.ids) <= CbMaxPromoted
     /\ \A c \in CbCatalogs : p.hash = <<c>> => p.ids \in Seq(CbGood(c, selections))}

\* The inductive invariant of the deferred tools.
CbInv ==
  /\ cbEnv \in [CbTools -> 0..2]
  /\ cbRun \in CbRuns
  /\ cbCalls \in Seq(CbCallSet)
  /\ cbPromoted \in CbPromotions(cbSelections)
  /\ CbOnlySelected

\* Uniting a list into another keeps every element in the set both are from.
LEMMA CxUnionTyped ==
  ASSUME NEW B, NEW s \in Seq(B), NEW b \in Seq(B)
  PROVE  FoldLeft(CbAddNew, b, s) \in Seq(B)
<1> DEFINE n == Len(s)
           C == Seq(B)
           Rec(h) == [S \in SUBSET (1..n) |->
                        IF S = {} THEN b ELSE CbAddNew(h[S \ {Max(S)}], s[Max(S)])]
<1>1. n \in Nat /\ DOMAIN s = 1..n /\ b \in C /\ \A i \in 1..n : s[i] \in B OBVIOUS
<1>2. PICK G : G = [p \in C \X (1..n) |-> CbAddNew(p[1], s[p[2]])] OBVIOUS
<1>3. G \in [C \X (1..n) -> C]
 <2>1. ASSUME NEW q \in C, NEW i \in 1..n PROVE CbAddNew(q, s[i]) \in C BY <1>1 DEF CbAddNew
 <2> HIDE DEF C, n
 <2> QED BY <1>2, <2>1
<1>4. PICK g : g = (CHOOSE x : x = Rec(x)) OBVIOUS
<1>5. FoldLeft(CbAddNew, b, s) = g[1..n] BY <1>1, <1>4 DEF FoldLeft, MapThenFoldSet
<1> HIDE DEF C, n
<1>6. PICK h \in [SUBSET (1..n) -> C] : CxFolds(h, n, b, G) BY <1>1, <1>3, CxFoldExists
<1>7. h = Rec(h)
 <2>1. ASSUME NEW S \in SUBSET (1..n), S # {}
       PROVE  G[<<h[S \ {Max(S)}], Max(S)>>] = CbAddNew(h[S \ {Max(S)}], s[Max(S)])
   BY <1>1, <1>2, <1>6, <2>1, CxMax
 <2> QED BY <1>6, <2>1 DEF CxFolds
<1>8. g = Rec(g) BY <1>4, <1>7
<1>9. CxRecurs(g, n, C, b, G)
 <2>1. ASSUME NEW k \in 1..n, g[1..(k - 1)] \in C PROVE g[1..k] = G[<<g[1..(k - 1)], k>>]
  <3>1. 1..k \in SUBSET (1..n) /\ k \in Nat /\ k >= 1 BY <1>1
  <3>2. g[1..k] = CbAddNew(g[1..(k - 1)], s[k]) BY <1>8, <3>1, CxFoldPrefix
  <3> QED BY <1>2, <2>1, <3>2
 <2>2. g[{}] = b BY <1>8
 <2> QED BY <2>1, <2>2 DEF CxRecurs
<1>10. PICK r : CxRuns(r, n, C, b, G, g[1..n]) BY <1>1, <1>3, <1>9, CxFoldRuns
<1>11. n \in 0..n BY <1>1
<1> QED BY <1>5, <1>10, <1>11 DEF CxRuns, C

\* The last promotions of a list are of the list.
LEMMA CbLastTyped ==
  ASSUME CbAssumption, NEW B, NEW s \in Seq(B)
  PROVE  CbLast(s) \in Seq(B) /\ Len(CbLast(s)) <= CbMaxPromoted
<1>1. CbMaxPromoted \in Nat \ {0} BY DEF CbAssumption
<1>2. CASE Len(s) > CbMaxPromoted BY <1>1, <1>2 DEF CbLast
<1>3. CASE ~(Len(s) > CbMaxPromoted) BY <1>1, <1>3 DEF CbLast
<1> QED BY <1>2, <1>3

\* A finite set as a sequence: all of its elements, each once.
LEMMA CxSetToSeq ==
  ASSUME NEW S, IsFiniteSet(S)
  PROVE  /\ SetToSeq(S) \in Seq(S) /\ Len(SetToSeq(S)) = Cardinality(S)
         /\ IsInjective(SetToSeq(S)) /\ ToSet(SetToSeq(S)) = S
<1>1. Cardinality(S) \in Nat /\ ExistsBijection(1..Cardinality(S), S) BY FS_CardinalityType
<1>2. PICK f : f \in Bijection(1..Cardinality(S), S) BY <1>1 DEF ExistsBijection
<1>3. f \in [1..Cardinality(S) -> S] /\ IsInjective(f) BY <1>2 DEF Bijection, Injection
<1>4. SetToSeq(S) \in [1..Cardinality(S) -> S] /\ IsInjective(SetToSeq(S)) BY <1>3 DEF SetToSeq
<1>5. SetToSeq(S) \in Injection(1..Cardinality(S), S) BY <1>4 DEF Injection
<1>6. Cardinality(1..Cardinality(S)) = Cardinality(S) BY <1>1, FS_Interval
<1>7. SetToSeq(S) \in Surjection(1..Cardinality(S), S) BY <1>5, <1>6, FS_Injection
<1>8. ToSet(SetToSeq(S)) = S BY <1>4, <1>7 DEF ToSet, Surjection
<1> QED BY <1>1, <1>4, <1>8

\* A search promotes tools of the catalog only, and they are selected then.
LEMMA CbMergeSearchGood ==
  ASSUME CbAssumption, NEW sel, NEW p \in CbPromotions(sel),
         cbRun \in CbRuns, NEW call \in CbCallSet,
         call.kind = "search" =>
            CbPromotes(cbRun.catalog, call.ids) \subseteq CbGood(cbRun.catalog, sel)
  PROVE  CbMergeSearch(p, call) \in CbPromotions(sel)
<1>1. PICK c : c = cbRun.catalog OBVIOUS
<1>2. c \in CbCatalogs BY <1>1 DEF CbRuns
<1>3. CASE call.kind # "search" BY <1>3 DEF CbMergeSearch
<1>4. CASE call.kind = "search"
 <2>1. PICK P : P = CbPromotes(c, call.ids) OBVIOUS
 <2>2. P \subseteq CbGood(c, sel) /\ P \subseteq CbTools BY <1>1, <1>4, <2>1 DEF CbGood
 <2>3. IsFiniteSet(P) BY <2>2, FS_Subset DEF CbAssumption
 <2>4. PICK ids : ids = SetToSeq(P) OBVIOUS
 <2>5. ids \in Seq(CbGood(c, sel)) /\ ids \in Seq(CbTools)
  <3>1. ids \in Seq(P) BY <2>3, <2>4, CxSetToSeq
  <3> QED BY <2>2, <3>1
 <2>6. PICK new : new = IF p.hash # <<c>> THEN ids ELSE FoldLeft(CbAddNew, p.ids, ids) OBVIOUS
 <2>7. new \in Seq(CbTools) /\ new \in Seq(CbGood(c, sel))
  <3>1. p.ids \in Seq(CbTools) /\ (p.hash = <<c>> => p.ids \in Seq(CbGood(c, sel)))
    BY <1>2 DEF CbPromotions
  <3> QED BY <2>5, <2>6, <3>1, CxUnionTyped
 <2>8. CbLast(new) \in Seq(CbTools) /\ CbLast(new) \in Seq(CbGood(c, sel))
       /\ Len(CbLast(new)) <= CbMaxPromoted BY <2>7, CbLastTyped
 <2>9. CbMergeSearch(p, call) = [hash |-> <<c>>, ids |-> CbLast(new)]
   BY <1>1, <1>4, <2>1, <2>4, <2>6 DEF CbMergeSearch, CbMerge, CbHash
 <2>10. ASSUME NEW d \in CbCatalogs, <<c>> = <<d>> PROVE CbLast(new) \in Seq(CbGood(d, sel))
   BY <2>8, <2>10
 <2> QED BY <1>2, <2>8, <2>9, <2>10 DEF CbPromotions
<1> QED BY <1>3, <1>4

\* All the searches of a message are merged into promotions that are justified.
LEMMA CbMergedGood ==
  ASSUME CbAssumption, NEW sel, NEW b \in CbPromotions(sel),
         cbRun \in CbRuns, NEW s \in Seq(CbCallSet),
         \A i \in DOMAIN s : s[i].kind = "search" =>
            CbPromotes(cbRun.catalog, s[i].ids) \subseteq CbGood(cbRun.catalog, sel)
  PROVE  FoldLeft(CbMergeSearch, b, s) \in CbPromotions(sel)
<1> DEFINE n == Len(s)
           C == CbPromotions(sel)
           Rec(h) == [S \in SUBSET (1..n) |->
                        IF S = {} THEN b ELSE CbMergeSearch(h[S \ {Max(S)}], s[Max(S)])]
<1>1. n \in Nat /\ DOMAIN s = 1..n /\ b \in C OBVIOUS
<1>2. PICK G : G = [p \in C \X (1..n) |-> CbMergeSearch(p[1], s[p[2]])] OBVIOUS
<1>3. G \in [C \X (1..n) -> C]
 <2>1. ASSUME NEW q \in C, NEW i \in 1..n PROVE CbMergeSearch(q, s[i]) \in C
  <3>1. s[i] \in CbCallSet /\ i \in DOMAIN s OBVIOUS
  <3> QED BY <3>1, CbMergeSearchGood
 <2> HIDE DEF C, n
 <2> QED BY <1>2, <2>1
<1>4. PICK g : g = (CHOOSE x : x = Rec(x)) OBVIOUS
<1>5. FoldLeft(CbMergeSearch, b, s) = g[1..n] BY <1>1, <1>4 DEF FoldLeft, MapThenFoldSet
<1> HIDE DEF C, n
<1>6. PICK h \in [SUBSET (1..n) -> C] : CxFolds(h, n, b, G) BY <1>1, <1>3, CxFoldExists
<1>7. h = Rec(h)
 <2>1. ASSUME NEW S \in SUBSET (1..n), S # {}
       PROVE  G[<<h[S \ {Max(S)}], Max(S)>>] = CbMergeSearch(h[S \ {Max(S)}], s[Max(S)])
   BY <1>1, <1>2, <1>6, <2>1, CxMax
 <2> QED BY <1>6, <2>1 DEF CxFolds
<1>8. g = Rec(g) BY <1>4, <1>7
<1>9. CxRecurs(g, n, C, b, G)
 <2>1. ASSUME NEW k \in 1..n, g[1..(k - 1)] \in C PROVE g[1..k] = G[<<g[1..(k - 1)], k>>]
  <3>1. 1..k \in SUBSET (1..n) /\ k \in Nat /\ k >= 1 BY <1>1
  <3>2. g[1..k] = CbMergeSearch(g[1..(k - 1)], s[k]) BY <1>8, <3>1, CxFoldPrefix
  <3> QED BY <1>2, <2>1, <3>2
 <2>2. g[{}] = b BY <1>8
 <2> QED BY <2>1, <2>2 DEF CxRecurs
<1>10. PICK r : CxRuns(r, n, C, b, G, g[1..n]) BY <1>1, <1>3, <1>9, CxFoldRuns
<1>11. n \in 0..n BY <1>1
<1> QED BY <1>5, <1>10, <1>11 DEF CxRuns, C

\* What justifies a promotion is never forgotten.
LEMMA CbPromotionsGrow ==
  ASSUME NEW old, NEW new, old \subseteq new, NEW p \in CbPromotions(old)
  PROVE  p \in CbPromotions(new)
<1>1. ASSUME NEW c \in CbCatalogs, p.hash = <<c>> PROVE p.ids \in Seq(CbGood(c, new))
 <2>1. p.ids \in Seq(CbGood(c, old)) BY <1>1 DEF CbPromotions
 <2>2. CbGood(c, old) \subseteq CbGood(c, new) BY DEF CbGood
 <2> QED BY <2>1, <2>2
<1> QED BY <1>1 DEF CbPromotions

\* The catalog of a moment is one of the catalogs there may be.
LEMMA CbCatalogTyped ==
  ASSUME cbEnv \in [CbTools -> 0..2], NEW s \in DOMAIN CbSkills
  PROVE  CbCatalog(s) \in CbCatalogs
BY DEF CbCatalog, CbCatalogs, CbAllowed

\* A message's calls are calls.
LEMMA CbMessagesTyped ==
  ASSUME NEW calls \in CbMessages
  PROVE  calls \in Seq(CbCallSet)
<1>1. \A S \in SUBSET CbIdentifiers : CbSearch(S) \in CbCallSet BY DEF CbSearch, CbCallSet
<1>2. \A t \in CbTools : CbCall(t) \in CbCallSet /\ {t} \in SUBSET CbIdentifiers
  BY DEF CbCall, CbCallSet, CbIdentifiers
<1>3. CASE \E S \in SUBSET CbIdentifiers : calls = <<CbSearch(S)>> BY <1>1, <1>3
<1>4. CASE \E t \in CbTools : calls = <<CbCall(t)>> BY <1>2, <1>4
<1>5. CASE \E t \in CbTools : calls = <<CbSearch({t}), CbCall(t)>> BY <1>1, <1>2, <1>5
<1>6. CASE \E t, u \in CbTools : calls = <<CbSearch({t}), CbSearch({u})>> BY <1>1, <1>2, <1>6
<1>7. \/ calls \in {<<CbSearch(S)>> : S \in {T \in SUBSET CbIdentifiers : Cardinality(T) <= 2}}
      \/ calls \in {<<CbCall(t)>> : t \in CbTools}
      \/ calls \in {<<CbSearch({t}), CbCall(t)>> : t \in CbTools}
      \/ calls \in {<<CbSearch({p[1]}), CbSearch({p[2]})>> : p \in CbTools \X CbTools}
  BY DEF CbMessages
<1> HIDE DEF CbSearch, CbCall
<1>8. CASE calls \in {<<CbSearch(S)>> : S \in {T \in SUBSET CbIdentifiers : Cardinality(T) <= 2}}
  BY <1>3, <1>8
<1>9. CASE calls \in {<<CbCall(t)>> : t \in CbTools} BY <1>4, <1>9
<1>10. CASE calls \in {<<CbSearch({t}), CbCall(t)>> : t \in CbTools} BY <1>5, <1>10
<1>11. CASE calls \in {<<CbSearch({p[1]}), CbSearch({p[2]})>> : p \in CbTools \X CbTools}
  BY <1>6, <1>11
<1> QED BY <1>7, <1>8, <1>9, <1>10, <1>11

\* The tool node: what it executes passed both filters on promotions that were
\* made before it, what it promotes it has selected.
LEMMA CbToolNodeInv ==
  ASSUME CbAssumption, CbInv, CbToolNode
  PROVE  CbInv'
<1> USE DEF CbInv
<1>1. cbEnv' \in [CbTools -> 0..2] BY DEF CbToolNode
<1>2. cbRun' \in CbRuns
 <2>1. cbRun' = [cbRun EXCEPT !.at = "model"] BY DEF CbToolNode
 <2> QED BY <2>1 DEF CbRuns
<1>3. cbCalls' \in Seq(CbCallSet) BY DEF CbToolNode
<1>4. cbSelections \subseteq cbSelections' BY DEF CbToolNode
<1>5. cbPromoted' \in CbPromotions(cbSelections')
 <2>1. PICK sel : sel = cbSelections' OBVIOUS
 <2>2. cbPromoted \in CbPromotions(sel) BY <1>4, <2>1, CbPromotionsGrow
 <2>3. ASSUME NEW i \in DOMAIN cbCalls, cbCalls[i].kind = "search"
       PROVE  CbPromotes(cbRun.catalog, cbCalls[i].ids) \subseteq CbGood(cbRun.catalog, sel)
  <3>1. ASSUME NEW t \in CbPromotes(cbRun.catalog, cbCalls[i].ids)
        PROVE  [tool |-> t, schema |-> cbRun.catalog.schema[t]] \in CbNewSelections
    BY <2>3, <3>1 DEF CbNewSelections
  <3>2. CbPromotes(cbRun.catalog, cbCalls[i].ids) \subseteq CbTools
    BY DEF CbPromotes, CbRuns, CbCatalogs
  <3>3. CbNewSelections \subseteq sel BY <2>1 DEF CbToolNode
  <3> QED BY <3>1, <3>2, <3>3 DEF CbGood
 <2>4. FoldLeft(CbMergeSearch, cbPromoted, cbCalls) \in CbPromotions(sel)
   BY <2>2, <2>3, CbMergedGood
 <2> QED BY <2>1, <2>4 DEF CbToolNode
<1>6. CbOnlySelected'
 <2>1. ASSUME NEW x \in CbExecutions
       PROVE  /\ [tool |-> x.tool, schema |-> x.schema] \in cbSelections
              /\ x.skill # CbNoSkill => x.tool \in CbAllowed(x.skill)
  <3>1. PICK n \in DOMAIN cbCalls :
           /\ CbPasses(cbCalls[n])
           /\ x = [tool |-> cbCalls[n].tool, schema |-> cbRun.catalog.schema[cbCalls[n].tool],
                   skill |-> cbRun.skill] BY DEF CbExecutions
  <3>2. PICK t : t = cbCalls[n].tool OBVIOUS
  <3>3. t \in CbVisible(cbPromoted, cbRun.catalog)
        /\ (cbRun.skill = CbNoSkill \/ t \in CbAllowed(cbRun.skill)) BY <3>1, <3>2 DEF CbPasses
  <3>4. cbPromoted.hash = <<cbRun.catalog>> /\ t \in ToSet(cbPromoted.ids)
    BY <3>3 DEF CbVisible, CbHash
  <3>5. cbRun.catalog \in CbCatalogs BY DEF CbRuns
  <3>6. cbPromoted.ids \in Seq(CbGood(cbRun.catalog, cbSelections)) BY <3>4, <3>5 DEF CbPromotions
  <3>7. t \in CbGood(cbRun.catalog, cbSelections) BY <3>4, <3>6 DEF ToSet
  <3>8. [tool |-> t, schema |-> cbRun.catalog.schema[t]] \in cbSelections BY <3>7 DEF CbGood
  <3>9. x.tool = t /\ x.schema = cbRun.catalog.schema[t] /\ x.skill = cbRun.skill BY <3>1, <3>2
  <3> QED BY <3>3, <3>8, <3>9
 <2>2. cbExecuted' = cbExecuted \cup CbExecutions BY DEF CbToolNode
 <2> QED BY <1>4, <2>1, <2>2 DEF CbOnlySelected, CbAllowed
<1> QED BY <1>1, <1>2, <1>3, <1>5, <1>6

\* Every step of the component keeps the invariant.
LEMMA CbStep ==
  ASSUME CbAssumption, CbInv, [CbNext]_cbVars
  PROVE  CbInv'
<1> USE DEF CbInv
<1>0. CbNoSkill \in DOMAIN CbSkills BY DEF CbAssumption
<1>1. CASE UNCHANGED cbVars BY <1>1 DEF cbVars, CbOnlySelected
<1>2. CASE CbRunTools \/ CbApproved BY <1>2, CbToolNodeInv DEF CbRunTools, CbApproved
<1>3. CASE \E t \in CbTools, v \in 0..2 : CbChanges(t, v) BY <1>3 DEF CbChanges, CbOnlySelected
<1>4. CASE \E s \in DOMAIN CbSkills : CbMessage(s)
 <2>1. PICK s \in DOMAIN CbSkills : CbMessage(s) BY <1>4
 <2>2. CbCatalog(s) \in CbCatalogs BY CbCatalogTyped
 <2>3. cbRun' \in CbRuns BY <2>1, <2>2 DEF CbMessage, CbRuns
 <2> QED BY <2>1, <2>3 DEF CbMessage, CbOnlySelected
<1>5. CASE \E calls \in CbMessages : CbModel(calls)
 <2>1. PICK calls \in CbMessages : CbModel(calls) BY <1>5
 <2>2. calls \in Seq(CbCallSet) BY CbMessagesTyped
 <2>3. cbRun' = [cbRun EXCEPT !.at = "tools", !.steps = @ + 1] BY <2>1 DEF CbModel
 <2>4. cbRun' \in CbRuns
  <3>1. cbRun.steps + 1 \in Nat BY DEF CbRuns
  <3>2. PICK one : one = [cbRun EXCEPT !.at = "tools"] OBVIOUS
  <3>3. one \in CbRuns /\ one.steps = cbRun.steps BY <3>2 DEF CbRuns
  <3>4. cbRun' = [one EXCEPT !.steps = cbRun.steps + 1] BY <2>3, <3>2 DEF CbRuns
  <3> QED BY <3>1, <3>3, <3>4 DEF CbRuns
 <2> QED BY <2>1, <2>2, <2>4 DEF CbModel, CbOnlySelected
<1>6. CASE CbInterrupts
 <2>1. cbRun' \in CbRuns BY <1>6 DEF CbInterrupts, CbRuns
 <2> QED BY <1>6, <2>1 DEF CbInterrupts, CbOnlySelected
<1>7. CASE CbRestart
 <2>1. CbCatalog(cbRun.skill) \in CbCatalogs BY CbCatalogTyped DEF CbRuns
 <2>2. cbRun' \in CbRuns BY <1>7, <2>1 DEF CbRestart, CbRuns
 <2> QED BY <1>7, <2>2 DEF CbRestart, CbOnlySelected
<1>8. CASE CbRunEnds
 <2>1. cbRun' = [CbNoRun EXCEPT !.catalog = cbRun.catalog] BY <1>8 DEF CbRunEnds
 <2>2. cbRun' \in CbRuns BY <1>0, <2>1 DEF CbRuns, CbNoRun
 <2> QED BY <1>8, <2>2 DEF CbRunEnds, CbOnlySelected
<1> QED BY <1>1, <1>2, <1>3, <1>4, <1>5, <1>6, <1>7, <1>8 DEF CbNext

\* It holds at first.
LEMMA CbStart ==
  ASSUME CbAssumption, CbInit
  PROVE  CbInv
<1>0. CbNoSkill \in DOMAIN CbSkills /\ CbMaxPromoted \in Nat BY DEF CbAssumption
<1>1. cbEnv \in [CbTools -> 0..2] BY DEF CbInit
<1>2. CbCatalog(CbNoSkill) \in CbCatalogs BY <1>0, <1>1, CbCatalogTyped
<1>3. cbRun \in CbRuns BY <1>0, <1>2 DEF CbInit, CbNoRun, CbRuns
<1>4. cbPromoted \in CbPromotions(cbSelections)
 <2>1. cbPromoted = [hash |-> <<>>, ids |-> <<>>] BY DEF CbInit, CbNothing
 <2>2. <<>> \in Seq(CbTools) /\ \A c \in CbCatalogs : <<>> \in Seq(CbGood(c, cbSelections)) OBVIOUS
 <2> QED BY <1>0, <2>1, <2>2 DEF CbPromotions
<1>5. cbCalls = <<>> /\ cbExecuted = {} BY DEF CbInit
<1> QED BY <1>1, <1>3, <1>4, <1>5 DEF CbInv, CbOnlySelected

\* A deferred tool runs only with the schema under which it was selected, and
\* only if the skill of the message allows it (deferred_tools.py, skills.py,
\* merge_promoted_tools), for every set of tools, skills and limits.
THEOREM OnlySelected == CbSpec => [](CbOnlySelected /\ CbTypeOK)
<1>1. CbInit => CbInv BY CbAssumption, CbStart
<1>2. CbInv /\ [CbNext]_cbVars => CbInv' BY CbAssumption, CbStep
<1>3. CbInv => CbOnlySelected /\ CbTypeOK
 <2>1. SUFFICES ASSUME CbInv PROVE CbOnlySelected /\ CbTypeOK OBVIOUS
 <2>2. cbPromoted.ids \in Seq(CbTools) /\ Len(cbPromoted.ids) <= CbMaxPromoted
   BY <2>1 DEF CbInv, CbPromotions
 <2>3. ToSet(cbPromoted.ids) \subseteq CbTools BY <2>2 DEF ToSet
 <2> QED BY <2>1, <2>2, <2>3 DEF CbInv, CbTypeOK, CbRuns
<1> QED BY <1>1, <1>2, <1>3, PTL DEF CbSpec

--------------------
(* Compaction: the summary speaks for a prefix of the transcript, the tail
   is the rest of it. *)

CpPcs == {"idle", "preparing", "prepared", "running", "summarizing", "settling", "restoring"}

CpAttemptSet ==
  [status : {"started", "completed", "failed"}, from : Nat, to : Nat,
   covered : SUBSET Nat, anchored : BOOLEAN, damaged : BOOLEAN]

CpResultSet ==
  [applied : BOOLEAN, from : Nat, to : Nat, covered : SUBSET Nat, tail : Seq(Nat)]

\* The types the argument needs.
CpTyped ==
  /\ cpItems \in Seq({"user", "reply"})
  /\ cpAttempts \in Seq(CpAttemptSet)
  /\ cpResult \in CpResultSet
  /\ cpKey \in BOOLEAN /\ cpUp \in BOOLEAN
  /\ cpActive \in 0..Len(cpAttempts) /\ cpAttempt \in 0..Len(cpAttempts)
  /\ cpOp \in [kind : CpKinds \cup {"none"}, pc : CpPcs]

\* A summary of the first items of the transcript.
CpSummary(r) == r.to \in 0..Len(cpItems) /\ r.covered = 1..r.to

\* Every completed checkpoint summarizes a prefix.
CpCheckpoints ==
  \A i \in DOMAIN cpAttempts :
    cpAttempts[i].status = "completed" => CpSummary(cpAttempts[i])

\* A result that waits for its terminal record does too, and the transcript
\* does not grow before it is applied.
CpWaiting ==
  cpResult.applied =>
    /\ cpOp.pc = "settling" /\ cpUp
    /\ CpSummary(cpResult) /\ cpResult.tail = TailAfter(cpResult.to)

\* What the model is shown is a prefix summarized, then the rest.
CpSplit ==
  cpUp => \E c \in 0..Len(cpItems) : cpProj = [covered |-> 1..c, tail |-> TailAfter(c)]

CpInv == CpTyped /\ CpCheckpoints /\ CpWaiting /\ CpSplit

\* The rest of the transcript, as a sequence.
LEMMA CpTailTyped ==
  ASSUME cpItems \in Seq({"user", "reply"}), NEW c \in 0..Len(cpItems)
  PROVE  /\ TailAfter(c) \in Seq(Nat) /\ Len(TailAfter(c)) = Len(cpItems) - c
         /\ DOMAIN TailAfter(c) = 1..(Len(cpItems) - c)
         /\ \A i \in 1..(Len(cpItems) - c) : TailAfter(c)[i] = c + i
<1>1. Len(cpItems) \in Nat /\ Len(cpItems) - c \in Nat OBVIOUS
<1>2. PICK n : n = Len(cpItems) - c OBVIOUS
<1>3. TailAfter(c) = [i \in 1..n |-> c + i] BY <1>2 DEF TailAfter
<1>4. [i \in 1..n |-> c + i] \in [1..n -> Nat] BY <1>1, <1>2
<1>5. TailAfter(c) \in Seq(Nat) /\ Len(TailAfter(c)) = n BY <1>1, <1>2, <1>3, <1>4
<1> QED BY <1>2, <1>3, <1>5

\* An item that is appended joins the rest.
LEMMA CpTailGrows ==
  ASSUME cpItems \in Seq({"user", "reply"}), NEW c \in 0..Len(cpItems),
         NEW role \in {"user", "reply"}, cpItems' = Append(cpItems, role)
  PROVE  /\ Len(cpItems') = Len(cpItems) + 1
         /\ TailAfter(c)' = Append(TailAfter(c), Len(cpItems) + 1)
<1>1. PICK n : n = Len(cpItems) - c OBVIOUS
<1>2. n \in Nat /\ Len(cpItems) = c + n /\ Len(cpItems') = c + n + 1 BY <1>1
<1>3. TailAfter(c) = [i \in 1..n |-> c + i] BY <1>1 DEF TailAfter
<1>4. TailAfter(c)' = [i \in 1..(n + 1) |-> c + i]
 <2>1. Len(cpItems') - c = n + 1 BY <1>2
 <2> QED BY <2>1 DEF TailAfter
<1>5. TailAfter(c) \in Seq(Nat) /\ Len(TailAfter(c)) = n BY <1>1, CpTailTyped
<1>6. PICK s : s = TailAfter(c) OBVIOUS
<1>7. Append(s, c + n + 1) = [i \in 1..(n + 1) |-> c + i]
 <2>1. s \in Seq(Nat) /\ Len(s) = n /\ \A i \in 1..n : s[i] = c + i BY <1>3, <1>5, <1>6
 <2>2. c + n + 1 \in Nat BY <1>2
 <2>3. PICK a : a = Append(s, c + n + 1) OBVIOUS
 <2>4. a \in Seq(Nat) /\ Len(a) = n + 1 BY <1>2, <2>1, <2>2, <2>3
 <2>5. a \in [1..(n + 1) -> Nat] BY <2>4
 <2>6. \A i \in 1..(n + 1) : a[i] = c + i
  <3>1. ASSUME NEW i \in 1..(n + 1) PROVE a[i] = c + i
   <4>1. CASE i = n + 1 BY <1>2, <2>1, <2>2, <2>3, <4>1
   <4>2. CASE i # n + 1
    <5>1. i \in 1..n BY <1>2, <4>2
    <5>2. a[i] = s[i] BY <2>1, <2>2, <2>3, <5>1
    <5> QED BY <2>1, <5>1, <5>2
   <4> QED BY <4>1, <4>2
  <3> QED BY <3>1
 <2>7. a = [i \in 1..(n + 1) |-> a[i]] BY <2>5
 <2>8. [i \in 1..(n + 1) |-> a[i]] = [i \in 1..(n + 1) |-> c + i] BY <2>6
 <2> QED BY <2>3, <2>7, <2>8
<1> QED BY <1>2, <1>4, <1>6, <1>7

\* The positions of a set from one on.
CxFrom(U, i) == {j \in U : j >= i}

\* Positions up to a bound are finitely many.
LEMMA CxPositions ==
  ASSUME NEW n \in Nat, NEW U \in SUBSET (1..n)
  PROVE  IsFiniteSet(U) /\ Cardinality(U) \in Nat
<1>1. IsFiniteSet(1..n) BY FS_Interval
<1>2. IsFiniteSet(U) BY <1>1, FS_Subset
<1> QED BY <1>2, FS_CardinalityType

\* Some position has any smaller number of positions from it on; it is not the
\* first one.
LEMMA CxNthLast ==
  ASSUME NEW n \in Nat, NEW U \in SUBSET (1..n), NEW keep \in Nat \ {0},
         Cardinality(U) > keep, 1 \in U
  PROVE  /\ \E i \in U : Cardinality(CxFrom(U, i)) = keep
         /\ \A i \in U : Cardinality(CxFrom(U, i)) = keep => i \in 2..n
<1>1. \A i \in Nat : CxFrom(U, i) \in SUBSET (1..n) /\ IsFiniteSet(CxFrom(U, i))
                     /\ Cardinality(CxFrom(U, i)) \in Nat
 <2>1. \A i \in Nat : CxFrom(U, i) \in SUBSET (1..n) BY DEF CxFrom
 <2> QED BY <2>1, CxPositions
<1>2. CxFrom(U, 1) = U /\ Cardinality(U) \in Nat
 <2>0. \A j \in U : j >= 1 OBVIOUS
 <2>1. CxFrom(U, 1) = U BY <2>0 DEF CxFrom
 <2> QED BY <2>1, CxPositions
<1>3. PICK S : S = {i \in 1..n : Cardinality(CxFrom(U, i)) >= keep} OBVIOUS
<1>4. 1 \in S /\ S \in SUBSET (1..n) /\ S # {} BY <1>2, <1>3
<1>5. PICK m : m = Max(S) OBVIOUS
<1>6. m \in S /\ \A x \in S : x <= m BY <1>4, <1>5, CxMax
<1>7. m \in 1..n /\ Cardinality(CxFrom(U, m)) >= keep /\ m \in Nat /\ m + 1 \in Nat BY <1>3, <1>6
<1>8. Cardinality(CxFrom(U, m + 1)) < keep
 <2>1. CASE m + 1 <= n
  <3>1. m + 1 \in 1..n /\ ~(m + 1 <= m) BY <1>7, <2>1
  <3>2. m + 1 \notin S BY <1>6, <3>1
  <3>3. ~(Cardinality(CxFrom(U, m + 1)) >= keep) BY <1>3, <3>1, <3>2
  <3> QED BY <1>1, <1>7, <3>3
 <2>2. CASE ~(m + 1 <= n)
  <3>0. \A j \in U : ~(j >= m + 1) BY <1>7, <2>2
  <3>1. CxFrom(U, m + 1) = {} BY <3>0 DEF CxFrom
  <3>2. Cardinality(CxFrom(U, m + 1)) = 0 BY <3>1, FS_EmptySet
  <3> QED BY <3>2
 <2> QED BY <2>1, <2>2
<1>9. CxFrom(U, m + 1) = CxFrom(U, m) \ {m}
 <2>1. ASSUME NEW j \in U PROVE j >= m + 1 <=> (j >= m /\ j # m)
  <3>1. j \in Nat OBVIOUS
  <3> QED BY <1>7, <3>1
 <2> QED BY <2>1 DEF CxFrom
<1>10. Cardinality(CxFrom(U, m + 1)) =
         IF m \in CxFrom(U, m) THEN Cardinality(CxFrom(U, m)) - 1 ELSE Cardinality(CxFrom(U, m))
  BY <1>1, <1>7, <1>9, FS_RemoveElement
<1>11. m \in CxFrom(U, m) /\ Cardinality(CxFrom(U, m)) = keep BY <1>1, <1>7, <1>8, <1>10
<1>12. m \in U BY <1>11 DEF CxFrom
<1>13. ASSUME NEW i \in U, Cardinality(CxFrom(U, i)) = keep PROVE i \in 2..n
 <2>1. i # 1 BY <1>2, <1>13
 <2> QED BY <2>1
<1> QED BY <1>11, <1>12, <1>13

\* The turn at which the recent turns begin is not the first one, when there
\* are more turns than are kept.
LEMMA CpTailStart ==
  ASSUME NEW n \in Nat, DOMAIN cpProj.tail = 1..n,
         NEW keep \in Nat \ {0}, CpTurns > keep, 1 \in UserPositions
  PROVE  TailStart(keep) \in 2..n
<1>1. PICK U : U = UserPositions OBVIOUS
<1>2. U \in SUBSET (1..n) /\ Cardinality(U) > keep /\ 1 \in U BY <1>1 DEF UserPositions, CpTurns
<1>3. /\ \E i \in U : Cardinality(CxFrom(U, i)) = keep
      /\ \A i \in U : Cardinality(CxFrom(U, i)) = keep => i \in 2..n BY <1>2, CxNthLast
<1>4. TailStart(keep) = CHOOSE i \in U : Cardinality(CxFrom(U, i)) = keep
  BY <1>1 DEF TailStart, CxFrom
<1> QED BY <1>3, <1>4

\* What a compaction archives ends a longer prefix.
LEMMA CpArchivedSummary ==
  ASSUME CpAssumption, CpInv, cpUp, NEW keep \in RecentTurns, CanArchive(keep)
  PROVE  /\ Archived(keep) \in CpResultSet /\ Archived(keep).applied
         /\ CpSummary(Archived(keep)) /\ Archived(keep).tail = TailAfter(Archived(keep).to)
<1>1. PICK c \in 0..Len(cpItems) : cpProj = [covered |-> 1..c, tail |-> TailAfter(c)]
  BY DEF CpInv, CpSplit
<1>2. cpItems \in Seq({"user", "reply"}) BY DEF CpInv, CpTyped
<1>3. PICK n : n = Len(cpItems) - c OBVIOUS
<1>4. n \in Nat /\ Len(cpItems) = c + n /\ c \in Nat BY <1>2, <1>3
<1>5. PICK tail : tail = TailAfter(c) OBVIOUS
<1>6. /\ cpProj.tail = tail /\ cpProj.covered = 1..c
      /\ tail \in Seq(Nat) /\ Len(tail) = n /\ DOMAIN tail = 1..n
      /\ \A i \in 1..n : tail[i] = c + i BY <1>1, <1>2, <1>3, <1>5, CpTailTyped
<1>7. CpTurns \in Nat
 <2>1. UserPositions \in SUBSET (1..n) BY <1>6 DEF UserPositions
 <2> QED BY <1>4, <2>1, CxPositions DEF CpTurns
<1>8. keep \in Nat \ {0} /\ CpTurns > keep BY <1>7 DEF RecentTurns, CpAssumption, CanArchive
<1>9. 1 \in UserPositions
 <2>1. UserPositions # {}
  <3>1. Cardinality({}) = 0 BY FS_EmptySet
  <3>2. Cardinality(UserPositions) # 0 BY <1>7, <1>8 DEF CpTurns
  <3> QED BY <3>1, <3>2
 <2>2. cpProj.tail # <<>> BY <2>1 DEF UserPositions
 <2> QED BY <2>2 DEF CanArchive, SupportedLayout
<1>10. TailStart(keep) \in 2..n BY <1>4, <1>6, <1>8, <1>9, CpTailStart
<1>11. PICK stop : stop = TailStart(keep) - 1 OBVIOUS
<1>12. stop \in 1..n /\ stop < n BY <1>4, <1>10, <1>11
<1>13. tail[1] = c + 1 /\ tail[stop] = c + stop BY <1>6, <1>12
<1>14. 1..c \cup {tail[i] : i \in 1..stop} = 1..(c + stop)
 <2>1. ASSUME NEW x \in 1..(c + stop) PROVE x \in 1..c \cup {tail[i] : i \in 1..stop}
  <3>1. CASE x > c
   <4>1. x - c \in 1..stop /\ tail[x - c] = x BY <1>4, <1>6, <1>12, <3>1
   <4> QED BY <4>1
  <3>2. CASE ~(x > c) BY <1>4, <3>2
  <3> QED BY <3>1, <3>2
 <2>2. ASSUME NEW i \in 1..stop PROVE tail[i] \in 1..(c + stop) BY <1>4, <1>6, <1>12
 <2>3. 1..c \subseteq 1..(c + stop) BY <1>4, <1>12
 <2> QED BY <2>1, <2>2, <2>3
<1>15. SubSeq(tail, stop + 1, n) = TailAfter(c + stop)
 <2>1. c + stop \in 0..Len(cpItems) /\ Len(cpItems) - (c + stop) = n - stop BY <1>4, <1>12
 <2>2. TailAfter(c + stop) = [i \in 1..(n - stop) |-> (c + stop) + i] BY <2>1 DEF TailAfter
 <2>3. SubSeq(tail, stop + 1, n) = [i \in 1..(n - stop) |-> tail[i + stop]] BY <1>4, <1>6, <1>12
 <2>4. \A i \in 1..(n - stop) : tail[i + stop] = (c + stop) + i BY <1>4, <1>6, <1>12
 <2> QED BY <2>2, <2>3, <2>4
<1>16. Archived(keep) = [applied |-> TRUE, from |-> c + 1, to |-> c + stop,
                         covered |-> 1..(c + stop), tail |-> TailAfter(c + stop)]
 <2>1. cpProj.tail = tail /\ cpProj.covered = 1..c /\ Len(tail) = n BY <1>6
 <2>2. Archived(keep) = [applied |-> TRUE, from |-> tail[1], to |-> tail[stop],
                         covered |-> 1..c \cup {tail[i] : i \in 1..stop},
                         tail |-> SubSeq(tail, stop + 1, n)] BY <2>1, <1>11 DEF Archived
 <2> QED BY <2>2, <1>13, <1>14, <1>15
<1>17. TailAfter(c + stop) \in Seq(Nat) BY <1>2, <1>4, <1>12, CpTailTyped
<1>18. c + stop \in 0..Len(cpItems) /\ c + 1 \in Nat /\ c + stop \in Nat BY <1>4, <1>12
<1> QED BY <1>16, <1>17, <1>18 DEF CpResultSet, CpSummary

\* An item is appended: it joins what the model is shown.
LEMMA CpAppendInv ==
  ASSUME CpInv, cpUp, NEW role \in {"user", "reply"}, AppendCanonicalItem(role),
         cpOp.pc # "settling", cpOp' \in [kind : CpKinds \cup {"none"}, pc : CpPcs],
         UNCHANGED <<cpAttempts, cpKey, cpUp, cpActive, cpAttempt, cpResult>>
  PROVE  CpInv'
<1> USE DEF CpInv
<1>1. cpItems \in Seq({"user", "reply"}) /\ cpItems' = Append(cpItems, role)
  BY DEF CpTyped, AppendCanonicalItem
<1>2. Len(cpItems') = Len(cpItems) + 1 /\ Len(cpItems) \in Nat BY <1>1
<1>3. CpTyped' BY <1>1 DEF CpTyped
<1>4. CpCheckpoints' BY <1>2 DEF CpCheckpoints, CpSummary
<1>5. CpWaiting' BY DEF CpWaiting
<1>6. CpSplit'
 <2>1. PICK c \in 0..Len(cpItems) : cpProj = [covered |-> 1..c, tail |-> TailAfter(c)]
   BY DEF CpSplit
 <2>2. TailAfter(c)' = Append(TailAfter(c), Len(cpItems) + 1) BY <1>1, CpTailGrows
 <2>3. cpProj' = [cpProj EXCEPT !.tail = Append(@, Len(cpItems) + 1)] BY DEF AppendCanonicalItem
 <2>4. cpProj' = [covered |-> 1..c, tail |-> Append(TailAfter(c), Len(cpItems) + 1)] BY <2>1, <2>3
 <2>5. c \in 0..Len(cpItems') BY <1>2
 <2> QED BY <2>2, <2>4, <2>5 DEF CpSplit
<1> QED BY <1>3, <1>4, <1>5, <1>6

\* A step that leaves the transcript and what the model is shown alone, and
\* waits with no result, keeps the invariant if the checkpoints it leaves are
\* summaries.
LEMMA CpQuietInv ==
  ASSUME CpInv, CpTyped', CpCheckpoints', ~cpResult.applied',
         UNCHANGED <<cpItems, cpProj>>, cpUp' => cpUp
  PROVE  CpInv'
BY DEF CpInv, CpWaiting, CpSplit, TailAfter

\* An element of a sequence replaced by another of its kind.
LEMMA CxReplaceTyped ==
  ASSUME NEW B, NEW s \in Seq(B), NEW i, NEW x, i \in DOMAIN s => x \in B
  PROVE  /\ [s EXCEPT ![i] = x] \in Seq(B) /\ Len([s EXCEPT ![i] = x]) = Len(s)
         /\ DOMAIN [s EXCEPT ![i] = x] = DOMAIN s
<1>1. PICK n \in Nat : n = Len(s) OBVIOUS
<1>2. s \in [1..n -> B] BY <1>1
<1>3. PICK t : t = [s EXCEPT ![i] = x] OBVIOUS
<1>4. t \in [1..n -> B] BY <1>2, <1>3
<1>5. t \in Seq(B) /\ Len(t) = n /\ DOMAIN t = 1..n BY <1>4
<1> QED BY <1>1, <1>2, <1>3, <1>5

\* A record of the attempt: the attempts stay attempts.
LEMMA CpCompletedTyped ==
  ASSUME CpInv, cpResult.applied
  PROVE  /\ Completed(cpAttempt, cpResult) \in Seq(CpAttemptSet)
         /\ Len(Completed(cpAttempt, cpResult)) = Len(cpAttempts)
         /\ \A i \in DOMAIN Completed(cpAttempt, cpResult) :
               Completed(cpAttempt, cpResult)[i].status = "completed" =>
                 CpSummary(Completed(cpAttempt, cpResult)[i])
<1>1. cpAttempts \in Seq(CpAttemptSet) /\ cpKey \in BOOLEAN /\ cpResult \in CpResultSet
  BY DEF CpInv, CpTyped
<1>2. CpSummary(cpResult) BY DEF CpInv, CpWaiting
<1>3. PICK new : new = [status |-> "completed", from |-> cpResult.from, to |-> cpResult.to,
                        covered |-> cpResult.covered, anchored |-> cpKey,
                        damaged |-> cpAttempts[cpAttempt].damaged] OBVIOUS
<1>4. ASSUME cpAttempt \in DOMAIN cpAttempts
      PROVE  new \in CpAttemptSet
 <2>1. PICK a : a = cpAttempts[cpAttempt] OBVIOUS
 <2>2. a \in CpAttemptSet BY <1>1, <1>4, <2>1
 <2> QED BY <1>1, <1>3, <2>1, <2>2 DEF CpAttemptSet, CpResultSet
<1>5. CpSummary(new) BY <1>2, <1>3 DEF CpSummary
<1>6. Completed(cpAttempt, cpResult) = [cpAttempts EXCEPT ![cpAttempt] = new] BY <1>3 DEF Completed
<1>7. PICK done : done = [cpAttempts EXCEPT ![cpAttempt] = new] OBVIOUS
<1>8. done \in Seq(CpAttemptSet) /\ Len(done) = Len(cpAttempts) /\ DOMAIN done = DOMAIN cpAttempts
  BY <1>1, <1>4, <1>7, CxReplaceTyped
<1>9. \A i \in DOMAIN done : done[i] = IF i = cpAttempt THEN new ELSE cpAttempts[i] BY <1>1, <1>7
<1>10. \A i \in DOMAIN done : done[i].status = "completed" => CpSummary(done[i])
  BY <1>5, <1>8, <1>9 DEF CpInv, CpCheckpoints
<1> QED BY <1>6, <1>7, <1>8, <1>10

\* Another status leaves the attempts attempts.
LEMMA CpStatusTyped ==
  ASSUME CpInv, NEW i, NEW s \in {"started", "failed"}
  PROVE  /\ [cpAttempts EXCEPT ![i].status = s] \in Seq(CpAttemptSet)
         /\ Len([cpAttempts EXCEPT ![i].status = s]) = Len(cpAttempts)
         /\ \A j \in DOMAIN [cpAttempts EXCEPT ![i].status = s] :
              [cpAttempts EXCEPT ![i].status = s][j].status = "completed" =>
                 CpSummary([cpAttempts EXCEPT ![i].status = s][j])
<1>1. cpAttempts \in Seq(CpAttemptSet) BY DEF CpInv, CpTyped
<1>2. PICK new : new = [cpAttempts[i] EXCEPT !.status = s] OBVIOUS
<1>3. ASSUME i \in DOMAIN cpAttempts PROVE new \in CpAttemptSet /\ new.status = s
 <2>1. PICK a : a = cpAttempts[i] OBVIOUS
 <2>2. a \in CpAttemptSet BY <1>1, <1>3, <2>1
 <2> QED BY <1>2, <2>1, <2>2 DEF CpAttemptSet
<1>4. PICK done : done = [cpAttempts EXCEPT ![i] = new] OBVIOUS
<1>5. [cpAttempts EXCEPT ![i].status = s] = done BY <1>2, <1>4
<1>6. done \in Seq(CpAttemptSet) /\ Len(done) = Len(cpAttempts) /\ DOMAIN done = DOMAIN cpAttempts
  BY <1>1, <1>3, <1>4, CxReplaceTyped
<1>7. \A j \in DOMAIN done : done[j] = IF j = i THEN new ELSE cpAttempts[j] BY <1>1, <1>4
<1>8. \A j \in DOMAIN done : done[j].status = "completed" => CpSummary(done[j])
  BY <1>3, <1>6, <1>7 DEF CpInv, CpCheckpoints
<1> QED BY <1>5, <1>6, <1>8

\* The lock is released.
LEMMA CpReleaseTyped ==
  ASSUME Release
  PROVE  /\ cpOp' \in [kind : CpKinds \cup {"none"}, pc : CpPcs] /\ cpAttempt' = 0
         /\ cpResult' \in CpResultSet /\ ~cpResult.applied'
BY DEF Release, CpNoOp, CpPcs, CpUnchanged, CpResultSet

\* After a compaction the operation goes on, or releases the lock.
LEMMA CpAfterTyped ==
  ASSUME CpInv, AfterCompaction
  PROVE  /\ cpOp' \in [kind : CpKinds \cup {"none"}, pc : CpPcs] /\ cpAttempt' = 0
         /\ cpResult' \in CpResultSet /\ ~cpResult.applied'
<1>1. CASE cpOp.kind = "manual" BY <1>1, CpReleaseTyped DEF AfterCompaction
<1>2. CASE cpOp.kind # "manual"
 <2>1. cpOp' = [cpOp EXCEPT !.pc = "prepared"] /\ cpAttempt' = 0 /\ cpResult' = CpUnchanged
   BY <1>2 DEF AfterCompaction
 <2>2. cpOp \in [kind : CpKinds \cup {"none"}, pc : CpPcs] BY DEF CpInv, CpTyped
 <2> QED BY <2>1, <2>2 DEF CpPcs, CpUnchanged, CpResultSet
<1> QED BY <1>1, <1>2

\* A new attempt is a started one.
LEMMA CpBeginInv ==
  ASSUME CpInv, cpUp, NEW kind \in CpKinds \cup {"none"}, BeginCompaction(kind), cpOp.pc # "settling"
  PROVE  CpInv'
<1>1. PICK new : new = [status |-> "started", from |-> 0, to |-> 0,
                        covered |-> {}, anchored |-> FALSE, damaged |-> FALSE] OBVIOUS
<1>2. new \in CpAttemptSet /\ cpAttempts \in Seq(CpAttemptSet)
  BY <1>1 DEF CpAttemptSet, CpInv, CpTyped
<1>3. cpAttempts' = Append(cpAttempts, new) BY <1>1 DEF BeginCompaction, BeginAttempt
<1>4. cpAttempts' \in Seq(CpAttemptSet) /\ Len(cpAttempts') = Len(cpAttempts) + 1 BY <1>2, <1>3
<1>5. \A i \in DOMAIN cpAttempts' :
         cpAttempts'[i] = IF i = Len(cpAttempts) + 1 THEN new ELSE cpAttempts[i] BY <1>2, <1>3
<1>6. CpTyped' BY <1>4 DEF CpInv, CpTyped, BeginCompaction, CpPcs
<1>7. CpCheckpoints'
 <2>1. ASSUME NEW i \in DOMAIN cpAttempts', cpAttempts'[i].status = "completed"
       PROVE  cpAttempts'[i].to \in 0..Len(cpItems') /\ cpAttempts'[i].covered = 1..cpAttempts'[i].to
  <3>1. i # Len(cpAttempts) + 1 BY <1>1, <1>5, <2>1
  <3>2. i \in DOMAIN cpAttempts /\ cpAttempts'[i] = cpAttempts[i] BY <1>2, <1>4, <1>5, <3>1
  <3>3. CpSummary(cpAttempts[i]) BY <2>1, <3>2 DEF CpInv, CpCheckpoints
  <3>4. cpItems' = cpItems BY DEF BeginCompaction
  <3> QED BY <3>2, <3>3, <3>4 DEF CpSummary
 <2> QED BY <2>1 DEF CpCheckpoints, CpSummary
<1>8. ~cpResult.applied' /\ UNCHANGED <<cpItems, cpProj, cpUp>>
  BY DEF BeginCompaction, CpInv, CpWaiting
<1> QED BY <1>6, <1>7, <1>8, CpQuietInv

\* The compactor's answer: a longer prefix, or nothing.
LEMMA CpSummarizedInv ==
  ASSUME CpAssumption, CpInv, CpSummarized
  PROVE  CpInv'
<1>1. UNCHANGED <<cpItems, cpAttempts, cpKey, cpUp, cpProj, cpActive, cpAttempt>> /\ cpUp
  BY DEF CpSummarized
<1>2. cpOp' \in [kind : CpKinds \cup {"none"}, pc : CpPcs] /\ cpOp.pc' = "settling"
  BY DEF CpSummarized, CpInv, CpTyped, CpPcs
<1>3. cpResult' = CpUnchanged \/ \E keep \in RecentTurns : CanArchive(keep) /\ cpResult' = Archived(keep)
  BY DEF CpSummarized
<1>4. CpUnchanged \in CpResultSet /\ ~CpUnchanged.applied BY DEF CpUnchanged, CpResultSet
<1>5. cpResult' \in CpResultSet BY <1>1, <1>3, <1>4, CpArchivedSummary
<1>6. cpResult.applied' => CpSummary(cpResult') /\ cpResult.tail' = TailAfter(cpResult.to')
 <2>1. cpResult' = CpUnchanged => ~cpResult.applied' BY <1>4
 <2>2. ASSUME NEW keep \in RecentTurns, CanArchive(keep), cpResult' = Archived(keep)
       PROVE  CpSummary(cpResult') /\ cpResult.tail' = TailAfter(cpResult.to')
  <3>1. PICK r : r = Archived(keep) OBVIOUS
  <3>2. CpSummary(r) /\ r.tail = TailAfter(r.to) BY <1>1, <2>2, <3>1, CpArchivedSummary
  <3>3. cpResult' = r BY <2>2, <3>1
  <3> QED BY <3>2, <3>3
 <2> QED BY <1>3, <2>1, <2>2
<1>7. CpWaiting' BY <1>1, <1>2, <1>6 DEF CpWaiting, CpSummary, TailAfter
<1>8. CpTyped' BY <1>1, <1>2, <1>5 DEF CpInv, CpTyped
<1>9. CpCheckpoints' /\ CpSplit' BY <1>1 DEF CpInv, CpCheckpoints, CpSummary, CpSplit, TailAfter
<1> QED BY <1>7, <1>8, <1>9 DEF CpInv

\* The result is recorded and applied: the summary replaces what it archived.
LEMMA CpCompleteInv ==
  ASSUME CpAssumption, CpInv, CpComplete
  PROVE  CpInv'
<1>1. UNCHANGED <<cpItems, cpKey, cpUp>> /\ cpUp /\ cpResult.applied BY DEF CpComplete
<1>2. /\ cpOp' \in [kind : CpKinds \cup {"none"}, pc : CpPcs] /\ cpAttempt' = 0
      /\ cpResult' \in CpResultSet /\ ~cpResult.applied' BY CpAfterTyped DEF CpComplete
<1>3. PICK done : done = Completed(cpAttempt, cpResult) OBVIOUS
<1>4. cpAttempts' = done BY <1>3 DEF CpComplete
<1>5. /\ done \in Seq(CpAttemptSet) /\ Len(done) = Len(cpAttempts)
      /\ \A i \in DOMAIN done : done[i].status = "completed" => CpSummary(done[i])
  BY <1>1, <1>3, CpCompletedTyped
<1>6. cpActive' = cpAttempt /\ cpProj' = [covered |-> cpResult.covered, tail |-> cpResult.tail]
  BY DEF CpComplete, ApplyCompactionResult
<1>7. CpTyped' BY <1>1, <1>2, <1>4, <1>5, <1>6 DEF CpInv, CpTyped
<1>8. CpCheckpoints' BY <1>1, <1>4, <1>5 DEF CpCheckpoints, CpSummary
<1>9. CpWaiting' BY <1>2 DEF CpWaiting
<1>10. CpSplit'
 <2>1. CpSummary(cpResult) /\ cpResult.tail = TailAfter(cpResult.to) BY <1>1 DEF CpInv, CpWaiting
 <2>2. PICK c : c = cpResult.to OBVIOUS
 <2>3. c \in 0..Len(cpItems) /\ cpProj' = [covered |-> 1..c, tail |-> TailAfter(c)]
   BY <1>6, <2>1, <2>2 DEF CpSummary
 <2> QED BY <1>1, <2>3 DEF CpSplit, TailAfter
<1> QED BY <1>7, <1>8, <1>9, <1>10 DEF CpInv

\* The records of failures, refused, cancelled and dead operations.
LEMMA CpFailuresInv ==
  ASSUME CpAssumption, CpInv, CpFail \/ CpFailRefused \/ CpSinkFails \/ CpCancelled \/ CpEndTurn \/ CpCrash
  PROVE  CpInv'
<1>1. UNCHANGED <<cpItems, cpKey, cpProj, cpActive>> /\ cpUp /\ cpUp' \in BOOLEAN
  BY DEF CpFail, CpFailRefused, CpSinkFails, CpCancelled, CpEndTurn, CpCrash, CpInv, CpTyped
<1>2. /\ cpOp' \in [kind : CpKinds \cup {"none"}, pc : CpPcs] /\ cpAttempt' = 0
      /\ cpResult' \in CpResultSet /\ ~cpResult.applied'
  BY CpAfterTyped, CpReleaseTyped DEF CpFail, CpFailRefused, CpSinkFails, CpCancelled, CpEndTurn, CpCrash
<1>3. \/ cpAttempts' = cpAttempts
      \/ cpAttempts' = Failed(cpAttempt)
      \/ cpResult.applied /\ cpAttempts' = Completed(cpAttempt, cpResult)
  BY DEF CpFail, CpFailRefused, CpSinkFails, CpCancelled, CpEndTurn, CpCrash
<1>4. /\ cpAttempts' \in Seq(CpAttemptSet) /\ Len(cpAttempts') = Len(cpAttempts)
      /\ \A i \in DOMAIN cpAttempts' : cpAttempts'[i].status = "completed" => CpSummary(cpAttempts'[i])
 <2>1. CASE cpAttempts' = cpAttempts BY <2>1 DEF CpInv, CpTyped, CpCheckpoints
 <2>2. CASE cpAttempts' = Failed(cpAttempt)
  <3>1. PICK done : done = [cpAttempts EXCEPT ![cpAttempt].status = "failed"] OBVIOUS
  <3>2. /\ done \in Seq(CpAttemptSet) /\ Len(done) = Len(cpAttempts)
        /\ \A i \in DOMAIN done : done[i].status = "completed" => CpSummary(done[i])
    BY <3>1, CpStatusTyped
  <3>3. cpAttempts' = done BY <2>2, <3>1 DEF Failed
  <3> QED BY <3>2, <3>3
 <2>3. CASE cpResult.applied /\ cpAttempts' = Completed(cpAttempt, cpResult)
  <3>1. PICK done : done = Completed(cpAttempt, cpResult) OBVIOUS
  <3>2. /\ done \in Seq(CpAttemptSet) /\ Len(done) = Len(cpAttempts)
        /\ \A i \in DOMAIN done : done[i].status = "completed" => CpSummary(done[i])
    BY <2>3, <3>1, CpCompletedTyped
  <3>3. cpAttempts' = done BY <2>3, <3>1
  <3> QED BY <3>2, <3>3
 <2> QED BY <1>3, <2>1, <2>2, <2>3
<1>5. CpTyped' BY <1>1, <1>2, <1>4 DEF CpInv, CpTyped
<1>6. CpCheckpoints' BY <1>1, <1>4 DEF CpCheckpoints, CpSummary
<1> QED BY <1>1, <1>2, <1>5, <1>6, CpQuietInv

\* What a new process shows the model is whole.
LEMMA CpRestoreInv ==
  ASSUME CpAssumption, CpInv, CpRestore
  PROVE  CpInv'
<1>1. UNCHANGED <<cpItems, cpAttempts, cpKey, cpAttempt, cpResult>> /\ cpUp' = TRUE /\ cpOp' = CpNoOp
  BY DEF CpRestore
<1>2. PICK c : c = (IF CheckpointMatchesTranscript(LoadLatestCheckpoint)
                    THEN LoadLatestCheckpoint ELSE 0) OBVIOUS
<1>3. cpActive' = c /\ cpProj' = RestoreContextState(c) BY <1>2 DEF CpRestore
<1>4. c = 0 \/ (c \in DOMAIN cpAttempts /\ cpAttempts[c].status = "completed")
 <2>1. CASE c = 0 BY <2>1
 <2>2. CASE c # 0
  <3>1. c = LoadLatestCheckpoint /\ LoadLatestCheckpoint # 0 BY <1>2, <2>2
  <3>2. c = LatestCompleted /\ LatestCompleted # 0 /\ VerifyCheckpoint(LatestCompleted)
    BY <3>1 DEF LoadLatestCheckpoint
  <3>3. cpAttempts[c].status = "completed" BY <3>2 DEF VerifyCheckpoint
  <3>4. CompletedAttempts # {} BY <3>2 DEF LatestCompleted
  <3>5. PICK n : n = Len(cpAttempts) OBVIOUS
  <3>6. n \in Nat /\ CompletedAttempts \in SUBSET (1..n)
    BY <3>5 DEF CompletedAttempts, CpInv, CpTyped
  <3>7. \E i \in CompletedAttempts : \A j \in CompletedAttempts : j <= i BY <3>4, <3>6, CxMax
  <3>8. LatestCompleted \in CompletedAttempts BY <3>4, <3>7 DEF LatestCompleted
  <3> QED BY <3>2, <3>3, <3>8 DEF CompletedAttempts
 <2> QED BY <2>1, <2>2
<1>5. ~cpResult.applied BY DEF CpRestore, CpInv, CpWaiting
<1>6. cpItems \in Seq({"user", "reply"}) /\ Len(cpItems) \in Nat BY DEF CpInv, CpTyped
<1>7. CpTyped'
 <2>1. c \in 0..Len(cpAttempts) BY <1>4 DEF CpInv, CpTyped
 <2> QED BY <1>1, <1>3, <2>1 DEF CpInv, CpTyped, CpNoOp, CpPcs
<1>8. CpSplit'
 <2>1. CASE c = 0
  <3>1. cpProj' = [covered |-> {}, tail |-> TailAfter(0)]
    BY <1>3, <2>1 DEF RestoreContextState, CanonicalFallback
  <3>2. 1..0 = {} /\ 0 \in 0..Len(cpItems) BY <1>6
  <3> QED BY <1>1, <3>1, <3>2 DEF CpSplit, TailAfter
 <2>2. CASE c # 0
  <3>1. CpSummary(cpAttempts[c]) BY <1>4, <2>2 DEF CpInv, CpCheckpoints
  <3>2. cpProj' = [covered |-> cpAttempts[c].covered, tail |-> TailAfter(cpAttempts[c].to)]
    BY <1>3, <2>2 DEF RestoreContextState
  <3>3. PICK d : d = cpAttempts[c].to OBVIOUS
  <3>4. d \in 0..Len(cpItems) /\ cpProj' = [covered |-> 1..d, tail |-> TailAfter(d)]
    BY <3>1, <3>2, <3>3 DEF CpSummary
  <3> QED BY <1>1, <3>4 DEF CpSplit, TailAfter
 <2> QED BY <2>1, <2>2
<1>9. CpCheckpoints' /\ CpWaiting' BY <1>1, <1>5 DEF CpInv, CpCheckpoints, CpSummary, CpWaiting
<1> QED BY <1>7, <1>8, <1>9 DEF CpInv

\* Every step of a session's context keeps the invariant.
LEMMA CpStep ==
  ASSUME CpAssumption, CpInv, [CpNext]_cpVars
  PROVE  CpInv'
<1>1. CASE UNCHANGED cpVars
  BY <1>1 DEF cpVars, CpInv, CpTyped, CpCheckpoints, CpSummary, CpWaiting, CpSplit, TailAfter
<1>2. CASE \E kind \in CpKinds : CpStartTurn(kind)
 <2>1. ~cpResult.applied BY <1>2 DEF CpStartTurn, CpNoOp, CpInv, CpWaiting
 <2>2. CpTyped' /\ CpCheckpoints' /\ UNCHANGED <<cpItems, cpProj, cpUp, cpResult>>
   BY <1>2 DEF CpStartTurn, CpInv, CpTyped, CpPcs, CpCheckpoints, CpSummary
 <2> QED BY <2>1, <2>2, CpQuietInv
<1>3. CASE CpTurnFits
 <2>1. cpOp' \in [kind : CpKinds \cup {"none"}, pc : CpPcs]
   BY <1>3 DEF CpTurnFits, CpInv, CpTyped, CpPcs
 <2> QED BY <1>3, <2>1, CpAppendInv DEF CpTurnFits
<1>4. CASE CpReply
 <2>1. cpOp' \in [kind : CpKinds \cup {"none"}, pc : CpPcs] BY <1>4 DEF CpReply, CpInv, CpTyped
 <2> QED BY <1>4, <2>1, CpAppendInv DEF CpReply
<1>5. CASE CpAutoCompact
 <2>1. cpUp /\ cpOp.pc = "preparing" /\ BeginCompaction(cpOp.kind) BY <1>5 DEF CpAutoCompact
 <2>2. cpOp.kind \in CpKinds \cup {"none"} BY DEF CpInv, CpTyped
 <2> QED BY <2>1, <2>2, CpBeginInv
<1>6. CASE CpManualCompact BY <1>6, CpBeginInv DEF CpManualCompact, CpNoOp, CpKinds
<1>7. CASE CpSummarized BY <1>7, CpSummarizedInv
<1>8. CASE CpCooldownEnds
  BY <1>8 DEF CpCooldownEnds, CpInv, CpTyped, CpCheckpoints, CpSummary, CpWaiting, CpSplit, TailAfter
<1>9. CASE CpComplete BY <1>9, CpCompleteInv
<1>10. CASE CpFail \/ CpFailRefused \/ CpSinkFails \/ CpCancelled \/ CpEndTurn \/ CpCrash
  BY <1>10, CpFailuresInv
<1>11. CASE CpDamage
 <2>1. PICK i \in CompletedAttempts : cpAttempts' = [cpAttempts EXCEPT ![i].damaged = TRUE]
   BY <1>11 DEF CpDamage
 <2>2. UNCHANGED <<cpItems, cpKey, cpUp, cpProj, cpActive, cpOp, cpAttempt, cpResult>>
   BY <1>11 DEF CpDamage
 <2>3. cpAttempts \in Seq(CpAttemptSet) /\ i \in DOMAIN cpAttempts
   BY DEF CpInv, CpTyped, CompletedAttempts
 <2>4. PICK new : new = [cpAttempts[i] EXCEPT !.damaged = TRUE] OBVIOUS
 <2>5. new \in CpAttemptSet /\ new.status = cpAttempts[i].status
       /\ (CpSummary(cpAttempts[i]) => CpSummary(new))
  <3>1. PICK a : a = cpAttempts[i] OBVIOUS
  <3>2. a \in CpAttemptSet BY <2>3, <3>1
  <3>3. new \in CpAttemptSet /\ new.status = a.status /\ new.to = a.to /\ new.covered = a.covered
    BY <2>4, <3>1, <3>2 DEF CpAttemptSet
  <3> QED BY <3>1, <3>3 DEF CpSummary
 <2>6. cpAttempts' = [cpAttempts EXCEPT ![i] = new] BY <2>1, <2>4
 <2>7. cpAttempts' \in Seq(CpAttemptSet) /\ Len(cpAttempts') = Len(cpAttempts)
       /\ DOMAIN cpAttempts' = DOMAIN cpAttempts BY <2>3, <2>5, <2>6, CxReplaceTyped
 <2>8. \A j \in DOMAIN cpAttempts' : cpAttempts'[j] = IF j = i THEN new ELSE cpAttempts[j]
   BY <2>3, <2>6
 <2>9. \A j \in DOMAIN cpAttempts' : cpAttempts'[j].status = "completed" => CpSummary(cpAttempts'[j])
   BY <2>3, <2>5, <2>7, <2>8 DEF CpInv, CpCheckpoints
 <2>10. CpCheckpoints' BY <2>2, <2>9 DEF CpCheckpoints, CpSummary
 <2>11. CpTyped' BY <2>2, <2>7 DEF CpInv, CpTyped
 <2> QED BY <2>2, <2>10, <2>11 DEF CpInv, CpWaiting, CpSummary, CpSplit, TailAfter
<1>12. CASE CpBoot
 <2>1. ~cpResult.applied BY <1>12 DEF CpBoot, CpInv, CpWaiting
 <2>2. CpTyped' /\ CpCheckpoints' /\ UNCHANGED <<cpItems, cpProj, cpUp, cpResult>>
   BY <1>12 DEF CpBoot, CpInv, CpTyped, CpPcs, CpCheckpoints, CpSummary, CpAssumption
 <2> QED BY <2>1, <2>2, CpQuietInv
<1>13. CASE CpRestore BY <1>13, CpRestoreInv
<1> QED BY <1>1, <1>2, <1>3, <1>4, <1>5, <1>6, <1>7, <1>8, <1>9, <1>10, <1>11, <1>12, <1>13 DEF CpNext

\* It holds of a new session.
LEMMA CpStart ==
  ASSUME CpAssumption, CpInit
  PROVE  CpInv
<1>1. cpItems = <<>> /\ cpAttempts = <<>> /\ cpUp = TRUE /\ cpActive = 0 /\ cpAttempt = 0
      /\ cpOp = CpNoOp /\ cpResult = CpUnchanged /\ cpKey \in BOOLEAN BY DEF CpInit, CpAssumption
<1>2. CpTyped BY <1>1 DEF CpTyped, CpNoOp, CpPcs, CpUnchanged, CpResultSet
<1>3. CpCheckpoints /\ CpWaiting BY <1>1 DEF CpCheckpoints, CpWaiting, CpUnchanged
<1>4. CpSplit
 <2>1. Len(cpItems) = 0 /\ 0 \in 0..Len(cpItems) BY <1>1
 <2>2. TailAfter(0) = <<>> BY <2>1 DEF TailAfter
 <2>3. 1..0 = {} OBVIOUS
 <2>4. cpProj = [covered |-> {}, tail |-> <<>>] BY DEF CpInit
 <2> QED BY <2>1, <2>2, <2>3, <2>4 DEF CpSplit
<1> QED BY <1>2, <1>3, <1>4 DEF CpInv

\* What the inductive invariant says of the projection.
LEMMA CpInvWhole ==
  ASSUME CpInv
  PROVE  CpProjectionIsWhole
<1>1. SUFFICES ASSUME cpUp PROVE
        /\ \A i \in 1..Len(cpProj.tail) - 1 : cpProj.tail[i] < cpProj.tail[i + 1]
        /\ cpProj.covered \cap {cpProj.tail[i] : i \in DOMAIN cpProj.tail} = {}
        /\ cpProj.covered \cup {cpProj.tail[i] : i \in DOMAIN cpProj.tail} = DOMAIN cpItems
  BY DEF CpProjectionIsWhole
<1>2. cpItems \in Seq({"user", "reply"}) BY DEF CpInv, CpTyped
<1>3. PICK c \in 0..Len(cpItems) : cpProj = [covered |-> 1..c, tail |-> TailAfter(c)]
  BY <1>1 DEF CpInv, CpSplit
<1>4. PICK n : n = Len(cpItems) - c OBVIOUS
<1>5. n \in Nat /\ Len(cpItems) = c + n /\ c \in Nat /\ DOMAIN cpItems = 1..(c + n) BY <1>2, <1>4
<1>6. PICK tail : tail = TailAfter(c) OBVIOUS
<1>7. /\ Len(tail) = n /\ DOMAIN tail = 1..n /\ \A i \in 1..n : tail[i] = c + i
      /\ cpProj.tail = tail /\ cpProj.covered = 1..c BY <1>2, <1>3, <1>4, <1>6, CpTailTyped
<1>8. \A i \in 1..(n - 1) : tail[i] < tail[i + 1] BY <1>5, <1>7
<1>9. PICK T : T = {tail[i] : i \in 1..n} OBVIOUS
<1>10. T = (c + 1)..(c + n)
 <2>1. ASSUME NEW x \in (c + 1)..(c + n) PROVE x \in T
  <3>1. x - c \in 1..n /\ tail[x - c] = x BY <1>5, <1>7
  <3> QED BY <1>9, <3>1
 <2>2. ASSUME NEW i \in 1..n PROVE tail[i] \in (c + 1)..(c + n) BY <1>5, <1>7
 <2> QED BY <1>9, <2>1, <2>2
<1>11. (1..c) \cap ((c + 1)..(c + n)) = {} /\ (1..c) \cup ((c + 1)..(c + n)) = 1..(c + n) BY <1>5
<1>12. {cpProj.tail[i] : i \in DOMAIN cpProj.tail} = (c + 1)..(c + n)
 <2>1. cpProj.tail = tail /\ DOMAIN tail = 1..n BY <1>7
 <2>2. {cpProj.tail[i] : i \in DOMAIN cpProj.tail} = {tail[i] : i \in 1..n} BY <2>1, Zenon
 <2> QED BY <2>2, <1>9, <1>10, Zenon
<1>13. \A i \in 1..Len(cpProj.tail) - 1 : cpProj.tail[i] < cpProj.tail[i + 1] BY <1>7, <1>8
<1> QED BY <1>5, <1>7, <1>11, <1>12, <1>13

\* Every item of the transcript reaches the model exactly once, through the
\* summary or in the tail and in order, whatever compactions, failed records,
\* crashes and restores came before (runtime.py, context/compact.py and
\* persistence/compaction_store.py), for every transcript and every policy.
THEOREM ProjectionIsWhole == CpSpec => [](CpProjectionIsWhole /\ CpTypeOK)
<1>1. CpInit => CpInv BY CpAssumption, CpStart
<1>2. CpInv /\ [CpNext]_cpVars => CpInv' BY CpAssumption, CpStep
<1>3. CpInv => CpProjectionIsWhole /\ CpTypeOK
 <2>1. ASSUME CpInv PROVE CpTypeOK
  <3>1. \A i \in DOMAIN cpAttempts : cpAttempts[i] \in CpAttemptSet BY <2>1 DEF CpInv, CpTyped
  <3>2. \A i \in DOMAIN cpAttempts :
           cpAttempts[i].status \in {"started", "completed", "failed"} BY <3>1 DEF CpAttemptSet
  <3> QED BY <2>1, <3>2 DEF CpInv, CpTyped, CpTypeOK
 <2> QED BY <2>1, CpInvWhole
<1> QED BY <1>1, <1>2, <1>3, PTL DEF CpSpec

--------------------
(* Sorted references. *)

CxIncreasing(q) == \A i, j \in DOMAIN q : i < j => q[i] < q[j]

\* What is put before the elements of an increasing sequence, smaller than they.
LEMMA CxConsIncreasing ==
  ASSUME NEW S \in SUBSET Nat, NEW n \in Nat, NEW q \in [1..n -> S], CxIncreasing(q),
         NEW m \in Nat, \A x \in S : m < x
  PROVE  \E p \in [1..(n + 1) -> S \cup {m}] : CxIncreasing(p)
<1>1. PICK p : p = [i \in 1..(n + 1) |-> IF i = 1 THEN m ELSE q[i - 1]] OBVIOUS
<1>2. \A i \in 1..(n + 1) : i # 1 => i - 1 \in 1..n /\ q[i - 1] \in S OBVIOUS
<1>3. p \in [1..(n + 1) -> S \cup {m}] BY <1>1, <1>2
<1>4. ASSUME NEW i \in 1..(n + 1), NEW j \in 1..(n + 1), i < j PROVE p[i] < p[j]
 <2>1. j # 1 /\ j - 1 \in 1..n /\ p[j] = q[j - 1] /\ q[j - 1] \in S BY <1>1, <1>2, <1>4
 <2>2. CASE i = 1 BY <1>1, <2>1, <2>2
 <2>3. CASE i # 1
  <3>1. i - 1 \in 1..n /\ p[i] = q[i - 1] /\ i - 1 < j - 1 BY <1>1, <1>2, <1>4, <2>3
  <3> QED BY <2>1, <3>1 DEF CxIncreasing
 <2> QED BY <2>2, <2>3
<1> QED BY <1>3, <1>4 DEF CxIncreasing

\* A finite set of naturals can be listed in ascending order.
LEMMA CxSortedExists ==
  ASSUME NEW S \in SUBSET Nat, IsFiniteSet(S)
  PROVE  \E q \in [1..Cardinality(S) -> S] : CxIncreasing(q)
<1> DEFINE Listed(R) == \E q \in [1..Cardinality(R) -> R] : CxIncreasing(q)
<1>1. SUFFICES ASSUME ~Listed(S) PROVE FALSE OBVIOUS
<1>2. PICK T : T = {n \in Nat : \E R \in SUBSET Nat : IsFiniteSet(R) /\ Cardinality(R) = n /\ ~Listed(R)}
  OBVIOUS
<1>3. T \in SUBSET Nat /\ T # {}
 <2>1. Cardinality(S) \in Nat BY FS_CardinalityType
 <2>2. Cardinality(S) \in T BY <1>1, <1>2, <2>1
 <2> QED BY <1>2, <2>2
<1>4. PICK n \in T : \A x \in T : n <= x BY <1>3, CxLeast
<1>5. PICK R \in SUBSET Nat : IsFiniteSet(R) /\ Cardinality(R) = n /\ ~Listed(R) BY <1>2, <1>4
<1>6. n \in Nat BY <1>3
<1>7. R # {}
 <2>1. SUFFICES ASSUME R = {} PROVE FALSE OBVIOUS
 <2>2. Cardinality(R) = 0 BY <2>1, FS_EmptySet
 <2>3. PICK e : e = [i \in 1..0 |-> 0] OBVIOUS
 <2>4. e \in [1..0 -> R] /\ CxIncreasing(e) BY <2>3 DEF CxIncreasing
 <2> QED BY <1>5, <2>2, <2>4
<1>8. PICK m \in R : \A x \in R : m <= x BY <1>7, CxLeast
<1>9. PICK Q : Q = R \ {m} OBVIOUS
<1>10. IsFiniteSet(Q) /\ Cardinality(Q) = n - 1 /\ Cardinality(Q) \in Nat
  BY <1>5, <1>8, <1>9, FS_RemoveElement, FS_CardinalityType
<1>11. PICK k : k = Cardinality(Q) OBVIOUS
<1>12. k \in Nat /\ n = k + 1 /\ k \notin T BY <1>4, <1>6, <1>10, <1>11
<1>13. Listed(Q) BY <1>2, <1>9, <1>10, <1>11, <1>12
<1>14. PICK q \in [1..k -> Q] : CxIncreasing(q) BY <1>11, <1>13
<1>15. Q \in SUBSET Nat /\ \A x \in Q : m < x
 <2>1. \A x \in R : x \in Nat /\ m \in Nat OBVIOUS
 <2> QED BY <1>8, <1>9, <2>1
<1>16. \E p \in [1..(k + 1) -> Q \cup {m}] : CxIncreasing(p)
  BY <1>12, <1>14, <1>15, CxConsIncreasing
<1>17. Q \cup {m} = R BY <1>8, <1>9
<1> QED BY <1>5, <1>12, <1>16, <1>17

\* An increasing sequence has no element twice.
LEMMA CxIncreasingInjective ==
  ASSUME NEW n \in Nat, NEW q \in [1..n -> Nat], CxIncreasing(q)
  PROVE  IsInjective(q)
<1>1. ASSUME NEW i \in 1..n, NEW j \in 1..n, q[i] = q[j], i # j PROVE FALSE
 <2>1. q[i] \in Nat /\ q[j] \in Nat /\ (i < j \/ j < i) BY <1>1
 <2> QED BY <1>1, <2>1 DEF CxIncreasing
<1> QED BY <1>1 DEF IsInjective

\* What the sorted list of a set is.
LEMMA TsSortedFacts ==
  ASSUME NEW S \in SUBSET Nat, IsFiniteSet(S)
  PROVE  /\ Cardinality(S) \in Nat /\ TsSorted(S) \in [1..Cardinality(S) -> S]
         /\ CxIncreasing(TsSorted(S)) /\ ToSet(TsSorted(S)) = S
<1>1. Cardinality(S) \in Nat BY FS_CardinalityType
<1>2. \E q \in [1..Cardinality(S) -> S] : \A i, j \in DOMAIN q : i < j => q[i] < q[j]
  BY CxSortedExists DEF CxIncreasing
<1>3. TsSorted(S) \in [1..Cardinality(S) -> S] /\ CxIncreasing(TsSorted(S))
  BY <1>2 DEF TsSorted, CxIncreasing
<1>4. TsSorted(S) \in [1..Cardinality(S) -> Nat] BY <1>3
<1>5. IsInjective(TsSorted(S)) BY <1>1, <1>3, <1>4, CxIncreasingInjective
<1>6. TsSorted(S) \in Injection(1..Cardinality(S), S) BY <1>3, <1>5 DEF Injection
<1>7. Cardinality(1..Cardinality(S)) = Cardinality(S) BY <1>1, FS_Interval
<1>8. TsSorted(S) \in Surjection(1..Cardinality(S), S) BY <1>6, <1>7, FS_Injection
<1> QED BY <1>1, <1>3, <1>8 DEF ToSet, Surjection

\* Two increasing sequences of the same elements agree as far as the first goes.
LEMMA CxIncreasingAgree ==
  ASSUME NEW n \in Nat, NEW q \in [1..n -> Nat], CxIncreasing(q),
         NEW m \in Nat, NEW p \in [1..m -> Nat], CxIncreasing(p),
         ToSet(q) = ToSet(p)
  PROVE  n <= m /\ \A i \in 1..n : q[i] = p[i]
<1>1. PICK T : T = {i \in 1..n : ~(i <= m /\ q[i] = p[i])} OBVIOUS
<1>2. SUFFICES ASSUME T # {} PROVE FALSE
 <2>1. CASE n = 0 BY <1>1, <2>1
 <2>2. CASE n # 0
  <3>1. n \in 1..n /\ n \notin T BY <1>2, <2>2
  <3> QED BY <1>1, <1>2, <3>1
 <2> QED BY <2>1, <2>2
<1>3. T \in SUBSET Nat BY <1>1
<1>4. PICK k \in T : \A x \in T : k <= x BY <1>2, <1>3, CxLeast
<1>5. k \in 1..n /\ ~(k <= m /\ q[k] = p[k]) BY <1>1, <1>4
<1>6. \A i \in 1..n : i < k => i \in 1..m /\ q[i] = p[i]
 <2>1. ASSUME NEW i \in 1..n, i < k PROVE i \in 1..m /\ q[i] = p[i]
  <3>1. i \notin T BY <1>4, <1>5, <2>1
  <3> QED BY <1>1, <3>1
 <2> QED BY <2>1
<1>7. q[k] \in ToSet(p) BY <1>5 DEF ToSet
<1>8. PICK j \in 1..m : p[j] = q[k] BY <1>7 DEF ToSet
<1>9. ~(j < k)
 <2>1. SUFFICES ASSUME j < k PROVE FALSE OBVIOUS
 <2>2. j \in 1..n /\ q[j] = p[j] BY <1>5, <1>6, <2>1
 <2>3. q[j] < q[k] /\ q[j] \in Nat /\ q[k] \in Nat BY <1>5, <2>1, <2>2 DEF CxIncreasing
 <2> QED BY <1>8, <2>2, <2>3
<1>10. k \in 1..m /\ k # j BY <1>5, <1>8, <1>9
<1>11. k < j /\ p[k] < p[j] BY <1>9, <1>10 DEF CxIncreasing
<1>12. p[k] \in ToSet(q) BY <1>10 DEF ToSet
<1>13. PICK i \in 1..n : q[i] = p[k] BY <1>12 DEF ToSet
<1>14. q[i] < q[k] /\ q[i] \in Nat /\ q[k] \in Nat BY <1>5, <1>8, <1>11, <1>13
<1>15. i < k
 <2>1. CASE k < i
  <3>1. q[k] < q[i] BY <1>5, <2>1 DEF CxIncreasing
  <3> QED BY <1>14, <3>1
 <2>2. CASE k = i BY <1>14, <2>2
 <2> QED BY <1>5, <2>1, <2>2
<1>16. q[i] = p[i] /\ i \in 1..m BY <1>6, <1>15
<1>17. p[i] < p[k] /\ p[i] \in Nat /\ p[k] \in Nat BY <1>10, <1>15, <1>16 DEF CxIncreasing
<1> QED BY <1>13, <1>16, <1>17

\* The elements of a finite sequence are finitely many.
LEMMA CxToSetFinite ==
  ASSUME NEW n \in Nat, NEW B, NEW q \in [1..n -> B]
  PROVE  IsFiniteSet(ToSet(q)) /\ Cardinality(ToSet(q)) <= n /\ Cardinality(ToSet(q)) \in Nat
         /\ (IsInjective(q) => Cardinality(ToSet(q)) = n)
<1>1. q \in Surjection(1..n, ToSet(q)) BY DEF Surjection, ToSet
<1>2. IsFiniteSet(1..n) /\ Cardinality(1..n) = n BY FS_Interval
<1>3. IsFiniteSet(ToSet(q)) /\ Cardinality(ToSet(q)) <= n
      /\ (Cardinality(ToSet(q)) = n <=> q \in Injection(1..n, ToSet(q)))
  BY <1>1, <1>2, FS_Surjection
<1>4. q \in [1..n -> ToSet(q)] BY DEF ToSet
<1> QED BY <1>3, <1>4, FS_CardinalityType DEF Injection

\* An increasing sequence is the sorted list of its elements.
LEMMA TsSortedIs ==
  ASSUME NEW n \in Nat, NEW q \in [1..n -> Nat], CxIncreasing(q)
  PROVE  TsSorted(ToSet(q)) = q
<1>1. PICK S : S = ToSet(q) OBVIOUS
<1>2. S \in SUBSET Nat /\ IsFiniteSet(S) BY <1>1, CxToSetFinite DEF ToSet
<1>3. PICK p : p = TsSorted(S) OBVIOUS
<1>4. PICK m : m = Cardinality(S) OBVIOUS
<1>5. m \in Nat /\ p \in [1..m -> S] /\ CxIncreasing(p) /\ ToSet(p) = S
  BY <1>2, <1>3, <1>4, TsSortedFacts
<1>6. p \in [1..m -> Nat] /\ m \in Nat /\ CxIncreasing(p) /\ ToSet(p) = ToSet(q) BY <1>1, <1>2, <1>5
<1>7. n <= m /\ \A i \in 1..n : q[i] = p[i] BY <1>6, CxIncreasingAgree
<1>8. m <= n BY <1>6, CxIncreasingAgree
<1>9. m = n BY <1>5, <1>7, <1>8
<1>10. p = q BY <1>6, <1>7, <1>9
<1> QED BY <1>1, <1>3, <1>10

\* The references kept of those in R: the largest, at most TsMaxRefs, sorted.
TsKept(refs, R) ==
  /\ refs \in Seq(Nat) /\ CxIncreasing(refs)
  /\ ToSet(refs) \subseteq R /\ Len(refs) <= TsMaxRefs
  /\ \A r \in R \ ToSet(refs) : Len(refs) = TsMaxRefs /\ \A k \in ToSet(refs) : r < k

\* The last elements of an increasing sequence.
LEMMA TsTailFacts ==
  ASSUME TsAssumption, NEW n \in Nat, NEW q \in [1..n -> Nat], CxIncreasing(q)
  PROVE  /\ TsTail(q, TsMaxRefs) \in Seq(Nat) /\ CxIncreasing(TsTail(q, TsMaxRefs))
         /\ Len(TsTail(q, TsMaxRefs)) <= TsMaxRefs
         /\ n <= TsMaxRefs => TsTail(q, TsMaxRefs) = q
         /\ n > TsMaxRefs =>
              /\ Len(TsTail(q, TsMaxRefs)) = TsMaxRefs
              /\ ToSet(TsTail(q, TsMaxRefs)) = {q[j] : j \in (n - TsMaxRefs + 1)..n}
<1>1. TsMaxRefs \in Nat \ {0} BY DEF TsAssumption
<1>2. q \in Seq(Nat) /\ Len(q) = n OBVIOUS
<1>3. CASE n <= TsMaxRefs BY <1>1, <1>2, <1>3 DEF TsTail
<1>4. CASE n > TsMaxRefs
 <2>1. PICK b : b = n - TsMaxRefs OBVIOUS
 <2>2. b \in Nat /\ b + TsMaxRefs = n /\ n - TsMaxRefs + 1 = b + 1 BY <1>1, <1>4, <2>1
 <2>3. PICK t : t = TsTail(q, TsMaxRefs) OBVIOUS
 <2>4. t = SubSeq(q, b + 1, n) BY <1>2, <1>4, <2>2, <2>3 DEF TsTail
 <2>5. t \in Seq(Nat) /\ Len(t) = TsMaxRefs BY <1>1, <1>2, <2>2, <2>4
 <2>6. \A i \in 1..TsMaxRefs : b + i \in 1..n /\ t[i] = q[b + i] BY <1>1, <1>2, <2>2, <2>4
 <2>7. DOMAIN t = 1..TsMaxRefs /\ DOMAIN q = 1..n BY <2>5
 <2>8. CxIncreasing(t)
  <3>1. ASSUME NEW i \in 1..TsMaxRefs, NEW j \in 1..TsMaxRefs, i < j PROVE t[i] < t[j]
   <4>1. b + i \in 1..n /\ b + j \in 1..n /\ b + i < b + j BY <2>2, <2>6, <3>1
   <4> QED BY <2>6, <2>7, <4>1 DEF CxIncreasing
  <3> QED BY <2>7, <3>1 DEF CxIncreasing
 <2>9. ToSet(t) = {q[j] : j \in (b + 1)..n}
  <3>1. ASSUME NEW x \in ToSet(t) PROVE x \in {q[j] : j \in (b + 1)..n}
   <4>1. PICK i \in 1..TsMaxRefs : x = t[i] BY <2>7, <3>1 DEF ToSet
   <4>2. b + i \in (b + 1)..n BY <2>2, <1>1
   <4> QED BY <2>6, <4>1, <4>2
  <3>2. ASSUME NEW j \in (b + 1)..n PROVE q[j] \in ToSet(t)
   <4>1. j - b \in 1..TsMaxRefs /\ b + (j - b) = j BY <1>1, <2>2
   <4>2. q[j] = t[j - b] BY <2>6, <4>1
   <4> QED BY <2>7, <4>1, <4>2 DEF ToSet
  <3> QED BY <3>1, <3>2
 <2> QED BY <1>1, <1>4, <2>2, <2>3, <2>5, <2>8, <2>9
<1> QED BY <1>1, <1>3, <1>4

\* Merging more references keeps the largest of all, whatever was dropped
\* before: a dropped one is smaller than the TsMaxRefs that were kept then.
LEMMA TsMergeKept ==
  ASSUME TsAssumption, NEW refs, NEW R \in SUBSET Nat, TsKept(refs, R),
         NEW new \in SUBSET Nat, IsFiniteSet(new)
  PROVE  TsKept(TsMergeRefs(refs, new), R \cup new)
<1>1. PICK M : M = TsMaxRefs OBVIOUS
<1>2. M \in Nat /\ M >= 1 BY <1>1 DEF TsAssumption
<1>3. refs \in [1..Len(refs) -> Nat] /\ Len(refs) \in Nat BY DEF TsKept
<1>4. PICK K : K = ToSet(refs) OBVIOUS
<1>5. IsFiniteSet(K) /\ Cardinality(K) = Len(refs) /\ K \in SUBSET Nat
 <2>1. IsInjective(refs) BY <1>3, CxIncreasingInjective DEF TsKept
 <2>2. K \in SUBSET Nat BY <1>3, <1>4 DEF ToSet
 <2> QED BY <1>3, <1>4, <2>1, <2>2, CxToSetFinite
<1>6. PICK S : S = K \cup new OBVIOUS
<1>7. IsFiniteSet(S) /\ S \in SUBSET Nat BY <1>5, <1>6, FS_Union
<1>8. PICK n : n = Cardinality(S) OBVIOUS
<1>9. PICK q : q = TsSorted(S) OBVIOUS
<1>10. n \in Nat /\ q \in [1..n -> S] /\ CxIncreasing(q) /\ ToSet(q) = S
  BY <1>7, <1>8, <1>9, TsSortedFacts
<1>11. q \in [1..n -> Nat] BY <1>7, <1>10
<1>12. PICK t : t = TsTail(q, M) OBVIOUS
<1>13. t = TsMergeRefs(refs, new) BY <1>1, <1>4, <1>6, <1>9, <1>12 DEF TsMergeRefs
<1>14. /\ t \in Seq(Nat) /\ CxIncreasing(t) /\ Len(t) <= M
       /\ n <= M => t = q
       /\ n > M => Len(t) = M /\ ToSet(t) = {q[j] : j \in (n - M + 1)..n}
  BY <1>1, <1>10, <1>11, <1>12, TsTailFacts
<1>15. \A x \in S : \E j \in 1..n : x = q[j] BY <1>10 DEF ToSet
<1>16. \A r \in R \ K : Len(refs) = M /\ \A k \in K : r < k BY <1>1, <1>4 DEF TsKept
<1>17. K \subseteq R BY <1>4 DEF TsKept
<1>18. CASE n <= M
 <2>1. t = q /\ ToSet(t) = S BY <1>10, <1>14, <1>18
 <2>2. ASSUME NEW r \in (R \cup new) \ S PROVE Len(t) = M /\ \A k \in S : r < k
  <3>1. r \in R \ K BY <1>6, <2>2
  <3>2. Cardinality(K) = M BY <1>5, <1>16, <3>1
  <3>3. K \subseteq S BY <1>6
  <3>4. Cardinality(K) <= Cardinality(S) BY <1>7, <3>3, FS_Subset
  <3>5. n = M BY <1>2, <1>8, <1>10, <1>18, <3>2, <3>4
  <3>6. K = S BY <1>7, <1>8, <3>2, <3>3, <3>5, FS_Subset
  <3> QED BY <1>11, <1>16, <2>1, <3>1, <3>5, <3>6
 <2> QED BY <1>1, <1>6, <1>13, <1>14, <1>17, <2>1, <2>2 DEF TsKept
<1>19. CASE n > M
 <2>1. PICK b : b = n - M OBVIOUS
 <2>2. b \in Nat /\ b >= 1 /\ b + M = n BY <1>2, <1>10, <1>19, <2>1
 <2>3. Len(t) = M /\ ToSet(t) = {q[j] : j \in (b + 1)..n} BY <1>14, <1>19, <2>1
 <2>4. b + 1 \in 1..n BY <1>2, <2>2
 <2>5. ASSUME NEW r \in Nat, r < q[b + 1] PROVE \A k \in ToSet(t) : r < k
  <3>1. SUFFICES ASSUME NEW j \in (b + 1)..n PROVE r < q[j] BY <2>3
  <3>2. j \in 1..n /\ (j = b + 1 \/ b + 1 < j) BY <2>2
  <3>3. q[j] \in Nat /\ q[b + 1] \in Nat /\ (b + 1 < j => q[b + 1] < q[j])
    BY <1>10, <1>11, <2>4, <3>2 DEF CxIncreasing
  <3> QED BY <2>5, <3>2, <3>3
 <2>6. ASSUME NEW r \in (R \cup new) \ ToSet(t) PROVE r < q[b + 1]
  <3>1. CASE r \in S
   <4>1. PICK i \in 1..n : r = q[i] BY <1>15, <3>1
   <4>2. i \notin (b + 1)..n BY <2>3, <2>6, <4>1
   <4>3. i < b + 1 BY <2>2, <4>2
   <4> QED BY <1>10, <1>11, <2>4, <4>1, <4>3 DEF CxIncreasing
  <3>2. CASE r \notin S
   <4>1. r \in R \ K /\ r \in Nat BY <1>6, <2>6, <3>2
   <4>2. Cardinality(K) = M /\ \A k \in K : r < k BY <1>5, <1>16, <4>1
   <4>3. SUFFICES ASSUME ~(r < q[b + 1]) PROVE FALSE OBVIOUS
   <4>4. PICK L : L = {q[j] : j \in (b + 2)..n} OBVIOUS
   <4>5. ASSUME NEW k \in K PROVE k \in L
    <5>1. k \in S /\ r < k /\ k \in Nat BY <1>5, <1>6, <4>2
    <5>2. PICK j \in 1..n : k = q[j] BY <1>15, <5>1
    <5>3. q[j] \in Nat /\ q[b + 1] \in Nat BY <1>11, <2>4
    <5>4. q[b + 1] < q[j] BY <4>1, <4>3, <5>1, <5>2, <5>3
    <5>5. ~(j < b + 1) /\ j # b + 1 BY <1>10, <1>11, <2>4, <5>3, <5>4 DEF CxIncreasing
    <5>6. j \in (b + 2)..n BY <2>2, <5>5
    <5> QED BY <4>4, <5>2, <5>6
   <4>6. PICK m : m = M - 1 OBVIOUS
   <4>7. m \in Nat /\ m + b + 1 = n BY <1>2, <2>2, <4>6
   <4>8. PICK u : u = [i \in 1..m |-> q[b + 1 + i]] OBVIOUS
   <4>9. \A i \in 1..m : b + 1 + i \in 1..n BY <2>2, <4>7
   <4>10. u \in [1..m -> Nat] BY <1>11, <4>8, <4>9
   <4>11. ASSUME NEW k \in L PROVE k \in ToSet(u)
    <5>1. PICK j \in (b + 2)..n : k = q[j] BY <4>4, <4>11
    <5>2. j - b - 1 \in 1..m /\ b + 1 + (j - b - 1) = j BY <2>2, <4>7
    <5>3. u[j - b - 1] = k BY <4>8, <5>1, <5>2
    <5>4. DOMAIN u = 1..m BY <4>10
    <5> QED BY <5>2, <5>3, <5>4 DEF ToSet
   <4>12. IsFiniteSet(ToSet(u)) /\ Cardinality(ToSet(u)) <= m /\ Cardinality(ToSet(u)) \in Nat
     BY <4>7, <4>10, CxToSetFinite
   <4>13. K \subseteq ToSet(u) BY <4>5, <4>11
   <4>14. Cardinality(K) <= Cardinality(ToSet(u)) BY <4>12, <4>13, FS_Subset
   <4> QED BY <1>2, <4>2, <4>6, <4>12, <4>14
  <3> QED BY <3>1, <3>2
 <2>7. ToSet(t) \subseteq R \cup new
  <3>1. ASSUME NEW x \in ToSet(t) PROVE x \in S
   <4>1. PICK j \in (b + 1)..n : x = q[j] BY <2>3
   <4>2. j \in 1..n BY <2>2
   <4> QED BY <1>10, <4>1, <4>2
  <3> QED BY <1>6, <1>17, <3>1
 <2>8. \A r \in (R \cup new) \ ToSet(t) : r \in Nat OBVIOUS
 <2> QED BY <1>1, <1>13, <1>14, <2>3, <2>5, <2>6, <2>7, <2>8 DEF TsKept
<1> QED BY <1>2, <1>10, <1>18, <1>19

\* What is kept once the children's references are merged in the order given.
TsGathered(found, b, s) == FoldLeft(LAMBDA refs, c : TsMergeRefs(refs, found[c]), b, s)

\* The results handed over together, in any order: what is kept of the
\* references known before and of those their children report.
LEMMA TsFoldKept ==
  ASSUME TsAssumption, NEW D, NEW found \in [D -> SUBSET TsRefs], NEW s \in Seq(D),
         NEW R \in SUBSET Nat, NEW b, TsKept(b, R),
         NEW all, all = R \cup UNION {found[s[i]] : i \in 1..Len(s)}
  PROVE  TsKept(TsGathered(found, b, s), all)
<1> DEFINE n == Len(s)
           C == Seq(Nat)
           Rec(h) == [S \in SUBSET (1..n) |->
                        IF S = {} THEN b ELSE TsMergeRefs(h[S \ {Max(S)}], found[s[Max(S)]])]
<1>1. n \in Nat /\ DOMAIN s = 1..n /\ b \in C /\ \A i \in 1..n : found[s[i]] \in SUBSET TsRefs
  BY DEF TsKept
<1>a. \A i \in 1..n : found[s[i]] \in SUBSET Nat /\ IsFiniteSet(found[s[i]])
 <2>1. IsFiniteSet(TsRefs) /\ TsRefs \subseteq Nat BY DEF TsAssumption
 <2> QED BY <1>1, <2>1, FS_Subset
<1>2. PICK G : G = [p \in C \X (1..n) |-> TsMergeRefs(p[1], found[s[p[2]]])] OBVIOUS
<1>3. G \in [C \X (1..n) -> C]
 <2>1. ASSUME NEW q \in C, NEW i \in 1..n PROVE TsMergeRefs(q, found[s[i]]) \in C
  <3>1. PICK S : S = ToSet(q) \cup found[s[i]] OBVIOUS
  <3>2. q \in [1..Len(q) -> Nat] /\ Len(q) \in Nat OBVIOUS
  <3>3. S \in SUBSET Nat /\ IsFiniteSet(S)
   <4>1. ToSet(q) \in SUBSET Nat BY <3>2 DEF ToSet
   <4>2. IsFiniteSet(ToSet(q)) BY <3>2, CxToSetFinite
   <4> QED BY <1>a, <3>1, <4>1, <4>2, FS_Union
  <3>4. PICK m : m = Cardinality(S) OBVIOUS
  <3>5. m \in Nat /\ TsSorted(S) \in [1..m -> S] /\ CxIncreasing(TsSorted(S))
    BY <3>3, <3>4, TsSortedFacts
  <3>6. TsSorted(S) \in [1..m -> Nat] BY <3>3, <3>5
  <3>7. TsTail(TsSorted(S), TsMaxRefs) \in Seq(Nat) BY <3>5, <3>6, TsTailFacts
  <3> QED BY <3>1, <3>7 DEF TsMergeRefs
 <2> HIDE DEF C, n
 <2> QED BY <1>2, <2>1
<1>4. PICK g : g = (CHOOSE x : x = Rec(x)) OBVIOUS
<1>5. TsGathered(found, b, s) = g[1..n] BY <1>1, <1>4 DEF TsGathered, FoldLeft, MapThenFoldSet
<1> HIDE DEF C, n
<1>6. PICK h \in [SUBSET (1..n) -> C] : CxFolds(h, n, b, G) BY <1>1, <1>3, CxFoldExists
<1>7. h = Rec(h)
 <2>1. ASSUME NEW S \in SUBSET (1..n), S # {}
       PROVE  G[<<h[S \ {Max(S)}], Max(S)>>] = TsMergeRefs(h[S \ {Max(S)}], found[s[Max(S)]])
   BY <1>1, <1>2, <1>6, <2>1, CxMax
 <2> QED BY <1>6, <2>1 DEF CxFolds
<1>8. g = Rec(g) BY <1>4, <1>7
<1>9. CxRecurs(g, n, C, b, G)
 <2>1. ASSUME NEW k \in 1..n, g[1..(k - 1)] \in C PROVE g[1..k] = G[<<g[1..(k - 1)], k>>]
  <3>1. 1..k \in SUBSET (1..n) /\ k \in Nat /\ k >= 1 BY <1>1
  <3>2. g[1..k] = TsMergeRefs(g[1..(k - 1)], found[s[k]]) BY <1>8, <3>1, CxFoldPrefix
  <3> QED BY <1>2, <2>1, <3>2
 <2>2. g[{}] = b BY <1>8
 <2> QED BY <2>1, <2>2 DEF CxRecurs
<1>10. PICK r : CxRuns(r, n, C, b, G, g[1..n]) BY <1>1, <1>3, <1>9, CxFoldRuns
<1>11. PICK U : U = [k \in 0..n |-> R \cup UNION {found[s[i]] : i \in 1..k}] OBVIOUS
<1>12. PICK Q : Q = {k \in 0..n : U[k] \in SUBSET Nat /\ TsKept(r[k], U[k])} OBVIOUS
<1>13. 0 \in Q
 <2>1. 0 \in 0..n BY <1>1
 <2>2. U[0] = R BY <1>11, <2>1
 <2>3. r[0] = b BY <1>10 DEF CxRuns
 <2> QED BY <1>12, <2>1, <2>2, <2>3
<1>14. ASSUME NEW k \in 1..n, k - 1 \in Q PROVE k \in Q
 <2>1. k \in 0..n /\ k - 1 \in 0..n /\ k \in Nat BY <1>1
 <2>2. U[k - 1] \in SUBSET Nat /\ TsKept(r[k - 1], U[k - 1]) BY <1>12, <1>14
 <2>3. U[k] = U[k - 1] \cup found[s[k]]
  <3>1. \A i : i \in 1..k <=> i \in 1..(k - 1) \/ i = k BY <2>1
  <3> QED BY <1>11, <2>1, <3>1
 <2>4. r[k] = TsMergeRefs(r[k - 1], found[s[k]])
  <3>1. r[k - 1] \in C /\ r[k] = G[<<r[k - 1], k>>] BY <1>10, <2>1 DEF CxRuns
  <3> QED BY <1>2, <3>1
 <2>5. TsKept(TsMergeRefs(r[k - 1], found[s[k]]), U[k - 1] \cup found[s[k]])
   BY <1>a, <2>2, TsMergeKept
 <2> QED BY <1>a, <1>12, <2>1, <2>2, <2>3, <2>4, <2>5
<1>15. n \in Q
 <2>1. \A k \in 0..n : k \in Q BY <1>1, <1>13, <1>14, CxInduction
 <2> QED BY <1>1, <2>1
<1>16. r[n] = g[1..n] /\ U[n] = R \cup UNION {found[s[i]] : i \in 1..n}
 <2>1. n \in 0..n BY <1>1
 <2> QED BY <1>10, <1>11, <2>1 DEF CxRuns
<1> QED BY <1>5, <1>12, <1>15, <1>16 DEF n

--------------------
(* The messages of a thread, and the skills recorded for it. *)

TsMsg == [kind : {"human", "ai", "tool"}, calls : SUBSET Nat]

TsRuns == [at : {"idle", "model", "tools", "waiting"}, turns : Nat, calls : Nat]

TsChannelSet ==
  [owner : TsOwners \cup {TsNoOwner}, skills : Seq(TsSkills), refs : Seq(Nat)]

\* A tool result has its call before it, and only results between them.
TsPaired(msgs) ==
  \A i \in DOMAIN msgs : msgs[i].kind = "tool" =>
    \E j \in 1..(i - 1) : /\ msgs[j].kind = "ai" /\ msgs[i].calls \subseteq msgs[j].calls
                          /\ \A m \in (j + 1)..(i - 1) : msgs[m].kind = "tool"

\* What a turn that waits for its tools waits for.
TsAwaits(msgs) ==
  /\ msgs # <<>> /\ msgs[Len(msgs)].calls # {} /\ msgs[Len(msgs)].kind = "ai"
  /\ msgs[Len(msgs)].calls \cap TsResolved(msgs) = {}

\* The inductive invariant of a thread.
TsInv ==
  /\ tsMessages \in Seq(TsMsg) /\ tsRun \in TsRuns
  /\ tsChannels \in TsChannelSet
  /\ \A i \in DOMAIN tsMessages : tsMessages[i].calls \subseteq 1..tsRun.calls
  /\ TsPaired(tsMessages)
  /\ tsRun.at \in {"tools", "waiting"} => TsAwaits(tsMessages)
  /\ IsInjective(tsChannels.skills) /\ Len(tsChannels.skills) <= TsMaxSkills
  /\ tsReported \in SUBSET TsRefs /\ TsKept(tsChannels.refs, tsReported)

\* The last messages, from one that is no result on, are paired like all of them.
LEMMA TsSuffixPaired ==
  ASSUME NEW msgs \in Seq(TsMsg), TsPaired(msgs), NEW k \in 0..Len(msgs),
         k < Len(msgs) => msgs[k + 1].kind # "tool"
  PROVE  /\ SubSeq(msgs, k + 1, Len(msgs)) \in Seq(TsMsg)
         /\ TsPaired(SubSeq(msgs, k + 1, Len(msgs)))
         /\ \A i \in DOMAIN SubSeq(msgs, k + 1, Len(msgs)) :
              \E j \in DOMAIN msgs : SubSeq(msgs, k + 1, Len(msgs))[i] = msgs[j]
<1>1. PICK n \in Nat : n = Len(msgs) OBVIOUS
<1>2. PICK t : t = SubSeq(msgs, k + 1, n) OBVIOUS
<1>3. k \in Nat /\ k <= n /\ DOMAIN msgs = 1..n BY <1>1
<1>4. t \in Seq(TsMsg) /\ Len(t) = n - k /\ n - k \in Nat BY <1>1, <1>2, <1>3
<1>5. \A i \in 1..(n - k) : k + i \in 1..n /\ t[i] = msgs[k + i] BY <1>1, <1>2, <1>3
<1>6. DOMAIN t = 1..(n - k) BY <1>4
<1>7. ASSUME NEW i \in 1..(n - k), t[i].kind = "tool"
      PROVE  \E j \in 1..(i - 1) : /\ t[j].kind = "ai" /\ t[i].calls \subseteq t[j].calls
                                   /\ \A m \in (j + 1)..(i - 1) : t[m].kind = "tool"
 <2>1. k + i \in 1..n /\ t[i] = msgs[k + i] BY <1>5
 <2>2. PICK j \in 1..(k + i - 1) :
           /\ msgs[j].kind = "ai" /\ msgs[k + i].calls \subseteq msgs[j].calls
           /\ \A m \in (j + 1)..(k + i - 1) : msgs[m].kind = "tool" BY <1>3, <1>7, <2>1 DEF TsPaired
 <2>3. j > k
  <3>1. SUFFICES ASSUME j <= k PROVE FALSE BY <1>3
  <3>2. k < n /\ msgs[k + 1].kind # "tool" BY <1>1, <1>3, <2>1
  <3>3. i # 1 BY <1>7, <2>1, <3>2
  <3>4. k + 1 \in (j + 1)..(k + i - 1) BY <1>3, <3>1, <3>3
  <3> QED BY <2>2, <3>2, <3>4
 <2>4. PICK l : l = j - k OBVIOUS
 <2>5. l \in 1..(i - 1) /\ l \in 1..(n - k) /\ k + l = j BY <1>3, <2>1, <2>3, <2>4
 <2>6. t[l] = msgs[j] BY <1>5, <2>5
 <2>7. ASSUME NEW m \in (l + 1)..(i - 1) PROVE t[m].kind = "tool"
  <3>1. m \in 1..(n - k) /\ k + m \in (j + 1)..(k + i - 1) BY <1>3, <2>1, <2>5
  <3> QED BY <1>5, <2>2, <3>1
 <2> QED BY <2>1, <2>2, <2>5, <2>6, <2>7
<1>8. TsPaired(t) BY <1>6, <1>7 DEF TsPaired
<1>9. \A i \in DOMAIN t : \E j \in DOMAIN msgs : t[i] = msgs[j] BY <1>3, <1>5, <1>6
<1> QED BY <1>1, <1>2, <1>4, <1>8, <1>9

\* The last of a set of positions that is not empty is one of them.
LEMMA TsLatestIn ==
  ASSUME NEW n \in Nat, NEW S \in SUBSET (1..n), S # {}
  PROVE  TsLatest(S) \in S
<1>1. \E i \in S : \A j \in S : j <= i BY CxMax
<1> QED BY <1>1 DEF TsLatest

\* The cutoff that keeps the call of the first result kept.
LEMMA TsProtected ==
  ASSUME NEW msgs \in Seq(TsMsg), NEW cutoff \in 0..Len(msgs), TsBoundaryFound(msgs, cutoff)
  PROVE  /\ TsProtectToolBoundary(msgs, cutoff) \in 0..Len(msgs)
         /\ TsProtectToolBoundary(msgs, cutoff) < Len(msgs) =>
              msgs[TsProtectToolBoundary(msgs, cutoff) + 1].kind # "tool"
<1>1. PICK n \in Nat : n = Len(msgs) OBVIOUS
<1>2. cutoff \in Nat /\ cutoff <= n /\ DOMAIN msgs = 1..n BY <1>1
<1>3. PICK p : p = TsProtectToolBoundary(msgs, cutoff) OBVIOUS
<1>4. CASE cutoff >= n \/ msgs[cutoff + 1].kind # "tool"
 <2>1. p = cutoff BY <1>1, <1>3, <1>4 DEF TsProtectToolBoundary
 <2> QED BY <1>1, <1>2, <1>3, <1>4, <2>1
<1>5. CASE ~(cutoff >= n \/ msgs[cutoff + 1].kind # "tool")
 <2>1. PICK S : S = {i \in 1..cutoff : /\ msgs[i].kind = "ai"
                                       /\ msgs[i].calls \cap TsBlockCalls(msgs, cutoff + 1) # {}}
   OBVIOUS
 <2>2. p = TsLatest(S) - 1 BY <1>1, <1>3, <1>5, <2>1 DEF TsProtectToolBoundary
 <2>3. cutoff + 1 \in {cutoff + 1} \cap DOMAIN msgs /\ msgs[cutoff + 1].kind = "tool" BY <1>2, <1>5
 <2>4. S # {} BY <2>1, <2>3 DEF TsBoundaryFound
 <2>5. S \in SUBSET (1..cutoff) BY <2>1
 <2>6. TsLatest(S) \in S BY <1>2, <2>4, <2>5, TsLatestIn
 <2>7. p + 1 \in 1..cutoff /\ p \in 0..n /\ msgs[p + 1].kind = "ai" BY <1>2, <2>1, <2>2, <2>6
 <2> QED BY <1>1, <1>3, <2>7
<1> QED BY <1>1, <1>4, <1>5

\* The cutoff before the first call without a result, if there is one.
LEMMA TsOpenKept ==
  ASSUME NEW msgs \in Seq(TsMsg), NEW cutoff \in 0..Len(msgs)
  PROVE  \/ TsEarliestUnresolved(msgs, cutoff) = cutoff
         \/ /\ TsEarliestUnresolved(msgs, cutoff) \in 0..Len(msgs)
            /\ TsEarliestUnresolved(msgs, cutoff) < Len(msgs)
            /\ msgs[TsEarliestUnresolved(msgs, cutoff) + 1].kind # "tool"
<1>1. PICK S : S = {i \in DOMAIN msgs : msgs[i].kind = "ai" /\ msgs[i].calls \ TsResolved(msgs) # {}}
  OBVIOUS
<1>2. CASE S = {} BY <1>1, <1>2 DEF TsEarliestUnresolved
<1>3. CASE S # {}
 <2>1. S \in SUBSET Nat BY <1>1
 <2>2. PICK i : i = CHOOSE m \in S : \A j \in S : m <= j OBVIOUS
 <2>3. i \in S BY <1>3, <2>1, <2>2, CxLeast
 <2>4. TsEarliestUnresolved(msgs, cutoff) = i - 1 BY <1>1, <1>3, <2>2 DEF TsEarliestUnresolved
 <2>5. i \in 1..Len(msgs) /\ msgs[i].kind = "ai" /\ Len(msgs) \in Nat BY <1>1, <2>3
 <2>6. i - 1 \in 0..Len(msgs) /\ i - 1 < Len(msgs) /\ (i - 1) + 1 = i BY <2>5
 <2> QED BY <2>4, <2>5, <2>6
<1> QED BY <1>2, <1>3

\* Compacted messages are messages of the thread, and paired.
LEMMA TsCompactedPaired ==
  ASSUME TsAssumption, NEW msgs \in Seq(TsMsg), TsPaired(msgs), TsBoundaryFound(msgs, TsRecent(msgs))
  PROVE  /\ TsCompacted(msgs) \in Seq(TsMsg) /\ TsPaired(TsCompacted(msgs))
         /\ \A i \in DOMAIN TsCompacted(msgs) :
              \E j \in DOMAIN msgs : TsCompacted(msgs)[i] = msgs[j]
<1>1. TsRecent(msgs) \in 0..Len(msgs)
 <2>1. TsKeep \in Nat /\ Len(msgs) \in Nat BY DEF TsAssumption
 <2> QED BY <2>1 DEF TsRecent
<1>2. PICK c : c = TsProtectToolBoundary(msgs, TsRecent(msgs)) OBVIOUS
<1>3. c \in 0..Len(msgs) /\ (c < Len(msgs) => msgs[c + 1].kind # "tool") BY <1>1, <1>2, TsProtected
<1>4. PICK o : o = TsEarliestUnresolved(msgs, c) OBVIOUS
<1>5. \/ o = c
      \/ o \in 0..Len(msgs) /\ o < Len(msgs) /\ msgs[o + 1].kind # "tool" BY <1>3, <1>4, TsOpenKept
<1>6. PICK k : k = IF o < c THEN o ELSE c OBVIOUS
<1>7. k \in 0..Len(msgs) /\ (k < Len(msgs) => msgs[k + 1].kind # "tool") BY <1>3, <1>5, <1>6
<1>8. TsCompacted(msgs) = SubSeq(msgs, k + 1, Len(msgs)) BY <1>2, <1>4, <1>6 DEF TsCompacted
<1> QED BY <1>7, <1>8, TsSuffixPaired

\* A message that is no result leaves the results before it paired.
LEMMA TsAppendPaired ==
  ASSUME NEW msgs \in Seq(TsMsg), TsPaired(msgs), NEW new \in TsMsg, new.kind # "tool"
  PROVE  Append(msgs, new) \in Seq(TsMsg) /\ TsPaired(Append(msgs, new))
<1>1. PICK n \in Nat : n = Len(msgs) OBVIOUS
<1>2. PICK t : t = Append(msgs, new) OBVIOUS
<1>3. t \in Seq(TsMsg) /\ Len(t) = n + 1 /\ DOMAIN t = 1..(n + 1) /\ DOMAIN msgs = 1..n
  BY <1>1, <1>2
<1>4. t[n + 1] = new /\ \A i \in 1..n : t[i] = msgs[i] BY <1>1, <1>2
<1>5. ASSUME NEW i \in 1..(n + 1), t[i].kind = "tool"
      PROVE  \E j \in 1..(i - 1) : /\ t[j].kind = "ai" /\ t[i].calls \subseteq t[j].calls
                                   /\ \A m \in (j + 1)..(i - 1) : t[m].kind = "tool"
 <2>1. i \in 1..n /\ t[i] = msgs[i] BY <1>4, <1>5
 <2>2. PICK j \in 1..(i - 1) :
           /\ msgs[j].kind = "ai" /\ msgs[i].calls \subseteq msgs[j].calls
           /\ \A m \in (j + 1)..(i - 1) : msgs[m].kind = "tool" BY <1>3, <1>5, <2>1 DEF TsPaired
 <2>3. t[j] = msgs[j] /\ \A m \in (j + 1)..(i - 1) : t[m] = msgs[m] BY <1>4, <2>1
 <2> QED BY <2>1, <2>2, <2>3
<1>6. TsPaired(t) BY <1>3, <1>5 DEF TsPaired
<1> QED BY <1>2, <1>3, <1>6

\* The messages once the results of the calls follow them.
TsAnswered(msgs, order) == msgs \o [i \in DOMAIN order |-> TsTool(order[i])]

\* The results of the last message's calls, after it: they are paired with it.
LEMMA TsResultsPaired ==
  ASSUME NEW msgs \in Seq(TsMsg), TsPaired(msgs), msgs # <<>>, msgs[Len(msgs)].kind = "ai",
         NEW order \in Seq(msgs[Len(msgs)].calls)
  PROVE  /\ TsAnswered(msgs, order) \in Seq(TsMsg) /\ TsPaired(TsAnswered(msgs, order))
         /\ \A i \in DOMAIN TsAnswered(msgs, order) :
              \E j \in DOMAIN msgs : TsAnswered(msgs, order)[i].calls \subseteq msgs[j].calls
<1>1. PICK n \in Nat : n = Len(msgs) /\ n >= 1 BY DEF TsMsg
<1>2. PICK m \in Nat : m = Len(order) OBVIOUS
<1>3. PICK P : P = msgs[n].calls OBVIOUS
<1>4. PICK add : add = [i \in DOMAIN order |-> TsTool(order[i])] OBVIOUS
<1>5. P \in SUBSET Nat /\ order \in Seq(P) /\ DOMAIN order = 1..m /\ msgs[n].kind = "ai"
      /\ \A i \in 1..m : order[i] \in P
 <2>1. n \in 1..n /\ msgs[n] \in TsMsg BY <1>1
 <2> QED BY <1>1, <1>2, <1>3, <2>1 DEF TsMsg
<1>6. \A i \in 1..m : /\ add[i] \in TsMsg /\ add[i].kind = "tool" /\ add[i].calls \subseteq P
  BY <1>4, <1>5 DEF TsTool, TsMsg
<1>7. add \in Seq(TsMsg) /\ Len(add) = m
 <2>1. add \in [1..m -> TsMsg] BY <1>4, <1>5, <1>6
 <2> QED BY <1>2, <2>1
<1>8. PICK t : t = msgs \o add OBVIOUS
<1>9. t \in Seq(TsMsg) /\ Len(t) = n + m /\ DOMAIN t = 1..(n + m) /\ DOMAIN msgs = 1..n
 <2>1. msgs \o add \in Seq(TsMsg) /\ Len(msgs \o add) = Len(msgs) + Len(add) BY <1>7
 <2>2. t \in Seq(TsMsg) /\ Len(t) = n + m BY <1>1, <1>7, <1>8, <2>1
 <2>3. DOMAIN t = 1..Len(t) /\ DOMAIN msgs = 1..Len(msgs) BY <2>2
 <2> QED BY <1>1, <2>2, <2>3
<1>10. /\ \A i \in 1..n : t[i] = msgs[i]
       /\ \A i \in 1..(n + m) : i > n => i - n \in 1..m /\ t[i] = add[i - n]
  BY <1>1, <1>2, <1>7, <1>8
<1>11. ASSUME NEW i \in 1..(n + m), t[i].kind = "tool"
       PROVE  \E j \in 1..(i - 1) : /\ t[j].kind = "ai" /\ t[i].calls \subseteq t[j].calls
                                    /\ \A l \in (j + 1)..(i - 1) : t[l].kind = "tool"
 <2>1. CASE i \in 1..n
  <3>1. t[i] = msgs[i] BY <1>10, <2>1
  <3>2. PICK j \in 1..(i - 1) :
            /\ msgs[j].kind = "ai" /\ msgs[i].calls \subseteq msgs[j].calls
            /\ \A l \in (j + 1)..(i - 1) : msgs[l].kind = "tool"
    BY <1>9, <1>11, <2>1, <3>1 DEF TsPaired
  <3>3. t[j] = msgs[j] /\ \A l \in (j + 1)..(i - 1) : t[l] = msgs[l] BY <1>10, <2>1
  <3> QED BY <3>1, <3>2, <3>3
 <2>2. CASE i > n
  <3>1. n \in 1..(i - 1) /\ n \in 1..n /\ t[n] = msgs[n] BY <1>1, <1>10, <2>2
  <3>2. t[i].calls \subseteq P BY <1>6, <1>10, <2>2
  <3>3. ASSUME NEW l \in (n + 1)..(i - 1) PROVE t[l].kind = "tool"
   <4>1. l \in 1..(n + m) /\ l > n BY <1>1, <1>2
   <4> QED BY <1>6, <1>10, <4>1
  <3> QED BY <1>3, <1>5, <3>1, <3>2, <3>3
 <2> QED BY <1>1, <2>1, <2>2
<1>12. ASSUME NEW i \in 1..(n + m) PROVE \E j \in 1..n : t[i].calls \subseteq msgs[j].calls
 <2>1. CASE i \in 1..n BY <1>10, <2>1
 <2>2. CASE i > n
  <3>1. n \in 1..n BY <1>1
  <3> QED BY <1>3, <1>6, <1>10, <2>2, <3>1
 <2> QED BY <1>1, <2>1, <2>2
<1>13. TsPaired(t) BY <1>9, <1>11 DEF TsPaired
<1>14. \A i \in DOMAIN t : \E j \in DOMAIN msgs : t[i].calls \subseteq msgs[j].calls BY <1>9, <1>12
<1>15. TsAnswered(msgs, order) = t BY <1>4, <1>8 DEF TsAnswered
<1> QED BY <1>9, <1>13, <1>14, <1>15

\* The part of an injective sequence from one place on is injective.
LEMMA CxInjectiveSuffix ==
  ASSUME NEW B, NEW s \in Seq(B), IsInjective(s), NEW b \in 0..Len(s)
  PROVE  /\ SubSeq(s, b + 1, Len(s)) \in Seq(B) /\ IsInjective(SubSeq(s, b + 1, Len(s)))
         /\ Len(SubSeq(s, b + 1, Len(s))) = Len(s) - b
<1>1. PICK n \in Nat : n = Len(s) OBVIOUS
<1>2. PICK t : t = SubSeq(s, b + 1, n) OBVIOUS
<1>3. b \in Nat /\ b <= n /\ DOMAIN s = 1..n BY <1>1
<1>4. t \in Seq(B) /\ Len(t) = n - b /\ n - b \in Nat BY <1>1, <1>2, <1>3
<1>5. \A i \in 1..(n - b) : b + i \in 1..n /\ t[i] = s[b + i] BY <1>1, <1>2, <1>3
<1>6. DOMAIN t = 1..(n - b) BY <1>4
<1>7. ASSUME NEW i \in 1..(n - b), NEW j \in 1..(n - b), t[i] = t[j] PROVE i = j
 <2>1. b + i \in 1..n /\ b + j \in 1..n /\ s[b + i] = s[b + j] BY <1>5, <1>7
 <2>2. b + i = b + j BY <1>3, <2>1 DEF IsInjective
 <2> QED BY <1>3, <2>2
<1>8. IsInjective(t) BY <1>6, <1>7 DEF IsInjective
<1> QED BY <1>1, <1>2, <1>4, <1>8

\* Taking the first place of an element away takes it out of an injective sequence.
LEMMA CxRemoved ==
  ASSUME NEW B, NEW s \in Seq(B), IsInjective(s), NEW e
  PROVE  /\ RemoveFirst(s, e) \in Seq(B) /\ IsInjective(RemoveFirst(s, e))
         /\ \A i \in DOMAIN RemoveFirst(s, e) : RemoveFirst(s, e)[i] # e
<1>1. PICK n \in Nat : n = Len(s) OBVIOUS
<1>2. DOMAIN s = 1..n BY <1>1
<1>3. PICK I : I = {i \in 1..n : s[i] = e} OBVIOUS
<1>4. CASE I = {}
 <2>1. RemoveFirst(s, e) = s BY <1>1, <1>3, <1>4 DEF RemoveFirst
 <2> QED BY <1>2, <1>3, <1>4, <2>1
<1>5. CASE I # {}
 <2>1. I \in SUBSET Nat BY <1>3
 <2>2. PICK p : p = Min(I) OBVIOUS
 <2>3. p \in I BY <1>5, <2>1, <2>2, CxLeast DEF Min
 <2>4. p \in 1..n /\ s[p] = e BY <1>3, <2>3
 <2>5. PICK t : t = SubSeq(s, 1, p - 1) \o SubSeq(s, p + 1, n) OBVIOUS
 <2>6. RemoveFirst(s, e) = t
  <3>1. \E i \in 1..n : s[i] = e BY <2>4
  <3>2. SelectInSeq(s, LAMBDA v : v = e) = p BY <1>1, <1>3, <1>5, <2>2 DEF SelectInSeq
  <3> QED BY <1>1, <2>5, <3>1, <3>2 DEF RemoveFirst, RemoveAt
 <2>7. SubSeq(s, 1, p - 1) \in Seq(B) /\ Len(SubSeq(s, 1, p - 1)) = p - 1 BY <1>1, <2>4
 <2>8. SubSeq(s, p + 1, n) \in Seq(B) /\ Len(SubSeq(s, p + 1, n)) = n - p BY <1>1, <2>4
 <2>9. t \in Seq(B) /\ Len(t) = n - 1 BY <2>4, <2>5, <2>7, <2>8
 <2>10. \A i \in 1..(p - 1) : SubSeq(s, 1, p - 1)[i] = s[i] BY <1>1, <2>4
 <2>11. \A i \in 1..(n - p) : SubSeq(s, p + 1, n)[i] = s[p + i] BY <1>1, <2>4
 <2>12. \A i \in 1..(n - 1) : t[i] = IF i < p THEN s[i] ELSE s[i + 1]
  <3>1. ASSUME NEW i \in 1..(n - 1) PROVE t[i] = IF i < p THEN s[i] ELSE s[i + 1]
   <4>1. CASE i < p
    <5>1. i \in 1..(p - 1) BY <2>4, <4>1
    <5>2. t[i] = SubSeq(s, 1, p - 1)[i] BY <2>4, <2>5, <2>7, <2>8, <5>1
    <5> QED BY <2>10, <4>1, <5>1, <5>2
   <4>2. CASE ~(i < p)
    <5>1. i - (p - 1) \in 1..(n - p) /\ p + (i - (p - 1)) = i + 1 BY <2>4, <4>2
    <5>2. i \in 1..(Len(SubSeq(s, 1, p - 1)) + Len(SubSeq(s, p + 1, n)))
          /\ i > Len(SubSeq(s, 1, p - 1)) BY <2>4, <2>7, <2>8, <4>2
    <5>3. t[i] = SubSeq(s, p + 1, n)[i - Len(SubSeq(s, 1, p - 1))] BY <2>5, <2>7, <2>8, <5>2
    <5>4. t[i] = SubSeq(s, p + 1, n)[i - (p - 1)] BY <2>7, <5>3
    <5> QED BY <2>11, <4>2, <5>1, <5>4
   <4> QED BY <4>1, <4>2
  <3> QED BY <3>1
 <2>13. DOMAIN t = 1..(n - 1) BY <2>9
 <2>14. ASSUME NEW i \in 1..(n - 1)
        PROVE  \E k \in 1..n : k # p /\ t[i] = s[k] /\ k = IF i < p THEN i ELSE i + 1
  <3>1. CASE i < p BY <2>4, <2>12, <3>1
  <3>2. CASE ~(i < p)
   <4>1. i + 1 \in 1..n /\ i + 1 # p BY <2>4, <3>2
   <4> QED BY <2>12, <3>2, <4>1
  <3> QED BY <3>1, <3>2
 <2>15. ASSUME NEW i \in 1..(n - 1), NEW j \in 1..(n - 1), t[i] = t[j] PROVE i = j
  <3>1. PICK k \in 1..n : t[i] = s[k] /\ k = IF i < p THEN i ELSE i + 1 BY <2>14
  <3>2. PICK l \in 1..n : t[j] = s[l] /\ l = IF j < p THEN j ELSE j + 1 BY <2>14
  <3>3. k = l BY <1>2, <2>15, <3>1, <3>2 DEF IsInjective
  <3> QED BY <2>4, <3>1, <3>2, <3>3
 <2>16. IsInjective(t) BY <2>13, <2>15 DEF IsInjective
 <2>17. ASSUME NEW i \in 1..(n - 1) PROVE t[i] # e
  <3>1. PICK k \in 1..n : k # p /\ t[i] = s[k] BY <2>14
  <3>2. s[k] # s[p] BY <1>2, <2>4, <3>1 DEF IsInjective
  <3> QED BY <2>4, <3>1, <3>2
 <2> QED BY <2>6, <2>9, <2>13, <2>16, <2>17
<1> QED BY <1>4, <1>5

\* The skills recorded stay a list without repetition, within its limit.
LEMMA TsMergeSkillTyped ==
  ASSUME TsAssumption, NEW s \in Seq(TsSkills), IsInjective(s), Len(s) <= TsMaxSkills,
         NEW path \in TsSkills \cup {TsNoSkill}
  PROVE  /\ TsMergeSkill(s, path) \in Seq(TsSkills) /\ IsInjective(TsMergeSkill(s, path))
         /\ Len(TsMergeSkill(s, path)) <= TsMaxSkills
<1>1. TsMaxSkills \in Nat /\ TsMaxSkills >= 1 BY DEF TsAssumption
<1>2. CASE path = TsNoSkill BY <1>2 DEF TsMergeSkill
<1>3. CASE path # TsNoSkill
 <2>1. PICK r : r = RemoveFirst(s, path) OBVIOUS
 <2>2. r \in Seq(TsSkills) /\ IsInjective(r) /\ \A i \in DOMAIN r : r[i] # path BY <2>1, CxRemoved
 <2>3. PICK a : a = Append(r, path) OBVIOUS
 <2>4. PICK n \in Nat : n = Len(r) BY <2>2
 <2>5. /\ a \in Seq(TsSkills) /\ Len(a) = n + 1 /\ DOMAIN a = 1..(n + 1) /\ DOMAIN r = 1..n
       /\ a[n + 1] = path /\ \A i \in 1..n : a[i] = r[i]
  <3>1. path \in TsSkills BY <1>3
  <3> QED BY <2>2, <2>3, <2>4, <3>1
 <2>6. IsInjective(a)
  <3>1. ASSUME NEW i \in 1..(n + 1), NEW j \in 1..(n + 1), a[i] = a[j] PROVE i = j
   <4>1. CASE i \in 1..n /\ j \in 1..n BY <2>2, <2>5, <3>1, <4>1 DEF IsInjective
   <4>2. CASE i \in 1..n /\ j = n + 1 BY <2>2, <2>5, <3>1, <4>2
   <4>3. CASE i = n + 1 /\ j \in 1..n BY <2>2, <2>5, <3>1, <4>3
   <4> QED BY <4>1, <4>2, <4>3
  <3> QED BY <2>5, <3>1 DEF IsInjective
 <2>7. TsMergeSkill(s, path) = TsTail(a, TsMaxSkills) BY <1>3, <2>1, <2>3 DEF TsMergeSkill
 <2>8. CASE n + 1 > TsMaxSkills
  <3>1. PICK b : b = n + 1 - TsMaxSkills OBVIOUS
  <3>2. b \in 0..Len(a) /\ Len(a) - TsMaxSkills + 1 = b + 1 /\ Len(a) - b = TsMaxSkills
    BY <1>1, <2>5, <2>8, <3>1
  <3>3. TsTail(a, TsMaxSkills) = SubSeq(a, b + 1, Len(a)) BY <2>5, <2>8, <3>2 DEF TsTail
  <3>4. /\ SubSeq(a, b + 1, Len(a)) \in Seq(TsSkills) /\ IsInjective(SubSeq(a, b + 1, Len(a)))
        /\ Len(SubSeq(a, b + 1, Len(a))) = Len(a) - b BY <2>5, <2>6, <3>2, CxInjectiveSuffix
  <3> QED BY <1>1, <2>7, <3>2, <3>3, <3>4
 <2>9. CASE ~(n + 1 > TsMaxSkills) BY <1>1, <2>4, <2>5, <2>6, <2>7, <2>9 DEF TsTail
 <2> QED BY <2>8, <2>9
<1> QED BY <1>2, <1>3

\* A thread begins without messages.
LEMMA TsStart == ASSUME TsAssumption, TsInit PROVE TsInv
<1>1. TsMaxSkills \in Nat /\ TsMaxRefs \in Nat BY DEF TsAssumption
<1>2. TsKept(<<>>, {}) BY <1>1 DEF TsKept, CxIncreasing, ToSet
<1>3. TsPaired(<<>>) /\ IsInjective(<<>>) BY DEF TsPaired, IsInjective
<1> QED BY <1>1, <1>2, <1>3 DEF TsInit, TsInv, TsRuns, TsChannelSet

\* A turn begins on the messages of the thread or on the last of them.
LEMMA TsStartTurnStep ==
  ASSUME TsAssumption, TsInv, tsOwner \in TsOwners,
         NEW skill \in TsSkills \cup {TsNoSkill}, NEW compacts \in BOOLEAN,
         TsStartTurn(skill, compacts)
  PROVE  TsInv'
<1>1. PICK msgs : msgs = IF compacts THEN TsCompacted(tsMessages) ELSE tsMessages OBVIOUS
<1>2. msgs \in Seq(TsMsg) /\ TsPaired(msgs)
      /\ \A i \in DOMAIN msgs : \E j \in DOMAIN tsMessages : msgs[i] = tsMessages[j]
 <2>1. CASE compacts
  <3>1. TsBoundaryFound(tsMessages, TsRecent(tsMessages)) BY <2>1 DEF TsStartTurn
  <3>2. tsMessages \in Seq(TsMsg) /\ TsPaired(tsMessages) BY DEF TsInv
  <3> QED BY <1>1, <2>1, <3>1, <3>2, TsCompactedPaired
 <2>2. CASE ~compacts BY <1>1, <2>2 DEF TsInv
 <2> QED BY <2>1, <2>2
<1>3. \A i \in DOMAIN msgs : msgs[i].calls \subseteq 1..tsRun.calls BY <1>2 DEF TsInv
<1>4. TsHuman \in TsMsg /\ TsHuman.kind # "tool" /\ TsHuman.calls = {} BY DEF TsHuman, TsMsg
<1>5. PICK t : t = Append(msgs, TsHuman) OBVIOUS
<1>6. t \in Seq(TsMsg) /\ TsPaired(t) BY <1>2, <1>4, <1>5, TsAppendPaired
<1>7. \A i \in DOMAIN t : t[i].calls \subseteq 1..tsRun.calls
 <2>1. \A i \in DOMAIN t : (i \in DOMAIN msgs /\ t[i] = msgs[i]) \/ t[i] = TsHuman BY <1>2, <1>5
 <2> QED BY <1>3, <1>4, <2>1
<1>8. tsMessages' = t BY <1>1, <1>5 DEF TsStartTurn
<1>9. tsRun' \in TsRuns /\ tsRun'.at = "model" /\ tsRun'.calls = tsRun.calls
 <2>1. tsRun' = [at |-> "model", turns |-> tsRun.turns + 1, calls |-> tsRun.calls]
   BY DEF TsStartTurn, TsInv, TsRuns
 <2> QED BY <2>1 DEF TsInv, TsRuns
<1>10. PICK skills : skills = TsMergeSkill(tsChannels.skills, skill) OBVIOUS
<1>11. skills \in Seq(TsSkills) /\ IsInjective(skills) /\ Len(skills) <= TsMaxSkills
 <2>1. tsChannels.skills \in Seq(TsSkills) /\ IsInjective(tsChannels.skills)
       /\ Len(tsChannels.skills) <= TsMaxSkills BY DEF TsInv, TsChannelSet
 <2> QED BY <1>10, <2>1, TsMergeSkillTyped
<1>12. tsChannels' = [owner |-> tsOwner, skills |-> skills, refs |-> tsChannels.refs]
  BY <1>10 DEF TsStartTurn, TsInv, TsChannelSet
<1>13. tsChannels' \in TsChannelSet BY <1>11, <1>12 DEF TsInv, TsChannelSet
<1>14. tsReported' = tsReported BY DEF TsStartTurn
<1>15. TsKept(tsChannels.refs, tsReported) /\ tsReported \in SUBSET TsRefs BY DEF TsInv
<1>16. IsInjective(tsChannels'.skills) /\ Len(tsChannels'.skills) <= TsMaxSkills
       /\ tsChannels'.refs = tsChannels.refs BY <1>11, <1>12
<1> QED BY <1>6, <1>7, <1>8, <1>9, <1>13, <1>14, <1>15, <1>16 DEF TsInv

\* The model answers: its calls are new ones.
LEMMA TsModelStep ==
  ASSUME TsAssumption, TsInv, NEW n \in 0..2, TsModel(n)
  PROVE  TsInv'
<1>1. PICK c \in Nat : c = tsRun.calls BY DEF TsInv, TsRuns
<1>2. PICK P : P = (c + 1)..(c + n) OBVIOUS
<1>3. PICK new : new = TsAi(P) OBVIOUS
<1>4. new \in TsMsg /\ new.kind = "ai" /\ new.calls = P BY <1>2, <1>3 DEF TsAi, TsMsg
<1>5. PICK t : t = Append(tsMessages, new) OBVIOUS
<1>6. tsMessages \in Seq(TsMsg) /\ TsPaired(tsMessages)
      /\ \A i \in DOMAIN tsMessages : tsMessages[i].calls \subseteq 1..c BY <1>1 DEF TsInv
<1>7. t \in Seq(TsMsg) /\ TsPaired(t) BY <1>4, <1>5, <1>6, TsAppendPaired
<1>8. \A i \in DOMAIN t : (i \in DOMAIN tsMessages /\ t[i] = tsMessages[i]) \/ t[i] = new
  BY <1>5, <1>6
<1>9. 1..c \subseteq 1..(c + n) /\ P \subseteq 1..(c + n) BY <1>2
<1>10. \A i \in DOMAIN t : t[i].calls \subseteq 1..(c + n) BY <1>4, <1>6, <1>8, <1>9
<1>11. tsMessages' = t /\ tsReported' = tsReported /\ tsChannels' = tsChannels
  BY <1>1, <1>2, <1>3, <1>5 DEF TsModel
<1>12. tsRun' \in TsRuns /\ tsRun'.calls = c + n
       /\ tsRun'.at = IF n = 0 THEN "idle" ELSE "tools"
 <2>1. tsRun' = [at |-> IF n = 0 THEN "idle" ELSE "tools", turns |-> tsRun.turns,
                 calls |-> tsRun.calls + n] BY DEF TsModel, TsInv, TsRuns
 <2> QED BY <1>1, <2>1 DEF TsInv, TsRuns
<1>13. ASSUME n # 0 PROVE TsAwaits(t)
 <2>1. c + n \in P BY <1>2, <1>13
 <2>2. t # <<>> /\ t[Len(t)] = new BY <1>5, <1>6
 <2>3. ASSUME NEW x \in P, x \in TsResolved(t) PROVE FALSE
  <3>1. PICK i \in DOMAIN t : t[i].kind = "tool" /\ x \in t[i].calls BY <2>3 DEF TsResolved
  <3>2. x \in 1..c BY <1>4, <1>6, <1>8, <3>1
  <3> QED BY <1>2, <2>3, <3>2
 <2>4. new.calls # {} /\ new.kind = "ai" /\ new.calls \cap TsResolved(t) = {} BY <1>4, <2>1, <2>3
 <2> QED BY <2>2, <2>4 DEF TsAwaits
<1>14. tsRun'.at \in {"tools", "waiting"} => TsAwaits(t) BY <1>12, <1>13
<1> QED BY <1>7, <1>10, <1>11, <1>12, <1>14 DEF TsInv

\* The node ends: every call it waited for is answered, and what the children
\* report is merged, in whatever order the results are handed over.
LEMMA TsToolsDoneStep ==
  ASSUME TsAssumption, TsInv, NEW order \in SetToSeqs(TsPending),
         NEW found \in [TsPending -> SUBSET TsRefs], TsToolsDone(order, found)
  PROVE  TsInv'
<1>1. tsRun.at = "tools" /\ TsAwaits(tsMessages) BY DEF TsToolsDone, TsInv
<1>2. PICK P : P = TsPending OBVIOUS
<1>3. P = tsMessages[Len(tsMessages)].calls BY <1>2 DEF TsPending
<1>4. PICK last \in Nat : last = tsRun.calls BY DEF TsInv, TsRuns
<1>5. tsMessages \in Seq(TsMsg) /\ TsPaired(tsMessages) /\ tsMessages # <<>>
      /\ \A i \in DOMAIN tsMessages : tsMessages[i].calls \subseteq 1..last
  BY <1>1, <1>4 DEF TsInv, TsAwaits
<1>6. P \in SUBSET (1..last)
 <2>1. Len(tsMessages) \in DOMAIN tsMessages BY <1>5
 <2> QED BY <1>3, <1>5, <2>1
<1>7. IsFiniteSet(P)
 <2>1. IsFiniteSet(1..last) BY <1>4, FS_Interval
 <2> QED BY <1>6, <2>1, FS_Subset
<1>8. PICK n : n = Cardinality(P) OBVIOUS
<1>9. n \in Nat BY <1>7, <1>8, FS_CardinalityType
<1>10. order \in [1..n -> P] /\ \A i, j \in 1..n : i # j => order[i] # order[j]
  BY <1>2, <1>8 DEF SetToSeqs
<1>11. order \in Seq(P) /\ Len(order) = n /\ DOMAIN order = 1..n BY <1>9, <1>10
<1>12. \A x \in P : \E i \in 1..n : order[i] = x
 <2>1. IsInjective(order) BY <1>10, <1>11 DEF IsInjective
 <2>2. order \in Injection(1..n, P) BY <1>10, <2>1 DEF Injection
 <2>3. IsFiniteSet(1..n) /\ Cardinality(1..n) = n BY <1>9, FS_Interval
 <2>4. order \in Surjection(1..n, P) BY <1>7, <1>8, <2>2, <2>3, FS_Injection
 <2> QED BY <2>4 DEF Surjection
<1>13. PICK t : t = TsAnswered(tsMessages, order) OBVIOUS
<1>14. /\ t \in Seq(TsMsg) /\ TsPaired(t)
       /\ \A i \in DOMAIN t : \E j \in DOMAIN tsMessages : t[i].calls \subseteq tsMessages[j].calls
 <2>1. tsMessages[Len(tsMessages)].kind = "ai" BY <1>1 DEF TsAwaits
 <2>2. order \in Seq(tsMessages[Len(tsMessages)].calls) BY <1>3, <1>11
 <2> QED BY <1>5, <1>13, <2>1, <2>2, TsResultsPaired
<1>15. \A i \in DOMAIN t : t[i].calls \subseteq 1..last BY <1>5, <1>14
<1>16. PICK new : new = UNION {found[x] : x \in P} OBVIOUS
<1>17. new = UNION {found[order[i]] : i \in 1..Len(order)}
 <2>1. ASSUME NEW y PROVE y \in new <=> \E i \in 1..n : y \in found[order[i]] BY <1>10, <1>12, <1>16
 <2>2. new = UNION {found[order[i]] : i \in 1..n} BY <2>1
 <2> QED BY <1>11, <2>2
<1>18. PICK kept : kept = TsGathered(found, tsChannels.refs, order) OBVIOUS
<1>19. found \in [P -> SUBSET TsRefs] BY <1>2
<1>20. TsKept(tsChannels.refs, tsReported) /\ tsReported \in SUBSET TsRefs BY DEF TsInv
<1>21. TsKept(kept, tsReported \cup new)
 <2>1. tsReported \in SUBSET Nat BY <1>20 DEF TsAssumption
 <2>2. tsReported \cup new = tsReported \cup UNION {found[order[i]] : i \in 1..Len(order)} BY <1>17
 <2>3. TsKept(TsGathered(found, tsChannels.refs, order), tsReported \cup new)
   BY <1>11, <1>19, <1>20, <2>1, <2>2, TsFoldKept
 <2> QED BY <1>18, <2>3
<1>22. new \in SUBSET TsRefs BY <1>16, <1>19
<1>23. tsMessages' = t /\ tsReported' = tsReported \cup new
  BY <1>2, <1>13, <1>16 DEF TsToolsDone, TsAnswered
<1>24. tsChannels' = [owner |-> tsChannels.owner, skills |-> tsChannels.skills, refs |-> kept]
  BY <1>18 DEF TsGathered, TsToolsDone, TsInv, TsChannelSet
<1>25. tsChannels' \in TsChannelSet /\ tsChannels'.refs = kept /\ tsChannels'.skills = tsChannels.skills
 <2>1. kept \in Seq(Nat) BY <1>21 DEF TsKept
 <2> QED BY <1>24, <2>1 DEF TsInv, TsChannelSet
<1>26. tsRun' \in TsRuns /\ tsRun'.calls = last /\ tsRun'.at = "model"
  BY <1>4 DEF TsToolsDone, TsGo, TsInv, TsRuns
<1>27. IsInjective(tsChannels.skills) /\ Len(tsChannels.skills) <= TsMaxSkills BY DEF TsInv
<1> QED BY <1>14, <1>15, <1>20, <1>21, <1>22, <1>23, <1>25, <1>26, <1>27 DEF TsInv

\* Every step keeps the inductive invariant.
LEMMA TsStep ==
  ASSUME TsAssumption, TsInv, tsOwner \in TsOwners, [TsNext]_tsVars
  PROVE  TsInv' /\ tsOwner' \in TsOwners
<1>1. ASSUME NEW o \in TsOwners, TsBindOwner(o) PROVE TsInv' /\ tsOwner' \in TsOwners
  BY <1>1 DEF TsBindOwner, TsInv
<1>2. ASSUME NEW s \in TsSkills \cup {TsNoSkill}, NEW c \in BOOLEAN, TsStartTurn(s, c)
      PROVE  TsInv' /\ tsOwner' \in TsOwners
 <2>1. TsInv' BY <1>2, TsStartTurnStep
 <2> QED BY <1>2, <2>1 DEF TsStartTurn
<1>3. ASSUME NEW n \in 0..2, TsModel(n) PROVE TsInv' /\ tsOwner' \in TsOwners
 <2>1. TsInv' BY <1>3, TsModelStep
 <2> QED BY <1>3, <2>1 DEF TsModel
<1>4. ASSUME NEW order \in SetToSeqs(TsPending), NEW found \in [TsPending -> SUBSET TsRefs],
             TsToolsDone(order, found)
      PROVE  TsInv' /\ tsOwner' \in TsOwners
 <2>1. TsInv' BY <1>4, TsToolsDoneStep
 <2> QED BY <1>4, <2>1 DEF TsToolsDone
<1>5. ASSUME TsInterrupt PROVE TsInv' /\ tsOwner' \in TsOwners
 <2>1. tsRun' \in TsRuns /\ tsRun'.calls = tsRun.calls /\ tsRun.at = "tools"
   BY <1>5 DEF TsInterrupt, TsGo, TsInv, TsRuns
 <2> QED BY <1>5, <2>1 DEF TsInterrupt, TsInv
<1>6. ASSUME TsResume PROVE TsInv' /\ tsOwner' \in TsOwners
 <2>1. tsRun' \in TsRuns /\ tsRun'.calls = tsRun.calls /\ tsRun.at = "waiting"
   BY <1>6 DEF TsResume, TsGo, TsInv, TsRuns
 <2> QED BY <1>6, <2>1 DEF TsResume, TsInv
<1>7. ASSUME TsStopped PROVE TsInv' /\ tsOwner' \in TsOwners
 <2>1. tsRun' \in TsRuns /\ tsRun'.calls = tsRun.calls /\ tsRun'.at = "idle"
   BY <1>7 DEF TsStopped, TsGo, TsInv, TsRuns
 <2> QED BY <1>7, <2>1 DEF TsStopped, TsInv
<1>8. CASE UNCHANGED tsVars BY <1>8 DEF tsVars, TsInv
<1> QED BY <1>1, <1>2, <1>3, <1>4, <1>5, <1>6, <1>7, <1>8 DEF TsNext

\* Whatever was compacted and wherever turns stopped, a tool result has its call
\* before it and a waiting turn its calls; the references kept are the largest
\* of all that children reported, whatever the order in which they ended.
THEOREM ThreadHolds == TsSpec => [](TsThreadHolds /\ TsTypeOK)
<1> DEFINE I == TsInv /\ tsOwner \in TsOwners
<1>1. TsInit => I BY TsAssumption, TsStart DEF TsInit
<1>2. I /\ [TsNext]_tsVars => I' BY TsAssumption, TsStep
<1>3. I => TsThreadHolds /\ TsTypeOK
 <2>1. SUFFICES ASSUME TsInv PROVE TsThreadHolds /\ TsTypeOK OBVIOUS
 <2>2. TsTypeOK BY <2>1 DEF TsInv, TsTypeOK, TsChannelSet, TsRuns
 <2>3. TsMessagesPaired
  <3>1. ASSUME NEW i \in DOMAIN tsMessages, tsMessages[i].kind = "tool"
        PROVE  \E j \in 1..(i - 1) : tsMessages[j].kind = "ai"
                                      /\ tsMessages[i].calls \subseteq tsMessages[j].calls
    BY <2>1, <3>1 DEF TsInv, TsPaired
  <3>2. ASSUME tsRun.at \in {"tools", "waiting"}
        PROVE  /\ TsPending # {} /\ tsMessages[Len(tsMessages)].kind = "ai"
               /\ TsPending \cap TsResolved(tsMessages) = {}
    BY <2>1, <3>2 DEF TsInv, TsAwaits, TsPending
  <3> QED BY <3>1, <3>2 DEF TsMessagesPaired
 <2>4. TsRefsOrderFree
  <3>1. PICK q : q = tsChannels.refs OBVIOUS
  <3>2. PICK n \in Nat : q \in [1..n -> Nat] /\ n = Len(q) BY <2>1, <3>1 DEF TsInv, TsKept
  <3>3. TsKept(q, tsReported) BY <2>1, <3>1 DEF TsInv
  <3>4. TsSorted(ToSet(q)) = q BY <3>2, <3>3, TsSortedIs DEF TsKept
  <3> QED BY <3>1, <3>3, <3>4 DEF TsRefsOrderFree, TsKept
 <2> QED BY <2>2, <2>3, <2>4 DEF TsThreadHolds
<1> QED BY <1>1, <1>2, <1>3, PTL DEF TsSpec

--------------------
(* Delegation, and first sums over finite sets. *)

\* Induction over the subsets of a finite set, for a property given by the set
\* of the subsets that have it.
LEMMA CxSetInduction ==
  ASSUME NEW S, IsFiniteSet(S), NEW Q, {} \in Q,
         \A T \in SUBSET S : T # {} /\ (\A x \in T : T \ {x} \in Q) => T \in Q
  PROVE  \A T \in SUBSET S : T \in Q
<1>1. PICK N : N = {n \in Nat : \E T \in SUBSET S : Cardinality(T) = n /\ T \notin Q} OBVIOUS
<1>2. \A T \in SUBSET S : IsFiniteSet(T) /\ Cardinality(T) \in Nat BY FS_Subset, FS_CardinalityType
<1>3. SUFFICES ASSUME NEW T \in SUBSET S, T \notin Q PROVE FALSE OBVIOUS
<1>4. N \in SUBSET Nat /\ N # {}
 <2>1. Cardinality(T) \in N BY <1>1, <1>2, <1>3
 <2> QED BY <1>1, <2>1
<1>5. PICK n \in N : \A m \in N : n <= m BY <1>4, CxLeast
<1>6. PICK U \in SUBSET S : Cardinality(U) = n /\ U \notin Q BY <1>1, <1>5
<1>7. ASSUME NEW x \in U PROVE U \ {x} \in Q
 <2>1. Cardinality(U \ {x}) = n - 1 /\ n \in Nat BY <1>2, <1>6, FS_RemoveElement
 <2>2. U \ {x} \in SUBSET S /\ Cardinality(U \ {x}) \in Nat BY <1>2
 <2>3. Cardinality(U \ {x}) \notin N BY <1>5, <2>1, <2>2
 <2> QED BY <1>1, <2>2, <2>3
<1>8. U # {} BY <1>6
<1> QED BY <1>6, <1>7, <1>8

\* A finite set of naturals that is not empty has a greatest element.
LEMMA CxGreatest ==
  ASSUME NEW S \in SUBSET Nat, IsFiniteSet(S), S # {}
  PROVE  Max(S) \in S /\ \A x \in S : x <= Max(S)
<1>1. PICK Q : Q = {T \in SUBSET S : T # {} => \E m \in T : \A x \in T : m >= x} OBVIOUS
<1>2. {} \in Q BY <1>1
<1>3. ASSUME NEW T \in SUBSET S, T # {}, \A x \in T : T \ {x} \in Q PROVE T \in Q
 <2>1. PICK a \in T : TRUE BY <1>3
 <2>2. T \ {a} \in Q /\ a \in Nat BY <1>3
 <2>3. CASE T \ {a} = {}
  <3>1. \A x \in T : x = a BY <2>3
  <3> QED BY <1>1, <2>2, <3>1
 <2>4. CASE T \ {a} # {}
  <3>1. PICK m \in T \ {a} : \A x \in T \ {a} : m >= x BY <1>1, <2>2, <2>4
  <3>2. m \in Nat /\ \A x \in T : x \in Nat OBVIOUS
  <3>3. CASE m >= a
   <4>1. \A x \in T : m >= x BY <3>1, <3>3
   <4> QED BY <1>1, <4>1
  <3>4. CASE ~(m >= a)
   <4>1. \A x \in T : a >= x BY <2>2, <3>1, <3>2, <3>4
   <4> QED BY <1>1, <4>1
  <3> QED BY <3>3, <3>4
 <2> QED BY <2>3, <2>4
<1>4. S \in Q BY <1>2, <1>3, CxSetInduction
<1>5. Max(S) \in S /\ \A x \in S : Max(S) >= x BY <1>1, <1>4 DEF Max
<1>6. \A x \in S : x \in Nat OBVIOUS
<1> QED BY <1>5, <1>6

\* The sums of a function over the subsets of a set.
CxSums(h, S, f) ==
  /\ h \in [SUBSET S -> Nat] /\ h[{}] = 0
  /\ \A T \in SUBSET S : \A x \in T : h[T] = f[x] + h[T \ {x}]

CxTotal(f, S) == (CHOOSE h : CxSums(h, S, f))[S]

\* Finite sets have sums.
LEMMA CxSumExists ==
  ASSUME NEW S, IsFiniteSet(S), NEW f \in [S -> Nat]
  PROVE  \E h : CxSums(h, S, f)
<1>1. PICK Q : Q = {T \in SUBSET S : \E h : CxSums(h, T, f)} OBVIOUS
<1>2. {} \in Q
 <2>1. PICK h : h = [T \in SUBSET {} |-> 0] OBVIOUS
 <2>2. CxSums(h, {}, f) BY <2>1 DEF CxSums
 <2> QED BY <1>1, <2>2
<1>3. ASSUME NEW T \in SUBSET S, T # {}, \A x \in T : T \ {x} \in Q PROVE T \in Q
 <2>1. PICK a \in T : TRUE BY <1>3
 <2>2. PICK h : CxSums(h, T \ {a}, f) BY <1>1, <1>3
 <2>3. f[a] \in Nat /\ \A x \in T : f[x] \in Nat OBVIOUS
 <2>4. PICK g : g = [U \in SUBSET T |-> IF a \in U THEN f[a] + h[U \ {a}] ELSE h[U]] OBVIOUS
 <2>5. \A U \in SUBSET (T \ {a}) : h[U] \in Nat BY <2>2 DEF CxSums
 <2>6. g \in [SUBSET T -> Nat]
  <3>1. ASSUME NEW U \in SUBSET T
        PROVE  (IF a \in U THEN f[a] + h[U \ {a}] ELSE h[U]) \in Nat
   <4>1. CASE a \in U
    <5>1. U \ {a} \in SUBSET (T \ {a}) OBVIOUS
    <5>2. h[U \ {a}] \in Nat BY <2>5, <5>1
    <5> QED BY <2>3, <4>1, <5>2
   <4>2. CASE a \notin U
    <5>1. U \in SUBSET (T \ {a}) BY <4>2
    <5> QED BY <2>5, <4>2, <5>1
   <4> QED BY <4>1, <4>2
  <3> QED BY <2>4, <3>1
 <2>7. g[{}] = 0 BY <2>2, <2>4 DEF CxSums
 <2>8. ASSUME NEW U \in SUBSET T, NEW x \in U PROVE g[U] = f[x] + g[U \ {x}]
  <3>1. U \ {x} \in SUBSET T OBVIOUS
  <3>2. CASE x = a BY <2>4, <3>1, <3>2
  <3>3. CASE x # a /\ a \in U
   <4>1. PICK V : V = U \ {a} OBVIOUS
   <4>2. V \in SUBSET (T \ {a}) /\ x \in V /\ V \ {x} \in SUBSET (T \ {a}) BY <3>3, <4>1
   <4>3. h[V] = f[x] + h[V \ {x}] /\ h[V] \in Nat /\ h[V \ {x}] \in Nat
     BY <2>2, <2>5, <4>2 DEF CxSums
   <4>4. g[U] = f[a] + h[V] BY <2>4, <3>3, <4>1
   <4>5. (U \ {x}) \ {a} = V \ {x} BY <4>1
   <4>6. g[U \ {x}] = f[a] + h[V \ {x}] BY <2>4, <3>1, <3>3, <4>5
   <4> QED BY <2>3, <4>3, <4>4, <4>6
  <3>4. CASE a \notin U
   <4>1. U \in SUBSET (T \ {a}) /\ a \notin U \ {x} BY <3>4
   <4>2. h[U] = f[x] + h[U \ {x}] BY <2>2, <4>1 DEF CxSums
   <4>3. g[U] = h[U] /\ g[U \ {x}] = h[U \ {x}] BY <2>4, <3>1, <3>4, <4>1
   <4> QED BY <4>2, <4>3
  <3> QED BY <3>2, <3>3, <3>4
 <2>9. CxSums(g, T, f) BY <2>6, <2>7, <2>8 DEF CxSums
 <2> QED BY <1>1, <2>9
<1>4. S \in Q BY <1>2, <1>3, CxSetInduction
<1> QED BY <1>1, <1>4

\* The sum of a function, step by step.
LEMMA CxTotalSums ==
  ASSUME NEW S, IsFiniteSet(S), NEW f \in [S -> Nat]
  PROVE  \E h : CxSums(h, S, f) /\ CxTotal(f, S) = h[S]
<1>1. PICK h : h = CHOOSE x : CxSums(x, S, f) OBVIOUS
<1>2. CxSums(h, S, f) BY <1>1, CxSumExists
<1> QED BY <1>1, <1>2 DEF CxTotal

\* A greater function has a greater sum.
LEMMA CxTotalLeq ==
  ASSUME NEW S, IsFiniteSet(S), NEW f \in [S -> Nat], NEW g \in [S -> Nat],
         \A x \in S : f[x] <= g[x]
  PROVE  CxTotal(f, S) <= CxTotal(g, S)
<1>1. PICK h : CxSums(h, S, f) /\ CxTotal(f, S) = h[S] BY CxTotalSums
<1>2. PICK k : CxSums(k, S, g) /\ CxTotal(g, S) = k[S] BY CxTotalSums
<1>3. PICK Q : Q = {T \in SUBSET S : h[T] <= k[T]} OBVIOUS
<1>4. {} \in Q BY <1>1, <1>2, <1>3 DEF CxSums
<1>5. ASSUME NEW T \in SUBSET S, T # {}, \A x \in T : T \ {x} \in Q PROVE T \in Q
 <2>1. PICK x \in T : TRUE BY <1>5
 <2>2. h[T] = f[x] + h[T \ {x}] /\ k[T] = g[x] + k[T \ {x}] BY <1>1, <1>2 DEF CxSums
 <2>3. T \ {x} \in SUBSET S /\ h[T \ {x}] <= k[T \ {x}] /\ f[x] <= g[x] BY <1>3, <1>5
 <2>4. h[T \ {x}] \in Nat /\ k[T \ {x}] \in Nat /\ f[x] \in Nat /\ g[x] \in Nat
   BY <1>1, <1>2, <2>3 DEF CxSums
 <2>5. h[T] <= k[T] BY <2>2, <2>3, <2>4
 <2> QED BY <1>3, <2>5
<1>6. S \in Q BY <1>4, <1>5, CxSetInduction
<1> QED BY <1>1, <1>2, <1>3, <1>6

\* The sum of two functions is the sum of their sums.
LEMMA CxTotalPlus ==
  ASSUME NEW S, IsFiniteSet(S), NEW f \in [S -> Nat], NEW g \in [S -> Nat],
         NEW e \in [S -> Nat], \A x \in S : e[x] = f[x] + g[x]
  PROVE  CxTotal(e, S) = CxTotal(f, S) + CxTotal(g, S)
<1>1. PICK h : CxSums(h, S, f) /\ CxTotal(f, S) = h[S] BY CxTotalSums
<1>2. PICK k : CxSums(k, S, g) /\ CxTotal(g, S) = k[S] BY CxTotalSums
<1>a. PICK l : CxSums(l, S, e) /\ CxTotal(e, S) = l[S] BY CxTotalSums
<1>3. PICK Q : Q = {T \in SUBSET S : l[T] = h[T] + k[T]} OBVIOUS
<1>4. {} \in Q BY <1>1, <1>2, <1>a, <1>3 DEF CxSums
<1>5. ASSUME NEW T \in SUBSET S, T # {}, \A x \in T : T \ {x} \in Q PROVE T \in Q
 <2>1. PICK x \in T : TRUE BY <1>5
 <2>2. h[T] = f[x] + h[T \ {x}] /\ k[T] = g[x] + k[T \ {x}] /\ l[T] = e[x] + l[T \ {x}]
   BY <1>1, <1>2, <1>a DEF CxSums
 <2>3. T \ {x} \in SUBSET S /\ l[T \ {x}] = h[T \ {x}] + k[T \ {x}] /\ e[x] = f[x] + g[x]
   BY <1>3, <1>5
 <2>4. h[T \ {x}] \in Nat /\ k[T \ {x}] \in Nat /\ f[x] \in Nat /\ g[x] \in Nat
   BY <1>1, <1>2, <2>3 DEF CxSums
 <2>5. l[T] = h[T] + k[T] BY <2>2, <2>3, <2>4
 <2> QED BY <1>3, <2>5
<1>6. S \in Q BY <1>4, <1>5, CxSetInduction
<1> QED BY <1>1, <1>2, <1>a, <1>3, <1>6

\* The same amount for each element of a set, and nothing for the others.
LEMMA CxTotalShare ==
  ASSUME NEW S, IsFiniteSet(S), NEW P \in SUBSET S, NEW m \in Nat,
         NEW f \in [S -> Nat], \A x \in S : f[x] = IF x \in P THEN m ELSE 0
  PROVE  CxTotal(f, S) = m * Cardinality(P)
<1>1. PICK h : CxSums(h, S, f) /\ CxTotal(f, S) = h[S] BY CxTotalSums
<1>2. PICK Q : Q = {T \in SUBSET S : h[T] = m * Cardinality(T \cap P)} OBVIOUS
<1>3. {} \in Q
 <2>1. {} \cap P = {} /\ Cardinality({}) = 0 BY FS_EmptySet
 <2>2. m * 0 = 0 OBVIOUS
 <2> QED BY <1>1, <1>2, <2>1, <2>2 DEF CxSums
<1>4. ASSUME NEW T \in SUBSET S, T # {}, \A x \in T : T \ {x} \in Q PROVE T \in Q
 <2>1. PICK x \in T : TRUE BY <1>4
 <2>2. PICK U : U = T \ {x} OBVIOUS
 <2>3. h[T] = f[x] + h[U] /\ h[U] = m * Cardinality(U \cap P) /\ h[U] \in Nat
   BY <1>1, <1>2, <1>4, <2>2 DEF CxSums
 <2>4. IsFiniteSet(U \cap P) BY <2>2, FS_Subset
 <2>5. PICK n \in Nat : n = Cardinality(U \cap P) BY <2>4, FS_CardinalityType
 <2>6. CASE x \in P
  <3>1. T \cap P = (U \cap P) \cup {x} /\ x \notin U \cap P BY <2>2, <2>6
  <3>2. Cardinality(T \cap P) = n + 1 BY <2>4, <2>5, <3>1, FS_AddElement
  <3>3. m * (n + 1) = m + m * n OBVIOUS
  <3> QED BY <1>2, <2>3, <2>5, <2>6, <3>2, <3>3
 <2>7. CASE x \notin P
  <3>1. T \cap P = U \cap P BY <2>2, <2>7
  <3>2. f[x] = 0 BY <2>7
  <3>3. h[T] = h[U] BY <2>3, <3>2
  <3>4. h[T] = m * Cardinality(T \cap P) BY <2>3, <3>1, <3>3
  <3> QED BY <1>2, <3>4
 <2> QED BY <2>6, <2>7
<1>5. S \in Q BY <1>3, <1>4, CxSetInduction
<1>6. S \cap P = P OBVIOUS
<1> QED BY <1>1, <1>2, <1>5, <1>6

\* A function that is zero outside a set has its sum there.
LEMMA CxTotalWithin ==
  ASSUME NEW S, IsFiniteSet(S), NEW f \in [S -> Nat], NEW P \in SUBSET S,
         NEW g \in [P -> Nat], \A x \in S : f[x] = IF x \in P THEN g[x] ELSE 0
  PROVE  CxTotal(f, S) = CxTotal(g, P)
<1>0. IsFiniteSet(P) BY FS_Subset
<1>1. PICK h : CxSums(h, S, f) /\ CxTotal(f, S) = h[S] BY CxTotalSums
<1>2. PICK k : CxSums(k, P, g) /\ CxTotal(g, P) = k[P] BY <1>0, CxTotalSums
<1>3. PICK Q : Q = {T \in SUBSET S : h[T] = k[T \cap P]} OBVIOUS
<1>4. {} \in Q
 <2>1. {} \cap P = {} OBVIOUS
 <2> QED BY <1>1, <1>2, <1>3, <2>1 DEF CxSums
<1>5. ASSUME NEW T \in SUBSET S, T # {}, \A x \in T : T \ {x} \in Q PROVE T \in Q
 <2>1. PICK x \in T : TRUE BY <1>5
 <2>2. PICK U : U = T \ {x} OBVIOUS
 <2>3. h[T] = f[x] + h[U] /\ h[U] = k[U \cap P] /\ h[U] \in Nat BY <1>1, <1>3, <1>5, <2>2 DEF CxSums
 <2>4. CASE x \in P
  <3>1. (T \cap P) \ {x} = U \cap P /\ T \cap P \in SUBSET P /\ x \in T \cap P BY <2>2, <2>4
  <3>2. PICK V : V = T \cap P OBVIOUS
  <3>3. V \in SUBSET P /\ x \in V /\ V \ {x} = U \cap P BY <3>1, <3>2
  <3>4. k[V] = g[x] + k[V \ {x}] BY <1>2, <3>3 DEF CxSums
  <3> QED BY <1>3, <2>3, <2>4, <3>2, <3>3, <3>4
 <2>5. CASE x \notin P
  <3>1. T \cap P = U \cap P BY <2>2, <2>5
  <3>2. f[x] = 0 BY <2>5
  <3> QED BY <1>3, <2>3, <3>1, <3>2
 <2> QED BY <2>4, <2>5
<1>6. S \in Q BY <1>4, <1>5, CxSetInduction
<1>7. S \cap P = P OBVIOUS
<1> QED BY <1>1, <1>2, <1>3, <1>6, <1>7

\* A sum is a natural number.
LEMMA CxTotalType ==
  ASSUME NEW S, IsFiniteSet(S), NEW f \in [S -> Nat]
  PROVE  CxTotal(f, S) \in Nat
<1>1. PICK h : CxSums(h, S, f) /\ CxTotal(f, S) = h[S] BY CxTotalSums
<1> QED BY <1>1 DEF CxSums

\* Functions that differ in one place have sums that differ by as much.
LEMMA CxTotalChange ==
  ASSUME NEW S, IsFiniteSet(S), NEW f \in [S -> Nat], NEW g \in [S -> Nat], NEW a \in S,
         \A x \in S : x # a => f[x] = g[x]
  PROVE  CxTotal(f, S) + g[a] = CxTotal(g, S) + f[a]
<1>1. PICK P : P = S \ {a} OBVIOUS
<1>2. PICK h : CxSums(h, S, f) /\ CxTotal(f, S) = h[S] BY CxTotalSums
<1>3. PICK k : CxSums(k, S, g) /\ CxTotal(g, S) = k[S] BY CxTotalSums
<1>4. PICK Q : Q = {T \in SUBSET S : a \notin T => h[T] = k[T]} OBVIOUS
<1>5. {} \in Q BY <1>2, <1>3, <1>4 DEF CxSums
<1>6. ASSUME NEW T \in SUBSET S, T # {}, \A x \in T : T \ {x} \in Q PROVE T \in Q
 <2>1. PICK x \in T : TRUE BY <1>6
 <2>2. h[T] = f[x] + h[T \ {x}] /\ k[T] = g[x] + k[T \ {x}] BY <1>2, <1>3 DEF CxSums
 <2>3. a \notin T => h[T \ {x}] = k[T \ {x}] /\ f[x] = g[x] BY <1>4, <1>6
 <2> QED BY <1>4, <2>2, <2>3
<1>7. \A T \in SUBSET S : T \in Q BY <1>5, <1>6, CxSetInduction
<1>8. P \in SUBSET S /\ a \notin P BY <1>1
<1>9. h[P] = k[P] /\ h[P] \in Nat BY <1>2, <1>4, <1>7, <1>8 DEF CxSums
<1>10. h[S] = f[a] + h[P] /\ k[S] = g[a] + k[P] BY <1>1, <1>2, <1>3 DEF CxSums
<1>11. f[a] \in Nat /\ g[a] \in Nat OBVIOUS
<1> QED BY <1>2, <1>3, <1>9, <1>10, <1>11

--------------------
(* Budgets: three amounts, added up over children. *)

DgAxes == {"tokens", "models", "tools"}

\* A budget as a function of what it counts.
LEMMA DgAmounts == Amounts = [DgAxes -> Nat]
<1>1. \A a \in Amounts : a \in [DgAxes -> Nat] BY DEF Amounts, DgAxes
<1>2. \A a \in [DgAxes -> Nat] : a \in Amounts BY DEF Amounts, DgAxes
<1> QED BY <1>1, <1>2

\* Budgets are added and subtracted amount by amount.
LEMMA DgPlus ==
  ASSUME NEW a \in Amounts, NEW b \in Amounts
  PROVE  /\ Plus(a, b) \in Amounts
         /\ \A k \in DgAxes : Plus(a, b)[k] = a[k] + b[k]
<1>1. a \in [DgAxes -> Nat] /\ b \in [DgAxes -> Nat] BY DgAmounts
<1>2. Plus(a, b) \in [DgAxes -> Nat] /\ \A k \in DgAxes : Plus(a, b)[k] = a[k] + b[k]
  BY <1>1 DEF DgAxes, Plus
<1> QED BY <1>2, DgAmounts

\* Nothing is left of an amount when more is taken.
LEMMA DgMinus ==
  ASSUME NEW a \in Amounts, NEW b \in Amounts
  PROVE  /\ Minus(a, b) \in Amounts
         /\ \A k \in DgAxes : Minus(a, b)[k] = IF a[k] > b[k] THEN a[k] - b[k] ELSE 0
<1>1. a \in [DgAxes -> Nat] /\ b \in [DgAxes -> Nat] BY DgAmounts
<1>2. /\ Minus(a, b) \in [DgAxes -> Nat]
      /\ \A k \in DgAxes : Minus(a, b)[k] = IF a[k] > b[k] THEN a[k] - b[k] ELSE 0
  BY <1>1 DEF DgAxes, Minus
<1> QED BY <1>2, DgAmounts

\* The element a fold over a set takes first.
DgPick(T) == CHOOSE x \in T : TRUE

\* One amount of the budgets of a set.
DgAxis(F, S, k) == [c \in S |-> F[c][k]]

\* A function that adds up budgets the way a fold over a set does.
DgFolds(g, S, F, base) ==
  \A T \in SUBSET S :
    g[T] = IF T = {} THEN base ELSE Plus(F[DgPick(T)], g[T \ {DgPick(T)}])

\* A budget's amounts are sums.
LEMMA DgAxisTyped ==
  ASSUME NEW S, NEW F \in [S -> Amounts], NEW k \in DgAxes
  PROVE  DgAxis(F, S, k) \in [S -> Nat] /\ \A c \in S : DgAxis(F, S, k)[c] = F[c][k]
<1>1. \A c \in S : F[c] \in [DgAxes -> Nat] BY DgAmounts
<1> QED BY <1>1 DEF DgAxis

\* What is added up that way is, amount by amount, the sum.
DgAddsUp(g, S, F, base) ==
  /\ DgFolds(g, S, F, base) /\ g \in [SUBSET S -> Amounts]
  /\ \A k \in DgAxes : g[S][k] = base[k] + CxTotal(DgAxis(F, S, k), S)

\* There is such a function.
LEMMA DgFoldExists ==
  ASSUME NEW S, IsFiniteSet(S), NEW F \in [S -> Amounts], NEW base \in Amounts
  PROVE  \E g : DgAddsUp(g, S, F, base)
<1>1. base \in [DgAxes -> Nat] /\ F \in [S -> [DgAxes -> Nat]] BY DgAmounts
<1>2. PICK H : H = [k \in DgAxes |-> CHOOSE h : CxSums(h, S, DgAxis(F, S, k))] OBVIOUS
<1>3. ASSUME NEW k \in DgAxes
      PROVE  CxSums(H[k], S, DgAxis(F, S, k)) /\ CxTotal(DgAxis(F, S, k), S) = H[k][S]
 <2>1. \E h : CxSums(h, S, DgAxis(F, S, k)) BY DgAxisTyped, CxSumExists
 <2> QED BY <1>2, <2>1 DEF CxTotal
<1>4. PICK g : g = [T \in SUBSET S |-> [k \in DgAxes |-> base[k] + H[k][T]]] OBVIOUS
<1>5. \A T \in SUBSET S : \A k \in DgAxes : H[k][T] \in Nat BY <1>3 DEF CxSums
<1>6. g \in [SUBSET S -> [DgAxes -> Nat]] BY <1>1, <1>4, <1>5
<1>7. ASSUME NEW T \in SUBSET S
      PROVE  g[T] = IF T = {} THEN base ELSE Plus(F[DgPick(T)], g[T \ {DgPick(T)}])
 <2>1. CASE T = {}
  <3>1. \A k \in DgAxes : H[k][{}] = 0 BY <1>3 DEF CxSums
  <3>2. \A k \in DgAxes : g[T][k] = base[k] BY <1>1, <1>4, <2>1, <3>1
  <3>3. g[T] \in [DgAxes -> Nat] BY <1>6
  <3> QED BY <1>1, <2>1, <3>2, <3>3
 <2>2. CASE T # {}
  <3>1. PICK x : x = DgPick(T) OBVIOUS
  <3>2. x \in T /\ T \ {x} \in SUBSET S /\ x \in S BY <2>2, <3>1 DEF DgPick
  <3>3. \A k \in DgAxes : H[k][T] = F[x][k] + H[k][T \ {x}]
   <4>1. ASSUME NEW k \in DgAxes PROVE H[k][T] = F[x][k] + H[k][T \ {x}]
    <5>1. CxSums(H[k], S, DgAxis(F, S, k)) BY <1>3
    <5>2. DgAxis(F, S, k)[x] = F[x][k] BY <3>2, DgAxisTyped
    <5> QED BY <3>2, <5>1, <5>2 DEF CxSums
   <4> QED BY <4>1
  <3>4. F[x] \in Amounts /\ g[T \ {x}] \in Amounts /\ g[T] \in [DgAxes -> Nat]
    BY <1>6, <3>2, DgAmounts
  <3>5. PICK p : p = Plus(F[x], g[T \ {x}]) OBVIOUS
  <3>6. p \in [DgAxes -> Nat] /\ \A k \in DgAxes : p[k] = F[x][k] + g[T \ {x}][k]
    BY <3>4, <3>5, DgPlus, DgAmounts
  <3>7. \A k \in DgAxes : g[T][k] = p[k]
   <4>1. ASSUME NEW k \in DgAxes PROVE g[T][k] = p[k]
    <5>1. g[T][k] = base[k] + H[k][T] /\ g[T \ {x}][k] = base[k] + H[k][T \ {x}] BY <1>4, <3>2
    <5>2. base[k] \in Nat /\ H[k][T] \in Nat /\ H[k][T \ {x}] \in Nat /\ F[x][k] \in Nat
      BY <1>1, <1>5, <3>2
    <5>3. p[k] = F[x][k] + g[T \ {x}][k] /\ H[k][T] = F[x][k] + H[k][T \ {x}] BY <3>3, <3>6
    <5> QED BY <5>1, <5>2, <5>3
   <4> QED BY <4>1
  <3>8. g[T] = p BY <3>4, <3>6, <3>7
  <3> QED BY <2>2, <3>1, <3>5, <3>8
 <2> QED BY <2>1, <2>2
<1>8. DgFolds(g, S, F, base) BY <1>7 DEF DgFolds
<1>9. \A k \in DgAxes : g[S][k] = base[k] + CxTotal(DgAxis(F, S, k), S) BY <1>3, <1>4
<1>10. g \in [SUBSET S -> Amounts] BY <1>6, DgAmounts
<1> QED BY <1>8, <1>9, <1>10 DEF DgAddsUp

\* Whatever is computed that way is the sum.
LEMMA DgFoldValue ==
  ASSUME NEW S, IsFiniteSet(S), NEW F \in [S -> Amounts], NEW base \in Amounts,
         NEW g, DgFolds(g, S, F, base)
  PROVE  /\ g[S] \in Amounts
         /\ \A k \in DgAxes : g[S][k] = base[k] + CxTotal(DgAxis(F, S, k), S)
<1>1. PICK h : DgAddsUp(h, S, F, base) BY DgFoldExists
<1>2. PICK Q : Q = {T \in SUBSET S : g[T] = h[T]} OBVIOUS
<1>3. {} \in Q BY <1>1, <1>2 DEF DgAddsUp, DgFolds
<1>4. ASSUME NEW T \in SUBSET S, T # {}, \A x \in T : T \ {x} \in Q PROVE T \in Q
 <2>1. DgPick(T) \in T BY <1>4 DEF DgPick
 <2>2. g[T \ {DgPick(T)}] = h[T \ {DgPick(T)}] BY <1>2, <1>4, <2>1
 <2> QED BY <1>1, <1>2, <1>4, <2>2 DEF DgAddsUp, DgFolds
<1>5. S \in Q BY <1>3, <1>4, CxSetInduction
<1> QED BY <1>1, <1>2, <1>5 DEF DgAddsUp

\* The entries of the ledger, the task of a child, what the run store has of it.
DgEntries ==
  [status : Terminal \cup {"none", "running"}, type : DgTypes \cup {"none", "research"},
   reserved : Amounts, used : Amounts, evidence : BOOLEAN]

DgTaskSet ==
  [at : {"none", "starting", "running", "returned", "done"},
   type : DgTypes \cup {"none"}, result : Terminal \cup {"none"},
   used : Amounts, evidence : BOOLEAN]

DgChildSet ==
  [at : {"none", "running", "ended", "lost"}, terminal : Terminal \cup {"none"},
   used : Amounts, evidence : BOOLEAN]

DgOfRun(run) == {c \in Children : c[1] = run}

\* What an entry is charged with is a budget.
LEMMA DgUsageTyped ==
  ASSUME NEW e \in DgEntries
  PROVE  BudgetUsage(e) \in Amounts /\ None \in Amounts /\ \A k \in DgAxes : None[k] = 0
<1>1. None \in Amounts /\ \A k \in DgAxes : None[k] = 0 BY DEF None, Amounts, DgAxes
<1> QED BY <1>1 DEF BudgetUsage, DgEntries

\* There are finitely many children.
LEMMA DgFinite ==
  ASSUME DgAssumption, NEW run
  PROVE  IsFiniteSet(Children) /\ IsFiniteSet(DgOfRun(run)) /\ IsFiniteSet(Prior)
<1>1. IsFiniteSet(1..DgMaxRuns) /\ IsFiniteSet(DgCalls) BY FS_Interval DEF DgAssumption
<1>2. IsFiniteSet(Children) BY <1>1, FS_Product DEF Children
<1>3. DgOfRun(run) \subseteq Children /\ Prior \subseteq Children BY DEF DgOfRun, Prior
<1> QED BY <1>2, <1>3, FS_Subset

\* The children's part of the budget, amount by amount.
LEMMA DgChildUsageIs ==
  ASSUME DgAssumption, dgLedger \in [Children -> DgEntries]
  PROVE  /\ ChildUsage \in Amounts
         /\ \A k \in DgAxes : ChildUsage[k] =
              CxTotal(DgAxis([c \in Prior |-> BudgetUsage(dgLedger[c])], Prior, k), Prior)
<1> DEFINE Rec(h) ==
      [T \in SUBSET Prior |->
         IF T = {} THEN None
         ELSE Plus(BudgetUsage(dgLedger[DgPick(T)]), h[T \ {DgPick(T)}])]
<1>1. PICK F : F = [c \in Prior |-> BudgetUsage(dgLedger[c])] OBVIOUS
<1>2. Prior \subseteq Children /\ IsFiniteSet(Prior) BY DgFinite DEF Prior
<1>3. F \in [Prior -> Amounts] BY <1>1, <1>2, DgUsageTyped
<1>4. None \in Amounts /\ \A k \in DgAxes : None[k] = 0 BY DEF None, Amounts, DgAxes
<1>5. PICK g : g = (CHOOSE x : x = Rec(x)) OBVIOUS
<1>6. ChildUsage = g[Prior] BY <1>5 DEF ChildUsage, FoldSet, MapThenFoldSet, DgPick
<1>7. PICK h : DgAddsUp(h, Prior, F, None) BY <1>2, <1>3, <1>4, DgFoldExists
<1>8. \A T \in SUBSET Prior : T # {} => F[DgPick(T)] = BudgetUsage(dgLedger[DgPick(T)])
  BY <1>1 DEF DgPick
<1>9. h = Rec(h) BY <1>7, <1>8 DEF DgAddsUp, DgFolds
<1>10. g = Rec(g) BY <1>5, <1>9
<1>11. DgFolds(g, Prior, F, None) BY <1>8, <1>10 DEF DgFolds
<1>12. g[Prior] \in Amounts
       /\ \A k \in DgAxes : g[Prior][k] = None[k] + CxTotal(DgAxis(F, Prior, k), Prior)
  BY <1>2, <1>3, <1>4, <1>11, DgFoldValue
<1>13. \A k \in DgAxes : CxTotal(DgAxis(F, Prior, k), Prior) \in Nat
  BY <1>2, <1>3, DgAxisTyped, CxTotalType
<1> QED BY <1>1, <1>4, <1>6, <1>12, <1>13

\* What was really used, amount by amount.
LEMMA DgSpentIs ==
  ASSUME DgAssumption, dgChild \in [Children -> DgChildSet], dgUsed \in Amounts
  PROVE  /\ Spent \in Amounts
         /\ \A k \in DgAxes : Spent[k] = dgUsed[k] +
              CxTotal(DgAxis([c \in DgOfRun(dgRun) |-> dgChild[c].used], DgOfRun(dgRun), k),
                      DgOfRun(dgRun))
<1>1. PICK S : S = DgOfRun(dgRun) OBVIOUS
<1> DEFINE Rec(h) ==
      [T \in SUBSET S |->
         IF T = {} THEN dgUsed ELSE Plus(dgChild[DgPick(T)].used, h[T \ {DgPick(T)}])]
<1>2. S = {c \in Children : c[1] = dgRun} /\ S \subseteq Children /\ IsFiniteSet(S)
  BY <1>1, DgFinite DEF DgOfRun
<1>3. PICK F : F = [c \in S |-> dgChild[c].used] OBVIOUS
<1>4. F \in [S -> Amounts] BY <1>2, <1>3 DEF DgChildSet
<1>5. PICK g : g = (CHOOSE x : x = Rec(x)) OBVIOUS
<1>6. Spent = g[S] BY <1>2, <1>5 DEF Spent, FoldSet, MapThenFoldSet, DgPick
<1>7. PICK h : DgAddsUp(h, S, F, dgUsed) BY <1>2, <1>4, DgFoldExists
<1>8. \A T \in SUBSET S : T # {} => F[DgPick(T)] = dgChild[DgPick(T)].used BY <1>3 DEF DgPick
<1>9. h = Rec(h) BY <1>7, <1>8 DEF DgAddsUp, DgFolds
<1>10. g = Rec(g) BY <1>5, <1>9
<1>11. DgFolds(g, S, F, dgUsed) BY <1>8, <1>10 DEF DgFolds
<1>12. g[S] \in Amounts /\ \A k \in DgAxes : g[S][k] = dgUsed[k] + CxTotal(DgAxis(F, S, k), S)
 <2>1. PICK b \in Amounts : b = dgUsed OBVIOUS
 <2>2. DgFolds(g, S, F, b) BY <1>11, <2>1
 <2>3. IsFiniteSet(S) /\ F \in [S -> Amounts] BY <1>2, <1>4
 <2>4. g[S] \in Amounts /\ \A k \in DgAxes : g[S][k] = b[k] + CxTotal(DgAxis(F, S, k), S)
   BY <2>2, <2>3, DgFoldValue
 <2> QED BY <2>1, <2>4
<1> QED BY <1>1, <1>3, <1>6, <1>12

--------------------
(* Delegation: how the budget is shared out. *)

\* By how much a child, or the parent, may overshoot: a model call's usage is
\* known when it has been spent.
DgOver == [tokens |-> Max(DgUsages), models |-> 0, tools |-> 0]

DgUpto(a, b) == \A k \in DgAxes : a[k] <= b[k] + DgOver[k]

\* What a child may count on: what it reserved, or the part of it that it used.
DgBaseAt(e) ==
  IF e.status = "running" THEN e.reserved
  ELSE IF e.status \in Terminal
  THEN [k \in DgAxes |-> IF e.used[k] <= e.reserved[k] THEN e.used[k] ELSE e.reserved[k]]
  ELSE None

DgBases(L, S, k) == [c \in S |-> DgBaseAt(L[c])[k]]

DgCharges(L, S, k) == [c \in S |-> BudgetUsage(L[c])[k]]

DgCap(L, run, k) == CxTotal(DgBases(L, DgOfRun(run), k), DgOfRun(run))

DgCharged(L, run, k) == CxTotal(DgCharges(L, DgOfRun(run), k), DgOfRun(run))

\* A call's usage is within the greatest.
LEMMA DgOverTyped ==
  ASSUME DgAssumption
  PROVE  /\ DgOver \in Amounts /\ \A k \in DgAxes : DgOver[k] \in Nat
         /\ DgOver["models"] = 0 /\ DgOver["tools"] = 0 /\ DgOver["tokens"] = Max(DgUsages)
         /\ Max(DgUsages) \in Nat /\ \A t \in DgUsages : t \in Nat /\ t <= Max(DgUsages)
<1>1. Max(DgUsages) \in DgUsages /\ \A t \in DgUsages : t <= Max(DgUsages)
  BY CxGreatest DEF DgAssumption
<1>2. Max(DgUsages) \in Nat /\ \A t \in DgUsages : t \in Nat BY <1>1 DEF DgAssumption
<1> QED BY <1>1, <1>2 DEF DgOver, Amounts, DgAxes

\* What a child may count on is a part of what it is charged with.
LEMMA DgBaseTyped ==
  ASSUME NEW e \in DgEntries
  PROVE  /\ DgBaseAt(e) \in [DgAxes -> Nat] /\ BudgetUsage(e) \in [DgAxes -> Nat]
         /\ \A k \in DgAxes : DgBaseAt(e)[k] <= BudgetUsage(e)[k]
<1>1. e.reserved \in [DgAxes -> Nat] /\ e.used \in [DgAxes -> Nat] BY DgAmounts DEF DgEntries
<1>2. None \in [DgAxes -> Nat] BY DEF None, DgAxes
<1>3. CASE e.status = "running" BY <1>1, <1>3 DEF DgBaseAt, BudgetUsage
<1>4. CASE e.status # "running" /\ e.status \in Terminal
 <2>1. BudgetUsage(e) = e.used BY <1>4 DEF BudgetUsage
 <2>2. DgBaseAt(e) = [k \in DgAxes |-> IF e.used[k] <= e.reserved[k] THEN e.used[k] ELSE e.reserved[k]]
   BY <1>4 DEF DgBaseAt
 <2>3. \A k \in DgAxes : e.used[k] \in Nat /\ e.reserved[k] \in Nat BY <1>1
 <2> QED BY <1>1, <2>1, <2>2, <2>3
<1>5. CASE e.status # "running" /\ e.status \notin Terminal BY <1>2, <1>5 DEF DgBaseAt, BudgetUsage
<1> QED BY <1>3, <1>4, <1>5

\* The two sums of a ledger.
LEMMA DgCapLeq ==
  ASSUME DgAssumption, NEW L \in [Children -> DgEntries], NEW run, NEW k \in DgAxes
  PROVE  /\ DgCap(L, run, k) \in Nat /\ DgCharged(L, run, k) \in Nat
         /\ DgCap(L, run, k) <= DgCharged(L, run, k)
<1>1. PICK S : S = DgOfRun(run) OBVIOUS
<1>2. S \subseteq Children /\ IsFiniteSet(S) BY <1>1, DgFinite DEF DgOfRun
<1>3. DgBases(L, S, k) \in [S -> Nat] BY <1>2, DgBaseTyped DEF DgBases
<1>4. DgCharges(L, S, k) \in [S -> Nat] BY <1>2, DgBaseTyped DEF DgCharges
<1>5. \A c \in S : DgBases(L, S, k)[c] <= DgCharges(L, S, k)[c]
  BY <1>2, DgBaseTyped DEF DgBases, DgCharges
<1> QED BY <1>1, <1>2, <1>3, <1>4, <1>5, CxTotalType, CxTotalLeq DEF DgCap, DgCharged

\* What the middleware adds up is what the ledger charges this run's children.
LEMMA DgChildUsageCharged ==
  ASSUME DgAssumption, dgLedger \in [Children -> DgEntries]
  PROVE  ChildUsage \in Amounts /\ \A k \in DgAxes : ChildUsage[k] = DgCharged(dgLedger, dgRun, k)
<1>1. PICK S : S = DgOfRun(dgRun) OBVIOUS
<1>2. S \subseteq Children /\ IsFiniteSet(S) /\ Prior \in SUBSET S
  BY <1>1, DgFinite DEF DgOfRun, Prior
<1>3. ASSUME NEW k \in DgAxes PROVE ChildUsage[k] = DgCharged(dgLedger, dgRun, k)
 <2>1. PICK F : F = [c \in Prior |-> BudgetUsage(dgLedger[c])] OBVIOUS
 <2>2. F \in [Prior -> Amounts] BY <1>2, <2>1, DgUsageTyped
 <2>3. PICK f : f = DgCharges(dgLedger, S, k) OBVIOUS
 <2>4. f \in [S -> Nat] BY <1>2, <2>3, DgBaseTyped DEF DgCharges
 <2>5. PICK g : g = DgAxis(F, Prior, k) OBVIOUS
 <2>6. g \in [Prior -> Nat] /\ \A c \in Prior : g[c] = BudgetUsage(dgLedger[c])[k]
   BY <2>1, <2>2, <2>5, DgAxisTyped
 <2>7. ASSUME NEW c \in S PROVE f[c] = IF c \in Prior THEN g[c] ELSE 0
  <3>1. f[c] = BudgetUsage(dgLedger[c])[k] BY <2>3 DEF DgCharges
  <3>2. CASE c \in Prior BY <2>6, <3>1, <3>2
  <3>3. CASE c \notin Prior
   <4>1. dgLedger[c].status = "none" BY <1>1, <3>3 DEF DgOfRun, Prior
   <4>2. BudgetUsage(dgLedger[c]) = None BY <4>1 DEF BudgetUsage, Terminal
   <4>3. None[k] = 0 BY DEF None, DgAxes
   <4> QED BY <3>1, <3>3, <4>2, <4>3
  <3> QED BY <3>2, <3>3
 <2>8. CxTotal(f, S) = CxTotal(g, Prior) BY <1>2, <2>4, <2>6, <2>7, CxTotalWithin
 <2>9. ChildUsage[k] = CxTotal(g, Prior) BY <2>1, <2>5, DgChildUsageIs
 <2> QED BY <1>1, <2>3, <2>8, <2>9 DEF DgCharged
<1> QED BY <1>3, DgChildUsageIs

\* The smaller of two numbers.
LEMMA DgMin2 ==
  ASSUME NEW a \in Nat, NEW b \in Nat
  PROVE  Min({a, b}) \in Nat /\ Min({a, b}) <= a /\ Min({a, b}) <= b
<1>1. {a, b} \in SUBSET Nat /\ {a, b} # {} OBVIOUS
<1>2. Min({a, b}) \in {a, b} /\ \A x \in {a, b} : Min({a, b}) <= x BY <1>1, CxLeast DEF Min
<1> QED BY <1>2

\* The smallest of three numbers.
LEMMA DgMin3 ==
  ASSUME NEW a \in Nat, NEW b \in Nat, NEW c \in Nat
  PROVE  /\ Min({a, b, c}) \in Nat /\ Min({a, b, c}) <= a
         /\ Min({a, b, c}) <= b /\ Min({a, b, c}) <= c
<1>1. {a, b, c} \in SUBSET Nat /\ {a, b, c} # {} OBVIOUS
<1>2. Min({a, b, c}) \in {a, b, c} /\ \A x \in {a, b, c} : Min({a, b, c}) <= x
  BY <1>1, CxLeast DEF Min
<1> QED BY <1>2

\* A share of a number is no greater than it.
LEMMA DgShareLeq ==
  ASSUME NEW n \in Nat, NEW slots \in Nat
  PROVE  Share(n, slots) \in Nat /\ Share(n, slots) <= n
<1>1. PICK m : m = Max({1, slots}) OBVIOUS
<1>2. m \in Nat /\ m >= 1
 <2>1. \E x \in {1, slots} : \A y \in {1, slots} : x >= y
  <3>1. CASE slots >= 1 BY <3>1
  <3>2. CASE ~(slots >= 1) BY <3>2
  <3> QED BY <3>1, <3>2
 <2>2. m \in {1, slots} /\ \A y \in {1, slots} : m >= y BY <1>1, <2>1 DEF Max
 <2> QED BY <2>2
<1>3. n \div m \in Nat /\ n \div m <= n BY <1>2
<1> QED BY <1>1, <1>3 DEF Share

\* A child gets a part of the rest, and two more model calls than tool calls.
LEMMA DgReserveWithin ==
  ASSUME DgAssumption, NEW type, NEW rest \in Amounts, NEW slots \in Nat,
         Reserve(type, rest, slots) # None
  PROVE  /\ Reserve(type, rest, slots) \in Amounts
         /\ Reserve(type, rest, slots).models = Reserve(type, rest, slots).tools + 2
         /\ \A k \in DgAxes : Reserve(type, rest, slots)[k] <= rest[k]
<1>1. Profile(type).steps \in Nat /\ Profile(type).tokens \in Nat
  BY DEF DgAssumption, Profile, Registered
<1>2. rest.tools \in Nat /\ rest.models \in Nat /\ rest.tokens \in Nat BY DEF Amounts
<1>3. PICK a : a = Share(rest.tools, slots) OBVIOUS
<1>4. PICK b : b = Share(rest.models, slots) OBVIOUS
<1>5. PICK c : c = Share(rest.tokens, slots) OBVIOUS
<1>6. a \in Nat /\ a <= rest.tools /\ b \in Nat /\ b <= rest.models /\ c \in Nat /\ c <= rest.tokens
  BY <1>2, <1>3, <1>4, <1>5, DgShareLeq
<1>7. PICK d : d = Minus([n |-> b], [n |-> 2]).n OBVIOUS
<1>8. d \in Nat /\ (d >= 1 => d + 2 = b) BY <1>6, <1>7 DEF Minus
<1>9. PICK steps : steps = Min({Profile(type).steps, a, d}) OBVIOUS
<1>10. steps \in Nat /\ steps <= a /\ steps <= d BY <1>1, <1>6, <1>8, <1>9, DgMin3
<1>11. PICK tokens : tokens = Min({Profile(type).tokens, c}) OBVIOUS
<1>12. tokens \in Nat /\ tokens <= c BY <1>1, <1>6, <1>11, DgMin2
<1>13. PICK r : r = Reserve(type, rest, slots) OBVIOUS
<1>14. steps >= 1 /\ r = [tokens |-> tokens, models |-> steps + 2, tools |-> steps]
  BY <1>3, <1>4, <1>5, <1>7, <1>9, <1>10, <1>11, <1>13 DEF Reserve
<1>15. r \in Amounts /\ r.models = r.tools + 2 BY <1>10, <1>12, <1>14 DEF Amounts
<1>16. r.tokens <= rest.tokens /\ r.models <= rest.models /\ r.tools <= rest.tools
  BY <1>2, <1>6, <1>8, <1>10, <1>12, <1>14
<1> QED BY <1>13, <1>15, <1>16 DEF DgAxes

\* What is left after a part was taken.
LEMMA DgLeftIs ==
  ASSUME NEW rest \in Amounts, NEW share \in Amounts, \A k \in DgAxes : share[k] <= rest[k]
  PROVE  Left(rest, share) \in Amounts /\ \A k \in DgAxes : Left(rest, share)[k] + share[k] = rest[k]
<1>1. /\ Minus(rest, share) \in Amounts
      /\ \A k \in DgAxes : Minus(rest, share)[k] = IF rest[k] > share[k] THEN rest[k] - share[k] ELSE 0
  BY DgMinus
<1>2. rest \in [DgAxes -> Nat] /\ share \in [DgAxes -> Nat] BY DgAmounts
<1>3. \A k \in DgAxes : rest[k] \in Nat /\ share[k] \in Nat BY <1>2
<1> QED BY <1>1, <1>3 DEF Left

\* The entry of a child of the run that a message may open.
DgOpens(c, old, new, run) ==
  /\ c[1] = run /\ old.status = "none" /\ new.status = "running"
  /\ new.reserved.models = new.reserved.tools + 2

\* What the calls of a message may have taken so far: entries of new children
\* only, within the rest.
DgAccs(L, rest, run) ==
  {acc \in [kept : SUBSET [child : Children, type : DgTypes], seen : SUBSET Children,
            total : Int, rest : Amounts, taken : Nat, practice : BOOLEAN,
            ledger : [Children -> DgEntries]] :
     /\ \A c \in Children :
          \/ acc.ledger[c] = L[c]
          \/ c \in acc.seen /\ DgOpens(c, L[c], acc.ledger[c], run)
     /\ \A m \in acc.kept : DgOpens(m.child, L[m.child], acc.ledger[m.child], run)
     /\ \A k \in DgAxes :
          DgCharged(acc.ledger, run, k) + acc.rest[k] <= DgCharged(L, run, k) + rest[k]}

\* A ledger charges that much more than another.
DgChargesMore(M, L, run, k, n) == DgCharged(M, run, k) = DgCharged(L, run, k) + n

\* Opening one entry charges its reservation.
LEMMA DgOpenCharges ==
  ASSUME DgAssumption, NEW L \in [Children -> DgEntries], NEW c \in Children,
         NEW e \in DgEntries, L[c].status = "none", e.status = "running",
         NEW run, c[1] = run, NEW M, M = [L EXCEPT ![c] = e], NEW k \in DgAxes
  PROVE  DgChargesMore(M, L, run, k, e.reserved[k])
<1>1. M = [L EXCEPT ![c] = e] OBVIOUS
<1>2. M \in [Children -> DgEntries] BY <1>1
<1>3. PICK S : S = DgOfRun(run) OBVIOUS
<1>4. S \subseteq Children /\ IsFiniteSet(S) /\ c \in S BY <1>3, DgFinite DEF DgOfRun
<1>5. PICK f : f = DgCharges(L, S, k) OBVIOUS
<1>6. PICK g : g = DgCharges(M, S, k) OBVIOUS
<1>7. f \in [S -> Nat] /\ g \in [S -> Nat] BY <1>2, <1>4, <1>5, <1>6, DgBaseTyped DEF DgCharges
<1>8. \A x \in S : x # c => f[x] = g[x] BY <1>1, <1>4, <1>5, <1>6 DEF DgCharges
<1>9. f[c] = 0
 <2>1. BudgetUsage(L[c]) = None BY DEF BudgetUsage, Terminal
 <2>2. None[k] = 0 BY DEF None, DgAxes
 <2> QED BY <1>4, <1>5, <2>1, <2>2 DEF DgCharges
<1>10. g[c] = e.reserved[k]
 <2>1. BudgetUsage(e) = e.reserved BY DEF BudgetUsage
 <2> QED BY <1>1, <1>4, <1>6, <2>1 DEF DgCharges
<1>11. CxTotal(f, S) + g[c] = CxTotal(g, S) + f[c] BY <1>4, <1>7, <1>8, CxTotalChange
<1>12. CxTotal(f, S) \in Nat /\ CxTotal(g, S) \in Nat BY <1>4, <1>7, CxTotalType
<1>13. DgCharged(M, run, k) = CxTotal(g, S) /\ DgCharged(L, run, k) = CxTotal(f, S)
  BY <1>3, <1>5, <1>6 DEF DgCharged
<1> QED BY <1>1, <1>7, <1>4, <1>9, <1>10, <1>11, <1>12, <1>13 DEF DgChargesMore

\* One task call takes its part of the rest, or nothing.
LEMMA DgAdmitWithin ==
  ASSUME DgAssumption, dgRun \in 1..DgMaxRuns, dgLedger \in [Children -> DgEntries],
         NEW rest \in Amounts, NEW acc \in DgAccs(dgLedger, rest, dgRun),
         NEW item \in [call : DgCalls, type : DgTypes], ChildOf(item.call) \notin Prior,
         NEW slots \in Nat
  PROVE  Admit(acc, item, slots) \in DgAccs(dgLedger, rest, dgRun)
<1>1. PICK c : c = ChildOf(item.call) OBVIOUS
<1>2. c \in Children /\ c[1] = dgRun /\ c \notin Prior BY <1>1 DEF ChildOf, Children
<1>3. dgLedger[c].status = "none" BY <1>2 DEF Prior
<1>4. /\ acc.kept \in SUBSET [child : Children, type : DgTypes] /\ acc.seen \in SUBSET Children
      /\ acc.total \in Int /\ acc.rest \in Amounts /\ acc.taken \in Nat
      /\ acc.practice \in BOOLEAN /\ acc.ledger \in [Children -> DgEntries] BY DEF DgAccs
<1>5. /\ \A x \in Children :
           \/ acc.ledger[x] = dgLedger[x]
           \/ x \in acc.seen /\ DgOpens(x, dgLedger[x], acc.ledger[x], dgRun)
      /\ \A m \in acc.kept : DgOpens(m.child, dgLedger[m.child], acc.ledger[m.child], dgRun)
      /\ \A k \in DgAxes :
           DgCharged(acc.ledger, dgRun, k) + acc.rest[k] <= DgCharged(dgLedger, dgRun, k) + rest[k]
  BY DEF DgAccs
<1>6. PICK left : left = Minus([n |-> slots], [n |-> acc.taken]).n OBVIOUS
<1>7. left \in Nat BY <1>4, <1>6 DEF Minus
<1>8. PICK share : share = Reserve(item.type, acc.rest, left) OBVIOUS
<1>9. PICK entry : entry = [status |-> "running", type |-> item.type, reserved |-> share,
                            used |-> None, evidence |-> FALSE] OBVIOUS
<1>10. PICK new : new = Admit(acc, item, slots) OBVIOUS
<1>11. \/ new = acc
       \/ /\ share = None /\ c \notin acc.seen
          /\ new = [kept |-> acc.kept, seen |-> acc.seen \cup {c}, total |-> acc.total,
                    rest |-> acc.rest, taken |-> acc.taken + 1,
                    practice |-> acc.practice \/ item.type = "practice", ledger |-> acc.ledger]
       \/ /\ share # None /\ c \notin acc.seen
          /\ new = [kept |-> acc.kept \cup {[child |-> c, type |-> item.type]},
                    seen |-> acc.seen \cup {c}, total |-> acc.total - 1,
                    rest |-> Left(acc.rest, share), taken |-> acc.taken + 1,
                    practice |-> acc.practice \/ item.type = "practice",
                    ledger |-> [acc.ledger EXCEPT ![c] = entry]]
  BY <1>1, <1>2, <1>6, <1>8, <1>9, <1>10 DEF Admit
<1>12. CASE new = acc BY <1>10, <1>12
<1>13. CASE /\ share = None /\ c \notin acc.seen
            /\ new = [kept |-> acc.kept, seen |-> acc.seen \cup {c}, total |-> acc.total,
                      rest |-> acc.rest, taken |-> acc.taken + 1,
                      practice |-> acc.practice \/ item.type = "practice", ledger |-> acc.ledger]
 <2>1. /\ new.kept = acc.kept /\ new.seen = acc.seen \cup {c} /\ new.rest = acc.rest
       /\ new.ledger = acc.ledger BY <1>13
 <2>2. new \in [kept : SUBSET [child : Children, type : DgTypes], seen : SUBSET Children,
                total : Int, rest : Amounts, taken : Nat, practice : BOOLEAN,
                ledger : [Children -> DgEntries]] BY <1>2, <1>4, <1>13
 <2> QED BY <1>5, <1>10, <2>1, <2>2 DEF DgAccs
<1>14. CASE /\ share # None /\ c \notin acc.seen
            /\ new = [kept |-> acc.kept \cup {[child |-> c, type |-> item.type]},
                      seen |-> acc.seen \cup {c}, total |-> acc.total - 1,
                      rest |-> Left(acc.rest, share), taken |-> acc.taken + 1,
                      practice |-> acc.practice \/ item.type = "practice",
                      ledger |-> [acc.ledger EXCEPT ![c] = entry]]
 <2>1. share \in Amounts /\ share.models = share.tools + 2 /\ \A k \in DgAxes : share[k] <= acc.rest[k]
   BY <1>4, <1>7, <1>8, <1>14, DgReserveWithin
 <2>2. Left(acc.rest, share) \in Amounts
       /\ \A k \in DgAxes : Left(acc.rest, share)[k] + share[k] = acc.rest[k]
   BY <1>4, <2>1, DgLeftIs
 <2>3. None \in Amounts BY DEF None, Amounts
 <2>4. entry \in DgEntries /\ entry.status = "running" /\ entry.reserved = share
   BY <1>9, <2>1, <2>3 DEF DgEntries
 <2>5. PICK M : M = [acc.ledger EXCEPT ![c] = entry] OBVIOUS
 <2>6. M \in [Children -> DgEntries] /\ M[c] = entry /\ \A x \in Children : x # c => M[x] = acc.ledger[x]
   BY <1>2, <1>4, <2>4, <2>5
 <2>7. /\ new.kept = acc.kept \cup {[child |-> c, type |-> item.type]}
       /\ new.seen = acc.seen \cup {c} /\ new.rest = Left(acc.rest, share) /\ new.ledger = M
   BY <1>14, <2>5
 <2>8. new \in [kept : SUBSET [child : Children, type : DgTypes], seen : SUBSET Children,
                total : Int, rest : Amounts, taken : Nat, practice : BOOLEAN,
                ledger : [Children -> DgEntries]]
  <3>1. new = [kept |-> acc.kept \cup {[child |-> c, type |-> item.type]},
               seen |-> acc.seen \cup {c}, total |-> acc.total - 1,
               rest |-> Left(acc.rest, share), taken |-> acc.taken + 1,
               practice |-> acc.practice \/ item.type = "practice", ledger |-> M] BY <1>14, <2>5
  <3>2. acc.kept \cup {[child |-> c, type |-> item.type]} \in SUBSET [child : Children, type : DgTypes]
    BY <1>2, <1>4
  <3> QED BY <1>2, <1>4, <2>2, <2>6, <3>1, <3>2
 <2>9. DgOpens(c, dgLedger[c], entry, dgRun) BY <1>2, <1>3, <2>1, <2>4 DEF DgOpens
 <2>10. acc.ledger[c] = dgLedger[c] BY <1>2, <1>5, <1>14
 <2>11. ASSUME NEW x \in Children
        PROVE  \/ M[x] = dgLedger[x]
               \/ x \in acc.seen \cup {c} /\ DgOpens(x, dgLedger[x], M[x], dgRun)
  <3>1. CASE x = c BY <2>6, <2>9, <3>1
  <3>2. CASE x # c BY <1>5, <2>6, <3>2
  <3> QED BY <3>1, <3>2
 <2>12. ASSUME NEW m \in acc.kept \cup {[child |-> c, type |-> item.type]}
        PROVE  DgOpens(m.child, dgLedger[m.child], M[m.child], dgRun)
  <3>1. CASE m.child = c BY <2>6, <2>9, <3>1
  <3>2. CASE m.child # c
   <4>1. m \in acc.kept /\ m.child \in Children BY <1>4, <3>2
   <4> QED BY <1>5, <2>6, <3>2, <4>1
  <3> QED BY <3>1, <3>2
 <2>13. ASSUME NEW k \in DgAxes
        PROVE  DgCharged(M, dgRun, k) + Left(acc.rest, share)[k] <= DgCharged(dgLedger, dgRun, k) + rest[k]
  <3>1. DgCharged(M, dgRun, k) = DgCharged(acc.ledger, dgRun, k) + share[k]
   <4>1. acc.ledger[c].status = "none" BY <1>3, <2>10
   <4>2. PICK L : L = acc.ledger OBVIOUS
   <4>3. L \in [Children -> DgEntries] /\ L[c].status = "none" /\ M = [L EXCEPT ![c] = entry]
     BY <1>4, <2>5, <4>1, <4>2
   <4>4. c \in Children /\ entry \in DgEntries /\ entry.status = "running" BY <1>2, <2>4
   <4>6. PICK run : run = dgRun OBVIOUS
   <4>7. c[1] = run BY <1>2, <4>6
   <4>8. DgCharged(M, run, k) = DgCharged(L, run, k) + entry.reserved[k]
    <5>1. DgChargesMore(M, L, run, k, entry.reserved[k]) BY <4>3, <4>4, <4>7, DgOpenCharges
    <5> QED BY <5>1 DEF DgChargesMore
   <4> QED BY <2>4, <4>2, <4>6, <4>8
  <3>2. Left(acc.rest, share)[k] + share[k] = acc.rest[k] BY <2>2
  <3>3. DgCharged(acc.ledger, dgRun, k) + acc.rest[k] <= DgCharged(dgLedger, dgRun, k) + rest[k]
    BY <1>5
  <3>4. /\ share[k] \in Nat /\ Left(acc.rest, share)[k] \in Nat /\ acc.rest[k] \in Nat /\ rest[k] \in Nat
    BY <1>4, <2>1, <2>2, DgAmounts
  <3>5. DgCharged(acc.ledger, dgRun, k) \in Nat /\ DgCharged(dgLedger, dgRun, k) \in Nat
    BY <1>4, DgCapLeq
  <3> QED BY <3>1, <3>2, <3>3, <3>4, <3>5
 <2> QED BY <1>10, <2>7, <2>8, <2>11, <2>12, <2>13 DEF DgAccs
<1> QED BY <1>11, <1>12, <1>13, <1>14

\* The elements of a sequence.
LEMMA CxElement ==
  ASSUME NEW X, NEW s \in Seq(X), NEW i \in DOMAIN s
  PROVE  s[i] \in X
<1>1. i \in 1..Len(s) OBVIOUS
<1> QED BY <1>1

\* The calls of a message.
LEMMA DgItems ==
  ASSUME NEW batch \in Seq([call : DgCalls, type : DgTypes]), NEW i \in DOMAIN batch
  PROVE  batch[i] \in [call : DgCalls, type : DgTypes] /\ batch[i].call \in DgCalls
<1>1. PICK X : X = [call : DgCalls, type : DgTypes] OBVIOUS
<1>2. batch \in Seq(X) /\ i \in DOMAIN batch BY <1>1
<1>3. batch[i] \in X BY <1>2, CxElement
<1> QED BY <1>1, <1>3

\* A quotient of natural numbers is one.
LEMMA DgQuotient ==
  ASSUME NEW a \in Nat, NEW m \in Nat \ {0}
  PROVE  a \div m \in Nat OBVIOUS

\* All the calls of a message together take no more than the rest.
LEMMA DgAfterModelWithin ==
  ASSUME DgAssumption, dgRun \in 1..DgMaxRuns, dgLedger \in [Children -> DgEntries],
         NEW used, Remaining(used) \in Amounts,
         NEW batch \in Seq([call : DgCalls, type : DgTypes]),
         \A i \in DOMAIN batch : ChildOf(batch[i].call) \notin Prior
  PROVE  AfterModel(batch, used) \in DgAccs(dgLedger, Remaining(used), dgRun)
<1>1. PICK total : total = Minus([n |-> DgTotal], [n |-> Cardinality(Prior)]).n OBVIOUS
<1>2. total \in Nat
 <2>1. Cardinality(Prior) \in Nat /\ DgTotal \in Nat
   BY DgFinite, FS_CardinalityType DEF DgAssumption
 <2> QED BY <1>1, <2>1 DEF Minus
<1>3. PICK rest \in Amounts : rest = Remaining(used) OBVIOUS
<1>4. PICK slots : slots = Slots(batch, rest, total) OBVIOUS
<1>5. slots \in Nat
 <2>1. PICK fresh : fresh = {c \in {ChildOf(batch[i].call) : i \in DOMAIN batch} :
                               c \notin Prior \/ NeedsReservation(dgLedger[c])} OBVIOUS
 <2>2. fresh \subseteq Children
  <3>1. ASSUME NEW i \in DOMAIN batch PROVE ChildOf(batch[i].call) \in Children
   <4>1. batch[i].call \in DgCalls BY DgItems
   <4> QED BY <4>1 DEF ChildOf, Children
  <3> QED BY <2>1, <3>1
 <2>3. Cardinality(fresh) \in Nat BY <2>2, DgFinite, FS_Subset, FS_CardinalityType
 <2>4. rest.tokens \in Nat /\ rest.models \in Nat /\ rest.tools \in Nat BY DEF Amounts
 <2>5. DgMinReserve \in Nat \ {0} /\ DgConcurrent \in Nat BY DEF DgAssumption
 <2>6. rest.tokens \div DgMinReserve \in Nat /\ rest.models \div 3 \in Nat
  <3>1. PICK a \in Nat : a = rest.tokens BY <2>4
  <3>2. PICK m \in Nat \ {0} : m = DgMinReserve BY <2>5
  <3>3. a \div m \in Nat BY DgQuotient
  <3> QED BY <2>4, <3>1, <3>2, <3>3
 <2>7. PICK T : T = {DgConcurrent, total, Cardinality(fresh), rest.tokens \div DgMinReserve,
                     rest.models \div 3, rest.tools} OBVIOUS
 <2>8. T \in SUBSET Nat /\ T # {} BY <1>2, <2>3, <2>4, <2>5, <2>6, <2>7
 <2>9. Min(T) \in T BY <2>8, CxLeast DEF Min
 <2>10. slots = Min(T) BY <1>4, <2>1, <2>7 DEF Slots
 <2> QED BY <2>8, <2>9, <2>10
<1>a. \A i \in DOMAIN batch : batch[i] \in [call : DgCalls, type : DgTypes]
                               /\ ChildOf(batch[i].call) \notin Prior BY DgItems
<1>6. PICK b : b = [kept |-> {}, seen |-> {}, total |-> total, rest |-> rest, taken |-> 0,
                    practice |-> FALSE, ledger |-> dgLedger] OBVIOUS
<1> DEFINE n == Len(batch)
           C == DgAccs(dgLedger, rest, dgRun)
           Rec(h) == [S \in SUBSET (1..n) |->
                        IF S = {} THEN b ELSE Admit(h[S \ {Max(S)}], batch[Max(S)], slots)]
<1>7. b \in C
 <2>1. b \in [kept : SUBSET [child : Children, type : DgTypes], seen : SUBSET Children,
              total : Int, rest : Amounts, taken : Nat, practice : BOOLEAN,
              ledger : [Children -> DgEntries]] BY <1>2, <1>6
 <2>2. b.kept = {} /\ b.ledger = dgLedger /\ b.rest = rest BY <1>6
 <2>3. \A k \in DgAxes : DgCharged(dgLedger, dgRun, k) \in Nat /\ rest[k] \in Nat
   BY DgCapLeq, DgAmounts
 <2>4. \A k \in DgAxes :
         DgCharged(b.ledger, dgRun, k) + b.rest[k] <= DgCharged(dgLedger, dgRun, k) + rest[k]
   BY <2>2, <2>3
 <2> QED BY <2>1, <2>2, <2>4 DEF DgAccs
<1>8. n \in Nat /\ DOMAIN batch = 1..n OBVIOUS
<1>9. PICK G : G = [p \in C \X (1..n) |-> Admit(p[1], batch[p[2]], slots)] OBVIOUS
<1>10. G \in [C \X (1..n) -> C]
 <2>1. ASSUME NEW q \in C, NEW i \in 1..n PROVE Admit(q, batch[i], slots) \in C
  <3>1. batch[i] \in [call : DgCalls, type : DgTypes] /\ ChildOf(batch[i].call) \notin Prior
    BY <1>8, <1>a
  <3> QED BY <1>5, <3>1, DgAdmitWithin
 <2> HIDE DEF C, n
 <2> QED BY <1>9, <2>1
<1>11. PICK g : g = (CHOOSE x : x = Rec(x)) OBVIOUS
<1>12. AfterModel(batch, used) = g[1..n]
  BY <1>1, <1>3, <1>4, <1>6, <1>8, <1>11 DEF AfterModel, FoldLeft, MapThenFoldSet
<1> HIDE DEF C, n
<1>13. PICK h \in [SUBSET (1..n) -> C] : CxFolds(h, n, b, G) BY <1>7, <1>8, <1>10, CxFoldExists
<1>14. h = Rec(h)
 <2>1. ASSUME NEW S \in SUBSET (1..n), S # {}
       PROVE  G[<<h[S \ {Max(S)}], Max(S)>>] = Admit(h[S \ {Max(S)}], batch[Max(S)], slots)
   BY <1>8, <1>9, <1>13, <2>1, CxMax
 <2> QED BY <1>13, <2>1 DEF CxFolds
<1>15. g = Rec(g) BY <1>11, <1>14
<1>16. CxRecurs(g, n, C, b, G)
 <2>1. ASSUME NEW k \in 1..n, g[1..(k - 1)] \in C PROVE g[1..k] = G[<<g[1..(k - 1)], k>>]
  <3>1. 1..k \in SUBSET (1..n) /\ k \in Nat /\ k >= 1 BY <1>8
  <3>2. g[1..k] = Admit(g[1..(k - 1)], batch[k], slots) BY <1>15, <3>1, CxFoldPrefix
  <3> QED BY <1>9, <2>1, <3>2
 <2>2. g[{}] = b BY <1>15
 <2> QED BY <2>1, <2>2 DEF CxRecurs
<1>17. PICK r : CxRuns(r, n, C, b, G, g[1..n]) BY <1>7, <1>8, <1>10, <1>16, CxFoldRuns
<1>18. n \in 0..n BY <1>8
<1> QED BY <1>3, <1>12, <1>17, <1>18 DEF CxRuns, C

--------------------
(* Delegation: the life of a child. *)

\* What the ledger, the task tool and the run store say of a child.
DgChildOk(c, e, t, x, run, at, faults, held) ==
  /\ e.status = "running" => e.reserved.models = e.reserved.tools + 2
  /\ e.status = "none" => x = NoChild
  /\ c[1] > run => e.status = "none"
  /\ t.at # "none" => at = "tools" /\ c[1] = run /\ e.status = "running"
  /\ t.at = "starting" => x = NoChild
  /\ t.at \in {"starting", "running"} => t.result = "none" /\ ~t.evidence
  /\ x.at = "running" => t.at = "running"
  /\ faults = 0 =>
       /\ x.at = "ended" => x.terminal # "none"
       /\ c[1] = run /\ e.status # "none" => DgUpto(x.used, DgBaseAt(e))
       /\ t.at \in {"returned", "done"} /\ t.result # "none" => DgUpto(x.used, t.used)
  /\ e.status = "succeeded" => x.terminal = "succeeded"
  /\ t.at \in {"returned", "done"} =>
       /\ t.result = "succeeded" => x.terminal = "succeeded"
       /\ t.evidence => x.evidence
  /\ held => x.evidence /\ e.status \in Terminal

\* What the parent used, and what its children may count on, fit the limits.
\* (The run the thread begins with was cut off by a crash and never goes on.)
DgFits(L, run, used) ==
  run # 1 => \A k \in DgAxes : used[k] + DgCap(L, run, k) <= DgLimit[k] + DgOver[k]

DgTyped ==
  /\ dgRun \in 1..DgMaxRuns /\ dgAt \in {"idle", "model", "tools"} /\ dgUsed \in Amounts
  /\ dgLedger \in [Children -> DgEntries]
  /\ dgTask \in [Children -> DgTaskSet]
  /\ dgChild \in [Children -> DgChildSet]
  /\ dgEvidence \subseteq Children /\ dgStop \in BOOLEAN /\ dgCrashed \in BOOLEAN
  /\ dgFaults \in 0..DgMaxFaults

DgFirst ==
  dgRun = 1 => /\ dgAt = "idle" /\ dgUsed = None
               /\ \A c \in Children : dgChild[c].used = None

DgChildrenOk ==
  \A c \in Children : DgChildOk(c, dgLedger[c], dgTask[c], dgChild[c], dgRun, dgAt,
                                dgFaults, c \in dgEvidence)

DgInv == DgTyped /\ DgFirst /\ DgChildrenOk /\ DgFits(dgLedger, dgRun, dgUsed)

\* The values a child begins with.
LEMMA DgValues ==
  /\ None \in Amounts /\ (\A k \in DgAxes : None[k] = 0)
  /\ NoTask \in DgTaskSet /\ NoChild \in DgChildSet /\ DgNoEntry \in DgEntries
  /\ NoTask.at = "none" /\ NoChild.used = None /\ DgNoEntry.status = "none"
  /\ NoChild.at = "none" /\ NoChild.terminal = "none" /\ NoChild.evidence = FALSE
<1>1. None \in Amounts /\ \A k \in DgAxes : None[k] = 0 BY DEF None, Amounts, DgAxes
<1>2. NoTask \in DgTaskSet /\ NoTask.at = "none" BY <1>1 DEF NoTask, DgTaskSet
<1>3. /\ NoChild \in DgChildSet /\ NoChild.used = None /\ NoChild.at = "none"
      /\ NoChild.terminal = "none" /\ NoChild.evidence = FALSE BY <1>1 DEF NoChild, DgChildSet
<1>4. DgNoEntry \in DgEntries /\ DgNoEntry.status = "none" BY <1>1 DEF DgNoEntry, DgEntries
<1> QED BY <1>1, <1>2, <1>3, <1>4

\* What has used nothing is within everything.
LEMMA DgUptoNone ==
  ASSUME DgAssumption, NEW b \in Amounts
  PROVE  DgUpto(None, b)
<1>1. b \in [DgAxes -> Nat] BY DgAmounts
<1>2. \A k \in DgAxes : None[k] = 0 /\ b[k] \in Nat /\ DgOver[k] \in Nat
  BY <1>1, DgValues, DgOverTyped
<1> QED BY <1>2 DEF DgUpto

\* A step of one child, in a run that has begun.
LEMMA DgChildMoves ==
  ASSUME DgInv, NEW c \in Children, NEW t \in DgTaskSet, NEW x \in DgChildSet,
         NEW faults \in 0..DgMaxFaults, faults = dgFaults \/ faults > 0,
         dgTask[c].at # "none",
         dgTask' = [dgTask EXCEPT ![c] = t], dgChild' = [dgChild EXCEPT ![c] = x],
         dgFaults' = faults,
         UNCHANGED <<dgRun, dgAt, dgUsed, dgLedger, dgEvidence, dgStop, dgCrashed>>,
         DgChildOk(c, dgLedger[c], t, x, dgRun, dgAt, faults, c \in dgEvidence)
  PROVE  DgInv'
<1>1. /\ dgTask \in [Children -> DgTaskSet] /\ dgChild \in [Children -> DgChildSet]
      /\ dgRun' = dgRun /\ dgAt' = dgAt /\ dgUsed' = dgUsed /\ dgLedger' = dgLedger
      /\ dgEvidence' = dgEvidence BY DEF DgInv, DgTyped
<1>2. dgAt = "tools" BY DEF DgInv, DgChildrenOk, DgChildOk
<1>3. dgRun # 1 BY <1>2 DEF DgInv, DgFirst
<1>4. DgTyped' BY <1>1 DEF DgInv, DgTyped
<1>5. DgFirst' BY <1>1, <1>3 DEF DgFirst
<1>6. DgChildrenOk'
 <2>1. ASSUME NEW d \in Children
       PROVE  DgChildOk(d, dgLedger'[d], dgTask'[d], dgChild'[d], dgRun', dgAt', dgFaults',
                        d \in dgEvidence')
  <3>1. CASE d = c
   <4>1. dgTask'[d] = t /\ dgChild'[d] = x BY <1>1, <3>1
   <4> QED BY <1>1, <3>1, <4>1
  <3>2. CASE d # c
   <4>1. dgTask'[d] = dgTask[d] /\ dgChild'[d] = dgChild[d] BY <1>1, <3>2
   <4>2. DgChildOk(d, dgLedger[d], dgTask[d], dgChild[d], dgRun, dgAt, dgFaults, d \in dgEvidence)
     BY DEF DgInv, DgChildrenOk
   <4>3. DgChildOk(d, dgLedger[d], dgTask[d], dgChild[d], dgRun, dgAt, faults, d \in dgEvidence)
    <5>1. CASE faults = dgFaults BY <4>2, <5>1
    <5>2. CASE faults > 0
     <6>1. faults # 0 BY <5>2
     <6> QED BY <4>2, <6>1 DEF DgChildOk
    <5> QED BY <5>1, <5>2
   <4> QED BY <1>1, <4>1, <4>3
  <3> QED BY <3>1, <3>2
 <2> QED BY <2>1 DEF DgChildrenOk
<1>7. DgFits(dgLedger, dgRun, dgUsed)'
 <2>1. DgFits(dgLedger, dgRun, dgUsed) BY DEF DgInv
 <2> QED BY <1>1, <2>1 DEF DgFits, DgCap, DgBases, DgOfRun
<1> QED BY <1>4, <1>5, <1>6, <1>7 DEF DgInv

\* A child whose task runs counts on its reservation, and holds no evidence yet.
LEMMA DgOpenChild ==
  ASSUME DgAssumption, DgInv, NEW c \in Children, dgTask[c].at # "none"
  PROVE  /\ dgLedger[c] \in DgEntries /\ dgTask[c] \in DgTaskSet /\ dgChild[c] \in DgChildSet
         /\ dgLedger[c].status = "running" /\ c[1] = dgRun /\ dgAt = "tools" /\ c \notin dgEvidence
         /\ Granted(c) \in Amounts /\ Granted(c).models = Granted(c).tools + 2
         /\ Granted(c) = dgLedger[c].reserved /\ DgBaseAt(dgLedger[c]) = Granted(c)
         /\ dgFaults = 0 => DgUpto(dgChild[c].used, Granted(c))
         /\ dgFaults \in 0..DgMaxFaults
<1>1. /\ dgLedger[c] \in DgEntries /\ dgTask[c] \in DgTaskSet /\ dgChild[c] \in DgChildSet
      /\ dgFaults \in 0..DgMaxFaults BY DEF DgInv, DgTyped
<1>2. DgChildOk(c, dgLedger[c], dgTask[c], dgChild[c], dgRun, dgAt, dgFaults, c \in dgEvidence)
  BY DEF DgInv, DgChildrenOk
<1>3. dgLedger[c].status = "running" /\ c[1] = dgRun /\ dgAt = "tools" BY <1>2 DEF DgChildOk
<1>4. c \notin dgEvidence BY <1>2, <1>3 DEF DgChildOk, Terminal
<1>5. Granted(c) = dgLedger[c].reserved /\ DgBaseAt(dgLedger[c]) = Granted(c)
  BY <1>3 DEF Granted, DgBaseAt
<1>6. Granted(c) \in Amounts /\ Granted(c).models = Granted(c).tools + 2
  BY <1>1, <1>2, <1>3, <1>5 DEF DgChildOk, DgEntries
<1>7. dgFaults = 0 => DgUpto(dgChild[c].used, Granted(c)) BY <1>2, <1>3, <1>5 DEF DgChildOk
<1> QED BY <1>1, <1>3, <1>4, <1>5, <1>6, <1>7

\* What a child may be while its task runs.
DgTaskOk(t, x, faults, share) ==
  /\ t.at = "starting" => x = NoChild
  /\ t.at \in {"starting", "running"} => t.result = "none" /\ ~t.evidence
  /\ x.at = "running" => t.at = "running"
  /\ faults = 0 =>
       /\ x.at = "ended" => x.terminal # "none"
       /\ DgUpto(x.used, share)
       /\ t.at \in {"returned", "done"} /\ t.result # "none" => DgUpto(x.used, t.used)
  /\ t.at \in {"returned", "done"} =>
       /\ t.result = "succeeded" => x.terminal = "succeeded"
       /\ t.evidence => x.evidence

\* Such a child keeps the invariant.
LEMMA DgStaysOk ==
  ASSUME NEW c \in Children, NEW e \in DgEntries, NEW t, NEW x, NEW run, NEW faults,
         e.status = "running", c[1] = run, e.reserved.models = e.reserved.tools + 2,
         DgTaskOk(t, x, faults, e.reserved),
         NEW held, ~held, run \in Nat
  PROVE  DgChildOk(c, e, t, x, run, "tools", faults, held)
<1>1. DgBaseAt(e) = e.reserved BY DEF DgBaseAt
<1>2. faults = 0 => (c[1] = run /\ e.status # "none" => DgUpto(x.used, DgBaseAt(e)))
  BY <1>1 DEF DgTaskOk
<1>3. ~(c[1] > run) OBVIOUS
<1>4. e.status # "none" /\ e.status # "succeeded" OBVIOUS
<1> QED BY <1>2, <1>3, <1>4 DEF DgChildOk, DgTaskOk

\* A step of a child whose task runs.
LEMMA DgChildGoesOn ==
  ASSUME DgAssumption, DgInv, NEW c \in Children, NEW t \in DgTaskSet, NEW x \in DgChildSet,
         NEW faults \in 0..DgMaxFaults, faults = dgFaults \/ faults > 0,
         dgTask[c].at # "none",
         dgTask' = [dgTask EXCEPT ![c] = t], dgChild' = [dgChild EXCEPT ![c] = x],
         dgFaults' = faults,
         UNCHANGED <<dgRun, dgAt, dgUsed, dgLedger, dgEvidence, dgStop, dgCrashed>>,
         DgTaskOk(t, x, faults, Granted(c))
  PROVE  DgInv'
<1>1. /\ dgLedger[c] \in DgEntries /\ dgLedger[c].status = "running" /\ c[1] = dgRun
      /\ dgAt = "tools" /\ c \notin dgEvidence /\ Granted(c) = dgLedger[c].reserved
      /\ Granted(c).models = Granted(c).tools + 2 BY DgOpenChild
<1>2. PICK e \in DgEntries : e = dgLedger[c] BY <1>1
<1>3. PICK run : run = dgRun OBVIOUS
<1>4. run \in Nat BY <1>3 DEF DgInv, DgTyped
<1>5. PICK held : held = (c \in dgEvidence) OBVIOUS
<1>6. DgChildOk(c, e, t, x, run, "tools", faults, held) BY <1>1, <1>2, <1>3, <1>4, <1>5, DgStaysOk
<1>7. DgChildOk(c, dgLedger[c], t, x, dgRun, dgAt, faults, c \in dgEvidence)
  BY <1>1, <1>2, <1>3, <1>5, <1>6
<1> QED BY <1>7, DgChildMoves

\* What the invariant says of a child whose task runs.
LEMMA DgWasOk ==
  ASSUME DgAssumption, DgInv, NEW c \in Children, dgTask[c].at # "none"
  PROVE  DgTaskOk(dgTask[c], dgChild[c], dgFaults, Granted(c))
<1>1. DgChildOk(c, dgLedger[c], dgTask[c], dgChild[c], dgRun, dgAt, dgFaults, c \in dgEvidence)
  BY DEF DgInv, DgChildrenOk
<1>2. dgFaults = 0 => DgUpto(dgChild[c].used, Granted(c)) BY DgOpenChild
<1> QED BY <1>1, <1>2 DEF DgChildOk, DgTaskOk

\* A blank prompt ends the task without a result.
LEMMA DgBlankPromptKeeps ==
  ASSUME DgAssumption, DgInv, NEW c \in Children, DgBlankPrompt(c)
  PROVE  DgInv'
<1>1. /\ dgTask[c].at = "starting" /\ dgTask' = [dgTask EXCEPT ![c].at = "done"]
      /\ dgChild' = dgChild /\ dgFaults' = dgFaults
      /\ UNCHANGED <<dgRun, dgAt, dgUsed, dgLedger, dgEvidence, dgStop, dgCrashed>>
  BY DEF DgBlankPrompt
<1>2. /\ dgTask[c] \in DgTaskSet /\ dgChild[c] \in DgChildSet /\ dgFaults \in 0..DgMaxFaults
      /\ dgFaults = 0 => DgUpto(dgChild[c].used, Granted(c)) BY <1>1, DgOpenChild
<1>3. PICK t : t = [dgTask[c] EXCEPT !.at = "done"] OBVIOUS
<1>4. t \in DgTaskSet /\ t.at = "done" /\ t.result = dgTask[c].result /\ t.evidence = dgTask[c].evidence
  BY <1>2, <1>3 DEF DgTaskSet
<1>5. PICK x : x = dgChild[c] OBVIOUS
<1>6. x = NoChild /\ t.result = "none" /\ ~t.evidence BY <1>1, <1>4, <1>5, DgWasOk DEF DgTaskOk
<1>7. dgTask' = [dgTask EXCEPT ![c] = t] BY <1>1, <1>3
<1>8. dgChild' = [dgChild EXCEPT ![c] = x] BY <1>1, <1>5 DEF DgInv, DgTyped
<1>9. PICK faults : faults = dgFaults OBVIOUS
<1>10. /\ x \in DgChildSet /\ faults \in 0..DgMaxFaults
       /\ faults = 0 => DgUpto(x.used, Granted(c)) BY <1>2, <1>5, <1>9
<1>11. x.at # "running" /\ x.at # "ended" BY <1>6, DgValues
<1>12. DgTaskOk(t, x, faults, Granted(c)) BY <1>4, <1>6, <1>10, <1>11 DEF DgTaskOk
<1> QED BY <1>1, <1>4, <1>7, <1>8, <1>9, <1>10, <1>12, DgChildGoesOn

\* A child starts, is answered from the run store, or is refused.
LEMMA DgStartKeeps ==
  ASSUME DgAssumption, DgInv, NEW c \in Children, DgStart(c)
  PROVE  DgInv'
<1>1. /\ dgTask[c].at = "starting" /\ dgFaults' = dgFaults
      /\ UNCHANGED <<dgRun, dgAt, dgUsed, dgLedger, dgEvidence, dgStop, dgCrashed>> BY DEF DgStart
<1>2. /\ dgTask[c] \in DgTaskSet /\ dgChild[c] \in DgChildSet /\ dgFaults \in 0..DgMaxFaults
      /\ Granted(c) \in Amounts BY <1>1, DgOpenChild
<1>3. dgChild[c] = NoChild /\ dgTask[c].result = "none" /\ ~dgTask[c].evidence
  BY <1>1, DgWasOk DEF DgTaskOk
<1>4. ~Cached(c) BY <1>3, DgValues DEF Cached
<1>5. PICK faults : faults = dgFaults OBVIOUS
<1>6. DgUpto(None, Granted(c)) BY <1>2, DgUptoNone
<1>7. CASE Result(c, "failed", None, FALSE) /\ dgChild' = dgChild
 <2>1. PICK t : t = [at |-> "done", type |-> dgTask[c].type, result |-> "failed",
                     used |-> None, evidence |-> FALSE] OBVIOUS
 <2>2. t \in DgTaskSet /\ t.at = "done" /\ t.used = None /\ t.result = "failed" /\ t.evidence = FALSE
   BY <1>2, <2>1, DgValues DEF DgTaskSet, Terminal
 <2>3. dgTask' = [dgTask EXCEPT ![c] = t] BY <1>7, <2>1 DEF Result
 <2>4. PICK x : x = dgChild[c] OBVIOUS
 <2>5. dgChild' = [dgChild EXCEPT ![c] = x] BY <1>7, <2>4 DEF DgInv, DgTyped
 <2>6. x = NoChild /\ x \in DgChildSet /\ x.used = None /\ x.at # "running" /\ x.at # "ended"
   BY <1>2, <1>3, <2>4, DgValues
 <2>7. DgUpto(None, None) BY DgUptoNone, DgValues
 <2>8. DgTaskOk(t, x, faults, Granted(c)) BY <1>6, <2>2, <2>6, <2>7 DEF DgTaskOk
 <2> QED BY <1>1, <1>2, <1>5, <2>2, <2>3, <2>5, <2>6, <2>8, DgChildGoesOn
<1>8. CASE /\ dgTask' = [dgTask EXCEPT ![c].at = "running"]
           /\ dgChild' = [dgChild EXCEPT ![c].at = "running"]
 <2>1. PICK t : t = [dgTask[c] EXCEPT !.at = "running"] OBVIOUS
 <2>2. t \in DgTaskSet /\ t.at = "running" /\ t.result = "none" /\ ~t.evidence
   BY <1>2, <1>3, <2>1 DEF DgTaskSet
 <2>3. PICK x : x = [dgChild[c] EXCEPT !.at = "running"] OBVIOUS
 <2>4. x \in DgChildSet /\ x.at = "running" /\ x.used = None
   BY <1>2, <1>3, <2>3, DgValues DEF DgChildSet
 <2>5. dgTask' = [dgTask EXCEPT ![c] = t] /\ dgChild' = [dgChild EXCEPT ![c] = x]
   BY <1>8, <2>1, <2>3
 <2>6. DgTaskOk(t, x, faults, Granted(c)) BY <1>6, <2>2, <2>4 DEF DgTaskOk
 <2> QED BY <1>1, <1>2, <1>5, <2>2, <2>4, <2>5, <2>6, DgChildGoesOn
<1> QED BY <1>4, <1>7, <1>8 DEF DgStart

\* The executor records a terminal, and the task tool has its answer.
LEMMA DgEndedKeeps ==
  ASSUME DgAssumption, DgInv, NEW c \in Children, Running(c), NEW status \in Terminal,
         NEW used \in Amounts, NEW evidence \in BOOLEAN,
         Ended(c, status, used, evidence), dgFaults = 0 => DgUpto(used, Granted(c)),
         UNCHANGED <<dgRun, dgAt, dgUsed, dgLedger, dgEvidence, dgStop, dgCrashed, dgFaults>>
  PROVE  DgInv'
<1>1. /\ dgTask[c].at = "running" /\ dgFaults' = dgFaults
      /\ UNCHANGED <<dgRun, dgAt, dgUsed, dgLedger, dgEvidence, dgStop, dgCrashed>> BY DEF Running
<1>2. /\ dgTask[c] \in DgTaskSet /\ dgChild[c] \in DgChildSet /\ dgFaults \in 0..DgMaxFaults
      /\ Granted(c) \in Amounts BY <1>1, DgOpenChild
<1>3. PICK u : u = DgSettled(c, used) OBVIOUS
<1>4. u \in Amounts /\ (DgUpto(used, Granted(c)) => DgUpto(u, Granted(c)))
 <2>1. CASE u = used BY <2>1
 <2>2. CASE u = [used EXCEPT !.tokens = Granted(c).tokens]
  <3>1. u \in Amounts BY <1>2, <2>2 DEF Amounts
  <3>2. u.tokens = Granted(c).tokens /\ u.models = used.models /\ u.tools = used.tools
    BY <2>2 DEF Amounts
  <3>3. Granted(c).tokens \in Nat /\ DgOver["tokens"] \in Nat
    BY <1>2, DgOverTyped DEF Amounts, DgAxes
  <3> QED BY <3>1, <3>2, <3>3 DEF DgUpto, DgAxes
 <2> QED BY <1>3, <2>1, <2>2 DEF DgSettled
<1>5. PICK t : t = [at |-> "returned", type |-> dgTask[c].type, result |-> status,
                    used |-> u, evidence |-> evidence] OBVIOUS
<1>6. t \in DgTaskSet /\ t.at = "returned" /\ t.used = u /\ t.result = status /\ t.evidence = evidence
  BY <1>2, <1>4, <1>5 DEF DgTaskSet
<1>7. PICK x : x = [at |-> "ended", terminal |-> status, used |-> u, evidence |-> evidence] OBVIOUS
<1>8. x \in DgChildSet /\ x.at = "ended" /\ x.terminal = status /\ x.used = u /\ x.evidence = evidence
  BY <1>4, <1>7 DEF DgChildSet
<1>9. dgTask' = [dgTask EXCEPT ![c] = t] /\ dgChild' = [dgChild EXCEPT ![c] = x]
  BY <1>3, <1>5, <1>7 DEF Ended
<1>10. PICK faults : faults = dgFaults OBVIOUS
<1>11. status # "none" BY DEF Terminal
<1>12. DgUpto(u, u)
 <2>1. u \in [DgAxes -> Nat] BY <1>4, DgAmounts
 <2>2. \A k \in DgAxes : u[k] \in Nat /\ DgOver[k] \in Nat BY <2>1, DgOverTyped
 <2> QED BY <2>2 DEF DgUpto
<1>13. faults = 0 => DgUpto(u, Granted(c)) BY <1>4, <1>10
<1>14. DgTaskOk(t, x, faults, Granted(c)) BY <1>6, <1>8, <1>11, <1>12, <1>13 DEF DgTaskOk
<1> QED BY <1>1, <1>2, <1>6, <1>8, <1>9, <1>10, <1>14, DgChildGoesOn

\* Within its reservation, a call overshoots the tokens by no more than its own.
LEMMA DgCallWithin ==
  ASSUME DgAssumption, NEW used \in Amounts, NEW share \in Amounts,
         NEW tokens \in DgUsages, NEW tools \in Nat,
         share.models = share.tools + 2, used.tokens < share.tokens,
         used.models < share.tools + 2, used.tools + tools <= share.tools,
         NEW u, u = Plus(used, [tokens |-> tokens, models |-> 1, tools |-> tools])
  PROVE  u \in Amounts /\ DgUpto(u, share)
<1>1. PICK step : step = [tokens |-> tokens, models |-> 1, tools |-> tools] OBVIOUS
<1>2. /\ tokens \in Nat /\ tokens <= DgOver["tokens"] /\ DgOver["models"] = 0 /\ DgOver["tools"] = 0
      /\ DgOver["tokens"] \in Nat BY DgOverTyped
<1>3. step \in Amounts /\ step.tokens = tokens /\ step.models = 1 /\ step.tools = tools
  BY <1>1, <1>2 DEF Amounts
<1>4. u \in Amounts /\ \A k \in DgAxes : u[k] = used[k] + step[k] BY <1>1, <1>3, DgPlus
<1>5. /\ used.tokens \in Nat /\ used.models \in Nat /\ used.tools \in Nat
      /\ share.tokens \in Nat /\ share.models \in Nat /\ share.tools \in Nat BY DEF Amounts
<1>6. u.tokens <= share.tokens + DgOver["tokens"]
 <2>1. u.tokens = used.tokens + tokens BY <1>3, <1>4 DEF DgAxes
 <2> QED BY <1>2, <1>5, <2>1
<1>7. u.models <= share.models + DgOver["models"]
 <2>1. u.models = used.models + 1 BY <1>3, <1>4 DEF DgAxes
 <2> QED BY <1>2, <1>5, <2>1
<1>8. u.tools <= share.tools + DgOver["tools"]
 <2>1. u.tools = used.tools + tools BY <1>3, <1>4 DEF DgAxes
 <2> QED BY <1>2, <1>5, <2>1
<1> QED BY <1>4, <1>6, <1>7, <1>8 DEF DgUpto, DgAxes

\* A model call of a child.
LEMMA DgChildStepKeeps ==
  ASSUME DgAssumption, DgInv, NEW c \in Children, NEW tokens \in DgUsages, NEW tools \in 0..2,
         NEW found \in BOOLEAN, DgChildStep(c, tokens, tools, found)
  PROVE  DgInv'
<1>1. /\ dgTask[c].at = "running" /\ dgChild[c].at = "running" /\ dgFaults' = dgFaults
      /\ UNCHANGED <<dgRun, dgAt, dgUsed, dgLedger, dgEvidence, dgTask, dgStop, dgCrashed>>
  BY DEF DgChildStep, Running
<1>2. /\ dgTask[c] \in DgTaskSet /\ dgChild[c] \in DgChildSet /\ dgFaults \in 0..DgMaxFaults
      /\ Granted(c) \in Amounts /\ Granted(c).models = Granted(c).tools + 2 BY <1>1, DgOpenChild
<1>3. PICK was : was = dgChild[c] OBVIOUS
<1>4. was \in DgChildSet /\ was.at = "running" /\ was.used \in Amounts /\ was.evidence \in BOOLEAN
  BY <1>1, <1>2, <1>3 DEF DgChildSet
<1>5. PICK share : share = Granted(c) OBVIOUS
<1>6. PICK old : old = was.used OBVIOUS
<1>7. PICK u : u = Plus(old, [tokens |-> tokens, models |-> 1, tools |-> tools]) OBVIOUS
<1>8. u \in Amounts /\ DgUpto(u, share)
 <2>1. ~(old.tokens >= share.tokens) /\ old.models < share.tools + 2 /\ old.tools + tools <= share.tools
   BY <1>3, <1>5, <1>6 DEF DgChildStep, MayGoOn, OverBudget
 <2>2. old \in Amounts /\ share \in Amounts /\ share.models = share.tools + 2 /\ tools \in Nat
   BY <1>2, <1>4, <1>5, <1>6
 <2>3. old.tokens < share.tokens BY <2>1, <2>2 DEF Amounts
 <2> QED BY <1>7, <2>1, <2>2, <2>3, DgCallWithin
<1>9. PICK x : x = [at |-> was.at, terminal |-> was.terminal, evidence |-> was.evidence \/ found, used |-> u]
  OBVIOUS
<1>10. x \in DgChildSet /\ x.at = "running" /\ x.used = u BY <1>4, <1>8, <1>9 DEF DgChildSet
<1>11. dgChild' = [dgChild EXCEPT ![c] = x] BY <1>3, <1>6, <1>7, <1>9 DEF DgChildStep
<1>12. PICK t : t = dgTask[c] OBVIOUS
<1>13. dgTask' = [dgTask EXCEPT ![c] = t] BY <1>1, <1>12 DEF DgInv, DgTyped
<1>14. t \in DgTaskSet /\ t.at = "running" /\ t.result = "none" /\ ~t.evidence
  BY <1>1, <1>2, <1>12, DgWasOk DEF DgTaskOk
<1>15. PICK faults : faults = dgFaults OBVIOUS
<1>16. DgTaskOk(t, x, faults, Granted(c)) BY <1>5, <1>8, <1>10, <1>14 DEF DgTaskOk
<1> QED BY <1>1, <1>2, <1>10, <1>11, <1>13, <1>14, <1>15, <1>16, DgChildGoesOn

\* A child answers.
LEMMA DgChildAnswersKeeps ==
  ASSUME DgAssumption, DgInv, NEW c \in Children, NEW tokens \in DgUsages,
         NEW text \in BOOLEAN, DgChildAnswers(c, tokens, text)
  PROVE  DgInv'
<1>1. Running(c) BY DEF DgChildAnswers
<1>2. /\ dgTask[c] \in DgTaskSet /\ dgChild[c] \in DgChildSet
      /\ Granted(c) \in Amounts /\ Granted(c).models = Granted(c).tools + 2
      /\ dgFaults = 0 => DgUpto(dgChild[c].used, Granted(c)) BY <1>1, DgOpenChild DEF Running
<1>3. PICK old : old = dgChild[c].used OBVIOUS
<1>4. old \in Amounts /\ dgChild[c].evidence \in BOOLEAN BY <1>2, <1>3 DEF DgChildSet
<1>5. PICK limit : limit = (~MayGoOn(c) /\ ~dgStop /\ ~OverBudget(c)) OBVIOUS
<1>6. PICK good : good = (text /\ (dgTask[c].type = "synthesize" => dgChild[c].evidence)) OBVIOUS
<1>7. PICK status : status = IF good THEN "succeeded" ELSE "failed" OBVIOUS
<1>8. PICK used : used = IF limit THEN old
                         ELSE Plus(old, [tokens |-> tokens, models |-> 1, tools |-> 0]) OBVIOUS
<1>9. PICK evidence : evidence = dgChild[c].evidence OBVIOUS
<1>10. Ended(c, status, used, evidence) /\ (MayGoOn(c) \/ limit)
       /\ UNCHANGED <<dgRun, dgAt, dgUsed, dgLedger, dgEvidence, dgStop, dgCrashed, dgFaults>>
  BY <1>3, <1>5, <1>6, <1>7, <1>8, <1>9 DEF DgChildAnswers
<1>11. status \in Terminal /\ evidence \in BOOLEAN BY <1>4, <1>7, <1>9 DEF Terminal
<1>12. used \in Amounts /\ (dgFaults = 0 => DgUpto(used, Granted(c)))
 <2>1. CASE limit BY <1>2, <1>3, <1>4, <1>8, <2>1
 <2>2. CASE ~limit
  <3>1. MayGoOn(c) /\ used = Plus(old, [tokens |-> tokens, models |-> 1, tools |-> 0])
    BY <1>8, <1>10, <2>2
  <3>2. PICK share : share = Granted(c) OBVIOUS
  <3>3. ~(old.tokens >= share.tokens) /\ old.models < share.tools + 2 /\ old.tools < share.tools
    BY <1>3, <3>1, <3>2 DEF MayGoOn, OverBudget
  <3>4. old \in Amounts /\ share \in Amounts /\ share.models = share.tools + 2 BY <1>2, <1>4, <3>2
  <3>5. old.tokens < share.tokens /\ old.tools + 0 <= share.tools BY <3>3, <3>4 DEF Amounts
  <3>6. used \in Amounts /\ DgUpto(used, share) BY <3>1, <3>3, <3>4, <3>5, DgCallWithin
  <3> QED BY <3>2, <3>6
 <2> QED BY <2>1, <2>2
<1> QED BY <1>1, <1>10, <1>11, <1>12, DgEndedKeeps

\* A child is stopped.
LEMMA DgChildStopsKeeps ==
  ASSUME DgAssumption, DgInv, NEW c \in Children, DgChildStops(c)
  PROVE  DgInv'
<1>1. Running(c) BY DEF DgChildStops
<1>2. PICK used : used = dgChild[c].used OBVIOUS
<1>3. used \in Amounts /\ (dgFaults = 0 => DgUpto(used, Granted(c)))
  BY <1>1, <1>2, DgOpenChild DEF Running, DgChildSet
<1>4. PICK status : status = IF OverBudget(c) THEN "failed" ELSE "cancelled" OBVIOUS
<1>5. status \in Terminal BY <1>4 DEF Terminal
<1>6. Ended(c, status, used, FALSE)
      /\ UNCHANGED <<dgRun, dgAt, dgUsed, dgLedger, dgEvidence, dgStop, dgCrashed, dgFaults>>
  BY <1>2, <1>4 DEF DgChildStops
<1> QED BY <1>1, <1>3, <1>5, <1>6, DgEndedKeeps

\* A child fails.
LEMMA DgChildFailsKeeps ==
  ASSUME DgAssumption, DgInv, NEW c \in Children, DgChildFails(c)
  PROVE  DgInv'
<1>1. Running(c) BY DEF DgChildFails
<1>2. PICK used : used = dgChild[c].used OBVIOUS
<1>3. used \in Amounts /\ (dgFaults = 0 => DgUpto(used, Granted(c)))
  BY <1>1, <1>2, DgOpenChild DEF Running, DgChildSet
<1>4. PICK status \in Terminal : status = "failed" BY DEF Terminal
<1>5. Ended(c, status, used, FALSE)
      /\ UNCHANGED <<dgRun, dgAt, dgUsed, dgLedger, dgEvidence, dgStop, dgCrashed, dgFaults>>
  BY <1>2, <1>4 DEF DgChildFails
<1> QED BY <1>1, <1>3, <1>5, DgEndedKeeps

\* The run store cannot be written.
LEMMA DgStoreFailsKeeps ==
  ASSUME DgAssumption, DgInv, NEW c \in Children, DgStoreFails(c)
  PROVE  DgInv'
<1>1. /\ dgTask[c].at = "running" /\ dgFaults < DgMaxFaults /\ dgFaults' = dgFaults + 1
      /\ dgChild' = [dgChild EXCEPT ![c].at = "ended"] /\ Result(c, "failed", None, FALSE)
      /\ UNCHANGED <<dgRun, dgAt, dgUsed, dgLedger, dgEvidence, dgStop, dgCrashed>>
  BY DEF DgStoreFails, Running
<1>2. /\ dgTask[c] \in DgTaskSet /\ dgChild[c] \in DgChildSet /\ dgFaults \in 0..DgMaxFaults
  BY <1>1, DgOpenChild
<1>3. PICK faults : faults = dgFaults + 1 OBVIOUS
<1>4. faults \in 0..DgMaxFaults /\ faults > 0 BY <1>1, <1>2, <1>3 DEF DgAssumption
<1>5. PICK t : t = [at |-> "done", type |-> dgTask[c].type, result |-> "failed",
                    used |-> None, evidence |-> FALSE] OBVIOUS
<1>6. t \in DgTaskSet /\ t.at = "done" /\ t.result = "failed" /\ t.evidence = FALSE
  BY <1>2, <1>5, DgValues DEF DgTaskSet, Terminal
<1>7. dgTask' = [dgTask EXCEPT ![c] = t] BY <1>1, <1>5 DEF Result
<1>8. PICK x : x = [dgChild[c] EXCEPT !.at = "ended"] OBVIOUS
<1>9. x \in DgChildSet /\ x.at = "ended" BY <1>2, <1>8 DEF DgChildSet
<1>10. dgChild' = [dgChild EXCEPT ![c] = x] BY <1>1, <1>8
<1>11. DgTaskOk(t, x, faults, Granted(c)) BY <1>4, <1>6, <1>9 DEF DgTaskOk
<1>12. dgTask[c].at # "none" /\ dgFaults' = faults BY <1>1, <1>3
<1> QED BY <1>1, <1>4, <1>6, <1>7, <1>9, <1>10, <1>11, <1>12, DgChildGoesOn

\* The task tool wakes up.
LEMMA DgReturnsKeeps ==
  ASSUME DgAssumption, DgInv, NEW c \in Children, DgReturns(c)
  PROVE  DgInv'
<1>1. /\ dgTask[c].at = "returned" /\ dgTask' = [dgTask EXCEPT ![c].at = "done"]
      /\ dgChild' = dgChild /\ dgFaults' = dgFaults
      /\ UNCHANGED <<dgRun, dgAt, dgUsed, dgLedger, dgEvidence, dgStop, dgCrashed>> BY DEF DgReturns
<1>2. /\ dgTask[c] \in DgTaskSet /\ dgChild[c] \in DgChildSet /\ dgFaults \in 0..DgMaxFaults
  BY <1>1, DgOpenChild
<1>3. PICK t : t = [dgTask[c] EXCEPT !.at = "done"] OBVIOUS
<1>4. /\ t \in DgTaskSet /\ t.at = "done" /\ t.result = dgTask[c].result
      /\ t.evidence = dgTask[c].evidence /\ t.used = dgTask[c].used BY <1>2, <1>3 DEF DgTaskSet
<1>5. PICK x : x = dgChild[c] OBVIOUS
<1>6. PICK faults : faults = dgFaults OBVIOUS
<1>7. dgTask' = [dgTask EXCEPT ![c] = t] BY <1>1, <1>3
<1>8. dgChild' = [dgChild EXCEPT ![c] = x] BY <1>1, <1>5 DEF DgInv, DgTyped
<1>9. DgTaskOk(dgTask[c], x, faults, Granted(c)) BY <1>1, <1>5, <1>6, DgWasOk
<1>10. DgTaskOk(t, x, faults, Granted(c)) BY <1>1, <1>4, <1>9 DEF DgTaskOk
<1> QED BY <1>1, <1>2, <1>4, <1>5, <1>6, <1>7, <1>8, <1>10, DgChildGoesOn

\* The task tool gives up, and its child is charged for all it reserved.
LEMMA DgTimesOutKeeps ==
  ASSUME DgAssumption, DgInv, NEW c \in Children, DgTimesOut(c)
  PROVE  DgInv'
<1>1. /\ dgTask[c].at \in {"running", "returned"} /\ dgFaults' = dgFaults
      /\ dgChild' = [dgChild EXCEPT ![c] = CancelChild(@, "timed_out")]
      /\ Result(c, "timed_out", Granted(c), FALSE)
      /\ UNCHANGED <<dgRun, dgAt, dgUsed, dgLedger, dgEvidence, dgStop, dgCrashed>>
  BY DEF DgTimesOut
<1>2. /\ dgTask[c] \in DgTaskSet /\ dgChild[c] \in DgChildSet /\ dgFaults \in 0..DgMaxFaults
      /\ Granted(c) \in Amounts BY <1>1, DgOpenChild
<1>3. PICK t : t = [at |-> "done", type |-> dgTask[c].type, result |-> "timed_out",
                    used |-> Granted(c), evidence |-> FALSE] OBVIOUS
<1>4. /\ t \in DgTaskSet /\ t.at = "done" /\ t.result = "timed_out"
      /\ t.evidence = FALSE /\ t.used = Granted(c) BY <1>2, <1>3 DEF DgTaskSet, Terminal
<1>5. dgTask' = [dgTask EXCEPT ![c] = t] BY <1>1, <1>3 DEF Result
<1>6. PICK x : x = CancelChild(dgChild[c], "timed_out") OBVIOUS
<1>7. dgChild' = [dgChild EXCEPT ![c] = x] BY <1>1, <1>6
<1>8. /\ x \in DgChildSet /\ x.at # "running" /\ x.used = dgChild[c].used
      /\ x = dgChild[c] \/ x.terminal = "timed_out"
  BY <1>2, <1>6 DEF CancelChild, DgChildSet, Terminal
<1>9. PICK faults : faults = dgFaults OBVIOUS
<1>10. DgTaskOk(dgTask[c], dgChild[c], faults, Granted(c)) BY <1>1, <1>9, DgWasOk
<1>11. faults = 0 => /\ DgUpto(x.used, Granted(c))
                     /\ x.at = "ended" => x.terminal # "none" BY <1>8, <1>10 DEF DgTaskOk
<1>12. DgTaskOk(t, x, faults, Granted(c)) BY <1>4, <1>8, <1>11 DEF DgTaskOk
<1> QED BY <1>1, <1>2, <1>4, <1>5, <1>7, <1>8, <1>9, <1>12, DgChildGoesOn

\* The limits, and what the invariant says before a step of the parent.
LEMMA DgLimits ==
  ASSUME DgAssumption
  PROVE  DgLimit \in Amounts /\ \A k \in DgAxes : DgLimit[k] \in Nat /\ DgOver[k] \in Nat
<1>1. DgLimit \in Amounts BY DEF DgAssumption, Amounts
<1>2. DgLimit \in [DgAxes -> Nat] BY <1>1, DgAmounts
<1> QED BY <1>1, <1>2, DgOverTyped

\* A run without delegations counts on nothing.
LEMMA DgCapNone ==
  ASSUME DgAssumption, NEW L \in [Children -> DgEntries], NEW run, NEW k \in DgAxes,
         \A c \in DgOfRun(run) : L[c].status = "none"
  PROVE  DgCap(L, run, k) = 0
<1>1. PICK S : S = DgOfRun(run) OBVIOUS
<1>2. S \subseteq Children /\ IsFiniteSet(S) BY <1>1, DgFinite DEF DgOfRun
<1>3. PICK f : f = DgBases(L, S, k) OBVIOUS
<1>4. f \in [S -> Nat] BY <1>2, <1>3, DgBaseTyped DEF DgBases
<1>5. ASSUME NEW c \in S PROVE f[c] = IF c \in {} THEN 0 ELSE 0
 <2>1. DgBaseAt(L[c]) = None BY <1>1, <1>5 DEF DgBaseAt, Terminal
 <2> QED BY <1>3, <2>1, DgValues DEF DgBases
<1>6. CxTotal(f, S) = 0 * Cardinality({}) BY <1>2, <1>4, <1>5, CxTotalShare
<1>7. Cardinality({}) = 0 BY FS_EmptySet
<1>8. CxTotal(f, S) = 0 BY <1>6, <1>7
<1> QED BY <1>1, <1>3, <1>8 DEF DgCap

\* The thread begins with a child that was cut off.
LEMMA DgInitInv ==
  ASSUME DgAssumption, DgInit
  PROVE  DgInv
<1>1. PICK call : call = CHOOSE x \in DgCalls : TRUE OBVIOUS
<1>2. call \in DgCalls BY <1>1 DEF DgAssumption
<1>3. PICK open : open = <<1, call>> OBVIOUS
<1>4. open \in Children /\ open[1] = 1 BY <1>2, <1>3 DEF Children, DgAssumption
<1>5. PICK e : e = [status |-> "running", type |-> "research", used |-> None, evidence |-> FALSE,
                    reserved |-> [tokens |-> DgMinReserve, models |-> 3, tools |-> 1]] OBVIOUS
<1>6. PICK x : x = [NoChild EXCEPT !.at = "lost"] OBVIOUS
<1>7. /\ dgRun = 1 /\ dgAt = "idle" /\ dgUsed = None /\ dgEvidence = {} /\ dgTask = NoTasks
      /\ dgStop = FALSE /\ dgCrashed = FALSE /\ dgFaults = 0
      /\ dgLedger = [c \in Children |-> IF c = open THEN e ELSE DgNoEntry]
      /\ dgChild = [c \in Children |-> IF c = open THEN x ELSE NoChild]
  BY <1>1, <1>3, <1>5, <1>6 DEF DgInit
<1>8. [tokens |-> DgMinReserve, models |-> 3, tools |-> 1] \in Amounts BY DEF Amounts, DgAssumption
<1>9. /\ e \in DgEntries /\ e.status = "running" /\ e.reserved \in Amounts
      /\ e.reserved.models = e.reserved.tools + 2 BY <1>5, <1>8, DgValues DEF DgEntries
<1>10. x \in DgChildSet /\ x.at = "lost" /\ x.used = None BY <1>6, DgValues DEF DgChildSet, NoChild
<1>11. DgTyped
 <2>1. dgTask \in [Children -> DgTaskSet] BY <1>7, DgValues DEF NoTasks
 <2>2. dgLedger \in [Children -> DgEntries] /\ dgChild \in [Children -> DgChildSet]
   BY <1>7, <1>9, <1>10, DgValues
 <2>3. dgRun \in 1..DgMaxRuns /\ dgFaults \in 0..DgMaxFaults BY <1>7 DEF DgAssumption
 <2> QED BY <1>7, <2>1, <2>2, <2>3, DgValues DEF DgTyped
<1>12. DgFirst BY <1>7, <1>10, DgValues DEF DgFirst
<1>13. DgChildrenOk
 <2>1. ASSUME NEW c \in Children
       PROVE  DgChildOk(c, dgLedger[c], dgTask[c], dgChild[c], dgRun, dgAt, dgFaults, c \in dgEvidence)
  <3>1. dgTask[c].at = "none" BY <1>7, DgValues DEF NoTasks
  <3>2. CASE c = open
   <4>1. dgLedger[c] = e /\ dgChild[c] = x BY <1>7, <3>2
   <4>2. DgBaseAt(e) = e.reserved BY <1>9 DEF DgBaseAt
   <4>3. DgUpto(x.used, DgBaseAt(e)) BY <1>9, <1>10, <4>2, DgUptoNone
   <4>4. ~(c[1] > dgRun) /\ c \notin dgEvidence BY <1>4, <1>7, <3>2
   <4> QED BY <1>9, <1>10, <3>1, <4>1, <4>3, <4>4 DEF DgChildOk
  <3>3. CASE c # open
   <4>1. dgLedger[c] = DgNoEntry /\ dgChild[c] = NoChild BY <1>7, <3>3
   <4>2. c \notin dgEvidence BY <1>7
   <4> QED BY <3>1, <4>1, <4>2, DgValues DEF DgChildOk
  <3> QED BY <3>2, <3>3
 <2> QED BY <2>1 DEF DgChildrenOk
<1>14. DgFits(dgLedger, dgRun, dgUsed) BY <1>7 DEF DgFits
<1> QED BY <1>11, <1>12, <1>13, <1>14 DEF DgInv

\* A child in a step that ends the run.
DgChildEnds(x, y) ==
  \/ y = x /\ x.at # "running"
  \/ /\ x.at = "running" /\ y.at # "running" /\ y.used = x.used
     /\ y.at = "ended" => y.terminal # "none"

\* A step that ends the run, whatever its children were doing.
LEMMA DgEndsRunWith ==
  ASSUME DgInv, dgAt # "idle", dgAt' = "idle",
         \A c \in Children : dgTask'[c].at = "none",
         dgTask' \in [Children -> DgTaskSet], dgChild' \in [Children -> DgChildSet],
         \A c \in Children : DgChildEnds(dgChild[c], dgChild'[c]),
         dgStop' \in BOOLEAN, dgCrashed' \in BOOLEAN,
         UNCHANGED <<dgRun, dgLedger, dgEvidence, dgFaults>>,
         dgUsed' \in Amounts, DgFits(dgLedger, dgRun, dgUsed')
  PROVE  DgInv'
<1>1. DgTyped' BY DEF DgInv, DgTyped
<1>2. DgFirst' BY DEF DgInv, DgFirst
<1>3. DgChildrenOk'
 <2>1. ASSUME NEW c \in Children
       PROVE  DgChildOk(c, dgLedger'[c], dgTask'[c], dgChild'[c], dgRun', dgAt', dgFaults',
                        c \in dgEvidence')
  <3>1. DgChildOk(c, dgLedger[c], dgTask[c], dgChild[c], dgRun, dgAt, dgFaults, c \in dgEvidence)
    BY DEF DgInv, DgChildrenOk
  <3>2. PICK e : e = dgLedger[c] OBVIOUS
  <3>3. PICK x : x = dgChild[c] OBVIOUS
  <3>4. PICK y : y = dgChild'[c] OBVIOUS
  <3>5. PICK t : t = dgTask'[c] OBVIOUS
  <3>6. t.at = "none" /\ DgChildEnds(x, y) BY <3>3, <3>4, <3>5
  <3>7. CASE y = x /\ x.at # "running"
   <4>1. DgChildOk(c, e, t, y, dgRun, "idle", dgFaults, c \in dgEvidence)
     BY <3>1, <3>2, <3>3, <3>6, <3>7 DEF DgChildOk
   <4> QED BY <3>2, <3>4, <3>5, <4>1
  <3>8. CASE /\ x.at = "running" /\ y.at # "running" /\ y.used = x.used
             /\ y.at = "ended" => y.terminal # "none"
   <4>1. e.status = "running" /\ e.status # "none" /\ e.status # "succeeded" /\ e.status \notin Terminal
     BY <3>1, <3>2, <3>3, <3>8 DEF DgChildOk, Terminal
   <4>2. c \notin dgEvidence BY <3>1, <3>2, <4>1 DEF DgChildOk
   <4>3. DgChildOk(c, e, t, y, dgRun, "idle", dgFaults, c \in dgEvidence)
     BY <3>1, <3>2, <3>3, <3>6, <3>8, <4>1, <4>2 DEF DgChildOk
   <4> QED BY <3>2, <3>4, <3>5, <4>3
  <3> QED BY <3>6, <3>7, <3>8 DEF DgChildEnds
 <2> QED BY <2>1 DEF DgChildrenOk
<1>4. DgFits(dgLedger, dgRun, dgUsed)' BY DEF DgFits, DgCap, DgBases, DgOfRun
<1> QED BY <1>1, <1>2, <1>3, <1>4 DEF DgInv

\* So does one that costs the parent nothing.
LEMMA DgEndsRunKeeps ==
  ASSUME DgInv, dgAt # "idle", dgAt' = "idle",
         \A c \in Children : dgTask'[c].at = "none",
         dgTask' \in [Children -> DgTaskSet], dgChild' \in [Children -> DgChildSet],
         \A c \in Children : DgChildEnds(dgChild[c], dgChild'[c]),
         dgStop' \in BOOLEAN, dgCrashed' \in BOOLEAN,
         UNCHANGED <<dgRun, dgUsed, dgLedger, dgEvidence, dgFaults>>
  PROVE  DgInv'
<1>1. dgUsed' \in Amounts /\ DgFits(dgLedger, dgRun, dgUsed') BY DEF DgInv, DgTyped
<1> QED BY <1>1, DgEndsRunWith

\* Outside a step of the tools no task is known, and no child runs.
LEMMA DgNoTasks ==
  ASSUME DgInv, dgAt # "tools", NEW c \in Children
  PROVE  dgTask[c].at = "none" /\ dgChild[c].at # "running"
<1>1. DgChildOk(c, dgLedger[c], dgTask[c], dgChild[c], dgRun, dgAt, dgFaults, c \in dgEvidence)
  BY DEF DgInv, DgChildrenOk
<1> QED BY <1>1 DEF DgChildOk

\* The parent is out of budget.
LEMMA DgCappedKeeps ==
  ASSUME DgInv, DgCapped
  PROVE  DgInv'
<1>1. /\ dgAt = "model" /\ dgAt' = "idle" /\ dgTask' = dgTask /\ dgChild' = dgChild
      /\ dgStop' = dgStop /\ dgCrashed' = dgCrashed
      /\ UNCHANGED <<dgRun, dgUsed, dgLedger, dgEvidence, dgFaults>> BY DEF DgCapped
<1>2. /\ \A c \in Children : dgTask'[c].at = "none"
      /\ \A c \in Children : DgChildEnds(dgChild[c], dgChild'[c]) BY <1>1, DgNoTasks DEF DgChildEnds
<1>3. /\ dgTask' \in [Children -> DgTaskSet] /\ dgChild' \in [Children -> DgChildSet]
      /\ dgStop' \in BOOLEAN /\ dgCrashed' \in BOOLEAN BY <1>1 DEF DgInv, DgTyped
<1> QED BY <1>1, <1>2, <1>3, DgEndsRunKeeps

\* No child has a task.
LEMMA DgNoTasksTyped ==
  NoTasks \in [Children -> DgTaskSet] /\ \A c \in Children : NoTasks[c].at = "none"
  BY DgValues DEF NoTasks

\* The run is cancelled: its children are, too.
LEMMA DgCancelledKeeps ==
  ASSUME DgInv, DgCancelled
  PROVE  DgInv'
<1>1. /\ dgAt # "idle" /\ dgAt' = "idle" /\ dgTask' = NoTasks
      /\ dgStop' = dgStop /\ dgCrashed' = dgCrashed
      /\ UNCHANGED <<dgRun, dgUsed, dgLedger, dgEvidence, dgFaults>>
      /\ dgChild' = [c \in Children |->
           IF dgTask[c].at = "running" THEN CancelChild(dgChild[c], "cancelled") ELSE dgChild[c]]
  BY DEF DgCancelled
<1>2. ASSUME NEW c \in Children
      PROVE  dgChild'[c] \in DgChildSet /\ DgChildEnds(dgChild[c], dgChild'[c])
 <2>1. DgChildOk(c, dgLedger[c], dgTask[c], dgChild[c], dgRun, dgAt, dgFaults, c \in dgEvidence)
   BY DEF DgInv, DgChildrenOk
 <2>2. dgChild[c] \in DgChildSet BY DEF DgInv, DgTyped
 <2>3. dgChild'[c] = IF dgTask[c].at = "running" THEN CancelChild(dgChild[c], "cancelled") ELSE dgChild[c]
   BY <1>1
 <2>4. CASE dgChild[c].at = "running"
  <3>1. dgTask[c].at = "running" BY <2>1, <2>4 DEF DgChildOk
  <3> QED BY <2>2, <2>3, <2>4, <3>1 DEF CancelChild, DgChildEnds, DgChildSet, Terminal
 <2>5. CASE dgChild[c].at # "running" BY <2>2, <2>3, <2>5 DEF CancelChild, DgChildEnds
 <2> QED BY <2>4, <2>5
<1>3. dgChild' \in [Children -> DgChildSet] BY <1>1, <1>2
<1>4. dgStop' \in BOOLEAN /\ dgCrashed' \in BOOLEAN BY <1>1 DEF DgInv, DgTyped
<1> QED BY <1>1, <1>2, <1>3, <1>4, DgNoTasksTyped, DgEndsRunKeeps

\* The process dies: its children are lost.
LEMMA DgCrashKeeps ==
  ASSUME DgInv, DgCrash
  PROVE  DgInv'
<1>1. /\ dgAt # "idle" /\ dgAt' = "idle" /\ dgTask' = NoTasks
      /\ dgStop' = dgStop /\ dgCrashed' = TRUE
      /\ UNCHANGED <<dgRun, dgUsed, dgLedger, dgEvidence, dgFaults>>
      /\ dgChild' = [c \in Children |->
           IF dgChild[c].at = "running" THEN [dgChild[c] EXCEPT !.at = "lost"] ELSE dgChild[c]]
  BY DEF DgCrash
<1>2. ASSUME NEW c \in Children
      PROVE  dgChild'[c] \in DgChildSet /\ DgChildEnds(dgChild[c], dgChild'[c])
 <2>1. dgChild[c] \in DgChildSet BY DEF DgInv, DgTyped
 <2>2. dgChild'[c] = IF dgChild[c].at = "running" THEN [dgChild[c] EXCEPT !.at = "lost"] ELSE dgChild[c]
   BY <1>1
 <2> QED BY <2>1, <2>2 DEF DgChildEnds, DgChildSet
<1>3. dgChild' \in [Children -> DgChildSet] BY <1>1, <1>2
<1>4. dgStop' \in BOOLEAN /\ dgCrashed' \in BOOLEAN BY <1>1 DEF DgInv, DgTyped
<1> QED BY <1>1, <1>2, <1>3, <1>4, DgNoTasksTyped, DgEndsRunKeeps

\* A stop is only asked for.
LEMMA DgRequestStopKeeps ==
  ASSUME DgInv, DgRequestStop
  PROVE  DgInv'
<1>1. /\ dgStop' = TRUE
      /\ UNCHANGED <<dgRun, dgAt, dgUsed, dgLedger, dgEvidence, dgTask, dgChild, dgCrashed, dgFaults>>
  BY DEF DgRequestStop
<1>2. DgTyped' BY <1>1 DEF DgInv, DgTyped
<1>3. DgFirst' /\ DgChildrenOk' BY <1>1 DEF DgInv, DgFirst, DgChildrenOk
<1>4. DgFits(dgLedger, dgRun, dgUsed)' BY <1>1 DEF DgInv, DgFits, DgCap, DgBases, DgOfRun
<1> QED BY <1>2, <1>3, <1>4 DEF DgInv

\* A turn begins, with the budget of a new run.
LEMMA DgBeginKeeps ==
  ASSUME DgAssumption, DgInv, DgBegin
  PROVE  DgInv'
<1>1. /\ dgAt = "idle" /\ dgRun < DgMaxRuns /\ dgRun' = dgRun + 1 /\ dgAt' = "model"
      /\ dgUsed' = None /\ dgLedger' = CloseStale(dgLedger, dgRun + 1) /\ dgTask' = NoTasks
      /\ dgStop' = FALSE /\ dgCrashed' = FALSE
      /\ dgEvidence' = dgEvidence /\ dgChild' = dgChild /\ dgFaults' = dgFaults BY DEF DgBegin
<1>2. dgRun \in 1..DgMaxRuns /\ DgMaxRuns \in Nat /\ dgLedger \in [Children -> DgEntries]
  BY DEF DgInv, DgTyped, DgAssumption
<1>3. dgRun' \in 1..DgMaxRuns /\ dgRun' # 1 BY <1>1, <1>2
<1>4. ASSUME NEW c \in Children
      PROVE  /\ dgLedger'[c] \in DgEntries
             /\ \/ dgLedger'[c] = dgLedger[c] /\ dgLedger[c].status # "running"
                \/ /\ dgLedger[c].status = "running" /\ dgLedger'[c].status = "cancelled"
                   /\ ~(c[1] > dgRun)
             /\ c[1] = dgRun + 1 => dgLedger'[c].status = "none"
 <2>1. DgChildOk(c, dgLedger[c], dgTask[c], dgChild[c], dgRun, dgAt, dgFaults, c \in dgEvidence)
   BY DEF DgInv, DgChildrenOk
 <2>2. dgLedger'[c] = IF dgLedger[c].status = "running" /\ c[1] # dgRun + 1
                      THEN [dgLedger[c] EXCEPT !.status = "cancelled"] ELSE dgLedger[c]
   BY <1>1 DEF CloseStale
 <2>3. dgLedger[c] \in DgEntries /\ c[1] \in Nat BY <1>2 DEF Children
 <2>4. dgLedger[c].status = "running" => ~(c[1] > dgRun) BY <2>1 DEF DgChildOk
 <2>5. c[1] = dgRun + 1 => c[1] > dgRun BY <1>2
 <2>6. c[1] = dgRun + 1 => dgLedger[c].status = "none" BY <2>1, <2>5 DEF DgChildOk
 <2>7. dgLedger'[c] \in DgEntries BY <2>2, <2>3 DEF DgEntries, Terminal
 <2>8. CASE dgLedger[c].status = "running"
  <3>1. c[1] # dgRun + 1 BY <2>4, <2>5, <2>8
  <3>2. dgLedger'[c].status = "cancelled" BY <2>2, <2>3, <2>8, <3>1 DEF DgEntries
  <3> QED BY <2>4, <2>7, <2>8, <3>1, <3>2
 <2>9. CASE dgLedger[c].status # "running" BY <2>2, <2>6, <2>7, <2>9
 <2> QED BY <2>8, <2>9
<1>5. dgLedger' \in [Children -> DgEntries] BY <1>1, <1>4 DEF CloseStale
<1>6. DgTyped' BY <1>1, <1>3, <1>5, DgNoTasksTyped, DgValues DEF DgInv, DgTyped
<1>7. DgFirst' BY <1>3 DEF DgFirst
<1>8. DgChildrenOk'
 <2>1. ASSUME NEW c \in Children
       PROVE  DgChildOk(c, dgLedger'[c], dgTask'[c], dgChild'[c], dgRun', dgAt', dgFaults',
                        c \in dgEvidence')
  <3>1. DgChildOk(c, dgLedger[c], dgTask[c], dgChild[c], dgRun, dgAt, dgFaults, c \in dgEvidence)
    BY DEF DgInv, DgChildrenOk
  <3>2. dgTask'[c].at = "none" /\ dgChild[c].at # "running" BY <1>1, DgNoTasks, DgNoTasksTyped
  <3>3. PICK e : e = dgLedger'[c] OBVIOUS
  <3>4. PICK old : old = dgLedger[c] OBVIOUS
  <3>5. PICK t : t = dgTask'[c] OBVIOUS
  <3>6. PICK x : x = dgChild[c] OBVIOUS
  <3>7. PICK run : run = dgRun + 1 OBVIOUS
  <3>8. c[1] \in Nat /\ run \in Nat /\ dgRun \in Nat /\ (c[1] > run => c[1] > dgRun)
    BY <1>2, <3>7 DEF Children
  <3>9. c[1] = run => e.status = "none" BY <1>4, <3>3, <3>7
  <3>10. \/ e = old /\ old.status # "running"
         \/ old.status = "running" /\ e.status = "cancelled" /\ ~(c[1] > dgRun) BY <1>4, <3>3, <3>4
  <3>11. DgChildOk(c, e, t, x, run, "model", dgFaults, c \in dgEvidence)
   <4>1. CASE e = old /\ old.status # "running"
     BY <3>1, <3>2, <3>4, <3>5, <3>6, <3>8, <3>9, <4>1 DEF DgChildOk
   <4>2. CASE old.status = "running" /\ e.status = "cancelled" /\ ~(c[1] > dgRun)
    <5>1. c \notin dgEvidence BY <3>1, <3>4, <4>2 DEF DgChildOk, Terminal
    <5> QED BY <3>1, <3>2, <3>4, <3>5, <3>6, <3>8, <3>9, <4>2, <5>1 DEF DgChildOk
   <4> QED BY <3>10, <4>1, <4>2
  <3> QED BY <1>1, <3>3, <3>5, <3>6, <3>7, <3>11
 <2> QED BY <2>1 DEF DgChildrenOk
<1>9. DgFits(dgLedger, dgRun, dgUsed)'
 <2>1. PICK L \in [Children -> DgEntries] : L = dgLedger' BY <1>5
 <2>2. PICK run : run = dgRun + 1 OBVIOUS
 <2>3. \A c \in DgOfRun(run) : L[c].status = "none" BY <1>4, <2>1, <2>2 DEF DgOfRun
 <2>4. \A k \in DgAxes : None[k] + DgCap(L, run, k) <= DgLimit[k] + DgOver[k]
  <3>1. ASSUME NEW k \in DgAxes PROVE None[k] + DgCap(L, run, k) <= DgLimit[k] + DgOver[k]
   <4>1. DgCap(L, run, k) = 0 BY <2>3, DgCapNone
   <4> QED BY <4>1, DgValues, DgLimits
  <3> QED BY <3>1
 <2>5. DgFits(L, run, None) BY <2>4 DEF DgFits
 <2> QED BY <1>1, <2>1, <2>2, <2>5 DEF DgFits, DgCap, DgBases, DgOfRun
<1> QED BY <1>6, <1>7, <1>8, <1>9 DEF DgInv

\* What a child's answer leaves to count on is a part of what it reserved, and
\* still bounds what the child used.
LEMMA DgSettlesWithin ==
  ASSUME DgAssumption, NEW e \in DgEntries, NEW new \in DgEntries, e.status = "running",
         new.status \in Terminal, new.reserved = e.reserved
  PROVE  /\ DgBaseAt(new) \in Amounts
         /\ \A k \in DgAxes : DgBaseAt(new)[k] <= DgBaseAt(e)[k]
         /\ \A u \in Amounts : DgUpto(u, e.reserved) /\ DgUpto(u, new.used) => DgUpto(u, DgBaseAt(new))
<1>1. new.status # "running" BY DEF Terminal
<1>2. DgBaseAt(e) = e.reserved BY DEF DgBaseAt
<1>3. DgBaseAt(new) = [k \in DgAxes |-> IF new.used[k] <= e.reserved[k] THEN new.used[k] ELSE e.reserved[k]]
  BY <1>1 DEF DgBaseAt
<1>4. e.reserved \in [DgAxes -> Nat] /\ new.used \in [DgAxes -> Nat] BY DgAmounts DEF DgEntries
<1>5. DgBaseAt(new) \in Amounts BY DgBaseTyped, DgAmounts
<1>6. \A k \in DgAxes : DgBaseAt(new)[k] <= DgBaseAt(e)[k] BY <1>2, <1>3, <1>4
<1>7. \A u \in Amounts : DgUpto(u, e.reserved) /\ DgUpto(u, new.used) => DgUpto(u, DgBaseAt(new))
  BY <1>3 DEF DgUpto
<1> QED BY <1>5, <1>6, <1>7

\* Children that count on less together count on less.
LEMMA DgCapShrinks ==
  ASSUME DgAssumption, NEW L \in [Children -> DgEntries], NEW M \in [Children -> DgEntries],
         NEW run, NEW k \in DgAxes,
         \A c \in Children : \A j \in DgAxes : DgBaseAt(M[c])[j] <= DgBaseAt(L[c])[j]
  PROVE  DgCap(M, run, k) <= DgCap(L, run, k)
<1>1. PICK S : S = DgOfRun(run) OBVIOUS
<1>2. S \subseteq Children /\ IsFiniteSet(S) BY <1>1, DgFinite DEF DgOfRun
<1>3. PICK f : f = DgBases(M, S, k) OBVIOUS
<1>4. PICK g : g = DgBases(L, S, k) OBVIOUS
<1>5. f \in [S -> Nat] /\ g \in [S -> Nat] /\ \A c \in S : f[c] <= g[c]
  BY <1>2, <1>3, <1>4, DgBaseTyped DEF DgBases
<1>6. CxTotal(f, S) <= CxTotal(g, S) BY <1>2, <1>5, CxTotalLeq
<1> QED BY <1>1, <1>3, <1>4, <1>6 DEF DgCap

\* The answers of the children reach the ledger.
LEMMA DgApplyKeeps ==
  ASSUME DgAssumption, DgInv, DgApply
  PROVE  DgInv'
<1>1. /\ dgAt = "tools" /\ dgTask' = NoTasks /\ dgRun' = dgRun /\ dgUsed' = dgUsed
      /\ dgChild' = dgChild /\ dgStop' = dgStop /\ dgCrashed' = dgCrashed /\ dgFaults' = dgFaults
      /\ \A c \in Children : dgTask[c].at \in {"none", "done"} BY DEF DgApply
<1>2. ASSUME NEW c \in Children
      PROVE  dgChild[c].at # "running" /\ dgTask[c].at \in {"none", "done"}
 <2>1. DgChildOk(c, dgLedger[c], dgTask[c], dgChild[c], dgRun, dgAt, dgFaults, c \in dgEvidence)
   BY DEF DgInv, DgChildrenOk
 <2>2. dgTask[c].at \in {"none", "done"} BY <1>1
 <2> QED BY <2>1, <2>2 DEF DgChildOk
<1>3. CASE dgAt' = "idle" /\ UNCHANGED <<dgLedger, dgEvidence>>
 <2>1. \A c \in Children : DgChildEnds(dgChild[c], dgChild'[c]) BY <1>1, <1>2 DEF DgChildEnds
 <2>2. /\ dgTask' \in [Children -> DgTaskSet] /\ dgChild' \in [Children -> DgChildSet]
       /\ dgStop' \in BOOLEAN /\ dgCrashed' \in BOOLEAN /\ \A c \in Children : dgTask'[c].at = "none"
   BY <1>1, DgNoTasksTyped DEF DgInv, DgTyped
 <2>3. dgAt # "idle" /\ dgAt' = "idle" /\ UNCHANGED <<dgRun, dgUsed, dgLedger, dgEvidence, dgFaults>>
   BY <1>1, <1>3
 <2> QED BY <2>1, <2>2, <2>3, DgEndsRunKeeps
<1>4. CASE /\ dgAt' = "model"
           /\ dgLedger' = [c \in Children |->
                IF c \in Answered THEN MergeEntry(dgLedger[c], Entry(c)) ELSE dgLedger[c]]
           /\ dgEvidence' = dgEvidence \cup {c \in Answered : dgTask[c].evidence}
 <2>1. ASSUME NEW c \in Children
       PROVE  /\ dgLedger'[c] \in DgEntries
              /\ \A k \in DgAxes : DgBaseAt(dgLedger'[c])[k] <= DgBaseAt(dgLedger[c])[k]
              /\ DgChildOk(c, dgLedger'[c], dgTask'[c], dgChild'[c], dgRun', dgAt', dgFaults',
                           c \in dgEvidence')
  <3>1. DgChildOk(c, dgLedger[c], dgTask[c], dgChild[c], dgRun, dgAt, dgFaults, c \in dgEvidence)
    BY DEF DgInv, DgChildrenOk
  <3>2. dgLedger[c] \in DgEntries /\ dgTask[c] \in DgTaskSet /\ dgChild[c] \in DgChildSet
    BY DEF DgInv, DgTyped
  <3>3. PICK t : t = dgTask'[c] OBVIOUS
  <3>4. t.at = "none" BY <1>1, <3>3, DgNoTasksTyped
  <3>5. PICK old : old = dgLedger[c] OBVIOUS
  <3>6. PICK x : x = dgChild[c] OBVIOUS
  <3>7. x.at # "running" /\ old \in DgEntries /\ x \in DgChildSet BY <1>2, <3>2, <3>5, <3>6
  <3>8. CASE c \in Answered
   <4>1. PICK was : was = dgTask[c] OBVIOUS
   <4>2. was.at = "done" /\ was.result # "none" /\ was \in DgTaskSet
     BY <3>2, <3>8, <4>1 DEF Answered
   <4>3. was.result \in Terminal /\ was.used \in Amounts BY <4>2 DEF DgTaskSet
   <4>4. old.status = "running" /\ old.status \notin Terminal /\ c[1] = dgRun /\ c \notin dgEvidence
     BY <3>1, <3>5, <4>1, <4>2 DEF DgChildOk, Terminal
   <4>5. PICK new : new = [status |-> was.result, type |-> was.type, reserved |-> old.reserved,
                           used |-> was.used, evidence |-> was.evidence] OBVIOUS
   <4>6. dgLedger'[c] = new BY <1>4, <3>5, <3>8, <4>1, <4>4, <4>5 DEF MergeEntry, Entry
   <4>7. new \in DgEntries BY <3>7, <4>2, <4>3, <4>5 DEF DgEntries, DgTaskSet
   <4>8. /\ new.status \in Terminal /\ new.status = was.result /\ new.used = was.used
         /\ new.reserved = old.reserved BY <4>3, <4>5
   <4>9. /\ DgBaseAt(new) \in Amounts
         /\ \A k \in DgAxes : DgBaseAt(new)[k] <= DgBaseAt(old)[k]
         /\ \A u \in Amounts : DgUpto(u, old.reserved) /\ DgUpto(u, new.used) => DgUpto(u, DgBaseAt(new))
     BY <3>7, <4>4, <4>7, <4>8, DgSettlesWithin
   <4>10. DgBaseAt(old) = old.reserved /\ x.used \in Amounts BY <3>7, <4>4 DEF DgBaseAt, DgChildSet
   <4>11. dgFaults = 0 => DgUpto(x.used, DgBaseAt(new))
    <5>1. dgFaults = 0 => DgUpto(x.used, old.reserved) /\ DgUpto(x.used, was.used)
      BY <3>1, <3>5, <3>6, <4>1, <4>2, <4>4, <4>10 DEF DgChildOk
    <5> QED BY <4>8, <4>9, <4>10, <5>1
   <4>12. new.status # "running" /\ new.status # "none" BY <4>8 DEF Terminal
   <4>13. /\ new.status = "succeeded" => x.terminal = "succeeded"
          /\ was.evidence => x.evidence BY <3>1, <3>6, <4>1, <4>2, <4>8 DEF DgChildOk
   <4>14. c \in dgEvidence' => was.evidence BY <1>4, <4>1, <4>4
   <4>15. dgFaults = 0 => (x.at = "ended" => x.terminal # "none") BY <3>1, <3>6 DEF DgChildOk
   <4>16. ~(c[1] > dgRun) BY <4>4 DEF DgInv, DgTyped
   <4>17. DgChildOk(c, new, t, x, dgRun, "model", dgFaults, c \in dgEvidence')
     BY <3>4, <3>7, <4>8, <4>11, <4>12, <4>13, <4>14, <4>15, <4>16 DEF DgChildOk
   <4> QED BY <1>1, <1>4, <3>3, <3>5, <3>6, <4>6, <4>7, <4>9, <4>17
  <3>9. CASE c \notin Answered
   <4>1. dgLedger'[c] = old /\ (c \in dgEvidence' <=> c \in dgEvidence) BY <1>4, <3>5, <3>9
   <4>2. \A k \in DgAxes : DgBaseAt(old)[k] <= DgBaseAt(old)[k] BY <3>7, DgBaseTyped
   <4>3. DgChildOk(c, old, t, x, dgRun, "model", dgFaults, c \in dgEvidence')
     BY <3>1, <3>4, <3>5, <3>6, <3>7, <4>1 DEF DgChildOk
   <4> QED BY <1>1, <1>4, <3>3, <3>5, <3>6, <3>7, <4>1, <4>2, <4>3
  <3> QED BY <3>8, <3>9
 <2>2. dgLedger' \in [Children -> DgEntries] BY <1>4, <2>1
 <2>3. DgTyped'
  <3>1. dgEvidence' \subseteq Children BY <1>4 DEF DgInv, DgTyped, Answered
  <3> QED BY <1>1, <1>4, <2>2, <3>1, DgNoTasksTyped DEF DgInv, DgTyped
 <2>4. dgRun # 1 BY <1>1 DEF DgInv, DgFirst
 <2>5. DgFirst' BY <1>1, <2>4 DEF DgFirst
 <2>6. DgChildrenOk' BY <2>1 DEF DgChildrenOk
 <2>7. DgFits(dgLedger, dgRun, dgUsed)'
  <3>1. PICK L \in [Children -> DgEntries] : L = dgLedger BY DEF DgInv, DgTyped
  <3>2. PICK M \in [Children -> DgEntries] : M = dgLedger' BY <2>2
  <3>3. PICK run : run = dgRun OBVIOUS
  <3>4. PICK used \in Amounts : used = dgUsed BY DEF DgInv, DgTyped
  <3>5. \A c \in Children : \A k \in DgAxes : DgBaseAt(M[c])[k] <= DgBaseAt(L[c])[k]
    BY <2>1, <3>1, <3>2
  <3>6. ASSUME NEW k \in DgAxes PROVE used[k] + DgCap(M, run, k) <= DgLimit[k] + DgOver[k]
   <4>1. used[k] + DgCap(L, run, k) <= DgLimit[k] + DgOver[k]
     BY <2>4, <3>1, <3>3, <3>4 DEF DgInv, DgFits
   <4>2. DgCap(M, run, k) <= DgCap(L, run, k) BY <3>5, DgCapShrinks
   <4>3. DgCap(M, run, k) \in Nat /\ DgCap(L, run, k) \in Nat BY DgCapLeq
   <4>4. used \in [DgAxes -> Nat] BY DgAmounts
   <4>5. used[k] \in Nat BY <4>4
   <4> QED BY <4>1, <4>2, <4>3, <4>5, DgLimits
  <3>7. DgFits(M, run, used) BY <3>6 DEF DgFits
  <3> QED BY <1>1, <3>2, <3>3, <3>4, <3>7 DEF DgFits, DgCap, DgBases, DgOfRun
 <2> QED BY <2>3, <2>5, <2>6, <2>7 DEF DgInv
<1> QED BY <1>3, <1>4 DEF DgApply

\* A batch of at most so many calls.
LEMMA CxBatch ==
  ASSUME NEW X, NEW n \in Nat, NEW b \in SeqOf(X, n)
  PROVE  b \in Seq(X) /\ Len(b) \in Nat
<1>1. PICK m \in 0..n : b \in [1..m -> X] BY DEF SeqOf
<1>2. b \in Seq(X) BY <1>1
<1> QED BY <1>2

\* A batch without repeated calls.
LEMMA DgBatch ==
  ASSUME DgAssumption, ~DgReuse, NEW batch \in Batches
  PROVE  /\ batch \in Seq([call : DgCalls, type : DgTypes]) /\ Len(batch) \in Nat
         /\ \A i \in DOMAIN batch : ChildOf(batch[i].call) \notin Prior
<1>1. PICK X : X = [call : DgCalls, type : DgTypes] OBVIOUS
<1>2. batch \in SeqOf(X, DgMaxBatch) /\ \A i \in DOMAIN batch : ChildOf(batch[i].call) \notin Prior
  BY <1>1 DEF Batches
<1>3. batch \in Seq(X) /\ Len(batch) \in Nat BY <1>2, CxBatch DEF DgAssumption
<1> QED BY <1>1, <1>2, <1>3

\* What a model call leaves the children is what the limits leave, less a call.
LEMMA DgRemainingIs ==
  ASSUME DgAssumption, dgLedger \in [Children -> DgEntries], NEW used \in Amounts,
         \A k \in DgAxes : used[k] + ChildUsage[k] <= DgLimit[k]
  PROVE  /\ Remaining(used) \in Amounts
         /\ \A k \in DgAxes : Remaining(used)[k] + used[k] + ChildUsage[k] <= DgLimit[k]
<1>1. PICK cu \in Amounts : cu = ChildUsage BY DgChildUsageCharged
<1>2. PICK one : one = [tokens |-> 0, models |-> 1, tools |-> 0] OBVIOUS
<1>3. one \in Amounts BY <1>2 DEF Amounts
<1>4. PICK sum : sum = Plus(used, cu) OBVIOUS
<1>5. sum \in Amounts /\ \A k \in DgAxes : sum[k] = used[k] + cu[k] BY <1>4, DgPlus
<1>6. DgLimit \in Amounts BY DgLimits
<1>7. PICK rest : rest = Minus(DgLimit, sum) OBVIOUS
<1>8. /\ rest \in Amounts
      /\ \A k \in DgAxes : rest[k] = IF DgLimit[k] > sum[k] THEN DgLimit[k] - sum[k] ELSE 0
  BY <1>5, <1>6, <1>7, DgMinus
<1>9. PICK left : left = Minus(rest, one) OBVIOUS
<1>10. /\ left \in Amounts
       /\ \A k \in DgAxes : left[k] = IF rest[k] > one[k] THEN rest[k] - one[k] ELSE 0
  BY <1>3, <1>8, <1>9, DgMinus
<1>11. Remaining(used) = left BY <1>1, <1>2, <1>4, <1>7, <1>9 DEF Remaining
<1>12. ASSUME NEW k \in DgAxes PROVE left[k] + used[k] + cu[k] <= DgLimit[k]
 <2>1. used \in [DgAxes -> Nat] /\ cu \in [DgAxes -> Nat] /\ one \in [DgAxes -> Nat]
   BY <1>3, DgAmounts
 <2>2. used[k] \in Nat /\ cu[k] \in Nat /\ one[k] \in Nat /\ DgLimit[k] \in Nat BY <2>1, DgLimits
 <2>3. used[k] + cu[k] <= DgLimit[k] BY <1>1
 <2>4. /\ left[k] = IF rest[k] > one[k] THEN rest[k] - one[k] ELSE 0
       /\ rest[k] = IF DgLimit[k] > sum[k] THEN DgLimit[k] - sum[k] ELSE 0
       /\ sum[k] = used[k] + cu[k] BY <1>5, <1>8, <1>10
 <2>5. rest[k] + sum[k] = DgLimit[k] BY <2>2, <2>3, <2>4
 <2>6. rest[k] \in Nat /\ left[k] <= rest[k] BY <2>2, <2>3, <2>4
 <2> QED BY <2>2, <2>4, <2>5, <2>6
<1> QED BY <1>1, <1>10, <1>11, <1>12

\* What the parent's call costs it, with and without the message's tool calls.
LEMMA DgCallCosts ==
  ASSUME DgAssumption, dgUsed \in Amounts, NEW tokens \in DgUsages, NEW n \in Nat,
         NEW used, used = Plus(dgUsed, [tokens |-> tokens, models |-> 1, tools |-> 0]),
         NEW counted, counted = [used EXCEPT !.tools = @ + n]
  PROVE  /\ used \in Amounts /\ counted \in Amounts /\ tokens \in Nat /\ tokens <= DgOver["tokens"]
         /\ used.tokens = dgUsed.tokens + tokens /\ used.models = dgUsed.models + 1
         /\ used.tools = dgUsed.tools
         /\ counted.tokens = used.tokens /\ counted.models = used.models
         /\ counted.tools = used.tools + n
<1>1. PICK was \in Amounts : was = dgUsed OBVIOUS
<1>2. tokens \in Nat /\ tokens <= DgOver["tokens"] BY DgOverTyped
<1>3. PICK step : step = [tokens |-> tokens, models |-> 1, tools |-> 0] OBVIOUS
<1>4. step \in Amounts /\ step.tokens = tokens /\ step.models = 1 /\ step.tools = 0
  BY <1>2, <1>3 DEF Amounts
<1>5. used \in Amounts /\ \A k \in DgAxes : used[k] = was[k] + step[k] BY <1>1, <1>3, <1>4, DgPlus
<1>6. was.tokens \in Nat /\ was.models \in Nat /\ was.tools \in Nat BY DEF Amounts
<1>7. /\ used.tokens = was.tokens + tokens /\ used.models = was.models + 1
      /\ used.tools = was.tools BY <1>4, <1>5, <1>6 DEF DgAxes
<1>8. counted \in Amounts BY <1>5 DEF Amounts
<1>9. counted.tokens = used.tokens /\ counted.models = used.models /\ counted.tools = used.tools + n
  BY <1>5 DEF Amounts
<1> QED BY <1>1, <1>2, <1>5, <1>7, <1>8, <1>9

\* A total of the parent and its children.
LEMMA DgTotalIs ==
  ASSUME DgAssumption, dgLedger \in [Children -> DgEntries], NEW used \in Amounts
  PROVE  /\ Plus(used, ChildUsage).tokens = used.tokens + ChildUsage.tokens
         /\ Plus(used, ChildUsage).models = used.models + ChildUsage.models
         /\ Plus(used, ChildUsage).tools = used.tools + ChildUsage.tools
         /\ ChildUsage.tokens \in Nat /\ ChildUsage.models \in Nat /\ ChildUsage.tools \in Nat
<1>1. PICK cu \in Amounts : cu = ChildUsage BY DgChildUsageCharged
<1>2. \A k \in DgAxes : Plus(used, cu)[k] = used[k] + cu[k] BY DgPlus
<1> QED BY <1>1, <1>2 DEF DgAxes, Amounts

\* Below a limit is within it.
LEMMA CxNotReached ==
  ASSUME NEW a \in Nat, NEW b \in Nat, NEW l \in Nat, ~(a + b >= l)
  PROVE  a + b <= l OBVIOUS

\* Sums of naturals.
LEMMA CxNotOver ==
  ASSUME NEW a \in Nat, NEW b \in Nat, NEW n \in Nat, NEW l \in Nat, ~(a + b + n > l)
  PROVE  a + n + b <= l OBVIOUS

\* What is passed on from one bound to the next.
LEMMA CxChained ==
  ASSUME NEW cap \in Nat, NEW all \in Nat, NEW a \in Nat, NEW b \in Nat, NEW d \in Nat,
         NEW e \in Nat, NEW l \in Nat, NEW o \in Nat,
         all + a <= e + b, b + d + e <= l, cap <= all
  PROVE  d + cap <= l + o OBVIOUS

\* A message whose tools are not used ends the run within the budget.
LEMMA DgModelEnds ==
  ASSUME DgAssumption, DgInv, dgAt = "model", ~Exhausted(Plus(dgUsed, ChildUsage)),
         NEW tokens \in DgUsages,
         dgUsed' = Plus(dgUsed, [tokens |-> tokens, models |-> 1, tools |-> 0]),
         dgAt' = "idle",
         UNCHANGED <<dgRun, dgLedger, dgEvidence, dgTask, dgChild, dgStop, dgCrashed, dgFaults>>
  PROVE  DgInv'
<1>1. dgLedger \in [Children -> DgEntries] /\ dgUsed \in Amounts BY DEF DgInv, DgTyped
<1>2. PICK used : used = Plus(dgUsed, [tokens |-> tokens, models |-> 1, tools |-> 0]) OBVIOUS
<1>3. PICK counted : counted = [used EXCEPT !.tools = @ + 0] OBVIOUS
<1>4. /\ used \in Amounts /\ tokens \in Nat /\ tokens <= DgOver["tokens"]
      /\ used.tokens = dgUsed.tokens + tokens /\ used.models = dgUsed.models + 1
      /\ used.tools = dgUsed.tools BY <1>1, <1>2, <1>3, DgCallCosts
<1>5. PICK was \in Amounts : was = dgUsed BY <1>1
<1>6. /\ ~(was.tokens + ChildUsage.tokens >= DgLimit.tokens)
      /\ ~(was.models + ChildUsage.models >= DgLimit.models)
      /\ ChildUsage.tokens \in Nat /\ ChildUsage.models \in Nat
  BY <1>1, <1>5, DgTotalIs DEF Exhausted
<1>7. /\ DgCap(dgLedger, dgRun, "tokens") <= ChildUsage.tokens
      /\ DgCap(dgLedger, dgRun, "models") <= ChildUsage.models
      /\ \A k \in DgAxes : DgCap(dgLedger, dgRun, k) \in Nat
  BY <1>1, DgChildUsageCharged, DgCapLeq DEF DgAxes
<1>8. dgRun # 1 BY DEF DgInv, DgFirst
<1>9. \A k \in DgAxes : was[k] + DgCap(dgLedger, dgRun, k) <= DgLimit[k] + DgOver[k]
  BY <1>5, <1>8 DEF DgInv, DgFits
<1>10. /\ was.tokens \in Nat /\ was.models \in Nat /\ was.tools \in Nat
       /\ DgLimit.tokens \in Nat /\ DgLimit.models \in Nat
       /\ DgOver["tokens"] \in Nat /\ DgOver["models"] = 0 BY DgLimits, DgOverTyped DEF Amounts
<1>11. ASSUME NEW k \in DgAxes
       PROVE  used[k] + DgCap(dgLedger, dgRun, k) <= DgLimit[k] + DgOver[k]
 <2>1. CASE k = "tokens" BY <1>4, <1>5, <1>6, <1>7, <1>10, <2>1 DEF DgAxes
 <2>2. CASE k = "models" BY <1>4, <1>5, <1>6, <1>7, <1>10, <2>2 DEF DgAxes
 <2>3. CASE k = "tools"
  <3>1. used[k] = was[k] BY <1>4, <1>5, <2>3
  <3> QED BY <1>9, <3>1
 <2> QED BY <2>1, <2>2, <2>3 DEF DgAxes
<1>12. DgFits(dgLedger, dgRun, used) BY <1>11 DEF DgFits
<1>13. dgUsed' \in Amounts /\ DgFits(dgLedger, dgRun, dgUsed') BY <1>2, <1>4, <1>12
<1>14. /\ \A c \in Children : dgTask'[c].at = "none"
       /\ \A c \in Children : DgChildEnds(dgChild[c], dgChild'[c]) BY DgNoTasks DEF DgChildEnds
<1>15. /\ dgTask' \in [Children -> DgTaskSet] /\ dgChild' \in [Children -> DgChildSet]
       /\ dgStop' \in BOOLEAN /\ dgCrashed' \in BOOLEAN BY DEF DgInv, DgTyped
<1> QED BY <1>13, <1>14, <1>15, DgEndsRunWith

\* A message that may use its tools leaves all that is granted within the limits.
LEMMA DgModelFits ==
  ASSUME DgAssumption, DgInv, dgAt = "model", ~DgReuse, NEW batch \in Batches, batch # << >>,
         NEW tokens \in DgUsages,
         NEW used, used = Plus(dgUsed, [tokens |-> tokens, models |-> 1, tools |-> 0]),
         NEW counted, counted = [used EXCEPT !.tools = @ + Len(batch)],
         ~StopsTools(used, Len(batch)),
         NEW after, after = AfterModel(batch, counted)
  PROVE  /\ counted \in Amounts
         /\ \E rest \in Amounts : after \in DgAccs(dgLedger, rest, dgRun)
         /\ DgFits(after.ledger, dgRun, counted)
<1>1. dgLedger \in [Children -> DgEntries] /\ dgUsed \in Amounts /\ dgRun \in 1..DgMaxRuns
  BY DEF DgInv, DgTyped
<1>2. /\ batch \in Seq([call : DgCalls, type : DgTypes]) /\ Len(batch) \in Nat
      /\ \A i \in DOMAIN batch : ChildOf(batch[i].call) \notin Prior BY DgBatch
<1>3. PICK n \in Nat : n = Len(batch) BY <1>2
<1>4. n > 0 BY <1>2, <1>3
<1>5. /\ used \in Amounts /\ counted \in Amounts
      /\ counted.tokens = used.tokens /\ counted.models = used.models
      /\ counted.tools = used.tools + n BY <1>1, <1>3, DgCallCosts
<1>6. PICK cu \in Amounts : cu = ChildUsage /\ \A k \in DgAxes : cu[k] = DgCharged(dgLedger, dgRun, k)
  BY <1>1, DgChildUsageCharged
<1>7. /\ ~(used.tokens + cu.tokens >= DgLimit.tokens)
      /\ ~(used.models + cu.models >= DgLimit.models)
      /\ ~(used.tools + cu.tools + n > DgLimit.tools)
  BY <1>1, <1>3, <1>4, <1>5, <1>6, DgTotalIs DEF StopsTools
<1>8. /\ used.tokens \in Nat /\ used.models \in Nat /\ used.tools \in Nat
      /\ cu.tokens \in Nat /\ cu.models \in Nat /\ cu.tools \in Nat
      /\ DgLimit.tokens \in Nat /\ DgLimit.models \in Nat /\ DgLimit.tools \in Nat
  BY <1>5, DgLimits DEF Amounts
<1>9. \A k \in DgAxes : counted[k] + cu[k] <= DgLimit[k]
 <2>1. counted.tokens + cu.tokens <= DgLimit.tokens
  <3>1. PICK a \in Nat : a = used.tokens BY <1>8
  <3>2. PICK b \in Nat : b = cu.tokens BY <1>8
  <3>3. PICK l \in Nat : l = DgLimit.tokens BY <1>8
  <3>4. ~(a + b >= l) BY <1>7, <3>1, <3>2, <3>3
  <3>5. a + b <= l BY <3>4, CxNotReached
  <3> QED BY <1>5, <3>1, <3>2, <3>3, <3>5
 <2>2. counted.models + cu.models <= DgLimit.models
  <3>1. PICK a \in Nat : a = used.models BY <1>8
  <3>2. PICK b \in Nat : b = cu.models BY <1>8
  <3>3. PICK l \in Nat : l = DgLimit.models BY <1>8
  <3>4. ~(a + b >= l) BY <1>7, <3>1, <3>2, <3>3
  <3>5. a + b <= l BY <3>4, CxNotReached
  <3> QED BY <1>5, <3>1, <3>2, <3>3, <3>5
 <2>3. counted.tools + cu.tools <= DgLimit.tools
  <3>1. PICK a \in Nat : a = used.tools BY <1>8
  <3>2. PICK b \in Nat : b = cu.tools BY <1>8
  <3>3. PICK l \in Nat : l = DgLimit.tools BY <1>8
  <3>4. ~(a + b + n > l) BY <1>7, <3>1, <3>2, <3>3
  <3>5. a + n + b <= l BY <3>4, CxNotOver
  <3> QED BY <1>5, <3>1, <3>2, <3>3, <3>5
 <2> QED BY <2>1, <2>2, <2>3 DEF DgAxes
<1>10. /\ Remaining(counted) \in Amounts
       /\ \A k \in DgAxes : Remaining(counted)[k] + counted[k] + cu[k] <= DgLimit[k]
  BY <1>1, <1>5, <1>6, <1>9, DgRemainingIs
<1>11. PICK rest \in Amounts : rest = Remaining(counted) BY <1>10
<1>12. AfterModel(batch, counted) \in DgAccs(dgLedger, Remaining(counted), dgRun)
  BY <1>1, <1>2, <1>10, DgAfterModelWithin
<1>13. after \in DgAccs(dgLedger, rest, dgRun) BY <1>11, <1>12
<1>14. PICK M \in [Children -> DgEntries] : M = after.ledger BY <1>13 DEF DgAccs
<1>15. PICK left \in Amounts : left = after.rest BY <1>13 DEF DgAccs
<1>16. ASSUME NEW k \in DgAxes PROVE counted[k] + DgCap(M, dgRun, k) <= DgLimit[k] + DgOver[k]
 <2>1. DgCharged(M, dgRun, k) + left[k] <= DgCharged(dgLedger, dgRun, k) + rest[k]
   BY <1>13, <1>14, <1>15 DEF DgAccs
 <2>2. DgCharged(M, dgRun, k) + left[k] <= cu[k] + rest[k] /\ rest[k] + counted[k] + cu[k] <= DgLimit[k]
   BY <1>6, <1>10, <1>11, <2>1
 <2>3. DgCap(M, dgRun, k) \in Nat /\ DgCharged(M, dgRun, k) \in Nat
       /\ DgCap(M, dgRun, k) <= DgCharged(M, dgRun, k)
  <3>1. PICK run : run = dgRun OBVIOUS
  <3>2. DgCap(M, run, k) \in Nat /\ DgCharged(M, run, k) \in Nat
        /\ DgCap(M, run, k) <= DgCharged(M, run, k) BY DgCapLeq
  <3> QED BY <3>1, <3>2
 <2>4. /\ left \in [DgAxes -> Nat] /\ rest \in [DgAxes -> Nat] /\ counted \in [DgAxes -> Nat]
       /\ cu \in [DgAxes -> Nat] BY <1>5, DgAmounts
 <2>5. left[k] \in Nat /\ rest[k] \in Nat /\ counted[k] \in Nat /\ cu[k] \in Nat BY <2>4
 <2>6. DgLimit[k] \in Nat /\ DgOver[k] \in Nat BY DgLimits
 <2>7. PICK cap \in Nat : cap = DgCap(M, dgRun, k) BY <2>3
 <2>8. PICK all \in Nat : all = DgCharged(M, dgRun, k) BY <2>3
 <2>9. PICK a \in Nat : a = left[k] BY <2>5
 <2>10. PICK b \in Nat : b = rest[k] BY <2>5
 <2>11. PICK d \in Nat : d = counted[k] BY <2>5
 <2>12. PICK e \in Nat : e = cu[k] BY <2>5
 <2>13. PICK l \in Nat : l = DgLimit[k] BY <2>6
 <2>14. PICK o \in Nat : o = DgOver[k] BY <2>6
 <2>15. all + a <= e + b /\ b + d + e <= l /\ cap <= all
   BY <2>2, <2>3, <2>7, <2>8, <2>9, <2>10, <2>11, <2>12, <2>13
 <2>16. d + cap <= l + o BY <2>15, CxChained
 <2> QED BY <2>7, <2>11, <2>13, <2>14, <2>16
<1>17. DgFits(M, dgRun, counted) BY <1>16 DEF DgFits
<1> QED BY <1>5, <1>13, <1>14, <1>17

\* The task of a child after a message: none, or one that is about to start.
DgTaskBegins(t, at) ==
  \/ t.at = "none"
  \/ t.at = "starting" /\ t.result = "none" /\ ~t.evidence /\ at = "tools"

\* The tasks of the calls that were kept.
DgTasksOf(after) ==
  [c \in Children |->
     IF \E k \in after.kept : k.child = c
     THEN [at |-> "starting", type |-> (CHOOSE k \in after.kept : k.child = c).type,
           result |-> "none", used |-> None, evidence |-> FALSE]
     ELSE NoTask]

\* A child that a message opens.
LEMMA DgOpensOk ==
  ASSUME DgAssumption, NEW c \in Children, NEW old, NEW e \in DgEntries, NEW was, NEW t, NEW x,
         NEW run \in Nat, NEW at, NEW faults, NEW held,
         DgChildOk(c, old, was, x, run, "model", faults, held),
         DgOpens(c, old, e, run),
         DgTaskBegins(t, at)
  PROVE  DgChildOk(c, e, t, x, run, at, faults, held)
<1>1. /\ c[1] = run /\ old.status = "none" /\ e.status = "running"
      /\ e.reserved.models = e.reserved.tools + 2 BY DEF DgOpens
<1>2. x = NoChild BY <1>1 DEF DgChildOk
<1>3. ~held BY <1>1 DEF DgChildOk, Terminal
<1>4. DgBaseAt(e) = e.reserved /\ e.reserved \in Amounts BY <1>1 DEF DgBaseAt, DgEntries
<1>5. DgUpto(x.used, DgBaseAt(e)) BY <1>2, <1>4, DgUptoNone, DgValues
<1>6. x.at # "running" /\ x.at # "ended" BY <1>2, DgValues
<1>7. ~(c[1] > run) BY <1>1
<1> QED BY <1>1, <1>2, <1>3, <1>5, <1>6, <1>7 DEF DgChildOk, DgTaskBegins

\* A message whose tools are used.
LEMMA DgModelGoesOn ==
  ASSUME DgAssumption, DgInv, dgAt = "model", ~DgReuse, NEW batch \in Batches, batch # << >>,
         NEW tokens \in DgUsages,
         NEW used, used = Plus(dgUsed, [tokens |-> tokens, models |-> 1, tools |-> 0]),
         NEW counted, counted = [used EXCEPT !.tools = @ + Len(batch)],
         ~StopsTools(used, Len(batch)),
         NEW after, after = AfterModel(batch, counted),
         dgUsed' = counted, dgLedger' = after.ledger,
         dgAt' = IF after.kept = {} THEN "idle" ELSE "tools",
         dgTask' = DgTasksOf(after),
         UNCHANGED <<dgRun, dgEvidence, dgChild, dgStop, dgCrashed, dgFaults>>
  PROVE  DgInv'
<1>1. /\ counted \in Amounts
      /\ \E rest \in Amounts : after \in DgAccs(dgLedger, rest, dgRun)
      /\ DgFits(after.ledger, dgRun, counted) BY DgModelFits
<1>2. PICK rest \in Amounts : after \in DgAccs(dgLedger, rest, dgRun) BY <1>1
<1>3. PICK L : L = dgLedger OBVIOUS
<1>4. PICK M : M = after.ledger OBVIOUS
<1>5. PICK kept : kept = after.kept OBVIOUS
<1>6. /\ M \in [Children -> DgEntries] /\ kept \in SUBSET [child : Children, type : DgTypes]
      /\ \A c \in Children : M[c] = L[c] \/ DgOpens(c, L[c], M[c], dgRun)
      /\ \A m \in kept : DgOpens(m.child, L[m.child], M[m.child], dgRun)
  BY <1>2, <1>3, <1>4, <1>5 DEF DgAccs
<1>7. ASSUME NEW c \in Children
      PROVE  /\ dgTask'[c] \in DgTaskSet
             /\ DgTaskBegins(dgTask'[c], dgAt')
             /\ dgTask'[c].at # "none" => DgOpens(c, L[c], M[c], dgRun)
 <2>1. CASE \E k \in kept : k.child = c
  <3>1. PICK m : m = CHOOSE k \in kept : k.child = c OBVIOUS
  <3>2. m \in kept /\ m.child = c BY <2>1, <3>1
  <3>3. m.type \in DgTypes /\ DgOpens(c, L[c], M[c], dgRun) BY <1>6, <3>2
  <3>4. dgTask'[c] = [at |-> "starting", type |-> m.type, result |-> "none", used |-> None,
                      evidence |-> FALSE] BY <1>5, <2>1, <3>1 DEF DgTasksOf
  <3>5. PICK t : t = [at |-> "starting", type |-> m.type, result |-> "none", used |-> None,
                      evidence |-> FALSE] OBVIOUS
  <3>6. t \in DgTaskSet /\ t.at = "starting" /\ t.result = "none" /\ ~t.evidence
    BY <3>3, <3>5, DgValues DEF DgTaskSet
  <3>7. dgAt' = "tools" BY <1>5, <3>2
  <3> QED BY <3>3, <3>4, <3>5, <3>6, <3>7 DEF DgTaskBegins
 <2>2. CASE ~ \E k \in kept : k.child = c
  <3>1. dgTask'[c] = NoTask BY <1>5, <2>2 DEF DgTasksOf
  <3> QED BY <3>1, DgValues DEF DgTaskBegins
 <2> QED BY <2>1, <2>2
<1>8. DgTyped'
 <2>1. dgTask' \in [Children -> DgTaskSet] BY <1>7 DEF DgTasksOf
 <2>2. dgLedger' \in [Children -> DgEntries] BY <1>4, <1>6
 <2>3. dgUsed' \in Amounts /\ dgAt' \in {"idle", "model", "tools"} BY <1>1
 <2> QED BY <2>1, <2>2, <2>3 DEF DgInv, DgTyped
<1>9. DgFirst' BY DEF DgInv, DgFirst
<1>10. DgChildrenOk'
 <2>1. ASSUME NEW c \in Children
       PROVE  DgChildOk(c, dgLedger'[c], dgTask'[c], dgChild'[c], dgRun', dgAt', dgFaults',
                        c \in dgEvidence')
  <3>1. PICK old : old = L[c] OBVIOUS
  <3>2. PICK e \in DgEntries : e = M[c] BY <1>6
  <3>3. PICK was : was = dgTask[c] OBVIOUS
  <3>4. PICK t : t = dgTask'[c] OBVIOUS
  <3>5. PICK x : x = dgChild[c] OBVIOUS
  <3>6. PICK run : run = dgRun OBVIOUS
  <3>7. PICK at : at = dgAt' OBVIOUS
  <3>8. PICK faults : faults = dgFaults OBVIOUS
  <3>9. PICK held : held = (c \in dgEvidence) OBVIOUS
  <3>10. DgChildOk(c, old, was, x, run, "model", faults, held)
    BY <1>3, <3>1, <3>3, <3>5, <3>6, <3>8, <3>9 DEF DgInv, DgChildrenOk
  <3>a. x.at # "running" /\ run \in Nat BY <3>5, <3>6, DgNoTasks DEF DgInv, DgTyped
  <3>b. e = old \/ DgOpens(c, old, e, run) BY <1>6, <3>1, <3>2, <3>6
  <3>11. DgTaskBegins(t, at) /\ (t.at # "none" => DgOpens(c, old, e, run))
    BY <1>7, <3>1, <3>2, <3>4, <3>6, <3>7
  <3>12. CASE DgOpens(c, old, e, run)
   <4>1. DgChildOk(c, e, t, x, run, at, faults, held) BY <3>10, <3>11, <3>12, <3>a, DgOpensOk
   <4> QED BY <1>4, <3>2, <3>4, <3>5, <3>6, <3>7, <3>8, <3>9, <4>1
  <3>13. CASE ~DgOpens(c, old, e, run)
   <4>1. e = old /\ t.at = "none" BY <3>11, <3>13, <3>b
   <4>2. DgChildOk(c, e, t, x, run, at, faults, held) BY <3>10, <3>a, <4>1 DEF DgChildOk
   <4> QED BY <1>4, <3>2, <3>4, <3>5, <3>6, <3>7, <3>8, <3>9, <4>2
  <3> QED BY <3>12, <3>13
 <2> QED BY <2>1 DEF DgChildrenOk
<1>11. DgFits(dgLedger, dgRun, dgUsed)' BY <1>1 DEF DgFits, DgCap, DgBases, DgOfRun
<1> QED BY <1>8, <1>9, <1>10, <1>11 DEF DgInv

\* A model call of the parent.
LEMMA DgModelKeeps ==
  ASSUME DgAssumption, DgInv, ~DgReuse, NEW batch \in Batches, NEW tokens \in DgUsages,
         DgModel(batch, tokens)
  PROVE  DgInv'
<1>1. PICK used : used = Plus(dgUsed, [tokens |-> tokens, models |-> 1, tools |-> 0]) OBVIOUS
<1>2. PICK counted : counted = [used EXCEPT !.tools = @ + Len(batch)] OBVIOUS
<1>3. PICK after : after = AfterModel(batch, counted) OBVIOUS
<1>4. /\ dgAt = "model" /\ ~Exhausted(Plus(dgUsed, ChildUsage))
      /\ UNCHANGED <<dgRun, dgEvidence, dgChild, dgStop, dgCrashed, dgFaults>> BY DEF DgModel
<1>5. CASE StopsTools(used, Len(batch)) \/ batch = << >>
 <2>1. dgAt' = "idle" /\ dgUsed' = used /\ UNCHANGED <<dgLedger, dgTask>> BY <1>1, <1>5 DEF DgModel
 <2> QED BY <1>1, <1>4, <2>1, DgModelEnds
<1>6. CASE ~StopsTools(used, Len(batch)) /\ batch # << >>
 <2>1. /\ dgUsed' = counted /\ dgLedger' = after.ledger
       /\ dgAt' = IF after.kept = {} THEN "idle" ELSE "tools"
       /\ dgTask' = DgTasksOf(after)
  <3>1. dgUsed' = counted /\ dgLedger' = after.ledger BY <1>1, <1>2, <1>3, <1>6 DEF DgModel
  <3>2. dgAt' = IF after.kept = {} THEN "idle" ELSE "tools" BY <1>1, <1>2, <1>3, <1>6 DEF DgModel
  <3>3. dgTask' = DgTasksOf(AfterModel(batch,
                    [Plus(dgUsed, [tokens |-> tokens, models |-> 1, tools |-> 0])
                       EXCEPT !.tools = @ + Len(batch)])) BY <1>1, <1>6 DEF DgModel, DgTasksOf
  <3> QED BY <1>1, <1>2, <1>3, <3>1, <3>2, <3>3
 <2> QED BY <1>1, <1>2, <1>3, <1>4, <1>6, <2>1, DgModelGoesOn
<1> QED BY <1>5, <1>6

\* Every step keeps the invariant.
LEMMA DgNextKeeps ==
  ASSUME DgAssumption, ~DgReuse, DgInv, [DgNext]_dgVars
  PROVE  DgInv'
<1>1. CASE DgBegin BY <1>1, DgBeginKeeps
<1>2. CASE DgParent
 <2>1. CASE DgCapped BY <2>1, DgCappedKeeps
 <2>2. CASE \E batch \in Batches, t \in DgUsages : DgModel(batch, t) BY <2>2, DgModelKeeps
 <2>3. CASE DgApply BY <2>3, DgApplyKeeps
 <2> QED BY <1>2, <2>1, <2>2, <2>3 DEF DgParent
<1>3. ASSUME NEW c \in Children, DgWork(c) \/ DgStoreFails(c) PROVE DgInv'
 <2>1. CASE DgBlankPrompt(c) BY <2>1, DgBlankPromptKeeps
 <2>2. CASE DgStart(c) BY <2>2, DgStartKeeps
 <2>3. CASE \E t \in DgUsages, n \in 0..2, found \in BOOLEAN : DgChildStep(c, t, n, found)
   BY <2>3, DgChildStepKeeps
 <2>4. CASE \E t \in DgUsages, text \in BOOLEAN : DgChildAnswers(c, t, text)
   BY <2>4, DgChildAnswersKeeps
 <2>5. CASE DgChildStops(c) BY <2>5, DgChildStopsKeeps
 <2>6. CASE DgChildFails(c) BY <2>6, DgChildFailsKeeps
 <2>7. CASE DgReturns(c) BY <2>7, DgReturnsKeeps
 <2>8. CASE DgTimesOut(c) BY <2>8, DgTimesOutKeeps
 <2>9. CASE DgStoreFails(c) BY <2>9, DgStoreFailsKeeps
 <2> QED BY <1>3, <2>1, <2>2, <2>3, <2>4, <2>5, <2>6, <2>7, <2>8, <2>9 DEF DgWork
<1>4. CASE DgRequestStop BY <1>4, DgRequestStopKeeps
<1>5. CASE DgCancelled BY <1>5, DgCancelledKeeps
<1>6. CASE DgCrash BY <1>6, DgCrashKeeps
<1>7. CASE UNCHANGED dgVars
 <2>1. UNCHANGED <<dgRun, dgAt, dgUsed, dgLedger, dgEvidence, dgTask, dgChild, dgStop, dgCrashed, dgFaults>>
   BY <1>7 DEF dgVars
 <2>2. DgTyped' /\ DgFirst' /\ DgChildrenOk' BY <2>1 DEF DgInv, DgTyped, DgFirst, DgChildrenOk
 <2>3. DgFits(dgLedger, dgRun, dgUsed)' BY <2>1 DEF DgInv, DgFits, DgCap, DgBases, DgOfRun
 <2> QED BY <2>2, <2>3 DEF DgInv
<1> QED BY <1>1, <1>2, <1>3, <1>4, <1>5, <1>6, <1>7 DEF DgNext

\* What is granted, and one call more of every agent, bounds what is used.
LEMMA DgUsedBounded ==
  ASSUME DgAssumption, DgInv, dgFaults = 0, NEW k \in DgAxes
  PROVE  /\ Spent[k] <= DgLimit[k] + DgOver[k] + DgOver[k] * Cardinality(Prior)
         /\ Spent[k] \in Nat /\ Cardinality(Prior) \in Nat
<1>1. /\ dgLedger \in [Children -> DgEntries] /\ dgChild \in [Children -> DgChildSet]
      /\ dgUsed \in Amounts BY DEF DgInv, DgTyped
<1>2. PICK S : S = DgOfRun(dgRun) OBVIOUS
<1>3. S \subseteq Children /\ IsFiniteSet(S) /\ Prior \in SUBSET S /\ Cardinality(Prior) \in Nat
  BY <1>2, DgFinite, FS_CardinalityType DEF DgOfRun, Prior
<1>4. PICK F : F = [c \in S |-> dgChild[c].used] OBVIOUS
<1>5. F \in [S -> Amounts] BY <1>1, <1>3, <1>4 DEF DgChildSet
<1>6. PICK real : real = DgAxis(F, S, k) OBVIOUS
<1>7. real \in [S -> Nat] /\ \A c \in S : real[c] = dgChild[c].used[k]
  BY <1>4, <1>5, <1>6, DgAxisTyped
<1>8. Spent \in Amounts /\ Spent[k] = dgUsed[k] + CxTotal(real, S)
  BY <1>1, <1>2, <1>4, <1>6, DgSpentIs
<1>9. PICK over \in Nat : over = DgOver[k] BY DgOverTyped
<1>10. PICK base : base = DgBases(dgLedger, S, k) OBVIOUS
<1>11. base \in [S -> Nat] BY <1>1, <1>3, <1>10, DgBaseTyped DEF DgBases
<1>12. PICK extra : extra = [c \in S |-> IF c \in Prior THEN over ELSE 0] OBVIOUS
<1>13. extra \in [S -> Nat] /\ \A c \in S : extra[c] = IF c \in Prior THEN over ELSE 0 BY <1>12
<1>14. PICK both : both = [c \in S |-> base[c] + extra[c]] OBVIOUS
<1>15. both \in [S -> Nat] /\ \A c \in S : both[c] = base[c] + extra[c] BY <1>11, <1>13, <1>14
<1>16. ASSUME NEW c \in S PROVE real[c] <= both[c]
 <2>1. DgChildOk(c, dgLedger[c], dgTask[c], dgChild[c], dgRun, dgAt, dgFaults, c \in dgEvidence)
   BY <1>3 DEF DgInv, DgChildrenOk
 <2>2. c \in Children /\ c[1] = dgRun /\ base[c] \in Nat /\ extra[c] \in Nat /\ real[c] \in Nat
   BY <1>2, <1>3, <1>7, <1>11, <1>13 DEF DgOfRun
 <2>3. CASE dgLedger[c].status = "none"
  <3>1. dgChild[c].used = None BY <2>1, <2>3, DgValues DEF DgChildOk
  <3>2. real[c] = 0 BY <1>7, <3>1, DgValues
  <3> QED BY <1>15, <2>2, <3>2
 <2>4. CASE dgLedger[c].status # "none"
  <3>1. DgUpto(dgChild[c].used, DgBaseAt(dgLedger[c])) BY <2>1, <2>2, <2>4 DEF DgChildOk
  <3>2. dgChild[c].used[k] <= DgBaseAt(dgLedger[c])[k] + DgOver[k] BY <3>1 DEF DgUpto
  <3>3. c \in Prior BY <2>2, <2>4 DEF Prior
  <3>4. base[c] = DgBaseAt(dgLedger[c])[k] BY <1>10 DEF DgBases
  <3> QED BY <1>7, <1>9, <1>13, <1>15, <3>2, <3>3, <3>4
 <2> QED BY <2>3, <2>4
<1>17. CxTotal(real, S) <= CxTotal(both, S) BY <1>3, <1>7, <1>15, <1>16, CxTotalLeq
<1>18. CxTotal(both, S) = CxTotal(base, S) + CxTotal(extra, S)
  BY <1>3, <1>11, <1>13, <1>15, CxTotalPlus
<1>19. CxTotal(extra, S) = over * Cardinality(Prior) BY <1>3, <1>13, CxTotalShare
<1>20. CxTotal(base, S) = DgCap(dgLedger, dgRun, k) BY <1>2, <1>10 DEF DgCap
<1>21. dgUsed[k] + DgCap(dgLedger, dgRun, k) <= DgLimit[k] + over \/ dgRun = 1
  BY <1>9 DEF DgInv, DgFits
<1>22. /\ CxTotal(real, S) \in Nat /\ CxTotal(both, S) \in Nat /\ CxTotal(base, S) \in Nat
       /\ CxTotal(extra, S) \in Nat BY <1>3, <1>7, <1>11, <1>13, <1>15, CxTotalType
<1>23. PICK was \in Nat : was = dgUsed[k]
 <2>1. dgUsed \in [DgAxes -> Nat] BY <1>1, DgAmounts
 <2> QED BY <2>1
<1>24. PICK limit \in Nat : limit = DgLimit[k] BY DgLimits
<1>25. PICK p \in Nat : p = Cardinality(Prior) BY <1>3
<1>26. over * p \in Nat OBVIOUS
<1>27. CASE dgRun # 1
 <2>1. was + CxTotal(base, S) <= limit + over BY <1>9, <1>20, <1>21, <1>23, <1>24, <1>27
 <2>2. was + CxTotal(real, S) <= limit + over + over * p
   BY <1>17, <1>18, <1>19, <1>22, <1>25, <1>26, <2>1
 <2> QED BY <1>3, <1>8, <1>9, <1>22, <1>23, <1>24, <1>25, <2>2
<1>28. CASE dgRun = 1
 <2>1. dgUsed = None /\ \A c \in Children : dgChild[c].used = None BY <1>28 DEF DgInv, DgFirst
 <2>2. was = 0 BY <1>23, <2>1, DgValues
 <2>3. \A c \in S : real[c] = IF c \in {} THEN 0 ELSE 0 BY <1>3, <1>7, <2>1, DgValues
 <2>4. CxTotal(real, S) = 0 * Cardinality({}) BY <1>3, <1>7, <2>3, CxTotalShare
 <2>5. Cardinality({}) = 0 BY FS_EmptySet
 <2>6. CxTotal(real, S) = 0 BY <2>4, <2>5
 <2>7. was + CxTotal(real, S) <= limit + over + over * p BY <1>26, <2>2, <2>6
 <2> QED BY <1>3, <1>8, <1>9, <1>22, <1>23, <1>24, <1>25, <2>7
<1> QED BY <1>27, <1>28

\* One more share.
LEMMA CxOneMore ==
  ASSUME NEW m \in Nat, NEW p \in Nat
  PROVE  m * (1 + p) = m + m * p /\ m * p \in Nat OBVIOUS

\* The invariant gives what the runs check.
LEMMA DgInvHolds ==
  ASSUME DgAssumption, DgInv
  PROVE  DgTypeOK /\ DgRunHolds
<1>1. DgTypeOK
 <2>1. ASSUME NEW c \in Children
       PROVE  /\ dgLedger[c] \in DgEntries /\ dgTask[c] \in DgTaskSet /\ dgChild[c] \in DgChildSet
   BY DEF DgInv, DgTyped
 <2> QED BY <2>1 DEF DgInv, DgTyped, DgTypeOK, DgEntries, DgTaskSet, DgChildSet
<1>2. DgWithinBudget
 <2>1. SUFFICES ASSUME dgFaults = 0
       PROVE  /\ Spent.models <= DgLimit.models /\ Spent.tools <= DgLimit.tools
              /\ Spent.tokens <= DgLimit.tokens + Max(DgUsages) * (1 + Cardinality(Prior))
   BY DEF DgWithinBudget
 <2>2. Cardinality(Prior) \in Nat BY <2>1, DgUsedBounded DEF DgAxes
 <2>3. PICK p \in Nat : p = Cardinality(Prior) BY <2>2
 <2>4. PICK m \in Nat : m = Max(DgUsages) BY DgOverTyped
 <2>5. Spent.models <= DgLimit.models
  <3>1. Spent["models"] <= DgLimit["models"] + DgOver["models"] + DgOver["models"] * Cardinality(Prior)
        /\ Spent["models"] \in Nat BY <2>1, DgUsedBounded DEF DgAxes
  <3>2. 0 * p = 0 /\ DgOver["models"] = 0 /\ DgLimit["models"] \in Nat
    BY DgOverTyped, DgLimits DEF DgAxes
  <3> QED BY <2>3, <3>1, <3>2
 <2>6. Spent.tools <= DgLimit.tools
  <3>1. Spent["tools"] <= DgLimit["tools"] + DgOver["tools"] + DgOver["tools"] * Cardinality(Prior)
        /\ Spent["tools"] \in Nat BY <2>1, DgUsedBounded DEF DgAxes
  <3>2. 0 * p = 0 /\ DgOver["tools"] = 0 /\ DgLimit["tools"] \in Nat
    BY DgOverTyped, DgLimits DEF DgAxes
  <3> QED BY <2>3, <3>1, <3>2
 <2>7. Spent.tokens <= DgLimit.tokens + Max(DgUsages) * (1 + Cardinality(Prior))
  <3>1. Spent["tokens"] <= DgLimit["tokens"] + DgOver["tokens"] + DgOver["tokens"] * Cardinality(Prior)
    BY <2>1, DgUsedBounded DEF DgAxes
  <3>2. DgOver["tokens"] = m /\ DgLimit["tokens"] \in Nat BY <2>4, DgOverTyped, DgLimits DEF DgAxes
  <3>3. m * (1 + p) = m + m * p /\ m * p \in Nat BY CxOneMore
  <3> QED BY <2>3, <2>4, <3>1, <3>2, <3>3
 <2> QED BY <2>5, <2>6, <2>7
<1>3. DgChildrenSettled
 <2>1. ASSUME NEW c \in Children
       PROVE  /\ dgAt = "idle" => dgChild[c].at # "running"
              /\ dgChild[c].at = "ended" /\ dgFaults = 0 => dgChild[c].terminal # "none"
              /\ dgLedger[c].status = "succeeded" => dgChild[c].terminal = "succeeded"
              /\ c \in dgEvidence => dgChild[c].evidence
  <3>1. DgChildOk(c, dgLedger[c], dgTask[c], dgChild[c], dgRun, dgAt, dgFaults, c \in dgEvidence)
    BY DEF DgInv, DgChildrenOk
  <3> QED BY <3>1 DEF DgChildOk
 <2> QED BY <2>1 DEF DgChildrenSettled
<1> QED BY <1>1, <1>2, <1>3 DEF DgRunHolds

\* When the model never repeats a call id within a run, the parent and all its
\* children keep to one budget (the model and tool calls they really make stay
\* within the run's limits, the tokens exceed them by at most one call of every
\* agent), however a message's reservations are shared out and whichever child
\* times out, fails or is cancelled; no child outlives its run, and the ledger
\* and the run store agree on how a child ended.
THEOREM RunBudgetHolds ==
  ASSUME ~DgReuse
  PROVE  DgSpec => [](DgTypeOK /\ DgRunHolds)
<1>1. DgInit => DgInv BY DgAssumption, DgInitInv
<1>2. DgInv /\ [DgNext]_dgVars => DgInv' BY DgAssumption, DgNextKeeps
<1>3. DgInv => DgTypeOK /\ DgRunHolds BY DgAssumption, DgInvHolds
<1> QED BY <1>1, <1>2, <1>3, PTL DEF DgSpec
====
