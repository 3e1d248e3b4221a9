---- MODULE PlatformProofs ----
(* What an agent runs for and on, proved for any number of accounts,
   requests, providers and commits.

   Admission to the cloud control plane is safe whatever requests run
   beside each other, aborted or not: what a request has checked stays
   true until it commits, because the row it checked is locked.

   The default model of an account exists and its keys leave only to a
   checked address: a request keeps the address it checked, and the rows
   of a deleted provider are gone before a preference can name them.

   The Canary's containers find their schema, its record is true between
   deployments that neither died nor overlapped, and failures in a row
   pause it: at most one job is under way, it remembers the version that
   was recorded when it began, and what is recorded or failed waits for
   that job alone.

   The maintenance loop has one request open and merges what was reviewed:
   only a run that lost its lease while it worked can add another, and
   every request, or run that may still open one, is paid for by such a
   loss, but for the one that the lease itself stands for. *)
EXTENDS MCPlatform, FiniteSetTheorems, SequenceTheorems, TLAPS

--------------------
(* Accounts: admission. *)

CaMail == CaEmails \cup {CaNoEmail}
CaPoints == {"idle", "canary_invite", "canary_user", "provider", "identity", "register",
             "registering", "registered", "credential", "login", "session", "done", "refused"}

CaInviteRow  == [state: {"none", "fresh", "consumed"}, email: CaMail, by: CaMail]
CaTxnRow     == [state: {"none", "open", "consumed", "expired"}, code: CaCodes \cup {CaNoCode},
                 email: CaMail]
CaSessionRow == [user: CaMail, state: {"none", "active", "expired", "revoked"}]
CaRequest    == [at: CaPoints, kind: {"canary", "github", "development"},
                 code: CaCodes \cup {CaNoCode}, email: CaMail, txn: CaTxns \cup {CaNoTxn}]
CaIdentityRows == {"canary_invite", "github", "development"} \X CaEmails

CaTablesTyped ==
  /\ caInvites \in [CaCodes -> CaInviteRow]
  /\ caUsers \in [CaEmails -> {"absent", "active", "disabled"}]
  /\ caIdentities \subseteq CaIdentityRows
  /\ caTxns \in [CaTxns -> CaTxnRow]
  /\ caSessions \in [CaRequests -> CaSessionRow]
  /\ caUses \in [CaCodes -> Nat]
  /\ \A t \in CaTxns : caTxns[t].state # "none" => caTxns[t].email \in CaEmails

\* A row is locked by one request at a time.
CaLocksHold ==
  \A r, q \in CaRequests : r # q =>
    /\ caReq[r].at \in CaHoldsUser /\ caReq[q].at \in CaHoldsUser =>
         caReq[r].email # caReq[q].email
    /\ caReq[r].at \in CaHoldsInvite /\ caReq[q].at \in CaHoldsInvite =>
         caReq[r].code # caReq[q].code

\* Somebody was admitted to the account.
CaAdmitted(e) == \E i \in caIdentities : i[2] = e

\* Another device fits.
CaRoom(e) == Cardinality(CaActive(e)) < CaMaxDevices

\* What a request has checked holds while it has the row it checked.
CaChecked(q) ==
  /\ q.at \notin {"idle", "done", "refused"} => q.email \in CaEmails
  /\ q.at \in {"provider", "identity", "register", "registering", "registered"} =>
       q.kind # "canary"
  /\ q.at \in {"register", "registering"} => q.code \in CaCodes
  /\ q.at \in CaHoldsInvite =>
       /\ q.code \in CaCodes /\ caInvites[q.code].state = "fresh"
       /\ caInvites[q.code].email \in {CaNoEmail, q.email}
  /\ q.at \in {"credential", "login", "session"} => CaAdmitted(q.email)
  /\ q.at = "canary_user" => caUsers[q.email] # "disabled" /\ CaRoom(q.email)
  /\ q.at = "session" => caUsers[q.email] = "active" /\ CaRoom(q.email)
  /\ q.txn # CaNoTxn => caTxns[q.txn].state = "consumed"

\* Invites: one use when spent, and never fewer spent than identities.
CaSpent == {c \in CaCodes : caUses[c] = 1}
CaInvitesHold ==
  /\ \A c \in CaCodes :
       /\ caUses[c] = IF caInvites[c].state = "consumed" THEN 1 ELSE 0
       /\ caInvites[c].state = "consumed" =>
            caInvites[c].email \in {CaNoEmail, caInvites[c].by} /\ CaAdmitted(caInvites[c].by)
  /\ IsFiniteSet(caIdentities) /\ IsFiniteSet(CaSpent)
  /\ Cardinality(caIdentities) <= Cardinality(CaSpent)

\* Sessions: of admitted accounts, within the limit, none of a disabled one.
CaSessionsHold ==
  /\ \A s \in CaRequests : caSessions[s].state = "active" =>
       caSessions[s].user \in CaEmails /\ CaAdmitted(caSessions[s].user)
  /\ \A e \in CaEmails :
       /\ IsFiniteSet(CaActive(e)) /\ Cardinality(CaActive(e)) <= CaMaxDevices
       /\ caUsers[e] = "disabled" => CaActive(e) = {}

CaOneCallback ==
  \A r, q \in CaRequests : caReq[r].txn # CaNoTxn /\ caReq[q].txn = caReq[r].txn => r = q

\* The inductive invariant.
CaInv ==
  /\ CaTablesTyped /\ caReq \in [CaRequests -> CaRequest]
  /\ CaLocksHold /\ CaInvitesHold /\ CaSessionsHold /\ CaOneCallback
  /\ \A r \in CaRequests : CaChecked(caReq[r])

--------------------
(* Types. *)

\* A row of a table with new fields is a row.
LEMMA CaRowTyped ==
  /\ \A row \in CaInviteRow, v \in {"none", "fresh", "consumed"}, e \in CaMail :
       /\ [row EXCEPT !.state = v, !.email = e] \in CaInviteRow
       /\ [row EXCEPT !.state = v, !.by = e] \in CaInviteRow
  /\ \A row \in CaTxnRow, v \in {"none", "open", "consumed", "expired"} :
       [row EXCEPT !.state = v] \in CaTxnRow /\ [row EXCEPT !.state = v].email = row.email
  /\ \A row \in CaSessionRow, v \in {"none", "active", "expired", "revoked"} :
       [row EXCEPT !.state = v] \in CaSessionRow
  /\ \A q \in CaRequest, p \in CaPoints :
       /\ [q EXCEPT !.at = p] \in CaRequest
       /\ [q EXCEPT !.at = p].kind = q.kind /\ [q EXCEPT !.at = p].code = q.code
       /\ [q EXCEPT !.at = p].email = q.email /\ [q EXCEPT !.at = p].txn = q.txn
       /\ [q EXCEPT !.at = p].at = p
<1>1. ASSUME NEW row \in CaInviteRow, NEW v \in {"none", "fresh", "consumed"}, NEW e \in CaMail
      PROVE  /\ [row EXCEPT !.state = v, !.email = e] \in CaInviteRow
             /\ [row EXCEPT !.state = v, !.by = e] \in CaInviteRow BY DEF CaInviteRow
<1>2. ASSUME NEW row \in CaTxnRow, NEW v \in {"none", "open", "consumed", "expired"}
      PROVE  [row EXCEPT !.state = v] \in CaTxnRow /\ [row EXCEPT !.state = v].email = row.email
  BY DEF CaTxnRow
<1>3. ASSUME NEW row \in CaSessionRow, NEW v \in {"none", "active", "expired", "revoked"}
      PROVE  [row EXCEPT !.state = v] \in CaSessionRow BY DEF CaSessionRow
<1>4. ASSUME NEW q \in CaRequest, NEW p \in CaPoints
      PROVE  /\ [q EXCEPT !.at = p] \in CaRequest
             /\ [q EXCEPT !.at = p].kind = q.kind /\ [q EXCEPT !.at = p].code = q.code
             /\ [q EXCEPT !.at = p].email = q.email /\ [q EXCEPT !.at = p].txn = q.txn
             /\ [q EXCEPT !.at = p].at = p BY DEF CaRequest
<1> QED BY Zenon, <1>1, <1>2, <1>3, <1>4

--------------------
(* A request moves. *)

\* The rows request r would hold with record q are free.
CaFree(r, q) ==
  /\ q.at \in CaHoldsUser => CaUserFree(r, q.email)
  /\ q.at \in CaHoldsInvite => CaInviteFree(r, q.code)

\* A request that changes its record keeps the locks apart when its rows are free.
LEMMA CaLocksKept ==
  ASSUME CaLocksHold, NEW r \in CaRequests, NEW q, CaFree(r, q),
         caReq \in [CaRequests -> CaRequest], caReq' = [caReq EXCEPT ![r] = q]
  PROVE  CaLocksHold'
BY DEF CaLocksHold, CaFree, CaUserFree, CaInviteFree

\* The rows that record q has in hand, as they are and as they will be.
CaRowsKept(q) ==
  /\ caIdentities \subseteq caIdentities'
  /\ \A t \in CaTxns : caTxns[t].state = "consumed" => caTxns'[t].state = "consumed"
  /\ q.at \in CaHoldsInvite => caInvites'[q.code] = caInvites[q.code]
  /\ q.at \in CaHoldsUser => /\ caUsers'[q.email] = caUsers[q.email]
                             /\ CaActive(q.email)' \subseteq CaActive(q.email)

\* What was checked of them still holds.
LEMMA CaCheckedKept ==
  ASSUME CaSessionsHold, NEW q \in CaRequest, CaChecked(q), CaRowsKept(q)
  PROVE  CaChecked(q)'
<1>1. CASE q.at \in {"canary_user", "session"}
 <2>1. q.email \in CaEmails BY <1>1 DEF CaChecked
 <2>2. CaRoom(q.email) => CaRoom(q.email)'
  <3> DEFINE A == CaActive(q.email)
  <3>1. IsFiniteSet(A) /\ A' \subseteq A /\ CaMaxDevices \in Nat
    BY <1>1, <2>1, CaAssumption DEF CaSessionsHold, CaRowsKept, CaHoldsUser, CaAssumption
  <3> HIDE DEF A
  <3>2. Cardinality(A') <= Cardinality(A) /\ Cardinality(A) \in Nat /\ Cardinality(A') \in Nat
    BY <3>1, FS_Subset, FS_CardinalityType
  <3>3. Cardinality(A) < CaMaxDevices => Cardinality(A') < CaMaxDevices BY <3>1, <3>2
  <3> QED BY <3>3 DEF A, CaRoom
 <2> QED
   BY <1>1, <2>1, <2>2 DEF CaChecked, CaRowsKept, CaHoldsUser, CaHoldsInvite, CaAdmitted, CaRequest
<1>2. CASE q.at \notin {"canary_user", "session"}
  BY <1>2 DEF CaChecked, CaRowsKept, CaAdmitted, CaRequest
<1> QED BY <1>1, <1>2

\* One request changes its record to q: it must hold the rows it says it holds,
\* what it has checked must be so, and the rows others hold must be left alone.
LEMMA CaRequestKeepsInv ==
  ASSUME CaInv, NEW r \in CaRequests, NEW q \in CaRequest,
         caReq' = [caReq EXCEPT ![r] = q], CaFree(r, q), CaChecked(q)',
         \A s \in CaRequests \ {r}, o \in CaRequest : o = caReq[s] => CaRowsKept(o),
         \A s \in CaRequests \ {r} : q.txn # CaNoTxn => caReq[s].txn # q.txn,
         CaTablesTyped', CaInvitesHold', CaSessionsHold'
  PROVE  CaInv'
<1>1. caReq \in [CaRequests -> CaRequest] /\ caReq' \in [CaRequests -> CaRequest] BY DEF CaInv
<1>2. CaLocksHold' BY CaLocksKept DEF CaInv
<1>3. CaOneCallback' BY DEF CaInv, CaOneCallback
<1>4. ASSUME NEW s \in CaRequests PROVE CaChecked(caReq[s])'
 <2>1. CASE s = r
  <3>1. caReq'[s] = q BY <1>1, <2>1
  <3> QED BY <3>1 DEF CaChecked, CaRoom, CaAdmitted, CaActive
 <2>2. CASE s # r
  <3>1. PICK o \in CaRequest : o = caReq[s] BY <1>1
  <3>2. CaChecked(o) /\ CaRowsKept(o) /\ CaSessionsHold BY <2>2, <3>1 DEF CaInv
  <3>3. CaChecked(o)' BY <3>2, CaCheckedKept
  <3>4. caReq'[s] = o BY <1>1, <2>2, <3>1
  <3> QED BY <3>3, <3>4 DEF CaChecked, CaRoom, CaAdmitted, CaActive
 <2> QED BY <2>1, <2>2
<1> QED BY <1>1, <1>2, <1>3, <1>4 DEF CaInv

\* Tables that do not change keep what is said of them.
LEMMA CaTablesKept ==
  ASSUME CaInv, UNCHANGED caTables
  PROVE  /\ CaTablesTyped' /\ CaInvitesHold' /\ CaSessionsHold'
         /\ \A q : CaRowsKept(q)
         /\ \A q : CaChecked(q) => CaChecked(q)'
<1>1. CaTablesTyped' /\ CaInvitesHold'
  BY DEF CaInv, caTables, CaTablesTyped, CaInvitesHold, CaSpent, CaAdmitted
<1>2. \A e : CaActive(e)' = CaActive(e) BY DEF caTables, CaActive
<1>3. CaSessionsHold' BY <1>2 DEF CaInv, caTables, CaSessionsHold, CaAdmitted
<1>4. \A q : CaRowsKept(q) BY <1>2 DEF caTables, CaRowsKept
<1>5. \A q : CaChecked(q) => CaChecked(q)' BY <1>2 DEF caTables, CaChecked, CaRoom, CaAdmitted
<1> QED BY <1>1, <1>3, <1>4, <1>5

\* A request moves on without writing.
LEMMA CaMoveKeepsInv ==
  ASSUME CaInv, NEW r \in CaRequests, NEW p \in CaPoints, CaGo(r, p), UNCHANGED caTables,
         CaFree(r, [caReq[r] EXCEPT !.at = p]), CaChecked([caReq[r] EXCEPT !.at = p])
  PROVE  CaInv'
<1>1. caReq \in [CaRequests -> CaRequest] BY DEF CaInv
<1>2. PICK q \in CaRequest : q = [caReq[r] EXCEPT !.at = p] BY Zenon, <1>1, CaRowTyped
<1>3. q.txn = caReq[r].txn BY Zenon, <1>1, <1>2, CaRowTyped
<1>4. caReq' = [caReq EXCEPT ![r] = q] BY <1>2 DEF CaGo
<1>5. \A s \in CaRequests \ {r} : q.txn # CaNoTxn => caReq[s].txn # q.txn
  BY <1>3 DEF CaInv, CaOneCallback
<1>6. CaChecked(q)' BY <1>2, CaTablesKept
<1> QED BY <1>2, <1>4, <1>5, <1>6, CaTablesKept, CaRequestKeepsInv

\* A request that is refused holds nothing.
LEMMA CaRefusalKeepsInv ==
  ASSUME CaInv, NEW r \in CaRequests, CaRefuse(r)
  PROVE  CaInv'
<1>1. caReq[r] \in CaRequest /\ CaChecked(caReq[r]) BY DEF CaInv
<1>2. PICK q \in CaRequest : q = [caReq[r] EXCEPT !.at = "refused"]
  BY Zenon, <1>1, CaRowTyped DEF CaPoints
<1>3. q.at = "refused" /\ q.txn = caReq[r].txn BY Zenon, <1>1, <1>2, CaRowTyped DEF CaPoints
<1>4. CaFree(r, q) /\ CaChecked(q) BY <1>1, <1>3 DEF CaFree, CaChecked, CaHoldsUser, CaHoldsInvite
<1> QED BY <1>2, <1>4, CaMoveKeepsInv DEF CaRefuse, CaPoints

--------------------
(* Steps that read. *)

\* The step of a request that is under way, and its new record.
LEMMA CaReadingKeepsInv ==
  ASSUME CaInv, NEW r \in CaRequests,
         \/ CaCanaryUser(r) \/ CaProviderAnswers(r) \/ CaIdentity(r) \/ CaRegister(r)
         \/ CaClaimInvite(r) \/ CaSession(r) \/ CaAbort(r)
  PROVE  CaInv'
<1> DEFINE q == caReq[r]
           at(p) == [q EXCEPT !.at = p]
<1>1. /\ q \in CaRequest /\ CaChecked(q)
      /\ \A p \in CaPoints : /\ at(p).kind = q.kind /\ at(p).code = q.code
                             /\ at(p).email = q.email /\ at(p).txn = q.txn /\ at(p).at = p
  BY Zenon, CaRowTyped DEF CaInv
<1>2. ASSUME NEW p \in CaPoints, CaGo(r, p), UNCHANGED caTables,
             CaFree(r, at(p)), CaChecked(at(p))
      PROVE  CaInv' BY <1>2, CaMoveKeepsInv
<1>3. CASE CaRefuse(r) BY <1>3, CaRefusalKeepsInv
<1> HIDE DEF at
<1>4. CASE CaCanaryUser(r) /\ ~CaRefuse(r)
 <2> DEFINE n == at("canary_user")
 <2>1. /\ n.email = q.email /\ n.code = q.code /\ n.at = "canary_user" /\ n.txn = q.txn
       /\ q.at = "canary_invite" BY <1>1, <1>4 DEF CaPoints, CaCanaryUser
 <2>2. CaFree(r, n)
  <3>1. CaUserFree(r, q.email) BY <1>4 DEF CaCanaryUser
  <3>2. CaInviteFree(r, q.code) BY <2>1 DEF CaInv, CaLocksHold, CaInviteFree, CaHoldsInvite
  <3> QED BY <2>1, <3>1, <3>2 DEF CaFree
 <2>3. CaRoom(q.email) /\ caUsers[q.email] # "disabled"
  <3>1. q.email \in CaEmails BY <1>1, <2>1 DEF CaChecked
  <3>2. Cardinality(CaActive(q.email)) \in Nat /\ CaMaxDevices \in Nat
    BY <3>1, FS_CardinalityType, CaAssumption DEF CaInv, CaSessionsHold, CaAssumption
  <3> QED BY <1>4, <3>2 DEF CaCanaryUser, CaAtLimit, CaRoom
 <2>4. CaChecked(n)
  <3> HIDE DEF n
  <3> QED BY <1>1, <2>1, <2>3 DEF CaChecked, CaHoldsInvite
 <2>5. CaGo(r, "canary_user") /\ UNCHANGED caTables BY <1>4 DEF CaCanaryUser
 <2> QED BY <1>2, <2>2, <2>4, <2>5 DEF CaPoints
<1>5. CASE CaProviderAnswers(r)
 <2>1. CASE CaGo(r, "refused") BY <1>3, <1>5, <2>1 DEF CaProviderAnswers, CaRefuse
 <2>2. CASE CaGo(r, "identity")
  <3> DEFINE n == at("identity")
  <3>1. /\ n.email = q.email /\ n.kind = q.kind /\ n.at = "identity" /\ n.txn = q.txn
        /\ q.at = "provider" BY <1>1, <1>5 DEF CaPoints, CaProviderAnswers
  <3> HIDE DEF n
  <3>2. CaFree(r, n) /\ CaChecked(n) BY <1>1, <3>1 DEF CaFree, CaChecked, CaHoldsUser, CaHoldsInvite
  <3> QED BY <1>2, <1>5, <2>2, <3>2 DEF n, CaPoints, CaProviderAnswers
 <2> QED BY <1>5, <2>1, <2>2 DEF CaProviderAnswers
<1>6. CASE CaIdentity(r) /\ ~CaRefuse(r)
 <2>1. q.at = "identity" /\ q.email \in CaEmails /\ q.kind # "canary"
   BY <1>1, <1>6 DEF CaIdentity, CaChecked
 <2>2. CASE <<q.kind, q.email>> \notin caIdentities
  <3> DEFINE n == at("register")
  <3>1. /\ n.email = q.email /\ n.kind = q.kind /\ n.code = q.code /\ n.at = "register"
        /\ n.txn = q.txn BY <1>1 DEF CaPoints
  <3>2. q.code \in CaCodes /\ CaGo(r, "register") /\ UNCHANGED caTables
    BY <1>1, <1>6, <2>2 DEF CaIdentity, CaRequest
  <3> HIDE DEF n
  <3>3. CaFree(r, n) /\ CaChecked(n)
    BY <1>1, <2>1, <3>1, <3>2 DEF CaFree, CaChecked, CaHoldsUser, CaHoldsInvite
  <3> QED BY <1>2, <3>2, <3>3 DEF n, CaPoints
 <2>3. CASE <<q.kind, q.email>> \in caIdentities
  <3> DEFINE n == at("credential")
  <3>1. /\ n.email = q.email /\ n.kind = q.kind /\ n.code = q.code /\ n.at = "credential"
        /\ n.txn = q.txn BY <1>1 DEF CaPoints
  <3>2. CaGo(r, "credential") /\ UNCHANGED caTables BY <1>6, <2>3 DEF CaIdentity
  <3>3. CaAdmitted(q.email) BY <2>3 DEF CaAdmitted
  <3> HIDE DEF n
  <3>4. CaFree(r, n) /\ CaChecked(n)
    BY <1>1, <2>1, <3>1, <3>3 DEF CaFree, CaChecked, CaHoldsUser, CaHoldsInvite
  <3> QED BY <1>2, <3>2, <3>4 DEF n, CaPoints
 <2> QED BY <2>2, <2>3
<1>7. CASE CaRegister(r) /\ ~CaRefuse(r)
 <2> DEFINE n == at("registering")
 <2>1. /\ n.email = q.email /\ n.kind = q.kind /\ n.code = q.code /\ n.at = "registering"
       /\ n.txn = q.txn BY <1>1 DEF CaPoints
 <2>2. /\ q.at = "register" /\ CaUserFree(r, q.email)
       /\ CaGo(r, "registering") /\ UNCHANGED caTables BY <1>7 DEF CaRegister
 <2> HIDE DEF n
 <2>3. CaFree(r, n) /\ CaChecked(n)
   BY <1>1, <2>1, <2>2 DEF CaFree, CaChecked, CaHoldsUser, CaHoldsInvite
 <2> QED BY <1>2, <2>2, <2>3 DEF n, CaPoints
<1>8. CASE CaClaimInvite(r) /\ ~CaRefuse(r)
 <2> DEFINE n == at("registered")
 <2>1. /\ n.email = q.email /\ n.kind = q.kind /\ n.code = q.code /\ n.at = "registered"
       /\ n.txn = q.txn BY <1>1 DEF CaPoints
 <2>2. /\ q.at = "registering" /\ CaInviteFree(r, q.code)
       /\ caInvites[q.code].state = "fresh" /\ caInvites[q.code].email \in {CaNoEmail, q.email}
       /\ CaGo(r, "registered") /\ UNCHANGED caTables BY <1>8 DEF CaClaimInvite
 <2>3. CaUserFree(r, q.email) BY <2>2 DEF CaInv, CaLocksHold, CaUserFree, CaHoldsUser
 <2> HIDE DEF n
 <2>4. CaFree(r, n) /\ CaChecked(n)
   BY <1>1, <2>1, <2>2, <2>3 DEF CaFree, CaChecked, CaHoldsUser, CaHoldsInvite
 <2> QED BY <1>2, <2>2, <2>4 DEF n, CaPoints
<1>9. CASE CaSession(r) /\ ~CaRefuse(r)
 <2> DEFINE n == at("session")
 <2>1. /\ n.email = q.email /\ n.kind = q.kind /\ n.code = q.code /\ n.at = "session"
       /\ n.txn = q.txn BY <1>1 DEF CaPoints
 <2>2. /\ q.at = "login" /\ CaUserFree(r, q.email)
       /\ caUsers[q.email] = "active" /\ ~CaAtLimit(q.email)
       /\ CaGo(r, "session") /\ UNCHANGED caTables BY <1>9 DEF CaSession
 <2>3. q.email \in CaEmails BY <1>1, <2>2 DEF CaChecked
 <2>4. CaRoom(q.email)
  <3>1. Cardinality(CaActive(q.email)) \in Nat /\ CaMaxDevices \in Nat
    BY <2>3, FS_CardinalityType, CaAssumption DEF CaInv, CaSessionsHold, CaAssumption
  <3> QED BY <2>2, <3>1 DEF CaAtLimit, CaRoom
 <2> HIDE DEF n
 <2>5. CaFree(r, n) /\ CaChecked(n)
   BY <1>1, <2>1, <2>2, <2>4 DEF CaFree, CaChecked, CaHoldsUser, CaHoldsInvite
 <2> QED BY <1>2, <2>2, <2>5 DEF n, CaPoints
<1>10. CASE CaAbort(r) BY <1>3, <1>10 DEF CaAbort
<1> QED BY <1>3, <1>4, <1>5, <1>6, <1>7, <1>8, <1>9, <1>10

--------------------
(* A request begins. *)

\* A login begins: of the canary, of a developer, or of a callback that takes its transaction.
LEMMA CaBeginningKeepsInv ==
  ASSUME CaInv, NEW r \in CaRequests,
         \/ \E c \in CaCodes : CaCanaryInvite(r, c)
         \/ \E e \in CaEmails, c \in CaCodes : CaDevelopmentLogin(r, e, c)
         \/ \E t \in CaTxns : CaOauthConsume(r, t)
  PROVE  CaInv'
<1>1. ASSUME NEW c \in CaCodes, CaCanaryInvite(r, c)
      PROVE  CaInv'
 <2>1. CASE CaRefuse(r) BY <2>1, CaRefusalKeepsInv
 <2>2. CASE ~CaRefuse(r)
  <3>1. caInvites[c] \in CaInviteRow BY DEF CaInv, CaTablesTyped
  <3>2. caInvites[c].email \in CaEmails BY <1>1, <2>2, <3>1 DEF CaCanaryInvite, CaInviteRow, CaMail
  <3> DEFINE new == [CaIdle EXCEPT !.at = "canary_invite", !.code = c,
                                   !.email = caInvites[c].email]
  <3>a. /\ new \in CaRequest
        /\ new.at = "canary_invite" /\ new.code = c /\ new.email = caInvites[c].email
        /\ new.txn = CaNoTxn BY <3>2 DEF CaIdle, CaRequest, CaPoints, CaMail
  <3>b. caReq' = [caReq EXCEPT ![r] = new] /\ UNCHANGED caTables BY <1>1, <2>2 DEF CaCanaryInvite
  <3> HIDE DEF new
  <3>3. PICK q \in CaRequest : q = new BY <3>a
  <3>4. /\ caReq' = [caReq EXCEPT ![r] = q] /\ UNCHANGED caTables
        /\ q.at = "canary_invite" /\ q.code = c /\ q.email = caInvites[c].email
        /\ q.txn = CaNoTxn BY <3>a, <3>b, <3>3
  <3>5. CaFree(r, q) /\ CaChecked(q) BY <1>1, <2>2, <3>2, <3>4
       DEF CaFree, CaChecked, CaHoldsUser, CaHoldsInvite, CaCanaryInvite
  <3>6. CaChecked(q)' BY <3>4, <3>5, CaTablesKept
  <3> QED BY <3>3, <3>4, <3>5, <3>6, CaTablesKept, CaRequestKeepsInv
 <2> QED BY <2>1, <2>2
<1>2. ASSUME NEW e \in CaEmails, NEW c \in CaCodes, CaDevelopmentLogin(r, e, c)
      PROVE  CaInv'
 <2> DEFINE q == [CaIdle EXCEPT !.at = "identity", !.kind = "development", !.email = e,
                                !.code = c]
 <2>1. /\ q \in CaRequest
       /\ q.at = "identity" /\ q.kind = "development" /\ q.email = e /\ q.txn = CaNoTxn
   BY DEF CaIdle, CaRequest, CaPoints, CaMail
 <2>2. caReq' = [caReq EXCEPT ![r] = q] /\ UNCHANGED caTables BY <1>2 DEF CaDevelopmentLogin
 <2> HIDE DEF q
 <2>3. CaFree(r, q) /\ CaChecked(q) BY <2>1 DEF CaFree, CaChecked, CaHoldsUser, CaHoldsInvite
 <2>4. CaChecked(q)' BY <2>2, <2>3, CaTablesKept
 <2> QED BY <2>1, <2>2, <2>3, <2>4, CaTablesKept, CaRequestKeepsInv
<1>3. ASSUME NEW t \in CaTxns, CaOauthConsume(r, t)
      PROVE  CaInv'
 <2>1. CASE CaRefuse(r) BY <2>1, CaRefusalKeepsInv
 <2>2. CASE ~CaRefuse(r)
  <3>1. /\ caTxns[t].state = "open" /\ caTxns' = [caTxns EXCEPT ![t].state = "consumed"]
        /\ UNCHANGED <<caInvites, caUsers, caIdentities, caCredentials, caSessions, caUses>>
    BY <1>3, <2>2 DEF CaOauthConsume
  <3>2. caTxns \in [CaTxns -> CaTxnRow] /\ caTxns[t] \in CaTxnRow /\ caTxns[t].email \in CaEmails
    BY <3>1 DEF CaInv, CaTablesTyped
  <3> DEFINE new == [at |-> "provider", kind |-> "github", txn |-> t, code |-> caTxns[t].code,
                     email |-> caTxns[t].email]
  <3>a. /\ new \in CaRequest
        /\ new.at = "provider" /\ new.kind = "github" /\ new.txn = t
        /\ new.email = caTxns[t].email BY <3>2 DEF CaRequest, CaPoints, CaMail, CaTxnRow
  <3>b. caReq' = [caReq EXCEPT ![r] = new] BY <1>3, <2>2 DEF CaOauthConsume
  <3> HIDE DEF new
  <3>3. PICK q \in CaRequest : q = new BY <3>a
  <3>4. /\ caReq' = [caReq EXCEPT ![r] = q]
        /\ q.at = "provider" /\ q.kind = "github" /\ q.txn = t /\ q.email = caTxns[t].email
    BY <3>a, <3>b, <3>3
  <3>5. /\ caTxns' \in [CaTxns -> CaTxnRow] /\ caTxns'[t].state = "consumed"
        /\ \A u \in CaTxns : caTxns'[u].email = caTxns[u].email
        /\ \A u \in CaTxns : u # t => caTxns'[u] = caTxns[u]
   <4>1. [caTxns[t] EXCEPT !.state = "consumed"] \in CaTxnRow BY Zenon, <3>2, CaRowTyped
   <4>2. /\ [caTxns[t] EXCEPT !.state = "consumed"].email = caTxns[t].email
         /\ [caTxns[t] EXCEPT !.state = "consumed"].state = "consumed" BY <3>2 DEF CaTxnRow
   <4> QED BY <3>1, <3>2, <4>1, <4>2
  <3>6. CaTablesTyped'
   <4>1. \A u \in CaTxns : caTxns'[u].state # "none" => caTxns'[u].email \in CaEmails
     BY <3>2, <3>5 DEF CaInv, CaTablesTyped
   <4> QED BY <3>1, <3>5, <4>1 DEF CaInv, CaTablesTyped
  <3>7. \A e : CaActive(e)' = CaActive(e) BY <3>1 DEF CaActive
  <3>8. CaInvitesHold' /\ CaSessionsHold'
    BY <3>1, <3>7 DEF CaInv, CaInvitesHold, CaSessionsHold, CaSpent, CaAdmitted
  <3>9. \A o : CaRowsKept(o)
   <4>1. \A u \in CaTxns : caTxns[u].state = "consumed" => caTxns'[u].state = "consumed" BY <3>5
   <4>2. ASSUME NEW o PROVE CaRowsKept(o) BY <3>1, <3>7, <4>1 DEF CaRowsKept
   <4> QED BY <4>2
  <3>10. \A s \in CaRequests : caReq[s].txn # t
   <4>1. \A s \in CaRequests : caReq[s].txn # CaNoTxn => caTxns[caReq[s].txn].state = "consumed"
     BY DEF CaInv, CaChecked
   <4> QED BY <3>1, <4>1, CaAssumption DEF CaAssumption
  <3>11. CaFree(r, q) /\ CaChecked(q)'
    BY <3>2, <3>4, <3>5 DEF CaFree, CaChecked, CaHoldsUser, CaHoldsInvite
  <3> QED BY <3>3, <3>4, <3>6, <3>8, <3>9, <3>10, <3>11, CaRequestKeepsInv
 <2> QED BY <2>1, <2>2
<1> QED BY <1>1, <1>2, <1>3

--------------------
(* Commits. *)

\* Identities and spent invites grow together.
LEMMA CaBalanceKept ==
  ASSUME NEW I, NEW S, NEW i, NEW c, IsFiniteSet(I), IsFiniteSet(S), c \notin S,
         Cardinality(I) <= Cardinality(S)
  PROVE  /\ IsFiniteSet(I \cup {i}) /\ IsFiniteSet(S \cup {c})
         /\ Cardinality(I \cup {i}) <= Cardinality(S \cup {c})
<1>1. /\ Cardinality(I) \in Nat /\ Cardinality(S) \in Nat
      /\ IsFiniteSet(I \cup {i}) /\ IsFiniteSet(S \cup {c})
      /\ Cardinality(S \cup {c}) = Cardinality(S) + 1
      /\ Cardinality(I \cup {i}) = Cardinality(I) \/ Cardinality(I \cup {i}) = Cardinality(I) + 1
  BY FS_CardinalityType, FS_AddElement
<1> QED BY <1>1

\* An invite that was fresh is spent and admits the account it is spent for.
LEMMA CaSpendKeepsInvites ==
  ASSUME CaInv, NEW c \in CaCodes, NEW e \in CaEmails, NEW i \in CaIdentityRows, i[2] = e,
         caInvites[c].state = "fresh", caInvites[c].email \in {CaNoEmail, e},
         CaSpend(c, e), caIdentities' = caIdentities \cup {i}
  PROVE  /\ CaInvitesHold'
         /\ caInvites' \in [CaCodes -> CaInviteRow] /\ caUses' \in [CaCodes -> Nat]
         /\ \A d \in CaCodes : d # c => caInvites'[d] = caInvites[d]
<1>1. /\ caInvites \in [CaCodes -> CaInviteRow] /\ caUses \in [CaCodes -> Nat]
      /\ caInvites' = [caInvites EXCEPT ![c] = [@ EXCEPT !.state = "consumed", !.by = e]]
      /\ caUses' = [caUses EXCEPT ![c] = @ + 1] BY DEF CaInv, CaTablesTyped, CaSpend
<1>2. PICK row \in CaInviteRow : row = [caInvites[c] EXCEPT !.state = "consumed", !.by = e]
  BY Zenon, <1>1, CaRowTyped DEF CaMail
<1>3. row.state = "consumed" /\ row.by = e /\ row.email = caInvites[c].email
  BY <1>1, <1>2 DEF CaInviteRow
<1>4. /\ caInvites'[c] = row /\ caInvites' \in [CaCodes -> CaInviteRow]
      /\ \A d \in CaCodes : d # c => caInvites'[d] = caInvites[d] BY <1>1, <1>2
<1>5. /\ caUses[c] = 0 /\ caUses'[c] = 1 /\ caUses' \in [CaCodes -> Nat]
      /\ \A d \in CaCodes : d # c => caUses'[d] = caUses[d] BY <1>1 DEF CaInv, CaInvitesHold
<1>6. CaSpent' = CaSpent \cup {c} /\ c \notin CaSpent BY <1>5 DEF CaSpent
<1>7. /\ IsFiniteSet(caIdentities') /\ IsFiniteSet(CaSpent')
      /\ Cardinality(caIdentities') <= Cardinality(CaSpent')
  BY <1>6, CaBalanceKept DEF CaInv, CaInvitesHold
<1>8. \A o : CaAdmitted(o) => CaAdmitted(o)' BY DEF CaAdmitted
<1>9. CaAdmitted(e)' BY DEF CaAdmitted
<1>10. ASSUME NEW d \in CaCodes
       PROVE  /\ caUses'[d] = IF caInvites'[d].state = "consumed" THEN 1 ELSE 0
              /\ caInvites'[d].state = "consumed" =>
                   /\ caInvites'[d].email \in {CaNoEmail, caInvites'[d].by}
                   /\ \E j \in caIdentities' : j[2] = caInvites'[d].by
 <2>1. CASE d = c
  <3>1. caInvites'[d].by = e BY <1>3, <1>4, <2>1
  <3> QED BY <1>3, <1>4, <1>5, <1>9, <2>1, <3>1 DEF CaAdmitted
 <2>2. CASE d # c
  <3>1. /\ caUses[d] = IF caInvites[d].state = "consumed" THEN 1 ELSE 0
        /\ caInvites[d].state = "consumed" =>
             /\ caInvites[d].email \in {CaNoEmail, caInvites[d].by}
             /\ CaAdmitted(caInvites[d].by) BY DEF CaInv, CaInvitesHold
  <3> QED BY <1>4, <1>5, <2>2, <3>1 DEF CaAdmitted
 <2> QED BY <2>1, <2>2
<1> QED BY <1>4, <1>5, <1>7, <1>10 DEF CaInvitesHold, CaAdmitted

\* A device fits when there is room.
LEMMA CaOpenKeepsSessions ==
  ASSUME CaInv, NEW r \in CaRequests, NEW e \in CaEmails, CaRoom(e),
         CaOpenSession(r, e), CaAdmitted(e)',
         caIdentities \subseteq caIdentities', caUsers'[e] # "disabled",
         \A o \in CaEmails : o # e => caUsers'[o] = caUsers[o]
  PROVE  /\ CaSessionsHold' /\ caSessions' \in [CaRequests -> CaSessionRow]
         /\ \A o : o # e => CaActive(o)' \subseteq CaActive(o)
<1> DEFINE row == [user |-> e, state |-> "active"]
<1>1. /\ caSessions \in [CaRequests -> CaSessionRow] /\ row \in CaSessionRow
      /\ row.user = e /\ row.state = "active"
      /\ caSessions' = [caSessions EXCEPT ![r] = row]
  BY DEF CaInv, CaTablesTyped, CaOpenSession, CaSessionRow, CaMail
<1>2. ASSUME NEW o, o # e
      PROVE  CaActive(o)' \subseteq CaActive(o)
 <2>1. row # [user |-> o, state |-> "active"] BY <1>1, <1>2
 <2> QED BY <1>1, <2>1 DEF CaActive
<1>3. CaActive(e)' \subseteq CaActive(e) \cup {r} BY <1>1 DEF CaActive
<1>4. IsFiniteSet(CaActive(e)') /\ Cardinality(CaActive(e)') <= CaMaxDevices
 <2> DEFINE A == CaActive(e)
 <2>1. /\ IsFiniteSet(A) /\ Cardinality(A) < CaMaxDevices /\ CaMaxDevices \in Nat
       /\ A' \subseteq A \cup {r}
   BY <1>3, CaAssumption DEF CaInv, CaSessionsHold, CaRoom, CaAssumption
 <2> HIDE DEF A
 <2>2. /\ Cardinality(A) \in Nat /\ IsFiniteSet(A \cup {r})
       /\ Cardinality(A \cup {r}) \in Nat /\ Cardinality(A \cup {r}) <= Cardinality(A) + 1
  <3>1. Cardinality(A) \in Nat BY <2>1, FS_CardinalityType
  <3>2. /\ IsFiniteSet(A \cup {r})
        /\ Cardinality(A \cup {r}) = Cardinality(A) \/ Cardinality(A \cup {r}) = Cardinality(A) + 1
    BY <2>1, FS_AddElement
  <3> QED BY <3>1, <3>2
 <2>3. IsFiniteSet(A') /\ Cardinality(A') \in Nat /\ Cardinality(A') <= Cardinality(A \cup {r})
   BY <2>1, <2>2, FS_Subset, FS_CardinalityType
 <2>4. IsFiniteSet(A') /\ Cardinality(A') <= CaMaxDevices BY <2>1, <2>2, <2>3
 <2> QED BY <2>4 DEF A
<1>5. ASSUME NEW o \in CaEmails
      PROVE  /\ IsFiniteSet(CaActive(o)') /\ Cardinality(CaActive(o)') <= CaMaxDevices
             /\ caUsers'[o] = "disabled" => CaActive(o)' = {}
 <2>1. CASE o = e BY <1>4, <2>1
 <2>2. CASE o # e
  <3> DEFINE A == CaActive(o)
  <3>1. /\ IsFiniteSet(A) /\ Cardinality(A) <= CaMaxDevices /\ CaMaxDevices \in Nat
        /\ A' \subseteq A /\ (caUsers'[o] = "disabled" => A = {})
    BY <1>2, <2>2, CaAssumption DEF CaInv, CaSessionsHold, CaAssumption
  <3> HIDE DEF A
  <3>2. /\ IsFiniteSet(A') /\ Cardinality(A') \in Nat /\ Cardinality(A) \in Nat
        /\ Cardinality(A') <= Cardinality(A) BY <3>1, FS_Subset, FS_CardinalityType
  <3>3. /\ IsFiniteSet(A') /\ Cardinality(A') <= CaMaxDevices
        /\ (caUsers'[o] = "disabled" => A' = {}) BY <3>1, <3>2
  <3> QED BY <3>3 DEF A
 <2> QED BY <2>1, <2>2
<1>6. ASSUME NEW s \in CaRequests, caSessions'[s].state = "active"
      PROVE  /\ caSessions'[s].user \in CaEmails
             /\ \E j \in caIdentities' : j[2] = caSessions'[s].user
 <2>1. CASE s = r
  <3>1. caSessions'[s].user = e BY <1>1, <2>1
  <3> QED BY <3>1 DEF CaAdmitted
 <2>2. CASE s # r
  <3>1. caSessions'[s] = caSessions[s] BY <1>1, <2>2
  <3> QED BY <1>6, <3>1 DEF CaInv, CaSessionsHold, CaAdmitted
 <2> QED BY <2>1, <2>2
<1> QED BY <1>1, <1>2, <1>5, <1>6 DEF CaSessionsHold, CaAdmitted

\* The accounts other than e, and the invites other than c, are left alone.
LEMMA CaOthersKept ==
  ASSUME CaInv, NEW r \in CaRequests, NEW e, NEW c,
         caReq[r].at \in CaHoldsUser => caReq[r].email = e,
         caReq[r].at \in CaHoldsInvite => caReq[r].code = c,
         (caReq[r].at \notin CaHoldsUser) =>
            caUsers' = caUsers /\ \A o : CaActive(o)' \subseteq CaActive(o),
         caReq[r].at \notin CaHoldsInvite => caInvites' = caInvites,
         \A o \in CaEmails : o # e =>
            caUsers'[o] = caUsers[o] /\ CaActive(o)' \subseteq CaActive(o),
         \A d \in CaCodes : d # c => caInvites'[d] = caInvites[d],
         caIdentities \subseteq caIdentities', caTxns' = caTxns
  PROVE  \A s \in CaRequests \ {r}, o \in CaRequest : o = caReq[s] => CaRowsKept(o)
<1> SUFFICES ASSUME NEW s \in CaRequests \ {r}, NEW q \in CaRequest, q = caReq[s]
             PROVE  CaRowsKept(q) OBVIOUS
<1>1. CaChecked(q) BY DEF CaInv
<1>2. q.at \in CaHoldsInvite => caInvites'[q.code] = caInvites[q.code]
  BY <1>1 DEF CaInv, CaLocksHold, CaChecked
<1>3. q.at \in CaHoldsUser =>
        /\ caUsers'[q.email] = caUsers[q.email]
        /\ CaActive(q.email)' \subseteq CaActive(q.email)
 <2> SUFFICES ASSUME q.at \in CaHoldsUser
              PROVE  /\ caUsers'[q.email] = caUsers[q.email]
                     /\ CaActive(q.email)' \subseteq CaActive(q.email) OBVIOUS
 <2>1. q.email \in CaEmails BY <1>1 DEF CaChecked, CaHoldsUser
 <2>2. CASE caReq[r].at \in CaHoldsUser
  <3>1. q.email # e BY <2>2 DEF CaInv, CaLocksHold
  <3> QED BY <2>1, <3>1
 <2>3. CASE caReq[r].at \notin CaHoldsUser BY <2>3
 <2> QED BY <2>2, <2>3
<1> QED BY <1>2, <1>3 DEF CaRowsKept

\* A canary login commits: its invite is spent for the account.
LEMMA CaCanaryCommitKeepsInv ==
  ASSUME CaInv, NEW r \in CaRequests, CaCanaryCommit(r)
  PROVE  CaInv'
<1>1. PICK e, c : e = caReq[r].email /\ c = caReq[r].code OBVIOUS
<1>2. /\ caReq[r] \in CaRequest /\ CaChecked(caReq[r]) /\ caReq[r].at = "canary_user"
      /\ e \in CaEmails /\ c \in CaCodes
      /\ caInvites[c].state = "fresh" /\ caInvites[c].email \in {CaNoEmail, e}
      /\ caUsers[e] # "disabled" /\ CaRoom(e)
  BY <1>1 DEF CaInv, CaCanaryCommit, CaChecked, CaHoldsInvite
<1>3. /\ CaSpend(c, e) /\ CaRegisterUser(e) /\ CaOpenSession(r, e)
      /\ caIdentities' = caIdentities \cup {<<"canary_invite", e>>}
      /\ CaGo(r, "done") /\ UNCHANGED <<caCredentials, caTxns>> BY <1>1 DEF CaCanaryCommit
<1>4. PICK q \in CaRequest : q = [caReq[r] EXCEPT !.at = "done"]
  BY Zenon, <1>2, CaRowTyped DEF CaPoints
<1>5. q.at = "done" /\ q.txn = caReq[r].txn BY Zenon, <1>2, <1>4, CaRowTyped DEF CaPoints
<1>6. /\ CaInvitesHold' /\ caInvites' \in [CaCodes -> CaInviteRow] /\ caUses' \in [CaCodes -> Nat]
      /\ \A d \in CaCodes : d # c => caInvites'[d] = caInvites[d]
 <2>1. <<"canary_invite", e>> \in CaIdentityRows /\ <<"canary_invite", e>>[2] = e
   BY <1>2 DEF CaIdentityRows
 <2> QED BY <1>2, <1>3, <2>1, CaSpendKeepsInvites
<1>7. /\ caUsers' \in [CaEmails -> {"absent", "active", "disabled"}]
      /\ caUsers'[e] # "disabled" /\ \A o \in CaEmails : o # e => caUsers'[o] = caUsers[o]
  BY <1>2, <1>3 DEF CaInv, CaTablesTyped, CaRegisterUser
<1>8. CaAdmitted(e)'
 <2>1. <<"canary_invite", e>> \in caIdentities' /\ <<"canary_invite", e>>[2] = e BY <1>3
 <2> QED BY <2>1 DEF CaAdmitted
<1>9. /\ CaSessionsHold' /\ caSessions' \in [CaRequests -> CaSessionRow]
      /\ \A o : o # e => CaActive(o)' \subseteq CaActive(o)
  BY <1>2, <1>3, <1>7, <1>8, CaOpenKeepsSessions
<1>10. CaTablesTyped' BY <1>2, <1>3, <1>6, <1>7, <1>9 DEF CaInv, CaTablesTyped, CaIdentityRows
<1>11. \A s \in CaRequests \ {r}, o \in CaRequest : o = caReq[s] => CaRowsKept(o)
  BY <1>1, <1>2, <1>3, <1>6, <1>7, <1>9, CaOthersKept DEF CaHoldsUser, CaHoldsInvite
<1>12. CaFree(r, q) /\ CaChecked(q)'
  BY <1>2, <1>3, <1>5 DEF CaFree, CaChecked, CaHoldsUser, CaHoldsInvite
<1>13. caReq' = [caReq EXCEPT ![r] = q] BY <1>3, <1>4 DEF CaGo
<1>14. \A s \in CaRequests \ {r} : q.txn # CaNoTxn => caReq[s].txn # q.txn
  BY <1>5 DEF CaInv, CaOneCallback
<1> QED BY <1>6, <1>9, <1>10, <1>11, <1>12, <1>13, <1>14, CaRequestKeepsInv

\* A registration commits: its invite is spent and the identity made.
LEMMA CaRegisterCommitKeepsInv ==
  ASSUME CaInv, NEW r \in CaRequests, CaRegisterCommit(r)
  PROVE  CaInv'
<1>1. CASE CaRefuse(r) BY <1>1, CaRefusalKeepsInv
<1>2. CASE ~CaRefuse(r)
 <2>1. PICK e, c, k : e = caReq[r].email /\ c = caReq[r].code /\ k = caReq[r].kind OBVIOUS
 <2>2. /\ caReq[r] \in CaRequest /\ CaChecked(caReq[r])
       /\ caReq[r].at = "registered"
       /\ e \in CaEmails /\ c \in CaCodes /\ k \in {"github", "development"}
       /\ caInvites[c].state = "fresh" /\ caInvites[c].email \in {CaNoEmail, e}
  <3>1. caReq[r] \in CaRequest /\ CaChecked(caReq[r]) /\ caReq[r].at = "registered"
    BY DEF CaInv, CaRegisterCommit
  <3> QED BY <2>1, <3>1 DEF CaInv, CaChecked, CaHoldsInvite, CaRequest
 <2>3. PICK p \in {"credential", "login"} : CaGo(r, p) BY <1>2 DEF CaRegisterCommit
 <2>4. /\ CaSpend(c, e) /\ CaRegisterUser(e)
       /\ caIdentities' = caIdentities \cup {<<k, e>>}
       /\ UNCHANGED <<caCredentials, caTxns, caSessions>> BY <1>2, <2>1 DEF CaRegisterCommit
 <2>5. PICK q \in CaRequest : q = [caReq[r] EXCEPT !.at = p] BY Zenon, <2>2, CaRowTyped DEF CaPoints
 <2>6. q.at = p /\ q.txn = caReq[r].txn /\ q.email = e
  <3>1. p \in CaPoints BY DEF CaPoints
  <3> QED BY Zenon, <2>1, <2>2, <2>5, <3>1, CaRowTyped
 <2>7. /\ CaInvitesHold' /\ caInvites' \in [CaCodes -> CaInviteRow]
       /\ caUses' \in [CaCodes -> Nat]
       /\ \A d \in CaCodes : d # c => caInvites'[d] = caInvites[d]
  <3>1. <<k, e>> \in CaIdentityRows /\ <<k, e>>[2] = e BY <2>2 DEF CaIdentityRows
  <3> QED BY <2>2, <2>4, <3>1, CaSpendKeepsInvites
 <2>8. /\ caUsers' \in [CaEmails -> {"absent", "active", "disabled"}]
       /\ caUsers'[e] = "disabled" => caUsers[e] = "disabled"
       /\ \A o \in CaEmails : o # e => caUsers'[o] = caUsers[o]
   BY <2>2, <2>4 DEF CaInv, CaTablesTyped, CaRegisterUser
 <2>9. \A o : CaActive(o)' = CaActive(o) BY <2>4 DEF CaActive
 <2>10. CaSessionsHold' BY <2>4, <2>8, <2>9 DEF CaInv, CaSessionsHold, CaAdmitted
 <2>11. CaTablesTyped' BY <2>2, <2>4, <2>7, <2>8 DEF CaInv, CaTablesTyped, CaIdentityRows
 <2>12. \A s \in CaRequests \ {r}, o \in CaRequest : o = caReq[s] => CaRowsKept(o)
   BY <2>1, <2>2, <2>4, <2>7, <2>8, <2>9, CaOthersKept DEF CaHoldsUser, CaHoldsInvite
 <2>13. CaAdmitted(e)'
  <3>1. <<k, e>> \in caIdentities' /\ <<k, e>>[2] = e BY <2>4
  <3> QED BY <3>1 DEF CaAdmitted
 <2>14. CaFree(r, q) /\ CaChecked(q)'
   BY <2>2, <2>4, <2>6, <2>13 DEF CaFree, CaChecked, CaHoldsUser, CaHoldsInvite
 <2>15. caReq' = [caReq EXCEPT ![r] = q] BY <2>3, <2>5 DEF CaGo
 <2>16. \A s \in CaRequests \ {r} : q.txn # CaNoTxn => caReq[s].txn # q.txn
   BY <2>6 DEF CaInv, CaOneCallback
 <2> QED BY <2>7, <2>10, <2>11, <2>12, <2>14, <2>15, <2>16, CaRequestKeepsInv
<1> QED BY <1>1, <1>2

\* The credential of an admitted account is stored.
LEMMA CaCredentialKeepsInv ==
  ASSUME CaInv, NEW r \in CaRequests, CaCredential(r)
  PROVE  CaInv'
<1>1. CASE CaRefuse(r) BY <1>1, CaRefusalKeepsInv
<1>2. CASE ~CaRefuse(r)
 <2>1. /\ caReq[r] \in CaRequest /\ CaChecked(caReq[r])
       /\ caReq[r].at = "credential" /\ CaGo(r, "login")
       /\ UNCHANGED <<caInvites, caUsers, caIdentities, caTxns, caSessions, caUses>>
   BY <1>2 DEF CaInv, CaCredential
 <2>2. PICK q \in CaRequest : q = [caReq[r] EXCEPT !.at = "login"]
   BY Zenon, <2>1, CaRowTyped DEF CaPoints
 <2>3. q.at = "login" /\ q.txn = caReq[r].txn /\ q.email = caReq[r].email
   BY Zenon, <2>1, <2>2, CaRowTyped DEF CaPoints
 <2>4. \A o : CaActive(o)' = CaActive(o) BY <2>1 DEF CaActive
 <2>5. CaTablesTyped' /\ CaInvitesHold' /\ CaSessionsHold'
   BY <2>1, <2>4 DEF CaInv, CaTablesTyped, CaInvitesHold, CaSessionsHold, CaSpent, CaAdmitted
 <2>6. ASSUME NEW o PROVE CaRowsKept(o) BY <2>1, <2>4 DEF CaRowsKept
 <2>7. CaFree(r, q) /\ CaChecked(q)'
   BY <2>1, <2>3 DEF CaFree, CaChecked, CaHoldsUser, CaHoldsInvite, CaAdmitted
 <2>8. caReq' = [caReq EXCEPT ![r] = q] BY <2>1, <2>2 DEF CaGo
 <2>9. \A s \in CaRequests \ {r} : q.txn # CaNoTxn => caReq[s].txn # q.txn
   BY <2>3 DEF CaInv, CaOneCallback
 <2> QED BY <2>5, <2>6, <2>7, <2>8, <2>9, CaRequestKeepsInv
<1> QED BY <1>1, <1>2

\* A login commits: the device session is opened.
LEMMA CaSessionCommitKeepsInv ==
  ASSUME CaInv, NEW r \in CaRequests, CaSessionCommit(r)
  PROVE  CaInv'
<1>1. PICK e : e = caReq[r].email OBVIOUS
<1>2. /\ caReq[r] \in CaRequest /\ CaChecked(caReq[r]) /\ caReq[r].at = "session"
      /\ e \in CaEmails /\ CaAdmitted(e) /\ caUsers[e] = "active" /\ CaRoom(e)
  BY <1>1 DEF CaInv, CaSessionCommit, CaChecked
<1>3. /\ CaOpenSession(r, e) /\ CaGo(r, "done")
      /\ UNCHANGED <<caInvites, caUsers, caIdentities, caCredentials, caTxns, caUses>>
  BY <1>1 DEF CaSessionCommit
<1>4. PICK q \in CaRequest : q = [caReq[r] EXCEPT !.at = "done"]
  BY Zenon, <1>2, CaRowTyped DEF CaPoints
<1>5. q.at = "done" /\ q.txn = caReq[r].txn BY Zenon, <1>2, <1>4, CaRowTyped DEF CaPoints
<1>6. CaAdmitted(e)' BY <1>2, <1>3 DEF CaAdmitted
<1>7. /\ CaSessionsHold' /\ caSessions' \in [CaRequests -> CaSessionRow]
      /\ \A o : o # e => CaActive(o)' \subseteq CaActive(o) BY <1>2, <1>3, <1>6, CaOpenKeepsSessions
<1>8. CaTablesTyped' /\ CaInvitesHold'
  BY <1>3, <1>7 DEF CaInv, CaTablesTyped, CaInvitesHold, CaSpent, CaAdmitted
<1>9. \A s \in CaRequests \ {r}, o \in CaRequest : o = caReq[s] => CaRowsKept(o)
 <2>1. PICK c : c = caReq[r].code OBVIOUS
 <2> QED BY <1>1, <1>2, <1>3, <1>7, <2>1, CaOthersKept DEF CaHoldsUser, CaHoldsInvite
<1>10. CaFree(r, q) /\ CaChecked(q)'
  BY <1>2, <1>3, <1>5 DEF CaFree, CaChecked, CaHoldsUser, CaHoldsInvite
<1>11. caReq' = [caReq EXCEPT ![r] = q] BY <1>3, <1>4 DEF CaGo
<1>12. \A s \in CaRequests \ {r} : q.txn # CaNoTxn => caReq[s].txn # q.txn
  BY <1>5 DEF CaInv, CaOneCallback
<1> QED BY <1>7, <1>8, <1>9, <1>10, <1>11, <1>12, CaRequestKeepsInv

--------------------
(* The operator, expiry, and the start of an OAuth flow. *)

\* No request moves.
LEMMA CaOutsideKeepsInv ==
  ASSUME CaInv, caReq' = caReq, CaTablesTyped', CaInvitesHold', CaSessionsHold',
         \A s \in CaRequests, o \in CaRequest : o = caReq[s] => CaRowsKept(o)
  PROVE  CaInv'
<1>1. ASSUME NEW s \in CaRequests PROVE CaChecked(caReq[s])'
 <2>1. PICK o \in CaRequest : o = caReq[s] BY DEF CaInv
 <2>2. CaChecked(o) /\ CaRowsKept(o) /\ CaSessionsHold BY <2>1 DEF CaInv
 <2>3. CaChecked(o)' BY <2>2, CaCheckedKept
 <2>4. caReq'[s] = o BY <2>1
 <2> QED BY <2>3, <2>4 DEF CaChecked, CaRoom, CaAdmitted, CaActive
<1> QED BY <1>1 DEF CaInv, CaLocksHold, CaOneCallback

\* Devices that are revoked or expire make room.
LEMMA CaShrinkKeepsSessions ==
  ASSUME CaInv, caIdentities' = caIdentities,
         \A s \in CaRequests : caSessions'[s].state = "active" => caSessions'[s] = caSessions[s],
         \A e \in CaEmails : /\ CaActive(e)' \subseteq CaActive(e)
                             /\ caUsers'[e] = "disabled" =>
                                  caUsers[e] = "disabled" \/ CaActive(e)' = {}
  PROVE  CaSessionsHold'
<1>1. ASSUME NEW e \in CaEmails
      PROVE  /\ IsFiniteSet(CaActive(e)') /\ Cardinality(CaActive(e)') <= CaMaxDevices
             /\ caUsers'[e] = "disabled" => CaActive(e)' = {}
 <2> DEFINE A == CaActive(e)
 <2>1. /\ IsFiniteSet(A) /\ Cardinality(A) <= CaMaxDevices /\ CaMaxDevices \in Nat
       /\ A' \subseteq A /\ (caUsers[e] = "disabled" => A = {})
       /\ (caUsers'[e] = "disabled" => caUsers[e] = "disabled" \/ A' = {})
   BY CaAssumption DEF CaInv, CaSessionsHold, CaAssumption
 <2> HIDE DEF A
 <2>2. /\ IsFiniteSet(A') /\ Cardinality(A') \in Nat /\ Cardinality(A) \in Nat
       /\ Cardinality(A') <= Cardinality(A) BY <2>1, FS_Subset, FS_CardinalityType
 <2>3. /\ IsFiniteSet(A') /\ Cardinality(A') <= CaMaxDevices
       /\ (caUsers'[e] = "disabled" => A' = {}) BY <2>1, <2>2
 <2> QED BY <2>3 DEF A
<1>2. ASSUME NEW s \in CaRequests, caSessions'[s].state = "active"
      PROVE  /\ caSessions'[s].user \in CaEmails
             /\ \E j \in caIdentities' : j[2] = caSessions'[s].user
 <2>1. caSessions'[s] = caSessions[s] BY <1>2
 <2> QED BY <1>2, <2>1 DEF CaInv, CaSessionsHold, CaAdmitted
<1> QED BY <1>1, <1>2 DEF CaSessionsHold, CaAdmitted

\* Sessions of a set end one way or another.
LEMMA CaEndedSessions ==
  ASSUME CaInv, NEW ended \in SUBSET CaRequests, NEW v \in {"revoked", "expired"},
         caSessions' = [s \in CaRequests |-> IF s \in ended THEN [caSessions[s] EXCEPT !.state = v]
                                             ELSE caSessions[s]]
  PROVE  /\ caSessions' \in [CaRequests -> CaSessionRow]
         /\ \A s \in CaRequests : caSessions'[s].state = "active" => caSessions'[s] = caSessions[s]
         /\ \A e : CaActive(e)' = CaActive(e) \ ended
<1>1. caSessions \in [CaRequests -> CaSessionRow] BY DEF CaInv, CaTablesTyped
<1>2. ASSUME NEW s \in CaRequests
      PROVE  /\ caSessions'[s] \in CaSessionRow
             /\ s \notin ended => caSessions'[s] = caSessions[s]
             /\ s \in ended => caSessions'[s].state = v
 <2>1. CASE s \in ended
  <3>1. caSessions'[s] = [caSessions[s] EXCEPT !.state = v] /\ caSessions[s] \in CaSessionRow
    BY <1>1, <2>1
  <3>2. [caSessions[s] EXCEPT !.state = v] \in CaSessionRow BY Zenon, <3>1, CaRowTyped
  <3>3. [caSessions[s] EXCEPT !.state = v].state = v BY <3>1 DEF CaSessionRow
  <3> QED BY <2>1, <3>1, <3>2, <3>3
 <2>2. CASE s \notin ended BY <1>1, <2>2
 <2> QED BY <2>1, <2>2
<1>3. ASSUME NEW e
      PROVE  CaActive(e)' = CaActive(e) \ ended
 <2>1. ASSUME NEW s \in CaRequests, s \in ended
       PROVE  caSessions'[s] # [user |-> e, state |-> "active"]
  <3>1. caSessions'[s].state # "active" BY <1>2, <2>1
  <3> QED BY <3>1
 <2> QED BY <1>2, <2>1 DEF CaActive
<1> QED BY <1>2, <1>3

\* An invite is created.
LEMMA CaCreateInviteKeepsInv ==
  ASSUME CaInv, NEW c \in CaCodes, NEW e \in CaMail, CaCreateInvite(c, e)
  PROVE  CaInv'
<1>1. /\ caInvites \in [CaCodes -> CaInviteRow] /\ caInvites[c].state = "none"
      /\ caInvites' = [caInvites EXCEPT ![c] = [@ EXCEPT !.state = "fresh", !.email = e]]
      /\ UNCHANGED <<caUsers, caIdentities, caCredentials, caTxns, caSessions, caUses, caReq>>
  BY DEF CaInv, CaTablesTyped, CaCreateInvite
<1>2. PICK row \in CaInviteRow : row = [caInvites[c] EXCEPT !.state = "fresh", !.email = e]
  BY Zenon, <1>1, CaRowTyped
<1>3. row.state = "fresh" BY <1>1, <1>2 DEF CaInviteRow
<1>4. /\ caInvites' \in [CaCodes -> CaInviteRow] /\ caInvites'[c] = row
      /\ \A d \in CaCodes : d # c => caInvites'[d] = caInvites[d] BY <1>1, <1>2
<1>5. \A o : CaActive(o)' = CaActive(o) BY <1>1 DEF CaActive
<1>6. CaTablesTyped' /\ CaSessionsHold'
  BY <1>1, <1>4, <1>5 DEF CaInv, CaTablesTyped, CaSessionsHold, CaAdmitted
<1>7. CaInvitesHold'
 <2>1. ASSUME NEW d \in CaCodes
       PROVE  /\ caUses'[d] = IF caInvites'[d].state = "consumed" THEN 1 ELSE 0
              /\ caInvites'[d].state = "consumed" =>
                   /\ caInvites'[d].email \in {CaNoEmail, caInvites'[d].by}
                   /\ \E j \in caIdentities' : j[2] = caInvites'[d].by
   BY <1>1, <1>3, <1>4 DEF CaInv, CaInvitesHold, CaAdmitted
 <2>2. CaSpent' = CaSpent BY <1>1 DEF CaSpent
 <2> QED BY <1>1, <2>1, <2>2 DEF CaInv, CaInvitesHold, CaAdmitted
<1>8. ASSUME NEW s \in CaRequests, NEW o \in CaRequest, o = caReq[s]
      PROVE  CaRowsKept(o)
 <2>1. o.at \in CaHoldsInvite => o.code \in CaCodes /\ caInvites[o.code].state = "fresh"
   BY <1>8 DEF CaInv, CaChecked
 <2>2. o.at \in CaHoldsInvite => caInvites'[o.code] = caInvites[o.code] BY <1>1, <1>4, <2>1
 <2> QED BY <1>1, <1>5, <2>2 DEF CaRowsKept
<1> QED BY <1>1, <1>6, <1>7, <1>8, CaOutsideKeepsInv

\* Sessions end and nothing else changes.
LEMMA CaEndKeepsInv ==
  ASSUME CaInv, NEW ended \in SUBSET CaRequests, NEW v \in {"revoked", "expired"},
         caSessions' = [s \in CaRequests |-> IF s \in ended THEN [caSessions[s] EXCEPT !.state = v]
                                             ELSE caSessions[s]],
         UNCHANGED <<caInvites, caUsers, caIdentities, caCredentials, caTxns, caUses, caReq>>
  PROVE  CaInv'
<1>1. /\ caSessions' \in [CaRequests -> CaSessionRow]
      /\ \A s \in CaRequests : caSessions'[s].state = "active" => caSessions'[s] = caSessions[s]
      /\ \A e : CaActive(e)' \subseteq CaActive(e) BY CaEndedSessions
<1>2. CaSessionsHold' BY <1>1, CaShrinkKeepsSessions
<1>3. CaTablesTyped' /\ CaInvitesHold'
  BY <1>1 DEF CaInv, CaTablesTyped, CaInvitesHold, CaSpent, CaAdmitted
<1>4. \A o : CaRowsKept(o) BY <1>1 DEF CaRowsKept
<1> QED BY <1>2, <1>3, <1>4, CaOutsideKeepsInv

\* An account is disabled with its sessions.
LEMMA CaDisableKeepsInv ==
  ASSUME CaInv, NEW e \in CaEmails, CaDisable(e)
  PROVE  CaInv'
<1> DEFINE ended == {s \in CaRequests : caSessions[s].user = e /\ caSessions[s].state # "revoked"}
<1>1. /\ caUsers' = [caUsers EXCEPT ![e] = "disabled"]
      /\ caSessions' = [s \in CaRequests |-> IF s \in ended
                                             THEN [caSessions[s] EXCEPT !.state = "revoked"]
                                             ELSE caSessions[s]]
      /\ \A r \in CaRequests : caReq[r].at \in CaHoldsUser => caReq[r].email # e
      /\ UNCHANGED <<caInvites, caIdentities, caCredentials, caTxns, caUses, caReq>>
  BY DEF CaDisable, CaRevoked
<1>2. CaActive(e) \subseteq ended BY DEF CaActive
<1>3. PICK gone \in SUBSET CaRequests : gone = ended OBVIOUS
<1> HIDE DEF ended
<1>4. /\ caSessions' \in [CaRequests -> CaSessionRow]
      /\ \A s \in CaRequests : caSessions'[s].state = "active" => caSessions'[s] = caSessions[s]
      /\ \A o : CaActive(o)' = CaActive(o) \ gone BY <1>1, <1>3, CaEndedSessions
<1>5. CaActive(e)' = {} BY <1>2, <1>3, <1>4
<1>6. /\ caUsers' \in [CaEmails -> {"absent", "active", "disabled"}]
      /\ \A o \in CaEmails : o # e => caUsers'[o] = caUsers[o] BY <1>1 DEF CaInv, CaTablesTyped
<1>7. CaSessionsHold'
 <2>1. ASSUME NEW o \in CaEmails
       PROVE  /\ CaActive(o)' \subseteq CaActive(o)
              /\ caUsers'[o] = "disabled" => caUsers[o] = "disabled" \/ CaActive(o)' = {}
   BY <1>4, <1>5, <1>6
 <2> QED BY <1>1, <1>4, <2>1, CaShrinkKeepsSessions
<1>8. CaTablesTyped' /\ CaInvitesHold'
  BY <1>1, <1>4, <1>6 DEF CaInv, CaTablesTyped, CaInvitesHold, CaSpent, CaAdmitted
<1>9. ASSUME NEW s \in CaRequests, NEW o \in CaRequest, o = caReq[s]
      PROVE  CaRowsKept(o)
 <2>1. o.at \in CaHoldsUser => o.email # e /\ o.email \in CaEmails
   BY <1>1, <1>9 DEF CaInv, CaChecked, CaHoldsUser
 <2>2. \A a : CaActive(a)' \subseteq CaActive(a) BY <1>4
 <2> QED BY <1>1, <1>6, <2>1, <2>2 DEF CaRowsKept
<1> QED BY <1>1, <1>7, <1>8, <1>9, CaOutsideKeepsInv

\* A transaction that is not consumed changes.
LEMMA CaTransactionKeepsInv ==
  ASSUME CaInv, NEW t \in CaTxns, NEW row \in CaTxnRow, row.email \in CaEmails,
         caTxns[t].state # "consumed", caTxns' = [caTxns EXCEPT ![t] = row],
         UNCHANGED <<caInvites, caUsers, caIdentities, caCredentials, caSessions, caUses, caReq>>
  PROVE  CaInv'
<1>1. /\ caTxns' \in [CaTxns -> CaTxnRow] /\ caTxns'[t] = row
      /\ \A u \in CaTxns : u # t => caTxns'[u] = caTxns[u] BY DEF CaInv, CaTablesTyped
<1>2. \A o : CaActive(o)' = CaActive(o) BY DEF CaActive
<1>3. CaTablesTyped'
 <2>1. \A u \in CaTxns : caTxns'[u].state # "none" => caTxns'[u].email \in CaEmails
   BY <1>1 DEF CaInv, CaTablesTyped
 <2> QED BY <1>1, <2>1 DEF CaInv, CaTablesTyped
<1>4. CaInvitesHold' /\ CaSessionsHold'
  BY <1>2 DEF CaInv, CaInvitesHold, CaSessionsHold, CaSpent, CaAdmitted
<1>5. ASSUME NEW o PROVE CaRowsKept(o)
 <2>1. \A u \in CaTxns : caTxns[u].state = "consumed" => caTxns'[u].state = "consumed" BY <1>1
 <2> QED BY <1>2, <2>1 DEF CaRowsKept
<1> QED BY <1>3, <1>4, <1>5, CaOutsideKeepsInv

\* What happens outside of the requests.
LEMMA CaOutsideStepsKeepInv ==
  ASSUME CaInv,
         \/ \E s \in CaRequests : CaRevoke(s)
         \/ CaExpire
         \/ \E t \in CaTxns, c \in CaCodes \cup {CaNoCode}, e \in CaEmails : CaOauthStart(t, c, e)
  PROVE  CaInv'
<1>1. ASSUME NEW s \in CaRequests, CaRevoke(s)
      PROVE  CaInv' BY <1>1, CaEndKeepsInv DEF CaRevoke, CaRevoked
<1>2. ASSUME NEW s \in CaRequests, caSessions' = [caSessions EXCEPT ![s].state = "expired"],
             UNCHANGED <<caInvites, caUsers, caIdentities, caCredentials, caTxns, caUses, caReq>>
      PROVE  CaInv'
 <2>1. caSessions \in [CaRequests -> CaSessionRow] BY DEF CaInv, CaTablesTyped
 <2>2. caSessions' = [o \in CaRequests |-> IF o \in {s}
                                           THEN [caSessions[o] EXCEPT !.state = "expired"]
                                           ELSE caSessions[o]] BY <1>2, <2>1
 <2> QED BY <1>2, <2>2, CaEndKeepsInv
<1>3. ASSUME NEW t \in CaTxns, caTxns[t].state = "open",
             caTxns' = [caTxns EXCEPT ![t].state = "expired"],
             UNCHANGED <<caInvites, caUsers, caIdentities, caCredentials, caSessions, caUses, caReq>>
      PROVE  CaInv'
 <2>1. caTxns \in [CaTxns -> CaTxnRow] /\ caTxns[t].email \in CaEmails
   BY <1>3 DEF CaInv, CaTablesTyped
 <2>2. PICK row \in CaTxnRow :
         row = [caTxns[t] EXCEPT !.state = "expired"] /\ row.email = caTxns[t].email
   BY Zenon, <2>1, CaRowTyped
 <2>3. caTxns' = [caTxns EXCEPT ![t] = row] BY <1>3, <2>2
 <2> QED BY <1>3, <2>1, <2>2, <2>3, CaTransactionKeepsInv
<1>4. ASSUME NEW t \in CaTxns, NEW c \in CaCodes \cup {CaNoCode}, NEW e \in CaEmails,
             CaOauthStart(t, c, e)
      PROVE  CaInv'
 <2>1. PICK row \in CaTxnRow : row = [state |-> "open", code |-> c, email |-> e]
   BY DEF CaTxnRow, CaMail
 <2>2. row.email = e BY <2>1
 <2>3. /\ caTxns[t].state # "consumed" /\ caTxns' = [caTxns EXCEPT ![t] = row]
       /\ UNCHANGED <<caInvites, caUsers, caIdentities, caCredentials, caSessions, caUses, caReq>>
   BY <1>4, <2>1 DEF CaOauthStart, CaTransaction
 <2> QED BY <2>2, <2>3, CaTransactionKeepsInv
<1> QED BY <1>1, <1>2, <1>3, <1>4 DEF CaExpire

--------------------
\* The tables start empty.
LEMMA CaInitHolds == CaInit => CaInv
<1> SUFFICES ASSUME CaInit PROVE CaInv OBVIOUS
<1>1. CaTablesTyped BY DEF CaInit, CaTablesTyped, CaInviteRow, CaTxnRow, CaSessionRow, CaMail
<1>2. /\ caReq \in [CaRequests -> CaRequest]
      /\ \A r \in CaRequests : caReq[r].at = "idle" /\ caReq[r].txn = CaNoTxn
  BY DEF CaInit, CaIdle, CaRequest, CaPoints, CaMail
<1>3. CaLocksHold /\ CaOneCallback /\ \A r \in CaRequests : CaChecked(caReq[r])
  BY <1>2 DEF CaLocksHold, CaOneCallback, CaChecked, CaHoldsUser, CaHoldsInvite
<1>4. CaInvitesHold
 <2>1. CaSpent = {} /\ caIdentities = {} BY DEF CaInit, CaSpent
 <2>2. \A c \in CaCodes : caInvites[c].state = "none" /\ caUses[c] = 0 BY DEF CaInit
 <2>3. IsFiniteSet({}) /\ Cardinality({}) = 0 BY FS_EmptySet
 <2> QED BY <2>1, <2>2, <2>3 DEF CaInvitesHold
<1>5. CaSessionsHold
 <2>1. \A s \in CaRequests : caSessions[s].state = "none" BY DEF CaInit
 <2>2. ASSUME NEW e \in CaEmails PROVE CaActive(e) = {}
  <3>1. [user |-> e, state |-> "active"].state = "active" OBVIOUS
  <3> QED BY <2>1, <3>1 DEF CaActive
 <2>3. IsFiniteSet({}) /\ Cardinality({}) = 0 /\ CaMaxDevices \in Nat
   BY FS_EmptySet, CaAssumption DEF CaAssumption
 <2> QED BY <2>1, <2>2, <2>3 DEF CaSessionsHold
<1> QED BY <1>1, <1>2, <1>3, <1>4, <1>5 DEF CaInv

\* Every step keeps the invariant.
LEMMA CaStepKeepsInv == CaInv /\ [CaNext]_caVars => CaInv'
<1> SUFFICES ASSUME CaInv, [CaNext]_caVars PROVE CaInv' OBVIOUS
<1>1. CASE UNCHANGED caVars
 <2>1. caReq' = caReq /\ UNCHANGED caTables BY <1>1 DEF caVars
 <2> QED BY <2>1, CaTablesKept, CaOutsideKeepsInv
<1>2. CASE CaNext
  BY <1>2, CaCreateInviteKeepsInv, CaDisableKeepsInv, CaOutsideStepsKeepInv, CaBeginningKeepsInv,
     CaReadingKeepsInv, CaCanaryCommitKeepsInv, CaRegisterCommitKeepsInv, CaCredentialKeepsInv,
     CaSessionCommitKeepsInv DEF CaNext, CaMail
<1> QED BY <1>1, <1>2

\* The invariant implies what is checked.
LEMMA CaInvAdmits == CaInv => CaTypeOK /\ CaAdmission
<1> SUFFICES ASSUME CaInv PROVE CaTypeOK /\ CaAdmission OBVIOUS
<1>1. CaTypeOK BY DEF CaInv, CaTablesTyped, CaTypeOK, CaInviteRow, CaIdentityRows
<1>2. CaDeviceLimit BY DEF CaInv, CaSessionsHold, CaDeviceLimit
<1>3. CaInvitesSpentOnce
 <2>1. ASSUME NEW c \in CaCodes, caInvites[c].state = "consumed"
       PROVE  \E p \in {"canary_invite", "github", "development"} :
                 <<p, caInvites[c].by>> \in caIdentities
  <3>1. PICK i \in caIdentities : i[2] = caInvites[c].by
    BY <2>1 DEF CaInv, CaInvitesHold, CaAdmitted
  <3>2. i \in CaIdentityRows BY DEF CaInv, CaTablesTyped
  <3>3. i = <<i[1], i[2]>> /\ i[1] \in {"canary_invite", "github", "development"}
    BY <3>2 DEF CaIdentityRows
  <3> QED BY <3>1, <3>3
 <2> QED BY <2>1 DEF CaInv, CaInvitesHold, CaInvitesSpentOnce, CaSpent
<1>4. CaSessionsAdmitted
  BY CaAssumption DEF CaInv, CaSessionsHold, CaAdmitted, CaSessionsAdmitted, CaAuthenticated,
     CaOneCallback, CaAssumption
<1> QED BY <1>1, <1>2, <1>3, <1>4 DEF CaAdmission

--------------------
\* Only invited accounts log in, each invite admits once, and no account has more
\* active devices than the limit, however many logins run at once and wherever
\* they are broken off (create_canary_invite_session, get_or_create_identity,
\* create_session, consume_oauth_transaction and the operator's commands).
THEOREM AdmissionSafe == CaSpec => [](CaTypeOK /\ CaAdmission)
<1>1. CaInit => CaInv BY CaInitHolds
<1>2. CaInv /\ [CaNext]_caVars => CaInv' BY CaStepKeepsInv
<1>3. CaInv => CaTypeOK /\ CaAdmission BY CaInvAdmits
<1> QED BY <1>1, <1>2, <1>3, PTL DEF CaSpec

--------------------
(* Model providers. *)

PvPoints == {"idle", "delete", "default", "listed", "credential", "pinned", "passed", "failed"}

PvProvider == [exists: BOOLEAN, name: PvNames \cup {PvNone}, host: PvHosts \cup {PvNone},
               key: PvKeys \cup {PvNone}, models: SUBSET PvModels,
               status: {"untested", "connected", "error"}]
PvRequest == [at: PvPoints, id: PvIds \cup {PvNone}, host: PvHosts \cup {PvNone},
              key: PvKeys \cup {PvNone}, model: PvModels \cup {PvNone},
              addr: {"pub", "priv", PvNone}, for: {"test", "client", PvNone}]

\* A deleted record keeps none of its models.
PvDeletedHasNoModels == \A id \in PvIds : ~PvOwned(id) => pvProviders[id].models = {}

\* A request at work is for a Provider id, and connects to a checked address.
PvRequestFits(q) ==
  /\ q.at # "idle" => q.id \in PvIds
  /\ q.at = "pinned" => q.addr = "pub"

PvInv ==
  /\ pvProviders \in [PvIds -> PvProvider]
  /\ pvReq \in [PvRequests -> PvRequest]
  /\ pvDns \in [PvHosts -> {"pub", "priv"}]
  /\ PvDeletedHasNoModels
  /\ \A r \in PvRequests : PvRequestFits(pvReq[r])
  /\ pvDefault.id \in PvIds \cup {PvNone}
  /\ PvProvidersHold

\* A request that gets a fitting record keeps every request fitting.
LEMMA PvRequestKept ==
  ASSUME PvInv, NEW r \in PvRequests, NEW q \in PvRequest, PvRequestFits(q),
         pvReq' = [pvReq EXCEPT ![r] = q]
  PROVE  /\ pvReq' \in [PvRequests -> PvRequest]
         /\ \A s \in PvRequests : PvRequestFits(pvReq'[s])
BY DEF PvInv

\* A step that changes only the request keeps the invariant.
LEMMA PvRequestStepKeepsInv ==
  ASSUME PvInv, NEW r \in PvRequests, NEW q \in PvRequest, PvRequestFits(q),
         pvReq' = [pvReq EXCEPT ![r] = q],
         UNCHANGED <<pvProviders, pvDefault, pvDns, pvSent>>
  PROVE  PvInv'
<1>1. pvReq' \in [PvRequests -> PvRequest] /\ \A s \in PvRequests : PvRequestFits(pvReq'[s])
  BY PvRequestKept
<1> QED
  BY <1>1 DEF PvInv, PvProvidersHold, PvDefaultExists, PvSentToChecked, PvNamesDistinct, PvOwned,
              PvDeletedHasNoModels, PvRequestFits

\* Reading steps of a request change nothing but the request itself.
LEMMA PvReadingKeepsInv ==
  ASSUME PvInv, NEW r \in PvRequests,
         \/ \E id \in PvIds : \/ PvStartDelete(r, id)
                              \/ \E m \in PvModels : PvStartDefault(r, id, m)
                              \/ \E for \in {"test", "client"} : PvListProviders(r, id, for)
         \/ PvReadKey(r) \/ PvPin(r)
  PROVE  PvInv'
<1>0. pvReq \in [PvRequests -> PvRequest] /\ pvReq[r] \in PvRequest BY DEF PvInv
<1>i. PvIdle \in PvRequest /\ PvRequestFits(PvIdle)
  BY DEF PvIdle, PvRequest, PvPoints, PvRequestFits
<1>1. ASSUME NEW id \in PvIds, PvStartDelete(r, id) PROVE PvInv'
 <2> DEFINE q == [PvIdle EXCEPT !.at = "delete", !.id = id]
 <2>1. q \in PvRequest /\ PvRequestFits(q) BY DEF PvIdle, PvRequest, PvPoints, PvRequestFits
 <2> QED BY <1>1, <2>1, PvRequestStepKeepsInv DEF PvStartDelete
<1>2. ASSUME NEW id \in PvIds, NEW m \in PvModels, PvStartDefault(r, id, m) PROVE PvInv'
 <2> DEFINE q == [PvIdle EXCEPT !.at = "default", !.id = id, !.model = m]
 <2>1. q \in PvRequest /\ PvRequestFits(q) BY DEF PvIdle, PvRequest, PvPoints, PvRequestFits
 <2> QED BY <1>2, <2>1, PvRequestStepKeepsInv DEF PvStartDefault
<1>3. ASSUME NEW id \in PvIds, NEW for \in {"test", "client"}, PvListProviders(r, id, for)
      PROVE  PvInv'
 <2>0. PICK h : h = pvProviders[id].host OBVIOUS
 <2> DEFINE q == [PvIdle EXCEPT !.at = "listed", !.id = id, !.for = for, !.host = h]
 <2>1. h \in PvHosts \cup {PvNone} BY <2>0 DEF PvInv, PvProvider
 <2>2. q \in PvRequest /\ PvRequestFits(q) BY <2>1 DEF PvIdle, PvRequest, PvPoints, PvRequestFits
 <2> QED BY <1>3, <2>0, <2>2, PvRequestStepKeepsInv DEF PvListProviders
<1>4. ASSUME PvReadKey(r) PROVE PvInv'
 <2>0. PICK p : p = pvReq[r] OBVIOUS
 <2>1. CASE PvOwned(p.id)
  <3>0. PICK k : k = pvProviders[p.id].key OBVIOUS
  <3> DEFINE q == [p EXCEPT !.at = "credential", !.key = k]
  <3>1. p \in PvRequest /\ p.at = "listed" /\ p.id \in PvIds
    BY <1>0, <1>4, <2>0 DEF PvReadKey, PvInv, PvRequestFits
  <3>2. k \in PvKeys \cup {PvNone} BY <3>0, <3>1 DEF PvInv, PvProvider
  <3>3. q \in PvRequest /\ PvRequestFits(q) BY <3>1, <3>2 DEF PvRequest, PvPoints, PvRequestFits
  <3>4. pvReq' = [pvReq EXCEPT ![r] = q] BY <1>0, <1>4, <2>0, <2>1, <3>0 DEF PvReadKey
  <3> QED BY <1>4, <3>3, <3>4, PvRequestStepKeepsInv DEF PvReadKey
 <2>2. CASE ~PvOwned(p.id)
  <3>1. pvReq' = [pvReq EXCEPT ![r] = PvIdle] BY <1>0, <1>4, <2>0, <2>2 DEF PvReadKey
  <3> QED BY <1>4, <1>i, <3>1, PvRequestStepKeepsInv DEF PvReadKey
 <2> QED BY <2>1, <2>2
<1>5. ASSUME PvPin(r) PROVE PvInv'
 <2>0. PICK p : p = pvReq[r] OBVIOUS
 <2>00. PICK addr : addr = pvDns[p.host] OBVIOUS
 <2>1. p \in PvRequest /\ p.at = "credential" /\ p.id \in PvIds
   BY <1>0, <1>5, <2>0 DEF PvPin, PvInv, PvRequestFits
 <2>2. CASE PvAllowed(addr)
  <3> DEFINE q == [p EXCEPT !.at = "pinned", !.addr = addr]
  <3>1. q \in PvRequest /\ PvRequestFits(q)
    BY <2>1, <2>2 DEF PvRequest, PvPoints, PvRequestFits, PvAllowed
  <3>2. pvReq' = [pvReq EXCEPT ![r] = q] BY <1>0, <1>5, <2>0, <2>00, <2>2 DEF PvPin
  <3> QED BY <1>5, <3>1, <3>2, PvRequestStepKeepsInv DEF PvPin
 <2>3. CASE ~PvAllowed(addr) /\ p.for = "test"
  <3> DEFINE q == [p EXCEPT !.at = "failed"]
  <3>1. q \in PvRequest /\ PvRequestFits(q) BY <2>1 DEF PvRequest, PvPoints, PvRequestFits
  <3>2. pvReq' = [pvReq EXCEPT ![r] = q] BY <1>0, <1>5, <2>0, <2>00, <2>3 DEF PvPin
  <3> QED BY <1>5, <3>1, <3>2, PvRequestStepKeepsInv DEF PvPin
 <2>4. CASE ~PvAllowed(addr) /\ p.for # "test"
  <3>1. pvReq' = [pvReq EXCEPT ![r] = PvIdle] BY <1>0, <1>5, <2>0, <2>00, <2>4 DEF PvPin
  <3> QED BY <1>5, <1>i, <3>1, PvRequestStepKeepsInv DEF PvPin
 <2> QED BY <2>2, <2>3, <2>4
<1> QED BY <1>1, <1>2, <1>3, <1>4, <1>5

\* What a record may become: names stay distinct, and the default keeps its model.
LEMMA PvRecordKeepsInv ==
  ASSUME PvInv, NEW id \in PvIds, NEW p \in PvProvider,
         pvProviders' = [pvProviders EXCEPT ![id] = p],
         p.exists \/ p.models = {},
         p.exists => PvNameFree(p.name, id),
         pvDefault'.id \in PvIds \cup {PvNone},
         pvDefault'.id = id /\ id # PvNone => p.exists /\ pvDefault'.model \in p.models,
         pvDefault'.id # id => pvDefault' = pvDefault \/ pvDefault'.id = PvNone,
         UNCHANGED <<pvDns, pvReq, pvSent>>
  PROVE  PvInv'
<1>1. pvProviders \in [PvIds -> PvProvider] /\ pvProviders'[id] = p
      /\ \A o \in PvIds \ {id} : pvProviders'[o] = pvProviders[o] BY DEF PvInv
<1>2. pvProviders' \in [PvIds -> PvProvider] BY DEF PvInv
<1>3. PvDeletedHasNoModels' BY <1>1 DEF PvInv, PvDeletedHasNoModels, PvOwned
<1>4. PvDefaultExists' BY <1>1 DEF PvInv, PvProvidersHold, PvDefaultExists, PvOwned
<1>5. PvNamesDistinct' BY <1>1 DEF PvInv, PvProvidersHold, PvNamesDistinct, PvOwned, PvNameFree
<1> QED BY <1>2, <1>3, <1>4, <1>5 DEF PvInv, PvProvidersHold, PvSentToChecked, PvRequestFits

\* A new record brings a free name, and a default of its own at most.
LEMMA PvCreateKeepsInv ==
  ASSUME PvInv, NEW id \in PvIds, NEW n \in PvNames, NEW h \in PvHosts, NEW k \in PvKeys,
         NEW ms \in PvModelSets, PvCreate(id, n, h, k, ms)
  PROVE  PvInv'
<1> DEFINE p == [exists |-> TRUE, name |-> n, host |-> h, key |-> k, models |-> ms,
                 status |-> "untested"]
<1>1. p \in PvProvider BY DEF PvProvider, PvModelSets
<1>2. pvProviders' = [pvProviders EXCEPT ![id] = p] /\ UNCHANGED <<pvDns, pvReq, pvSent>>
  BY DEF PvCreate, PvChanges
<1>3. PvNameFree(p.name, id) BY DEF PvCreate
<1>4. pvDefault.id = id => id = PvNone BY DEF PvCreate, PvInv, PvProvidersHold, PvDefaultExists
<1>5. CASE UNCHANGED pvDefault BY <1>1, <1>2, <1>3, <1>4, <1>5, PvRecordKeepsInv DEF PvInv
<1>6. ASSUME NEW m \in ms, pvDefault' = [id |-> id, model |-> m] PROVE PvInv'
  BY <1>1, <1>2, <1>3, <1>6, PvRecordKeepsInv
<1> QED BY <1>5, <1>6 DEF PvCreate

\* An update keeps the model the default names.
LEMMA PvUpdateKeepsInv ==
  ASSUME PvInv, NEW id \in PvIds, NEW n \in PvNames, NEW h \in PvHosts,
         NEW k \in PvKeys \cup {PvNone}, NEW ms \in PvModelSets, PvUpdate(id, n, h, k, ms)
  PROVE  PvInv'
<1>0. PICK old : old = pvProviders[id] OBVIOUS
<1> DEFINE p == [old EXCEPT !.name = n, !.host = h, !.models = ms,
                            !.key = IF k = PvNone THEN @ ELSE k,
                            !.status = IF PvSameConnection(old, h, k) THEN @ ELSE "untested"]
<1>1. old \in PvProvider /\ old.exists BY <1>0 DEF PvInv, PvUpdate, PvOwned
<1>2. p \in PvProvider /\ p.exists /\ p.name = n /\ p.models = ms
  BY <1>1 DEF PvProvider, PvModelSets
<1>3. pvProviders' = [pvProviders EXCEPT ![id] = p]
      /\ UNCHANGED <<pvDefault, pvDns, pvReq, pvSent>> BY <1>0 DEF PvUpdate, PvChanges
<1>4. PvNameFree(p.name, id) /\ (pvDefault.id = id => pvDefault.model \in p.models)
  BY <1>2 DEF PvUpdate
<1> HIDE DEF p
<1> QED BY <1>2, <1>3, <1>4, PvRecordKeepsInv DEF PvInv

\* A deleted record takes a preference for it along.
LEMMA PvDeleteKeepsInv ==
  ASSUME PvInv, NEW r \in PvRequests, PvDelete(r)
  PROVE  PvInv'
<1>0. PICK id : id = pvReq[r].id OBVIOUS
<1>1. id \in PvIds /\ pvProviders \in [PvIds -> PvProvider]
  BY <1>0 DEF PvInv, PvDelete, PvRequestFits
<1>2. PvIdle \in PvRequest /\ PvRequestFits(PvIdle) /\ pvReq' = [pvReq EXCEPT ![r] = PvIdle]
  BY DEF PvIdle, PvRequest, PvPoints, PvRequestFits, PvDelete
<1>3. pvReq' \in [PvRequests -> PvRequest] /\ \A s \in PvRequests : PvRequestFits(pvReq'[s])
  BY <1>2, PvRequestKept
<1>4. PICK old : old = pvProviders[id] OBVIOUS
<1> DEFINE p == [old EXCEPT !.exists = FALSE, !.models = {}]
<1>5. p \in PvProvider /\ p.exists = FALSE /\ p.models = {} BY <1>1, <1>4 DEF PvProvider
<1>6. pvProviders' = [pvProviders EXCEPT ![id] = p] BY <1>0, <1>1, <1>4 DEF PvDelete
<1> HIDE DEF p
<1>7. /\ pvProviders' \in [PvIds -> PvProvider] /\ pvProviders'[id] = p
      /\ \A o \in PvIds \ {id} : pvProviders'[o] = pvProviders[o] BY <1>1, <1>5, <1>6
<1>8. pvDefault' = IF pvDefault.id = id THEN [id |-> PvNone, model |-> PvNone] ELSE pvDefault
  BY <1>0 DEF PvDelete
<1>9. PvDeletedHasNoModels' /\ PvNamesDistinct'
  BY <1>5, <1>7 DEF PvInv, PvDeletedHasNoModels, PvOwned, PvProvidersHold, PvNamesDistinct
<1>10. PvDefaultExists' /\ (pvDefault.id)' \in PvIds \cup {PvNone}
  BY <1>1, <1>7, <1>8 DEF PvInv, PvOwned, PvProvidersHold, PvDefaultExists
<1> QED BY <1>3, <1>7, <1>9, <1>10 DEF PvInv, PvProvidersHold, PvSentToChecked, PvDelete

\* A preference is written only while its model is there.
LEMMA PvSetDefaultKeepsInv ==
  ASSUME PvInv, NEW r \in PvRequests, PvSetDefault(r)
  PROVE  PvInv'
<1>0. PICK q : q = pvReq[r] OBVIOUS
<1>1. q.id \in PvIds BY <1>0 DEF PvInv, PvSetDefault, PvRequestFits
<1>2. PvIdle \in PvRequest /\ PvRequestFits(PvIdle) /\ pvReq' = [pvReq EXCEPT ![r] = PvIdle]
  BY DEF PvIdle, PvRequest, PvPoints, PvRequestFits, PvSetDefault
<1>3. pvReq' \in [PvRequests -> PvRequest] /\ \A s \in PvRequests : PvRequestFits(pvReq'[s])
  BY <1>2, PvRequestKept
<1>4. pvDefault' = IF q.model \in pvProviders[q.id].models
                   THEN [id |-> q.id, model |-> q.model] ELSE pvDefault BY <1>0 DEF PvSetDefault
<1>5. PvDefaultExists' /\ (pvDefault.id)' \in PvIds \cup {PvNone}
  BY <1>1, <1>4 DEF PvInv, PvSetDefault, PvOwned, PvProvidersHold, PvDefaultExists,
                    PvDeletedHasNoModels
<1> QED BY <1>3, <1>5 DEF PvInv, PvProvidersHold, PvSentToChecked, PvSetDefault, PvNamesDistinct,
                    PvDeletedHasNoModels, PvOwned

\* A request goes to the address that was checked.
LEMMA PvSendKeepsInv ==
  ASSUME PvInv, NEW r \in PvRequests, PvSend(r)
  PROVE  PvInv'
<1>0. PICK p : p = pvReq[r] OBVIOUS
<1>1. p \in PvRequest /\ p.at = "pinned" /\ p.addr = "pub" /\ p.id \in PvIds
  BY <1>0 DEF PvInv, PvSend, PvRequestFits
<1>2. PICK ok \in BOOLEAN :
        pvReq' = [pvReq EXCEPT ![r] = IF p.for # "test" THEN PvIdle
                                      ELSE [p EXCEPT !.at = IF ok THEN "passed" ELSE "failed"]]
  BY <1>0 DEF PvSend, PvInv
<1> DEFINE q == IF p.for # "test" THEN PvIdle
                ELSE [p EXCEPT !.at = IF ok THEN "passed" ELSE "failed"]
<1>3. q \in PvRequest /\ PvRequestFits(q) BY <1>1 DEF PvIdle, PvRequest, PvPoints, PvRequestFits
<1>4. pvReq' \in [PvRequests -> PvRequest] /\ \A s \in PvRequests : PvRequestFits(pvReq'[s])
  BY <1>2, <1>3, PvRequestKept
<1>5. pvSent' = pvSent \cup {PvConnect(p)} /\ PvConnect(p).addr = "pub"
  BY <1>0, <1>1 DEF PvSend, PvConnect
<1>6. PvSentToChecked' BY <1>5 DEF PvInv, PvProvidersHold, PvSentToChecked
<1> QED BY <1>4, <1>6 DEF PvInv, PvProvidersHold, PvDefaultExists, PvSend, PvNamesDistinct,
                    PvDeletedHasNoModels, PvOwned

\* The result of a test changes a status and no more.
LEMMA PvRecordProbeKeepsInv ==
  ASSUME PvInv, NEW r \in PvRequests, PvRecordProbe(r)
  PROVE  PvInv'
<1>0. PICK id : id = pvReq[r].id OBVIOUS
<1>1. id \in PvIds /\ pvProviders \in [PvIds -> PvProvider]
  BY <1>0 DEF PvInv, PvRecordProbe, PvRequestFits
<1>2. PvIdle \in PvRequest /\ PvRequestFits(PvIdle) /\ pvReq' = [pvReq EXCEPT ![r] = PvIdle]
  BY DEF PvIdle, PvRequest, PvPoints, PvRequestFits, PvRecordProbe
<1>3. pvReq' \in [PvRequests -> PvRequest] /\ \A s \in PvRequests : PvRequestFits(pvReq'[s])
  BY <1>2, PvRequestKept
<1>4. /\ pvProviders' \in [PvIds -> PvProvider]
      /\ \A o \in PvIds : /\ pvProviders'[o].exists = pvProviders[o].exists
                          /\ pvProviders'[o].name = pvProviders[o].name
                          /\ pvProviders'[o].models = pvProviders[o].models
 <2>1. CASE pvProviders' = pvProviders BY <1>1, <2>1
 <2>2. ASSUME NEW status \in {"connected", "error"},
              pvProviders' = [pvProviders EXCEPT ![id].status = status]
       PROVE  /\ pvProviders' \in [PvIds -> PvProvider]
              /\ \A o \in PvIds : /\ pvProviders'[o].exists = pvProviders[o].exists
                                  /\ pvProviders'[o].name = pvProviders[o].name
                                  /\ pvProviders'[o].models = pvProviders[o].models
  <3>1. PICK old : old = pvProviders[id] OBVIOUS
  <3> DEFINE p == [old EXCEPT !.status = status]
  <3>2. /\ p \in PvProvider /\ p.exists = old.exists /\ p.name = old.name
        /\ p.models = old.models BY <1>1, <3>1 DEF PvProvider
  <3>3. pvProviders' = [pvProviders EXCEPT ![id] = p] BY <2>2, <3>1, <1>1
  <3> HIDE DEF p
  <3> QED BY <1>1, <3>1, <3>2, <3>3
 <2>3. PICK status : status = IF pvReq[r].at = "passed" THEN "connected" ELSE "error" OBVIOUS
 <2>4. CASE PvOwned(id)
  <3>1. pvProviders' = [pvProviders EXCEPT ![id].status = status]
    BY <1>0, <2>3, <2>4 DEF PvRecordProbe
  <3>2. status \in {"connected", "error"} BY <2>3
  <3> QED BY <2>2, <3>1, <3>2
 <2>5. CASE ~PvOwned(id) BY <1>0, <2>1, <2>5 DEF PvRecordProbe
 <2> QED BY <2>4, <2>5
<1> QED BY <1>3, <1>4 DEF PvInv, PvProvidersHold, PvDefaultExists, PvSentToChecked, PvRecordProbe,
                    PvNamesDistinct, PvDeletedHasNoModels, PvOwned

\* Every step of the providers keeps the invariant.
LEMMA PvStepKeepsInv == PvInv /\ [PvNext]_pvVars => PvInv'
<1> SUFFICES ASSUME PvInv, [PvNext]_pvVars PROVE PvInv' OBVIOUS
<1>1. CASE \E id \in PvIds, n \in PvNames, h \in PvHosts, k \in PvKeys, ms \in PvModelSets :
             PvCreate(id, n, h, k, ms) BY <1>1, PvCreateKeepsInv
<1>2. CASE \E id \in PvIds, n \in PvNames, h \in PvHosts, k \in PvKeys \cup {PvNone},
              ms \in PvModelSets : PvUpdate(id, n, h, k, ms) BY <1>2, PvUpdateKeepsInv
<1>3. CASE \E r \in PvRequests :
             \/ \E id \in PvIds : \/ PvStartDelete(r, id)
                                  \/ \E m \in PvModels : PvStartDefault(r, id, m)
                                  \/ \E for \in {"test", "client"} : PvListProviders(r, id, for)
             \/ PvReadKey(r) \/ PvPin(r) BY <1>3, PvReadingKeepsInv
<1>4. CASE \E r \in PvRequests : PvDelete(r) \/ PvSetDefault(r) \/ PvSend(r) \/ PvRecordProbe(r)
  BY <1>4, PvDeleteKeepsInv, PvSetDefaultKeepsInv, PvSendKeepsInv, PvRecordProbeKeepsInv
<1>5. CASE \E h \in PvHosts : PvRebind(h)
 <2>1. PICK h \in PvHosts : PvRebind(h) BY <1>5
 <2>2. pvDns' \in [PvHosts -> {"pub", "priv"}] BY <2>1 DEF PvRebind, PvInv
 <2> QED BY <2>1, <2>2 DEF PvRebind, PvInv, PvProvidersHold, PvDefaultExists, PvSentToChecked,
                   PvNamesDistinct, PvDeletedHasNoModels, PvOwned, PvRequestFits
<1>6. CASE UNCHANGED pvVars
  BY <1>6 DEF pvVars, PvInv, PvProvidersHold, PvDefaultExists, PvSentToChecked,
                    PvNamesDistinct, PvDeletedHasNoModels, PvOwned, PvRequestFits
<1> QED BY <1>1, <1>2, <1>3, <1>4, <1>5, <1>6 DEF PvNext

\* The empty tables satisfy the invariant.
LEMMA PvInitHolds == PvInit => PvInv
BY DEF PvInit, PvInv, PvAbsent, PvIdle, PvProvider, PvRequest, PvPoints, PvDeletedHasNoModels,
       PvRequestFits, PvProvidersHold, PvDefaultExists, PvSentToChecked, PvNamesDistinct, PvOwned

\* The default of an account names a configured model, its keys are sent to
\* checked addresses alone, and the names of its providers stay distinct,
\* whatever requests overlap (core/cloud/model_providers, PvProvidersHold).
THEOREM ProvidersSafe == PvSpec => [](PvTypeOK /\ PvProvidersHold)
<1>1. PvInv => PvTypeOK /\ PvProvidersHold BY DEF PvInv, PvTypeOK, PvProvider, PvRequest, PvPoints
<1> QED BY PvInitHolds, PvStepKeepsInv, <1>1, PTL DEF PvSpec

--------------------
(* Deployment of the Canary. *)

CdTag0 == CdTags \cup {0}
CdResting == {"idle", "done", "failed"}
CdBefore == {"preflight", "build", "data", "backup", "migrate", "switch"}
CdPoints == CdResting \cup CdBefore \cup {"health", "record", "restore"}

CdJobRow == [op: {"none", "apply", "rollback"}, tag: CdTag0, at: CdPoints, prev: CdTag0]
CdState == [health: {"UNKNOWN", "HEALTHY", "UNHEALTHY"}, failures: Nat, paused: BOOLEAN]
CdRunRow == [at: {"idle", "deploy", "waiting"}, sha: CdTag0, state: CdState,
             job: CdJobs \cup {CdNoJob}]

CdServerTyped ==
  /\ cdSchema \in CdTag0 /\ cdRunning \in CdTag0
  /\ cdFile \in [current: CdTag0, previous: CdTag0]
  /\ cdJob \in [CdJobs -> CdJobRow]
  /\ cdDrift \in BOOLEAN

CdLocalTyped ==
  /\ cdBranch \in CdTag0
  /\ cdCtl \in CdState
  /\ cdRun \in CdRunRow
  /\ cdRun.at # "idle" => cdRun.sha \in CdTags
  /\ cdCheck \subseteq CdState
  /\ cdStreak \in Nat
  /\ cdTouched \in BOOLEAN

\* A job that may switch, now or in its next commands, finds its schema.
CdJobCovered(job, schema) ==
  /\ job.prev <= schema
  /\ job.op # "apply" \/ job.at \in {"switch", "health", "record", "restore"} => job.tag <= schema

CdSchemaInv ==
  /\ cdRunning <= cdSchema /\ cdFile.current <= cdSchema /\ cdFile.previous <= cdSchema
  /\ \A j \in CdJobs : CdJobCovered(cdJob[j], cdSchema)

\* What a job under way remembers and what runs, while current is recorded.
CdJobFits(job, current, running) ==
  /\ job.op # "none"
  /\ job.at # "preflight" => job.prev = current
  /\ job.at \in CdBefore /\ current # 0 => running \in {current, 0}
  /\ job.at \in {"health", "record"} => running = job.tag

CdRecordInv ==
  ~cdDrift => /\ \A i, j \in CdBusy : i = j
              /\ \A j \in CdBusy : CdJobFits(cdJob[j], cdFile.current, cdRunning)
              /\ CdBusy = {} /\ cdFile.current # 0 => cdRunning \in {cdFile.current, 0}

CdPauseInv ==
  ~cdTouched => /\ cdCtl.failures = cdStreak
                /\ cdStreak >= CdPauseAfter => cdCtl.paused
                /\ cdRun.at # "idle" => cdRun.state.failures = cdStreak /\ cdStreak < CdPauseAfter
                /\ \A s \in cdCheck : s.failures = cdStreak /\ s.paused = cdCtl.paused

CdInv == CdServerTyped /\ CdLocalTyped /\ CdSchemaInv /\ CdRecordInv /\ CdPauseInv

\* A job that moves keeps what the server holds, if its new state fits.
LEMMA CdJobKeepsServer ==
  ASSUME CdServerTyped, CdSchemaInv, CdRecordInv,
         NEW j \in CdJobs, NEW q \in CdJobRow, cdJob' = [cdJob EXCEPT ![j] = q],
         cdSchema' \in CdTag0, cdSchema <= cdSchema',
         cdRunning' \in CdTag0, cdRunning' <= cdSchema',
         cdFile' \in [current: CdTag0, previous: CdTag0],
         cdFile'.current <= cdSchema', cdFile'.previous <= cdSchema',
         CdJobCovered(q, cdSchema'),
         cdDrift' \in BOOLEAN,
         ~cdDrift' => /\ CdBusy \subseteq {j}
                      /\ IF q.at \in CdResting
                         THEN cdFile'.current # 0 => cdRunning' \in {cdFile'.current, 0}
                         ELSE CdJobFits(q, cdFile'.current, cdRunning')
  PROVE  CdServerTyped' /\ CdSchemaInv' /\ CdRecordInv'
<1>1. /\ cdJob' \in [CdJobs -> CdJobRow] /\ cdJob'[j] = q
      /\ \A i \in CdJobs \ {j} : cdJob'[i] = cdJob[i] BY DEF CdServerTyped
<1>2. CdServerTyped' BY <1>1 DEF CdServerTyped
<1>3. \A i \in CdJobs : CdJobCovered(cdJob'[i], cdSchema')
 <2>1. ASSUME NEW i \in CdJobs, i # j PROVE CdJobCovered(cdJob'[i], cdSchema')
  <3>1. PICK p : p = cdJob[i] OBVIOUS
  <3>2. p \in CdJobRow /\ CdJobCovered(p, cdSchema) BY <3>1 DEF CdSchemaInv, CdServerTyped
  <3>3. CdJobCovered(p, cdSchema')
    BY <3>2, CdAssumption DEF CdJobCovered, CdJobRow, CdServerTyped, CdTag0, CdTags
  <3> QED BY <1>1, <2>1, <3>1, <3>3
 <2> QED BY <1>1, <2>1
<1>4. CdSchemaInv' BY <1>3 DEF CdSchemaInv
<1>5. CdRecordInv'
 <2> SUFFICES ASSUME ~cdDrift' PROVE CdRecordInv' BY DEF CdRecordInv
 <2>1. \A i \in CdJobs \ {j} : cdJob'[i].at \in CdResting BY <1>1 DEF CdBusy, CdResting
 <2>2. CdBusy' \subseteq {j} BY <2>1 DEF CdBusy, CdResting
 <2>3. CASE q.at \in CdResting
  <3>1. CdBusy' = {} BY <1>1, <2>2, <2>3 DEF CdBusy, CdResting
  <3> QED BY <2>3, <3>1 DEF CdRecordInv
 <2>4. CASE q.at \notin CdResting
  <3>1. CdBusy' = {j} BY <1>1, <2>2, <2>4 DEF CdBusy, CdResting
  <3> QED BY <1>1, <2>4, <3>1 DEF CdRecordInv
 <2> QED BY <2>3, <2>4
<1> QED BY <1>2, <1>4, <1>5

\* The job of a busy slot, and what its command finds.
LEMMA CdJobAtWork ==
  ASSUME CdServerTyped, CdSchemaInv, CdRecordInv, NEW j \in CdBusy
  PROVE  /\ j \in CdJobs /\ cdJob[j] \in CdJobRow /\ cdJob[j].at \notin CdResting
         /\ CdJobCovered(cdJob[j], cdSchema)
         /\ ~cdDrift => CdBusy \subseteq {j} /\ CdJobFits(cdJob[j], cdFile.current, cdRunning)
BY DEF CdBusy, CdServerTyped, CdSchemaInv, CdRecordInv, CdResting

\* A command that succeeds: migrations before the switch, the record after it.
LEMMA CdStepKeepsServer ==
  ASSUME CdServerTyped, CdSchemaInv, CdRecordInv, NEW j \in CdJobs, CdStep(j)
  PROVE  CdServerTyped' /\ CdSchemaInv' /\ CdRecordInv'
<1>1. PICK job : job = cdJob[j] OBVIOUS
<1>2. j \in CdBusy BY DEF CdStep
<1>3. /\ job \in CdJobRow /\ job.at \notin CdResting /\ CdJobCovered(job, cdSchema)
      /\ ~cdDrift => CdBusy \subseteq {j} /\ CdJobFits(job, cdFile.current, cdRunning)
  BY <1>1, <1>2, CdJobAtWork
<1>4. PICK current : current = cdFile.current OBVIOUS
<1>5. current \in CdTag0 /\ current <= cdSchema BY <1>4 DEF CdServerTyped, CdSchemaInv
<1> DEFINE q == [job EXCEPT !.at = CdAfter(job.op, job.at),
                            !.prev = IF job.at = "preflight" THEN current ELSE @]
<1>6. q \in CdJobRow BY <1>3, <1>5 DEF CdJobRow, CdAfter, CdPoints, CdResting, CdBefore
<1>7. cdJob' = [cdJob EXCEPT ![j] = q] BY <1>1, <1>4 DEF CdStep, CdServerTyped
<1>8. /\ q.op = job.op /\ q.tag = job.tag /\ q.at = CdAfter(job.op, job.at)
      /\ q.prev = IF job.at = "preflight" THEN current ELSE job.prev BY <1>3 DEF CdJobRow
<1> HIDE DEF q
<1>9. job.op \in {"none", "apply", "rollback"} /\ job.tag \in CdTag0 /\ job.prev \in CdTag0
  BY <1>3 DEF CdJobRow
<1>10. /\ cdSchema' = IF job.at = "migrate" /\ job.tag > cdSchema THEN job.tag ELSE cdSchema
       /\ cdRunning' = CASE job.at = "switch"  -> job.tag
                         [] job.at = "restore" -> job.prev
                         [] OTHER              -> cdRunning
       /\ cdFile' = IF job.at = "record" THEN [current |-> job.tag, previous |-> job.prev] ELSE cdFile
       /\ cdDrift' = cdDrift BY <1>1 DEF CdStep
<1>11. cdSchema' \in CdTag0 /\ cdSchema <= cdSchema'
  BY <1>9, <1>10, CdAssumption DEF CdServerTyped, CdTag0, CdTags
<1>12. job.tag <= cdSchema => job.tag <= cdSchema'
  BY <1>9, <1>11, CdAssumption DEF CdServerTyped, CdTag0, CdTags
<1>13. job.prev <= cdSchema' /\ current <= cdSchema' /\ cdRunning <= cdSchema'
       /\ cdFile.previous <= cdSchema' BY <1>3, <1>5, <1>9, <1>11, CdAssumption
     DEF CdServerTyped, CdTag0, CdTags, CdSchemaInv, CdJobCovered
<1>14. CASE job.at \in {"preflight", "build", "data", "backup", "migrate"}
 <2>1. cdFile' = cdFile /\ cdRunning' = cdRunning BY <1>10, <1>14
 <2>2. q.at \in CdBefore /\ (q.at = "switch" => job.at = "migrate" \/ job.op # "apply")
   BY <1>8, <1>9, <1>14 DEF CdAfter, CdBefore
 <2>3. job.at = "migrate" => job.tag <= cdSchema'
   BY <1>9, <1>10, CdAssumption DEF CdServerTyped, CdTag0, CdTags
 <2>4. CdJobCovered(q, cdSchema') BY <1>3, <1>8, <1>12, <1>13, <2>2, <2>3 DEF CdJobCovered, CdBefore
 <2>5. ~cdDrift => CdJobFits(q, cdFile'.current, cdRunning')
   BY <1>3, <1>4, <1>8, <1>14, <2>1, <2>2 DEF CdJobFits, CdBefore
 <2>6. q.at \notin CdResting BY <2>2 DEF CdBefore, CdResting
 <2>7. cdFile' \in [current: CdTag0, previous: CdTag0] /\ cdRunning' \in CdTag0
   BY <2>1 DEF CdServerTyped
 <2> QED BY <1>3, <1>4, <1>6, <1>7, <1>10, <1>11, <1>13, <2>1, <2>4, <2>5, <2>6, <2>7,
            CdJobKeepsServer DEF CdServerTyped
<1>15. CASE job.at = "switch"
 <2>1. cdFile' = cdFile /\ cdRunning' = job.tag /\ cdSchema' = cdSchema BY <1>10, <1>15
 <2>2. q.at = "health" BY <1>8, <1>15 DEF CdAfter
 <2>3. job.tag <= cdSchema' BY <1>3, <1>12, <1>15 DEF CdJobCovered
 <2>4. CdJobCovered(q, cdSchema') BY <1>8, <1>13, <1>15, <2>3 DEF CdJobCovered
 <2>5. ~cdDrift => CdJobFits(q, cdFile'.current, cdRunning')
   BY <1>3, <1>4, <1>8, <1>15, <2>1, <2>2 DEF CdJobFits, CdBefore
 <2>6. q.at \notin CdResting BY <2>2 DEF CdResting
 <2>7. cdFile' \in [current: CdTag0, previous: CdTag0] /\ cdRunning' \in CdTag0
   BY <1>9, <2>1 DEF CdServerTyped
 <2> QED BY <1>3, <1>4, <1>6, <1>7, <1>10, <1>11, <1>13, <2>1, <2>3, <2>4, <2>5, <2>6, <2>7,
            CdJobKeepsServer DEF CdServerTyped
<1>16. CASE job.at = "health"
 <2>1. cdFile' = cdFile /\ cdRunning' = cdRunning BY <1>10, <1>16
 <2>2. q.at = "record" BY <1>8, <1>16 DEF CdAfter
 <2>4. CdJobCovered(q, cdSchema') BY <1>3, <1>8, <1>12, <1>13, <1>16 DEF CdJobCovered
 <2>5. ~cdDrift => CdJobFits(q, cdFile'.current, cdRunning')
   BY <1>3, <1>4, <1>8, <1>16, <2>1, <2>2 DEF CdJobFits, CdBefore
 <2>6. q.at \notin CdResting BY <2>2 DEF CdResting
 <2>7. cdFile' \in [current: CdTag0, previous: CdTag0] /\ cdRunning' \in CdTag0
   BY <2>1 DEF CdServerTyped
 <2> QED BY <1>3, <1>4, <1>6, <1>7, <1>10, <1>11, <1>13, <2>1, <2>4, <2>5, <2>6, <2>7,
            CdJobKeepsServer DEF CdServerTyped
<1>17. CASE job.at = "record"
 <2>1. /\ cdFile' = [current |-> job.tag, previous |-> job.prev]
       /\ cdRunning' = cdRunning BY <1>10, <1>17
 <2>2. q.at = "done" /\ q.at \in CdResting BY <1>8, <1>17 DEF CdAfter, CdResting
 <2>3. job.tag <= cdSchema' BY <1>3, <1>12, <1>17 DEF CdJobCovered
 <2>4. CdJobCovered(q, cdSchema') BY <1>8, <1>13, <1>17, <2>3 DEF CdJobCovered
 <2>5. ~cdDrift => cdRunning' = cdFile'.current BY <1>3, <1>17, <2>1 DEF CdJobFits
 <2>7. cdFile' \in [current: CdTag0, previous: CdTag0] /\ cdRunning' \in CdTag0
   BY <1>9, <2>1 DEF CdServerTyped
 <2>8. cdFile'.current <= cdSchema' /\ cdFile'.previous <= cdSchema' BY <1>13, <2>1, <2>3
 <2> QED BY <1>3, <1>6, <1>7, <1>10, <1>11, <1>13, <2>1, <2>2, <2>4, <2>5, <2>7, <2>8,
            CdJobKeepsServer DEF CdServerTyped
<1>18. CASE job.at = "restore"
 <2>1. cdFile' = cdFile /\ cdRunning' = job.prev BY <1>10, <1>18
 <2>2. q.at = "failed" /\ q.at \in CdResting BY <1>8, <1>18 DEF CdAfter, CdResting
 <2>4. CdJobCovered(q, cdSchema') BY <1>3, <1>8, <1>12, <1>13, <1>18 DEF CdJobCovered
 <2>5. ~cdDrift => cdRunning' = cdFile'.current BY <1>3, <1>4, <1>18, <2>1 DEF CdJobFits
 <2>7. cdFile' \in [current: CdTag0, previous: CdTag0] /\ cdRunning' \in CdTag0
   BY <1>9, <2>1 DEF CdServerTyped
 <2> QED BY <1>3, <1>4, <1>6, <1>7, <1>10, <1>11, <1>13, <2>1, <2>2, <2>4, <2>5, <2>7,
            CdJobKeepsServer DEF CdServerTyped
<1> QED BY <1>3, <1>14, <1>15, <1>16, <1>17, <1>18 DEF CdJobRow, CdPoints, CdResting, CdBefore

\* A job that stops or turns to the previous image.
LEMMA CdStoppedKeepsServer ==
  ASSUME CdServerTyped, CdSchemaInv, CdRecordInv, NEW j \in CdBusy, NEW at \in CdPoints,
         cdJob' = [cdJob EXCEPT ![j].at = at], UNCHANGED <<cdSchema, cdFile>>,
         \/ cdRunning' \in {cdRunning, 0}
         \/ cdJob[j].at \in {"switch", "restore"} /\ cdRunning' = cdJob[j].tag,
         cdDrift' \in BOOLEAN, cdDrift => cdDrift',
         ~cdDrift' /\ at = "failed" =>
            \/ cdJob[j].at \in CdBefore /\ cdRunning' = cdRunning
            \/ cdFile.current = 0,
         \/ at = "failed"
         \/ at = "restore" /\ cdJob[j].at \in {"switch", "health"}
  PROVE  CdServerTyped' /\ CdSchemaInv' /\ CdRecordInv'
<1>1. PICK job : job = cdJob[j] OBVIOUS
<1>2. /\ j \in CdJobs /\ job \in CdJobRow /\ job.at \notin CdResting /\ CdJobCovered(job, cdSchema)
      /\ ~cdDrift => CdBusy \subseteq {j} /\ CdJobFits(job, cdFile.current, cdRunning)
  BY <1>1, CdJobAtWork
<1> DEFINE q == [job EXCEPT !.at = at]
<1>3. /\ q \in CdJobRow /\ q.op = job.op /\ q.tag = job.tag /\ q.at = at /\ q.prev = job.prev
  BY <1>2 DEF CdJobRow
<1>4. cdJob' = [cdJob EXCEPT ![j] = q] BY <1>1, <1>2 DEF CdServerTyped
<1> HIDE DEF q
<1>5. CdJobCovered(q, cdSchema') BY <1>1, <1>2, <1>3 DEF CdJobCovered
<1>6. cdRunning' \in CdTag0 /\ cdRunning' <= cdSchema'
  BY <1>1, <1>2, CdAssumption DEF CdServerTyped, CdSchemaInv, CdJobCovered, CdJobRow, CdTag0, CdTags
<1>7. ASSUME ~cdDrift'
      PROVE  IF q.at \in CdResting
             THEN cdFile'.current # 0 => cdRunning' \in {cdFile'.current, 0}
             ELSE CdJobFits(q, cdFile'.current, cdRunning')
 <2>1. CASE at = "failed" BY <1>1, <1>2, <1>3, <1>7, <2>1 DEF CdResting, CdJobFits
 <2>2. CASE at = "restore" /\ cdJob[j].at \in {"switch", "health"}
   BY <1>1, <1>2, <1>3, <1>7, <2>2 DEF CdResting, CdJobFits, CdBefore
 <2> QED BY <2>1, <2>2
<1>8. cdSchema' \in CdTag0 /\ cdSchema <= cdSchema'
      /\ cdFile' \in [current: CdTag0, previous: CdTag0]
      /\ cdFile'.current <= cdSchema' /\ cdFile'.previous <= cdSchema'
  BY CdAssumption DEF CdServerTyped, CdSchemaInv, CdTag0, CdTags
<1> QED BY <1>2, <1>3, <1>4, <1>5, <1>6, <1>7, <1>8, CdJobKeepsServer

\* A command that fails.
LEMMA CdFailsKeepsServer ==
  ASSUME CdServerTyped, CdSchemaInv, CdRecordInv, NEW j \in CdJobs, CdFails(j)
  PROVE  CdServerTyped' /\ CdSchemaInv' /\ CdRecordInv'
<1>1. PICK job : job = cdJob[j] OBVIOUS
<1>2. j \in CdBusy BY DEF CdFails
<1>3. /\ job \in CdJobRow /\ job.at \notin CdResting
      /\ ~cdDrift => CdJobFits(job, cdFile.current, cdRunning) BY <1>1, <1>2, CdJobAtWork
<1>4. PICK at : at = CdAfterFailure(job) OBVIOUS
<1>5. /\ at \in CdPoints
      /\ \/ at = "failed"
         \/ at = "restore" /\ job.at \in {"switch", "health"}
  BY <1>4 DEF CdAfterFailure, CdPoints, CdResting
<1>6. cdJob' = [cdJob EXCEPT ![j].at = at] /\ UNCHANGED <<cdSchema, cdFile>>
  BY <1>1, <1>4 DEF CdFails
<1>7. cdRunning' \in IF job.at \in {"switch", "restore"} THEN {cdRunning, job.tag, 0} ELSE {cdRunning}
  BY <1>1 DEF CdFails
<1>8. cdDrift' = (cdDrift \/ (job.op = "rollback" /\ job.at \in {"switch", "health", "record"})
                          \/ job.at \in {"record", "restore"}) BY <1>1 DEF CdFails
<1>9. cdDrift' \in BOOLEAN /\ (cdDrift => cdDrift') BY <1>8
<1>10. ASSUME ~cdDrift', at = "failed"
       PROVE  \/ job.at \in CdBefore /\ cdRunning' = cdRunning
              \/ cdFile.current = 0
 <2>1. CdJobFits(job, cdFile.current, cdRunning) /\ job.at \notin {"record", "restore"}
   BY <1>3, <1>8, <1>10
 <2>2. CASE job.at \in {"switch", "health"}
   BY <1>3, <1>4, <1>8, <1>10, <2>1, <2>2 DEF CdAfterFailure, CdJobFits, CdJobRow
 <2>3. CASE job.at \notin {"switch", "health"}
   BY <1>3, <1>7, <2>1, <2>3 DEF CdJobRow, CdPoints, CdResting, CdBefore
 <2> QED BY <2>2, <2>3
<1> QED BY <1>1, <1>2, <1>5, <1>6, <1>7, <1>9, <1>10, CdStoppedKeepsServer

\* A job that is killed.
LEMMA CdDiesKeepsServer ==
  ASSUME CdServerTyped, CdSchemaInv, CdRecordInv, NEW j \in CdJobs, CdDies(j)
  PROVE  CdServerTyped' /\ CdSchemaInv' /\ CdRecordInv'
<1>1. j \in CdBusy /\ cdJob' = [cdJob EXCEPT ![j].at = "failed"]
      /\ UNCHANGED <<cdSchema, cdFile, cdRunning>>
      /\ cdDrift' = (cdDrift \/ cdJob[j].at \in {"health", "record", "restore"}) BY DEF CdDies
<1>2. cdJob[j] \in CdJobRow /\ cdJob[j].at \notin CdResting BY <1>1, CdJobAtWork
<1>3. ~cdDrift' => cdJob[j].at \in CdBefore BY <1>1, <1>2 DEF CdJobRow, CdPoints, CdResting
<1>4. "failed" \in CdPoints /\ cdDrift' \in BOOLEAN /\ (cdDrift => cdDrift')
  BY <1>1 DEF CdPoints, CdResting
<1> QED BY <1>1, <1>3, <1>4, CdStoppedKeepsServer

\* A new job starts beside no other, or the deployments have drifted.
LEMMA CdLaunchKeepsServer ==
  ASSUME CdServerTyped, CdSchemaInv, CdRecordInv, NEW j \in CdJobs, NEW op \in {"apply", "rollback"},
         NEW tag \in CdTags, CdLaunch(j, op, tag), op = "rollback" => tag <= cdSchema,
         UNCHANGED <<cdSchema, cdRunning, cdFile>>
  PROVE  CdServerTyped' /\ CdSchemaInv' /\ CdRecordInv'
<1> DEFINE q == [CdNoWork EXCEPT !.op = op, !.tag = tag, !.at = "preflight"]
<1>1. /\ q \in CdJobRow /\ q.op = op /\ q.tag = tag /\ q.at = "preflight" /\ q.prev = 0
  BY DEF CdJobRow, CdNoWork, CdPoints, CdBefore, CdTag0
<1>2. cdJob' = [cdJob EXCEPT ![j] = q] /\ cdDrift' = (cdDrift \/ CdBusy # {}) BY DEF CdLaunch
<1> HIDE DEF q
<1>3. CdJobCovered(q, cdSchema')
  BY <1>1, CdAssumption DEF CdJobCovered, CdServerTyped, CdTag0, CdTags
<1>4. cdDrift' \in BOOLEAN BY <1>2
<1>5. ASSUME ~cdDrift'
      PROVE  /\ CdBusy \subseteq {j}
             /\ q.at \notin CdResting /\ CdJobFits(q, cdFile'.current, cdRunning')
  BY <1>1, <1>2, <1>5 DEF CdRecordInv, CdJobFits, CdResting
<1>8. cdSchema' \in CdTag0 /\ cdSchema <= cdSchema'
      /\ cdRunning' \in CdTag0 /\ cdRunning' <= cdSchema'
      /\ cdFile' \in [current: CdTag0, previous: CdTag0]
      /\ cdFile'.current <= cdSchema' /\ cdFile'.previous <= cdSchema'
  BY CdAssumption DEF CdServerTyped, CdSchemaInv, CdTag0, CdTags
<1> QED BY <1>1, <1>2, <1>3, <1>4, <1>5, <1>8, CdJobKeepsServer

\* The server untouched keeps its invariant.
LEMMA CdServerUnchanged ==
  ASSUME CdServerTyped, CdSchemaInv, CdRecordInv, UNCHANGED cdServer
  PROVE  CdServerTyped' /\ CdSchemaInv' /\ CdRecordInv'
BY DEF CdServerTyped, CdSchemaInv, CdRecordInv, cdServer, CdBusy, CdJobCovered, CdJobFits

\* The controller untouched keeps its invariant.
LEMMA CdLocalUnchanged ==
  ASSUME CdLocalTyped, CdPauseInv, cdBranch' \in CdTag0, UNCHANGED cdLocal
  PROVE  CdLocalTyped' /\ CdPauseInv'
BY DEF CdLocalTyped, CdPauseInv, cdLocal

\* Every step of a job keeps the invariant.
LEMMA CdJobStepKeepsInv ==
  ASSUME CdInv, NEW j \in CdJobs,
         \/ CdStep(j) \/ CdFails(j) \/ CdDies(j)
         \/ CdOperatorApplies(j) \/ CdOperatorRollsBack(j)
  PROVE  CdInv'
<1>1. cdBranch' = cdBranch /\ UNCHANGED cdLocal
  BY DEF CdStep, CdFails, CdDies, CdOperatorApplies, CdOperatorRollsBack
<1>2. CdLocalTyped' /\ CdPauseInv' BY <1>1, CdLocalUnchanged DEF CdInv, CdLocalTyped
<1>3. CASE CdOperatorApplies(j)
 <2>1. cdBranch \in CdTags BY <1>3 DEF CdOperatorApplies, CdInv, CdLocalTyped, CdTag0
 <2> QED BY <1>2, <1>3, <2>1, CdLaunchKeepsServer DEF CdOperatorApplies, CdInv
<1>4. CASE CdOperatorRollsBack(j)
 <2>1. cdFile.previous \in CdTags /\ cdFile.previous <= cdSchema
   BY <1>4 DEF CdOperatorRollsBack, CdInv, CdServerTyped, CdTag0, CdSchemaInv
 <2> QED BY <1>2, <1>4, <2>1, CdLaunchKeepsServer DEF CdOperatorRollsBack, CdInv
<1> QED BY <1>2, <1>3, <1>4, CdStepKeepsServer, CdFailsKeepsServer, CdDiesKeepsServer DEF CdInv

--------------------
\* An observation of the health keeps the count and the pause.
LEMMA CdObservedKept ==
  ASSUME NEW s \in CdState
  PROVE  /\ CdObserved(s) \in CdState
         /\ CdObserved(s).failures = s.failures /\ CdObserved(s).paused = s.paused
BY DEF CdObserved, CdState

\* A run that ends with a fitting state keeps the controller in step.
LEMMA CdOverKeepsLocal ==
  ASSUME CdLocalTyped, NEW s \in CdState, CdOver(s), CdOverlaps, UNCHANGED <<cdBranch, cdCheck>>,
         cdStreak' \in Nat,
         ~cdTouched => s.failures = cdStreak' /\ (cdStreak' >= CdPauseAfter => s.paused)
  PROVE  CdLocalTyped' /\ CdPauseInv'
<1>1. cdTouched' \in BOOLEAN /\ (~cdTouched' => ~cdTouched /\ cdCheck' = {})
  BY DEF CdOverlaps, CdLocalTyped
<1>2. cdCtl' = s /\ cdRun' \in CdRunRow /\ cdRun'.at = "idle"
  BY DEF CdOver, CdIdleRun, CdNoState, CdRunRow, CdState, CdTag0
<1>3. CdLocalTyped' BY <1>1, <1>2 DEF CdLocalTyped
<1> QED BY <1>1, <1>2, <1>3 DEF CdPauseInv

\* A success clears the count.
LEMMA CdSucceededKeepsLocal ==
  ASSUME CdLocalTyped, CdPauseInv, CdSucceeded, UNCHANGED <<cdBranch, cdCheck>>
  PROVE  CdLocalTyped' /\ CdPauseInv'
<1> DEFINE s == [cdCtl EXCEPT !.failures = 0, !.paused = FALSE]
<1>1. PICK c : c = cdCtl OBVIOUS
<1>2. [c EXCEPT !.failures = 0, !.paused = FALSE] \in CdState BY <1>1 DEF CdLocalTyped, CdState
<1>3. CdOver([c EXCEPT !.failures = 0, !.paused = FALSE]) /\ CdOverlaps /\ cdStreak' = 0
  BY <1>1 DEF CdSucceeded
<1>4. /\ [c EXCEPT !.failures = 0, !.paused = FALSE].failures = 0
      /\ ~ (0 >= CdPauseAfter) BY <1>1, CdAssumption DEF CdLocalTyped, CdState
<1> QED BY <1>2, <1>3, <1>4, CdOverKeepsLocal

\* A failure counts on from the state the run loaded.
LEMMA CdFailedKeepsLocal ==
  ASSUME CdLocalTyped, CdPauseInv, CdFailed, UNCHANGED <<cdBranch, cdCheck>>, cdRun.at # "idle"
  PROVE  CdLocalTyped' /\ CdPauseInv'
<1>1. PICK c : c = cdRun.state OBVIOUS
<1>2. PICK n : n = c.failures + 1 OBVIOUS
<1>3. c \in CdState /\ n \in Nat BY <1>1, <1>2 DEF CdLocalTyped, CdRunRow, CdState
<1>9. PICK p : p = (n >= CdPauseAfter) OBVIOUS
<1>10. p \in BOOLEAN BY <1>9
<1> DEFINE s == [c EXCEPT !.failures = n, !.paused = p]
<1>4. s \in CdState /\ s.failures = n /\ s.paused = p BY <1>3, <1>10 DEF CdState
<1>5. CdOver(s) /\ CdOverlaps /\ cdStreak' = cdStreak + 1 BY <1>1, <1>2, <1>9 DEF CdFailed
<1>6. ~cdTouched => cdStreak' = n BY <1>1, <1>2, <1>5 DEF CdPauseInv
<1> HIDE DEF s
<1>7. cdStreak' \in Nat BY <1>5 DEF CdLocalTyped
<1>8. ~cdTouched => (cdStreak' >= CdPauseAfter => p) BY <1>6, <1>9
<1> QED BY <1>4, <1>5, <1>6, <1>7, <1>8, CdOverKeepsLocal

\* A run begins with the state it observed, unless that is paused.
LEMMA CdRunBeginsKeepsInv ==
  ASSUME CdInv, CdRunBegins
  PROVE  CdInv'
<1>1. PICK c : c = cdCtl OBVIOUS
<1>2. PICK s : s = CdObserved(c) OBVIOUS
<1>3. c \in CdState /\ s \in CdState /\ s.failures = c.failures /\ s.paused = c.paused
  BY <1>1, <1>2, CdObservedKept DEF CdInv, CdLocalTyped
<1>4. /\ cdCtl' = s /\ cdBranch \in CdTags
      /\ \/ cdRun' = cdRun /\ cdRun.at = "idle"
         \/ /\ cdRun' = [CdIdleRun EXCEPT !.at = "deploy", !.sha = cdBranch, !.state = s]
            /\ ~s.paused
      /\ CdOverlaps /\ UNCHANGED <<cdBranch, cdServer, cdCheck, cdStreak>>
  BY <1>1, <1>2 DEF CdRunBegins, CdInv, CdLocalTyped, CdTag0
<1>5. CdServerTyped' /\ CdSchemaInv' /\ CdRecordInv' BY <1>4, CdServerUnchanged DEF CdInv
<1>6. /\ cdRun' \in CdRunRow
      /\ cdRun'.at # "idle" => cdRun'.sha \in CdTags /\ cdRun'.state = s /\ ~s.paused
 <2>1. CASE cdRun' = cdRun /\ cdRun.at = "idle" BY <2>1 DEF CdInv, CdLocalTyped
 <2>2. ASSUME NEW b \in CdTags, ~s.paused,
              cdRun' = [CdIdleRun EXCEPT !.at = "deploy", !.sha = b, !.state = s]
       PROVE  /\ cdRun' \in CdRunRow
              /\ cdRun'.sha \in CdTags /\ cdRun'.state = s
   BY <1>3, <2>2 DEF CdRunRow, CdIdleRun, CdTag0
 <2> QED BY <1>4, <2>1, <2>2
<1>7. cdTouched' \in BOOLEAN /\ (~cdTouched' => ~cdTouched /\ cdCheck' = {})
  BY <1>4 DEF CdOverlaps, CdInv, CdLocalTyped
<1>8. CdLocalTyped' BY <1>3, <1>4, <1>6, <1>7 DEF CdInv, CdLocalTyped
<1>9. CdPauseInv'
 <2> SUFFICES ASSUME ~cdTouched' PROVE CdPauseInv' BY DEF CdPauseInv
 <2>1. c.failures = cdStreak /\ (cdStreak >= CdPauseAfter => c.paused)
   BY <1>1, <1>7 DEF CdInv, CdPauseInv
 <2>2. ~s.paused => cdStreak < CdPauseAfter BY <1>3, <2>1, CdAssumption DEF CdInv, CdLocalTyped
 <2> QED BY <1>3, <1>4, <1>6, <1>7, <2>1, <2>2 DEF CdPauseInv
<1> QED BY <1>5, <1>8, <1>9 DEF CdInv

\* A run waits for the checks, fails, finds its commit or launches a job.
LEMMA CdDeploysKeepsInv ==
  ASSUME CdInv, CdDeploys
  PROVE  CdInv'
<1>1. PICK sha : sha = cdRun.sha OBVIOUS
<1>2. /\ cdRun.at = "deploy" /\ sha \in CdTags /\ UNCHANGED <<cdBranch, cdCheck>>
      /\ cdRun \in CdRunRow BY <1>1 DEF CdDeploys, CdInv, CdLocalTyped
<1>3. \/ /\ CdOver([cdRun.state EXCEPT !.paused = FALSE])
         /\ CdOverlaps /\ UNCHANGED <<cdServer, cdStreak>>
      \/ CdFailed /\ UNCHANGED cdServer
      \/ CdSucceeded /\ UNCHANGED cdServer
      \/ \E j \in CdJobs :
            /\ CdLaunch(j, "apply", sha)
            /\ cdRun' = [cdRun EXCEPT !.at = "waiting", !.job = j]
            /\ UNCHANGED <<cdImages, cdSchema, cdRunning, cdFile, cdCtl, cdTouched, cdStreak>>
  BY <1>1 DEF CdDeploys
<1>4. CASE /\ CdOver([cdRun.state EXCEPT !.paused = FALSE])
           /\ CdOverlaps /\ UNCHANGED <<cdServer, cdStreak>>
 <2>1. PICK c : c = cdRun.state OBVIOUS
 <2>2. c \in CdState BY <2>1 DEF CdInv, CdLocalTyped, CdRunRow
 <2> DEFINE s == [c EXCEPT !.paused = FALSE]
 <2>3. s \in CdState /\ s.failures = c.failures BY <2>2 DEF CdState
 <2>4. CdOver(s) BY <1>4, <2>1
 <2> HIDE DEF s
 <2>5. cdStreak' = cdStreak /\ cdStreak \in Nat BY <1>4 DEF CdInv, CdLocalTyped
 <2>6. ~cdTouched => s.failures = cdStreak /\ ~(cdStreak >= CdPauseAfter)
   BY <1>2, <2>1, <2>3, <2>5, CdAssumption DEF CdInv, CdPauseInv
 <2>7. CdLocalTyped' /\ CdPauseInv'
   BY <1>2, <1>4, <2>3, <2>4, <2>5, <2>6, CdOverKeepsLocal DEF CdInv
 <2> QED BY <1>4, <2>7, CdServerUnchanged DEF CdInv
<1>5. CASE CdFailed /\ UNCHANGED cdServer
  BY <1>2, <1>5, CdFailedKeepsLocal, CdServerUnchanged DEF CdInv
<1>6. CASE CdSucceeded /\ UNCHANGED cdServer
  BY <1>2, <1>6, CdSucceededKeepsLocal, CdServerUnchanged DEF CdInv
<1>7. ASSUME NEW j \in CdJobs, CdLaunch(j, "apply", sha),
             cdRun' = [cdRun EXCEPT !.at = "waiting", !.job = j],
             UNCHANGED <<cdImages, cdSchema, cdRunning, cdFile, cdCtl, cdTouched, cdStreak>>
      PROVE  CdInv'
 <2>1. CdServerTyped' /\ CdSchemaInv' /\ CdRecordInv' BY <1>2, <1>7, CdLaunchKeepsServer DEF CdInv
 <2>2. cdRun' \in CdRunRow /\ cdRun'.sha = sha /\ cdRun'.state = cdRun.state
   BY <1>1, <1>2, <1>7 DEF CdRunRow
 <2>3. CdLocalTyped' BY <1>2, <1>7, <2>2 DEF CdInv, CdLocalTyped
 <2>4. CdPauseInv' BY <1>2, <1>7, <2>2 DEF CdInv, CdPauseInv
 <2> QED BY <2>1, <2>3, <2>4 DEF CdInv
<1> QED BY <1>3, <1>4, <1>5, <1>6, <1>7

\* The unlocked commands: check in its two steps, and resume.
LEMMA CdCheckKeepsInv ==
  ASSUME CdInv, CdCheckLoads \/ CdCheckWrites \/ CdResume
  PROVE  CdInv'
<1>1. cdBranch' = cdBranch /\ UNCHANGED <<cdServer, cdRun>>
  BY DEF CdCheckLoads, CdCheckWrites, CdResume
<1>2. CdServerTyped' /\ CdSchemaInv' /\ CdRecordInv' BY <1>1, CdServerUnchanged DEF CdInv
<1>3. PICK c : c = cdCtl OBVIOUS
<1>4. c \in CdState BY <1>3 DEF CdInv, CdLocalTyped
<1>5. CASE CdCheckLoads
 <2>1. PICK s : s = CdObserved(c) OBVIOUS
 <2>2. s \in CdState /\ s.failures = c.failures /\ s.paused = c.paused BY <1>4, <2>1, CdObservedKept
 <2>3. cdCheck' = {s} /\ UNCHANGED <<cdCtl, cdTouched, cdStreak>>
   BY <1>3, <1>5, <2>1 DEF CdCheckLoads
 <2>4. CdLocalTyped' BY <1>1, <2>2, <2>3 DEF CdInv, CdLocalTyped
 <2>5. CdPauseInv' BY <1>1, <1>3, <2>2, <2>3 DEF CdInv, CdPauseInv
 <2> QED BY <1>2, <2>4, <2>5 DEF CdInv
<1>6. CASE CdCheckWrites
 <2>1. /\ cdCtl' \in cdCheck /\ cdCheck' = {} /\ cdStreak' = cdStreak
       /\ cdTouched' = (cdTouched \/ cdRun.at # "idle") BY <1>6 DEF CdCheckWrites
 <2>2. CdLocalTyped' BY <1>1, <2>1 DEF CdInv, CdLocalTyped
 <2>3. CdPauseInv' BY <1>1, <2>1 DEF CdInv, CdPauseInv
 <2> QED BY <1>2, <2>2, <2>3 DEF CdInv
<1>7. CASE CdResume
 <2> DEFINE s == [c EXCEPT !.paused = FALSE, !.failures = 0]
 <2>1. s \in CdState /\ s.failures = 0 BY <1>4 DEF CdState
 <2>2. /\ cdCtl' = s /\ cdCheck' = cdCheck /\ cdStreak' = 0
       /\ cdTouched' = (cdTouched \/ cdRun.at # "idle" \/ cdCheck # {}) BY <1>3, <1>7 DEF CdResume
 <2> HIDE DEF s
 <2>3. CdLocalTyped' BY <1>1, <2>1, <2>2 DEF CdInv, CdLocalTyped
 <2>4. ~cdTouched' => cdRun'.at = "idle" /\ cdCheck' = {} BY <1>1, <2>2
 <2>5. ~(0 >= CdPauseAfter) BY CdAssumption
 <2>6. CdPauseInv' BY <2>1, <2>2, <2>4, <2>5 DEF CdPauseInv
 <2> QED BY <1>2, <2>3, <2>6 DEF CdInv
<1> QED BY <1>5, <1>6, <1>7

\* The end of a run, seen or not.
LEMMA CdRunEndsKeepsInv ==
  ASSUME CdInv, CdRunEnds \/ CdConnectionLost
  PROVE  CdInv'
<1>1. /\ cdRun.at = "waiting" /\ UNCHANGED <<cdBranch, cdServer, cdCheck>>
      /\ CdSucceeded \/ CdFailed BY DEF CdRunEnds, CdConnectionLost
<1>2. CdLocalTyped' /\ CdPauseInv' BY <1>1, CdSucceededKeepsLocal, CdFailedKeepsLocal DEF CdInv
<1> QED BY <1>1, <1>2, CdServerUnchanged DEF CdInv

\* The branch grows and its commits are checked.
LEMMA CdBranchKeepsInv ==
  ASSUME CdInv, CdPush \/ \E t \in CdTags : CdChecked(t)
  PROVE  CdInv'
<1>1. UNCHANGED <<cdServer, cdLocal>> BY DEF CdPush, CdChecked
<1>2. cdBranch' \in CdTag0
  BY CdAssumption DEF CdPush, CdChecked, CdInv, CdLocalTyped, CdTag0, CdTags
<1> QED BY <1>1, <1>2, CdServerUnchanged, CdLocalUnchanged DEF CdInv

\* Every step of the deployment keeps the invariant.
LEMMA CdNextKeepsInv == CdInv /\ [CdNext]_cdVars => CdInv'
<1> SUFFICES ASSUME CdInv, [CdNext]_cdVars PROVE CdInv' OBVIOUS
<1>1. CASE UNCHANGED cdVars
 <2>1. UNCHANGED <<cdBranch, cdServer, cdLocal>> BY <1>1 DEF cdVars
 <2> QED BY <2>1, CdServerUnchanged, CdLocalUnchanged DEF CdInv, CdLocalTyped
<1>2. CASE CdNext
  BY <1>2, CdBranchKeepsInv, CdRunBeginsKeepsInv, CdDeploysKeepsInv, CdRunEndsKeepsInv,
     CdCheckKeepsInv, CdJobStepKeepsInv DEF CdNext
<1> QED BY <1>1, <1>2

\* The initial state satisfies the invariant.
LEMMA CdInitHolds == CdInit => CdInv
<1> SUFFICES ASSUME CdInit PROVE CdInv OBVIOUS
<1>1. CdServerTyped BY DEF CdInit, CdServerTyped, CdTag0, CdJobRow, CdNoWork, CdPoints, CdResting
<1>2. CdLocalTyped BY DEF CdInit, CdLocalTyped, CdTag0, CdNoState, CdIdleRun, CdState, CdRunRow
<1>3. CdSchemaInv BY DEF CdInit, CdSchemaInv, CdNoWork, CdJobCovered
<1>4. CdRecordInv BY DEF CdInit, CdRecordInv, CdNoWork, CdBusy
<1>5. CdPauseInv BY CdAssumption DEF CdInit, CdPauseInv, CdNoState, CdIdleRun
<1> QED BY <1>1, <1>2, <1>3, <1>4, <1>5 DEF CdInv

\* The invariant implies what is checked.
LEMMA CdInvHolds == CdInv => CdTypeOK /\ CdReleaseHolds
<1> SUFFICES ASSUME CdInv PROVE CdTypeOK /\ CdReleaseHolds OBVIOUS
<1>1. CdTypeOK
  BY DEF CdInv, CdTypeOK, CdServerTyped, CdLocalTyped, CdTag0, CdState, CdJobRow, CdPoints,
         CdResting, CdBefore
<1>2. CdSchemaCovers /\ CdRecordIsTrue /\ CdPauses
  BY DEF CdInv, CdSchemaInv, CdRecordInv, CdPauseInv, CdSchemaCovers, CdRecordIsTrue, CdPauses
<1> QED BY <1>1, <1>2 DEF CdReleaseHolds

\* What runs has its schema, the record of deployctl.py is true between clean
\* deployments, and canaryctl.py pauses after CdPauseAfter failures in a row
\* (CdReleaseHolds).
THEOREM ReleaseSafe == CdSpec => [](CdTypeOK /\ CdReleaseHolds)
BY CdInitHolds, CdNextKeepsInv, CdInvHolds, PTL DEF CdSpec

--------------------
(* The maintenance loop. *)

LhRest == {"idle", "done", "dead"}
LhBuilding == {"fetch", "scan", "fix", "validate", "commit", "push", "create"}
LhMerging == {"merge", "checks", "merging", "recordMerge"}

LhProcRow == [pc: LhSteps \cup LhRest, mode: ActiveModes, base: Nat,
              patch: LhPatches \cup {LhNobody}, tier: {"A", "B", "C"}, day: Nat,
              outcome: Outcomes, code: Failures \cup {"", "capacity"}]
LhPr == [state: {"none", "open", "closed", "merged"}, draft: BOOLEAN, held: BOOLEAN, own: BOOLEAN]
LhPrRow == [state: OpenStates \cup {"none", "MERGED"}, day: Nat]

\* What a run has done where it is, with its request and its row of it.
LhFits(p, pr, row) ==
  /\ p.pc \in LhBuilding \cup {"idle", "begin", "preflight"} => pr.state = "none"
  /\ p.pc \in {"fix", "validate"} => p.mode \in WriteModes
  /\ p.pc \in {"commit", "push", "create"} => p.mode \in PrModes
  /\ p.pc \in {"validate", "commit", "push"} => p.patch \in LhPatches
  /\ p.pc \in LhMerging => /\ row.state = "DRAFT_REVIEWED"
                           /\ p.tier = "A" /\ p.mode = "AUTO_MERGE_TIER_A"
  /\ pr.state = "merged" => /\ p.pc \in {"recordMerge", "finish", "done", "dead"}
                            /\ pr.own /\ row.state \in {"DRAFT_REVIEWED", "MERGED"}
                            /\ p.tier = "A" /\ p.mode = "AUTO_MERGE_TIER_A"
  /\ p.outcome = "BLOCKED" => p.code \in Failures

\* A run that has a request open, or has passed the preflight for one.
LhMayOpen(p, pr) == pr.state = "open" \/ (p.pc \in LhBuilding /\ p.mode \in PrModes)
LhInvolved == {r \in LhRuns : LhMayOpen(lhProc[r], lhPrs[r])}

\* A run that works on without the lease.
LhStray == {r \in LhRuns : lhProc[r].pc \in LhSteps /\ ~Held(r)}

LhTables ==
  /\ lhRunRows \in [LhRuns -> {"none", "RUNNING", "terminal"}]
  /\ lhWorktrees \in [LhRuns -> {"none", "clean", "dirty"}]
  /\ lhBranches \subseteq LhPatches /\ lhTarget \in Nat /\ lhDay \in Nat

LhRunsFit ==
  /\ lhProc \in [LhRuns -> LhProcRow]
  /\ lhPrs \in [LhRuns -> LhPr]
  /\ lhPrRows \in [LhRuns -> LhPrRow]
  /\ \A r \in LhRuns : LhFits(lhProc[r], lhPrs[r], lhPrRows[r])

\* Errors in a row have stopped the loop, and nobody holds the lease to add one.
LhSettingsFit ==
  /\ lhSettings \in [enabled: BOOLEAN, mode: ActiveModes \cup {"PAUSED_MANUAL", "PAUSED_ERROR"},
                     code: Failures \cup {""}, count: 0..LhPauseAfter]
  /\ lhSettings.enabled => lhSettings.mode \in ActiveModes
  /\ lhSettings.count >= LhPauseAfter => ~lhSettings.enabled /\ \A r \in LhRuns : ~Held(r)
  /\ lhLease \in [run: LhRuns \cup {LhCleaner, LhNobody}, expired: BOOLEAN]

\* Every stray has cost an overrun, and so has every request but one.
LhCounts ==
  /\ lhOverruns \in Nat
  /\ IsFiniteSet(LhStray) /\ Cardinality(LhStray) <= lhOverruns
  /\ IsFiniteSet(LhInvolved) /\ Cardinality(LhInvolved) <= 1 + lhOverruns

LhInv == LhTables /\ LhRunsFit /\ LhSettingsFit /\ LhCounts

\* Fewer strays and requests keep the counts.
LEMMA LhFewer ==
  ASSUME LhCounts, LhStray' \subseteq LhStray, LhInvolved' \subseteq LhInvolved,
         lhOverruns' = lhOverruns
  PROVE  LhCounts'
<1>1. IsFiniteSet(LhStray') /\ Cardinality(LhStray') <= Cardinality(LhStray)
  BY FS_Subset DEF LhCounts
<1>2. IsFiniteSet(LhInvolved') /\ Cardinality(LhInvolved') <= Cardinality(LhInvolved)
  BY FS_Subset DEF LhCounts
<1>3. /\ Cardinality(LhStray) \in Nat /\ Cardinality(LhStray') \in Nat
      /\ Cardinality(LhInvolved) \in Nat /\ Cardinality(LhInvolved') \in Nat
  BY <1>1, <1>2, FS_CardinalityType DEF LhCounts
<1> DEFINE a == Cardinality(LhStray)  b == Cardinality(LhInvolved)
           c == Cardinality(LhStray') d == Cardinality(LhInvolved')
<1>4. a \in Nat /\ b \in Nat /\ c \in Nat /\ d \in Nat /\ c <= a /\ d <= b
      /\ a <= lhOverruns /\ b <= 1 + lhOverruns /\ lhOverruns \in Nat
  BY <1>1, <1>2, <1>3 DEF LhCounts
<1> HIDE DEF a, b, c, d
<1>5. c <= lhOverruns' /\ d <= 1 + lhOverruns' /\ lhOverruns' \in Nat BY <1>4
<1> QED BY <1>1, <1>2, <1>5 DEF LhCounts, c, d

\* A run gets a new record, request and row that fit.
LEMMA LhRowMoves ==
  ASSUME LhRunsFit, NEW r \in LhRuns, NEW p \in LhProcRow, NEW pr \in LhPr, NEW row \in LhPrRow,
         lhProc' = [lhProc EXCEPT ![r] = p], lhPrs' = [lhPrs EXCEPT ![r] = pr],
         lhPrRows' = [lhPrRows EXCEPT ![r] = row],
         LhFits(p, pr, row)
  PROVE  /\ LhRunsFit'
         /\ lhProc'[r] = p /\ lhPrs'[r] = pr
         /\ \A q \in LhRuns \ {r} : lhProc'[q] = lhProc[q] /\ lhPrs'[q] = lhPrs[q]
         /\ (LhMayOpen(p, pr) => LhMayOpen(lhProc[r], lhPrs[r])) => LhInvolved' \subseteq LhInvolved
<1>1. /\ lhProc' \in [LhRuns -> LhProcRow] /\ lhProc'[r] = p
      /\ lhPrs' \in [LhRuns -> LhPr] /\ lhPrs'[r] = pr
      /\ lhPrRows' \in [LhRuns -> LhPrRow] /\ lhPrRows'[r] = row
      /\ \A q \in LhRuns \ {r} : /\ lhProc'[q] = lhProc[q] /\ lhPrs'[q] = lhPrs[q]
                                 /\ lhPrRows'[q] = lhPrRows[q] BY DEF LhRunsFit
<1>2. \A q \in LhRuns : LhFits(lhProc'[q], lhPrs'[q], lhPrRows'[q])
 <2>1. ASSUME NEW q \in LhRuns \ {r} PROVE LhFits(lhProc'[q], lhPrs'[q], lhPrRows'[q])
   BY <1>1 DEF LhRunsFit
 <2> QED BY <1>1, <2>1
<1>3. ASSUME LhMayOpen(p, pr) => LhMayOpen(lhProc[r], lhPrs[r])
      PROVE  LhInvolved' \subseteq LhInvolved
 <2> SUFFICES ASSUME NEW q \in LhRuns, LhMayOpen(lhProc'[q], lhPrs'[q])
              PROVE  LhMayOpen(lhProc[q], lhPrs[q]) BY DEF LhInvolved
 <2> QED BY <1>1, <1>3
<1>4. LhRunsFit' BY <1>1, <1>2 DEF LhRunsFit
<1> QED BY <1>1, <1>3, <1>4

\* A step of a run: its record, its request and its row, and the lease if it gives it back.
LEMMA LhRunMoves ==
  ASSUME LhRunsFit, LhCounts, NEW r \in LhRuns, NEW p \in LhProcRow,
         NEW pr \in LhPr, NEW row \in LhPrRow,
         lhProc' = [lhProc EXCEPT ![r] = p], lhPrs' = [lhPrs EXCEPT ![r] = pr],
         lhPrRows' = [lhPrRows EXCEPT ![r] = row],
         LhFits(p, pr, row),
         LhMayOpen(p, pr) => LhMayOpen(lhProc[r], lhPrs[r]),
         lhProc[r].pc \in LhSteps,
         \/ lhLease' = lhLease
         \/ Held(r) /\ lhLease' = NoLease /\ p.pc \notin LhSteps,
         lhOverruns' = lhOverruns
  PROVE  LhRunsFit' /\ LhCounts'
<1>1. /\ LhRunsFit' /\ LhInvolved' \subseteq LhInvolved /\ lhProc'[r] = p
      /\ \A q \in LhRuns \ {r} : lhProc'[q] = lhProc[q] BY LhRowMoves
<1>2. LhStray' \subseteq LhStray BY <1>1 DEF LhStray, Held, NoLease
<1> QED BY <1>1, <1>2, LhFewer

\* A step of a run that writes no more than its own record.
LEMMA LhRecordMoves ==
  ASSUME LhRunsFit, LhCounts, NEW r \in LhRuns, NEW p \in LhProcRow,
         lhProc' = [lhProc EXCEPT ![r] = p], UNCHANGED <<lhPrs, lhPrRows, lhLease, lhOverruns>>,
         LhFits(p, lhPrs[r], lhPrRows[r]),
         LhMayOpen(p, lhPrs[r]) => LhMayOpen(lhProc[r], lhPrs[r]),
         lhProc[r].pc \in LhSteps
  PROVE  LhRunsFit' /\ LhCounts'
<1>1. PICK pr : pr = lhPrs[r] OBVIOUS
<1>2. PICK row : row = lhPrRows[r] OBVIOUS
<1>3. pr \in LhPr /\ row \in LhPrRow /\ lhPrs' = [lhPrs EXCEPT ![r] = pr]
      /\ lhPrRows' = [lhPrRows EXCEPT ![r] = row] BY <1>1, <1>2 DEF LhRunsFit
<1> QED BY <1>1, <1>2, <1>3, LhRunMoves

\* A stopped run fits where its record did.
LEMMA LhStoppedFits ==
  ASSUME NEW p \in LhProcRow, NEW pr \in LhPr, NEW row \in LhPrRow,
         NEW code \in Failures \cup {"capacity"}, LhFits(p, pr, row)
  PROVE  /\ Stopped(p, code) \in LhProcRow
         /\ LhFits(Stopped(p, code), pr, row)
         /\ LhMayOpen(Stopped(p, code), pr) => LhMayOpen(p, pr)
<1>1. /\ Stopped(p, code) \in LhProcRow
      /\ Stopped(p, code).pc = "finish" /\ Stopped(p, code).code = code
      /\ Stopped(p, code).outcome = IF code = "capacity" THEN "SKIPPED" ELSE "BLOCKED"
      /\ Stopped(p, code).mode = p.mode /\ Stopped(p, code).tier = p.tier
  BY DEF Stopped, LhProcRow, LhSteps, Outcomes
<1>2. LhFits(Stopped(p, code), pr, row) BY <1>1 DEF LhFits, LhBuilding, LhMerging
<1> QED BY <1>1, <1>2 DEF LhMayOpen, LhBuilding

\* So does one that goes on to p, or is stopped for want of lease or mode.
LEMMA LhFencedFits ==
  ASSUME NEW r \in LhRuns, NEW p \in LhProcRow, NEW pr \in LhPr, NEW row \in LhPrRow,
         NEW q, q \in {Fenced(r, p), Leased(r, p)}, LhFits(p, pr, row)
  PROVE  q \in LhProcRow /\ LhFits(q, pr, row) /\ (LhMayOpen(q, pr) => LhMayOpen(p, pr))
<1>1. q \in {p, Stopped(p, "lease"), Stopped(p, "mode")} BY DEF Fenced, Leased
<1>2. "lease" \in Failures /\ "mode" \in Failures BY DEF Failures
<1> QED BY <1>1, <1>2, LhStoppedFits

\* A run that is over fits where it was.
LEMMA LhOverFits ==
  ASSUME LhRunsFit, NEW r \in LhRuns, NEW pc \in {"done", "dead"}
  PROVE  /\ Over(r, pc) \in LhProcRow /\ Over(r, pc).pc = pc
         /\ LhFits(Over(r, pc), lhPrs[r], lhPrRows[r])
         /\ LhMayOpen(Over(r, pc), lhPrs[r]) => LhMayOpen(lhProc[r], lhPrs[r])
<1>1. PICK o : o = lhProc[r] OBVIOUS
<1>2. o \in LhProcRow /\ LhFits(o, lhPrs[r], lhPrRows[r]) BY <1>1 DEF LhRunsFit
<1>3. CASE lhPrs[r].state = "none"
 <2>1. Over(r, pc) = [LhIdle EXCEPT !.pc = pc] BY <1>3 DEF Over
 <2>2. /\ [LhIdle EXCEPT !.pc = pc] \in LhProcRow /\ [LhIdle EXCEPT !.pc = pc].pc = pc
       /\ [LhIdle EXCEPT !.pc = pc].outcome = "ended"
   BY DEF LhIdle, LhProcRow, LhRest, ActiveModes, Outcomes
 <2> QED BY <1>3, <2>1, <2>2 DEF LhFits, LhMayOpen, LhBuilding, LhMerging
<1>4. CASE lhPrs[r].state # "none"
 <2> DEFINE q == [o EXCEPT !.pc = pc, !.outcome = "ended", !.code = ""]
 <2>1. Over(r, pc) = q BY <1>1, <1>4 DEF Over
 <2>2. /\ q \in LhProcRow /\ q.pc = pc /\ q.outcome = "ended" /\ q.tier = o.tier /\ q.mode = o.mode
   BY <1>2 DEF LhProcRow, LhRest, Outcomes
 <2> HIDE DEF q
 <2> QED BY <1>1, <1>2, <2>1, <2>2 DEF LhFits, LhMayOpen, LhBuilding, LhMerging
<1> QED BY <1>3, <1>4

\* A run that fails stops and leaves the rest as it is.
LEMMA LhFailMoves ==
  ASSUME LhRunsFit, LhCounts, NEW r \in LhRuns, NEW codes \in SUBSET (Failures \cup {"capacity"}),
         Fails(r, codes), UNCHANGED <<lhPrs, lhPrRows, lhLease, lhOverruns>>,
         lhProc[r].pc \in LhSteps
  PROVE  LhRunsFit' /\ LhCounts'
<1>1. PICK code \in codes : Goto(r, Stopped(lhProc[r], code)) BY DEF Fails
<1>2. PICK o : o = lhProc[r] OBVIOUS
<1>3. PICK p : p = Stopped(o, code) OBVIOUS
<1>4. o \in LhProcRow /\ LhFits(o, lhPrs[r], lhPrRows[r]) /\ lhPrs[r] \in LhPr /\ lhPrRows[r] \in LhPrRow
  BY <1>2 DEF LhRunsFit
<1>5. /\ p \in LhProcRow /\ LhFits(p, lhPrs[r], lhPrRows[r])
      /\ LhMayOpen(p, lhPrs[r]) => LhMayOpen(o, lhPrs[r]) BY <1>3, <1>4, LhStoppedFits
<1>6. lhProc' = [lhProc EXCEPT ![r] = p] BY <1>1, <1>2, <1>3 DEF Goto
<1> QED BY <1>2, <1>5, <1>6, LhRecordMoves

\* A run goes on to p, unless it is stopped for want of lease or mode.
LEMMA LhGoesOn ==
  ASSUME LhRunsFit, LhCounts, NEW r \in LhRuns, NEW p \in LhProcRow,
         Goto(r, Fenced(r, p)) \/ Goto(r, Leased(r, p)) \/ Goto(r, p),
         UNCHANGED <<lhPrs, lhPrRows, lhLease, lhOverruns>>,
         LhFits(p, lhPrs[r], lhPrRows[r]),
         LhMayOpen(p, lhPrs[r]) => LhMayOpen(lhProc[r], lhPrs[r]),
         lhProc[r].pc \in LhSteps
  PROVE  LhRunsFit' /\ LhCounts'
<1>1. PICK q : q \in {Fenced(r, p), Leased(r, p), p} /\ Goto(r, q) OBVIOUS
<1>2. lhPrs[r] \in LhPr /\ lhPrRows[r] \in LhPrRow BY DEF LhRunsFit
<1>3. /\ q \in LhProcRow /\ LhFits(q, lhPrs[r], lhPrRows[r])
      /\ LhMayOpen(q, lhPrs[r]) => LhMayOpen(p, lhPrs[r]) BY <1>1, <1>2, LhFencedFits
<1> QED BY <1>1, <1>3, LhRecordMoves DEF Goto

\* What a run at work is.
LEMMA LhAtWork ==
  ASSUME LhRunsFit, NEW r \in LhRuns, NEW o, o = lhProc[r]
  PROVE  /\ o \in LhProcRow /\ LhFits(o, lhPrs[r], lhPrRows[r])
         /\ lhPrs[r] \in LhPr /\ lhPrRows[r] \in LhPrRow
BY DEF LhRunsFit

\* The steps of a run before its commit, and the steps that only fail.
LEMMA LhEarlyKeeps ==
  ASSUME LhRunsFit, LhCounts, LhTables, NEW r \in LhRuns,
         \/ LhBegin(r) \/ LhFetch(r) \/ LhScanFails(r) \/ LhScan(r) \/ LhFixFails(r) \/ LhFix(r)
         \/ LhValidateFails(r) \/ LhValidate(r) \/ LhCommit(r) \/ LhReviewFails(r)
         \/ LhChecks(r) \/ LhCrash(r)
  PROVE  LhRunsFit' /\ LhCounts' /\ LhTables'
<1>0. PICK o : o = lhProc[r] OBVIOUS
<1>00. PICK pr : pr = lhPrs[r] OBVIOUS
<1>000. PICK row : row = lhPrRows[r] OBVIOUS
<1>1. /\ o \in LhProcRow /\ LhFits(o, pr, row)
      /\ lhPrs[r] \in LhPr /\ lhPrRows[r] \in LhPrRow BY <1>0, <1>00, <1>000, LhAtWork
<1>2. UNCHANGED <<lhPrs, lhPrRows, lhLease, lhOverruns, lhBranches, lhTarget, lhDay>>
  BY DEF LhBegin, LhFetch, LhScanFails, LhScan, LhFixFails, LhFix, LhValidateFails, LhValidate,
         LhCommit, LhReviewFails, LhChecks, LhCrash, lhWorld, lhBounds
<1>3. o.pc \in LhSteps
  BY <1>0 DEF LhBegin, LhFetch, LhScanFails, LhScan, LhFixFails, LhFix, LhValidateFails, LhValidate,
         LhCommit, LhReviewFails, LhChecks, LhCrash, At, LhSteps
<1>4. LhTables'
 <2>1. lhRunRows' \in [LhRuns -> {"none", "RUNNING", "terminal"}]
   BY DEF LhBegin, LhFetch, LhScanFails, LhScan, LhFixFails, LhFix, LhValidateFails, LhValidate,
        LhCommit, LhReviewFails, LhChecks, LhCrash, LhTables, BeginRun
 <2>2. lhWorktrees' \in [LhRuns -> {"none", "clean", "dirty"}]
   BY DEF LhBegin, LhFetch, LhScanFails, LhScan, LhFixFails, LhFix, LhValidateFails, LhValidate,
        LhCommit, LhReviewFails, LhChecks, LhCrash, LhTables, CreateWorktree, FixerEdits,
        CommitCandidate
 <2> QED BY <1>2, <2>1, <2>2 DEF LhTables
<1>5. ASSUME NEW codes \in SUBSET (Failures \cup {"capacity"}), Fails(r, codes)
      PROVE  LhRunsFit' /\ LhCounts' BY <1>0, <1>2, <1>3, <1>5, LhFailMoves
<1>6. ASSUME NEW p \in LhProcRow, Goto(r, Fenced(r, p)) \/ Goto(r, Leased(r, p)) \/ Goto(r, p),
             LhFits(p, pr, row), LhMayOpen(p, pr) => LhMayOpen(o, pr)
      PROVE  LhRunsFit' /\ LhCounts' BY <1>0, <1>00, <1>000, <1>2, <1>3, <1>6, LhGoesOn
<1>7. /\ {"environment"} \in SUBSET (Failures \cup {"capacity"})
      /\ {"policy"} \in SUBSET (Failures \cup {"capacity"})
      /\ {"environment", "policy"} \in SUBSET (Failures \cup {"capacity"}) BY DEF Failures
<1>8. ASSUME NEW pc \in {"done", "dead"}, Goto(r, Over(r, pc)) PROVE LhRunsFit' /\ LhCounts'
  BY <1>0, <1>2, <1>3, <1>8, LhOverFits, LhRecordMoves DEF Goto
<1>9. ASSUME NEW pc \in LhSteps
      PROVE  /\ [o EXCEPT !.pc = pc] \in LhProcRow
             /\ [o EXCEPT !.pc = pc].pc = pc
             /\ [o EXCEPT !.pc = pc].mode = o.mode /\ [o EXCEPT !.pc = pc].tier = o.tier
             /\ [o EXCEPT !.pc = pc].patch = o.patch
             /\ [o EXCEPT !.pc = pc].outcome = o.outcome /\ [o EXCEPT !.pc = pc].code = o.code
  BY <1>1 DEF LhProcRow
<1>10. CASE LhBegin(r)
 <2>1. CASE Held(r)
  <3>1. Goto(r, [o EXCEPT !.pc = "preflight"]) /\ o.pc = "begin"
    BY <1>0, <1>10, <2>1 DEF LhBegin, Then, At
  <3>2. LhFits([o EXCEPT !.pc = "preflight"], pr, row)
        /\ (LhMayOpen([o EXCEPT !.pc = "preflight"], pr) => LhMayOpen(o, pr))
    BY <1>1, <1>9, <3>1 DEF LhFits, LhMayOpen, LhBuilding, LhMerging, LhSteps
  <3> QED BY <1>4, <1>6, <1>9, <3>1, <3>2 DEF LhSteps
 <2>2. CASE ~Held(r) BY <1>4, <1>8, <1>10, <2>2 DEF LhBegin
 <2> QED BY <2>1, <2>2
<1>11. CASE LhFetch(r)
 <2>1. PICK base : base = lhTarget OBVIOUS
 <2> DEFINE p == [o EXCEPT !.pc = "scan", !.base = base]
 <2>2. \/ Goto(r, Fenced(r, p))
       \/ Fails(r, {"environment"}) BY <1>0, <1>11, <2>1 DEF LhFetch, Then
 <2>3. o.pc = "fetch" /\ base \in Nat BY <1>0, <1>11, <2>1 DEF LhFetch, At, LhTables
 <2>4. /\ p \in LhProcRow /\ p.pc = "scan" /\ p.mode = o.mode /\ p.tier = o.tier
       /\ p.patch = o.patch /\ p.outcome = o.outcome /\ p.code = o.code
   BY <1>1, <2>3 DEF LhProcRow, LhSteps
 <2> HIDE DEF p
 <2>5. LhFits(p, pr, row) /\ (LhMayOpen(p, pr) => LhMayOpen(o, pr))
   BY <1>1, <2>3, <2>4 DEF LhFits, LhMayOpen, LhBuilding, LhMerging
 <2> QED BY <1>4, <1>5, <1>6, <1>7, <2>2, <2>4, <2>5
<1>12. CASE LhScanFails(r) \/ LhFixFails(r) \/ LhValidateFails(r)
  BY <1>4, <1>5, <1>7, <1>12 DEF LhScanFails, LhFixFails, LhValidateFails
<1>13. CASE LhScan(r)
 <2>1. PICK verdict \in ScanVerdicts(r) :
         Goto(r, IF verdict = "report" THEN Leased(r, Ends(r)) ELSE Fenced(r, Then(r, "fix")))
   BY <1>13 DEF LhScan
 <2>2. o.pc = "scan" /\ (verdict # "report" => o.mode \in WriteModes)
   BY <1>0, <1>13, <2>1 DEF LhScan, At, ScanVerdicts
 <2>3. CASE verdict = "report"
  <3>1. Goto(r, Leased(r, [o EXCEPT !.pc = "finish"])) BY <1>0, <2>1, <2>3 DEF Ends, Then
  <3>2. LhFits([o EXCEPT !.pc = "finish"], pr, row)
        /\ (LhMayOpen([o EXCEPT !.pc = "finish"], pr) => LhMayOpen(o, pr))
    BY <1>1, <1>9, <2>2 DEF LhFits, LhMayOpen, LhBuilding, LhMerging, LhSteps
  <3> QED BY <1>4, <1>6, <1>9, <3>1, <3>2 DEF LhSteps
 <2>4. CASE verdict # "report"
  <3>1. Goto(r, Fenced(r, [o EXCEPT !.pc = "fix"])) BY <1>0, <2>1, <2>4 DEF Then
  <3>2. LhFits([o EXCEPT !.pc = "fix"], pr, row)
        /\ (LhMayOpen([o EXCEPT !.pc = "fix"], pr) => LhMayOpen(o, pr))
    BY <1>1, <1>9, <2>2, <2>4 DEF LhFits, LhMayOpen, LhBuilding, LhMerging, LhSteps
  <3> QED BY <1>4, <1>6, <1>9, <3>1, <3>2 DEF LhSteps
 <2> QED BY <2>3, <2>4
<1>14. CASE LhFix(r)
 <2>1. o.pc = "fix" BY <1>0, <1>14 DEF LhFix, At
 <2>2. ASSUME NEW patch \in LhPatches, NEW tier \in {"A", "B"},
              Goto(r, Fenced(r, [o EXCEPT !.pc = "validate", !.patch = patch, !.tier = tier]))
       PROVE  LhRunsFit' /\ LhCounts'
  <3> DEFINE p == [o EXCEPT !.pc = "validate", !.patch = patch, !.tier = tier]
  <3>1. /\ p \in LhProcRow /\ p.pc = "validate" /\ p.mode = o.mode
        /\ p.patch = patch /\ p.outcome = o.outcome /\ p.code = o.code
    BY <1>1 DEF LhProcRow, LhSteps
  <3>2. Goto(r, Fenced(r, p)) BY <2>2
  <3> HIDE DEF p
  <3>3. LhFits(p, pr, row) /\ (LhMayOpen(p, pr) => LhMayOpen(o, pr))
    BY <1>1, <2>1, <3>1 DEF LhFits, LhMayOpen, LhBuilding, LhMerging
  <3> QED BY <1>6, <3>1, <3>2, <3>3
 <2>3. \/ Fails(r, {"policy"})
       \/ \E patch \in LhPatches, tier \in {"A", "B"} :
            Goto(r, Fenced(r, [o EXCEPT !.pc = "validate", !.patch = patch, !.tier = tier]))
  <3>1. \A d \in LhDiffs : EvaluateDiff(d) \in {"A", "B", "C"} BY DEF EvaluateDiff
  <3>2. CASE Drifted(r) BY <1>14, <3>2 DEF LhFix
  <3>3. CASE ~Drifted(r)
   <4>1. PICK patch \in LhPatches, d \in LhDiffs :
           IF EvaluateDiff(d) = "C" THEN Fails(r, {"policy"})
           ELSE Goto(r, Fenced(r, [Then(r, "validate") EXCEPT !.patch = patch,
                                                             !.tier = EvaluateDiff(d)]))
     BY <1>14, <3>3 DEF LhFix
   <4>2. PICK tier : tier = EvaluateDiff(d) OBVIOUS
   <4>3. CASE tier = "C" BY <4>1, <4>2, <4>3
   <4>4. CASE tier # "C"
    <5>1. tier \in {"A", "B"} BY <3>1, <4>2, <4>4
    <5>2. Goto(r, Fenced(r, [o EXCEPT !.pc = "validate", !.patch = patch, !.tier = tier]))
      BY <1>0, <4>1, <4>2, <4>4 DEF Then
    <5> QED BY <5>1, <5>2
   <4> QED BY <4>3, <4>4
  <3> QED BY <3>2, <3>3
 <2> QED BY <1>4, <1>5, <1>7, <2>2, <2>3
<1>15. CASE LhValidate(r)
 <2>1. o.pc = "validate" BY <1>0, <1>15 DEF LhValidate, At
 <2>2. \/ Fails(r, {"policy"})
       \/ o.mode = "SHADOW_WRITE" /\ Goto(r, Fenced(r, [o EXCEPT !.pc = "finish"]))
       \/ o.mode # "SHADOW_WRITE" /\ Goto(r, Fenced(r, [o EXCEPT !.pc = "commit"]))
   BY <1>0, <1>15 DEF LhValidate, Ends, Then
 <2>3. LhFits([o EXCEPT !.pc = "finish"], pr, row)
       /\ (LhMayOpen([o EXCEPT !.pc = "finish"], pr) => LhMayOpen(o, pr))
   BY <1>1, <1>9, <2>1 DEF LhFits, LhMayOpen, LhBuilding, LhMerging, LhSteps
 <2>4. o.mode # "SHADOW_WRITE" =>
         LhFits([o EXCEPT !.pc = "commit"], pr, row)
         /\ (LhMayOpen([o EXCEPT !.pc = "commit"], pr) => LhMayOpen(o, pr))
   BY <1>1, <1>9, <2>1 DEF LhFits, LhMayOpen, LhBuilding, LhMerging, LhSteps, WriteModes, PrModes
 <2>5. [o EXCEPT !.pc = "finish"] \in LhProcRow /\ [o EXCEPT !.pc = "commit"] \in LhProcRow
   BY <1>9 DEF LhSteps
 <2> QED BY <1>4, <1>5, <1>6, <1>7, <2>2, <2>3, <2>4, <2>5
<1>16. CASE LhCommit(r)
 <2>1. o.pc = "commit" BY <1>0, <1>16 DEF LhCommit, At
 <2>2. \/ Fails(r, {"policy"}) \/ Fails(r, {"environment"})
       \/ Goto(r, Fenced(r, [o EXCEPT !.pc = "push"])) BY <1>0, <1>16 DEF LhCommit, Then
 <2>3. LhFits([o EXCEPT !.pc = "push"], pr, row)
       /\ (LhMayOpen([o EXCEPT !.pc = "push"], pr) => LhMayOpen(o, pr))
   BY <1>1, <1>9, <2>1 DEF LhFits, LhMayOpen, LhBuilding, LhMerging, LhSteps
 <2>4. [o EXCEPT !.pc = "push"] \in LhProcRow BY <1>9 DEF LhSteps
 <2> QED BY <1>4, <1>5, <1>6, <1>7, <2>2, <2>3, <2>4
<1>17. CASE LhReviewFails(r)
 <2>1. Fails(r, {"environment"}) \/ Goto(r, Fenced(r, o)) BY <1>0, <1>17 DEF LhReviewFails
 <2> QED BY <1>1, <1>4, <1>5, <1>6, <1>7, <2>1
<1>18. CASE LhChecks(r)
 <2>1. o.pc = "checks" BY <1>0, <1>18 DEF LhChecks, At
 <2>2. \/ Fails(r, {"policy"}) \/ Fails(r, {"environment"})
       \/ Goto(r, [o EXCEPT !.pc = "merging"]) BY <1>0, <1>18 DEF LhChecks, Then
 <2>3. LhFits([o EXCEPT !.pc = "merging"], pr, row)
       /\ (LhMayOpen([o EXCEPT !.pc = "merging"], pr) => LhMayOpen(o, pr))
   BY <1>1, <1>9, <2>1 DEF LhFits, LhMayOpen, LhBuilding, LhMerging, LhSteps
 <2>4. [o EXCEPT !.pc = "merging"] \in LhProcRow BY <1>9 DEF LhSteps
 <2> QED BY <1>4, <1>5, <1>6, <1>7, <2>2, <2>3, <2>4
<1>19. CASE LhCrash(r) BY <1>4, <1>8, <1>19 DEF LhCrash
<1> QED BY <1>10, <1>11, <1>12, <1>13, <1>14, <1>15, <1>16, <1>17, <1>18, <1>19

\* The settings of a step that leaves settings and lease alone.
LEMMA LhSettingsSame ==
  ASSUME LhSettingsFit, UNCHANGED <<lhSettings, lhLease>>
  PROVE  LhSettingsFit'
BY DEF LhSettingsFit, Held

\* One more request or stray is paid for.
LEMMA LhOneMore ==
  ASSUME NEW S, NEW T, NEW x, NEW n \in Nat, IsFiniteSet(S), Cardinality(S) <= n,
         T \subseteq S \cup {x}
  PROVE  IsFiniteSet(T) /\ Cardinality(T) <= 1 + n
<1>1. /\ IsFiniteSet(S \cup {x}) /\ Cardinality(S) \in Nat
      /\ Cardinality(S \cup {x}) \in {Cardinality(S), Cardinality(S) + 1}
  BY FS_AddElement, FS_CardinalityType
<1>2. IsFiniteSet(T) /\ Cardinality(T) <= Cardinality(S \cup {x}) /\ Cardinality(T) \in Nat
  BY <1>1, FS_Subset, FS_CardinalityType
<1> DEFINE a == Cardinality(S)  b == Cardinality(S \cup {x})  c == Cardinality(T)
<1>3. a \in Nat /\ b \in {a, a + 1} /\ c <= b /\ c \in Nat /\ a <= n BY <1>1, <1>2
<1> HIDE DEF a, b, c
<1>4. c <= 1 + n BY <1>3
<1> QED BY <1>2, <1>4 DEF c

\* The preflight finds no request open: what else may open one has lost its lease.
LEMMA LhPreflightKeeps ==
  ASSUME LhInv, NEW r \in LhRuns, LhPreflight(r)
  PROVE  LhInv'
<1>0. PICK o : o = lhProc[r] OBVIOUS
<1>1. /\ o \in LhProcRow /\ LhFits(o, lhPrs[r], lhPrRows[r])
      /\ lhPrs[r] \in LhPr /\ lhPrRows[r] \in LhPrRow /\ LhRunsFit /\ LhCounts
  BY <1>0, LhAtWork DEF LhInv
<1>2. o.pc = "preflight" /\ o.pc \in LhSteps BY <1>0 DEF LhPreflight, At, LhSteps
<1>3. UNCHANGED <<lhSettings, lhLease, lhPrs, lhPrRows, lhOverruns>>
  BY DEF LhPreflight, lhWorld, lhBounds
<1>4. LhTables' BY DEF LhInv, LhTables, LhPreflight, lhWorld
<1>5. LhSettingsFit' BY <1>3, LhSettingsSame DEF LhInv
<1>6. PICK day : day = lhDay OBVIOUS
<1> DEFINE p == [o EXCEPT !.pc = "fetch", !.day = day]
<1>7. \/ Fails(r, {"capacity"}) \/ Fails(r, {"environment"})
      \/ (o.mode \in PrModes => RemoteCapacity) /\ Goto(r, Fenced(r, p))
  BY <1>0, <1>6 DEF LhPreflight, Then
<1>8. /\ p \in LhProcRow /\ p.pc = "fetch" /\ p.mode = o.mode
      /\ p.outcome = o.outcome /\ p.code = o.code
  BY <1>1, <1>6 DEF LhProcRow, LhSteps, LhInv, LhTables
<1> HIDE DEF p
<1>9. LhFits(p, lhPrs[r], lhPrRows[r]) /\ lhPrs[r].state = "none"
  BY <1>1, <1>2, <1>8 DEF LhFits, LhBuilding, LhMerging
<1>10. CASE Fails(r, {"capacity"}) \/ Fails(r, {"environment"})
 <2>1. {"capacity"} \in SUBSET (Failures \cup {"capacity"})
       /\ {"environment"} \in SUBSET (Failures \cup {"capacity"}) BY DEF Failures
 <2>2. LhRunsFit' /\ LhCounts' BY <1>0, <1>1, <1>2, <1>3, <1>10, <2>1, LhFailMoves
 <2> QED BY <1>4, <1>5, <2>2 DEF LhInv
<1>11. CASE Goto(r, Fenced(r, p)) /\ ~(Held(r) /\ ModeHolds(r))
 <2>1. PICK q : q = Fenced(r, p) OBVIOUS
 <2>2. q \in {Stopped(p, "lease"), Stopped(p, "mode")} BY <1>11, <2>1 DEF Fenced
 <2>3. q.pc = "finish" BY <1>8, <2>2 DEF Stopped, LhProcRow
 <2>4. q \in LhProcRow /\ LhFits(q, lhPrs[r], lhPrRows[r]) BY <1>1, <1>8, <1>9, <2>1, LhFencedFits
 <2>5. ~LhMayOpen(q, lhPrs[r]) BY <1>9, <2>3 DEF LhMayOpen, LhBuilding
 <2>6. lhProc' = [lhProc EXCEPT ![r] = q] BY <1>11, <2>1 DEF Goto
 <2>7. LhRunsFit' /\ LhCounts' BY <1>0, <1>1, <1>2, <1>3, <2>4, <2>5, <2>6, LhRecordMoves
 <2> QED BY <1>4, <1>5, <2>7 DEF LhInv
<1>12. CASE /\ (o.mode \in PrModes => RemoteCapacity) /\ Goto(r, Fenced(r, p))
            /\ Held(r) /\ ModeHolds(r)
 <2>1. lhProc' = [lhProc EXCEPT ![r] = p] BY <1>12 DEF Goto, Fenced
 <2>2. CASE o.mode \notin PrModes
  <3>1. ~LhMayOpen(p, lhPrs[r]) BY <1>8, <1>9, <2>2 DEF LhMayOpen
  <3>2. LhRunsFit' /\ LhCounts' BY <1>0, <1>1, <1>2, <1>3, <1>8, <1>9, <2>1, <3>1, LhRecordMoves
  <3> QED BY <1>4, <1>5, <3>2 DEF LhInv
 <2>3. CASE RemoteCapacity
  <3>1. PICK pr : pr = lhPrs[r] OBVIOUS
  <3>2. PICK row : row = lhPrRows[r] OBVIOUS
  <3>3. pr \in LhPr /\ row \in LhPrRow /\ lhPrs' = [lhPrs EXCEPT ![r] = pr]
        /\ lhPrRows' = [lhPrRows EXCEPT ![r] = row] /\ LhFits(p, pr, row)
    BY <1>1, <1>3, <1>9, <3>1, <3>2 DEF LhRunsFit
  <3>4. /\ LhRunsFit' /\ lhProc'[r] = p
        /\ \A q \in LhRuns \ {r} : lhProc'[q] = lhProc[q] /\ lhPrs'[q] = lhPrs[q]
    BY <1>1, <1>8, <2>1, <3>3, LhRowMoves
  <3>5. LhStray' \subseteq LhStray BY <1>0, <1>2, <1>3, <3>4 DEF LhStray, Held
  <3>6. LhInvolved' \subseteq LhStray \cup {r}
   <4> SUFFICES ASSUME NEW q \in LhRuns \ {r}, LhMayOpen(lhProc'[q], lhPrs'[q])
                PROVE  q \in LhStray BY DEF LhInvolved
   <4>1. LhMayOpen(lhProc[q], lhPrs[q]) /\ lhPrs[q].state # "open" BY <2>3, <3>4 DEF RemoteCapacity
   <4>2. lhProc[q].pc \in LhSteps BY <4>1 DEF LhMayOpen, LhBuilding, LhSteps
   <4>3. ~Held(q) BY <1>12 DEF Held
   <4> QED BY <4>2, <4>3 DEF LhStray
  <3>7. /\ IsFiniteSet(LhStray') /\ Cardinality(LhStray') <= Cardinality(LhStray)
    BY <1>1, <3>5, FS_Subset DEF LhCounts
  <3>8. IsFiniteSet(LhInvolved') /\ Cardinality(LhInvolved') <= 1 + lhOverruns
    BY <1>1, <3>6, LhOneMore DEF LhCounts
  <3>9. Cardinality(LhStray) \in Nat /\ Cardinality(LhStray') \in Nat
    BY <1>1, <3>7, FS_CardinalityType DEF LhCounts
  <3>10. Cardinality(LhStray') <= lhOverruns
   <4> DEFINE a == Cardinality(LhStray)  b == Cardinality(LhStray')
   <4>1. a \in Nat /\ b \in Nat /\ b <= a /\ a <= lhOverruns /\ lhOverruns \in Nat
     BY <1>1, <3>7, <3>9 DEF LhCounts
   <4> HIDE DEF a, b
   <4>2. b <= lhOverruns BY <4>1
   <4> QED BY <4>2 DEF b
  <3>11. LhCounts' BY <1>1, <1>3, <3>7, <3>8, <3>10 DEF LhCounts
  <3> QED BY <1>4, <1>5, <3>4, <3>11 DEF LhInv
 <2> QED BY <1>12, <2>2, <2>3
<1> QED BY <1>7, <1>10, <1>11, <1>12

\* The steps that publish, record, review and merge a request.
LEMMA LhPublishKeeps ==
  ASSUME LhRunsFit, LhCounts, LhTables, NEW r \in LhRuns,
         \/ LhPush(r) \/ LhCreateDraft(r) \/ LhRecordPullRequest(r) \/ LhReview(r)
         \/ LhMarkReady(r) \/ LhMerge(r) \/ LhRecordMerge(r)
  PROVE  LhRunsFit' /\ LhCounts' /\ LhTables'
<1>0. PICK o : o = lhProc[r] OBVIOUS
<1>00. PICK pr : pr = lhPrs[r] OBVIOUS
<1>000. PICK row : row = lhPrRows[r] OBVIOUS
<1>1. o \in LhProcRow /\ LhFits(o, pr, row) /\ pr \in LhPr /\ row \in LhPrRow
  BY <1>0, <1>00, <1>000, LhAtWork
<1>2. UNCHANGED <<lhLease, lhOverruns, lhDay, lhRunRows, lhWorktrees>>
  BY DEF LhPush, LhCreateDraft, LhRecordPullRequest, LhReview, LhMarkReady, LhMerge, LhRecordMerge,
         lhWorld, lhBounds
<1>3. o.pc \in LhSteps
  BY <1>0 DEF LhPush, LhCreateDraft, LhRecordPullRequest, LhReview, LhMarkReady, LhMerge,
         LhRecordMerge, At, LhSteps
<1>4. ASSUME NEW q \in LhProcRow, NEW npr \in LhPr, NEW nrow \in LhPrRow,
             lhProc' = [lhProc EXCEPT ![r] = q], lhPrs' = [lhPrs EXCEPT ![r] = npr],
             lhPrRows' = [lhPrRows EXCEPT ![r] = nrow], LhFits(q, npr, nrow),
             LhMayOpen(q, npr) => LhMayOpen(o, pr)
      PROVE  LhRunsFit' /\ LhCounts' BY <1>0, <1>00, <1>2, <1>3, <1>4, LhRunMoves
<1>5. ASSUME NEW npr \in LhPr, NEW nrow \in LhPrRow, LhFits(o, npr, nrow),
             NEW codes \in SUBSET (Failures \cup {"capacity"}), Fails(r, codes),
             lhPrs' = [lhPrs EXCEPT ![r] = npr], lhPrRows' = [lhPrRows EXCEPT ![r] = nrow],
             LhMayOpen(o, npr) => LhMayOpen(o, pr)
      PROVE  LhRunsFit' /\ LhCounts'
 <2>1. PICK code \in codes : Goto(r, Stopped(o, code)) BY <1>0, <1>5 DEF Fails
 <2>2. PICK q : q = Stopped(o, code) OBVIOUS
 <2>3. q \in LhProcRow /\ LhFits(q, npr, nrow) /\ (LhMayOpen(q, npr) => LhMayOpen(o, npr))
   BY <1>1, <1>5, <2>2, LhStoppedFits
 <2>4. lhProc' = [lhProc EXCEPT ![r] = q] BY <2>1, <2>2 DEF Goto
 <2> QED BY <1>4, <1>5, <2>3, <2>4
<1>6. ASSUME NEW p \in LhProcRow, NEW npr \in LhPr, NEW nrow \in LhPrRow, LhFits(p, npr, nrow),
             Goto(r, Fenced(r, p)) \/ Goto(r, Leased(r, p)) \/ Goto(r, p),
             lhPrs' = [lhPrs EXCEPT ![r] = npr], lhPrRows' = [lhPrRows EXCEPT ![r] = nrow],
             LhMayOpen(p, npr) => LhMayOpen(o, pr)
      PROVE  LhRunsFit' /\ LhCounts'
 <2>1. PICK q : q \in {Fenced(r, p), Leased(r, p), p} /\ Goto(r, q) BY <1>6
 <2>2. q \in LhProcRow /\ LhFits(q, npr, nrow) /\ (LhMayOpen(q, npr) => LhMayOpen(p, npr))
   BY <1>6, <2>1, LhFencedFits
 <2>3. lhProc' = [lhProc EXCEPT ![r] = q] BY <2>1 DEF Goto
 <2> QED BY <1>4, <1>6, <2>2, <2>3
<1>7. /\ {"environment"} \in SUBSET (Failures \cup {"capacity"})
      /\ {"policy"} \in SUBSET (Failures \cup {"capacity"}) BY DEF Failures
<1>8. ASSUME NEW pc \in LhSteps
      PROVE  /\ [o EXCEPT !.pc = pc] \in LhProcRow
             /\ [o EXCEPT !.pc = pc].pc = pc
             /\ [o EXCEPT !.pc = pc].mode = o.mode /\ [o EXCEPT !.pc = pc].tier = o.tier
             /\ [o EXCEPT !.pc = pc].patch = o.patch
             /\ [o EXCEPT !.pc = pc].outcome = o.outcome /\ [o EXCEPT !.pc = pc].code = o.code
  BY <1>1 DEF LhProcRow
<1>9. /\ UNCHANGED lhPrs => lhPrs' = [lhPrs EXCEPT ![r] = pr]
      /\ UNCHANGED lhPrRows => lhPrRows' = [lhPrRows EXCEPT ![r] = row]
  BY <1>00, <1>000 DEF LhRunsFit
<1>10. CASE LhPush(r)
 <2>1. o.pc = "push" /\ UNCHANGED <<lhPrs, lhPrRows, lhTarget>> BY <1>0, <1>10 DEF LhPush, At
 <2>2. Fails(r, {"environment"}) \/ Goto(r, Fenced(r, [o EXCEPT !.pc = "create"]))
   BY <1>0, <1>10 DEF LhPush, Then
 <2>3. LhFits([o EXCEPT !.pc = "create"], pr, row)
       /\ (LhMayOpen([o EXCEPT !.pc = "create"], pr) => LhMayOpen(o, pr))
   BY <1>1, <1>8, <2>1 DEF LhFits, LhMayOpen, LhBuilding, LhMerging, LhSteps
 <2>4. [o EXCEPT !.pc = "create"] \in LhProcRow BY <1>8 DEF LhSteps
 <2>5. LhRunsFit' /\ LhCounts' BY <1>1, <1>5, <1>6, <1>7, <1>9, <2>1, <2>2, <2>3, <2>4
 <2>6. o.patch \in LhPatches BY <1>1, <2>1 DEF LhFits
 <2>7. lhBranches' \subseteq LhPatches BY <1>0, <1>10, <2>6 DEF LhPush, LhTables
 <2> QED BY <1>2, <2>1, <2>5, <2>7 DEF LhTables
<1>11. CASE LhCreateDraft(r)
 <2> DEFINE npr == [pr EXCEPT !.state = "open"]
 <2>1. o.pc = "create" /\ UNCHANGED <<lhPrRows, lhTarget, lhBranches>>
   BY <1>0, <1>11 DEF LhCreateDraft, At
 <2>2. npr \in LhPr /\ npr.state = "open" BY <1>1 DEF LhPr
 <2>3. LhMayOpen(o, pr) BY <1>1, <2>1 DEF LhFits, LhMayOpen, LhBuilding
 <2>4. \/ UNCHANGED lhPrs /\ (Fails(r, {"policy"}) \/ Fails(r, {"environment"}))
       \/ /\ lhPrs' = [lhPrs EXCEPT ![r] = npr]
          /\ \/ Goto(r, Fenced(r, [o EXCEPT !.pc = "record"]))
             \/ Fails(r, {"environment"}) BY <1>0, <1>00, <1>11 DEF LhCreateDraft, Then, LhRunsFit
 <2> HIDE DEF npr
 <2>5. LhFits([o EXCEPT !.pc = "record"], npr, row)
   BY <1>1, <1>8, <2>1, <2>2 DEF LhFits, LhBuilding, LhMerging, LhSteps
 <2>6. [o EXCEPT !.pc = "record"] \in LhProcRow BY <1>8 DEF LhSteps
 <2>7. CASE UNCHANGED lhPrs /\ (Fails(r, {"policy"}) \/ Fails(r, {"environment"}))
   BY <1>1, <1>2, <1>5, <1>7, <1>9, <2>1, <2>7 DEF LhTables
 <2>8. CASE lhPrs' = [lhPrs EXCEPT ![r] = npr] /\ Goto(r, Fenced(r, [o EXCEPT !.pc = "record"]))
   BY <1>1, <1>2, <1>6, <1>9, <2>1, <2>2, <2>3, <2>5, <2>6, <2>8 DEF LhTables
 <2>9. CASE lhPrs' = [lhPrs EXCEPT ![r] = npr] /\ Fails(r, {"environment"})
  <3>1. PICK code \in {"environment"} : Goto(r, Stopped(o, code)) BY <1>0, <2>9 DEF Fails
  <3>2. PICK q : q = Stopped(o, code) OBVIOUS
  <3>3. q \in LhProcRow /\ q.pc = "finish" /\ LhFits(q, pr, row)
   <4>1. code \in Failures \cup {"capacity"} BY DEF Failures
   <4>2. q.pc = "finish" BY <1>1, <3>2 DEF Stopped, LhProcRow
   <4> QED BY <1>1, <3>2, <4>1, <4>2, LhStoppedFits
  <3>4. LhFits(q, npr, row) BY <2>2, <3>3 DEF LhFits, LhBuilding, LhMerging
  <3>5. lhProc' = [lhProc EXCEPT ![r] = q] BY <3>1, <3>2 DEF Goto
  <3> QED BY <1>1, <1>2, <1>4, <1>9, <2>1, <2>2, <2>3, <2>9, <3>3, <3>4, <3>5 DEF LhTables
 <2> QED BY <2>4, <2>7, <2>8, <2>9
<1>12. CASE LhRecordPullRequest(r)
 <2>1. o.pc = "record" /\ UNCHANGED <<lhPrs, lhTarget, lhBranches>>
   BY <1>0, <1>12 DEF LhRecordPullRequest, At, lhWorld
 <2>2. Goto(r, Fenced(r, [o EXCEPT !.pc = "review"])) BY <1>0, <1>12 DEF LhRecordPullRequest, Then
 <2>3. PICK nrow \in LhPrRow : lhPrRows' = [lhPrRows EXCEPT ![r] = nrow]
  <3>1. CASE Held(r)
   <4>1. lhPrRows' = [lhPrRows EXCEPT ![r] = [state |-> "DRAFT", day |-> o.day]]
     BY <1>0, <1>12, <3>1 DEF LhRecordPullRequest, RecordPr
   <4>2. [state |-> "DRAFT", day |-> o.day] \in LhPrRow BY <1>1 DEF LhProcRow, LhPrRow, OpenStates
   <4> QED BY <4>1, <4>2
  <3>2. CASE ~Held(r) BY <1>1, <1>9, <1>12, <3>2 DEF LhRecordPullRequest, RecordPr
  <3> QED BY <3>1, <3>2
 <2>4. LhFits([o EXCEPT !.pc = "review"], pr, nrow)
       /\ (LhMayOpen([o EXCEPT !.pc = "review"], pr) => LhMayOpen(o, pr))
   BY <1>1, <1>8, <2>1 DEF LhFits, LhMayOpen, LhBuilding, LhMerging, LhSteps
 <2>5. [o EXCEPT !.pc = "review"] \in LhProcRow BY <1>8 DEF LhSteps
 <2> QED BY <1>1, <1>2, <1>6, <1>9, <2>1, <2>2, <2>3, <2>4, <2>5 DEF LhTables
<1>13. CASE LhReview(r)
 <2>1. o.pc = "review" /\ UNCHANGED <<lhPrs, lhTarget, lhBranches>> /\ Held(r)
   BY <1>0, <1>13 DEF LhReview, At, lhWorld
 <2> DEFINE passed == [state |-> "DRAFT_REVIEWED", day |-> o.day]
            refused == [state |-> "CHANGES_REQUESTED", day |-> o.day]
 <2>2. passed \in LhPrRow /\ refused \in LhPrRow /\ passed.state = "DRAFT_REVIEWED"
   BY <1>1 DEF LhProcRow, LhPrRow, OpenStates
 <2>3. \/ /\ lhPrRows' = [lhPrRows EXCEPT ![r] = passed]
          /\ \/ /\ Goto(r, [o EXCEPT !.pc = "merge"])
                /\ o.mode = "AUTO_MERGE_TIER_A" /\ o.tier = "A"
             \/ Goto(r, [o EXCEPT !.pc = "finish"])
       \/ /\ lhPrRows' = [lhPrRows EXCEPT ![r] = refused]
          /\ Goto(r, [o EXCEPT !.pc = "finish"])
   BY <1>0, <1>13, <2>1 DEF LhReview, RecordPr, Then, Ends
 <2> HIDE DEF passed, refused
 <2>4. /\ [o EXCEPT !.pc = "merge"] \in LhProcRow /\ [o EXCEPT !.pc = "finish"] \in LhProcRow
       /\ o.mode = "AUTO_MERGE_TIER_A" /\ o.tier = "A"
            => LhFits([o EXCEPT !.pc = "merge"], pr, passed)
       /\ LhFits([o EXCEPT !.pc = "finish"], pr, passed)
       /\ LhFits([o EXCEPT !.pc = "finish"], pr, refused)
   BY <1>1, <1>8, <2>1, <2>2 DEF LhFits, LhBuilding, LhMerging, LhSteps
 <2>5. /\ LhMayOpen([o EXCEPT !.pc = "merge"], pr) => LhMayOpen(o, pr)
       /\ LhMayOpen([o EXCEPT !.pc = "finish"], pr) => LhMayOpen(o, pr)
   BY <1>8, <2>1 DEF LhMayOpen, LhBuilding, LhSteps
 <2>6. LhRunsFit' /\ LhCounts' BY <1>1, <1>6, <1>9, <2>1, <2>2, <2>3, <2>4, <2>5
 <2> QED BY <1>2, <2>1, <2>6 DEF LhTables
<1>14. CASE LhMarkReady(r)
 <2>1. o.pc = "merge" /\ UNCHANGED <<lhPrRows, lhTarget, lhBranches>>
   BY <1>0, <1>14 DEF LhMarkReady, At
 <2> DEFINE npr == [pr EXCEPT !.draft = FALSE]
 <2>2. npr \in LhPr /\ npr.state = pr.state /\ npr.own = pr.own BY <1>1 DEF LhPr
 <2>3. \/ lhPrs' = [lhPrs EXCEPT ![r] = npr] /\ Goto(r, [o EXCEPT !.pc = "checks"])
       \/ UNCHANGED lhPrs /\ (Fails(r, {"policy"}) \/ Fails(r, {"environment"}))
   BY <1>0, <1>00, <1>14 DEF LhMarkReady, Then, LhRunsFit
 <2> HIDE DEF npr
 <2>4. LhFits([o EXCEPT !.pc = "checks"], npr, row) /\ [o EXCEPT !.pc = "checks"] \in LhProcRow
       /\ (LhMayOpen([o EXCEPT !.pc = "checks"], npr) => LhMayOpen(o, pr))
   BY <1>1, <1>8, <2>1, <2>2 DEF LhFits, LhBuilding, LhMerging, LhSteps, LhMayOpen
 <2> QED BY <1>1, <1>2, <1>5, <1>6, <1>7, <1>9, <2>1, <2>2, <2>3, <2>4 DEF LhTables
<1>15. CASE LhMerge(r)
 <2>1. o.pc = "merging" /\ UNCHANGED lhPrRows BY <1>0, <1>15 DEF LhMerge, At
 <2>2. CASE ~GitHubMerges(r)
   BY <1>1, <1>2, <1>5, <1>7, <1>9, <1>15, <2>1, <2>2 DEF LhMerge, LhTables
 <2>3. CASE GitHubMerges(r)
  <3> DEFINE npr == [pr EXCEPT !.state = "merged"]
  <3>1. npr \in LhPr /\ npr.state = "merged" /\ npr.own BY <1>00, <1>1, <2>3 DEF LhPr, GitHubMerges
  <3>2. /\ lhPrs' = [lhPrs EXCEPT ![r] = npr]
        /\ Goto(r, Fenced(r, [o EXCEPT !.pc = "recordMerge"])) \/ Fails(r, {"environment"})
        /\ lhTarget' = lhTarget + 1 /\ lhBranches' \subseteq lhBranches
    BY <1>0, <1>00, <1>15, <2>3 DEF LhMerge, Then, LhRunsFit
  <3> HIDE DEF npr
  <3>3. LhFits([o EXCEPT !.pc = "recordMerge"], npr, row)
        /\ [o EXCEPT !.pc = "recordMerge"] \in LhProcRow
        /\ (LhMayOpen([o EXCEPT !.pc = "recordMerge"], npr) => LhMayOpen(o, pr))
    BY <1>1, <1>8, <2>1, <3>1 DEF LhFits, LhBuilding, LhMerging, LhSteps, LhMayOpen
  <3>4. LhTables' BY <1>2, <3>2 DEF LhTables
  <3>5. CASE Goto(r, Fenced(r, [o EXCEPT !.pc = "recordMerge"]))
    BY <1>1, <1>6, <1>9, <2>1, <3>1, <3>2, <3>3, <3>4, <3>5
  <3>6. CASE Fails(r, {"environment"})
   <4>1. PICK code \in {"environment"} : Goto(r, Stopped(o, code)) BY <1>0, <3>6 DEF Fails
   <4>2. PICK q : q = Stopped([o EXCEPT !.pc = "recordMerge"], code) OBVIOUS
   <4>3. q = Stopped(o, code) /\ code \in Failures \cup {"capacity"}
     BY <1>1, <4>2 DEF Stopped, LhProcRow, Failures
   <4>4. q \in LhProcRow /\ LhFits(q, npr, row)
         /\ (LhMayOpen(q, npr) => LhMayOpen([o EXCEPT !.pc = "recordMerge"], npr))
     BY <1>1, <3>1, <3>3, <4>2, <4>3, LhStoppedFits
   <4>5. lhProc' = [lhProc EXCEPT ![r] = q] BY <4>1, <4>3 DEF Goto
   <4> QED BY <1>1, <1>4, <1>9, <2>1, <3>1, <3>2, <3>3, <3>4, <4>4, <4>5
  <3> QED BY <3>2, <3>5, <3>6
 <2> QED BY <2>2, <2>3
<1>16. CASE LhRecordMerge(r)
 <2>1. o.pc = "recordMerge" /\ UNCHANGED <<lhPrs, lhTarget, lhBranches>>
   BY <1>0, <1>16 DEF LhRecordMerge, At, lhWorld
 <2>2. Goto(r, Leased(r, [o EXCEPT !.pc = "finish"])) BY <1>0, <1>16 DEF LhRecordMerge, Then, Ends
 <2>3. PICK nrow \in LhPrRow : /\ lhPrRows' = [lhPrRows EXCEPT ![r] = nrow]
                               /\ nrow.state \in {"MERGED", row.state}
  <3>1. CASE Held(r)
   <4>1. lhPrRows' = [lhPrRows EXCEPT ![r] = [state |-> "MERGED", day |-> o.day]]
     BY <1>0, <1>16, <3>1 DEF LhRecordMerge, RecordPr
   <4>2. [state |-> "MERGED", day |-> o.day] \in LhPrRow BY <1>1 DEF LhProcRow, LhPrRow, OpenStates
   <4> QED BY <4>1, <4>2
  <3>2. CASE ~Held(r) BY <1>1, <1>9, <1>16, <3>2 DEF LhRecordMerge, RecordPr
  <3> QED BY <3>1, <3>2
 <2>4. LhFits([o EXCEPT !.pc = "finish"], pr, nrow)
       /\ (LhMayOpen([o EXCEPT !.pc = "finish"], pr) => LhMayOpen(o, pr))
   BY <1>1, <1>8, <2>1, <2>3 DEF LhFits, LhMayOpen, LhBuilding, LhMerging, LhSteps
 <2>5. [o EXCEPT !.pc = "finish"] \in LhProcRow BY <1>8 DEF LhSteps
 <2> QED BY <1>1, <1>2, <1>6, <1>9, <2>1, <2>2, <2>3, <2>4, <2>5 DEF LhTables
<1> QED BY <1>10, <1>11, <1>12, <1>13, <1>14, <1>15, <1>16

\* A run ends: its outcome is counted while it holds the lease, which it gives back.
LEMMA LhFinishKeeps ==
  ASSUME LhInv, NEW r \in LhRuns, LhFinish(r)
  PROVE  LhInv'
<1>0. PICK o : o = lhProc[r] OBVIOUS
<1>1. o \in LhProcRow /\ LhFits(o, lhPrs[r], lhPrRows[r]) /\ LhRunsFit /\ LhCounts
  BY <1>0, LhAtWork DEF LhInv
<1>2. /\ o.pc \in LhSteps /\ Goto(r, Over(r, "done"))
      /\ UNCHANGED <<lhPrRows, lhPrs, lhBranches, lhTarget, lhDay, lhOverruns>>
  BY <1>0 DEF LhFinish, At, LhSteps, lhWorld, lhBounds
<1>3. PICK q : q = Over(r, "done") OBVIOUS
<1>4. /\ q \in LhProcRow /\ q.pc = "done" /\ q.pc \notin LhSteps
      /\ LhFits(q, lhPrs[r], lhPrRows[r]) /\ (LhMayOpen(q, lhPrs[r]) => LhMayOpen(o, lhPrs[r]))
  BY <1>0, <1>1, <1>3, LhOverFits DEF LhSteps
<1>5. lhProc' = [lhProc EXCEPT ![r] = q] BY <1>2, <1>3 DEF Goto
<1>6. CASE ~Held(r)
 <2>1. UNCHANGED <<lhWorktrees, lhRunRows, lhSettings, lhLease>> BY <1>6 DEF LhFinish
 <2>2. LhRunsFit' /\ LhCounts' BY <1>0, <1>1, <1>2, <1>4, <1>5, <2>1, LhRecordMoves
 <2> QED BY <1>2, <2>1, <2>2, LhSettingsSame DEF LhInv, LhTables
<1>7. CASE Held(r)
 <2>1. PICK removed \in BOOLEAN :
         LET p == IF removed THEN lhProc[r] ELSE Stopped(lhProc[r], "environment") IN
         RemoveWorktree(r, removed) /\ Terminalize(r, p) BY <1>7 DEF LhFinish
 <2>2. PICK p : p = IF removed THEN o ELSE Stopped(o, "environment") OBVIOUS
 <2>3. p \in LhProcRow /\ (p.outcome = "BLOCKED" => p.code \in Failures)
  <3>1. "environment" \in Failures BY DEF Failures
  <3>2. lhPrs[r] \in LhPr /\ lhPrRows[r] \in LhPrRow BY <1>1 DEF LhRunsFit
  <3>3. p \in LhProcRow /\ LhFits(p, lhPrs[r], lhPrRows[r]) BY <1>1, <2>2, <3>1, <3>2, LhStoppedFits
  <3> QED BY <3>3 DEF LhFits
 <2>4. /\ RemoveWorktree(r, removed) /\ lhLease' = NoLease
       /\ lhRunRows' = [lhRunRows EXCEPT ![r] = "terminal"] /\ lhSettings' = RegisterOutcome(p)
   BY <1>0, <2>1, <2>2 DEF Terminalize
 <2>5. LhRunsFit' /\ LhCounts'
  <3>1. PICK pr : pr = lhPrs[r] OBVIOUS
  <3>2. PICK row : row = lhPrRows[r] OBVIOUS
  <3>3. pr \in LhPr /\ row \in LhPrRow /\ lhPrs' = [lhPrs EXCEPT ![r] = pr]
        /\ lhPrRows' = [lhPrRows EXCEPT ![r] = row] BY <1>1, <1>2, <3>1, <3>2 DEF LhRunsFit
  <3> QED BY <1>0, <1>1, <1>2, <1>4, <1>5, <1>7, <2>4, <3>1, <3>2, <3>3, LhRunMoves
 <2>6. LhTables' BY <1>2, <2>4 DEF LhInv, LhTables, RemoveWorktree
 <2>7. PICK s : s = lhSettings OBVIOUS
 <2>8. /\ s \in [enabled: BOOLEAN, mode: ActiveModes \cup {"PAUSED_MANUAL", "PAUSED_ERROR"},
                 code: Failures \cup {""}, count: 0..LhPauseAfter]
       /\ s.enabled => s.mode \in ActiveModes
       /\ ~(s.count >= LhPauseAfter) BY <1>7, <2>7 DEF LhInv, LhSettingsFit
 <2>9. PICK count : count = IF p.code = s.code THEN s.count + 1 ELSE 1 OBVIOUS
 <2>10. count \in 0..LhPauseAfter /\ 0 \in 0..LhPauseAfter /\ ~(0 >= LhPauseAfter)
  <3>1. LhPauseAfter \in Nat \ {0} BY LhAssumption
  <3>2. s.count \in 0..LhPauseAfter /\ ~(s.count >= LhPauseAfter) BY <2>8
  <3> QED BY <2>9, <3>1, <3>2
 <2>11. \/ lhSettings' = [s EXCEPT !.code = "", !.count = 0]
        \/ /\ p.outcome = "BLOCKED" /\ ~(count >= LhPauseAfter)
           /\ lhSettings' = [s EXCEPT !.code = p.code, !.count = count]
        \/ /\ p.outcome = "BLOCKED"
           /\ lhSettings' = [s EXCEPT !.code = p.code, !.count = count,
                                      !.enabled = FALSE, !.mode = "PAUSED_ERROR"]
   BY <2>4, <2>7, <2>9 DEF RegisterOutcome
 <2>12. \A x \in LhRuns : ~Held(x)' BY <2>4, LhAssumption DEF Held, NoLease
 <2>13. LhSettingsFit'
  <3>1. lhLease' \in [run: LhRuns \cup {LhCleaner, LhNobody}, expired: BOOLEAN] BY <2>4 DEF NoLease
  <3>2. CASE lhSettings' = [s EXCEPT !.code = "", !.count = 0]
    BY <2>8, <2>10, <3>1, <3>2 DEF LhSettingsFit
  <3>3. CASE /\ p.outcome = "BLOCKED" /\ ~(count >= LhPauseAfter)
             /\ lhSettings' = [s EXCEPT !.code = p.code, !.count = count]
    BY <2>3, <2>8, <2>10, <3>1, <3>3 DEF LhSettingsFit
  <3>4. CASE /\ p.outcome = "BLOCKED"
             /\ lhSettings' = [s EXCEPT !.code = p.code, !.count = count,
                                        !.enabled = FALSE, !.mode = "PAUSED_ERROR"]
    BY <2>3, <2>8, <2>10, <2>12, <3>1, <3>4 DEF LhSettingsFit
  <3> QED BY <2>11, <3>2, <3>3, <3>4
 <2> QED BY <2>5, <2>6, <2>13 DEF LhInv
<1> QED BY <1>6, <1>7

\* A run that could not be recorded gives its lease back.
LEMMA LhBeginFailsKeeps ==
  ASSUME LhInv, NEW r \in LhRuns, LhBeginFails(r)
  PROVE  LhInv'
<1>0. PICK o : o = lhProc[r] OBVIOUS
<1>1. LhRunsFit /\ LhCounts BY DEF LhInv
<1>2. /\ o.pc \in LhSteps /\ Goto(r, Over(r, "done"))
      /\ UNCHANGED <<lhSettings, lhRunRows, lhWorktrees, lhPrRows, lhPrs, lhBranches, lhTarget,
                     lhDay, lhOverruns>>
      /\ lhLease' = IF Held(r) THEN NoLease ELSE lhLease
  BY <1>0 DEF LhBeginFails, At, LhSteps, lhWorld
<1>3. PICK q : q = Over(r, "done") OBVIOUS
<1>4. /\ q \in LhProcRow /\ q.pc = "done" /\ q.pc \notin LhSteps
      /\ LhFits(q, lhPrs[r], lhPrRows[r]) /\ (LhMayOpen(q, lhPrs[r]) => LhMayOpen(o, lhPrs[r]))
  BY <1>0, <1>1, <1>3, LhOverFits DEF LhSteps
<1>5. lhProc' = [lhProc EXCEPT ![r] = q] BY <1>2, <1>3 DEF Goto
<1>6. LhRunsFit' /\ LhCounts'
 <2>1. PICK pr : pr = lhPrs[r] OBVIOUS
 <2>2. PICK row : row = lhPrRows[r] OBVIOUS
 <2>3. pr \in LhPr /\ row \in LhPrRow /\ lhPrs' = [lhPrs EXCEPT ![r] = pr]
       /\ lhPrRows' = [lhPrRows EXCEPT ![r] = row] BY <1>1, <1>2, <2>1, <2>2 DEF LhRunsFit
 <2> QED BY <1>0, <1>1, <1>2, <1>4, <1>5, <2>1, <2>2, <2>3, LhRunMoves
<1>7. LhSettingsFit' BY <1>2, LhAssumption DEF LhInv, LhSettingsFit, Held, NoLease
<1> QED BY <1>2, <1>6, <1>7 DEF LhInv, LhTables

\* A run takes a lease that nobody holds.
LEMMA LhAcquireKeeps ==
  ASSUME LhInv, NEW r \in LhRuns, LhAcquire(r)
  PROVE  LhInv'
<1>0. PICK o : o = lhProc[r] OBVIOUS
<1>00. PICK mode : mode = lhSettings.mode OBVIOUS
<1>1. /\ o \in LhProcRow /\ LhFits(o, lhPrs[r], lhPrRows[r])
      /\ lhPrs[r] \in LhPr /\ lhPrRows[r] \in LhPrRow /\ LhRunsFit /\ LhCounts
  BY <1>0, LhAtWork DEF LhInv
<1> DEFINE p == [LhIdle EXCEPT !.pc = "begin", !.mode = mode]
<1>2. /\ o.pc = "idle" /\ lhSettings.enabled /\ LeaseFree /\ lhLease' = [run |-> r, expired |-> FALSE]
      /\ lhProc' = [lhProc EXCEPT ![r] = p]
      /\ UNCHANGED <<lhSettings, lhRunRows, lhPrRows, lhPrs, lhWorktrees, lhBranches, lhTarget,
                     lhDay, lhOverruns>>
  BY <1>0, <1>00 DEF LhAcquire, At, AcquireLease, Goto, lhWorld, lhBounds
<1>3. mode \in ActiveModes BY <1>00, <1>2 DEF LhInv, LhSettingsFit
<1>4. p \in LhProcRow /\ p.pc = "begin" /\ p.outcome = "ended"
  BY <1>3 DEF LhProcRow, LhIdle, LhSteps, Outcomes
<1> HIDE DEF p
<1>5. lhPrs[r].state = "none" BY <1>1, <1>2 DEF LhFits
<1>6. LhFits(p, lhPrs[r], lhPrRows[r]) /\ ~LhMayOpen(p, lhPrs[r])
  BY <1>4, <1>5 DEF LhFits, LhMayOpen, LhBuilding, LhMerging
<1>7. /\ LhRunsFit' /\ LhInvolved' \subseteq LhInvolved
      /\ \A q \in LhRuns \ {r} : lhProc'[q] = lhProc[q]
 <2>1. PICK pr : pr = lhPrs[r] OBVIOUS
 <2>2. PICK row : row = lhPrRows[r] OBVIOUS
 <2>3. pr \in LhPr /\ row \in LhPrRow /\ lhPrs' = [lhPrs EXCEPT ![r] = pr]
       /\ lhPrRows' = [lhPrRows EXCEPT ![r] = row] BY <1>1, <1>2, <2>1, <2>2 DEF LhRunsFit
 <2> QED BY <1>1, <1>2, <1>4, <1>6, <2>1, <2>2, <2>3, LhRowMoves
<1>8. LhStray' \subseteq LhStray
 <2> SUFFICES ASSUME NEW q \in LhRuns, lhProc'[q].pc \in LhSteps, ~Held(q)'
              PROVE  q \in LhStray BY DEF LhStray
 <2>1. q # r BY <1>2 DEF Held
 <2>2. ~Held(q) BY <1>2, LhAssumption DEF LeaseFree, Held
 <2> QED BY <1>7, <2>1, <2>2 DEF LhStray
<1>9. LhCounts' BY <1>1, <1>2, <1>7, <1>8, LhFewer
<1>10. LhSettingsFit' BY <1>2 DEF LhInv, LhSettingsFit, Held
<1> QED BY <1>2, <1>7, <1>9, <1>10 DEF LhInv, LhTables

\* A lease expires: under a run at work, that is an overrun.
LEMMA LhExpireKeeps ==
  ASSUME LhInv, LhExpire
  PROVE  LhInv'
<1>0. PICK x : x = lhLease.run OBVIOUS
<1>1. /\ lhLease' = [lhLease EXCEPT !.expired = TRUE]
      /\ UNCHANGED <<lhSettings, lhRunRows, lhPrRows, lhProc, lhPrs, lhWorktrees, lhBranches,
                     lhTarget, lhDay>>
      /\ IF x \in LhRuns /\ lhProc[x].pc = "dead" THEN lhOverruns' = lhOverruns
         ELSE lhOverruns' = lhOverruns + 1 BY <1>0 DEF LhExpire, lhWorld, lhBounds
<1>2. /\ lhLease' \in [run: LhRuns \cup {LhCleaner, LhNobody}, expired: BOOLEAN]
      /\ lhLease'.run = x /\ lhLease'.expired BY <1>0, <1>1 DEF LhInv, LhSettingsFit
<1>3. \A r \in LhRuns : ~Held(r)' BY <1>2 DEF Held
<1>4. LhSettingsFit' BY <1>1, <1>2, <1>3 DEF LhInv, LhSettingsFit
<1>5. LhRunsFit' /\ LhTables' /\ LhInvolved' = LhInvolved
  BY <1>1 DEF LhInv, LhRunsFit, LhTables, LhInvolved
<1>6. LhStray' \subseteq LhStray \cup {x} BY <1>0, <1>1 DEF LhStray, Held
<1>7. LhCounts'
 <2>1. CASE x \in LhRuns /\ lhProc[x].pc = "dead"
  <3>1. x \notin LhStray' BY <1>1, <2>1 DEF LhStray, LhSteps
  <3> QED BY <1>1, <1>5, <1>6, <2>1, <3>1, LhFewer DEF LhInv
 <2>2. CASE ~(x \in LhRuns /\ lhProc[x].pc = "dead")
  <3>1. lhOverruns' = lhOverruns + 1 /\ lhOverruns \in Nat BY <1>1, <2>2 DEF LhInv, LhCounts
  <3>2. IsFiniteSet(LhStray') /\ Cardinality(LhStray') <= 1 + lhOverruns
    BY <1>6, LhOneMore DEF LhInv, LhCounts
  <3>3. /\ Cardinality(LhStray') \in Nat /\ Cardinality(LhInvolved) \in Nat
        /\ IsFiniteSet(LhInvolved) /\ Cardinality(LhInvolved) <= 1 + lhOverruns
    BY <3>2, FS_CardinalityType DEF LhInv, LhCounts
  <3> DEFINE a == Cardinality(LhStray')  b == Cardinality(LhInvolved)
  <3>4. a \in Nat /\ b \in Nat /\ a <= 1 + lhOverruns /\ b <= 1 + lhOverruns BY <3>2, <3>3
  <3> HIDE DEF a, b
  <3>5. a <= lhOverruns' /\ b <= 1 + lhOverruns' /\ lhOverruns' \in Nat BY <3>1, <3>4
  <3> QED BY <1>5, <3>2, <3>3, <3>5 DEF LhCounts, a, b
 <2> QED BY <2>1, <2>2
<1> QED BY <1>4, <1>5, <1>7 DEF LhInv

\* The operator's commands and the cleanup touch no run and no request.
LEMMA LhOperatorKeeps ==
  ASSUME LhInv,
         (\E mode \in LhModes : LhEnable(mode)) \/ LhPause \/ LhCleanupStart \/ LhCleanup
  PROVE  LhInv'
<1>1. UNCHANGED <<lhRunRows, lhPrRows, lhProc, lhPrs, lhBranches, lhTarget, lhDay, lhOverruns>>
  BY DEF LhEnable, LhPause, LhCleanupStart, LhCleanup, lhWorld, lhBounds
<1>2. LhTables'
 <2>1. lhWorktrees' \in [LhRuns -> {"none", "clean", "dirty"}]
   BY DEF LhInv, LhTables, LhEnable, LhPause, LhCleanupStart, LhCleanup
 <2> QED BY <1>1, <2>1 DEF LhInv, LhTables
<1>3. LhRunsFit' /\ LhInvolved' = LhInvolved BY <1>1 DEF LhInv, LhRunsFit, LhInvolved
<1>4. /\ \A r \in LhRuns : Held(r)' <=> Held(r)
      /\ lhLease' \in [run: LhRuns \cup {LhCleaner, LhNobody}, expired: BOOLEAN]
 <2>1. CASE UNCHANGED lhLease BY <2>1 DEF LhInv, LhSettingsFit, Held
 <2>2. CASE LhCleanupStart \/ LhCleanup
  <3>1. lhLease \in [run: LhRuns \cup {LhCleaner, LhNobody}, expired: BOOLEAN]
    BY DEF LhInv, LhSettingsFit
  <3>2. /\ lhLease.run \in {LhNobody, LhCleaner} \/ lhLease.expired
        /\ lhLease' \in {lhLease, [run |-> LhCleaner, expired |-> FALSE],
                         [run |-> LhNobody, expired |-> FALSE]}
    BY <2>2 DEF LhCleanupStart, LhCleanup, AcquireLease, LeaseFree, NoLease
  <3>3. \A r \in LhRuns : ~Held(r) BY <3>2, LhAssumption DEF Held
  <3>4. \A r \in LhRuns : ~Held(r)'
   <4>1. CASE lhLease' = lhLease BY <3>3, <4>1 DEF Held
   <4>2. CASE lhLease' = [run |-> LhCleaner, expired |-> FALSE] BY <4>2, LhAssumption DEF Held
   <4>3. CASE lhLease' = [run |-> LhNobody, expired |-> FALSE] BY <4>3, LhAssumption DEF Held
   <4> QED BY <3>2, <4>1, <4>2, <4>3
  <3>5. lhLease' \in [run: LhRuns \cup {LhCleaner, LhNobody}, expired: BOOLEAN]
   <4>1. CASE lhLease' = lhLease BY <3>1, <4>1
   <4>2. CASE lhLease' = [run |-> LhCleaner, expired |-> FALSE] BY <4>2
   <4>3. CASE lhLease' = [run |-> LhNobody, expired |-> FALSE] BY <4>3
   <4> QED BY <3>2, <4>1, <4>2, <4>3
  <3> QED BY <3>3, <3>4, <3>5
 <2> QED BY <2>1, <2>2 DEF LhEnable, LhPause
<1>5. LhStray' = LhStray BY <1>1, <1>4 DEF LhStray
<1>6. LhCounts' BY <1>1, <1>3, <1>5, LhFewer DEF LhInv
<1>7. LhSettingsFit'
 <2>1. ASSUME NEW mode \in LhModes, LhEnable(mode) PROVE LhSettingsFit'
  <3>1. lhSettings' = [enabled |-> TRUE, mode |-> mode, code |-> "", count |-> 0]
    BY <2>1 DEF LhEnable
  <3>2. mode \in ActiveModes /\ 0 \in 0..LhPauseAfter /\ ~(0 >= LhPauseAfter)
    BY LhAssumption DEF ActiveModes
  <3> QED BY <1>4, <3>1, <3>2 DEF LhSettingsFit
 <2>2. CASE LhPause
  <3>1. PICK s : s = lhSettings OBVIOUS
  <3>2. lhSettings' = [s EXCEPT !.enabled = FALSE, !.mode = "PAUSED_MANUAL"]
    BY <2>2, <3>1 DEF LhPause
  <3>3. s \in [enabled: BOOLEAN, mode: ActiveModes \cup {"PAUSED_MANUAL", "PAUSED_ERROR"},
               code: Failures \cup {""}, count: 0..LhPauseAfter]
        /\ (s.count >= LhPauseAfter => \A r \in LhRuns : ~Held(r)) BY <3>1 DEF LhInv, LhSettingsFit
  <3> QED BY <1>4, <3>2, <3>3 DEF LhSettingsFit
 <2>3. CASE LhCleanupStart \/ LhCleanup
  <3>1. lhSettings' = lhSettings BY <2>3 DEF LhCleanupStart, LhCleanup
  <3> QED BY <1>4, <3>1 DEF LhInv, LhSettingsFit
 <2> QED BY <2>1, <2>2, <2>3
<1> QED BY <1>2, <1>3, <1>6, <1>7 DEF LhInv

\* People change, hold or close a request that is open, and open none.
LEMMA LhHumanKeeps ==
  ASSUME LhInv, LhHuman
  PROVE  LhInv'
<1>1. UNCHANGED <<lhSettings, lhLease, lhRunRows, lhPrRows, lhProc, lhWorktrees, lhBranches,
                  lhOverruns>> BY DEF LhHuman
<1>2. LhSettingsFit' /\ LhStray' = LhStray BY <1>1, LhSettingsSame DEF LhInv, LhStray, Held
<1>3. LhTables' BY <1>1 DEF LhInv, LhTables, LhHuman
<1>4. LhRunsFit' /\ LhInvolved' \subseteq LhInvolved
 <2>1. CASE UNCHANGED lhPrs BY <1>1, <2>1 DEF LhInv, LhRunsFit, LhInvolved
 <2>2. ASSUME NEW r \in LhRuns, NEW npr, lhPrs[r].state = "open", lhPrs' = [lhPrs EXCEPT ![r] = npr],
              npr \in {[lhPrs[r] EXCEPT !.own = FALSE], [lhPrs[r] EXCEPT !.held = TRUE],
                       [lhPrs[r] EXCEPT !.state = "closed"]}
       PROVE  LhRunsFit' /\ LhInvolved' \subseteq LhInvolved
  <3>0. PICK o : o = lhProc[r] OBVIOUS
  <3>00. PICK pr : pr = lhPrs[r] OBVIOUS
  <3>000. PICK row : row = lhPrRows[r] OBVIOUS
  <3>1. o \in LhProcRow /\ LhFits(o, pr, row) /\ pr \in LhPr /\ row \in LhPrRow
    BY <3>0, <3>00, <3>000, LhAtWork DEF LhInv
  <3>2. npr \in LhPr /\ npr.state \in {"open", "closed"} BY <2>2, <3>00, <3>1 DEF LhPr
  <3>3. LhFits(o, npr, row) BY <2>2, <3>00, <3>1, <3>2 DEF LhFits
  <3>4. LhMayOpen(lhProc[r], lhPrs[r]) BY <2>2 DEF LhMayOpen
  <3>5. lhProc' = [lhProc EXCEPT ![r] = o] /\ lhPrRows' = [lhPrRows EXCEPT ![r] = row]
    BY <1>1, <3>0, <3>000 DEF LhInv, LhRunsFit
  <3>6. LhRunsFit BY DEF LhInv
  <3> QED BY <2>2, <3>1, <3>2, <3>3, <3>4, <3>5, <3>6, LhRowMoves
 <2> QED BY <2>1, <2>2 DEF LhHuman
<1>5. LhCounts' BY <1>1, <1>2, <1>4, LhFewer DEF LhInv
<1> QED BY <1>2, <1>3, <1>4, <1>5 DEF LhInv

\* Every step of the loop keeps the invariant.
LEMMA LhNextKeepsInv == LhInv /\ [LhNext]_lhVars => LhInv'
<1> SUFFICES ASSUME LhInv, [LhNext]_lhVars PROVE LhInv' OBVIOUS
<1>1. ASSUME NEW r \in LhRuns, LhRun(r) PROVE LhInv'
 <2>1. CASE \/ LhBegin(r) \/ LhFetch(r) \/ LhScanFails(r) \/ LhScan(r) \/ LhFixFails(r) \/ LhFix(r)
            \/ LhValidateFails(r) \/ LhValidate(r) \/ LhCommit(r) \/ LhReviewFails(r)
            \/ LhChecks(r) \/ LhCrash(r)
  <3>1. UNCHANGED <<lhSettings, lhLease>>
    BY <2>1 DEF LhBegin, LhFetch, LhScanFails, LhScan, LhFixFails, LhFix, LhValidateFails,
       LhValidate, LhCommit, LhReviewFails, LhChecks, LhCrash
  <3> QED BY <2>1, <3>1, LhEarlyKeeps, LhSettingsSame DEF LhInv
 <2>2. CASE \/ LhPush(r) \/ LhCreateDraft(r) \/ LhRecordPullRequest(r) \/ LhReview(r)
            \/ LhMarkReady(r) \/ LhMerge(r) \/ LhRecordMerge(r)
  <3>1. UNCHANGED <<lhSettings, lhLease>>
    BY <2>2 DEF LhPush, LhCreateDraft, LhRecordPullRequest, LhReview, LhMarkReady, LhMerge,
       LhRecordMerge
  <3> QED BY <2>2, <3>1, LhPublishKeeps, LhSettingsSame DEF LhInv
 <2> QED BY <1>1, <2>1, <2>2, LhPreflightKeeps, LhFinishKeeps, LhBeginFailsKeeps, LhAcquireKeeps
         DEF LhRun
<1>2. CASE UNCHANGED lhVars
 <2>1. UNCHANGED <<lhSettings, lhLease, lhRunRows, lhPrRows, lhProc, lhWorktrees, lhBranches,
                   lhPrs, lhTarget, lhDay, lhOverruns>> BY <1>2 DEF lhVars
 <2>2. LhStray' = LhStray /\ LhInvolved' = LhInvolved BY <2>1 DEF LhStray, LhInvolved, Held
 <2> QED BY <2>1, <2>2, LhSettingsSame, LhFewer DEF LhInv, LhTables, LhRunsFit
<1> QED BY <1>1, <1>2, LhExpireKeeps, LhOperatorKeeps, LhHumanKeeps DEF LhNext

\* The loop starts paused, with nothing begun.
LEMMA LhInitHolds == LhInit => LhInv
<1> SUFFICES ASSUME LhInit PROVE LhInv OBVIOUS
<1>1. LhTables BY DEF LhInit, LhTables
<1>2. LhRunsFit
  BY DEF LhInit, LhRunsFit, LhIdle, LhProcRow, LhPr, LhPrRow, LhFits, LhRest, ActiveModes,
         Outcomes, LhBuilding, LhMerging
<1>3. LhSettingsFit
 <2>1. LhPauseAfter \in Nat \ {0} /\ LhNobody \notin LhRuns BY LhAssumption
 <2>2. 0 \in 0..LhPauseAfter /\ ~(0 >= LhPauseAfter) BY <2>1
 <2> QED BY <2>2 DEF LhInit, LhSettingsFit, ActiveModes
<1>4. LhStray = {} /\ LhInvolved = {}
  BY DEF LhInit, LhStray, LhInvolved, LhIdle, LhSteps, LhMayOpen, LhBuilding
<1>5. LhCounts
 <2>1. IsFiniteSet(LhStray) /\ Cardinality(LhStray) = 0
       /\ IsFiniteSet(LhInvolved) /\ Cardinality(LhInvolved) = 0 BY <1>4, FS_EmptySet
 <2>2. lhOverruns = 0 BY DEF LhInit
 <2> QED BY <2>1, <2>2 DEF LhCounts
<1> QED BY <1>1, <1>2, <1>3, <1>5 DEF LhInv

\* The invariant implies what is checked.
LEMMA LhInvHolds == LhInv => LhTypeOK /\ LhRequestsHold
<1> SUFFICES ASSUME LhInv PROVE LhTypeOK /\ LhRequestsHold OBVIOUS
<1>1. LhTypeOK
 <2>1. \A r \in LhRuns : lhProc[r] \in LhProcRow BY DEF LhInv, LhRunsFit
 <2>2. \A r \in LhRuns : /\ lhProc[r].pc \in LhSteps \cup {"idle", "done", "dead"}
                         /\ lhProc[r].outcome \in Outcomes
                         /\ lhProc[r].code \in Failures \cup {"", "capacity"}
   BY <2>1 DEF LhProcRow, LhRest
 <2> QED BY <2>2 DEF LhInv, LhTypeOK, LhTables, LhRunsFit, LhSettingsFit, LhPr, LhPrRow
<1>2. LhOneOpenPr
 <2> DEFINE open == {r \in LhRuns : lhPrs[r].state = "open"}
 <2>1. open \subseteq LhInvolved BY DEF LhInvolved, LhMayOpen
 <2>2. Cardinality(open) <= Cardinality(LhInvolved) /\ IsFiniteSet(open)
   BY <2>1, FS_Subset DEF LhInv, LhCounts
 <2>3. Cardinality(open) \in Nat /\ Cardinality(LhInvolved) \in Nat /\ lhOverruns \in Nat
       /\ Cardinality(LhInvolved) <= 1 + lhOverruns BY <2>2, FS_CardinalityType DEF LhInv, LhCounts
 <2> DEFINE a == Cardinality(open)  b == Cardinality(LhInvolved)
 <2>4. a \in Nat /\ b \in Nat /\ a <= b /\ b <= 1 + lhOverruns /\ lhOverruns \in Nat BY <2>2, <2>3
 <2> HIDE DEF a, b
 <2>5. a <= 1 + lhOverruns BY <2>4
 <2> QED BY <2>5 DEF a, LhOneOpenPr
<1>3. LhMergedAsReviewed BY DEF LhInv, LhRunsFit, LhFits, LhMergedAsReviewed
<1> QED BY <1>1, <1>2, <1>3 DEF LhRequestsHold

\* The loop has one request open at most, save one for each lease that expired
\* under a live run, and merges what it had reviewed (runner.py, LhRequestsHold).
THEOREM LoopSafe == LhSpec => [](LhTypeOK /\ LhRequestsHold)
BY LhInitHolds, LhNextKeepsInv, LhInvHolds, PTL DEF LhSpec

====
