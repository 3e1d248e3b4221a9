---- MODULE CloudAccounts ----
(* Accounts of the cloud control plane (core/cloud/auth, core/cloud/github
   and api/cloud_auth.py): one-time invites, identities, device sessions
   and GitHub OAuth transactions.  Login requests run concurrently; each
   statement of a transaction is a step, a row selected FOR UPDATE or
   changed stays locked until the transaction ends, and what it wrote is
   seen by others only then.  The database aborts one of two transactions
   that wait for each other.  A session token is named after the request
   that created it; digests, cookies and encryption are left out. *)
EXTENDS Naturals, FiniteSets

CONSTANTS
    CaEmails,       \* accounts; a GitHub account has the verified email of one
    CaNoEmail,      \* an invite that is not bound to an email
    CaCodes,        \* invite codes
    CaNoCode,       \* a GitHub login without an invite
    CaTxns,         \* OAuth transactions
    CaNoTxn,
    CaRequests,     \* login requests
    CaMaxDevices    \* max_active_sessions

ASSUME CaAssumption ==
    /\ CaNoEmail \notin CaEmails /\ CaNoCode \notin CaCodes /\ CaNoTxn \notin CaTxns
    /\ CaMaxDevices \in Nat

VARIABLES
    caInvites,      \* cloud_invites
    caUsers,        \* cloud_users: email -> absent, active or disabled
    caIdentities,   \* auth_identities: provider and subject
    caCredentials,  \* emails with a row of cloud_provider_credentials
    caTxns,         \* cloud_oauth_transactions
    caSessions,     \* cloud_login_sessions, by the request that made it
    caReq,          \* the login requests under way
    caUses          \* history: how often each invite admitted somebody

caTables == <<caInvites, caUsers, caIdentities, caCredentials, caTxns, caSessions, caUses>>
caVars == <<caTables, caReq>>

--------------------
CaIdle == [at |-> "idle", kind |-> "canary", code |-> CaNoCode, email |-> CaNoEmail,
           txn |-> CaNoTxn]

CaHoldsUser == {"canary_user", "registering", "registered", "session"}
CaHoldsInvite == {"canary_invite", "canary_user", "registered"}

CaInviteFree(r, c) ==
    \A q \in CaRequests \ {r} : caReq[q].at \in CaHoldsInvite => caReq[q].code # c

(* Mutant: the user row is read without FOR UPDATE. *)
CaUserUnlocked(r, e) == TRUE

(* The user row can be locked: FOR UPDATE, or the unique email of an
   uncommitted insert. *)
CaUserFree(r, e) ==
    \A q \in CaRequests \ {r} : caReq[q].at \in CaHoldsUser => caReq[q].email # e

CaGo(r, at) == caReq' = [caReq EXCEPT ![r].at = at]

(* Every failure rolls the transaction back and ends the request. *)
CaRefuse(r) == CaGo(r, "refused") /\ UNCHANGED caTables

CaActive(e) == {s \in CaRequests : caSessions[s] = [user |-> e, state |-> "active"]}

CaAtLimit(e) == Cardinality(CaActive(e)) >= CaMaxDevices

CaSpend(c, e) ==
    /\ caInvites' = [caInvites EXCEPT ![c].state = "consumed", ![c].by = e]
    /\ caUses' = [caUses EXCEPT ![c] = @ + 1]

CaRegisterUser(e) ==
    caUsers' = [caUsers EXCEPT ![e] = IF @ = "absent" THEN "active" ELSE @]

CaOpenSession(r, e) == caSessions' = [caSessions EXCEPT ![r] = [user |-> e, state |-> "active"]]

(* authenticated_user: whom the token of a session authenticates. *)
CaAuthenticated(s) ==
    IF caSessions[s].state = "active" /\ caUsers[caSessions[s].user] = "active"
    THEN caSessions[s].user ELSE CaNoEmail

--------------------
(* The operator (core/cloud/auth/cli.py). *)

CaCreateInvite(c, e) ==
    /\ caInvites[c].state = "none"
    /\ caInvites' = [caInvites EXCEPT ![c].state = "fresh", ![c].email = e]
    /\ UNCHANGED <<caUsers, caIdentities, caCredentials, caTxns, caSessions, caUses, caReq>>

CaRevoked(sessions) ==
    caSessions' = [s \in CaRequests |-> IF s \in sessions
                                        THEN [caSessions[s] EXCEPT !.state = "revoked"]
                                        ELSE caSessions[s]]

(* revoke_device_session by the operator, revoke_session by the browser. *)
CaRevoke(s) ==
    /\ caSessions[s].state \in {"active", "expired"}
    /\ CaRevoked({s})
    /\ UNCHANGED <<caInvites, caUsers, caIdentities, caCredentials, caTxns, caUses, caReq>>

CaDisable(e) ==
    /\ caUsers[e] # "absent"
    /\ \A r \in CaRequests : caReq[r].at \in CaHoldsUser => caReq[r].email # e
    /\ caUsers' = [caUsers EXCEPT ![e] = "disabled"]
    /\ CaRevoked({s \in CaRequests : /\ caSessions[s].user = e
                                     /\ caSessions[s].state # "revoked"})
    /\ UNCHANGED <<caInvites, caIdentities, caCredentials, caTxns, caUses, caReq>>

(* Time passes an expiry. *)
CaExpire ==
    \/ \E s \in CaRequests :
        /\ caSessions[s].state = "active"
        /\ caSessions' = [caSessions EXCEPT ![s].state = "expired"]
        /\ UNCHANGED <<caInvites, caUsers, caIdentities, caCredentials, caTxns, caUses, caReq>>
    \/ \E t \in CaTxns :
        /\ caTxns[t].state = "open"
        /\ caTxns' = [caTxns EXCEPT ![t].state = "expired"]
        /\ UNCHANGED <<caInvites, caUsers, caIdentities, caCredentials, caSessions, caUses, caReq>>

--------------------
(* create_canary_invite_session: invite, user and session in one transaction. *)

CaCanaryInvite(r, c) ==
    /\ caReq[r].at = "idle"
    /\ CaInviteFree(r, c)
    /\ IF caInvites[c].state = "fresh" /\ caInvites[c].email # CaNoEmail
       THEN /\ caReq' = [caReq EXCEPT ![r] = [CaIdle EXCEPT !.at = "canary_invite", !.code = c,
                                                            !.email = caInvites[c].email]]
            /\ UNCHANGED caTables
       ELSE CaRefuse(r)

CaCanaryUser(r) ==
    LET e == caReq[r].email IN
    /\ caReq[r].at = "canary_invite"
    /\ CaUserFree(r, e)
    /\ IF caUsers[e] = "disabled" \/ CaAtLimit(e) THEN CaRefuse(r)
       ELSE CaGo(r, "canary_user") /\ UNCHANGED caTables

CaCanaryCommit(r) ==
    LET e == caReq[r].email IN
    /\ caReq[r].at = "canary_user"
    /\ CaSpend(caReq[r].code, e)
    /\ CaRegisterUser(e)
    /\ caIdentities' = caIdentities \cup {<<"canary_invite", e>>}
    /\ CaOpenSession(r, e)
    /\ CaGo(r, "done")
    /\ UNCHANGED <<caCredentials, caTxns>>

--------------------
(* GitHub: start and complete; the development login. *)

(* create_oauth_transaction: an open one, with the invite it was begun for. *)
CaTransaction(t, c, e) == caTxns' = [caTxns EXCEPT ![t] = [state |-> "open", code |-> c, email |-> e]]

CaOauthStart(t, c, e) ==
    /\ caTxns[t].state = "none"
    /\ CaTransaction(t, c, e)
    /\ UNCHANGED <<caInvites, caUsers, caIdentities, caCredentials, caSessions, caUses, caReq>>

(* consume_oauth_transaction: the callback, perhaps delivered twice. *)
CaOauthConsume(r, t) ==
    /\ caReq[r].at = "idle"
    /\ caTxns[t].state # "none"
    /\ IF caTxns[t].state # "open" THEN CaRefuse(r)
       ELSE /\ caTxns' = [caTxns EXCEPT ![t].state = "consumed"]
            /\ caReq' = [caReq EXCEPT ![r] = [at |-> "provider", kind |-> "github", txn |-> t,
                                              code |-> caTxns[t].code, email |-> caTxns[t].email]]
            /\ UNCHANGED <<caInvites, caUsers, caIdentities, caCredentials, caSessions, caUses>>

(* _exchange_code, _github_json, _verified_email. *)
CaProviderAnswers(r) ==
    /\ caReq[r].at = "provider"
    /\ UNCHANGED caTables
    /\ CaGo(r, "identity") \/ CaGo(r, "refused")

CaDevelopmentLogin(r, e, c) ==
    /\ caReq[r].at = "idle"
    /\ caReq' = [caReq EXCEPT ![r] = [CaIdle EXCEPT !.at = "identity", !.kind = "development",
                                                    !.email = e, !.code = c]]
    /\ UNCHANGED caTables

(* get_or_create_identity: the identity, then the user, the invite and the
   commit of both. *)
CaIdentity(r) ==
    LET q == caReq[r]
        known == <<q.kind, q.email>> \in caIdentities IN
    /\ q.at = "identity"
    /\ IF (IF known THEN q.kind = "development" ELSE q.code = CaNoCode) THEN CaRefuse(r)
       ELSE /\ CaGo(r, IF ~known THEN "register"
                       ELSE "credential")
            /\ UNCHANGED caTables

CaRegister(r) ==
    LET q == caReq[r] IN
    /\ q.at = "register"
    /\ CaUserFree(r, q.email)
    /\ IF \/ caUsers[q.email] = "disabled"
          \/ q.kind = "development" /\ caUsers[q.email] # "absent"
       THEN CaRefuse(r)
       ELSE CaGo(r, "registering") /\ UNCHANGED caTables

CaClaimInvite(r) ==
    LET q == caReq[r]
        invite == caInvites[q.code] IN
    /\ q.at = "registering"
    /\ CaInviteFree(r, q.code)
    /\ IF invite.state = "fresh" /\ invite.email \in {CaNoEmail, q.email}
       THEN CaGo(r, "registered") /\ UNCHANGED caTables
       ELSE CaRefuse(r)

CaRegisterCommit(r) ==
    LET q == caReq[r] IN
    /\ q.at = "registered"
    /\ IF <<q.kind, q.email>> \in caIdentities THEN CaRefuse(r)
       ELSE /\ CaSpend(q.code, q.email)
            /\ CaRegisterUser(q.email)
            /\ caIdentities' = caIdentities \cup {<<q.kind, q.email>>}
            /\ CaGo(r, IF q.kind = "github" THEN "credential" ELSE "login")
            /\ UNCHANGED <<caCredentials, caTxns, caSessions>>

(* upsert_provider_credential: a row another login inserted since is a
   conflict. *)
CaCredential(r) ==
    \E raced \in BOOLEAN :
        LET e == caReq[r].email IN
        /\ caReq[r].at = "credential"
        /\ raced => \E q \in CaRequests \ {r} : caReq[q].kind = "github" /\ caReq[q].email = e
        /\ IF raced /\ e \in caCredentials THEN CaRefuse(r)
           ELSE /\ caCredentials' = caCredentials \cup {e}
                /\ CaGo(r, "login")
                /\ UNCHANGED <<caInvites, caUsers, caIdentities, caTxns, caSessions, caUses>>

(* create_session *)
CaSession(r) ==
    LET e == caReq[r].email IN
    /\ caReq[r].at = "login"
    /\ CaUserFree(r, e)
    /\ IF caUsers[e] # "active" \/ CaAtLimit(e) THEN CaRefuse(r)
       ELSE CaGo(r, "session") /\ UNCHANGED caTables

CaSessionCommit(r) ==
    /\ caReq[r].at = "session"
    /\ CaOpenSession(r, caReq[r].email)
    /\ CaGo(r, "done")
    /\ UNCHANGED <<caInvites, caUsers, caIdentities, caCredentials, caTxns, caUses>>

(* The process dies, or the database breaks a deadlock: a canary login that
   holds the invite and waits for the user, a registration that holds the
   user and waits for the invite. *)
CaAbort(r) ==
    /\ caReq[r].at \notin {"idle", "done", "refused"}
    /\ CaRefuse(r)

--------------------
CaInit ==
    /\ caInvites = [c \in CaCodes |-> [state |-> "none", email |-> CaNoEmail, by |-> CaNoEmail]]
    /\ caUsers = [e \in CaEmails |-> "absent"]
    /\ caIdentities = {}
    /\ caCredentials = {}
    /\ caTxns = [t \in CaTxns |-> [state |-> "none", code |-> CaNoCode, email |-> CaNoEmail]]
    /\ caSessions = [s \in CaRequests |-> [user |-> CaNoEmail, state |-> "none"]]
    /\ caReq = [r \in CaRequests |-> CaIdle]
    /\ caUses = [c \in CaCodes |-> 0]

CaNext ==
    \/ \E c \in CaCodes, e \in CaEmails \cup {CaNoEmail} : CaCreateInvite(c, e)
    \/ \E s \in CaRequests : CaRevoke(s)
    \/ \E e \in CaEmails : CaDisable(e)
    \/ CaExpire
    \/ \E t \in CaTxns, c \in CaCodes \cup {CaNoCode}, e \in CaEmails : CaOauthStart(t, c, e)
    \/ \E r \in CaRequests :
        \/ \E c \in CaCodes : CaCanaryInvite(r, c)
        \/ CaCanaryUser(r) \/ CaCanaryCommit(r)
        \/ \E t \in CaTxns : CaOauthConsume(r, t)
        \/ CaProviderAnswers(r)
        \/ \E e \in CaEmails, c \in CaCodes : CaDevelopmentLogin(r, e, c)
        \/ CaIdentity(r) \/ CaRegister(r) \/ CaClaimInvite(r) \/ CaRegisterCommit(r)
        \/ CaCredential(r) \/ CaSession(r) \/ CaSessionCommit(r) \/ CaAbort(r)

CaSpec == CaInit /\ [][CaNext]_caVars

CaTypeOK ==
    /\ caUsers \in [CaEmails -> {"absent", "active", "disabled"}]
    /\ caIdentities \subseteq {"canary_invite", "github", "development"} \X CaEmails
    /\ \A c \in CaCodes : caInvites[c].state \in {"none", "fresh", "consumed"}

(* However logins interleave, no account has more active devices than the
   limit, and a disabled account has none: a login that passed its checks
   before the account was disabled does not open a session afterwards. *)
CaDeviceLimit ==
    \A e \in CaEmails :
        /\ Cardinality(CaActive(e)) <= CaMaxDevices
        /\ caUsers[e] = "disabled" => CaActive(e) = {}

(* An invite admits one registration or device, for the email it is bound
   to, and leaves the account with an identity; every identity spent an
   invite of its own. *)
CaInvitesSpentOnce ==
    /\ \A c \in CaCodes :
        /\ caUses[c] = IF caInvites[c].state = "consumed" THEN 1 ELSE 0
        /\ caInvites[c].state = "consumed" =>
                /\ caInvites[c].email \in {CaNoEmail, caInvites[c].by}
                /\ \E p \in {"canary_invite", "github", "development"} :
                       <<p, caInvites[c].by>> \in caIdentities
    /\ Cardinality(caIdentities) <= Cardinality({c \in CaCodes : caUses[c] = 1})

(* A session belongs to an account that was admitted, and an OAuth callback
   delivered twice logs in once. *)
CaSessionsAdmitted ==
    /\ \A s \in CaRequests : CaAuthenticated(s) # CaNoEmail =>
            \E i \in caIdentities : i[2] = CaAuthenticated(s)
    /\ \A r, q \in CaRequests : caReq[r].txn # CaNoTxn /\ caReq[q].txn = caReq[r].txn => r = q

(* Only invited accounts log in, on a limited number of devices. *)
CaAdmission == CaDeviceLimit /\ CaInvitesSpentOnce /\ CaSessionsAdmitted
====
