---- MODULE ModelProviders ----
(* One account's model Providers (core/cloud/model_providers and
   api/cloud_model_providers.py): the records, the default model, the
   connection test and the clients built from decrypted credentials.
   Requests overlap: a test reads the credential in two sessions, waits
   for the Provider and records its result afterwards, and the default is
   checked in one statement and written in another.  A connection stands
   for the API mode, base URL and key of a record; "pub" and "priv" are
   hosts that resolve to public and to private addresses. *)
EXTENDS Naturals, FiniteSets

CONSTANTS
    PvIds,          \* Provider ids, one per create request
    PvNames,        \* Provider names
    PvHosts,        \* hosts of a base URL
    PvKeys,         \* API keys
    PvModels,       \* model ids
    PvRequests,     \* requests that take several steps
    PvNone,
    PvMaxWrites     \* bound: creations and updates

VARIABLES
    pvProviders,    \* cloud_model_providers with their cloud_models
    pvDefault,      \* cloud_model_preferences: provider and model, or none
    pvDns,          \* what a host resolves to now
    pvReq,          \* requests under way
    pvSent,         \* history: (host, addresses, key) of requests sent
    pvWrites

pvVars == <<pvProviders, pvDefault, pvDns, pvReq, pvSent, pvWrites>>

--------------------
PvAbsent == [exists |-> FALSE, name |-> PvNone, host |-> PvNone, key |-> PvNone,
             models |-> {}, status |-> "untested"]

PvIdle == [at |-> "idle", id |-> PvNone, host |-> PvNone, key |-> PvNone, model |-> PvNone,
           addr |-> PvNone, for |-> PvNone]

PvOwned(id) == pvProviders[id].exists

(* _ensure_provider_name_available and the unique owner and name. *)
PvNameFree(name, id) ==
    \A other \in PvIds \ {id} : PvOwned(other) => pvProviders[other].name # name

PvChanges(id, record) ==
    /\ pvWrites < PvMaxWrites
    /\ pvWrites' = pvWrites + 1
    /\ pvProviders' = [pvProviders EXCEPT ![id] = record]

(* create_provider; its default model must be one of its own. *)
PvCreate(id, name, host, key, models) ==
    /\ ~PvOwned(id)
    /\ pvProviders[id].name = PvNone
    /\ PvNameFree(name, id)
    /\ PvChanges(id, [exists |-> TRUE, name |-> name, host |-> host, key |-> key,
                      models |-> models, status |-> "untested"])
    /\ \/ \E m \in models : pvDefault' = [id |-> id, model |-> m]
       \/ UNCHANGED pvDefault
    /\ UNCHANGED <<pvDns, pvReq, pvSent>>

PvSameConnection(old, host, key) == old.host = host /\ key = PvNone

(* update_provider; a key is stored, and counts as changed, when given. *)
PvUpdate(id, name, host, key, models) ==
    LET old == pvProviders[id] IN
    /\ PvOwned(id)
    /\ PvNameFree(name, id)
    /\ pvDefault.id = id => pvDefault.model \in models
    /\ PvChanges(id, [old EXCEPT !.name = name, !.host = host, !.models = models,
                                 !.key = IF key = PvNone THEN @ ELSE key,
                                 !.status = IF PvSameConnection(old, host, key)
                                            THEN @ ELSE "untested"])
    /\ UNCHANGED <<pvDefault, pvDns, pvReq, pvSent>>

(* delete_provider reads that no preference names it, and deletes. *)
PvStartDelete(r, id) ==
    /\ pvReq[r].at = "idle"
    /\ PvOwned(id)
    /\ pvDefault.id # id
    /\ pvReq' = [pvReq EXCEPT ![r] = [PvIdle EXCEPT !.at = "delete", !.id = id]]
    /\ UNCHANGED <<pvProviders, pvDefault, pvDns, pvSent, pvWrites>>

(* A preference written in between goes with the row (ON DELETE CASCADE). *)
PvDelete(r) ==
    LET id == pvReq[r].id IN
    /\ pvReq[r].at = "delete"
    /\ pvProviders' = [pvProviders EXCEPT ![id] = [@ EXCEPT !.exists = FALSE, !.models = {}]]
    /\ pvDefault' = IF pvDefault.id = id THEN [id |-> PvNone, model |-> PvNone] ELSE pvDefault
    /\ pvReq' = [pvReq EXCEPT ![r] = PvIdle]
    /\ UNCHANGED <<pvDns, pvSent, pvWrites>>

(* set_default reads the provider and the model, and writes the preference;
   the foreign keys refuse one whose rows have gone. *)
PvStartDefault(r, id, m) ==
    /\ pvReq[r].at = "idle"
    /\ PvOwned(id) /\ m \in pvProviders[id].models
    /\ pvReq' = [pvReq EXCEPT ![r] = [PvIdle EXCEPT !.at = "default", !.id = id, !.model = m]]
    /\ UNCHANGED <<pvProviders, pvDefault, pvDns, pvSent, pvWrites>>

PvSetDefault(r) ==
    LET q == pvReq[r] IN
    /\ q.at = "default"
    /\ pvDefault' = IF q.model \in pvProviders[q.id].models
                    THEN [id |-> q.id, model |-> q.model] ELSE pvDefault
    /\ pvReq' = [pvReq EXCEPT ![r] = PvIdle]
    /\ UNCHANGED <<pvProviders, pvDns, pvSent, pvWrites>>

--------------------
(* Credentials and the connection test. *)

(* runtime_credentials: list_providers in one session (the base URL), the
   record again in another (the key).  "for" is who asked: the test, or a
   coding session that builds its model client. *)
PvListProviders(r, id, for) ==
    /\ pvReq[r].at = "idle"
    /\ PvOwned(id)
    /\ pvReq' = [pvReq EXCEPT ![r] = [PvIdle EXCEPT !.at = "listed", !.id = id, !.for = for,
                                                    !.host = pvProviders[id].host]]
    /\ UNCHANGED <<pvProviders, pvDefault, pvDns, pvSent, pvWrites>>

PvReadKey(r) ==
    LET id == pvReq[r].id IN
    /\ pvReq[r].at = "listed"
    /\ pvReq' = [pvReq EXCEPT ![r] = IF PvOwned(id)
                                     THEN [@ EXCEPT !.at = "credential", !.key = pvProviders[id].key]
                                     ELSE PvIdle]
    /\ UNCHANGED <<pvProviders, pvDefault, pvDns, pvSent, pvWrites>>

(* resolve_provider_destination: a host with a private address is refused,
   and the destination keeps the addresses it was resolved to. *)
PvAllowed(addr) == addr = "pub"

PvPin(r) ==
    LET addr == pvDns[pvReq[r].host] IN
    /\ pvReq[r].at = "credential"
    /\ pvReq' = [pvReq EXCEPT ![r] = IF PvAllowed(addr)
                                     THEN [@ EXCEPT !.at = "pinned", !.addr = addr]
                                     ELSE IF pvReq[r].for = "test"
                                          THEN [@ EXCEPT !.at = "failed"] ELSE PvIdle]
    /\ UNCHANGED <<pvProviders, pvDefault, pvDns, pvSent, pvWrites>>

(* Mutant: the transport resolves the host again. *)
PvConnectByName(q) == [host |-> q.host, addr |-> pvDns[q.host], key |-> q.key]

(* ProviderPinnedTransport: the request goes to the validated address. *)
PvConnect(q) == [host |-> q.host, addr |-> q.addr, key |-> q.key]

PvSend(r) ==
    LET q == pvReq[r] IN
    \E ok \in BOOLEAN :
        /\ q.at = "pinned"
        /\ pvSent' = pvSent \cup {PvConnect(q)}
        /\ pvReq' = [pvReq EXCEPT ![r] = IF q.for # "test" THEN PvIdle
                                         ELSE [@ EXCEPT !.at = IF ok THEN "passed" ELSE "failed"]]
        /\ UNCHANGED <<pvProviders, pvDefault, pvDns, pvWrites>>

(* record_probe: the result of the test, for the record as it is now. *)
PvRecordProbe(r) ==
    LET q == pvReq[r] IN
    /\ q.at \in {"passed", "failed"}
    /\ pvProviders' = IF PvOwned(q.id)
                      THEN [pvProviders EXCEPT ![q.id].status =
                                IF q.at = "passed" THEN "connected" ELSE "error"]
                      ELSE pvProviders
    /\ pvReq' = [pvReq EXCEPT ![r] = PvIdle]
    /\ UNCHANGED <<pvDefault, pvDns, pvSent, pvWrites>>

(* The name service changes its answer at any time. *)
PvRebind(host) ==
    /\ pvDns' = [pvDns EXCEPT ![host] = IF @ = "pub" THEN "priv" ELSE "pub"]
    /\ UNCHANGED <<pvProviders, pvDefault, pvReq, pvSent, pvWrites>>

--------------------
PvInit ==
    /\ pvProviders = [id \in PvIds |-> PvAbsent]
    /\ pvDefault = [id |-> PvNone, model |-> PvNone]
    /\ pvDns = [h \in PvHosts |-> "pub"]
    /\ pvReq = [r \in PvRequests |-> PvIdle]
    /\ pvSent = {}
    /\ pvWrites = 0

PvModelSets == SUBSET PvModels \ {{}}

PvNext ==
    \/ \E id \in PvIds :
        \/ \E n \in PvNames, h \in PvHosts, k \in PvKeys, ms \in PvModelSets :
               PvCreate(id, n, h, k, ms)
        \/ \E n \in PvNames, h \in PvHosts, k \in PvKeys \cup {PvNone}, ms \in PvModelSets :
               PvUpdate(id, n, h, k, ms)
        \/ \E r \in PvRequests :
               \/ PvStartDelete(r, id)
               \/ \E m \in PvModels : PvStartDefault(r, id, m)
               \/ \E for \in {"test", "client"} : PvListProviders(r, id, for)
    \/ \E r \in PvRequests : \/ PvDelete(r) \/ PvSetDefault(r) \/ PvReadKey(r) \/ PvPin(r)
                             \/ PvSend(r) \/ PvRecordProbe(r)
    \/ \E h \in PvHosts : PvRebind(h)

PvSpec == PvInit /\ [][PvNext]_pvVars

PvTypeOK ==
    /\ \A id \in PvIds : pvProviders[id].status \in {"untested", "connected", "error"}
    /\ \A r \in PvRequests : pvReq[r].at \in {"idle", "delete", "default", "listed", "credential",
                                              "pinned", "passed", "failed"}

(* The default always names a model that is configured, whatever deletions
   and updates ran beside its choice. *)
PvDefaultExists ==
    pvDefault.id # PvNone => /\ PvOwned(pvDefault.id)
                             /\ pvDefault.model \in pvProviders[pvDefault.id].models

(* No key is ever sent to a private address, also when the name service
   changes its answer between the check and the connection. *)
PvSentToChecked == \A s \in pvSent : s.addr = "pub"

(* Names of Providers stay distinct. *)
PvNamesDistinct ==
    \A a, b \in PvIds : /\ PvOwned(a) /\ PvOwned(b) /\ a # b
                        => pvProviders[a].name # pvProviders[b].name

(* Account models stay usable and their keys leave only to checked hosts. *)
PvProvidersHold == PvDefaultExists /\ PvSentToChecked /\ PvNamesDistinct
====
