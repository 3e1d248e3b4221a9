---- MODULE McpSessions ----
(* The MCP connections of the coding sessions: the manager's catalog cache
   (mcp/manager.py), the transport that keeps the discovered tools
   (mcp_adapter.py) and the session pool (mcp_session_pool.py).  A session
   of the pool is owned by a task of its own, which opens the connection,
   waits for a close event and closes the connection; callers wait for it,
   join a task that is opening, evict the least recently used one, and can
   be cancelled by their time limit at every await.  One server, one
   revision and one event loop, as the application builds the manager; a
   tool call of a server may fail without saying anything about the
   connection and is one of the answers. *)
EXTENDS Naturals, FiniteSets, SequencesExt

CONSTANTS
    MsScopes,       \* owner, workspace and thread
    MsCallers,      \* requests that run at the same time
    MsNobody,
    MsMaxSessions,  \* max_sessions
    MsMaxOwners,    \* bound: sessions opened
    MsMaxFaults     \* bound: failed connections

ASSUME MsAssumption == MsNobody \notin MsCallers /\ MsMaxSessions \in Nat \ {0}

VARIABLES
    msOwners,       \* the owner tasks so far
    msEntries,      \* _entries, the least recently used first
    msInflight,     \* _inflight: an owner or 0
    msTools,        \* _tools of the transport: the owner whose tools they are, or 0
    msCatalog,      \* _cache of the manager
    msLock,         \* _locks of the manager
    msWrapped,      \* scopes for which tool wrappers were handed out
    msCaller,       \* what each request does
    msClosed,       \* the manager and its pool are closed
    msFaults

msPool == <<msOwners, msEntries, msInflight>>
msManager == <<msCatalog, msLock, msWrapped>>
msVars == <<msPool, msTools, msManager, msCaller, msClosed, msFaults>>

--------------------
(* The owner task: _run_session. *)

MsNewOwner(scope) ==
    [scope |-> scope, at |-> "new", ready |-> "pending", close |-> FALSE, cancel |-> FALSE,
     broken |-> FALSE]

MsGone(o) == msOwners[o].at = "gone"

MsOwnerOnly == UNCHANGED <<msEntries, msInflight, msTools, msManager, msCaller, msClosed>>

(* Cancelled before its first step the task never sets ready. *)
MsOwnerBegins(o) ==
    /\ msOwners[o].at = "new"
    /\ msOwners' = [msOwners EXCEPT ![o].at = IF msOwners[o].cancel THEN "gone" ELSE "opening"]
    /\ MsOwnerOnly /\ UNCHANGED msFaults

MsOwnerReady(o) ==
    /\ msOwners[o].at = "opening" /\ ~msOwners[o].cancel
    /\ msOwners' = [msOwners EXCEPT ![o].at = "open", ![o].ready = "result"]
    /\ MsOwnerOnly /\ UNCHANGED msFaults

MsOwnerFails(o) ==
    /\ msOwners[o].at = "opening"
    /\ IF msOwners[o].cancel THEN UNCHANGED msFaults
       ELSE msFaults < MsMaxFaults /\ msFaults' = msFaults + 1
    /\ msOwners' = [msOwners EXCEPT ![o].at = "gone",
                                    ![o].ready = IF msOwners[o].cancel THEN "cancelled" ELSE "failed"]
    /\ MsOwnerOnly

MsOwnerEnds(o) ==
    /\ msOwners[o].at = "open" /\ (msOwners[o].close \/ msOwners[o].cancel)
    /\ msOwners' = [msOwners EXCEPT ![o].at = "gone"]
    /\ MsOwnerOnly /\ UNCHANGED msFaults

(* The connection is lost; the task does not notice. *)
MsConnectionLost(o) ==
    /\ msOwners[o].at = "open" /\ ~msOwners[o].broken
    /\ msFaults < MsMaxFaults /\ msFaults' = msFaults + 1
    /\ msOwners' = [msOwners EXCEPT ![o].broken = TRUE]
    /\ MsOwnerOnly

--------------------
(* The pool. *)

MsEntriesOf(scope) == {n \in DOMAIN msEntries : msOwners[msEntries[n]].scope = scope}

MsRegistered == {msEntries[n] : n \in DOMAIN msEntries}

(* The entry of a scope, and the entries without it: _entries is a
   dictionary, so there is one at most.  Likewise the task that opens one. *)
MsPlace(scope) == CHOOSE n \in MsEntriesOf(scope) : TRUE
MsEntry(scope) == IF MsEntriesOf(scope) = {} THEN <<>> ELSE <<msEntries[MsPlace(scope)]>>
MsWithout(scope) ==
    IF MsEntriesOf(scope) = {} THEN msEntries ELSE RemoveAt(msEntries, MsPlace(scope))

MsFlying(scope) == IF msInflight[scope] = 0 THEN <<>> ELSE <<msInflight[scope]>>

(* has_session *)
MsHasSession(scope) == \E n \in MsEntriesOf(scope) : ~MsGone(msEntries[n])

MsIdle == [at |-> "idle", scope |-> MsNobody, op |-> "none", owner |-> 0, drain |-> <<>>,
           cancel |-> {}, then |-> "idle", late |-> FALSE]

(* A call that is over leaves; a discovery wakes the catalog first. *)
MsAt(rec, at) ==
    IF rec.op # "catalog" /\ at \in {"failed", "timeout", "cancelled"} THEN MsIdle
    ELSE [rec EXCEPT !.at = at]

MsGo(c, at) == msCaller' = [msCaller EXCEPT ![c] = MsAt(@, at)]

(* _shutdown_owner of one owner after the other: the event is set, and a
   task that is still opening cancelled, before the caller waits. *)
MsDraining(rec, drain, cancel, then) ==
    IF drain = <<>> THEN MsAt(rec, then)
    ELSE [rec EXCEPT !.at = "drain", !.drain = drain, !.cancel = cancel, !.then = then]

MsClosing(owners, drain, cancel) ==
    IF drain = <<>> THEN owners
    ELSE [owners EXCEPT ![Head(drain)].close = TRUE,
                        ![Head(drain)].cancel = @ \/ Head(drain) \in cancel]

MsDrains(c, rec, drain, cancel, then) ==
    /\ msCaller' = [msCaller EXCEPT ![c] = MsDraining(rec, drain, cancel, then)]
    /\ msOwners' = MsClosing(msOwners, drain, cancel)

(* _close_owners goes on to the next one.  After the last one a creator
   forgets its task, a failed call its tools. *)
MsDrainsOn(c, rec) ==
    LET rest == Tail(rec.drain)
        over == rest = <<>> IN
    /\ MsDrains(c, rec, rest, rec.cancel, IF over /\ rec.then = "drop" THEN "failed" ELSE rec.then)
    /\ msInflight' = [s \in MsScopes |->
                        IF over /\ s = rec.scope /\ rec.then \in {"failed", "timeout", "cancelled"}
                           /\ msInflight[s] = rec.owner
                        THEN 0 ELSE msInflight[s]]
    /\ msTools' = [s \in MsScopes |-> IF over /\ s = rec.scope /\ rec.then = "drop" THEN 0
                                      ELSE msTools[s]]
    /\ UNCHANGED <<msEntries, msManager, msClosed, msFaults>>

(* _wait_owner: the task has ended. *)
MsWaited(c) ==
    /\ msCaller[c].at = "drain" /\ MsGone(Head(msCaller[c].drain))
    /\ MsDrainsOn(c, msCaller[c])

(* It also returns when the time limit of the request strikes meanwhile: it
   swallows that cancellation, and the request goes on without a limit. *)
MsHurried(c) ==
    LET me == msCaller[c] IN
    /\ me.at = "drain" /\ me.op # "close" /\ ~me.late /\ ~MsGone(Head(me.drain))
    /\ MsDrainsOn(c, [me EXCEPT !.late = TRUE,
                                !.then = IF @ = "cancelled" THEN "timeout" ELSE @])

(* get_session, under the lock: the entry, the task to join, or a new one. *)
MsGetSession(c, rec) ==
    LET s == rec.scope
        entry == MsEntry(s)
        live == entry # <<>> /\ ~MsGone(Head(entry))
        joins == msInflight[s] # 0 /\ ~MsGone(msInflight[s])
        stale == IF joins THEN entry ELSE entry \o MsFlying(s)
        pending == {o \in DOMAIN msOwners : msOwners[o].ready = "pending"}
        new == Len(msOwners) + 1 IN
    \/ /\ msClosed
       /\ msCaller' = [msCaller EXCEPT ![c] = MsAt(rec, "failed")]
       /\ UNCHANGED msPool
    \/ /\ ~msClosed /\ live
       /\ msEntries' = Append(MsWithout(s), Head(entry))
       /\ msCaller' = [msCaller EXCEPT ![c] = [rec EXCEPT !.at = "load", !.owner = Head(entry)]]
       /\ UNCHANGED <<msOwners, msInflight>>
    \/ /\ ~msClosed /\ ~live
       /\ msEntries' = MsWithout(s)
       /\ msCaller' = [msCaller EXCEPT ![c] =
            MsDraining([rec EXCEPT !.owner = IF joins THEN msInflight[s] ELSE new], stale, pending,
                       IF joins THEN "join" ELSE "wait")]
       /\ msOwners' = MsClosing(IF joins THEN msOwners ELSE Append(msOwners, MsNewOwner(s)),
                                stale, pending)
       /\ msInflight' = IF joins THEN msInflight ELSE [msInflight EXCEPT ![s] = new]

(* The first entries make room for one more. *)
MsOverflow == IF Len(msEntries) >= MsMaxSessions THEN Len(msEntries) + 1 - MsMaxSessions ELSE 0

MsStillCurrent(s, o) == msInflight[s] = o /\ ~msClosed

(* The task is ready: the creator registers it, unless it was closed. *)
MsRegister(c) ==
    LET o == msCaller[c].owner
        s == msCaller[c].scope IN
    /\ msCaller[c].at = "wait" /\ msOwners[o].ready = "result"
    /\ IF MsStillCurrent(s, o)
       THEN /\ msInflight' = [msInflight EXCEPT ![s] = 0]
            /\ msEntries' = Append(SubSeq(msEntries, MsOverflow + 1, Len(msEntries)), o)
            /\ MsDrains(c, msCaller[c], SubSeq(msEntries, 1, MsOverflow), {}, "load")
       ELSE /\ UNCHANGED <<msInflight, msEntries>>
            /\ MsDrains(c, msCaller[c], <<o>>, {}, "cancelled")
    /\ UNCHANGED <<msTools, msManager, msClosed, msFaults>>

(* Mutant: a creator that is cancelled forgets its task without closing it. *)
MsAbandonOnly(c, then) ==
    /\ msCaller[c].at = "wait"
    /\ MsGo(c, then)
    /\ msInflight' = [msInflight EXCEPT ![msCaller[c].scope] = IF @ = msCaller[c].owner THEN 0 ELSE @]
    /\ UNCHANGED <<msOwners, msEntries, msTools, msManager, msClosed, msFaults>>

(* The task failed, or the creator is cancelled: its own task goes too. *)
MsAbandon(c, then) ==
    LET o == msCaller[c].owner IN
    /\ msCaller[c].at = "wait"
    /\ MsDrains(c, [msCaller[c] EXCEPT !.late = @ \/ then = "timeout"], <<o>>, {o}, then)
    /\ UNCHANGED <<msEntries, msInflight, msTools, msManager, msClosed, msFaults>>

MsNotReady(c) ==
    /\ msCaller[c].at = "wait"
    /\ msOwners[msCaller[c].owner].ready \in {"failed", "cancelled"}
    /\ MsAbandon(c, msOwners[msCaller[c].owner].ready)

MsJoined(c) ==
    LET ready == msOwners[msCaller[c].owner].ready IN
    /\ msCaller[c].at = "join" /\ ready # "pending"
    /\ MsGo(c, IF ready = "result" THEN "load" ELSE ready)
    /\ UNCHANGED <<msPool, msTools, msManager, msClosed, msFaults>>

--------------------
(* The transport and the manager. *)

MsUsable(o) == msOwners[o].at = "open" /\ ~msOwners[o].broken

(* discover: the tools of the session, by the session's answer. *)
MsLoaded(c) ==
    LET o == msCaller[c].owner  s == msCaller[c].scope IN
    /\ msCaller[c].at = "load"
    /\ IF MsUsable(o)
       THEN msTools' = [msTools EXCEPT ![s] = o] /\ MsGo(c, IF msCaller[c].op = "invoke"
                                                           THEN "call" ELSE "found")
       ELSE UNCHANGED msTools /\ MsGo(c, "failed")
    /\ UNCHANGED <<msPool, msManager, msClosed, msFaults>>

(* Bound: a request that may open a session finds one left to open. *)
MsRoom == Len(msOwners) + Cardinality({c \in MsCallers : msCaller[c].at = "get"}) < MsMaxOwners

(* catalog: a cached one is returned at once, discovery holds the lock. *)
MsCatalog(c, s) ==
    /\ msCaller[c].at = "idle" /\ ~msClosed /\ MsRoom
    /\ msCatalog[s] = "none" /\ msLock[s] = MsNobody
    /\ msLock' = [msLock EXCEPT ![s] = c]
    /\ msCaller' = [msCaller EXCEPT ![c] = [MsIdle EXCEPT !.at = "get", !.scope = s, !.op = "catalog"]]
    /\ UNCHANGED <<msPool, msTools, msCatalog, msWrapped, msClosed, msFaults>>

MsDiscover(c) ==
    /\ msCaller[c].at = "get"
    /\ MsGetSession(c, msCaller[c])
    /\ UNCHANGED <<msTools, msManager, msClosed, msFaults>>

(* A failed or timed out server is cached like a discovered one; only a
   cancellation is not.  load_tools wraps what was found. *)
MsCatalogEnds(c) ==
    LET s == msCaller[c].scope  at == msCaller[c].at IN
    /\ msCaller[c].op = "catalog" /\ at \in {"found", "failed", "timeout", "cancelled"}
    /\ msCatalog' = [msCatalog EXCEPT ![s] = IF at = "cancelled" THEN @
                                             ELSE IF at = "found" THEN "tools" ELSE "error"]
    /\ msWrapped' = IF at = "found" THEN msWrapped \cup {s} ELSE msWrapped
    /\ msLock' = [msLock EXCEPT ![s] = IF @ = c THEN MsNobody ELSE @]
    /\ msCaller' = [msCaller EXCEPT ![c] = MsIdle]
    /\ UNCHANGED <<msPool, msTools, msClosed, msFaults>>

(* invoke: tools of a session that is gone are discovered again. *)
MsInvoke(c, s) ==
    LET rec == [MsIdle EXCEPT !.scope = s, !.op = "invoke"]
        known == MsHasSession(s) /\ msTools[s] # 0 IN
    /\ msCaller[c].at = "idle" /\ s \in msWrapped
    /\ IF known
       THEN /\ msCaller' = [msCaller EXCEPT ![c] = [rec EXCEPT !.at = "call", !.owner = msTools[s]]]
            /\ UNCHANGED <<msPool, msTools>>
       ELSE /\ MsRoom /\ MsGetSession(c, rec)
            /\ msTools' = IF MsHasSession(s) THEN msTools ELSE [msTools EXCEPT ![s] = 0]
    /\ UNCHANGED <<msManager, msClosed, msFaults>>

(* The tool answers, or the connection fails: close_session takes whatever
   the key holds by now, and then the tools are dropped. *)
MsAnswered(c) ==
    LET s == msCaller[c].scope
        drain == MsEntry(s) \o MsFlying(s) IN
    /\ msCaller[c].at = "call"
    /\ IF MsUsable(msCaller[c].owner)
       THEN /\ msCaller' = [msCaller EXCEPT ![c] = MsIdle]
            /\ UNCHANGED <<msPool, msTools>>
       ELSE /\ msEntries' = MsWithout(s)
            /\ msInflight' = [msInflight EXCEPT ![s] = 0]
            /\ MsDrains(c, msCaller[c], drain, {msInflight[s]}, IF drain = <<>> THEN "failed" ELSE "drop")
            /\ msTools' = IF drain = <<>> THEN [msTools EXCEPT ![s] = 0] ELSE msTools
    /\ UNCHANGED <<msManager, msClosed, msFaults>>

(* Mutant: the time limit covers the tool call, not the connection. *)
MsCallTimeout(c) ==
    /\ ~msCaller[c].late /\ msCaller[c].at \in {"load", "call"}
    /\ MsGo(c, "timeout")
    /\ UNCHANGED <<msPool, msTools, msManager, msClosed, msFaults>>

(* wait_for cancels the request where it waits: a creator closes its task,
   a joiner leaves it, a loaded session stays in the pool. *)
MsTimeout(c) ==
    /\ ~msCaller[c].late
    /\ \/ MsAbandon(c, "timeout")
       \/ /\ msCaller[c].at \in {"join", "load", "call"}
          /\ MsGo(c, "timeout")
          /\ UNCHANGED <<msPool, msTools, msManager, msClosed, msFaults>>

(* close_scope and aclose: what is registered is closed, what is opening
   cancelled. *)
MsCloseAll(c, scopes, entries, others, flying) ==
    LET opening == {msInflight[s] : s \in scopes} IN
    /\ msCaller[c].at = "idle"
    /\ msCatalog' = [s \in MsScopes |-> IF s \in scopes THEN "none" ELSE msCatalog[s]]
    /\ msTools' = [s \in MsScopes |-> IF s \in scopes THEN 0 ELSE msTools[s]]
    /\ msInflight' = [s \in MsScopes |-> IF s \in scopes THEN 0 ELSE msInflight[s]]
    /\ msEntries' = others
    /\ MsDrains(c, [MsIdle EXCEPT !.op = "close"], entries \o flying, opening, "failed")
    /\ UNCHANGED <<msLock, msWrapped, msFaults>>

(* Archiving a chat closes its scope. *)
MsCloseScope(c, s) ==
    /\ MsEntriesOf(s) # {} \/ msInflight[s] # 0
    /\ MsCloseAll(c, {s}, MsEntry(s), MsWithout(s), MsFlying(s))
    /\ UNCHANGED msClosed

(* The application shuts down; what is opening has some order. *)
MsClose(c) ==
    LET opening == {msInflight[s] : s \in MsScopes} \ {0} IN
    /\ ~msClosed
    /\ \E flying \in [1..Cardinality(opening) -> opening] :
          /\ opening \subseteq {flying[n] : n \in DOMAIN flying}
          /\ MsCloseAll(c, MsScopes, msEntries, <<>>, flying)
    /\ msClosed' = TRUE

--------------------
MsInit ==
    /\ msOwners = <<>>
    /\ msEntries = <<>>
    /\ msInflight = [s \in MsScopes |-> 0]
    /\ msTools = [s \in MsScopes |-> 0]
    /\ msCatalog = [s \in MsScopes |-> "none"]
    /\ msLock = [s \in MsScopes |-> MsNobody]
    /\ msWrapped = {}
    /\ msCaller = [c \in MsCallers |-> MsIdle]
    /\ msClosed = FALSE
    /\ msFaults = 0

MsOwnerSteps ==
    \E o \in DOMAIN msOwners :
        MsOwnerBegins(o) \/ MsOwnerReady(o) \/ MsOwnerFails(o) \/ MsOwnerEnds(o)

MsCallerSteps(c) ==
    \/ MsWaited(c) \/ MsHurried(c) \/ MsDiscover(c) \/ MsRegister(c) \/ MsNotReady(c) \/ MsJoined(c)
    \/ MsLoaded(c) \/ MsCatalogEnds(c) \/ MsAnswered(c) \/ MsTimeout(c)

MsNext ==
    \/ MsOwnerSteps
    \/ \E o \in DOMAIN msOwners : MsConnectionLost(o)
    \/ \E c \in MsCallers :
        \/ MsCallerSteps(c) \/ MsClose(c)
        \/ \E s \in MsScopes : MsCatalog(c, s) \/ MsInvoke(c, s) \/ MsCloseScope(c, s)

(* The event loop runs every task that can run, every call of a server is
   answered or fails, and every wait of a request has its time limit until
   that has been swallowed. *)
MsSpec == MsInit /\ [][MsNext]_msVars
          /\ WF_msVars(MsOwnerSteps)
          /\ \A c \in MsCallers : WF_msVars(MsCallerSteps(c))

MsTypeOK ==
    /\ \A n \in DOMAIN msEntries : msEntries[n] \in DOMAIN msOwners
    /\ \A s \in MsScopes : msInflight[s] \in 0..Len(msOwners) /\ msTools[s] \in 0..Len(msOwners)
    /\ msWrapped \subseteq MsScopes
    /\ \A o \in DOMAIN msOwners : msOwners[o].at \in {"new", "opening", "open", "gone"}

(* No connection is left behind: when no request is under way, every task
   that has not ended is registered in the pool, so that a close finds it,
   or has been told to end. *)
MsNothingLeaks ==
    (\A c \in MsCallers : msCaller[c].at = "idle")
        => \A o \in DOMAIN msOwners : MsGone(o) \/ msOwners[o].close \/ o \in MsRegistered

(* The pool never holds more sessions than its limit. *)
MsBounded == Len(msEntries) <= MsMaxSessions

(* Every session is accounted for, within the limit. *)
MsSessionsHold == MsNothingLeaks /\ MsBounded

(* Every request ends: whoever closes, cancels or evicts, and although a
   task cancelled before its first step never answers, no request waits for
   ever. *)
MsRequestsEnd == \A c \in MsCallers : msCaller[c].at # "idle" ~> msCaller[c].at = "idle"
====
