---- MODULE SessionRuntimes ----
(* One coding session as the HTTP and WebSocket handlers see it
   (api/coding.py, core/coding/runtime.py, session_store.py,
   provider_settings.py): the session's JSON file, the canonical
   transcript, and the runtimes in memory.  coding_sessions holds one
   runtime; a socket keeps the runtime it found when it connected, a
   handler keeps the one it found before an await, and a runtime that was
   replaced goes on living as long as one of them, or its run, needs it.
   A message, and the answer that takes a kept run up again, are accepted
   some awaits before their run is the session's.
   Every save writes the whole in-memory session over the file.
   Titles, pins and archive flags are one number, messages are numbered
   turns, and the account a request carries is a user or nobody.
   Compaction and tool execution have modules of their own. *)
EXTENDS Naturals, FiniteSets, Sequences, SequencesExt

CONSTANTS
    SrTabs,         \* browser tabs on this session
    SrNobody,       \* no account
    SrUser,         \* the account the requests carry
    SrDocs,         \* settings documents that are submitted
    SrPermissions,  \* permission modes
    SrMaxRuntimes,  \* bound: runtimes built
    SrMaxTurns,     \* bound: turns
    SrMaxEdits      \* bound: requests that change the session or the settings, and restarts

VARIABLES
    srFile,         \* sessions/<id>.json
    srTranscript,   \* turns in the transcript store
    srMem,          \* every runtime built since the process started
    srCurrent,      \* coding_sessions[id]: an index of srMem, or 0
    srTab,          \* what each tab is doing
    srSwitch,       \* the runtime a model switch waits with, or 0
    srWay,          \* accepted messages (turn 0) and answers whose run has not begun
    srRun,          \* the session's run: its lease and its runtime
    srCrossed,      \* history: a run has begun that a resumption overlapped
    srSettings,     \* the settings in force: app.state.coding_provider_settings
    srEdits

srVars == <<srFile, srTranscript, srMem, srCurrent, srTab, srSwitch, srWay, srRun, srCrossed,
            srSettings, srEdits>>
srRunVars == <<srWay, srRun, srCrossed>>

\* A run that is "kept" waits for its approval in the journal, without a lease.
NoRun == [rt |-> 0, at |-> "none"]
KeptRun == [rt |-> 0, at |-> "kept"]
SrRunAt == {"none", "begun", "running", "waiting", "answered", "kept"}

--------------------
(* provider_settings.py: a document is a default model and a sequence of
   providers [id, api, models]; a model is [id, of, window, reserve, kind,
   modes], where "of" is the provider its id is prefixed with and a window
   of 0 an undeclared one. *)

ModelIn(doc) == UNION {ToSet(p.models) : p \in ToSet(doc.providers)}

ReasoningFits(m, api) ==
    \/ m.kind = "unsupported" /\ m.modes = {}
    \/ m.kind = "openai_reasoning_effort" /\ api = "openai_chat_completions"
       /\ m.modes # {}
    \/ m.kind = "anthropic_thinking_budget" /\ api = "anthropic_messages"
       /\ m.modes # {}

ParseModel(m, p) ==
    /\ m.of = p.id
    /\ (m.window = 0) = (m.reserve = 0)
    /\ m.window # 0 => m.reserve < m.window
    /\ ReasoningFits(m, p.api)

ParseProvider(p) ==
    /\ p.models # <<>>
    /\ \A m \in ToSet(p.models) : ParseModel(m, p)

Ids(s) == [i \in DOMAIN s |-> s[i].id]

FromMapping(doc) ==
    LET all == FlattenSeq([i \in DOMAIN doc.providers |-> doc.providers[i].models]) IN
    /\ doc.providers # <<>>
    /\ IsInjective(Ids(doc.providers))
    /\ IsInjective(Ids(all))
    /\ \A p \in ToSet(doc.providers) : ParseProvider(p)
    /\ doc.default \in ToSet(Ids(all))

Catalog(doc) == {m.id : m \in ModelIn(doc)}

ReasoningModes(doc) ==
    [id \in Catalog(doc) |-> (CHOOSE m \in ModelIn(doc) : m.id = id).modes]

ModesFor(modes, model) == IF model \in DOMAIN modes THEN modes[model] ELSE {}

ResolveReasoning(modes, model, mode) ==
    IF mode \in ModesFor(modes, model) THEN mode ELSE "off"

--------------------
(* session_store.py and the state a runtime keeps. *)

NoFile == [exists |-> FALSE, turns |-> <<>>, meta |-> 0, model |-> "", reasoning |-> "off",
           permission |-> "default", owner |-> SrNobody]

Away == [at |-> "away", rt |-> 0, loaded |-> NoFile]

(* _save_session: _sync_session_state copies the runtime over the session
   it was built from; an owner is written only when the runtime has one. *)
SyncSessionState(r) ==
    [exists |-> TRUE, turns |-> r.turns, meta |-> r.meta, model |-> r.model,
     reasoning |-> r.reasoning, permission |-> r.permission, owner |-> r.owner]

SaveSession(r) == srFile' = SyncSessionState(r)

(* _backfill_transcript: the transcript wins over the file when it has rows. *)
Backfill(file) == IF srTranscript # <<>> THEN srTranscript ELSE file.turns

(* CodingRuntime.__init__ from a loaded session. *)
Runtime(file, model, modes, owner) ==
    [turns |-> Backfill(file), meta |-> file.meta, model |-> model, modes |-> modes,
     reasoning |-> ResolveReasoning(modes, model, file.reasoning),
     permission |-> file.permission,
     owner |-> IF file.owner # SrNobody THEN file.owner ELSE owner,
     queue |-> {}]

Built(r) == srMem' = Append(srMem, r)

CanBuild == Len(srMem) < SrMaxRuntimes

Accounts == {SrNobody, SrUser}

--------------------
(* The router's dependency: the owner in memory, or else in the file, must
   be the requester. *)
OwnerOf == IF srCurrent # 0 /\ srMem[srCurrent].owner # SrNobody
           THEN srMem[srCurrent].owner ELSE srFile.owner

EnforceOwner(user) == OwnerOf \in {SrNobody, user}

RequireRuntime == srCurrent # 0

\* The coordinator's and the runtime's active run; a run that has only begun
\* is not yet either's.
OperationBusy == srRun.at \in {"running", "waiting", "answered"}

--------------------
(* POST /session: a new id, so it happens once here. *)
SrCreate(t) ==
    \E user \in Accounts :
        LET r == Runtime(NoFile, srSettings.default, ReasoningModes(srSettings), user) IN
        /\ ~srFile.exists
        /\ srTab[t].at = "away"
        /\ CanBuild
        /\ Built(r)
        /\ SaveSession(r)
        /\ srCurrent' = Len(srMem) + 1
        /\ srTab' = [srTab EXCEPT ![t].at = "ready"]
        /\ UNCHANGED <<srTranscript, srRunVars, srSettings, srEdits, srSwitch>>

(* Mutant: a resume does not ask for an active run. *)
AlwaysFree == TRUE

NoActiveRun == srRun.rt = 0

(* POST /resume, to its await: a run that has begun keeps its runtime (and a
   process that has none answers 409: the tab may ask again). *)
SrResumeLoad(t) ==
    /\ srTab[t].at = "away"
    /\ srFile.exists
    /\ EnforceOwner(SrUser)
    /\ IF NoActiveRun
       THEN srTab' = [srTab EXCEPT ![t] = [at |-> "resuming", rt |-> 0, loaded |-> srFile]]
       ELSE /\ RequireRuntime
            /\ srTab' = [srTab EXCEPT ![t].at = "ready"]
    /\ UNCHANGED <<srFile, srTranscript, srMem, srCurrent, srRunVars, srSettings, srEdits,
                   srSwitch>>

Turn == Len(srTranscript)

(* recoverable_approval: the last approval of an unfinished run that has no
   tool result, once it is in the journal. *)
Recoverable ==
    IF srRun.at = "kept" THEN {{Turn}}
    ELSE IF srRun.at \in {"waiting", "answered"} THEN {{}, {Turn}} ELSE {{}}

(* After load_account_model_context: build from what was loaded, install, and
   restore_pending; nobody looks for a run again. *)
SrResumeInstall(t) ==
    LET loaded == srTab[t].loaded
        r == Runtime(loaded, loaded.model, ReasoningModes(srSettings), SrNobody) IN
    /\ srTab[t].at = "resuming"
    /\ loaded.model \in Catalog(srSettings)
    /\ CanBuild
    /\ \E pending \in Recoverable : Built([r EXCEPT !.queue = pending])
    /\ srCurrent' = Len(srMem) + 1
    /\ srTab' = [srTab EXCEPT ![t] = [Away EXCEPT !.at = "ready"]]
    /\ srCrossed' = (srCrossed /\ srRun.rt # 0)
    /\ UNCHANGED <<srFile, srTranscript, srWay, srRun, srSettings, srEdits, srSwitch>>

(* A model that left the catalog refuses the resume. *)
SrResumeRefused(t) ==
    /\ srTab[t].at = "resuming"
    /\ srTab[t].loaded.model \notin Catalog(srSettings)
    /\ srTab' = [srTab EXCEPT ![t] = Away]
    /\ UNCHANGED <<srFile, srTranscript, srMem, srCurrent, srRunVars, srSettings, srEdits,
                   srSwitch>>

(* The socket keeps the runtime it found. *)
SrConnect(t) ==
    /\ srTab[t].at = "ready"
    /\ RequireRuntime
    /\ srTab' = [srTab EXCEPT ![t] = [at |-> "connected", rt |-> srCurrent,
                                      loaded |-> NoFile]]
    /\ UNCHANGED <<srFile, srTranscript, srMem, srCurrent, srRunVars, srSettings, srEdits,
                   srSwitch>>

(* The tab is reloaded: its socket closes; the run goes on. *)
SrReload(t) ==
    /\ srTab[t].at \in {"ready", "connected"}
    /\ srTab' = [srTab EXCEPT ![t] = Away]
    /\ UNCHANGED <<srFile, srTranscript, srMem, srCurrent, srRunVars, srSettings, srEdits,
                   srSwitch>>

--------------------
(* A message on the socket is for the socket's runtime.  Until start_run has
   its lease there are the surface context, the state lock and two threads to
   wait for; it may then be rejected (the session has a run, or one that is
   kept), or be dropped with its socket. *)
SrSend(t) ==
    /\ srTab[t].at = "connected"
    /\ Len(srTranscript) < SrMaxTurns
    /\ srWay' = srWay \cup {[rt |-> srTab[t].rt, turn |-> 0]}
    /\ UNCHANGED <<srFile, srTranscript, srMem, srCurrent, srTab, srRun, srCrossed, srSettings,
                   srEdits, srSwitch>>

(* A run takes the lease on a runtime that is not the registered one, or that
   a resumption under way will replace. *)
Crosses(rt) == srCrossed \/ rt # srCurrent \/ \E t \in SrTabs : srTab[t].at = "resuming"

(* begin_run, in start_run. *)
SrBegin ==
    /\ srRun.at = "none"
    /\ \E m \in srWay :
         /\ m.turn = 0
         /\ srWay' = srWay \ {m}
         /\ srRun' = [rt |-> m.rt, at |-> "begun"]
         /\ srCrossed' = Crosses(m.rt)
    /\ UNCHANGED <<srFile, srTranscript, srMem, srCurrent, srTab, srSettings, srEdits, srSwitch>>

SrRejected ==
    /\ \E m \in srWay : m.turn = 0 /\ srWay' = srWay \ {m}
    /\ UNCHANGED <<srFile, srTranscript, srMem, srCurrent, srTab, srRun, srCrossed, srSettings,
                   srEdits, srSwitch>>

TurnBegins(r) == [r EXCEPT !.turns = Append(@, Len(srTranscript) + 1)]

(* The run's task starts on its runtime. *)
SrRunStarts ==
    LET r == TurnBegins(srMem[srRun.rt]) IN
    /\ srRun.at = "begun"
    /\ Len(srTranscript) < SrMaxTurns
    /\ srTranscript' = Append(srTranscript, Len(srTranscript) + 1)
    /\ srMem' = [srMem EXCEPT ![srRun.rt] = r]
    /\ SaveSession(r)
    /\ srRun' = [srRun EXCEPT !.at = "running"]
    /\ UNCHANGED <<srCurrent, srTab, srWay, srCrossed, srSettings, srEdits, srSwitch>>

(* The socket closed while its run was being begun: it ends as cancelled. *)
SrBeginCancelled ==
    /\ srRun.at = "begun"
    /\ \A t \in SrTabs : srTab[t].at = "connected" => srTab[t].rt # srRun.rt
    /\ srRun' = NoRun
    /\ UNCHANGED <<srFile, srTranscript, srMem, srCurrent, srTab, srWay, srCrossed, srSettings,
                   srEdits, srSwitch>>

SrAsk ==
    /\ srRun.at = "running"
    /\ Turn \notin srMem[srRun.rt].queue
    /\ srRun' = [srRun EXCEPT !.at = "waiting"]
    /\ srMem' = [srMem EXCEPT ![srRun.rt].queue = @ \cup {Turn}]
    /\ UNCHANGED <<srFile, srTranscript, srCurrent, srTab, srWay, srCrossed, srSettings, srEdits,
                   srSwitch>>

(* Approvals are looked for in the registered runtime. *)
PendingApprovals == IF RequireRuntime THEN srMem[srCurrent].queue ELSE {}

(* An answer wakes the run that waits for it; one to a kept run is on its way
   to start_existing_run; an entry whose waiter gave up is only removed. *)
SrRespond ==
    \E turn \in PendingApprovals :
        /\ srMem' = [srMem EXCEPT ![srCurrent].queue = @ \ {turn}]
        /\ srRun' = IF srRun = [rt |-> srCurrent, at |-> "waiting"] /\ turn = Turn
                    THEN [srRun EXCEPT !.at = "answered"] ELSE srRun
        /\ srWay' = IF srRun.at = "kept" /\ turn = Turn
                    THEN srWay \cup {[rt |-> srCurrent, turn |-> turn]} ELSE srWay
        /\ UNCHANGED <<srFile, srTranscript, srCurrent, srTab, srCrossed, srSettings, srEdits,
                       srSwitch>>

(* start_existing_run goes on with the kept run on the runtime that was asked.
   When it cannot, because the run has been taken up or has ended, or for a
   fault, the approval is pending there again unless the run is active. *)
SrReopen ==
    /\ srRun.at = "kept"
    /\ \E m \in srWay :
         /\ m.turn = Turn
         /\ srWay' = srWay \ {m}
         /\ srRun' = [rt |-> m.rt, at |-> "running"]
         /\ srCrossed' = Crosses(m.rt)
    /\ UNCHANGED <<srFile, srTranscript, srMem, srCurrent, srTab, srSettings, srEdits, srSwitch>>

SrReopenFails ==
    /\ \E m \in srWay :
         /\ m.turn # 0
         /\ srWay' = srWay \ {m}
         /\ srMem' = IF srRun.rt # 0 THEN srMem
                     ELSE [srMem EXCEPT ![m.rt].queue = @ \cup {m.turn}]
    /\ UNCHANGED <<srFile, srTranscript, srCurrent, srTab, srRun, srCrossed, srSettings, srEdits,
                   srSwitch>>

(* Nobody answers in time: the run goes on, refused, and its entry stays. *)
SrApprovalTimeout ==
    /\ srRun.at = "waiting"
    /\ srRun' = [srRun EXCEPT !.at = "answered"]
    /\ UNCHANGED <<srFile, srTranscript, srMem, srCurrent, srTab, srWay, srCrossed, srSettings,
                   srEdits, srSwitch>>

(* The result of the tool that was asked for is in the journal. *)
SrToolEnds ==
    /\ srRun.at = "answered"
    /\ srRun' = [srRun EXCEPT !.at = "running"]
    /\ UNCHANGED <<srFile, srTranscript, srMem, srCurrent, srTab, srWay, srCrossed, srSettings,
                   srEdits, srSwitch>>

SrFinish ==
    /\ srRun.at = "running"
    /\ srRun' = NoRun
    /\ SaveSession(srMem[srRun.rt])
    /\ UNCHANGED <<srTranscript, srMem, srCurrent, srTab, srWay, srCrossed, srSettings, srEdits,
                   srSwitch>>

--------------------
(* The handlers that change the session. *)

\* Another request that counts against the bound.
SrEdit == srEdits < SrMaxEdits /\ srEdits' = srEdits + 1

(* PATCH /metadata changes the file alone. *)
SrRename ==
    /\ srFile.exists
    /\ SrEdit
    /\ srFile' = [srFile EXCEPT !.meta = srEdits']
    /\ UNCHANGED <<srTranscript, srMem, srCurrent, srTab, srRunVars, srSettings, srSwitch>>

BindOwner(r, user) == IF r.owner = SrNobody THEN [r EXCEPT !.owner = user] ELSE r

MayBind(r, user) == user = SrNobody \/ r.owner \in {SrNobody, user}

SwitchModel(r, model) ==
    [r EXCEPT !.model = model, !.modes = ReasoningModes(srSettings),
              !.reasoning = ResolveReasoning(ReasoningModes(srSettings), model, r.reasoning)]

(* PATCH /model takes the registered runtime, then awaits the account. *)
SrSwitchAsked ==
    /\ RequireRuntime
    /\ EnforceOwner(SrUser)
    /\ srSwitch = 0
    /\ SrEdit
    /\ srSwitch' = srCurrent
    /\ UNCHANGED <<srFile, srTranscript, srMem, srCurrent, srTab, srRunVars, srSettings>>

(* The account is bound, and saved, before the request can still be refused
   (an unknown model, a run under way). *)
SrSwitchModel ==
    /\ srSwitch # 0
    /\ \E user \in Accounts, model \in Catalog(srSettings) \cup {"unknown"} :
        LET bound == BindOwner(srMem[srSwitch], user)
            switches == model \in Catalog(srSettings) /\ ~OperationBusy
            done == IF switches THEN SwitchModel(bound, model) ELSE bound IN
        /\ MayBind(srMem[srSwitch], user)
        /\ srMem' = [srMem EXCEPT ![srSwitch] = done]
        /\ IF switches \/ bound # srMem[srSwitch] THEN SaveSession(done) ELSE UNCHANGED srFile
    /\ srSwitch' = 0
    /\ UNCHANGED <<srTranscript, srCurrent, srTab, srRunVars, srSettings, srEdits>>

SrSwitchReasoning ==
    /\ RequireRuntime
    /\ \E mode \in {"off"} \cup ModesFor(srMem[srCurrent].modes, srMem[srCurrent].model) :
        LET done == [srMem[srCurrent] EXCEPT !.reasoning = mode] IN
        /\ ~OperationBusy
        /\ mode # srMem[srCurrent].reasoning
        /\ srMem' = [srMem EXCEPT ![srCurrent] = done]
        /\ SaveSession(done)
        /\ SrEdit
        /\ UNCHANGED <<srTranscript, srCurrent, srTab, srRunVars, srSettings, srSwitch>>

(* PATCH /permission-mode asks nothing of the run. *)
SrSetPermission ==
    /\ RequireRuntime
    /\ \E mode \in SrPermissions :
        LET done == [srMem[srCurrent] EXCEPT !.permission = mode] IN
        /\ mode # srMem[srCurrent].permission
        /\ srMem' = [srMem EXCEPT ![srCurrent] = done]
        /\ SaveSession(done)
        /\ SrEdit
        /\ UNCHANGED <<srTranscript, srCurrent, srTab, srRunVars, srSettings, srSwitch>>

(* PUT /providers: a valid document replaces the settings; the registered
   runtime learns of it unless it is busy. *)
RefreshRegistry(doc) ==
    srMem' = IF srCurrent # 0 /\ ~(srRun.rt = srCurrent /\ OperationBusy)
             THEN [srMem EXCEPT ![srCurrent].modes = ReasoningModes(doc)] ELSE srMem

SrPutSettings ==
    \E doc \in SrDocs \ {srSettings} :
        /\ FromMapping(doc)
        /\ SrEdit
        /\ srSettings' = doc
        /\ RefreshRegistry(doc)
        /\ UNCHANGED <<srFile, srTranscript, srCurrent, srTab, srRunVars, srSwitch>>

(* The process restarts: the memory is gone, and the first hydration of the
   session ends its run, but keeps a graph run whose approval is in the journal
   without a result; the settings are read from their file again. *)
SrRestart ==
    /\ srMem # <<>>
    /\ SrEdit
    /\ srMem' = <<>>
    /\ srCurrent' = 0
    /\ srRun' \in CASE srRun.at = "kept" -> {KeptRun}
                   [] srRun.at \in {"waiting", "answered"} -> {NoRun, KeptRun}
                   [] OTHER -> {NoRun}
    /\ srWay' = {}
    /\ srCrossed' = FALSE
    /\ srSwitch' = 0
    /\ srTab' = [t \in SrTabs |-> Away]
    /\ UNCHANGED <<srFile, srTranscript, srSettings>>

--------------------
SrInit ==
    /\ srFile = NoFile
    /\ srTranscript = <<>>
    /\ srMem = <<>>
    /\ srCurrent = 0
    /\ srTab = [t \in SrTabs |-> Away]
    /\ srRun = NoRun /\ srWay = {} /\ srCrossed = FALSE
    /\ srSwitch = 0
    /\ srSettings \in {doc \in SrDocs : FromMapping(doc)}
    /\ srEdits = 0

SrNext ==
    \/ \E t \in SrTabs : \/ SrCreate(t) \/ SrResumeLoad(t) \/ SrResumeInstall(t)
                         \/ SrResumeRefused(t) \/ SrConnect(t) \/ SrReload(t) \/ SrSend(t)
    \/ SrBegin \/ SrRejected \/ SrRunStarts \/ SrBeginCancelled
    \/ SrAsk \/ SrRespond \/ SrReopen \/ SrReopenFails
    \/ SrApprovalTimeout \/ SrToolEnds \/ SrFinish
    \/ SrRename \/ SrSwitchAsked \/ SrSwitchModel \/ SrSwitchReasoning
    \/ SrSetPermission \/ SrPutSettings \/ SrRestart

SrSpec == SrInit /\ [][SrNext]_srVars

SrTypeOK ==
    /\ srCurrent \in 0..Len(srMem)
    /\ srRun.rt \in 0..Len(srMem)
    /\ srSwitch \in 0..Len(srMem)
    /\ srRun.at \in SrRunAt
    /\ srCrossed \in BOOLEAN
    /\ \A m \in srWay : m.rt \in 0..Len(srMem)
    /\ \A t \in SrTabs : /\ srTab[t].rt \in 0..Len(srMem)
                         /\ srTab[t].at \in {"away", "resuming", "ready", "connected"}

(* The user can answer the approval a run waits for: the runtime that holds it
   is the registered one (resume leaves an active run's runtime alone), and a
   run that a restart has kept is asked about by whichever runtime is built
   next, until it is answered (recoverable_approval, restore_pending). *)
SrApprovalReachable ==
    /\ srRun.at = "waiting" => srRun.rt = srCurrent /\ Turn \in PendingApprovals
    /\ srRun.at = "kept" /\ RequireRuntime /\ (\A m \in srWay : m.turn = 0) =>
         Turn \in PendingApprovals

(* Between turns the registered runtime knows every turn of the transcript,
   whatever runtimes, reloads and restarts there were and whichever of them
   saved the file last. *)
SrHistoryIsWhole ==
    srCurrent # 0 /\ srRun.rt = 0 => srMem[srCurrent].turns = srTranscript

(* A session stays one conversation, unless a run takes its lease while a
   resumption is under way or for a runtime that has been replaced; and once
   that run is over the next resumption makes it one again. *)
SrOneConversation == ~srCrossed => SrApprovalReachable /\ SrHistoryIsWhole
====
