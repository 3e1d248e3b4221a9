---- MODULE Capabilities ----
(* Deferred tools of the graph harness: the catalog a run builds from what
   is configured at that moment (capability_adapter.py, tools_adapter.py),
   the search tool that promotes exact schemas (deferred_tools.py,
   capabilities/selection.py), the promotions kept in the checkpoint
   (state.py) and the two filters every tool call passes: promoted for
   this catalog, allowed by the active skill (skills.py).  The calls of
   one model message run on the state before them; their updates are
   merged afterwards, in any order.  A run may be interrupted for an
   approval and resumed by another process, which builds the catalog
   again.  The catalog hash stands for what is hashed. *)
EXTENDS Naturals, Sequences, FiniteSets, SequencesExt

CONSTANTS
    CbTools,        \* deferred tools; a tool's id is also its binding's name
    CbRisky,        \* those that ask for an approval
    CbWorkflow,     \* a skill in the registry: discoverable, not executable
    CbAlias,        \* a name that a tool and the workflow share
    CbAliased,      \* that tool
    CbSkills,       \* skill |-> allowed tools; CbNoSkill allows all
    CbNoSkill,
    CbMaxPromoted,  \* MAX_PROMOTED_TOOLS
    CbMaxVersion,   \* bound: schema changes
    CbMaxRuns,      \* bound: messages
    CbMaxSteps      \* bound: model calls of a run

ASSUME CbAssumption ==
    /\ IsFiniteSet(CbTools) /\ CbRisky \subseteq CbTools /\ CbAliased \in CbTools /\ CbWorkflow \notin CbTools
    /\ CbNoSkill \in DOMAIN CbSkills /\ CbMaxPromoted \in Nat \ {0}

VARIABLES
    cbEnv,          \* tool |-> its schema version, 0 while it is not configured
    cbPromoted,     \* promoted_tools of the checkpoint
    cbRun,          \* the run: its skill, its catalog, where it is
    cbCalls,        \* tool calls of the last message
    cbCount,        \* runs and model calls so far
    cbSelections,   \* history: what was selected under which catalog
    cbExecuted      \* history: what was executed under which catalog

cbVars == <<cbEnv, cbPromoted, cbRun, cbCalls, cbCount, cbSelections, cbExecuted>>

--------------------
(* The catalog. *)

(* resolve_skill_allowed_tools and SkillActivationMiddleware._resolve. *)
CbAllowed(skill) == CbSkills[skill]

(* build_sage_capability_registry and assemble_deferred_tools: the tools
   that are configured, with their schemas, and the skill's allowlist. *)
CbCatalog(skill) ==
    [tools |-> {t \in CbTools : cbEnv[t] # 0},
     schema |-> cbEnv,
     limited |-> skill # CbNoSkill,
     allowed |-> CbAllowed(skill)]

(* The search tool exists when a deferred tool does. *)
CbSearchable(catalog) == catalog.tools # {}

(* Mutant: the hash leaves the schemas out. *)
CbHashNamesOnly(catalog) == <<[tools |-> catalog.tools, allowed |-> catalog.allowed]>>

CbHash(catalog) == <<catalog>>

(* _rejection; "none" is a capability that may be selected. *)
CbRejection(catalog, id) ==
    CASE id \in CbTools /\ id \notin catalog.tools            -> "unavailable"
      [] catalog.limited /\ id \notin catalog.allowed         -> "disallowed"
      [] OTHER                                                -> "none"

(* _candidates: an exact id, or everything of that name. *)
CbCandidates(catalog, identifier) ==
    IF identifier \in catalog.tools \cup {CbWorkflow} THEN {identifier}
    ELSE IF identifier = CbAlias THEN {CbAliased, CbWorkflow} \cap (catalog.tools \cup {CbWorkflow})
    ELSE {}

(* select: unknown and ambiguous identifiers are refused. *)
CbSelect(catalog, identifiers) ==
    {id \in CbTools \cup {CbWorkflow} :
        \E i \in identifiers : /\ CbCandidates(catalog, i) = {id}
                               /\ CbRejection(catalog, id) = "none"}

(* tool_search names only the selected tools that it can execute. *)
CbPromotes(catalog, identifiers) == CbSelect(catalog, identifiers) \cap catalog.tools

--------------------
(* Promotions in the checkpoint. *)

CbNothing == [hash |-> <<>>, ids |-> <<>>]

CbLast(s) == IF Len(s) > CbMaxPromoted THEN SubSeq(s, Len(s) - CbMaxPromoted + 1, Len(s)) ELSE s

(* Mutant: every promotion is appended, again and beyond the limit. *)
CbMergeAll(old, hash, ids) == [hash |-> hash, ids |-> IF old.hash # hash THEN ids ELSE old.ids \o ids]

CbAddNew(ids, i) == IF i \in ToSet(ids) THEN ids ELSE Append(ids, i)

(* merge_promoted_tools: promotions of one catalog are united in order,
   those of another are dropped. *)
CbMerge(old, hash, ids) ==
    [hash |-> hash,
     ids |-> CbLast(IF old.hash # hash THEN ids ELSE FoldLeft(CbAddNew, old.ids, ids))]

(* DeferredToolFilterMiddleware._promoted and _hidden. *)
CbVisible(promoted, catalog) ==
    IF promoted.hash = CbHash(catalog) THEN ToSet(promoted.ids) \cap catalog.tools ELSE {}

(* Both middlewares and the tools of this graph: what a call passes. *)
CbPasses(call) ==
    /\ call.tool \in cbRun.catalog.tools
    /\ call.tool \in CbVisible(cbPromoted, cbRun.catalog)
    /\ cbRun.skill = CbNoSkill \/ call.tool \in CbAllowed(cbRun.skill)

--------------------
CbNoRun == [at |-> "none", skill |-> CbNoSkill, catalog |-> CbCatalog(CbNoSkill), steps |-> 0]

(* A server connects or disconnects, a port is configured, a tool changes. *)
CbChanges(t, v) ==
    /\ v # cbEnv[t]
    /\ v = 0 \/ v >= cbEnv[t]
    /\ cbCount.changes < CbMaxVersion
    /\ cbCount' = [cbCount EXCEPT !.changes = @ + 1]
    /\ cbEnv' = [cbEnv EXCEPT ![t] = v]
    /\ UNCHANGED <<cbPromoted, cbRun, cbCalls, cbSelections, cbExecuted>>

(* A message: the skill it names, the catalog of this moment. *)
CbMessage(skill) ==
    /\ cbRun.at = "none" /\ cbCount.runs < CbMaxRuns
    /\ cbCount' = [cbCount EXCEPT !.runs = @ + 1]
    /\ cbRun' = [at |-> "model", skill |-> skill, catalog |-> CbCatalog(skill), steps |-> 0]
    /\ UNCHANGED <<cbEnv, cbPromoted, cbCalls, cbSelections, cbExecuted>>

CbSearch(ids) == [kind |-> "search", ids |-> ids, tool |-> CbWorkflow]
CbCall(t) == [kind |-> "call", ids |-> {}, tool |-> t]

(* The model answers with calls: it may search, and may call a tool whose
   schema it was never shown. *)
CbModel(calls) ==
    /\ cbRun.at = "model" /\ cbRun.steps < CbMaxSteps
    /\ (\E n \in DOMAIN calls : calls[n].kind = "search") => CbSearchable(cbRun.catalog)
    /\ cbRun' = [cbRun EXCEPT !.at = "tools", !.steps = @ + 1]
    /\ cbCalls' = calls
    /\ UNCHANGED <<cbEnv, cbPromoted, cbCount, cbSelections, cbExecuted>>

(* A call that passes and is risky interrupts the run before anything of
   the message is recorded. *)
CbAsks == \E n \in DOMAIN cbCalls : /\ cbCalls[n].kind = "call"
                                    /\ CbPasses(cbCalls[n])
                                    /\ cbCalls[n].tool \in CbRisky

CbExecutions ==
    {[tool |-> cbCalls[n].tool, schema |-> cbRun.catalog.schema[cbCalls[n].tool],
      skill |-> cbRun.skill] : n \in {m \in DOMAIN cbCalls : /\ cbCalls[m].kind = "call"
                                                             /\ CbPasses(cbCalls[m])}}

(* The updates of the searches, merged in the order of the message. *)
CbMergeSearch(old, call) ==
    IF call.kind = "search"
    THEN CbMerge(old, CbHash(cbRun.catalog), SetToSeq(CbPromotes(cbRun.catalog, call.ids)))
    ELSE old

CbNewSelections ==
    {[tool |-> t, schema |-> cbRun.catalog.schema[t]] :
        t \in UNION {CbPromotes(cbRun.catalog, cbCalls[n].ids) :
                        n \in {m \in DOMAIN cbCalls : cbCalls[m].kind = "search"}}}

CbToolNode ==
    /\ cbPromoted' = FoldLeft(CbMergeSearch, cbPromoted, cbCalls)
    /\ cbSelections' = cbSelections \cup CbNewSelections
    /\ cbExecuted' = cbExecuted \cup CbExecutions
    /\ cbCalls' = <<>>
    /\ cbRun' = [cbRun EXCEPT !.at = "model"]
    /\ UNCHANGED <<cbEnv, cbCount>>

CbRunTools == cbRun.at = "tools" /\ ~CbAsks /\ CbToolNode

CbInterrupts ==
    /\ cbRun.at = "tools" /\ CbAsks
    /\ cbRun' = [cbRun EXCEPT !.at = "waiting"]
    /\ UNCHANGED <<cbEnv, cbPromoted, cbCalls, cbCount, cbSelections, cbExecuted>>

(* The user approves and the node runs again, on the same state. *)
CbApproved == cbRun.at = "waiting" /\ CbToolNode

(* The process was restarted meanwhile: the graph is rebuilt. *)
CbRestart ==
    /\ cbRun.at = "waiting"
    /\ cbRun.catalog # CbCatalog(cbRun.skill)
    /\ cbRun' = [cbRun EXCEPT !.catalog = CbCatalog(cbRun.skill)]
    /\ UNCHANGED <<cbEnv, cbPromoted, cbCalls, cbCount, cbSelections, cbExecuted>>

CbRunEnds ==
    /\ cbRun.at = "model"
    /\ cbRun' = [CbNoRun EXCEPT !.catalog = cbRun.catalog]
    /\ UNCHANGED <<cbEnv, cbPromoted, cbCalls, cbCount, cbSelections, cbExecuted>>

--------------------
CbIdentifiers == CbTools \cup {CbWorkflow, CbAlias}

CbMessages ==
    {<<CbSearch(S)>> : S \in {T \in SUBSET CbIdentifiers : Cardinality(T) <= 2}}
    \cup {<<CbCall(t)>> : t \in CbTools}
    \cup {<<CbSearch({t}), CbCall(t)>> : t \in CbTools}
    \cup {<<CbSearch({p[1]}), CbSearch({p[2]})>> : p \in CbTools \X CbTools}

CbInit ==
    /\ cbEnv \in [CbTools -> {0, 1}]
    /\ cbPromoted = CbNothing
    /\ cbRun = CbNoRun
    /\ cbCalls = <<>>
    /\ cbCount = [runs |-> 0, changes |-> 0]
    /\ cbSelections = {}
    /\ cbExecuted = {}

CbNext ==
    \/ \E t \in CbTools, v \in 0..2 : CbChanges(t, v)
    \/ \E s \in DOMAIN CbSkills : CbMessage(s)
    \/ \E calls \in CbMessages : CbModel(calls)
    \/ CbRunTools \/ CbInterrupts \/ CbApproved \/ CbRestart \/ CbRunEnds

CbSpec == CbInit /\ [][CbNext]_cbVars

CbTypeOK ==
    /\ cbEnv \in [CbTools -> 0..2]
    /\ cbRun.at \in {"none", "model", "tools", "waiting"}
    /\ ToSet(cbPromoted.ids) \subseteq CbTools /\ Len(cbPromoted.ids) <= CbMaxPromoted

(* A deferred tool runs only with the schema under which it was selected,
   and only if the skill of the message allows it: not on a promotion of an
   earlier schema, of another skill's catalog, or one made in the same
   message, and not after a restart that built another catalog. *)
CbOnlySelected ==
    \A x \in cbExecuted :
        /\ [tool |-> x.tool, schema |-> x.schema] \in cbSelections
        /\ x.skill # CbNoSkill => x.tool \in CbAllowed(x.skill)
====
