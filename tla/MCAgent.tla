---- MODULE MCAgent ----
(* The turn of an agent and what serves it: the engine and the graph, the
   tools it may see, its thread and sandbox, children, MCP sessions, the
   compaction of its context and the audit of its runs.  The models share
   no state, so every behaviour is one of a single component, the one that
   part names. *)
EXTENDS TurnEngine, Delegation, McpSessions, GraphTurn, Compaction, Capabilities, ThreadState,
        SandboxTools, RunAudit, PublicStream, TLC

VARIABLE part

\* The budgets of two kinds of children, of a child of no known kind, and of
\* the parent they share.
Profiles == [research |-> [tokens |-> 3, steps |-> 2], synthesize |-> [tokens |-> 2, steps |-> 1]]
Defaults == [tokens |-> 2, steps |-> 1]
Limit    == [tokens |-> 4, models |-> 8, tools |-> 4]

\* Two risky calls and a direct one; two writes and a search with different
\* arguments, which validation completes for one; a skill of one tool only.
GraphTool == [c1 |-> "run_shell", c2 |-> "write_file", c4 |-> "search_web"]
AuditTool(c) == IF c = "c3" THEN "knowledge_search" ELSE "write_file"
AuditArgs(c) == c
AuditValid(c) == IF c = "c2" THEN "c2 in full" ELSE c
Skills == [none |-> {}, narrow |-> {"t1"}]

\* A short citation, a long excerpt, and one too large for an event.
Citations == {[fields |-> 1, excerpt |-> 1], [fields |-> 1, excerpt |-> 4],
              [fields |-> 9, excerpt |-> 2]}
ExcerptLimits == <<4, 2, 1>>

\* The two calls of the sandbox are interchangeable.
Symmetry == Permutations(SbCalls)

allVars == <<part, teVars, dgVars, msVars, gtVars, cpVars, cbVars, tsVars, sbVars, auVars, psVars>>

\* The initial states of a component are enumerated where it moves.
AgentInit ==
    /\ part \in {"turn", "delegation", "mcp", "graph", "stream", "compaction", "capabilities",
                "thread", "sandbox", "audit"}
    /\ TeInit /\ DgInit /\ MsInit /\ GtInit /\ CpInit /\ CbInit /\ TsInit /\ SbInit /\ AuInit /\ PsInit
    /\ part # "compaction" => cpKey
    /\ part # "capabilities" => cbEnv = [t \in CbTools |-> 0]
    /\ part # "thread" => tsOwner = TsLocal
    /\ part # "sandbox" => sbKind = "local" /\ sbFile.stamp = 0
    /\ part # "audit" => auProfile = "legacy"
    /\ part # "stream" => psAbout = "text"

\* What stays as it is while one component moves.
Others(moving) ==
    /\ IF moving = "turn" THEN TRUE ELSE UNCHANGED teVars
    /\ IF moving = "delegation" THEN TRUE ELSE UNCHANGED dgVars
    /\ IF moving = "mcp" THEN TRUE ELSE UNCHANGED msVars
    /\ IF moving = "graph" THEN TRUE ELSE UNCHANGED gtVars
    /\ IF moving = "compaction" THEN TRUE ELSE UNCHANGED cpVars
    /\ IF moving = "capabilities" THEN TRUE ELSE UNCHANGED cbVars
    /\ IF moving = "thread" THEN TRUE ELSE UNCHANGED tsVars
    /\ IF moving = "sandbox" THEN TRUE ELSE UNCHANGED sbVars
    /\ IF moving = "audit" THEN TRUE ELSE UNCHANGED auVars
    /\ IF moving = "stream" THEN TRUE ELSE UNCHANGED psVars

AgentNext ==
    /\ UNCHANGED part
    /\ \/ part = "turn" /\ TeNext /\ Others("turn")
       \/ part = "delegation" /\ DgNext /\ Others("delegation")
       \/ part = "mcp" /\ MsNext /\ Others("mcp")
       \/ part = "graph" /\ GtNext /\ Others("graph")
       \/ part = "compaction" /\ CpNext /\ Others("compaction")
       \/ part = "capabilities" /\ CbNext /\ Others("capabilities")
       \/ part = "thread" /\ TsNext /\ Others("thread")
       \/ part = "sandbox" /\ SbNext /\ Others("sandbox")
       \/ part = "audit" /\ AuNext /\ Others("audit")
       \/ part = "stream" /\ PsNext /\ Others("stream")

AgentSpec == AgentInit /\ [][AgentNext]_allVars

--------------------
\* The types of the components' state.
AgentTypeOK ==
    /\ part = "turn" => TeTypeOK
    /\ part = "delegation" => DgTypeOK
    /\ part = "mcp" => MsTypeOK
    /\ part = "graph" => GtTypeOK
    /\ part = "compaction" => CpTypeOK
    /\ part = "capabilities" => CbTypeOK
    /\ part = "thread" => TsTypeOK
    /\ part = "sandbox" => SbTypeOK
    /\ part = "audit" => AuTypeOK
    /\ part = "stream" => PsTypeOK

\* A graph's turn runs what was granted and its stream shows what happened: the
\* results follow their calls, and the text, the usage and the citations the
\* reader sees are those of the graph (core/harness/event_adapter.py and the
\* approvals it waits for).
GraphHolds == GtTurnHolds /\ PsStreamHolds
====
