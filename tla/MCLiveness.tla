---- MODULE MCLiveness ----
(* The components about which something must eventually happen, side by
   side.  They share no state at this level of detail, so an interleaving
   of two of them shows no more than each of them alone: every behaviour
   belongs to one component, under the fairness of its own specification. *)
EXTENDS TimelineFeed, MemoryProposals, TurnEngine, Delegation, GatewayWatchdog, McpSessions

VARIABLE component

\* The budgets of two kinds of children, of a child of no known kind, and of
\* the parent they share.
Profiles == [research |-> [tokens |-> 3, steps |-> 2], synthesize |-> [tokens |-> 2, steps |-> 1]]
Defaults == [tokens |-> 2, steps |-> 1]
Limit    == [tokens |-> 4, models |-> 8, tools |-> 4]

liveVars == <<component, vars, mpVars, teVars, dgVars, wdVars, msVars>>

LiveInit ==
    /\ component \in {"timeline", "memory", "turn", "delegation", "watchdog", "mcp"}
    /\ Init /\ MpInit /\ TeInit /\ DgInit /\ WdInit /\ MsInit

LiveNext ==
    /\ UNCHANGED component
    /\ \/ component = "timeline"   /\ Next   /\ UNCHANGED <<mpVars, teVars, dgVars, wdVars, msVars>>
       \/ component = "memory"     /\ MpNext /\ UNCHANGED <<vars, teVars, dgVars, wdVars, msVars>>
       \/ component = "turn"       /\ TeNext /\ UNCHANGED <<vars, mpVars, dgVars, wdVars, msVars>>
       \/ component = "delegation" /\ DgNext /\ UNCHANGED <<vars, mpVars, teVars, wdVars, msVars>>
       \/ component = "watchdog"   /\ WdNext /\ UNCHANGED <<vars, mpVars, teVars, dgVars, msVars>>
       \/ component = "mcp"        /\ MsNext /\ UNCHANGED <<vars, mpVars, teVars, dgVars, wdVars>>

LiveFairness ==
    /\ WF_vars(component = "timeline" /\ Broadcast) /\ WF_vars(component = "timeline" /\ Reader)
    /\ SF_vars(component = "timeline" /\ Subscribe)
    /\ WF_mpVars(component = "memory" /\ MpStep) /\ WF_mpVars(component = "memory" /\ MpOpenSession)
    /\ WF_teVars(component = "turn" /\ TeProcess)
    /\ WF_dgVars(component = "delegation" /\ DgParent)
    /\ \A c \in Children : WF_dgVars(component = "delegation" /\ DgWork(c))
    /\ WF_wdVars(component = "watchdog" /\ WdCheck) /\ WF_wdVars(component = "watchdog" /\ WdTick)
    /\ WF_wdVars(component = "watchdog" /\ WdOperatorRestoresCron)
    /\ WF_msVars(component = "mcp" /\ MsOwnerSteps)
    /\ \A c \in MsCallers : WF_msVars(component = "mcp" /\ MsCallerSteps(c))

LiveSpec == LiveInit /\ [][LiveNext]_liveVars /\ LiveFairness

--------------------
\* The components' state keeps its types, and the rules that no recovery may
\* break hold: a reader's gaps can be repaired, memory files show decisions
\* only, and restarts of the gateway are a cooldown apart.
LiveHolds ==
    /\ component = "timeline" => TypeOK /\ GapsAreRepairable
    /\ component = "memory" => MpTypeOK /\ MpFilesFollowDecisions
    /\ component = "watchdog" => WdTypeOK /\ WdRestartsSpaced
    /\ component = "turn" => TeTypeOK
    /\ component = "delegation" => DgTypeOK
    /\ component = "mcp" => MsTypeOK

\* What a user began ends: a turn, a turn with children, and a request to an
\* MCP server, whatever the model, a tool, a child or the server does.
TurnsEnd == TeRunEnds /\ DgRunEnds /\ MsRequestsEnd
====
