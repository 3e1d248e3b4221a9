---- MODULE CompositionProofs ----
(* What the models of several components promise together, from what is
   proved of each.  A behaviour of a composition is one of its components
   while the others stand still, so what each keeps the composition keeps. *)
EXTENDS MCPlatform, MCLiveness, EvidenceProofs, AgentProofs, ContextProofs

--------------------
(* The platform. *)

\* A behaviour of the platform is one of each part.
LEMMA EachPart == PlatformSpec => EvSpec /\ XpSpec /\ DbSpec
<1>1. PlatformInit => EvInit /\ XpInit /\ DbInit BY DEF PlatformInit
<1>2. [PlatformNext]_allVars => [EvNext]_evVars BY DEF PlatformNext, allVars, Others
<1>3. [PlatformNext]_allVars => [XpNext]_xpVars BY DEF PlatformNext, allVars, Others
<1>4. [PlatformNext]_allVars => [DbNext]_blVars BY DEF PlatformNext, allVars, Others
<1> QED BY <1>1, <1>2, <1>3, <1>4, PTL DEF PlatformSpec, EvSpec, XpSpec, DbSpec

\* What is kept tells what was read, whichever part moves: rows and exports
\* lose nothing, a ticket tells which parser made the document, and its blocks
\* are the source as BlocksHold says (MCPlatform; EvidenceHolds).
THEOREM EvidenceSafe == PlatformSpec => []EvidenceHolds
<1>1. EvEvidenceIsKept /\ XpParsingHolds /\ DbBlocksHold => EvidenceHolds BY DEF EvidenceHolds
<1> QED BY <1>1, EachPart, EvidenceKept, ParsingHolds, BlocksHold, PTL

--------------------
(* The components that make progress. *)

\* The component that moves keeps its own invariant.
LiveInv ==
  /\ component = "timeline" => FeedInv
  /\ component = "memory" => MpFilesInv
  /\ component = "watchdog" => WdInv
  /\ component = "turn" => TeInv
  /\ component = "delegation" => DgInv
  /\ component = "mcp" => MsInv

\* Whichever component moves, and whatever its users, its server or its
\* machine do: no gap a reader meets is beyond repair, topic files hold what
\* was approved or remembered and nothing twice, the gateway is not restarted
\* within the cooldown, and the state of a turn, of its children and of the
\* MCP sessions keeps its types (when the model repeats no call id in a run).
THEOREM LiveSafe ==
  ASSUME ~DgReuse
  PROVE  LiveSpec => []LiveHolds
<1>1. LiveInit => LiveInv
  BY FeedInitInv, MpFilesStart, WdStarts, TeInitHolds, DgAssumption, DgInitInv, MsStarts DEF LiveInit, LiveInv
<1>2. LiveInv /\ [LiveNext]_liveVars => LiveInv'
 <2> SUFFICES ASSUME LiveInv, [LiveNext]_liveVars PROVE LiveInv' OBVIOUS
 <2>1. UNCHANGED component BY DEF LiveNext, liveVars
 <2>2. component = "timeline" => FeedInv' BY <2>1, FeedStepInv DEF LiveNext, liveVars, LiveInv
 <2>3. component = "memory" => MpFilesInv' BY <2>1, MpNextFiles DEF LiveNext, liveVars, LiveInv
 <2>4. component = "watchdog" => WdInv' BY <2>1, WdNextKeeps DEF LiveNext, liveVars, LiveInv
 <2>5. component = "turn" => TeInv' BY <2>1, TeNextKeeps DEF LiveNext, liveVars, LiveInv
 <2>6. component = "delegation" => DgInv'
   BY <2>1, DgAssumption, DgNextKeeps DEF LiveNext, liveVars, LiveInv
 <2>7. component = "mcp" => MsInv' BY <2>1, MsNextKeeps DEF LiveNext, liveVars, LiveInv
 <2> QED BY <2>1, <2>2, <2>3, <2>4, <2>5, <2>6, <2>7 DEF LiveInv
<1>3. LiveInv => LiveHolds
  BY FeedInvHolds, MpFilesHold, WdInvHolds, TeInvHolds, DgAssumption, DgInvHolds, MsInvHolds
     DEF LiveInv, LiveHolds
<1> QED BY <1>1, <1>2, <1>3, PTL DEF LiveSpec
====
