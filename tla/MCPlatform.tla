---- MODULE MCPlatform ----
(* What an agent runs for and on: sessions and their evidence, documents
   and their parsers, accounts and model providers, the maintenance loop
   and the deployment.  The models share no state, so every behaviour is
   one of a single component, the one that part names. *)
EXTENDS LoopHarness, CloudAccounts, ModelProviders, CanaryDeploy, SessionRuntimes, EvidenceStore,
        ExternalParsing, DocumentBlocks, TLC

VARIABLE part

\* A small change, one that alters behaviour and one that is too large.
Diffs == {[prod |-> 1, tests |-> 0, lines |-> 80, behavior |-> FALSE, forbidden |-> FALSE],
          [prod |-> 1, tests |-> 0, lines |-> 80, behavior |-> TRUE, forbidden |-> FALSE],
          [prod |-> 1, tests |-> 0, lines |-> 151, behavior |-> FALSE, forbidden |-> FALSE]}

\* Settings documents: two models, the second alone, and one whose reasoning
\* modes its provider does not speak.
Reasoning == [id |-> "a1", of |-> "a", kind |-> "openai_reasoning_effort", modes |-> {"low"},
              window |-> 8, reserve |-> 2]
Plain == [id |-> "a2", of |-> "a", kind |-> "unsupported", modes |-> {}, window |-> 0, reserve |-> 0]
Document(default, api, models) ==
    [default |-> default, providers |-> <<[id |-> "a", api |-> api, models |-> models]>>]
Docs == {Document("a1", "openai_chat_completions", <<Reasoning, Plain>>),
         Document("a2", "openai_chat_completions", <<Plain>>),
         Document("a1", "anthropic_messages", <<Reasoning>>)}

\* External parsing off, or MinerU with Qwen3-VL to fall back on.
Deployments == {<<>>, <<"mineru", "qwen">>}

\* Two runs, patches, codes, requests or jobs are interchangeable; as one
\* component moves they may be exchanged together.
Pairs == {LhRuns, LhPatches, CaCodes, CaRequests, CdJobs}
Partner(x) == CHOOSE y \in UNION Pairs : y # x /\ \E S \in Pairs : {x, y} \subseteq S
Symmetry == {[x \in UNION Pairs |-> IF exchange THEN Partner(x) ELSE x] : exchange \in BOOLEAN}

allVars == <<part, lhVars, caVars, pvVars, cdVars, srVars, evVars, xpVars, blVars>>

\* The initial states of a component are enumerated where it moves.
PlatformInit ==
    /\ part \in {"loop", "accounts", "providers", "deploy", "sessions", "evidence", "parsing", "blocks"}
    /\ LhInit /\ CaInit /\ PvInit /\ CdInit /\ SrInit /\ EvInit /\ XpInit /\ DbInit
    /\ part # "sessions" => srSettings = Document("a2", "openai_chat_completions", <<Plain>>)
    /\ part # "parsing" => xpAdapters = <<>> /\ xpAllowed /\ xpText = "text"
    /\ part # "blocks" => dbHtml.parser = "html"

\* What stays as it is while one component moves.
Others(moving) ==
    /\ IF moving = "loop" THEN TRUE ELSE UNCHANGED lhVars
    /\ IF moving = "accounts" THEN TRUE ELSE UNCHANGED caVars
    /\ IF moving = "providers" THEN TRUE ELSE UNCHANGED pvVars
    /\ IF moving = "deploy" THEN TRUE ELSE UNCHANGED cdVars
    /\ IF moving = "sessions" THEN TRUE ELSE UNCHANGED srVars
    /\ IF moving = "evidence" THEN TRUE ELSE UNCHANGED evVars
    /\ IF moving = "parsing" THEN TRUE ELSE UNCHANGED xpVars
    /\ IF moving = "blocks" THEN TRUE ELSE UNCHANGED blVars

PlatformNext ==
    /\ UNCHANGED part
    /\ \/ part = "loop" /\ LhNext /\ Others("loop")
       \/ part = "accounts" /\ CaNext /\ Others("accounts")
       \/ part = "providers" /\ PvNext /\ Others("providers")
       \/ part = "deploy" /\ CdNext /\ Others("deploy")
       \/ part = "sessions" /\ SrNext /\ Others("sessions")
       \/ part = "evidence" /\ EvNext /\ Others("evidence")
       \/ part = "parsing" /\ XpNext /\ Others("parsing")
       \/ part = "blocks" /\ DbNext /\ Others("blocks")

PlatformSpec == PlatformInit /\ [][PlatformNext]_allVars

--------------------
\* The types of the components' state.
PlatformTypeOK ==
    /\ part = "loop" => LhTypeOK
    /\ part = "accounts" => CaTypeOK
    /\ part = "providers" => PvTypeOK
    /\ part = "deploy" => CdTypeOK
    /\ part = "sessions" => SrTypeOK
    /\ part = "evidence" => EvTypeOK
    /\ part = "parsing" => XpTypeOK
    /\ part = "blocks" => DbTypeOK

\* What is kept tells what was read: rows and exports lose nothing, a document
\* and its ticket agree on who parsed it, no line of Markdown or page is lost,
\* and nothing that properly nested HTML skips is shown (the evidence stores
\* of core/coding/persistence and the parsers of core/knowledge/parsing).
EvidenceHolds == EvEvidenceIsKept /\ XpParsingHolds /\ DbBlocksHold
====
