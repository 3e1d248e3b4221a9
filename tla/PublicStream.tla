---- MODULE PublicStream ----
(* What of a graph's stream the reader of a run gets to see
   (HarnessEventAdapter, core/harness/event_adapter.py): the assistant's
   text without the legacy response protocol, whatever pieces it arrives
   in; the usage and the stop notice of the run's budget, each once; and
   the citations of a search cut down to the size of an event.
   Text is a sequence of pieces of which a tag takes two or three; a
   budget is one figure that grows; a citation is the room its fixed
   fields and its excerpt take. *)
EXTENDS Naturals, Sequences, SequencesExt, FiniteSets, FiniteSetsExt, Functions, TLC

CONSTANTS
    PsWords,                  \* the pieces of text that belong to no tag
    PsMaxText, PsMaxChunk,    \* bounds of a text and of one chunk of it
    PsCap,                    \* the figure at which the budget stops a run
    PsMaxRuns,                \* bound: runs of a thread whose budget is of interest
    PsNoCitation,             \* an item without the fields a citation needs
    PsCitations,              \* the citations a search may return
    PsMaxCitations,           \* bound of a search
    PsPublic,                 \* _PUBLIC_KNOWLEDGE_CITATION_LIMIT, _PUBLIC_WEB_CITATION_LIMIT
    PsExcerpts,               \* the excerpt limits, the widest first
    PsRoom                    \* _PUBLIC_TOOL_CONTENT_LIMIT

ASSUME PsAssumption ==
    /\ PsWords \cap {"<", "/", "tool>", "final>"} = {}
    /\ PsCap \in Nat \ {0, 1} /\ PsPublic \in Nat \ {0} /\ PsRoom \in Nat
    /\ PsCitations \subseteq [fields : Nat, excerpt : Nat]
    /\ PsExcerpts \in Seq(Nat) /\ PsExcerpts # <<>>

VARIABLES
    psAbout,      \* which of the three parts of the adapter is at work: they share no state
    psEnd,        \* the stream: idle, open, closed, failed
    psText,       \* history: the text the model has streamed
    psMode,       \* _LegacyProtocolFilter: _mode, _buffer
    psBuffer,
    psOut,        \* the text_delta events of the text, joined
    psRun,        \* how many runs the thread has had
    psOwn,        \* budget_run_id names this run
    psFigure,     \* what is used: 0 in a state without limits, 1 after the reset
    psStop,       \* why the budget stopped the run, in the last message
    psBefore,     \* history: the figure the run found
    psSeenUsage, psSeenStops,   \* _seen_budget_usage_signatures, _seen_budget_signatures
    psUsage,      \* the usage shown last
    psNotices,    \* the notices shown
    psSearch      \* the last search: what it returned and what is shown of it

psTextVars == <<psText, psMode, psBuffer, psOut>>
psBudgetVars == <<psRun, psOwn, psFigure, psStop, psBefore, psSeenUsage, psSeenStops, psUsage,
                  psNotices>>
psVars == <<psAbout, psEnd, psTextVars, psBudgetVars, psSearch>>

--------------------
(* The text. *)

PsPieces == PsWords \cup {"<", "/", "tool>", "final>"}

PsOpening(mode) == <<"<", mode \o ">">>
PsClosing(mode) == <<"<", "/", mode \o ">">>
PsTags == {PsOpening(m) : m \in {"tool", "final"}} \cup {PsClosing(m) : m \in {"tool", "final"}}

\* The places where a tag stands.
PsPlaces(text, tag) == {n \in DOMAIN text : IsPrefix(tag, SubSeq(text, n, Len(text)))}

\* What the filter looks for: inside a block its end, outside any tag.
PsSought(mode) == IF mode = "text" THEN PsTags ELSE {PsClosing(mode)}

PsModeAfter(tag) == CASE tag = PsOpening("tool") -> "tool"
                      [] tag = PsOpening("final") -> "final"
                      [] OTHER -> "text"

\* The end of the buffer that may be the beginning of a tag.
PsKeep(buffer) ==
    Max({0} \cup {n \in 1..Len(buffer) :
            \E tag \in PsTags : n < Len(tag) /\ IsSuffix(SubSeq(tag, 1, n), buffer)})

PsFiltered(mode, buffer, out) == [mode |-> mode, buffer |-> buffer, out |-> out]

\* feed: up to the first tag, and on behind it; without one the rest is shown
\* but for what may still become a tag.
RECURSIVE PsFeed(_, _, _, _)
PsFeed(mode, buffer, out, final) ==
    LET hits == UNION {PsPlaces(buffer, tag) \X {tag} : tag \in PsSought(mode)}
        hit == CHOOSE h \in hits : \A other \in hits : h[1] <= other[1]
        Shown(n) == IF mode = "tool" THEN out ELSE out \o SubSeq(buffer, 1, n)
        kept == IF final THEN 0 ELSE IF mode = "text" THEN PsKeep(buffer) ELSE Len(buffer)
    IN IF hits # {}
       THEN PsFeed(PsModeAfter(hit[2]), SubSeq(buffer, hit[1] + Len(hit[2]), Len(buffer)),
                   Shown(hit[1] - 1), final)
       ELSE PsFiltered(mode, SubSeq(buffer, Len(buffer) - kept + 1, Len(buffer)),
                       Shown(Len(buffer) - kept))

PsFilter(chunk, final) ==
    LET fed == PsFeed(psMode, psBuffer \o chunk, psOut, final)
    IN psMode' = fed.mode /\ psBuffer' = fed.buffer /\ psOut' = fed.out

\* A message chunk of the model; one that carries tool calls is not text.
PsMessage(chunk) ==
    /\ psAbout = "text" /\ psEnd = "open"
    /\ Len(psText) + Len(chunk) <= PsMaxText
    /\ psText' = psText \o chunk
    /\ PsFilter(chunk, FALSE)
    /\ UNCHANGED <<psAbout, psEnd, psBudgetVars, psSearch>>

--------------------
(* The budget. *)

PsNoFigure == 0
PsReset == 1
PsNoStop == "none"

\* _budget_events: a stop that was not shown before.
PsNotify(stop) ==
    LET new == {stop} \ (psSeenStops \cup {PsNoStop})
    IN psSeenStops' = psSeenStops \cup new /\ psNotices' = psNotices \o SetToSeq(new)

\* _values: a snapshot of the state shows its usage, then its stop, each
\* unless the adapter has shown the same before.
PsValues ==
    /\ LET new == {psFigure'} \ (psSeenUsage \cup {PsNoFigure})
       IN /\ psSeenUsage' = psSeenUsage \cup new
          /\ psUsage' = IF new = {} THEN psUsage ELSE psFigure'
    /\ PsNotify(psStop')

PsInit ==
    /\ psAbout \in {"text", "budget", "search"}
    /\ psEnd = "idle"
    /\ psText = <<>> /\ psMode = "text" /\ psBuffer = <<>> /\ psOut = <<>>
    /\ psRun = 0 /\ psOwn = FALSE /\ psFigure = PsNoFigure /\ psStop = PsNoStop
    /\ psBefore = PsNoFigure /\ psUsage = PsNoFigure
    /\ psSeenUsage = {} /\ psSeenStops = {} /\ psNotices = <<>>
    /\ psSearch = [tool |-> "none"]

\* A run begins with a new adapter.  The first snapshot is the thread as the
\* previous run left it, under the new message.
PsStart ==
    /\ psEnd # "open"
    /\ psRun < IF psAbout = "budget" THEN PsMaxRuns ELSE 1
    /\ psRun' = psRun + 1
    /\ psEnd' = "open"
    /\ psText' = <<>> /\ psMode' = "text" /\ psBuffer' = <<>> /\ psOut' = <<>>
    /\ psOwn' = FALSE /\ psStop' = PsNoStop
    /\ psBefore' = psFigure /\ psUsage' = psFigure
    /\ psSeenUsage' = {psFigure} \ {PsNoFigure}
    /\ psSeenStops' = {} /\ psNotices' = <<>>
    /\ UNCHANGED <<psAbout, psFigure, psSearch>>

PsWorks == psAbout = "budget" /\ psEnd = "open" /\ psStop = PsNoStop

\* RunBudgetMiddleware.before_agent.
PsBeforeAgent ==
    /\ PsWorks /\ ~psOwn
    /\ psOwn' = TRUE /\ psFigure' = PsReset /\ psStop' = PsNoStop
    /\ PsValues
    /\ UNCHANGED <<psAbout, psEnd, psTextVars, psRun, psBefore, psSearch>>

\* A model call or the calls and children it leads to: after_model counts
\* them, and stops the run at the cap.
PsUse(amount) ==
    /\ PsWorks /\ psOwn
    /\ psFigure' = psFigure + amount
    /\ psStop' = IF psFigure' >= PsCap THEN "capped" ELSE PsNoStop
    /\ PsValues
    /\ UNCHANGED <<psAbout, psEnd, psTextVars, psRun, psOwn, psBefore, psSearch>>

\* Any other step of the graph shows the state again.
PsAgain ==
    /\ psAbout = "budget" /\ psEnd = "open" /\ psOwn
    /\ UNCHANGED <<psFigure, psStop>>
    /\ PsValues
    /\ UNCHANGED <<psAbout, psEnd, psTextVars, psRun, psOwn, psBefore, psSearch>>

\* finish: the stream is over and what the filter kept back is shown.
PsClose ==
    /\ psEnd = "open"
    /\ psAbout = "budget" => psOwn
    /\ psEnd' = "closed"
    /\ PsFilter(<<>>, TRUE)
    /\ UNCHANGED <<psAbout, psText, psBudgetVars, psSearch>>

\* The run manager stops the graph at its step or time limit and says so.
PsCutOff(reason) ==
    /\ psAbout = "budget" /\ psEnd = "open"
    /\ psEnd' = "closed"
    /\ PsNotify(reason)
    /\ PsFilter(<<>>, TRUE)
    /\ UNCHANGED <<psAbout, psText, psRun, psOwn, psFigure, psStop, psBefore, psSeenUsage, psUsage,
                   psSearch>>

\* Any other exception leaves the loop before finish, and what was kept back
\* is lost.
PsFail ==
    /\ psAbout = "budget" /\ psEnd = "open"
    /\ psEnd' = "failed"
    /\ UNCHANGED <<psAbout, psTextVars, psBudgetVars, psSearch>>

--------------------
(* The citations of a search. *)

PsCited(items) == SelectSeq(items, LAMBDA c : c # PsNoCitation)

\* The first count items with their excerpts cut at limit.
PsTry(items, count, limit) ==
    [n \in DOMAIN PsCited(SubSeq(items, 1, count)) |->
        [PsCited(items)[n] EXCEPT !.excerpt = Min({@, limit})]]

PsSize(shown) == FoldSeq(LAMBDA c, room : room + c.fields + c.excerpt, 0, shown)

PsFits(items) ==
    {try \in (DOMAIN items) \X (DOMAIN PsExcerpts) :
        PsSize(PsTry(items, try[1], PsExcerpts[try[2]])) <= PsRoom}

\* As many items as possible, then excerpts as long as possible.
PsBest(items) ==
    CHOOSE try \in PsFits(items) :
        \A other \in PsFits(items) :
            \/ try[1] > other[1]
            \/ try[1] = other[1] /\ try[2] <= other[2]

PsShown(items, omitted) ==
    LET best == PsBest(items)
    IN [shown |-> PsTry(items, best[1], PsExcerpts[best[2]]), omitted |-> omitted - best[1]]

\* _public_tool_result_content: items that are no citations count as omitted,
\* and something is always shown.
PsKnowledgeSearch(items, before) ==
    LET cited == PsCited(items)
        public == SubSeq(cited, 1, Min({Len(cited), PsPublic}))
    IN IF cited = <<>> THEN [shown |-> <<>>, omitted |-> before]
       ELSE IF PsFits(public) # {} THEN PsShown(public, before + Len(items))
       ELSE [shown |-> <<[fields |-> 0, excerpt |-> Min({cited[1].excerpt, Last(PsExcerpts)})]>>,
             omitted |-> before + Len(items) - 1]

\* _public_web_search_content: what is left out of the first items counts as
\* omitted; if nothing fits, nothing is shown.
PsWebSearch(items, before) ==
    LET public == SubSeq(items, 1, Min({Len(items), PsPublic}))
    IN IF PsFits(public) = {} THEN [shown |-> <<>>, omitted |-> before]
       ELSE PsShown(public, before + Len(public))

PsResult(tool, items, before) ==
    /\ psEnd = "open"
    /\ psEnd' = "closed"
    /\ psSearch' = [tool |-> tool, items |-> items, before |-> before] @@
                   IF tool = "knowledge_search" THEN PsKnowledgeSearch(items, before)
                   ELSE PsWebSearch(items, before)
    /\ UNCHANGED <<psAbout, psTextVars, psBudgetVars>>

--------------------
PsNext ==
    \/ PsStart
    \/ \E chunk \in SeqOf(PsPieces, PsMaxChunk) \ {<<>>} : PsMessage(chunk)
    \/ PsBeforeAgent
    \/ \E amount \in 1..2 : PsUse(amount)
    \/ PsAgain
    \/ PsClose
    \/ \E reason \in {"step_capped", "time_capped"} : PsCutOff(reason)
    \/ PsFail
    \/ /\ psAbout = "search"
       /\ \E tool \in {"knowledge_search", "search_web"}, before \in 0..1,
             items \in SeqOf(PsCitations \cup {PsNoCitation}, PsMaxCitations) :
             PsResult(tool, items, before)

PsSpec == PsInit /\ [][PsNext]_psVars

--------------------
\* Types of the state.
PsTypeOK ==
    /\ psAbout \in {"text", "budget", "search"}
    /\ psEnd \in {"idle", "open", "closed", "failed"}
    /\ psText \in Seq(PsPieces) /\ psBuffer \in Seq(PsPieces) /\ psOut \in Seq(PsPieces)
    /\ psMode \in {"text", "tool", "final"}
    /\ psRun \in 0..PsMaxRuns /\ psOwn \in BOOLEAN
    /\ psStop \in {PsNoStop, "capped"}
    /\ \A figure \in {psFigure, psBefore, psUsage} \cup psSeenUsage : figure \in 0..(PsCap + 1)
    /\ psSeenStops = ToSet(psNotices)
    /\ psSeenStops \subseteq {"capped", "step_capped", "time_capped"}

\* The block that a tag ends.
PsEndsAs(tag) == CASE tag = PsClosing("tool") -> "tool"
                   [] tag = PsClosing("final") -> "final"
                   [] OTHER -> "text"

\* The text read at once, from its definition: a tag counts in plain text and
\* where it ends the block it stands in, and all but such tags and what stands
\* in a tool block is visible.
PsVisible ==
    LET tags == UNION {PsPlaces(psText, tag) \X {tag} : tag \in PsTags}
        modes[n \in 1..(Len(psText) + 1)] ==
            LET ended == {place \in tags : /\ place[1] + Len(place[2]) = n
                                           /\ modes[place[1]] \in {"text", PsEndsAs(place[2])}}
            IN IF n = 1 THEN "text"
               ELSE IF ended = {} THEN modes[n - 1]
               ELSE PsModeAfter((CHOOSE place \in ended : TRUE)[2])
        counted == {place \in tags : modes[place[1]] \in {"text", PsEndsAs(place[2])}}
        inTag == UNION {place[1]..(place[1] + Len(place[2]) - 1) : place \in counted}
        visible == SelectSeq([n \in DOMAIN psText |-> n],
                             LAMBDA n : n \notin inTag /\ modes[n] # "tool")
    IN [n \in DOMAIN visible |-> psText[visible[n]]]

\* Whatever pieces a text arrives in, the reader has seen exactly what a
\* reading of the whole text leaves visible, but for the end of it that the
\* filter keeps back; once the stream is closed nothing is kept back
\* (_LegacyProtocolFilter).
PsTextIsWhole ==
    /\ PsVisible = IF psMode = "tool" THEN psOut ELSE psOut \o psBuffer
    /\ psEnd = "closed" => psBuffer = <<>>

\* The usage shown is the usage of the state, unless the state has come to the
\* figure the previous run ended with; a stop is announced once, and a run the
\* budget stopped never closes without it (_budget_usage_from_state,
\* _budget_events).
PsBudgetIsShown ==
    /\ psEnd # "idle" => psUsage = psFigure \/ psFigure = psBefore
    /\ IsInjective(psNotices)
    /\ psEnd # "idle" /\ psOwn /\ psFigure >= PsCap => "capped" \in ToSet(psNotices)

\* What is shown of a search are its first citations, in order and within the
\* size of an event; no more of them would have fitted; a knowledge search that
\* found something shows something, and shown and omitted add up.
PsSearchIsHonest ==
    psSearch.tool # "none" =>
        LET shown == psSearch.shown
            cited == PsCited(psSearch.items)
            most == Min({Len(cited), PsPublic})
        IN /\ Len(shown) <= most
           /\ PsSize(shown) <= PsRoom
           /\ \A n \in DOMAIN shown : shown[n].excerpt <= cited[n].excerpt
           /\ Len(shown) + psSearch.omitted <= Len(psSearch.items) + psSearch.before
           /\ psSearch.tool = "knowledge_search" /\ cited # <<>> =>
                /\ shown # <<>>
                /\ Len(shown) + psSearch.omitted = Len(psSearch.items) + psSearch.before
                /\ Len(shown) < most =>
                       PsSize(PsTry(cited, Len(shown) + 1, Last(PsExcerpts))) > PsRoom

\* The public stream of a run is true to the graph.
PsStreamHolds == PsTextIsWhole /\ PsBudgetIsShown /\ PsSearchIsHonest
====
