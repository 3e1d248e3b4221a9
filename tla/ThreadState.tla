---- MODULE ThreadState ----
(* The checkpointed state of one graph thread: its messages, the channels
   the middlewares project into it (state.py, durable_context.py,
   builtin.py), its binding to an owner (checkpoint.py) and the compaction
   of its messages when a turn begins (message_compaction.py).  A turn may
   be stopped at any point, by its time or step limit, a cancellation or a
   crash, and the next turn goes on from the checkpoint; a turn that waits
   for an approval is resumed on the messages it left.  The results of one
   message's calls reach the reducers together, in any order. *)
EXTENDS Naturals, Sequences, FiniteSets, SequencesExt

CONSTANTS
    TsOwners,           \* owners a runtime may have; a runtime without one is TsLocal
    TsLocal,
    TsNoOwner,          \* a thread without a checkpoint
    TsSkills,           \* paths of skills a message may name
    TsNoSkill,
    TsRefs,             \* evidence references, as numbers: they are kept sorted
    TsKeep,             \* keep_recent_messages
    TsMaxSkills,        \* MAX_SKILL_CONTEXT
    TsMaxRefs,          \* MAX_EVIDENCE_REFS
    TsMaxTurns, TsMaxCalls  \* bounds: turns, tool calls

ASSUME TsAssumption ==
    /\ TsLocal \in TsOwners /\ TsNoOwner \notin TsOwners /\ TsNoSkill \notin TsSkills
    /\ TsRefs \subseteq Nat /\ IsFiniteSet(TsRefs)
    /\ TsKeep \in Nat \ {0} /\ TsMaxSkills \in Nat \ {0} /\ TsMaxRefs \in Nat \ {0}

VARIABLES
    tsMessages,     \* messages channel
    tsChannels,     \* thread_data.owner_id, skill_context, evidence_refs
    tsRun,          \* where the turn is, turns and calls so far
    tsOwner,        \* the runtime's owner
    tsReported      \* history: every evidence reference a child reported

tsVars == <<tsMessages, tsChannels, tsRun, tsOwner, tsReported>>

TsHuman == [kind |-> "human", calls |-> {}]
TsAi(calls) == [kind |-> "ai", calls |-> calls]
TsTool(call) == [kind |-> "tool", calls |-> {call}]

--------------------
(* Reducers. *)

(* The last n of a sequence: list[-n:]. *)
TsTail(s, n) == IF Len(s) > n THEN SubSeq(s, Len(s) - n + 1, Len(s)) ELSE s

(* merge_skill_context: a skill named again becomes the most recent. *)
TsMergeSkill(skills, path) ==
    IF path = TsNoSkill THEN skills
    ELSE TsTail(Append(RemoveFirst(skills, path), path), TsMaxSkills)

(* sorted(set). *)
TsSorted(S) == CHOOSE q \in [1..Cardinality(S) -> S] : \A i, j \in DOMAIN q : i < j => q[i] < q[j]

(* merge_evidence_refs: sorted, the last ones stay. *)
TsMergeRefs(refs, new) == TsTail(TsSorted(ToSet(refs) \cup new), TsMaxRefs)

(* merge_thread_data raises when an identity changes. *)
TsMergeable(owner) == tsChannels.owner \in {TsNoOwner, owner}

(* load_scoped_checkpoint: a checkpoint of another owner is refused. *)
TsInScope(owner) == tsChannels.owner = TsNoOwner \/ tsChannels.owner = owner

--------------------
(* Compaction of the messages.  A cutoff is the number of messages dropped. *)

TsResolved(msgs) == UNION {msgs[i].calls : i \in {j \in DOMAIN msgs : msgs[j].kind = "tool"}}

(* The calls answered by the tool messages that begin at position i. *)
TsBlockCalls(msgs, i) ==
    UNION {msgs[j].calls : j \in {k \in i..Len(msgs) :
                                    \A m \in i..k : msgs[m].kind = "tool"}}

(* The last of a set of positions. *)
TsLatest(S) == CHOOSE i \in S : \A j \in S : j <= i

(* Mutant: the cutoff stays where it is. *)
TsUnprotected(msgs, cutoff) == cutoff

(* _protect_tool_boundary: the AI message of the results stays with them. *)
TsProtectToolBoundary(msgs, cutoff) ==
    IF cutoff >= Len(msgs) \/ msgs[cutoff + 1].kind # "tool" THEN cutoff
    ELSE TsLatest({i \in 1..cutoff : /\ msgs[i].kind = "ai"
                                     /\ msgs[i].calls \cap TsBlockCalls(msgs, cutoff + 1) # {}}) - 1

(* A result without its call makes the plan fail. *)
TsBoundaryFound(msgs, cutoff) ==
    \A k \in {cutoff + 1} \cap DOMAIN msgs : msgs[k].kind = "tool" =>
        \E i \in 1..cutoff : /\ msgs[i].kind = "ai"
                             /\ msgs[i].calls \cap TsBlockCalls(msgs, k) # {}

(* _earliest_unresolved_tool_call. *)
TsEarliestUnresolved(msgs, cutoff) ==
    LET open == {i \in DOMAIN msgs : msgs[i].kind = "ai" /\ msgs[i].calls \ TsResolved(msgs) # {}}
    IN IF open = {} THEN cutoff ELSE (CHOOSE i \in open : \A j \in open : i <= j) - 1

TsRecent(msgs) == IF Len(msgs) > TsKeep THEN Len(msgs) - TsKeep ELSE 0

(* build_graph_message_compaction_plan and its state_update. *)
TsCompacted(msgs) ==
    LET cutoff == TsProtectToolBoundary(msgs, TsRecent(msgs))
        open == TsEarliestUnresolved(msgs, cutoff)
        keepFrom == IF open < cutoff THEN open ELSE cutoff
    IN SubSeq(msgs, keepFrom + 1, Len(msgs))

--------------------
TsGo(at) == tsRun' = [tsRun EXCEPT !.at = at]

(* bind_owner: a runtime without an owner gets one. *)
TsBindOwner(owner) ==
    /\ tsOwner = TsLocal /\ owner # TsLocal
    /\ tsOwner' = owner
    /\ UNCHANGED <<tsMessages, tsChannels, tsRun, tsReported>>

(* stream_turn and the before_agent hooks: the message joins the thread,
   after the plan's tail when the host has just compacted; the skill it
   names is recorded. *)
TsStartTurn(skill, compacts) ==
    /\ tsRun.at = "idle" /\ tsRun.turns < TsMaxTurns
    /\ TsInScope(tsOwner) /\ TsMergeable(tsOwner)
    /\ compacts => TsBoundaryFound(tsMessages, TsRecent(tsMessages))
    /\ tsMessages' = Append(IF compacts THEN TsCompacted(tsMessages) ELSE tsMessages, TsHuman)
    /\ tsChannels' = [tsChannels EXCEPT !.owner = tsOwner, !.skills = TsMergeSkill(@, skill)]
    /\ tsRun' = [tsRun EXCEPT !.at = "model", !.turns = @ + 1]
    /\ UNCHANGED <<tsOwner, tsReported>>

(* The model answers, with calls or without. *)
TsModel(n) ==
    /\ tsRun.at = "model" /\ tsRun.calls + n <= TsMaxCalls
    /\ tsMessages' = Append(tsMessages, TsAi((tsRun.calls + 1)..(tsRun.calls + n)))
    /\ tsRun' = [tsRun EXCEPT !.at = IF n = 0 THEN "idle" ELSE "tools", !.calls = @ + n]
    /\ UNCHANGED <<tsChannels, tsOwner, tsReported>>

TsPending == tsMessages[Len(tsMessages)].calls

(* The tool node ends: its results, and what its children report, are
   applied in the order in which they are handed over. *)
TsToolsDone(order, found) ==
    /\ tsRun.at = "tools"
    /\ tsMessages' = tsMessages \o [i \in DOMAIN order |-> TsTool(order[i])]
    /\ tsChannels' = [tsChannels EXCEPT !.refs =
                        FoldLeft(LAMBDA refs, c : TsMergeRefs(refs, found[c]), @, order)]
    /\ tsReported' = tsReported \cup UNION {found[c] : c \in TsPending}
    /\ TsGo("model")
    /\ UNCHANGED tsOwner

(* A call asks for an approval: nothing of the node is recorded. *)
TsInterrupt ==
    /\ tsRun.at = "tools"
    /\ TsGo("waiting")
    /\ UNCHANGED <<tsMessages, tsChannels, tsOwner, tsReported>>

TsResume ==
    /\ tsRun.at = "waiting" /\ TsInScope(tsOwner)
    /\ TsGo("tools")
    /\ UNCHANGED <<tsMessages, tsChannels, tsOwner, tsReported>>

(* The turn is stopped where it is: its time, its steps, the user, a crash. *)
TsStopped ==
    /\ tsRun.at # "idle"
    /\ TsGo("idle")
    /\ UNCHANGED <<tsMessages, tsChannels, tsOwner, tsReported>>

--------------------
TsInit ==
    /\ tsMessages = <<>>
    /\ tsChannels = [owner |-> TsNoOwner, skills |-> <<>>, refs |-> <<>>]
    /\ tsRun = [at |-> "idle", turns |-> 0, calls |-> 0]
    /\ tsOwner \in TsOwners
    /\ tsReported = {}

TsNext ==
    \/ \E o \in TsOwners : TsBindOwner(o)
    \/ \E s \in TsSkills \cup {TsNoSkill}, c \in BOOLEAN : TsStartTurn(s, c)
    \/ \E n \in 0..2 : TsModel(n)
    \/ /\ tsRun.at = "tools"
       /\ \E order \in SetToSeqs(TsPending), found \in [TsPending -> SUBSET TsRefs] :
            TsToolsDone(order, found)
    \/ TsInterrupt \/ TsResume \/ TsStopped

TsSpec == TsInit /\ [][TsNext]_tsVars

TsTypeOK ==
    /\ tsChannels.owner \in TsOwners \cup {TsNoOwner}
    /\ IsInjective(tsChannels.skills) /\ Len(tsChannels.skills) <= TsMaxSkills
    /\ tsRun.at \in {"idle", "model", "tools", "waiting"}
    /\ tsReported \subseteq TsRefs

(* Whatever is compacted, and wherever earlier turns stopped: a tool result
   in the thread has its call before it, and a turn that waits for its
   tools still has the calls it waits for. *)
TsMessagesPaired ==
    /\ \A i \in DOMAIN tsMessages : tsMessages[i].kind = "tool" =>
            \E j \in 1..(i - 1) : tsMessages[j].kind = "ai" /\ tsMessages[i].calls \subseteq tsMessages[j].calls
    /\ tsRun.at \in {"tools", "waiting"} =>
            /\ TsPending # {}
            /\ tsMessages[Len(tsMessages)].kind = "ai"
            /\ TsPending \cap TsResolved(tsMessages) = {}

(* The references kept do not depend on the order in which children end:
   they are the largest of all that were ever reported. *)
TsRefsOrderFree ==
    /\ tsChannels.refs = TsSorted(ToSet(tsChannels.refs))
    /\ ToSet(tsChannels.refs) \subseteq tsReported
    /\ \A r \in tsReported \ ToSet(tsChannels.refs) :
            /\ Len(tsChannels.refs) = TsMaxRefs
            /\ \A k \in ToSet(tsChannels.refs) : r < k

TsThreadHolds == TsMessagesPaired /\ TsRefsOrderFree
====
