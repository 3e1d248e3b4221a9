---- MODULE KnowledgeViews ----
(* What Sage derives from the approved wiki pages, and serves: the chunk
   index and retrieval (index.py, retrieval.py), learnings that cite it
   (store.py), the graph snapshots (graph.py), and their analysis against
   the learning goal (graph_analysis.py, goals.py).
   Page revisions are immutable; a revision is known by its place in
   kvRevs, a page, a name and a source by a number.  Indexing a revision
   may fail, and the page is still applied.  A graph revision hashes the
   current revision of every page, so a snapshot is known by that function;
   an analysis by its graph and goal.  Methods hold the workspace lock;
   searches, the read of a goal and the check of a learning do not.
   Full-text scores, vectors and Louvain's split are external: any ranking
   and any split of a connected component.  Weights, which only the split
   sees, and labels are left out. *)
EXTENDS Naturals, Sequences, FiniteSets, FiniteSetsExt, SequencesExt

CONSTANTS
    KvPages,        \* page ids, ordered
    KvKind,         \* page |-> its kind, by the directory it is in (_page_kind)
    KvTexts,        \* what a revision may say, a record of
                    \*   source: number, original: of original source material,
                    \*   names: of the page (title, path, stems), links: wikilinks,
                    \*   words: keywords in its title, path and content,
                    \*   blocks: parsed blocks, [heading: BOOLEAN, tokens: Nat],
                    \*   an oversized one in parts
    KvLearningPage, \* the page of a topic,
    KvLearningText, \*   and a text deposited there
    KvBudget,       \* token_budget of a retrieval
    KvTopK,         \* top_k of a retrieval
    KvGoals,        \* texts of purpose.md: [valid: BOOLEAN, capabilities: sets of keywords]
    KvMaxRevs, KvMaxFaults, KvMaxRequests  \* bounds

ASSUME KvAssumption ==
    /\ KvPages \subseteq Nat \ {0} /\ IsFiniteSet(KvPages) /\ KvLearningPage \in KvPages
    /\ KvKind \in [KvPages -> {"concept", "decision", "page", "project", "tool"}]
    /\ KvTexts \cup {KvLearningText} \subseteq
        [source : Nat, original : BOOLEAN, names : SUBSET Nat, links : SUBSET Nat,
         words : SUBSET Nat, blocks : Seq([heading : BOOLEAN, tokens : Nat])]
    /\ \A t \in KvTexts \cup {KvLearningText} : IsFiniteSet(t.links)
    /\ ~KvLearningText.original
    /\ KvMaxRevs \in Nat /\ KvMaxFaults \in Nat
    /\ KvBudget \in Nat \ {0} /\ KvTopK \in Nat \ {0}
    /\ \A g \in KvGoals : \A c \in g.capabilities : IsFiniteSet(c) /\ c # {}

VARIABLES
    kvRevs,         \* page revisions
    kvPages,        \* page |-> its current revision, 0 without one
    kvChunks,       \* revisions with chunk rows
    kvActive,       \* revisions whose chunks are active
    kvIndexed,      \* revisions whose indexing is ready
    kvQuery,        \* the search under way
    kvAnswer,       \* the last retrieval
    kvLearnings,    \* learnings proposed from citations
    kvGraphs,       \* graph snapshots
    kvAnalyses,     \* analyses
    kvAsked,        \* the analysis under way: the goal it has read
    kvGoal,         \* purpose.md: its text, what git holds, what a client read
    kvCount         \* faults and requests so far

kvIndexVars == <<kvRevs, kvPages, kvChunks, kvActive, kvIndexed>>
kvGraphVars == <<kvGraphs, kvAnalyses, kvAsked, kvGoal>>
kvSearchVars == <<kvQuery, kvAnswer, kvLearnings>>
kvVars == <<kvIndexVars, kvGraphVars, kvSearchVars, kvCount>>

KvUnlessFault(fault) ==
    /\ fault => kvCount.faults < KvMaxFaults
    /\ kvCount' = [kvCount EXCEPT !.faults = IF fault THEN @ + 1 ELSE @]

(* A request of a client, which may meet a fault. *)
KvRequest(fault) ==
    /\ kvCount.requests < KvMaxRequests
    /\ fault => kvCount.faults < KvMaxFaults
    /\ kvCount' = [faults |-> IF fault THEN kvCount.faults + 1 ELSE kvCount.faults,
                   requests |-> kvCount.requests + 1]

--------------------
(* The index. *)

(* chunk_document: a chunk per block that is no heading; a document without
   such a block has one chunk, its title. *)
KvBodies(r) == {n \in DOMAIN kvRevs[r].text.blocks : ~kvRevs[r].text.blocks[n].heading}
KvChunksOf(r) == {<<r, n>> : n \in IF KvBodies(r) = {} THEN {0} ELSE KvBodies(r)}
KvTokens(c) == IF c[2] = 0 THEN 1 ELSE Max({1, kvRevs[c[1]].text.blocks[c[2]].tokens})

(* _insert_chunk: the rows of a revision say if they are active. *)
KvInserted(index, r, active) ==
    [index EXCEPT !.chunks = @ \cup {r}, !.active = IF active THEN @ \cup {r} ELSE @ \ {r}]

(* mark_error. *)
KvIndexFailed(index, r) == [index EXCEPT !.indexed = @ \ {r}]

(* sync_revision: the chunks of a revision are made again; those of the
   current one are active, and then no others of its page. *)
KvSyncRevision(index, r, pages) ==
    LET page == kvRevs'[r].page
        current == pages[page] = r
        others == IF current THEN {q \in DOMAIN kvRevs' : kvRevs'[q].page = page} ELSE {} IN
    KvInserted([index EXCEPT !.active = @ \ others, !.indexed = @ \cup {r}], r, current)

(* sync_revision_safely: an error leaves the chunks as they were. *)
KvSyncSafely(index, r, pages, ok) ==
    IF ok THEN KvSyncRevision(index, r, pages) ELSE KvIndexFailed(index, r)

KvIndex == [chunks |-> kvChunks, active |-> kvActive, indexed |-> kvIndexed]
KvIndexBecomes(index) ==
    kvChunks' = index.chunks /\ kvActive' = index.active /\ kvIndexed' = index.indexed

(* _record_projection: the page gets a revision and is indexed. *)
KvRecord(page, text, ok) ==
    LET r == Len(kvRevs) + 1 IN
    /\ r <= KvMaxRevs
    /\ kvRevs' = Append(kvRevs, [page |-> page, text |-> text])
    /\ kvPages' = [kvPages EXCEPT ![page] = r]
    /\ KvIndexBecomes(KvSyncSafely(KvIndex, r, kvPages', ok))
    /\ KvUnlessFault(~ok)
    /\ UNCHANGED kvGraphVars

(* A proposal about a source, or a rollback, is approved; its way there and
   what it does to files and Git are KnowledgeStore's. *)
KvApply(page, text, ok) == KvRecord(page, text, ok) /\ UNCHANGED kvSearchVars

(* The revisions of a set as they were created. *)
KvByAge(S) == CHOOSE q \in [1..Cardinality(S) -> S] : \A i, j \in DOMAIN q : i < j => q[i] < q[j]

(* Revisions are made again one after another, some in vain. *)
KvBackfilled(start, todo, failed) ==
    LET sync(index, r) == KvSyncSafely(index, r, kvPages, r \notin failed)
    IN FoldLeft(sync, start, KvByAge(todo))

(* backfill(force): rebuild_index makes every revision again; when the
   store is opened, those that are not ready are made. *)
KvBackfill(force, failed) ==
    LET start == IF force THEN [chunks |-> {}, active |-> {}, indexed |-> {}] ELSE KvIndex
        todo  == DOMAIN kvRevs \ start.indexed
    IN
    /\ failed \subseteq todo /\ todo # {}
    /\ KvUnlessFault(failed # {})
    /\ UNCHANGED <<kvRevs, kvPages, kvGraphVars, kvSearchVars>>
    /\ KvIndexBecomes(KvBackfilled(start, todo, failed))

--------------------
(* Retrieval. *)

(* _filters: active chunks, or those of the revisions asked for. *)
KvSearchable(sources, revisions) ==
    UNION {KvChunksOf(r) : r \in {q \in kvChunks :
        /\ sources # {} => kvRevs[q].text.source \in sources
        /\ IF revisions = {} THEN q \in kvActive ELSE q \in revisions}}

KvRankScale == 61 * 62 * 63 * 64

(* 1 / (60 + rank), scaled to an integer. *)
KvRankScore(list, c) ==
    SumSet({KvRankScale \div (60 + i) : i \in {j \in DOMAIN list : list[j] = c}})

KvChunkBefore(c, d) == c[1] < d[1] \/ (c[1] = d[1] /\ c[2] < d[2])

(* reciprocal_rank_fusion: by descending score, then by id. *)
KvFused(sparse, dense) ==
    LET score(c) == KvRankScore(sparse, c) + KvRankScore(dense, c)
        before(c, d) == score(c) > score(d) \/ (score(c) = score(d) /\ KvChunkBefore(c, d))
    IN {q \in SetToSeqs(ToSet(sparse) \cup ToSet(dense)) :
            \A i, j \in DOMAIN q : i < j => before(q[i], q[j])}

KvNoQuery == [at |-> "idle", sources |-> {}, revisions |-> {}, sparse |-> <<>>, hits |-> <<>>]

(* search: each of its three statements sees the database of its moment.
   First the chunks that match, as the full-text index ranks them, *)
KvSearch(sources, revisions, found) ==
    /\ kvQuery.at = "idle"
    /\ found \subseteq KvSearchable(sources, revisions) /\ found # {}
    /\ KvRequest(FALSE)
    /\ \E sparse \in SetToSeqs(found) :
        kvQuery' = [KvNoQuery EXCEPT !.at = "dense", !.sources = sources,
                                     !.revisions = revisions, !.sparse = sparse]
    /\ UNCHANGED <<kvIndexVars, kvGraphVars, kvAnswer, kvLearnings>>

(* then those with a similar vector: without semantic recall they reorder
   the first ones and add none, *)
KvSearchDense(similar) ==
    /\ kvQuery.at = "dense"
    /\ similar \subseteq KvSearchable(kvQuery.sources, kvQuery.revisions)
    /\ \E dense \in SetToSeqs(similar \cap ToSet(kvQuery.sparse)) :
       \E fused \in KvFused(kvQuery.sparse, dense) :
            kvQuery' = [KvNoQuery EXCEPT !.at = "read",
                                         !.hits = SubSeq(fused, 1, Min({KvTopK, Len(fused)}))]
    /\ UNCHANGED <<kvIndexVars, kvGraphVars, kvAnswer, kvLearnings, kvCount>>

(* Mutant of KvTake: the hit that overruns the budget is taken whole. *)
KvTakeWhole(bundle, c) ==
    IF bundle.full \/ bundle.used >= KvBudget THEN [bundle EXCEPT !.full = TRUE]
    ELSE [bundle EXCEPT !.items = Append(@, c), !.used = @ + KvTokens(c)]

(* One hit of assemble_retrieval_bundle: what fits is taken whole, the
   first hit is cut to fit, any other ends the bundle. *)
KvTake(bundle, c) ==
    LET left == KvBudget - bundle.used
        tokens == KvTokens(c) IN
    IF bundle.full \/ left = 0 THEN [bundle EXCEPT !.full = TRUE]
    ELSE IF tokens <= left THEN [bundle EXCEPT !.items = Append(@, c), !.used = @ + tokens]
    ELSE IF bundle.items # <<>> THEN [bundle EXCEPT !.full = TRUE]
    ELSE [bundle EXCEPT !.items = <<c>>, !.used = KvBudget, !.full = TRUE]

(* and last their rows: a chunk deleted meanwhile is dropped.  retrieve
   makes a bundle of the hits that are left. *)
KvHit(bundle, c) ==
    IF c[1] \in kvChunks THEN KvTake([bundle EXCEPT !.hits = Append(@, c)], c) ELSE bundle

KvNoBundle == [items |-> <<>>, used |-> 0, full |-> FALSE, hits |-> <<>>]
KvBundle(hits) == FoldLeft(KvHit, KvNoBundle, hits)

KvRetrieve ==
    /\ kvQuery.at = "read"
    /\ kvAnswer' = KvBundle(kvQuery.hits)
    /\ kvQuery' = KvNoQuery
    /\ UNCHANGED <<kvIndexVars, kvGraphVars, kvLearnings, kvCount>>

--------------------
(* Learnings. *)

(* resolve_citations: citations of active chunks. *)
KvResolvable(cites) == \A c \in cites : c[1] \in kvActive

(* propose_evidence_learning, under the lock: the citations are of original
   material; the same ones again are the same learning.  If the pages they
   are of were current is kept as history. *)
KvLearn(cites) ==
    /\ cites \subseteq ToSet(kvAnswer.items) /\ cites # {}
    /\ KvResolvable(cites)
    /\ \A c \in cites : kvRevs[c[1]].text.original
    /\ \A l \in kvLearnings : l.cites # cites
    /\ kvLearnings' = kvLearnings \cup
        {[cites |-> cites, base |-> kvPages[KvLearningPage], status |-> "pending",
          current |-> \A c \in cites : kvPages[kvRevs[c[1]].page] = c[1]]}
    /\ UNCHANGED <<kvIndexVars, kvGraphVars, kvQuery, kvAnswer, kvCount>>

KvLearningBecomes(l, status) ==
    kvLearnings' = (kvLearnings \ {l}) \cup {[l EXCEPT !.status = status]}

(* evaluate_and_apply_policy: a learning whose citations still resolve is
   to be applied, any other one is rejected. *)
KvJudge(l) ==
    /\ l.status = "pending"
    /\ KvLearningBecomes(l, IF KvResolvable(l.cites) THEN "auto_apply" ELSE "rejected")
    /\ UNCHANGED <<kvIndexVars, kvGraphVars, kvQuery, kvAnswer, kvCount>>

(* What a learning adds to the page of its topic. *)
KvDeposited(base) ==
    IF base = 0 THEN KvLearningText
    ELSE [KvLearningText EXCEPT !.links = @ \cup kvRevs[base].text.links,
                                !.words = @ \cup kvRevs[base].text.words,
                                !.blocks = kvRevs[base].text.blocks \o @]

(* approve, by the policy or by a person, and the projection: on the page
   revision the learning was made from. *)
KvApproveLearning(l, ok) ==
    /\ l.status \in {"pending", "auto_apply"}
    /\ l.base = kvPages[KvLearningPage]
    /\ KvRecord(KvLearningPage, KvDeposited(l.base), ok)
    /\ KvLearningBecomes(l, "approved")
    /\ UNCHANGED <<kvQuery, kvAnswer>>

--------------------
(* Graph snapshots. *)

(* _load_pages and _page_evidence: the first active chunk of the page's
   current revision. *)
KvFirstChunk(r) == <<r, Min({c[2] : c \in KvChunksOf(r)})>>
KvEvidence(p) == {KvFirstChunk(r) : r \in kvActive \cap {kvPages[p]}}

KvPageId(p) == <<"page", p>>
KvSourceId(s) == <<"source", s>>
KvConceptId(n) == <<"concept", n>>
KvNode(id, kind, rev) == [id |-> id, kind |-> kind, rev |-> rev]
KvEdge(kind, from, to, evidence) == [kind |-> kind, from |-> from, to |-> to, evidence |-> evidence]

KvLive(pages) == {p \in KvPages : pages[p] # 0}
KvText(pages, p) == kvRevs[pages[p]].text

(* A wikilink leads to the first page with that name, or to a concept that
   is missing. *)
KvTarget(pages, name) ==
    LET named == {p \in KvLive(pages) : name \in KvText(pages, p).names}
    IN IF named = {} THEN KvConceptId(name) ELSE KvPageId(Min(named))

(* _project: a node per page, source and missing concept, *)
KvNodes(pages) ==
    {KvNode(KvPageId(p), KvKind[p], pages[p]) : p \in KvLive(pages)}
    \cup {KvNode(KvSourceId(KvText(pages, p).source), "source", 0) : p \in KvLive(pages)}
    \cup {KvNode(id, "concept", 0) : id \in
            {i \in UNION {{KvTarget(pages, n) : n \in KvText(pages, p).links} : p \in KvLive(pages)} :
                i[1] = "concept"}}

(* and edges between them, as far as each page of an edge has evidence. *)
KvEdges ==
    LET cited == {p \in KvLive(kvPages) : KvEvidence(p) # {}}
        source(p) == KvText(kvPages, p).source IN
    {KvEdge("EVIDENCED_BY", KvPageId(p), KvSourceId(source(p)), KvEvidence(p)) : p \in cited}
    \cup (UNION {{KvEdge("WIKILINK", KvPageId(p), KvTarget(kvPages, n), KvEvidence(p)) :
                     n \in KvText(kvPages, p).links} : p \in cited})
    \cup UNION {{KvEdge("SHARES_SOURCE", KvPageId(p), KvPageId(q), KvEvidence(p) \cup KvEvidence(q)) :
                    q \in {x \in cited : p < x /\ source(p) = source(x)}} : p \in cited}

(* status: the snapshot of the current pages, if it is ready. *)
KvReady(pages) == {g \in kvGraphs : g.pages = pages /\ g.status = "ready"}

(* _insert_nodes and _insert_edges. *)
KvSnapshot(pages, status, nodes, edges) ==
    [pages |-> pages, status |-> status, nodes |-> nodes, edges |-> edges]

(* rebuild: one row per watermark; a failure rolls nodes and edges back and
   leaves the row in error. *)
KvRebuilt(ok) ==
    LET old == {g \in kvGraphs : g.pages = kvPages} IN
    (kvGraphs \ old) \cup
    {IF ok THEN KvSnapshot(kvPages, "ready", KvNodes(kvPages), KvEdges)
     ELSE KvSnapshot(kvPages, "error", UNION {g.nodes : g \in old}, UNION {g.edges : g \in old})}

(* ensure_current: a reader that names no revision has the snapshot of the
   current pages built, unless it is ready. *)
KvEnsured(ok) == IF KvReady(kvPages) # {} THEN kvGraphs ELSE KvRebuilt(ok)

(* rebuild_graph(force); graph_overview, graph_node and graph_neighborhood,
   which build nothing else. *)
KvRebuildGraph(force, ok) ==
    /\ KvRequest(~ok)
    /\ kvGraphs' = IF force THEN KvRebuilt(ok) ELSE KvEnsured(ok)
    /\ kvGraphs' # kvGraphs
    /\ UNCHANGED <<kvIndexVars, kvSearchVars, kvAnalyses, kvAsked, kvGoal>>

(* Nodes are listed by kind, then by label and id. *)
KvKindsInOrder == <<"concept", "decision", "page", "project", "source", "tool">>
KvKindPlace == [kind \in ToSet(KvKindsInOrder) |->
                  CHOOSE i \in DOMAIN KvKindsInOrder : KvKindsInOrder[i] = kind]
KvNodeBefore(m, n) ==
    \/ KvKindPlace[m.kind] < KvKindPlace[n.kind]
    \/ /\ m.kind = n.kind
       /\ \/ m.id[2] < n.id[2]
          \/ m.id[2] = n.id[2] /\ KvKindPlace[m.id[1]] < KvKindPlace[n.id[1]]

(* overview: a page of the nodes of some kinds, the edges between them, and
   where the next page begins. *)
KvOverview(g, kinds, offset, limit) ==
    LET listed == {n \in g.nodes : n.kind \in kinds}
        place(n) == Cardinality({m \in listed \ {n} : KvNodeBefore(m, n)})
        shown == {n \in listed : offset <= place(n) /\ place(n) < offset + limit}
        ids == {n.id : n \in shown}
    IN [nodes |-> shown,
        edges |-> {e \in g.edges : e.from \in ids /\ e.to \in ids},
        next  |-> IF Cardinality(listed) > offset + limit THEN {offset + limit} ELSE {}]

(* neighborhood: the edges at a node and the nodes they join. *)
KvNeighborhood(g, id) ==
    LET edges == {e \in g.edges : id \in {e.from, e.to}}
        ids == {id} \cup {e.from : e \in edges} \cup {e.to : e \in edges}
    IN [nodes |-> {n \in g.nodes : n.id \in ids}, edges |-> edges]

--------------------
(* The learning goal, which a client reads and writes, and its owner edits
   and commits between two operations of the store. *)

KvReadGoal ==
    /\ kvGoal.text.valid
    /\ kvGoal.read # kvGoal.text
    /\ kvGoal' = [kvGoal EXCEPT !.read = kvGoal.text]
    /\ UNCHANGED <<kvIndexVars, kvSearchVars, kvGraphs, kvAnalyses, kvAsked, kvCount>>

KvGoalEdited(text) ==
    /\ text # kvGoal.text
    /\ kvGoal' = [kvGoal EXCEPT !.text = text]
    /\ KvRequest(FALSE)
    /\ UNCHANGED <<kvIndexVars, kvSearchVars, kvGraphs, kvAnalyses, kvAsked>>

KvGoalCommitted ==
    /\ kvGoal.text # kvGoal.head
    /\ kvGoal' = [kvGoal EXCEPT !.head = kvGoal.text]
    /\ UNCHANGED <<kvIndexVars, kvSearchVars, kvGraphs, kvAnalyses, kvAsked, kvCount>>

(* update_learning_goal: on the text the client read, unless the file was
   changed outside.  A commit that fails restores the text; a crash before
   it leaves the new text uncommitted. *)
KvUpdateGoal(text, outcome) ==
    /\ kvGoal.text.valid /\ text.valid /\ text # kvGoal.text
    /\ kvGoal.read = kvGoal.text
    /\ kvGoal.text = kvGoal.head
    /\ kvGoal' = CASE outcome = "done"   -> [text |-> text, head |-> text, read |-> text]
                   [] outcome = "failed" -> kvGoal
                   [] outcome = "crash"  -> [kvGoal EXCEPT !.text = text]
    /\ KvRequest(outcome # "done")
    /\ UNCHANGED <<kvIndexVars, kvSearchVars, kvGraphs, kvAnalyses, kvAsked>>

--------------------
(* The analysis of a snapshot against the goal. *)

(* _load_graph: the nodes that are no sources, and the pairs of them that
   an edge ties. *)
KvKnowledge(g) == {n \in g.nodes : n.kind # "source"}
KvTies(g) ==
    LET ids == {n.id : n \in KvKnowledge(g)} IN
    {{e.from, e.to} : e \in {d \in g.edges : /\ d.kind \in {"WIKILINK", "SHARES_SOURCE"}
                                              /\ {d.from, d.to} \subseteq ids
                                              /\ d.from # d.to}}

(* The keywords found in the text of a node. *)
KvWordsOf(n) == IF n.rev = 0 THEN {n.id[2]} ELSE kvRevs[n.rev].text.words

(* _communities: Louvain splits each connected component; the communities
   a split gives, which maps each node to one of its community. *)
KvSplits(g) ==
    LET ids == {n.id : n \in KvKnowledge(g)}
        ties == KvTies(g)
        closed == {c \in SUBSET ids : \A t \in ties : t \subseteq c \/ t \cap c = {}}
        led(heads) == {[i \in ids |-> IF i \in heads THEN i ELSE f[i]] : f \in [ids \ heads -> heads]}
    IN {split \in UNION {led(heads) : heads \in SUBSET ids} :
          \A c \in closed : \A i \in c : split[i] \in c}
KvCommunities(split) == {{i \in DOMAIN split : split[i] = r} : r \in Range(split)}

(* _align_goal: how far the keywords of a capability are in some node. *)
KvAlignment(capability, g) ==
    LET matched == Cardinality(capability \cap UNION {KvWordsOf(n) : n \in KvKnowledge(g)}) IN
    CASE 4 * matched >= 3 * Cardinality(capability) -> "covered"
      [] 4 * matched >= Cardinality(capability)     -> "learning"
      [] OTHER                                      -> "gap"

(* A bridge is tied to a node of another community. *)
KvBridges(split, ties) == UNION {t \in ties : \E i, j \in t : split[i] # split[j]}

(* Fewer than 15 % of the pairs in a community of three or more are tied. *)
KvSparse(community, ties) ==
    LET size == Cardinality(community) IN
    /\ size >= 3
    /\ 200 * Cardinality({t \in ties : t \subseteq community}) < 15 * size * (size - 1)

KvInsight(kind, about) == [kind |-> kind, about |-> about]

(* _insights: missing concepts, isolated nodes, nodes tied to another
   community, sparse communities, capabilities that are not covered. *)
KvInsights(g, goal, split) ==
    LET ties == KvTies(g)
        nodes == KvKnowledge(g) IN
    {KvInsight("missing_concept", {n.id}) : n \in {m \in nodes : m.rev = 0}}
    \cup {KvInsight("isolated_node", {n.id}) : n \in {m \in nodes : \A t \in ties : m.id \notin t}}
    \cup {KvInsight("bridge_node", {i}) : i \in KvBridges(split, ties)}
    \cup {KvInsight("sparse_community", c) : c \in {d \in KvCommunities(split) : KvSparse(d, ties)}}
    \cup {KvInsight("capability_gap", {<<KvAlignment(c, g), c>>}) :
            c \in {d \in goal.capabilities : KvAlignment(d, g) # "covered"}}

(* _insert. *)
KvAnalysis(g, goal, status, insights) ==
    [graph |-> g.pages, goal |-> goal, status |-> status, insights |-> insights]

(* analyze: one row per graph and goal, kept unless forced; a failure rolls
   the insights back and leaves the row in error. *)
KvAnalyzed(g, goal, force, split, ok) ==
    LET old == {a \in kvAnalyses : a.graph = g.pages /\ a.goal = goal} IN
    IF ~force /\ \E a \in old : a.status = "ready" THEN kvAnalyses
    ELSE (kvAnalyses \ old) \cup
         {IF ok THEN KvAnalysis(g, goal, "ready", KvInsights(g, goal, split))
          ELSE KvAnalysis(g, goal, "error", UNION {a.insights : a \in old})}

(* analyze_graph: the goal is read before the lock is taken, *)
KvReadGoalToAnalyze ==
    /\ kvAsked = {}
    /\ kvGoal.text.valid
    /\ kvAsked' = {kvGoal.text}
    /\ KvRequest(FALSE)
    /\ UNCHANGED <<kvIndexVars, kvSearchVars, kvGraphs, kvAnalyses, kvGoal>>

(* then a ready snapshot is analysed: the one that was asked for, or the
   one of the current pages. *)
KvAnalyze(named, force, built, ok) ==
    /\ kvAsked # {}
    /\ kvAsked' = {}
    /\ KvUnlessFault(~built \/ ~ok)
    /\ kvGraphs' = IF named = {} THEN KvEnsured(built) ELSE kvGraphs
    /\ LET found == IF named = {} THEN {g \in kvGraphs' : g.pages = kvPages} ELSE named IN
       IF \E g \in found : g.status = "ready"
       THEN \E g \in found, goal \in kvAsked : \E split \in KvSplits(g) :
                kvAnalyses' = KvAnalyzed(g, goal, force, split, ok)
       ELSE UNCHANGED kvAnalyses
    /\ UNCHANGED <<kvIndexVars, kvSearchVars, kvGoal>>

--------------------
KvDefaultGoal == [valid |-> TRUE, capabilities |-> {}]

KvInit ==
    /\ kvRevs = <<>>
    /\ kvPages = [p \in KvPages |-> 0]
    /\ kvChunks = {} /\ kvActive = {} /\ kvIndexed = {}
    /\ kvQuery = KvNoQuery /\ kvAnswer = KvNoBundle /\ kvLearnings = {}
    /\ kvGraphs = {} /\ kvAnalyses = {} /\ kvAsked = {}
    /\ kvGoal = [text |-> KvDefaultGoal, head |-> KvDefaultGoal, read |-> KvDefaultGoal]
    /\ kvCount = [faults |-> 0, requests |-> 0]

KvNext ==
    \/ \E p \in KvPages, t \in KvTexts, ok \in BOOLEAN : KvApply(p, t, ok)
    \/ \E force \in BOOLEAN, failed \in SUBSET DOMAIN kvRevs : KvBackfill(force, failed)
    \/ \E sources \in {{}} \cup {{kvRevs[r].text.source} : r \in DOMAIN kvRevs},
          revisions \in {{}} \cup {{r} : r \in kvChunks} :
            \E found \in SUBSET KvSearchable(sources, revisions) : KvSearch(sources, revisions, found)
    \/ \E similar \in SUBSET KvSearchable(kvQuery.sources, kvQuery.revisions) : KvSearchDense(similar)
    \/ KvRetrieve
    \/ \E cites \in SUBSET ToSet(kvAnswer.items) : KvLearn(cites)
    \/ \E l \in kvLearnings : KvJudge(l) \/ \E ok \in BOOLEAN : KvApproveLearning(l, ok)
    \/ \E force, ok \in BOOLEAN : KvRebuildGraph(force, ok)
    \/ KvReadGoal \/ KvGoalCommitted \/ KvReadGoalToAnalyze
    \/ \E text \in KvGoals : KvGoalEdited(text)
    \/ \E text \in KvGoals, outcome \in {"done", "failed", "crash"} : KvUpdateGoal(text, outcome)
    \/ \E named \in {{}} \cup {{g} : g \in kvGraphs}, force, built, ok \in BOOLEAN :
            KvAnalyze(named, force, built, ok)

KvSpec == KvInit /\ [][KvNext]_kvVars

KvTypeOK ==
    /\ kvPages \in [KvPages -> 0..KvMaxRevs]
    /\ kvActive \subseteq kvChunks /\ kvIndexed \subseteq kvChunks
    /\ kvChunks \subseteq DOMAIN kvRevs
    /\ \A g, h \in kvGraphs : g.pages = h.pages => g = h
    /\ \A a, b \in kvAnalyses : a.graph = b.graph /\ a.goal = b.goal => a = b
    /\ kvCount.faults <= KvMaxFaults

--------------------
(* A snapshot that is served shows the pages it is of: its nodes are theirs
   and what its edges cite are revisions of these pages, also when the
   index lagged behind them while it was built; whoever pages through the
   overview meets every node, and a neighborhood has the nodes of its edges
   (rebuild, overview, neighborhood). *)
KvGraphsAreTrue ==
    \A g \in kvGraphs : g.status = "ready" =>
        /\ g.nodes = KvNodes(g.pages)
        /\ \A e \in g.edges : /\ e.evidence # {}
                               /\ \A c \in e.evidence : g.pages[kvRevs[c[1]].page] = c[1]
        /\ \A n \in g.nodes : LET around == KvNeighborhood(g, n.id) IN
              \A e \in around.edges : {e.from, e.to} \subseteq {m.id : m \in around.nodes}
        /\ LET page(k) == KvOverview(g, ToSet(KvKindsInOrder), 2 * k, 2)
               last == CHOOSE k \in 0..Cardinality(g.nodes) : page(k).next = {}
           IN UNION {page(k).nodes : k \in 0..last} = g.nodes

(* The gaps an analysis reports are those of its graph and its goal, also
   when the graph was rebuilt or the goal changed meanwhile (analyze). *)
KvAnalysesAreTrue ==
    \A a \in kvAnalyses : a.status = "ready" => \E g \in kvGraphs :
        /\ g.pages = a.graph
        /\ {i \in a.insights : i.kind \in {"missing_concept", "capability_gap"}}
             = {i \in KvInsights([g EXCEPT !.nodes = KvNodes(a.graph), !.edges = {}], a.goal,
                                 [n \in {m.id : m \in KvNodes(a.graph)} |-> n]) :
                    i.kind \in {"missing_concept", "capability_gap"}}

(* An answer never overruns its budget and is the beginning of the ranking;
   the best hit is always in it (assemble_retrieval_bundle). *)
KvAnswerFits ==
    /\ kvAnswer.used <= KvBudget
    /\ IsPrefix(kvAnswer.items, kvAnswer.hits)
    /\ kvAnswer.hits # <<>> => kvAnswer.items # <<>>

(* A learning takes in an outdated citation only when the indexing of some
   revision has failed, however long ago its citations were retrieved
   (resolve_citations). *)
KvDepositsCurrent == kvCount.faults = 0 => \A l \in kvLearnings : l.current

(* What is derived from the pages and served is true of them. *)
KvViewsHold == KvGraphsAreTrue /\ KvAnalysesAreTrue /\ KvAnswerFits /\ KvDepositsCurrent
====
