---- MODULE MCKnowledge ----
(* The knowledge service: ingestion jobs, source synchronisation, the
   proposals and revisions of the store, the views derived from them and
   the review of new sources.  Each keeps its own tables, and what one
   hands to another is a nondeterministic input of the other's model; so
   every behaviour is one of a single component, the one that part names. *)
EXTENDS IngestJobs, SourceSync, KnowledgeStore, KnowledgeViews, SourceProposals, TLC

CONSTANTS i1, i2, j1, j2, k1, q1

VARIABLE part

\* Two jobs that carry the same change.
JobOfItem == [i \in Items |-> IF i = i1 THEN j1 ELSE j2]
KeyOfItem == [i \in Items |-> k1]

\* A source with a file at the root and a file in a directory.
RootAndDirectory == {Paths, Paths \ {q1}}

\* Two pages of one source, a page of its own kind and a concept.  One text
\* links to the other and to a page that is missing, and is longer than what
\* a retrieval may return; the other has headings only and links to itself.
\* A learning is of agent material.  A goal may concern the second page and
\* something nobody wrote about; purpose.md may also be broken.
ViewKinds == [p \in KvPages |-> IF p = 1 THEN "page" ELSE "concept"]
Heading == [heading |-> TRUE, tokens |-> 1]
Paragraph(n) == [heading |-> FALSE, tokens |-> n]
Text(source, names, links, blocks) ==
    [source |-> source, original |-> source = 1, names |-> names, words |-> names,
     links |-> links, blocks |-> blocks]
ViewTexts == {Text(1, {1}, {2, 3}, <<Heading, Paragraph(3)>>), Text(1, {2}, {2}, <<Heading>>)}
ViewLearning == Text(2, {4}, {}, <<Paragraph(1)>>)
UserGoals == {[valid |-> TRUE, capabilities |-> {}], [valid |-> TRUE, capabilities |-> {{2, 5}}],
              [valid |-> FALSE, capabilities |-> {}]}

\* Two workers, two revisions and two reviewers are interchangeable, and as
\* one component moves they may be exchanged together; so are the two jobs,
\* with their items.
Pairs == {Workers, Revisions, Actors}
JobPairs == {Items, Jobs}
AllPairs == Pairs \cup JobPairs
Partner(x) == CHOOSE y \in UNION AllPairs : y # x /\ \E S \in AllPairs : {x, y} \subseteq S
Exchange(chosen) == [x \in UNION AllPairs |-> IF x \in UNION chosen THEN Partner(x) ELSE x]
Symmetry == {Exchange(chosen) : chosen \in {{}, Pairs, JobPairs, AllPairs}}

allVars == <<part, vars, ssVars, kbVars, kvVars, spVars>>

\* The initial states of a component are enumerated where it moves.
KnowledgeInit ==
    /\ part \in {"ingest", "sync", "store", "views", "sources"}
    /\ Init /\ SsInit /\ KbInit /\ KvInit /\ SpInit
    /\ part # "sync" => disk = [q \in Paths |-> None]
    /\ part # "store" => kbRevs = <<>>
    /\ part # "sources" => spArtifact = "c1"

\* What stays as it is while one component moves.
Others(moving) ==
    /\ IF moving = "ingest" THEN TRUE ELSE UNCHANGED vars
    /\ IF moving = "sync" THEN TRUE ELSE UNCHANGED ssVars
    /\ IF moving = "store" THEN TRUE ELSE UNCHANGED kbVars
    /\ IF moving = "views" THEN TRUE ELSE UNCHANGED kvVars
    /\ IF moving = "sources" THEN TRUE ELSE UNCHANGED spVars

KnowledgeNext ==
    /\ UNCHANGED part
    /\ \/ part = "ingest"  /\ Next   /\ Others("ingest")
       \/ part = "sync"    /\ SsNext /\ Others("sync")
       \/ part = "store"   /\ KbNext /\ Others("store")
       \/ part = "views"   /\ KvNext /\ Others("views")
       \/ part = "sources" /\ SpNext /\ Others("sources")

KnowledgeSpec == KnowledgeInit /\ [][KnowledgeNext]_allVars

--------------------
\* The types of the components' state.
KnowledgeTypeOK ==
    /\ part = "ingest" => TypeOK
    /\ part = "sync" => SsTypeOK
    /\ part = "store" => KbTypeOK
    /\ part = "views" => KvTypeOK
    /\ part = "sources" => SpTypeOK
====
