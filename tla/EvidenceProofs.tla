---- MODULE EvidenceProofs ----
(* Proofs about what is kept of what was read, for every number of
   writers, rows, workers, documents, lines and cells.

   The rows and exports of a session never go back: who holds the lock
   replaces a file only by a later one.  The ticket of a document parsed
   outside tells what became of it: a worker acts on what the ticket says.

   The blocks of a parsed document are its source in order: what a loop
   adds to FlattenSeq is added at its end, the headings in force are the
   last of each level as long as no level is left out, and a text of HTML
   is in one place of the collector's at a time.

   What is derived from the pages of the wiki is true of them.  A page's
   revisions never change, so a snapshot, and an analysis that outlives
   it, stay true of the revisions they were made of (KvShown).  As long as
   no indexing failed only current revisions are active (KvBase), whatever
   order a backfill takes; that is why a learning that cites what is
   active cites what is current. *)
EXTENDS ContextProofs, EvidenceStore, ExternalParsing, DocumentBlocks, KnowledgeViews,
        FiniteSetTheorems, SequenceTheorems, TLAPS

--------------------
(* The evidence of a session: transcripts, tool results, exports. *)

\* Prefixes, element by element.
LEMMA EvPrefix ==
  ASSUME NEW S, NEW p \in Seq(S), NEW q \in Seq(S)
  PROVE  IsPrefix(p, q) <=> Len(p) <= Len(q) /\ \A i \in 1..Len(p) : p[i] = q[i]
<1>1. Len(p) \in Nat /\ Len(q) \in Nat OBVIOUS
<1>2. CASE Len(p) <= Len(q)
 <2>1. SubSeq(p, 1, Len(p)) = p OBVIOUS
 <2>2. /\ Len(SubSeq(q, 1, Len(p))) = Len(p) /\ SubSeq(q, 1, Len(p)) \in Seq(S)
       /\ \A i \in 1..Len(p) : SubSeq(q, 1, Len(p))[i] = q[i] BY <1>1, <1>2
 <2>3. PICK r \in Seq(S) : r = SubSeq(q, 1, Len(p)) BY <2>2
 <2>4. p = r <=> \A i \in 1..Len(p) : p[i] = r[i] BY <2>2, <2>3
 <2> QED BY <1>2, <2>1, <2>2, <2>3, <2>4 DEF IsPrefix
<1>3. CASE ~(Len(p) <= Len(q)) BY <1>3 DEF IsPrefix
<1> QED BY <1>2, <1>3

\* Prefixes of prefixes, and of what has grown.
LEMMA EvPrefixes ==
  ASSUME NEW S, NEW p \in Seq(S), NEW q \in Seq(S), NEW r \in Seq(S)
  PROVE  /\ IsPrefix(p, p) /\ IsPrefix(<<>>, p)
         /\ IsPrefix(p, q) /\ IsPrefix(q, r) => IsPrefix(p, r)
         /\ IsPrefix(p, r) /\ IsPrefix(q, r) /\ Len(p) <= Len(q) => IsPrefix(p, q)
         /\ IsPrefix(p, q) => Len(p) <= Len(q)
<1>1. Len(p) \in Nat /\ Len(q) \in Nat /\ Len(r) \in Nat /\ <<>> \in Seq(S) OBVIOUS
<1>2. IsPrefix(p, p) /\ IsPrefix(<<>>, p)
 <2>1. IsPrefix(p, p) BY <1>1, EvPrefix
 <2>2. PICK e \in Seq(S) : e = <<>> BY <1>1
 <2>3. Len(e) = 0 BY <2>2
 <2>4. IsPrefix(e, p) <=> Len(e) <= Len(p) /\ \A i \in 1..Len(e) : e[i] = p[i] BY EvPrefix
 <2>5. IsPrefix(e, p) BY <1>1, <2>3, <2>4
 <2> QED BY <2>1, <2>2, <2>5
<1>3. ASSUME IsPrefix(p, q), IsPrefix(q, r) PROVE IsPrefix(p, r)
 <2>1. Len(p) <= Len(q) /\ (\A i \in 1..Len(p) : p[i] = q[i]) BY <1>3, EvPrefix
 <2>2. Len(q) <= Len(r) /\ \A i \in 1..Len(q) : q[i] = r[i] BY <1>3, EvPrefix
 <2>3. Len(p) <= Len(r) /\ \A i \in 1..Len(p) : p[i] = r[i] BY <1>1, <2>1, <2>2
 <2> QED BY <2>3, EvPrefix
<1>4. ASSUME IsPrefix(p, r), IsPrefix(q, r), Len(p) <= Len(q) PROVE IsPrefix(p, q)
 <2>1. \A i \in 1..Len(p) : p[i] = r[i] BY <1>4, EvPrefix
 <2>2. \A i \in 1..Len(q) : q[i] = r[i] BY <1>4, EvPrefix
 <2>3. \A i \in 1..Len(p) : p[i] = q[i] BY <1>1, <1>4, <2>1, <2>2
 <2> QED BY <1>4, <2>3, EvPrefix
<1> QED BY <1>2, <1>3, <1>4, EvPrefix

EvRow == EvIds \X EvValues

\* The rows of a transcript: no message id twice.
EvRowsOK(rows) ==
  /\ rows \in Seq(EvRow) /\ Len(rows) <= EvMaxRows
  /\ \A i, j \in DOMAIN rows : rows[i][1] = rows[j][1] => i = j

\* A file that holds a snapshot of the transcript, or none.
EvSnapshots(rows) == {EvNoFile} \cup {File(r) : r \in {s \in Seq(EvRow) : IsPrefix(s, rows)}}

\* A file with which no publication is lost.
EvKeeps(f, published) ==
  IF f = EvNoFile THEN published = <<>> ELSE IsPrefix(published, f.content)

\* What an exporter holds at each of its steps.
EvProcOK(f, rows, published, export) ==
  /\ f.payload \in Seq(EvRow) /\ IsPrefix(f.payload, rows)
  /\ f.at \in {"snapshot", "written", "backed", "replaced"} =>
       /\ IsPrefix(published, f.payload)
       /\ f.target \in EvSnapshots(rows) /\ EvKeeps(f.target, published)
  /\ f.at \in {"written", "backed"} => f.tmp = File(f.payload) /\ f.synced
  /\ f.at = "replaced" => export = File(f.payload) /\ f.synced

EvStates == {"idle", "locked", "snapshot", "written", "backed", "replaced", "cleanup", "preserve"}

EvProcs == [at : EvStates, payload : Seq(EvRow), target : {EvNoFile} \cup [content : Seq(EvRow)],
            tmp : {EvNoFile} \cup [content : Seq(EvRow)], synced : BOOLEAN,
            backup : {EvNoFile} \cup [content : Seq(EvRow)]]

\* Files on disk and the exporters, of whom one has the lock.
EvFilesHold ==
  /\ evExport \in EvSnapshots(evRows) /\ EvKeeps(evExport, evPublished)
  /\ evDisk \in EvSnapshots(evRows) /\ EvKeeps(evDisk, evPublished)
  /\ evPublished \in Seq(EvRow) /\ IsPrefix(evPublished, evRows)
  /\ evBackups \subseteq EvSnapshots(evRows)
  /\ evLock \subseteq EvExporters
  /\ evProc \in [EvExporters -> EvProcs]
  /\ \A p \in EvExporters : evProc[p].at # "idle" => evLock = {p}
  /\ \A p \in EvExporters : EvProcOK(evProc[p], evRows, evPublished, evExport)

\* An archive under way.
EvArchiveHolds ==
  /\ evArtifact \in {"absent", "plain", "described"} /\ evSidecar \in {"none", "own", "earlier"}
  /\ evArchiving \in [at : {"idle", "content", "sidecar"}, meta : BOOLEAN, cut : BOOLEAN]
  /\ evArchiving.at = "content" /\ ~evArchiving.meta => evSidecar = "none"
  /\ evArchiving.at = "sidecar" => evArtifact = "described"
  /\ EvSidecarFits

EvInv == EvRowsOK(evRows) /\ EvAnswersHold /\ EvFilesHold /\ EvArchiveHolds

\* A file that holds a snapshot holds one of the transcript after it has grown.
LEMMA EvSnapshotsGrow ==
  ASSUME NEW a \in Seq(EvRow), NEW b \in Seq(EvRow), IsPrefix(a, b)
  PROVE  EvSnapshots(a) \subseteq EvSnapshots(b)
<1>1. \A s \in Seq(EvRow) : IsPrefix(s, a) => IsPrefix(s, b) BY EvPrefixes
<1> QED BY <1>1 DEF EvSnapshots

\* Snapshots are files, and what is in them is a sequence of rows.
LEMMA EvSnapshotIs ==
  ASSUME EvAssumption, NEW rows \in Seq(EvRow), NEW f \in EvSnapshots(rows)
  PROVE  /\ f \in {EvNoFile} \cup [content : Seq(EvRow)]
         /\ f # EvNoFile => f.content \in Seq(EvRow) /\ IsPrefix(f.content, rows) /\ f.content # Torn
<1>1. \A r \in Seq(EvRow) : File(r) \in [content : Seq(EvRow)] /\ File(r).content = r BY DEF File
<1>2. Torn \notin Seq(EvRow) BY DEF EvAssumption, EvRow
<1> QED BY <1>1, <1>2 DEF EvSnapshots

\* A payload's file is a snapshot.
LEMMA EvPayloadFile ==
  ASSUME EvAssumption, NEW rows \in Seq(EvRow), NEW r \in Seq(EvRow), IsPrefix(r, rows)
  PROVE  File(r) \in EvSnapshots(rows) /\ File(r) # EvNoFile /\ File(r).content = r
         /\ File(r) \in [content : Seq(EvRow)]
<1>1. File(r) \in [content : Seq(EvRow)] /\ File(r).content = r BY DEF File
<1>2. File(r) # EvNoFile BY <1>1 DEF EvAssumption, EvRow
<1> QED BY <1>1, <1>2 DEF EvSnapshots

\* A stored item has one place, and a known id is not stored again.
LEMMA EvInsert ==
  ASSUME EvAssumption, NEW rows, EvRowsOK(rows), NEW item \in EvRow,
         ~Conflicts(rows, item), Len(Inserted(rows, item)) <= EvMaxRows
  PROVE  LET new == Inserted(rows, item)
         IN  /\ EvRowsOK(new) /\ IsPrefix(rows, new)
             /\ SequenceOf(new, item) \in DOMAIN new /\ new[SequenceOf(new, item)] = item
<1>1. PICK new : new = Inserted(rows, item) OBVIOUS
<1>2. rows \in Seq(EvRow) /\ Len(rows) \in Nat /\ DOMAIN rows = 1..Len(rows) BY DEF EvRowsOK
<1>3. /\ new \in Seq(EvRow) /\ Len(new) \in Nat /\ DOMAIN new = 1..Len(new)
      /\ \A i \in 1..Len(rows) : new[i] = rows[i] /\ Len(rows) <= Len(new)
      /\ Len(rows) <= Len(new) BY <1>1, <1>2 DEF Inserted
<1>4. IsPrefix(rows, new) BY <1>2, <1>3, EvPrefix
<1>5. \A i, j \in DOMAIN new : new[i][1] = new[j][1] => i = j
 <2>1. CASE Stored(rows, item[1]) = {}
  <3>1. new = Append(rows, item) /\ Len(new) = Len(rows) + 1 /\ new[Len(rows) + 1] = item
    BY <1>1, <1>2, <2>1 DEF Inserted
  <3>2. \A i \in 1..Len(rows) : new[i] = rows[i] /\ rows[i][1] # item[1]
    BY <1>2, <1>3, <2>1 DEF Stored
  <3>3. \A i, j \in 1..Len(rows) : rows[i][1] = rows[j][1] => i = j BY <1>2 DEF EvRowsOK
  <3> QED BY <1>2, <1>3, <3>1, <3>2, <3>3
 <2>2. CASE Stored(rows, item[1]) # {}
  <3>1. new = rows BY <1>1, <2>2 DEF Inserted
  <3> QED BY <3>1 DEF EvRowsOK
 <2> QED BY <2>1, <2>2
<1>6. PICK k \in DOMAIN new : new[k] = item
 <2>1. CASE Stored(rows, item[1]) = {}
  <3>1. new = Append(rows, item) BY <1>1, <2>1 DEF Inserted
  <3> QED BY <1>2, <1>3, <3>1
 <2>2. CASE Stored(rows, item[1]) # {}
  <3>1. new = rows BY <1>1, <2>2 DEF Inserted
  <3>2. PICK k \in DOMAIN rows : rows[k][1] = item[1] BY <2>2 DEF Stored
  <3>3. rows[k] = item BY <3>2 DEF Conflicts, Stored
  <3> QED BY <3>1, <3>3
 <2> QED BY <2>1, <2>2
<1>7. \A i \in Stored(new, item[1]) : i = k BY <1>5, <1>6 DEF Stored
<1>8. SequenceOf(new, item) = k BY <1>6, <1>7 DEF SequenceOf, Stored
<1> QED BY <1>1, <1>3, <1>4, <1>5, <1>6, <1>8 DEF EvRowsOK

\* What was answered and what is on disk stand when the transcript grows.
LEMMA EvGrow ==
  ASSUME EvAssumption, EvInv, NEW rows, EvRowsOK(rows), IsPrefix(evRows, rows),
         evRows' = rows, UNCHANGED <<evExports, evResults>>,
         \A a \in evAnswers' : a \in evAnswers \/ (a[3] \in DOMAIN rows /\ rows[a[3]] = <<a[1], a[2]>>)
  PROVE  EvInv'
<1>1. /\ evRows \in Seq(EvRow) /\ rows \in Seq(EvRow) /\ EvAnswersHold /\ EvFilesHold
      /\ Len(evRows) \in Nat /\ Len(rows) \in Nat
      /\ DOMAIN evRows = 1..Len(evRows) /\ DOMAIN rows = 1..Len(rows) BY DEF EvInv, EvRowsOK
<1>2. Len(evRows) <= Len(rows) /\ \A i \in 1..Len(evRows) : rows[i] = evRows[i] BY <1>1, EvPrefix
<1>3. \A a \in evAnswers : a[3] \in DOMAIN rows /\ rows[a[3]] = <<a[1], a[2]>>
  BY <1>1, <1>2 DEF EvAnswersHold, Row
<1>4. EvAnswersHold' BY <1>3 DEF EvAnswersHold, Row
<1>5. /\ UNCHANGED <<evExport, evDisk, evBackups, evLock, evProc, evPublished>>
      /\ UNCHANGED <<evArtifact, evSidecar, evArchiving>> BY DEF evExports, evResults
<1>6. EvSnapshots(evRows) \subseteq EvSnapshots(rows) BY <1>1, EvSnapshotsGrow
<1>7. \A s \in Seq(EvRow) : IsPrefix(s, evRows) => IsPrefix(s, rows) BY <1>1, EvPrefixes
<1>8. \A p \in EvExporters : EvProcOK(evProc[p], rows, evPublished, evExport)
  BY <1>1, <1>6, <1>7 DEF EvFilesHold, EvProcOK
<1>9. EvFilesHold' BY <1>1, <1>5, <1>6, <1>7, <1>8 DEF EvFilesHold
<1>10. EvArchiveHolds' BY <1>5 DEF EvInv, EvArchiveHolds, EvSidecarFits
<1> QED BY <1>4, <1>9, <1>10 DEF EvInv

\* A step of the exporter that has the lock, or takes it.
LEMMA EvMove ==
  ASSUME EvAssumption, EvInv, NEW p \in EvExporters, NEW f \in EvProcs,
         evProc' = [evProc EXCEPT ![p] = f], UNCHANGED <<evTranscript, evResults>>,
         \A q \in EvExporters \ {p} : evProc[q].at = "idle",
         evExport' \in EvSnapshots(evRows), EvKeeps(evExport', evPublished'),
         evDisk' \in EvSnapshots(evRows), EvKeeps(evDisk', evPublished'),
         evPublished' \in Seq(EvRow), IsPrefix(evPublished', evRows),
         evBackups' \subseteq EvSnapshots(evRows),
         evLock' \subseteq EvExporters, f.at # "idle" => evLock' = {p},
         EvProcOK(f, evRows, evPublished', evExport')
  PROVE  EvInv'
<1>1. EvRowsOK(evRows) /\ EvAnswersHold /\ EvFilesHold /\ EvArchiveHolds BY DEF EvInv
<1>2. UNCHANGED <<evRows, evAnswers>> /\ UNCHANGED <<evArtifact, evSidecar, evArchiving>>
  BY DEF evTranscript, evResults
<1>3. EvRowsOK(evRows)' /\ EvAnswersHold' /\ EvArchiveHolds'
  BY <1>1, <1>2 DEF EvRowsOK, EvAnswersHold, EvArchiveHolds, EvSidecarFits
<1>4. evProc \in [EvExporters -> EvProcs] BY <1>1 DEF EvFilesHold
<1>5. evProc' \in [EvExporters -> EvProcs]
      /\ \A q \in EvExporters : evProc'[q] = IF q = p THEN f ELSE evProc[q] BY <1>4
<1>6. \A q \in EvExporters : evProc'[q].at # "idle" => evLock' = {q} BY <1>5
<1>7. \A q \in EvExporters : EvProcOK(evProc'[q], evRows, evPublished', evExport')
 <2>1. ASSUME NEW q \in EvExporters, q # p
       PROVE  EvProcOK(evProc[q], evRows, evPublished', evExport')
  <3>1. EvProcOK(evProc[q], evRows, evPublished, evExport) /\ evProc[q].at = "idle"
    BY <1>1, <2>1 DEF EvFilesHold
  <3> QED BY <3>1 DEF EvProcOK
 <2> QED BY <1>5, <2>1
<1>8. EvFilesHold' BY <1>2, <1>5, <1>6, <1>7 DEF EvFilesHold
<1> QED BY <1>3, <1>8 DEF EvInv

\* The exporter at work has the lock, so every other one is idle.
LEMMA EvAlone ==
  ASSUME EvInv, NEW p \in EvExporters, evProc[p].at # "idle" \/ evLock = {}
  PROVE  \A q \in EvExporters \ {p} : evProc[q].at = "idle"
<1>1. \A q \in EvExporters : evProc[q].at # "idle" => evLock = {q} BY DEF EvInv, EvFilesHold
<1> QED BY <1>1

\* What is on disk keeps what is published, whichever steps follow.
LEMMA EvFacts ==
  ASSUME EvAssumption, EvInv
  PROVE  /\ evRows \in Seq(EvRow) /\ evPublished \in Seq(EvRow) /\ IsPrefix(evPublished, evRows)
         /\ evExport \in EvSnapshots(evRows) /\ EvKeeps(evExport, evPublished)
         /\ evDisk \in EvSnapshots(evRows) /\ EvKeeps(evDisk, evPublished)
         /\ evBackups \subseteq EvSnapshots(evRows) /\ evLock \subseteq EvExporters
         /\ IsPrefix(<<>>, evRows) /\ IsPrefix(evRows, evRows) /\ <<>> \in Seq(EvRow)
         /\ \A p \in EvExporters : /\ evProc[p] \in EvProcs
                                   /\ EvProcOK(evProc[p], evRows, evPublished, evExport)
                                   /\ evProc[p].at # "idle" => evLock = {p}
<1>1. evRows \in Seq(EvRow) /\ EvFilesHold BY DEF EvInv, EvRowsOK
<1>2. IsPrefix(<<>>, evRows) /\ IsPrefix(evRows, evRows) BY <1>1, EvPrefixes
<1> QED BY <1>1, <1>2 DEF EvFilesHold

\* An exporter that holds nothing.
LEMMA EvIdle ==
  ASSUME EvAssumption, EvInv, NEW published, NEW export, NEW at \in {"idle", "locked"}
  PROVE  /\ [IdleExporter EXCEPT !.at = at] \in EvProcs /\ IdleExporter \in EvProcs
         /\ EvProcOK([IdleExporter EXCEPT !.at = at], evRows, published, export)
         /\ EvProcOK(IdleExporter, evRows, published, export)
         /\ [IdleExporter EXCEPT !.at = at].at = at /\ IdleExporter.at = "idle"
<1>1. <<>> \in Seq(EvRow) /\ IsPrefix(<<>>, evRows) BY EvFacts
<1> QED BY <1>1 DEF IdleExporter, EvProcs, EvStates, EvProcOK

\* An exporter before its rename.
LEMMA EvPrepares ==
  ASSUME EvAssumption, EvInv, NEW p \in EvExporters,
         EvLock(p) \/ EvSnapshot(p) \/ EvWriteTemp(p) \/ EvBackup(p) \/ EvFailBefore(p)
  PROVE  EvInv'
<1>1. /\ evRows \in Seq(EvRow) /\ evPublished \in Seq(EvRow) /\ IsPrefix(evPublished, evRows)
      /\ evExport \in EvSnapshots(evRows) /\ EvKeeps(evExport, evPublished)
      /\ evDisk \in EvSnapshots(evRows) /\ EvKeeps(evDisk, evPublished)
      /\ evBackups \subseteq EvSnapshots(evRows) /\ evLock \subseteq EvExporters
      /\ IsPrefix(evRows, evRows) BY EvFacts
<1>2. /\ evProc[p] \in EvProcs /\ EvProcOK(evProc[p], evRows, evPublished, evExport)
      /\ evProc[p].at # "idle" => evLock = {p} BY EvFacts
<1>3. CASE EvLock(p)
 <2>1. PICK f : f = [IdleExporter EXCEPT !.at = "locked"] OBVIOUS
 <2>2. /\ evLock = {} /\ evLock' = {p} /\ evProc' = [evProc EXCEPT ![p] = f]
       /\ UNCHANGED <<evTranscript, evResults, evExport, evDisk, evBackups, evPublished>>
   BY <1>3, <2>1 DEF EvLock, Free, Step, Set
 <2>3. f \in EvProcs /\ EvProcOK(f, evRows, evPublished, evExport) BY <2>1, EvIdle
 <2> QED BY <1>1, <2>2, <2>3, EvMove, EvAlone
<1>4. CASE EvSnapshot(p)
 <2>1. PICK f : f = [evProc[p] EXCEPT !.payload = evRows, !.target = evExport, !.at = "snapshot"]
   OBVIOUS
 <2>2. /\ evProc[p].at # "idle" /\ evProc' = [evProc EXCEPT ![p] = f]
       /\ UNCHANGED <<evTranscript, evResults, evExport, evDisk, evBackups, evLock, evPublished>>
   BY <1>2, <1>4, <2>1 DEF EvSnapshot, Snapshot, Step, Set, EvProcs
 <2>3. evExport \in {EvNoFile} \cup [content : Seq(EvRow)] BY <1>1, EvSnapshotIs
 <2>4. f \in EvProcs /\ EvProcOK(f, evRows, evPublished, evExport)
   BY <1>1, <1>2, <2>1, <2>3 DEF EvProcs, EvStates, EvProcOK
 <2> QED BY <1>1, <1>2, <2>2, <2>4, EvMove, EvAlone
<1>5. CASE EvWriteTemp(p)
 <2>1. PICK f : f = [evProc[p] EXCEPT !.tmp = File(evProc[p].payload), !.synced = TRUE, !.at = "written"]
   OBVIOUS
 <2>2. /\ evProc[p].at = "snapshot" /\ evProc' = [evProc EXCEPT ![p] = f]
       /\ UNCHANGED <<evTranscript, evResults, evExport, evDisk, evBackups, evLock, evPublished>>
   BY <1>2, <1>5, <2>1 DEF EvWriteTemp, Written, Step, Set, EvProcs
 <2>3. File(evProc[p].payload) \in [content : Seq(EvRow)] BY <1>2 DEF EvProcs, File
 <2>4. f \in EvProcs /\ EvProcOK(f, evRows, evPublished, evExport)
   BY <1>1, <1>2, <2>1, <2>2, <2>3 DEF EvProcs, EvStates, EvProcOK
 <2> QED BY <1>1, <1>2, <2>2, <2>4, EvMove, EvAlone
<1>6. CASE EvBackup(p)
 <2>1. CASE evProc[p].target = EvNoFile
  <3>1. PICK f : f = [evProc[p] EXCEPT !.at = "backed"] OBVIOUS
  <3>2. /\ evProc[p].at = "written" /\ evProc' = [evProc EXCEPT ![p] = f]
        /\ UNCHANGED <<evTranscript, evResults, evExport, evDisk, evBackups, evLock, evPublished>>
    BY <1>6, <2>1, <3>1 DEF EvBackup, Step, Set
  <3>3. f \in EvProcs /\ EvProcOK(f, evRows, evPublished, evExport)
    BY <1>1, <1>2, <3>1, <3>2 DEF EvProcs, EvStates, EvProcOK
  <3> QED BY <1>1, <1>2, <3>2, <3>3, EvMove, EvAlone
 <2>2. CASE evProc[p].target # EvNoFile
  <3>1. PICK f : f = [evProc[p] EXCEPT !.backup = evProc[p].target, !.at = "backed"] OBVIOUS
  <3>2. /\ evProc[p].at = "written" /\ evProc' = [evProc EXCEPT ![p] = f]
        /\ evBackups' = evBackups \cup {evProc[p].target} /\ evDisk' = evExport
        /\ UNCHANGED <<evTranscript, evResults, evExport, evLock, evPublished>>
    BY <1>2, <1>6, <2>2, <3>1 DEF EvBackup, Step, Set, EvProcs
  <3>3. f \in EvProcs /\ EvProcOK(f, evRows, evPublished, evExport)
    BY <1>1, <1>2, <3>1, <3>2 DEF EvProcs, EvStates, EvProcOK
  <3>4. evProc[p].target \in EvSnapshots(evRows) BY <1>2, <3>2 DEF EvProcOK
  <3> QED BY <1>1, <1>2, <3>2, <3>3, <3>4, EvMove, EvAlone
 <2> QED BY <2>1, <2>2
<1>7. CASE EvFailBefore(p)
 <2>1. PICK f : f = [evProc[p] EXCEPT !.at = "cleanup"] OBVIOUS
 <2>2. /\ evProc[p].at # "idle" /\ evProc' = [evProc EXCEPT ![p] = f]
       /\ UNCHANGED <<evTranscript, evResults, evExport, evDisk, evBackups, evLock, evPublished>>
   BY <1>7, <2>1 DEF EvFailBefore, Step, Set
 <2>3. f \in EvProcs /\ EvProcOK(f, evRows, evPublished, evExport)
   BY <1>1, <1>2, <2>1 DEF EvProcs, EvStates, EvProcOK
 <2> QED BY <1>1, <1>2, <2>2, <2>3, EvMove, EvAlone
<1> QED BY <1>3, <1>4, <1>5, <1>6, <1>7

\* An exporter from its rename on.
LEMMA EvCommits ==
  ASSUME EvAssumption, EvInv, NEW p \in EvExporters,
         EvReplace(p) \/ EvSync(p) \/ EvCleanup(p) \/ EvFailSync(p) \/ EvDie(p)
  PROVE  EvInv'
<1>1. /\ evRows \in Seq(EvRow) /\ evPublished \in Seq(EvRow) /\ IsPrefix(evPublished, evRows)
      /\ evExport \in EvSnapshots(evRows) /\ EvKeeps(evExport, evPublished)
      /\ evDisk \in EvSnapshots(evRows) /\ EvKeeps(evDisk, evPublished)
      /\ evBackups \subseteq EvSnapshots(evRows) /\ evLock \subseteq EvExporters BY EvFacts
<1>2. /\ evProc[p] \in EvProcs /\ EvProcOK(evProc[p], evRows, evPublished, evExport)
      /\ evProc[p].at # "idle" => evLock = {p} BY EvFacts
<1>b. evProc[p].at # "idle" => \A q \in EvExporters \ {p} : evProc[q].at = "idle" BY EvAlone
<1>3. PICK payload \in Seq(EvRow) : payload = evProc[p].payload /\ IsPrefix(payload, evRows)
  BY <1>2 DEF EvProcOK
<1>4. /\ File(payload) \in EvSnapshots(evRows) /\ File(payload) # EvNoFile
      /\ File(payload).content = payload /\ IsPrefix(payload, payload)
  BY <1>1, <1>3, EvPayloadFile, EvPrefixes
<1>5. PICK clean : clean = [evProc[p] EXCEPT !.at = "cleanup"] OBVIOUS
<1>6. /\ clean \in EvProcs /\ clean.at = "cleanup"
      /\ \A published, export : EvProcOK(clean, evRows, published, export)
  BY <1>2, <1>5 DEF EvProcs, EvStates, EvProcOK
<1>7. /\ IdleExporter \in EvProcs /\ IdleExporter.at = "idle"
      /\ EvProcOK(IdleExporter, evRows, evPublished, evExport) BY EvIdle
<1>8. CASE EvReplace(p)
 <2>1. PICK f : f = [evProc[p] EXCEPT !.tmp = EvNoFile, !.at = "replaced"] OBVIOUS
 <2>2. /\ evProc[p].at = "backed" /\ evProc' = [evProc EXCEPT ![p] = f]
       /\ evExport' = evProc[p].tmp
       /\ UNCHANGED <<evTranscript, evResults, evDisk, evBackups, evLock, evPublished>>
   BY <1>2, <1>8, <2>1 DEF EvReplace, Step, Set, EvProcs
 <2>3. evProc[p].tmp = File(payload) /\ IsPrefix(evPublished, payload) /\ evProc[p].synced
   BY <1>2, <1>3, <2>2 DEF EvProcOK
 <2>4. f \in EvProcs /\ EvProcOK(f, evRows, evPublished, File(payload))
   BY <1>1, <1>2, <1>3, <2>1, <2>2, <2>3 DEF EvProcs, EvStates, EvProcOK
 <2>5. EvKeeps(File(payload), evPublished) BY <1>4, <2>3 DEF EvKeeps
 <2>6. evLock' = {p} /\ evPublished' = evPublished /\ evBackups' = evBackups BY <1>2, <2>2
 <2> QED BY <1>1, <1>4, <2>2, <2>3, <2>4, <2>5, <2>6, <1>b, EvMove
<1>9. CASE EvSync(p)
 <2>1. /\ evProc[p].at = "replaced" /\ evProc' = [evProc EXCEPT ![p] = clean]
       /\ evDisk' = evExport /\ evPublished' = payload
       /\ UNCHANGED <<evTranscript, evResults, evExport, evBackups, evLock>>
   BY <1>3, <1>5, <1>9 DEF EvSync, Step, Set
 <2>2. evExport = File(payload) BY <1>2, <1>3, <2>1 DEF EvProcOK
 <2>3. EvKeeps(evExport, payload) BY <1>4, <2>2 DEF EvKeeps
 <2> QED BY <1>1, <1>2, <1>3, <1>6, <2>1, <2>3, <1>b, EvMove
<1>10. CASE EvCleanup(p)
 <2>1. /\ evProc[p].at # "idle" /\ evProc' = [evProc EXCEPT ![p] = IdleExporter]
       /\ evBackups' \subseteq evBackups /\ evLock' = evLock \ {p}
       /\ UNCHANGED <<evTranscript, evResults, evExport, evDisk, evPublished>>
   BY <1>10 DEF EvCleanup, Set
 <2> QED BY <1>1, <1>2, <1>7, <2>1, <1>b, EvMove
<1>11. CASE EvFailSync(p)
 <2>1. /\ evProc[p].at = "replaced" /\ RolledBack(p) \in EvSnapshots(evRows)
       /\ EvKeeps(RolledBack(p), evPublished) BY <1>2, <1>11 DEF EvFailSync, EvProcOK, RolledBack
 <2>2. UNCHANGED <<evTranscript, evResults, evBackups, evLock, evPublished>> BY <1>11 DEF EvFailSync
 <2>3. CASE /\ evExport' = RolledBack(p) /\ evDisk' = RolledBack(p)
            /\ evProc' = Step(p, "cleanup", evProc[p])
  <3>1. evProc' = [evProc EXCEPT ![p] = clean] BY <1>5, <2>3 DEF Step, Set
  <3> QED BY <1>1, <1>2, <1>6, <2>1, <2>2, <2>3, <3>1, <1>b, EvMove
 <2>4. CASE /\ evExport' \in {evExport, RolledBack(p)} /\ evDisk' \in {evExport, evDisk}
            /\ evProc' = Step(p, "preserve", evProc[p])
  <3>1. PICK f : f = [evProc[p] EXCEPT !.at = "preserve"] OBVIOUS
  <3>2. evProc' = [evProc EXCEPT ![p] = f] BY <2>4, <3>1 DEF Step, Set
  <3>3. f \in EvProcs /\ \A export : EvProcOK(f, evRows, evPublished, export)
    BY <1>2, <3>1 DEF EvProcs, EvStates, EvProcOK
  <3>4. /\ evExport' \in EvSnapshots(evRows) /\ EvKeeps(evExport', evPublished)
        /\ evDisk' \in EvSnapshots(evRows) /\ EvKeeps(evDisk', evPublished) BY <1>1, <2>1, <2>4
  <3>5. evPublished' = evPublished /\ evBackups' = evBackups /\ evLock' = {p} BY <1>2, <2>1, <2>2
  <3> QED BY <1>1, <2>1, <2>2, <3>2, <3>3, <3>4, <3>5, <1>b, EvMove
 <2> QED BY <1>11, <2>3, <2>4 DEF EvFailSync
<1>12. CASE EvDie(p)
 <2>1. /\ evProc[p].at # "idle" /\ evProc' = [evProc EXCEPT ![p] = IdleExporter]
       /\ evLock' = evLock \ {p}
       /\ UNCHANGED <<evTranscript, evResults, evExport, evDisk, evBackups, evPublished>>
   BY <1>12 DEF EvDie, Set
 <2> QED BY <1>1, <1>2, <1>7, <2>1, <1>b, EvMove
<1> QED BY <1>8, <1>9, <1>10, <1>11, <1>12

\* The machine loses power: no file was renamed before it was synced.
LEMMA EvPower ==
  ASSUME EvAssumption, EvInv, EvPowerLoss
  PROVE  EvInv'
<1>1. EvRowsOK(evRows) /\ EvAnswersHold /\ EvFilesHold /\ EvArchiveHolds BY DEF EvInv
<1>2. \A q \in EvExporters : evProc[q].at = "replaced" => evProc[q].synced
  BY <1>1 DEF EvFilesHold, EvProcOK
<1>3. {File(Torn) : p \in {q \in EvExporters : evProc[q].at = "replaced" /\ ~evProc[q].synced}} = {}
  BY <1>2
<1>4. /\ evExport' \in {evExport, evDisk} /\ evDisk' = evExport'
      /\ evLock' = {} /\ evProc' = [p \in EvExporters |-> IdleExporter]
      /\ UNCHANGED <<evRows, evAnswers, evBackups, evPublished, evArtifact, evSidecar, evArchiving>>
  BY <1>3 DEF EvPowerLoss, evTranscript, evResults
<1>5. EvRowsOK(evRows)' /\ EvAnswersHold' /\ EvArchiveHolds'
  BY <1>1, <1>4 DEF EvRowsOK, EvAnswersHold, EvArchiveHolds, EvSidecarFits
<1>6. /\ IdleExporter \in EvProcs /\ IdleExporter.at = "idle"
      /\ \A export : EvProcOK(IdleExporter, evRows, evPublished, export) BY EvIdle
<1>7. EvFilesHold' BY <1>1, <1>4, <1>6 DEF EvFilesHold
<1> QED BY <1>5, <1>7 DEF EvInv

\* Archives of a tool's result.
LEMMA EvArchives ==
  ASSUME EvAssumption, EvInv, EvArchive \/ EvArchiveContent \/ EvArchiveSidecar \/ EvArchiveStops
  PROVE  EvInv'
<1>1. EvRowsOK(evRows) /\ EvAnswersHold /\ EvFilesHold /\ EvArchiveHolds BY DEF EvInv
<1>2. UNCHANGED <<evRows, evAnswers, evExport, evDisk, evBackups, evLock, evProc, evPublished>>
  BY DEF EvArchive, EvArchiveContent, EvArchiveSidecar, EvArchiveStops, evTranscript, evExports
<1>3. EvRowsOK(evRows)' /\ EvAnswersHold' /\ EvFilesHold'
  BY <1>1, <1>2 DEF EvRowsOK, EvAnswersHold, EvFilesHold
<1>4. EvArchiveHolds'
 <2>1. CASE EvArchive
   BY <1>1, <2>1 DEF EvArchive, EvArchiveHolds, EvSidecarFits, SidecarStays
 <2>2. CASE EvArchiveContent BY <1>1, <2>2 DEF EvArchiveContent, EvArchiveHolds, EvSidecarFits
 <2>3. CASE EvArchiveSidecar BY <1>1, <2>3 DEF EvArchiveSidecar, EvArchiveHolds, EvSidecarFits
 <2>4. CASE EvArchiveStops BY <1>1, <2>4 DEF EvArchiveStops, EvArchiveHolds, EvSidecarFits
 <2> QED BY <2>1, <2>2, <2>3, <2>4
<1> QED BY <1>3, <1>4 DEF EvInv

\* Appending one item, or two in one transaction.
LEMMA EvAppends ==
  ASSUME EvAssumption, EvInv, EvAppend \/ EvAppendMany
  PROVE  EvInv'
<1>1. EvRowsOK(evRows) /\ evRows \in Seq(EvRow) BY DEF EvInv, EvRowsOK
<1>2. CASE EvAppend
 <2>1. PICK item \in EvRow :
         /\ Len(Inserted(evRows, item)) <= EvMaxRows /\ ~Conflicts(evRows, item)
         /\ evRows' = Inserted(evRows, item)
         /\ evAnswers' = evAnswers \cup {<<item[1], item[2], SequenceOf(evRows', item)>>}
         /\ UNCHANGED <<evExports, evResults>> BY <1>2 DEF EvAppend, EvRow
 <2>2. PICK new : new = Inserted(evRows, item) OBVIOUS
 <2>3. /\ EvRowsOK(new) /\ IsPrefix(evRows, new)
       /\ SequenceOf(new, item) \in DOMAIN new /\ new[SequenceOf(new, item)] = item
   BY <1>1, <2>1, <2>2, EvInsert
 <2>4. item = <<item[1], item[2]>> BY DEF EvRow
 <2>5. \A a \in evAnswers' : a \in evAnswers \/ (a[3] \in DOMAIN new /\ new[a[3]] = <<a[1], a[2]>>)
   BY <2>1, <2>2, <2>3, <2>4
 <2> QED BY <2>1, <2>2, <2>3, <2>5, EvGrow
<1>3. CASE EvAppendMany
 <2>1. PICK first \in EvRow, second \in EvRow :
         LET once  == Inserted(evRows, first)
             twice == Inserted(once, second)
         IN  /\ first # second /\ Len(twice) <= EvMaxRows
             /\ ~Conflicts(evRows, first) /\ ~Conflicts(once, second)
             /\ evRows' = twice
             /\ evAnswers' = evAnswers \cup {<<first[1], first[2], SequenceOf(twice, first)>>,
                                             <<second[1], second[2], SequenceOf(twice, second)>>}
             /\ UNCHANGED <<evExports, evResults>> BY <1>3 DEF EvAppendMany, EvRow
 <2>2. PICK once : once = Inserted(evRows, first) OBVIOUS
 <2>3. PICK twice : twice = Inserted(once, second) OBVIOUS
 <2>4. Len(once) <= Len(twice) /\ Len(twice) <= EvMaxRows /\ Len(once) \in Nat
  <3>1. once \in Seq(EvRow) BY <1>1, <2>2 DEF Inserted
  <3>2. twice = once \/ twice = Append(once, second) BY <2>3 DEF Inserted
  <3> QED BY <2>1, <2>2, <2>3, <3>1, <3>2
 <2>5. Len(once) <= EvMaxRows BY <2>4 DEF EvAssumption
 <2>6. /\ EvRowsOK(once) /\ IsPrefix(evRows, once)
       /\ SequenceOf(once, first) \in DOMAIN once /\ once[SequenceOf(once, first)] = first
   BY <1>1, <2>1, <2>2, <2>5, EvInsert
 <2>7. /\ EvRowsOK(twice) /\ IsPrefix(once, twice)
       /\ SequenceOf(twice, second) \in DOMAIN twice /\ twice[SequenceOf(twice, second)] = second
   BY <2>1, <2>2, <2>3, <2>4, <2>6, EvInsert
 <2>8. /\ once \in Seq(EvRow) /\ twice \in Seq(EvRow) BY <2>6, <2>7 DEF EvRowsOK
 <2>9. IsPrefix(evRows, twice) BY <1>1, <2>6, <2>7, <2>8, EvPrefixes
 <2>10. SequenceOf(twice, first) \in DOMAIN twice /\ twice[SequenceOf(twice, first)] = first
  <3>1. PICK k \in DOMAIN once : once[k] = first BY <2>6
  <3>2. k \in DOMAIN twice /\ twice[k] = first BY <2>7, <2>8, <3>1, EvPrefix
  <3>3. \A i \in DOMAIN twice : twice[i][1] = first[1] => i = k BY <2>7, <3>2 DEF EvRowsOK
  <3>4. SequenceOf(twice, first) = k BY <3>2, <3>3 DEF SequenceOf, Stored
  <3> QED BY <3>2, <3>4
 <2>11. first = <<first[1], first[2]>> /\ second = <<second[1], second[2]>> BY DEF EvRow
 <2>12. /\ evRows' = twice /\ UNCHANGED <<evExports, evResults>>
        /\ evAnswers' = evAnswers \cup {<<first[1], first[2], SequenceOf(twice, first)>>,
                                        <<second[1], second[2], SequenceOf(twice, second)>>}
   BY <2>1, <2>2, <2>3
 <2>13. \A a \in evAnswers' :
          a \in evAnswers \/ (a[3] \in DOMAIN twice /\ twice[a[3]] = <<a[1], a[2]>>)
   BY <2>7, <2>10, <2>11, <2>12
 <2> QED BY <2>7, <2>9, <2>12, <2>13, EvGrow
<1> QED BY <1>2, <1>3

\* The invariant holds what the evidence promises.
LEMMA EvMeans ==
  ASSUME EvAssumption, EvInv
  PROVE  EvEvidenceIsKept /\ EvTypeOK
<1>1. /\ evRows \in Seq(EvRow) /\ evPublished \in Seq(EvRow) /\ IsPrefix(evPublished, evRows)
      /\ evExport \in EvSnapshots(evRows) /\ EvKeeps(evExport, evPublished)
      /\ evDisk \in EvSnapshots(evRows) /\ EvKeeps(evDisk, evPublished)
      /\ evBackups \subseteq EvSnapshots(evRows) /\ evLock \subseteq EvExporters BY EvFacts
<1>2. EvExportNeverGoesBack
 <2>1. CASE evExport = EvNoFile BY <1>1, <2>1 DEF EvExportNeverGoesBack, EvKeeps
 <2>2. CASE evExport # EvNoFile BY <1>1, <2>2, EvSnapshotIs DEF EvExportNeverGoesBack, EvKeeps
 <2> QED BY <2>1, <2>2
<1>3. Len(evRows) <= EvMaxRows /\ Len(evRows) \in Nat /\ EvMaxRows \in Nat
  BY <1>1 DEF EvInv, EvRowsOK, EvAssumption
<1>4. \A s \in Seq(EvRow) : IsPrefix(s, evRows) => s \in BoundedSeq(EvRow, EvMaxRows)
 <2>1. ASSUME NEW s \in Seq(EvRow), IsPrefix(s, evRows) PROVE s \in BoundedSeq(EvRow, EvMaxRows)
  <3>1. Len(s) <= Len(evRows) BY <1>1, <2>1, EvPrefix
  <3>2. Len(s) \in 0..EvMaxRows /\ s \in [1..Len(s) -> EvRow] BY <1>3, <3>1
  <3> QED BY <3>2 DEF BoundedSeq, SeqOf
 <2> QED BY <2>1
<1>5. IsPrefix(evRows, evRows) BY EvFacts
<1>6. EvSnapshots(evRows) \subseteq EvFiles BY <1>4 DEF EvSnapshots, EvFiles, EvRow
<1>7. evRows \in BoundedSeq(EvRow, EvMaxRows) /\ evPublished \in BoundedSeq(EvRow, EvMaxRows)
  BY <1>1, <1>4, <1>5
<1>8. EvTypeOK BY <1>1, <1>6, <1>7 DEF EvTypeOK, EvInv, EvArchiveHolds, EvRow
<1> QED BY <1>2, <1>8 DEF EvEvidenceIsKept, EvInv, EvArchiveHolds

\* Before anything is recorded.
LEMMA EvStart == EvAssumption /\ EvInit => EvInv
<1> SUFFICES ASSUME EvAssumption, EvInit PROVE EvInv OBVIOUS
<1>0. <<>> \in Seq(EvRow) OBVIOUS
<1>1. PICK e \in Seq(EvRow) : e = <<>> BY <1>0
<1>2. Len(e) = 0 /\ DOMAIN e = {} /\ IsPrefix(e, e)
 <2>1. Len(e) = 0 /\ DOMAIN e = {} BY <1>1
 <2> QED BY <2>1, EvPrefixes
<1>3. EvRowsOK(e) BY <1>2 DEF EvRowsOK, EvAssumption
<1>4. EvNoFile \in EvSnapshots(e) /\ EvKeeps(EvNoFile, e) BY <1>1 DEF EvSnapshots, EvKeeps
<1>5. IdleExporter \in EvProcs /\ \A export : EvProcOK(IdleExporter, e, e, export)
  BY <1>1, <1>2 DEF IdleExporter, EvProcs, EvStates, EvProcOK
<1>6. IdleExporter.at = "idle" BY DEF IdleExporter
<1>7. EvFilesHold BY <1>1, <1>2, <1>4, <1>5, <1>6 DEF EvInit, EvFilesHold
<1>8. EvArchiveHolds /\ EvAnswersHold
  BY DEF EvInit, EvArchiveHolds, EvAnswersHold, EvSidecarFits
<1> QED BY <1>1, <1>3, <1>7, <1>8 DEF EvInv, EvInit

\* Every step keeps the invariant.
LEMMA EvStepKeeps == EvAssumption /\ EvInv /\ [EvNext]_evVars => EvInv'
<1> SUFFICES ASSUME EvAssumption, EvInv, [EvNext]_evVars PROVE EvInv' OBVIOUS
<1>1. CASE EvNext BY <1>1, EvPrepares, EvCommits, EvPower, EvArchives, EvAppends DEF EvNext
<1>2. CASE UNCHANGED evVars
  BY <1>2 DEF evVars, evTranscript, evExports, evResults, EvInv, EvRowsOK, EvAnswersHold,
              EvFilesHold, EvArchiveHolds, EvSidecarFits
<1> QED BY <1>1, <1>2

\* The evidence on disk, for any exporters, items and faults: what append ever
\* answered names the very item, the export is one whole snapshot of the
\* transcript and never an older one than was published, a result without
\* metadata is never read with any, and one with metadata is read with an
\* earlier result's only until its own is written or where its archive died
\* before that (transcript_store.py, atomic_export.py, tool_result_store.py).
THEOREM EvidenceKept == EvSpec => [](EvEvidenceIsKept /\ EvTypeOK)
<1>1. EvInit => EvInv BY EvAssumption, EvStart
<1>2. EvInv /\ [EvNext]_evVars => EvInv' BY EvAssumption, EvStepKeeps
<1>3. EvInv => EvEvidenceIsKept /\ EvTypeOK BY EvAssumption, EvMeans
<1> QED BY <1>1, <1>2, <1>3, PTL DEF EvSpec

--------------------
(* Parsing by a provider outside. *)

XpCalls == {"create", "upload", "poll", "no_poll", "download", "render", "page"}

\* Where the worker is while the record of the ticket is the one it read.
XpReads == XpCalls \cup {"pending", "accept", "expire", "refused"}

XpPcs == XpReads \cup {"idle", "defer", "local", "fallback", "parsed", "raise"}

XpErrors == {"none", "transient", "failed", "policy", "ocr", "unreadable", "escaped"}

XpTaskStates == {"created", "queued", "running", "done", "failed"}

XpSent(t, tasks) == t \in DOMAIN tasks /\ tasks[t] # "created"

\* A ticket, or none, of a task whose file was sent.
XpTicketOK(ticket, tasks) ==
  \/ ticket = XpNoTicket
  \/ /\ ticket \in [adapter : {"mineru"}, task : Nat, state : XpActive \cup XpTerminal, age : Nat]
     /\ XpSent(ticket.task, tasks)

\* The same but for the time that has passed.
XpSame(a, b) == a.adapter = b.adapter /\ a.task = b.task /\ a.state = b.state

XpBys == {"none", "mineru", "qwen", "local"}

XpWorks ==
  [pc : XpPcs, seen : [adapter : {"none", "mineru"}, task : Nat,
                       state : {"none"} \cup XpActive \cup XpTerminal, age : Nat],
   at : Nat, from : Nat, failures : Seq(BOOLEAN), task : Nat, stage : XpActive, page : Nat,
   error : XpErrors, by : XpBys]

\* Only what was worth no retry has failed.
XpForGood(failures) == TRUE \notin ToSet(failures)

\* The worker: what it holds at each of its steps.
XpWorkOK(w, ticket, tasks, adapters, text) ==
  /\ w \in XpWorks
  /\ XpTicketOK(w.seen, tasks)
  /\ w.task \in 0..Len(tasks)
  /\ w.error = "failed" => XpForGood(w.failures)
  /\ w.pc \in XpReads => XpSame(w.seen, ticket)
  /\ w.pc \in {"local", "fallback"} => (w.seen = XpNoTicket <=> ticket = XpNoTicket)
  /\ w.pc = "defer" => ticket = XpNoTicket \/ ticket.task = w.task \/ ticket.state \in XpTerminal
  /\ w.pc \in {"pending", "defer", "poll", "download"} => XpSent(w.task, tasks)
  /\ w.pc = "upload" => w.task \in DOMAIN tasks
  /\ w.pc \in XpCalls => w.at \in 1..Len(adapters)
  /\ w.pc \in XpCalls \cup {"pending", "defer", "accept"} => w.error = "none"
  /\ w.pc \in {"refused", "expire"} => w.error # "none" /\ w.error # "ocr"
  /\ w.pc = "local" /\ adapters # <<>> => w.error # "none"
  /\ w.pc = "fallback" => w.by = "local"
  /\ w.pc = "raise" => w.error # "none" /\ (text # "text" \/ w.error = "escaped")
  /\ w.pc = "parsed" /\ adapters # <<>> /\ ticket # XpNoTicket =>
       /\ ticket.state \in XpTerminal
       /\ (ticket.state = "completed") <=> (w.by = ticket.adapter)

XpStatuses == {"queued", "parsing", "external_wait", "retry_wait", "parsed", "dead_letter"}

\* The item and its attempts.
XpItemOK(item, w, ticket, tasks, adapters, text, crashes) ==
  /\ item \in [status : XpStatuses, attempts : Nat, by : XpBys]
  /\ (item.status = "parsing") <=> (w.pc # "idle")
  /\ item.status = "dead_letter" =>
       \/ w.error = "escaped" /\ item.attempts >= XpMaxAttempts
       \/ /\ text # "text"
          /\ \/ w.error \in {"policy", "ocr", "unreadable"}
             \/ item.attempts >= XpMaxAttempts
             \/ w.error = "failed" /\ XpForGood(w.failures)
  /\ adapters # <<>> /\ crashes = 0 /\ ticket # XpNoTicket =>
       /\ item.status \in {"parsed", "dead_letter"} => ticket.state \in XpTerminal
       /\ item.status = "parsed" => (ticket.state = "completed") <=> (item.by = ticket.adapter)
  /\ crashes = 0 =>
       /\ Len(tasks) <= item.attempts
       /\ w.pc = "create" => Len(tasks) < item.attempts
       /\ item.status = "external_wait" => ticket.state \in XpActive

XpInv ==
  /\ xpAdapters \in XpDeployments /\ xpAllowed \in BOOLEAN /\ xpPages \in Nat /\ xpText \in XpTexts
  /\ xpTasks \in Seq(XpTaskStates) /\ XpTicketOK(xpTicket, xpTasks)
  /\ xpCount \in [polls : Nat, crashes : Nat]
  /\ XpWorkOK(xpWork, xpTicket, xpTasks, xpAdapters, xpText)
  /\ XpItemOK(xpItem, xpWork, xpTicket, xpTasks, xpAdapters, xpText, xpCount.crashes)

\* What every step may rely on.
LEMMA XpFacts ==
  ASSUME XpAssumption, XpInv
  PROVE  /\ xpAdapters \in {<<>>, <<"mineru">>, <<"qwen">>, <<"mineru", "qwen">>}
         /\ xpTasks \in Seq(XpTaskStates) /\ Len(xpTasks) \in Nat /\ DOMAIN xpTasks = 1..Len(xpTasks)
         /\ xpWork \in XpWorks
         /\ XpTicketOK(xpTicket, xpTasks)
         /\ XpWorkOK(xpWork, xpTicket, xpTasks, xpAdapters, xpText)
         /\ XpItemOK(xpItem, xpWork, xpTicket, xpTasks, xpAdapters, xpText, xpCount.crashes)
  BY DEF XpAssumption, XpInv, XpWorkOK

\* The adapters by their place.
LEMMA XpPlaces ==
  ASSUME NEW a \in {<<>>, <<"mineru">>, <<"qwen">>, <<"mineru", "qwen">>}
  PROVE  /\ Len(a) \in 0..2
         /\ \A n \in 1..Len(a) : a[n] \in {"mineru", "qwen"} /\ (n = 2 => a[n] = "qwen")
         /\ Len(a) = 0 <=> a = <<>> OBVIOUS

\* The call an adapter gets.
LEMMA XpCallIs ==
  ASSUME NEW a \in {"mineru", "qwen"}
  PROVE  /\ XpCall(a, TRUE) \in {"poll", "no_poll"} /\ XpCall(a, FALSE) \in {"create", "render"}
         /\ a = "qwen" => XpCall(a, FALSE) = "render" BY DEF XpCall, XpResumable

\* A failure among the failures, or none.
LEMMA XpAppended ==
  ASSUME NEW s \in Seq(BOOLEAN), NEW b \in BOOLEAN
  PROVE  /\ Append(s, b) \in Seq(BOOLEAN)
         /\ XpExhausted(Append(s, b)) \in {"transient", "failed"}
         /\ XpExhausted(Append(s, b)) = "failed" => XpForGood(Append(s, b))
<1>1. Append(s, b) \in Seq(BOOLEAN) OBVIOUS
<1>2. PICK f : f = Append(s, b) OBVIOUS
<1>3. XpExhausted(f) = IF TRUE \in ToSet(f) THEN "transient" ELSE "failed" BY Zenon DEF XpExhausted
<1>4. CASE TRUE \in ToSet(f)
 <2>1. XpExhausted(f) = "transient" BY <1>3, <1>4, Zenon
 <2>2. "transient" # "failed" OBVIOUS
 <2> QED BY <1>1, <1>2, <2>1, <2>2, Zenon
<1>5. CASE TRUE \notin ToSet(f)
 <2>1. XpExhausted(f) = "failed" BY <1>3, <1>5, Zenon
 <2> QED BY <1>1, <1>2, <1>5, <2>1, Zenon DEF XpForGood
<1> QED BY <1>4, <1>5

\* Tasks that go on, or one more.
XpGrown(tasks, new) ==
  /\ new \in Seq(XpTaskStates) /\ Len(tasks) <= Len(new)
  /\ \A t \in DOMAIN tasks : XpSent(t, tasks) => XpSent(t, new)

\* A task is created, its file is sent, the service works on it.
LEMMA XpTasksGo ==
  ASSUME NEW tasks \in Seq(XpTaskStates)
  PROVE  /\ XpGrown(tasks, tasks)
         /\ XpGrown(tasks, Append(tasks, "created")) /\ Len(Append(tasks, "created")) = Len(tasks) + 1
         /\ \A t \in DOMAIN tasks : \A s \in XpTaskStates \ {"created"} :
              /\ XpGrown(tasks, [tasks EXCEPT ![t] = s]) /\ XpSent(t, [tasks EXCEPT ![t] = s])
              /\ Len([tasks EXCEPT ![t] = s]) = Len(tasks)
<1>1. Len(tasks) \in Nat /\ DOMAIN tasks = 1..Len(tasks) OBVIOUS
<1>2. XpGrown(tasks, tasks) BY <1>1 DEF XpGrown
<1>3. XpGrown(tasks, Append(tasks, "created")) /\ Len(Append(tasks, "created")) = Len(tasks) + 1
  BY <1>1 DEF XpGrown, XpSent, XpTaskStates
<1>4. ASSUME NEW t \in DOMAIN tasks, NEW s \in XpTaskStates \ {"created"}
      PROVE  /\ XpGrown(tasks, [tasks EXCEPT ![t] = s]) /\ XpSent(t, [tasks EXCEPT ![t] = s])
             /\ Len([tasks EXCEPT ![t] = s]) = Len(tasks)
 <2>1. PICK new : new = [tasks EXCEPT ![t] = s] OBVIOUS
 <2>2. /\ new \in Seq(XpTaskStates) /\ Len(new) = Len(tasks) /\ DOMAIN new = DOMAIN tasks
       /\ \A k \in DOMAIN tasks : new[k] = IF k = t THEN s ELSE tasks[k] BY <1>1, <2>1
 <2> QED BY <1>1, <2>1, <2>2 DEF XpGrown, XpSent
<1> QED BY <1>2, <1>3, <1>4

\* A ticket stays the ticket of a task that was sent.
LEMMA XpTicketStays ==
  ASSUME NEW tasks, NEW new, NEW ticket, XpTicketOK(ticket, tasks), XpGrown(tasks, new)
  PROVE  XpTicketOK(ticket, new) BY DEF XpTicketOK, XpGrown, XpSent

\* An adapter has failed, and what it did to the tasks stands.
LEMMA XpFailKeeps ==
  ASSUME XpAssumption, XpInv, NEW retryable \in BOOLEAN, XpFail(retryable), xpWork.pc \in XpCalls,
         NEW tasks, xpTasks' = tasks, XpGrown(xpTasks, tasks),
         xpCount.crashes = 0 => Len(tasks) <= xpItem.attempts
  PROVE  XpInv'
<1>1. /\ xpAdapters \in {<<>>, <<"mineru">>, <<"qwen">>, <<"mineru", "qwen">>}
      /\ xpTasks \in Seq(XpTaskStates) /\ Len(xpTasks) \in Nat
      /\ xpWork \in XpWorks /\ XpTicketOK(xpTicket, xpTasks)
      /\ XpWorkOK(xpWork, xpTicket, xpTasks, xpAdapters, xpText)
      /\ XpItemOK(xpItem, xpWork, xpTicket, xpTasks, xpAdapters, xpText, xpCount.crashes) BY XpFacts
<1>2. /\ tasks \in Seq(XpTaskStates) /\ Len(tasks) \in Nat /\ Len(xpTasks) <= Len(tasks)
  BY DEF XpGrown
<1>3. PICK failures : failures = Append(xpWork.failures, retryable) OBVIOUS
<1>4. /\ failures \in Seq(BOOLEAN) /\ XpExhausted(failures) \in {"transient", "failed"}
      /\ XpExhausted(failures) = "failed" => XpForGood(failures)
  BY <1>1, <1>3, XpAppended DEF XpWorks
<1>5. PICK w : w = xpWork' OBVIOUS
<1>6. /\ UNCHANGED <<xpAdapters, xpAllowed, xpInput, xpItem, xpTicket, xpCount>>
      /\ w = IF xpWork.at < Len(xpAdapters)
             THEN XpTry([xpWork EXCEPT !.failures = failures], xpWork.at + 1, FALSE)
             ELSE [xpWork EXCEPT !.failures = failures, !.pc = "refused",
                                 !.error = XpExhausted(failures)]
  BY <1>1, <1>3, <1>5 DEF XpFail, XpFailed, XpWorks
<1>7. xpWork.at \in 1..Len(xpAdapters) /\ XpSame(xpWork.seen, xpTicket) /\ xpWork.error = "none"
  BY <1>1 DEF XpWorkOK, XpReads
<1>8. XpTicketOK(xpTicket, tasks) /\ XpTicketOK(xpWork.seen, tasks)
  BY <1>1, XpTicketStays DEF XpWorkOK
<1>9. /\ w \in XpWorks /\ w.pc \in {"render", "refused"} /\ w.seen = xpWork.seen
      /\ w.task \in 0..Len(tasks)
      /\ w.error = "failed" => XpForGood(w.failures)
      /\ w.pc = "render" => w.at \in 1..Len(xpAdapters) /\ w.error = "none"
      /\ w.pc = "refused" => w.error \in {"transient", "failed"}
 <2>1. CASE xpWork.at < Len(xpAdapters)
  <3>1. PICK n : n = xpWork.at + 1 OBVIOUS
  <3>2. n = 2 /\ n \in 1..Len(xpAdapters) /\ n \in Nat /\ xpAdapters[n] = "qwen"
   <4>1. Len(xpAdapters) \in 0..2 BY <1>1, XpPlaces
   <4>2. n = 2 /\ n \in 1..Len(xpAdapters)
    <5>1. PICK m \in 0..2 : m = Len(xpAdapters) BY <4>1
    <5>2. PICK k : k = xpWork.at OBVIOUS
    <5>3. k \in 1..m /\ k < m BY <1>7, <2>1, <5>1, <5>2
    <5>4. m = 2 /\ k = 1 BY <5>3
    <5> QED BY <3>1, <5>1, <5>2, <5>4
   <4> QED BY <1>1, <4>2, XpPlaces
  <3>3. XpCall(xpAdapters[n], FALSE) = "render" BY <3>2, XpCallIs
  <3>4. w = [xpWork EXCEPT !.failures = failures, !.at = n, !.pc = "render", !.task = 0, !.page = 0]
    BY <1>1, <1>6, <2>1, <3>1, <3>3 DEF XpTry, XpWorks
  <3>5. w \in XpWorks BY <1>1, <1>4, <3>2, <3>4 DEF XpWorks, XpPcs, XpReads, XpCalls
  <3>6. /\ w.pc = "render" /\ w.seen = xpWork.seen /\ w.task = 0 /\ w.error = "none" /\ w.at = n
    BY <1>1, <1>7, <3>4 DEF XpWorks
  <3> QED BY <1>2, <3>2, <3>5, <3>6
 <2>2. CASE ~(xpWork.at < Len(xpAdapters))
  <3>1. w = [xpWork EXCEPT !.failures = failures, !.pc = "refused", !.error = XpExhausted(failures)]
    BY <1>6, <2>2
  <3>2. xpWork.task \in 0..Len(xpTasks) BY <1>1 DEF XpWorkOK
  <3>3. w \in XpWorks BY <1>1, <1>4, <3>1 DEF XpWorks, XpPcs, XpReads, XpErrors
  <3>4. /\ w.pc = "refused" /\ w.seen = xpWork.seen /\ w.task = xpWork.task
        /\ w.error = XpExhausted(failures) /\ w.failures = failures BY <1>1, <3>1 DEF XpWorks
  <3> QED BY <1>1, <1>2, <1>4, <3>2, <3>3, <3>4
 <2> QED BY <2>1, <2>2
<1>10. XpWorkOK(w, xpTicket, tasks, xpAdapters, xpText)
  BY <1>7, <1>8, <1>9 DEF XpWorkOK, XpReads, XpCalls
<1>11. XpItemOK(xpItem, w, xpTicket, tasks, xpAdapters, xpText, xpCount.crashes)
 <2>1. xpItem.status = "parsing" /\ w.pc # "idle" /\ w.pc # "create"
   BY <1>1, <1>9 DEF XpItemOK, XpCalls
 <2> QED BY <1>1, <2>1 DEF XpItemOK
<1> QED BY <1>1, <1>2, <1>5, <1>6, <1>8, <1>10, <1>11 DEF XpInv, xpInput

\* The calls of an adapter.
LEMMA XpAdapterKeeps ==
  ASSUME XpAssumption, XpInv, NEW w, xpWork' = w, NEW tasks, xpTasks' = tasks,
         xpWork.pc \in XpCalls, XpGrown(xpTasks, tasks),
         xpCount.crashes = 0 => Len(tasks) <= xpItem.attempts,
         UNCHANGED <<xpAdapters, xpAllowed, xpInput, xpItem, xpTicket, xpCount>>,
         w \in XpWorks, w.pc \in {"upload", "pending", "download", "accept", "page"},
         w.seen = xpWork.seen, w.at = xpWork.at, w.error = xpWork.error, w.failures = xpWork.failures,
         w.task \in 0..Len(tasks),
         w.pc \in {"pending", "download"} => XpSent(w.task, tasks),
         w.pc = "upload" => w.task \in DOMAIN tasks
  PROVE  XpInv'
<1>1. /\ xpTasks \in Seq(XpTaskStates) /\ Len(xpTasks) \in Nat
      /\ xpWork \in XpWorks /\ XpTicketOK(xpTicket, xpTasks)
      /\ XpWorkOK(xpWork, xpTicket, xpTasks, xpAdapters, xpText)
      /\ XpItemOK(xpItem, xpWork, xpTicket, xpTasks, xpAdapters, xpText, xpCount.crashes) BY XpFacts
<1>2. tasks \in Seq(XpTaskStates) BY DEF XpGrown
<1>3. XpTicketOK(xpTicket, tasks) /\ XpTicketOK(xpWork.seen, tasks)
  BY <1>1, XpTicketStays DEF XpWorkOK
<1>4. xpWork.at \in 1..Len(xpAdapters) /\ XpSame(xpWork.seen, xpTicket) /\ xpWork.error = "none"
  BY <1>1 DEF XpWorkOK, XpReads
<1>5. XpWorkOK(w, xpTicket, tasks, xpAdapters, xpText) BY <1>3, <1>4 DEF XpWorkOK, XpReads, XpCalls
<1>6. XpItemOK(xpItem, w, xpTicket, tasks, xpAdapters, xpText, xpCount.crashes)
 <2>1. xpItem.status = "parsing" /\ w.pc # "idle" /\ w.pc # "create" BY <1>1 DEF XpItemOK, XpCalls
 <2> QED BY <1>1, <2>1 DEF XpItemOK
<1> QED BY <1>1, <1>2, <1>3, <1>5, <1>6 DEF XpInv, xpInput

\* MinerU's task is created, its file is sent.
LEMMA XpSubmits ==
  ASSUME XpAssumption, XpInv, NEW outcome \in {"ok", "retryable", "refused"}, NEW lost \in BOOLEAN,
         XpCreate(outcome, lost) \/ XpUpload(outcome, lost)
  PROVE  XpInv'
<1>1. /\ xpTasks \in Seq(XpTaskStates) /\ Len(xpTasks) \in Nat /\ DOMAIN xpTasks = 1..Len(xpTasks)
      /\ xpWork \in XpWorks
      /\ XpWorkOK(xpWork, xpTicket, xpTasks, xpAdapters, xpText)
      /\ XpItemOK(xpItem, xpWork, xpTicket, xpTasks, xpAdapters, xpText, xpCount.crashes) BY XpFacts
<1>2. xpCount.crashes = 0 => Len(xpTasks) <= xpItem.attempts BY <1>1 DEF XpItemOK
<1>3. PICK tasks : tasks = xpTasks' OBVIOUS
<1>4. PICK retryable \in BOOLEAN : retryable = (outcome = "retryable") OBVIOUS
<1>5. CASE XpCreate(outcome, lost)
 <2>1. xpWork.pc = "create" /\ xpWork.pc \in XpCalls BY <1>5 DEF XpCreate, XpAt, XpCalls
 <2>2. xpCount.crashes = 0 => Len(xpTasks) < xpItem.attempts /\ xpItem.attempts \in Nat
   BY <1>1, <2>1 DEF XpItemOK
 <2>3. tasks = IF outcome = "ok" \/ lost THEN Append(xpTasks, "created") ELSE xpTasks
   BY <1>3, <1>5 DEF XpCreate
 <2>4. XpGrown(xpTasks, tasks) /\ (xpCount.crashes = 0 => Len(tasks) <= xpItem.attempts)
  <3>1. CASE tasks = Append(xpTasks, "created") BY <1>1, <2>2, <3>1, XpTasksGo
  <3>2. CASE tasks = xpTasks BY <1>1, <1>2, <3>2, XpTasksGo
  <3> QED BY <2>3, <3>1, <3>2
 <2>5. CASE outcome = "ok"
  <3>1. PICK n \in Nat : n = Len(xpTasks) + 1 BY <1>1
  <3>2. PICK w : w = [xpWork EXCEPT !.pc = "upload", !.task = n] OBVIOUS
  <3>3. /\ xpWork' = w
        /\ UNCHANGED <<xpAdapters, xpAllowed, xpInput, xpItem, xpTicket, xpCount>>
    BY <1>5, <2>5, <3>1, <3>2 DEF XpCreate
  <3>4. n \in DOMAIN tasks /\ n \in 0..Len(tasks) BY <1>1, <2>3, <2>5, <3>1
  <3>5. /\ w \in XpWorks /\ w.pc = "upload" /\ w.seen = xpWork.seen /\ w.at = xpWork.at
        /\ w.error = xpWork.error /\ w.failures = xpWork.failures /\ w.task = n
    BY <1>1, <3>2 DEF XpWorks, XpPcs, XpReads, XpCalls
  <3> QED BY <1>3, <2>1, <2>4, <3>3, <3>4, <3>5, XpAdapterKeeps
 <2>6. CASE outcome # "ok"
  <3>1. XpFail(retryable) BY <1>4, <1>5, <2>6 DEF XpCreate
  <3> QED BY <1>3, <2>1, <2>4, <3>1, XpFailKeeps
 <2> QED BY <2>5, <2>6
<1>6. CASE XpUpload(outcome, lost)
 <2>1. xpWork.pc = "upload" /\ xpWork.pc \in XpCalls BY <1>6 DEF XpUpload, XpAt, XpCalls
 <2>2. xpWork.task \in DOMAIN xpTasks BY <1>1, <2>1 DEF XpWorkOK
 <2>3. PICK sent : sent = [xpTasks EXCEPT ![xpWork.task] = "queued"] OBVIOUS
 <2>4. XpGrown(xpTasks, sent) /\ XpSent(xpWork.task, sent) /\ Len(sent) = Len(xpTasks)
   BY <1>1, <2>2, <2>3, XpTasksGo DEF XpTaskStates
 <2>5. tasks = IF outcome = "ok" \/ lost THEN sent ELSE xpTasks BY <1>3, <1>6, <2>3 DEF XpUpload
 <2>6. XpGrown(xpTasks, tasks) /\ (xpCount.crashes = 0 => Len(tasks) <= xpItem.attempts)
   BY <1>1, <1>2, <2>4, <2>5, XpTasksGo
 <2>7. CASE outcome = "ok"
  <3>1. PICK w : w = [xpWork EXCEPT !.pc = "pending", !.stage = "queued"] OBVIOUS
  <3>2. /\ xpWork' = w
        /\ UNCHANGED <<xpAdapters, xpAllowed, xpInput, xpItem, xpTicket, xpCount>>
    BY <1>6, <2>7, <3>1 DEF XpUpload
  <3>3. tasks = sent /\ xpWork.task \in 0..Len(tasks) BY <1>1, <2>2, <2>4, <2>5, <2>7
  <3>4. /\ w \in XpWorks /\ w.pc = "pending" /\ w.seen = xpWork.seen /\ w.at = xpWork.at
        /\ w.error = xpWork.error /\ w.failures = xpWork.failures /\ w.task = xpWork.task
    BY <1>1, <3>1 DEF XpWorks, XpPcs, XpReads, XpActive
  <3> QED BY <1>3, <2>1, <2>4, <2>6, <3>2, <3>3, <3>4, XpAdapterKeeps
 <2>8. CASE outcome # "ok"
  <3>1. XpFail(retryable) BY <1>4, <1>6, <2>8 DEF XpUpload
  <3> QED BY <1>3, <2>1, <2>6, <3>1, XpFailKeeps
 <2> QED BY <2>7, <2>8
<1> QED BY <1>5, <1>6

\* An error nobody foresees ends the attempt.
LEMMA XpEscapes ==
  ASSUME XpAssumption, XpInv, NEW arrived \in BOOLEAN, XpEscape(arrived)
  PROVE  XpInv'
<1>1. /\ xpTasks \in Seq(XpTaskStates) /\ Len(xpTasks) \in Nat /\ DOMAIN xpTasks = 1..Len(xpTasks)
      /\ xpWork \in XpWorks /\ XpTicketOK(xpTicket, xpTasks)
      /\ XpWorkOK(xpWork, xpTicket, xpTasks, xpAdapters, xpText)
      /\ XpItemOK(xpItem, xpWork, xpTicket, xpTasks, xpAdapters, xpText, xpCount.crashes) BY XpFacts
<1>2. xpCount.crashes = 0 => Len(xpTasks) <= xpItem.attempts BY <1>1 DEF XpItemOK
<1>3. PICK tasks : tasks = xpTasks' OBVIOUS
<1>4. PICK w : w = [xpWork EXCEPT !.pc = "raise", !.error = "escaped"] OBVIOUS
<1>5. /\ w \in XpWorks /\ w.pc = "raise" /\ w.error = "escaped" /\ w.seen = xpWork.seen
      /\ w.task = xpWork.task BY <1>1, <1>4 DEF XpWorks, XpPcs, XpErrors
<1>6. xpWork' = w /\ UNCHANGED <<xpAdapters, xpAllowed, xpInput, xpItem, xpTicket, xpCount>>
  BY <1>4 DEF XpEscape
<1>7. XpGrown(xpTasks, tasks) /\ (xpCount.crashes = 0 => Len(tasks) <= xpItem.attempts)
 <2>1. CASE xpWork.pc = "create" /\ tasks = Append(xpTasks, "created")
  <3>1. xpCount.crashes = 0 => Len(xpTasks) < xpItem.attempts /\ xpItem.attempts \in Nat
    BY <1>1, <2>1 DEF XpItemOK
  <3> QED BY <1>1, <2>1, <3>1, XpTasksGo
 <2>2. CASE xpWork.pc = "upload" /\ tasks = [xpTasks EXCEPT ![xpWork.task] = "queued"]
  <3>1. xpWork.task \in DOMAIN xpTasks BY <1>1, <2>2 DEF XpWorkOK
  <3> QED BY <1>1, <1>2, <2>2, <3>1, XpTasksGo DEF XpTaskStates
 <2>3. CASE tasks = xpTasks BY <1>1, <1>2, <2>3, XpTasksGo
 <2> QED BY <1>3, <2>1, <2>2, <2>3 DEF XpEscape, XpAt
<1>8. tasks \in Seq(XpTaskStates) /\ Len(tasks) \in Nat /\ Len(xpTasks) <= Len(tasks)
  BY <1>7 DEF XpGrown
<1>9. XpTicketOK(xpTicket, tasks) /\ XpTicketOK(xpWork.seen, tasks)
  BY <1>1, <1>7, XpTicketStays DEF XpWorkOK
<1>10. w.task \in 0..Len(tasks) BY <1>1, <1>5, <1>8 DEF XpWorkOK
<1>11. XpWorkOK(w, xpTicket, tasks, xpAdapters, xpText)
  BY <1>5, <1>9, <1>10 DEF XpWorkOK, XpReads, XpCalls
<1>12. XpItemOK(xpItem, w, xpTicket, tasks, xpAdapters, xpText, xpCount.crashes)
 <2>1. xpWork.pc # "idle" BY DEF XpEscape
 <2>2. xpItem.status = "parsing" BY <1>1, <2>1 DEF XpItemOK
 <2> QED BY <1>1, <1>5, <1>7, <2>2 DEF XpItemOK
<1> QED BY <1>1, <1>3, <1>6, <1>8, <1>9, <1>11, <1>12 DEF XpInv, xpInput

\* A poll, the download, pages: the tasks stay as they are.
LEMMA XpAsks ==
  ASSUME XpAssumption, XpInv,
         \/ \E outcome \in {"ok", "retryable", "refused"} :
              XpPoll(outcome) \/ XpDownload(outcome) \/ XpPage(outcome)
         \/ XpNoPoll \/ XpTimeout \/ \E drawn \in BOOLEAN : XpRender(drawn)
  PROVE  XpInv'
<1>1. /\ xpTasks \in Seq(XpTaskStates) /\ Len(xpTasks) \in Nat /\ DOMAIN xpTasks = 1..Len(xpTasks)
      /\ xpWork \in XpWorks
      /\ XpWorkOK(xpWork, xpTicket, xpTasks, xpAdapters, xpText)
      /\ XpItemOK(xpItem, xpWork, xpTicket, xpTasks, xpAdapters, xpText, xpCount.crashes) BY XpFacts
<1>2. xpCount.crashes = 0 => Len(xpTasks) <= xpItem.attempts BY <1>1 DEF XpItemOK
<1>3. XpGrown(xpTasks, xpTasks) BY <1>1, XpTasksGo
<1>4. xpWork.task \in 0..Len(xpTasks) BY <1>1 DEF XpWorkOK
<1>5. xpTasks' = xpTasks BY DEF XpPoll, XpDownload, XpPage, XpNoPoll, XpTimeout, XpRender
<1>6. ASSUME NEW retryable \in BOOLEAN, XpFail(retryable), xpWork.pc \in XpCalls PROVE XpInv'
  BY <1>2, <1>3, <1>5, <1>6, XpFailKeeps
<1>7. ASSUME NEW w, xpWork' = w, w \in XpWorks, xpWork.pc \in XpCalls,
             UNCHANGED <<xpAdapters, xpAllowed, xpInput, xpItem, xpTicket, xpCount>>,
             w.pc \in {"pending", "download", "accept", "page"},
             w.pc \in {"pending", "download"} => xpWork.pc = "poll",
             w.seen = xpWork.seen, w.at = xpWork.at, w.error = xpWork.error,
             w.failures = xpWork.failures, w.task = xpWork.task
      PROVE  XpInv'
 <2>1. w.pc \in {"pending", "download"} => XpSent(w.task, xpTasks) BY <1>1, <1>7 DEF XpWorkOK
 <2> QED BY <1>2, <1>3, <1>4, <1>5, <1>7, <2>1, XpAdapterKeeps
<1>8. ASSUME NEW outcome \in {"ok", "retryable", "refused"}, XpPoll(outcome) PROVE XpInv'
 <2>1. xpWork.pc = "poll" /\ xpWork.pc \in XpCalls BY <1>8 DEF XpPoll, XpAt, XpCalls
 <2>2. CASE outcome = "ok" /\ xpTasks[xpWork.task] # "failed"
  <3>1. PICK pc \in {"download", "pending"}, stage \in {"running", "queued"} :
          xpWork' = [xpWork EXCEPT !.pc = pc, !.stage = stage] BY <1>8, <2>2 DEF XpPoll
  <3>2. PICK w : w = [xpWork EXCEPT !.pc = pc, !.stage = stage] OBVIOUS
  <3>3. /\ w \in XpWorks /\ w.pc = pc /\ w.seen = xpWork.seen /\ w.at = xpWork.at
        /\ w.error = xpWork.error /\ w.failures = xpWork.failures /\ w.task = xpWork.task
    BY <1>1, <3>2 DEF XpWorks, XpPcs, XpReads, XpCalls, XpActive
  <3>4. UNCHANGED <<xpAdapters, xpAllowed, xpInput, xpItem, xpTicket, xpCount>>
    BY <1>8, <2>2 DEF XpPoll
  <3> QED BY <1>7, <2>1, <3>1, <3>2, <3>3, <3>4
 <2>3. CASE ~(outcome = "ok" /\ xpTasks[xpWork.task] # "failed")
  <3>1. \E retryable \in BOOLEAN : XpFail(retryable) BY <1>8, <2>3 DEF XpPoll
  <3> QED BY <1>6, <2>1, <3>1
 <2> QED BY <2>2, <2>3
<1>9. ASSUME NEW outcome \in {"ok", "retryable", "refused"}, XpDownload(outcome) PROVE XpInv'
 <2>1. xpWork.pc = "download" /\ xpWork.pc \in XpCalls BY <1>9 DEF XpDownload, XpAt, XpCalls
 <2>2. CASE outcome = "ok"
  <3>1. PICK w : w = [xpWork EXCEPT !.pc = "accept", !.by = "mineru"] OBVIOUS
  <3>2. /\ xpWork' = w
        /\ UNCHANGED <<xpAdapters, xpAllowed, xpInput, xpItem, xpTicket, xpCount>>
    BY <1>9, <2>2, <3>1 DEF XpDownload
  <3>3. /\ w \in XpWorks /\ w.pc = "accept" /\ w.seen = xpWork.seen /\ w.at = xpWork.at
        /\ w.error = xpWork.error /\ w.failures = xpWork.failures /\ w.task = xpWork.task
    BY <1>1, <3>1 DEF XpWorks, XpPcs, XpReads, XpBys
  <3> QED BY <1>7, <2>1, <3>2, <3>3
 <2>3. CASE outcome # "ok"
  <3>1. PICK retryable \in BOOLEAN : retryable = (outcome = "retryable") OBVIOUS
  <3>2. XpFail(retryable) BY <1>9, <2>3, <3>1 DEF XpDownload
  <3> QED BY <1>6, <2>1, <3>2
 <2> QED BY <2>2, <2>3
<1>10. ASSUME NEW outcome \in {"ok", "retryable", "refused"}, XpPage(outcome) PROVE XpInv'
 <2>1. xpWork.pc = "page" /\ xpWork.pc \in XpCalls BY <1>10 DEF XpPage, XpAt, XpCalls
 <2>2. CASE outcome = "ok"
  <3>1. PICK pc \in {"accept", "page"}, by \in XpBys, page \in Nat :
          xpWork' = [xpWork EXCEPT !.page = page, !.pc = pc, !.by = by]
   <4>1. xpWork.page + 1 \in Nat /\ xpWork.by \in XpBys /\ "qwen" \in XpBys
     BY <1>1 DEF XpWorks, XpBys
   <4>2. CASE xpWork.page + 1 = xpPages BY <1>10, <2>2, <4>1, <4>2 DEF XpPage
   <4>3. CASE xpWork.page + 1 # xpPages BY <1>10, <2>2, <4>1, <4>3 DEF XpPage
   <4> QED BY <4>2, <4>3
  <3>2. PICK w : w = [xpWork EXCEPT !.page = page, !.pc = pc, !.by = by] OBVIOUS
  <3>3. UNCHANGED <<xpAdapters, xpAllowed, xpInput, xpItem, xpTicket, xpCount>>
    BY <1>10, <2>2 DEF XpPage
  <3>4. /\ w \in XpWorks /\ w.pc = pc /\ w.seen = xpWork.seen /\ w.at = xpWork.at
        /\ w.error = xpWork.error /\ w.failures = xpWork.failures /\ w.task = xpWork.task
    BY <1>1, <3>2 DEF XpWorks, XpPcs, XpReads, XpCalls
  <3> QED BY <1>7, <2>1, <3>1, <3>2, <3>3, <3>4
 <2>3. CASE outcome # "ok"
  <3>1. PICK retryable \in BOOLEAN : retryable = (outcome = "retryable") OBVIOUS
  <3>2. XpFail(retryable) BY <1>10, <2>3, <3>1 DEF XpPage
  <3> QED BY <1>6, <2>1, <3>2
 <2> QED BY <2>2, <2>3
<1>11. ASSUME NEW drawn \in BOOLEAN, XpRender(drawn) PROVE XpInv'
 <2>1. xpWork.pc = "render" /\ xpWork.pc \in XpCalls BY <1>11 DEF XpRender, XpAt, XpCalls
 <2>2. CASE drawn
  <3>1. PICK w : w = [xpWork EXCEPT !.pc = "page"] OBVIOUS
  <3>2. /\ xpWork' = w
        /\ UNCHANGED <<xpAdapters, xpAllowed, xpInput, xpItem, xpTicket, xpCount>>
    BY <1>11, <2>2, <3>1 DEF XpRender, XpGoto
  <3>3. /\ w \in XpWorks /\ w.pc = "page" /\ w.seen = xpWork.seen /\ w.at = xpWork.at
        /\ w.error = xpWork.error /\ w.failures = xpWork.failures /\ w.task = xpWork.task
    BY <1>1, <3>1 DEF XpWorks, XpPcs, XpReads, XpCalls
  <3> QED BY <1>7, <2>1, <3>2, <3>3
 <2>3. CASE ~drawn
  <3>1. XpFail(FALSE) BY <1>11, <2>3 DEF XpRender
  <3> QED BY <1>6, <2>1, <3>1
 <2> QED BY <2>2, <2>3
<1>12. CASE XpNoPoll BY <1>6, <1>12 DEF XpNoPoll, XpAt, XpCalls
<1>13. CASE XpTimeout BY <1>6, <1>13 DEF XpTimeout, XpCalls
<1> QED BY <1>8, <1>9, <1>10, <1>11, <1>12, <1>13

\* The ticket is marked; one that was none stays none.
XpMarked(ticket, state) == IF ticket = XpNoTicket THEN ticket ELSE [ticket EXCEPT !.state = state]

\* A marked ticket is a ticket of the same task.
LEMMA XpMarks ==
  ASSUME NEW tasks, NEW ticket, XpTicketOK(ticket, tasks), NEW state \in XpActive \cup XpTerminal
  PROVE  /\ XpTicketOK(XpMarked(ticket, state), tasks)
         /\ XpMarked(ticket, state) = XpNoTicket <=> ticket = XpNoTicket
         /\ ticket # XpNoTicket => /\ XpMarked(ticket, state).state = state
                                   /\ XpMarked(ticket, state).adapter = ticket.adapter
                                   /\ XpMarked(ticket, state).task = ticket.task
<1>1. CASE ticket = XpNoTicket BY <1>1 DEF XpMarked
<1>2. CASE ticket # XpNoTicket
 <2>1. /\ ticket \in [adapter : {"mineru"}, task : Nat, state : XpActive \cup XpTerminal, age : Nat]
       /\ XpSent(ticket.task, tasks) BY <1>2 DEF XpTicketOK
 <2>2. PICK new : new = [ticket EXCEPT !.state = state] OBVIOUS
 <2>3. /\ new \in [adapter : {"mineru"}, task : Nat, state : XpActive \cup XpTerminal, age : Nat]
       /\ new.state = state /\ new.adapter = ticket.adapter /\ new.task = ticket.task
       /\ new.adapter = "mineru" BY <2>1, <2>2
 <2>4. new # XpNoTicket BY <2>3 DEF XpNoTicket
 <2>5. XpMarked(ticket, state) = new BY <1>2, <2>2 DEF XpMarked
 <2> QED BY <1>2, <2>1, <2>3, <2>4, <2>5 DEF XpTicketOK
<1> QED BY <1>1, <1>2

\* The worker that holds no item.
LEMMA XpIdleIs ==
  /\ XpIdle \in XpWorks
  /\ \A tasks \in Seq(XpTaskStates) : \A ticket, adapters, text : XpWorkOK(XpIdle, ticket, tasks, adapters, text)
<1>1. <<>> \in Seq(BOOLEAN) OBVIOUS
<1>2. PICK none \in Seq(BOOLEAN) : none = <<>> BY <1>1
<1>3. PICK w : w = XpIdle OBVIOUS
<1>4. w = [pc |-> "idle", seen |-> XpNoTicket, at |-> 0, from |-> 0, failures |-> none,
           task |-> 0, stage |-> "queued", page |-> 0, error |-> "none", by |-> "none"]
  BY <1>2, <1>3 DEF XpIdle
<1>5. w \in XpWorks BY <1>4 DEF XpWorks, XpPcs, XpNoTicket, XpActive, XpErrors, XpBys
<1>6. w.pc = "idle" /\ w.seen = XpNoTicket /\ w.task = 0 /\ w.error = "none" BY <1>4
<1>7. ASSUME NEW tasks \in Seq(XpTaskStates), NEW ticket, NEW adapters, NEW text
      PROVE  XpWorkOK(w, ticket, tasks, adapters, text)
 <2>1. 0 \in 0..Len(tasks) OBVIOUS
 <2> QED BY <1>5, <1>6, <2>1 DEF XpWorkOK, XpTicketOK, XpReads, XpCalls
<1> QED BY <1>3, <1>5, <1>7

\* A ticket that is the one read, but for its age.
LEMMA XpSameTicket ==
  ASSUME NEW tasks, NEW other, NEW a, NEW b, XpTicketOK(a, tasks), XpTicketOK(b, other), XpSame(a, b)
  PROVE  (a = XpNoTicket <=> b = XpNoTicket) BY DEF XpTicketOK, XpSame, XpNoTicket

\* A step of the worker within the item: the tasks, the item and the input stay.
LEMMA XpWorkerKeeps ==
  ASSUME XpAssumption, XpInv, NEW w, xpWork' = w, NEW ticket, xpTicket' = ticket,
         UNCHANGED <<xpAdapters, xpAllowed, xpInput, xpTasks, xpItem, xpCount>>,
         xpWork.pc # "idle", w.pc \notin {"idle", "create"},
         XpTicketOK(ticket, xpTasks),
         XpWorkOK(w, ticket, xpTasks, xpAdapters, xpText)
  PROVE  XpInv'
<1>1. XpItemOK(xpItem, xpWork, xpTicket, xpTasks, xpAdapters, xpText, xpCount.crashes) BY XpFacts
<1>2. XpItemOK(xpItem, w, ticket, xpTasks, xpAdapters, xpText, xpCount.crashes)
 <2>1. xpItem.status = "parsing" BY <1>1 DEF XpItemOK
 <2> QED BY <1>1, <2>1 DEF XpItemOK
<1> QED BY <1>2 DEF XpInv, xpInput

\* The ticket is closed or stands: the expired, the superseded, the refused.
LEMMA XpCloses ==
  ASSUME XpAssumption, XpInv, XpSupersede \/ XpExpire \/ XpRefused
  PROVE  XpInv'
<1>1. /\ xpWork \in XpWorks /\ XpTicketOK(xpTicket, xpTasks)
      /\ XpWorkOK(xpWork, xpTicket, xpTasks, xpAdapters, xpText) BY XpFacts
<1>2. xpWork.pc \in XpReads /\ xpWork.pc \in {"pending", "expire", "refused"}
  BY DEF XpSupersede, XpExpire, XpRefused, XpAt, XpReads
<1>3. XpSame(xpWork.seen, xpTicket) /\ XpTicketOK(xpWork.seen, xpTasks) BY <1>1, <1>2 DEF XpWorkOK
<1>4. xpWork.seen = XpNoTicket <=> xpTicket = XpNoTicket BY <1>1, <1>3, XpSameTicket
<1>5. PICK pc : pc = IF xpWork.pc = "pending" THEN "defer" ELSE "local" OBVIOUS
<1>6. PICK w : w = [xpWork EXCEPT !.pc = pc] OBVIOUS
<1>7. PICK ticket : ticket = xpTicket' OBVIOUS
<1>8. /\ xpWork' = w
      /\ UNCHANGED <<xpAdapters, xpAllowed, xpInput, xpTasks, xpItem, xpCount>>
  BY <1>5, <1>6 DEF XpSupersede, XpExpire, XpRefused, XpAt, XpGoto, XpUnmoved
<1>9. /\ w \in XpWorks /\ w.pc = pc /\ w.seen = xpWork.seen /\ w.task = xpWork.task
      /\ w.error = xpWork.error /\ w.failures = xpWork.failures
  BY <1>1, <1>5, <1>6 DEF XpWorks, XpPcs
<1>10. \/ ticket = xpTicket
       \/ \E state \in XpTerminal : ticket = XpMarked(xpTicket, state)
  BY <1>7 DEF XpSupersede, XpExpire, XpRefused, XpMark, XpMarked, XpTerminal
<1>11. XpTicketOK(ticket, xpTasks) /\ (ticket = XpNoTicket <=> xpTicket = XpNoTicket)
  BY <1>1, <1>10, XpMarks
<1>12. xpWork.pc = "pending" =>
         ticket = XpNoTicket \/ ticket.task = xpWork.task \/ ticket.state \in XpTerminal
 <2>1. SUFFICES ASSUME xpWork.pc = "pending", ticket # XpNoTicket, ticket.task # xpWork.task
                PROVE  ticket.state \in XpTerminal OBVIOUS
 <2>2. xpTicket # XpNoTicket /\ xpWork.seen # XpNoTicket BY <1>4, <1>11, <2>1
 <2>3. xpWork.seen.task = xpTicket.task BY <1>3 DEF XpSame
 <2>4. CASE xpWork.task # xpTicket.task
  <3>1. ticket = XpMarked(xpTicket, "failed")
    BY <1>7, <2>1, <2>2, <2>3, <2>4 DEF XpSupersede, XpExpire, XpRefused, XpAt, XpMark, XpMarked
  <3>2. ticket.state = "failed" BY <1>1, <2>2, <3>1, XpMarks DEF XpTerminal
  <3> QED BY <3>2 DEF XpTerminal
 <2>5. CASE xpWork.task = xpTicket.task
  <3>1. ticket.task = xpTicket.task BY <1>1, <1>10, <2>2, XpMarks
  <3> QED BY <2>1, <2>5, <3>1
 <2> QED BY <2>4, <2>5
<1>13. XpWorkOK(w, ticket, xpTasks, xpAdapters, xpText)
 <2>1. CASE xpWork.pc = "pending"
  <3>1. w.pc = "defer" BY <1>5, <1>9, <2>1
  <3>2. xpWork.error = "none" /\ XpSent(xpWork.task, xpTasks) /\ xpWork.task \in 0..Len(xpTasks)
    BY <1>1, <2>1 DEF XpWorkOK
  <3> QED BY <1>3, <1>9, <1>12, <2>1, <3>1, <3>2 DEF XpWorkOK, XpReads, XpCalls
 <2>2. CASE xpWork.pc # "pending"
  <3>1. w.pc = "local" BY <1>5, <1>9, <2>2
  <3>2. xpWork.error # "none" /\ xpWork.task \in 0..Len(xpTasks)
        /\ (xpWork.error = "failed" => XpForGood(xpWork.failures)) BY <1>1, <1>2, <2>2 DEF XpWorkOK
  <3> QED BY <1>3, <1>4, <1>9, <1>11, <3>1, <3>2 DEF XpWorkOK, XpReads, XpCalls
 <2> QED BY <2>1, <2>2
<1>14. w.pc \notin {"idle", "create"} BY <1>5, <1>9
<1> QED BY <1>2, <1>7, <1>8, <1>11, <1>13, <1>14, XpWorkerKeeps

\* An adapter's document, the local parser's, and the ticket that says so.
LEMMA XpParses ==
  ASSUME XpAssumption, XpInv, XpAccept \/ XpLocal \/ XpFallback
  PROVE  XpInv'
<1>1. /\ xpWork \in XpWorks /\ XpTicketOK(xpTicket, xpTasks)
      /\ XpWorkOK(xpWork, xpTicket, xpTasks, xpAdapters, xpText) BY XpFacts
<1>2. UNCHANGED <<xpAdapters, xpAllowed, xpInput, xpTasks, xpItem, xpCount>>
  BY DEF XpAccept, XpLocal, XpFallback, XpUnmoved
<1>3. /\ XpTicketOK(xpWork.seen, xpTasks) /\ xpWork.task \in 0..Len(xpTasks)
      /\ (xpWork.error = "failed" => XpForGood(xpWork.failures)) BY <1>1 DEF XpWorkOK
<1>4. ASSUME NEW w, xpWork' = w, w \in XpWorks, w.pc = "parsed", w.seen = xpWork.seen,
             w.task = xpWork.task, w.error = xpWork.error, w.failures = xpWork.failures,
             NEW ticket, xpTicket' = ticket, XpTicketOK(ticket, xpTasks), xpWork.pc # "idle",
             xpAdapters # <<>> /\ ticket # XpNoTicket =>
               /\ ticket.state \in XpTerminal
               /\ (ticket.state = "completed") <=> (w.by = ticket.adapter)
      PROVE  XpInv'
 <2>1. XpWorkOK(w, ticket, xpTasks, xpAdapters, xpText) BY <1>3, <1>4 DEF XpWorkOK, XpReads, XpCalls
 <2> QED BY <1>2, <1>4, <2>1, XpWorkerKeeps
<1>5. CASE XpAccept
 <2>1. xpWork.pc = "accept" /\ XpSame(xpWork.seen, xpTicket)
   BY <1>1, <1>5 DEF XpAccept, XpAt, XpWorkOK, XpReads
 <2>2. xpWork.seen = XpNoTicket <=> xpTicket = XpNoTicket BY <1>1, <1>3, <2>1, XpSameTicket
 <2>3. PICK w : w = [xpWork EXCEPT !.pc = "parsed"] OBVIOUS
 <2>4. /\ w \in XpWorks /\ w.pc = "parsed" /\ w.seen = xpWork.seen /\ w.by = xpWork.by
       /\ w.task = xpWork.task /\ w.error = xpWork.error /\ w.failures = xpWork.failures
   BY <1>1, <2>3 DEF XpWorks, XpPcs
 <2>5. PICK state \in {"completed", "fallback"} :
         state = IF xpWork.by = xpWork.seen.adapter THEN "completed" ELSE "fallback" OBVIOUS
 <2>6. PICK ticket : ticket = XpMarked(xpTicket, state) OBVIOUS
 <2>7. xpTicket' = ticket /\ xpWork' = w
   BY <1>5, <2>2, <2>3, <2>5, <2>6 DEF XpAccept, XpGoto, XpMark, XpMarked
 <2>8. /\ XpTicketOK(ticket, xpTasks)
       /\ ticket # XpNoTicket => ticket.state = state /\ ticket.adapter = xpWork.seen.adapter
   BY <1>1, <2>1, <2>6, XpMarks DEF XpTerminal, XpSame
 <2>9. ticket # XpNoTicket =>
         /\ ticket.state \in XpTerminal
         /\ (ticket.state = "completed") <=> (w.by = ticket.adapter)
   BY <2>4, <2>5, <2>8 DEF XpTerminal
 <2> QED BY <1>4, <2>1, <2>4, <2>7, <2>8, <2>9
<1>6. CASE XpFallback
 <2>1. xpWork.pc = "fallback" /\ xpWork.by = "local" BY <1>1, <1>6 DEF XpFallback, XpAt, XpWorkOK
 <2>2. PICK w : w = [xpWork EXCEPT !.pc = "parsed"] OBVIOUS
 <2>3. /\ w \in XpWorks /\ w.pc = "parsed" /\ w.seen = xpWork.seen /\ w.by = xpWork.by
       /\ w.task = xpWork.task /\ w.error = xpWork.error /\ w.failures = xpWork.failures
   BY <1>1, <2>2 DEF XpWorks, XpPcs
 <2>4. PICK ticket : ticket = XpMarked(xpTicket, "fallback") OBVIOUS
 <2>5. xpTicket' = ticket /\ xpWork' = w
   BY <1>6, <2>2, <2>4 DEF XpFallback, XpGoto, XpMark, XpMarked
 <2>6. /\ XpTicketOK(ticket, xpTasks)
       /\ ticket # XpNoTicket => ticket.state = "fallback" /\ ticket.adapter = "mineru"
  <3>1. xpTicket # XpNoTicket => xpTicket.adapter = "mineru" BY <1>1 DEF XpTicketOK
  <3> QED BY <1>1, <2>4, <3>1, XpMarks DEF XpTerminal
 <2> QED BY <1>4, <2>1, <2>3, <2>5, <2>6 DEF XpTerminal
<1>7. CASE XpLocal
 <2>1. xpWork.pc = "local" /\ (xpWork.seen = XpNoTicket <=> xpTicket = XpNoTicket)
       /\ (xpAdapters # <<>> => xpWork.error # "none") BY <1>1, <1>7 DEF XpLocal, XpAt, XpWorkOK
 <2>2. PICK ticket : ticket = xpTicket OBVIOUS
 <2>3. xpTicket' = ticket /\ XpTicketOK(ticket, xpTasks) BY <1>1, <1>7, <2>2 DEF XpLocal
 <2>4. CASE xpText = "text"
  <3>1. PICK pc : pc = IF xpWork.error # "none" /\ xpWork.seen # XpNoTicket THEN "fallback" ELSE "parsed"
    OBVIOUS
  <3>2. PICK w : w = [xpWork EXCEPT !.by = "local", !.pc = pc] OBVIOUS
  <3>3. xpWork' = w BY <1>7, <2>4, <3>1, <3>2 DEF XpLocal
  <3>4. /\ w \in XpWorks /\ w.pc = pc /\ w.seen = xpWork.seen /\ w.by = "local"
        /\ w.task = xpWork.task /\ w.error = xpWork.error /\ w.failures = xpWork.failures
    BY <1>1, <3>1, <3>2 DEF XpWorks, XpPcs, XpBys
  <3>5. CASE pc = "fallback"
   <4>1. XpWorkOK(w, ticket, xpTasks, xpAdapters, xpText)
     BY <1>3, <2>1, <2>2, <3>4, <3>5 DEF XpWorkOK, XpReads, XpCalls
   <4> QED BY <1>2, <2>1, <2>3, <3>3, <3>4, <3>5, <4>1, XpWorkerKeeps
  <3>6. CASE pc = "parsed"
   <4>1. ~(xpAdapters # <<>> /\ ticket # XpNoTicket) BY <2>1, <2>2, <3>1, <3>6
   <4> QED BY <1>4, <2>1, <2>3, <3>3, <3>4, <3>6, <4>1
  <3> QED BY <3>1, <3>5, <3>6
 <2>5. CASE xpText # "text"
  <3>1. PICK error : error = IF xpText = "unreadable" THEN "unreadable"
                             ELSE IF xpWork.error # "none" THEN xpWork.error ELSE "ocr" OBVIOUS
  <3>2. PICK w : w = [xpWork EXCEPT !.pc = "raise", !.error = error] OBVIOUS
  <3>3. xpText \in {"scanned", "unreadable"} BY <2>5 DEF XpInv, XpTexts
  <3>4. xpWork' = w BY <1>7, <3>1, <3>2, <3>3 DEF XpLocal
  <3>5. error \in XpErrors /\ error # "none" /\ (error = "failed" => xpWork.error = "failed")
    BY <1>1, <3>1 DEF XpWorks, XpErrors
  <3>6. /\ w \in XpWorks /\ w.pc = "raise" /\ w.seen = xpWork.seen
        /\ w.task = xpWork.task /\ w.error = error /\ w.failures = xpWork.failures
    BY <1>1, <3>2, <3>5 DEF XpWorks, XpPcs
  <3>7. XpWorkOK(w, ticket, xpTasks, xpAdapters, xpText)
    BY <1>3, <2>5, <3>5, <3>6 DEF XpWorkOK, XpReads, XpCalls
  <3> QED BY <1>2, <2>1, <2>3, <3>4, <3>6, <3>7, XpWorkerKeeps
 <2> QED BY <2>4, <2>5
<1> QED BY <1>5, <1>6, <1>7

\* The ticket of the record never conflicts with the task the worker records.
LEMMA XpNoConflict ==
  ASSUME XpAssumption, XpInv, xpWork.pc = "defer"
  PROVE  ~XpDeferConflict BY XpFacts DEF XpWorkOK, XpDeferConflict

\* The wait is recorded.
LEMMA XpDefers ==
  ASSUME XpAssumption, XpInv, XpDefer
  PROVE  XpInv'
<1>1. /\ xpTasks \in Seq(XpTaskStates) /\ DOMAIN xpTasks = 1..Len(xpTasks) /\ Len(xpTasks) \in Nat
      /\ xpWork \in XpWorks /\ XpTicketOK(xpTicket, xpTasks)
      /\ XpWorkOK(xpWork, xpTicket, xpTasks, xpAdapters, xpText)
      /\ XpItemOK(xpItem, xpWork, xpTicket, xpTasks, xpAdapters, xpText, xpCount.crashes) BY XpFacts
<1>2. xpWork.pc = "defer" /\ ~XpDeferConflict BY XpNoConflict DEF XpDefer, XpAt
<1>3. XpSent(xpWork.task, xpTasks) /\ xpWork.stage \in XpActive /\ xpWork.task \in Nat
  BY <1>1, <1>2 DEF XpWorkOK, XpWorks
<1>4. PICK ticket : ticket = xpTicket' OBVIOUS
<1>5. ticket = IF xpTicket.task = xpWork.task THEN [xpTicket EXCEPT !.state = xpWork.stage]
               ELSE [adapter |-> "mineru", task |-> xpWork.task, state |-> xpWork.stage, age |-> 0]
  BY <1>2, <1>4 DEF XpDefer
<1>6. /\ XpTicketOK(ticket, xpTasks) /\ ticket.state \in XpActive
 <2>1. CASE xpTicket.task = xpWork.task
  <3>1. xpTicket # XpNoTicket BY <1>1, <1>3, <2>1 DEF XpNoTicket, XpSent
  <3>2. /\ xpTicket \in [adapter : {"mineru"}, task : Nat, state : XpActive \cup XpTerminal, age : Nat]
        /\ ticket = [xpTicket EXCEPT !.state = xpWork.stage]
    BY <1>1, <1>5, <2>1, <3>1 DEF XpTicketOK
  <3>3. ticket \in [adapter : {"mineru"}, task : Nat, state : XpActive \cup XpTerminal, age : Nat]
        /\ ticket.state = xpWork.stage /\ ticket.task = xpWork.task BY <1>3, <2>1, <3>2
  <3> QED BY <1>3, <3>3 DEF XpTicketOK
 <2>2. CASE xpTicket.task # xpWork.task
  <3>1. /\ ticket \in [adapter : {"mineru"}, task : Nat, state : XpActive \cup XpTerminal, age : Nat]
        /\ ticket.state = xpWork.stage /\ ticket.task = xpWork.task BY <1>3, <1>5, <2>2
  <3> QED BY <1>3, <3>1 DEF XpTicketOK
 <2> QED BY <2>1, <2>2
<1>7. PICK item : item = [xpItem EXCEPT !.status = "external_wait"] OBVIOUS
<1>8. /\ UNCHANGED <<xpAdapters, xpAllowed, xpInput, xpTasks>>
      /\ xpItem' = item /\ xpWork' = XpIdle BY <1>2, <1>7 DEF XpDefer, XpUnmoved
<1>9. xpCount' \in [polls : Nat, crashes : Nat] /\ xpCount'.crashes = xpCount.crashes
 <2>1. PICK n \in Nat : n = xpCount.polls + 1 BY DEF XpInv
 <2>2. xpCount' = [xpCount EXCEPT !.polls = n] /\ xpCount \in [polls : Nat, crashes : Nat]
   BY <2>1 DEF XpDefer, XpInv
 <2> QED BY <2>2
<1>10. PICK w : w = XpIdle OBVIOUS
<1>11. w.pc = "idle" /\ XpWorkOK(w, ticket, xpTasks, xpAdapters, xpText)
 <2>1. w.pc = "idle" BY <1>10 DEF XpIdle
 <2> QED BY <1>1, <1>10, <2>1, XpIdleIs
<1>12. XpItemOK(item, w, ticket, xpTasks, xpAdapters, xpText, xpCount.crashes)
 <2>1. item \in [status : XpStatuses, attempts : Nat, by : XpBys]
       /\ item.status = "external_wait" /\ item.attempts = xpItem.attempts
   BY <1>1, <1>7 DEF XpItemOK, XpStatuses
 <2> QED BY <1>1, <1>6, <1>11, <2>1 DEF XpItemOK
<1> QED BY <1>4, <1>6, <1>8, <1>9, <1>10, <1>11, <1>12 DEF XpInv, xpInput

\* The item is parsed.
LEMMA XpFinishes ==
  ASSUME XpAssumption, XpInv, XpFinish
  PROVE  XpInv'
<1>1. /\ xpTasks \in Seq(XpTaskStates) /\ xpWork \in XpWorks /\ XpTicketOK(xpTicket, xpTasks)
      /\ XpWorkOK(xpWork, xpTicket, xpTasks, xpAdapters, xpText)
      /\ XpItemOK(xpItem, xpWork, xpTicket, xpTasks, xpAdapters, xpText, xpCount.crashes) BY XpFacts
<1>2. /\ xpWork.pc = "parsed" /\ UNCHANGED <<xpAdapters, xpAllowed, xpInput, xpTasks, xpTicket, xpCount>>
  BY DEF XpFinish, XpAt, XpUnmoved
<1>3. PICK item : item = [xpItem EXCEPT !.status = "parsed", !.by = xpWork.by] OBVIOUS
<1>4. PICK w : w = XpIdle OBVIOUS
<1>5. xpItem' = item /\ xpWork' = w BY <1>3, <1>4 DEF XpFinish
<1>6. /\ item \in [status : XpStatuses, attempts : Nat, by : XpBys]
      /\ item.status = "parsed" /\ item.attempts = xpItem.attempts /\ item.by = xpWork.by
  BY <1>1, <1>3 DEF XpItemOK, XpStatuses, XpWorks
<1>7. w.pc = "idle" /\ XpWorkOK(w, xpTicket, xpTasks, xpAdapters, xpText)
 <2>1. w.pc = "idle" BY <1>4 DEF XpIdle
 <2> QED BY <1>1, <1>4, <2>1, XpIdleIs
<1>8. xpAdapters # <<>> /\ xpTicket # XpNoTicket =>
        /\ xpTicket.state \in XpTerminal
        /\ (xpTicket.state = "completed") <=> (item.by = xpTicket.adapter)
  BY <1>1, <1>2, <1>6 DEF XpWorkOK
<1>9. XpItemOK(item, w, xpTicket, xpTasks, xpAdapters, xpText, xpCount.crashes)
  BY <1>1, <1>6, <1>7, <1>8 DEF XpItemOK
<1> QED BY <1>2, <1>5, <1>7, <1>9 DEF XpInv, xpInput

\* The item waits for its retry or is given up.
LEMMA XpRaises ==
  ASSUME XpAssumption, XpInv, XpRaise
  PROVE  XpInv'
<1>1. /\ xpTasks \in Seq(XpTaskStates) /\ xpWork \in XpWorks /\ XpTicketOK(xpTicket, xpTasks)
      /\ XpWorkOK(xpWork, xpTicket, xpTasks, xpAdapters, xpText)
      /\ XpItemOK(xpItem, xpWork, xpTicket, xpTasks, xpAdapters, xpText, xpCount.crashes) BY XpFacts
<1>2. /\ xpWork.pc = "raise" /\ UNCHANGED <<xpAdapters, xpAllowed, xpInput, xpTasks, xpCount>>
  BY DEF XpRaise, XpAt, XpUnmoved
<1>3. /\ xpWork.error # "none" /\ (xpText # "text" \/ xpWork.error = "escaped")
      /\ (xpWork.error = "failed" => XpForGood(xpWork.failures)) BY <1>1, <1>2 DEF XpWorkOK
<1>4. PICK again \in BOOLEAN :
        again = (xpWork.error \in {"transient", "escaped"} /\ xpItem.attempts < XpMaxAttempts) OBVIOUS
<1>5. PICK status : status = IF again THEN "retry_wait" ELSE "dead_letter" OBVIOUS
<1>6. PICK item : item = [xpItem EXCEPT !.status = status] OBVIOUS
<1>7. PICK ticket : ticket = IF again THEN xpTicket ELSE XpMarked(xpTicket, "failed") OBVIOUS
<1>8. PICK w : w = [XpIdle EXCEPT !.failures = xpWork.failures, !.error = xpWork.error] OBVIOUS
<1>9. xpItem' = item /\ xpWork' = w /\ xpTicket' = ticket
  BY <1>4, <1>5, <1>6, <1>7, <1>8 DEF XpRaise, XpMark, XpMarked
<1>10. /\ item \in [status : XpStatuses, attempts : Nat, by : XpBys]
       /\ item.status = status /\ item.attempts = xpItem.attempts
       /\ xpItem.attempts \in Nat /\ status \in {"retry_wait", "dead_letter"}
  BY <1>1, <1>5, <1>6 DEF XpItemOK, XpStatuses
<1>11. /\ XpTicketOK(ticket, xpTasks)
       /\ ~again /\ ticket # XpNoTicket => ticket.state \in XpTerminal
  BY <1>1, <1>7, XpMarks DEF XpTerminal
<1>12. /\ w \in XpWorks /\ w.pc = "idle" /\ w.seen = XpNoTicket /\ w.task = 0
       /\ w.error = xpWork.error /\ w.failures = xpWork.failures
  BY <1>1, <1>8, XpIdleIs DEF XpWorks, XpIdle
<1>13. XpWorkOK(w, ticket, xpTasks, xpAdapters, xpText)
 <2>1. w.task \in 0..Len(xpTasks) BY <1>1, <1>12
 <2> QED BY <1>3, <1>12, <2>1 DEF XpWorkOK, XpTicketOK, XpReads, XpCalls
<1>14. status = "dead_letter" =>
         \/ w.error = "escaped" /\ item.attempts >= XpMaxAttempts
         \/ /\ xpText # "text"
            /\ \/ w.error \in {"policy", "ocr", "unreadable"}
               \/ item.attempts >= XpMaxAttempts
               \/ w.error = "failed" /\ XpForGood(w.failures)
 <2>1. XpMaxAttempts \in Nat BY DEF XpAssumption
 <2>2. xpWork.error \in XpErrors BY <1>1 DEF XpWorks
 <2>3. status = "dead_letter" =>
         xpWork.error \notin {"transient", "escaped"} \/ xpItem.attempts >= XpMaxAttempts
  <3>1. SUFFICES ASSUME status = "dead_letter", xpWork.error \in {"transient", "escaped"}
                 PROVE  xpItem.attempts >= XpMaxAttempts OBVIOUS
  <3>2. ~(xpItem.attempts < XpMaxAttempts) BY <1>4, <1>5, <3>1
  <3> QED BY <1>10, <2>1, <3>2
 <2> QED BY <1>3, <1>10, <1>12, <2>2, <2>3 DEF XpErrors
<1>15. XpItemOK(item, w, ticket, xpTasks, xpAdapters, xpText, xpCount.crashes)
 <2>1. status = "dead_letter" => ~again BY <1>4, <1>5
 <2> QED BY <1>1, <1>10, <1>11, <1>12, <1>14, <2>1 DEF XpItemOK
<1> QED BY <1>2, <1>9, <1>11, <1>13, <1>15 DEF XpInv, xpInput

\* The service works on a task.
LEMMA XpServes ==
  ASSUME XpAssumption, XpInv, NEW t \in DOMAIN xpTasks, XpRemote(t)
  PROVE  XpInv'
<1>1. /\ xpTasks \in Seq(XpTaskStates) /\ Len(xpTasks) \in Nat
      /\ xpWork \in XpWorks /\ XpTicketOK(xpTicket, xpTasks)
      /\ XpWorkOK(xpWork, xpTicket, xpTasks, xpAdapters, xpText)
      /\ XpItemOK(xpItem, xpWork, xpTicket, xpTasks, xpAdapters, xpText, xpCount.crashes) BY XpFacts
<1>2. PICK next \in {"running", "done", "failed"} : xpTasks' = [xpTasks EXCEPT ![t] = next]
  BY DEF XpRemote
<1>3. PICK tasks : tasks = [xpTasks EXCEPT ![t] = next] OBVIOUS
<1>4. XpGrown(xpTasks, tasks) /\ Len(tasks) = Len(xpTasks)
  BY <1>1, <1>2, <1>3, XpTasksGo DEF XpTaskStates
<1>5. tasks \in Seq(XpTaskStates) /\ XpTicketOK(xpTicket, tasks)
  BY <1>1, <1>4, XpTicketStays DEF XpGrown
<1>6. DOMAIN tasks = DOMAIN xpTasks BY <1>3
<1>7. XpWorkOK(xpWork, xpTicket, tasks, xpAdapters, xpText)
 <2>1. XpTicketOK(xpWork.seen, tasks) BY <1>1, <1>4, XpTicketStays DEF XpWorkOK
 <2>2. XpSent(xpWork.task, xpTasks) => XpSent(xpWork.task, tasks) BY <1>4 DEF XpGrown, XpSent
 <2> QED BY <1>1, <1>4, <1>6, <2>1, <2>2 DEF XpWorkOK
<1>8. XpItemOK(xpItem, xpWork, xpTicket, tasks, xpAdapters, xpText, xpCount.crashes)
  BY <1>1, <1>4 DEF XpItemOK
<1>9. UNCHANGED <<xpAdapters, xpAllowed, xpInput, xpItem, xpTicket, xpWork, xpCount>>
  BY DEF XpRemote
<1> QED BY <1>2, <1>3, <1>5, <1>7, <1>8, <1>9 DEF XpInv, xpInput

\* The time of the ticket.
LEMMA XpTicks ==
  ASSUME XpAssumption, XpInv, XpTick
  PROVE  XpInv'
<1>1. /\ XpTicketOK(xpTicket, xpTasks)
      /\ XpWorkOK(xpWork, xpTicket, xpTasks, xpAdapters, xpText)
      /\ XpItemOK(xpItem, xpWork, xpTicket, xpTasks, xpAdapters, xpText, xpCount.crashes) BY XpFacts
<1>2. xpTicket # XpNoTicket BY DEF XpTick, XpNoTicket, XpActive
<1>3. xpTicket \in [adapter : {"mineru"}, task : Nat, state : XpActive \cup XpTerminal, age : Nat]
      /\ XpSent(xpTicket.task, xpTasks) BY <1>1, <1>2 DEF XpTicketOK
<1>4. PICK n \in Nat : n = xpTicket.age + 1 BY <1>3
<1>5. PICK ticket : ticket = [xpTicket EXCEPT !.age = n] OBVIOUS
<1>6. /\ xpTicket' = ticket
      /\ UNCHANGED <<xpAdapters, xpAllowed, xpInput, xpItem, xpTasks, xpWork, xpCount>>
  BY <1>4, <1>5 DEF XpTick
<1>7. /\ ticket \in [adapter : {"mineru"}, task : Nat, state : XpActive \cup XpTerminal, age : Nat]
      /\ ticket.adapter = xpTicket.adapter /\ ticket.task = xpTicket.task /\ ticket.state = xpTicket.state
  BY <1>3, <1>5
<1>8. XpTicketOK(ticket, xpTasks) /\ ticket # XpNoTicket
 <2>1. ticket.adapter = "mineru" BY <1>7
 <2> QED BY <1>3, <1>7, <2>1 DEF XpTicketOK, XpNoTicket
<1>9. XpWorkOK(xpWork, ticket, xpTasks, xpAdapters, xpText)
  BY <1>1, <1>2, <1>7, <1>8 DEF XpWorkOK, XpSame
<1>10. XpItemOK(xpItem, xpWork, ticket, xpTasks, xpAdapters, xpText, xpCount.crashes)
  BY <1>1, <1>2, <1>7, <1>8 DEF XpItemOK
<1> QED BY <1>6, <1>8, <1>9, <1>10 DEF XpInv, xpInput

\* The process dies; another recovers the item.
LEMMA XpRestarts ==
  ASSUME XpAssumption, XpInv, NEW adapters \in XpDeployments, NEW allowed \in BOOLEAN,
         XpRestart(adapters, allowed)
  PROVE  XpInv'
<1>1. /\ xpTasks \in Seq(XpTaskStates) /\ XpTicketOK(xpTicket, xpTasks)
      /\ xpWork \in XpWorks
      /\ XpWorkOK(xpWork, xpTicket, xpTasks, xpAdapters, xpText)
      /\ XpItemOK(xpItem, xpWork, xpTicket, xpTasks, xpAdapters, xpText, xpCount.crashes) BY XpFacts
<1>2. /\ xpAdapters' = adapters /\ xpAllowed' = allowed /\ UNCHANGED <<xpInput, xpTicket, xpTasks>>
  BY DEF XpRestart
<1>3. PICK status : status = IF xpItem.status = "parsing" THEN "retry_wait" ELSE xpItem.status
  OBVIOUS
<1>4. PICK item : item = [xpItem EXCEPT !.status = status] OBVIOUS
<1>5. PICK w : w = IF XpAt("idle") THEN xpWork ELSE XpIdle OBVIOUS
<1>6. xpItem' = item /\ xpWork' = w BY <1>1, <1>3, <1>4, <1>5 DEF XpRestart, XpItemOK
<1>7. xpCount' \in [polls : Nat, crashes : Nat] /\ xpCount'.crashes # 0
 <2>1. PICK n \in Nat : n = xpCount.crashes + 1 /\ n # 0 BY DEF XpInv
 <2>2. xpCount' = [xpCount EXCEPT !.crashes = n] /\ xpCount \in [polls : Nat, crashes : Nat]
   BY <2>1 DEF XpRestart, XpInv
 <2> QED BY <2>1, <2>2
<1>8. /\ item \in [status : XpStatuses, attempts : Nat, by : XpBys]
      /\ item.status = status /\ item.attempts = xpItem.attempts
  BY <1>1, <1>3, <1>4 DEF XpItemOK, XpStatuses
<1>9. w.pc = "idle" /\ XpWorkOK(w, xpTicket, xpTasks, adapters, xpText)
 <2>1. CASE XpAt("idle") BY <1>1, <1>5, <2>1 DEF XpAt, XpWorkOK, XpReads, XpCalls
 <2>2. CASE ~XpAt("idle")
  <3>1. w.pc = "idle" BY <1>5, <2>2 DEF XpIdle
  <3> QED BY <1>1, <1>5, <2>2, <3>1, XpIdleIs
 <2> QED BY <2>1, <2>2
<1>10. XpItemOK(item, w, xpTicket, xpTasks, adapters, xpText, xpCount'.crashes)
 <2>1. status # "parsing" /\ (status = "dead_letter" => xpItem.status = "dead_letter") BY <1>3
 <2>2. status = "dead_letter" => w = xpWork BY <1>1, <1>5, <2>1 DEF XpItemOK, XpAt
 <2> QED BY <1>1, <1>7, <1>8, <1>9, <2>1, <2>2 DEF XpItemOK
<1>11. PICK crashes : crashes = xpCount'.crashes OBVIOUS
<1> QED BY <1>1, <1>2, <1>6, <1>7, <1>9, <1>10, <1>11 DEF XpInv, xpInput

\* The first place of two.
LEMMA XpFirstPlace ==
  ASSUME NEW places \in SUBSET (1..2), places # {}
  PROVE  Min(places) \in places
<1>1. \E x \in places : \A y \in places : x =< y
 <2>1. \A y \in places : y = 1 \/ y = 2 OBVIOUS
 <2>2. CASE 1 \in places
  <3>1. \A y \in places : 1 =< y BY <2>1
  <3> QED BY <2>2, <3>1
 <2>3. CASE 1 \notin places
  <3>1. PICK x \in places : TRUE OBVIOUS
  <3>2. \A y \in places : y = 2 BY <2>1, <2>3
  <3> QED BY <3>1, <3>2
 <2> QED BY <2>2, <2>3
<1> QED BY <1>1 DEF Min

\* The ticket a claim dispatches is one of MinerU that was sent, or none.
LEMMA XpDispatches ==
  ASSUME XpAssumption, XpInv, xpAdapters # <<>>, NEW ticket \in {xpTicket, XpNoTicket},
         NEW work \in XpWorks, work.pc = "idle", work.seen = xpTicket, work.error = "none", work.task = 0,
         XpForGood(work.failures), NEW w, w = XpDispatch(work, ticket)
  PROVE  /\ w \in XpWorks /\ w.pc \in {"refused", "poll", "no_poll", "create", "render"}
         /\ w.seen = xpTicket /\ w.failures = work.failures
         /\ w.task \in {0, ticket.task}
         /\ w.pc = "refused" => w.error \in {"policy", "failed"}
         /\ w.pc # "refused" => w.error = "none" /\ w.at \in 1..Len(xpAdapters)
         /\ w.pc \in {"poll", "no_poll"} <=> w.pc # "refused" /\ ticket # XpNoTicket
         /\ w.pc = "poll" => w.task = ticket.task
<1>1. /\ xpAdapters \in {<<>>, <<"mineru">>, <<"qwen">>, <<"mineru", "qwen">>}
      /\ XpTicketOK(xpTicket, xpTasks) BY XpFacts
<1>2. ticket.task \in Nat BY <1>1 DEF XpTicketOK, XpNoTicket
<1>3. Len(xpAdapters) \in 1..2 /\ \A n \in 1..Len(xpAdapters) : xpAdapters[n] \in {"mineru", "qwen"}
 <2>1. Len(xpAdapters) \in 0..2 /\ Len(xpAdapters) # 0 BY <1>1, XpPlaces
 <2> QED BY <1>1, <2>1, XpPlaces
<1>4. PICK place : place = IF ticket = XpNoTicket THEN 1
                           ELSE SelectInSeq(xpAdapters, LAMBDA a : a = ticket.adapter) OBVIOUS
<1>5. place = 0 \/ place \in 1..Len(xpAdapters)
 <2>1. CASE ticket = XpNoTicket BY <1>3, <1>4, <2>1
 <2>2. CASE ticket # XpNoTicket
  <3>1. PICK name : name = ticket.adapter OBVIOUS
  <3>2. PICK places : places = {n \in 1..Len(xpAdapters) : xpAdapters[n] = name} OBVIOUS
  <3>3. place = IF places # {} THEN Min(places) ELSE 0 BY <1>4, <2>2, <3>1, <3>2 DEF SelectInSeq
  <3>4. CASE places # {}
   <4>1. places \in SUBSET (1..2) BY <1>3, <3>2
   <4>2. Min(places) \in places BY <3>4, <4>1, XpFirstPlace
   <4> QED BY <3>2, <3>3, <3>4, <4>2
  <3>5. CASE places = {} BY <3>3, <3>5
  <3> QED BY <3>4, <3>5
 <2> QED BY <2>1, <2>2
<1>6. w = CASE ~xpAllowed -> [work EXCEPT !.pc = "refused", !.error = "policy"]
            [] xpAllowed /\ place = 0 -> [work EXCEPT !.pc = "refused", !.error = "failed"]
            [] OTHER -> XpTry([work EXCEPT !.from = place, !.task = ticket.task], place, ticket # XpNoTicket)
  BY <1>4 DEF XpDispatch
<1>7. CASE ~(xpAllowed /\ place # 0)
 <2>1. PICK error \in {"policy", "failed"} : w = [work EXCEPT !.pc = "refused", !.error = error]
   BY <1>6, <1>7
 <2>2. /\ w \in XpWorks /\ w.pc = "refused" /\ w.error = error /\ w.seen = work.seen
       /\ w.failures = work.failures /\ w.task = work.task
   BY <2>1 DEF XpWorks, XpPcs, XpReads, XpErrors
 <2> QED BY <2>2
<1>8. CASE xpAllowed /\ place # 0
 <2>1. place \in 1..Len(xpAdapters) /\ place \in Nat /\ xpAdapters[place] \in {"mineru", "qwen"}
   BY <1>3, <1>5, <1>8
 <2>2. PICK resumed \in BOOLEAN : resumed = (ticket # XpNoTicket) OBVIOUS
 <2>3. PICK pc : pc = XpCall(xpAdapters[place], resumed) OBVIOUS
 <2>4. /\ pc \in {"poll", "no_poll", "create", "render"}
       /\ pc \in {"poll", "no_poll"} <=> resumed BY <2>1, <2>2, <2>3, XpCallIs
 <2>5. PICK task : task = IF resumed THEN ticket.task ELSE 0 OBVIOUS
 <2>6. w = [work EXCEPT !.from = place, !.task = task, !.at = place, !.pc = pc, !.page = 0]
   BY <1>2, <1>6, <1>8, <2>2, <2>3, <2>5 DEF XpTry, XpWorks
 <2>7. task \in Nat BY <1>2, <2>5
 <2>8. /\ w \in XpWorks /\ w.pc = pc /\ w.error = work.error /\ w.seen = work.seen
       /\ w.failures = work.failures /\ w.task = task /\ w.at = place
   BY <2>1, <2>4, <2>6, <2>7 DEF XpWorks, XpPcs, XpReads, XpCalls
 <2> QED BY <2>1, <2>2, <2>4, <2>5, <2>8
<1> QED BY <1>7, <1>8

\* The item is claimed: its parsing is dispatched.
LEMMA XpBegins ==
  ASSUME XpAssumption, XpInv, XpBegin
  PROVE  XpInv'
<1>1. /\ xpTasks \in Seq(XpTaskStates) /\ Len(xpTasks) \in Nat /\ DOMAIN xpTasks = 1..Len(xpTasks)
      /\ xpWork \in XpWorks /\ XpTicketOK(xpTicket, xpTasks)
      /\ XpItemOK(xpItem, xpWork, xpTicket, xpTasks, xpAdapters, xpText, xpCount.crashes) BY XpFacts
<1>2. /\ xpTicket \in [adapter : {"none", "mineru"}, task : Nat,
                       state : {"none"} \cup XpActive \cup XpTerminal, age : Nat]
      /\ xpTicket.task \in 0..Len(xpTasks)
 <2>1. CASE xpTicket = XpNoTicket BY <1>1, <2>1 DEF XpNoTicket
 <2>2. CASE xpTicket # XpNoTicket BY <1>1, <2>2 DEF XpTicketOK, XpSent
 <2> QED BY <2>1, <2>2
<1>3. <<>> \in Seq(BOOLEAN) OBVIOUS
<1>4. PICK none \in Seq(BOOLEAN) : none = <<>> BY <1>3
<1>5. XpForGood(none)
 <2>1. ToSet(none) = {} BY <1>4 DEF ToSet
 <2> QED BY <2>1 DEF XpForGood
<1>6. PICK work : work = [XpIdle EXCEPT !.seen = xpTicket] OBVIOUS
<1>7. /\ work \in XpWorks /\ work.pc = "idle" /\ work.seen = xpTicket /\ work.error = "none"
      /\ work.task = 0 /\ work.failures = none
 <2>1. work = [pc |-> "idle", seen |-> xpTicket, at |-> 0, from |-> 0, failures |-> none,
               task |-> 0, stage |-> "queued", page |-> 0, error |-> "none", by |-> "none"]
   BY <1>4, <1>6 DEF XpIdle
 <2> QED BY <1>2, <2>1 DEF XpWorks, XpPcs, XpActive, XpErrors, XpBys
<1>8. PICK active \in BOOLEAN : active <=> xpTicket.state \in XpActive
 <2>1. CASE xpTicket.state \in XpActive BY <2>1
 <2>2. CASE xpTicket.state \notin XpActive BY <2>2
 <2> QED BY <2>1, <2>2
<1>9. PICK ticket : ticket = IF active THEN xpTicket ELSE XpNoTicket OBVIOUS
<1>10. active => xpTicket # XpNoTicket
 <2>1. XpNoTicket.state \notin XpActive BY DEF XpNoTicket, XpActive
 <2>2. active => xpTicket.state \in XpActive BY <1>8, Zenon
 <2> QED BY <2>1, <2>2
<1>11. PICK w : w = xpWork' OBVIOUS
<1>12. /\ xpWork.pc = "idle" /\ xpItem.status \in {"queued", "retry_wait", "external_wait"}
       /\ UNCHANGED <<xpAdapters, xpAllowed, xpInput, xpTicket, xpTasks, xpCount>>
  BY DEF XpBegin, XpAt
<1>13. w = CASE xpAdapters = <<>> -> [work EXCEPT !.pc = "local"]
             [] xpAdapters # <<>> /\ active /\ xpTicket.age >= XpWait ->
                  [work EXCEPT !.pc = "expire", !.error = "transient"]
             [] OTHER -> XpDispatch(work, ticket) BY <1>6, <1>8, <1>9, <1>11 DEF XpBegin
<1>14. PICK attempts : attempts = IF xpItem.status = "external_wait" THEN xpItem.attempts
                                  ELSE xpItem.attempts + 1 OBVIOUS
<1>15. PICK item : item = [xpItem EXCEPT !.attempts = attempts, !.status = "parsing"] OBVIOUS
<1>16. xpItem' = item BY <1>1, <1>14, <1>15 DEF XpBegin, XpItemOK
<1>17. attempts \in Nat /\ xpItem.attempts \in Nat
       /\ attempts >= xpItem.attempts
       /\ (xpItem.status # "external_wait" => attempts = xpItem.attempts + 1)
  BY <1>1, <1>14 DEF XpItemOK
<1>18. /\ item \in [status : XpStatuses, attempts : Nat, by : XpBys]
       /\ item.status = "parsing" /\ item.attempts = attempts
  BY <1>1, <1>15, <1>17 DEF XpItemOK, XpStatuses
<1>19. /\ w \in XpWorks /\ w.seen = xpTicket /\ w.failures = none
       /\ w.task \in {0, ticket.task}
       /\ w.pc \in {"local", "expire", "refused", "poll", "no_poll", "create", "render"}
       /\ w.pc = "local" => xpAdapters = <<>> /\ w.error = "none"
       /\ w.pc = "expire" => w.error = "transient"
       /\ w.pc = "refused" => w.error \in {"policy", "failed"}
       /\ w.pc \in XpCalls => w.error = "none" /\ w.at \in 1..Len(xpAdapters)
       /\ w.pc = "poll" => w.task = ticket.task /\ active
       /\ w.pc = "create" => ~active
 <2>1. CASE xpAdapters = <<>>
  <3>1. w = [work EXCEPT !.pc = "local"] BY <1>13, <2>1
  <3> QED BY <1>7, <2>1, <3>1 DEF XpWorks, XpPcs, XpCalls
 <2>2. CASE xpAdapters # <<>> /\ active /\ xpTicket.age >= XpWait
  <3>1. w = [work EXCEPT !.pc = "expire", !.error = "transient"] BY <1>13, <2>2
  <3> QED BY <1>7, <3>1 DEF XpWorks, XpPcs, XpReads, XpCalls, XpErrors
 <2>3. CASE xpAdapters # <<>> /\ ~(active /\ xpTicket.age >= XpWait)
  <3>1. w = XpDispatch(work, ticket) BY <1>13, <2>3
  <3>2. ticket \in {xpTicket, XpNoTicket} BY <1>9
  <3>3. /\ w \in XpWorks /\ w.pc \in {"refused", "poll", "no_poll", "create", "render"}
        /\ w.seen = xpTicket /\ w.failures = none
        /\ w.task \in {0, ticket.task}
        /\ w.pc = "refused" => w.error \in {"policy", "failed"}
        /\ w.pc # "refused" => w.error = "none" /\ w.at \in 1..Len(xpAdapters)
        /\ w.pc \in {"poll", "no_poll"} <=> w.pc # "refused" /\ ticket # XpNoTicket
        /\ w.pc = "poll" => w.task = ticket.task BY <1>5, <1>7, <2>3, <3>1, <3>2, XpDispatches
  <3> QED BY <1>9, <1>10, <3>3 DEF XpCalls
 <2> QED BY <2>1, <2>2, <2>3
<1>20. XpWorkOK(w, xpTicket, xpTasks, xpAdapters, xpText)
 <2>1. w.task \in 0..Len(xpTasks)
  <3>1. ticket.task \in 0..Len(xpTasks) BY <1>1, <1>2, <1>9 DEF XpNoTicket
  <3> QED BY <1>1, <1>19, <3>1
 <2>2. w.pc = "poll" => XpSent(w.task, xpTasks)
  <3>1. active => XpSent(xpTicket.task, xpTasks) BY <1>1, <1>10 DEF XpTicketOK
  <3> QED BY <1>9, <1>19, <3>1
 <2>3. XpTicketOK(w.seen, xpTasks) /\ XpSame(w.seen, xpTicket) BY <1>1, <1>19 DEF XpSame
 <2> QED BY <1>5, <1>19, <2>1, <2>2, <2>3 DEF XpWorkOK, XpReads, XpCalls
<1>21. XpItemOK(item, w, xpTicket, xpTasks, xpAdapters, xpText, xpCount.crashes)
 <2>1. w.pc # "idle" BY <1>19
 <2>2. xpCount.crashes = 0 =>
         /\ Len(xpTasks) <= xpItem.attempts
         /\ xpItem.status = "external_wait" => active BY <1>1, <1>8 DEF XpItemOK
 <2>3. xpCount.crashes = 0 /\ w.pc = "create" => attempts = xpItem.attempts + 1
   BY <1>17, <1>19, <2>2
 <2>4. xpCount.crashes = 0 => Len(xpTasks) <= attempts BY <1>1, <1>17, <2>2
 <2>5. xpCount.crashes = 0 /\ w.pc = "create" => Len(xpTasks) < attempts BY <1>1, <1>17, <2>2, <2>3
 <2> QED BY <1>18, <2>1, <2>4, <2>5 DEF XpItemOK
<1> QED BY <1>11, <1>12, <1>16, <1>20, <1>21 DEF XpInv, xpInput

\* Nothing is claimed at first.
LEMMA XpStarts ==
  ASSUME XpAssumption, XpInit
  PROVE  XpInv
<1>1. <<>> \in Seq(XpTaskStates) OBVIOUS
<1>2. PICK tasks \in Seq(XpTaskStates) : tasks = <<>> BY <1>1
<1>3. Len(tasks) = 0 BY <1>2
<1>4. xpTasks = tasks BY <1>2 DEF XpInit
<1>5. PICK w : w = XpIdle OBVIOUS
<1>6. w.pc = "idle" /\ xpWork = w BY <1>5 DEF XpInit, XpIdle
<1>7. XpWorkOK(xpWork, xpTicket, xpTasks, xpAdapters, xpText) BY <1>4, <1>5, <1>6, XpIdleIs
<1>8. /\ xpItem \in [status : XpStatuses, attempts : Nat, by : XpBys]
      /\ xpItem.status = "queued" /\ xpItem.attempts = 0 BY DEF XpInit, XpStatuses, XpBys
<1>9. xpTicket = XpNoTicket BY DEF XpInit
<1>10. XpItemOK(xpItem, xpWork, xpTicket, xpTasks, xpAdapters, xpText, xpCount.crashes)
  BY <1>3, <1>4, <1>6, <1>8, <1>9 DEF XpItemOK
<1> QED BY <1>4, <1>7, <1>9, <1>10 DEF XpInv, XpInit, XpTicketOK, XpAssumption

\* The invariant says what the states of an external parse promise.
LEMMA XpImplies ==
  ASSUME XpAssumption, XpInv
  PROVE  XpParsingHolds /\ XpTypeOK
<1>1. /\ xpTasks \in Seq(XpTaskStates) /\ Len(xpTasks) \in Nat /\ DOMAIN xpTasks = 1..Len(xpTasks)
      /\ xpWork \in XpWorks /\ XpTicketOK(xpTicket, xpTasks)
      /\ XpWorkOK(xpWork, xpTicket, xpTasks, xpAdapters, xpText)
      /\ XpItemOK(xpItem, xpWork, xpTicket, xpTasks, xpAdapters, xpText, xpCount.crashes) BY XpFacts
<1>2. XpTicketIsFree BY XpNoConflict DEF XpTicketIsFree, XpAt
<1>3. XpTicketIsSent BY <1>1 DEF XpTicketIsSent, XpTicketOK, XpWorkOK, XpSent, XpAt
<1>4. XpGivenUpForGood BY <1>1 DEF XpGivenUpForGood, XpItemOK, XpForGood
<1>5. XpTicketTellsOutcome BY <1>1 DEF XpTicketTellsOutcome, XpItemOK
<1>6. XpOneUpload
 <2>1. SUFFICES ASSUME xpCount.crashes = 0, NEW t \in XpUploads PROVE t <= xpItem.attempts
   BY DEF XpOneUpload
 <2>2. t \in 1..Len(xpTasks) BY <1>1, <2>1 DEF XpUploads
 <2>3. Len(xpTasks) <= xpItem.attempts /\ xpItem.attempts \in Nat BY <1>1, <2>1 DEF XpItemOK
 <2> QED BY <1>1, <2>2, <2>3
<1>7. XpTypeOK
 <2>1. xpTicket.state \in XpActive \cup XpTerminal \cup {"none"} /\ xpTicket.task \in 0..Len(xpTasks)
  <3>1. CASE xpTicket = XpNoTicket BY <1>1, <3>1 DEF XpNoTicket
  <3>2. CASE xpTicket # XpNoTicket BY <1>1, <3>2 DEF XpTicketOK, XpSent
  <3> QED BY <3>1, <3>2
 <2>2. xpWork.task \in 0..Len(xpTasks) /\ xpWork.failures \in Seq(BOOLEAN) /\ xpWork.error \in XpErrors
   BY <1>1 DEF XpWorkOK, XpWorks
 <2>3. xpItem.status \in XpStatuses /\ xpItem.by \in XpBys BY <1>1 DEF XpItemOK
 <2> QED BY <2>1, <2>2, <2>3 DEF XpTypeOK, XpInv, XpErrors, XpStatuses, XpBys
<1> QED BY <1>2, <1>3, <1>4, <1>5, <1>6, <1>7 DEF XpParsingHolds

\* However a parse is retried, superseded, timed out or resumed by another
\* process, its ticket is free when it is replaced and was sent when it is
\* polled, says at the end whose document the item has, and no attempt
\* uploads twice; an item is only given up when no parser could do better, or
\* with its last attempt on an error no adapter foresees.
THEOREM ParsingHolds == XpSpec => [](XpParsingHolds /\ XpTypeOK)
<1>1. XpAssumption BY XpAssumption
<1>2. XpInit => XpInv BY <1>1, XpStarts
<1>3. XpInv /\ [XpNext]_xpVars => XpInv'
 <2>1. SUFFICES ASSUME XpInv, [XpNext]_xpVars PROVE XpInv' OBVIOUS
 <2>2. CASE XpNext
  <3>1. CASE XpBegin BY <1>1, <2>1, <3>1, XpBegins
  <3>2. CASE \E outcome \in {"ok", "retryable", "refused"}, lost \in BOOLEAN :
               XpCreate(outcome, lost) \/ XpUpload(outcome, lost) BY <1>1, <2>1, <3>2, XpSubmits
  <3>3. CASE \/ \E outcome \in {"ok", "retryable", "refused"} :
                  XpPoll(outcome) \/ XpDownload(outcome) \/ XpPage(outcome)
             \/ XpNoPoll \/ XpTimeout \/ \E drawn \in BOOLEAN : XpRender(drawn)
    BY <1>1, <2>1, <3>3, XpAsks
  <3>4. CASE XpSupersede \/ XpExpire \/ XpRefused BY <1>1, <2>1, <3>4, XpCloses
  <3>5. CASE XpAccept \/ XpLocal \/ XpFallback BY <1>1, <2>1, <3>5, XpParses
  <3>6. CASE XpDefer BY <1>1, <2>1, <3>6, XpDefers
  <3>7. CASE XpFinish BY <1>1, <2>1, <3>7, XpFinishes
  <3>8. CASE XpRaise BY <1>1, <2>1, <3>8, XpRaises
  <3>9. CASE \E t \in DOMAIN xpTasks : XpRemote(t) BY <1>1, <2>1, <3>9, XpServes
  <3>10. CASE XpTick BY <1>1, <2>1, <3>10, XpTicks
  <3>11. CASE \E adapters \in XpDeployments, allowed \in BOOLEAN : XpRestart(adapters, allowed)
    BY <1>1, <2>1, <3>11, XpRestarts
  <3>12. CASE \E arrived \in BOOLEAN : XpEscape(arrived) BY <1>1, <2>1, <3>12, XpEscapes
  <3> QED BY <2>2, <3>1, <3>2, <3>3, <3>4, <3>5, <3>6, <3>7, <3>8, <3>9, <3>10, <3>11, <3>12
      DEF XpNext
 <2>3. CASE UNCHANGED xpVars BY <2>1, <2>3 DEF xpVars, xpInput, XpInv
 <2> QED BY <2>1, <2>2, <2>3
<1>4. XpInv => XpParsingHolds /\ XpTypeOK BY <1>1, XpImplies
<1> QED BY <1>2, <1>3, <1>4, PTL DEF XpSpec

--------------------
(* The local parsers: blocks are the source, in order. *)

\* FlattenSeq, as far as each of the sequences it joins.
FlRuns(f, s) == f = [i \in 1..Len(s) |-> IF i = 1 THEN s[i] ELSE f[i - 1] \o s[i]]

\* There are such partial results.
LEMMA FlRunsExist ==
  ASSUME NEW S, NEW s \in Seq(Seq(S))
  PROVE  \E f \in [1..Len(s) -> Seq(S)] : FlRuns(f, s)
<1> DEFINE n == Len(s)
           Rec(f, i) == IF i = 1 THEN s[i] ELSE f[i - 1] \o s[i]
           Q == {k \in 0..n : \E f \in [1..n -> Seq(S)] : \A i \in 1..k : f[i] = Rec(f, i)}
<1>0. n \in Nat /\ s \in [1..n -> Seq(S)] OBVIOUS
<1>1. 0 \in Q
 <2>1. 0 \in 0..n /\ \A i \in 1..0 : s[i] = Rec(s, i) BY <1>0
 <2> QED BY <1>0, <2>1
<1>2. ASSUME NEW k \in 1..n, k - 1 \in Q PROVE k \in Q
 <2>1. PICK f \in [1..n -> Seq(S)] : \A i \in 1..(k - 1) : f[i] = Rec(f, i) BY <1>2
 <2>2. Rec(f, k) \in Seq(S)
  <3>1. CASE k = 1 BY <1>0, <3>1
  <3>2. CASE k # 1
   <4>1. k - 1 \in 1..n /\ k \in 1..n BY <1>0, <3>2
   <4>2. f[k - 1] \in Seq(S) /\ s[k] \in Seq(S) BY <1>0, <2>1, <4>1
   <4>3. f[k - 1] \o s[k] \in Seq(S) BY <4>2
   <4> QED BY <3>2, <4>3
  <3> QED BY <3>1, <3>2
 <2>3. PICK x \in Seq(S) : x = Rec(f, k) BY <2>2
 <2>4. PICK g : g = [f EXCEPT ![k] = x] OBVIOUS
 <2>5. g \in [1..n -> Seq(S)] /\ g[k] = x /\ \A i \in 1..n : i # k => g[i] = f[i]
   BY <2>1, <2>3, <2>4
 <2>6. ASSUME NEW i \in 1..k PROVE g[i] = Rec(g, i)
  <3>1. CASE i = k
   <4>1. k # 1 => k - 1 \in 1..n /\ k - 1 # k BY <1>0
   <4> QED BY <2>3, <2>5, <3>1, <4>1
  <3>2. CASE i # k
   <4>1. i \in 1..(k - 1) /\ i \in 1..n /\ (i # 1 => i - 1 \in 1..n /\ i - 1 # k) BY <1>0, <3>2
   <4> QED BY <2>1, <2>5, <3>2, <4>1
  <3> QED BY <3>1, <3>2
 <2>7. \E h \in [1..n -> Seq(S)] : \A i \in 1..k : h[i] = Rec(h, i) BY <2>5, <2>6
 <2>8. k \in 0..n OBVIOUS
 <2> QED BY <2>7, <2>8
<1>3. n \in Q
 <2> HIDE DEF Q
 <2>1. \A k \in 0..n : k \in Q BY <1>0, <1>1, <1>2, CxInduction
 <2> QED BY <1>0, <2>1
<1>4. PICK f \in [1..n -> Seq(S)] : \A i \in 1..n : f[i] = Rec(f, i) BY <1>3
<1>5. f = [i \in 1..n |-> IF i = 1 THEN s[i] ELSE f[i - 1] \o s[i]] BY <1>4
<1> QED BY <1>4, <1>5 DEF FlRuns

\* They depend on what has been joined alone.
LEMMA FlRunsAgree ==
  ASSUME NEW B, NEW s \in Seq(B), NEW t \in Seq(B), NEW f, FlRuns(f, s), NEW g, FlRuns(g, t),
         NEW n \in Nat, n <= Len(s), n <= Len(t), \A i \in 1..n : s[i] = t[i]
  PROVE  \A i \in 1..n : f[i] = g[i]
<1>1. PICK Q : Q = {k \in 0..n : k = 0 \/ f[k] = g[k]} OBVIOUS
<1>2. 0 \in Q BY <1>1
<1>3. ASSUME NEW k \in 1..n, k - 1 \in Q PROVE k \in Q
 <2>1. k \in 1..Len(s) /\ k \in 1..Len(t) /\ k \in 0..n OBVIOUS
 <2>2. /\ f[k] = IF k = 1 THEN s[k] ELSE f[k - 1] \o s[k]
       /\ g[k] = IF k = 1 THEN t[k] ELSE g[k - 1] \o t[k] BY <2>1 DEF FlRuns
 <2>3. k = 1 \/ f[k - 1] = g[k - 1] BY <1>1, <1>3
 <2>4. f[k] = g[k] BY <2>2, <2>3
 <2> QED BY <1>1, <2>1, <2>4
<1>4. \A k \in 0..n : k \in Q BY <1>2, <1>3, CxInduction
<1>5. ASSUME NEW i \in 1..n PROVE f[i] = g[i]
 <2>1. i \in 0..n /\ i # 0 OBVIOUS
 <2> QED BY <1>1, <1>4, <2>1
<1> QED BY <1>5

\* Joining one more changes none of them.
LEMMA FlLonger ==
  ASSUME NEW B, NEW s \in Seq(B), NEW x \in B, NEW f, FlRuns(f, s), NEW g, FlRuns(g, Append(s, x))
  PROVE  \A i \in 1..Len(s) : f[i] = g[i]
<1>1. PICK t : t = Append(s, x) OBVIOUS
<1>2. t \in Seq(B) /\ Len(s) \in Nat /\ Len(t) = Len(s) + 1 /\ \A i \in 1..Len(s) : s[i] = t[i]
  BY <1>1
<1>3. PICK n \in Nat : n = Len(s) BY <1>2
<1>4. n <= Len(s) /\ n <= Len(t) /\ FlRuns(g, t) /\ \A i \in 1..n : s[i] = t[i] BY <1>1, <1>2, <1>3
<1>5. \A i \in 1..n : f[i] = g[i] BY <1>2, <1>4, FlRunsAgree
<1> QED BY <1>3, <1>5

\* The last of them is the sequence that FlattenSeq chooses.
LEMMA FlDef ==
  ASSUME NEW S, NEW s \in Seq(Seq(S)), Len(s) # 0
  PROVE  \E f \in [1..Len(s) -> Seq(S)] : FlRuns(f, s) /\ FlattenSeq(s) = f[Len(s)]
<1>1. PICK f : f = CHOOSE h : h = [i \in 1..Len(s) |-> IF i = 1 THEN s[i] ELSE h[i - 1] \o s[i]]
  OBVIOUS
<1>2. PICK g \in [1..Len(s) -> Seq(S)] : FlRuns(g, s) BY FlRunsExist
<1>3. f = [i \in 1..Len(s) |-> IF i = 1 THEN s[i] ELSE f[i - 1] \o s[i]]
  BY <1>1, <1>2, Zenon DEF FlRuns
<1>4. FlattenSeq(s) = f[Len(s)] BY <1>1, Zenon DEF FlattenSeq
<1>5. FlRuns(f, s) BY <1>3 DEF FlRuns
<1>6. Len(s) \in Nat /\ Len(s) <= Len(s) /\ \A i \in 1..Len(s) : s[i] = s[i] OBVIOUS
<1>7. \A i \in 1..Len(s) : f[i] = g[i] BY <1>2, <1>5, <1>6, FlRunsAgree
<1>8. f \in [1..Len(s) -> Seq(S)] BY <1>2, <1>3, <1>7
<1> QED BY <1>4, <1>5, <1>8

\* FlattenSeq joins one sequence after the other.
LEMMA FlAppend ==
  ASSUME NEW S, NEW s \in Seq(Seq(S)), NEW x \in Seq(S)
  PROVE  /\ FlattenSeq(s) \in Seq(S)
         /\ FlattenSeq(Append(s, x)) = FlattenSeq(s) \o x
<1>1. PICK t : t = Append(s, x) OBVIOUS
<1>2. /\ t \in Seq(Seq(S)) /\ Len(s) \in Nat /\ Len(t) = Len(s) + 1
      /\ t[Len(s) + 1] = x /\ \A i \in 1..Len(s) : t[i] = s[i] BY <1>1
<1>3. PICK g \in [1..Len(t) -> Seq(S)] : FlRuns(g, t) /\ FlattenSeq(t) = g[Len(t)] BY <1>2, FlDef
<1>4. Len(t) \in 1..Len(t) BY <1>2
<1>5. g[Len(t)] = IF Len(t) = 1 THEN t[Len(t)] ELSE g[Len(t) - 1] \o t[Len(t)]
  BY <1>3, <1>4 DEF FlRuns
<1>6. CASE Len(s) = 0
 <2>1. s = <<>> BY <1>6
 <2>2. FlattenSeq(s) = <<>> BY <1>6, <2>1 DEF FlattenSeq
 <2>3. <<>> \in Seq(S) /\ <<>> \o x = x OBVIOUS
 <2>4. FlattenSeq(t) = x BY <1>2, <1>3, <1>5, <1>6
 <2> QED BY <1>1, <2>2, <2>3, <2>4
<1>7. CASE Len(s) # 0
 <2>1. PICK f \in [1..Len(s) -> Seq(S)] : FlRuns(f, s) /\ FlattenSeq(s) = f[Len(s)] BY <1>7, FlDef
 <2>2. Len(s) \in 1..Len(s) /\ Len(s) <= Len(s) /\ Len(s) <= Len(t) BY <1>2, <1>7
 <2>3. \A i \in 1..Len(s) : f[i] = g[i] BY <1>1, <1>3, <2>1, FlLonger
 <2>4. f[Len(s)] = g[Len(s)] /\ f[Len(s)] \in Seq(S) BY <2>1, <2>2, <2>3
 <2>5. Len(t) # 1 /\ Len(t) - 1 = Len(s) BY <1>2, <1>7
 <2>6. FlattenSeq(t) = f[Len(s)] \o x BY <1>2, <1>3, <1>5, <2>4, <2>5
 <2> QED BY <1>1, <2>1, <2>4, <2>6
<1> QED BY <1>6, <1>7

DbBlockRow == [kind: DbStoredKinds, parts: Seq(Nat), path: Seq(Nat)]

DbPartsOf(blocks) == FlattenSeq([b \in DOMAIN blocks |-> blocks[b].parts])

\* A new block adds its parts to those of the others.
LEMMA DbPartsAdd ==
  ASSUME NEW blocks \in Seq(DbBlockRow), NEW row \in DbBlockRow
  PROVE  /\ DbPartsOf(blocks) \in Seq(Nat)
         /\ DbPartsOf(Append(blocks, row)) = DbPartsOf(blocks) \o row.parts
<1>1. PICK s : s = [b \in DOMAIN blocks |-> blocks[b].parts] OBVIOUS
<1>2. Len(blocks) \in Nat /\ DOMAIN blocks = 1..Len(blocks) /\ row.parts \in Seq(Nat)
  BY DEF DbBlockRow
<1>3. \A b \in 1..Len(blocks) : blocks[b].parts \in Seq(Nat)
 <2>1. ASSUME NEW b \in 1..Len(blocks) PROVE blocks[b].parts \in Seq(Nat)
  <3>1. blocks[b] \in DbBlockRow OBVIOUS
  <3> QED BY <3>1 DEF DbBlockRow
 <2> QED BY <2>1
<1>4. s \in [1..Len(blocks) -> Seq(Nat)] BY <1>1, <1>2, <1>3
<1>5. s \in Seq(Seq(Nat)) /\ Len(s) = Len(blocks) BY <1>2, <1>4
<1>6. PICK more : more = Append(blocks, row) OBVIOUS
<1>7. /\ DOMAIN more = 1..(Len(blocks) + 1) /\ more[Len(blocks) + 1] = row
      /\ \A b \in 1..Len(blocks) : more[b] = blocks[b] BY <1>2, <1>6
<1>8. PICK t : t = [b \in DOMAIN more |-> more[b].parts] OBVIOUS
<1>9. PICK u : u = Append(s, row.parts) OBVIOUS
<1>10. /\ u = [b \in 1..(Len(blocks) + 1) |-> u[b]] /\ u[Len(blocks) + 1] = row.parts
       /\ \A b \in 1..Len(blocks) : u[b] = s[b] BY <1>2, <1>5, <1>9
<1>11. ASSUME NEW b \in 1..(Len(blocks) + 1) PROVE u[b] = more[b].parts
 <2>1. CASE b = Len(blocks) + 1 BY <1>7, <1>10, <2>1
 <2>2. CASE b # Len(blocks) + 1
  <3>1. b \in 1..Len(blocks) BY <1>2, <2>2
  <3> QED BY <1>1, <1>2, <1>7, <1>10, <3>1
 <2> QED BY <2>1, <2>2
<1>12. t = u BY <1>7, <1>8, <1>10, <1>11
<1>13. FlattenSeq(s) \in Seq(Nat) /\ FlattenSeq(u) = FlattenSeq(s) \o row.parts
  BY <1>2, <1>5, <1>9, FlAppend
<1> QED BY <1>1, <1>6, <1>8, <1>12, <1>13 DEF DbPartsOf

\* A sequence is another with one more element, which may be replaced.
DbSplit(S, s, front, x) ==
  /\ s = Append(front, x) /\ x = s[Len(s)] /\ Len(s) = Len(front) + 1
  /\ \A y \in S : [s EXCEPT ![Len(s)] = y] = Append(front, y)

DbBegins(front, s, n) == \A i \in 1..n : front[i] = s[i]

\* Replacing the last element is taking it away and adding another.
LEMMA DbReplaced ==
  ASSUME NEW S, NEW n \in Nat, NEW s \in [1..(n + 1) -> S], NEW front \in [1..n -> S],
         DbBegins(front, s, n), NEW y \in S
  PROVE  [s EXCEPT ![n + 1] = y] = Append(front, y)
<1>1. front \in Seq(S) /\ Len(front) = n OBVIOUS
<1>2. PICK u : u = Append(front, y) OBVIOUS
<1>3. u \in Seq(S) /\ Len(u) = n + 1 BY <1>1, <1>2
<1>4. u[n + 1] = y /\ \A i \in 1..n : u[i] = front[i] BY <1>1, <1>2
<1>5. PICK t : t = [s EXCEPT ![n + 1] = y] OBVIOUS
<1>6. n + 1 \in 1..(n + 1) /\ \A i \in 1..n : i \in 1..(n + 1) /\ i # n + 1 OBVIOUS
<1>7. t \in [1..(n + 1) -> S] /\ t[n + 1] = y /\ \A i \in 1..n : t[i] = front[i]
  BY <1>5, <1>6 DEF DbBegins
<1>8. u \in [1..(n + 1) -> S] BY <1>3
<1>9. \A i \in 1..(n + 1) : i = n + 1 \/ i \in 1..n OBVIOUS
<1>10. \A i \in 1..(n + 1) : t[i] = u[i] BY <1>4, <1>7, <1>9
<1>11. t = u BY <1>7, <1>8, <1>10
<1> QED BY <1>2, <1>5, <1>11

\* All but the last block, and the last.
LEMMA DbLastOff ==
  ASSUME NEW S, NEW s \in Seq(S), s # <<>>
  PROVE  \E front \in Seq(S), x \in S : DbSplit(S, s, front, x)
<1>1. Len(s) \in Nat /\ Len(s) # 0 /\ s \in [1..Len(s) -> S] OBVIOUS
<1>2. Len(s) - 1 \in Nat BY <1>1
<1>3. PICK n \in Nat : n = Len(s) - 1 BY <1>2
<1>4. Len(s) = n + 1 /\ s \in [1..(n + 1) -> S] /\ n + 1 \in 1..(n + 1) BY <1>1, <1>3
<1>5. PICK front : front = [i \in 1..n |-> s[i]] OBVIOUS
<1>6. front \in [1..n -> S] /\ \A i \in 1..n : front[i] = s[i] BY <1>4, <1>5
<1>7. front \in Seq(S) /\ Len(front) = n BY <1>6
<1>8. s[n + 1] \in S BY <1>4
<1>9. PICK x \in S : x = s[n + 1] BY <1>8
<1>10. \A y \in S : [s EXCEPT ![n + 1] = y] = Append(front, y)
 <2>1. DbBegins(front, s, n) BY <1>6 DEF DbBegins
 <2>2. s \in [1..(n + 1) -> S] /\ front \in [1..n -> S] BY <1>4, <1>6
 <2> QED BY <2>1, <2>2, DbReplaced
<1>11. [s EXCEPT ![n + 1] = x] = s BY <1>4, <1>9
<1>12. s = Append(front, x) BY <1>10, <1>11
<1> QED BY <1>4, <1>7, <1>9, <1>10, <1>12 DEF DbSplit

\* Joining is associative.
LEMMA DbAssoc ==
  ASSUME NEW p \in Seq(Nat), NEW q \in Seq(Nat), NEW r \in Seq(Nat)
  PROVE  (p \o q) \o r = p \o (q \o r)
OBVIOUS

\* Joining to the last block adds the parts at the end as well.
LEMMA DbPartsJoin ==
  ASSUME NEW blocks \in Seq(DbBlockRow), blocks # <<>>, NEW parts \in Seq(Nat), NEW more,
         more = [blocks EXCEPT ![Len(blocks)].parts = @ \o parts]
  PROVE  /\ more \in Seq(DbBlockRow) /\ Len(more) = Len(blocks)
         /\ DbPartsOf(more) = DbPartsOf(blocks) \o parts
<1>1. PICK front \in Seq(DbBlockRow), x \in DbBlockRow : DbSplit(DbBlockRow, blocks, front, x)
  BY DbLastOff
<1>2. PICK y : y = [x EXCEPT !.parts = x.parts \o parts] OBVIOUS
<1>3. x.parts \in Seq(Nat) /\ x.parts \o parts \in Seq(Nat) BY DEF DbBlockRow
<1>4. y \in DbBlockRow /\ y.parts = x.parts \o parts BY <1>2, <1>3 DEF DbBlockRow
<1>5. more = [blocks EXCEPT ![Len(blocks)] = y] BY <1>1, <1>2, <1>4 DEF DbSplit
<1>6. more = Append(front, y) /\ blocks = Append(front, x) /\ Len(blocks) = Len(front) + 1
  BY <1>1, <1>4, <1>5 DEF DbSplit
<1>7. /\ DbPartsOf(front) \in Seq(Nat) /\ DbPartsOf(blocks) = DbPartsOf(front) \o x.parts
      /\ DbPartsOf(more) = DbPartsOf(front) \o y.parts BY <1>4, <1>6, DbPartsAdd
<1>8. DbPartsOf(front) \o (x.parts \o parts) = (DbPartsOf(front) \o x.parts) \o parts
 <2>1. PICK p : p = DbPartsOf(front) OBVIOUS
 <2>2. PICK q : q = x.parts OBVIOUS
 <2>3. p \in Seq(Nat) /\ q \in Seq(Nat) BY <1>3, <1>7, <2>1, <2>2
 <2>4. (p \o q) \o parts = p \o (q \o parts) BY <2>3, DbAssoc
 <2> QED BY <2>1, <2>2, <2>4
<1>9. Append(front, y) \in Seq(DbBlockRow) /\ Len(Append(front, y)) = Len(front) + 1 BY <1>4
<1> QED BY <1>4, <1>6, <1>7, <1>8, <1>9

\* At first there are none.
LEMMA DbPartsNone == ASSUME NEW blocks, blocks = <<>> PROVE DbPartsOf(blocks) = <<>>
<1>1. PICK s : s = [b \in DOMAIN blocks |-> blocks[b].parts] OBVIOUS
<1>2. s = <<>> BY <1>1
<1>3. FlattenSeq(s) = <<>> BY <1>2 DEF FlattenSeq
<1> QED BY <1>1, <1>3 DEF DbPartsOf

DbAscending(p) == \A m, n \in DOMAIN p : m < n => p[m] < p[n]

DbIsJoin(r, p, q) ==
  /\ r \in Seq(Nat) /\ Len(r) = Len(p) + Len(q)
  /\ \A i \in 1..Len(p) : r[i] = p[i]
  /\ \A i \in 1..Len(q) : r[Len(p) + i] = q[i]
  /\ \A i \in DOMAIN r : i \in 1..Len(p) \/ \E j \in 1..Len(q) : i = Len(p) + j
  /\ ToSet(r) = ToSet(p) \cup ToSet(q)

\* What two sequences joined consist of.
LEMMA DbJoined == \A p, q \in Seq(Nat) : DbIsJoin(p \o q, p, q)
<1> SUFFICES ASSUME NEW p \in Seq(Nat), NEW q \in Seq(Nat) PROVE DbIsJoin(p \o q, p, q) OBVIOUS
<1>0. PICK r : r = p \o q OBVIOUS
<1>1. /\ r \in Seq(Nat) /\ Len(r) = Len(p) + Len(q) /\ Len(p) \in Nat /\ Len(q) \in Nat
      /\ \A i \in 1..Len(p) : r[i] = p[i]
      /\ \A i \in 1..Len(q) : r[Len(p) + i] = q[i] BY <1>0, ConcatProperties
<1>2. DOMAIN r = 1..Len(r) /\ DOMAIN p = 1..Len(p) /\ DOMAIN q = 1..Len(q) BY <1>1
<1>3. ASSUME NEW i \in DOMAIN r PROVE i \in 1..Len(p) \/ \E j \in 1..Len(q) : i = Len(p) + j
 <2>1. i \in 1..(Len(p) + Len(q)) /\ Len(p) \in Nat /\ Len(q) \in Nat BY <1>1, <1>2
 <2>2. CASE i > Len(p)
  <3>1. i - Len(p) \in 1..Len(q) /\ i = Len(p) + (i - Len(p)) BY <2>1, <2>2
  <3> QED BY <3>1
 <2>3. CASE ~(i > Len(p)) BY <2>1, <2>3
 <2> QED BY <2>2, <2>3
<1>4. \A i \in 1..Len(p) : i \in DOMAIN r BY <1>1, <1>2
<1>5. \A j \in 1..Len(q) : Len(p) + j \in DOMAIN r BY <1>1, <1>2
<1>6. ASSUME NEW x PROVE x \in ToSet(r) <=> x \in ToSet(p) \cup ToSet(q)
 <2>1. ASSUME x \in ToSet(r) PROVE x \in ToSet(p) \cup ToSet(q)
  <3>1. PICK i \in DOMAIN r : x = r[i] BY <2>1 DEF ToSet
  <3>2. CASE i \in 1..Len(p)
   <4>1. i \in DOMAIN p /\ p[i] = x BY <1>1, <1>2, <3>1, <3>2
   <4> QED BY <4>1 DEF ToSet
  <3>3. CASE i \notin 1..Len(p)
   <4>1. PICK j \in 1..Len(q) : i = Len(p) + j BY <1>3, <3>3
   <4>2. j \in DOMAIN q /\ q[j] = x BY <1>1, <1>2, <3>1, <4>1
   <4> QED BY <4>2 DEF ToSet
  <3> QED BY <3>2, <3>3
 <2>2. ASSUME x \in ToSet(p) PROVE x \in ToSet(r)
  <3>1. PICK i \in DOMAIN p : x = p[i] BY <2>2 DEF ToSet
  <3>2. i \in DOMAIN r /\ r[i] = x BY <1>1, <1>2, <1>4, <3>1
  <3> QED BY <3>2 DEF ToSet
 <2>3. ASSUME x \in ToSet(q) PROVE x \in ToSet(r)
  <3>1. PICK j \in DOMAIN q : x = q[j] BY <2>3 DEF ToSet
  <3>2. Len(p) + j \in DOMAIN r /\ r[Len(p) + j] = x BY <1>1, <1>2, <1>5, <3>1
  <3> QED BY <3>2 DEF ToSet
 <2> QED BY <2>1, <2>2, <2>3
<1>7. ToSet(r) = ToSet(p) \cup ToSet(q) BY <1>6
<1>8. DbIsJoin(r, p, q) BY <1>1, <1>3, <1>7 DEF DbIsJoin
<1> QED BY <1>0, <1>8

\* Where what comes after is larger, the whole is in order.
LEMMA DbAscendingJoin ==
  ASSUME NEW p \in Seq(Nat), NEW q \in Seq(Nat), DbAscending(p), DbAscending(q),
         \A x \in ToSet(p) : \A y \in ToSet(q) : x < y
  PROVE  DbAscending(p \o q)
<1>1. PICK r : r = p \o q OBVIOUS
<1>0. DbIsJoin(r, p, q) BY <1>1, DbJoined, Zenon
<1>2. /\ r \in Seq(Nat) /\ Len(r) = Len(p) + Len(q)
      /\ \A i \in 1..Len(p) : r[i] = p[i]
      /\ \A i \in 1..Len(q) : r[Len(p) + i] = q[i]
      /\ \A i \in DOMAIN r : i \in 1..Len(p) \/ \E j \in 1..Len(q) : i = Len(p) + j
  BY <1>0 DEF DbIsJoin
<1>3. Len(p) \in Nat /\ Len(q) \in Nat /\ DOMAIN p = 1..Len(p) /\ DOMAIN q = 1..Len(q) OBVIOUS
<1>4. ASSUME NEW m \in DOMAIN r, NEW n \in DOMAIN r, m < n PROVE r[m] < r[n]
 <2>1. CASE m \in 1..Len(p) /\ n \in 1..Len(p) BY <1>2, <1>3, <1>4, <2>1 DEF DbAscending
 <2>2. CASE m \in 1..Len(p) /\ n \notin 1..Len(p)
  <3>1. PICK j \in 1..Len(q) : n = Len(p) + j BY <1>2, <2>2
  <3>2. p[m] \in ToSet(p) /\ q[j] \in ToSet(q) BY <1>3, <2>2 DEF ToSet
  <3>3. p[m] < q[j] BY <3>2
  <3>4. r[m] = p[m] /\ r[n] = q[j] BY <1>2, <2>2, <3>1
  <3> QED BY <3>3, <3>4
 <2>3. CASE m \notin 1..Len(p)
  <3>1. PICK i \in 1..Len(q) : m = Len(p) + i BY <1>2, <2>3
  <3>2. n \notin 1..Len(p) BY <1>3, <1>4, <3>1
  <3>3. PICK j \in 1..Len(q) : n = Len(p) + j BY <1>2, <3>2
  <3>4. i < j BY <1>3, <1>4, <3>1, <3>3
  <3>5. q[i] < q[j] BY <1>3, <3>4 DEF DbAscending
  <3>6. r[m] = q[i] /\ r[n] = q[j] BY <1>2, <3>1, <3>3
  <3> QED BY <3>5, <3>6
 <2> QED BY <2>1, <2>2, <2>3
<1> QED BY <1>1, <1>4 DEF DbAscending

\* Where what comes after is new, nothing comes twice.
LEMMA DbInjectiveJoin ==
  ASSUME NEW p \in Seq(Nat), NEW q \in Seq(Nat), IsInjective(p), IsInjective(q),
         ToSet(p) \cap ToSet(q) = {}
  PROVE  IsInjective(p \o q)
<1>1. PICK r : r = p \o q OBVIOUS
<1>0. DbIsJoin(r, p, q) BY <1>1, DbJoined, Zenon
<1>2. /\ r \in Seq(Nat) /\ Len(r) = Len(p) + Len(q)
      /\ \A i \in 1..Len(p) : r[i] = p[i]
      /\ \A i \in 1..Len(q) : r[Len(p) + i] = q[i]
      /\ \A i \in DOMAIN r : i \in 1..Len(p) \/ \E j \in 1..Len(q) : i = Len(p) + j
  BY <1>0 DEF DbIsJoin
<1>3. Len(p) \in Nat /\ Len(q) \in Nat /\ DOMAIN p = 1..Len(p) /\ DOMAIN q = 1..Len(q) OBVIOUS
<1>4. ASSUME NEW i \in 1..Len(p), NEW j \in 1..Len(q) PROVE p[i] # q[j]
 <2>1. p[i] \in ToSet(p) /\ q[j] \in ToSet(q) BY <1>3 DEF ToSet
 <2> QED BY <2>1
<1>5. ASSUME NEW m \in DOMAIN r, NEW n \in DOMAIN r, r[m] = r[n] PROVE m = n
 <2>1. CASE m \in 1..Len(p) /\ n \in 1..Len(p) BY <1>2, <1>3, <1>5, <2>1 DEF IsInjective
 <2>2. CASE m \in 1..Len(p) /\ n \notin 1..Len(p) BY <1>2, <1>4, <1>5, <2>2
 <2>3. CASE m \notin 1..Len(p) /\ n \in 1..Len(p) BY <1>2, <1>4, <1>5, <2>3
 <2>4. CASE m \notin 1..Len(p) /\ n \notin 1..Len(p)
  <3>1. PICK i \in 1..Len(q) : m = Len(p) + i BY <1>2, <2>4
  <3>2. PICK j \in 1..Len(q) : n = Len(p) + j BY <1>2, <2>4
  <3>3. q[i] = q[j] BY <1>2, <1>5, <3>1, <3>2
  <3>4. i = j BY <1>3, <3>3 DEF IsInjective
  <3> QED BY <3>1, <3>2, <3>4
 <2> QED BY <2>1, <2>2, <2>3, <2>4
<1> QED BY <1>1, <1>5 DEF IsInjective

\* The headings H of a document, of levels lev: no level is left out, those in
\* force after all of them, and those open where a block begins.
DbNoGap(H, lev) ==
  \A n \in H : lev[n] = 1 \/ \E m \in H : /\ m < n /\ lev[m] = lev[n] - 1
                                          /\ \A k \in H : m < k /\ k < n => lev[k] > lev[m]

DbStands(H, lev, stack) ==
  /\ \A i \in DOMAIN stack : stack[i] \in H /\ lev[stack[i]] = i
  /\ \A n \in H : n \in ToSet(stack) <=> \A k \in H : n < k => lev[k] > lev[n]

DbOpenAt(H, lev, first) ==
  {n \in H : n <= first /\ \A k \in H : n < k /\ k <= first => lev[k] > lev[n]}

\* Without its last heading a document leaves out no level either.
LEMMA DbNoGapBefore ==
  ASSUME NEW H \in SUBSET Nat, NEW h \in Nat, \A n \in H : n < h, NEW lev, DbNoGap(H \cup {h}, lev)
  PROVE  DbNoGap(H, lev)
<1> SUFFICES ASSUME NEW n \in H, lev[n] # 1
             PROVE  \E m \in H : /\ m < n /\ lev[m] = lev[n] - 1
                                 /\ \A k \in H : m < k /\ k < n => lev[k] > lev[m] BY DEF DbNoGap
<1>1. PICK m \in H \cup {h} : /\ m < n /\ lev[m] = lev[n] - 1
                              /\ \A k \in H \cup {h} : m < k /\ k < n => lev[k] > lev[m]
  BY DEF DbNoGap
<1>2. n < h /\ n \in Nat /\ m \in Nat OBVIOUS
<1>3. m # h BY <1>1, <1>2
<1> QED BY <1>1, <1>3

\* The smaller of two numbers.
LEMMA DbMinTwo ==
  ASSUME NEW a \in Nat, NEW b \in Nat
  PROVE  Min({a, b}) = IF a <= b THEN a ELSE b
<1>1. PICK m : m = IF a <= b THEN a ELSE b OBVIOUS
<1>2. m \in {a, b} /\ \A y \in {a, b} : m <= y BY <1>1
<1>3. Min({a, b}) \in {a, b} /\ \A y \in {a, b} : Min({a, b}) <= y BY <1>2 DEF Min
<1> QED BY <1>1, <1>2, <1>3

\* What DbUnder keeps of the headings.
DbUnderOk(u, stack, level, h) ==
  /\ u \in Seq(Nat) /\ Len(u) = level /\ u[level] = h
  /\ \A i \in 1..(level - 1) : u[i] = stack[i]

\* With enough headings in force, those of the levels above and the new one.
LEMMA DbUnderIs ==
  ASSUME NEW stack \in Seq(Nat), NEW level \in Nat \ {0}, NEW h \in Nat, level - 1 <= Len(stack)
  PROVE  DbUnderOk(DbUnder(stack, level, h), stack, level, h)
<1>1. Len(stack) \in Nat /\ level - 1 \in Nat OBVIOUS
<1>2. Min({Len(stack), level - 1}) = level - 1 BY <1>1, DbMinTwo
<1>3. PICK front : front = SubSeq(stack, 1, level - 1) OBVIOUS
<1>4. front \in Seq(Nat) /\ Len(front) = level - 1 /\ \A i \in 1..(level - 1) : front[i] = stack[i]
  BY <1>1, <1>3
<1>5. PICK u : u = Append(front, h) OBVIOUS
<1>6. u \in Seq(Nat) /\ Len(u) = Len(front) + 1 BY <1>4, <1>5
<1>7. u[Len(front) + 1] = h /\ \A i \in 1..Len(front) : u[i] = front[i] BY <1>4, <1>5
<1>8. Len(front) + 1 = level BY <1>1, <1>4
<1>9. DbUnderOk(u, stack, level, h) BY <1>4, <1>6, <1>7, <1>8 DEF DbUnderOk
<1> QED BY <1>2, <1>3, <1>5, <1>9 DEF DbUnder

\* A heading of the next document ends those of its level and below.
LEMMA DbStandsNext ==
  ASSUME NEW H \in SUBSET Nat, NEW h \in Nat, \A n \in H : n < h,
         NEW lev \in [Nat -> Nat], \A n \in H \cup {h} : lev[n] # 0,
         NEW stack \in Seq(Nat), DbStands(H, lev, stack), DbNoGap(H \cup {h}, lev)
  PROVE  DbStands(H \cup {h}, lev, DbUnder(stack, lev[h], h))
<1>1. PICK L \in Nat : L = lev[h] OBVIOUS
<1>2. L # 0 /\ L - 1 \in Nat /\ Len(stack) \in Nat /\ DOMAIN stack = 1..Len(stack)
 <2>1. h \in H \cup {h} OBVIOUS
 <2>2. L # 0 BY <1>1, <2>1
 <2>3. L - 1 \in Nat BY <2>2
 <2> QED BY <2>2, <2>3
<1>3. L - 1 <= Len(stack)
 <2>1. CASE L = 1 BY <1>2, <2>1
 <2>2. CASE L # 1
  <3>1. PICK m \in H \cup {h} : /\ m < h /\ lev[m] = L - 1
                                /\ \A k \in H \cup {h} : m < k /\ k < h => lev[k] > lev[m]
    BY <1>1, <2>2 DEF DbNoGap
  <3>2. m \in H BY <3>1
  <3>3. \A k \in H : m < k => lev[k] > lev[m] BY <3>1
  <3>4. m \in ToSet(stack) BY <3>2, <3>3 DEF DbStands
  <3>5. PICK i \in DOMAIN stack : stack[i] = m BY <3>4 DEF ToSet
  <3>6. lev[m] = i BY <3>5 DEF DbStands
  <3>7. i \in 1..Len(stack) /\ i = L - 1 BY <1>2, <3>1, <3>5, <3>6
  <3> QED BY <1>2, <3>7
 <2> QED BY <2>1, <2>2
<1>4. PICK u : u = DbUnder(stack, lev[h], h) OBVIOUS
<1>5. DbUnderOk(u, stack, L, h) BY <1>1, <1>2, <1>3, <1>4, DbUnderIs
<1>6. /\ DOMAIN u = 1..L /\ u[L] = h /\ L \in 1..L
      /\ \A i \in 1..(L - 1) : i \in 1..L /\ i \in 1..Len(stack) /\ u[i] = stack[i]
      /\ \A i \in 1..L : i = L \/ i \in 1..(L - 1)
 <2>1. u \in Seq(Nat) /\ Len(u) = L /\ u[L] = h /\ \A i \in 1..(L - 1) : u[i] = stack[i]
   BY <1>5 DEF DbUnderOk
 <2>2. DOMAIN u = 1..L BY <2>1
 <2>3. L \in 1..L /\ \A i \in 1..(L - 1) : i \in 1..L BY <1>2
 <2>4. \A i \in 1..(L - 1) : i \in 1..Len(stack) BY <1>2, <1>3
 <2>5. \A i \in 1..L : i = L \/ i \in 1..(L - 1) BY <1>2
 <2> QED BY <2>1, <2>2, <2>3, <2>4, <2>5
<1>7. \A i \in 1..L : u[i] \in H \cup {h} /\ lev[u[i]] = i
 <2>1. ASSUME NEW i \in 1..(L - 1) PROVE u[i] \in H /\ lev[u[i]] = i
  <3>1. i \in DOMAIN stack /\ u[i] = stack[i] BY <1>2, <1>6
  <3> QED BY <3>1 DEF DbStands
 <2>2. u[L] = h /\ lev[h] = L BY <1>1, <1>6
 <2>3. ASSUME NEW i \in 1..L PROVE u[i] \in H \cup {h} /\ lev[u[i]] = i
  <3>1. CASE i = L BY <2>2, <3>1
  <3>2. CASE i \in 1..(L - 1) BY <2>1, <3>2
  <3> QED BY <1>6, <3>1, <3>2
 <2> QED BY <2>3
<1>8. ASSUME NEW n \in H \cup {h}
      PROVE  n \in ToSet(u) <=> \A k \in H \cup {h} : n < k => lev[k] > lev[n]
 <2>1. CASE n = h
  <3>1. n \in ToSet(u) BY <1>6, <2>1 DEF ToSet
  <3>2. \A k \in H \cup {h} : ~(h < k) OBVIOUS
  <3> QED BY <2>1, <3>1, <3>2
 <2>2. CASE n # h
  <3>0. n \in H /\ n < h BY <2>2
  <3>1. ASSUME n \in ToSet(u) PROVE \A k \in H \cup {h} : n < k => lev[k] > lev[n]
   <4>1. PICK i \in 1..L : u[i] = n BY <1>6, <3>1 DEF ToSet
   <4>2. i \in 1..(L - 1) /\ stack[i] = n /\ i \in DOMAIN stack BY <1>2, <1>6, <2>2, <4>1
   <4>3. n \in ToSet(stack) /\ lev[n] = i BY <4>2 DEF ToSet, DbStands
   <4>4. \A k \in H : n < k => lev[k] > lev[n] BY <3>0, <4>3 DEF DbStands
   <4>5. lev[h] > lev[n] BY <1>1, <4>2, <4>3
   <4> QED BY <4>4, <4>5
  <3>2. ASSUME \A k \in H \cup {h} : n < k => lev[k] > lev[n] PROVE n \in ToSet(u)
   <4>1. n \in ToSet(stack) BY <3>0, <3>2 DEF DbStands
   <4>2. PICK i \in DOMAIN stack : stack[i] = n BY <4>1 DEF ToSet
   <4>3. lev[n] = i /\ lev[h] > lev[n] BY <3>0, <3>2, <4>2 DEF DbStands
   <4>4. i \in 1..(L - 1) BY <1>1, <1>2, <4>2, <4>3
   <4>5. i \in DOMAIN u /\ u[i] = n BY <1>6, <4>2, <4>4
   <4> QED BY <4>5 DEF ToSet
  <3> QED BY <3>1, <3>2
 <2> QED BY <2>1, <2>2
<1> QED BY <1>4, <1>6, <1>7, <1>8 DEF DbStands

\* A later heading changes nothing for the blocks before it.
LEMMA DbOpenBefore ==
  ASSUME NEW H \in SUBSET Nat, NEW h \in Nat, NEW lev, NEW first \in Nat, first < h
  PROVE  DbOpenAt(H \cup {h}, lev, first) = DbOpenAt(H, lev, first)
<1>1. ~(h <= first) OBVIOUS
<1> QED BY <1>1 DEF DbOpenAt

\* After all headings, those in force are those open.
LEMMA DbStandsOpen ==
  ASSUME NEW H \in SUBSET Nat, NEW lev, NEW first \in Nat, \A n \in H : n <= first,
         NEW stack, DbStands(H, lev, stack)
  PROVE  ToSet(stack) = DbOpenAt(H, lev, first)
<1>1. \A n \in ToSet(stack) : n \in H BY DEF ToSet, DbStands
<1>2. ASSUME NEW n \in H PROVE n \in ToSet(stack) <=> n \in DbOpenAt(H, lev, first)
 <2>1. n \in ToSet(stack) <=> \A k \in H : n < k => lev[k] > lev[n] BY DEF DbStands
 <2>2. n \in DbOpenAt(H, lev, first) <=> \A k \in H : n < k => lev[k] > lev[n] BY DEF DbOpenAt
 <2> QED BY <2>1, <2>2
<1>3. \A n \in DbOpenAt(H, lev, first) : n \in H BY DEF DbOpenAt
<1> QED BY <1>1, <1>2, <1>3

\* The smallest number of a set.
LEMMA DbMinIn ==
  ASSUME NEW T \in SUBSET Nat, T # {}
  PROVE  Min(T) \in T
<1>1. PICK m \in T : \A x \in T : m <= x BY CxLeast
<1> QED BY <1>1 DEF Min

\* The places from one to another.
DbSpanOk(s, first, last) ==
  /\ s \in Seq(Nat) /\ Len(s) # 0 /\ s[1] = first /\ DbAscending(s)
  /\ ToSet(s) = first..last

\* DbSpan gives them in order.
LEMMA DbSpanIs ==
  ASSUME NEW first \in Nat, NEW last \in Nat, first <= last
  PROVE  DbSpanOk(DbSpan(first, last), first, last)
<1>1. PICK n \in Nat : n = last + 1 - first /\ n # 0
 <2>1. last + 1 - first \in Nat /\ last + 1 - first # 0 OBVIOUS
 <2> QED BY <2>1
<1>2. PICK s : s = [i \in 1..n |-> first + i - 1] OBVIOUS
<1>3. \A i \in 1..n : first + i - 1 \in Nat OBVIOUS
<1>4. s \in [1..n -> Nat] BY <1>2, <1>3
<1>5. s \in Seq(Nat) /\ Len(s) = n /\ DOMAIN s = 1..n BY <1>4
<1>6. 1 \in 1..n /\ s[1] = first BY <1>1, <1>2
<1>7. DbAscending(s) BY <1>2, <1>5 DEF DbAscending
<1>8. ASSUME NEW i \in 1..n PROVE s[i] \in first..last BY <1>1, <1>2
<1>9. ASSUME NEW x \in first..last PROVE x \in ToSet(s)
 <2>1. x + 1 - first \in 1..n /\ first + (x + 1 - first) - 1 = x BY <1>1
 <2>2. s[x + 1 - first] = x BY <1>2, <2>1
 <2> QED BY <1>5, <2>1, <2>2 DEF ToSet
<1>10. ToSet(s) = first..last
 <2>1. \A x \in ToSet(s) : x \in first..last BY <1>5, <1>8 DEF ToSet
 <2> QED BY <1>9, <2>1
<1>11. DbSpanOk(s, first, last) BY <1>1, <1>5, <1>6, <1>7, <1>10 DEF DbSpanOk
<1>12. DbSpan(first, last) = s BY <1>1, <1>2 DEF DbSpan
<1> QED BY <1>11, <1>12

DbHeadsOf(blocks) == {blocks[b].parts[1] : b \in {c \in DOMAIN blocks : blocks[c].kind = "heading"}}

\* A new block is a heading or leaves the headings as they are.
LEMMA DbHeadsAdd ==
  ASSUME NEW blocks \in Seq(DbBlockRow), NEW row \in DbBlockRow, NEW more, more = Append(blocks, row)
  PROVE  DbHeadsOf(more) = IF row.kind = "heading" THEN DbHeadsOf(blocks) \cup {row.parts[1]}
                           ELSE DbHeadsOf(blocks)
<1>1. /\ Len(blocks) \in Nat /\ DOMAIN blocks = 1..Len(blocks)
      /\ DOMAIN more = 1..(Len(blocks) + 1) /\ more[Len(blocks) + 1] = row
      /\ \A b \in 1..Len(blocks) : more[b] = blocks[b] OBVIOUS
<1>2. /\ Len(blocks) + 1 \in DOMAIN more /\ \A b \in DOMAIN blocks : b \in DOMAIN more
      /\ \A b \in DOMAIN more : b = Len(blocks) + 1 \/ b \in DOMAIN blocks BY <1>1
<1>3. ASSUME NEW x
      PROVE  x \in DbHeadsOf(more) <=> x \in DbHeadsOf(blocks) \/ (row.kind = "heading" /\ x = row.parts[1])
  BY <1>1, <1>2 DEF DbHeadsOf
<1> QED BY <1>3

DbParsers == {"markdown", "html", "pdf"}
DbCaptures == {"none", "h1", "h2", "h3", "p", "li", "pre"}

DbHtmlRow ==
  [parser: DbParsers, skip: Nat, capture: DbCaptures, captured: Seq(Nat), title: Nat,
   row: BOOLEAN, cells: Seq(Nat), cell: BOOLEAN, inCell: Seq(Nat), texts: Nat]

\* The types of the parsers' state.
DbTyped ==
  /\ dbAt \in Nat /\ dbBlocks \in Seq(DbBlockRow) /\ dbHeadings \in Seq(Nat)
  /\ dbHtml \in DbHtmlRow
  /\ dbHtml.parser = "markdown" => dbSource \in Seq(DbLineKinds)
  /\ dbHtml.parser = "pdf" => dbSource \in Seq(Nat)
  /\ dbSkipped \subseteq 1..dbHtml.texts

DbLev == [n \in Nat |-> DbLevel(dbSource[n])]

\* Markdown: the lines read are in the blocks, and while no level is left out
\* the headings in force are those open, as each block's were at its place.
DbMarkdownInv ==
  dbHtml.parser = "markdown" =>
    /\ dbAt <= Len(dbSource)
    /\ DbAscending(DbParts)
    /\ \A line \in 1..dbAt : dbSource[line] # "blank" => line \in ToSet(DbParts)
    /\ ToSet(DbParts) \subseteq 1..dbAt
    /\ \A b \in DOMAIN dbBlocks :
         /\ dbBlocks[b].parts[1] \in 1..dbAt
         /\ dbBlocks[b].kind = "heading" => DbLevel(dbSource[dbBlocks[b].parts[1]]) # 0
    /\ DbNoGap(DbHeadingLines, DbLev) =>
         /\ DbStands(DbHeadingLines, DbLev, dbHeadings)
         /\ \A b \in DOMAIN dbBlocks :
              ToSet(dbBlocks[b].path) = DbOpenAt(DbHeadingLines, DbLev, dbBlocks[b].parts[1])

\* The level of a line.
LEMMA DbLevels == \A kind : DbLevel(kind) \in Nat
BY DEF DbLevel

\* What one more block does to what the blocks consist of.
DbGrown(row) ==
  /\ DbParts \in Seq(Nat) /\ DbParts' = DbParts \o row.parts
  /\ dbBlocks' \in Seq(DbBlockRow)
  /\ DbHeadingLines' = IF row.kind = "heading" THEN DbHeadingLines \cup {row.parts[1]} ELSE DbHeadingLines
  /\ DOMAIN dbBlocks \subseteq DOMAIN dbBlocks' /\ Len(dbBlocks) + 1 \in DOMAIN dbBlocks'
  /\ dbBlocks'[Len(dbBlocks) + 1] = row
  /\ \A b \in DOMAIN dbBlocks' : b = Len(dbBlocks) + 1 \/ b \in DOMAIN dbBlocks
  /\ \A b \in DOMAIN dbBlocks : dbBlocks'[b] = dbBlocks[b]

\* Which it does when it is added at the end.
LEMMA DbGrows ==
  ASSUME DbTyped, NEW row \in DbBlockRow, dbBlocks' = Append(dbBlocks, row)
  PROVE  DbGrown(row)
<1>1. PICK s \in Seq(DbBlockRow) : s = dbBlocks BY DEF DbTyped
<1>2. PICK t : t = Append(s, row) OBVIOUS
<1>3. DbPartsOf(s) \in Seq(Nat) /\ DbPartsOf(t) = DbPartsOf(s) \o row.parts BY <1>2, DbPartsAdd
<1>4. DbHeadsOf(t) = IF row.kind = "heading" THEN DbHeadsOf(s) \cup {row.parts[1]} ELSE DbHeadsOf(s)
  BY <1>2, DbHeadsAdd
<1>5. DbParts = DbPartsOf(s) /\ DbParts' = DbPartsOf(t) BY <1>1, <1>2 DEF DbParts, DbPartsOf
<1>6. DbHeadingLines = DbHeadsOf(s) /\ DbHeadingLines' = DbHeadsOf(t)
  BY <1>1, <1>2 DEF DbHeadingLines, DbHeadsOf
<1>7. /\ t \in Seq(DbBlockRow) /\ Len(s) \in Nat /\ DOMAIN s = 1..Len(s)
      /\ DOMAIN t = 1..(Len(s) + 1) /\ t[Len(s) + 1] = row
      /\ \A b \in 1..Len(s) : t[b] = s[b] BY <1>2
<1>8. /\ Len(s) + 1 \in DOMAIN t /\ DOMAIN s \subseteq DOMAIN t
      /\ \A b \in DOMAIN t : b = Len(s) + 1 \/ b \in DOMAIN s BY <1>7
<1> QED BY <1>1, <1>2, <1>3, <1>4, <1>5, <1>6, <1>7, <1>8 DEF DbGrown

\* A heading cuts the headings in force and adds its own.
LEMMA DbUnderTyped ==
  ASSUME NEW stack \in Seq(Nat), NEW level \in Nat \ {0}, NEW h \in Nat
  PROVE  DbUnder(stack, level, h) \in Seq(Nat)
<1>1. Len(stack) \in Nat /\ level - 1 \in Nat OBVIOUS
<1>2. PICK m : m = Min({Len(stack), level - 1}) OBVIOUS
<1>3. m \in Nat /\ m <= Len(stack) BY <1>1, <1>2, DbMinTwo
<1>4. PICK front : front = SubSeq(stack, 1, m) OBVIOUS
<1>5. front \in Seq(Nat) BY <1>3, <1>4
<1>6. Append(front, h) \in Seq(Nat) BY <1>5
<1> QED BY <1>2, <1>4, <1>6, Zenon DEF DbUnder

\* What a block of Markdown is to the parser: its span, the headings it
\* stands under, those in force after it.
DbEmitted(kind, at, last, headings) ==
  /\ dbHtml.parser = "markdown" /\ kind \in DbStoredKinds
  /\ at = dbAt /\ at < last /\ last <= Len(dbSource)
  /\ dbBlocks' = Append(dbBlocks, DbBlock(kind, DbSpan(at + 1, last), headings))
  /\ dbHeadings' = headings /\ dbAt' = last /\ UNCHANGED <<dbSource, dbHtml, dbSkipped>>
  /\ kind = "heading" => /\ DbLevel(dbSource[at + 1]) # 0
                         /\ headings = DbUnder(dbHeadings, DbLevel(dbSource[at + 1]), at + 1)
  /\ kind # "heading" => headings = dbHeadings

\* The new block, by its parts.
DbRowOk(row, kind, at, last, headings) ==
  /\ row \in DbBlockRow /\ row.kind = kind /\ row.path = headings
  /\ DbSpanOk(row.parts, at + 1, last)

\* A block of Markdown is such a row, and the state stays typed.
LEMMA DbEmittedRow ==
  ASSUME DbTyped, NEW kind, NEW at \in Nat, NEW last \in Nat, NEW headings, DbEmitted(kind, at, last, headings)
  PROVE  \E row : DbRowOk(row, kind, at, last, headings) /\ DbGrown(row) /\ DbTyped'
<1>1. DbSpanOk(DbSpan(at + 1, last), at + 1, last) BY DbSpanIs DEF DbEmitted
<1>2. DbSpan(at + 1, last) \in Seq(Nat) BY <1>1 DEF DbSpanOk
<1>3. headings \in Seq(Nat)
 <2>1. CASE kind = "heading"
  <3>1. PICK level : level = DbLevel(dbSource[at + 1]) OBVIOUS
  <3>2. level \in Nat \ {0} /\ headings = DbUnder(dbHeadings, level, at + 1) /\ at + 1 \in Nat
    BY <2>1, <3>1, DbLevels DEF DbEmitted
  <3>3. PICK stack \in Seq(Nat) : stack = dbHeadings BY DEF DbTyped
  <3> QED BY <3>2, <3>3, DbUnderTyped
 <2>2. CASE kind # "heading" BY <2>2 DEF DbEmitted, DbTyped
 <2> QED BY <2>1, <2>2
<1>4. PICK row : row = DbBlock(kind, DbSpan(at + 1, last), headings) OBVIOUS
<1>5. row \in DbBlockRow /\ row.kind = kind /\ row.path = headings /\ row.parts = DbSpan(at + 1, last)
  BY <1>2, <1>3, <1>4 DEF DbBlock, DbBlockRow, DbEmitted
<1>6. DbGrown(row) BY <1>4, <1>5, DbGrows DEF DbEmitted
<1>7. dbBlocks' \in Seq(DbBlockRow) BY <1>6 DEF DbGrown
<1>8. DbTyped' BY <1>3, <1>7 DEF DbTyped, DbEmitted
<1> QED BY <1>1, <1>5, <1>6, <1>8 DEF DbRowOk

\* The lines up to the end of the block are in the blocks, in their order.
LEMMA DbEmitsLines ==
  ASSUME DbTyped, DbMarkdownInv, NEW kind, NEW at \in Nat, NEW last \in Nat, NEW headings,
         DbEmitted(kind, at, last, headings), NEW row, DbRowOk(row, kind, at, last, headings), DbGrown(row)
  PROVE  /\ DbAscending(DbParts')
         /\ \A line \in 1..last : dbSource[line] # "blank" => line \in ToSet(DbParts')
         /\ ToSet(DbParts') \subseteq 1..last
<1>1. PICK p \in Seq(Nat) : p = DbParts BY DEF DbGrown
<1>2. PICK q \in Seq(Nat) : q = row.parts BY DEF DbRowOk, DbSpanOk
<1>3. DbAscending(p) /\ ToSet(p) \subseteq 1..at /\ at < last
      /\ \A line \in 1..at : dbSource[line] # "blank" => line \in ToSet(p)
  BY <1>1 DEF DbMarkdownInv, DbEmitted
<1>4. DbAscending(q) /\ ToSet(q) = (at + 1)..last BY <1>2 DEF DbRowOk, DbSpanOk
<1>5. \A x \in ToSet(p) : \A y \in ToSet(q) : x < y
 <2>1. \A x \in 1..at : \A y \in (at + 1)..last : x < y OBVIOUS
 <2> QED BY <1>3, <1>4, <2>1
<1>6. PICK r : r = p \o q OBVIOUS
<1>7. DbAscending(r) BY <1>3, <1>4, <1>5, <1>6, DbAscendingJoin
<1>8. ToSet(r) = ToSet(p) \cup (at + 1)..last
 <2>1. DbIsJoin(r, p, q) BY <1>6, DbJoined, Zenon
 <2> QED BY <1>4, <2>1 DEF DbIsJoin
<1>9. DbParts' = r BY <1>1, <1>2, <1>6 DEF DbGrown
<1>10. \A line \in 1..last : line \in 1..at \/ line \in (at + 1)..last OBVIOUS
<1>11. \A line \in 1..last : dbSource[line] # "blank" => line \in ToSet(r) BY <1>3, <1>8, <1>10
<1>12. \A line \in 1..at : line \in 1..last BY <1>3
<1>13. \A line \in (at + 1)..last : line \in 1..last OBVIOUS
<1>14. ToSet(r) \subseteq 1..last BY <1>3, <1>8, <1>12, <1>13
<1> QED BY <1>7, <1>9, <1>11, <1>14

\* The first lines of the blocks are lines read, those of headings headings.
DbFirsts(blocks, at) ==
  \A b \in DOMAIN blocks :
    /\ blocks[b].parts[1] \in 1..at
    /\ blocks[b].kind = "heading" => DbLevel(dbSource[blocks[b].parts[1]]) # 0

DbPaths(blocks, H, lev) ==
  \A b \in DOMAIN blocks : ToSet(blocks[b].path) = DbOpenAt(H, lev, blocks[b].parts[1])

\* A block's first line is the one after those read.
LEMMA DbEmitsFirsts ==
  ASSUME DbTyped, NEW kind, NEW at \in Nat, NEW last \in Nat, NEW headings,
         DbEmitted(kind, at, last, headings), NEW row, DbRowOk(row, kind, at, last, headings), DbGrown(row),
         DbFirsts(dbBlocks, at)
  PROVE  DbFirsts(dbBlocks', last)
<1>1. at + 1 \in 1..last /\ \A n \in 1..at : n \in 1..last BY DEF DbEmitted
<1>2. row.parts[1] = at + 1 /\ row.kind = kind BY DEF DbRowOk, DbSpanOk
<1>3. row.kind = "heading" => DbLevel(dbSource[at + 1]) # 0 BY <1>2 DEF DbEmitted
<1>4. /\ dbBlocks'[Len(dbBlocks) + 1] = row
      /\ \A b \in DOMAIN dbBlocks' : b = Len(dbBlocks) + 1 \/ b \in DOMAIN dbBlocks
      /\ \A b \in DOMAIN dbBlocks : dbBlocks'[b] = dbBlocks[b] BY DEF DbGrown
<1>5. ASSUME NEW b \in DOMAIN dbBlocks'
      PROVE  /\ dbBlocks'[b].parts[1] \in 1..last
             /\ dbBlocks'[b].kind = "heading" => DbLevel(dbSource[dbBlocks'[b].parts[1]]) # 0
 <2>1. CASE b = Len(dbBlocks) + 1 BY <1>1, <1>2, <1>3, <1>4, <2>1
 <2>2. CASE b \in DOMAIN dbBlocks BY <1>1, <1>4, <2>2 DEF DbFirsts
 <2> QED BY <1>4, <2>1, <2>2
<1> QED BY <1>5 DEF DbFirsts

\* Every block of Markdown stands under the headings open where it begins.
LEMMA DbEmitsPaths ==
  ASSUME DbTyped, DbMarkdownInv, NEW kind, NEW at \in Nat, NEW last \in Nat, NEW headings,
         DbEmitted(kind, at, last, headings), NEW row, DbRowOk(row, kind, at, last, headings), DbGrown(row),
         DbNoGap(DbHeadingLines', DbLev')
  PROVE  DbStands(DbHeadingLines', DbLev', dbHeadings') /\ DbPaths(dbBlocks', DbHeadingLines', DbLev')
<1>1. PICK H : H = DbHeadingLines OBVIOUS
<1>2. PICK lev : lev = DbLev OBVIOUS
<1>3. PICK h \in Nat : h = at + 1 OBVIOUS
<1>4. DbFirsts(dbBlocks, at) BY DEF DbMarkdownInv, DbFirsts, DbEmitted
<1>5. lev \in [Nat -> Nat] /\ \A n \in Nat : lev[n] = DbLevel(dbSource[n])
  BY <1>2, DbLevels DEF DbLev
<1>6. DbLev' = lev BY <1>2 DEF DbLev, DbEmitted
<1>7. \A n \in H : n \in 1..at /\ lev[n] # 0
 <2>1. ASSUME NEW b \in DOMAIN dbBlocks, dbBlocks[b].kind = "heading"
       PROVE  dbBlocks[b].parts[1] \in 1..at /\ lev[dbBlocks[b].parts[1]] # 0
  <3>1. dbBlocks[b].parts[1] \in 1..at /\ DbLevel(dbSource[dbBlocks[b].parts[1]]) # 0
    BY <1>4, <2>1 DEF DbFirsts
  <3>2. dbBlocks[b].parts[1] \in Nat BY <3>1
  <3> QED BY <1>5, <3>1, <3>2
 <2> QED BY <1>1, <2>1 DEF DbHeadingLines
<1>8. H \in SUBSET Nat /\ \A n \in H : n < h /\ n <= h BY <1>3, <1>7
<1>9. row.parts[1] = h /\ row.kind = kind /\ row.path = headings BY <1>3 DEF DbRowOk, DbSpanOk
<1>10. PICK stack \in Seq(Nat) : stack = dbHeadings BY DEF DbTyped
<1>11. PICK G : G = DbHeadingLines' OBVIOUS
<1>12. G = IF kind = "heading" THEN H \cup {h} ELSE H BY <1>1, <1>9, <1>11 DEF DbGrown
<1>13. DbNoGap(G, lev) BY <1>6, <1>11
<1>14. DbNoGap(H, lev)
 <2>1. CASE kind = "heading"
  <3>1. DbNoGap(H \cup {h}, lev) BY <1>12, <1>13, <2>1
  <3> QED BY <1>8, <3>1, DbNoGapBefore
 <2>2. CASE kind # "heading" BY <1>12, <1>13, <2>2
 <2> QED BY <2>1, <2>2
<1>15. DbStands(H, lev, stack) /\ DbPaths(dbBlocks, H, lev)
  BY <1>1, <1>2, <1>10, <1>14 DEF DbMarkdownInv, DbEmitted, DbPaths
<1>16. DbStands(G, lev, headings)
 <2>1. CASE kind = "heading"
  <3>1. DbLevel(dbSource[h]) # 0 /\ headings = DbUnder(stack, DbLevel(dbSource[h]), h)
    BY <1>3, <1>10, <2>1 DEF DbEmitted
  <3>2. lev[h] # 0 /\ headings = DbUnder(stack, lev[h], h) BY <1>5, <3>1
  <3>3. \A n \in H \cup {h} : lev[n] # 0 BY <1>7, <3>2
  <3>4. DbNoGap(H \cup {h}, lev) BY <1>12, <1>13, <2>1
  <3>5. DbStands(H \cup {h}, lev, DbUnder(stack, lev[h], h))
    BY <1>5, <1>8, <1>15, <3>3, <3>4, DbStandsNext
  <3> QED BY <1>12, <2>1, <3>2, <3>5
 <2>2. CASE kind # "heading" BY <1>10, <1>12, <1>15, <2>2 DEF DbEmitted
 <2> QED BY <2>1, <2>2
<1>17. G \in SUBSET Nat /\ \A n \in G : n <= h BY <1>8, <1>12
<1>18. ToSet(headings) = DbOpenAt(G, lev, h) BY <1>16, <1>17, DbStandsOpen
<1>19. ASSUME NEW b \in DOMAIN dbBlocks
       PROVE  DbOpenAt(G, lev, dbBlocks[b].parts[1]) = DbOpenAt(H, lev, dbBlocks[b].parts[1])
 <2>1. dbBlocks[b].parts[1] \in 1..at BY <1>4 DEF DbFirsts
 <2>2. dbBlocks[b].parts[1] \in Nat /\ dbBlocks[b].parts[1] < h BY <1>3, <2>1
 <2>3. PICK first \in Nat : first = dbBlocks[b].parts[1] BY <2>2
 <2>4. DbOpenAt(H \cup {h}, lev, first) = DbOpenAt(H, lev, first) BY <1>8, <2>2, <2>3, DbOpenBefore
 <2> QED BY <1>12, <2>3, <2>4
<1>20. ASSUME NEW b \in DOMAIN dbBlocks'
       PROVE  ToSet(dbBlocks'[b].path) = DbOpenAt(G, lev, dbBlocks'[b].parts[1])
 <2>1. CASE b = Len(dbBlocks) + 1 BY <1>9, <1>18, <2>1 DEF DbGrown
 <2>2. CASE b \in DOMAIN dbBlocks
  <3>1. dbBlocks'[b] = dbBlocks[b] BY <2>2 DEF DbGrown
  <3>2. ToSet(dbBlocks[b].path) = DbOpenAt(H, lev, dbBlocks[b].parts[1]) BY <1>15, <2>2 DEF DbPaths
  <3> QED BY <1>19, <2>2, <3>1, <3>2
 <2> QED BY <2>1, <2>2 DEF DbGrown
<1>21. dbHeadings' = headings BY DEF DbEmitted
<1> QED BY <1>6, <1>11, <1>16, <1>20, <1>21 DEF DbPaths

\* A block read keeps it.
LEMMA DbEmits ==
  ASSUME DbTyped, DbMarkdownInv, NEW kind, NEW at \in Nat, NEW last \in Nat, NEW headings,
         DbEmitted(kind, at, last, headings)
  PROVE  DbTyped' /\ DbMarkdownInv'
<1>1. PICK row : DbRowOk(row, kind, at, last, headings) /\ DbGrown(row) /\ DbTyped' BY DbEmittedRow
<1>2. /\ DbAscending(DbParts')
      /\ \A line \in 1..last : dbSource[line] # "blank" => line \in ToSet(DbParts')
      /\ ToSet(DbParts') \subseteq 1..last BY <1>1, DbEmitsLines
<1>3. DbFirsts(dbBlocks, at) BY DEF DbMarkdownInv, DbFirsts, DbEmitted
<1>4. DbFirsts(dbBlocks', last) BY <1>1, <1>3, DbEmitsFirsts
<1>5. DbNoGap(DbHeadingLines', DbLev') =>
        DbStands(DbHeadingLines', DbLev', dbHeadings') /\ DbPaths(dbBlocks', DbHeadingLines', DbLev')
  BY <1>1, DbEmitsPaths
<1>6. dbSource' = dbSource /\ dbHtml' = dbHtml /\ dbAt' = last /\ last <= Len(dbSource) /\ dbHtml.parser = "markdown"
  BY DEF DbEmitted
<1>7. DbFirsts(dbBlocks, dbAt)' BY <1>4, <1>6 DEF DbFirsts
<1>8. DbAscending(DbParts)' BY <1>2 DEF DbAscending
<1>9. (\A line \in 1..dbAt : dbSource[line] # "blank" => line \in ToSet(DbParts))' BY <1>2, <1>6
<1>10. (ToSet(DbParts) \subseteq 1..dbAt)' BY <1>2, <1>6
<1>11. (DbNoGap(DbHeadingLines, DbLev) =>
             DbStands(DbHeadingLines, DbLev, dbHeadings) /\ DbPaths(dbBlocks, DbHeadingLines, DbLev))'
  BY <1>5 DEF DbNoGap, DbStands, DbPaths, DbOpenAt
<1>12. (dbHtml.parser = "markdown" /\ dbAt <= Len(dbSource))' BY <1>6
<1>13. DbMarkdownInv' BY <1>7, <1>8, <1>9, <1>10, <1>11, <1>12 DEF DbMarkdownInv, DbFirsts, DbPaths
<1> QED BY <1>1, <1>13

\* A run ends after where it is asked for, at most after the source.
LEMMA DbRunEnds ==
  ASSUME Len(dbSource) \in Nat, NEW first \in Nat, first <= Len(dbSource) + 1, NEW kinds
  PROVE  DbRunEnd(first, kinds) \in first..(Len(dbSource) + 1)
<1>1. PICK n \in Nat : n = Len(dbSource) OBVIOUS
<1>2. PICK stops : stops = {m \in first..n : dbSource[m] \notin kinds} OBVIOUS
<1>3. stops \in SUBSET Nat /\ \A m \in stops : m \in first..(n + 1) BY <1>2
<1>4. CASE stops = {} BY <1>1, <1>2, <1>4 DEF DbRunEnd
<1>5. CASE stops # {}
 <2>1. Min(stops) \in stops BY <1>3, <1>5, DbMinIn
 <2> QED BY <1>1, <1>2, <1>3, <1>5, <2>1 DEF DbRunEnd
<1> QED BY <1>4, <1>5

\* As does a fence, with or without the one that closes it.
LEMMA DbFenceEnds ==
  ASSUME Len(dbSource) \in Nat, NEW first \in Nat, first <= Len(dbSource)
  PROVE  DbFenceEnd(first) \in (first + 1)..(Len(dbSource) + 1)
<1>1. PICK n \in Nat : n = Len(dbSource) OBVIOUS
<1>2. PICK closing : closing = {m \in (first + 1)..n : dbSource[m] = dbSource[first]} OBVIOUS
<1>3. closing \in SUBSET Nat /\ \A m \in closing : m + 1 \in (first + 1)..(n + 1) BY <1>2
<1>4. CASE closing = {} BY <1>1, <1>2, <1>4 DEF DbFenceEnd
<1>5. CASE closing # {}
 <2>1. Min(closing) \in closing BY <1>3, <1>5, DbMinIn
 <2> QED BY <1>1, <1>2, <1>3, <1>5, <2>1 DEF DbFenceEnd
<1> QED BY <1>4, <1>5

\* As does every block.
LEMMA DbBlockEnds ==
  ASSUME Len(dbSource) \in Nat, NEW first \in Nat, first <= Len(dbSource)
  PROVE  DbBlockEnd(first) \in (first + 1)..(Len(dbSource) + 1)
<1>1. first + 1 \in Nat /\ first + 1 <= Len(dbSource) + 1 /\ first + 1 \in (first + 1)..(Len(dbSource) + 1)
  OBVIOUS
<1>2. \A kinds : DbRunEnd(first + 1, kinds) \in (first + 1)..(Len(dbSource) + 1) BY <1>1, DbRunEnds
<1>3. DbFenceEnd(first) \in (first + 1)..(Len(dbSource) + 1) BY DbFenceEnds
<1>4. PICK kind : kind = dbSource[first] OBVIOUS
<1>5. CASE DbLevel(kind) > 0 BY <1>1, <1>4, <1>5 DEF DbBlockEnd, DbLevel, DbFence
<1>6. CASE kind \in DbFence BY <1>3, <1>4, <1>6 DEF DbBlockEnd, DbLevel, DbFence
<1>7. CASE kind = "item" BY <1>2, <1>4, <1>7 DEF DbBlockEnd, DbLevel, DbFence
<1>8. CASE kind = "quote" BY <1>2, <1>4, <1>8 DEF DbBlockEnd, DbLevel, DbFence
<1>9. CASE ~(DbLevel(kind) > 0) /\ kind \notin DbFence /\ kind # "item" /\ kind # "quote"
  BY <1>2, <1>4, <1>9 DEF DbBlockEnd
<1> QED BY <1>5, <1>6, <1>7, <1>8, <1>9

\* A line is a heading by its level.
LEMMA DbBlockKinds ==
  ASSUME NEW kind
  PROVE  /\ DbBlockKind(kind) \in DbStoredKinds
         /\ DbBlockKind(kind) = "heading" <=> DbLevel(kind) > 0
<1>1. CASE DbLevel(kind) > 0 BY <1>1 DEF DbBlockKind, DbStoredKinds, DbLevel, DbFence
<1>2. CASE ~(DbLevel(kind) > 0) BY <1>2 DEF DbBlockKind, DbStoredKinds, DbFence
<1> QED BY <1>1, <1>2

\* A turn of the Markdown parser keeps its invariant.
LEMMA DbMarkdownStep ==
  ASSUME DbTyped, DbMarkdownInv, DbMarkdown
  PROVE  DbTyped' /\ DbMarkdownInv'
<1>1. PICK at \in Nat : at = dbAt BY DEF DbTyped
<1>2. PICK n \in Nat : n = Len(dbSource) /\ at < n
 <2>1. dbSource \in Seq(DbLineKinds) /\ at < Len(dbSource) BY <1>1 DEF DbMarkdown, DbTyped
 <2> QED BY <2>1
<1>3. dbHtml.parser = "markdown" /\ UNCHANGED <<dbSource, dbHtml, dbSkipped>> BY DEF DbMarkdown
<1>4. CASE at = 0 /\ DbFrontmatterEnds # {}
 <2>1. DbFrontmatterEnds \in SUBSET Nat /\ \A m \in DbFrontmatterEnds : m \in 2..n
   BY <1>2 DEF DbFrontmatterEnds
 <2>2. PICK last \in Nat : last = Min(DbFrontmatterEnds) /\ last \in 2..n
  <3>1. Min(DbFrontmatterEnds) \in DbFrontmatterEnds BY <1>4, <2>1, DbMinIn
  <3> QED BY <2>1, <3>1
 <2>3. DbEmit("frontmatter", 1, last + 1, dbHeadings) BY <1>1, <1>4, <2>2 DEF DbMarkdown
 <2>4. last + 1 - 1 = last /\ at + 1 = 1 BY <1>4
 <2>5. "frontmatter" \in DbStoredKinds BY DEF DbStoredKinds
 <2>6. DbEmitted("frontmatter", at, last, dbHeadings)
   BY <1>1, <1>2, <1>3, <2>2, <2>3, <2>4, <2>5 DEF DbEmit, DbEmitted
 <2>7. PICK headings : headings = dbHeadings OBVIOUS
 <2>8. DbEmitted("frontmatter", at, last, headings) BY <2>6, <2>7
 <2> QED BY <2>8, DbEmits
<1>5. CASE ~(at = 0 /\ DbFrontmatterEnds # {}) /\ dbSource[at + 1] = "blank"
 <2>1. dbAt' = at + 1 /\ UNCHANGED <<dbBlocks, dbHeadings>> BY <1>1, <1>5 DEF DbMarkdown
 <2>2. DbTyped' BY <1>1, <1>3, <2>1 DEF DbTyped
 <2>3. /\ DbParts' = DbParts /\ DbHeadingLines' = DbHeadingLines /\ DbLev' = DbLev
   BY <1>3, <2>1 DEF DbParts, DbHeadingLines, DbLev
 <2>4. \A line \in 1..(at + 1) : line \in 1..at \/ line = at + 1 OBVIOUS
 <2>5. \A line \in 1..at : line \in 1..(at + 1) OBVIOUS
 <2>6. DbFirsts(dbBlocks, at) BY <1>1, <1>3 DEF DbMarkdownInv, DbFirsts
 <2>7. DbFirsts(dbBlocks, at + 1) BY <2>5, <2>6 DEF DbFirsts
 <2>8. DbFirsts(dbBlocks, dbAt)' BY <1>3, <2>1, <2>7 DEF DbFirsts
 <2>9. (dbHtml.parser = "markdown" /\ dbAt <= Len(dbSource) /\ DbAscending(DbParts))'
   BY <1>2, <1>3, <2>1, <2>3 DEF DbMarkdownInv, DbAscending
 <2>10. (\A line \in 1..dbAt : dbSource[line] # "blank" => line \in ToSet(DbParts))'
   BY <1>1, <1>3, <1>5, <2>1, <2>3, <2>4 DEF DbMarkdownInv
 <2>11. (ToSet(DbParts) \subseteq 1..dbAt)' BY <1>1, <1>3, <2>1, <2>3, <2>5 DEF DbMarkdownInv
 <2>12. (DbNoGap(DbHeadingLines, DbLev) =>
             DbStands(DbHeadingLines, DbLev, dbHeadings) /\ DbPaths(dbBlocks, DbHeadingLines, DbLev))'
   BY <1>3, <2>1, <2>3 DEF DbMarkdownInv, DbNoGap, DbStands, DbPaths, DbOpenAt
 <2>13. DbMarkdownInv' BY <2>8, <2>9, <2>10, <2>11, <2>12 DEF DbMarkdownInv, DbFirsts, DbPaths
 <2> QED BY <2>2, <2>13
<1>6. CASE ~(at = 0 /\ DbFrontmatterEnds # {}) /\ dbSource[at + 1] # "blank"
 <2>1. DbLine(at + 1, dbSource[at + 1]) BY <1>1, <1>6 DEF DbMarkdown
 <2>2. at + 1 \in Nat /\ at + 1 <= n BY <1>2
 <2>3. DbBlockEnd(at + 1) \in (at + 1 + 1)..(n + 1) BY <1>2, <2>2, DbBlockEnds
 <2>4. PICK last \in Nat : last = DbBlockEnd(at + 1) - 1 /\ at < last /\ last <= n BY <2>3
 <2>5. PICK kind : kind = dbSource[at + 1] OBVIOUS
 <2>6. PICK headings : headings = IF DbLevel(kind) > 0 THEN DbUnder(dbHeadings, DbLevel(kind), at + 1) ELSE dbHeadings
   OBVIOUS
 <2>7. DbEmit(DbBlockKind(kind), at + 1, DbBlockEnd(at + 1), headings)
   BY <2>1, <2>5, <2>6 DEF DbLine
 <2>8. DbLevel(kind) > 0 => DbLevel(kind) # 0 OBVIOUS
 <2>9. DbEmitted(DbBlockKind(kind), at, last, headings)
   BY <1>1, <1>2, <1>3, <2>4, <2>5, <2>6, <2>7, <2>8, DbBlockKinds DEF DbEmit, DbEmitted
 <2> QED BY <2>9, DbEmits
<1> QED BY <1>4, <1>5, <1>6

\* What the invariant says.
LEMMA DbMarkdownSays ==
  ASSUME DbTyped, DbMarkdownInv
  PROVE  DbEveryLineOnce /\ DbPathsAreOpen
<1>1. DbEveryLineOnce BY DEF DbEveryLineOnce, DbMarkdownInv, DbAscending, DbPartsInOrder
<1>2. ASSUME dbHtml.parser = "markdown", DbNoLevelSkipped PROVE DbPathsAreOpen
 <2>1. DbFirsts(dbBlocks, dbAt) /\ dbAt \in Nat BY <1>2 DEF DbMarkdownInv, DbFirsts, DbTyped
 <2>2. DbHeadingLines \subseteq Nat BY <2>1 DEF DbHeadingLines, DbFirsts
 <2>3. \A n \in DbHeadingLines : DbLev[n] = DbHeadingLevel(n) BY <2>2 DEF DbLev, DbHeadingLevel
 <2>4. DbNoGap(DbHeadingLines, DbLev) BY <1>2, <2>3 DEF DbNoGap, DbNoLevelSkipped
 <2>5. DbPaths(dbBlocks, DbHeadingLines, DbLev) BY <1>2, <2>4 DEF DbMarkdownInv, DbPaths
 <2>6. \A first : DbOpenAt(DbHeadingLines, DbLev, first) =
                  {n \in DbHeadingLines : n <= first /\ \A k \in DbHeadingLines :
                       n < k /\ k <= first => DbHeadingLevel(k) > DbHeadingLevel(n)}
   BY <2>3 DEF DbOpenAt
 <2> QED BY <2>5, <2>6 DEF DbPathsAreOpen, DbPaths
<1>3. DbPathsAreOpen BY <1>2 DEF DbPathsAreOpen
<1> QED BY <1>1, <1>3

\* Where the texts of an HTML source are: in the blocks, or in what the
\* collector has open.
DbPlaces == {"parts", "captured", "cells", "inCell"}

DbPieceAt(parts, h, x) ==
  CASE x = "parts" -> parts [] x = "captured" -> h.captured
    [] x = "cells" -> h.cells [] x = "inCell" -> h.inCell

DbPiecesOf(parts, h) == [x \in DbPlaces |-> DbPieceAt(parts, h, x)]

DbPieces == DbPiecesOf(DbParts, dbHtml)

\* No text is at two places or twice at one, and none was skipped.
DbClean(q, skipped, n) ==
  /\ q \in [DbPlaces -> Seq(Nat)]
  /\ \A x \in DbPlaces : IsInjective(q[x]) /\ ToSet(q[x]) \subseteq (1..n) \ skipped
  /\ \A x \in DbPlaces : \A y \in DbPlaces \ {x} : ToSet(q[x]) \cap ToSet(q[y]) = {}

DbHtmlInv == dbHtml.parser = "html" => DbClean(DbPieces, dbSkipped, dbHtml.texts)

\* What a token does to the texts: some places are emptied, or one is emptied
\* into another, or a new text is put into one.
DbFewer(r, q) == r \in [DbPlaces -> Seq(Nat)] /\ \A x \in DbPlaces : r[x] = q[x] \/ r[x] = <<>>

DbMoved(r, q, x, y) ==
  /\ r \in [DbPlaces -> Seq(Nat)] /\ x \in DbPlaces /\ y \in DbPlaces \ {x}
  /\ r[x] = q[x] \o q[y] /\ r[y] = <<>>
  /\ \A z \in DbPlaces \ {x, y} : r[z] = q[z]

DbAdded(r, q, x, text) ==
  /\ r \in [DbPlaces -> Seq(Nat)] /\ x \in DbPlaces
  /\ r[x] = Append(q[x], text) /\ \A z \in DbPlaces \ {x} : r[z] = q[z]

\* Nothing is in an empty sequence.
LEMMA DbEmpty == IsInjective(<<>>) /\ ToSet(<<>>) = {}
BY DEF IsInjective, ToSet

\* Emptying is harmless.
LEMMA DbFewerClean ==
  ASSUME NEW q, NEW r, NEW skipped, NEW n, DbClean(q, skipped, n), DbFewer(r, q)
  PROVE  DbClean(r, skipped, n)
<1>1. r \in [DbPlaces -> Seq(Nat)] /\ \A x \in DbPlaces : r[x] = q[x] \/ r[x] = <<>> BY DEF DbFewer
<1>2. \A x \in DbPlaces : IsInjective(q[x]) /\ ToSet(q[x]) \subseteq (1..n) \ skipped BY DEF DbClean
<1>3. \A x \in DbPlaces : \A y \in DbPlaces \ {x} : ToSet(q[x]) \cap ToSet(q[y]) = {} BY DEF DbClean
<1>4. ASSUME NEW x \in DbPlaces PROVE IsInjective(r[x]) /\ ToSet(r[x]) \subseteq ToSet(q[x])
 <2>1. CASE r[x] = q[x] BY <1>2, <2>1
 <2>2. CASE r[x] = <<>> BY <2>2, DbEmpty
 <2> QED BY <1>1, <2>1, <2>2
<1>5. \A x \in DbPlaces : ToSet(r[x]) \subseteq (1..n) \ skipped BY <1>2, <1>4
<1>6. \A x \in DbPlaces : \A y \in DbPlaces \ {x} : ToSet(r[x]) \cap ToSet(r[y]) = {} BY <1>3, <1>4
<1> QED BY <1>1, <1>4, <1>5, <1>6 DEF DbClean

\* As is moving.
LEMMA DbMovedClean ==
  ASSUME NEW q, NEW r, NEW skipped, NEW n, NEW x, NEW y, DbClean(q, skipped, n), DbMoved(r, q, x, y)
  PROVE  DbClean(r, skipped, n)
<1>1. /\ r \in [DbPlaces -> Seq(Nat)] /\ x \in DbPlaces /\ y \in DbPlaces /\ y # x
      /\ r[x] = q[x] \o q[y] /\ r[y] = <<>>
      /\ \A z \in DbPlaces \ {x, y} : r[z] = q[z] BY Zenon DEF DbMoved
<1>2. \A z \in DbPlaces : IsInjective(q[z]) /\ ToSet(q[z]) \subseteq (1..n) \ skipped BY DEF DbClean
<1>3. \A z \in DbPlaces : \A w \in DbPlaces \ {z} : ToSet(q[z]) \cap ToSet(q[w]) = {} BY DEF DbClean
<1>4. q[x] \in Seq(Nat) /\ q[y] \in Seq(Nat) BY <1>1 DEF DbClean
<1>5. PICK a \in Seq(Nat) : a = q[x] BY <1>4
<1>6. PICK b \in Seq(Nat) : b = q[y] BY <1>4
<1>7. PICK c : c = r[x] OBVIOUS
<1>8. c = a \o b BY <1>1, <1>5, <1>6, <1>7, Zenon
<1>9. IsInjective(a) /\ IsInjective(b) /\ ToSet(a) \cap ToSet(b) = {}
  BY <1>1, <1>2, <1>3, <1>5, <1>6
<1>10. IsInjective(c) BY <1>8, <1>9, DbInjectiveJoin
<1>11. ToSet(c) = ToSet(a) \cup ToSet(b)
 <2>1. DbIsJoin(c, a, b) BY <1>8, DbJoined, Zenon
 <2> QED BY <2>1 DEF DbIsJoin
<1>12. ToSet(r[x]) = ToSet(q[x]) \cup ToSet(q[y]) /\ IsInjective(r[x])
  BY <1>5, <1>6, <1>7, <1>10, <1>11
<1>13. ToSet(r[y]) = {} /\ IsInjective(r[y]) BY <1>1, DbEmpty
<1>14. \A z \in DbPlaces : z = x \/ z = y \/ z \in DbPlaces \ {x, y} OBVIOUS
<1>15. \A z \in DbPlaces : IsInjective(r[z]) /\ ToSet(r[z]) \subseteq (1..n) \ skipped
 <2>1. ToSet(r[x]) \subseteq (1..n) \ skipped BY <1>1, <1>2, <1>12
 <2>2. \A z \in DbPlaces \ {x, y} : IsInjective(r[z]) /\ ToSet(r[z]) \subseteq (1..n) \ skipped
  <3>1. ASSUME NEW z \in DbPlaces \ {x, y} PROVE IsInjective(r[z]) /\ ToSet(r[z]) \subseteq (1..n) \ skipped
   <4>1. r[z] = q[z] BY <1>1
   <4> QED BY <1>2, <4>1
  <3> QED BY <3>1
 <2> QED BY <1>12, <1>13, <1>14, <2>1, <2>2
<1>16. \A z \in DbPlaces \ {x, y} : ToSet(r[z]) = ToSet(q[z])
 <2>1. ASSUME NEW z \in DbPlaces \ {x, y} PROVE ToSet(r[z]) = ToSet(q[z])
  <3>1. r[z] = q[z] BY <1>1
  <3> QED BY <3>1
 <2> QED BY <2>1
<1>17. PICK t : t = [z \in DbPlaces |-> ToSet(r[z])] OBVIOUS
<1>18. PICK s : s = [z \in DbPlaces |-> ToSet(q[z])] OBVIOUS
<1>19. \A z \in DbPlaces : \A w \in DbPlaces \ {z} : s[z] \cap s[w] = {} BY <1>3, <1>18
<1>20. t[x] = s[x] \cup s[y] /\ t[y] = {} /\ \A z \in DbPlaces \ {x, y} : t[z] = s[z]
  BY <1>1, <1>12, <1>13, <1>16, <1>17, <1>18
<1>21. \A z \in DbPlaces : \A w \in DbPlaces \ {z} : t[z] \cap t[w] = {}
  BY <1>1, <1>14, <1>19, <1>20
<1>22. \A z \in DbPlaces : \A w \in DbPlaces \ {z} : ToSet(r[z]) \cap ToSet(r[w]) = {}
  BY <1>17, <1>21
<1> QED BY <1>1, <1>15, <1>22 DEF DbClean

\* A new text is at one place.
LEMMA DbAddedClean ==
  ASSUME NEW q, NEW r, NEW skipped, NEW n \in Nat, skipped \subseteq 1..n, NEW x, DbClean(q, skipped, n),
         DbAdded(r, q, x, n + 1)
  PROVE  DbClean(r, skipped, n + 1)
<1>1. /\ r \in [DbPlaces -> Seq(Nat)] /\ x \in DbPlaces
      /\ r[x] = Append(q[x], n + 1)
      /\ \A z \in DbPlaces \ {x} : r[z] = q[z] BY Zenon DEF DbAdded
<1>2. \A z \in DbPlaces : IsInjective(q[z]) /\ ToSet(q[z]) \subseteq (1..n) \ skipped BY DEF DbClean
<1>3. \A z \in DbPlaces : \A w \in DbPlaces \ {z} : ToSet(q[z]) \cap ToSet(q[w]) = {} BY DEF DbClean
<1>4. q[x] \in Seq(Nat) BY <1>1 DEF DbClean
<1>5. PICK a \in Seq(Nat) : a = q[x] BY <1>4
<1>6. PICK c : c = r[x] OBVIOUS
<1>7. PICK m \in Nat : m = n + 1 OBVIOUS
<1>8. c = Append(a, m) BY <1>1, <1>5, <1>6, <1>7, Zenon
<1>9. IsInjective(a) /\ ToSet(a) \subseteq 1..n BY <1>1, <1>2, <1>5
<1>10. /\ Len(a) \in Nat /\ DOMAIN a = 1..Len(a) /\ DOMAIN c = 1..(Len(a) + 1)
       /\ c[Len(a) + 1] = m /\ \A i \in 1..Len(a) : c[i] = a[i] BY <1>8
<1>11. \A i \in DOMAIN c : i = Len(a) + 1 \/ i \in 1..Len(a) BY <1>10
<1>12. \A i \in 1..Len(a) : a[i] # m
 <2>1. \A i \in 1..Len(a) : a[i] \in ToSet(a) BY <1>10 DEF ToSet
 <2>2. m \notin 1..n BY <1>7
 <2> QED BY <1>9, <2>1, <2>2
<1>13. IsInjective(c) BY <1>9, <1>10, <1>11, <1>12 DEF IsInjective
<1>14. ToSet(c) = ToSet(a) \cup {m}
 <2>1. Len(a) + 1 \in DOMAIN c /\ \A i \in 1..Len(a) : i \in DOMAIN c BY <1>10
 <2> QED BY <1>10, <1>11, <2>1 DEF ToSet
<1>15. PICK t : t = [z \in DbPlaces |-> ToSet(r[z])] OBVIOUS
<1>16. PICK s : s = [z \in DbPlaces |-> ToSet(q[z])] OBVIOUS
<1>17. \A z \in DbPlaces \ {x} : ToSet(r[z]) = ToSet(q[z]) /\ IsInjective(r[z])
 <2>1. ASSUME NEW z \in DbPlaces \ {x} PROVE ToSet(r[z]) = ToSet(q[z]) /\ IsInjective(r[z])
  <3>1. r[z] = q[z] BY <1>1
  <3> QED BY <1>2, <3>1
 <2> QED BY <2>1
<1>18. t[x] = s[x] \cup {m} /\ \A z \in DbPlaces \ {x} : t[z] = s[z]
  BY <1>1, <1>5, <1>6, <1>14, <1>15, <1>16, <1>17
<1>19. \A z \in DbPlaces : m \notin s[z] /\ s[z] \subseteq (1..n) \ skipped BY <1>2, <1>7, <1>16
<1>20. \A z \in DbPlaces : \A w \in DbPlaces \ {z} : s[z] \cap s[w] = {} BY <1>3, <1>16
<1>21. \A z \in DbPlaces : \A w \in DbPlaces \ {z} : t[z] \cap t[w] = {}
 <2>1. \A z \in DbPlaces : z = x \/ z \in DbPlaces \ {x} OBVIOUS
 <2>2. \A w \in DbPlaces \ {x} : t[x] \cap t[w] = {} BY <1>1, <1>18, <1>19, <1>20
 <2>3. \A z \in DbPlaces \ {x} : \A w \in DbPlaces \ {z} : t[z] \cap t[w] = {}
   BY <1>1, <1>18, <1>20, <2>1, <2>2
 <2> QED BY <2>1, <2>2, <2>3
<1>22. m \in (1..(n + 1)) \ skipped /\ \A i \in 1..n : i \in 1..(n + 1) BY <1>7
<1>23. \A z \in DbPlaces : t[z] \subseteq (1..(n + 1)) \ skipped BY <1>18, <1>19, <1>22
<1>24. \A z \in DbPlaces : IsInjective(r[z]) BY <1>6, <1>13, <1>17
<1>25. \A z \in DbPlaces : ToSet(r[z]) = t[z] BY <1>15
<1> QED BY <1>1, <1>21, <1>23, <1>24, <1>25 DEF DbClean

\* A text skipped is nowhere.
LEMMA DbSkippedClean ==
  ASSUME NEW q, NEW skipped, NEW n \in Nat, DbClean(q, skipped, n)
  PROVE  DbClean(q, skipped \cup {n + 1}, n + 1)
<1>1. (1..n) \ skipped \subseteq (1..(n + 1)) \ (skipped \cup {n + 1}) OBVIOUS
<1> QED BY <1>1 DEF DbClean

\* The parts of typed blocks are places in the source.
LEMMA DbPartsTyped == ASSUME NEW blocks \in Seq(DbBlockRow) PROVE DbPartsOf(blocks) \in Seq(Nat)
<1>1. PICK row : row = [kind |-> "media", parts |-> <<>>, path |-> <<>>] OBVIOUS
<1>2. <<>> \in Seq(Nat) OBVIOUS
<1>3. row \in DbBlockRow BY <1>1, <1>2 DEF DbBlockRow, DbStoredKinds
<1> QED BY <1>3, DbPartsAdd

\* What is at each place.
DbPiecesOk(q, parts, h) ==
  /\ q \in [DbPlaces -> Seq(Nat)]
  /\ q["parts"] = parts /\ q["captured"] = h.captured /\ q["cells"] = h.cells /\ q["inCell"] = h.inCell

\* DbPiecesOf says so.
LEMMA DbPiecesAre ==
  ASSUME NEW parts \in Seq(Nat), NEW h \in DbHtmlRow
  PROVE  DbPiecesOk(DbPiecesOf(parts, h), parts, h)
<1>1. PICK q : q = DbPiecesOf(parts, h) OBVIOUS
<1>2. h.captured \in Seq(Nat) /\ h.cells \in Seq(Nat) /\ h.inCell \in Seq(Nat) BY DEF DbHtmlRow
<1>3. \A x \in DbPlaces : q[x] = DbPieceAt(parts, h, x) BY <1>1 DEF DbPiecesOf
<1>4. q["parts"] = parts /\ q["captured"] = h.captured /\ q["cells"] = h.cells /\ q["inCell"] = h.inCell
  BY <1>3 DEF DbPlaces, DbPieceAt
<1>5. \A x \in DbPlaces : q[x] \in Seq(Nat) BY <1>2, <1>4 DEF DbPlaces
<1>6. q = [x \in DbPlaces |-> q[x]] BY <1>1 DEF DbPiecesOf
<1>7. q \in [DbPlaces -> Seq(Nat)] BY <1>5, <1>6
<1> QED BY <1>1, <1>4, <1>7 DEF DbPiecesOk

\* What the collector has open may be dropped.
DbEmpties(g, h) ==
  /\ g.captured = h.captured \/ g.captured = <<>>
  /\ g.cells = h.cells \/ g.cells = <<>>
  /\ g.inCell = h.inCell \/ g.inCell = <<>>

DbKeeps(g, h) == g \in DbHtmlRow /\ g.parser = h.parser /\ g.texts = h.texts

\* Then the places are emptied.
LEMMA DbFewerIs ==
  ASSUME NEW parts \in Seq(Nat), NEW h \in DbHtmlRow, NEW g \in DbHtmlRow, DbEmpties(g, h)
  PROVE  DbFewer(DbPiecesOf(parts, g), DbPiecesOf(parts, h))
<1>1. PICK q : q = DbPiecesOf(parts, h) OBVIOUS
<1>2. PICK r : r = DbPiecesOf(parts, g) OBVIOUS
<1>3. DbPiecesOk(q, parts, h) /\ DbPiecesOk(r, parts, g) BY <1>1, <1>2, DbPiecesAre
<1>4. \A x \in DbPlaces : r[x] = q[x] \/ r[x] = <<>> BY <1>3 DEF DbPiecesOk, DbPlaces, DbEmpties
<1> QED BY <1>1, <1>2, <1>3, <1>4 DEF DbFewer, DbPiecesOk

\* Cells or what was captured become parts.
DbCloses(g, h, parts, more, y) ==
  \/ y = "cells" /\ more = parts \o h.cells /\ g.cells = <<>> /\ g.captured = h.captured /\ g.inCell = h.inCell
  \/ y = "captured" /\ more = parts \o h.captured /\ g.captured = <<>> /\ g.cells = h.cells /\ g.inCell = h.inCell

\* Then one place is emptied into the blocks.
LEMMA DbClosesIs ==
  ASSUME NEW parts \in Seq(Nat), NEW more \in Seq(Nat), NEW h \in DbHtmlRow, NEW g \in DbHtmlRow, NEW y,
         DbCloses(g, h, parts, more, y)
  PROVE  DbMoved(DbPiecesOf(more, g), DbPiecesOf(parts, h), "parts", y)
<1>1. PICK q : q = DbPiecesOf(parts, h) OBVIOUS
<1>2. PICK r : r = DbPiecesOf(more, g) OBVIOUS
<1>3. DbPiecesOk(q, parts, h) /\ DbPiecesOk(r, more, g) BY <1>1, <1>2, DbPiecesAre
<1>4. r \in [DbPlaces -> Seq(Nat)] /\ "parts" \in DbPlaces /\ y \in DbPlaces \ {"parts"}
  BY <1>3 DEF DbPiecesOk, DbPlaces, DbCloses
<1>5. r["parts"] = q["parts"] \o q[y] BY <1>3, Zenon DEF DbPiecesOk, DbCloses
<1>6. r[y] = <<>> BY <1>3, Zenon DEF DbPiecesOk, DbCloses
<1>7. \A z \in DbPlaces \ {"parts", y} : r[z] = q[z]
 <2>1. CASE y = "cells"
  <3>1. r["captured"] = q["captured"] /\ r["inCell"] = q["inCell"]
    BY <1>3, <2>1, Zenon DEF DbPiecesOk, DbCloses
  <3> QED BY <2>1, <3>1 DEF DbPlaces
 <2>2. CASE y = "captured"
  <3>1. r["cells"] = q["cells"] /\ r["inCell"] = q["inCell"]
    BY <1>3, <2>2, Zenon DEF DbPiecesOk, DbCloses
  <3> QED BY <2>2, <3>1 DEF DbPlaces
 <2> QED BY <2>1, <2>2, Zenon DEF DbCloses
<1>8. DbMoved(r, q, "parts", y) BY <1>4, <1>5, <1>6, <1>7, Zenon DEF DbMoved
<1> QED BY <1>1, <1>2, <1>8

\* A cell joins those of its row.
LEMMA DbCellIs ==
  ASSUME NEW parts \in Seq(Nat), NEW h \in DbHtmlRow, NEW g \in DbHtmlRow,
         g.cells = h.cells \o h.inCell, g.inCell = <<>>, g.captured = h.captured
  PROVE  DbMoved(DbPiecesOf(parts, g), DbPiecesOf(parts, h), "cells", "inCell")
<1>1. PICK q : q = DbPiecesOf(parts, h) OBVIOUS
<1>2. PICK r : r = DbPiecesOf(parts, g) OBVIOUS
<1>3. DbPiecesOk(q, parts, h) /\ DbPiecesOk(r, parts, g) BY <1>1, <1>2, DbPiecesAre
<1>4. r \in [DbPlaces -> Seq(Nat)] /\ "cells" \in DbPlaces /\ "inCell" \in DbPlaces \ {"cells"}
  BY <1>3 DEF DbPiecesOk, DbPlaces
<1>5. r["cells"] = q["cells"] \o q["inCell"] /\ r["inCell"] = <<>> BY <1>3, Zenon DEF DbPiecesOk
<1>6. r["parts"] = q["parts"] /\ r["captured"] = q["captured"] BY <1>3, Zenon DEF DbPiecesOk
<1>7. \A z \in DbPlaces \ {"cells", "inCell"} : r[z] = q[z] BY <1>6 DEF DbPlaces
<1>8. DbMoved(r, q, "cells", "inCell") BY <1>4, <1>5, <1>7, Zenon DEF DbMoved
<1> QED BY <1>1, <1>2, <1>8

\* A text goes into the open cell or what is captured.
DbTakes(g, h, x, text) ==
  \/ x = "inCell" /\ g.inCell = Append(h.inCell, text) /\ g.captured = h.captured /\ g.cells = h.cells
  \/ x = "captured" /\ g.captured = Append(h.captured, text) /\ g.inCell = h.inCell /\ g.cells = h.cells

\* Then the text is added to one place.
LEMMA DbTakesIs ==
  ASSUME NEW parts \in Seq(Nat), NEW h \in DbHtmlRow, NEW g \in DbHtmlRow, NEW x, NEW text,
         DbTakes(g, h, x, text)
  PROVE  DbAdded(DbPiecesOf(parts, g), DbPiecesOf(parts, h), x, text)
<1>1. PICK q : q = DbPiecesOf(parts, h) OBVIOUS
<1>2. PICK r : r = DbPiecesOf(parts, g) OBVIOUS
<1>3. DbPiecesOk(q, parts, h) /\ DbPiecesOk(r, parts, g) BY <1>1, <1>2, DbPiecesAre
<1>4. r \in [DbPlaces -> Seq(Nat)] /\ x \in DbPlaces BY <1>3 DEF DbPiecesOk, DbPlaces, DbTakes
<1>5. r[x] = Append(q[x], text) BY <1>3, Zenon DEF DbPiecesOk, DbTakes
<1>6. \A z \in DbPlaces \ {x} : r[z] = q[z]
 <2>1. CASE x = "inCell"
  <3>1. r["captured"] = q["captured"] /\ r["cells"] = q["cells"] /\ r["parts"] = q["parts"]
    BY <1>3, <2>1, Zenon DEF DbPiecesOk, DbTakes
  <3> QED BY <2>1, <3>1 DEF DbPlaces
 <2>2. CASE x = "captured"
  <3>1. r["inCell"] = q["inCell"] /\ r["cells"] = q["cells"] /\ r["parts"] = q["parts"]
    BY <1>3, <2>2, Zenon DEF DbPiecesOk, DbTakes
  <3> QED BY <2>2, <3>1 DEF DbPlaces
 <2> QED BY <2>1, <2>2, Zenon DEF DbTakes
<1>7. DbAdded(r, q, x, text) BY <1>4, <1>5, <1>6, Zenon DEF DbAdded
<1> QED BY <1>1, <1>2, <1>7

\* Parts are added at the end, in a new block or in the last.
DbJoins(parts) ==
  /\ dbBlocks' \in Seq(DbBlockRow) /\ dbHeadings' \in Seq(Nat)
  /\ DbParts \in Seq(Nat) /\ DbParts' \in Seq(Nat) /\ DbParts' = DbParts \o parts

\* _append does so.
LEMMA DbAppends ==
  ASSUME DbTyped, NEW kind \in DbStoredKinds, NEW parts \in Seq(Nat), NEW headings \in Seq(Nat),
         DbAppend(kind, parts, headings)
  PROVE  DbJoins(parts)
<1>1. PICK s \in Seq(DbBlockRow) : s = dbBlocks BY DEF DbTyped
<1>2. DbParts = DbPartsOf(s) /\ DbPartsOf(s) \in Seq(Nat)
  BY <1>1, DbPartsTyped DEF DbParts, DbPartsOf
<1>3. dbHeadings' \in Seq(Nat) BY DEF DbAppend
<1>4. CASE dbBlocks' = Append(dbBlocks, DbBlock(kind, parts, headings))
 <2>1. PICK row : row = DbBlock(kind, parts, headings) OBVIOUS
 <2>2. row \in DbBlockRow /\ row.parts = parts BY <2>1 DEF DbBlock, DbBlockRow
 <2>3. PICK t : t = Append(s, row) OBVIOUS
 <2>4. t \in Seq(DbBlockRow) BY <2>2, <2>3
 <2>5. DbPartsOf(t) = DbPartsOf(s) \o parts BY <2>2, <2>3, DbPartsAdd
 <2>6. dbBlocks' = t BY <1>1, <1>4, <2>1, <2>3
 <2>7. DbParts' = DbPartsOf(t) BY <2>6 DEF DbParts, DbPartsOf
 <2>8. DbPartsOf(t) \in Seq(Nat) BY <2>4, DbPartsTyped
 <2> QED BY <1>2, <1>3, <2>4, <2>5, <2>6, <2>7, <2>8 DEF DbJoins
<1>5. CASE dbBlocks # <<>> /\ dbBlocks' = [dbBlocks EXCEPT ![Len(dbBlocks)].parts = @ \o parts]
 <2>1. PICK t : t = [s EXCEPT ![Len(s)].parts = @ \o parts] OBVIOUS
 <2>2. s # <<>> BY <1>1, <1>5
 <2>3. t \in Seq(DbBlockRow) /\ DbPartsOf(t) = DbPartsOf(s) \o parts BY <2>1, <2>2, DbPartsJoin
 <2>4. dbBlocks' = t BY <1>1, <1>5, <2>1
 <2>5. DbParts' = DbPartsOf(t) BY <2>4 DEF DbParts, DbPartsOf
 <2>6. DbPartsOf(t) \in Seq(Nat) BY <2>3, DbPartsTyped
 <2> QED BY <1>2, <1>3, <2>3, <2>4, <2>5, <2>6 DEF DbJoins
<1> QED BY <1>4, <1>5 DEF DbAppend

\* As they are at the end of a captured element.
LEMMA DbEndsBlock ==
  ASSUME DbTyped, NEW tag \in DbCaptures \ {"none"}, NEW parts \in Seq(Nat), DbHtmlBlock(tag, parts)
  PROVE  DbJoins(parts)
<1>1. PICK stack \in Seq(Nat) : stack = dbHeadings BY DEF DbTyped
<1>2. {"heading", "list", "code", "paragraph"} \subseteq DbStoredKinds BY DEF DbStoredKinds
<1>3. CASE DbLevel(tag) > 0
 <2>1. PICK level \in Nat : level = DbLevel(tag) BY DbLevels
 <2>2. PICK h \in Nat : h = Len(dbBlocks) + 1
  <3>1. Len(dbBlocks) \in Nat BY DEF DbTyped
  <3> QED BY <3>1
 <2>3. PICK headings : headings = DbUnder(stack, level, h) OBVIOUS
 <2>4. headings \in Seq(Nat) BY <1>3, <2>1, <2>3, DbUnderTyped
 <2>5. DbHtmlBlock(tag, parts) = DbAppend("heading", parts, headings)
  <3>1. tag \notin {"li", "pre", "p"} BY <1>3 DEF DbLevel
  <3>2. headings = DbUnder(dbHeadings, DbLevel(tag), Len(dbBlocks) + 1) BY <1>1, <2>1, <2>2, <2>3
  <3> QED BY <1>3, <3>1, <3>2 DEF DbHtmlBlock
 <2> QED BY <1>2, <2>4, <2>5, DbAppends
<1>4. CASE ~(DbLevel(tag) > 0)
 <2>1. tag = "p" \/ tag = "li" \/ tag = "pre" BY <1>4 DEF DbLevel, DbCaptures
 <2>2. CASE tag = "p"
  <3>1. DbAppend("paragraph", parts, stack) BY <1>1, <1>4, <2>2 DEF DbHtmlBlock
  <3> QED BY <1>2, <3>1, DbAppends
 <2>3. CASE tag = "li"
  <3>1. DbAppend("list", parts, stack) BY <1>1, <1>4, <2>3 DEF DbHtmlBlock
  <3> QED BY <1>2, <3>1, DbAppends
 <2>4. CASE tag = "pre"
  <3>1. DbAppend("code", parts, stack) BY <1>1, <1>4, <2>4 DEF DbHtmlBlock
  <3> QED BY <1>2, <3>1, DbAppends
 <2> QED BY <2>1, <2>2, <2>3, <2>4
<1> QED BY <1>3, <1>4

\* Every token is one of these: what is open is dropped, a cell joins its row,
\* cells or what was captured become parts, a text is taken or skipped.
DbQuiet == DbEmpties(dbHtml', dbHtml) /\ UNCHANGED <<dbBlocks, dbHeadings, dbSkipped>>

DbCellEnds ==
  /\ dbHtml'.cells = dbHtml.cells \o dbHtml.inCell /\ dbHtml'.inCell = <<>>
  /\ dbHtml'.captured = dbHtml.captured /\ UNCHANGED <<dbBlocks, dbHeadings, dbSkipped>>

DbElementEnds ==
  /\ \E parts : DbJoins(parts)
  /\ UNCHANGED dbSkipped
  /\ \E y : DbCloses(dbHtml', dbHtml, DbParts, DbParts', y)

DbTokenIs == DbKeeps(dbHtml', dbHtml) /\ (DbQuiet \/ DbCellEnds \/ DbElementEnds)

\* A start tag opens or drops.
LEMMA DbStarts ==
  ASSUME DbTyped, NEW tag, DbHtmlStart(tag), UNCHANGED dbSkipped
  PROVE  DbTokenIs
<1>1. PICK h \in DbHtmlRow : h = dbHtml BY DEF DbTyped
<1>2. PICK g : g = dbHtml' OBVIOUS
<1>3. UNCHANGED <<dbBlocks, dbHeadings>> BY DEF DbHtmlStart
<1>4. <<>> \in Seq(Nat) OBVIOUS
<1>5. g = CASE tag \in DbSkippedTags -> [h EXCEPT !.skip = @ + 1]
           [] tag \notin DbSkippedTags /\ h.skip > 0 -> h
           [] tag = "title" /\ h.skip = 0 -> [h EXCEPT !.title = @ + 1]
           [] tag = "tr" /\ h.skip = 0 -> [h EXCEPT !.row = TRUE, !.cells = <<>>]
           [] tag = "td" /\ h.skip = 0 /\ h.row -> [h EXCEPT !.cell = TRUE, !.inCell = <<>>]
           [] DbCaptured(tag) /\ h.skip = 0 /\ h.capture = DbNone ->
                [h EXCEPT !.capture = tag, !.captured = <<>>]
           [] OTHER -> h BY <1>1, <1>2 DEF DbHtmlStart
<1>6. DbCaptured(tag) => tag \in DbCaptures BY DEF DbCaptured, DbCaptures, DbLevel
<1>7. \/ g = [h EXCEPT !.skip = @ + 1] \/ g = h \/ g = [h EXCEPT !.title = @ + 1]
      \/ g = [h EXCEPT !.row = TRUE, !.cells = <<>>] \/ g = [h EXCEPT !.cell = TRUE, !.inCell = <<>>]
      \/ DbCaptured(tag) /\ g = [h EXCEPT !.capture = tag, !.captured = <<>>] BY <1>5
<1>8. DbKeeps(g, h) /\ DbEmpties(g, h)
 <2>1. CASE g = [h EXCEPT !.skip = @ + 1]
  <3>1. h.skip + 1 \in Nat BY DEF DbHtmlRow
  <3>2. PICK n \in Nat : n = h.skip + 1 BY <3>1
  <3>3. g = [h EXCEPT !.skip = n] BY <2>1, <3>2
  <3> QED BY <3>3 DEF DbKeeps, DbEmpties, DbHtmlRow
 <2>2. CASE g = h BY <2>2 DEF DbKeeps, DbEmpties
 <2>3. CASE g = [h EXCEPT !.title = @ + 1]
  <3>1. h.title + 1 \in Nat BY DEF DbHtmlRow
  <3>2. PICK n \in Nat : n = h.title + 1 BY <3>1
  <3>3. g = [h EXCEPT !.title = n] BY <2>3, <3>2
  <3> QED BY <3>3 DEF DbKeeps, DbEmpties, DbHtmlRow
 <2>4. CASE g = [h EXCEPT !.row = TRUE, !.cells = <<>>]
   BY <1>4, <2>4 DEF DbKeeps, DbEmpties, DbHtmlRow
 <2>5. CASE g = [h EXCEPT !.cell = TRUE, !.inCell = <<>>]
   BY <1>4, <2>5 DEF DbKeeps, DbEmpties, DbHtmlRow
 <2>6. CASE DbCaptured(tag) /\ g = [h EXCEPT !.capture = tag, !.captured = <<>>]
   BY <1>4, <1>6, <2>6 DEF DbKeeps, DbEmpties, DbHtmlRow
 <2> QED BY <1>7, <2>1, <2>2, <2>3, <2>4, <2>5, <2>6
<1> QED BY <1>1, <1>2, <1>3, <1>8 DEF DbTokenIs, DbQuiet

\* An end tag drops, closes a cell, or closes an element with a block.
LEMMA DbEnds ==
  ASSUME DbTyped, NEW tag \in DbTags, DbHtmlEnd(tag), UNCHANGED dbSkipped
  PROVE  DbTokenIs
<1>1. PICK h \in DbHtmlRow : h = dbHtml BY DEF DbTyped
<1>2. PICK g : g = dbHtml' OBVIOUS
<1>3. <<>> \in Seq(Nat) OBVIOUS
<1>4. /\ h.captured \in Seq(Nat) /\ h.cells \in Seq(Nat) /\ h.inCell \in Seq(Nat) /\ h.skip \in Nat
      /\ h.capture \in DbCaptures BY DEF DbHtmlRow
<1> DEFINE Quiet == UNCHANGED <<dbBlocks, dbHeadings>>
<1>5. \/ g = h /\ Quiet
      \/ g = [h EXCEPT !.skip = IF @ = 0 THEN 0 ELSE @ - 1] /\ Quiet
      \/ h.title > 0 /\ g = [h EXCEPT !.title = @ - 1] /\ Quiet
      \/ h.row /\ g = [h EXCEPT !.cell = FALSE, !.inCell = <<>>, !.cells = @ \o h.inCell] /\ Quiet
      \/ ~h.row /\ g = [h EXCEPT !.cell = FALSE, !.inCell = <<>>] /\ Quiet
      \/ g = [h EXCEPT !.row = FALSE, !.cells = <<>>] /\ (Quiet \/ DbAppend("table", h.cells, dbHeadings))
      \/ tag = h.capture /\ g = [h EXCEPT !.capture = DbNone, !.captured = <<>>]
         /\ (Quiet \/ DbHtmlBlock(tag, h.captured))
 <2>1. CASE tag \in DbSkippedTags BY <1>1, <1>2, <2>1 DEF DbHtmlEnd, DbSkippedTags
 <2>2. CASE tag \notin DbSkippedTags /\ h.skip > 0 BY <1>1, <1>2, <1>4, <2>2 DEF DbHtmlEnd
 <2>3. CASE tag \notin DbSkippedTags /\ h.skip = 0 /\ tag = "title" /\ h.title > 0
   BY <1>1, <1>2, <2>3 DEF DbHtmlEnd
 <2>4. CASE tag \notin DbSkippedTags /\ h.skip = 0 /\ tag = "td" /\ h.cell
  <3>1. tag # "title" BY <2>4
  <3>2. PICK r : r = [h EXCEPT !.cell = FALSE, !.inCell = <<>>,
                               !.cells = IF h.row THEN @ \o h.inCell ELSE @] OBVIOUS
  <3>3. r = [dbHtml EXCEPT !.cell = FALSE, !.inCell = <<>>,
                           !.cells = IF dbHtml.row THEN @ \o dbHtml.inCell ELSE @] BY <1>1, <3>2
  <3>4. /\ dbHtml' = [dbHtml EXCEPT !.cell = FALSE, !.inCell = <<>>,
                                    !.cells = IF dbHtml.row THEN @ \o dbHtml.inCell ELSE @]
        /\ Quiet BY <1>1, <1>4, <2>4, <3>1 DEF DbHtmlEnd, DbCaptures
  <3>5. g = r /\ Quiet BY <1>2, <3>3, <3>4
  <3>6. CASE h.row BY <3>2, <3>5, <3>6
  <3>7. CASE ~h.row BY <3>2, <3>5, <3>7
  <3> QED BY <3>6, <3>7
 <2>5. CASE tag \notin DbSkippedTags /\ h.skip = 0 /\ tag = "tr" /\ h.row
   BY <1>1, <1>2, <2>5 DEF DbHtmlEnd
 <2>6. CASE tag \notin DbSkippedTags /\ h.skip = 0 /\ tag = h.capture
   BY <1>1, <1>2, <1>4, <2>6 DEF DbHtmlEnd, DbCaptures
 <2>7. CASE /\ tag \notin DbSkippedTags /\ h.skip = 0 /\ tag # h.capture
            /\ ~(tag = "title" /\ h.title > 0) /\ ~(tag = "td" /\ h.cell) /\ ~(tag = "tr" /\ h.row)
   BY <1>1, <1>2, <2>7 DEF DbHtmlEnd
 <2> QED BY <1>4, <2>1, <2>2, <2>3, <2>4, <2>5, <2>6, <2>7

<1> HIDE DEF Quiet
<1>6. CASE g = h /\ Quiet BY <1>1, <1>2, <1>6 DEF DbTokenIs, DbQuiet, DbKeeps, DbEmpties, Quiet
<1>7. CASE g = [h EXCEPT !.skip = IF @ = 0 THEN 0 ELSE @ - 1] /\ Quiet
 <2>1. PICK n \in Nat : n = IF h.skip = 0 THEN 0 ELSE h.skip - 1
  <3>1. (IF h.skip = 0 THEN 0 ELSE h.skip - 1) \in Nat BY <1>4
  <3> QED BY <3>1
 <2>2. g = [h EXCEPT !.skip = n] BY <1>7, <2>1
 <2>3. DbKeeps(g, h) /\ DbEmpties(g, h) BY <2>2 DEF DbKeeps, DbEmpties, DbHtmlRow
 <2> QED BY <1>1, <1>2, <1>7, <2>3 DEF DbTokenIs, DbQuiet, Quiet
<1>8. CASE h.title > 0 /\ g = [h EXCEPT !.title = @ - 1] /\ Quiet
 <2>1. PICK n \in Nat : n = h.title - 1
  <3>1. h.title \in Nat BY DEF DbHtmlRow
  <3>2. h.title - 1 \in Nat BY <1>8, <3>1
  <3> QED BY <3>2
 <2>2. g = [h EXCEPT !.title = n] BY <1>8, <2>1
 <2>3. DbKeeps(g, h) /\ DbEmpties(g, h) BY <2>2 DEF DbKeeps, DbEmpties, DbHtmlRow
 <2> QED BY <1>1, <1>2, <1>8, <2>3 DEF DbTokenIs, DbQuiet, Quiet
<1>9. CASE h.row /\ g = [h EXCEPT !.cell = FALSE, !.inCell = <<>>, !.cells = @ \o h.inCell] /\ Quiet
 <2>1. PICK cells \in Seq(Nat) : cells = h.cells \o h.inCell
  <3>1. h.cells \o h.inCell \in Seq(Nat) BY <1>4
  <3> QED BY <3>1
 <2>2. g = [h EXCEPT !.cell = FALSE, !.inCell = <<>>, !.cells = cells] BY <1>9, <2>1
 <2>3. DbKeeps(g, h) BY <1>3, <2>2 DEF DbKeeps, DbHtmlRow
 <2>4. g.cells = cells /\ g.inCell = <<>> /\ g.captured = h.captured BY <2>2 DEF DbHtmlRow
 <2>5. g.cells = h.cells \o h.inCell BY <2>1, <2>4, Zenon
 <2>6. dbHtml'.cells = dbHtml.cells \o dbHtml.inCell BY <1>1, <1>2, <2>5, Zenon
 <2> QED BY <1>1, <1>2, <1>9, <2>3, <2>4, <2>6, Zenon DEF DbTokenIs, DbCellEnds, Quiet
<1>10. CASE ~h.row /\ g = [h EXCEPT !.cell = FALSE, !.inCell = <<>>] /\ Quiet
 <2>1. DbKeeps(g, h) /\ DbEmpties(g, h) BY <1>3, <1>10 DEF DbKeeps, DbEmpties, DbHtmlRow
 <2> QED BY <1>1, <1>2, <1>10, <2>1 DEF DbTokenIs, DbQuiet, Quiet
<1>11. CASE g = [h EXCEPT !.row = FALSE, !.cells = <<>>] /\ (Quiet \/ DbAppend("table", h.cells, dbHeadings))
 <2>1. DbKeeps(g, h) /\ DbEmpties(g, h) BY <1>3, <1>11 DEF DbKeeps, DbEmpties, DbHtmlRow
 <2>2. CASE Quiet BY <1>1, <1>2, <2>1, <2>2 DEF DbTokenIs, DbQuiet, Quiet
 <2>3. CASE DbAppend("table", h.cells, dbHeadings)
  <3>1. PICK cells \in Seq(Nat) : cells = h.cells BY <1>4
  <3>2. PICK stack \in Seq(Nat) : stack = dbHeadings BY DEF DbTyped
  <3>3. "table" \in DbStoredKinds BY DEF DbStoredKinds
  <3>4. DbJoins(cells) BY <2>3, <3>1, <3>2, <3>3, DbAppends
  <3>5. g.cells = <<>> /\ g.captured = h.captured /\ g.inCell = h.inCell BY <1>11 DEF DbHtmlRow
  <3>6. DbParts' = DbParts \o h.cells BY <3>1, <3>4, Zenon DEF DbJoins
  <3>7. DbCloses(g, h, DbParts, DbParts', "cells") BY <3>5, <3>6, Zenon DEF DbCloses
  <3> QED BY <1>1, <1>2, <2>1, <3>4, <3>7, Zenon DEF DbTokenIs, DbElementEnds
 <2> QED BY <1>11, <2>2, <2>3
<1>12. CASE tag = h.capture /\ g = [h EXCEPT !.capture = DbNone, !.captured = <<>>]
            /\ (Quiet \/ DbHtmlBlock(tag, h.captured))
 <2>1. DbKeeps(g, h) /\ DbEmpties(g, h)
   BY <1>3, <1>12 DEF DbKeeps, DbEmpties, DbHtmlRow, DbNone, DbCaptures
 <2>2. CASE Quiet BY <1>1, <1>2, <2>1, <2>2 DEF DbTokenIs, DbQuiet, Quiet
 <2>3. CASE DbHtmlBlock(tag, h.captured)
  <3>1. PICK captured \in Seq(Nat) : captured = h.captured BY <1>4
  <3>2. tag \in DbCaptures \ {"none"} BY <1>4, <1>12, DbAssumption
  <3>3. DbJoins(captured) BY <2>3, <3>1, <3>2, DbEndsBlock
  <3>4. g.captured = <<>> /\ g.cells = h.cells /\ g.inCell = h.inCell BY <1>12 DEF DbHtmlRow
  <3>5. DbParts' = DbParts \o h.captured BY <3>1, <3>3, Zenon DEF DbJoins
  <3>6. DbCloses(g, h, DbParts, DbParts', "captured") BY <3>4, <3>5, Zenon DEF DbCloses
  <3> QED BY <1>1, <1>2, <2>1, <3>3, <3>6, Zenon DEF DbTokenIs, DbElementEnds
 <2> QED BY <1>12, <2>2, <2>3
<1> QED BY <1>5, <1>6, <1>7, <1>8, <1>9, <1>10, <1>11, <1>12

\* What a tag does keeps the texts apart.
LEMMA DbTokenClean ==
  ASSUME DbTyped, DbHtmlInv, dbHtml.parser = "html", DbTokenIs, dbAt' = dbAt + 1, UNCHANGED dbSource
  PROVE  DbTyped' /\ DbHtmlInv'
<1>1. PICK h \in DbHtmlRow : h = dbHtml BY DEF DbTyped
<1>2. PICK g \in DbHtmlRow : g = dbHtml' /\ g.parser = h.parser /\ g.texts = h.texts
  BY <1>1 DEF DbTokenIs, DbKeeps
<1>3. PICK parts \in Seq(Nat) : parts = DbParts
 <2>1. PICK s \in Seq(DbBlockRow) : s = dbBlocks BY DEF DbTyped
 <2>2. DbParts = DbPartsOf(s) /\ DbPartsOf(s) \in Seq(Nat)
   BY <2>1, DbPartsTyped DEF DbParts, DbPartsOf
 <2> QED BY <2>2
<1>4. PICK skipped : skipped = dbSkipped OBVIOUS
<1>5. dbSkipped' = skipped BY <1>4 DEF DbTokenIs, DbQuiet, DbCellEnds, DbElementEnds
<1>6. dbBlocks' \in Seq(DbBlockRow) /\ dbHeadings' \in Seq(Nat) /\ (DbParts' = parts \/ DbElementEnds)
 <2>1. CASE DbQuiet \/ DbCellEnds
  <3>1. UNCHANGED <<dbBlocks, dbHeadings>> BY <2>1 DEF DbQuiet, DbCellEnds
  <3>2. DbParts' = DbParts BY <3>1 DEF DbParts
  <3> QED BY <1>3, <3>1, <3>2 DEF DbTyped
 <2>2. CASE DbElementEnds BY <2>2, Zenon DEF DbElementEnds, DbJoins
 <2> QED BY <2>1, <2>2 DEF DbTokenIs
<1>7. DbTyped' BY <1>1, <1>2, <1>4, <1>5, <1>6 DEF DbTyped
<1>8. PICK q : q = DbPiecesOf(parts, h) OBVIOUS
<1>9. DbClean(q, skipped, h.texts) BY <1>1, <1>3, <1>4, <1>8 DEF DbHtmlInv, DbPieces
<1>10. DbClean(DbPiecesOf(DbParts', g), skipped, h.texts)
 <2>1. CASE DbQuiet
  <3>1. DbEmpties(g, h) /\ DbParts' = parts BY <1>1, <1>2, <1>3, <2>1 DEF DbQuiet, DbParts
  <3>2. PICK r : r = DbPiecesOf(parts, g) OBVIOUS
  <3>3. DbFewer(r, q) BY <1>8, <3>1, <3>2, DbFewerIs
  <3>4. DbClean(r, skipped, h.texts) BY <1>9, <3>3, DbFewerClean
  <3> QED BY <3>1, <3>2, <3>4
 <2>2. CASE DbCellEnds
  <3>1. g.cells = h.cells \o h.inCell /\ g.inCell = <<>> /\ g.captured = h.captured
    BY <1>1, <1>2, <2>2, Zenon DEF DbCellEnds
  <3>2. DbParts' = parts BY <1>3, <2>2 DEF DbCellEnds, DbParts
  <3>3. PICK r : r = DbPiecesOf(parts, g) OBVIOUS
  <3>4. DbMoved(r, q, "cells", "inCell") BY <1>8, <3>1, <3>3, DbCellIs, Zenon
  <3>5. DbClean(r, skipped, h.texts) BY <1>9, <3>4, DbMovedClean
  <3> QED BY <3>2, <3>3, <3>5
 <2>3. CASE DbElementEnds
  <3>1. DbParts' \in Seq(Nat) BY <2>3, Zenon DEF DbElementEnds, DbJoins
  <3>2. PICK more \in Seq(Nat) : more = DbParts' BY <3>1
  <3>3. PICK y : DbCloses(g, h, parts, more, y)
    BY <1>1, <1>2, <1>3, <2>3, <3>2, Zenon DEF DbElementEnds
  <3>4. PICK r : r = DbPiecesOf(more, g) OBVIOUS
  <3>5. DbMoved(r, q, "parts", y) BY <1>8, <3>3, <3>4, DbClosesIs
  <3>6. DbClean(r, skipped, h.texts) BY <1>9, <3>5, DbMovedClean
  <3> QED BY <3>2, <3>4, <3>6
 <2> QED BY <2>1, <2>2, <2>3 DEF DbTokenIs
<1>11. DbHtmlInv' BY <1>2, <1>5, <1>10 DEF DbHtmlInv, DbPieces
<1> QED BY <1>7, <1>11

\* While no skipped element ended in another, the counter is their number.
DbNestInv ==
  /\ dbNest \in [open : Seq(DbSkippedTags), crossed : BOOLEAN]
  /\ dbHtml.parser = "html" /\ ~dbNest.crossed => dbHtml.skip = Len(dbNest.open)

\* A token counts the element it opens or closes.
LEMMA DbNestKeeps ==
  ASSUME DbTyped, DbNestInv, DbHtmlToken
  PROVE  DbNestInv'
<1>1. PICK h \in DbHtmlRow : h = dbHtml BY DEF DbTyped
<1>2. PICK g : g = dbHtml' OBVIOUS
<1>3. PICK open \in Seq(DbSkippedTags), crossed \in BOOLEAN :
        dbNest = [open |-> open, crossed |-> crossed] BY DEF DbNestInv
<1>4. Len(open) \in Nat /\ h.skip \in Nat BY DEF DbHtmlRow
<1>5. ~crossed => h.skip = Len(open) BY <1>1, <1>3 DEF DbNestInv, DbHtmlToken
<1>6. ASSUME NEW more \in Seq(DbSkippedTags), NEW cross \in BOOLEAN,
             dbNest' = [open |-> more, crossed |-> cross], ~cross => g.skip = Len(more)
      PROVE  DbNestInv' BY <1>2, <1>6 DEF DbNestInv
<1>7. CASE DbHtmlText /\ UNCHANGED dbNest
 <2>1. \E text, inCell, captured : g = [h EXCEPT !.texts = text, !.inCell = inCell, !.captured = captured]
   BY <1>1, <1>2, <1>7 DEF DbHtmlText
 <2>2. g.skip = h.skip BY <2>1 DEF DbHtmlRow
 <2> QED BY <1>3, <1>5, <1>6, <1>7, <2>2
<1>8. ASSUME NEW tag \in DbTags, DbHtmlStart(tag), dbNest' = DbOpened(tag) PROVE DbNestInv'
 <2>1. CASE tag \in DbSkippedTags
  <3>1. PICK n \in Nat : n = h.skip + 1 BY <1>4
  <3>2. g = [h EXCEPT !.skip = n]
   <4>1. g = [h EXCEPT !.skip = @ + 1]
     BY <1>1, <1>2, <1>4, <1>8, <2>1 DEF DbHtmlStart, DbSkippedTags, DbCaptured, DbLevel
   <4> QED BY <3>1, <4>1
  <3>3. g.skip = h.skip + 1 BY <3>1, <3>2 DEF DbHtmlRow
  <3>4. Append(open, tag) \in Seq(DbSkippedTags) /\ Len(Append(open, tag)) = Len(open) + 1 BY <2>1
  <3>5. dbNest' = [open |-> Append(open, tag), crossed |-> crossed]
    BY <1>3, <1>8, <2>1 DEF DbOpened
  <3> QED BY <1>4, <1>5, <1>6, <3>3, <3>4, <3>5
 <2>2. CASE tag \notin DbSkippedTags
  <3>1. \/ g = h \/ g = [h EXCEPT !.title = @ + 1] \/ g = [h EXCEPT !.row = TRUE, !.cells = <<>>]
        \/ g = [h EXCEPT !.cell = TRUE, !.inCell = <<>>]
        \/ g = [h EXCEPT !.capture = tag, !.captured = <<>>]
    BY <1>1, <1>2, <1>4, <1>8, <2>2 DEF DbHtmlStart
  <3>2. g.skip = h.skip BY <3>1 DEF DbHtmlRow
  <3>3. dbNest' = [open |-> open, crossed |-> crossed] BY <1>3, <1>8, <2>2 DEF DbOpened
  <3> QED BY <1>5, <1>6, <3>2, <3>3
 <2> QED BY <2>1, <2>2
<1>9. ASSUME NEW tag \in DbTags, DbHtmlEnd(tag), dbNest' = DbClosed(tag) PROVE DbNestInv'
 <2>1. CASE tag \in DbSkippedTags
  <3>1. PICK n \in Nat : n = IF h.skip = 0 THEN 0 ELSE h.skip - 1
   <4>1. (IF h.skip = 0 THEN 0 ELSE h.skip - 1) \in Nat BY <1>4
   <4> QED BY <4>1
  <3>2. g = [h EXCEPT !.skip = n]
   <4>1. h.capture \in DbCaptures BY DEF DbHtmlRow
   <4>2. tag \notin {"title", "td", "tr", "none", "h1", "h2", "h3", "p", "li", "pre"}
     BY <2>1 DEF DbSkippedTags
   <4>3. g = [h EXCEPT !.skip = IF @ = 0 THEN 0 ELSE @ - 1]
     BY <1>1, <1>2, <1>4, <1>9, <2>1, <4>1, <4>2 DEF DbHtmlEnd, DbCaptures
   <4> QED BY <3>1, <4>3
  <3>3. g.skip = n BY <3>2 DEF DbHtmlRow
  <3>4. CASE open = <<>>
   <4>1. dbNest' = [open |-> open, crossed |-> crossed] BY <1>3, <1>9, <3>4 DEF DbClosed
   <4>2. ~crossed => g.skip = Len(open) BY <1>5, <3>1, <3>3, <3>4
   <4> QED BY <1>6, <4>1, <4>2
  <3>5. CASE open # <<>> /\ Last(open) = tag
   <4>1. dbNest' = [open |-> Front(open), crossed |-> crossed] BY <1>3, <1>9, <2>1, <3>5 DEF DbClosed
   <4>2. Front(open) \in Seq(DbSkippedTags) /\ Len(Front(open)) = Len(open) - 1 /\ Len(open) # 0
    <5>1. Len(open) - 1 \in 0..Len(open) /\ Len(open) # 0 BY <3>5
    <5>2. PICK k \in 0..Len(open) : k = Len(open) - 1 BY <5>1
    <5>3. SubSeq(open, 1, k) \in Seq(DbSkippedTags) /\ Len(SubSeq(open, 1, k)) = k
      BY <5>1, <5>2, SubSeqProperties
    <5> QED BY <5>1, <5>2, <5>3 DEF Front
   <4>3. ~crossed => g.skip = Len(Front(open)) BY <1>4, <1>5, <3>1, <3>3, <4>2
   <4> QED BY <1>6, <4>1, <4>2, <4>3
  <3>6. CASE open # <<>> /\ Last(open) # tag
   <4>1. dbNest' = [open |-> open, crossed |-> TRUE] BY <1>3, <1>9, <2>1, <3>6 DEF DbClosed
   <4> QED BY <1>6, <4>1
  <3> QED BY <3>4, <3>5, <3>6
 <2>2. CASE tag \notin DbSkippedTags
  <3>1. \/ g = h \/ g = [h EXCEPT !.title = @ - 1]
        \/ g = [h EXCEPT !.cell = FALSE, !.inCell = <<>>, !.cells = IF h.row THEN @ \o h.inCell ELSE @]
        \/ g = [h EXCEPT !.row = FALSE, !.cells = <<>>]
        \/ g = [h EXCEPT !.capture = DbNone, !.captured = <<>>]
    BY <1>1, <1>2, <1>4, <1>9, <2>2 DEF DbHtmlEnd
  <3>2. g.skip = h.skip BY <3>1 DEF DbHtmlRow
  <3>3. dbNest' = [open |-> open, crossed |-> crossed] BY <1>3, <1>9, <2>2 DEF DbClosed
  <3> QED BY <1>5, <1>6, <3>2, <3>3
 <2> QED BY <2>1, <2>2
<1> QED BY <1>7, <1>8, <1>9 DEF DbHtmlToken

\* A text is skipped, taken or dropped.
LEMMA DbTextClean ==
  ASSUME DbTyped, DbHtmlInv, DbNestInv, dbHtml.parser = "html", DbHtmlText, dbAt' = dbAt + 1,
         UNCHANGED dbSource
  PROVE  DbTyped' /\ DbHtmlInv'
<1>1. PICK h \in DbHtmlRow : h = dbHtml BY DEF DbTyped
<1>2. /\ h.captured \in Seq(Nat) /\ h.cells \in Seq(Nat) /\ h.inCell \in Seq(Nat)
      /\ h.skip \in Nat /\ h.texts \in Nat BY DEF DbHtmlRow
<1>3. PICK n \in Nat : n = h.texts BY <1>2
<1>4. PICK text \in Nat : text = n + 1 OBVIOUS
<1>5. PICK inCell : inCell = IF h.skip = 0 /\ h.cell THEN Append(h.inCell, text) ELSE h.inCell
  OBVIOUS
<1>6. PICK captured : captured = IF h.skip = 0 /\ ~h.cell /\ h.capture # DbNone THEN Append(h.captured, text)
                                 ELSE h.captured OBVIOUS
<1>7. inCell \in Seq(Nat) /\ captured \in Seq(Nat)
 <2>1. Append(h.inCell, text) \in Seq(Nat) /\ Append(h.captured, text) \in Seq(Nat) BY <1>2
 <2> QED BY <1>2, <1>5, <1>6, <2>1
<1>8. PICK g : g = [h EXCEPT !.texts = text, !.inCell = inCell, !.captured = captured] OBVIOUS
<1>9. dbHtml' = g BY <1>1, <1>3, <1>4, <1>5, <1>6, <1>8 DEF DbHtmlText
<1>10. /\ g \in DbHtmlRow /\ g.parser = h.parser /\ g.texts = text
       /\ g.inCell = inCell /\ g.captured = captured /\ g.cells = h.cells
  BY <1>7, <1>8 DEF DbHtmlRow
<1>11. PICK parts \in Seq(Nat) : parts = DbParts
 <2>1. PICK s \in Seq(DbBlockRow) : s = dbBlocks BY DEF DbTyped
 <2>2. DbParts = DbPartsOf(s) /\ DbPartsOf(s) \in Seq(Nat)
   BY <2>1, DbPartsTyped DEF DbParts, DbPartsOf
 <2> QED BY <2>2
<1>12. DbParts' = parts BY <1>11 DEF DbParts, DbHtmlText
<1>13. PICK skipped : skipped = dbSkipped OBVIOUS
<1>14. skipped \subseteq 1..n BY <1>1, <1>3, <1>13 DEF DbTyped
<1>15. dbSkipped' = skipped \/ (dbSkipped' = skipped \cup {n + 1} /\ h.skip > 0)
 <2>1. dbNest.open # <<>> /\ ~dbNest.crossed => h.skip > 0 BY <1>1 DEF DbNestInv
 <2> QED BY <1>1, <1>3, <1>13, <2>1 DEF DbHtmlText
<1>16. DbTyped'
 <2>1. \A i \in 1..n : i \in 1..text BY <1>4
 <2>2. n + 1 \in 1..text BY <1>4
 <2>3. dbSkipped' \subseteq 1..text BY <1>14, <1>15, <2>1, <2>2
 <2>4. UNCHANGED <<dbBlocks, dbHeadings>> BY DEF DbHtmlText
 <2> QED BY <1>1, <1>9, <1>10, <2>3, <2>4 DEF DbTyped
<1>17. PICK q : q = DbPiecesOf(parts, h) OBVIOUS
<1>18. PICK r : r = DbPiecesOf(parts, g) OBVIOUS
<1>19. DbClean(q, skipped, n) BY <1>1, <1>3, <1>11, <1>13, <1>17 DEF DbHtmlInv, DbPieces
<1>20. DbClean(r, dbSkipped', text)
 <2>1. CASE h.skip > 0
  <3>1. inCell = h.inCell /\ captured = h.captured BY <1>5, <1>6, <2>1
  <3>2. DbEmpties(g, h) BY <1>10, <3>1 DEF DbEmpties
  <3>3. DbFewer(r, q) BY <1>10, <1>17, <1>18, <3>2, DbFewerIs
  <3>4. DbClean(r, skipped, n) BY <1>19, <3>3, DbFewerClean
  <3>5. DbClean(r, skipped \cup {n + 1}, n + 1) BY <3>4, DbSkippedClean
  <3>6. DbClean(r, skipped, text) BY <1>4, <3>4 DEF DbClean
  <3> QED BY <1>4, <1>15, <3>5, <3>6
 <2>2. CASE h.skip = 0 /\ (h.cell \/ h.capture # DbNone)
  <3>1. \E x : DbTakes(g, h, x, text)
   <4>1. CASE h.cell
    <5>1. g.inCell = Append(h.inCell, text) /\ g.captured = h.captured /\ g.cells = h.cells
      BY <1>5, <1>6, <1>10, <2>2, <4>1, Zenon
    <5>2. DbTakes(g, h, "inCell", text) BY <5>1, Zenon DEF DbTakes
    <5> QED BY <5>2
   <4>2. CASE ~h.cell
    <5>1. g.captured = Append(h.captured, text) /\ g.inCell = h.inCell /\ g.cells = h.cells
      BY <1>5, <1>6, <1>10, <2>2, <4>2, Zenon
    <5>2. DbTakes(g, h, "captured", text) BY <5>1, Zenon DEF DbTakes
    <5> QED BY <5>2
   <4> QED BY <4>1, <4>2
  <3>2. PICK x : DbTakes(g, h, x, text) BY <3>1
  <3>3. DbAdded(r, q, x, text) BY <1>10, <1>17, <1>18, <3>2, DbTakesIs
  <3>4. DbAdded(r, q, x, n + 1) BY <1>4, <3>3
  <3>5. DbClean(r, skipped, n + 1) BY <1>14, <1>19, <3>4, DbAddedClean
  <3> QED BY <1>4, <1>15, <2>2, <3>5
 <2>3. CASE h.skip = 0 /\ ~(h.cell \/ h.capture # DbNone)
  <3>1. inCell = h.inCell /\ captured = h.captured BY <1>5, <1>6, <2>3
  <3>2. DbEmpties(g, h) BY <1>10, <3>1 DEF DbEmpties
  <3>3. DbFewer(r, q) BY <1>10, <1>17, <1>18, <3>2, DbFewerIs
  <3>4. DbClean(r, skipped, n) BY <1>19, <3>3, DbFewerClean
  <3>5. DbClean(r, skipped, text) BY <1>4, <3>4 DEF DbClean
  <3> QED BY <1>15, <2>3, <3>5
 <2> QED BY <1>2, <2>1, <2>2, <2>3
<1>21. DbHtmlInv' BY <1>9, <1>10, <1>12, <1>18, <1>20 DEF DbHtmlInv, DbPieces
<1> QED BY <1>16, <1>21

\* A token keeps the texts apart.
LEMMA DbHtmlStep ==
  ASSUME DbTyped, DbHtmlInv, DbNestInv, DbHtmlToken
  PROVE  DbTyped' /\ DbHtmlInv' /\ dbHtml'.parser = "html"
<1>1. dbHtml.parser = "html" /\ dbAt' = dbAt + 1 /\ UNCHANGED dbSource BY DEF DbHtmlToken
<1>2. CASE DbHtmlText
 <2>1. DbTyped' /\ DbHtmlInv' BY <1>1, <1>2, DbTextClean
 <2>2. dbHtml'.parser = dbHtml.parser
  <3>1. PICK h \in DbHtmlRow : h = dbHtml BY DEF DbTyped
  <3>2. PICK g : g = dbHtml' OBVIOUS
  <3>3. \E text, inCell, captured : g = [h EXCEPT !.texts = text, !.inCell = inCell, !.captured = captured]
    BY <1>2, <3>1, <3>2 DEF DbHtmlText
  <3>4. g.parser = h.parser BY <3>3 DEF DbHtmlRow
  <3> QED BY <3>1, <3>2, <3>4
 <2> QED BY <1>1, <2>1, <2>2
<1>3. CASE \E tag \in DbTags : (DbHtmlStart(tag) \/ DbHtmlEnd(tag)) /\ UNCHANGED dbSkipped
 <2>1. DbTokenIs BY <1>3, DbStarts, DbEnds
 <2>2. DbTyped' /\ DbHtmlInv' BY <1>1, <2>1, DbTokenClean
 <2> QED BY <1>1, <2>1, <2>2 DEF DbTokenIs, DbKeeps
<1> QED BY <1>2, <1>3 DEF DbHtmlToken

\* What the invariant says.
LEMMA DbHtmlSays == ASSUME DbHtmlInv PROVE DbHtmlIsClean
<1> SUFFICES ASSUME dbHtml.parser = "html" PROVE ToSet(DbParts) \cap dbSkipped = {} /\ IsInjective(DbParts)
  BY DEF DbHtmlIsClean
<1>1. DbClean(DbPieces, dbSkipped, dbHtml.texts) BY DEF DbHtmlInv
<1>2. "parts" \in DbPlaces BY DEF DbPlaces
<1>3. DbPieces["parts"] = DbParts BY <1>2 DEF DbPieces, DbPiecesOf, DbPieceAt
<1> QED BY <1>1, <1>2, <1>3 DEF DbClean

\* Pages without text have no text together.
LEMMA DbNoText ==
  ASSUME dbSource \in Seq({0})
  PROVE  DbPdfText = 0
<1> DEFINE C == {0}
<1>0. PICK s \in Seq(C) : s = dbSource OBVIOUS
<1> DEFINE n == Len(s)
           Rec(h) == [S \in SUBSET (1..n) |->
                        IF S = {} THEN 0 ELSE h[S \ {Max(S)}] + s[Max(S)]]
<1>1. n \in Nat /\ DOMAIN s = 1..n /\ 0 \in C /\ \A i \in 1..n : s[i] = 0 BY <1>0
<1>2. PICK G : G = [p \in C \X (1..n) |-> p[1] + s[p[2]]] OBVIOUS
<1>3. G \in [C \X (1..n) -> C]
 <2>1. ASSUME NEW q \in C, NEW i \in 1..n PROVE q + s[i] \in C BY <1>1
 <2> HIDE DEF C, n
 <2> QED BY <1>2, <2>1
<1>4. PICK g : g = (CHOOSE x : x = Rec(x)) OBVIOUS
<1>5. FoldLeft(LAMBDA sum, page : sum + page, 0, s) = g[1..n]
  BY <1>1, <1>4 DEF FoldLeft, MapThenFoldSet
<1> HIDE DEF C, n
<1>6. PICK h \in [SUBSET (1..n) -> C] : CxFolds(h, n, 0, G) BY <1>1, <1>3, CxFoldExists
<1>7. h = Rec(h)
 <2>1. ASSUME NEW S \in SUBSET (1..n), S # {}
       PROVE  G[<<h[S \ {Max(S)}], Max(S)>>] = h[S \ {Max(S)}] + s[Max(S)]
   BY <1>1, <1>2, <1>6, <2>1, CxMax
 <2> QED BY <1>6, <2>1 DEF CxFolds
<1>8. g = Rec(g) BY <1>4, <1>7
<1>9. CxRecurs(g, n, C, 0, G)
 <2>1. ASSUME NEW k \in 1..n, g[1..(k - 1)] \in C PROVE g[1..k] = G[<<g[1..(k - 1)], k>>]
  <3>1. 1..k \in SUBSET (1..n) /\ k \in Nat /\ k >= 1 BY <1>1
  <3>2. g[1..k] = g[1..(k - 1)] + s[k] BY <1>8, <3>1, CxFoldPrefix
  <3> QED BY <1>2, <2>1, <3>2
 <2>2. g[{}] = 0 BY <1>8
 <2> QED BY <2>1, <2>2 DEF CxRecurs
<1>10. PICK r : CxRuns(r, n, C, 0, G, g[1..n]) BY <1>1, <1>3, <1>9, CxFoldRuns
<1>11. n \in 0..n BY <1>1
<1>12. g[1..n] = 0 BY <1>10, <1>11 DEF CxRuns, C
<1> QED BY <1>0, <1>5, <1>12 DEF DbPdfText

\* PDF: the pages read with text have their blocks, in order.
DbPdfInv ==
  dbHtml.parser = "pdf" =>
    /\ dbAt <= Len(dbSource) /\ DbAscending(DbParts)
    /\ ToSet(DbParts) = {page \in 1..dbAt : dbSource[page] > 0}

\* A page read keeps it.
LEMMA DbPdfStep ==
  ASSUME DbTyped, DbPdfInv, DbPdfPage
  PROVE  DbTyped' /\ DbPdfInv'
<1>1. PICK at \in Nat : at = dbAt BY DEF DbTyped
<1>2. dbSource \in Seq(Nat) /\ at < Len(dbSource) /\ dbHtml.parser = "pdf"
  BY <1>1 DEF DbTyped, DbPdfPage
<1>3. PICK src \in Seq(Nat) : src = dbSource BY <1>2
<1>4. PICK page \in Nat : page = at + 1 OBVIOUS
<1>5. page \in 1..Len(src) /\ src[page] \in Nat BY <1>2, <1>3, <1>4
<1>6. /\ dbAt' = page /\ UNCHANGED <<dbSource, dbHeadings, dbHtml, dbSkipped>>
      /\ dbBlocks' = IF src[page] = 0 THEN dbBlocks
                     ELSE Append(dbBlocks, DbBlock("paragraph", <<page>>, <<page>>))
  BY <1>1, <1>3, <1>4 DEF DbPdfPage
<1>7. \A i \in 1..page : i \in 1..at \/ i = page BY <1>4
<1>8. \A i \in 1..at : i \in 1..page /\ i < page BY <1>4
<1>9. PICK p : p = DbParts OBVIOUS
<1>10. DbAscending(p) /\ ToSet(p) = {i \in 1..at : src[i] > 0}
  BY <1>1, <1>2, <1>3, <1>9 DEF DbPdfInv
<1>11. CASE src[page] = 0
 <2>1. dbBlocks' = dbBlocks BY <1>6, <1>11
 <2>2. DbTyped' BY <1>6, <2>1 DEF DbTyped
 <2>3. DbParts' = p BY <1>9, <2>1 DEF DbParts
 <2>4. ToSet(p) = {i \in 1..page : src[i] > 0}
  <3>1. ~(src[page] > 0) BY <1>11
  <3>2. {i \in 1..at : src[i] > 0} = {i \in 1..page : src[i] > 0} BY <1>7, <1>8, <3>1
  <3> QED BY <1>10, <3>2
 <2> QED BY <1>3, <1>5, <1>6, <1>10, <2>2, <2>3, <2>4 DEF DbPdfInv
<1>12. CASE src[page] # 0
 <2>1. PICK row : row = DbBlock("paragraph", <<page>>, <<page>>) OBVIOUS
 <2>2. PICK q : q = <<page>> OBVIOUS
 <2>3. q \in Seq(Nat) /\ DbAscending(q) /\ ToSet(q) = {page} BY <2>2 DEF DbAscending, ToSet
 <2>4. row \in DbBlockRow /\ row.parts = q
   BY <2>1, <2>2, <2>3 DEF DbBlock, DbBlockRow, DbStoredKinds
 <2>5. dbBlocks' = Append(dbBlocks, row) BY <1>6, <1>12, <2>1
 <2>6. DbGrown(row) BY <2>4, <2>5, DbGrows
 <2>7. p \in Seq(Nat) /\ dbBlocks' \in Seq(DbBlockRow) BY <1>9, <2>6 DEF DbGrown
 <2>8. DbTyped' BY <1>6, <2>7 DEF DbTyped
 <2>9. PICK r : r = p \o q OBVIOUS
 <2>10. DbParts' = r BY <1>9, <2>4, <2>6, <2>9, Zenon DEF DbGrown
 <2>11. \A x \in ToSet(p) : \A y \in ToSet(q) : x < y BY <1>8, <1>10, <2>3
 <2>12. DbAscending(r) BY <1>10, <2>3, <2>7, <2>9, <2>11, DbAscendingJoin
 <2>13. ToSet(r) = ToSet(p) \cup {page}
  <3>1. DbIsJoin(r, p, q) BY <2>3, <2>7, <2>9, DbJoined, Zenon
  <3> QED BY <2>3, <3>1 DEF DbIsJoin
 <2>14. ToSet(r) = {i \in 1..page : src[i] > 0}
  <3>1. page \in 1..page /\ src[page] > 0 BY <1>4, <1>5, <1>12
  <3> QED BY <1>7, <1>8, <1>10, <2>13, <3>1
 <2> QED BY <1>3, <1>5, <1>6, <2>8, <2>10, <2>12, <2>14 DEF DbPdfInv
<1> QED BY <1>11, <1>12

\* What the invariant says.
LEMMA DbPdfSays == ASSUME DbTyped, DbPdfInv PROVE DbPagesInOrder
<1> SUFFICES ASSUME dbHtml.parser = "pdf", dbAt = Len(dbSource), ~DbRequiresOcr
             PROVE  /\ DbPartsInOrder /\ DbParts # <<>>
                    /\ ToSet(DbParts) = {page \in DOMAIN dbSource : dbSource[page] > 0}
  BY DEF DbPagesInOrder
<1>1. dbSource \in Seq(Nat) BY DEF DbTyped
<1>2. DOMAIN dbSource = 1..Len(dbSource) /\ \A page \in 1..Len(dbSource) : dbSource[page] \in Nat
  BY <1>1
<1>3. ToSet(DbParts) = {page \in DOMAIN dbSource : dbSource[page] > 0} BY <1>2 DEF DbPdfInv
<1>4. DbPartsInOrder BY DEF DbPdfInv, DbAscending, DbPartsInOrder
<1>5. ASSUME DbParts = <<>> PROVE FALSE
 <2>1. ToSet(DbParts) = {} BY <1>5, DbEmpty
 <2>2. \A page \in 1..Len(dbSource) : dbSource[page] = 0 BY <1>2, <1>3, <2>1
 <2>3. dbSource \in Seq({0}) BY <1>1, <2>2
 <2>4. DbPdfText = 0 BY <2>3, DbNoText
 <2>5. DbPdfText < DbEnough BY <2>4, DbAssumption
 <2> QED BY <2>5 DEF DbRequiresOcr
<1> QED BY <1>3, <1>4, <1>5

\* The invariant of the parsers: each keeps its own, and the state is typed.
DbInv == DbTyped /\ dbHtml.parser \in DbParsers /\ DbMarkdownInv /\ DbHtmlInv /\ DbPdfInv /\ DbNestInv

\* It holds at first.
LEMMA DbInitOk == ASSUME DbInit PROVE DbInv
<1>1. dbAt = 0 /\ dbBlocks = <<>> /\ dbHeadings = <<>> /\ dbSkipped = {} BY DEF DbInit
<1>2. PICK parser \in DbParsers : dbHtml = DbCollector(parser) BY DEF DbInit, DbParsers
<1>3. PICK h : h = dbHtml OBVIOUS
<1>4. h = [parser |-> parser, skip |-> 0, capture |-> "none", captured |-> <<>>, title |-> 0,
           row |-> FALSE, cells |-> <<>>, cell |-> FALSE, inCell |-> <<>>, texts |-> 0]
  BY <1>2, <1>3 DEF DbCollector, DbNone
<1>5. <<>> \in Seq(Nat) /\ <<>> \in Seq(DbBlockRow) OBVIOUS
<1>6. h \in DbHtmlRow /\ h.parser = parser /\ h.captured = <<>> /\ h.cells = <<>> /\ h.inCell = <<>> /\ h.texts = 0
  BY <1>4, <1>5 DEF DbHtmlRow, DbCaptures
<1>7. parser = "markdown" => dbSource \in Seq(DbLineKinds)
 <2>1. ASSUME parser = "markdown" PROVE dbSource \in UNION {[1..n -> DbLineKinds] : n \in 0..DbMaxLines}
   BY <1>3, <1>6, <2>1 DEF DbInit, DbCollector
 <2> QED BY <2>1
<1>8. parser = "pdf" => dbSource \in Seq(Nat)
 <2>1. ASSUME parser = "pdf" PROVE dbSource \in UNION {[1..n -> 0..DbEnough] : n \in 0..DbMaxPages}
   BY <1>3, <1>6, <2>1 DEF DbInit, DbCollector
 <2>2. \A n \in 0..DbMaxPages : n \in Nat BY DbAssumption
 <2>3. 0..DbEnough \subseteq Nat BY DbAssumption
 <2> QED BY <2>1, <2>2, <2>3
<1>9. DbTyped BY <1>1, <1>3, <1>5, <1>6, <1>7, <1>8 DEF DbTyped
<1>10. DbParts = <<>>
 <2>1. DbPartsOf(dbBlocks) = <<>> BY <1>1, DbPartsNone
 <2> QED BY <2>1 DEF DbParts, DbPartsOf
<1>11. ToSet(DbParts) = {} /\ DbAscending(DbParts) /\ DOMAIN dbBlocks = {}
  BY <1>1, <1>10, DbEmpty DEF DbAscending
<1>12. parser = "markdown" => Len(dbSource) \in Nat BY <1>7
<1>13. parser = "pdf" => Len(dbSource) \in Nat BY <1>8
<1>14. DbHeadingLines = {} BY <1>11 DEF DbHeadingLines
<1>15. DbStands(DbHeadingLines, DbLev, dbHeadings) BY <1>1, <1>14 DEF DbStands
<1>16. DbMarkdownInv BY <1>1, <1>3, <1>6, <1>11, <1>12, <1>15 DEF DbMarkdownInv
<1>17. DbPdfInv BY <1>1, <1>3, <1>6, <1>11, <1>13 DEF DbPdfInv
<1>18. DbHtmlInv
 <2>1. DbPiecesOk(DbPieces, DbParts, h) BY <1>3, <1>5, <1>6, <1>10, DbPiecesAre DEF DbPieces
 <2>2. \A x \in DbPlaces : DbPieces[x] = <<>> BY <1>6, <1>10, <2>1 DEF DbPiecesOk, DbPlaces
 <2>3. DbPieces \in [DbPlaces -> Seq(Nat)] BY <2>1 DEF DbPiecesOk
 <2>4. \A x \in DbPlaces : IsInjective(DbPieces[x]) /\ ToSet(DbPieces[x]) = {} BY <2>2, DbEmpty
 <2> QED BY <2>3, <2>4 DEF DbHtmlInv, DbClean
<1>19. DbNestInv
 <2>1. <<>> \in Seq(DbSkippedTags) OBVIOUS
 <2>2. dbNest = [open |-> <<>>, crossed |-> FALSE] BY DEF DbInit
 <2>3. dbHtml.skip = 0 BY <1>3, <1>4
 <2> QED BY <2>1, <2>2, <2>3 DEF DbNestInv
<1> QED BY <1>3, <1>6, <1>9, <1>16, <1>17, <1>18, <1>19 DEF DbInv

\* Every turn of a parser keeps it.
LEMMA DbNextOk == ASSUME DbInv, [DbNext]_blVars PROVE DbInv'
<1>1. CASE UNCHANGED blVars
 <2>1. UNCHANGED <<dbSource, dbAt, dbBlocks, dbHeadings, dbHtml, dbNest, dbSkipped>> BY <1>1 DEF blVars
 <2>2. DbParts' = DbParts /\ DbHeadingLines' = DbHeadingLines /\ DbLev' = DbLev
   BY <2>1 DEF DbParts, DbHeadingLines, DbLev
 <2>3. DbPieces' = DbPieces BY <2>1, <2>2 DEF DbPieces
 <2>4. DbTyped' /\ (dbHtml.parser \in DbParsers)' BY <2>1 DEF DbInv, DbTyped
 <2>5. DbMarkdownInv' BY <2>1, <2>2 DEF DbInv, DbMarkdownInv
 <2>6. DbHtmlInv' /\ DbPdfInv' BY <2>1, <2>2, <2>3 DEF DbInv, DbHtmlInv, DbPdfInv
 <2>7. DbNestInv' BY <2>1 DEF DbInv, DbNestInv
 <2> QED BY <2>4, <2>5, <2>6, <2>7 DEF DbInv
<1>2. CASE DbMarkdown
 <2>1. dbHtml.parser = "markdown" /\ dbHtml' = dbHtml /\ dbNest' = dbNest BY <1>2 DEF DbMarkdown
 <2>2. DbTyped' /\ DbMarkdownInv' BY <1>2, DbMarkdownStep DEF DbInv
 <2> QED BY <2>1, <2>2 DEF DbInv, DbHtmlInv, DbPdfInv, DbNestInv
<1>3. CASE DbHtmlToken
 <2>1. DbTyped' /\ DbHtmlInv' /\ dbHtml'.parser = "html" /\ DbNestInv'
   BY <1>3, DbHtmlStep, DbNestKeeps DEF DbInv
 <2> QED BY <2>1 DEF DbInv, DbMarkdownInv, DbPdfInv, DbParsers
<1>4. CASE DbPdfPage
 <2>1. dbHtml.parser = "pdf" /\ dbHtml' = dbHtml /\ dbNest' = dbNest BY <1>4 DEF DbPdfPage
 <2>2. DbTyped' /\ DbPdfInv' BY <1>4, DbPdfStep DEF DbInv
 <2> QED BY <2>1, <2>2 DEF DbInv, DbHtmlInv, DbMarkdownInv, DbNestInv
<1> QED BY <1>1, <1>2, <1>3, <1>4 DEF DbNext

\* It says what the properties do.
LEMMA DbSays == ASSUME DbInv PROVE DbBlocksHold /\ DbTypeOK
<1>1. DbBlocksHold BY DbMarkdownSays, DbHtmlSays, DbPdfSays DEF DbInv, DbBlocksHold
<1>2. ASSUME NEW b \in DOMAIN dbBlocks PROVE dbBlocks[b].kind \in DbStoredKinds
 <2>1. PICK s \in Seq(DbBlockRow) : s = dbBlocks BY DEF DbInv, DbTyped
 <2>2. s[b] \in DbBlockRow BY <2>1
 <2> QED BY <2>1, <2>2 DEF DbBlockRow
<1>3. DbTypeOK BY <1>2 DEF DbInv, DbTyped, DbTypeOK
<1> QED BY <1>1, <1>3

\* The lines of Markdown and the pages of a PDF are each in one block, in order
\* and under the headings in force; no text of HTML is in two places, nor in
\* any while skipped elements end in order; and what a parser makes can be read
\* back from the store.
THEOREM BlocksHold == DbSpec => [](DbBlocksHold /\ DbTypeOK)
<1>1. DbInit => DbInv BY DbInitOk
<1>2. DbInv /\ [DbNext]_blVars => DbInv' BY DbNextOk
<1>3. DbInv => DbBlocksHold /\ DbTypeOK BY DbSays
<1> QED BY <1>1, <1>2, <1>3, PTL DEF DbSpec

--------------------
(* Knowledge views: the index. *)

KvTextSet ==
  {t \in [source : Nat, original : BOOLEAN, names : SUBSET Nat, links : SUBSET Nat,
          words : SUBSET Nat, blocks : Seq([heading : BOOLEAN, tokens : Nat])] :
     IsFiniteSet(t.links)}
KvRevSet == [page : KvPages, text : KvTextSet]

\* What maps pages to revisions maps them to revisions of their own.
KvOwns(pages, revs) ==
  /\ pages \in [KvPages -> 0..Len(revs)]
  /\ \A p \in KvPages : pages[p] # 0 => revs[pages[p]].page = p

\* The index is of the revisions there are.
KvIndexFits(index, revs) ==
  /\ index \in [chunks : SUBSET (1..Len(revs)), active : SUBSET (1..Len(revs)),
                indexed : SUBSET (1..Len(revs))]
  /\ index.active \subseteq index.chunks /\ index.indexed \subseteq index.chunks

\* Only current revisions are active.
KvFresh(active, pages, revs) == \A r \in active : pages[revs[r].page] = r

KvCountSet == [faults : 0..KvMaxFaults, requests : Nat]

KvBase ==
  /\ kvRevs \in Seq(KvRevSet) /\ Len(kvRevs) <= KvMaxRevs
  /\ KvOwns(kvPages, kvRevs)
  /\ KvIndexFits(KvIndex, kvRevs)
  /\ kvCount \in KvCountSet
  /\ kvCount.faults = 0 => KvFresh(kvActive, kvPages, kvRevs)

\* One revision made again: the index still fits, and if it was fresh but for
\* the page of that revision it is fresh, unless the indexing failed.
LEMMA KvSyncKept ==
  ASSUME NEW revs, revs = kvRevs', revs \in Seq(KvRevSet), NEW pages, KvOwns(pages, revs),
         NEW index, KvIndexFits(index, revs), NEW r \in 1..Len(revs), NEW ok \in BOOLEAN
  PROVE  /\ KvIndexFits(KvSyncSafely(index, r, pages, ok), revs)
         /\ KvFresh(index.active, pages, revs) =>
              KvFresh(KvSyncSafely(index, r, pages, ok).active, pages, revs)
         /\ ok /\ pages[revs[r].page] = r /\ KvFresh(index.active \ {q \in 1..Len(revs) : revs[q].page = revs[r].page}, pages, revs) =>
              KvFresh(KvSyncSafely(index, r, pages, ok).active, pages, revs)
<1> DEFINE n == Len(revs)
<1>0. PICK new : new = KvSyncSafely(index, r, pages, ok) OBVIOUS
<1>1. n \in Nat /\ DOMAIN revs = 1..n OBVIOUS
<1>2. /\ index.chunks \in SUBSET (1..n) /\ index.active \in SUBSET (1..n)
      /\ index.indexed \in SUBSET (1..n)
      /\ index = [chunks |-> index.chunks, active |-> index.active, indexed |-> index.indexed]
      /\ index.active \subseteq index.chunks /\ index.indexed \subseteq index.chunks
  BY DEF KvIndexFits
<1>3. CASE ~ok
 <2>1. new = [index EXCEPT !.indexed = @ \ {r}] BY <1>0, <1>3 DEF KvSyncSafely, KvIndexFailed
 <2>2. /\ new = [chunks |-> index.chunks, active |-> index.active, indexed |-> index.indexed \ {r}]
       /\ new.active = index.active BY <1>2, <2>1
 <2> QED BY <1>0, <1>2, <1>3, <2>2 DEF KvIndexFits
<1>4. CASE ok /\ pages[revs[r].page] = r
 <2>1. PICK same : same = {q \in 1..n : revs[q].page = revs[r].page} OBVIOUS
 <2>2. new = KvInserted([index EXCEPT !.active = @ \ same, !.indexed = @ \cup {r}], r, TRUE)
   BY <1>0, <1>1, <1>4, <2>1 DEF KvSyncSafely, KvSyncRevision
 <2>3. new = [chunks |-> index.chunks \cup {r}, active |-> (index.active \ same) \cup {r},
              indexed |-> index.indexed \cup {r}] BY <1>2, <2>2 DEF KvInserted
 <2>4. KvIndexFits(new, revs) BY <1>2, <2>3 DEF KvIndexFits
 <2>5. KvFresh(index.active \ same, pages, revs) => KvFresh(new.active, pages, revs)
   BY <1>4, <2>3 DEF KvFresh
 <2>6. KvFresh(index.active, pages, revs) => KvFresh(index.active \ same, pages, revs)
   BY DEF KvFresh
 <2> QED BY <1>0, <1>1, <1>4, <2>1, <2>4, <2>5, <2>6
<1>5. CASE ok /\ pages[revs[r].page] # r
 <2>1. new = KvInserted([index EXCEPT !.active = @ \ {}, !.indexed = @ \cup {r}], r, FALSE)
   BY <1>0, <1>1, <1>5 DEF KvSyncSafely, KvSyncRevision
 <2>a. index.active \ {} = index.active OBVIOUS
 <2>2. new = [chunks |-> index.chunks \cup {r}, active |-> index.active \ {r},
              indexed |-> index.indexed \cup {r}] BY <1>2, <2>1, <2>a DEF KvInserted
 <2>3. KvIndexFits(new, revs) BY <1>2, <2>2 DEF KvIndexFits
 <2>4. KvFresh(index.active, pages, revs) => KvFresh(new.active, pages, revs) BY <2>2 DEF KvFresh
 <2> QED BY <1>0, <1>5, <2>3, <2>4
<1> QED BY <1>0, <1>3, <1>4, <1>5

\* The revisions of a set, listed by age, are its revisions.
LEMMA KvByAgeTyped ==
  ASSUME NEW S \in SUBSET Nat, IsFiniteSet(S)
  PROVE  KvByAge(S) \in Seq(S)
<1>1. \E q \in [1..Cardinality(S) -> S] : \A i, j \in DOMAIN q : i < j => q[i] < q[j]
  BY CxSortedExists DEF CxIncreasing
<1>2. KvByAge(S) \in [1..Cardinality(S) -> S] BY <1>1 DEF KvByAge
<1> QED BY <1>2, FS_CardinalityType

\* Indexes a backfill may leave: they fit, and are fresh if they were to be.
KvIndexes(fresh, pages, revs) ==
  {index \in [chunks : SUBSET (1..Len(revs)), active : SUBSET (1..Len(revs)),
              indexed : SUBSET (1..Len(revs))] :
     KvIndexFits(index, revs) /\ (fresh => KvFresh(index.active, pages, revs))}

\* A backfill leaves an index that fits, and is fresh if it began with one.
LEMMA KvBackfillKept ==
  ASSUME kvRevs' = kvRevs, kvRevs \in Seq(KvRevSet), KvOwns(kvPages, kvRevs),
         NEW fresh \in BOOLEAN, NEW b \in KvIndexes(fresh, kvPages, kvRevs),
         NEW todo \in SUBSET (1..Len(kvRevs)), NEW failed
  PROVE  KvBackfilled(b, todo, failed) \in KvIndexes(fresh, kvPages, kvRevs)
<1> DEFINE s == KvByAge(todo)
           n == Len(s)
           C == KvIndexes(fresh, kvPages, kvRevs)
           Rec(h) == [S \in SUBSET (1..n) |->
                        IF S = {} THEN b
                        ELSE KvSyncSafely(h[S \ {Max(S)}], s[Max(S)], kvPages, s[Max(S)] \notin failed)]
<1>0. s \in Seq(todo)
 <2>1. IsFiniteSet(1..Len(kvRevs)) /\ todo \in SUBSET Nat BY FS_Interval
 <2>2. IsFiniteSet(todo) BY <2>1, FS_Subset
 <2> QED BY <2>1, <2>2, KvByAgeTyped
<1>1. n \in Nat /\ DOMAIN s = 1..n /\ b \in C /\ \A i \in 1..n : s[i] \in 1..Len(kvRevs)
 <2>1. PICK q \in Seq(todo) : q = s BY <1>0
 <2>2. Len(q) \in Nat /\ DOMAIN q = 1..Len(q) /\ \A i \in 1..Len(q) : q[i] \in todo OBVIOUS
 <2> QED BY <2>1, <2>2
<1>2. PICK G : G = [p \in C \X (1..n) |->
                      KvSyncSafely(p[1], s[p[2]], kvPages, s[p[2]] \notin failed)] OBVIOUS
<1>3. G \in [C \X (1..n) -> C]
 <2>1. ASSUME NEW q \in C, NEW i \in 1..n
       PROVE  KvSyncSafely(q, s[i], kvPages, s[i] \notin failed) \in C
  <3>1. PICK ok \in BOOLEAN, r \in 1..Len(kvRevs) : ok = (s[i] \notin failed) /\ r = s[i] BY <1>1
  <3>2. KvIndexFits(q, kvRevs) /\ (fresh => KvFresh(q.active, kvPages, kvRevs)) BY DEF KvIndexes
  <3>3. KvIndexFits(KvSyncSafely(q, r, kvPages, ok), kvRevs)
        /\ (fresh => KvFresh(KvSyncSafely(q, r, kvPages, ok).active, kvPages, kvRevs))
    BY <3>2, KvSyncKept
  <3> QED BY <3>1, <3>3 DEF KvIndexes, KvIndexFits
 <2> HIDE DEF C, n
 <2> QED BY <1>2, <2>1
<1>4. PICK g : g = (CHOOSE x : x = Rec(x)) OBVIOUS
<1>5. KvBackfilled(b, todo, failed) = g[1..n]
  BY <1>1, <1>4 DEF KvBackfilled, FoldLeft, MapThenFoldSet
<1> HIDE DEF C, n, s
<1>6. PICK h \in [SUBSET (1..n) -> C] : CxFolds(h, n, b, G) BY <1>1, <1>3, CxFoldExists
<1>7. h = Rec(h)
 <2>1. ASSUME NEW S \in SUBSET (1..n), S # {}
       PROVE  G[<<h[S \ {Max(S)}], Max(S)>>] =
                KvSyncSafely(h[S \ {Max(S)}], s[Max(S)], kvPages, s[Max(S)] \notin failed)
   BY <1>1, <1>2, <1>6, <2>1, CxMax
 <2> QED BY <1>6, <2>1 DEF CxFolds
<1>8. g = Rec(g) BY <1>4, <1>7
<1>9. CxRecurs(g, n, C, b, G)
 <2>1. ASSUME NEW k \in 1..n, g[1..(k - 1)] \in C PROVE g[1..k] = G[<<g[1..(k - 1)], k>>]
  <3>1. 1..k \in SUBSET (1..n) /\ k \in Nat /\ k >= 1 BY <1>1
  <3>2. g[1..k] = KvSyncSafely(g[1..(k - 1)], s[k], kvPages, s[k] \notin failed)
    BY <1>8, <3>1, CxFoldPrefix
  <3> QED BY <1>2, <2>1, <3>2
 <2>2. g[{}] = b BY <1>8
 <2> QED BY <2>1, <2>2 DEF CxRecurs
<1>10. PICK r : CxRuns(r, n, C, b, G, g[1..n]) BY <1>1, <1>3, <1>9, CxFoldRuns
<1>11. n \in 0..n BY <1>1
<1> QED BY <1>5, <1>10, <1>11 DEF CxRuns, C

\* Faults are counted up to their bound, and stay counted.
LEMMA KvCounts ==
  ASSUME kvCount \in KvCountSet, NEW fault \in BOOLEAN, KvUnlessFault(fault) \/ KvRequest(fault)
  PROVE  kvCount' \in KvCountSet /\ (kvCount'.faults = 0 => kvCount.faults = 0 /\ ~fault)
<1>1. PICK k \in 0..KvMaxFaults, m \in Nat : kvCount = [faults |-> k, requests |-> m]
  BY DEF KvCountSet
<1>2. PICK n \in Nat : kvCount' = [faults |-> IF fault THEN k + 1 ELSE k, requests |-> n]
                      /\ (fault => k < KvMaxFaults) BY <1>1 DEF KvUnlessFault, KvRequest
<1> QED BY <1>1, <1>2, KvAssumption DEF KvCountSet

\* A page gets a revision: the rest of the tables is as it was, and the index
\* fits, fresh if it was and the revision was indexed.
LEMMA KvRecordKept ==
  ASSUME KvBase, NEW page \in KvPages, NEW text \in KvTextSet,
         NEW ok \in BOOLEAN, KvRecord(page, text, ok)
  PROVE  KvBase'
<1> DEFINE r == Len(kvRevs) + 1
           n == Len(kvRevs)
<1>1. /\ n \in Nat /\ r \in 1..KvMaxRevs /\ Len(kvRevs') = r
      /\ kvRevs' = Append(kvRevs, [page |-> page, text |-> text]) /\ kvRevs' \in Seq(KvRevSet)
      /\ \A q \in 1..n : kvRevs'[q] = kvRevs[q]
      /\ kvRevs'[r].page = page BY KvAssumption DEF KvRecord, KvBase, KvRevSet
<1>2. kvPages' = [kvPages EXCEPT ![page] = r] /\ kvPages \in [KvPages -> 0..n]
  BY DEF KvRecord, KvBase, KvOwns
<1>3. KvOwns(kvPages', kvRevs')
 <2>1. kvPages' \in [KvPages -> 0..r] BY <1>1, <1>2
 <2>2. ASSUME NEW p \in KvPages, kvPages'[p] # 0 PROVE kvRevs'[kvPages'[p]].page = p
  <3>1. CASE p = page BY <1>1, <1>2, <3>1
  <3>2. CASE p # page
   <4>1. kvPages'[p] = kvPages[p] /\ kvPages[p] \in 1..n BY <1>2, <2>2, <3>2
   <4> QED BY <1>1, <4>1 DEF KvBase, KvOwns
  <3> QED BY <3>1, <3>2
 <2> QED BY <1>1, <2>1, <2>2 DEF KvOwns
<1>4. KvIndexFits(KvIndex, kvRevs') BY <1>1 DEF KvBase, KvIndexFits
<1>5. PICK index : index = KvSyncSafely(KvIndex, r, kvPages', ok) OBVIOUS
<1>6. kvChunks' = index.chunks /\ kvActive' = index.active /\ kvIndexed' = index.indexed
  BY <1>5 DEF KvRecord, KvIndexBecomes
<1>7. r \in 1..Len(kvRevs') BY <1>1
<1>8. KvIndexFits(index, kvRevs') BY <1>1, <1>3, <1>4, <1>5, <1>7, KvSyncKept
<1>9. KvIndexFits(KvIndex, kvRevs)'
 <2>1. index = KvIndex' BY <1>6, <1>8 DEF KvIndex, KvIndexFits
 <2> QED BY <1>8, <2>1
<1>10. kvCount' \in KvCountSet /\ (kvCount'.faults = 0 => kvCount.faults = 0 /\ ok)
  BY KvCounts DEF KvRecord, KvBase
<1>11. ASSUME kvCount'.faults = 0 PROVE KvFresh(kvActive', kvPages', kvRevs')
 <2>1. PICK same : same = {q \in 1..Len(kvRevs') : kvRevs'[q].page = kvRevs'[r].page} OBVIOUS
 <2>2. KvFresh(kvActive, kvPages, kvRevs) /\ ok BY <1>10, <1>11 DEF KvBase
 <2>3. ASSUME NEW q \in kvActive \ same PROVE kvPages'[kvRevs'[q].page] = q
  <3>1. q \in 1..n /\ kvRevs'[q] = kvRevs[q] /\ kvRevs[q].page \in KvPages
   <4>1. q \in 1..n BY <2>3 DEF KvBase, KvIndexFits, KvIndex
   <4>2. kvRevs[q] \in KvRevSet BY <4>1 DEF KvBase
   <4> QED BY <1>1, <4>1, <4>2 DEF KvRevSet
  <3>2. kvRevs[q].page # page BY <1>1, <2>1, <2>3, <3>1
  <3> QED BY <1>2, <2>2, <2>3, <3>1, <3>2 DEF KvFresh
 <2>4. KvFresh(KvIndex.active \ same, kvPages', kvRevs') BY <2>3 DEF KvFresh, KvIndex
 <2>5. kvPages'[kvRevs'[r].page] = r BY <1>1, <1>2
 <2>6. KvFresh(KvSyncSafely(KvIndex, r, kvPages', ok).active, kvPages', kvRevs')
   BY <1>1, <1>3, <1>4, <1>7, <2>1, <2>2, <2>4, <2>5, KvSyncKept
 <2> QED BY <1>5, <1>6, <2>6
<1>12. Len(kvRevs') <= KvMaxRevs BY <1>1
<1> QED BY <1>1, <1>3, <1>9, <1>10, <1>11, <1>12 DEF KvBase

--------------------
(* Knowledge views: retrieval and learnings. *)

KvCited(revs) ==
  {c \in Nat \X Nat : c[1] \in DOMAIN revs /\ c[2] \in {0} \cup DOMAIN revs[c[1]].text.blocks}

\* The sequence is how the other one begins.
KvHeads(items, hits) ==
  Len(items) <= Len(hits) /\ \A i \in 1..Len(items) : items[i] = hits[i]

\* Bundles under way: full ones are not empty, the others have every hit.
KvBundles(revs) ==
  {b \in [items : Seq(KvCited(revs)), used : 0..KvBudget, full : BOOLEAN,
          hits : Seq(KvCited(revs))] :
     /\ KvHeads(b.items, b.hits)
     /\ ~b.full => b.items = b.hits
     /\ b.items = <<>> => b.used = 0 /\ ~b.full}

KvServes ==
  /\ kvQuery.sparse \in Seq(KvCited(kvRevs)) /\ kvQuery.hits \in Seq(KvCited(kvRevs))
  /\ kvAnswer \in KvBundles(kvRevs)
  /\ \A l \in kvLearnings : l = [cites |-> l.cites, base |-> l.base, status |-> l.status,
                                 current |-> l.current]
  /\ KvDepositsCurrent

\* A revision that comes in adds to what may be cited.
LEMMA KvCitedGrows ==
  ASSUME NEW revs \in Seq(KvRevSet), NEW rev \in KvRevSet
  PROVE  KvCited(revs) \subseteq KvCited(Append(revs, rev))
<1>1. /\ Len(revs) \in Nat /\ DOMAIN revs = 1..Len(revs)
      /\ DOMAIN Append(revs, rev) = 1..(Len(revs) + 1)
      /\ \A r \in 1..Len(revs) : Append(revs, rev)[r] = revs[r] OBVIOUS
<1> QED BY <1>1 DEF KvCited

\* So it does to the bundles.
LEMMA KvBundlesGrow ==
  ASSUME NEW revs, NEW more, KvCited(revs) \subseteq KvCited(more)
  PROVE  KvBundles(revs) \subseteq KvBundles(more)
<1>1. Seq(KvCited(revs)) \subseteq Seq(KvCited(more)) OBVIOUS
<1> QED BY <1>1 DEF KvBundles

\* The chunks of the revisions there are may be cited, and are finitely many.
LEMMA KvChunksTyped ==
  ASSUME kvRevs \in Seq(KvRevSet), NEW r \in 1..Len(kvRevs)
  PROVE  /\ KvChunksOf(r) \subseteq KvCited(kvRevs)
         /\ \A c \in KvChunksOf(r) : c[1] = r
         /\ KvChunksOf(r) # {} /\ IsFiniteSet(KvChunksOf(r))
<1>1. PICK blocks \in Seq([heading : BOOLEAN, tokens : Nat]) : blocks = kvRevs[r].text.blocks
 <2>1. kvRevs[r] \in KvRevSet OBVIOUS
 <2> QED BY <2>1 DEF KvRevSet, KvTextSet
<1>2. Len(blocks) \in Nat /\ DOMAIN blocks = 1..Len(blocks) OBVIOUS
<1>3. PICK places : places = IF KvBodies(r) = {} THEN {0} ELSE KvBodies(r) OBVIOUS
<1>4. KvBodies(r) \subseteq 1..Len(blocks) BY <1>1, <1>2 DEF KvBodies
<1>5. places \subseteq 0..Len(blocks) /\ places \subseteq {0} \cup DOMAIN blocks /\ places # {}
  BY <1>2, <1>3, <1>4
<1>6. KvChunksOf(r) = {<<r, n>> : n \in places} BY <1>3 DEF KvChunksOf
<1>7. KvChunksOf(r) \subseteq {r} \X (0..Len(blocks)) BY <1>5, <1>6
<1>8. IsFiniteSet({r} \X (0..Len(blocks)))
 <2>1. IsFiniteSet({r}) BY FS_Singleton
 <2>2. IsFiniteSet(0..Len(blocks)) BY <1>2, FS_Interval
 <2> QED BY <2>1, <2>2, FS_Product
<1>9. IsFiniteSet(KvChunksOf(r)) BY <1>7, <1>8, FS_Subset
<1>10. KvChunksOf(r) \subseteq KvCited(kvRevs)
 <2>1. ASSUME NEW n \in places PROVE <<r, n>> \in KvCited(kvRevs) BY <1>1, <1>2, <1>5 DEF KvCited
 <2> QED BY <1>6, <2>1
<1>11. PICK n \in places : TRUE BY <1>5
<1>12. <<r, n>> \in KvChunksOf(r) /\ \A c \in KvChunksOf(r) : c[1] = r BY <1>6
<1> QED BY <1>9, <1>10, <1>12

\* What may be found is finitely many chunks, of revisions there are.
LEMMA KvSearchableTyped ==
  ASSUME kvRevs \in Seq(KvRevSet), kvChunks \subseteq 1..Len(kvRevs), NEW sources, NEW revisions,
         NEW found \in SUBSET KvSearchable(sources, revisions)
  PROVE  found \subseteq KvCited(kvRevs) /\ IsFiniteSet(found)
<1>1. PICK R : R = {q \in kvChunks : /\ sources # {} => kvRevs[q].text.source \in sources
                                     /\ IF revisions = {} THEN q \in kvActive ELSE q \in revisions}
  OBVIOUS
<1>2. R \subseteq 1..Len(kvRevs) /\ Len(kvRevs) \in Nat
 <2>1. R \subseteq kvChunks BY <1>1
 <2> QED BY <2>1
<1>3. IsFiniteSet(R)
 <2>1. IsFiniteSet(1..Len(kvRevs)) BY <1>2, FS_Interval
 <2> QED BY <1>2, <2>1, FS_Subset
<1>4. PICK F : F = [r \in R |-> KvChunksOf(r)] OBVIOUS
<1>5. PICK T : T = {KvChunksOf(r) : r \in R} OBVIOUS
<1>6. F \in Surjection(R, T) BY <1>4, <1>5 DEF Surjection
<1>7. IsFiniteSet(T) BY <1>3, <1>6, FS_Surjection
<1>8. \A C \in T : C \subseteq KvCited(kvRevs) /\ IsFiniteSet(C) BY <1>2, <1>5, KvChunksTyped
<1>9. IsFiniteSet(UNION T) /\ UNION T \subseteq KvCited(kvRevs) BY <1>7, <1>8, FS_UNION
<1>10. KvSearchable(sources, revisions) = UNION T BY <1>1, <1>5 DEF KvSearchable
<1>11. found \in SUBSET (UNION T) BY <1>10
<1> QED BY <1>9, <1>11, FS_Subset

\* A chunk takes a natural number of tokens.
LEMMA KvTokensTyped ==
  ASSUME kvRevs \in Seq(KvRevSet), NEW c \in KvCited(kvRevs)
  PROVE  KvTokens(c) \in Nat
<1>1. c[1] \in 1..Len(kvRevs) /\ (c[2] # 0 => c[2] \in DOMAIN kvRevs[c[1]].text.blocks)
  BY DEF KvCited
<1>2. CASE c[2] = 0 BY <1>2 DEF KvTokens
<1>3. CASE c[2] # 0
 <2>1. PICK blocks \in Seq([heading : BOOLEAN, tokens : Nat]) : blocks = kvRevs[c[1]].text.blocks
  <3>1. kvRevs[c[1]] \in KvRevSet BY <1>1
  <3> QED BY <3>1 DEF KvRevSet, KvTextSet
 <2>2. PICK k \in Nat : k = kvRevs[c[1]].text.blocks[c[2]].tokens
  <3>1. blocks[c[2]] \in [heading : BOOLEAN, tokens : Nat]
   <4>1. PICK B : B = [heading : BOOLEAN, tokens : Nat] OBVIOUS
   <4>2. c[2] \in DOMAIN blocks /\ blocks \in Seq(B) BY <1>1, <1>3, <2>1, <4>1
   <4>3. PICK i \in 1..Len(blocks) : i = c[2] BY <4>2
   <4>4. blocks[i] \in B BY <4>2, <4>3
   <4> QED BY <4>1, <4>3, <4>4
  <3> QED BY <2>1, <3>1
 <2>3. \E x \in {1, k} : \A y \in {1, k} : x >= y OBVIOUS
 <2>4. Max({1, k}) \in {1, k} BY <2>3 DEF Max
 <2> QED BY <1>3, <2>2, <2>4 DEF KvTokens
<1> QED BY <1>2, <1>3

\* One more hit, taken or not.
LEMMA KvHitKept ==
  ASSUME kvRevs \in Seq(KvRevSet), NEW b \in KvBundles(kvRevs),
         NEW c \in KvCited(kvRevs)
  PROVE  KvHit(b, c) \in KvBundles(kvRevs)
<1>0. PICK D : D = KvCited(kvRevs) OBVIOUS
<1>1. KvBudget \in Nat \ {0} /\ c \in D BY <1>0, KvAssumption
<1>2. PICK tokens \in Nat : tokens = KvTokens(c) BY KvTokensTyped
<1>3. PICK items \in Seq(D), used \in 0..KvBudget, full \in BOOLEAN, hits \in Seq(D) :
         /\ b = [items |-> items, used |-> used, full |-> full, hits |-> hits]
         /\ KvHeads(items, hits) /\ (~full => items = hits)
         /\ items = <<>> => used = 0 /\ ~full BY <1>0 DEF KvBundles
<1>4. PICK m : m = Append(hits, c) OBVIOUS
<1>5. PICK t : t = Append(items, c) OBVIOUS
<1>a. m \in Seq(D) /\ t \in Seq(D) BY <1>1, <1>3, <1>4, <1>5
<1>6. KvHeads(items, m) /\ KvHeads(t, t) /\ (items = hits => t = m) /\ t # <<>>
 <2>1. /\ Len(m) = Len(hits) + 1 /\ \A i \in 1..Len(hits) : m[i] = hits[i]
       /\ Len(t) = Len(items) + 1 /\ Len(items) \in Nat /\ Len(hits) \in Nat BY <1>3, <1>4, <1>5
 <2>2. Len(t) \in Nat /\ Len(t) # 0 BY <2>1
 <2>3. t # <<>> BY <2>2
 <2>4. KvHeads(t, t) BY <2>2 DEF KvHeads
 <2>5. KvHeads(items, m) BY <1>3, <2>1 DEF KvHeads
 <2> QED BY <1>4, <1>5, <2>3, <2>4, <2>5
<1>7. \A i, h \in Seq(D), u \in 0..KvBudget, f \in BOOLEAN :
         KvHeads(i, h) /\ (~f => i = h) /\ (i = <<>> => u = 0 /\ ~f)
         => [items |-> i, used |-> u, full |-> f, hits |-> h] \in KvBundles(kvRevs)
  BY <1>0 DEF KvBundles
<1>8. PICK a : a = [items |-> items, used |-> used, full |-> full, hits |-> m] OBVIOUS
<1>9. CASE c[1] \notin kvChunks BY <1>9 DEF KvHit
<1>10. CASE c[1] \in kvChunks
 <2>1. KvHit(b, c) = KvTake(a, c)
  <3>1. b.hits = hits BY <1>3
  <3>2. [b EXCEPT !.hits = m] = a BY <1>3, <1>8
  <3>3. [b EXCEPT !.hits = Append(@, c)] = a BY <1>4, <3>1, <3>2
  <3> QED BY <1>10, <3>3 DEF KvHit
 <2>a. a.items = items /\ a.used = used /\ a.full = full BY <1>8
 <2>2. CASE full \/ used = KvBudget
  <3>1. KvTake(a, c) = [a EXCEPT !.full = TRUE] BY <1>1, <1>3, <2>2, <2>a DEF KvTake
  <3>2. KvTake(a, c) = [items |-> items, used |-> used, full |-> TRUE, hits |-> m] BY <1>8, <3>1
  <3>3. items # <<>> BY <1>1, <1>3, <2>2
  <3> QED BY <1>3, <1>6, <1>7, <1>a, <2>1, <3>2, <3>3
 <2>3. CASE ~full /\ used # KvBudget /\ tokens <= KvBudget - used
  <3>1. KvTake(a, c) = [a EXCEPT !.items = t, !.used = used + tokens]
    BY <1>1, <1>2, <1>3, <1>5, <2>3, <2>a DEF KvTake
  <3>2. KvTake(a, c) = [items |-> t, used |-> used + tokens, full |-> FALSE, hits |-> m]
    BY <1>8, <2>3, <3>1
  <3>3. used + tokens \in 0..KvBudget BY <1>1, <1>3, <2>3
  <3>4. items = hits /\ t = m BY <1>3, <1>4, <1>5, <2>3
  <3> QED BY <1>6, <1>7, <1>a, <2>1, <3>2, <3>3, <3>4
 <2>4. CASE ~full /\ used # KvBudget /\ ~(tokens <= KvBudget - used) /\ items # <<>>
  <3>1. KvTake(a, c) = [a EXCEPT !.full = TRUE] BY <1>1, <1>2, <1>3, <2>4, <2>a DEF KvTake
  <3>2. KvTake(a, c) = [items |-> items, used |-> used, full |-> TRUE, hits |-> m] BY <1>8, <3>1
  <3> QED BY <1>3, <1>6, <1>7, <1>a, <2>1, <2>4, <3>2
 <2>5. CASE ~full /\ used # KvBudget /\ ~(tokens <= KvBudget - used) /\ items = <<>>
  <3>1. KvTake(a, c) = [a EXCEPT !.items = <<c>>, !.used = KvBudget, !.full = TRUE]
    BY <1>1, <1>2, <1>3, <2>5, <2>a DEF KvTake
  <3>2. KvTake(a, c) = [items |-> <<c>>, used |-> KvBudget, full |-> TRUE, hits |-> m] BY <1>8, <3>1
  <3>3. t = <<c>> /\ t = m /\ KvBudget \in 0..KvBudget BY <1>1, <1>3, <1>4, <1>5, <2>5
  <3> QED BY <1>6, <1>7, <1>a, <2>1, <3>2, <3>3
 <2> QED BY <2>2, <2>3, <2>4, <2>5
<1> QED BY <1>9, <1>10

\* What is assembled of hits that may be cited is a bundle.
LEMMA KvBundleTyped ==
  ASSUME kvRevs \in Seq(KvRevSet), NEW s \in Seq(KvCited(kvRevs))
  PROVE  KvBundle(s) \in KvBundles(kvRevs)
<1> DEFINE n == Len(s)
           C == KvBundles(kvRevs)
           b == KvNoBundle
           Rec(h) == [S \in SUBSET (1..n) |->
                        IF S = {} THEN b ELSE KvHit(h[S \ {Max(S)}], s[Max(S)])]
<1>1. n \in Nat /\ DOMAIN s = 1..n /\ \A i \in 1..n : s[i] \in KvCited(kvRevs) OBVIOUS
<1>b. b \in C
 <2>1. KvNoBundle \in [items : Seq(KvCited(kvRevs)), used : 0..KvBudget, full : BOOLEAN,
                       hits : Seq(KvCited(kvRevs))] BY KvAssumption DEF KvNoBundle
 <2> QED BY <2>1 DEF KvNoBundle, KvBundles, KvHeads
<1>2. PICK G : G = [p \in C \X (1..n) |-> KvHit(p[1], s[p[2]])] OBVIOUS
<1>3. G \in [C \X (1..n) -> C]
 <2>1. ASSUME NEW q \in C, NEW i \in 1..n PROVE KvHit(q, s[i]) \in C BY <1>1, KvHitKept
 <2> HIDE DEF C, n
 <2> QED BY <1>2, <2>1
<1>4. PICK g : g = (CHOOSE x : x = Rec(x)) OBVIOUS
<1>5. KvBundle(s) = g[1..n] BY <1>1, <1>4 DEF KvBundle, FoldLeft, MapThenFoldSet
<1> HIDE DEF C, n, b
<1>6. PICK h \in [SUBSET (1..n) -> C] : CxFolds(h, n, b, G) BY <1>1, <1>b, <1>3, CxFoldExists
<1>7. h = Rec(h)
 <2>1. ASSUME NEW S \in SUBSET (1..n), S # {}
       PROVE  G[<<h[S \ {Max(S)}], Max(S)>>] = KvHit(h[S \ {Max(S)}], s[Max(S)])
   BY <1>1, <1>2, <1>6, <2>1, CxMax
 <2> QED BY <1>6, <2>1 DEF CxFolds
<1>8. g = Rec(g) BY <1>4, <1>7
<1>9. CxRecurs(g, n, C, b, G)
 <2>1. ASSUME NEW k \in 1..n, g[1..(k - 1)] \in C PROVE g[1..k] = G[<<g[1..(k - 1)], k>>]
  <3>1. 1..k \in SUBSET (1..n) /\ k \in Nat /\ k >= 1 BY <1>1
  <3>2. g[1..k] = KvHit(g[1..(k - 1)], s[k]) BY <1>8, <3>1, CxFoldPrefix
  <3> QED BY <1>2, <2>1, <3>2
 <2>2. g[{}] = b BY <1>8
 <2> QED BY <2>1, <2>2 DEF CxRecurs
<1>10. PICK r : CxRuns(r, n, C, b, G, g[1..n]) BY <1>1, <1>b, <1>3, <1>9, CxFoldRuns
<1>11. n \in 0..n BY <1>1
<1> QED BY <1>5, <1>10, <1>11 DEF CxRuns, C

\* A finite set listed in any order.
LEMMA KvListed ==
  ASSUME NEW B, NEW S \in SUBSET B, IsFiniteSet(S), NEW q \in SetToSeqs(S)
  PROVE  q \in Seq(B) /\ Len(q) \in Nat /\ q \in [1..Len(q) -> S]
<1>1. Cardinality(S) \in Nat BY FS_CardinalityType
<1>2. q \in [1..Cardinality(S) -> S] BY DEF SetToSeqs
<1> QED BY <1>1, <1>2

\* A search finds chunks that may be cited.
LEMMA KvSearchKept ==
  ASSUME KvBase, KvServes, NEW sources, NEW revisions,
         NEW found \in SUBSET KvSearchable(sources, revisions), KvSearch(sources, revisions, found)
  PROVE  KvServes'
<1>1. kvRevs \in Seq(KvRevSet) /\ kvChunks \subseteq 1..Len(kvRevs)
  BY DEF KvBase, KvIndexFits, KvIndex
<1>2. found \subseteq KvCited(kvRevs) /\ IsFiniteSet(found) BY <1>1, KvSearchableTyped
<1>3. PICK sparse \in SetToSeqs(found) :
        kvQuery' = [KvNoQuery EXCEPT !.at = "dense", !.sources = sources,
                                     !.revisions = revisions, !.sparse = sparse] BY DEF KvSearch
<1>4. sparse \in Seq(KvCited(kvRevs)) BY <1>2, KvListed
<1>5. kvQuery'.sparse = sparse /\ kvQuery'.hits = <<>> BY <1>3 DEF KvNoQuery
<1>6. UNCHANGED <<kvRevs, kvAnswer, kvLearnings>> /\ kvCount'.faults = kvCount.faults
  BY DEF KvSearch, KvRequest, kvIndexVars
<1> QED BY <1>4, <1>5, <1>6 DEF KvServes, KvDepositsCurrent

\* So do the vectors, and their fusion with what was found.
LEMMA KvSearchDenseKept ==
  ASSUME KvBase, KvServes, NEW similar, KvSearchDense(similar)
  PROVE  KvServes'
<1>0. PICK D : D = KvCited(kvRevs) OBVIOUS
<1>1. PICK sparse \in Seq(D) : sparse = kvQuery.sparse BY <1>0 DEF KvServes
<1>2. ToSet(sparse) \subseteq D /\ IsFiniteSet(ToSet(sparse))
 <2>1. Len(sparse) \in Nat /\ sparse \in [1..Len(sparse) -> D] OBVIOUS
 <2> QED BY <2>1, CxToSetFinite DEF ToSet
<1>3. PICK dense \in SetToSeqs(similar \cap ToSet(sparse)) :
        \E fused \in KvFused(sparse, dense) :
           kvQuery' = [KvNoQuery EXCEPT !.at = "read",
                                        !.hits = SubSeq(fused, 1, Min({KvTopK, Len(fused)}))]
  BY <1>1 DEF KvSearchDense
<1>a. PICK fused \in KvFused(sparse, dense) :
        kvQuery' = [KvNoQuery EXCEPT !.at = "read",
                                     !.hits = SubSeq(fused, 1, Min({KvTopK, Len(fused)}))] BY <1>3
<1>4. PICK S : S = similar \cap ToSet(sparse) OBVIOUS
<1>5. S \in SUBSET ToSet(sparse) /\ IsFiniteSet(S)
 <2>1. S \in SUBSET ToSet(sparse) BY <1>4
 <2> QED BY <1>2, <2>1, FS_Subset
<1>6. dense \in Seq(ToSet(sparse)) /\ Len(dense) \in Nat /\ dense \in [1..Len(dense) -> S]
  BY <1>4, <1>5, KvListed
<1>7. PICK T : T = ToSet(sparse) \cup ToSet(dense) OBVIOUS
<1>8. ToSet(dense) \subseteq ToSet(sparse)
 <2>1. ToSet(dense) \subseteq S BY <1>6 DEF ToSet
 <2> QED BY <1>5, <2>1
<1>9. T \in SUBSET D /\ IsFiniteSet(T)
 <2>1. T = ToSet(sparse) BY <1>7, <1>8
 <2> QED BY <1>2, <2>1
<1>10. fused \in SetToSeqs(T) BY <1>a, <1>7 DEF KvFused
<1>11. fused \in Seq(D) /\ Len(fused) \in Nat BY <1>9, <1>10, KvListed
<1>12. PICK k : k = Min({KvTopK, Len(fused)}) OBVIOUS
<1>13. k \in Nat /\ k <= Len(fused)
 <2>1. KvTopK \in Nat BY KvAssumption
 <2>2. \E x \in {KvTopK, Len(fused)} : \A y \in {KvTopK, Len(fused)} : x <= y BY <1>11, <2>1
 <2>3. /\ Min({KvTopK, Len(fused)}) \in {KvTopK, Len(fused)}
       /\ \A y \in {KvTopK, Len(fused)} : Min({KvTopK, Len(fused)}) <= y BY <2>2 DEF Min
 <2> QED BY <1>11, <1>12, <2>1, <2>3
<1>14. SubSeq(fused, 1, k) \in Seq(D) BY <1>11, <1>13
<1>15. kvQuery'.sparse = <<>> /\ kvQuery'.hits = SubSeq(fused, 1, k) BY <1>a, <1>12 DEF KvNoQuery
<1>16. UNCHANGED <<kvRevs, kvAnswer, kvLearnings, kvCount>> BY DEF KvSearchDense, kvIndexVars
<1> QED BY <1>0, <1>14, <1>15, <1>16 DEF KvServes, KvDepositsCurrent

\* An answer is a bundle of the hits.
LEMMA KvRetrieveKept ==
  ASSUME KvBase, KvServes, KvRetrieve
  PROVE  KvServes'
<1>1. KvBundle(kvQuery.hits) \in KvBundles(kvRevs) BY KvBundleTyped DEF KvBase, KvServes
<1>2. kvQuery' = KvNoQuery /\ kvAnswer' = KvBundle(kvQuery.hits)
      /\ UNCHANGED <<kvRevs, kvLearnings, kvCount>> BY DEF KvRetrieve, kvIndexVars
<1>3. kvQuery'.sparse = <<>> /\ kvQuery'.hits = <<>> BY <1>2 DEF KvNoQuery
<1> QED BY <1>1, <1>2, <1>3 DEF KvServes, KvDepositsCurrent

\* A learning made without a fault so far cites current revisions only.
LEMMA KvLearnKept ==
  ASSUME KvBase, KvServes, NEW cites, KvLearn(cites)
  PROVE  KvServes'
<1>1. PICK l : l = [cites |-> cites, base |-> kvPages[KvLearningPage], status |-> "pending",
                    current |-> \A c \in cites : kvPages[kvRevs[c[1]].page] = c[1]] OBVIOUS
<1>2. kvLearnings' = kvLearnings \cup {l}
      /\ UNCHANGED <<kvRevs, kvQuery, kvAnswer, kvCount>>
      /\ \A c \in cites : c[1] \in kvActive BY <1>1 DEF KvLearn, KvResolvable, kvIndexVars
<1>3. l = [cites |-> l.cites, base |-> l.base, status |-> l.status, current |-> l.current] BY <1>1
<1>4. kvCount.faults = 0 => l.current BY <1>1, <1>2 DEF KvBase, KvFresh
<1> QED BY <1>2, <1>3, <1>4 DEF KvServes, KvDepositsCurrent

\* What is decided of a learning leaves what it cites.
LEMMA KvDecidedKept ==
  ASSUME KvServes, NEW l \in kvLearnings, NEW status, KvLearningBecomes(l, status),
         UNCHANGED <<kvQuery, kvAnswer>>, KvCited(kvRevs) \subseteq KvCited(kvRevs'),
         kvCount'.faults = 0 => kvCount.faults = 0
  PROVE  KvServes'
<1>1. PICK m : m = [l EXCEPT !.status = status] OBVIOUS
<1>2. l = [cites |-> l.cites, base |-> l.base, status |-> l.status, current |-> l.current]
  BY DEF KvServes
<1>3. m = [cites |-> m.cites, base |-> m.base, status |-> m.status, current |-> m.current]
      /\ m.current = l.current BY <1>1, <1>2
<1>4. kvLearnings' = (kvLearnings \ {l}) \cup {m} BY <1>1 DEF KvLearningBecomes
<1>5. KvBundles(kvRevs) \subseteq KvBundles(kvRevs') BY KvBundlesGrow
<1>6. Seq(KvCited(kvRevs)) \subseteq Seq(KvCited(kvRevs')) OBVIOUS
<1> QED BY <1>3, <1>4, <1>5, <1>6 DEF KvServes, KvDepositsCurrent

\* A step that serves nothing.
LEMMA KvServesGrow ==
  ASSUME KvServes, UNCHANGED <<kvQuery, kvAnswer, kvLearnings>>,
         KvCited(kvRevs) \subseteq KvCited(kvRevs'), kvCount'.faults = 0 => kvCount.faults = 0
  PROVE  KvServes'
<1>1. KvBundles(kvRevs) \subseteq KvBundles(kvRevs') BY KvBundlesGrow
<1>2. Seq(KvCited(kvRevs)) \subseteq Seq(KvCited(kvRevs')) OBVIOUS
<1> QED BY <1>1, <1>2 DEF KvServes, KvDepositsCurrent

\* Bundles begin like their hits, and keep the best one.
LEMMA KvServesFits ==
  ASSUME KvServes
  PROVE  KvAnswerFits
<1>1. PICK D : D = KvCited(kvRevs) OBVIOUS
<1>2. PICK items \in Seq(D), hits \in Seq(D) : items = kvAnswer.items /\ hits = kvAnswer.hits
  BY <1>1 DEF KvServes, KvBundles
<1>3. /\ kvAnswer.used \in 0..KvBudget /\ KvHeads(items, hits)
      /\ ~kvAnswer.full => items = hits
      /\ items = <<>> => ~kvAnswer.full BY <1>2 DEF KvServes, KvBundles
<1>6. IsPrefix(items, hits) BY <1>3, EvPrefix DEF KvHeads
<1>7. kvAnswer.used <= KvBudget BY <1>3, KvAssumption
<1> QED BY <1>2, <1>3, <1>6, <1>7 DEF KvAnswerFits

--------------------
(* Knowledge views: graph snapshots. *)

\* What is computed of a finite set element by element is finite.
LEMMA KvImageFinite ==
  ASSUME NEW S, IsFiniteSet(S), NEW F
  PROVE  IsFiniteSet({F[x] : x \in S})
<1>1. PICK f, T : T = {F[x] : x \in S} /\ f = [x \in S |-> F[x]] OBVIOUS
<1>2. f \in Surjection(S, T) BY <1>1 DEF Surjection
<1> QED BY <1>1, <1>2, FS_Surjection

\* A page that has a revision: its text is the one of a revision of its own.
LEMMA KvLiveText ==
  ASSUME kvRevs \in Seq(KvRevSet), NEW pages, KvOwns(pages, kvRevs), NEW p \in KvLive(pages)
  PROVE  /\ p \in KvPages /\ pages[p] \in 1..Len(kvRevs) /\ kvRevs[pages[p]].page = p
         /\ KvText(pages, p) \in KvTextSet /\ KvText(pages, p) = kvRevs[pages[p]].text
<1>1. p \in KvPages /\ pages[p] # 0 BY DEF KvLive
<1>2. pages[p] \in 1..Len(kvRevs) /\ kvRevs[pages[p]].page = p BY <1>1 DEF KvOwns
<1>3. kvRevs[pages[p]] \in KvRevSet BY <1>2
<1> QED BY <1>1, <1>2, <1>3 DEF KvText, KvRevSet

\* The nodes of a snapshot are of its pages, of their sources and of the
\* concepts missing.
KvTargets(pages) ==
  UNION {{KvTarget(pages, n) : n \in KvText(pages, p).links} : p \in KvLive(pages)}
KvPageNodes(pages) == {KvNode(KvPageId(p), KvKind[p], pages[p]) : p \in KvLive(pages)}
KvSourceNodes(pages) ==
  {KvNode(KvSourceId(KvText(pages, p).source), "source", 0) : p \in KvLive(pages)}
KvConceptNodes(targets) == {KvNode(id, "concept", 0) : id \in {i \in targets : i[1] = "concept"}}

LEMMA KvNodesAre ==
  ASSUME NEW pages
  PROVE  KvNodes(pages) =
           KvPageNodes(pages) \cup KvSourceNodes(pages) \cup KvConceptNodes(KvTargets(pages))
BY DEF KvNodes, KvTargets, KvPageNodes, KvSourceNodes, KvConceptNodes

\* A link leads to a page that has a revision, or to a missing concept.
LEMMA KvTargetIs ==
  ASSUME kvRevs \in Seq(KvRevSet), NEW pages, KvOwns(pages, kvRevs), NEW name
  PROVE  \/ KvTarget(pages, name) = KvConceptId(name)
         \/ \E p \in KvLive(pages) : KvTarget(pages, name) = KvPageId(p)
<1>1. PICK named : named = {p \in KvLive(pages) : name \in KvText(pages, p).names} OBVIOUS
<1>2. named \subseteq KvLive(pages) /\ KvLive(pages) \subseteq KvPages BY <1>1 DEF KvLive
<1>3. named \in SUBSET Nat
 <2>1. KvPages \subseteq Nat BY KvAssumption
 <2> QED BY <1>2, <2>1
<1>4. CASE named = {} BY <1>1, <1>4 DEF KvTarget
<1>5. CASE named # {}
 <2>1. PICK m \in named : \A x \in named : m <= x BY <1>3, <1>5, CxLeast
 <2>2. Min(named) \in named BY <2>1 DEF Min
 <2>3. KvTarget(pages, name) = KvPageId(Min(named)) BY <1>1, <1>5 DEF KvTarget
 <2> QED BY <1>2, <2>2, <2>3
<1> QED BY <1>4, <1>5

\* A snapshot has finitely many nodes; they are of the kinds that are listed.
LEMMA KvNodesTyped ==
  ASSUME kvRevs \in Seq(KvRevSet), NEW pages, KvOwns(pages, kvRevs)
  PROVE  /\ IsFiniteSet(KvNodes(pages))
         /\ \A n \in KvNodes(pages) : /\ n.kind \in ToSet(KvKindsInOrder)
                                      /\ n.rev \in 0..Len(kvRevs)
<1> DEFINE L == KvLive(pages)
<1>1. IsFiniteSet(L)
 <2>1. L \in SUBSET KvPages BY DEF KvLive
 <2>2. IsFiniteSet(KvPages) BY KvAssumption
 <2> QED BY <2>1, <2>2, FS_Subset
<1>2. IsFiniteSet(KvPageNodes(pages))
 <2>1. PICK F : F = [p \in L |-> KvNode(KvPageId(p), KvKind[p], pages[p])] OBVIOUS
 <2>2. KvPageNodes(pages) = {F[p] : p \in L} BY <2>1 DEF KvPageNodes
 <2> QED BY <1>1, <2>2, KvImageFinite
<1>3. IsFiniteSet(KvSourceNodes(pages))
 <2>1. PICK F : F = [p \in L |-> KvNode(KvSourceId(KvText(pages, p).source), "source", 0)] OBVIOUS
 <2>2. KvSourceNodes(pages) = {F[p] : p \in L} BY <2>1 DEF KvSourceNodes
 <2> QED BY <1>1, <2>2, KvImageFinite
<1>4. IsFiniteSet(KvTargets(pages))
 <2>1. ASSUME NEW p \in L PROVE IsFiniteSet({KvTarget(pages, n) : n \in KvText(pages, p).links})
  <3>1. PICK links : links = KvText(pages, p).links /\ IsFiniteSet(links)
    BY KvLiveText DEF KvTextSet
  <3>2. PICK F : F = [n \in links |-> KvTarget(pages, n)] OBVIOUS
  <3>3. {KvTarget(pages, n) : n \in links} = {F[n] : n \in links} BY <3>2
  <3>4. IsFiniteSet({F[n] : n \in links}) BY <3>1, KvImageFinite
  <3> QED BY <3>1, <3>3, <3>4
 <2>2. PICK F : F = [p \in L |-> {KvTarget(pages, n) : n \in KvText(pages, p).links}] OBVIOUS
 <2>3. PICK T : T = {F[p] : p \in L} OBVIOUS
 <2>4. IsFiniteSet(T) BY <1>1, <2>3, KvImageFinite
 <2>5. \A S \in T : IsFiniteSet(S) BY <2>1, <2>2, <2>3
 <2>6. KvTargets(pages) = UNION T
  <3>1. T = {{KvTarget(pages, n) : n \in KvText(pages, p).links} : p \in L} BY <2>2, <2>3
  <3> QED BY <3>1 DEF KvTargets
 <2> QED BY <2>4, <2>5, <2>6, FS_UNION
<1>5. IsFiniteSet(KvConceptNodes(KvTargets(pages)))
 <2>1. PICK S : S = {i \in KvTargets(pages) : i[1] = "concept"} OBVIOUS
 <2>2. IsFiniteSet(S) BY <1>4, <2>1, FS_Subset
 <2>3. PICK F : F = [id \in S |-> KvNode(id, "concept", 0)] OBVIOUS
 <2>4. KvConceptNodes(KvTargets(pages)) = {F[id] : id \in S} BY <2>1, <2>3 DEF KvConceptNodes
 <2> QED BY <2>2, <2>4, KvImageFinite
<1>6. IsFiniteSet(KvNodes(pages))
 <2>1. IsFiniteSet(KvPageNodes(pages) \cup KvSourceNodes(pages)) BY <1>2, <1>3, FS_Union
 <2>2. IsFiniteSet(KvPageNodes(pages) \cup KvSourceNodes(pages) \cup KvConceptNodes(KvTargets(pages)))
   BY <1>5, <2>1, FS_Union
 <2> QED BY <2>2, KvNodesAre
<1>7. \A kind \in {"concept", "decision", "page", "project", "source", "tool"} :
         kind \in ToSet(KvKindsInOrder)
 <2>1. \A i \in 1..6 : KvKindsInOrder[i] \in ToSet(KvKindsInOrder) BY DEF ToSet, KvKindsInOrder
 <2>2. /\ KvKindsInOrder[1] = "concept" /\ KvKindsInOrder[2] = "decision"
       /\ KvKindsInOrder[3] = "page" /\ KvKindsInOrder[4] = "project"
       /\ KvKindsInOrder[5] = "source" /\ KvKindsInOrder[6] = "tool" BY DEF KvKindsInOrder
 <2> QED BY <2>1, <2>2
<1>8. ASSUME NEW n \in KvNodes(pages)
      PROVE  n.kind \in ToSet(KvKindsInOrder) /\ n.rev \in 0..Len(kvRevs)
 <2>0. 0 \in 0..Len(kvRevs) OBVIOUS
 <2>1. CASE n \in KvPageNodes(pages)
  <3>1. PICK p \in L : n = KvNode(KvPageId(p), KvKind[p], pages[p]) BY <2>1 DEF KvPageNodes
  <3>2. n.kind = KvKind[p] /\ n.rev = pages[p] BY <3>1 DEF KvNode
  <3>3. p \in KvPages /\ pages[p] \in 1..Len(kvRevs) BY KvLiveText
  <3>4. KvKind[p] \in {"concept", "decision", "page", "project", "tool"} BY <3>3, KvAssumption
  <3> QED BY <1>7, <3>2, <3>3, <3>4
 <2>2. CASE n \in KvSourceNodes(pages) \/ n \in KvConceptNodes(KvTargets(pages))
  <3>1. n.kind \in {"source", "concept"} /\ n.rev = 0
    BY <2>2 DEF KvSourceNodes, KvConceptNodes, KvNode
  <3> QED BY <1>7, <2>0, <3>1
 <2> QED BY <2>1, <2>2, KvNodesAre
<1> QED BY <1>6, <1>8

\* Revisions stay as they are, so the nodes of a snapshot do.
LEMMA KvNodesStay ==
  ASSUME kvRevs \in Seq(KvRevSet), NEW pages, KvOwns(pages, kvRevs),
         \A r \in 1..Len(kvRevs) : kvRevs'[r] = kvRevs[r]
  PROVE  KvNodes(pages)' = KvNodes(pages)
<1>1. \A p \in KvLive(pages) : KvText(pages, p)' = KvText(pages, p)
 <2>1. ASSUME NEW p \in KvLive(pages) PROVE kvRevs'[pages[p]] = kvRevs[pages[p]] BY KvLiveText
 <2> QED BY <2>1 DEF KvText
<1>2. ASSUME NEW n PROVE KvTarget(pages, n)' = KvTarget(pages, n)
 <2>1. {p \in KvLive(pages) : n \in KvText(pages, p).names}' =
         {p \in KvLive(pages) : n \in KvText(pages, p).names} BY <1>1
 <2> QED BY <2>1 DEF KvTarget
<1>3. KvPageNodes(pages)' = KvPageNodes(pages) OBVIOUS
<1>4. KvSourceNodes(pages)' = KvSourceNodes(pages) BY <1>1 DEF KvSourceNodes
<1>5. KvTargets(pages)' = KvTargets(pages)
 <2>1. ASSUME NEW p \in KvLive(pages)
       PROVE  {KvTarget(pages, n) : n \in KvText(pages, p).links}' =
                {KvTarget(pages, n) : n \in KvText(pages, p).links} BY <1>1, <1>2
 <2> QED BY <2>1 DEF KvTargets
<1>6. KvConceptNodes(KvTargets(pages))' = KvConceptNodes(KvTargets(pages))
  BY <1>5 DEF KvConceptNodes
<1>7. KvNodes(pages)' =
        KvPageNodes(pages)' \cup KvSourceNodes(pages)' \cup KvConceptNodes(KvTargets(pages))'
  BY DEF KvNodes, KvTargets, KvPageNodes, KvSourceNodes, KvConceptNodes
<1> QED BY <1>3, <1>4, <1>6, <1>7, KvNodesAre

\* What edges cite are revisions of the pages, and they join nodes.
KvCites(edges, nodes, pages, revs) ==
  \A e \in edges :
    /\ e.evidence # {}
    /\ \A c \in e.evidence : c[1] \in 1..Len(revs) /\ pages[revs[c[1]].page] = c[1]
    /\ {e.from, e.to} \subseteq {n.id : n \in nodes}

\* The evidence of a page is of its current revision.
LEMMA KvEvidenceIs ==
  ASSUME kvRevs \in Seq(KvRevSet), KvOwns(kvPages, kvRevs), NEW p \in KvLive(kvPages),
         NEW c \in KvEvidence(p)
  PROVE  c[1] \in 1..Len(kvRevs) /\ kvPages[kvRevs[c[1]].page] = c[1]
<1>1. c = KvFirstChunk(kvPages[p]) BY DEF KvEvidence
<1>2. c[1] = kvPages[p] BY <1>1 DEF KvFirstChunk
<1> QED BY <1>2, KvLiveText

\* The edges by their kind, for the pages that have evidence.
KvEvidenced(cited) ==
  {KvEdge("EVIDENCED_BY", KvPageId(p), KvSourceId(KvText(kvPages, p).source), KvEvidence(p)) :
     p \in cited}
KvLinked(cited) ==
  UNION {{KvEdge("WIKILINK", KvPageId(p), KvTarget(kvPages, n), KvEvidence(p)) :
            n \in KvText(kvPages, p).links} : p \in cited}
KvSharing(cited) ==
  UNION {{KvEdge("SHARES_SOURCE", KvPageId(p), KvPageId(q), KvEvidence(p) \cup KvEvidence(q)) :
            q \in {x \in cited : p < x /\ KvText(kvPages, p).source = KvText(kvPages, x).source}} :
          p \in cited}
KvCitedPages == {p \in KvLive(kvPages) : KvEvidence(p) # {}}

LEMMA KvEdgesAre ==
  KvEdges = KvEvidenced(KvCitedPages) \cup KvLinked(KvCitedPages) \cup KvSharing(KvCitedPages)
BY DEF KvEdges, KvCitedPages, KvEvidenced, KvLinked, KvSharing

\* Edges cite current revisions, and join nodes of the current pages.
LEMMA KvEdgesCite ==
  ASSUME kvRevs \in Seq(KvRevSet), KvOwns(kvPages, kvRevs)
  PROVE  KvCites(KvEdges, KvNodes(kvPages), kvPages, kvRevs)
<1>1. PICK ids : ids = {n.id : n \in KvNodes(kvPages)} OBVIOUS
<1>2. ASSUME NEW p \in KvLive(kvPages)
      PROVE  KvPageId(p) \in ids /\ KvSourceId(KvText(kvPages, p).source) \in ids
 <2>1. KvNode(KvPageId(p), KvKind[p], kvPages[p]) \in KvNodes(kvPages) BY DEF KvNodes
 <2>2. KvNode(KvSourceId(KvText(kvPages, p).source), "source", 0) \in KvNodes(kvPages)
   BY DEF KvNodes
 <2> QED BY <1>1, <2>1, <2>2 DEF KvNode
<1>3. ASSUME NEW p \in KvLive(kvPages), NEW n \in KvText(kvPages, p).links
      PROVE  KvTarget(kvPages, n) \in ids
 <2>1. CASE KvTarget(kvPages, n) = KvConceptId(n)
  <3>1. KvTarget(kvPages, n)[1] = "concept" BY <2>1 DEF KvConceptId
  <3>2. KvTarget(kvPages, n) \in KvTargets(kvPages) BY DEF KvTargets
  <3>3. KvNode(KvTarget(kvPages, n), "concept", 0) \in KvNodes(kvPages)
    BY <3>1, <3>2, KvNodesAre DEF KvConceptNodes
  <3> QED BY <1>1, <3>3 DEF KvNode
 <2>2. CASE \E q \in KvLive(kvPages) : KvTarget(kvPages, n) = KvPageId(q) BY <1>2, <2>2
 <2> QED BY <2>1, <2>2, KvTargetIs
<1>4. \A p \in KvCitedPages : p \in KvLive(kvPages) /\ KvEvidence(p) # {} BY DEF KvCitedPages
<1>5. ASSUME NEW e \in KvEdges
      PROVE  /\ e.to \in ids
             /\ \E p, q \in KvCitedPages : /\ e.from = KvPageId(p)
                                           /\ e.evidence = KvEvidence(p) \cup KvEvidence(q)
 <2>1. CASE e \in KvEvidenced(KvCitedPages)
  <3>1. PICK p \in KvCitedPages :
          e = KvEdge("EVIDENCED_BY", KvPageId(p), KvSourceId(KvText(kvPages, p).source), KvEvidence(p))
   BY <2>1 DEF KvEvidenced
  <3> QED BY <1>2, <1>4, <3>1 DEF KvEdge
 <2>2. CASE e \in KvLinked(KvCitedPages)
  <3>1. PICK p \in KvCitedPages :
          \E n \in KvText(kvPages, p).links :
            e = KvEdge("WIKILINK", KvPageId(p), KvTarget(kvPages, n), KvEvidence(p))
   BY <2>2 DEF KvLinked
  <3> QED BY <1>3, <1>4, <3>1 DEF KvEdge
 <2>3. CASE e \in KvSharing(KvCitedPages)
  <3>1. PICK p \in KvCitedPages :
          \E q \in KvCitedPages :
            e = KvEdge("SHARES_SOURCE", KvPageId(p), KvPageId(q), KvEvidence(p) \cup KvEvidence(q))
   BY <2>3 DEF KvSharing
  <3> QED BY <1>2, <1>4, <3>1 DEF KvEdge
 <2> QED BY <2>1, <2>2, <2>3, KvEdgesAre
<1>6. ASSUME NEW e \in KvEdges
      PROVE  /\ e.evidence # {}
             /\ \A c \in e.evidence : c[1] \in 1..Len(kvRevs) /\ kvPages[kvRevs[c[1]].page] = c[1]
             /\ e.from \in ids /\ e.to \in ids
 <2>1. PICK p \in KvCitedPages, q \in KvCitedPages :
         e.from = KvPageId(p) /\ e.evidence = KvEvidence(p) \cup KvEvidence(q)
  BY <1>5
 <2> QED BY <1>2, <1>4, <1>5, <2>1, KvEvidenceIs
<1>7. KvCites(KvEdges, KvNodes(kvPages), kvPages, kvRevs) BY <1>1, <1>6 DEF KvCites
<1> QED BY <1>7

\* Whoever pages through the overview of finitely many nodes of the listed
\* kinds, two at a time, until there is no next page, has met all of them.
LEMMA KvPagesThrough ==
  ASSUME NEW g, IsFiniteSet(g.nodes), \A n \in g.nodes : n.kind \in ToSet(KvKindsInOrder)
  PROVE  LET page(k) == KvOverview(g, ToSet(KvKindsInOrder), 2 * k, 2)
             last == CHOOSE k \in 0..Cardinality(g.nodes) : page(k).next = {}
         IN UNION {page(k).nodes : k \in 0..last} = g.nodes
<1> DEFINE page(k) == KvOverview(g, ToSet(KvKindsInOrder), 2 * k, 2)
           last == CHOOSE k \in 0..Cardinality(g.nodes) : page(k).next = {}
           place(n) == Cardinality({m \in g.nodes \ {n} : KvNodeBefore(m, n)})
<1>1. PICK size \in Nat : size = Cardinality(g.nodes) BY FS_CardinalityType
<1>2. {n \in g.nodes : n.kind \in ToSet(KvKindsInOrder)} = g.nodes OBVIOUS
<1>3. ASSUME NEW k
      PROVE  /\ page(k).nodes = {n \in g.nodes : 2 * k <= place(n) /\ place(n) < 2 * k + 2}
             /\ page(k).next = IF size > 2 * k + 2 THEN {2 * k + 2} ELSE {}
  BY <1>1, <1>2 DEF KvOverview
<1>4. ASSUME NEW n \in g.nodes PROVE place(n) \in Nat /\ place(n) <= size - 1 /\ size >= 1
 <2>1. PICK S : S = {m \in g.nodes \ {n} : KvNodeBefore(m, n)} OBVIOUS
 <2>2. IsFiniteSet(g.nodes \ {n}) /\ Cardinality(g.nodes \ {n}) = size - 1 BY <1>1, FS_RemoveElement
 <2>3. S \in SUBSET (g.nodes \ {n}) BY <2>1
 <2>4. IsFiniteSet(S) /\ Cardinality(S) <= Cardinality(g.nodes \ {n}) BY <2>2, <2>3, FS_Subset
 <2>5. Cardinality(S) \in Nat /\ Cardinality(g.nodes \ {n}) \in Nat
   BY <2>2, <2>4, FS_CardinalityType
 <2> QED BY <1>1, <2>1, <2>2, <2>4, <2>5
<1> HIDE DEF page, place
<1>5. last \in 0..size /\ page(last).next = {}
 <2>1. size \in 0..size /\ ~(size > 2 * size + 2) BY <1>1
 <2>2. page(size).next = {} BY <1>3, <2>1
 <2> QED BY <1>1, <2>1, <2>2
<1> HIDE DEF last
<1>6. last \in Nat /\ size <= 2 * last + 2
 <2>1. last \in Nat BY <1>1, <1>5
 <2>2. ~(size > 2 * last + 2) BY <1>3, <1>5
 <2> QED BY <1>1, <2>1, <2>2
<1>7. ASSUME NEW n \in g.nodes PROVE \E k \in 0..last : n \in page(k).nodes
 <2>1. PICK at \in Nat : at = place(n) /\ at <= size - 1 BY <1>4
 <2>2. PICK k \in Nat : 2 * k <= at /\ at < 2 * k + 2
  <3>1. at \div 2 \in Nat /\ 2 * (at \div 2) <= at /\ at < 2 * (at \div 2) + 2 OBVIOUS
  <3> QED BY <3>1
 <2>3. k <= last BY <1>1, <1>6, <2>1, <2>2
 <2>4. n \in page(k).nodes BY <1>3, <2>1, <2>2
 <2> QED BY <1>6, <2>3, <2>4
<1>8. \A k \in 0..last : page(k).nodes \subseteq g.nodes BY <1>3
<1>9. UNION {page(k).nodes : k \in 0..last} = g.nodes BY <1>7, <1>8
<1> QED BY <1>9 DEF page, last

\* A neighborhood has the nodes its edges join.
LEMMA KvNeighborsJoin ==
  ASSUME NEW g, \A e \in g.edges : {e.from, e.to} \subseteq {n.id : n \in g.nodes},
         NEW id, NEW e \in KvNeighborhood(g, id).edges
  PROVE  {e.from, e.to} \subseteq {m.id : m \in KvNeighborhood(g, id).nodes}
<1>1. PICK edges : edges = {x \in g.edges : id \in {x.from, x.to}} OBVIOUS
<1>2. PICK ids : ids = {id} \cup {x.from : x \in edges} \cup {x.to : x \in edges} OBVIOUS
<1>3. /\ KvNeighborhood(g, id).edges = edges
      /\ KvNeighborhood(g, id).nodes = {n \in g.nodes : n.id \in ids}
  BY <1>1, <1>2 DEF KvNeighborhood
<1>4. e \in edges /\ e \in g.edges /\ e.from \in ids /\ e.to \in ids BY <1>1, <1>2, <1>3
<1>5. \A i \in {e.from, e.to} : \E n \in g.nodes : n.id = i BY <1>4
<1>6. \A i \in {e.from, e.to} : \E n \in KvNeighborhood(g, id).nodes : n.id = i BY <1>3, <1>4, <1>5
<1> QED BY <1>6

--------------------
(* Knowledge views: analyses. *)

\* What an analysis reports of missing concepts and of capabilities.
KvTwoKinds(insights) == {i \in insights : i.kind \in {"missing_concept", "capability_gap"}}

KvKnown(nodes) == {n \in nodes : n.kind # "source"}
KvCover(capability, known) ==
  LET matched == Cardinality(capability \cap UNION {KvWordsOf(n) : n \in known}) IN
  CASE 4 * matched >= 3 * Cardinality(capability) -> "covered"
    [] 4 * matched >= Cardinality(capability)     -> "learning"
    [] OTHER                                      -> "gap"
KvGaps(known, capabilities) ==
  {KvInsight("missing_concept", {n.id}) : n \in {m \in known : m.rev = 0}}
  \cup {KvInsight("capability_gap", {<<KvCover(c, known), c>>}) :
          c \in {d \in capabilities : KvCover(d, known) # "covered"}}

\* They depend on the nodes and on the goal only.
LEMMA KvGapsAre ==
  ASSUME NEW g, NEW goal, NEW split
  PROVE  KvTwoKinds(KvInsights(g, goal, split)) = KvGaps(KvKnown(g.nodes), goal.capabilities)
<1>1. PICK known : known = KvKnown(g.nodes) OBVIOUS
<1>2. KvKnowledge(g) = known BY <1>1 DEF KvKnowledge, KvKnown
<1>3. \A c : KvAlignment(c, g) = KvCover(c, known) BY <1>2 DEF KvAlignment, KvCover
<1>4. PICK A : A = {KvInsight("missing_concept", {n.id}) : n \in {m \in known : m.rev = 0}} OBVIOUS
<1>5. PICK B : B = {KvInsight("isolated_node", {n.id}) : n \in {m \in known : \A t \in KvTies(g) : m.id \notin t}}
  OBVIOUS
<1>6. PICK C : C = {KvInsight("bridge_node", {i}) : i \in KvBridges(split, KvTies(g))} OBVIOUS
<1>7. PICK D : D = {KvInsight("sparse_community", c) :
                      c \in {d \in KvCommunities(split) : KvSparse(d, KvTies(g))}} OBVIOUS
<1>8. PICK E : E = {KvInsight("capability_gap", {<<KvCover(c, known), c>>}) :
                      c \in {d \in goal.capabilities : KvCover(d, known) # "covered"}} OBVIOUS
<1>9. KvInsights(g, goal, split) = A \cup B \cup C \cup D \cup E
  BY <1>2, <1>3, <1>4, <1>5, <1>6, <1>7, <1>8 DEF KvInsights
<1>10. /\ \A i \in A : i.kind = "missing_concept"
       /\ \A i \in E : i.kind = "capability_gap"
       /\ \A i \in B \cup C \cup D : i.kind \notin {"missing_concept", "capability_gap"}
  BY <1>4, <1>5, <1>6, <1>7, <1>8 DEF KvInsight
<1>11. KvTwoKinds(A \cup B \cup C \cup D \cup E) = A \cup E BY <1>10 DEF KvTwoKinds
<1>12. KvGaps(known, goal.capabilities) = A \cup E BY <1>4, <1>8 DEF KvGaps
<1> QED BY <1>1, <1>9, <1>11, <1>12

\* Revisions stay as they are, so the gaps do.
LEMMA KvGapsStay ==
  ASSUME NEW known, \A n \in known : n.rev \in 0..Len(kvRevs), NEW capabilities,
         Len(kvRevs) \in Nat, \A r \in 1..Len(kvRevs) : kvRevs'[r] = kvRevs[r]
  PROVE  KvGaps(known, capabilities)' = KvGaps(known, capabilities)
<1>1. \A n \in known : KvWordsOf(n)' = KvWordsOf(n)
 <2>1. ASSUME NEW n \in known, n.rev # 0 PROVE n.rev \in 1..Len(kvRevs) BY <2>1
 <2> QED BY <2>1 DEF KvWordsOf
<1>2. {KvWordsOf(n) : n \in known}' = {KvWordsOf(n) : n \in known} BY <1>1
<1>3. ASSUME NEW c PROVE KvCover(c, known)' = KvCover(c, known) BY <1>2 DEF KvCover
<1>4. KvGaps(known, capabilities)' =
        {KvInsight("missing_concept", {n.id}) : n \in {m \in known : m.rev = 0}}
        \cup {KvInsight("capability_gap", {<<KvCover(c, known)', c>>}) :
                c \in {d \in capabilities : KvCover(d, known)' # "covered"}} BY DEF KvGaps
<1>5. PICK D : D = {d \in capabilities : KvCover(d, known) # "covered"} OBVIOUS
<1>6. {d \in capabilities : KvCover(d, known)' # "covered"} = D BY <1>3, <1>5
<1>7. {KvInsight("capability_gap", {<<KvCover(c, known)', c>>}) : c \in D} =
        {KvInsight("capability_gap", {<<KvCover(c, known), c>>}) : c \in D}
 <2>1. ASSUME NEW c \in D
       PROVE  KvInsight("capability_gap", {<<KvCover(c, known)', c>>}) =
                KvInsight("capability_gap", {<<KvCover(c, known), c>>}) BY <1>3
 <2> QED BY <2>1
<1> QED BY <1>4, <1>5, <1>6, <1>7 DEF KvGaps

--------------------
(* Knowledge views: what is served is true. *)

\* A ready snapshot shows the pages it is of; a ready analysis reports the
\* gaps of a snapshot there is.
KvGraphShown(g) ==
  /\ g = KvSnapshot(g.pages, g.status, g.nodes, g.edges)
  /\ KvOwns(g.pages, kvRevs)
  /\ g.status = "ready" =>
       g.nodes = KvNodes(g.pages) /\ KvCites(g.edges, g.nodes, g.pages, kvRevs)
KvAnalysisShown(a, graphs) ==
  a.status = "ready" => \E g \in graphs :
    /\ g.pages = a.graph
    /\ KvTwoKinds(a.insights) = KvGaps(KvKnown(KvNodes(a.graph)), a.goal.capabilities)

KvShownBy(graphs, analyses) ==
  /\ \A g \in graphs : KvGraphShown(g)
  /\ \A g, h \in graphs : g.pages = h.pages => g = h
  /\ \A a \in analyses : KvAnalysisShown(a, graphs)
  /\ \A a, b \in analyses : a.graph = b.graph /\ a.goal = b.goal => a = b
KvShown == KvShownBy(kvGraphs, kvAnalyses)

KvInv == KvBase /\ KvServes /\ KvShown

\* A snapshot made again shows the pages; nothing else changes.
LEMMA KvRebuiltShown ==
  ASSUME KvBase, KvShown, NEW ok \in BOOLEAN
  PROVE  /\ KvShownBy(KvRebuilt(ok), kvAnalyses)
         /\ KvShownBy(KvEnsured(ok), kvAnalyses)
<1>1. PICK old : old = {g \in kvGraphs : g.pages = kvPages} OBVIOUS
<1>2. PICK new : new = IF ok THEN KvSnapshot(kvPages, "ready", KvNodes(kvPages), KvEdges)
                       ELSE KvSnapshot(kvPages, "error", UNION {g.nodes : g \in old},
                                       UNION {g.edges : g \in old}) OBVIOUS
<1>3. KvRebuilt(ok) = (kvGraphs \ old) \cup {new} BY <1>1, <1>2 DEF KvRebuilt
<1>4. new.pages = kvPages /\ new = KvSnapshot(new.pages, new.status, new.nodes, new.edges)
  BY <1>2 DEF KvSnapshot
<1>5. KvGraphShown(new)
 <2>1. KvOwns(kvPages, kvRevs) /\ kvRevs \in Seq(KvRevSet) BY DEF KvBase
 <2>2. CASE ok
  <3>1. KvCites(KvEdges, KvNodes(kvPages), kvPages, kvRevs) BY <2>1, KvEdgesCite
  <3>2. new.nodes = KvNodes(kvPages) /\ new.edges = KvEdges BY <1>2, <2>2 DEF KvSnapshot
  <3> QED BY <1>4, <2>1, <3>1, <3>2 DEF KvGraphShown
 <2>3. CASE ~ok
  <3>1. new.status = "error" BY <1>2, <2>3 DEF KvSnapshot
  <3> QED BY <1>4, <2>1, <3>1 DEF KvGraphShown
 <2> QED BY <2>2, <2>3
<1>6. PICK graphs : graphs = KvRebuilt(ok) OBVIOUS
<1>7. \A g \in graphs : KvGraphShown(g) BY <1>3, <1>5, <1>6 DEF KvShown, KvShownBy
<1>8. \A g, h \in graphs : g.pages = h.pages => g = h
  BY <1>1, <1>3, <1>4, <1>6 DEF KvShown, KvShownBy
<1>9. \A g \in kvGraphs : \E h \in graphs : h.pages = g.pages BY <1>1, <1>3, <1>4, <1>6
<1>10. \A a \in kvAnalyses : KvAnalysisShown(a, graphs)
  BY <1>9 DEF KvShown, KvShownBy, KvAnalysisShown
<1>11. KvShownBy(graphs, kvAnalyses) BY <1>7, <1>8, <1>10 DEF KvShown, KvShownBy
<1> QED BY <1>6, <1>11 DEF KvEnsured, KvShown

\* The analysis of a ready snapshot reports its gaps.
LEMMA KvAnalyzedShown ==
  ASSUME NEW graphs, KvShownBy(graphs, kvAnalyses), NEW g \in graphs, g.status = "ready",
         NEW goal, NEW force, NEW split, NEW ok
  PROVE  KvShownBy(graphs, KvAnalyzed(g, goal, force, split, ok))
<1>1. PICK old : old = {a \in kvAnalyses : a.graph = g.pages /\ a.goal = goal} OBVIOUS
<1>2. PICK new : new = IF ok THEN KvAnalysis(g, goal, "ready", KvInsights(g, goal, split))
                       ELSE KvAnalysis(g, goal, "error", UNION {a.insights : a \in old}) OBVIOUS
<1>3. \/ KvAnalyzed(g, goal, force, split, ok) = kvAnalyses
      \/ KvAnalyzed(g, goal, force, split, ok) = (kvAnalyses \ old) \cup {new}
  BY <1>1, <1>2 DEF KvAnalyzed
<1>4. new.graph = g.pages /\ new.goal = goal BY <1>2 DEF KvAnalysis
<1>5. KvAnalysisShown(new, graphs)
 <2>1. CASE ok
  <3>1. new.insights = KvInsights(g, goal, split) BY <1>2, <2>1 DEF KvAnalysis
  <3>2. g.nodes = KvNodes(g.pages) BY DEF KvShownBy, KvGraphShown
  <3>3. KvTwoKinds(new.insights) = KvGaps(KvKnown(KvNodes(g.pages)), goal.capabilities)
    BY <3>1, <3>2, KvGapsAre
  <3> QED BY <1>4, <3>3 DEF KvAnalysisShown
 <2>2. CASE ~ok
  <3>1. new.status = "error" BY <1>2, <2>2 DEF KvAnalysis
  <3> QED BY <3>1 DEF KvAnalysisShown
 <2> QED BY <2>1, <2>2
<1>6. KvShownBy(graphs, (kvAnalyses \ old) \cup {new})
 <2>1. \A a, b \in (kvAnalyses \ old) \cup {new} : a.graph = b.graph /\ a.goal = b.goal => a = b
   BY <1>1, <1>4 DEF KvShownBy
 <2>2. \A a \in (kvAnalyses \ old) \cup {new} : KvAnalysisShown(a, graphs) BY <1>5 DEF KvShownBy
 <2> QED BY <2>1, <2>2 DEF KvShownBy
<1> QED BY <1>3, <1>6

\* Revisions that come in leave what was shown true.
LEMMA KvShownStays ==
  ASSUME KvBase, NEW graphs, NEW analyses, KvShownBy(graphs, analyses),
         kvRevs' \in Seq(KvRevSet), Len(kvRevs) <= Len(kvRevs'),
         \A r \in 1..Len(kvRevs) : kvRevs'[r] = kvRevs[r]
  PROVE  KvShownBy(graphs, analyses)'
<1>1. kvRevs \in Seq(KvRevSet) /\ Len(kvRevs) \in Nat /\ Len(kvRevs') \in Nat BY DEF KvBase
<1>2. ASSUME NEW g \in graphs
      PROVE  /\ KvOwns(g.pages, kvRevs)
             /\ KvNodes(g.pages)' = KvNodes(g.pages)
             /\ KvOwns(g.pages, kvRevs')
             /\ KvCites(g.edges, g.nodes, g.pages, kvRevs) =>
                  KvCites(g.edges, g.nodes, g.pages, kvRevs')
 <2>1. KvOwns(g.pages, kvRevs) BY DEF KvShownBy, KvGraphShown
 <2>2. PICK pages : pages = g.pages OBVIOUS
 <2>3. KvNodes(pages)' = KvNodes(pages) BY <1>1, <2>1, <2>2, KvNodesStay
 <2>4. KvOwns(pages, kvRevs') BY <1>1, <2>1, <2>2 DEF KvOwns
 <2>5. ASSUME KvCites(g.edges, g.nodes, pages, kvRevs)
       PROVE  KvCites(g.edges, g.nodes, pages, kvRevs') BY <1>1, <2>5 DEF KvCites
 <2> QED BY <2>1, <2>2, <2>3, <2>4, <2>5
<1>3. \A g \in graphs : KvGraphShown(g)'
 <2>1. \A g \in graphs : KvGraphShown(g) BY DEF KvShownBy
 <2> QED BY <1>2, <2>1 DEF KvGraphShown
<1>4. ASSUME NEW a \in analyses PROVE KvAnalysisShown(a, graphs)'
 <2>1. KvAnalysisShown(a, graphs) BY DEF KvShownBy
 <2>2. ASSUME a.status = "ready", NEW g \in graphs, g.pages = a.graph
       PROVE  KvGaps(KvKnown(KvNodes(a.graph)), a.goal.capabilities)' =
                KvGaps(KvKnown(KvNodes(a.graph)), a.goal.capabilities)
  <3>1. PICK pages, capabilities : pages = a.graph /\ capabilities = a.goal.capabilities OBVIOUS
  <3>2. KvOwns(pages, kvRevs) /\ KvNodes(pages)' = KvNodes(pages) BY <1>2, <2>2, <3>1
  <3>3. PICK known : known = KvKnown(KvNodes(pages)) OBVIOUS
  <3>4. \A n \in known : n.rev \in 0..Len(kvRevs) BY <1>1, <3>2, <3>3, KvNodesTyped DEF KvKnown
  <3>5. KvGaps(known, capabilities)' = KvGaps(known, capabilities) BY <1>1, <3>4, KvGapsStay
  <3>6. KvKnown(KvNodes(pages))' = known BY <3>2, <3>3 DEF KvKnown
  <3> QED BY <3>1, <3>3, <3>5, <3>6
 <2>3. CASE a.status = "ready"
  <3>1. PICK g \in graphs :
          /\ g.pages = a.graph
          /\ KvTwoKinds(a.insights) = KvGaps(KvKnown(KvNodes(a.graph)), a.goal.capabilities)
    BY <2>1, <2>3 DEF KvAnalysisShown
  <3>2. KvTwoKinds(a.insights) = KvGaps(KvKnown(KvNodes(a.graph)), a.goal.capabilities)'
    BY <2>2, <2>3, <3>1
  <3> QED BY <3>1, <3>2 DEF KvAnalysisShown
 <2>4. CASE a.status # "ready" BY <2>4 DEF KvAnalysisShown
 <2> QED BY <2>3, <2>4
<1> QED BY <1>3, <1>4 DEF KvShownBy

\* A revision is added, and those there were stay.
LEMMA KvRecordGrows ==
  ASSUME KvBase, KvShown, NEW page \in KvPages, NEW text \in KvTextSet,
         NEW ok \in BOOLEAN, KvRecord(page, text, ok)
  PROVE  /\ KvBase' /\ KvShown' /\ KvCited(kvRevs) \subseteq KvCited(kvRevs')
         /\ kvCount'.faults = 0 => kvCount.faults = 0
<1>1. PICK rev \in KvRevSet : kvRevs' = Append(kvRevs, rev)
 <2>1. [page |-> page, text |-> text] \in KvRevSet BY DEF KvRevSet
 <2> QED BY <2>1 DEF KvRecord
<1>2. kvRevs \in Seq(KvRevSet) BY DEF KvBase
<1>3. /\ kvRevs' \in Seq(KvRevSet) /\ Len(kvRevs) <= Len(kvRevs')
      /\ \A r \in 1..Len(kvRevs) : kvRevs'[r] = kvRevs[r] BY <1>1, <1>2
<1>4. PICK graphs, analyses : graphs = kvGraphs /\ analyses = kvAnalyses OBVIOUS
<1>a. kvGraphs' = graphs /\ kvAnalyses' = analyses BY <1>4 DEF KvRecord, kvGraphVars
<1>b. KvShownBy(graphs, analyses)' BY <1>3, <1>4, KvShownStays DEF KvShown
<1>5. KvShown' BY <1>a, <1>b DEF KvShown
<1>6. kvCount'.faults = 0 => kvCount.faults = 0 BY KvCounts DEF KvRecord, KvBase
<1> QED BY <1>1, <1>2, <1>5, <1>6, KvRecordKept, KvCitedGrows

\* What a step leaves that only counts: faults do not become fewer.
LEMMA KvCounted ==
  ASSUME KvBase, UNCHANGED kvIndexVars,
         \/ \E fault \in BOOLEAN : KvUnlessFault(fault) \/ KvRequest(fault)
         \/ UNCHANGED kvCount
  PROVE  KvBase' /\ (kvCount'.faults = 0 => kvCount.faults = 0)
<1>1. UNCHANGED <<kvRevs, kvPages, kvActive>> /\ KvIndex' = KvIndex BY DEF kvIndexVars, KvIndex
<1>3. kvCount' \in KvCountSet /\ (kvCount'.faults = 0 => kvCount.faults = 0) BY KvCounts DEF KvBase
<1> QED BY <1>1, <1>3 DEF KvBase

\* Revisions are made again.
LEMMA KvBackfillBase ==
  ASSUME KvBase, NEW force \in BOOLEAN, NEW failed, KvBackfill(force, failed)
  PROVE  KvBase' /\ (kvCount'.faults = 0 => kvCount.faults = 0)
<1>1. PICK b : b = IF force THEN [chunks |-> {}, active |-> {}, indexed |-> {}] ELSE KvIndex OBVIOUS
<1>2. PICK todo : todo = DOMAIN kvRevs \ b.indexed OBVIOUS
<1>3. PICK fresh \in BOOLEAN : fresh = (kvCount.faults = 0) OBVIOUS
<1>4. kvRevs \in Seq(KvRevSet) /\ KvOwns(kvPages, kvRevs) /\ KvIndexFits(KvIndex, kvRevs)
      /\ (fresh => KvFresh(kvActive, kvPages, kvRevs)) BY <1>3 DEF KvBase
<1>5. b \in KvIndexes(fresh, kvPages, kvRevs)
 <2>1. CASE force
  <3>1. b = [chunks |-> {}, active |-> {}, indexed |-> {}] BY <1>1, <2>1
  <3> QED BY <3>1 DEF KvIndexes, KvIndexFits, KvFresh
 <2>2. CASE ~force
  <3>1. b = KvIndex /\ b.active = kvActive BY <1>1, <2>2 DEF KvIndex
  <3> QED BY <1>4, <3>1 DEF KvIndexes, KvIndexFits
 <2> QED BY <2>1, <2>2
<1>6. todo \in SUBSET (1..Len(kvRevs)) BY <1>2, <1>4
<1>7. /\ UNCHANGED <<kvRevs, kvPages>> /\ KvUnlessFault(failed # {})
      /\ KvIndexBecomes(KvBackfilled(b, todo, failed)) BY <1>1, <1>2 DEF KvBackfill
<1>8. PICK index : index = KvBackfilled(b, todo, failed) OBVIOUS
<1>9. index \in KvIndexes(fresh, kvPages, kvRevs) BY <1>4, <1>5, <1>6, <1>7, <1>8, KvBackfillKept
<1>10. KvIndex' = index /\ kvActive' = index.active
  BY <1>7, <1>8, <1>9 DEF KvIndexBecomes, KvIndexes, KvIndex
<1>11. kvCount' \in KvCountSet /\ (kvCount'.faults = 0 => kvCount.faults = 0)
  BY <1>7, KvCounts DEF KvBase
<1>12. KvIndexFits(KvIndex', kvRevs) /\ (fresh => KvFresh(kvActive', kvPages, kvRevs))
  BY <1>9, <1>10 DEF KvIndexes
<1> QED BY <1>3, <1>4, <1>7, <1>11, <1>12 DEF KvBase

\* What a learning adds to a page is a text.
LEMMA KvDepositedTyped ==
  ASSUME KvBase, NEW l, l.base = kvPages[KvLearningPage]
  PROVE  KvDeposited(l.base) \in KvTextSet
<1>1. KvLearningText \in KvTextSet BY KvAssumption DEF KvTextSet
<1>2. CASE l.base = 0 BY <1>1, <1>2 DEF KvDeposited
<1>3. CASE l.base # 0
 <2>1. PICK r \in 1..Len(kvRevs) : r = l.base
  <3>1. kvPages \in [KvPages -> 0..Len(kvRevs)] /\ KvLearningPage \in KvPages
    BY KvAssumption DEF KvBase, KvOwns
  <3> QED BY <1>3, <3>1
 <2>2. PICK t \in KvTextSet : t = kvRevs[r].text
  <3>1. kvRevs[r] \in KvRevSet BY DEF KvBase
  <3> QED BY <3>1 DEF KvRevSet
 <2>3. PICK u \in KvTextSet : u = KvLearningText BY <1>1
 <2>4. PICK d : d = [u EXCEPT !.links = u.links \cup t.links, !.words = u.words \cup t.words,
                              !.blocks = t.blocks \o u.blocks] OBVIOUS
 <2>5. KvDeposited(l.base) = d BY <1>3, <2>1, <2>2, <2>3, <2>4 DEF KvDeposited
 <2>6. IsFiniteSet(u.links \cup t.links) BY FS_Union DEF KvTextSet
 <2>7. t.blocks \o u.blocks \in Seq([heading : BOOLEAN, tokens : Nat])
  <3>1. PICK B : B = [heading : BOOLEAN, tokens : Nat] OBVIOUS
  <3>2. t.blocks \in Seq(B) /\ u.blocks \in Seq(B) BY <3>1 DEF KvTextSet
  <3>3. t.blocks \o u.blocks \in Seq(B) BY <3>2
  <3> QED BY <3>1, <3>3
 <2>8. d.links = u.links \cup t.links BY <2>4 DEF KvTextSet
 <2>9. d \in [source : Nat, original : BOOLEAN, names : SUBSET Nat, links : SUBSET Nat,
              words : SUBSET Nat, blocks : Seq([heading : BOOLEAN, tokens : Nat])]
   BY <2>4, <2>7 DEF KvTextSet
 <2> QED BY <2>5, <2>6, <2>8, <2>9 DEF KvTextSet
<1> QED BY <1>2, <1>3

\* Every step keeps what is stored and what is served.
LEMMA KvStep ==
  ASSUME KvInv, [KvNext]_kvVars
  PROVE  KvInv'
<1>0. KvBase /\ KvServes /\ KvShown /\ kvRevs \in Seq(KvRevSet) BY DEF KvInv, KvBase
<1>a. ASSUME UNCHANGED kvRevs
      PROVE  /\ KvCited(kvRevs) \subseteq KvCited(kvRevs')
             /\ UNCHANGED <<kvGraphs, kvAnalyses>> => KvShown'
             /\ \A graphs, analyses : KvShownBy(graphs, analyses) => KvShownBy(graphs, analyses)'
 <2>1. \A graphs, analyses : KvShownBy(graphs, analyses) => KvShownBy(graphs, analyses)'
  <3>1. kvRevs' \in Seq(KvRevSet) /\ Len(kvRevs) <= Len(kvRevs')
        /\ \A r \in 1..Len(kvRevs) : kvRevs'[r] = kvRevs[r] BY <1>0, <1>a
  <3> QED BY <1>0, <3>1, KvShownStays
 <2>2. ASSUME UNCHANGED <<kvGraphs, kvAnalyses>> PROVE KvShown'
  <3>1. PICK graphs, analyses : graphs = kvGraphs /\ analyses = kvAnalyses OBVIOUS
  <3>2. kvGraphs' = graphs /\ kvAnalyses' = analyses BY <2>2, <3>1
  <3>3. KvShownBy(graphs, analyses)' BY <1>0, <2>1, <3>1 DEF KvShown
  <3> QED BY <3>2, <3>3 DEF KvShown
 <2> QED BY <1>a, <2>1, <2>2
<1>1. ASSUME NEW p \in KvPages, NEW t \in KvTexts, NEW ok \in BOOLEAN, KvApply(p, t, ok)
      PROVE  KvInv'
 <2>1. t \in KvTextSet BY KvAssumption DEF KvTextSet
 <2>2. KvRecord(p, t, ok) /\ UNCHANGED kvSearchVars BY <1>1 DEF KvApply
 <2>3. /\ KvBase' /\ KvShown' /\ KvCited(kvRevs) \subseteq KvCited(kvRevs')
       /\ kvCount'.faults = 0 => kvCount.faults = 0 BY <1>0, <2>1, <2>2, KvRecordGrows
 <2>4. KvServes' BY <1>0, <2>2, <2>3, KvServesGrow DEF kvSearchVars
 <2> QED BY <2>3, <2>4 DEF KvInv
<1>2. ASSUME NEW force \in BOOLEAN, NEW failed, KvBackfill(force, failed)
      PROVE  KvInv'
 <2>1. UNCHANGED <<kvRevs, kvGraphVars, kvSearchVars>> BY <1>2 DEF KvBackfill
 <2>2. KvBase' /\ (kvCount'.faults = 0 => kvCount.faults = 0) BY <1>0, <1>2, KvBackfillBase
 <2>3. KvServes' BY <1>0, <1>a, <2>1, <2>2, KvServesGrow DEF kvSearchVars
 <2> QED BY <1>a, <2>1, <2>2, <2>3 DEF KvInv, kvGraphVars
<1>b. ASSUME UNCHANGED kvIndexVars,
             \/ \E fault \in BOOLEAN : KvUnlessFault(fault) \/ KvRequest(fault)
             \/ UNCHANGED kvCount,
             KvServes' \/ UNCHANGED kvSearchVars,
             KvShown' \/ UNCHANGED <<kvGraphs, kvAnalyses>>
      PROVE  KvInv'
 <2>1. KvBase' /\ (kvCount'.faults = 0 => kvCount.faults = 0) BY <1>0, <1>b, KvCounted
 <2>2. UNCHANGED kvRevs BY <1>b DEF kvIndexVars
 <2>3. KvServes' BY <1>0, <1>a, <1>b, <2>1, <2>2, KvServesGrow DEF kvSearchVars
 <2>4. KvShown' BY <1>a, <1>b, <2>2
 <2> QED BY <2>1, <2>3, <2>4 DEF KvInv
<1>3. ASSUME NEW sources, NEW revisions, NEW found \in SUBSET KvSearchable(sources, revisions),
             KvSearch(sources, revisions, found)
      PROVE  KvInv'
 <2>1. KvServes' BY <1>0, <1>3, KvSearchKept
 <2>2. UNCHANGED <<kvIndexVars, kvGraphVars>> /\ KvRequest(FALSE) BY <1>3 DEF KvSearch
 <2> QED BY <1>b, <2>1, <2>2 DEF kvGraphVars
<1>4. ASSUME NEW similar, KvSearchDense(similar) PROVE KvInv'
 <2>1. KvServes' BY <1>0, <1>4, KvSearchDenseKept
 <2>2. UNCHANGED <<kvIndexVars, kvGraphVars, kvCount>> BY <1>4 DEF KvSearchDense
 <2> QED BY <1>b, <2>1, <2>2 DEF kvGraphVars
<1>5. CASE KvRetrieve
 <2>1. KvServes' BY <1>0, <1>5, KvRetrieveKept
 <2>2. UNCHANGED <<kvIndexVars, kvGraphVars, kvCount>> BY <1>5 DEF KvRetrieve
 <2> QED BY <1>b, <2>1, <2>2 DEF kvGraphVars
<1>6. ASSUME NEW cites, KvLearn(cites) PROVE KvInv'
 <2>1. KvServes' BY <1>0, <1>6, KvLearnKept
 <2>2. UNCHANGED <<kvIndexVars, kvGraphVars, kvCount>> BY <1>6 DEF KvLearn
 <2> QED BY <1>b, <2>1, <2>2 DEF kvGraphVars
<1>7. ASSUME NEW l \in kvLearnings, KvJudge(l) PROVE KvInv'
 <2>1. /\ UNCHANGED <<kvIndexVars, kvGraphVars, kvQuery, kvAnswer, kvCount>>
       /\ \E status : KvLearningBecomes(l, status) BY <1>7 DEF KvJudge
 <2>2. KvServes' BY <1>0, <1>a, <2>1, KvDecidedKept DEF kvIndexVars
 <2> QED BY <1>b, <2>1, <2>2 DEF kvGraphVars
<1>8. ASSUME NEW l \in kvLearnings, NEW ok \in BOOLEAN, KvApproveLearning(l, ok) PROVE KvInv'
 <2>1. /\ l.base = kvPages[KvLearningPage] /\ KvLearningBecomes(l, "approved")
       /\ KvRecord(KvLearningPage, KvDeposited(l.base), ok) /\ UNCHANGED <<kvQuery, kvAnswer>>
   BY <1>8 DEF KvApproveLearning
 <2>2. KvDeposited(l.base) \in KvTextSet BY <1>0, <2>1, KvDepositedTyped
 <2>3. PICK text \in KvTextSet : text = KvDeposited(l.base) BY <2>2
 <2>a. PICK page \in KvPages : page = KvLearningPage BY KvAssumption
 <2>b. KvRecord(page, text, ok) BY <2>1, <2>3, <2>a
 <2>4. /\ KvBase' /\ KvShown' /\ KvCited(kvRevs) \subseteq KvCited(kvRevs')
       /\ kvCount'.faults = 0 => kvCount.faults = 0 BY <1>0, <2>b, KvRecordGrows
 <2>5. KvServes' BY <1>0, <2>1, <2>4, KvDecidedKept
 <2> QED BY <2>4, <2>5 DEF KvInv
<1>9. ASSUME NEW force \in BOOLEAN, NEW ok \in BOOLEAN, KvRebuildGraph(force, ok) PROVE KvInv'
 <2>1. /\ UNCHANGED <<kvIndexVars, kvSearchVars, kvAnalyses>> /\ KvRequest(~ok)
       /\ kvGraphs' = KvRebuilt(ok) \/ kvGraphs' = KvEnsured(ok) BY <1>9 DEF KvRebuildGraph
 <2>2. KvShownBy(kvGraphs', kvAnalyses) BY <1>0, <2>1, KvRebuiltShown
 <2>3. PICK graphs, analyses : graphs = kvGraphs' /\ analyses = kvAnalyses' OBVIOUS
 <2>4. KvShownBy(graphs, analyses)' BY <1>a, <2>1, <2>2, <2>3 DEF kvIndexVars
 <2>5. KvShown' BY <2>3, <2>4 DEF KvShown
 <2> QED BY <1>b, <2>1, <2>5
<1>10. CASE KvReadGoal \/ KvGoalCommitted \/ KvReadGoalToAnalyze
            \/ (\E text \in KvGoals : KvGoalEdited(text))
            \/ \E text \in KvGoals, outcome \in {"done", "failed", "crash"} :
                 KvUpdateGoal(text, outcome)
 <2>1. /\ UNCHANGED <<kvIndexVars, kvSearchVars, kvGraphs, kvAnalyses>>
       /\ \/ \E fault \in BOOLEAN : KvRequest(fault)
          \/ UNCHANGED kvCount
   BY <1>10 DEF KvReadGoal, KvGoalCommitted, KvReadGoalToAnalyze, KvGoalEdited, KvUpdateGoal
 <2> QED BY <1>b, <2>1
<1>11. ASSUME NEW named \in {{}} \cup {{g} : g \in kvGraphs}, NEW force \in BOOLEAN,
              NEW built \in BOOLEAN, NEW ok \in BOOLEAN, KvAnalyze(named, force, built, ok)
       PROVE  KvInv'
 <2>1. /\ UNCHANGED <<kvIndexVars, kvSearchVars>> /\ KvUnlessFault(~built \/ ~ok)
       /\ kvGraphs' = kvGraphs \/ (kvGraphs' = KvEnsured(built) /\ named = {})
   BY <1>11 DEF KvAnalyze
 <2>2. PICK graphs, analyses : graphs = kvGraphs' /\ analyses = kvAnalyses' OBVIOUS
 <2>3. KvShownBy(graphs, kvAnalyses) BY <1>0, <2>1, <2>2, KvRebuiltShown DEF KvShown
 <2>5. PICK found : found = IF named = {} THEN {g \in graphs : g.pages = kvPages} ELSE named OBVIOUS
 <2>6. found \subseteq graphs
  <3>1. CASE named = {} BY <2>5, <3>1
  <3>2. CASE named # {}
   <4>1. kvGraphs' = kvGraphs BY <1>11, <3>2 DEF KvAnalyze
   <4> QED BY <2>2, <2>5, <3>2, <4>1
  <3> QED BY <3>1, <3>2
 <2>7. KvShownBy(graphs, analyses)
  <3>1. CASE \E g \in found : g.status = "ready"
   <4>1. PICK g \in found, goal \in kvAsked : \E split \in KvSplits(g) :
            kvAnalyses' = KvAnalyzed(g, goal, force, split, ok)
     BY <1>11, <2>2, <2>5, <3>1 DEF KvAnalyze
   <4>2. PICK split \in KvSplits(g) : kvAnalyses' = KvAnalyzed(g, goal, force, split, ok) BY <4>1
   <4>3. \A h \in found : h = g
    <5>1. CASE named = {} BY <2>3, <2>5, <4>2, <5>1 DEF KvShownBy
    <5>2. CASE named # {} BY <2>5, <4>2, <5>2
    <5> QED BY <5>1, <5>2
   <4>4. g.status = "ready" BY <3>1, <4>3
   <4> QED BY <2>2, <2>3, <2>6, <4>2, <4>4, KvAnalyzedShown
  <3>2. CASE ~\E g \in found : g.status = "ready"
   <4>1. UNCHANGED kvAnalyses BY <1>11, <2>2, <2>5, <3>2 DEF KvAnalyze
   <4> QED BY <2>2, <2>3, <4>1
  <3> QED BY <3>1, <3>2
 <2>8. KvShownBy(graphs, analyses)' BY <1>a, <2>1, <2>7 DEF kvIndexVars
 <2>9. KvShown' BY <2>2, <2>8 DEF KvShown
 <2> QED BY <1>b, <2>1, <2>9
<1>12. CASE UNCHANGED kvVars BY <1>12, <1>b DEF kvVars, kvGraphVars
<1> QED BY <1>1, <1>2, <1>3, <1>4, <1>5, <1>6, <1>7, <1>8, <1>9, <1>10, <1>11, <1>12 DEF KvNext

\* Nothing is stored or served at first.
LEMMA KvInitHolds ==
  ASSUME KvInit
  PROVE  KvInv
<1>1. KvBase
 <2>1. kvRevs = <<>> /\ Len(kvRevs) = 0 /\ kvRevs \in Seq(KvRevSet) BY DEF KvInit
 <2>2. KvOwns(kvPages, kvRevs) BY <2>1 DEF KvInit, KvOwns
 <2>3. KvIndexFits(KvIndex, kvRevs) BY DEF KvInit, KvIndex, KvIndexFits
 <2>4. kvCount \in KvCountSet BY KvAssumption DEF KvInit, KvCountSet
 <2>5. KvFresh(kvActive, kvPages, kvRevs) BY DEF KvInit, KvFresh
 <2> QED BY <2>1, <2>2, <2>3, <2>4, <2>5, KvAssumption DEF KvBase
<1>2. KvServes
 <2>1. KvNoBundle \in KvBundles(kvRevs)
  <3>1. KvNoBundle \in [items : Seq(KvCited(kvRevs)), used : 0..KvBudget, full : BOOLEAN,
                        hits : Seq(KvCited(kvRevs))] BY KvAssumption DEF KvNoBundle
  <3> QED BY <3>1 DEF KvNoBundle, KvBundles, KvHeads
 <2>2. KvNoQuery.sparse = <<>> /\ KvNoQuery.hits = <<>> BY DEF KvNoQuery
 <2> QED BY <2>1, <2>2 DEF KvInit, KvServes, KvDepositsCurrent
<1>3. KvShown BY DEF KvInit, KvShown, KvShownBy
<1> QED BY <1>1, <1>2, <1>3 DEF KvInv

\* The tables are well formed.
LEMMA KvInvTyped ==
  ASSUME KvInv
  PROVE  KvTypeOK
<1>1. kvPages \in [KvPages -> 0..KvMaxRevs]
 <2>1. Len(kvRevs) \in Nat /\ Len(kvRevs) <= KvMaxRevs /\ KvMaxRevs \in Nat
       /\ kvPages \in [KvPages -> 0..Len(kvRevs)] BY KvAssumption DEF KvInv, KvBase, KvOwns
 <2> QED BY <2>1
<1>2. /\ kvActive \subseteq kvChunks /\ kvIndexed \subseteq kvChunks /\ kvChunks \subseteq DOMAIN kvRevs
  BY DEF KvInv, KvBase, KvIndexFits, KvIndex
<1>3. kvCount.faults <= KvMaxFaults
 <2>1. kvCount.faults \in 0..KvMaxFaults BY DEF KvInv, KvBase, KvCountSet
 <2> QED BY <2>1, KvAssumption
<1> QED BY <1>1, <1>2, <1>3 DEF KvTypeOK, KvInv, KvShown, KvShownBy

\* What is served is true of the pages.
LEMMA KvInvTrue ==
  ASSUME KvInv
  PROVE  KvViewsHold
<1>0. kvRevs \in Seq(KvRevSet) /\ KvServes /\ KvShown BY DEF KvInv, KvBase
<1>1. ASSUME NEW g \in kvGraphs, g.status = "ready"
      PROVE  /\ g.nodes = KvNodes(g.pages)
             /\ \A e \in g.edges : /\ e.evidence # {}
                                    /\ \A c \in e.evidence : g.pages[kvRevs[c[1]].page] = c[1]
             /\ \A n \in g.nodes : LET around == KvNeighborhood(g, n.id) IN
                  \A e \in around.edges : {e.from, e.to} \subseteq {m.id : m \in around.nodes}
             /\ LET page(k) == KvOverview(g, ToSet(KvKindsInOrder), 2 * k, 2)
                    last == CHOOSE k \in 0..Cardinality(g.nodes) : page(k).next = {}
                IN UNION {page(k).nodes : k \in 0..last} = g.nodes
 <2>1. /\ KvOwns(g.pages, kvRevs) /\ g.nodes = KvNodes(g.pages)
       /\ KvCites(g.edges, g.nodes, g.pages, kvRevs)
   BY <1>0, <1>1 DEF KvShown, KvShownBy, KvGraphShown
 <2>2. \A e \in g.edges : /\ e.evidence # {}
                           /\ \A c \in e.evidence : g.pages[kvRevs[c[1]].page] = c[1]
                           /\ {e.from, e.to} \subseteq {n.id : n \in g.nodes} BY <2>1 DEF KvCites
 <2>3. IsFiniteSet(g.nodes) /\ \A n \in g.nodes : n.kind \in ToSet(KvKindsInOrder)
   BY <1>0, <2>1, KvNodesTyped
 <2>4. ASSUME NEW n \in g.nodes, NEW e \in KvNeighborhood(g, n.id).edges
       PROVE  {e.from, e.to} \subseteq {m.id : m \in KvNeighborhood(g, n.id).nodes}
   BY <2>2, KvNeighborsJoin
 <2>5. LET page(k) == KvOverview(g, ToSet(KvKindsInOrder), 2 * k, 2)
           last == CHOOSE k \in 0..Cardinality(g.nodes) : page(k).next = {}
       IN UNION {page(k).nodes : k \in 0..last} = g.nodes BY <2>3, KvPagesThrough
 <2> QED BY <2>1, <2>2, <2>4, <2>5
<1>2. KvGraphsAreTrue BY <1>1 DEF KvGraphsAreTrue
<1>3. KvAnalysesAreTrue
 <2>1. ASSUME NEW a \in kvAnalyses, a.status = "ready"
       PROVE  \E g \in kvGraphs :
         /\ g.pages = a.graph
         /\ {i \in a.insights : i.kind \in {"missing_concept", "capability_gap"}}
              = {i \in KvInsights([g EXCEPT !.nodes = KvNodes(a.graph), !.edges = {}], a.goal,
                                  [n \in {m.id : m \in KvNodes(a.graph)} |-> n]) :
                     i.kind \in {"missing_concept", "capability_gap"}}
  <3>1. PICK g \in kvGraphs :
          /\ g.pages = a.graph
          /\ KvTwoKinds(a.insights) = KvGaps(KvKnown(KvNodes(a.graph)), a.goal.capabilities)
    BY <1>0, <2>1 DEF KvShown, KvShownBy, KvAnalysisShown
  <3>2. PICK h : h = [g EXCEPT !.nodes = KvNodes(a.graph), !.edges = {}] OBVIOUS
  <3>3. PICK split : split = [n \in {m.id : m \in KvNodes(a.graph)} |-> n] OBVIOUS
  <3>4. h.nodes = KvNodes(a.graph)
   <4>1. g = KvSnapshot(g.pages, g.status, g.nodes, g.edges)
     BY <1>0 DEF KvShown, KvShownBy, KvGraphShown
   <4> QED BY <3>2, <4>1 DEF KvSnapshot
  <3>5. KvTwoKinds(KvInsights(h, a.goal, split)) =
          KvGaps(KvKnown(KvNodes(a.graph)), a.goal.capabilities) BY <3>4, KvGapsAre
  <3> QED BY <3>1, <3>2, <3>3, <3>5 DEF KvTwoKinds
 <2> QED BY <2>1 DEF KvAnalysesAreTrue
<1>4. KvAnswerFits BY <1>0, KvServesFits
<1>5. KvDepositsCurrent BY <1>0 DEF KvServes
<1> QED BY <1>2, <1>3, <1>4, <1>5 DEF KvViewsHold

(* What is derived from the pages and served is true of them: a ready
   snapshot has the nodes of its pages, cites their revisions and can be
   paged through, an analysis reports the gaps of its graph and goal, an
   answer fits its budget and begins like the ranking, and a learning takes
   in no outdated citation unless an indexing failed (graph.py,
   graph_analysis.py, retrieval.py, propose_evidence_learning). *)
THEOREM KnowledgeViewsHold == KvSpec => [](KvTypeOK /\ KvViewsHold)
<1>1. KvInit => KvInv BY KvInitHolds
<1>2. KvInv /\ [KvNext]_kvVars => KvInv' BY KvStep
<1>3. KvInv => KvTypeOK /\ KvViewsHold BY KvInvTyped, KvInvTrue
<1> QED BY <1>1, <1>2, <1>3, PTL DEF KvSpec
====
