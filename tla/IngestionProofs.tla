---- MODULE IngestionProofs ----
(* Proofs about what brings a source into the knowledge base.

   The ingestion jobs, for every set of jobs, items, keys and workers,
   whatever crashes, stops and lease expiries occur.  OneLeasePerWorker is
   not inductive: it has to be known where in its loop a worker is when it
   holds a lease (WorkInv).  AppliedOnce rests on what a worker with the
   lease may assume of the key: while it works, the key is marked as its
   item's, and a key that is given up belongs to an item that is never
   worked on again (KeyInv).  The second part needs that nobody retries a
   dead letter by hand, hence MaxRetries = 0.

   Synchronisation, for any number of paths, scanners and plans: what is
   committed is what a scan saw, once, and the hash is that of the
   manifest.  A plan may be committed long after it was made, so the
   invariant says of every plan, stored or about to be, that it fits the
   manifest as long as the watermark it was made at is the current one. *)
EXTENDS IngestJobs, SourceSync, FiniteSetTheorems, TLAPS

\* Where a worker may be with the lease of the item in its hand.
Owning == {"check", "drop", "key", "finish", "work", "parse", "applied", "fail", "reject"}

WorkOf(w) ==
    /\ worker[w].pc \in Owning \cup {"got", "ack"} => Mine(w) \in Items
    /\ \A i \in Items : Leased(i, w) =>
          /\ worker[w].pc = "dead" \/ (worker[w].pc \in Owning /\ Mine(w) = i)
          /\ worker[w].pc \in {"check", "drop", "key"} => item[i].status = "claimed"
          /\ worker[w].pc = "work"  => item[i].status \in DOMAIN Stages(i)
          /\ worker[w].pc = "parse" => item[i].status = "parsing" /\ i \notin Deletions
WorkInv == \A w \in Workers : WorkOf(w)

\* A job that does not exist yet has no cancellation and no work.
Unborn == \A j \in Jobs : job[j].status = "none" =>
              ~job[j].cancel /\ \A i \in Items : JobOf[i] = j => item[i].status = "none"

\* The key is marked as the item's.
Taken(i) == key[KeyOf[i]] = [status |-> "processing", owner |-> i]

KeysOwned ==
    \A k \in Keys :
        /\ key[k].status = "none" => key[k].owner = Nobody
        /\ key[k].status = "failed" /\ key[k].owner \in Items
             => item[key[k].owner].status \in Terminal
KeyWork ==
    \A w \in Workers, i \in Items : Leased(i, w) /\ Mine(w) = i =>
        /\ worker[w].pc \in {"work", "parse", "applied"} => Taken(i)
        /\ worker[w].pc = "finish" /\ item[i].status = "applying"
             => Taken(i) /\ KeyOf[i] \in ingested

JobInv == JobReflectsItems /\ Unborn
IngestInv == TypeOK /\ WorkInv /\ JobInv /\ MarkedWorkIsDeliverable
KeyInv == KeysOwned /\ KeyWork /\ AppliedOnce

--------------------
(* Types. *)

USE IngestAssumption DEF Goto, Up, Busy, Mine

ItemStatus == {"none"} \cup Waiting \cup Working \cup Terminal
JobStatus  == {"none", "queued", "running", "cancelling"} \cup JobTerminal

\* The statuses of items and of jobs, and how they are grouped.
LEMMA Statuses ==
  /\ {"none", "queued", "retry_wait", "external_wait", "claimed", "parsing", "understanding",
      "applying", "completed", "skipped", "dead_letter", "cancelled"} = ItemStatus
  /\ {"none", "queued", "running", "cancelling", "completed", "completed_with_errors",
      "cancelled"} = JobStatus
BY DEF ItemStatus, JobStatus, Waiting, Working, Terminal, JobTerminal

\* Rows are made of their columns.
LEMMA ItemRows ==
  ASSUME NEW s \in ItemStatus, NEW n \in Nat, NEW o \in Workers \cup {Nobody}
  PROVE  [status |-> s, attempts |-> n, owner |-> o] \in IngestItemRow
BY DEF ItemStatus, IngestItemRow

\* A row of an item with another status, owner or count of attempts is a row.
LEMMA ItemRowWith ==
  ASSUME NEW r \in IngestItemRow, NEW s \in ItemStatus, NEW o \in Workers \cup {Nobody}
  PROVE  /\ [r EXCEPT !.status = s] \in IngestItemRow
         /\ [r EXCEPT !.owner = o, !.status = s] \in IngestItemRow
         /\ [r EXCEPT !.status = s, !.owner = o] \in IngestItemRow
         /\ [r EXCEPT !.status = s, !.attempts = 0] \in IngestItemRow
BY DEF ItemStatus, IngestItemRow

\* A row of a job with another status is a row.
LEMMA JobRowWith ==
  ASSUME NEW r \in IngestJobRow, NEW s \in JobStatus
  PROVE  [r EXCEPT !.status = s] \in IngestJobRow
BY DEF JobStatus, IngestJobRow

\* The verdict on a job is one of its statuses.
LEMMA VerdictType ==
  ASSUME NEW j, NEW c, NEW rows
  PROVE  StatusOf(j, c, rows) \in JobStatus
BY Statuses DEF StatusOf

\* Refreshing a job keeps the types of the jobs.
LEMMA RefreshType ==
  ASSUME job \in [Jobs -> IngestJobRow], NEW j \in Jobs, RefreshJob(j)
  PROVE  job' \in [Jobs -> IngestJobRow]
BY VerdictType, JobRowWith DEF RefreshJob

\* Recovery keeps the types of jobs and items; the count of stalls stays a number.
LEMMA RecoverType ==
  ASSUME job \in [Jobs -> IngestJobRow], item \in [Items -> IngestItemRow], stalls \in Nat,
         RecoverExpiredLeases
  PROVE  job' \in [Jobs -> IngestJobRow] /\ item' \in [Items -> IngestItemRow] /\ stalls' \in Nat
<1>1. PICK S \in SUBSET {i \in Items : item[i].status \in Working} :
        /\ stalls' = stalls + Cardinality({i \in S : Up(item[i].owner)})
        /\ item' = [i \in Items |->
                      IF i \notin S THEN item[i]
                      ELSE [item[i] EXCEPT !.owner = Nobody,
                              !.status = IF CancelRequested(i) THEN "cancelled" ELSE "retry_wait"]]
        /\ job' = [j \in Jobs |->
                     IF \A i \in S : JobOf[i] # j THEN job[j]
                     ELSE [job[j] EXCEPT !.status = StatusOf(j, job[j].cancel, item')]]
  BY DEF RecoverExpiredLeases
<1>2. Cardinality({i \in S : Up(item[i].owner)}) \in Nat
 <2>1. IsFiniteSet({i \in S : Up(item[i].owner)}) BY FS_Subset
 <2> QED BY <2>1, FS_CardinalityType
<1>3. item' \in [Items -> IngestItemRow] BY <1>1, ItemRowWith, Statuses
<1>4. job' \in [Jobs -> IngestJobRow] BY <1>1, JobRowWith, VerdictType
<1>5. stalls' \in Nat
 <2> DEFINE n == Cardinality({i \in S : Up(item[i].owner)})
 <2>1. stalls' = stalls + n /\ n \in Nat BY <1>1, <1>2
 <2> HIDE DEF n
 <2> QED BY <2>1
<1> QED BY <1>3, <1>4, <1>5

\* Requests of the API and the passing of time.
LEMMA RequestTypes ==
  ASSUME TypeOK, NEW j \in Jobs, NEW i \in Items,
         CreateJob(j) \/ CancelJob(j) \/ RetryItem(i) \/ Due(i) \/ MarkerExpires(i)
  PROVE  TypeOK'
<1> USE DEF TypeOK
<1>1. CASE CreateJob(j)
 <2>1. item' \in [Items -> IngestItemRow] BY <1>1, ItemRowWith, Statuses DEF CreateJob
 <2>2. job' \in [Jobs -> IngestJobRow] BY <1>1, JobRowWith, Statuses DEF CreateJob
 <2> QED BY <1>1, <2>1, <2>2 DEF CreateJob, Publish, Ready, queueVars, boundVars
<1>2. CASE CancelJob(j)
 <2>1. item' \in [Items -> IngestItemRow] BY <1>2, ItemRowWith, Statuses DEF CancelJob
 <2>2. job' \in [Jobs -> IngestJobRow] BY <1>2, VerdictType DEF CancelJob, IngestJobRow, JobStatus
 <2>3. ticket' \in [Items -> TicketRow] BY <1>2 DEF CancelJob, TicketRow
 <2> QED BY <1>2, <2>1, <2>2, <2>3 DEF CancelJob, queueVars, boundVars
<1>3. CASE RetryItem(i)
 <2>1. item' \in [Items -> IngestItemRow] BY <1>3, ItemRowWith, Statuses DEF RetryItem
 <2>2. ticket' \in [Items -> TicketRow] BY <1>3 DEF RetryItem, TicketRow
 <2>3. job' \in [Jobs -> IngestJobRow] BY <1>3, RefreshType DEF RetryItem
 <2> QED BY <1>3, <2>1, <2>2, <2>3 DEF RetryItem, Publish, queueVars
<1>4. CASE Due(i) BY <1>4 DEF Due, queueVars, boundVars
<1>5. CASE MarkerExpires(i) BY <1>5 DEF MarkerExpires, dbVars, boundVars
<1> QED BY <1>1, <1>2, <1>3, <1>4, <1>5

\* A worker moves on within its loop.
LEMMA GotoType ==
  ASSUME worker \in [Workers -> [pc : WorkerPCs, item : Items \cup {Nobody}]],
         NEW w \in Workers, NEW pc \in WorkerPCs, Goto(w, pc)
  PROVE  worker' \in [Workers -> [pc : WorkerPCs, item : Items \cup {Nobody}]]
OBVIOUS

\* An item settles.
LEMMA SettledType ==
  ASSUME item \in [Items -> IngestItemRow], NEW i \in Items, NEW s \in ItemStatus, Settled(i, s)
  PROVE  item' \in [Items -> IngestItemRow]
BY ItemRowWith DEF Settled

\* Closing the ticket of an external parse leaves a table of tickets.
LEMMA CloseTicketType ==
  ASSUME ticket \in [Items -> TicketRow], NEW i \in Items, CloseTicket(i)
  PROVE  ticket' \in [Items -> TicketRow]
BY DEF CloseTicket, TicketRow

\* Releasing an idempotency key leaves a table of keys.
LEMMA ReleaseKeyType ==
  ASSUME key \in [Keys -> IngestKeyRow], NEW i \in Items, ReleaseKey(i)
  PROVE  key' \in [Keys -> IngestKeyRow]
BY DEF ReleaseKey, IngestKeyRow

\* Every place of the loop is one.
LEMMA Places ==
  WorkerPCs = {"off", "idle", "enqueue", "dead", "got", "check", "drop", "key", "finish",
               "work", "parse", "applied", "fail", "reject", "ack"}
BY DEF WorkerPCs

\* Workers come and go.
LEMMA WorkerTypes ==
  ASSUME TypeOK, WorkInv, NEW w \in Workers,
         \/ Start(w) \/ Crash(w) \/ Stop(w) \/ Reconcile(w) \/ Enqueue(w)
         \/ \E i \in Items : Take(w, i)
  PROVE  TypeOK'
<1> USE DEF TypeOK
<1>1. CASE Start(w) BY <1>1, RecoverType, GotoType, Places DEF Start, queueVars
<1>2. CASE Crash(w) BY <1>2, Places DEF Crash, Dead, dbVars, queueVars, boundVars
<1>3. CASE Stop(w) BY <1>3, Places DEF Stop, Dead, Acknowledge, dbVars, boundVars
<1>4. CASE Reconcile(w) BY <1>4, RecoverType, GotoType, Places DEF Reconcile, queueVars
<1>5. CASE Enqueue(w) BY <1>5, GotoType, Places DEF Enqueue, Publish, Ready, dbVars, boundVars
<1>6. ASSUME NEW i \in Items, Take(w, i) PROVE TypeOK'
  BY <1>6, Places DEF Take, dbVars, queueVars, boundVars
<1> QED BY <1>1, <1>2, <1>3, <1>4, <1>5, <1>6

\* A step of the work has an item in hand, keeps it until it is acknowledged,
\* and leaves the other workers alone.
LEMMA ProcessFrame ==
  ASSUME TypeOK, NEW w \in Workers, Process(w)
  PROVE  /\ worker[w].pc \in Owning \cup {"got", "ack"}
         /\ \A q \in Workers \ {w} : worker'[q] = worker[q]
         /\ Ack(w) \/ worker'[w].item = Mine(w)
<1>a. worker \in [Workers -> [pc : WorkerPCs, item : Items \cup {Nobody}]] BY DEF TypeOK
<1>b. ASSUME NEW pc, Goto(w, pc)
      PROVE  /\ worker'[w].item = Mine(w) /\ worker'[w].pc = pc
             /\ \A q \in Workers \ {w} : worker'[q] = worker[q] BY <1>a, <1>b
<1> HIDE DEF Goto
<1>1. CASE Claim(w) BY <1>b, <1>1 DEF Claim, Owning
<1>2. CASE CheckCancel(w) BY <1>b, <1>2 DEF CheckCancel, Owning
<1>3. CASE CancelClaimed(w) BY <1>b, <1>3 DEF CancelClaimed, LeaseLost, Owning
<1>4. CASE ClaimKey(w) BY <1>b, <1>4 DEF ClaimKey, Owning
<1>5. CASE StartStage(w) BY <1>b, <1>5 DEF StartStage, LeaseLost, Owning
<1>6. CASE Parsed(w) BY <1>b, <1>6 DEF Parsed, LeaseLost, Owning
<1>7. CASE Defer(w) BY <1>b, <1>7 DEF Defer, LeaseLost, Owning
<1>8. CASE Ingest(w) BY <1>b, <1>8 DEF Ingest, Owning
<1>9. CASE Complete(w) BY <1>b, <1>9 DEF Complete, LeaseLost, Owning
<1>10. CASE WorkRaises(w) BY <1>b, <1>10 DEF WorkRaises, Owning
<1>11. CASE FailItem(w) BY <1>b, <1>11 DEF FailItem, Owning
<1>12. CASE Ack(w) BY <1>a, <1>12 DEF Ack
<1> QED BY <1>1, <1>2, <1>3, <1>4, <1>5, <1>6, <1>7, <1>8, <1>9, <1>10, <1>11, <1>12 DEF Process

\* Steps of the work on one item.
LEMMA ProcessTypes ==
  ASSUME TypeOK, WorkInv, NEW w \in Workers, Process(w)
  PROVE  TypeOK'
<1> USE DEF TypeOK
<1> DEFINE i == Mine(w)
<1>0. worker[w].pc \in Owning \cup {"got", "ack"} => i \in Items /\ JobOf[i] \in Jobs
                                                   /\ KeyOf[i] \in Keys BY DEF WorkInv, WorkOf
<1>a. ASSUME LeaseLost(w)
      PROVE  UNCHANGED <<dbVars, ingested>> /\ Goto(w, "reject") BY <1>a DEF LeaseLost
<1>1. CASE Claim(w)
 <2>1. i \in Items /\ JobOf[i] \in Jobs BY <1>0, <1>1 DEF Claim
 <2>2. item' \in [Items -> IngestItemRow]
  <3>1. item[i].attempts \in Nat BY <2>1 DEF IngestItemRow
  <3>2. \A n \in Nat : [status |-> "claimed", owner |-> w, attempts |-> n] \in IngestItemRow
    BY ItemRows, Statuses
  <3> QED BY <1>1, <2>1, <3>1, <3>2 DEF Claim
 <2>3. job' \in [Jobs -> IngestJobRow]
  <3>1. job' = job \/ job' = [job EXCEPT ![JobOf[i]].status = "running"] BY <1>1 DEF Claim
  <3>2. "running" \in JobStatus BY Statuses
  <3> QED BY <2>1, <3>1, <3>2, JobRowWith
 <2>4. worker' \in [Workers -> [pc : WorkerPCs, item : Items \cup {Nobody}]]
   BY <1>1, GotoType, Places DEF Claim
 <2> QED BY <1>1, <2>2, <2>3, <2>4 DEF Claim, queueVars, boundVars
<1>2. CASE CheckCancel(w) BY <1>2, GotoType, Places DEF CheckCancel, dbVars, queueVars, boundVars
<1>3. CASE CancelClaimed(w)
 <2>1. i \in Items /\ JobOf[i] \in Jobs BY <1>0, <1>3 DEF CancelClaimed, Owning
 <2>2. item' \in [Items -> IngestItemRow] /\ ticket' \in [Items -> TicketRow]
   BY <1>3, <1>a, <2>1, SettledType, CloseTicketType, Statuses DEF CancelClaimed, dbVars
 <2>3. job' \in [Jobs -> IngestJobRow] BY <1>3, <1>a, <2>1, RefreshType DEF CancelClaimed, dbVars
 <2>4. worker' \in [Workers -> [pc : WorkerPCs, item : Items \cup {Nobody}]]
   BY <1>3, <1>a, GotoType, Places DEF CancelClaimed
 <2> QED BY <1>3, <1>a, <2>2, <2>3, <2>4 DEF CancelClaimed, dbVars, queueVars, boundVars
<1>4. CASE ClaimKey(w)
 <2>1. i \in Items /\ KeyOf[i] \in Keys BY <1>0, <1>4 DEF ClaimKey, Owning
 <2>2. key' \in [Keys -> IngestKeyRow]
  <3>1. key[KeyOf[i]] \in IngestKeyRow
        /\ [status |-> "processing", owner |-> i] \in IngestKeyRow BY <2>1 DEF IngestKeyRow
  <3> QED BY <1>4, <2>1, <3>1 DEF ClaimKey
 <2>3. worker' \in [Workers -> [pc : WorkerPCs, item : Items \cup {Nobody}]]
   BY <1>4, GotoType, Places DEF ClaimKey
 <2> QED BY <1>4, <2>2, <2>3 DEF ClaimKey, queueVars, boundVars
<1>5. CASE StartStage(w)
 <2>1. i \in Items BY <1>0, <1>5 DEF StartStage, Owning
 <2>2. item' \in [Items -> IngestItemRow]
  <3>1. CASE LeaseLost(w) BY <3>1, <1>a DEF dbVars
  <3>2. CASE ~LeaseLost(w) /\ Leased(i, w)
   <4>1. item[i].status \in DOMAIN Stages(i) BY <1>5, <2>1, <3>2 DEF StartStage, WorkInv, WorkOf
   <4>2. PICK s \in ItemStatus : s = Stages(i)[item[i].status] BY <4>1, Statuses DEF Stages
   <4>3. item' = item \/ item' = [item EXCEPT ![i].status = s] BY <1>5, <3>2, <4>2 DEF StartStage
   <4>4. [item[i] EXCEPT !.status = s] \in IngestItemRow
    <5>1. item[i] \in IngestItemRow BY <2>1
    <5>2. PICK o \in Workers \cup {Nobody} : o = Nobody OBVIOUS
    <5> QED BY <5>1, <5>2, ItemRowWith
   <4> QED BY <2>1, <4>3, <4>4
  <3> QED BY <1>5, <3>1, <3>2 DEF StartStage
 <2>3. worker' \in [Workers -> [pc : WorkerPCs, item : Items \cup {Nobody}]]
   BY <1>5, <1>a, GotoType, Places DEF StartStage
 <2> QED BY <1>5, <1>a, <2>2, <2>3 DEF StartStage, dbVars, queueVars, boundVars
<1>6. CASE Parsed(w)
 <2>1. i \in Items BY <1>0, <1>6 DEF Parsed, Owning
 <2>2. ticket' \in [Items -> TicketRow] BY <1>6, <1>a, <2>1, CloseTicketType DEF Parsed, dbVars
 <2>3. worker' \in [Workers -> [pc : WorkerPCs, item : Items \cup {Nobody}]]
   BY <1>6, <1>a, GotoType, Places DEF Parsed
 <2> QED BY <1>6, <1>a, <2>2, <2>3 DEF Parsed, dbVars, queueVars, boundVars
<1>7. CASE Defer(w)
 <2>1. i \in Items /\ JobOf[i] \in Jobs BY <1>0, <1>7 DEF Defer, Owning
 <2>2. item' \in [Items -> IngestItemRow]
   BY <1>7, <1>a, <2>1, SettledType, Statuses DEF Defer, dbVars
 <2>3. ticket' \in [Items -> TicketRow]
  <3>1. ticket[i].polls \in 0..MaxPolls BY <2>1 DEF TicketRow
  <3>2. CASE ~LeaseLost(w)
   <4>1. [state |-> "active", polls |-> ticket[i].polls + 1] \in TicketRow
     BY <1>7, <3>1 DEF Defer, TicketRow
   <4> QED BY <1>7, <2>1, <3>2, <4>1 DEF Defer
  <3> QED BY <1>a, <3>2 DEF dbVars
 <2>4. job' \in [Jobs -> IngestJobRow] BY <1>7, <1>a, <2>1, RefreshType DEF Defer, dbVars
 <2>5. worker' \in [Workers -> [pc : WorkerPCs, item : Items \cup {Nobody}]]
   BY <1>7, <1>a, GotoType, Places DEF Defer
 <2> QED BY <1>7, <1>a, <2>1, <2>2, <2>3, <2>4, <2>5 DEF Defer, dbVars, queueVars, boundVars
<1>8. CASE Ingest(w)
 <2>1. KeyOf[i] \in Keys BY <1>0, <1>8 DEF Ingest, Owning
 <2> QED BY <1>8, <2>1, GotoType, Places DEF Ingest, dbVars, queueVars, boundVars
<1>9. CASE Complete(w)
 <2>1. i \in Items /\ JobOf[i] \in Jobs /\ KeyOf[i] \in Keys BY <1>0, <1>9 DEF Complete, Owning
 <2>2. item' \in [Items -> IngestItemRow]
   BY <1>9, <1>a, <2>1, SettledType, Statuses DEF Complete, dbVars
 <2>3. key' \in [Keys -> IngestKeyRow] BY <1>9, <1>a, <2>1 DEF Complete, dbVars, IngestKeyRow
 <2>4. job' \in [Jobs -> IngestJobRow] BY <1>9, <1>a, <2>1, RefreshType DEF Complete, dbVars
 <2>5. worker' \in [Workers -> [pc : WorkerPCs, item : Items \cup {Nobody}]]
   BY <1>9, <1>a, GotoType, Places DEF Complete
 <2> QED BY <1>9, <1>a, <2>2, <2>3, <2>4, <2>5 DEF Complete, dbVars, queueVars, boundVars
<1>10. CASE WorkRaises(w) BY <1>10, GotoType, Places DEF WorkRaises, dbVars, queueVars, boundVars
<1>11. CASE FailItem(w)
 <2>1. i \in Items /\ JobOf[i] \in Jobs BY <1>0, <1>11 DEF FailItem, Owning
 <2>2. item' \in [Items -> IngestItemRow] BY <1>11, <2>1, SettledType, Statuses DEF FailItem, dbVars
 <2>3. key' \in [Keys -> IngestKeyRow] /\ ticket' \in [Items -> TicketRow]
   BY <1>11, <2>1, ReleaseKeyType, CloseTicketType DEF FailItem, dbVars
 <2>4. job' \in [Jobs -> IngestJobRow] BY <1>11, <2>1, RefreshType DEF FailItem, dbVars
 <2>5. later' \subseteq Items BY <1>11, <2>1 DEF FailItem, dbVars
 <2>6. worker' \in [Workers -> [pc : WorkerPCs, item : Items \cup {Nobody}]]
   BY <1>11, GotoType, Places DEF FailItem
 <2> QED BY <1>11, <2>2, <2>3, <2>4, <2>5, <2>6 DEF FailItem, queueVars, boundVars
<1>12. CASE Ack(w) BY <1>12, Places DEF Ack, Acknowledge, dbVars, boundVars
<1> QED BY <1>1, <1>2, <1>3, <1>4, <1>5, <1>6, <1>7, <1>8, <1>9, <1>10, <1>11, <1>12 DEF Process

--------------------
(* Who holds a lease, and where in the loop. *)

\* No worker gains a lease, and a leased item keeps its status.
LeasesShrink(q) == \A i \in Items : Leased(i, q)' => Leased(i, q) /\ item'[i].status = item[i].status

\* A worker that a step leaves alone, and that gains no lease, keeps its work.
LEMMA WorkKept ==
  ASSUME NEW q \in Workers, WorkOf(q), worker'[q] = worker[q], LeasesShrink(q)
  PROVE  WorkOf(q)'
BY DEF WorkOf, LeasesShrink

\* An expired lease is taken away.
LEMMA RecoverLeases ==
  ASSUME TypeOK, RecoverExpiredLeases
  PROVE  \A q \in Workers : LeasesShrink(q)
<1>1. PICK S \in SUBSET {i \in Items : item[i].status \in Working} :
        item' = [i \in Items |->
                      IF i \notin S THEN item[i]
                      ELSE [item[i] EXCEPT !.owner = Nobody,
                              !.status = IF CancelRequested(i) THEN "cancelled" ELSE "retry_wait"]]
  BY DEF RecoverExpiredLeases
<1>2. \A i \in Items : item'[i] = item[i] \/ item'[i].owner = Nobody
 <2> SUFFICES ASSUME NEW i \in Items, item'[i] # item[i] PROVE item'[i].owner = Nobody OBVIOUS
 <2>1. item[i] \in IngestItemRow BY DEF TypeOK
 <2> QED BY <1>1, <2>1 DEF IngestItemRow
<1> QED BY <1>2 DEF LeasesShrink, Leased

\* A settled item is leased to nobody.
LEMMA SettledRow ==
  ASSUME item \in [Items -> IngestItemRow], NEW i \in Items, NEW s, Settled(i, s)
  PROVE  /\ item'[i].status = s /\ item'[i].owner = Nobody
         /\ item'[i].attempts = item[i].attempts
         /\ \A x \in Items \ {i} : item'[x] = item[x]
         /\ \A q \in Workers : ~Leased(i, q)'
         /\ \A q \in Workers : LeasesShrink(q)
<1>1. item[i] \in IngestItemRow OBVIOUS
<1>2. /\ item'[i].status = s /\ item'[i].owner = Nobody /\ item'[i].attempts = item[i].attempts
      /\ \A x \in Items \ {i} : item'[x] = item[x] BY <1>1 DEF Settled, IngestItemRow
<1> QED BY <1>2 DEF Leased, LeasesShrink

\* Requests and the clock give no worker a lease.
LEMMA RequestWork ==
  ASSUME TypeOK, WorkInv, NEW j \in Jobs, NEW i \in Items,
         CreateJob(j) \/ CancelJob(j) \/ RetryItem(i) \/ Due(i) \/ MarkerExpires(i)
  PROVE  WorkInv'
<1>0. \A x \in Items : item[x] \in IngestItemRow BY DEF TypeOK
<1>1. worker' = worker BY DEF CreateJob, CancelJob, RetryItem, Due, MarkerExpires
<1>2. \A x \in Items : item'[x] = item[x] \/ item'[x].status \notin Working
 <2>1. CASE CreateJob(j) BY <1>0, <2>1 DEF CreateJob, Working, IngestItemRow
 <2>2. CASE CancelJob(j) BY <1>0, <2>2 DEF CancelJob, Working, IngestItemRow
 <2>3. CASE RetryItem(i) BY <1>0, <2>3 DEF RetryItem, Working, TypeOK, IngestItemRow
 <2> QED BY <2>1, <2>2, <2>3 DEF Due, MarkerExpires, dbVars
<1>3. \A q \in Workers : LeasesShrink(q) BY <1>2 DEF LeasesShrink, Leased
<1> QED BY <1>1, <1>3, WorkKept DEF WorkInv

\* A worker that starts, dies, stops or takes a message holds no lease by it.
LEMMA WorkerWork ==
  ASSUME TypeOK, WorkInv, NEW w \in Workers,
         \/ Start(w) \/ Crash(w) \/ Stop(w) \/ Reconcile(w) \/ Enqueue(w)
         \/ \E i \in Items : Take(w, i)
  PROVE  WorkInv'
<1>1. \A q \in Workers : LeasesShrink(q) BY RecoverLeases
     DEF Start, Crash, Stop, Reconcile, Enqueue, Take, dbVars, LeasesShrink, Leased
<1>2. \A q \in Workers \ {w} : worker'[q] = worker[q]
  BY DEF Start, Crash, Stop, Reconcile, Enqueue, Take, Dead, TypeOK
<1>3. \/ worker'[w].pc = "dead"
      \/ worker[w].pc \in {"off", "idle", "enqueue"} /\ worker'[w].pc \in {"idle", "enqueue"}
      \/ worker[w].pc = "idle" /\ worker'[w].pc = "got" /\ worker'[w].item \in Items
  BY DEF Start, Crash, Stop, Reconcile, Enqueue, Take, Dead, TypeOK
<1>4. WorkOf(w)'
 <2>1. CASE worker'[w].pc = "dead" BY <2>1 DEF WorkOf, Owning
 <2>2. CASE worker[w].pc \in {"off", "idle", "enqueue"}
  <3>1. \A i \in Items : ~Leased(i, w)' BY <1>1, <2>2 DEF LeasesShrink, WorkInv, WorkOf, Owning
  <3> QED BY <1>3, <2>2, <3>1 DEF WorkOf, Owning
 <2> QED BY <1>3, <2>1, <2>2
<1> QED BY <1>1, <1>2, <1>4, WorkKept DEF WorkInv

\* A worker that has not the lease of the item in its hand has none.
LEMMA NoOther ==
  ASSUME NEW w \in Workers, WorkOf(w), worker[w].pc # "dead"
  PROVE  \A i \in Items : Leased(i, w) => i = Mine(w) /\ worker[w].pc \in Owning
BY DEF WorkOf

\* A worker that processes an item has the lease of that one item only.
LEMMA ProcessWork ==
  ASSUME TypeOK, WorkInv, NEW w \in Workers, Process(w)
  PROVE  WorkInv'
<1> DEFINE i == Mine(w)
<1>0. worker[w].pc \in Owning \cup {"got", "ack"} /\ i \in Items BY ProcessFrame DEF WorkInv, WorkOf
<1>a. item[i] \in IngestItemRow /\ item \in [Items -> IngestItemRow] BY <1>0 DEF TypeOK
<1>b. \A q \in Workers \ {w} : worker'[q] = worker[q] BY ProcessFrame
<1>c. worker'[w].item = i \/ Ack(w) BY ProcessFrame
<1>d. \A x \in Items : Leased(x, w) => x = i /\ worker[w].pc \in Owning
  BY <1>0, NoOther DEF WorkInv, Owning
\* It suffices to look at the other workers' leases and at the worker itself.
<1>e. ASSUME \A q \in Workers \ {w} : LeasesShrink(q), WorkOf(w)' PROVE WorkInv'
  BY <1>b, <1>e, WorkKept DEF WorkInv
\* A step that touches no item and ends where the lease allows everything.
<1>f. ASSUME UNCHANGED item,
             \/ worker'[w].pc \in {"fail", "reject", "finish", "applied"}
             \/ worker'[w].pc = "ack" /\ \A x \in Items : ~Leased(x, w)
      PROVE  WorkInv'
 <2>1. worker'[w].item = i BY <1>c, <1>f DEF Ack, TypeOK
 <2>2. \A q \in Workers : LeasesShrink(q) BY <1>f DEF LeasesShrink, Leased
 <2>3. worker[w].pc \in Owning \/ \A x \in Items : ~Leased(x, w) BY <1>d
 <2>4. WorkOf(w)' BY <1>0, <1>d, <1>f, <2>1, <2>2, <2>3 DEF WorkOf, Owning, LeasesShrink
 <2> QED BY <1>e, <2>2, <2>4
\* A step that settles the item in hand.
<1>g. ASSUME NEW s, Settled(i, s), worker'[w].pc = "ack" PROVE WorkInv'
 <2>1. worker'[w].item = i BY <1>c, <1>g DEF Ack, TypeOK
 <2>0. PICK p \in Items : p = i BY <1>0
 <2>a. Settled(p, s) BY <1>g, <2>0 DEF Settled
 <2>2. \A q \in Workers : LeasesShrink(q) /\ ~Leased(p, q)' BY <1>a, <2>a, SettledRow
 <2>3. \A x \in Items : ~Leased(x, w)' BY <1>d, <2>0, <2>2 DEF LeasesShrink
 <2> QED BY <1>0, <1>e, <1>g, <2>1, <2>2, <2>3 DEF WorkOf, Owning
<1>h. ASSUME LeaseLost(w) PROVE WorkInv' BY <1>f, <1>h DEF LeaseLost, dbVars, TypeOK
<1>1. CASE Claim(w)
 <2>1. CASE item' = item /\ worker'[w].pc = "ack" BY <1>1, <1>d, <1>f, <2>1 DEF Claim, Owning
 <2>2. CASE ~(item' = item /\ worker'[w].pc = "ack")
  <3>1. /\ item'[i].status = "claimed" /\ item'[i].owner = w
        /\ \A x \in Items \ {i} : item'[x] = item[x]
        /\ worker'[w].pc = "check" /\ worker'[w].item = i
    BY <1>0, <1>1, <1>a, <2>2 DEF Claim, TypeOK, IngestItemRow
  <3>2. \A q \in Workers \ {w} : LeasesShrink(q) BY <3>1 DEF LeasesShrink, Leased
  <3>3. \A x \in Items : Leased(x, w)' => x = i BY <1>d, <3>1 DEF Leased
  <3>4. WorkOf(w)' BY <1>0, <3>1, <3>3 DEF WorkOf, Owning
  <3> QED BY <1>e, <3>2, <3>4
 <2> QED BY <2>1, <2>2
<1>2. CASE CheckCancel(w)
 <2>1. UNCHANGED item /\ worker[w].pc = "check" /\ worker'[w].item = i
       /\ worker'[w].pc \in {"drop", "key"} BY <1>2 DEF CheckCancel, dbVars, TypeOK
 <2>2. \A q \in Workers : LeasesShrink(q) BY <2>1 DEF LeasesShrink, Leased
 <2>3. WorkOf(w)' BY <1>0, <1>d, <2>1, <2>2 DEF WorkOf, WorkInv, Owning, LeasesShrink
 <2> QED BY <1>e, <2>2, <2>3
<1>3. CASE CancelClaimed(w) BY <1>3, <1>g, <1>h DEF CancelClaimed, TypeOK
<1>4. CASE ClaimKey(w)
 <2>1. UNCHANGED item /\ worker[w].pc = "key" /\ worker'[w].item = i
       /\ worker'[w].pc \in {"finish", "work", "reject"} BY <1>4 DEF ClaimKey, TypeOK
 <2>2. \A q \in Workers : LeasesShrink(q) BY <2>1 DEF LeasesShrink, Leased
 <2>3. \A x \in Items : Leased(x, w)' => x = i /\ item'[x].status = "claimed"
   BY <1>d, <2>1, <2>2 DEF WorkOf, WorkInv, LeasesShrink
 <2>4. "claimed" \in DOMAIN Stages(i) BY DEF Stages
 <2>5. WorkOf(w)' BY <1>0, <2>1, <2>3, <2>4 DEF WorkOf, Owning
 <2> QED BY <1>e, <2>2, <2>5
<1>5. CASE StartStage(w)
 <2>1. CASE LeaseLost(w) BY <1>h, <2>1
 <2>2. CASE ~LeaseLost(w) /\ CancelRequested(i) BY <1>5, <1>f, <2>2 DEF StartStage, TypeOK
 <2>3. CASE ~LeaseLost(w) /\ ~CancelRequested(i)
  <3>1. Leased(i, w) /\ worker[w].pc = "work" /\ item[i].status \in DOMAIN Stages(i)
    BY <1>0, <1>5, <2>3 DEF StartStage, WorkInv, WorkOf
  <3>2. PICK s \in ItemStatus : s = Stages(i)[item[i].status] BY <3>1, Statuses DEF Stages
  <3>3. item' = [item EXCEPT ![i].status = s] BY <1>5, <2>3, <3>2 DEF StartStage
  <3>4. item'[i].status = s /\ item'[i].owner = w /\ \A x \in Items \ {i} : item'[x] = item[x]
    BY <1>0, <1>a, <3>1, <3>3 DEF IngestItemRow, Leased
  <3>5. worker'[w].item = i
        /\ worker'[w].pc = (CASE s = "parsing" -> "parse" [] s = "applying" -> "applied"
                              [] OTHER -> "work") BY <1>5, <2>3, <3>4 DEF StartStage, TypeOK
  <3>6. /\ s \in {"parsing", "understanding", "applying"}
        /\ s = "understanding" => s \in DOMAIN Stages(i)
        /\ s = "parsing" => i \notin Deletions BY <3>1, <3>2 DEF Stages
  <3>7. \A q \in Workers \ {w} : LeasesShrink(q) BY <3>4 DEF LeasesShrink, Leased
  <3>8. \A x \in Items : Leased(x, w)' => x = i BY <1>d, <3>4 DEF Leased
  <3>9. WorkOf(w)' BY <1>0, <3>4, <3>5, <3>6, <3>8 DEF WorkOf, Owning
  <3> QED BY <1>e, <3>7, <3>9
 <2> QED BY <1>5, <2>1, <2>2, <2>3
<1>6. CASE Parsed(w)
 <2>1. CASE LeaseLost(w) BY <1>h, <2>1
 <2>2. CASE ~LeaseLost(w)
  <3>1. UNCHANGED item /\ worker[w].pc = "parse" /\ worker'[w].item = i /\ worker'[w].pc = "work"
    BY <1>6, <2>2 DEF Parsed, dbVars, TypeOK
  <3>2. \A q \in Workers : LeasesShrink(q) BY <3>1 DEF LeasesShrink, Leased
  <3>3. \A x \in Items : Leased(x, w)' => x = i /\ item'[x].status = "parsing" /\ x \notin Deletions
    BY <1>d, <3>1, <3>2 DEF WorkOf, WorkInv, LeasesShrink
  <3>4. i \notin Deletions => "parsing" \in DOMAIN Stages(i) BY DEF Stages
  <3>5. WorkOf(w)' BY <1>0, <3>1, <3>3, <3>4 DEF WorkOf, Owning
  <3> QED BY <1>e, <3>2, <3>5
 <2> QED BY <2>1, <2>2
<1>7. CASE Defer(w) BY <1>7, <1>g, <1>h DEF Defer, TypeOK
<1>8. CASE Ingest(w) BY <1>8, <1>f DEF Ingest, dbVars, TypeOK
<1>9. CASE Complete(w) BY <1>9, <1>g, <1>h DEF Complete, TypeOK
<1>10. CASE WorkRaises(w) BY <1>10, <1>f DEF WorkRaises, dbVars, TypeOK
<1>11. CASE FailItem(w)
 <2>1. CASE ~Leased(i, w) BY <1>11, <1>d, <1>f, <2>1 DEF FailItem, dbVars, TypeOK
 <2>2. CASE Leased(i, w) BY <1>11, <1>g, <2>2 DEF FailItem, TypeOK
 <2> QED BY <2>1, <2>2
<1>12. CASE Ack(w)
 <2>1. UNCHANGED item /\ worker[w].pc = "ack" /\ worker'[w].pc = "idle"
   BY <1>12 DEF Ack, dbVars, TypeOK
 <2>2. \A q \in Workers : LeasesShrink(q) BY <2>1 DEF LeasesShrink, Leased
 <2>3. \A x \in Items : ~Leased(x, w)' BY <1>d, <2>1, <2>2 DEF LeasesShrink, Owning
 <2>4. WorkOf(w)' BY <2>1, <2>3 DEF WorkOf, Owning
 <2> QED BY <1>e, <2>2, <2>4
<1> QED BY <1>1, <1>2, <1>3, <1>4, <1>5, <1>6, <1>7, <1>8, <1>9, <1>10, <1>11, <1>12 DEF Process

--------------------
(* Jobs and their items. *)

JobInvOf(j) ==
    /\ job[j].status = "none" =>
          ~job[j].cancel /\ \A i \in Items : JobOf[i] = j => item[i].status = "none"
    /\ job[j].status # "none" =>
          \/ job[j].status = StatusOf(j, job[j].cancel, item)
          \/ job[j].status = "queued" /\ StatusOf(j, job[j].cancel, item) = "running"

\* JobInv, job by job.
LEMMA JobInvEach == JobInv <=> \A j \in Jobs : JobInvOf(j)
BY DEF JobInv, JobInvOf, JobReflectsItems, Unborn

\* A verdict is never that there is no job.
LEMMA VerdictIsSome ==
  ASSUME NEW j, NEW c, NEW rows
  PROVE  StatusOf(j, c, rows) # "none"
BY DEF StatusOf

\* A job is not judged anew while its items work.
LEMMA JobKept ==
  ASSUME NEW j \in Jobs, JobInvOf(j), job'[j] = job[j],
         \A i \in Items : JobOf[i] = j =>
            item'[i] = item[i] \/ (item[i].status \in Working /\ item'[i].status \in Working)
  PROVE  JobInvOf(j)'
<1>1. \A i \in Items : JobOf[i] = j =>
         /\ item'[i].status \in Terminal <=> item[i].status \in Terminal
         /\ item'[i].status = "dead_letter" <=> item[i].status = "dead_letter"
         /\ item'[i].status = "none" <=> item[i].status = "none" BY DEF Working, Terminal
<1>2. StatusOf(j, job[j].cancel, item') = StatusOf(j, job[j].cancel, item) BY <1>1 DEF StatusOf
<1> QED BY <1>1, <1>2 DEF JobInvOf

\* A job that is judged in the step that changes its items.
LEMMA JobJudged ==
  ASSUME NEW j \in Jobs, job'[j].status = StatusOf(j, job'[j].cancel, item')
  PROVE  JobInvOf(j)'
BY VerdictIsSome DEF JobInvOf

\* A transition of one item with a refresh of its job.
LEMMA RefreshKeepsJobs ==
  ASSUME TypeOK, JobInv, NEW i \in Items, RefreshJob(JobOf[i]),
         \A x \in Items \ {i} : item'[x] = item[x]
  PROVE  JobInv'
<1>1. JobOf[i] \in Jobs /\ \A j \in Jobs : job[j] \in IngestJobRow BY DEF TypeOK
<1>2. /\ job'[JobOf[i]].status = StatusOf(JobOf[i], job'[JobOf[i]].cancel, item')
      /\ \A j \in Jobs \ {JobOf[i]} : job'[j] = job[j] BY <1>1 DEF RefreshJob, TypeOK, IngestJobRow
<1>3. JobInvOf(JobOf[i])' BY <1>1, <1>2, JobJudged
<1>4. \A j \in Jobs \ {JobOf[i]} : JobInvOf(j)' BY <1>2, JobInvEach, JobKept
<1> QED BY <1>3, <1>4 DEF JobInv, JobInvOf, JobReflectsItems, Unborn

\* Nothing happens to jobs and items, or an item goes on working.
LEMMA QuietKeepsJobs ==
  ASSUME JobInv, UNCHANGED job,
         \A x \in Items : item'[x] = item[x]
                            \/ (item[x].status \in Working /\ item'[x].status \in Working)
  PROVE  JobInv'
<1>1. \A j \in Jobs : JobInvOf(j)' BY JobInvEach, JobKept
<1> QED BY <1>1 DEF JobInv, JobInvOf, JobReflectsItems, Unborn

\* Recovered leases change items and their jobs together.
LEMMA RecoverKeepsJobs ==
  ASSUME TypeOK, JobInv, RecoverExpiredLeases
  PROVE  JobInv'
<1>1. PICK S \in SUBSET {i \in Items : item[i].status \in Working} :
        /\ item' = [i \in Items |->
                      IF i \notin S THEN item[i]
                      ELSE [item[i] EXCEPT !.owner = Nobody,
                              !.status = IF CancelRequested(i) THEN "cancelled" ELSE "retry_wait"]]
        /\ job' = [j \in Jobs |->
                     IF \A i \in S : JobOf[i] # j THEN job[j]
                     ELSE [job[j] EXCEPT !.status = StatusOf(j, job[j].cancel, item')]]
  BY DEF RecoverExpiredLeases
<1>2. ASSUME NEW j \in Jobs PROVE JobInvOf(j)'
 <2>1. CASE \A i \in S : JobOf[i] # j
  <3>1. job'[j] = job[j] /\ \A i \in Items : JobOf[i] = j => item'[i] = item[i] BY <1>1, <2>1
  <3> QED BY <3>1, JobKept, JobInvEach
 <2>2. CASE ~\A i \in S : JobOf[i] # j
  <3>1. job'[j] = [job[j] EXCEPT !.status = StatusOf(j, job[j].cancel, item')] BY <1>1, <2>2
  <3>2. job[j] \in IngestJobRow BY DEF TypeOK
  <3>3. job'[j].status = StatusOf(j, job'[j].cancel, item') BY <3>1, <3>2 DEF IngestJobRow
  <3> QED BY <3>3, JobJudged
 <2> QED BY <2>1, <2>2
<1> QED BY <1>2 DEF JobInv, JobInvOf, JobReflectsItems, Unborn

\* A request leaves the counters and the status of every job true.
LEMMA RequestJobs ==
  ASSUME TypeOK, JobInv, NEW j \in Jobs, NEW i \in Items,
         CreateJob(j) \/ CancelJob(j) \/ RetryItem(i) \/ Due(i) \/ MarkerExpires(i)
  PROVE  JobInv'
<1>0. (\A x \in Items : item[x] \in IngestItemRow) /\ job[j] \in IngestJobRow BY DEF TypeOK
<1>a. ASSUME JobInvOf(j)', \A k \in Jobs \ {j} : job'[k] = job[k],
             \A x \in Items : JobOf[x] # j => item'[x] = item[x]
      PROVE  JobInv'
 <2>1. \A k \in Jobs \ {j} : JobInvOf(k)' BY <1>a, JobKept, JobInvEach
 <2> QED BY <1>a, <2>1 DEF JobInv, JobInvOf, JobReflectsItems, Unborn
<1>1. CASE CreateJob(j)
 <2>1. ~job[j].cancel /\ job[j].status = "none" BY <1>1 DEF CreateJob, JobInv, Unborn
 <2>2. /\ ~job'[j].cancel
       /\ job'[j].status = IF \E x \in Items : JobOf[x] = j THEN "queued" ELSE "completed"
       /\ \A k \in Jobs \ {j} : job'[k] = job[k]
   BY <1>1, <1>0, <2>1 DEF CreateJob, TypeOK, IngestJobRow
 <2>3. \A x \in Items : IF JobOf[x] = j THEN item'[x].status = "queued" ELSE item'[x] = item[x]
   BY <1>1, <1>0 DEF CreateJob, IngestItemRow
 <2>4. JobInvOf(j)'
  <3>1. CASE \E x \in Items : JobOf[x] = j
   <4>1. StatusOf(j, job'[j].cancel, item') = "running" BY <2>2, <2>3, <3>1 DEF StatusOf, Terminal
   <4> QED BY <2>2, <3>1, <4>1 DEF JobInvOf
  <3>2. CASE ~\E x \in Items : JobOf[x] = j
   <4>1. StatusOf(j, job'[j].cancel, item') = "completed" BY <2>2, <3>2 DEF StatusOf
   <4> QED BY <2>2, <3>2, <4>1 DEF JobInvOf
  <3> QED BY <3>1, <3>2
 <2> QED BY <1>a, <2>2, <2>3, <2>4
<1>2. CASE CancelJob(j)
 <2>1. /\ job'[j].status = StatusOf(j, job'[j].cancel, item')
       /\ \A k \in Jobs \ {j} : job'[k] = job[k]
  <3>1. job' = [job EXCEPT ![j] = [cancel |-> TRUE, status |-> StatusOf(j, TRUE, item')]]
    BY <1>2 DEF CancelJob
  <3> QED BY <3>1 DEF TypeOK
 <2>2. \A x \in Items : JobOf[x] # j => item'[x] = item[x] BY <1>2 DEF CancelJob
 <2> QED BY <1>a, <2>1, <2>2, JobJudged
<1>3. CASE RetryItem(i)
 <2>1. \A x \in Items \ {i} : item'[x] = item[x] BY <1>3 DEF RetryItem, TypeOK
 <2> QED BY <1>3, <2>1, RefreshKeepsJobs DEF RetryItem
<1>4. CASE Due(i) \/ MarkerExpires(i) BY <1>4, QuietKeepsJobs DEF Due, MarkerExpires, dbVars
<1> QED BY <1>1, <1>2, <1>3, <1>4

\* So does a worker that starts, dies, stops or moves messages.
LEMMA WorkerJobs ==
  ASSUME TypeOK, JobInv, NEW w \in Workers,
         \/ Start(w) \/ Crash(w) \/ Stop(w) \/ Reconcile(w) \/ Enqueue(w)
         \/ \E i \in Items : Take(w, i)
  PROVE  JobInv'
<1>1. CASE Start(w) \/ Reconcile(w) BY <1>1, RecoverKeepsJobs DEF Start, Reconcile
<1>2. CASE Crash(w) \/ Stop(w) \/ Enqueue(w) \/ \E i \in Items : Take(w, i)
  BY <1>2, QuietKeepsJobs DEF Crash, Stop, Enqueue, Take, dbVars
<1> QED BY <1>1, <1>2

\* So does every step of processing an item.
LEMMA ProcessJobs ==
  ASSUME TypeOK, WorkInv, JobInv, NEW w \in Workers, Process(w)
  PROVE  JobInv'
<1>0. worker[w].pc \in Owning \cup {"got", "ack"} /\ Mine(w) \in Items
  BY ProcessFrame DEF WorkInv, WorkOf
<1>1. PICK i \in Items : i = Mine(w) BY <1>0
<1>2. item[i] \in IngestItemRow /\ job[JobOf[i]] \in IngestJobRow /\ JobOf[i] \in Jobs
      /\ item \in [Items -> IngestItemRow] BY DEF TypeOK
<1>a. ASSUME UNCHANGED <<job, item>> PROVE JobInv' BY <1>a, QuietKeepsJobs
<1>b. ASSUME NEW s, Settled(i, s), RefreshJob(JobOf[i]) PROVE JobInv'
  BY <1>b, <1>2, SettledRow, RefreshKeepsJobs
<1>c. ASSUME LeaseLost(w) PROVE JobInv' BY <1>a, <1>c DEF LeaseLost, dbVars
<1>3. CASE Claim(w)
 <2>1. CASE UNCHANGED <<job, item>> BY <1>a, <2>1
 <2>2. CASE ~UNCHANGED <<job, item>>
  <3>1. /\ ~job[JobOf[i]].cancel
        /\ item'[i].status = "claimed" /\ \A x \in Items \ {i} : item'[x] = item[x]
        /\ job' = [job EXCEPT ![JobOf[i]].status = "running"]
    BY <1>1, <1>2, <1>3, <2>2 DEF Claim, CancelRequested, TypeOK, IngestItemRow
  <3>2. /\ job'[JobOf[i]].status = "running" /\ ~job'[JobOf[i]].cancel
        /\ \A k \in Jobs \ {JobOf[i]} : job'[k] = job[k] BY <1>2, <3>1 DEF TypeOK, IngestJobRow
  <3>3. StatusOf(JobOf[i], job'[JobOf[i]].cancel, item') = "running"
    BY <3>1, <3>2 DEF StatusOf, Terminal
  <3>4. JobInvOf(JobOf[i])' BY <1>2, <3>2, <3>3 DEF JobInvOf
  <3>5. \A k \in Jobs \ {JobOf[i]} : JobInvOf(k)' BY <3>1, <3>2, JobKept, JobInvEach
  <3> QED BY <3>4, <3>5 DEF JobInv, JobInvOf, JobReflectsItems, Unborn
 <2> QED BY <2>1, <2>2
<1>4. CASE CheckCancel(w) \/ ClaimKey(w) \/ Parsed(w) \/ Ingest(w) \/ WorkRaises(w) \/ Ack(w)
  BY <1>4, <1>a, <1>c DEF CheckCancel, ClaimKey, Parsed, Ingest, WorkRaises, Ack, dbVars
<1>5. CASE CancelClaimed(w) BY <1>1, <1>5, <1>b, <1>c DEF CancelClaimed
<1>6. CASE StartStage(w)
 <2>1. CASE LeaseLost(w) \/ CancelRequested(Mine(w)) BY <1>6, <1>a, <1>c, <2>1 DEF StartStage
 <2>2. CASE ~(LeaseLost(w) \/ CancelRequested(Mine(w)))
  <3>1. Leased(i, w) /\ item[i].status \in DOMAIN Stages(i)
    BY <1>1, <1>6, <2>2 DEF StartStage, WorkInv, WorkOf
  <3>2. PICK s \in Working : s = Stages(i)[item[i].status] BY <3>1 DEF Stages, Working
  <3>3. item' = [item EXCEPT ![i].status = s] /\ UNCHANGED job
    BY <1>1, <1>6, <2>2, <3>2 DEF StartStage
  <3>4. item'[i].status \in Working /\ \A x \in Items \ {i} : item'[x] = item[x]
    BY <1>2, <3>3 DEF IngestItemRow
  <3> QED BY <3>1, <3>3, <3>4, QuietKeepsJobs DEF Leased
 <2> QED BY <2>1, <2>2
<1>7. CASE Defer(w) BY <1>1, <1>7, <1>b, <1>c DEF Defer
<1>8. CASE Complete(w) BY <1>1, <1>8, <1>b, <1>c DEF Complete
<1>9. CASE FailItem(w) BY <1>1, <1>9, <1>a, <1>b DEF FailItem, dbVars
<1> QED BY <1>3, <1>4, <1>5, <1>6, <1>7, <1>8, <1>9 DEF Process

--------------------
(* Types, leases, jobs and messages together. *)

\* No step drops the last message of marked work.
LEMMA MarkerKept ==
  ASSUME MarkedWorkIsDeliverable, Next
  PROVE  MarkedWorkIsDeliverable'
<1> USE DEF MarkedWorkIsDeliverable, queueVars
<1>1. ASSUME NEW j \in Jobs, CreateJob(j) \/ CancelJob(j) PROVE MarkedWorkIsDeliverable'
  BY <1>1 DEF CreateJob, CancelJob, Publish
<1>2. ASSUME NEW i \in Items, RetryItem(i) \/ Due(i) \/ MarkerExpires(i)
      PROVE  MarkedWorkIsDeliverable' BY <1>2 DEF RetryItem, Due, MarkerExpires, Publish
<1>3. ASSUME NEW w \in Workers,
             Start(w) \/ Crash(w) \/ Stop(w) \/ Reconcile(w) \/ Enqueue(w)
      PROVE  MarkedWorkIsDeliverable'
  BY <1>3 DEF Start, Crash, Stop, Reconcile, Enqueue, Acknowledge, Publish
<1>4. ASSUME NEW w \in Workers, NEW i \in Items, Take(w, i) PROVE MarkedWorkIsDeliverable'
  BY <1>4 DEF Take
<1>5. ASSUME NEW w \in Workers, Process(w) PROVE MarkedWorkIsDeliverable'
  BY <1>5 DEF Process, Claim, CheckCancel, CancelClaimed, ClaimKey, StartStage, Parsed,
       Defer, Ingest, Complete, WorkRaises, FailItem, Ack, Acknowledge
<1> QED BY <1>1, <1>2, <1>3, <1>4, <1>5 DEF Next

\* The empty tables satisfy the invariant.
LEMMA IngestInitInv == Init => IngestInv
<1> SUFFICES ASSUME Init PROVE IngestInv OBVIOUS
<1>1. TypeOK BY DEF Init, TypeOK, IngestJobRow, IngestItemRow, IngestKeyRow, TicketRow, WorkerPCs
<1>2. WorkInv BY DEF Init, WorkInv, WorkOf, Owning, Leased
<1>3. JobInv BY DEF Init, JobInv, JobReflectsItems, Unborn
<1>4. MarkedWorkIsDeliverable BY DEF Init, MarkedWorkIsDeliverable
<1> QED BY <1>1, <1>2, <1>3, <1>4 DEF IngestInv

\* Every step of requests, workers and the clock keeps the invariant.
LEMMA IngestStepInv == IngestInv /\ [Next]_vars => IngestInv'
<1> SUFFICES ASSUME IngestInv, [Next]_vars PROVE IngestInv' OBVIOUS
<1> USE DEF IngestInv
<1>1. CASE UNCHANGED vars
  BY <1>1 DEF vars, dbVars, queueVars, boundVars, TypeOK, WorkInv, WorkOf, Leased, JobInv,
       JobReflectsItems, StatusOf, Unborn, MarkedWorkIsDeliverable
<1>2. CASE Next
 <2>1. MarkedWorkIsDeliverable' BY <1>2, MarkerKept
 <2>2. ASSUME NEW j \in Jobs, CreateJob(j) \/ CancelJob(j)
       PROVE  TypeOK' /\ WorkInv' /\ JobInv'
  <3>1. CASE Items = {}
   <4>1. TypeOK'
    <5>1. CASE CreateJob(j)
     <6>1. job' \in [Jobs -> IngestJobRow] BY <5>1, JobRowWith, Statuses DEF CreateJob, TypeOK
     <6> QED BY <3>1, <5>1, <6>1 DEF CreateJob, TypeOK, Publish, Ready, queueVars, boundVars
    <5>2. CASE CancelJob(j)
     <6>1. job' \in [Jobs -> IngestJobRow]
       BY <5>2, VerdictType DEF CancelJob, IngestJobRow, JobStatus, TypeOK
     <6> QED BY <3>1, <5>2, <6>1 DEF CancelJob, TypeOK, queueVars, boundVars
    <5> QED BY <2>2, <5>1, <5>2
   <4>2. WorkInv' BY <2>2, <3>1 DEF CreateJob, CancelJob, WorkInv, WorkOf
   <4>3. JobInv' BY <2>2, <3>1 DEF CreateJob, CancelJob, JobInv, JobReflectsItems, Unborn, StatusOf,
                       TypeOK, IngestJobRow
   <4> QED BY <4>1, <4>2, <4>3
  <3>2. CASE Items # {} BY <2>2, <3>2, RequestTypes, RequestWork, RequestJobs
  <3> QED BY <3>1, <3>2
 <2>3. ASSUME NEW i \in Items, RetryItem(i) \/ Due(i) \/ MarkerExpires(i)
       PROVE  TypeOK' /\ WorkInv' /\ JobInv'
  <3>1. JobOf[i] \in Jobs OBVIOUS
  <3> QED BY <2>3, <3>1, RequestTypes, RequestWork, RequestJobs
 <2>4. ASSUME NEW w \in Workers,
              \/ Start(w) \/ Crash(w) \/ Stop(w) \/ Reconcile(w) \/ Enqueue(w)
              \/ \E i \in Items : Take(w, i)
       PROVE  TypeOK' /\ WorkInv' /\ JobInv' BY <2>4, WorkerTypes, WorkerWork, WorkerJobs
 <2>5. ASSUME NEW w \in Workers, Process(w) PROVE TypeOK' /\ WorkInv' /\ JobInv'
   BY <2>5, ProcessTypes, ProcessWork, ProcessJobs
 <2> QED BY <1>2, <2>1, <2>2, <2>3, <2>4, <2>5 DEF Next
<1> QED BY <1>1, <1>2

\* A worker with a lease holds the item in its hand.
LEMMA LeaseInHand == WorkInv => OneLeasePerWorker
BY DEF WorkInv, WorkOf, Owning, OneLeasePerWorker

--------------------
(* Keys, when no dead letter is retried by hand. *)

\* What ended stays as it is, and nothing is completed.
NothingCompleted ==
    \A i \in Items : /\ item[i].status \in Terminal => item'[i] = item[i]
                     /\ item'[i].status = "completed" => item[i].status = "completed"

KeyWorkOf(w) ==
    \A i \in Items : Leased(i, w) /\ Mine(w) = i =>
        /\ worker[w].pc \in {"work", "parse", "applied"} => Taken(i)
        /\ worker[w].pc = "finish" /\ item[i].status = "applying"
             => Taken(i) /\ KeyOf[i] \in ingested

\* Keys stay owned and applied once while no key moves and nothing completes.
LEMMA OwnedKept ==
  ASSUME KeysOwned, AppliedOnce, key' = key, ingested \subseteq ingested', NothingCompleted
  PROVE  KeysOwned' /\ AppliedOnce'
BY DEF KeysOwned, AppliedOnce, NothingCompleted

\* A worker that a step leaves alone, and that gains no lease, keeps its key.
LEMMA KeyWorkKept ==
  ASSUME NEW q \in Workers, KeyWorkOf(q), worker'[q] = worker[q], LeasesShrink(q),
         \A i \in Items : Leased(i, q) /\ Mine(q) = i /\ Taken(i) => Taken(i)',
         ingested \subseteq ingested'
  PROVE  KeyWorkOf(q)'
BY DEF KeyWorkOf, LeasesShrink

\* A recovered lease completes no item.
LEMMA RecoverSettlesNothing ==
  ASSUME TypeOK, RecoverExpiredLeases
  PROVE  NothingCompleted
<1>1. PICK S \in SUBSET {i \in Items : item[i].status \in Working} :
        item' = [i \in Items |->
                      IF i \notin S THEN item[i]
                      ELSE [item[i] EXCEPT !.owner = Nobody,
                              !.status = IF CancelRequested(i) THEN "cancelled" ELSE "retry_wait"]]
  BY DEF RecoverExpiredLeases
<1>2. SUFFICES ASSUME NEW i \in Items
      PROVE  /\ item[i].status \in Terminal => item'[i] = item[i]
             /\ item'[i].status = "completed" => item[i].status = "completed"
  BY DEF NothingCompleted
<1>3. item[i] \in IngestItemRow BY DEF TypeOK
<1> QED BY <1>1, <1>3 DEF IngestItemRow, Working, Terminal

\* Without manual retries no request lets an ingested change be taken again.
LEMMA RequestKeys ==
  ASSUME MaxRetries = 0, TypeOK, WorkInv, JobInv, KeyInv, NEW j \in Jobs, NEW i \in Items,
         CreateJob(j) \/ CancelJob(j) \/ RetryItem(i) \/ Due(i) \/ MarkerExpires(i)
  PROVE  KeyInv'
<1>0. \A x \in Items : item[x] \in IngestItemRow BY DEF TypeOK
<1>1. ~RetryItem(i) BY DEF RetryItem, TypeOK
<1>2. worker' = worker /\ key' = key /\ ingested' = ingested
  BY <1>1 DEF CreateJob, CancelJob, Due, MarkerExpires, dbVars
<1>3. NothingCompleted /\ \A q \in Workers : LeasesShrink(q)
 <2>1. CASE CreateJob(j)
  <3>1. \A x \in Items : JobOf[x] = j => item[x].status = "none"
    BY <2>1 DEF CreateJob, JobInv, Unborn
  <3>2. \A x \in Items : item'[x] = item[x]
                           \/ (item[x].status = "none" /\ item'[x].status = "queued")
    BY <1>0, <2>1, <3>1 DEF CreateJob, IngestItemRow
  <3> QED BY <3>2 DEF NothingCompleted, LeasesShrink, Leased, Working, Terminal
 <2>2. CASE CancelJob(j)
  <3>1. \A x \in Items : item'[x] = item[x]
                           \/ (item[x].status \in Waiting /\ item'[x].status = "cancelled")
    BY <1>0, <2>2 DEF CancelJob, IngestItemRow
  <3> QED BY <3>1 DEF NothingCompleted, LeasesShrink, Leased, Waiting, Working, Terminal
 <2>3. CASE Due(i) \/ MarkerExpires(i)
   BY <2>3 DEF Due, MarkerExpires, dbVars, NothingCompleted, LeasesShrink, Leased
 <2> QED BY <1>1, <2>1, <2>2, <2>3
<1>4. KeysOwned' /\ AppliedOnce' BY <1>2, <1>3, OwnedKept DEF KeyInv
<1>5. \A q \in Workers : KeyWorkOf(q)'
  BY <1>2, <1>3, KeyWorkKept DEF KeyInv, KeyWork, KeyWorkOf, Taken
<1> QED BY <1>4, <1>5 DEF KeyInv, KeyWork, KeyWorkOf

\* Starting, dying, stopping and moving messages leave every key as it is.
LEMMA WorkerKeys ==
  ASSUME TypeOK, WorkInv, KeyInv, NEW w \in Workers,
         \/ Start(w) \/ Crash(w) \/ Stop(w) \/ Reconcile(w) \/ Enqueue(w)
         \/ \E i \in Items : Take(w, i)
  PROVE  KeyInv'
<1>1. key' = key /\ ingested' = ingested /\ NothingCompleted BY RecoverSettlesNothing
     DEF Start, Crash, Stop, Reconcile, Enqueue, Take, dbVars, NothingCompleted
<1>2. \A q \in Workers : LeasesShrink(q) BY RecoverLeases
     DEF Start, Crash, Stop, Reconcile, Enqueue, Take, dbVars, LeasesShrink, Leased
<1>3. \A q \in Workers \ {w} : worker'[q] = worker[q]
  BY DEF Start, Crash, Stop, Reconcile, Enqueue, Take, Dead, TypeOK
<1>4. worker'[w].pc \in {"dead", "idle", "enqueue", "got"}
  BY DEF Start, Crash, Stop, Reconcile, Enqueue, Take, Dead, TypeOK
<1>5. KeysOwned' /\ AppliedOnce' BY <1>1, OwnedKept DEF KeyInv
<1>6. \A q \in Workers \ {w} : KeyWorkOf(q)'
  BY <1>1, <1>2, <1>3, KeyWorkKept DEF KeyInv, KeyWork, KeyWorkOf, Taken
<1>7. KeyWorkOf(w)' BY <1>4 DEF KeyWorkOf
<1> QED BY <1>5, <1>6, <1>7 DEF KeyInv, KeyWork, KeyWorkOf

\* A step of the work on an item that leaves the keys alone, settles it in
\* another way than completed or lets it be, and ends where nothing is asked of
\* the key or where nothing more is asked than before.
LEMMA KeysUntouched ==
  ASSUME TypeOK, WorkInv, KeyInv, NEW w \in Workers, NEW i \in Items, i = Mine(w),
         key' = key, ingested \subseteq ingested',
         \A q \in Workers \ {w} : worker'[q] = worker[q],
         \/ UNCHANGED item
         \/ /\ Leased(i, w)
            /\ \E s \in ItemStatus \ {"completed"} :
                  Settled(i, s) \/ (item' = [item EXCEPT ![i].status = s]),
         KeyWorkOf(w)'
  PROVE  KeyInv'
<1>1. item[i] \in IngestItemRow /\ item \in [Items -> IngestItemRow] BY DEF TypeOK
<1>2. NothingCompleted /\ \A q \in Workers \ {w} : LeasesShrink(q)
 <2>1. CASE UNCHANGED item BY <2>1 DEF NothingCompleted, LeasesShrink, Leased
 <2>2. CASE ~UNCHANGED item
  <3>1. PICK s \in ItemStatus \ {"completed"} :
           Settled(i, s) \/ (item' = [item EXCEPT ![i].status = s]) BY <2>2
  <3>2. item'[i].status = s /\ item'[i].owner \in {w, Nobody}
        /\ \A x \in Items \ {i} : item'[x] = item[x]
    BY <1>1, <2>2, <3>1, SettledRow DEF IngestItemRow, Leased
  <3>3. item[i].status \in Working BY <2>2 DEF Leased
  <3> QED BY <3>2, <3>3 DEF NothingCompleted, LeasesShrink, Leased, Working, Terminal
 <2> QED BY <2>1, <2>2
<1>3. KeysOwned' /\ AppliedOnce' BY <1>2, OwnedKept DEF KeyInv
<1>4. \A q \in Workers \ {w} : KeyWorkOf(q)'
  BY <1>2, KeyWorkKept DEF KeyInv, KeyWork, KeyWorkOf, Taken
<1> QED BY <1>3, <1>4 DEF KeyInv, KeyWork, KeyWorkOf

\* A worker applies a change only under a key that it has taken.
LEMMA ProcessKeys ==
  ASSUME TypeOK, WorkInv, KeyInv, NEW w \in Workers, Process(w)
  PROVE  KeyInv'
<1>0. worker[w].pc \in Owning \cup {"got", "ack"} /\ Mine(w) \in Items
  BY ProcessFrame DEF WorkInv, WorkOf
<1>1. PICK i \in Items : i = Mine(w) BY <1>0
<1>2. item[i] \in IngestItemRow /\ key[KeyOf[i]] \in IngestKeyRow /\ KeyOf[i] \in Keys
      /\ item \in [Items -> IngestItemRow] /\ key \in [Keys -> IngestKeyRow] BY DEF TypeOK
<1>3. \A q \in Workers \ {w} : worker'[q] = worker[q] BY ProcessFrame
<1>4. \A x \in Items : Leased(x, w) => x = i /\ worker[w].pc \in Owning
  BY <1>0, <1>1, NoOther DEF WorkInv, Owning
<1>5. Ack(w) \/ worker'[w].item = Mine(w) BY ProcessFrame
<1>a. ASSUME key' = key, ingested' = ingested, UNCHANGED item, KeyWorkOf(w)'
      PROVE  KeyInv' BY <1>a, <1>1, <1>3, KeysUntouched
<1>b. ASSUME NEW s \in ItemStatus \ {"completed"}, key' = key, ingested' = ingested,
             Leased(i, w), Settled(i, s), KeyWorkOf(w)'
      PROVE  KeyInv' BY <1>b, <1>1, <1>3, KeysUntouched
\* Where the worker ends, nothing is asked of the key.
<1>c. ASSUME worker'[w].pc \in {"check", "drop", "key", "fail", "reject", "ack", "idle"}
      PROVE  KeyWorkOf(w)' BY <1>c DEF KeyWorkOf
<1>d. ASSUME LeaseLost(w) PROVE KeyInv' BY <1>a, <1>c, <1>d DEF LeaseLost, dbVars, TypeOK
<1>6. CASE Claim(w)
 <2>1. worker'[w].pc \in {"check", "ack"} /\ key' = key /\ ingested' = ingested
   BY <1>6 DEF Claim, TypeOK
 <2>2. CASE UNCHANGED item BY <1>a, <1>c, <2>1, <2>2
 <2>3. CASE ~UNCHANGED item
  <3>1. /\ item'[i].status = "claimed" /\ item'[i].owner = w /\ item[i].status \in Waiting
        /\ \A x \in Items \ {i} : item'[x] = item[x]
    BY <1>1, <1>2, <1>6, <2>3 DEF Claim, IngestItemRow
  <3>2. NothingCompleted /\ \A q \in Workers \ {w} : LeasesShrink(q)
    BY <3>1 DEF NothingCompleted, LeasesShrink, Leased, Waiting, Terminal
  <3>3. KeysOwned' /\ AppliedOnce' BY <2>1, <3>2, OwnedKept DEF KeyInv
  <3>4. \A q \in Workers \ {w} : KeyWorkOf(q)'
    BY <1>3, <2>1, <3>2, KeyWorkKept DEF KeyInv, KeyWork, KeyWorkOf, Taken
  <3> QED BY <1>c, <2>1, <3>3, <3>4 DEF KeyInv, KeyWork, KeyWorkOf
 <2> QED BY <2>2, <2>3
<1>7. CASE CheckCancel(w) BY <1>7, <1>a, <1>c DEF CheckCancel, dbVars, TypeOK
<1>8. CASE CancelClaimed(w) BY <1>1, <1>8, <1>b, <1>c, <1>d, Statuses DEF CancelClaimed, TypeOK
<1>9. CASE ClaimKey(w)
 <2>1. /\ worker[w].pc = "key" /\ UNCHANGED <<item, ingested>>
       /\ worker'[w].item = i /\ worker'[w].pc \in {"finish", "work", "reject"}
   BY <1>1, <1>9 DEF ClaimKey, TypeOK
 <2>2. Leased(i, w) => item[i].status = "claimed" BY <2>1 DEF WorkInv, WorkOf
 <2>3. \A x \in Items : Leased(x, w)' => x = i /\ Leased(i, w) BY <1>4, <2>1 DEF Leased
 <2>4. CASE worker'[w].pc \in {"finish", "reject"}
  <3>1. key' = key BY <1>9, <2>1, <2>4 DEF ClaimKey, TypeOK
  <3>2. KeyWorkOf(w)' BY <2>1, <2>2, <2>3, <2>4 DEF KeyWorkOf
  <3> QED BY <1>a, <2>1, <3>1, <3>2
 <2>5. CASE worker'[w].pc = "work"
  <3> DEFINE k == key[KeyOf[i]]
  <3>1. /\ k.status \in {"none", "failed"} \/ k.owner = i
        /\ k.status # "completed"
        /\ key' = [key EXCEPT ![KeyOf[i]] =
                     IF k.owner = i THEN k ELSE [status |-> "processing", owner |-> i]]
    BY <1>1, <1>9, <2>1, <2>5 DEF ClaimKey, TypeOK
  <3>2. CASE k.owner = i
   <4>1. key' = key BY <1>2, <3>1, <3>2
   <4>2. Leased(i, w) => k.status \notin {"none", "failed"}
     BY <1>2, <2>2, <3>2 DEF KeyInv, KeysOwned, Terminal
   <4>3. Leased(i, w) => Taken(i) BY <1>2, <3>1, <3>2, <4>2 DEF IngestKeyRow, Taken
   <4>4. KeyWorkOf(w)' BY <2>1, <2>3, <2>5, <4>1, <4>3 DEF KeyWorkOf, Taken
   <4> QED BY <1>a, <2>1, <4>1, <4>4
  <3>3. CASE k.owner # i
   <4>1. /\ key'[KeyOf[i]] = [status |-> "processing", owner |-> i]
         /\ \A c \in Keys \ {KeyOf[i]} : key'[c] = key[c]
         /\ k.status \in {"none", "failed"} BY <1>2, <3>1, <3>3
   <4>2. KeysOwned' BY <2>1, <4>1 DEF KeyInv, KeysOwned
   <4>3. AppliedOnce' BY <2>1, <4>1 DEF KeyInv, AppliedOnce
   <4>4. \A x \in Items : Taken(x) => Taken(x)' BY <4>1 DEF Taken
   <4>5. \A q \in Workers \ {w} : KeyWorkOf(q)'
     BY <1>3, <2>1, <4>4, KeyWorkKept DEF KeyInv, KeyWork, KeyWorkOf, LeasesShrink, Leased
   <4>6. KeyWorkOf(w)' BY <2>1, <2>3, <2>5, <4>1 DEF KeyWorkOf, Taken
   <4> QED BY <4>2, <4>3, <4>5, <4>6 DEF KeyInv, KeyWork, KeyWorkOf
  <3> QED BY <3>2, <3>3
 <2> QED BY <2>1, <2>4, <2>5
<1>10. CASE StartStage(w)
 <2>1. CASE LeaseLost(w) \/ CancelRequested(Mine(w))
   BY <1>10, <1>a, <1>c, <1>d, <2>1 DEF StartStage, TypeOK
 <2>2. CASE ~(LeaseLost(w) \/ CancelRequested(Mine(w)))
  <3>1. Leased(i, w) /\ item[i].status \in DOMAIN Stages(i) /\ worker[w].pc = "work"
        /\ key' = key /\ ingested' = ingested BY <1>1, <1>10, <2>2 DEF StartStage, WorkInv, WorkOf
  <3>2. PICK s \in Working : s = Stages(i)[item[i].status] BY <3>1 DEF Stages, Working
  <3>3. item' = [item EXCEPT ![i].status = s] BY <1>1, <1>10, <2>2, <3>2 DEF StartStage
  <3>4. item'[i].owner = w /\ \A x \in Items \ {i} : item'[x] = item[x]
    BY <1>2, <3>1, <3>3 DEF IngestItemRow, Leased
  <3>5. worker'[w].item = i /\ worker'[w].pc \in {"parse", "applied", "work"}
    BY <1>1, <1>10, <2>2 DEF StartStage, TypeOK
  <3>6. Taken(i) BY <1>1, <3>1 DEF KeyInv, KeyWork
  <3>7. KeyWorkOf(w)' BY <3>1, <3>5, <3>6 DEF KeyWorkOf, Taken
  <3>8. s \in ItemStatus \ {"completed"} BY DEF Working, ItemStatus
  <3> QED BY <1>1, <1>3, <3>1, <3>3, <3>7, <3>8, KeysUntouched
 <2> QED BY <2>1, <2>2
<1>11. CASE Parsed(w)
 <2>1. CASE LeaseLost(w) BY <1>d, <2>1
 <2>2. CASE ~LeaseLost(w)
  <3>1. UNCHANGED <<item, key, ingested>> /\ worker[w].pc = "parse"
        /\ worker'[w].item = i /\ worker'[w].pc = "work"
    BY <1>1, <1>11, <2>2 DEF Parsed, dbVars, TypeOK
  <3>2. KeyWorkOf(w)' BY <1>1, <1>4, <3>1 DEF KeyInv, KeyWork, KeyWorkOf, Taken, Leased
  <3> QED BY <1>a, <3>1, <3>2
 <2> QED BY <2>1, <2>2
<1>12. CASE Defer(w) BY <1>1, <1>12, <1>b, <1>c, <1>d, Statuses DEF Defer, TypeOK
<1>13. CASE Ingest(w)
 <2>1. /\ UNCHANGED <<item, key>> /\ worker[w].pc = "applied"
       /\ worker'[w].item = i /\ worker'[w].pc = "finish"
       /\ ingested' = ingested \cup {KeyOf[i]} BY <1>1, <1>13 DEF Ingest, dbVars, TypeOK
 <2>2. KeyWorkOf(w)' BY <1>1, <1>4, <2>1 DEF KeyInv, KeyWork, KeyWorkOf, Taken, Leased
 <2> QED BY <1>1, <1>3, <2>1, <2>2, KeysUntouched
<1>14. CASE Complete(w)
 <2>1. CASE LeaseLost(w) BY <1>d, <2>1
 <2>2. CASE ~LeaseLost(w) /\ item[i].status # "applying"
   BY <1>1, <1>14, <1>b, <1>c, <2>2, Statuses DEF Complete, TypeOK
 <2>3. CASE ~LeaseLost(w) /\ item[i].status = "applying"
  <3>1. /\ Leased(i, w) /\ Settled(i, "completed") /\ worker[w].pc = "finish"
        /\ worker'[w].pc = "ack" /\ ingested' = ingested
        /\ key' = [key EXCEPT ![KeyOf[i]].status =
                     IF key[KeyOf[i]].owner = i THEN "completed" ELSE @]
    BY <1>1, <1>14, <2>3 DEF Complete, TypeOK
  <3>2. Taken(i) /\ KeyOf[i] \in ingested BY <1>1, <2>3, <3>1 DEF KeyInv, KeyWork
  <3>3. /\ key'[KeyOf[i]] = [status |-> "completed", owner |-> i]
        /\ \A c \in Keys \ {KeyOf[i]} : key'[c] = key[c] BY <1>2, <3>1, <3>2 DEF Taken
  <3>4. /\ item'[i].status = "completed" /\ \A x \in Items \ {i} : item'[x] = item[x]
        /\ \A q \in Workers : LeasesShrink(q) /\ ~Leased(i, q)' BY <1>2, <3>1, SettledRow
  <3>5. KeysOwned' BY <3>3, <3>4 DEF KeyInv, KeysOwned, Terminal
  <3>6. AppliedOnce'
   <4>1. \A x \in Items \ {i} : item[x].status = "completed" => KeyOf[x] # KeyOf[i]
    <5>1. key[KeyOf[i]].status = "processing" BY <3>2 DEF Taken
    <5>2. ASSUME NEW x \in Items, item[x].status = "completed" PROVE key[KeyOf[x]].status = "completed"
     <6>1. key[KeyOf[x]] = [status |-> "completed", owner |-> x] BY <5>2 DEF KeyInv, AppliedOnce
     <6> QED BY <6>1
    <5> QED BY <5>1, <5>2
   <4> QED BY <3>1, <3>2, <3>3, <3>4, <4>1 DEF KeyInv, AppliedOnce
  <3>7. \A q \in Workers \ {w} : KeyWorkOf(q)'
   <4>1. \A q \in Workers, x \in Items : Leased(x, q)' /\ Taken(x) => Taken(x)'
     BY <3>2, <3>3, <3>4 DEF Taken
   <4> QED BY <1>3, <3>1, <3>4, <4>1 DEF KeyInv, KeyWork, KeyWorkOf, LeasesShrink
  <3> QED BY <1>c, <3>1, <3>5, <3>6, <3>7 DEF KeyInv, KeyWork, KeyWorkOf
 <2> QED BY <2>1, <2>2, <2>3
<1>15. CASE WorkRaises(w) BY <1>15, <1>a, <1>c DEF WorkRaises, dbVars, TypeOK
<1>16. CASE FailItem(w)
 <2>1. worker'[w].pc = "ack" /\ ingested' = ingested BY <1>16 DEF FailItem, TypeOK
 <2>2. CASE ~Leased(i, w) BY <1>1, <1>16, <1>a, <1>c, <2>1, <2>2 DEF FailItem, dbVars
 <2>3. CASE Leased(i, w) /\ key' = key BY <1>1, <1>16, <1>b, <1>c, <2>1, <2>3, Statuses DEF FailItem
 <2>4. CASE Leased(i, w) /\ key' # key
  <3>1. PICK s \in {"cancelled", "dead_letter"} : Settled(i, s) /\ ReleaseKey(i)
    BY <1>1, <1>16, <2>4 DEF FailItem
  <3>2. /\ item'[i].status = s /\ \A x \in Items \ {i} : item'[x] = item[x]
        /\ \A q \in Workers : LeasesShrink(q) /\ ~Leased(i, q)' BY <1>2, <3>1, SettledRow
  <3>3. key[KeyOf[i]].owner = i BY <1>2, <2>4, <3>1 DEF ReleaseKey, IngestKeyRow
  <3>4. /\ key'[KeyOf[i]].status = "failed" /\ key'[KeyOf[i]].owner = i
        /\ \A c \in Keys \ {KeyOf[i]} : key'[c] = key[c]
    BY <1>2, <3>1, <3>3 DEF ReleaseKey, IngestKeyRow
  <3>5. \A x \in Items : item[x].status \in Terminal => x # i BY <2>4 DEF Leased, Working, Terminal
  <3>6. KeysOwned' BY <3>2, <3>4, <3>5 DEF KeyInv, KeysOwned, Terminal
  <3>7. AppliedOnce'
   <4>1. \A x \in Items : item'[x].status = "completed" => KeyOf[x] # KeyOf[i] /\ x # i
    <5>1. ASSUME NEW x \in Items, item[x].status = "completed" PROVE key[KeyOf[x]].owner = x
     <6>1. key[KeyOf[x]] = [status |-> "completed", owner |-> x] BY <5>1 DEF KeyInv, AppliedOnce
     <6> QED BY <6>1
    <5>2. \A x \in Items : item'[x].status = "completed" => x # i /\ item[x].status = "completed"
      BY <3>1, <3>2
    <5> QED BY <3>3, <5>1, <5>2
   <4> QED BY <2>1, <3>2, <3>4, <4>1 DEF KeyInv, AppliedOnce
  <3>8. \A q \in Workers \ {w} : KeyWorkOf(q)'
   <4>1. \A q \in Workers, x \in Items : Leased(x, q)' /\ Taken(x) => Taken(x)'
     BY <3>2, <3>3, <3>4 DEF Taken
   <4> QED BY <1>3, <2>1, <3>2, <4>1 DEF KeyInv, KeyWork, KeyWorkOf, LeasesShrink
  <3> QED BY <1>c, <2>1, <3>6, <3>7, <3>8 DEF KeyInv, KeyWork, KeyWorkOf
 <2> QED BY <2>2, <2>3, <2>4
<1>17. CASE Ack(w) BY <1>17, <1>a, <1>c DEF Ack, dbVars, TypeOK
<1> QED BY <1>6, <1>7, <1>8, <1>9, <1>10, <1>11, <1>12, <1>13, <1>14, <1>15, <1>16, <1>17 DEF Process

--------------------
(* The tables keep their types, the queue never forgets a marked item, a
   lease is worked on by its owner only, and jobs report what has become
   of their items: whatever workers crash, stop or lose their leases, and
   with any number of retries by hand (_require_lease, _refresh_job,
   publish and acknowledge in core/knowledge/jobs). *)
THEOREM JobsSafe ==
  Spec => [](TypeOK /\ JobReflectsItems /\ MarkedWorkIsDeliverable /\ OneLeasePerWorker)
<1>1. IngestInv => TypeOK /\ JobReflectsItems /\ MarkedWorkIsDeliverable /\ OneLeasePerWorker
  BY LeaseInHand DEF IngestInv, JobInv
<1> QED BY <1>1, IngestInitInv, IngestStepInv, PTL DEF Spec

(* A change is applied once: as long as no dead letter is retried by hand,
   at most one item of all that carry the same idempotency key is ever
   completed, and the store has received its content; the rest of
   IngestHolds holds next to it (claim_idempotency, complete_item). *)
THEOREM ChangesAppliedOnce ==
  ASSUME MaxRetries = 0
  PROVE  Spec => []IngestHolds
<1>1. Init => KeyInv BY DEF Init, KeyInv, KeysOwned, KeyWork, AppliedOnce, Leased
<1>2. IngestInv /\ KeyInv /\ [Next]_vars => KeyInv'
 <2> SUFFICES ASSUME IngestInv, KeyInv, [Next]_vars PROVE KeyInv' OBVIOUS
 <2>1. CASE UNCHANGED vars
   BY <2>1 DEF vars, dbVars, KeyInv, KeysOwned, KeyWork, AppliedOnce, Leased, Taken
 <2>2. CASE Next
  <3>1. ASSUME NEW j \in Jobs, CreateJob(j) \/ CancelJob(j) PROVE KeyInv'
   <4>1. CASE Items = {}
    <5>1. key' = key /\ KeyOf = KeyOf BY <3>1 DEF CreateJob, CancelJob
    <5> QED BY <4>1, <5>1 DEF KeyInv, KeysOwned, KeyWork, AppliedOnce
   <4>2. CASE Items # {} BY <3>1, <4>2, RequestKeys DEF IngestInv
   <4> QED BY <4>1, <4>2
  <3>2. ASSUME NEW i \in Items, RetryItem(i) \/ Due(i) \/ MarkerExpires(i) PROVE KeyInv'
   <4>1. JobOf[i] \in Jobs OBVIOUS
   <4> QED BY <3>2, <4>1, RequestKeys DEF IngestInv
  <3>3. ASSUME NEW w \in Workers,
             \/ Start(w) \/ Crash(w) \/ Stop(w) \/ Reconcile(w) \/ Enqueue(w)
             \/ \E i \in Items : Take(w, i)
        PROVE  KeyInv' BY <3>3, WorkerKeys DEF IngestInv
  <3>4. ASSUME NEW w \in Workers, Process(w) PROVE KeyInv' BY <3>4, ProcessKeys DEF IngestInv
  <3> QED BY <2>2, <3>1, <3>2, <3>3, <3>4 DEF Next
 <2> QED BY <2>1, <2>2
<1>3. IngestInv /\ KeyInv => IngestHolds BY LeaseInHand DEF IngestInv, JobInv, KeyInv, IngestHolds
<1> QED BY <1>1, <1>2, <1>3, IngestInitInv, IngestStepInv, PTL DEF Spec

--------------------
(* Synchronisation. *)

FileStatuses == {"none", "present", "deleted"}
PlanStatuses == {"planned", "running", "retryable", "completed", "cancelled", "conflict"}
JobStatuses == {"queued", "running", "cancelling", "completed", "completed_with_errors",
                "cancelled"}
ItemStatuses == {"todo", "held", "completed", "skipped", "dead_letter", "cancelled"}

ManifestRow == [rev : Revisions \cup {None}, status : FileStatuses]
Manifests == [Paths -> ManifestRow]
Files == SUBSET (Paths \X Revisions)
Checkpoints == {None} \cup Files
Changes == [path : Paths, kind : Kinds, prev : Revisions \cup {None}, rev : Revisions \cup {None}]
PlanRow == [status : PlanStatuses, hash : Manifests]
JobRows(p) == [items : [p.changes -> ItemStatuses], cancel : BOOLEAN, status : JobStatuses]

--------------------
\* The files a scan of a directory can see: one revision per path.
SeenIn(found, scope) ==
  /\ found \subseteq scope \X Revisions
  /\ \A f, g \in found : f[1] = g[1] => f = g

\* Plan p with target hash h fits manifest m, or is older than the watermark.
Fits(p, h, m, mark) ==
  /\ p \in PlanIds
  /\ SeenIn(p.target, p.scope)
  /\ p.mark <= mark
  /\ p.mark = mark => /\ p.changes = BuildSyncChanges(p.target, m, p.scope)
                      /\ h = Applied(m, p.changes)

\* A scan carries what it has read so far.
ScanHolds(t) ==
  \/ t = NoScan
  \/ t \in [pc : {"scan"}, scope : Scopes, base : Checkpoints]
  \/ /\ t \in [pc : {"read"}, scope : Scopes, base : Checkpoints, found : Files]
     /\ SeenIn(t.found, t.scope)
  \/ /\ t = [pc |-> "plan", hash |-> t.hash, plan |-> t.plan]
     /\ t.hash \in Manifests
     /\ Fits(t.plan, t.hash, manifest, sync.mark)

\* A plan without a job is planned; a commit that changes anything moves the
\* watermark past its plan.
PlanHolds(p) ==
  /\ plans[p] \in PlanRow
  /\ Fits(p, plans[p].hash, manifest, sync.mark)
  /\ p \in DOMAIN jobs \/ plans[p].status = "planned"
  /\ plans[p].status = "completed" /\ p.changes # {} => p.mark < sync.mark

\* Job and plan: items are cancelled with their job only, and a plan is closed
\* with all its items, in the status its job reports.
JobHolds(p) ==
  LET items == jobs[p].items
      status == plans[p].status IN
  /\ jobs[p] \in JobRows(p)
  /\ status # "planned"
  /\ \A c \in p.changes : items[c] = "cancelled" => jobs[p].cancel
  /\ status \in {"completed", "conflict"} =>
       /\ ~jobs[p].cancel
       /\ \A c \in p.changes : items[c] \in {"completed", "skipped"}
  /\ (status = "completed") <=> (jobs[p].status = "completed")
  /\ status = "conflict" => jobs[p].status = "completed_with_errors"
  /\ status = "cancelled" =>
       /\ jobs[p].cancel /\ jobs[p].status = "cancelled"
       /\ \A c \in p.changes : items[c] \notin Open

\* Of the plans made at one watermark, one that changes anything is committed.
OneWinner ==
  \A p, o \in DOMAIN plans :
    /\ plans[p].status = "completed" /\ plans[o].status = "completed"
    /\ p.mark = o.mark /\ p.changes # {} /\ o.changes # {}
    => p = o

SourceHolds ==
  /\ disk \in [Paths -> Revisions \cup {None}]
  /\ manifest \in Manifests
  /\ sync.mark \in Nat /\ sync.checkpoint \in Checkpoints /\ sync.hash \in {None, manifest}
  /\ edits \in Nat
  /\ DOMAIN scan = Scanners
  /\ DOMAIN jobs \subseteq DOMAIN plans

\* The inductive invariant.
SyncInv ==
  /\ SourceHolds
  /\ \A s \in Scanners : ScanHolds(scan[s])
  /\ \A p \in DOMAIN plans : PlanHolds(p)
  /\ \A p \in DOMAIN jobs : JobHolds(p)
  /\ OneWinner

--------------------
(* The diff of a scan against the manifest, and its application. *)

\* The fields of a manifest row.
LEMMA RowFields ==
  ASSUME NEW x, NEW r, NEW s, x = [rev |-> r, status |-> s]
  PROVE  x.rev = r /\ x.status = s
OBVIOUS

\* What a scan has seen are pairs of a path of the scope and a revision.
LEMMA SeenFiles ==
  ASSUME NEW found, NEW scope, SeenIn(found, scope), NEW f \in found
  PROVE  f[1] \in scope /\ f[2] \in Revisions /\ f = <<f[1], f[2]>>
<1>1. f \in scope \X Revisions BY DEF SeenIn
<1> QED BY <1>1

\* Change c is about file f, which differs from the manifest.
OfSeen(c, f, m) ==
  /\ m[f[1]] # [rev |-> f[2], status |-> "present"]
  /\ c.path = f[1] /\ c.rev = f[2]
  /\ c.kind = IF m[f[1]].status = "present" THEN "modified" ELSE "added"
  /\ c = Change(f[1], c.kind, m[f[1]].rev, f[2])

\* Change c is about a path of the scope that has no file any more.
OfLost(c, found, scope, m) ==
  /\ c.path \in scope /\ c.kind = "deleted"
  /\ \A f \in found : f[1] # c.path
  /\ m[c.path].status = "present"
  /\ c = Change(c.path, "deleted", m[c.path].rev, None)

\* Every change of the diff is one or the other.
LEMMA ChangeOrigin ==
  ASSUME NEW m, NEW scope, NEW found, NEW c \in BuildSyncChanges(found, m, scope)
  PROVE  (\E f \in found : OfSeen(c, f, m)) \/ OfLost(c, found, scope, m)
<1>1. CASE \E f \in found :
              /\ m[f[1]] # [rev |-> f[2], status |-> "present"]
              /\ c = Change(f[1], IF m[f[1]].status = "present" THEN "modified" ELSE "added",
                            m[f[1]].rev, f[2])
 <2>1. PICK f \in found :
             /\ m[f[1]] # [rev |-> f[2], status |-> "present"]
             /\ c = Change(f[1], IF m[f[1]].status = "present" THEN "modified" ELSE "added",
                           m[f[1]].rev, f[2]) BY <1>1
 <2>2. /\ c.path = f[1] /\ c.rev = f[2]
       /\ c.kind = IF m[f[1]].status = "present" THEN "modified" ELSE "added" BY <2>1 DEF Change
 <2> QED BY <2>1, <2>2 DEF OfSeen
<1>2. CASE \E q \in scope \ {f[1] : f \in found} :
              m[q].status = "present" /\ c = Change(q, "deleted", m[q].rev, None)
 <2>1. PICK q \in scope \ {f[1] : f \in found} :
             m[q].status = "present" /\ c = Change(q, "deleted", m[q].rev, None) BY <1>2
 <2>2. c.path = q /\ c.kind = "deleted" BY <2>1 DEF Change
 <2> QED BY <2>1, <2>2 DEF OfLost
<1> QED BY <1>1, <1>2 DEF BuildSyncChanges

\* The diff consists of well-formed changes.
LEMMA ChangesTyped ==
  ASSUME NEW m \in Manifests, NEW scope \in Scopes, NEW found, SeenIn(found, scope)
  PROVE  BuildSyncChanges(found, m, scope) \subseteq Changes
<1>1. scope \subseteq Paths BY SyncAssumption DEF SyncAssumption
<1>2. ASSUME NEW q \in scope
      PROVE  m[q].rev \in Revisions \cup {None}
 <2>1. m[q] \in ManifestRow BY <1>1 DEF Manifests
 <2> QED BY <2>1 DEF ManifestRow
<1>3. ASSUME NEW c \in BuildSyncChanges(found, m, scope)
      PROVE  c \in Changes
 <2>1. CASE \E f \in found : OfSeen(c, f, m)
  <3>1. PICK f \in found : OfSeen(c, f, m) BY <2>1
  <3>2. f[1] \in scope /\ f[2] \in Revisions BY SeenFiles
  <3> QED BY <1>1, <1>2, <3>1, <3>2 DEF OfSeen, Change, Changes, Kinds
 <2>2. CASE OfLost(c, found, scope, m) BY <1>1, <1>2, <2>2 DEF OfLost, Change, Changes, Kinds
 <2> QED BY <2>1, <2>2, ChangeOrigin
<1> QED BY <1>3

\* The diff has one change per path at most.
LEMMA OneChangePerPath ==
  ASSUME NEW m, NEW scope, NEW found, SeenIn(found, scope),
         NEW c \in BuildSyncChanges(found, m, scope),
         NEW d \in BuildSyncChanges(found, m, scope), c.path = d.path
  PROVE  c = d
<1>1. ASSUME NEW f \in found, OfSeen(c, f, m), NEW g \in found, OfSeen(d, g, m)
      PROVE  c = d
 <2>1. f = g BY <1>1 DEF OfSeen, SeenIn
 <2> QED BY <1>1, <2>1 DEF OfSeen
<1>2. ASSUME NEW f \in found, OfSeen(c, f, m), OfLost(d, found, scope, m)
      PROVE  FALSE BY <1>2 DEF OfSeen, OfLost
<1>3. ASSUME NEW f \in found, OfSeen(d, f, m), OfLost(c, found, scope, m)
      PROVE  FALSE BY <1>3 DEF OfSeen, OfLost
<1>4. CASE OfLost(c, found, scope, m) /\ OfLost(d, found, scope, m) BY <1>4 DEF OfLost
<1> QED BY <1>1, <1>2, <1>3, <1>4, ChangeOrigin

\* A manifest with changes applied is a manifest.
LEMMA AppliedTyped ==
  ASSUME NEW m \in Manifests, NEW changes \in SUBSET Changes
  PROVE  Applied(m, changes) \in Manifests
<1>1. ASSUME NEW q \in Paths
      PROVE  Applied(m, changes)[q] \in ManifestRow
 <2>1. CASE \E c \in changes : c.path = q
  <3> DEFINE c == CHOOSE d \in changes : d.path = q
  <3>1. c \in changes BY <2>1
  <3>2. SsRevisionOf(c) \in Revisions \cup {None} BY <3>1 DEF SsRevisionOf, Changes
  <3> QED BY <2>1, <3>2 DEF Applied, ManifestRow, FileStatuses
 <2>2. CASE ~ \E c \in changes : c.path = q BY <2>2 DEF Applied, Manifests
 <2> QED BY <2>1, <2>2
<1> QED BY <1>1 DEF Applied, Manifests

\* An empty plan leaves the manifest alone.
LEMMA AppliedNothing ==
  ASSUME NEW m \in Manifests
  PROVE  Applied(m, {}) = m
BY DEF Applied, Manifests

\* What a change of the diff makes of its path.
LEMMA AppliedAt ==
  ASSUME NEW m \in Manifests, NEW scope \in Scopes, NEW found, SeenIn(found, scope),
         NEW c \in BuildSyncChanges(found, m, scope)
  PROVE  /\ Applied(m, BuildSyncChanges(found, m, scope))[c.path].rev = SsRevisionOf(c)
         /\ Applied(m, BuildSyncChanges(found, m, scope))[c.path].status =
              IF c.kind = "deleted" THEN "deleted" ELSE "present"
<1> DEFINE B == BuildSyncChanges(found, m, scope)
<1>1. c.path \in Paths BY ChangesTyped DEF Changes
<1> DEFINE chosen == CHOOSE d \in B : d.path = c.path
<1>2. chosen \in B /\ chosen.path = c.path OBVIOUS
<1>3. chosen = c
 <2> HIDE DEF chosen
 <2> QED BY <1>2, OneChangePerPath
<1>4. Applied(m, B)[c.path] =
        [rev |-> SsRevisionOf(c), status |-> IF c.kind = "deleted" THEN "deleted" ELSE "present"]
  BY <1>1, <1>3 DEF Applied
<1> QED BY <1>4, RowFields

\* A commit is faithful: within the scope the manifest then shows exactly what
\* the scan saw, and nothing changes elsewhere.
LEMMA Faithful ==
  ASSUME NEW m \in Manifests, NEW scope \in Scopes, NEW found, SeenIn(found, scope)
  PROVE  LET after == Applied(m, BuildSyncChanges(found, m, scope)) IN
         /\ PresentIn(after, scope) = found
         /\ \A q \in Paths \ scope : after[q] = m[q]
<1> DEFINE B == BuildSyncChanges(found, m, scope)
           after == Applied(m, B)
<1>1. scope \subseteq Paths BY SyncAssumption DEF SyncAssumption
<1>2. ASSUME NEW q \in Paths, \A c \in B : c.path # q
      PROVE  after[q] = m[q] BY <1>2 DEF Applied
<1>3. ASSUME NEW c \in B
      PROVE  /\ after[c.path].rev = SsRevisionOf(c)
             /\ after[c.path].status = IF c.kind = "deleted" THEN "deleted" ELSE "present"
  BY AppliedAt
<1>4. ASSUME NEW f \in found
      PROVE  after[f[1]].status = "present" /\ after[f[1]].rev = f[2]
 <2>1. f[1] \in Paths BY <1>1, SeenFiles
 <2>2. CASE m[f[1]] = [rev |-> f[2], status |-> "present"]
  <3>1. ASSUME NEW c \in B PROVE c.path # f[1]
   <4>1. ASSUME NEW g \in found, OfSeen(c, g, m) PROVE c.path # f[1]
     BY <4>1, <2>2 DEF OfSeen, SeenIn
   <4>2. CASE OfLost(c, found, scope, m) BY <4>2 DEF OfLost
   <4> QED BY <4>1, <4>2, ChangeOrigin
  <3>2. after[f[1]] = m[f[1]] BY <2>1, <3>1, <1>2
  <3> HIDE DEF after
  <3> QED BY <2>2, <3>2, RowFields
 <2>3. CASE m[f[1]] # [rev |-> f[2], status |-> "present"]
  <3> DEFINE c == Change(f[1], IF m[f[1]].status = "present" THEN "modified" ELSE "added",
                         m[f[1]].rev, f[2])
  <3>1. c \in B BY <2>3 DEF BuildSyncChanges
  <3>2. c.path = f[1] /\ c.kind # "deleted" /\ c.rev = f[2] BY DEF Change
  <3> HIDE DEF c, B, after
  <3> QED BY <3>1, <3>2, <1>3 DEF SsRevisionOf
 <2> QED BY <2>2, <2>3
<1>5. ASSUME NEW q \in scope, \A f \in found : f[1] # q
      PROVE  after[q].status # "present"
 <2>1. CASE m[q].status = "present"
  <3> DEFINE c == Change(q, "deleted", m[q].rev, None)
  <3>1. c \in B BY <1>5, <2>1 DEF BuildSyncChanges
  <3>2. c.path = q /\ c.kind = "deleted" BY DEF Change
  <3> HIDE DEF c, B, after
  <3> QED BY <3>1, <3>2, <1>3
 <2>2. CASE m[q].status # "present"
  <3>1. ASSUME NEW c \in B PROVE c.path # q
   <4>1. ASSUME NEW f \in found, OfSeen(c, f, m) PROVE c.path # q BY <4>1, <1>5 DEF OfSeen
   <4>2. CASE OfLost(c, found, scope, m) BY <4>2, <2>2 DEF OfLost
   <4> QED BY <4>1, <4>2, ChangeOrigin
  <3> QED BY <1>1, <2>2, <3>1, <1>2
 <2> QED BY <2>1, <2>2
<1>6. ASSUME NEW q \in Paths \ scope
      PROVE  after[q] = m[q]
 <2>1. ASSUME NEW c \in B PROVE c.path # q
  <3>1. ASSUME NEW f \in found, OfSeen(c, f, m) PROVE c.path # q BY <3>1, SeenFiles DEF OfSeen
  <3>2. CASE OfLost(c, found, scope, m) BY <3>2 DEF OfLost
  <3> QED BY <3>1, <3>2, ChangeOrigin
 <2> QED BY <2>1, <1>2
<1>7. PresentIn(after, scope) = found
 <2> HIDE DEF after, B
 <2>1. ASSUME NEW f \in found
       PROVE  f \in PresentIn(after, scope)
  <3>1. f[1] \in scope /\ f = <<f[1], f[2]>> BY SeenFiles
  <3>2. after[f[1]].status = "present" /\ after[f[1]].rev = f[2] BY <1>4
  <3> QED BY <3>1, <3>2 DEF PresentIn
 <2>2. ASSUME NEW g \in PresentIn(after, scope)
       PROVE  g \in found
  <3>1. PICK q \in scope : after[q].status = "present" /\ g = <<q, after[q].rev>> BY DEF PresentIn
  <3>2. PICK f \in found : f[1] = q BY <3>1, <1>5
  <3>3. f = <<f[1], f[2]>> BY SeenFiles
  <3>4. after[f[1]].rev = f[2] BY <1>4
  <3> QED BY <3>1, <3>2, <3>3, <3>4
 <2> QED BY <2>1, <2>2
<1> QED BY <1>6, <1>7

--------------------
(* What becomes of a job and its plan. *)

Closed == {"completed", "cancelled", "conflict"}
AllSettled(items) == \A c \in DOMAIN items : items[c] \in {"completed", "skipped"}

\* Plan and job of p come to the statuses after and status: the job goes on, or
\* it is over and its plan is cancelled, left to be retried, in conflict or
\* committed.
Outcome(p, items, cancel, after, status) ==
  \/ /\ after = plans[p].status /\ p.changes # {}
     /\ status \in {"running", "cancelling"}
  \/ /\ after = "cancelled" /\ status = "cancelled" /\ cancel
     /\ \A c \in p.changes : items[c] \notin Open
  \/ after = "retryable" /\ status = "completed_with_errors"
  \/ after = "conflict" /\ status = "completed_with_errors" /\ ~cancel /\ AllSettled(items)
  \/ after = "completed" /\ status = "completed" /\ ~cancel /\ AllSettled(items) /\ SsCurrent(p)

Refreshed(p, items, cancel, after, status) ==
  /\ Outcome(p, items, cancel, after, status)
  /\ plans' = [plans EXCEPT ![p].status = after]
  /\ jobs' = Put(jobs, p, [items |-> items, cancel |-> cancel, status |-> status])
  /\ manifest' = IF after = "completed" THEN Applied(manifest, p.changes) ELSE manifest
  /\ sync' = IF after = "completed"
             THEN [mark |-> Target(p), hash |-> plans[p].hash, checkpoint |-> p.target]
             ELSE sync

\* What a refreshed job leaves of the manifest, the source and the plan.
LEMMA RefreshOutcome ==
  ASSUME NEW p \in DOMAIN plans, NEW items \in [p.changes -> ItemStatuses],
         NEW cancel \in BOOLEAN, plans[p].status \notin Closed,
         \A c \in p.changes : items[c] = "cancelled" => cancel,
         SsRefreshJob(p, items, cancel)
  PROVE  \E after, status : Refreshed(p, items, cancel, after, status)
<1>1. DOMAIN items = p.changes OBVIOUS
<1>2. CASE \E c \in p.changes : items[c] \in Open
 <2>1. PICK v \in {"running", "cancelling"} : Verdict(items, cancel) = v BY <1>1, <1>2 DEF Verdict
 <2>2. Outcome(p, items, cancel, plans[p].status, v) BY <1>2, <2>1 DEF Outcome
 <2>3. /\ plans' = [plans EXCEPT ![p].status = plans[p].status]
       /\ jobs' = Put(jobs, p, [items |-> items, cancel |-> cancel, status |-> v])
       /\ manifest' = manifest /\ sync' = sync BY <2>1 DEF SsRefreshJob
 <2>4. Refreshed(p, items, cancel, plans[p].status, v) BY <2>2, <2>3 DEF Refreshed, Closed
 <2> QED BY <2>4
<1>3. CASE cancel /\ \A c \in p.changes : items[c] \notin Open
 <2>1. Verdict(items, cancel) = "cancelled" BY <1>1, <1>3 DEF Verdict
 <2>2. Outcome(p, items, cancel, "cancelled", "cancelled") BY <1>3 DEF Outcome
 <2>3. /\ plans' = [plans EXCEPT ![p].status = "cancelled"]
       /\ jobs' = Put(jobs, p, [items |-> items, cancel |-> cancel, status |-> "cancelled"])
       /\ manifest' = manifest /\ sync' = sync BY <2>1 DEF SsRefreshJob, Finalized, Closed
 <2>4. Refreshed(p, items, cancel, "cancelled", "cancelled") BY <2>2, <2>3 DEF Refreshed
 <2> QED BY <2>4
<1>4. CASE /\ ~cancel /\ \A c \in p.changes : items[c] \notin Open
           /\ \E c \in p.changes : items[c] = "dead_letter"
 <2>1. Verdict(items, cancel) = "completed_with_errors" BY <1>1, <1>4 DEF Verdict
 <2>2. Outcome(p, items, cancel, "retryable", "completed_with_errors") BY DEF Outcome
 <2>3. /\ plans' = [plans EXCEPT ![p].status = "retryable"]
       /\ jobs' = Put(jobs, p, [items |-> items, cancel |-> cancel,
                                status |-> "completed_with_errors"])
       /\ manifest' = manifest /\ sync' = sync BY <2>1 DEF SsRefreshJob, Finalized, Closed
 <2>4. Refreshed(p, items, cancel, "retryable", "completed_with_errors") BY <2>2, <2>3 DEF Refreshed
 <2> QED BY <2>4
<1>5. CASE /\ ~cancel /\ \A c \in p.changes : items[c] \notin Open
           /\ ~ \E c \in p.changes : items[c] = "dead_letter"
 <2>1. Verdict(items, cancel) = "completed" BY <1>1, <1>5 DEF Verdict
 <2>2. AllSettled(items) BY <1>1, <1>5 DEF AllSettled, ItemStatuses, Open
 <2>3. CASE SsCurrent(p)
  <3>1. Outcome(p, items, cancel, "completed", "completed") BY <1>5, <2>2, <2>3 DEF Outcome
  <3>2. /\ plans' = [plans EXCEPT ![p].status = "completed"]
        /\ jobs' = Put(jobs, p, [items |-> items, cancel |-> cancel, status |-> "completed"])
        /\ manifest' = Applied(manifest, p.changes)
        /\ sync' = [mark |-> Target(p), hash |-> plans[p].hash, checkpoint |-> p.target]
    BY <2>1, <2>3 DEF SsRefreshJob, Finalized, Closed
  <3>3. Refreshed(p, items, cancel, "completed", "completed") BY <3>1, <3>2 DEF Refreshed
  <3> QED BY <3>3
 <2>4. CASE ~SsCurrent(p)
  <3>1. Outcome(p, items, cancel, "conflict", "completed_with_errors") BY <1>5, <2>2 DEF Outcome
  <3>2. /\ plans' = [plans EXCEPT ![p].status = "conflict"]
        /\ jobs' = Put(jobs, p, [items |-> items, cancel |-> cancel,
                                 status |-> "completed_with_errors"])
        /\ manifest' = manifest /\ sync' = sync BY <2>1, <2>4 DEF SsRefreshJob, Finalized, Closed
  <3>3. Refreshed(p, items, cancel, "conflict", "completed_with_errors") BY <3>1, <3>2 DEF Refreshed
  <3> QED BY <3>3
 <2> QED BY <2>3, <2>4
<1> QED BY <1>2, <1>3, <1>4, <1>5

\* A commit leaves every other plan fitting, or older than the watermark.
LEMMA CommitKeepsFit ==
  ASSUME NEW m \in Manifests, NEW mark \in Nat, NEW p, p.mark = mark,
         NEW q, NEW h, Fits(q, h, m, mark)
  PROVE  Fits(q, h, Applied(m, p.changes), Target(p))
<1>1. q.mark \in Nat BY DEF Fits, PlanIds
<1>2. CASE p.changes = {}
 <2>1. Applied(m, p.changes) = m BY <1>2, AppliedNothing
 <2>2. Target(p) = mark BY <1>2 DEF Target
 <2> QED BY <2>1, <2>2
<1>3. CASE p.changes # {}
 <2>1. Target(p) = mark + 1 BY <1>3 DEF Target
 <2>2. q.mark <= Target(p) /\ q.mark # Target(p) BY <1>1, <2>1 DEF Fits
 <2> QED BY <2>2 DEF Fits
<1> QED BY <1>2, <1>3

\* A change of the items of one job keeps the invariant, whether it ends the job
\* or not.
LEMMA RefreshKeepsInv ==
  ASSUME SyncInv, NEW p \in DOMAIN plans, NEW items \in [p.changes -> ItemStatuses],
         NEW cancel \in BOOLEAN, NEW after, NEW status,
         Refreshed(p, items, cancel, after, status),
         plans[p].status \notin Closed, plans[p].status # "planned" \/ p.changes = {},
         \A c \in p.changes : items[c] = "cancelled" => cancel,
         UNCHANGED <<disk, scan, edits>>
  PROVE  SyncInv'
<1>1. /\ PlanHolds(p) /\ plans[p] \in PlanRow /\ p \in PlanIds
      /\ p.mark \in Nat /\ sync.mark \in Nat /\ manifest \in Manifests
  BY DEF SyncInv, SourceHolds, PlanHolds, Fits, PlanIds
<1>2. /\ after \in PlanStatuses \ {"planned"} /\ status \in JobStatuses
      /\ after = "completed" => SsCurrent(p)
 <2>1. plans[p].status \in PlanStatuses BY <1>1 DEF PlanRow
 <2>2. Outcome(p, items, cancel, after, status) BY DEF Refreshed
 <2> QED BY <2>1, <2>2 DEF Outcome, PlanStatuses, JobStatuses, Closed
<1>3. /\ DOMAIN plans' = DOMAIN plans
      /\ \A q \in DOMAIN plans : q # p => plans'[q] = plans[q]
      /\ plans'[p] = [plans[p] EXCEPT !.status = after] BY DEF Refreshed
<1>4. plans'[p] \in PlanRow /\ plans'[p].status = after /\ plans'[p].hash = plans[p].hash
  BY <1>1, <1>2, <1>3 DEF PlanRow
<1>5. /\ DOMAIN jobs' = DOMAIN jobs \cup {p}
      /\ \A q \in DOMAIN jobs : q # p => jobs'[q] = jobs[q]
      /\ jobs'[p] = [items |-> items, cancel |-> cancel, status |-> status] BY DEF Refreshed, Put
<1>6. /\ manifest' \in Manifests /\ sync'.mark \in Nat /\ sync'.checkpoint \in Checkpoints
      /\ sync'.hash \in {None, manifest'} /\ sync.mark <= sync'.mark
      /\ after = "completed" /\ p.changes # {} => p.mark < sync'.mark /\ p.mark = sync.mark
      /\ \A q, h : Fits(q, h, manifest, sync.mark) => Fits(q, h, manifest', sync'.mark)
 <2>1. CASE after = "completed"
  <3>1. /\ sync' = [mark |-> Target(p), hash |-> plans[p].hash, checkpoint |-> p.target]
        /\ manifest' = Applied(manifest, p.changes)
        /\ p.mark = sync.mark BY <1>2, <2>1 DEF Refreshed, SsCurrent
  <3>2. p.changes \in SUBSET Changes /\ p.target \in Files BY <1>1 DEF PlanIds, Changes, Files
  <3>3. manifest' \in Manifests BY <1>1, <3>1, <3>2, AppliedTyped
  <3>4. plans[p].hash = manifest' BY <1>1, <3>1 DEF PlanHolds, Fits
  <3>5. Target(p) \in Nat /\ p.mark <= Target(p) /\ (p.changes # {} => p.mark < Target(p))
    BY <1>1 DEF Target
  <3>6. sync'.mark = Target(p) /\ sync'.hash = plans[p].hash /\ sync'.checkpoint = p.target BY <3>1
  <3>7. \A q, h : Fits(q, h, manifest, sync.mark) =>
                  Fits(q, h, Applied(manifest, p.changes), Target(p)) BY <1>1, <3>1, CommitKeepsFit
  <3> QED BY <3>1, <3>2, <3>3, <3>4, <3>5, <3>6, <3>7 DEF Checkpoints
 <2>2. CASE after # "completed" BY <2>2 DEF Refreshed, SyncInv, SourceHolds
 <2> QED BY <2>1, <2>2
<1>7. SourceHolds' BY <1>3, <1>5, <1>6 DEF SyncInv, SourceHolds
<1>8. ASSUME NEW s \in Scanners
      PROVE  ScanHolds(scan[s])' BY <1>6 DEF SyncInv, ScanHolds
<1>9. ASSUME NEW q \in DOMAIN plans
      PROVE  PlanHolds(q)'
 <2>1. PlanHolds(q) BY DEF SyncInv
 <2>2. q.mark \in Nat BY <2>1 DEF PlanHolds, Fits, PlanIds
 <2>3. CASE q = p BY <1>1, <1>2, <1>4, <1>5, <1>6, <2>3 DEF PlanHolds
 <2>4. CASE q # p BY <1>1, <1>3, <1>5, <1>6, <2>1, <2>2, <2>4 DEF PlanHolds
 <2> QED BY <2>3, <2>4
<1>10. ASSUME NEW q \in DOMAIN jobs \cup {p}
       PROVE  JobHolds(q)'
 <2>1. CASE q = p
  <3>1. jobs'[p].items = items /\ jobs'[p].cancel = cancel /\ jobs'[p].status = status BY <1>5
  <3>2. jobs'[p] \in JobRows(p) BY <1>2, <1>5 DEF JobRows
  <3>3. /\ after \in {"completed", "conflict"} =>
             ~cancel /\ \A c \in p.changes : items[c] \in {"completed", "skipped"}
        /\ (after = "completed") <=> (status = "completed")
        /\ after = "conflict" => status = "completed_with_errors"
        /\ after = "cancelled" => /\ cancel /\ status = "cancelled"
                                  /\ \A c \in p.changes : items[c] \notin Open
    BY DEF Refreshed, Outcome, AllSettled, Closed
  <3> QED BY <1>2, <1>4, <2>1, <3>1, <3>2, <3>3 DEF JobHolds
 <2>2. CASE q # p
  <3>1. JobHolds(q) /\ q \in DOMAIN plans BY <2>2 DEF SyncInv, SourceHolds
  <3> QED BY <1>3, <1>5, <2>2, <3>1 DEF JobHolds, JobRows
 <2> QED BY <2>1, <2>2
<1>11. OneWinner'
 <2> SUFFICES ASSUME NEW q \in DOMAIN plans, NEW o \in DOMAIN plans,
                     plans'[q].status = "completed", plans'[o].status = "completed",
                     q.mark = o.mark, q.changes # {}, o.changes # {}
              PROVE  q = o BY <1>3 DEF OneWinner
 <2>1. ASSUME NEW r \in DOMAIN plans, r # p, plans'[r].status = "completed", r.changes # {}
       PROVE  r.mark < sync.mark /\ plans[r].status = "completed" /\ r.mark \in Nat
  <3>1. PlanHolds(r) /\ plans[r].status = "completed" BY <1>3, <2>1 DEF SyncInv
  <3> QED BY <2>1, <3>1 DEF PlanHolds, Fits, PlanIds
 <2>2. CASE q # p /\ o # p BY <2>1, <2>2 DEF SyncInv, OneWinner
 <2>3. ASSUME q = p, o # p PROVE FALSE BY <1>1, <1>4, <1>6, <2>1, <2>3
 <2>4. ASSUME o = p, q # p PROVE FALSE BY <1>1, <1>4, <1>6, <2>1, <2>4
 <2> QED BY <2>2, <2>3, <2>4
<1> QED BY <1>3, <1>5, <1>7, <1>8, <1>9, <1>10, <1>11 DEF SyncInv

\* What the actions on items and jobs do: they refresh the job of an open plan.
Refreshes(p) ==
  /\ plans[p].status \notin Closed
  /\ UNCHANGED <<disk, scan, edits>>
  /\ \E items \in [p.changes -> ItemStatuses], cancel \in BOOLEAN :
        /\ SsRefreshJob(p, items, cancel)
        /\ \A c \in p.changes : items[c] = "cancelled" => cancel

\* An item that can move belongs to an open plan.
LEMMA ItemsRefresh ==
  ASSUME SyncInv, NEW p \in DOMAIN jobs, NEW c \in p.changes,
         StartItem(p, c) \/ FinishItem(p, c) \/ SsFailItem(p, c) \/ SsRetryItem(p, c)
  PROVE  Refreshes(p)
<1>1. JobHolds(p) BY DEF SyncInv
<1>2. jobs[p].items \in [p.changes -> ItemStatuses] /\ jobs[p].cancel \in BOOLEAN
  BY <1>1 DEF JobHolds, JobRows
<1>3. PICK status \in ItemStatuses :
        /\ SetItem(p, c, status)
        /\ status = "cancelled" => jobs[p].cancel
 <2>1. CASE StartItem(p, c) BY <2>1 DEF StartItem, ItemStatuses
 <2>2. CASE FinishItem(p, c) BY <2>2 DEF FinishItem, ItemStatuses
 <2>3. CASE SsFailItem(p, c) BY <2>3 DEF SsFailItem, ItemStatuses
 <2>4. CASE SsRetryItem(p, c) BY <2>4 DEF SsRetryItem, ItemStatuses
 <2> QED BY <2>1, <2>2, <2>3, <2>4
<1>4. plans[p].status \notin Closed
  BY <1>1 DEF JobHolds, Closed, StartItem, FinishItem, SsFailItem, SsRetryItem, Open
<1>5. UNCHANGED <<disk, scan, edits>> BY DEF StartItem, FinishItem, SsFailItem, SsRetryItem
<1>6. PICK items \in [p.changes -> ItemStatuses] :
        items = [jobs[p].items EXCEPT ![c] = status] BY <1>2
<1>7. PICK cancel \in BOOLEAN : cancel = jobs[p].cancel BY <1>2
<1>8. SsRefreshJob(p, items, cancel) BY <1>3, <1>6, <1>7 DEF SetItem
<1>9. \A d \in p.changes : items[d] = "cancelled" => cancel
  BY <1>1, <1>2, <1>3, <1>6, <1>7 DEF JobHolds
<1> QED BY <1>4, <1>5, <1>8, <1>9 DEF Refreshes

\* Cancelling a job is a refresh of its plan.
LEMMA CancelRefreshes ==
  ASSUME SyncInv, NEW p \in DOMAIN jobs, SsCancelJob(p)
  PROVE  Refreshes(p)
<1>1. JobHolds(p) BY DEF SyncInv
<1>2. jobs[p].items \in [p.changes -> ItemStatuses] BY <1>1 DEF JobHolds, JobRows
<1>3. PICK W \in SUBSET {c \in DOMAIN jobs[p].items : jobs[p].items[c] = "held"} :
        SsRefreshJob(p, [c \in DOMAIN jobs[p].items |->
                           IF jobs[p].items[c] = "todo" \/ c \in W THEN "cancelled"
                           ELSE jobs[p].items[c]], TRUE) BY DEF SsCancelJob
<1>4. PICK items \in [p.changes -> ItemStatuses] :
        items = [c \in DOMAIN jobs[p].items |->
                   IF jobs[p].items[c] = "todo" \/ c \in W THEN "cancelled"
                   ELSE jobs[p].items[c]] BY <1>2 DEF ItemStatuses
<1>5. SsRefreshJob(p, items, TRUE) BY <1>3, <1>4
<1>6. plans[p].status \notin Closed BY <1>1 DEF SsCancelJob, JobHolds, Closed
<1>7. UNCHANGED <<disk, scan, edits>> BY DEF SsCancelJob
<1> QED BY <1>5, <1>6, <1>7 DEF Refreshes

\* Whatever refreshes a plan from its job keeps the invariant.
LEMMA JobsKeepInv ==
  ASSUME SyncInv, NEW p \in DOMAIN jobs, Refreshes(p)
  PROVE  SyncInv'
<1>1. p \in DOMAIN plans /\ plans[p].status # "planned" BY DEF SyncInv, SourceHolds, JobHolds
<1>2. PICK items \in [p.changes -> ItemStatuses], cancel \in BOOLEAN :
        /\ SsRefreshJob(p, items, cancel)
        /\ \A c \in p.changes : items[c] = "cancelled" => cancel BY DEF Refreshes
<1>3. PICK after, status : Refreshed(p, items, cancel, after, status)
  BY <1>1, <1>2, RefreshOutcome DEF Refreshes
<1> QED BY <1>1, <1>2, <1>3, RefreshKeepsInv DEF Refreshes

\* Creating the job of a plan keeps the invariant.
LEMMA CreateJobKeepsInv ==
  ASSUME SyncInv, NEW p \in DOMAIN plans, SsCreateJob(p)
  PROVE  SyncInv'
<1>1. /\ PlanHolds(p) /\ p \notin DOMAIN jobs /\ plans[p].status = "planned"
      /\ UNCHANGED <<disk, scan, edits>> BY DEF SyncInv, SsCreateJob
<1>2. CASE p.changes = {}
 <2>1. PICK items \in [p.changes -> ItemStatuses] : items = [c \in {} |-> "todo"] BY <1>2
 <2>2. SsRefreshJob(p, items, FALSE) BY <1>2, <2>1 DEF SsCreateJob
 <2>3. plans[p].status \notin Closed BY <1>1 DEF Closed
 <2>4. PICK after, status : Refreshed(p, items, FALSE, after, status)
   BY <1>2, <2>2, <2>3, RefreshOutcome
 <2> QED BY <1>1, <1>2, <2>3, <2>4, RefreshKeepsInv
<1>3. CASE p.changes # {}
 <2>1. /\ plans' = [plans EXCEPT ![p].status = "running"]
       /\ jobs' = Put(jobs, p, [items |-> [c \in p.changes |-> "todo"], cancel |-> FALSE,
                                status |-> "queued"])
       /\ UNCHANGED <<disk, manifest, sync, scan, edits>> BY <1>3 DEF SsCreateJob
 <2>2. /\ DOMAIN plans' = DOMAIN plans
       /\ \A q \in DOMAIN plans : q # p => plans'[q] = plans[q]
       /\ plans'[p] = [plans[p] EXCEPT !.status = "running"] BY <2>1
 <2>3. plans'[p] \in PlanRow /\ plans'[p].status = "running" /\ plans'[p].hash = plans[p].hash
   BY <1>1, <2>2 DEF PlanHolds, PlanRow, PlanStatuses
 <2>4. /\ DOMAIN jobs' = DOMAIN jobs \cup {p}
       /\ \A q \in DOMAIN jobs : q # p => jobs'[q] = jobs[q]
       /\ jobs'[p] = [items |-> [c \in p.changes |-> "todo"], cancel |-> FALSE,
                      status |-> "queued"] BY <2>1 DEF Put
 <2>5. SourceHolds' BY <2>1, <2>2, <2>4 DEF SyncInv, SourceHolds
 <2>6. ASSUME NEW s \in Scanners PROVE ScanHolds(scan[s])' BY <2>1 DEF SyncInv, ScanHolds
 <2>7. ASSUME NEW q \in DOMAIN plans PROVE PlanHolds(q)'
   BY <1>1, <2>1, <2>2, <2>3, <2>4 DEF SyncInv, PlanHolds
 <2>8. ASSUME NEW q \in DOMAIN jobs \cup {p} PROVE JobHolds(q)'
  <3>1. CASE q = p
   <4>1. jobs'[p] \in JobRows(p) BY <2>4 DEF JobRows, ItemStatuses, JobStatuses
   <4>2. jobs'[p].items = [c \in p.changes |-> "todo"] /\ jobs'[p].status = "queued" BY <2>4
   <4> QED BY <2>3, <3>1, <4>1, <4>2 DEF JobHolds
  <3>2. CASE q # p
   <4>1. JobHolds(q) /\ q \in DOMAIN plans BY <3>2 DEF SyncInv, SourceHolds
   <4> QED BY <2>2, <2>4, <3>2, <4>1 DEF JobHolds, JobRows
  <3> QED BY <3>1, <3>2
 <2>9. OneWinner'
  <3>1. ASSUME NEW q \in DOMAIN plans, plans'[q].status = "completed"
        PROVE  plans[q].status = "completed" BY <2>2, <2>3, <3>1
  <3> QED BY <2>2, <3>1 DEF SyncInv, OneWinner
 <2> QED BY <2>2, <2>4, <2>5, <2>6, <2>7, <2>8, <2>9 DEF SyncInv
<1> QED BY <1>2, <1>3

--------------------
(* Scans. *)

\* Scanning, and the source changing by itself, touch neither plan nor job.
LEMMA PlansUntouched ==
  ASSUME SyncInv, UNCHANGED <<manifest, sync, plans, jobs>>
  PROVE  /\ \A p \in DOMAIN plans' : PlanHolds(p)'
         /\ \A p \in DOMAIN jobs' : JobHolds(p)'
         /\ OneWinner'
         /\ (DOMAIN jobs \subseteq DOMAIN plans)'
BY DEF SyncInv, SourceHolds, PlanHolds, JobHolds, JobRows, OneWinner

\* One scan goes on, with a state that holds.
LEMMA ScanMoves ==
  ASSUME SyncInv, NEW s \in Scanners, NEW t, ScanHolds(t),
         scan' = [scan EXCEPT ![s] = t],
         UNCHANGED <<disk, manifest, sync, plans, jobs, edits>>
  PROVE  SyncInv'
<1>1. SourceHolds' BY DEF SyncInv, SourceHolds
<1>2. ASSUME NEW r \in Scanners
      PROVE  ScanHolds(scan[r])'
 <2>1. ScanHolds(scan'[r]) BY DEF SyncInv, SourceHolds
 <2> QED BY <2>1 DEF ScanHolds
<1> QED BY <1>1, <1>2, PlansUntouched DEF SyncInv

\* Scanning, failing to and reading the manifest keep the invariant.
LEMMA ScansKeepInv ==
  ASSUME SyncInv, NEW s \in Scanners,
         \/ \E scope \in Scopes : BeginScan(s, scope)
         \/ Scan(s) \/ ScanFails(s) \/ ReadManifest(s)
  PROVE  SyncInv'
<1>0. DOMAIN scan = Scanners /\ ScanHolds(scan[s]) BY DEF SyncInv, SourceHolds
<1>1. ASSUME NEW scope \in Scopes, BeginScan(s, scope)
      PROVE  SyncInv'
 <2> DEFINE t == [pc |-> "scan", scope |-> scope, base |-> sync.checkpoint]
 <2>1. ScanHolds(t) BY DEF ScanHolds, SyncInv, SourceHolds
 <2> HIDE DEF t
 <2> QED BY <1>1, <2>1, ScanMoves DEF BeginScan, t
<1>2. CASE Scan(s)
 <2> DEFINE found == {<<q, disk[q]>> : q \in {r \in scan[s].scope : disk[r] # None}}
            t == [pc |-> "read", scope |-> scan[s].scope, base |-> scan[s].base, found |-> found]
 <2>1. scan[s].scope \in Scopes /\ scan[s].base \in Checkpoints
   BY <1>0, <1>2 DEF Scan, ScanHolds, NoScan
 <2>2. scan[s].scope \subseteq Paths /\ disk \in [Paths -> Revisions \cup {None}]
   BY <2>1, SyncAssumption DEF SyncAssumption, SyncInv, SourceHolds
 <2>3. SeenIn(found, scan[s].scope) /\ found \in Files BY <2>2 DEF SeenIn, Files
 <2>4. ScanHolds(t)
  <3> HIDE DEF found
  <3> QED BY <2>1, <2>3 DEF ScanHolds
 <2>5. scan' = [scan EXCEPT ![s] = t] BY <1>0, <1>2 DEF Scan
 <2> HIDE DEF t
 <2> QED BY <1>2, <2>4, <2>5, ScanMoves DEF Scan
<1>3. CASE ScanFails(s)
 <2>1. ScanHolds(NoScan) BY DEF ScanHolds
 <2> QED BY <1>3, <2>1, ScanMoves DEF ScanFails
<1>4. CASE ReadManifest(s)
 <2> DEFINE changes == BuildSyncChanges(scan[s].found, manifest, scan[s].scope)
            plan == [scope |-> scan[s].scope, base |-> scan[s].base, target |-> scan[s].found,
                     mark |-> sync.mark, changes |-> changes]
            t == [pc |-> "plan", hash |-> Applied(manifest, changes), plan |-> plan]
 <2>1. /\ scan[s].scope \in Scopes /\ scan[s].base \in Checkpoints
       /\ scan[s].found \in Files /\ SeenIn(scan[s].found, scan[s].scope)
   BY <1>0, <1>4 DEF ReadManifest, ScanHolds, NoScan
 <2>2. manifest \in Manifests /\ sync.mark \in Nat BY DEF SyncInv, SourceHolds
 <2>3. changes \subseteq Changes BY <2>1, <2>2, ChangesTyped
 <2>4. Applied(manifest, changes) \in Manifests
  <3> HIDE DEF changes
  <3> QED BY <2>2, <2>3, AppliedTyped
 <2>5. Fits(plan, Applied(manifest, changes), manifest, sync.mark)
  <3>1. plan \in PlanIds
   <4> HIDE DEF changes
   <4> QED BY <2>1, <2>2, <2>3 DEF PlanIds, Checkpoints, Files, Changes
  <3> HIDE DEF PlanIds
  <3> QED BY <2>1, <2>2, <3>1 DEF Fits
 <2>6. ScanHolds(t)
  <3> HIDE DEF plan, changes
  <3> QED BY <2>4, <2>5 DEF ScanHolds
 <2>7. scan' = [scan EXCEPT ![s] = t] BY <1>4 DEF ReadManifest
 <2> HIDE DEF t
 <2> QED BY <1>4, <2>6, <2>7, ScanMoves DEF ReadManifest
<1> QED BY <1>1, <1>2, <1>3, <1>4

\* A plan is stored as the scan made it, unless it exists or is out of date.
LEMMA CreatePlanKeepsInv ==
  ASSUME SyncInv, NEW s \in Scanners, CreateSyncPlan(s)
  PROVE  SyncInv'
<1> DEFINE p == scan[s].plan
           row == [status |-> "planned", hash |-> scan[s].hash]
<1>1. /\ DOMAIN scan = Scanners /\ ScanHolds(scan[s]) /\ scan[s].pc = "plan"
      /\ scan' = [scan EXCEPT ![s] = NoScan]
      /\ UNCHANGED <<disk, manifest, sync, jobs, edits>> BY DEF CreateSyncPlan, SyncInv, SourceHolds
<1>2. scan[s].hash \in Manifests /\ Fits(p, scan[s].hash, manifest, sync.mark)
  BY <1>1 DEF ScanHolds, NoScan
<1>3. ScanHolds(NoScan) BY DEF ScanHolds
<1>4. CASE UNCHANGED plans BY <1>1, <1>3, <1>4, ScanMoves
<1>5. CASE p \notin DOMAIN plans /\ plans' = Put(plans, p, row)
 <2>1. /\ DOMAIN plans' = DOMAIN plans \cup {p}
       /\ \A q \in DOMAIN plans : plans'[q] = plans[q]
       /\ plans'[p] = row BY <1>5 DEF Put
 <2>2. row \in PlanRow /\ row.status = "planned" /\ row.hash = scan[s].hash
   BY <1>2 DEF PlanRow, PlanStatuses
 <2> HIDE DEF p, row
 <2>3. SourceHolds' BY <1>1, <2>1 DEF SyncInv, SourceHolds
 <2>4. ASSUME NEW r \in Scanners PROVE ScanHolds(scan[r])'
  <3>1. ScanHolds(scan'[r]) BY <1>1, <1>3 DEF SyncInv
  <3> QED BY <1>1, <3>1 DEF ScanHolds
 <2>5. ASSUME NEW q \in DOMAIN plans \cup {p} PROVE PlanHolds(q)'
  <3>1. CASE q = p BY <1>1, <1>2, <2>1, <2>2, <3>1 DEF PlanHolds
  <3>2. CASE q # p BY <1>1, <2>1, <3>2 DEF SyncInv, PlanHolds
  <3> QED BY <3>1, <3>2
 <2>6. ASSUME NEW q \in DOMAIN jobs PROVE JobHolds(q)'
   BY <1>1, <2>1 DEF SyncInv, SourceHolds, JobHolds, JobRows
 <2>7. OneWinner' BY <2>1, <2>2 DEF SyncInv, OneWinner
 <2> QED BY <1>1, <2>1, <2>3, <2>4, <2>5, <2>6, <2>7 DEF SyncInv
<1> QED BY <1>4, <1>5 DEF CreateSyncPlan

\* Editing the directory keeps the invariant: nothing stored depends on it.
LEMMA EditKeepsInv ==
  ASSUME SyncInv, NEW q \in Paths, NEW v \in Revisions \cup {None}, Edit(q, v)
  PROVE  SyncInv'
<1>1. SourceHolds' BY DEF SyncInv, SourceHolds, Edit
<1>2. ASSUME NEW s \in Scanners PROVE ScanHolds(scan[s])' BY DEF SyncInv, ScanHolds, Edit
<1> QED BY <1>1, <1>2, PlansUntouched DEF SyncInv, Edit

--------------------
\* A source without manifest, plans and jobs satisfies the invariant.
LEMMA SyncInitHolds == SsInit => SyncInv
<1> SUFFICES ASSUME SsInit PROVE SyncInv OBVIOUS
<1>1. SourceHolds BY SyncAssumption DEF SyncAssumption, SsInit, SourceHolds, Manifests, ManifestRow,
     FileStatuses, Checkpoints
<1>2. DOMAIN plans = {} /\ DOMAIN jobs = {} BY DEF SsInit
<1>3. \A s \in Scanners : ScanHolds(scan[s]) BY DEF SsInit, ScanHolds
<1> QED BY <1>1, <1>2, <1>3 DEF SyncInv, OneWinner

\* Every step of scanners, plans, jobs and edits keeps the invariant.
LEMMA SyncStepKeepsInv == SyncInv /\ [SsNext]_ssVars => SyncInv'
<1> SUFFICES ASSUME SyncInv, [SsNext]_ssVars PROVE SyncInv' OBVIOUS
<1>1. CASE \E q \in Paths, v \in Revisions \cup {None} : Edit(q, v) BY <1>1, EditKeepsInv
<1>2. CASE \E s \in Scanners :
             \/ \E scope \in Scopes : BeginScan(s, scope)
             \/ Scan(s) \/ ScanFails(s) \/ ReadManifest(s) BY <1>2, ScansKeepInv
<1>3. CASE \E s \in Scanners : CreateSyncPlan(s) BY <1>3, CreatePlanKeepsInv
<1>4. CASE \E p \in DOMAIN plans : SsCreateJob(p) BY <1>4, CreateJobKeepsInv
<1>5. CASE \E p \in DOMAIN jobs : SsCancelJob(p) BY <1>5, CancelRefreshes, JobsKeepInv
<1>6. CASE \E p \in DOMAIN jobs : \E c \in p.changes :
             StartItem(p, c) \/ FinishItem(p, c) \/ SsFailItem(p, c) \/ SsRetryItem(p, c)
  BY <1>6, ItemsRefresh, JobsKeepInv
<1>7. CASE UNCHANGED ssVars
 <2>1. ASSUME NEW s \in Scanners PROVE ScanHolds(scan[s])' BY <1>7 DEF ssVars, SyncInv, ScanHolds
 <2>2. SourceHolds' BY <1>7 DEF ssVars, SyncInv, SourceHolds
 <2> QED BY <1>7, <2>1, <2>2, PlansUntouched DEF ssVars, SyncInv
<1> QED BY <1>1, <1>2, <1>3, <1>4, <1>5, <1>6, <1>7 DEF SsNext

\* The types the module states, the hash and the committed jobs.
LEMMA SyncInvHolds == SyncInv => SsTypeOK /\ SyncHolds
<1> SUFFICES ASSUME SyncInv PROVE SsTypeOK /\ SyncHolds OBVIOUS
<1>1. SsTypeOK
 <2>1. ASSUME NEW p \in DOMAIN plans
       PROVE  p \in PlanIds /\ plans[p].status \in PlanStatuses
   BY DEF SyncInv, PlanHolds, Fits, PlanRow
 <2>2. ASSUME NEW p \in DOMAIN jobs
       PROVE  DOMAIN jobs[p].items = p.changes /\ jobs[p].status \in JobStatuses
   BY DEF SyncInv, JobHolds, JobRows
 <2> QED BY <2>1, <2>2 DEF SyncInv, SourceHolds, SsTypeOK, Manifests, ManifestRow, FileStatuses,
      PlanStatuses, JobStatuses
<1>2. HashIsManifest BY DEF SyncInv, SourceHolds, HashIsManifest
<1>3. CompletedJobsCommitted BY DEF SyncInv, JobHolds, OneWinner, CompletedJobsCommitted
<1> QED BY <1>1, <1>2, <1>3 DEF SyncHolds

--------------------
(* Commits. *)

\* A refreshed job commits its own plan or none, and a commit is faithful.
LEMMA RefreshCommits ==
  ASSUME SyncInv, NEW p \in DOMAIN plans, NEW items \in [p.changes -> ItemStatuses],
         NEW cancel, NEW after, NEW status, p \in DOMAIN jobs \/ p.changes = {},
         plans[p].status \notin Closed,
         Refreshed(p, items, cancel, after, status)
  PROVE  CommitShowsTheScan /\ WatermarkNamesManifest
<1>1. /\ plans[p] \in PlanRow /\ Fits(p, plans[p].hash, manifest, sync.mark)
      /\ manifest \in Manifests /\ sync.mark \in Nat /\ p \in PlanIds
  BY DEF SyncInv, SourceHolds, PlanHolds, Fits
<1>2. /\ \A q \in DOMAIN plans : q # p => plans'[q] = plans[q]
      /\ plans'[p] = [plans[p] EXCEPT !.status = after] BY DEF Refreshed
<1>3. plans'[p].status = after BY <1>1, <1>2 DEF PlanRow
<1>4. CASE after # "completed"
 <2>1. CommitShowsTheScan BY <1>2, <1>3, <1>4 DEF CommitShowsTheScan
 <2>2. WatermarkNamesManifest BY <1>4 DEF Refreshed, WatermarkNamesManifest
 <2> QED BY <2>1, <2>2
<1>5. CASE after = "completed"
 <2>1. p.mark = sync.mark /\ AllSettled(items) BY <1>5 DEF Refreshed, Outcome, SsCurrent, Closed
 <2>2. manifest' = Applied(manifest, p.changes) /\ sync'.mark = Target(p) BY <1>5 DEF Refreshed
 <2>3. p.changes = BuildSyncChanges(p.target, manifest, p.scope) /\ SeenIn(p.target, p.scope)
   BY <1>1, <2>1 DEF Fits
 <2>4. p.scope \in Scopes BY <1>1 DEF PlanIds
 <2>5. /\ PresentIn(manifest', p.scope) = p.target
       /\ \A q \in Paths \ p.scope : manifest'[q] = manifest[q] BY <1>1, <2>2, <2>3, <2>4, Faithful
 <2>6. CommitShowsTheScan
  <3> SUFFICES ASSUME NEW q \in DOMAIN plans,
                      plans[q].status # "completed", plans'[q].status = "completed"
               PROVE  q = p BY <2>5 DEF CommitShowsTheScan
  <3> QED BY <1>2
 <2>7. WatermarkNamesManifest
  <3> SUFFICES ASSUME manifest' # manifest
               PROVE  /\ sync'.mark = sync.mark + 1
                      /\ \E r \in DOMAIN jobs :
                            \A c \in r.changes : jobs'[r].items[c] \in {"completed", "skipped"}
    BY DEF WatermarkNamesManifest
  <3>1. p.changes # {} BY <1>1, <2>2, AppliedNothing
  <3>2. sync'.mark = sync.mark + 1 BY <1>1, <2>1, <2>2, <3>1 DEF Target
  <3>3. p \in DOMAIN jobs /\ jobs'[p] = [items |-> items, cancel |-> cancel, status |-> status]
    BY <3>1 DEF Refreshed, Put
  <3>4. jobs'[p].items = items BY <3>3
  <3>5. \A c \in p.changes : items[c] \in {"completed", "skipped"} BY <2>1 DEF AllSettled
  <3> QED BY <3>2, <3>3, <3>4, <3>5
 <2> QED BY <2>6, <2>7
<1> QED BY <1>4, <1>5

\* So is one in any step that refreshes a job.
LEMMA RefreshStepCommits ==
  ASSUME SyncInv, NEW p \in DOMAIN plans, NEW items \in [p.changes -> ItemStatuses],
         NEW cancel \in BOOLEAN, SsRefreshJob(p, items, cancel),
         p \in DOMAIN jobs \/ p.changes = {},
         plans[p].status \notin Closed,
         \A c \in p.changes : items[c] = "cancelled" => cancel
  PROVE  CommitShowsTheScan /\ WatermarkNamesManifest
<1>1. PICK after, status : Refreshed(p, items, cancel, after, status) BY RefreshOutcome
<1> QED BY <1>1, RefreshCommits

\* A step that leaves the manifest and the statuses of the plans commits nothing.
LEMMA NoCommit ==
  ASSUME manifest' = manifest,
         \A p \in DOMAIN plans : plans'[p].status = plans[p].status \/ plans'[p].status = "running"
  PROVE  CommitShowsTheScan /\ WatermarkNamesManifest
BY DEF CommitShowsTheScan, WatermarkNamesManifest

\* Every step commits only what a scan has seen, under its own watermark.
LEMMA StepCommits == SyncInv /\ [SsNext]_ssVars => CommitShowsTheScan /\ WatermarkNamesManifest
<1> SUFFICES ASSUME SyncInv, [SsNext]_ssVars
             PROVE  CommitShowsTheScan /\ WatermarkNamesManifest OBVIOUS
<1>1. CASE UNCHANGED <<manifest, plans>> BY <1>1, NoCommit
<1>2. ASSUME NEW s \in Scanners, CreateSyncPlan(s)
      PROVE  CommitShowsTheScan /\ WatermarkNamesManifest BY <1>2, NoCommit DEF CreateSyncPlan, Put
<1>3. ASSUME NEW p \in DOMAIN plans, SsCreateJob(p)
      PROVE  CommitShowsTheScan /\ WatermarkNamesManifest
 <2>1. CASE p.changes = {}
  <3>1. PICK items \in [p.changes -> ItemStatuses] : items = [c \in {} |-> "todo"] BY <2>1
  <3>2. SsRefreshJob(p, items, FALSE) /\ plans[p].status \notin Closed
    BY <1>3, <2>1, <3>1 DEF SsCreateJob, Closed
  <3> QED BY <2>1, <3>2, RefreshStepCommits
 <2>2. CASE p.changes # {}
  <3>1. plans[p] \in PlanRow BY DEF SyncInv, PlanHolds
  <3> QED BY <1>3, <2>2, <3>1, NoCommit DEF SsCreateJob, PlanRow
 <2> QED BY <2>1, <2>2
<1>4. ASSUME NEW p \in DOMAIN jobs, Refreshes(p)
      PROVE  CommitShowsTheScan /\ WatermarkNamesManifest
 <2>1. p \in DOMAIN plans BY DEF SyncInv, SourceHolds
 <2> QED BY <1>4, <2>1, RefreshStepCommits DEF Refreshes
<1>5. ASSUME NEW p \in DOMAIN jobs,
             \/ SsCancelJob(p)
             \/ \E c \in p.changes :
                   StartItem(p, c) \/ FinishItem(p, c) \/ SsFailItem(p, c) \/ SsRetryItem(p, c)
      PROVE  CommitShowsTheScan /\ WatermarkNamesManifest
  BY <1>4, <1>5, CancelRefreshes, ItemsRefresh
<1>6. CASE \/ UNCHANGED ssVars
           \/ \E q \in Paths, v \in Revisions \cup {None} : Edit(q, v)
           \/ \E s \in Scanners :
                \/ \E scope \in Scopes : BeginScan(s, scope)
                \/ Scan(s) \/ ScanFails(s) \/ ReadManifest(s)
  BY <1>1, <1>6 DEF ssVars, Edit, BeginScan, Scan, ScanFails, ReadManifest
<1> QED BY <1>2, <1>3, <1>4, <1>5, <1>6 DEF SsNext

--------------------
\* However scans, plans, jobs and edits of the source interleave, the hash a
\* source shows is that of its manifest, and exactly the committed plans have
\* completed jobs, one of several made at one watermark
\* (_refresh_job, _finalize_sync_plan).
THEOREM SyncSafe == SsSpec => [](SsTypeOK /\ SyncHolds)
<1>1. SsInit => SyncInv BY SyncInitHolds
<1>2. SyncInv /\ [SsNext]_ssVars => SyncInv' BY SyncStepKeepsInv
<1>3. SyncInv => SsTypeOK /\ SyncHolds BY SyncInvHolds
<1> QED BY <1>1, <1>2, <1>3, PTL DEF SsSpec

\* The manifest moves by whole commits: each shows in its scope what the scan of
\* its plan saw and touches nothing else, and moves the watermark by one
\* (create_sync_plan, _finalize_sync_plan).
THEOREM CommitsAreFaithful == SsSpec => CommitsHold
<1>1. SsInit => SyncInv BY SyncInitHolds
<1>2. SyncInv /\ [SsNext]_ssVars => SyncInv' BY SyncStepKeepsInv
<1>3. SyncInv /\ [SsNext]_ssVars => [CommitShowsTheScan /\ WatermarkNamesManifest]_ssVars
  BY StepCommits
<1> QED BY <1>1, <1>2, <1>3, PTL DEF SsSpec, CommitsHold
====
