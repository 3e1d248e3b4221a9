---- MODULE IngestJobs ----
(* Durable ingestion of knowledge sources (core/knowledge/jobs): jobs and
   their items in PostgreSQL (KnowledgeJobRepository), delivery of item
   ids through a Redis stream (RedisKnowledgeJobQueue), and the workers
   that process one message at a time (KnowledgeJobService).

   Every repository method is one transaction that locks the job row
   first, hence one action.  Between two of them a worker may crash, be
   stopped, or lose its lease, and the job may be cancelled.  Messages of
   one item are not told apart. *)
EXTENDS Naturals, FiniteSets

CONSTANTS Jobs, Items, Keys, Workers,
          JobOf,       \* the job of an item
          KeyOf,       \* its idempotency key
          Deletions,   \* the items whose change_kind is "deleted"
          Nobody,      \* no lease owner, no key owner, no item in hand
          MaxAttempts, \* max_attempts of every item
          MaxPolls,    \* deferrals before an external parse has timed out
          MaxStalls,   \* bound on leases that expire under a live worker
          MaxRetries   \* bound on manual retries

ASSUME IngestAssumption ==
    /\ IsFiniteSet(Items)
    /\ JobOf \in [Items -> Jobs] /\ KeyOf \in [Items -> Keys] /\ Deletions \subseteq Items
    /\ Nobody \notin Workers \cup Items
    /\ MaxAttempts \in Nat \ {0}
    /\ MaxPolls \in Nat /\ MaxStalls \in Nat /\ MaxRetries \in Nat

VARIABLES job,      \* knowledge_ingest_jobs: status and cancel_requested
          item,     \* knowledge_ingest_items: status, attempts, lease_owner
          later,    \* items whose next_attempt_at lies in the future
          key,      \* knowledge_idempotency: status and owner_item_id
          ticket,   \* knowledge_external_parse: state, and polls so far
          marker,   \* items with a "published" marker in Redis
          stream,   \* items with an undelivered message
          pending,  \* items with a delivered, unacknowledged message
          worker,   \* what each worker is doing
          held,     \* held[w]: _recovered_messages
          ingested, \* keys whose content the knowledge store has received
          stalls, retries

dbVars    == <<job, item, later, key, ticket>>
queueVars == <<marker, stream, pending>>
boundVars == <<stalls, retries>>
vars == <<dbVars, queueVars, worker, held, ingested, boundVars>>

Waiting  == {"queued", "retry_wait", "external_wait"}
Working  == {"claimed", "parsing", "understanding", "applying"}
Terminal == {"completed", "skipped", "dead_letter", "cancelled"}
JobTerminal == {"completed", "completed_with_errors", "cancelled"}

\* worker[w].pc: off, idle, enqueue (in reconcile), dead; with a message: got,
\*   check, drop, key, finish, work, parse, applied, fail (retryable), reject
\*   (not retryable) and ack.
WorkerPCs == {"off", "idle", "enqueue", "dead", "got", "check", "drop", "key", "finish",
              "work", "parse", "applied", "fail", "reject", "ack"}

Up(w)   == worker[w].pc \notin {"off", "dead"}
Busy(w) == Up(w) /\ worker[w].pc \notin {"idle", "enqueue"}
Mine(w) == worker[w].item

Init ==
    /\ job      = [j \in Jobs |-> [status |-> "none", cancel |-> FALSE]]
    /\ item     = [i \in Items |-> [status |-> "none", attempts |-> 0, owner |-> Nobody]]
    /\ later    = {}
    /\ key      = [k \in Keys |-> [status |-> "none", owner |-> Nobody]]
    /\ ticket   = [i \in Items |-> [state |-> "none", polls |-> 0]]
    /\ marker   = {} /\ stream = {} /\ pending = {}
    /\ worker   = [w \in Workers |-> [pc |-> "off", item |-> Nobody]]
    /\ held     = [w \in Workers |-> {}]
    /\ ingested = {}
    /\ stalls   = 0 /\ retries = 0

--------------------
(* Shared pieces of the repository and of the queue. *)

\* _refresh_job: what the statuses of its items make of a job.  (The commit of
\* its sync plan is the subject of SourceSync.)
StatusOf(j, cancel, rows) ==
    LET mine == {i \in Items : JobOf[i] = j} IN
    IF \A i \in mine : rows[i].status \in Terminal
    THEN IF cancel THEN "cancelled"
         ELSE IF \E i \in mine : rows[i].status = "dead_letter" THEN "completed_with_errors"
         ELSE "completed"
    ELSE IF cancel THEN "cancelling" ELSE "running"

RefreshJob(j) == job' = [job EXCEPT ![j].status = StatusOf(j, job[j].cancel, item')]

\* _require_lease.
Leased(i, w) == item[i].owner = w /\ item[i].status \in Working

CancelRequested(i) == job[JobOf[i]].cancel

\* Mutant of Ready: items that wait for an external parse are never ready.
ReadyWithoutExternal ==
    {i \in Items : item[i].status \in {"queued", "retry_wait"} /\ ~CancelRequested(i) /\ i \notin later}

\* ready_item_ids, then publish: a marked item is not published again.
Ready == {i \in Items : item[i].status \in Waiting /\ ~CancelRequested(i) /\ i \notin later}

Publish(S) ==
    /\ stream' = stream \cup (S \ marker)
    /\ marker' = marker \cup S
    /\ UNCHANGED pending

\* The row of an item leaves the worker.
Settled(i, status) ==
    item' = [item EXCEPT ![i].status = status, ![i].owner = Nobody]

CloseTicket(i) ==
    ticket' = [ticket EXCEPT ![i].state = IF @ = "none" THEN @ ELSE "closed"]

\* The key is given up if this item owns it.
ReleaseKey(i) ==
    key' = [key EXCEPT ![KeyOf[i]].status = IF key[KeyOf[i]].owner = i THEN "failed" ELSE @]

Goto(w, pc) == worker' = [worker EXCEPT ![w].pc = pc]

--------------------
(* Requests of the API: create_batch, cancel_job, retry_item.  The
   publication that follows a transaction may be lost with the process. *)

\* A job without files is refreshed in the transaction that creates it.
CreateJob(j) ==
    /\ job[j].status = "none"
    /\ job'  = [job EXCEPT ![j].status =
                  IF \E i \in Items : JobOf[i] = j THEN "queued" ELSE "completed"]
    /\ item' = [i \in Items |-> IF JobOf[i] = j THEN [item[i] EXCEPT !.status = "queued"]
                                ELSE item[i]]
    /\ \/ Publish(Ready \cup {i \in Items : JobOf[i] = j})
       \/ UNCHANGED queueVars
    /\ UNCHANGED <<later, key, ticket, worker, held, ingested, boundVars>>

\* Items a worker holds are left to it; the keys of the others stay taken.
CancelJob(j) ==
    LET dropped == {i \in Items : JobOf[i] = j /\ item[i].status \in Waiting} IN
    /\ job[j].status \notin JobTerminal \cup {"none"}
    /\ item' = [i \in Items |-> IF i \in dropped THEN [item[i] EXCEPT !.status = "cancelled"]
                                ELSE item[i]]
    /\ later' = later \ dropped
    /\ ticket' = [i \in Items |-> IF i \in dropped /\ ticket[i].state # "none"
                                  THEN [ticket[i] EXCEPT !.state = "closed"] ELSE ticket[i]]
    /\ job' = [job EXCEPT ![j] = [cancel |-> TRUE, status |-> StatusOf(j, TRUE, item')]]
    /\ UNCHANGED <<key, queueVars, worker, held, ingested, boundVars>>

RetryItem(i) ==
    /\ retries < MaxRetries
    /\ item[i].status = "dead_letter"
    /\ ~CancelRequested(i)
    /\ item' = [item EXCEPT ![i].status = "retry_wait", ![i].attempts = 0]
    /\ ticket' = [ticket EXCEPT ![i] = [state |-> "none", polls |-> 0]]
    /\ RefreshJob(JobOf[i])
    /\ Publish({i}) \/ UNCHANGED queueVars
    /\ retries' = retries + 1
    /\ UNCHANGED <<later, key, worker, held, ingested, stalls>>

--------------------
(* Time and failures. *)

\* next_attempt_at is reached.
Due(i) ==
    /\ i \in later
    /\ later' = later \ {i}
    /\ UNCHANGED <<job, item, key, ticket, queueVars, worker, held, ingested, boundVars>>

\* The marker in Redis expires after an hour; only a ready item notices.
MarkerExpires(i) ==
    /\ i \in marker \cap Ready
    /\ marker' = marker \ {i}
    /\ UNCHANGED <<dbVars, stream, pending, worker, held, ingested, boundVars>>

\* Mutant of RecoverExpiredLeases: the jobs of the items are not refreshed.
RecoverUnnoticed ==
    \E S \in SUBSET {i \in Items : item[i].status \in Working} :
        /\ stalls' = stalls + Cardinality({i \in S : Up(item[i].owner)})
        /\ stalls' <= MaxStalls
        /\ item' = [i \in Items |->
                      IF i \notin S THEN item[i]
                      ELSE [item[i] EXCEPT !.owner = Nobody,
                              !.status = IF CancelRequested(i) THEN "cancelled" ELSE "retry_wait"]]
        /\ UNCHANGED job

\* recover_expired_leases.  A lease runs out some time after its worker died,
\* and under a live worker when heartbeats fail for a whole lease.  Attempts are
\* not looked at, and neither the key nor a ticket is.
RecoverExpiredLeases ==
    \E S \in SUBSET {i \in Items : item[i].status \in Working} :
        /\ stalls' = stalls + Cardinality({i \in S : Up(item[i].owner)})
        /\ stalls' <= MaxStalls
        /\ item' = [i \in Items |->
                      IF i \notin S THEN item[i]
                      ELSE [item[i] EXCEPT !.owner = Nobody,
                              !.status = IF CancelRequested(i) THEN "cancelled" ELSE "retry_wait"]]
        /\ job' = [j \in Jobs |->
                     IF \A i \in S : JobOf[i] # j THEN job[j]
                     ELSE [job[j] EXCEPT !.status = StatusOf(j, job[j].cancel, item')]]

\* start and prepare: leases and pending deliveries of earlier processes.
Start(w) ==
    /\ worker[w].pc = "off"
    /\ RecoverExpiredLeases
    /\ held' = [held EXCEPT ![w] = pending]
    /\ Goto(w, "enqueue")
    /\ UNCHANGED <<later, key, ticket, queueVars, ingested, retries>>

Dead(w) ==
    /\ worker' = [worker EXCEPT ![w] = [pc |-> "dead", item |-> Nobody]]
    /\ held' = [held EXCEPT ![w] = {}]

Crash(w) ==
    /\ Up(w)
    /\ Dead(w)
    /\ UNCHANGED <<dbVars, queueVars, ingested, boundVars>>

Acknowledge(i) ==
    /\ pending' = pending \ {i}
    /\ marker'  = marker \ {i}
    /\ UNCHANGED stream

\* stop cancels the loop: the finally block still acknowledges the message, and
\* the item keeps the lease of the stopped worker.
Stop(w) ==
    /\ Busy(w)
    /\ worker[w].pc # "got"
    /\ Acknowledge(Mine(w))
    /\ Dead(w)
    /\ UNCHANGED <<dbVars, ingested, boundVars>>

--------------------
(* The loop of a worker: reconcile, then one message. *)

\* reconcile: recover_pending, if no recovered message is left, and
\* recover_expired_leases.
Reconcile(w) ==
    /\ worker[w].pc = "idle"
    /\ held' = [held EXCEPT ![w] = IF @ = {} THEN pending ELSE @]
    /\ RecoverExpiredLeases
    /\ Goto(w, "enqueue")
    /\ UNCHANGED <<later, key, ticket, queueVars, ingested, retries>>

\* enqueue_ready.
Enqueue(w) ==
    /\ worker[w].pc = "enqueue"
    /\ Publish(Ready)
    /\ Goto(w, "idle")
    /\ UNCHANGED <<dbVars, held, ingested, boundVars>>

\* run_once: a recovered message, else the next one of the stream.
Take(w, i) ==
    /\ worker[w].pc = "idle"
    /\ \/ /\ i \in held[w]
          /\ held' = [held EXCEPT ![w] = @ \ {i}]
          /\ UNCHANGED queueVars
       \/ /\ held[w] = {} /\ i \in stream
          /\ stream' = stream \ {i}
          /\ pending' = pending \cup {i}
          /\ UNCHANGED <<held, marker>>
    /\ worker' = [worker EXCEPT ![w] = [pc |-> "got", item |-> i]]
    /\ UNCHANGED <<dbVars, ingested, boundVars>>

\* claim_item; a message whose item is not eligible is acknowledged.
Claim(w) ==
    LET i == Mine(w)
        eligible == item[i].status \in Waiting /\ i \notin later /\ ~CancelRequested(i)
    IN  /\ worker[w].pc = "got"
        /\ IF eligible
           THEN /\ item' = [item EXCEPT ![i] =
                              [status |-> "claimed", owner |-> w,
                               attempts |-> IF @.status = "external_wait" THEN @.attempts
                                            ELSE @.attempts + 1]]
                /\ job' = [job EXCEPT ![JobOf[i]].status = "running"]
                /\ Goto(w, "check")
           ELSE UNCHANGED <<item, job>> /\ Goto(w, "ack")
        /\ UNCHANGED <<later, key, ticket, queueVars, held, ingested, boundVars>>

\* is_cancel_requested after the claim.
CheckCancel(w) ==
    /\ worker[w].pc = "check"
    /\ Goto(w, IF CancelRequested(Mine(w)) THEN "drop" ELSE "key")
    /\ UNCHANGED <<dbVars, queueVars, held, ingested, boundVars>>

\* A method that requires the lease raises without it, which is an error the
\* worker does not retry.
LeaseLost(w) ==
    /\ ~Leased(Mine(w), w)
    /\ Goto(w, "reject")
    /\ UNCHANGED <<dbVars, ingested>>

\* cancel_claimed_item: the key is not given up.
CancelClaimed(w) ==
    LET i == Mine(w) IN
    /\ worker[w].pc = "drop"
    /\ \/ LeaseLost(w)
       \/ /\ Leased(i, w)
          /\ Settled(i, "cancelled")
          /\ CloseTicket(i)
          /\ RefreshJob(JobOf[i])
          /\ Goto(w, "ack")
          /\ UNCHANGED <<later, key, ingested>>
    /\ UNCHANGED <<queueVars, held, boundVars>>

\* claim_idempotency, which does not look at the lease.
ClaimKey(w) ==
    LET i == Mine(w)
        k == key[KeyOf[i]]
    IN  /\ worker[w].pc = "key"
        /\ \/ /\ k.status = "completed"
              /\ Goto(w, "finish") /\ UNCHANGED key
           \/ /\ k.status \in {"none", "failed"} \/ k.owner = i
              /\ k.status # "completed"
              /\ key' = [key EXCEPT ![KeyOf[i]] =
                           IF k.owner = i THEN k ELSE [status |-> "processing", owner |-> i]]
              /\ Goto(w, "work")
           \/ /\ k.status = "processing" /\ k.owner # i
              /\ Goto(w, "reject") /\ UNCHANGED key
        /\ UNCHANGED <<job, item, later, ticket, queueVars, held, ingested, boundVars>>

\* The next stage of an item: start_parsing, start_understanding,
\* start_applying.  A deletion is applied at once.
Stages(i) ==
    IF i \in Deletions THEN [claimed |-> "applying"]
    ELSE [claimed |-> "parsing", parsing |-> "understanding", understanding |-> "applying"]

StartStage(w) ==
    LET i == Mine(w) IN
    /\ worker[w].pc = "work"
    /\ \/ LeaseLost(w)
       \/ /\ Leased(i, w) /\ CancelRequested(i)
          /\ Goto(w, "reject")
          /\ UNCHANGED <<item, ingested>>
       \/ /\ Leased(i, w) /\ ~CancelRequested(i)
          /\ item' = [item EXCEPT ![i].status = Stages(i)[@]]
          /\ Goto(w, CASE item'[i].status = "parsing"  -> "parse"
                       [] item'[i].status = "applying" -> "applied"
                       [] OTHER -> "work")
          /\ UNCHANGED ingested
    /\ UNCHANGED <<job, later, key, ticket, queueVars, held, boundVars>>

\* _parse_document yields a document: the ticket of an external parse, if any,
\* is closed under the lease.
Parsed(w) ==
    LET i == Mine(w) IN
    /\ worker[w].pc = "parse"
    /\ \/ /\ ticket[i].state = "none"
          /\ Goto(w, "work")
          /\ UNCHANGED <<dbVars, ingested>>
       \/ /\ ticket[i].state # "none"
          /\ \/ LeaseLost(w)
             \/ /\ Leased(i, w)
                /\ CloseTicket(i)
                /\ Goto(w, "work")
                /\ UNCHANGED <<job, item, later, key, ingested>>
    /\ UNCHANGED <<queueVars, held, boundVars>>

\* defer_external_parse: the worker lets the item go until the next poll.
Defer(w) ==
    LET i == Mine(w) IN
    /\ worker[w].pc = "parse"
    /\ ticket[i].polls < MaxPolls
    /\ \/ LeaseLost(w)
       \/ /\ Leased(i, w)
          /\ Settled(i, "external_wait")
          /\ later' = later \cup {i}
          /\ ticket' = [ticket EXCEPT ![i] = [state |-> "active", polls |-> @.polls + 1]]
          /\ RefreshJob(JobOf[i])
          /\ Goto(w, "ack")
          /\ UNCHANGED <<key, ingested>>
    /\ UNCHANGED <<queueVars, held, boundVars>>

\* ingest_prepared or propose_source_retraction: the store knows no leases.
Ingest(w) ==
    /\ worker[w].pc = "applied"
    /\ ingested' = ingested \cup {KeyOf[Mine(w)]}
    /\ Goto(w, "finish")
    /\ UNCHANGED <<dbVars, queueVars, held, boundVars>>

\* complete_item, after the store (item applying) or for a duplicate (claimed).
Complete(w) ==
    LET i == Mine(w) IN
    /\ worker[w].pc = "finish"
    /\ \/ LeaseLost(w)
       \/ /\ Leased(i, w)
          /\ IF item[i].status = "applying"
             THEN /\ Settled(i, "completed")
                  /\ key' = [key EXCEPT ![KeyOf[i]].status =
                               IF key[KeyOf[i]].owner = i THEN "completed" ELSE @]
             ELSE Settled(i, "skipped") /\ UNCHANGED key
          /\ RefreshJob(JobOf[i])
          /\ Goto(w, "ack")
          /\ UNCHANGED <<later, ticket, ingested>>
    /\ UNCHANGED <<queueVars, held, boundVars>>

\* fetch, parsing, validation or the store raises.
WorkRaises(w) ==
    /\ worker[w].pc \in {"work", "parse", "applied"}
    /\ Goto(w, "fail") \/ Goto(w, "reject")
    /\ UNCHANGED <<dbVars, queueVars, held, ingested, boundVars>>

\* fail_item; without the lease it raises in its turn and changes nothing.
FailItem(w) ==
    LET i == Mine(w) IN
    /\ worker[w].pc \in {"fail", "reject"}
    /\ \/ ~Leased(i, w) /\ UNCHANGED dbVars
       \/ /\ Leased(i, w)
          /\ IF ~CancelRequested(i) /\ worker[w].pc = "fail" /\ item[i].attempts < MaxAttempts
             THEN /\ Settled(i, "retry_wait")
                  /\ later' = later \cup {i}
                  /\ UNCHANGED <<key, ticket>>
             ELSE /\ Settled(i, IF CancelRequested(i) THEN "cancelled" ELSE "dead_letter")
                  /\ CloseTicket(i)
                  /\ ReleaseKey(i)
                  /\ UNCHANGED later
          /\ RefreshJob(JobOf[i])
    /\ Goto(w, "ack")
    /\ UNCHANGED <<queueVars, held, ingested, boundVars>>

Ack(w) ==
    /\ worker[w].pc = "ack"
    /\ Acknowledge(Mine(w))
    /\ worker' = [worker EXCEPT ![w] = [pc |-> "idle", item |-> Nobody]]
    /\ UNCHANGED <<dbVars, held, ingested, boundVars>>

--------------------
Process(w) ==
    \/ Claim(w) \/ CheckCancel(w) \/ CancelClaimed(w) \/ ClaimKey(w)
    \/ StartStage(w) \/ Parsed(w) \/ Defer(w) \/ Ingest(w) \/ Complete(w)
    \/ WorkRaises(w) \/ FailItem(w) \/ Ack(w)

Next ==
    \/ \E j \in Jobs : CreateJob(j) \/ CancelJob(j)
    \/ \E i \in Items : RetryItem(i) \/ Due(i) \/ MarkerExpires(i)
    \/ \E w \in Workers :
          \/ Start(w) \/ Crash(w) \/ Stop(w)
          \/ Reconcile(w) \/ Enqueue(w) \/ \E i \in Items : Take(w, i)
          \/ Process(w)

Spec == Init /\ [][Next]_vars

\* A running worker finishes what it has in hand; its loop reconciles again and
\* again between messages and the stream is read in order, so neither is put
\* off for ever; clocks advance, so the lease of a dead worker runs out.
DeadLeasesRecovered ==
    \A i \in Items : item[i].status \in Working /\ ~Up(item[i].owner) => item'[i].owner = Nobody

Fairness ==
    /\ \A w \in Workers :
          /\ WF_vars(Process(w)) /\ WF_vars(Enqueue(w))
          /\ SF_vars(Reconcile(w) /\ DeadLeasesRecovered)
          /\ \A i \in Items : SF_vars(Take(w, i))
    /\ \A i \in Items : WF_vars(Due(i))

FairSpec == Spec /\ Fairness

--------------------
\* Rows of the tables.
IngestJobRow  == [status : {"none", "queued", "running", "cancelling"} \cup JobTerminal,
                  cancel : BOOLEAN]
IngestItemRow == [status : {"none"} \cup Waiting \cup Working \cup Terminal,
                  attempts : Nat, owner : Workers \cup {Nobody}]
IngestKeyRow  == [status : {"none", "processing", "completed", "failed"},
                  owner : Items \cup {Nobody}]
TicketRow     == [state : {"none", "active", "closed"}, polls : 0..MaxPolls]

TypeOK ==
    /\ job \in [Jobs -> IngestJobRow] /\ item \in [Items -> IngestItemRow]
    /\ key \in [Keys -> IngestKeyRow] /\ ticket \in [Items -> TicketRow]
    /\ later \subseteq Items
    /\ marker \subseteq Items /\ stream \subseteq Items /\ pending \subseteq Items
    /\ worker \in [Workers -> [pc : WorkerPCs, item : Items \cup {Nobody}]]
    /\ held \in [Workers -> SUBSET Items]
    /\ ingested \subseteq Keys
    /\ stalls \in Nat /\ retries \in Nat

(* The same change is applied once: of all the items that carry one
   idempotency key, in whatever jobs, at most one is ever recorded as
   completed, and it is one whose content the store has received; the
   others are skipped, fail or wait (claim_idempotency, complete_item).
   Several workers keep it through crashes and lost leases.  Manual
   retries keep it with the one worker the service deploys, not with two:
   an item that owns a failed key goes on without marking it "processing"
   again, so that a second item may take the key from it. *)
AppliedOnce ==
    \A i \in Items : item[i].status = "completed" =>
        /\ key[KeyOf[i]] = [status |-> "completed", owner |-> i]
        /\ KeyOf[i] \in ingested

(* The status of a job is the verdict on its items: it is final exactly
   when all of them are, and it reports errors exactly when one of them
   is a dead letter (_refresh_job after every transition of an item). *)
JobReflectsItems ==
    \A j \in Jobs : job[j].status # "none" =>
        LET verdict == StatusOf(j, job[j].cancel, item) IN
        job[j].status # verdict => job[j].status = "queued" /\ verdict = "running"

(* PostgreSQL is the authority and Redis only delivers, yet no work is
   lost between them: an item whose marker forbids another publication has
   a message that some worker can still get. *)
MarkedWorkIsDeliverable == marker \subseteq stream \cup pending

(* An item is worked on by its lease owner only: two workers never hold
   the lease of one item, and a worker never holds two (claim_item). *)
OneLeasePerWorker ==
    \A w \in Workers : \A i \in Items :
        Leased(i, w) /\ Up(w) => Busy(w) /\ Mine(w) = i

(* Changes, jobs, queue and workers agree: a change is applied once, jobs
   report their items, marked items have a message, and every lease is
   worked on by its owner. *)
IngestHolds == AppliedOnce /\ JobReflectsItems /\ MarkedWorkIsDeliverable /\ OneLeasePerWorker

(* Every item of a job that is not cancelled ends up completed, skipped or
   a dead letter, as long as a worker is up: crashes, stops, lost
   messages, retries and external waits included, and with one worker its
   change is then applied once although items are retried by hand. *)
ItemsSettle ==
    \A i \in Items, w \in Workers :
        (item[i].status \notin Terminal \cup {"none"} /\ Up(w))
          ~> \/ item[i].status \in Terminal /\ AppliedOnce
             \/ CancelRequested(i) \/ ~Up(w)

(* "Cancelling a waiting task terminates the item and the external ticket":
   a cancelled job comes to an end while a worker is up, whatever its
   items were doing when cancel_job was called. *)
CancelCompletes ==
    \A j \in Jobs, w \in Workers :
        (job[j].cancel /\ Up(w)) ~> (job[j].status = "cancelled" \/ ~Up(w))
====
