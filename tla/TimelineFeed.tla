---- MODULE TimelineFeed ----
(* RunCoordinator.subscribe (core/coding/run_coordinator.py): one reader
   of a session timeline.  A subscription replays the history page by page
   up to a high-water mark, then takes live events from a bounded queue
   that drops its oldest entry when full, and repairs every gap from the
   journal.  Events of other application instances, and rejected inputs,
   reach the journal without a broadcast: the reader polls for them.

   An event is its sequence number.  The reader may disconnect at any time
   and subscribe again after the last event it received. *)
EXTENDS Naturals, Sequences

CONSTANTS PageSize,    \* limit of one replay page (500 in the code)
          QueueSize,   \* subscriber_queue_size
          MaxHigh,     \* bound on the committed events
          MaxDrops     \* bound on the disconnections of the reader

ASSUME FeedAssumption ==
    /\ PageSize \in Nat \ {0} /\ QueueSize \in Nat \ {0} /\ MaxHigh \in Nat
    /\ MaxDrops \in Nat

VARIABLES high,        \* newest committed sequence number (latest_sequence)
          last,        \* _last_broadcast_sequence
          stored,      \* event committed under _publish_lock, 0 when it is free
          pc,          \* off, replay, live, repair, or error (the gap error)
          queue,       \* the subscriber's queue
          cursor,      \* last event yielded
          target,      \* where the current replay or repair ends
          page,        \* last event of the page in hand
          delivered,   \* the events the reader has received
          drops        \* disconnections so far

vars == <<high, last, stored, pc, queue, cursor, target, page, delivered, drops>>

Init ==
    /\ high = 0 /\ last = 0 /\ stored = 0
    /\ pc = "off" /\ queue = <<>> /\ cursor = 0 /\ target = 0 /\ page = 0
    /\ delivered = <<>> /\ drops = 0

--------------------
(* Writers. *)

\* _begin_run and _persist: the transaction commits while _publish_lock is held.
LocalCommit ==
    /\ stored = 0
    /\ high < MaxHigh
    /\ high' = high + 1
    /\ stored' = high + 1
    /\ UNCHANGED <<last, pc, queue, cursor, target, page, delivered, drops>>

\* A terminal transaction that finds the run closed returns the old event.
LocalExisting ==
    /\ stored = 0
    /\ stored' \in 1..high
    /\ UNCHANGED <<high, last, pc, queue, cursor, target, page, delivered, drops>>

\* _broadcast, then _publish_lock is released.
Broadcast ==
    /\ stored # 0
    /\ stored' = 0
    /\ last' = IF stored <= last THEN last ELSE stored
    /\ queue' = IF stored <= last \/ pc = "off" THEN queue
                ELSE Append(IF Len(queue) = QueueSize THEN Tail(queue) ELSE queue, stored)
    /\ UNCHANGED <<high, pc, cursor, target, page, delivered, drops>>

\* Another instance, or _start_rejected_input_run, appends to the journal.
RemoteCommit ==
    /\ high < MaxHigh
    /\ high' = high + 1
    /\ UNCHANGED <<last, stored, pc, queue, cursor, target, page, delivered, drops>>

--------------------
(* The reader. *)

\* The high-water mark is read and the queue registered under _publish_lock.
Subscribe ==
    /\ pc = "off"
    /\ stored = 0
    /\ pc' = "replay"
    /\ target' = high
    /\ page' = cursor
    /\ queue' = <<>>
    /\ UNCHANGED <<high, last, stored, cursor, delivered, drops>>

Disconnect ==
    /\ pc \in {"replay", "live", "repair"}
    /\ drops < MaxDrops
    /\ drops' = drops + 1
    /\ pc' = "off"
    /\ queue' = <<>>
    /\ UNCHANGED <<high, last, stored, cursor, target, page, delivered>>

MinOf(a, b) == IF a <= b THEN a ELSE b

\* journal.replay(after=cursor, limit=PageSize), cut at the target.  The gap
\* error needs a page without an event up to the target.
ReadPage ==
    /\ pc \in {"replay", "repair"}
    /\ page = cursor /\ cursor < target
    /\ page' = MinOf(MinOf(cursor + PageSize, high), target)
    /\ pc' = IF page' = cursor THEN (IF pc = "replay" THEN "live" ELSE "error") ELSE pc
    /\ UNCHANGED <<high, last, stored, queue, cursor, target, delivered, drops>>

\* One event of the page is yielded.
YieldPage ==
    /\ pc \in {"replay", "repair"}
    /\ cursor < page
    /\ cursor' = cursor + 1
    /\ delivered' = Append(delivered, cursor + 1)
    /\ UNCHANGED <<high, last, stored, pc, queue, target, page, drops>>

\* The replay or the repair has reached its target.
GoLive ==
    /\ pc \in {"replay", "repair"}
    /\ page = cursor /\ cursor >= target
    /\ pc' = "live"
    /\ UNCHANGED <<high, last, stored, queue, cursor, target, page, delivered, drops>>

\* Mutant of TakeLive: an event beyond the next one is yielded at once.
TakeLiveAcrossGap ==
    /\ pc = "live"
    /\ queue # <<>>
    /\ queue' = Tail(queue)
    /\ IF Head(queue) <= cursor
       THEN UNCHANGED <<cursor, page, delivered>>
       ELSE /\ cursor' = Head(queue)
            /\ page' = Head(queue)
            /\ delivered' = Append(delivered, Head(queue))
    /\ UNCHANGED <<high, last, stored, pc, target, drops>>

\* queue.get(): a stale event is skipped, the next one yielded, and one beyond
\* it becomes the target of a repair.
TakeLive ==
    /\ pc = "live"
    /\ queue # <<>>
    /\ queue' = Tail(queue)
    /\ \/ /\ Head(queue) <= cursor
          /\ UNCHANGED <<pc, cursor, target, page, delivered>>
       \/ /\ Head(queue) = cursor + 1
          /\ cursor' = cursor + 1
          /\ page' = cursor + 1
          /\ delivered' = Append(delivered, cursor + 1)
          /\ UNCHANGED <<pc, target>>
       \/ /\ Head(queue) > cursor + 1
          /\ pc' = "repair"
          /\ target' = Head(queue)
          /\ UNCHANGED <<cursor, page, delivered>>
    /\ UNCHANGED <<high, last, stored, drops>>

\* Mutant of Poll: the target is the sequence number after the newest one.
PollPastEnd ==
    /\ pc = "live"
    /\ queue = <<>>
    /\ high > cursor
    /\ pc' = "repair"
    /\ target' = high + 1
    /\ UNCHANGED <<high, last, stored, queue, cursor, page, delivered, drops>>

\* Mutant of Poll: only what this instance broadcast is looked for.
PollLocal ==
    /\ pc = "live"
    /\ queue = <<>>
    /\ last > cursor
    /\ pc' = "repair"
    /\ target' = last
    /\ UNCHANGED <<high, last, stored, queue, cursor, page, delivered, drops>>

\* The poll interval passes with an empty queue.
Poll ==
    /\ pc = "live"
    /\ queue = <<>>
    /\ high > cursor
    /\ pc' = "repair"
    /\ target' = high
    /\ UNCHANGED <<high, last, stored, queue, cursor, page, delivered, drops>>

Reader == ReadPage \/ YieldPage \/ GoLive \/ TakeLive \/ Poll

Next ==
    \/ LocalCommit \/ LocalExisting \/ Broadcast \/ RemoteCommit
    \/ Subscribe \/ Disconnect
    \/ Reader

Spec == Init /\ [][Next]_vars

\* The event loop runs the coroutine of a connected reader and finishes a
\* publication; a reader that is away subscribes again, and asyncio.Lock serves
\* its waiters in order, so registration is not overtaken for ever.
FairSpec == Spec /\ WF_vars(Broadcast) /\ WF_vars(Reader) /\ SF_vars(Subscribe)

--------------------
TypeOK ==
    /\ high \in Nat /\ last \in Nat /\ stored \in Nat
    /\ pc \in {"off", "replay", "live", "repair", "error"}
    /\ queue \in Seq(Nat) /\ Len(queue) <= QueueSize
    /\ cursor \in Nat /\ target \in Nat /\ page \in Nat
    /\ delivered \in Seq(Nat)
    /\ drops \in Nat

(* The reader receives 1, 2, 3, ... whatever the queue dropped, whoever
   wrote the events and however often it reconnected: no gap, no
   repetition, no reordering (the target = cursor + 1 test of subscribe). *)
InOrder ==
    /\ cursor = Len(delivered)
    /\ \A n \in DOMAIN delivered : delivered[n] = n

(* Nothing is shown before it is durable, and the gap error of subscribe
   never fires: whatever a target promises is in the journal. *)
GapsAreRepairable ==
    /\ pc # "error"
    /\ cursor <= high
    /\ pc = "repair" => cursor <= target /\ target <= high

\* The feed delivers what the timeline promises: the journal's newest sequence
\* number is what was committed, the events handed over what was delivered.
Delivery == INSTANCE TimelineDelivery WITH high <- high, delivered <- delivered

(* The feed implements in-order, exactly-once, eventual delivery: also an
   event that another instance committed, or that the full queue dropped,
   reaches the reader. *)
ImplementsDelivery == Delivery!Spec
====
