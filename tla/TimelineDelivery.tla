---- MODULE TimelineDelivery ----
(* What the timeline of a session promises a reader: the committed events
   arrive one by one, in the order of their sequence numbers, without a
   gap and without a repetition, and every one of them arrives. *)
EXTENDS Naturals, Sequences

VARIABLES high,       \* sequence number of the newest committed event
          delivered   \* sequence numbers the reader has received

deliveryVars == <<high, delivered>>

Init == high = 0 /\ delivered = <<>>

Commit == high' = high + 1 /\ UNCHANGED delivered

Deliver ==
    /\ Len(delivered) < high
    /\ delivered' = Append(delivered, Len(delivered) + 1)
    /\ UNCHANGED high

Next == Commit \/ Deliver

Spec == Init /\ [][Next]_deliveryVars /\ WF_deliveryVars(Deliver)
====
