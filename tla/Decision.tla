---- MODULE Decision ----
(* What a reviewed proposal promises: it is decided at most once, nothing
   but an accepted proposal is carried out, and every accepted one is. *)
CONSTANT Subjects

VARIABLES verdict,    \* "none", "open", "accepted" or "refused"
          carriedOut  \* the subjects whose effect is complete

decisionVars == <<verdict, carriedOut>>

Init == verdict = [s \in Subjects |-> "none"] /\ carriedOut = {}

Move(s, from, to) ==
  verdict[s] = from /\ verdict' = [verdict EXCEPT ![s] = to] /\ UNCHANGED carriedOut

Propose(s) == Move(s, "none", "open")
Accept(s)  == Move(s, "open", "accepted")
Refuse(s)  == Move(s, "open", "refused")

CarryOut(s) ==
  /\ verdict[s] = "accepted" /\ s \notin carriedOut
  /\ carriedOut' = carriedOut \cup {s} /\ UNCHANGED verdict

Next == \E s \in Subjects : Propose(s) \/ Accept(s) \/ Refuse(s) \/ CarryOut(s)

Spec == Init /\ [][Next]_decisionVars /\ \A s \in Subjects : WF_decisionVars(CarryOut(s))
====
