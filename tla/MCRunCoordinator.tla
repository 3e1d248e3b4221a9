---- MODULE MCRunCoordinator ----
(* Model values for the runs of RunCoordinator. *)
EXTENDS RunCoordinator, TLC

Symmetry == Permutations(Runs) \cup Permutations(Owners)
====
