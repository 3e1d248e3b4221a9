---- MODULE MCSourceSync ----
(* A source with one file and the scans a user may ask for. *)
EXTENDS SourceSync, TLC

CONSTANTS q1, q2

RootOnly == {Paths}

Symmetry == Permutations(Revisions)
====
