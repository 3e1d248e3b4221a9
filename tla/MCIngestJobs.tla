---- MODULE MCIngestJobs ----
(* Two jobs, the second of which carries the same change as the first; a
   third item, a deletion, is worked on next to them when it is included. *)
EXTENDS IngestJobs, TLC

CONSTANTS i1, i2, i3, j1, j2, k1, k2

Symmetry == Permutations(Workers)

JobOfItem == [i \in Items |-> IF i = i1 THEN j1 ELSE j2]
KeyOfItem == [i \in Items |-> IF i = i3 THEN k2 ELSE k1]
====
