---------------------------- MODULE MCConnection ----------------------------
(* Instantiates Connection for TLC: the constants are model values in the   *)
(* .cfg files; this module adds the symmetry and the state bound.           *)
EXTENDS Connection

\* Callers, producers and consumer ids are interchangeable names.
Symmetry == Permutations(Callers) \cup Permutations(Producers) \cup Permutations(ConsumerIds)
=============================================================================
