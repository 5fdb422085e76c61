---------------------------- MODULE MCCardFile ----------------------------
(* Two writers of one card for TLC, files interchangeable, and writers. *)
EXTENDS CardFile, TLC

Symmetry == Permutations(Writers) \cup Permutations(Files)
=============================================================================
