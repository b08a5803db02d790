---------------------------- MODULE MCSuSession ----------------------------
(* Symmetry for TLC. *)
EXTENDS SuSession, TLC

Symmetry == Permutations(Tasks) \cup Permutations(Apps) \cup Permutations(Spaces)
=============================================================================
