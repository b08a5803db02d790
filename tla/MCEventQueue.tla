---------------------------- MODULE MCEventQueue ----------------------------
(* Small instances of EventQueue for TLC.                                  *)
EXTENDS EventQueue, TLC

\* Readers run the same code on one shared queue, and so do writers.
Symmetry == Permutations(Writers) \cup Permutations(Readers)
=============================================================================
