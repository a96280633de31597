---------------------------- MODULE MCLiveUpdate ----------------------------
(* Small instances of LiveUpdate for TLC. *)
EXTENDS LiveUpdate, TLC

Symmetry == Permutations(Tasks) \cup Permutations(Updaters)
=============================================================================
