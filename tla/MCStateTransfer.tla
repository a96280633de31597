-------------------------- MODULE MCStateTransfer --------------------------
(* Small instances of StateTransfer for TLC. *)
EXTENDS StateTransfer, TLC

Symmetry == Permutations(Tasks) \cup Permutations(Updaters)
=============================================================================
