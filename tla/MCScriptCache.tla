---------------------------- MODULE MCScriptCache ----------------------------
(* Small instances of ScriptCache for TLC. *)
EXTENDS ScriptCache, TLC

CONSTANTS p1, p2

\* The empty pattern, whose hash is that of a freed entry, and another one.
MCHash == p1 :> 0 @@ p2 :> 1

Symmetry == Permutations(Masters) \cup Permutations(Tasks)
==============================================================================
