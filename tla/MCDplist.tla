------------------------------ MODULE MCDplist ------------------------------
(***************************************************************************)
(* Instances of Dplist and ListExercise for TLC.  A caller may pass any    *)
(* index from below the first to beyond the last node.                     *)
(***************************************************************************)
EXTENDS ListExercise

IndexRange == -1..(MaxNodes + 1)
=============================================================================
