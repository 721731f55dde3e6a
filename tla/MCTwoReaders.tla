--------------------------- MODULE MCTwoReaders ---------------------------
(***************************************************************************)
(* Instances of TwoReaders for TLC.                                        *)
(***************************************************************************)
EXTENDS TwoReaders

AllFaults == {"init", "output", "thread", "input", "insert"}
=============================================================================
