----------------------------- MODULE MCGateway -----------------------------
(***************************************************************************)
(* Instances of Gateway for TLC.  Clients are interchangeable when the     *)
(* sensor map holds all of them.                                           *)
(***************************************************************************)
EXTENDS Gateway, TLC

ClientSymmetry == Permutations(Clients)
=============================================================================
