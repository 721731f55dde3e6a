------------------------------ MODULE MCLogger ------------------------------
(***************************************************************************)
(* Instances of Logger for TLC.                                            *)
(***************************************************************************)
EXTENDS Logger, TLC

(* The instance can fill the pipe and exceed it. *)
ASSUME Capacity < MaxMessages
=============================================================================
