------------------------------ MODULE MCDataMgr ------------------------------
(***************************************************************************)
(* Instances of the data managers for TLC.  The temperatures are one that  *)
(* is physically impossible, one below, one between and one above the      *)
(* limits; their sums over a window fall on both sides of each limit.      *)
(***************************************************************************)
EXTENDS FileDataMgr

SomeIds    == {1, 2}
SomeRooms  == {7, 8}
SomeValues == {-280, 4, 12, 30}
=============================================================================
