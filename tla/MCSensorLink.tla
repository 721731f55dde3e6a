---------------------------- MODULE MCSensorLink ----------------------------
(* A reading of four units whose value can be torn; one node sends two
   readings, the other one. *)
EXTENDS SensorLink

CONSTANTS n1, n2

SomeNodes == {n1, n2}
SomeSizes == [id |-> 1, value |-> 2, ts |-> 1]
SomeLoops == [c \in SomeNodes |-> IF c = n1 THEN 2 ELSE 1]
=============================================================================
