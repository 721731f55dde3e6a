---------------------------- MODULE SensorStream ----------------------------
(***************************************************************************)
(* What the gateway's shared buffer promises its users, without lists,     *)
(* stages, locks or condition variables: records enter a stream; the data  *)
(* manager receives them in the order they entered; the storage manager    *)
(* writes to the CSV file only records the data manager has received, in   *)
(* the same order.  The record End (a record with sensor id 0) ends the    *)
(* stream for both: nothing behind it is received, and it is not stored.   *)
(***************************************************************************)
EXTENDS Naturals, Sequences

CONSTANTS Data,   \* all sensor records
          End     \* the record that ends the stream

VARIABLES stream,     \* every record inserted so far
          received,   \* the records handed to the data manager
          csv         \* the rows of data.csv

svars == <<stream, received, csv>>

Init == stream = <<>> /\ received = <<>> /\ csv = <<>>

Ended == \E i \in 1..Len(received) : received[i] = End

Put(d) ==
  /\ stream' = Append(stream, d)
  /\ UNCHANGED <<received, csv>>

Receive ==
  /\ Len(received) < Len(stream)
  /\ ~Ended
  /\ received' = Append(received, stream[Len(received) + 1])
  /\ UNCHANGED <<stream, csv>>

Store ==
  /\ Len(csv) < Len(received)
  /\ received[Len(csv) + 1] # End
  /\ csv' = Append(csv, received[Len(csv) + 1])
  /\ UNCHANGED <<stream, received>>

Next == (\E d \in Data : Put(d)) \/ Receive \/ Store

SafeSpec == Init /\ [][Next]_svars

(***************************************************************************)
(* The consumers keep up: a record that can be received or stored is.      *)
(***************************************************************************)
Fairness == WF_svars(Receive) /\ WF_svars(Store)

Spec == SafeSpec /\ Fairness
=============================================================================
