------------------------------ MODULE ListSeq ------------------------------
(***************************************************************************)
(* What dplist.h promises of a list: a sequence of elements with insertion *)
(* and removal at an index, where an index outside the list means its      *)
(* nearest end, and a lookup that answers with the index of the first      *)
(* match, or -1.  Indices start at 0.                                      *)
(***************************************************************************)
EXTENDS Integers, Sequences, SequencesExt

CONSTANTS Elements,   \* what a list may hold
          Indices     \* the indices a caller may pass

VARIABLES items,      \* the list
          answer      \* the last call, if a lookup: <<element, index>>; else <<>>

Clamp(i, last) == IF i < 0 THEN 0 ELSE IF i > last THEN last ELSE i

Init == items = <<>> /\ answer = <<>>

Insert(e, i) ==
  /\ items' = InsertAt(items, Clamp(i, Len(items)) + 1, e)
  /\ answer' = <<>>

RemoveIndex(i) ==
  /\ items # <<>>
  /\ items' = RemoveAt(items, Clamp(i, Len(items) - 1) + 1)
  /\ answer' = <<>>

Clear == items' = <<>> /\ answer' = <<>>

Lookup(e) ==
  /\ answer' = <<e, SelectInSeq(items, LAMBDA x : x = e) - 1>>
  /\ UNCHANGED items

Next ==
  \/ \E e \in Elements, i \in Indices : Insert(e, i)
  \/ \E i \in Indices : RemoveIndex(i)
  \/ Clear
  \/ \E e \in Elements : Lookup(e)

Spec == Init /\ [][Next]_<<items, answer>>
=============================================================================
