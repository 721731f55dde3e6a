---------------------------- MODULE ListExercise ----------------------------
(***************************************************************************)
(* The list of milestone1/ex2, from which lib/dplist.c was made, given the *)
(* same calls as the list of Dplist.tla.  Insertion and look-up by index   *)
(* are the same code; removal, dpl_free and the search are not.  Removing  *)
(* the first node leaves the back link of its successor dangling, and some *)
(* calls dereference NULL or free an element twice, which ends the program *)
(* ("crashed").                                                            *)
(***************************************************************************)
EXTENDS Dplist

VARIABLES xheap, xhead, xfreed, xfault,   \* as heap, head, freed and fault
          crashed                         \* the program with this list has died

xVars   == <<xheap, xhead, xfreed, xfault, crashed>>
allVars == <<listVars, xVars>>

Ex == INSTANCE Dplist WITH heap <- xheap, head <- xhead, freed <- xfreed, fault <- xfault

XInit == Init /\ xheap = <<>> /\ xhead = NULL /\ xfreed = {} /\ xfault = FALSE /\ crashed = FALSE

(* The program dies; what it leaves behind is of no interest. *)
Dies == crashed' = TRUE /\ xheap' = <<>> /\ xhead' = NULL /\ xfreed' = {} /\ xfault' = FALSE

XInsert(e, i) == Ex!InsertAtIndex(e, i) /\ UNCHANGED crashed

(* Mutant: only a negative index means the first node. *)
IsFirst_Negative(i) == i < 0

IsFirst(i) == i <= 0

(* The old head, about to be freed, gets the NULL meant for the new one. *)
XRemoveFirst ==
  /\ xheap' = [xheap EXCEPT ![xhead].prev = NULL]
  /\ xhead' = xheap[xhead].next
  /\ xfreed' = xfreed \cup {xhead}
  /\ xfault' = (xfault \/ xhead \in xfreed)

(* The code compares the count of its walk with the index: only the exact
   index of the last node is recognised, so that an index from the size on
   has it write to the successor of the last node. *)
XRemoveOther(i) ==
  LET ref    == Ex!ReferenceAt(i)
      before == xheap[ref].prev
      after  == xheap[ref].next
      count  == IF i < Ex!Size THEN i ELSE Ex!Size - 1
  IN  IF before = NULL \/ (after = NULL /\ count # i) THEN Dies
      ELSE /\ xheap' = [k \in 1..Len(xheap) |->
                         [xheap[k] EXCEPT !.next = IF k = before THEN after ELSE @,
                                          !.prev = IF k = after THEN before ELSE @]]
           /\ xfreed' = xfreed \cup {ref}
           /\ xfault' = (xfault \/ {ref, before, after} \cap xfreed # {})
           /\ UNCHANGED <<xhead, crashed>>

XRemove(i) == IF IsFirst(i) THEN XRemoveFirst /\ UNCHANGED crashed ELSE XRemoveOther(i)

(* dpl_free frees each element twice. *)
XFree == IF xhead = NULL THEN UNCHANGED xVars ELSE Dies

(* dpl_get_index_of_element *)
XIndexOf(e) ==
  LET found == {k \in 0..(Ex!Size - 1) : xheap[Ex!Node[k]].element = e}
  IN  IF found = {} THEN -1 ELSE CHOOSE k \in found : \A j \in found : k <= j

-----------------------------------------------------------------------------
(* Both lists are given each call, until the exercise has died. *)

Along(step) == IF crashed THEN UNCHANGED xVars ELSE step

XFind == Find /\ UNCHANGED xVars

XNext ==
  \/ Create /\ Along(xhead' = NULL /\ UNCHANGED <<xheap, xfreed, xfault, crashed>>)
  \/ FreeList /\ Along(XFree)
  \/ \E e \in Elements, i \in Indices : InsertAtIndex(e, i) /\ Along(XInsert(e, i))
  \/ \E i \in Indices : RemoveAtIndex(i) /\ Along(XRemove(i))
  \/ \E e \in Elements : FindStart(e) /\ UNCHANGED xVars
  \/ XFind

XSpec == XInit /\ [][XNext]_allVars /\ WF_allVars(XFind)

(* The exercise is the same list as its successor as long as it lives: the
   back link that dangles after a removal at the front is never followed, no
   freed node is used, and an index is found or not found alike. *)
ExerciseAgrees ==
  ~crashed =>
    /\ Ex!Items = Items /\ ~xfault
    /\ \A i \in Indices : Ex!ElementAt(i) = ElementAt(i)
    /\ \A e \in Elements :
         XIndexOf(e) = (Documented!SelectInSeq(Items, LAMBDA x : x = e)) - 1
=============================================================================
