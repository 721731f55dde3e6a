------------------------------- MODULE Dplist -------------------------------
(***************************************************************************)
(* The doubly linked list of lib/dplist.c, at the level of its pointers.   *)
(* The list has one user at a time (the data manager), so an operation is  *)
(* one step; only the search of dpl_get_index_of_element goes node by      *)
(* node, because the code does not always leave it.                        *)
(*                                                                         *)
(* The k-th node allocated has address k, NULL is 0, and addresses are not *)
(* reused.  An element is what element_compare tells apart; whether a node *)
(* holds a copy or the caller's pointer makes no difference to the list.   *)
(***************************************************************************)
EXTENDS Integers, Sequences

CONSTANTS
  Elements,   \* the elements
  Indices,    \* the indices passed to the operations
  MaxNodes    \* bound: nodes allocated in one behaviour

NULL == 0

ASSUME IndicesAssumption == Indices \subseteq Int
ASSUME NodesAssumption   == MaxNodes \in Nat

VARIABLES
  live,      \* the list exists: dpl_create but not dpl_free has been called
  heap,      \* heap[k]: the k-th node allocated, with prev, next and element
  head,      \* list->head
  freed,     \* the nodes passed to free
  fault,     \* a freed node was used
  cursor,    \* current in dpl_get_index_of_element, NULL outside of it
  index,     \* its index
  key,       \* the element it looks for
  answer     \* the last call, if a lookup: <<element, index>>; else <<>>

search   == <<cursor, index, key>>
listVars == <<live, heap, head, freed, fault, cursor, index, key, answer>>

Cell == [prev : 0..MaxNodes, next : 0..MaxNodes, element : Elements]

TypeOK ==
  /\ live \in BOOLEAN /\ fault \in BOOLEAN
  /\ heap \in Seq(Cell) /\ Len(heap) <= MaxNodes
  /\ head \in 0..Len(heap) /\ freed \subseteq 1..Len(heap)
  /\ cursor \in 0..Len(heap) /\ index \in 0..MaxNodes
  /\ key \in Elements \cup {NULL}
  /\ answer \in {<<>>} \cup (Elements \X (-1..MaxNodes))

Init ==
  /\ live = FALSE /\ heap = <<>> /\ head = NULL
  /\ freed = {} /\ fault = FALSE
  /\ cursor = NULL /\ index = 0 /\ key = NULL /\ answer = <<>>

(* The nodes in S are dereferenced. *)
Touch(S) == fault' = (fault \/ S \cap freed # {})

Ready == live /\ cursor = NULL

-----------------------------------------------------------------------------
(* Walking the list. *)

(* Where a loop along next is after k turns: NULL from the last node on. *)
Node[k \in Nat] ==
  IF k = 0 THEN head ELSE IF Node[k - 1] = NULL THEN NULL ELSE heap[Node[k - 1]].next

(* dpl_size counts the turns it takes to leave the list. *)
Size == CHOOSE n \in 0..Len(heap) : Node[n] = NULL /\ \A k \in 0..(n - 1) : Node[k] # NULL

Chained == {Node[k] : k \in 0..Len(heap)} \ {NULL}

(* Mutant: the walk goes one node too far. *)
ReferenceAt_OneTooFar(i) ==
  LET walk[k \in Nat] ==
        IF k = 0 THEN head
        ELSE IF heap[walk[k - 1]].next # NULL THEN heap[walk[k - 1]].next ELSE walk[k - 1]
  IN  IF head = NULL \/ i <= 0 THEN head ELSE walk[i + 1]

(* dpl_get_reference_at_index: i turns of the loop, none beyond the last node. *)
ReferenceAt(i) ==
  LET walk[k \in Nat] ==
        IF k = 0 THEN head
        ELSE IF heap[walk[k - 1]].next # NULL THEN heap[walk[k - 1]].next ELSE walk[k - 1]
  IN  IF head = NULL \/ i <= 0 THEN head ELSE walk[i]

(* dpl_get_element_at_index *)
ElementAt(i) == IF head = NULL THEN NULL ELSE heap[ReferenceAt(i)].element

(* dpl_get_element_at_reference looks for the element of the node and takes
   the index of the first match for a truth value: the index 0 is success,
   any other failure. *)
ElementAtReference(a) ==
  IF head # NULL /\ a # NULL /\ heap[a].element = heap[head].element
  THEN heap[a].element ELSE NULL

-----------------------------------------------------------------------------
(* The operations. *)

Create ==
  /\ ~live /\ live' = TRUE
  /\ head' = NULL
  /\ UNCHANGED <<heap, freed, fault, search, answer>>

NewCell(p, n, e) == [prev |-> p, next |-> n, element |-> e]

(* The four cases of dpl_insert_at_index; new is the node allocated. *)
InsertFirst(new, e) ==
  /\ head = NULL
  /\ heap' = Append(heap, NewCell(NULL, NULL, e))
  /\ head' = new
  /\ UNCHANGED fault

InsertFront(new, e, i) ==
  /\ head # NULL /\ i <= 0
  /\ heap' = Append([heap EXCEPT ![head].prev = new], NewCell(NULL, head, e))
  /\ head' = new
  /\ Touch({head})

(* Mutant: the node behind the new one keeps its back link. *)
InsertMiddle_NoBackLink(new, e, i) ==
  /\ head # NULL /\ 0 < i /\ i < Size
  /\ LET ref == ReferenceAt(i)
         before == heap[ref].prev
     IN  /\ heap' = Append([heap EXCEPT ![before].next = new], NewCell(before, ref, e))
         /\ Touch({ref, before})
  /\ UNCHANGED head

InsertMiddle(new, e, i) ==
  /\ head # NULL /\ 0 < i /\ i < Size
  /\ LET ref == ReferenceAt(i)
         before == heap[ref].prev
     IN  /\ heap' = Append([heap EXCEPT ![before].next = new, ![ref].prev = new],
                           NewCell(before, ref, e))
         /\ Touch({ref, before})
  /\ UNCHANGED head

InsertLast(new, e, i) ==
  /\ head # NULL /\ 0 < i /\ i >= Size
  /\ LET ref == ReferenceAt(i) IN
     /\ heap' = Append([heap EXCEPT ![ref].next = new], NewCell(ref, NULL, e))
     /\ Touch({ref})
  /\ UNCHANGED head

InsertAtIndex(e, i) ==
  /\ Ready /\ Len(heap) < MaxNodes
  /\ LET new == Len(heap) + 1 IN
     InsertFirst(new, e) \/ InsertFront(new, e, i) \/ InsertMiddle(new, e, i)
       \/ InsertLast(new, e, i)
  /\ answer' = <<>>
  /\ UNCHANGED <<live, freed, search>>

(* The neighbours of a node are linked to each other. *)
Unchain(ref) ==
  LET before == heap[ref].prev
      after  == heap[ref].next
  IN  /\ head' = IF before = NULL THEN after ELSE head
      /\ heap' = [k \in 1..Len(heap) |->
                   [heap[k] EXCEPT !.next = IF k = before THEN after ELSE @,
                                   !.prev = IF k = after THEN before ELSE @]]
      /\ Touch({ref, before, after})

RemoveAtIndex(i) ==
  /\ Ready /\ head # NULL
  /\ Unchain(ReferenceAt(i))
  /\ freed' = freed \cup {ReferenceAt(i)}
  /\ answer' = <<>>
  /\ UNCHANGED <<live, search>>

(* dpl_free walks the list, saving next before it frees a node. *)
FreeList ==
  /\ Ready
  /\ freed' = freed \cup Chained /\ Touch(Chained)
  /\ live' = FALSE /\ head' = NULL
  /\ answer' = <<>>
  /\ UNCHANGED <<heap, search>>

-----------------------------------------------------------------------------
(* dpl_get_index_of_element *)

FindStart(e) ==
  /\ Ready
  /\ \/ head = NULL /\ answer' = <<e, -1>> /\ UNCHANGED search
     \/ head # NULL /\ cursor' = head /\ index' = 0 /\ key' = e /\ UNCHANGED answer
  /\ UNCHANGED <<live, heap, head, freed, fault>>

FindMatch ==
  /\ cursor # NULL /\ heap[cursor].element = key
  /\ answer' = <<key, index>>
  /\ cursor' = NULL /\ index' = 0 /\ key' = NULL
  /\ Touch({cursor})
  /\ UNCHANGED <<live, heap, head, freed>>

(* Mutant: the index is advanced before the comparison. *)
FindNext_Skips ==
  /\ cursor # NULL /\ heap[cursor].element # key
  /\ heap[cursor].next # NULL
  /\ cursor' = heap[cursor].next
  /\ index' = index + 2
  /\ Touch({cursor})
  /\ UNCHANGED <<live, heap, head, freed, key, answer>>

(* Mutant: the last node is left out. *)
FindNext_NotLast ==
  /\ cursor # NULL /\ heap[cursor].element # key
  /\ heap[cursor].next # NULL /\ heap[heap[cursor].next].next # NULL
  /\ cursor' = heap[cursor].next
  /\ index' = index + 1
  /\ Touch({cursor})
  /\ UNCHANGED <<live, heap, head, freed, key, answer>>

(* A mismatch.  On the last node the loop changes nothing and goes on: there
   is no step that leaves it. *)
FindNext ==
  /\ cursor # NULL /\ heap[cursor].element # key
  /\ heap[cursor].next # NULL
  /\ cursor' = heap[cursor].next
  /\ index' = index + 1
  /\ Touch({cursor})
  /\ UNCHANGED <<live, heap, head, freed, key, answer>>

Find == FindMatch \/ FindNext

Next ==
  \/ Create \/ FreeList
  \/ \E e \in Elements, i \in Indices : InsertAtIndex(e, i)
  \/ \E i \in Indices : RemoveAtIndex(i)
  \/ \E e \in Elements : FindStart(e)
  \/ Find

(* A search that has been called runs; nobody has to call an operation. *)
Spec == Init /\ [][Next]_listVars /\ WF_listVars(Find)

-----------------------------------------------------------------------------
(* Correctness. *)

Items == [k \in 1..Size |-> heap[Node[k - 1]].element]

(* The list is a sequence, and a search that answers has found the first
   match in it (dplist.h:102). *)
Documented == INSTANCE ListSeq WITH items <- Items

ImplementsList == Documented!Spec

(* Each call does what dplist.h says of its own arguments: an index, negative
   or too large, is where the header puts it, in all four cases of the
   insertion; a search answers for the element it was given; and an element is
   found again through its reference, of which the code is right only for the
   first node. *)
CallsAsDocumented ==
  [][/\ \A e \in Elements, i \in Indices : InsertAtIndex(e, i) => Documented!Insert(e, i)
     /\ \A i \in Indices : RemoveAtIndex(i) => Documented!RemoveIndex(i)
     /\ FreeList => Documented!Clear
     /\ FindMatch => Documented!Lookup(key)
     /\ \A i \in Indices : head # NULL =>
          /\ ElementAt(i) = Items[Documented!Clamp(i, Size - 1) + 1]
          /\ i <= 0 => ElementAtReference(ReferenceAt(i)) = ElementAt(i)]_listVars

(* Following next and following prev visit the same nodes in opposite order,
   nothing precedes the head, and a node is freed exactly when it leaves the
   list and never used after. *)
ListSound ==
  /\ head # NULL => heap[head].prev = NULL
  /\ \A a \in Chained : heap[a].next # NULL => heap[heap[a].next].prev = a
  /\ ~fault /\ freed = (1..Len(heap)) \ Chained

(* A search for an element of the list comes to an end. *)
PresentIsFound ==
  \A e \in Elements :
    (cursor # NULL /\ key = e /\ \E a \in Chained : heap[a].element = e)
      ~> (cursor = NULL)

(* dplist.h:104: "If 'element' is not found in the list, -1 is returned". *)
LookupReturns == cursor # NULL ~> cursor = NULL
=============================================================================
