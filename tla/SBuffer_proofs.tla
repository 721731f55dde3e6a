--------------------------- MODULE SBuffer_proofs ---------------------------
(***************************************************************************)
(* Proofs about SBuffer for every set of writers and readings and every    *)
(* bound.  Each action preserves IndInv (one lemma per action, one step    *)
(* per part of the invariant the action can disturb); the theorems follow. *)
(***************************************************************************)
EXTENDS SBuffer, TLAPS

USE MappedAssumption, EndAssumption, BoundAssumption DEF NULL

-----------------------------------------------------------------------------
(* Facts about one state. *)

(* What dereferencing the nodes in S does to the fault flag. *)
LEMMA TouchFault ==
  ASSUME NEW S, Touch(S)
  PROVE  fault' \in BOOLEAN /\ (fault' => fault \/ S \cap freed # {})
  BY Zenon DEF Touch

LEMMA TouchUnfreed ==
  ASSUME NEW S, Touch(S), S \cap freed = {}, fault \in BOOLEAN
  PROVE  fault' = fault
  BY Zenon DEF Touch

(* Nodes have their type; the head and the tail are nodes of the list. *)
LEMMA NodeType ==
  ASSUME IndInv, NEW k \in 1..Len(node)
  PROVE  node[k] \in Node /\ node[k].data \in Data /\ node[k].stage \in {0, 1}
         /\ node[k].next \in 0..MaxInserts
<1>1. node[k] \in Node
  BY DEF IndInv, TypeOK
<1> QED BY <1>1 DEF Node

LEMMA ListEnds ==
  ASSUME IndInv, head # NULL
  PROVE  /\ head \in 1..Len(node) /\ tail \in 1..Len(node)
         /\ tail = Len(node) /\ head <= tail
  BY DEF IndInv, TypeOK, ListInv

(* The newest node is unread if and only if some node is. *)
LEMMA UnreadMeaning ==
  ASSUME IndInv, head # NULL
  PROVE  node[tail].stage = 0 <=> Len(received) < Len(node)
<1>1. tail \in 1..Len(node) /\ tail = Len(node)
  BY ListEnds
<1>2. node[tail].stage \in {0, 1}
  BY <1>1, NodeType
<1>3. node[tail].stage = 1 <=> tail <= Len(received)
  BY <1>1 DEF IndInv, ReceivedInv
<1>4. Len(received) \in Nat /\ Len(node) \in Nat
  BY DEF IndInv, TypeOK
<1> QED BY <1>1, <1>2, <1>3, <1>4

(* Until the storage manager has taken the end marker no node of the list is
   freed; the data manager is then past its last call of sbuffer_read. *)
LEMMA ListedUnfreed ==
  ASSUME IndInv, head # NULL, NEW k \in freed, head <= k
  PROVE  k = head /\ SawEnd
<1>1. k \in Nat /\ head \in Nat
  BY DEF IndInv, TypeOK
<1>2. k \notin 1..Unlinked
  BY <1>1 DEF Unlinked
<1> QED BY <1>2 DEF IndInv, FreedInv

LEMMA ReaderBeforeEnd ==
  ASSUME IndInv, dm \in {"start", "read", "blocked", "scan"}
  PROVE  ~SawEnd /\ buf = "live"
<1>1. buf = "live"
  BY DEF IndInv, FreeInv, Joined, TypeOK
<1>2. SUFFICES ASSUME SawEnd PROVE FALSE
  BY <1>1
<1>3. Len(received) \in 1..Len(received) /\ received[Len(received)] = End
  BY <1>2 DEF IndInv, CsvInv, TypeOK
<1> QED BY <1>3 DEF IndInv, ReceivedInv

LEMMA TouchListed ==
  ASSUME IndInv, NEW k \in 1..Len(node), Touch({k}), ~SawEnd, head # NULL, head <= k
  PROVE  fault' = fault
<1>1. k \notin freed
  BY ListedUnfreed
<1>2. fault \in BOOLEAN
  BY DEF IndInv, TypeOK
<1> QED BY <1>1, <1>2, TouchUnfreed

-----------------------------------------------------------------------------
(* The invariant holds initially and every action preserves it. *)

LEMMA InitInv == Init => IndInv
<1> SUFFICES ASSUME Init PROVE IndInv
  OBVIOUS
<1> USE DEF Init
<1>1. TypeOK
  <2>1. <<>> \in Seq(Node) /\ <<>> \in Seq(Data) /\ <<>> \in Seq(Readings)
    OBVIOUS
  <2>2. Len(node) = 0 
    OBVIOUS
  <2>3. freed \subseteq 1..Len(node) /\ owed \subseteq Writers
    OBVIOUS
  <2>4. fault \in BOOLEAN /\ aborted \in BOOLEAN
    BY Zenon
  <2> QED BY <2>1, <2>2, <2>3, <2>4 DEF TypeOK
<1>2. ListInv /\ FreedInv
  BY DEF ListInv, FreedInv, Unlinked, SawEnd
<1>3. ReceivedInv /\ ScanInv
  BY DEF ReceivedInv, ScanInv
<1>4. CsvInv /\ FreeInv
  BY DEF CsvInv, FreeInv, Unlinked, SawEnd, Joined, Data
<1>5. FaultOnlyAfterEnd /\ NoLostWakeup
  BY DEF FaultOnlyAfterEnd, NoLostWakeup, Unread, Removable
<1> QED BY <1>1, <1>2, <1>3, <1>4, <1>5 DEF IndInv

LEMMA SignalFilledStep ==
  ASSUME IndInv, NEW w \in Writers, SignalFilled(w)
  PROVE  IndInv'
<1> USE DEF IndInv, list, damage, dmVars, smVars, SignalFilled
<1>1. TypeOK'
  BY DEF TypeOK
<1>2. (ListInv /\ FreedInv)'
  BY DEF ListInv, FreedInv, Unlinked, SawEnd
<1>3. ReceivedInv'
  BY DEF ReceivedInv
<1>4. ScanInv'
  BY DEF ScanInv
<1>5. (CsvInv /\ FreeInv)'
  BY DEF CsvInv, FreeInv, Unlinked, SawEnd, Joined
<1>6. (FaultOnlyAfterEnd /\ NoLostWakeup)'
  BY DEF FaultOnlyAfterEnd, NoLostWakeup, SawEnd, Unread, Removable
<1> QED BY <1>1, <1>2, <1>3, <1>4, <1>5, <1>6

LEMMA DatamgrStartStep ==
  ASSUME IndInv, DatamgrStart \/ DatamgrFails
  PROVE  IndInv'
<1> USE DEF IndInv, list, damage, dmVars, smVars, DatamgrStart, DatamgrFails
<1>1. TypeOK'
  BY DEF TypeOK
<1>2. (ListInv /\ FreedInv)'
  BY DEF ListInv, FreedInv, Unlinked, SawEnd
<1>3. ReceivedInv'
  BY DEF ReceivedInv
<1>4. ScanInv'
  BY DEF ScanInv
<1>5. (CsvInv /\ FreeInv)'
  BY DEF CsvInv, FreeInv, Unlinked, SawEnd, Joined
<1>6. (FaultOnlyAfterEnd /\ NoLostWakeup)'
  BY DEF FaultOnlyAfterEnd, NoLostWakeup, SawEnd, Unread, Removable
<1> QED BY <1>1, <1>2, <1>3, <1>4, <1>5, <1>6

LEMMA SignalUpdatedStep ==
  ASSUME IndInv, SignalUpdated
  PROVE  IndInv'
<1> USE DEF IndInv, list, damage, dmVars, smVars, SignalUpdated
<1>1. TypeOK'
  BY DEF TypeOK
<1>2. (ListInv /\ FreedInv)'
  BY DEF ListInv, FreedInv, Unlinked, SawEnd
<1>3. ReceivedInv'
  BY DEF ReceivedInv
<1>4. ScanInv'
  BY DEF ScanInv
<1>5. (CsvInv /\ FreeInv)'
  BY DEF CsvInv, FreeInv, Unlinked, SawEnd, Joined
<1>6. (FaultOnlyAfterEnd /\ NoLostWakeup)'
  BY DEF FaultOnlyAfterEnd, NoLostWakeup, SawEnd, Unread, Removable
<1> QED BY <1>1, <1>2, <1>3, <1>4, <1>5, <1>6

LEMMA ProcessStep ==
  ASSUME IndInv, Process
  PROVE  IndInv'
<1> USE DEF IndInv, list, damage, dmVars, smVars, Process
<1>1. TypeOK'
  BY DEF TypeOK
<1>2. (ListInv /\ FreedInv)'
  BY DEF ListInv, FreedInv, Unlinked, SawEnd
<1>3. ReceivedInv'
  BY DEF ReceivedInv
<1>4. ScanInv'
  BY DEF ScanInv
<1>5. (CsvInv /\ FreeInv)'
  BY DEF CsvInv, FreeInv, Unlinked, SawEnd, Joined
<1>6. (FaultOnlyAfterEnd /\ NoLostWakeup)'
  BY DEF FaultOnlyAfterEnd, NoLostWakeup, SawEnd, Unread, Removable
<1> QED BY <1>1, <1>2, <1>3, <1>4, <1>5, <1>6

LEMMA StorageStartStep ==
  ASSUME IndInv, StorageStart \/ StorageFails
  PROVE  IndInv'
<1> USE DEF IndInv, list, damage, dmVars, smVars, StorageStart, StorageFails
<1>1. TypeOK'
  BY DEF TypeOK
<1>2. (ListInv /\ FreedInv)'
  BY DEF ListInv, FreedInv, Unlinked, SawEnd
<1>3. ReceivedInv'
  BY DEF ReceivedInv
<1>4. ScanInv'
  BY DEF ScanInv
<1>5. (CsvInv /\ FreeInv)'
  BY DEF CsvInv, FreeInv, Unlinked, SawEnd, Joined
<1>6. (FaultOnlyAfterEnd /\ NoLostWakeup)'
  BY DEF FaultOnlyAfterEnd, NoLostWakeup, SawEnd, Unread, Removable
<1> QED BY <1>1, <1>2, <1>3, <1>4, <1>5, <1>6

LEMMA SpuriousWakeupStep ==
  ASSUME IndInv, SpuriousWakeup
  PROVE  IndInv'
<1> USE DEF IndInv, list, damage, dmVars, smVars, SpuriousWakeup
<1>1. TypeOK'
  BY DEF TypeOK
<1>2. (ListInv /\ FreedInv)'
  BY DEF ListInv, FreedInv, Unlinked, SawEnd
<1>3. ReceivedInv'
  BY DEF ReceivedInv
<1>4. ScanInv'
  BY DEF ScanInv
<1>5. (CsvInv /\ FreeInv)'
  BY DEF CsvInv, FreeInv, Unlinked, SawEnd, Joined
<1>6. (FaultOnlyAfterEnd /\ NoLostWakeup)'
  BY DEF FaultOnlyAfterEnd, NoLostWakeup, SawEnd, Unread, Removable
<1> QED BY <1>1, <1>2, <1>3, <1>4, <1>5, <1>6

LEMMA ReadBlockStep ==
  ASSUME IndInv, ReadBlock
  PROVE  IndInv'
<1> USE DEF ReadBlock, IndInv, list, smVars
<1>1. fault' = fault
  <2>1. CASE head = NULL
    BY <2>1 DEF TouchTail
  <2>2. CASE head # NULL
    BY <2>2, ListEnds, ReaderBeforeEnd, TouchListed DEF TouchTail
  <2> QED BY <2>1, <2>2
<1>2. (TypeOK /\ ListInv /\ FreedInv /\ ReceivedInv /\ ScanInv)'
  BY <1>1 DEF TypeOK, ListInv, FreedInv, ReceivedInv, ScanInv, Unlinked, SawEnd
<1>3. (CsvInv /\ FreeInv)'
  BY DEF CsvInv, FreeInv, Unlinked, SawEnd, Joined
<1>4. FaultOnlyAfterEnd'
  BY <1>1 DEF FaultOnlyAfterEnd, SawEnd
<1>5. NoLostWakeup'
  BY DEF NoLostWakeup, Unread, Removable
<1> QED BY <1>2, <1>3, <1>4, <1>5

LEMMA RemoveBlockStep ==
  ASSUME IndInv, RemoveBlock
  PROVE  IndInv'
<1> USE DEF RemoveBlock, IndInv, list, dmVars
<1>1. fault' = fault
  <2>1. CASE head = NULL
    BY <2>1 DEF TouchHead
  <2>2. CASE head # NULL
    BY <2>2, ListEnds, TouchListed DEF TouchHead, SawEnd
  <2> QED BY <2>1, <2>2
<1>2. (TypeOK /\ ListInv /\ FreedInv /\ ReceivedInv /\ ScanInv)'
  BY <1>1 DEF TypeOK, ListInv, FreedInv, ReceivedInv, ScanInv, Unlinked, SawEnd
<1>3. (CsvInv /\ FreeInv)'
  BY DEF CsvInv, FreeInv, Unlinked, SawEnd, Joined
<1>4. FaultOnlyAfterEnd'
  BY <1>1 DEF FaultOnlyAfterEnd, SawEnd
<1>5. NoLostWakeup'
  BY DEF NoLostWakeup, Unread, Removable
<1> QED BY <1>2, <1>3, <1>4, <1>5

LEMMA ReadStartStep ==
  ASSUME IndInv, ReadStart
  PROVE  IndInv'
<1> USE DEF ReadStart, IndInv, list, smVars
<1>1. head # NULL /\ node[tail].stage = 0
  BY DEF Unread
<1>2. fault' = fault
  BY <1>1, ListEnds, ReaderBeforeEnd, TouchListed DEF TouchTail
<1>3. Unlinked <= Len(received) /\ head <= Len(received) + 1 /\ Len(received) < Len(node)
  BY <1>1, ReaderBeforeEnd, UnreadMeaning, ListEnds DEF CsvInv, Unlinked, TypeOK
<1>4. TypeOK'
  BY <1>2 DEF TypeOK
<1>5. (ListInv /\ FreedInv /\ ReceivedInv)'
  BY DEF ListInv, FreedInv, ReceivedInv, Unlinked, SawEnd
<1>6. ScanInv'
  BY <1>1, <1>3, ListEnds, ReaderBeforeEnd DEF ScanInv
<1>7. (CsvInv /\ FreeInv)'
  BY DEF CsvInv, FreeInv, Unlinked, SawEnd, Joined
<1>8. FaultOnlyAfterEnd'
  BY <1>2 DEF FaultOnlyAfterEnd, SawEnd
<1>9. NoLostWakeup'
  BY DEF NoLostWakeup, Unread, Removable
<1> QED BY <1>4, <1>5, <1>6, <1>7, <1>8, <1>9

LEMMA ScanMissStep ==
  ASSUME IndInv, ScanMiss
  PROVE  IndInv' /\ dummy' = node[dummy].next
<1> USE DEF ScanMiss, IndInv, list, smVars
<1>1. head # NULL /\ head <= dummy /\ dummy <= Len(received) + 1 /\ Len(received) < Len(node)
  BY DEF ScanInv
<1>2. dummy \in 1..Len(node)
  BY <1>1, ListEnds DEF TypeOK
<1>3. dummy <= Len(received)
  BY <1>2, NodeType DEF ReceivedInv, TypeOK
<1>4. node[dummy].next = dummy + 1 /\ dummy + 1 \in 1..Len(node)
  BY <1>1, <1>2, <1>3 DEF ListInv, TypeOK
<1>5. dummy' = dummy + 1 /\ UNCHANGED <<mutex, dm>>
  BY <1>4
<1>6. fault' = fault
  BY <1>1, <1>2, ReaderBeforeEnd, TouchListed
<1>7. TypeOK'
  BY <1>4, <1>5, <1>6 DEF TypeOK
<1>8. (ListInv /\ FreedInv /\ ReceivedInv)'
  BY <1>5 DEF ListInv, FreedInv, ReceivedInv, Unlinked, SawEnd
<1>9. ScanInv'
  BY <1>1, <1>3, <1>5 DEF ScanInv, TypeOK
<1>10. (CsvInv /\ FreeInv)'
  BY <1>5 DEF CsvInv, FreeInv, Unlinked, SawEnd, Joined
<1>11. FaultOnlyAfterEnd'
  BY <1>6 DEF FaultOnlyAfterEnd, SawEnd
<1>12. NoLostWakeup'
  BY <1>5 DEF NoLostWakeup, Unread, Removable
<1> QED BY <1>4, <1>5, <1>7, <1>8, <1>9, <1>10, <1>11, <1>12

LEMMA ScanHitStep ==
  ASSUME IndInv, ScanHit
  PROVE  /\ IndInv'
         /\ dummy = Len(received) + 1 /\ dummy \in 1..Len(node)
         /\ received' = Append(received, node[dummy].data)
         /\ Inserted' = Inserted
<1> USE DEF ScanHit, IndInv, smVars
<1>1. head # NULL /\ head <= dummy /\ dummy <= Len(received) + 1 /\ Len(received) < Len(node)
  BY DEF ScanInv
<1>2. dummy \in 1..Len(node)
  BY <1>1, ListEnds DEF TypeOK
<1>3. dummy = Len(received) + 1
  BY <1>1, <1>2, NodeType DEF ReceivedInv, TypeOK
<1>4. fault' = fault /\ ~SawEnd /\ buf = "live"
  BY <1>1, <1>2, ReaderBeforeEnd, TouchListed
<1>5. DEFINE n == node[dummy]
<1>6. n \in Node /\ n.data \in Data
  BY <1>2, NodeType
<1>7. /\ Len(node') = Len(node) /\ DOMAIN node' = DOMAIN node
      /\ \A k \in 1..Len(node) :
           /\ node'[k].data = node[k].data /\ node'[k].next = node[k].next
           /\ node'[k].stage = IF k = dummy THEN 1 ELSE node[k].stage
  BY <1>2, NodeType DEF TypeOK, Node
<1>8. node' \in Seq(Node)
  <2>1. [node[dummy] EXCEPT !.stage = 1] \in Node
    BY <1>6 DEF Node
  <2> QED BY <2>1, <1>2 DEF TypeOK
<1>9. /\ Len(received') = Len(received) + 1
      /\ received'[dummy] = node[dummy].data
      /\ \A k \in 1..Len(received) : received'[k] = received[k]
  BY <1>3, <1>6 DEF TypeOK
<1>10. TypeOK'
  <2>1. received' \in Seq(Data)
    BY <1>6 DEF TypeOK
  <2>2. fault' \in BOOLEAN /\ aborted' \in BOOLEAN
    BY <1>4 DEF TypeOK
  <2> QED BY <1>6, <1>7, <1>8, <2>1, <2>2 DEF TypeOK
<1>11. ListInv' /\ FreedInv'
  BY <1>7 DEF ListInv, FreedInv, Unlinked, SawEnd
<1>12. ReceivedInv'
  <2>1. Len(received') <= Len(node')
    BY <1>1, <1>7, <1>9 DEF TypeOK
  <2>2. \A k \in 1..Len(node') : node'[k].stage = 1 <=> k <= Len(received')
    BY <1>3, <1>7, <1>9 DEF ReceivedInv, TypeOK
  <2>3. \A k \in 1..Len(received') : received'[k] = node'[k].data
    BY <1>1, <1>3, <1>7, <1>9 DEF ReceivedInv, TypeOK
  <2>4. \A k \in 1..Len(received') : received'[k] = End => k = Len(received')
    BY <1>3, <1>9 DEF ReceivedInv, TypeOK
  <2>5. received' # <<>> /\ reading' = received'[Len(received')]
    BY <1>3, <1>9 DEF TypeOK
  <2> QED BY <2>1, <2>2, <2>3, <2>4, <2>5 DEF ReceivedInv
<1>13. ScanInv'
  BY <1>4 DEF ScanInv, TypeOK
<1>14. CsvInv'
  <2>1. Len(csv) <= Len(received') /\ \A k \in 1..Len(csv) : csv[k] = received'[k]
    BY <1>9 DEF CsvInv, TypeOK
  <2>2. sm = "write" => Len(csv) < Len(received') /\ record = received'[Len(csv) + 1]
    BY <1>4, <1>9 DEF CsvInv, TypeOK, SawEnd
  <2>3. Unlinked' = Unlinked /\ SawEnd' = SawEnd
    BY <1>7 DEF Unlinked, SawEnd
  <2>4. Unlinked <= Len(received')
    BY <1>4, <1>9 DEF CsvInv, Unlinked, TypeOK
  <2>5. Unlinked = Len(csv) + (IF sm = "write" /\ record # End THEN 1 ELSE 0)
    BY <1>4 DEF CsvInv
  <2>6. sm # "done"
    BY <1>4 DEF CsvInv, SawEnd
  <2> QED BY <1>4, <2>1, <2>2, <2>3, <2>4, <2>5, <2>6 DEF CsvInv
<1>15. FreeInv'
  BY <1>4 DEF FreeInv, Joined
<1>16. FaultOnlyAfterEnd'
  BY <1>4, <1>7 DEF FaultOnlyAfterEnd, SawEnd
<1>17. NoLostWakeup'
  BY DEF NoLostWakeup, Unread, Removable
<1>18. Inserted' = Inserted
  BY <1>7 DEF Inserted, TypeOK
<1> QED BY <1>2, <1>3, <1>10, <1>11, <1>12, <1>13, <1>14, <1>15, <1>16, <1>17, <1>18

LEMMA RemoveTakeStep ==
  ASSUME IndInv, RemoveTake
  PROVE  IndInv'
<1> USE DEF RemoveTake, Unlink, IndInv, dmVars
<1>1. /\ head \in 1..Len(node) /\ tail = Len(node) /\ head <= tail
      /\ head # tail => node[head].next = head + 1
      /\ node[head].data \in Data
  BY ListEnds, NodeType DEF ListInv, TypeOK, Removable
<1>2. buf = "live" /\ ~SawEnd
  BY DEF FreeInv, Joined, SawEnd
<1>3. fault' = fault
  BY <1>1, <1>2, TouchListed DEF TouchHead
<1>4. head <= Len(received) /\ received[head] = node[head].data
  BY <1>1 DEF ReceivedInv, Removable
<1>5. Len(csv) = head - 1
  BY <1>1, <1>2 DEF CsvInv, Unlinked
<1>6. \/ /\ node[head].data = End /\ head' = head /\ tail' = tail
      \/ /\ node[head].data # End /\ head = Len(node) /\ head' = NULL /\ tail' = NULL
      \/ /\ node[head].data # End /\ head < Len(node) /\ head' = head + 1 /\ tail' = tail
  BY <1>1 DEF TypeOK
<1>7. Unlinked = head - 1 /\ Unlinked' = IF node[head].data = End THEN head - 1 ELSE head
  BY <1>1, <1>6 DEF Unlinked, TypeOK
<1>8. SawEnd' <=> node[head].data = End
  BY DEF SawEnd
<1>9. TypeOK'
  BY <1>1, <1>3, <1>6 DEF TypeOK
<1>10. ListInv'
  BY <1>1, <1>6 DEF ListInv, TypeOK
<1>11. FreedInv'
  <2>1. freed = 1..(head - 1)
    BY <1>2, <1>7 DEF FreedInv
  <2>2. freed' = 1..head
    BY <1>1, <2>1 DEF TypeOK
  <2>3. CASE node[head].data = End
    BY <1>1, <1>6, <1>7, <1>8, <2>2, <2>3 DEF FreedInv
  <2>4. CASE node[head].data # End
    BY <1>7, <1>8, <2>2, <2>4 DEF FreedInv
  <2> QED BY <2>3, <2>4
<1>12. (ReceivedInv /\ ScanInv)'
  BY DEF ReceivedInv, ScanInv
<1>13. (CsvInv /\ FreeInv)'
  <2>1. Len(csv) <= Len(received) /\ \A k \in 1..Len(csv) : csv[k] = received[k]
    BY DEF CsvInv
  <2>2. Len(csv) < Len(received) /\ record' = received[Len(csv) + 1]
    BY <1>1, <1>4, <1>5 DEF TypeOK
  <2>3. Unlinked' <= Len(received) /\
        Unlinked' = Len(csv) + (IF record' # End THEN 1 ELSE 0)
    BY <1>1, <1>4, <1>5, <1>7 DEF TypeOK
  <2>4. SawEnd' => head' # NULL /\ Len(received) = Len(csv) + 1
                    /\ received[Len(received)] = End
    BY <1>1, <1>4, <1>5, <1>6, <1>8 DEF ReceivedInv, TypeOK
  <2>5. FreeInv'
    BY <1>2 DEF FreeInv
  <2> QED BY <1>2, <2>1, <2>2, <2>3, <2>4, <2>5 DEF CsvInv
<1>14. FaultOnlyAfterEnd'
  BY <1>2, <1>3 DEF FaultOnlyAfterEnd
<1>15. NoLostWakeup'
  BY <1>6, <1>1 DEF NoLostWakeup, Unread, Removable
<1> QED BY <1>9, <1>10, <1>11, <1>12, <1>13, <1>14, <1>15

LEMMA StoreRowStep ==
  ASSUME IndInv, StoreRow
  PROVE  IndInv'
<1> USE DEF StoreRow, IndInv, list, damage, dmVars
<1>1. TypeOK'
  <2>1. CASE record = End
    BY <2>1 DEF TypeOK
  <2>2. CASE record # End
    <3>1. Len(csv) + 1 \in 1..Len(received) /\ record = received[Len(csv) + 1]
      BY <2>2 DEF CsvInv, TypeOK
    <3>2. record \in Data
      BY <3>1 DEF TypeOK
    <3>3. record \in Readings
      BY <2>2, <3>2 DEF Data
    <3>4. csv' \in Seq(Readings)
      <4>1. csv' = Append(csv, record)
        BY <2>2
      <4>2. csv \in Seq(Readings)
        BY DEF TypeOK
      <4> HIDE DEF StoreRow, IndInv
      <4> QED BY <3>3, <4>1, <4>2
    <3> QED BY <3>4 DEF TypeOK
  <2> QED BY <2>1, <2>2
<1>2. (ListInv /\ FreedInv)'
  BY DEF ListInv, FreedInv, Unlinked, SawEnd
<1>3. (ReceivedInv /\ ScanInv)'
  BY DEF ReceivedInv, ScanInv
<1>4. (CsvInv /\ FreeInv)'
  BY DEF CsvInv, FreeInv, Unlinked, SawEnd, Joined
<1>5. (FaultOnlyAfterEnd /\ NoLostWakeup)'
  BY DEF FaultOnlyAfterEnd, NoLostWakeup, SawEnd, Unread, Removable
<1> QED BY <1>1, <1>2, <1>3, <1>4, <1>5

LEMMA FreeStartStep ==
  ASSUME IndInv, FreeStart
  PROVE  IndInv'
<1> USE DEF IndInv, list, damage, dmVars, smVars, FreeStart
<1>1. TypeOK'
  BY DEF TypeOK
<1>2. (ListInv /\ FreedInv)'
  BY DEF ListInv, FreedInv, Unlinked, SawEnd
<1>3. ReceivedInv'
  BY DEF ReceivedInv
<1>4. ScanInv'
  BY DEF ScanInv
<1>5. (CsvInv /\ FreeInv)'
  BY DEF CsvInv, FreeInv, Unlinked, SawEnd, Joined
<1>6. (FaultOnlyAfterEnd /\ NoLostWakeup)'
  BY DEF FaultOnlyAfterEnd, NoLostWakeup, SawEnd, Unread, Removable
<1> QED BY <1>1, <1>2, <1>3, <1>4, <1>5, <1>6

LEMMA FreeNodeStep ==
  ASSUME IndInv, FreeNode
  PROVE  IndInv'
<1> USE DEF FreeNode, Unlink, IndInv, dmVars, smVars
<1>1. /\ head \in 1..Len(node) /\ tail = Len(node) /\ head <= tail
      /\ head # tail => node[head].next = head + 1
  BY ListEnds DEF ListInv, TypeOK
<1>2. \/ head = Len(node) /\ head' = NULL /\ tail' = NULL
      \/ head < Len(node) /\ head' = head + 1 /\ tail' = Len(node)
  BY <1>1 DEF TypeOK
<1>3. fault' \in BOOLEAN /\ (fault' => SawEnd)
  BY <1>1, TouchFault, ListedUnfreed DEF FaultOnlyAfterEnd
<1>4. TypeOK'
  BY <1>1, <1>2, <1>3 DEF TypeOK
<1>5. ListInv'
  BY <1>1, <1>2 DEF ListInv, TypeOK
<1>6. FreedInv'
  <2>1. Unlinked = head - 1 /\ Unlinked' = head
    BY <1>1, <1>2 DEF Unlinked, TypeOK
  <2>2. SawEnd' = SawEnd
    BY DEF SawEnd
  <2>3. freed' \subseteq 1..head
    BY <1>1, <2>1 DEF FreedInv, TypeOK
  <2>4. 1..head \subseteq freed'
    BY <1>1, <2>1 DEF FreedInv, TypeOK
  <2> QED BY <2>1, <2>2, <2>3, <2>4 DEF FreedInv
<1>7. (ReceivedInv /\ ScanInv)'
  BY DEF ReceivedInv, ScanInv, FreeInv, Joined
<1>8. (CsvInv /\ FreeInv)'
  BY DEF CsvInv, FreeInv, Joined, SawEnd
<1>9. FaultOnlyAfterEnd'
  BY <1>3 DEF FaultOnlyAfterEnd, SawEnd
<1>10. NoLostWakeup'
  BY DEF NoLostWakeup, FreeInv, Joined
<1> QED BY <1>4, <1>5, <1>6, <1>7, <1>8, <1>9, <1>10

LEMMA FreeBufferStep ==
  ASSUME IndInv, FreeBuffer
  PROVE  IndInv'
<1> USE DEF IndInv, list, damage, dmVars, smVars, FreeBuffer
<1>1. TypeOK'
  BY DEF TypeOK
<1>2. (ListInv /\ FreedInv)'
  BY DEF ListInv, FreedInv, Unlinked, SawEnd
<1>3. ReceivedInv'
  BY DEF ReceivedInv
<1>4. ScanInv'
  BY DEF ScanInv
<1>5. (CsvInv /\ FreeInv)'
  BY DEF CsvInv, FreeInv, Unlinked, SawEnd, Joined
<1>6. (FaultOnlyAfterEnd /\ NoLostWakeup)'
  BY DEF FaultOnlyAfterEnd, NoLostWakeup, SawEnd, Unread, Removable
<1> QED BY <1>1, <1>2, <1>3, <1>4, <1>5, <1>6

LEMMA AbortStep ==
  ASSUME IndInv, Abort
  PROVE  IndInv'
<1> USE DEF IndInv, list, damage, dmVars, smVars, Abort
<1>1. TypeOK'
  BY DEF TypeOK
<1>2. (ListInv /\ FreedInv)'
  BY DEF ListInv, FreedInv, Unlinked, SawEnd
<1>3. ReceivedInv'
  BY DEF ReceivedInv
<1>4. ScanInv'
  BY DEF ScanInv
<1>5. (CsvInv /\ FreeInv)'
  BY DEF CsvInv, FreeInv, Unlinked, SawEnd, Joined
<1>6. (FaultOnlyAfterEnd /\ NoLostWakeup)'
  BY DEF FaultOnlyAfterEnd, NoLostWakeup, SawEnd, Unread, Removable
<1> QED BY <1>1, <1>2, <1>3, <1>4, <1>5, <1>6

LEMMA InsertStep ==
  ASSUME IndInv, NEW w \in Writers, NEW d \in Data, Insert(w, d)
  PROVE  /\ IndInv'
         /\ Inserted' = Append(Inserted, d)
<1> DEFINE new == Len(node) + 1
           base == IF tail = NULL THEN node ELSE [node EXCEPT ![tail].next = new]
<1> USE DEF Insert, IndInv, dmVars, smVars
<1>1. /\ new \in Nat /\ new <= MaxInserts
      /\ tail # NULL => tail \in 1..Len(node) /\ tail = Len(node) /\ head <= tail
      /\ head # NULL <=> tail # NULL
  BY DEF TypeOK, ListInv
<1>2. NewNode(d) \in Node
  BY <1>1 DEF NewNode, Node
<1>3. base \in Seq(Node) /\ Len(base) = Len(node)
  <2>1. CASE tail = NULL
    BY <2>1 DEF TypeOK
  <2>2. CASE tail # NULL
    <3>1. [node[tail] EXCEPT !.next = new] \in Node
      BY <1>1, <2>2, NodeType DEF Node
    <3> QED BY <1>1, <2>2, <3>1 DEF TypeOK
  <2> QED BY <2>1, <2>2
<1>4. \A k \in 1..Len(node) :
        /\ base[k].data = node[k].data /\ base[k].stage = node[k].stage
        /\ base[k].next = IF k = tail THEN new ELSE node[k].next
  BY <1>1, NodeType DEF TypeOK, Node
<1>5. node' = Append(base, NewNode(d))
  OBVIOUS
<1>6. node' \in Seq(Node) /\ Len(node') = new
  BY <1>2, <1>3, <1>5
<1>7. /\ \A k \in 1..Len(node) :
           /\ node'[k].data = node[k].data /\ node'[k].stage = node[k].stage
           /\ node'[k].next = IF k = tail THEN new ELSE node[k].next
      /\ node'[new].data = d /\ node'[new].stage = 0 /\ node'[new].next = NULL
  BY <1>2, <1>3, <1>4, <1>5 DEF NewNode, TypeOK
<1>8. tail' = new /\ head' = (IF head = NULL THEN new ELSE head)
  BY <1>1
<1>9. /\ fault' \in BOOLEAN
      /\ fault' => fault \/ (tail # NULL /\ tail \in freed)
  BY TouchFault DEF TypeOK
<1>10. TypeOK'
  BY <1>1, <1>6, <1>8, <1>9 DEF TypeOK
<1>11. ListInv'
  <2>1. head' # NULL /\ tail' # NULL /\ tail' = Len(node') /\ head' <= tail'
    BY <1>1, <1>6, <1>8 DEF TypeOK
  <2>2. ASSUME NEW k \in 1..Len(node'), head' <= k
        PROVE  node'[k].next = IF k = Len(node') THEN NULL ELSE k + 1
    <3>1. CASE k = new
      BY <1>6, <1>7, <3>1
    <3>2. CASE k # new
      <4>1. k \in 1..Len(node) /\ head # NULL /\ head <= k
        BY <1>1, <1>6, <1>8, <2>2, <3>2 DEF TypeOK
      <4>2. node[k].next = IF k = Len(node) THEN NULL ELSE k + 1
        BY <4>1 DEF ListInv
      <4> QED BY <1>1, <1>6, <1>7, <4>1, <4>2
    <3> QED BY <3>1, <3>2
  <2> QED BY <2>1, <2>2 DEF ListInv
<1>12. Unlinked' = Unlinked /\ SawEnd' = SawEnd
  BY <1>1, <1>6, <1>8 DEF Unlinked, SawEnd, TypeOK
<1>13. head # NULL \/ ~SawEnd
  BY DEF CsvInv
<1>14. FreedInv'
  BY <1>8, <1>12, <1>13 DEF FreedInv
<1>15. ReceivedInv'
  <2>1. Len(received) <= Len(node)
    BY DEF ReceivedInv
  <2>2. \A k \in 1..Len(node') : node'[k].stage = 1 <=> k <= Len(received)
    BY <1>1, <1>6, <1>7, <2>1 DEF ReceivedInv, TypeOK
  <2>3. \A k \in 1..Len(received) : received[k] = node'[k].data
    BY <1>7, <2>1 DEF ReceivedInv, TypeOK
  <2> QED BY <1>6, <2>1, <2>2, <2>3 DEF ReceivedInv, TypeOK
<1>16. ScanInv'
  BY DEF ScanInv
<1>17. (CsvInv /\ FreeInv)'
  BY <1>8, <1>12 DEF CsvInv, FreeInv, Joined
<1>18. FaultOnlyAfterEnd'
  <2>1. fault' => SawEnd
    BY <1>1, <1>9, ListedUnfreed DEF FaultOnlyAfterEnd, TypeOK
  <2>2. SawEnd => head' <= Len(node)
    BY <1>1, <1>8, <1>13 DEF TypeOK
  <2> QED BY <1>6, <1>12, <2>1, <2>2, <1>8, <1>1 DEF FaultOnlyAfterEnd, TypeOK
<1>19. NoLostWakeup'
  <2>1. owed' # {}
    OBVIOUS
  <2>2. Removable' => Removable
    BY <1>7, <1>8, ListEnds DEF Removable
  <2> QED BY <2>1, <2>2 DEF NoLostWakeup
<1>20. Inserted' = Append(Inserted, d)
  BY <1>1, <1>6, <1>7 DEF Inserted, TypeOK
<1> QED BY <1>10, <1>11, <1>14, <1>15, <1>16, <1>17, <1>18, <1>19, <1>20

LEMMA StutterStep ==
  ASSUME IndInv, UNCHANGED vars
  PROVE  IndInv'
<1> USE DEF vars, IndInv
<1>1. (TypeOK /\ ListInv /\ FreedInv /\ ReceivedInv)'
  BY DEF TypeOK, ListInv, FreedInv, ReceivedInv, Unlinked, SawEnd
<1>2. (ScanInv /\ CsvInv /\ FreeInv)'
  BY DEF ScanInv, CsvInv, FreeInv, Unlinked, SawEnd, Joined
<1>3. (FaultOnlyAfterEnd /\ NoLostWakeup)'
  BY DEF FaultOnlyAfterEnd, NoLostWakeup, SawEnd, Unread, Removable
<1> QED BY <1>1, <1>2, <1>3

(* A step of a consumer, of the clean-up, or a wake-up out of the blue. *)
LEMMA ConsumersStep ==
  ASSUME IndInv, Consumers
  PROVE  IndInv'
<1>1. CASE Datamgr \/ DatamgrFails
  BY <1>1, DatamgrStartStep, ReadBlockStep, ReadStartStep, ScanMissStep,
     ScanHitStep, SignalUpdatedStep, ProcessStep DEF Datamgr
<1>2. CASE Storagemgr \/ StorageFails
  BY <1>2, StorageStartStep, RemoveBlockStep, RemoveTakeStep, StoreRowStep
  DEF Storagemgr
<1>3. CASE SpuriousWakeup \/ Abort
  BY <1>3, SpuriousWakeupStep, AbortStep
<1> QED BY <1>1, <1>2, <1>3 DEF Consumers

LEMMA NextInv == IndInv /\ [Next]_vars => IndInv'
<1> SUFFICES ASSUME IndInv, [Next]_vars PROVE IndInv'
  OBVIOUS
<1>1. ASSUME NEW w \in Writers, NEW d \in Data, Insert(w, d) PROVE IndInv'
  BY <1>1, InsertStep
<1>2. ASSUME NEW w \in Writers, SignalFilled(w) PROVE IndInv'
  BY <1>2, SignalFilledStep
<1>3. CASE Consumers
  BY <1>3, ConsumersStep
<1>4. CASE Free
  BY <1>4, FreeStartStep, FreeNodeStep, FreeBufferStep DEF Free
<1>5. CASE UNCHANGED vars
  BY <1>5, StutterStep
<1> QED BY <1>1, <1>2, <1>3, <1>4, <1>5 DEF Next

-----------------------------------------------------------------------------
(* What follows from the invariant. *)

LEMMA InvImpliesOrder == IndInv => InOrder
  BY DEF IndInv, ReceivedInv, CsvInv, InOrder

LEMMA InvImpliesRead == IndInv => NoReadFailure
<1> SUFFICES ASSUME IndInv, dm = "scan", node[dummy].stage # 0
             PROVE  node[dummy].next # NULL
  BY DEF NoReadFailure
<1> USE DEF IndInv
<1>1. head # NULL /\ head <= dummy /\ dummy <= Len(received) + 1 /\ Len(received) < Len(node)
  BY DEF ScanInv
<1>2. dummy \in 1..Len(node)
  BY <1>1, ListEnds DEF TypeOK
<1>3. dummy <= Len(received)
  BY <1>2, NodeType DEF ReceivedInv, TypeOK
<1> QED BY <1>1, <1>2, <1>3 DEF ListInv, TypeOK

LEMMA InvImpliesNoLeak == IndInv => NoLeak
  BY DEF IndInv, NoLeak, FreeInv, FreedInv, Unlinked, TypeOK

(* The invariant, in particular the types of the variables, holds in every
   reachable state of the buffer, for all writers, readings and bounds. *)
THEOREM Invariance == SafeSpec => []IndInv
  BY InitInv, NextInv, PTL DEF SafeSpec

(* Every variable of the buffer and of its consumers keeps its type; in
   particular only readings, never an end marker, are written to the file. *)
THEOREM TypeCorrect == SafeSpec => []TypeOK
<1>1. IndInv => TypeOK
  BY DEF IndInv
<1> QED BY <1>1, Invariance, PTL

(* Rows are stored in the order of insertion, without gap or repetition, and
   only after the data manager has seen them. *)
THEOREM Ordering == SafeSpec => []InOrder
  BY InvImpliesOrder, Invariance, PTL

(* The search in sbuffer_read never runs off the list. *)
THEOREM ReadNeverFails == SafeSpec => []NoReadFailure
  BY InvImpliesRead, Invariance, PTL

(* The list is used after free only through the end marker that
   sbuffer_remove freed, after the storage manager has taken it. *)
THEOREM FaultCause == SafeSpec => []FaultOnlyAfterEnd
<1>1. IndInv => FaultOnlyAfterEnd
  BY DEF IndInv
<1> QED BY <1>1, Invariance, PTL

(* Neither consumer sleeps through the event it waits for. *)
THEOREM WakeupNotLost == SafeSpec => []NoLostWakeup
<1>1. IndInv => NoLostWakeup
  BY DEF IndInv
<1> QED BY <1>1, Invariance, PTL

(* When sbuffer_free returns every node has been freed. *)
THEOREM FreeReleasesAll == SafeSpec => []NoLeak
  BY InvImpliesNoLeak, Invariance, PTL

-----------------------------------------------------------------------------
(* Refinement: each step of the buffer is a step of the stream or none. *)

LEMMA StreamInit == Init => Stream!Init
  BY DEF Init, Stream!Init, Inserted

LEMMA StreamInsert ==
  ASSUME IndInv, NEW w \in Writers, NEW d \in Data, Insert(w, d)
  PROVE  Stream!Put(d)
  BY InsertStep DEF Insert, Stream!Put, dmVars, smVars

LEMMA StreamReceive ==
  ASSUME IndInv, ScanHit
  PROVE  Stream!Receive
<1>1. Inserted' = Inserted /\ csv' = csv
  BY ScanHitStep DEF ScanHit, smVars
<1>2. dummy = Len(received) + 1 /\ dummy \in 1..Len(node)
  BY ScanHitStep
<1>3. Len(Inserted) = Len(node) /\ Inserted[dummy] = node[dummy].data
  BY <1>2 DEF Inserted, IndInv, TypeOK
<1>4. received' = Append(received, Inserted[dummy])
  BY <1>3, ScanHitStep
<1>5. ~Stream!Ended
  BY DEF Stream!Ended, ScanHit, IndInv, ReceivedInv
<1>6. Len(received) < Len(Inserted)
  BY <1>2, <1>3 DEF IndInv, TypeOK
<1> QED BY <1>1, <1>2, <1>4, <1>5, <1>6 DEF Stream!Receive

LEMMA StreamStore ==
  ASSUME IndInv, StoreRow
  PROVE  Stream!Store \/ UNCHANGED <<Inserted, received, csv>>
<1>1. Inserted' = Inserted /\ received' = received
  BY DEF StoreRow, Inserted, list, dmVars
<1>2. CASE record = End
  BY <1>1, <1>2 DEF StoreRow
<1>3. CASE record # End
  BY <1>1, <1>3 DEF StoreRow, IndInv, CsvInv, Stream!Store
<1> QED BY <1>2, <1>3

LEMMA StreamConsumers ==
  ASSUME IndInv, Consumers
  PROVE  Stream!Next \/ UNCHANGED <<Inserted, received, csv>>
<1>1. CASE Datamgr \/ DatamgrFails
  BY <1>1, StreamReceive DEF Datamgr, DatamgrFails, DatamgrStart, ReadBlock,
     ReadStart, ScanMiss, SignalUpdated, Process, Inserted, list, smVars, Stream!Next
<1>2. CASE Storagemgr \/ StorageFails
  BY <1>2, StreamStore DEF Storagemgr, StorageFails, StorageStart, RemoveBlock,
     RemoveTake, Inserted, list, dmVars, Stream!Next
<1>3. CASE SpuriousWakeup \/ Abort
  BY <1>3 DEF SpuriousWakeup, Abort, Inserted, list, dmVars, smVars
<1> QED BY <1>1, <1>2, <1>3 DEF Consumers

LEMMA StreamFree ==
  ASSUME FreeStart \/ FreeNode \/ FreeBuffer
  PROVE  UNCHANGED <<Inserted, received, csv>>
  BY DEF FreeStart, FreeNode, FreeBuffer, Inserted, list, dmVars, smVars

LEMMA StreamSignal ==
  ASSUME NEW w \in Writers, SignalFilled(w)
  PROVE  UNCHANGED <<Inserted, received, csv>>
  BY DEF SignalFilled, Inserted, list, smVars

LEMMA StreamStep == IndInv /\ [Next]_vars => [Stream!Next]_(Stream!svars)
<1> SUFFICES ASSUME IndInv, [Next]_vars
             PROVE  Stream!Next \/ UNCHANGED <<Inserted, received, csv>>
  BY DEF Stream!svars
<1>1. CASE UNCHANGED vars
  BY <1>1 DEF vars, Inserted
<1>2. CASE Free
  BY <1>2, StreamFree DEF Free
<1> QED BY <1>1, <1>2, StreamInsert, StreamConsumers, StreamSignal
        DEF Next, Stream!Next

(* The linked list with its stages, mutex and condition variables implements
   the stream of SensorStream.tla (safety part). *)
THEOREM Implements == SafeSpec => StreamSafe
  BY StreamInit, StreamStep, Invariance, PTL DEF SafeSpec, StreamSafe, Stream!SafeSpec
=============================================================================
