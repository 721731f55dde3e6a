---------------------------- MODULE FileDataMgr ----------------------------
(***************************************************************************)
(* The first data manager (plab1), which reads its temperatures from a     *)
(* file and answers queries, run step by step beside the one of the final  *)
(* gateway on the same map and the same readings.  It has its own copies   *)
(* of the list (plab1/lib/dplist.c) and of the window code.                *)
(*                                                                         *)
(* Its variables have the prefix f; what the two have in common, the map   *)
(* and the readings, are the arguments of the actions of DataMgr.tla.      *)
(***************************************************************************)
EXTENDS DataMgr

VARIABLES
  fphase,    \* "failed", "parse", "run", "loaded", "spin", "crashed" or "freed"
  table,     \* the list of the file data manager
  findex,    \* its index_dpl while it parses the map
  heard,     \* history: heard[id], when the last reading of id arrived
  answer     \* the last query: its kind, the id and what was returned

fvars == <<fphase, table, findex, heard, answer>>
vars  == <<dvars, fvars>>

FEmpty == -555
NoRoom == 0
FRow == [id : Ids, room : Rooms, running_avg : [Places -> Values \cup {FEmpty}],
         lastAdded : Places, modified : Nat]

Init ==
  /\ DataMgrInit
  /\ fphase = "parse" /\ table = <<>> /\ findex = 0
  /\ heard = [id \in Ids |-> 0] /\ answer = <<>>

-----------------------------------------------------------------------------
(* lib/dplist.c *)

(* dpl_insert_at_index: at the front, before the node at the index, or behind
   the last node when the index is beyond it. *)
FInsert(s, row, i) ==
  IF i <= 0 THEN <<row>> \o s
  ELSE IF i < Len(s) THEN SubSeq(s, 1, i) \o <<row>> \o SubSeq(s, i + 1, Len(s))
  ELSE Append(s, row)

(* Mutant: the walk stops one node late. *)
FAt_Late(s, i) == s[1 + IF i < 0 THEN 0 ELSE IF i + 1 < Len(s) THEN i + 1 ELSE Len(s) - 1]

(* dpl_get_reference_at_index: the last node for an index beyond it. *)
FAt(s, i) == s[1 + IF i <= 0 THEN 0 ELSE IF i < Len(s) THEN i ELSE Len(s) - 1]

(* dpl_get_index_of_element: the first index with the id, -1 for an empty
   list.  A search in a list without the id does not end. *)
FHolds(id)   == \E k \in DOMAIN table : table[k].id = id
FIndexOf(id) ==
  IF table = <<>> THEN -1
  ELSE CHOOSE i \in 0..(Len(table) - 1) :
         /\ table[i + 1].id = id
         /\ \A k \in 1..i : table[k].id # id
FEndless(id) == table # <<>> /\ ~FHolds(id)

-----------------------------------------------------------------------------
(* datamgr_parse_sensor_files, the map.  main gives up without its files. *)

FNoFile ==
  /\ fphase = "parse" /\ findex = 0
  /\ fphase' = "failed"
  /\ UNCHANGED <<table, findex, heard, answer>>

FNewRow(room, id) ==
  [id |-> id, room |-> room, running_avg |-> [p \in Places |-> FEmpty],
   lastAdded |-> 0, modified |-> 0]

FMapRoom(room, id) ==
  /\ fphase = "parse"
  /\ table' = FInsert(table, FNewRow(room, id), findex)
  /\ findex' = findex + 1
  /\ UNCHANGED <<fphase, heard, answer>>

(* Mutant: a line that cannot be parsed inserts the previous row again. *)
FMapJunk_Repeats ==
  /\ fphase = "parse"
  /\ table' = IF table = <<>> THEN table ELSE FInsert(table, table[Len(table)], findex)
  /\ findex' = findex + 1
  /\ UNCHANGED <<fphase, heard, answer>>

FMapJunk ==
  /\ fphase = "parse"
  /\ findex' = findex + 1
  /\ UNCHANGED <<fphase, table, heard, answer>>

FEndOfMap ==
  /\ fphase = "parse"
  /\ fphase' = "run"
  /\ UNCHANGED <<table, findex, heard, answer>>

-----------------------------------------------------------------------------
(* datamgr_parse_sensor_files, the readings.  A record cut short by the end of
   the file sets the end-of-file flag and is dropped. *)

FUpdate(k, v, ts) ==
  LET p == IF table[k].lastAdded + 1 >= Window THEN 0 ELSE table[k].lastAdded + 1
  IN  table' = [table EXCEPT ![k].modified = ts, ![k].lastAdded = p,
                             ![k].running_avg[p] = v]

FReading(id, v, ts) ==
  /\ fphase = "run"
  /\ \/ FEndless(id) /\ fphase' = "spin" /\ UNCHANGED <<table, heard>>
     \/ ~FEndless(id) /\ FIndexOf(id) = -1 /\ UNCHANGED <<fphase, table, heard>>
     \/ /\ ~FEndless(id) /\ FIndexOf(id) # -1
        /\ FUpdate(FIndexOf(id) + 1, v, ts)
        /\ heard' = [heard EXCEPT ![id] = ts]
        /\ UNCHANGED fphase
  /\ UNCHANGED <<findex, answer>>

FEndOfFile ==
  /\ fphase = "run"
  /\ fphase' = "loaded"
  /\ UNCHANGED <<table, findex, heard, answer>>

FFree ==
  /\ fphase = "loaded"
  /\ fphase' = "freed" /\ table' = <<>>
  /\ UNCHANGED <<findex, heard, answer>>

-----------------------------------------------------------------------------
(* The queries.  Each searches for the id first and so may not come back. *)

(* Mutant: an impossible value is added up like any other. *)
FSum_All(ring) == FoldFunction(LAMBDA v, s : IF v = FEmpty THEN s ELSE v + s, 0, ring)

FSum(ring)   == FoldFunction(LAMBDA v, s : IF v > -275 THEN v + s ELSE s, 0, ring)
FValid(ring) == Cardinality({p \in Places : ring[p] > -275})

(* datamgr_get_avg compares the average of the values that count; without one
   the average is not a number and no comparison holds. *)
FVerdict(ring) ==
  IF FValid(ring) > 0 /\ FSum(ring) > MaxTemp * FValid(ring) THEN "hot"
  ELSE IF FValid(ring) > 0 /\ FSum(ring) < MinTemp * FValid(ring) THEN "cold" ELSE "none"

GetRoom(id) ==
  /\ ~FEndless(id)
  /\ answer' = <<"room", id, IF FIndexOf(id) = -1 THEN NoRoom
                             ELSE FAt(table, FIndexOf(id)).room>>
  /\ UNCHANGED <<fphase, table>>

GetLastModified(id) ==
  /\ ~FEndless(id)
  /\ answer' = <<"modified", id, IF FIndexOf(id) = -1 THEN 0
                                 ELSE FAt(table, FIndexOf(id)).modified>>
  /\ UNCHANGED <<fphase, table>>

(* An empty list has no element to take the average of: the code follows the
   null pointer. *)
GetAvg(id) ==
  /\ ~FEndless(id)
  /\ \/ FIndexOf(id) = -1 /\ fphase' = "crashed" /\ answer' = <<"avg", id, "crash">>
     \/ /\ FIndexOf(id) # -1
        /\ answer' = <<"avg", id, FVerdict(FAt(table, FIndexOf(id)).running_avg)>>
        /\ UNCHANGED fphase
  /\ UNCHANGED table

QuerySpins(id) ==
  /\ FEndless(id)
  /\ fphase' = "spin" /\ answer' = <<"spin", id>>
  /\ UNCHANGED table

GetTotal(id) == answer' = <<"total", id, Len(table)>> /\ UNCHANGED <<fphase, table>>

Ask(id) ==
  /\ fphase = "loaded" /\ UNCHANGED <<findex, heard>>
  /\ GetRoom(id) \/ GetLastModified(id) \/ GetAvg(id) \/ QuerySpins(id) \/ GetTotal(id)

-----------------------------------------------------------------------------
(* Both on the same input. *)

SameMap ==
  \/ \E room \in Rooms, id \in Ids : ParseRoom(room, id) /\ FMapRoom(room, id)
  \/ ParseJunk /\ FMapJunk
  \/ EndOfMap /\ FEndOfMap

SameReading ==
  \E id \in Ids, v \in Values :
    /\ ReceiveKnown(id, v) \/ ReceiveInvalid(id) \/ ReceiveUnmapped(id)
    /\ FReading(id, v, clock + 1)

Next ==
  \/ SameMap \/ SameReading
  \/ ReceiveEnd /\ FFree
  \/ MapMissing /\ FNoFile
  \/ UNCHANGED dvars /\ (FEndOfFile \/ \E id \in Ids : Ask(id))

Spec == Init /\ [][Next]_vars

-----------------------------------------------------------------------------
(* Correctness. *)

FTypeOK ==
  /\ fphase \in {"failed", "parse", "run", "loaded", "spin", "crashed", "freed"}
  /\ table \in Seq(FRow) /\ findex \in Nat /\ heard \in [Ids -> Nat]

(* Places of the two windows that hold the same: a value, or nothing yet. *)
Alike(old, now) == old = now \/ (old = FEmpty /\ now = Empty)

RowsAlike ==
  /\ Len(table) = Len(sensors)
  /\ \A r \in DOMAIN table :
       /\ table[r].id = sensors[r].id /\ table[r].room = sensors[r].room
       /\ table[r].lastAdded = sensors[r].last
       /\ table[r].modified = sensors[r].modified
       /\ \A p \in Places : Alike(table[r].running_avg[p], sensors[r].ring[p])

(* The two programs were written one after the other from separate copies of
   the list and of the window.  On the same input they hold the same rows, and
   their windows differ only in the value that marks an empty place. *)
SameRows == phase = "run" /\ fphase \in {"run", "loaded"} => RowsAlike

(* The two programs in step: they insert at the same index, and the file data
   manager answers queries only while the gateway runs. *)
TwinInv ==
  /\ phase = "parse" => findex = index_dpl
  /\ phase \in {"parse", "run"} => RowsAlike
  /\ fphase \in {"run", "loaded"} => phase = "run"

(* The first row of an id knows when its last reading arrived. *)
HeardInv ==
  phase \in {"parse", "run"} =>
    /\ \A r \in DOMAIN sensors : IsFirst(r) => sensors[r].modified = heard[sensors[r].id]
    /\ \A id \in Ids : ~Holds(id) => heard[id] = 0

(* Their verdicts differ, but only while a window is not full of values that
   count, and then in one direction: the gateway never says too hot where the
   file data manager would not, and says too cold wherever it would. *)
VerdictsRelated ==
  phase = "run" /\ fphase \in {"run", "loaded"} =>
    \A r \in DOMAIN sensors :
      LET now == Judge(sensors[r].ring)
          old == FVerdict(table[r].running_avg)
      IN  /\ now = "hot" => old = "hot"
          /\ old = "cold" => now = "cold"
          /\ FValid(table[r].running_avg) = Window => now = old

(* What datamgr_get_avg has to work with: the values of the last readings of
   an id that count, and their number. *)
Latest(id) == [j \in Counted(id) |-> seen[id][j]]
Average(id, limit) == FoldFunction(LAMBDA v, s : v - limit + s, 0, Latest(id))

(* The lines of the map with an id, and the room of the first of them. *)
LinesOf(id) == {k \in DOMAIN lines : lines[k][2] = id}
RoomOf(id)  == lines[CHOOSE k \in LinesOf(id) : \A q \in LinesOf(id) : k <= q][1]

(* The limit that the average of the latest readings of an id is beyond. *)
AverageSays(id) ==
  IF Average(id, MaxTemp) > 0 THEN "hot"
  ELSE IF Average(id, MinTemp) < 0 THEN "cold" ELSE "none"

UniqueIds == \A j, k \in DOMAIN lines : lines[j][2] = lines[k][2] => j = k

(* A query about an id of the map comes back, and with what belongs to that id
   and not to its neighbour in the list: its room (plab1/datamgr.h:75), the
   time of its last reading (line 91) and, once its window is full and a value
   in it counts, on which side of the limits their average lies (line 83).  The
   total is the number of ids when no id has two lines (line 99).
   Where the code departs from its header nothing is required: ids that are not
   in the map (lines 76, 84 and 92 ask for an error exit), windows that are not
   full (line 83 says 0) and maps with an id twice (line 99 says unique). *)
AnswersAsDocumented ==
  [][answer' # answer =>
       LET id   == answer'[2]
           full == Len(seen[id]) >= Window /\ Counted(id) # {}
       IN  /\ LinesOf(id) # {} =>
                /\ fphase' = "loaded"
                /\ answer'[1] = "room"       => answer'[3] = RoomOf(id)
                /\ answer'[1] = "modified"   => answer'[3] = heard[id]
                /\ answer'[1] = "avg" /\ full => answer'[3] = AverageSays(id)
           /\ answer'[1] = "total" /\ UniqueIds =>
                answer'[3] = Cardinality({lines[k][2] : k \in DOMAIN lines})]_vars
=============================================================================
