------------------------- MODULE FileDataMgr_proofs -------------------------
(***************************************************************************)
(* The two data managers side by side, for every map, any readings and any *)
(* length of the window: they hold the same rows, their verdicts are       *)
(* related as VerdictsRelated says, and queries about the ids of the map   *)
(* return what plab1/datamgr.h promises (FileDataMgr.tla).                 *)
(***************************************************************************)
EXTENDS FileDataMgr, DataMgr_proofs

USE IdsAssumption, ValuesAssumption, WindowAssumption

-----------------------------------------------------------------------------
(* Every step of the two is a step of the gateway's data manager, or none. *)

LEMMA StepOfGateway == [Next]_vars => [DataMgrNext]_dvars
BY DEF Next, SameMap, SameReading, vars, DataMgrNext

(* The pair of programs implements the data manager of the gateway, so what
   holds of the one holds of it beside the other. *)
THEOREM ImplementsDataMgr == Spec => DataMgrSpec
<1>1. Init => DataMgrInit
  BY DEF Init
<1> QED BY <1>1, StepOfGateway, PTL DEF Spec, DataMgrSpec

-----------------------------------------------------------------------------
(* The list of the file data manager. *)

(* Like InsertRowAppends: beyond the last row every index is the same. *)
LEMMA FInsertAppends ==
  ASSUME NEW T, NEW s \in Seq(T), NEW row \in T, NEW i \in Nat, Len(s) <= i
  PROVE  /\ FInsert(s, row, i) \in Seq(T)
         /\ Len(FInsert(s, row, i)) = Len(s) + 1
         /\ \A k \in 1..Len(s) : FInsert(s, row, i)[k] = s[k]
         /\ FInsert(s, row, i)[Len(s) + 1] = row
<1>1. CASE i <= 0
  <2>1. s = <<>> /\ Len(s) = 0
    BY <1>1
  <2>2. FInsert(s, row, i) = <<row>> \o s
    BY <1>1, Zenon DEF FInsert
  <2>3. <<row>> \o s = <<row>>
    BY <2>1
  <2>4. <<row>> \in Seq(T) /\ Len(<<row>>) = 1 /\ <<row>>[1] = row
    OBVIOUS
  <2>5. \A k \in 1..Len(s) : FALSE
    BY <2>1
  <2>6. FInsert(s, row, i) = <<row>>
    BY <2>2, <2>3
  <2>7. Len(s) + 1 = 1
    BY <2>1
  <2> QED BY <2>4, <2>5, <2>6, <2>7
<1>2. CASE ~ (i <= 0)
  <2>0. ~ (i < Len(s))
    OBVIOUS
  <2>1. FInsert(s, row, i) = Append(s, row)
    BY <1>2, <2>0, Zenon DEF FInsert
  <2> QED BY <2>1
<1> QED BY <1>1, <1>2

LEMMA FNewRowIsRow ==
  ASSUME NEW room \in Rooms, NEW id \in Ids
  PROVE  /\ FNewRow(room, id) \in FRow
         /\ \A p \in Places : FNewRow(room, id).running_avg[p] = FEmpty
         /\ FNewRow(room, id).id = id /\ FNewRow(room, id).room = room
         /\ FNewRow(room, id).lastAdded = 0 /\ FNewRow(room, id).modified = 0
<1>1. 0 \in Places
  BY DEF Places
<1> QED BY <1>1 DEF FNewRow, FRow

(* The search finds the first row with the id. *)
LEMMA FIndexOfFirst ==
  ASSUME table \in Seq(FRow), NEW r \in DOMAIN table,
         \A q \in 1..(r - 1) : table[q].id # table[r].id
  PROVE  FIndexOf(table[r].id) = r - 1
<1> DEFINE id == table[r].id
           First(i) == table[i + 1].id = id /\ \A k \in 1..i : table[k].id # id
<1>1. r \in 1..Len(table) /\ Len(table) \in Nat /\ table # <<>>
  OBVIOUS
<1>2. r - 1 \in 0..(Len(table) - 1) /\ First(r - 1)
  BY <1>1
<1>3. \A i \in 0..(Len(table) - 1) : First(i) => i = r - 1
  <2> SUFFICES ASSUME NEW i \in 0..(Len(table) - 1), First(i) PROVE i = r - 1
    OBVIOUS
  <2>1. ~ (i + 1 < r)
    BY <1>1, <1>2
  <2>2. ~ (r < i + 1)
    BY <1>1
  <2> QED BY <1>1, <2>1, <2>2
<1>4. FIndexOf(id) = CHOOSE i \in 0..(Len(table) - 1) : First(i)
  BY <1>1 DEF FIndexOf
<1> HIDE DEF First, id
<1>5. FIndexOf(id) = r - 1
  BY <1>2, <1>3, <1>4
<1> QED BY <1>5 DEF id

(* A row with the id means a first one. *)
LEMMA FirstExists ==
  ASSUME sensors \in Seq(Row), NEW id, Holds(id)
  PROVE  \E r \in DOMAIN sensors : sensors[r].id = id /\ IsFirst(r)
<1> DEFINE S == {r \in DOMAIN sensors : sensors[r].id = id}
<1>1. S \in SUBSET Nat /\ S # {}
  BY DEF Holds
<1>2. PICK r \in S : \A k \in S : r <= k
  BY <1>1, Least
<1>3. \A q \in 1..(r - 1) : q \in DOMAIN sensors /\ ~ (r <= q)
  BY <1>1
<1>4. IsFirst(r)
  BY <1>2, <1>3 DEF IsFirst
<1> QED BY <1>4

-----------------------------------------------------------------------------
(* The two in step. *)

PairInv == DataMgrInv /\ FTypeOK /\ TwinInv /\ HeardInv

LEMMA PairInit == Init => PairInv
<1> SUFFICES ASSUME Init PROVE PairInv
  OBVIOUS
<1>1. DataMgrInv
  BY InitInv DEF Init
<1>2. FTypeOK /\ TwinInv
  BY DEF Init, DataMgrInit, FTypeOK, TwinInv, RowsAlike
<1>3. HeardInv
  BY DEF Init, DataMgrInit, HeardInv, Holds
<1> QED BY <1>1, <1>2, <1>3 DEF PairInv

(* Steps that leave the rows of both alone. *)
LEMMA PairQuiet ==
  ASSUME PairInv, DataMgrInv', UNCHANGED <<sensors, table, heard>>,
         findex' \in Nat, phase' = "parse" => phase = "parse" /\ findex' = index_dpl',
         phase' = "run" => phase \in {"parse", "run"},
         fphase' \in {"failed", "parse", "run", "loaded", "spin", "crashed", "freed"},
         fphase' \in {"run", "loaded"} => phase' = "run"
  PROVE  PairInv'
<1>1. FTypeOK'
  BY DEF PairInv, FTypeOK
<1>2. TwinInv'
  BY DEF PairInv, TwinInv, RowsAlike, Alike
<1>3. HeardInv'
  BY DEF PairInv, HeardInv, Holds, IsFirst
<1> QED BY <1>1, <1>2, <1>3 DEF PairInv

(* The same line of the map. *)
LEMMA PairRoom ==
  ASSUME PairInv, DataMgrInv', NEW room \in Rooms, NEW id \in Ids,
         ParseRoom(room, id), FMapRoom(room, id)
  PROVE  PairInv'
<1> DEFINE n    == Len(sensors)
           row  == NewRow(room, id)
           frow == FNewRow(room, id)
<1>0. /\ sensors \in Seq(Row) /\ n \in Nat /\ n <= index_dpl /\ index_dpl \in Nat
      /\ table \in Seq(FRow) /\ Len(table) = n /\ findex = index_dpl /\ RowsAlike
      /\ phase = "parse" /\ DOMAIN sensors = 1..n /\ DOMAIN table = 1..n
  BY DEF PairInv, DataMgrInv, TypeOK, ParseInv, FTypeOK, TwinInv, ParseRoom, RowsAlike
<1>1. /\ Len(sensors') = n + 1 /\ sensors'[n + 1] = row
      /\ \A k \in 1..n : sensors'[k] = sensors[k]
      /\ sensors' \in Seq(Row) /\ DOMAIN sensors' = 1..(n + 1)
  <2>1. row \in Row /\ sensors' = InsertRow(sensors, row, index_dpl)
    BY NewRowIsRow DEF ParseRoom
  <2> HIDE DEF row
  <2>2. sensors \in Seq(Row) /\ index_dpl \in Nat /\ Len(sensors) <= index_dpl
    BY <1>0
  <2>3. LET t == InsertRow(sensors, row, index_dpl)
        IN  /\ t \in Seq(Row) /\ Len(t) = Len(sensors) + 1
            /\ \A k \in 1..Len(sensors) : t[k] = sensors[k]
            /\ t[Len(sensors) + 1] = row
    BY <2>1, <2>2, InsertRowAppends
  <2> QED BY <1>0, <2>1, <2>3
<1>2. /\ Len(table') = n + 1 /\ table'[n + 1] = frow
      /\ \A k \in 1..n : table'[k] = table[k]
      /\ table' \in Seq(FRow) /\ DOMAIN table' = 1..(n + 1)
  <2>1. frow \in FRow /\ table' = FInsert(table, frow, findex)
    BY FNewRowIsRow DEF FMapRoom
  <2> HIDE DEF frow
  <2>2. table \in Seq(FRow) /\ findex \in Nat /\ Len(table) <= findex
    BY <1>0
  <2>3. LET t == FInsert(table, frow, findex)
        IN  /\ t \in Seq(FRow) /\ Len(t) = Len(table) + 1
            /\ \A k \in 1..Len(table) : t[k] = table[k]
            /\ t[Len(table) + 1] = frow
    BY <2>1, <2>2, FInsertAppends
  <2> QED BY <1>0, <2>1, <2>3
<1>3. FTypeOK'
  BY <1>0, <1>2 DEF FMapRoom, PairInv, FTypeOK
<1>4. RowsAlike'
  <2> SUFFICES ASSUME NEW r \in 1..(n + 1)
               PROVE  /\ table'[r].id = sensors'[r].id /\ table'[r].room = sensors'[r].room
                      /\ table'[r].lastAdded = sensors'[r].last
                      /\ table'[r].modified = sensors'[r].modified
                      /\ \A p \in Places : Alike(table'[r].running_avg[p], sensors'[r].ring[p])
    BY <1>1, <1>2 DEF RowsAlike, Alike
  <2>1. CASE r \in 1..n
    BY <1>0, <1>1, <1>2, <2>1 DEF RowsAlike
  <2>2. CASE r = n + 1
    <3>1. row.modified = 0
      BY DEF NewRow
    <3>2. \A p \in Places : Alike(frow.running_avg[p], row.ring[p])
      BY NewRowIsRow, FNewRowIsRow DEF Alike
    <3> QED BY <1>1, <1>2, <2>2, <3>1, <3>2, NewRowIsRow, FNewRowIsRow
  <2> QED BY <1>0, <2>1, <2>2
<1>5. TwinInv'
  BY <1>0, <1>4 DEF TwinInv, ParseRoom, FMapRoom
<1>6. HeardInv'
  <2>1. heard' = heard
    BY DEF FMapRoom
  <2>2. ASSUME NEW r \in 1..(n + 1), IsFirst(r)'
        PROVE  sensors'[r].modified = heard[sensors'[r].id]
    <3>1. \A q \in 1..(r - 1) : sensors'[q].id # sensors'[r].id
      BY <2>2 DEF IsFirst
    <3>2. \A q \in 1..(r - 1) : q \in 1..n
      BY <1>0
    <3>3. CASE r \in 1..n
      <4>1. IsFirst(r)
        BY <1>1, <3>1, <3>2, <3>3 DEF IsFirst
      <4> QED BY <1>0, <1>1, <3>3, <4>1 DEF PairInv, HeardInv
    <3>4. CASE r = n + 1
      <4>1. ~ Holds(id)
        <5>1. sensors'[r].id = id
          BY <1>1, <3>4, NewRowIsRow
        <5>2. \A q \in 1..n : q \in 1..(r - 1) /\ sensors'[q] = sensors[q]
          BY <1>0, <1>1, <3>4
        <5> QED BY <1>0, <3>1, <5>1, <5>2 DEF Holds
      <4>2. heard[id] = 0
        BY <1>0, <4>1 DEF PairInv, HeardInv
      <4>3. row.modified = 0 /\ row.id = id
        BY DEF NewRow
      <4> QED BY <1>1, <3>4, <4>2, <4>3
    <3> QED BY <1>0, <3>3, <3>4
  <2>3. ASSUME NEW i \in Ids, ~ Holds(i)' PROVE heard[i] = 0
    <3>1. ~ Holds(i)
      <4>1. \A k \in 1..n : sensors'[k].id # i
        BY <1>1, <2>3 DEF Holds
      <4> QED BY <1>0, <1>1, <4>1 DEF Holds
    <3> QED BY <1>0, <2>3, <3>1 DEF PairInv, HeardInv
  <2> QED BY <1>1, <2>1, <2>2, <2>3 DEF HeardInv
<1> QED BY <1>3, <1>5, <1>6 DEF PairInv

(* The place a reading goes to, in the words of FUpdate. *)
LEMMA FUpdateRow ==
  ASSUME table \in Seq(FRow), NEW k \in DOMAIN table, NEW v \in Values, NEW ts \in Nat,
         FUpdate(k, v, ts)
  PROVE  LET p == Advance(table[k].lastAdded)
         IN  /\ p \in Places
             /\ table' \in Seq(FRow) /\ DOMAIN table' = DOMAIN table /\ Len(table') = Len(table)
             /\ \A q \in DOMAIN table : q # k => table'[q] = table[q]
             /\ table'[k].id = table[k].id /\ table'[k].room = table[k].room
             /\ table'[k].modified = ts /\ table'[k].lastAdded = p
             /\ table'[k].running_avg = [table[k].running_avg EXCEPT ![p] = v]
<1> DEFINE row == table[k]
           p   == Advance(row.lastAdded)
           new == [id |-> row.id, room |-> row.room,
                   running_avg |-> [row.running_avg EXCEPT ![p] = v],
                   lastAdded |-> p, modified |-> ts]
<1>1. row \in FRow
  OBVIOUS
<1>2. /\ row.id \in Ids /\ row.room \in Rooms /\ row.lastAdded \in Places
      /\ row.running_avg \in [Places -> Values \cup {FEmpty}] /\ row.modified \in Nat
      /\ row = [id |-> row.id, room |-> row.room, running_avg |-> row.running_avg,
                lastAdded |-> row.lastAdded, modified |-> row.modified]
  <2> HIDE DEF row
  <2> QED BY <1>1 DEF FRow
<1>3. p \in Places
  BY <1>2, AdvanceInPlaces
<1>4. [row EXCEPT !.modified = ts, !.lastAdded = p, !.running_avg[p] = v] = new
  <2>1. PICK a, b, c, d, e : row = [id |-> a, room |-> b, running_avg |-> c,
                                    lastAdded |-> d, modified |-> e]
    BY <1>2
  <2>2. row.id = a /\ row.room = b /\ row.running_avg = c
    BY <2>1
  <2> HIDE DEF row, p
  <2>3. [row EXCEPT !.modified = ts, !.lastAdded = p, !.running_avg[p] = v]
          = [id |-> a, room |-> b, running_avg |-> [c EXCEPT ![p] = v],
             lastAdded |-> p, modified |-> ts]
    <3> DEFINE r1 == [row EXCEPT !.modified = ts]
               r2 == [r1 EXCEPT !.lastAdded = p]
               r3 == [r2 EXCEPT !.running_avg[p] = v]
    <3>1. r1 = [id |-> a, room |-> b, running_avg |-> c, lastAdded |-> d, modified |-> ts]
      BY <2>1
    <3>2. r2 = [id |-> a, room |-> b, running_avg |-> c, lastAdded |-> p, modified |-> ts]
      <4> HIDE DEF r1
      <4> QED BY <3>1
    <3>3. r3 = [id |-> a, room |-> b, running_avg |-> [c EXCEPT ![p] = v],
                lastAdded |-> p, modified |-> ts]
      <4> HIDE DEF r2
      <4> QED BY <3>2
    <3>4. [row EXCEPT !.modified = ts, !.lastAdded = p, !.running_avg[p] = v] = r3
      OBVIOUS
    <3> HIDE DEF r3
    <3> QED BY <3>3, <3>4
  <2> QED BY <2>2, <2>3
<1>5. new \in FRow
  <2> HIDE DEF row, p
  <2> QED BY <1>2, <1>3 DEF FRow
<1>6. table' = [table EXCEPT ![k] = new]
  <2>1. table' = [table EXCEPT ![k].modified = ts, ![k].lastAdded = p,
                               ![k].running_avg[p] = v]
    BY DEF FUpdate, Advance
  <2>2. table' = [table EXCEPT ![k] =
                    [row EXCEPT !.modified = ts, !.lastAdded = p, !.running_avg[p] = v]]
    BY <2>1
  <2> HIDE DEF row, p, new
  <2> QED BY <1>4, <2>2
<1> HIDE DEF new
<1>7. table'[k] = new
  BY <1>6
<1>8. /\ table' \in Seq(FRow) /\ DOMAIN table' = DOMAIN table /\ Len(table') = Len(table)
      /\ \A q \in DOMAIN table : q # k => table'[q] = table[q]
  BY <1>5, <1>6
<1> QED BY <1>3, <1>7, <1>8 DEF new

(* The same reading of a sensor both know. *)
LEMMA PairKnown ==
  ASSUME PairInv, DataMgrInv', NEW id \in Ids, NEW v \in Values,
         ReceiveKnown(id, v), FReading(id, v, clock + 1)
  PROVE  PairInv'
<1>1. PICK r \in DOMAIN sensors : sensors[r].id = id /\ IsFirst(r) /\ Store(r, v)
  BY DEF ReceiveKnown
<1> DEFINE p == Advance(sensors[r].last)
<1>0. /\ sensors \in Seq(Row) /\ table \in Seq(FRow) /\ Len(table) = Len(sensors)
      /\ DOMAIN sensors = 1..Len(sensors) /\ DOMAIN table = DOMAIN sensors
      /\ clock \in Nat /\ phase = "run" /\ phase' = "run" /\ RowsAlike
      /\ fphase = "run" /\ findex' = findex /\ findex \in Nat /\ heard \in [Ids -> Nat]
  BY DEF PairInv, DataMgrInv, TypeOK, FTypeOK, TwinInv, RowsAlike, ReceiveKnown, Reading,
         FReading
<1>2. \A q \in DOMAIN sensors :
        /\ table[q].id = sensors[q].id /\ table[q].room = sensors[q].room
        /\ table[q].lastAdded = sensors[q].last /\ table[q].modified = sensors[q].modified
        /\ \A x \in Places : Alike(table[q].running_avg[x], sensors[q].ring[x])
  BY <1>0 DEF RowsAlike
<1>3. \A q \in 1..(r - 1) : q \in DOMAIN sensors /\ table[q].id # table[r].id
  BY <1>0, <1>1, <1>2 DEF IsFirst
<1>4. FIndexOf(id) = r - 1 /\ table[r].id = id /\ r \in DOMAIN table
  <2>1. table[r].id = id /\ r \in DOMAIN table
    BY <1>0, <1>1, <1>2
  <2> QED BY <1>0, <1>3, <2>1, FIndexOfFirst
<1>5. FUpdate(r, v, clock + 1) /\ heard' = [heard EXCEPT ![id] = clock + 1] /\ fphase' = fphase
  <2>1. ~ FEndless(id) /\ FIndexOf(id) # -1
    BY <1>0, <1>4 DEF FEndless, FHolds
  <2>2. FIndexOf(id) + 1 = r
    BY <1>0, <1>4
  <2> QED BY <2>1, <2>2 DEF FReading
<1>6. /\ p \in Places
      /\ table' \in Seq(FRow) /\ DOMAIN table' = DOMAIN table /\ Len(table') = Len(table)
      /\ \A q \in DOMAIN table : q # r => table'[q] = table[q]
      /\ table'[r].id = table[r].id /\ table'[r].room = table[r].room
      /\ table'[r].modified = clock + 1 /\ table'[r].lastAdded = p
      /\ table'[r].running_avg = [table[r].running_avg EXCEPT ![p] = v]
  <2>1. clock + 1 \in Nat
    BY <1>0
  <2>2. Advance(table[r].lastAdded) = p
    BY <1>1, <1>2
  <2> HIDE DEF p
  <2> QED BY <1>0, <1>4, <1>5, <2>1, <2>2, FUpdateRow
<1> DEFINE new == [id |-> sensors[r].id, room |-> sensors[r].room,
                   ring |-> [sensors[r].ring EXCEPT ![p] = v], last |-> p,
                   modified |-> clock + 1]
<1>7. sensors' = [sensors EXCEPT ![r] = new]
  BY <1>0, <1>1 DEF Store, Refreshed
<1>8. /\ Len(sensors') = Len(sensors) /\ DOMAIN sensors' = DOMAIN sensors
      /\ \A q \in DOMAIN sensors : q # r => sensors'[q] = sensors[q]
      /\ sensors'[r].id = id /\ sensors'[r].room = sensors[r].room
      /\ sensors'[r].last = p /\ sensors'[r].modified = clock + 1
      /\ sensors'[r].ring = [sensors[r].ring EXCEPT ![p] = v]
  <2>1. sensors'[r] = new
    BY <1>1, <1>7
  <2>2. /\ Len(sensors') = Len(sensors) /\ DOMAIN sensors' = DOMAIN sensors
        /\ \A q \in DOMAIN sensors : q # r => sensors'[q] = sensors[q]
    <3> HIDE DEF new
    <3> QED BY <1>0, <1>7
  <2> QED BY <1>1, <2>1, <2>2
<1>9. FTypeOK'
  BY <1>0, <1>5, <1>6 DEF FTypeOK
<1>10. RowsAlike'
  <2> SUFFICES ASSUME NEW q \in DOMAIN sensors
               PROVE  /\ table'[q].id = sensors'[q].id /\ table'[q].room = sensors'[q].room
                      /\ table'[q].lastAdded = sensors'[q].last
                      /\ table'[q].modified = sensors'[q].modified
                      /\ \A x \in Places : Alike(table'[q].running_avg[x], sensors'[q].ring[x])
    BY <1>0, <1>6, <1>8 DEF RowsAlike, Alike
  <2>1. CASE q # r
    BY <1>0, <1>2, <1>6, <1>8, <2>1
  <2>2. CASE q = r
    <3>1. sensors[r].ring \in [Places -> Values \cup {Empty}]
          /\ table[r].running_avg \in [Places -> Values \cup {FEmpty}]
      <4>1. sensors[r] \in Row /\ table[r] \in FRow
        BY <1>0, <1>1
      <4> QED BY <4>1 DEF Row, FRow
    <3>2. ASSUME NEW x \in Places
          PROVE  Alike([table[r].running_avg EXCEPT ![p] = v][x], [sensors[r].ring EXCEPT ![p] = v][x])
      <4>1. Alike(table[r].running_avg[x], sensors[r].ring[x])
        BY <1>1, <1>2
      <4>2. CASE x = p
        BY <3>1, <4>2 DEF Alike
      <4>3. CASE x # p
        BY <3>1, <4>1, <4>3
      <4> QED BY <4>2, <4>3
    <3> HIDE DEF p
    <3> QED BY <1>1, <1>2, <1>6, <1>8, <2>2, <3>2
  <2> QED BY <2>1, <2>2
<1>11. TwinInv'
  BY <1>0, <1>5, <1>10 DEF TwinInv
<1>12. HeardInv'
  <2>1. \A q \in DOMAIN sensors : sensors'[q].id = sensors[q].id
    BY <1>1, <1>8
  <2>2. \A q \in DOMAIN sensors : \A k \in 1..(q - 1) : k \in DOMAIN sensors
    BY <1>0
  <2>3. \A q \in DOMAIN sensors : IsFirst(q)' <=> IsFirst(q)
    BY <2>1, <2>2 DEF IsFirst
  <2>4. ASSUME NEW q \in DOMAIN sensors, IsFirst(q)
        PROVE  sensors'[q].modified = heard'[sensors'[q].id]
    <3>1. CASE q = r
      BY <1>0, <1>5, <1>8, <3>1
    <3>2. CASE q # r
      <4>1. sensors[q].id # id
        <5>1. q < r => q \in 1..(r - 1)
          BY <1>0
        <5>2. r < q => r \in 1..(q - 1)
          BY <1>0, <1>1
        <5> QED BY <1>0, <1>1, <2>4, <3>2, <5>1, <5>2 DEF IsFirst
      <4>2. sensors[q].modified = heard[sensors[q].id] /\ sensors[q].id \in Ids
        <5>1. sensors[q] \in Row
          BY <1>0
        <5> QED BY <1>0, <2>4, <5>1, RowFields DEF PairInv, HeardInv
      <4> QED BY <1>0, <1>5, <1>8, <3>2, <4>1, <4>2
    <3> QED BY <3>1, <3>2
  <2>5. ASSUME NEW i \in Ids, ~ Holds(i)' PROVE heard'[i] = 0
    <3>1. ~ Holds(i) /\ i # id
      BY <1>1, <1>8, <2>1, <2>5 DEF Holds
    <3>2. heard[i] = 0
      BY <1>0, <2>5, <3>1 DEF PairInv, HeardInv
    <3> QED BY <1>0, <1>5, <2>5, <3>1, <3>2
  <2> QED BY <1>8, <2>3, <2>4, <2>5 DEF HeardInv
<1> QED BY <1>9, <1>11, <1>12 DEF PairInv

(* The end marker in the one, the end of main in the other. *)
LEMMA PairFree ==
  ASSUME PairInv, DataMgrInv', ReceiveEnd, FFree
  PROVE  PairInv'
<1>1. phase' = "freed" /\ fphase' = "freed" /\ table' = <<>> /\ findex' = findex
      /\ heard' = heard
  BY DEF ReceiveEnd, FFree
<1>2. FTypeOK'
  BY <1>1 DEF PairInv, FTypeOK
<1> QED BY <1>1, <1>2 DEF PairInv, TwinInv, HeardInv

LEMMA PairNext ==
  ASSUME PairInv, DataMgrInv', [Next]_vars
  PROVE  PairInv'
<1>0. /\ findex \in Nat /\ (phase = "parse" => findex = index_dpl)
      /\ fphase \in {"failed", "parse", "run", "loaded", "spin", "crashed", "freed"}
      /\ (fphase \in {"run", "loaded"} => phase = "run")
      /\ (phase \in {"parse", "run"} => Len(table) = Len(sensors) /\ DOMAIN table = DOMAIN sensors)
  BY DEF PairInv, FTypeOK, TwinInv, RowsAlike, DataMgrInv, TypeOK
<1>1. ASSUME NEW room \in Rooms, NEW id \in Ids, ParseRoom(room, id), FMapRoom(room, id)
      PROVE  PairInv'
  BY <1>1, PairRoom
<1>2. CASE ParseJunk /\ FMapJunk
  BY <1>0, <1>2, PairQuiet DEF ParseJunk, FMapJunk
<1>3. CASE EndOfMap /\ FEndOfMap
  BY <1>0, <1>3, PairQuiet DEF EndOfMap, FEndOfMap
<1>4. ASSUME NEW id \in Ids, NEW v \in Values, FReading(id, v, clock + 1),
             ReceiveKnown(id, v) \/ ReceiveInvalid(id) \/ ReceiveUnmapped(id)
      PROVE  PairInv'
  <2>1. CASE ReceiveKnown(id, v)
    BY <1>4, <2>1, PairKnown
  <2>2. CASE ReceiveInvalid(id)
    <3>1. sensors = <<>> /\ phase = "run" /\ phase' = "run" /\ sensors' = sensors
          /\ index_dpl' = index_dpl
      BY <2>2 DEF ReceiveInvalid, Reading, mapVars
    <3>2. table = <<>>
      BY <1>0, <3>1 DEF PairInv, FTypeOK
    <3>3. FIndexOf(id) = -1
      BY <3>2 DEF FIndexOf
    <3>4. UNCHANGED <<fphase, table, heard, findex>> /\ fphase = "run"
      BY <1>4, <3>2, <3>3 DEF FReading, FEndless
    <3> QED BY <1>0, <3>1, <3>4, PairQuiet
  <2>3. CASE ReceiveUnmapped(id)
    <3>1. /\ sensors # <<>> /\ ~ Holds(id) /\ phase = "run" /\ phase' = "spin"
          /\ sensors' = sensors /\ sensors \in Seq(Row)
      BY <2>3 DEF ReceiveUnmapped, Reading, PairInv, DataMgrInv, TypeOK
    <3>2. RowsAlike /\ table \in Seq(FRow)
      BY <3>1 DEF PairInv, TwinInv, FTypeOK
    <3>3. FEndless(id)
      BY <1>0, <3>1, <3>2 DEF FEndless, FHolds, Holds, RowsAlike
    <3>4. fphase' = "spin" /\ UNCHANGED <<table, heard, findex>>
      BY <1>4, <3>3 DEF FReading
    <3> QED BY <1>0, <3>1, <3>4, PairQuiet
  <2> QED BY <1>4, <2>1, <2>2, <2>3
<1>5. CASE ReceiveEnd /\ FFree
  BY <1>5, PairFree
<1>6. CASE MapMissing /\ FNoFile
  BY <1>0, <1>6, PairQuiet DEF MapMissing, FNoFile
<1>7. CASE UNCHANGED dvars /\ FEndOfFile
  BY <1>0, <1>7, PairQuiet DEF dvars, FEndOfFile
<1>8. ASSUME UNCHANGED dvars, NEW id \in Ids, Ask(id)
      PROVE  PairInv'
  <2>1. /\ fphase = "loaded" /\ findex' = findex /\ heard' = heard /\ table' = table
        /\ fphase' \in {"loaded", "crashed", "spin"}
    BY <1>8 DEF Ask, GetRoom, GetLastModified, GetAvg, QuerySpins, GetTotal
  <2> QED BY <1>0, <1>8, <2>1, PairQuiet DEF dvars
<1>9. CASE UNCHANGED vars
  BY <1>0, <1>9, PairQuiet DEF vars, dvars, fvars
<1> QED BY <1>1, <1>2, <1>3, <1>4, <1>5, <1>6, <1>7, <1>8, <1>9
        DEF Next, SameMap, SameReading

(* The inductive invariant of the pair, on top of the one of the gateway's
   data manager. *)
THEOREM PairInvariance == Spec => []PairInv
<1>1. Spec => []DataMgrInv
  BY ImplementsDataMgr, WindowCorrect, PTL
<1>2. PairInv /\ DataMgrInv' /\ [Next]_vars => PairInv'
  BY PairNext
<1> QED BY <1>1, <1>2, PairInit, PTL DEF Spec

(* Written one after the other from separate copies of the list and the window,
   the two programs hold the same rows: same ids and rooms in the same order,
   same readings in the same places of the window, same time stamps. *)
THEOREM TwinsHoldSameRows == Spec => []SameRows
<1>1. PairInv => SameRows
  BY DEF PairInv, TwinInv, SameRows
<1> QED BY <1>1, PairInvariance, PTL

(* Beside the other program too, what the gateway logs fits the readings. *)
THEOREM TwinVerdictsFit == Spec => []AlarmsJustified
BY ImplementsDataMgr, VerdictsFit, PTL

-----------------------------------------------------------------------------
(* The two averages. *)

LEMMA MulMono ==
  ASSUME NEW m \in Nat, NEW a \in Int, NEW b \in Int, a <= b
  PROVE  m * a \in Int /\ m * b \in Int /\ m * a <= m * b
<1>1. b - a \in Nat /\ m * (b - a) >= 0
  OBVIOUS
<1>2. m * b = m * a + m * (b - a)
  OBVIOUS
<1>3. m * a \in Int /\ m * b \in Int /\ m * (b - a) \in Int
  OBVIOUS
<1> QED BY <1>1, <1>2, <1>3

(* Both add up the same values, and the file data manager divides by their
   number. *)
LEMMA AlikeSums ==
  ASSUME NEW old \in [Places -> Int], NEW now \in [Places -> Int],
         \A p \in Places : Alike(old[p], now[p])
  PROVE  /\ FSum(old) = Total(now) /\ Total(now) \in Int
         /\ FValid(old) = Cardinality({p \in Places : Physical(now[p])})
         /\ FValid(old) \in 0..Window
         /\ FValid(old) = 0 => Total(now) = 0
<1> DEFINE P == {p \in Places : Physical(now[p])}
           h == Contribution(now)
<1>1. IsFiniteSet(Places) /\ Cardinality(Places) = Window
  BY FS_Interval DEF Places
<1>2. \A p \in Places : /\ Physical(old[p]) <=> Physical(now[p])
                        /\ Physical(now[p]) => old[p] = now[p]
  BY DEF Alike, Physical, FEmpty, Empty
<1>3. Contribution(old) = h
  BY <1>2 DEF Contribution
<1>4. FSum(old) = Total(old)
  BY DEF FSum, Total, Physical
<1>5. h \in [Places -> Int] /\ Total(now) = Sigma(h)[Places] /\ Total(old) = Sigma(h)[Places]
  BY <1>1, <1>3, TotalIsSum
<1>6. Sigma(h)[Places] \in Int
  <2> HIDE DEF h
  <2>1. Sigma(h) \in [SUBSET Places -> Int]
    BY <1>1, <1>5, SigmaType
  <2> QED BY <2>1
<1>7. {p \in Places : old[p] > -275} = P
  BY <1>2 DEF Physical
<1>8. FValid(old) = Cardinality(P)
  BY <1>7 DEF FValid
<1>9. Cardinality(P) \in 0..Window
  <2>1. IsFiniteSet(P) /\ Cardinality(P) <= Window
    BY <1>1, FS_Subset
  <2>2. Cardinality(P) \in Nat
    BY <2>1, FS_CardinalityType
  <2> QED BY <2>1, <2>2
<1>10. ASSUME Cardinality(P) = 0 PROVE Total(now) = 0
  <2>1. P = {}
    BY <1>1, <1>10, FS_Subset, FS_EmptySet
  <2>2. \A x \in Places : h[x] = 0
    BY <2>1 DEF Contribution
  <2> HIDE DEF h
  <2>3. \A x \in Places : h[x] <= 0 /\ h[x] >= 0
    BY <2>2
  <2>4. Sigma(h)[Places] <= 0 * Cardinality(Places) /\ Sigma(h)[Places] >= 0 * Cardinality(Places)
    BY <1>1, <1>5, <2>3, SigmaBounds
  <2> QED BY <1>1, <1>5, <1>6, <2>4
<1> HIDE DEF h, P
<1> QED BY <1>4, <1>5, <1>6, <1>8, <1>9, <1>10 DEF P

(* How the two verdicts about one sum are related. *)
LEMMA VerdictsOfSum ==
  ASSUME NEW old \in [Places -> Int], NEW now \in [Places -> Int],
         \A p \in Places : Alike(old[p], now[p])
  PROVE  /\ Judge(now) = "hot" => FVerdict(old) = "hot"
         /\ FVerdict(old) = "cold" => Judge(now) = "cold"
         /\ FValid(old) = Window => Judge(now) = FVerdict(old)
<1> USE LimitsAssumption
<1> DEFINE T == Total(now)
           n == FValid(old)
<1>1. T \in Int /\ n \in 0..Window /\ FSum(old) = T /\ (n = 0 => T = 0)
  BY AlikeSums
<1> HIDE DEF T, n
<1>2. /\ Judge(now) = IF T > MaxTemp * Window THEN "hot"
                      ELSE IF T < MinTemp * Window THEN "cold" ELSE "none"
      /\ FVerdict(old) = IF n > 0 /\ T > MaxTemp * n THEN "hot"
                         ELSE IF n > 0 /\ T < MinTemp * n THEN "cold" ELSE "none"
  BY <1>1 DEF Judge, FVerdict, T, n
<1>3. MaxTemp * n <= MaxTemp * Window /\ MaxTemp * n \in Int /\ MaxTemp * Window \in Int
  BY <1>1, MulMono
<1>4. MinTemp * n <= MinTemp * Window /\ MinTemp * n \in Int /\ MinTemp * Window \in Int
  BY <1>1, MulMono
<1>5. MinTemp * Window <= MaxTemp * Window
  <2>1. Window * MinTemp <= Window * MaxTemp
    BY MulMono
  <2>2. Window * MinTemp = MinTemp * Window /\ Window * MaxTemp = MaxTemp * Window
    OBVIOUS
  <2> QED BY <2>1, <2>2
<1>6. 0 <= MaxTemp * Window
  OBVIOUS
<1> DEFINE a == MaxTemp * n
           b == MaxTemp * Window
           c == MinTemp * n
           d == MinTemp * Window
<1>7. /\ Judge(now) = IF T > b THEN "hot" ELSE IF T < d THEN "cold" ELSE "none"
      /\ FVerdict(old) = IF n > 0 /\ T > a THEN "hot"
                         ELSE IF n > 0 /\ T < c THEN "cold" ELSE "none"
      /\ a \in Int /\ b \in Int /\ c \in Int /\ d \in Int
      /\ a <= b /\ c <= d /\ d <= b /\ 0 <= b
  BY <1>2, <1>3, <1>4, <1>5, <1>6
<1>8. n = Window => a = b /\ c = d
  OBVIOUS
<1> HIDE DEF a, b, c, d
<1>9. Judge(now) = "hot" => FVerdict(old) = "hot"
  BY <1>1, <1>7
<1>10. FVerdict(old) = "cold" => Judge(now) = "cold"
  BY <1>1, <1>7
<1>11. n = Window => Judge(now) = FVerdict(old)
  BY <1>1, <1>7, <1>8
<1> QED BY <1>9, <1>10, <1>11 DEF n

LEMMA PairVerdicts == PairInv => VerdictsRelated
<1> SUFFICES ASSUME PairInv, phase = "run", fphase \in {"run", "loaded"},
                    NEW r \in DOMAIN sensors
             PROVE  LET now == Judge(sensors[r].ring)
                        old == FVerdict(table[r].running_avg)
                    IN  /\ now = "hot" => old = "hot"
                        /\ old = "cold" => now = "cold"
                        /\ FValid(table[r].running_avg) = Window => now = old
  BY DEF VerdictsRelated
<1>1. sensors \in Seq(Row) /\ table \in Seq(FRow) /\ RowsAlike
  BY DEF PairInv, DataMgrInv, TypeOK, FTypeOK, TwinInv
<1>2. sensors[r] \in Row /\ table[r] \in FRow /\ r \in DOMAIN table
  BY <1>1 DEF RowsAlike
<1> DEFINE now == sensors[r].ring
           old == table[r].running_avg
<1>3. now \in [Places -> Int] /\ old \in [Places -> Int]
  <2>1. now \in [Places -> Values \cup {Empty}] /\ old \in [Places -> Values \cup {FEmpty}]
    BY <1>2 DEF Row, FRow
  <2>2. Values \cup {Empty} \subseteq Int /\ Values \cup {FEmpty} \subseteq Int
    BY DEF Empty, FEmpty
  <2> HIDE DEF now, old
  <2> QED BY <2>1, <2>2
<1>4. \A p \in Places : Alike(old[p], now[p])
  BY <1>1, <1>2 DEF RowsAlike
<1> HIDE DEF now, old
<1>5. /\ Judge(now) = "hot" => FVerdict(old) = "hot"
      /\ FVerdict(old) = "cold" => Judge(now) = "cold"
      /\ FValid(old) = Window => Judge(now) = FVerdict(old)
  BY <1>3, <1>4, VerdictsOfSum
<1> QED BY <1>5 DEF now, old

(* The gateway divides by the length of the window, the file data manager by
   the number of values that count.  So the gateway never says too hot where
   the other would not, says too cold wherever the other would, and they agree
   on a full window: for limits that are not negative, as these are. *)
THEOREM TwinVerdictsRelated == Spec => []VerdictsRelated
BY PairVerdicts, PairInvariance, PTL

-----------------------------------------------------------------------------
(* The average of the latest readings. *)

(* Equal terms, equal sums, whatever the terms are numbered by. *)
LEMMA SigmaReindex ==
  ASSUME NEW S, IsFiniteSet(S), NEW h \in [S -> Int], NEW s \in SUBSET S,
         NEW T, IsFiniteSet(T), NEW k \in [T -> Int],
         NEW f, \A x \in s : f[x] \in T /\ k[f[x]] = h[x],
         \A x, y \in s : f[x] = f[y] => x = y
  PROVE  Sigma(k)[{f[x] : x \in s}] = Sigma(h)[s]
<1> DEFINE Im(u) == {f[x] : x \in u}
           G == {u \in SUBSET s : Sigma(k)[Im(u)] = Sigma(h)[u]}
<1>1. Sigma(k)[{}] = 0 /\ Sigma(h)[{}] = 0
  BY SigmaType
<1>2. ASSUME NEW u \in SUBSET s, \A t \in SUBSET u : t # u => t \in G PROVE u \in G
  <2>1. CASE u = {}
    <3>1. Im(u) = {}
      BY <2>1
    <3> HIDE DEF Im
    <3> QED BY <1>1, <2>1, <3>1
  <2>2. CASE u # {}
    <3>1. PICK x \in u : TRUE
      BY <2>2
    <3> DEFINE v == u \ {x}
    <3>2. v \in G /\ x \in s
      BY <1>2
    <3>3. Im(u) \in SUBSET T /\ f[x] \in Im(u) /\ Im(u) \ {f[x]} = Im(v)
      OBVIOUS
    <3>4. Sigma(h)[u] = h[x] + Sigma(h)[v]
      BY SigmaStep
    <3> HIDE DEF v, Im
    <3>5. Sigma(k)[Im(u)] = k[f[x]] + Sigma(k)[Im(v)]
      BY <3>3, SigmaStep
    <3>6. Sigma(k)[Im(v)] = Sigma(h)[v] /\ k[f[x]] = h[x]
      BY <3>2
    <3> QED BY <3>4, <3>5, <3>6
  <2> QED BY <2>1, <2>2
<1>3. IsFiniteSet(s)
  BY FS_Subset
<1>4. SUBSET s \subseteq G
  <2> HIDE DEF G
  <2> QED BY <1>2, <1>3, SubsetInduct
<1> QED BY <1>4

(* The sum of the values that count, split into the limit times their number
   and their distances from the limit. *)
LEMMA SumAroundLimit ==
  ASSUME NEW S, IsFiniteSet(S), NEW ring \in [S -> Int], NEW limit \in Int
  PROVE  LET P == {x \in S : Physical(ring[x])}
             d == [x \in S |-> ring[x] - limit]
         IN  /\ Sigma(d)[P] \in Int /\ limit * Cardinality(P) \in Int
             /\ Total(ring) = Sigma(d)[P] + limit * Cardinality(P)
<1> DEFINE P == {x \in S : Physical(ring[x])}
           d == [x \in S |-> ring[x] - limit]
           h == Contribution(ring)
           G == {s \in SUBSET S : Sigma(h)[s] = Sigma(d)[s \cap P] + limit * Cardinality(s \cap P)}
<1>0. /\ \A x \in S : h[x] = IF x \in P THEN ring[x] ELSE 0
      /\ \A x \in S : ring[x] \in Int /\ d[x] = ring[x] - limit
      /\ d \in [S -> Int] /\ P \in SUBSET S
  BY DEF Contribution
<1>1. h \in [S -> Int] /\ Total(ring) = Sigma(h)[S]
  BY TotalIsSum
<1> HIDE DEF h, d, P
<1>2. /\ Sigma(h) \in [SUBSET S -> Int] /\ Sigma(h)[{}] = 0
      /\ Sigma(d) \in [SUBSET S -> Int] /\ Sigma(d)[{}] = 0
  BY <1>0, <1>1, SigmaType
<1>3. \A s \in SUBSET S : /\ IsFiniteSet(s \cap P) /\ Cardinality(s \cap P) \in Nat
                          /\ limit * Cardinality(s \cap P) \in Int
  <2> SUFFICES ASSUME NEW s \in SUBSET S
               PROVE  /\ IsFiniteSet(s \cap P) /\ Cardinality(s \cap P) \in Nat
                      /\ limit * Cardinality(s \cap P) \in Int
    OBVIOUS
  <2>1. IsFiniteSet(s \cap P) /\ Cardinality(s \cap P) \in Nat
    BY FS_Subset, FS_CardinalityType
  <2> QED BY <2>1
<1>4. ASSUME NEW s \in SUBSET S, \A t \in SUBSET s : t # s => t \in G PROVE s \in G
  <2>1. CASE s = {}
    <3>1. s \cap P = {} /\ Cardinality(s \cap P) = 0
      BY <2>1, FS_EmptySet
    <3> QED BY <1>2, <2>1, <3>1
  <2>2. CASE s # {}
    <3>1. PICK x \in s : TRUE
      BY <2>2
    <3> DEFINE t == s \ {x}
               a == limit * Cardinality(s \cap P)
               b == limit * Cardinality(t \cap P)
    <3>2. t \in G /\ t \in SUBSET S /\ x \in S
      BY <1>4
    <3>3. Sigma(h)[s] = h[x] + Sigma(h)[t]
      BY <1>1, SigmaStep
    <3>4. Sigma(h)[t] = Sigma(d)[t \cap P] + b
      BY <3>2
    <3>5. Sigma(d)[s \cap P] \in Int /\ Sigma(d)[t \cap P] \in Int
      BY <1>2
    <3>6. a \in Int /\ b \in Int
      BY <1>3, <3>2
    <3>7. CASE x \in P
      <4>1. t \cap P = (s \cap P) \ {x} /\ x \in s \cap P /\ s \cap P \in SUBSET S
        BY <3>7
      <4>2. Sigma(d)[s \cap P] = d[x] + Sigma(d)[t \cap P]
        BY <1>0, <4>1, SigmaStep
      <4>3. Cardinality(t \cap P) = Cardinality(s \cap P) - 1
        <5>1. IsFiniteSet(s \cap P)
          BY <1>3
        <5>2. Cardinality((s \cap P) \ {x}) = Cardinality(s \cap P) - 1
          BY <4>1, <5>1, FS_RemoveElement
        <5> QED BY <4>1, <5>2
      <4>4. a = limit + b
        <5> DEFINE m == Cardinality(s \cap P)
                   n == Cardinality(t \cap P)
        <5>1. m \in Nat /\ n = m - 1 /\ a = limit * m /\ b = limit * n
          BY <1>3, <4>3
        <5> HIDE DEF m, n, a, b
        <5>2. limit * m = limit + limit * (m - 1)
          BY <5>1
        <5> QED BY <5>1, <5>2
      <4>5. h[x] = ring[x] /\ d[x] = ring[x] - limit /\ ring[x] \in Int
        BY <1>0, <3>2, <3>7
      <4> HIDE DEF a, b, t
      <4>6. Sigma(h)[s] = Sigma(d)[s \cap P] + a
        BY <3>3, <3>4, <3>5, <3>6, <4>2, <4>4, <4>5
      <4> QED BY <4>6 DEF a
    <3>8. CASE x \notin P
      <4>1. t \cap P = s \cap P
        BY <3>8
      <4>2. h[x] = 0
        BY <1>0, <3>2, <3>8
      <4>3. Sigma(h)[s] = Sigma(d)[s \cap P] + a
        <5>1. a = b /\ Sigma(d)[t \cap P] = Sigma(d)[s \cap P]
          BY <4>1
        <5> HIDE DEF t, a, b
        <5> QED BY <3>3, <3>4, <3>5, <3>6, <4>2, <5>1
      <4> QED BY <4>3
    <3> QED BY <3>7, <3>8
  <2> QED BY <2>1, <2>2
<1>5. SUBSET S \subseteq G
  <2> HIDE DEF G
  <2> QED BY <1>4, SubsetInduct
<1>6. S \cap P = P
  BY <1>0
<1>7. Total(ring) = Sigma(d)[P] + limit * Cardinality(P)
  BY <1>1, <1>5, <1>6
<1>8. Sigma(d)[P] \in Int /\ limit * Cardinality(P) \in Int
  BY <1>0, <1>2, <1>3, <1>6
<1> QED BY <1>7, <1>8 DEF P, d

(* Average is the sum of the distances of the latest readings from the limit. *)
LEMMA AverageIsSum ==
  ASSUME NEW id, IsFiniteSet(Counted(id)), NEW limit \in Int,
         \A j \in Counted(id) : seen[id][j] \in Int
  PROVE  LET k == [j \in Counted(id) |-> seen[id][j] - limit]
         IN  k \in [Counted(id) -> Int] /\ Average(id, limit) = Sigma(k)[Counted(id)]
<1> DEFINE S == Counted(id)
           L == Latest(id)
           k == [j \in S |-> seen[id][j] - limit]
           U(g) == [s \in SUBSET S |->
                      IF s = {} THEN 0 ELSE (L[Pick(s)] - limit) + g[s \ {Pick(s)}]]
           c == CHOOSE g : g = U(g)
<1>1. DOMAIN L = S /\ k \in [S -> Int] /\ \A j \in S : k[j] = L[j] - limit
  BY DEF Latest
<1>2. Average(id, limit) = c[S]
  <2> HIDE DEF L, S
  <2>1. FoldFunction(LAMBDA v, s : v - limit + s, 0, L) = c[S]
    BY <1>1 DEF FoldFunction, FoldFunctionOnSet, MapThenFoldSet, Pick
  <2> QED BY <2>1 DEF Average, L
<1> DEFINE z == [s \in SUBSET S |-> Sigma(k)[s]]
<1> HIDE DEF k, L
<1>3. Sigma(k) \in [SUBSET S -> Int] /\ Sums(k, Sigma(k)) /\ DOMAIN k = S
  BY <1>1, SigmaType
<1>4. \A s \in SUBSET S : s # {} => Pick(s) \in S /\ s \ {Pick(s)} \in SUBSET S
  BY PickIn
<1> HIDE DEF S
<1>5. z = U(z)
  <2>1. \A s \in SUBSET S : z[s] = U(z)[s]
    BY <1>1, <1>3, <1>4 DEF Sums
  <2> QED BY <2>1
<1>6. c = U(c)
  <2> HIDE DEF U, z
  <2> QED BY <1>5
<1> HIDE DEF c, z
<1> DEFINE G == {s \in SUBSET S : c[s] = z[s]}
<1>7. ASSUME NEW s \in SUBSET S, \A t \in SUBSET s : t # s => t \in G PROVE s \in G
  <2>1. c[s] = U(c)[s] /\ z[s] = U(z)[s]
    BY <1>5, <1>6
  <2>2. CASE s = {}
    BY <2>1, <2>2
  <2>3. CASE s # {}
    <3>1. c[s \ {Pick(s)}] = z[s \ {Pick(s)}]
      BY <1>7, <2>3, PickIn
    <3> QED BY <2>1, <2>3, <3>1
  <2> QED BY <2>2, <2>3
<1>8. SUBSET S \subseteq G
  <2> HIDE DEF G
  <2>1. IsFiniteSet(S)
    BY DEF S
  <2> QED BY <1>7, <2>1, SubsetInduct
<1>9. Average(id, limit) = Sigma(k)[S]
  BY <1>2, <1>8 DEF z
<1> QED BY <1>1, <1>9 DEF S, k

(* The places of the window that count are the latest readings that count, one
   place for each. *)
LEMMA PlacesAreReadings ==
  ASSUME TypeOK, RingHoldsLatest, NEW r \in DOMAIN sensors, IsFirst(r)
  PROVE  LET row == sensors[r]
             h == seen[row.id]
             P == {p \in Places : Physical(row.ring[p])}
         IN  \E f \in [Places -> Int] :
               /\ Counted(row.id) = {f[p] : p \in P}
               /\ \A p \in P : h[f[p]] = row.ring[p]
               /\ \A p, q \in P : f[p] = f[q] => p = q
<1> DEFINE row == sensors[r]
           id  == row.id
           h   == seen[id]
           n   == Len(h)
           P   == {p \in Places : Physical(row.ring[p])}
           f   == [p \in Places |->
                     n - (IF p <= row.last THEN row.last - p ELSE row.last - p + Window)]
<1>1. row.last \in Places /\ id \in Ids
  <2>1. row \in Row
    BY DEF TypeOK
  <2> QED BY <2>1, RowFields
<1>2. h \in Seq(Values) /\ n \in Nat /\ DOMAIN h = 1..n
  <2>1. h \in Seq(Values)
    BY <1>1 DEF TypeOK
  <2> HIDE DEF h
  <2> QED BY <2>1
<1>3. \A j \in Places : row.ring[Back(row.last, j)] = IF j < n THEN h[n - j] ELSE Empty
  BY DEF RingHoldsLatest, Stored
<1> DEFINE last == row.last
           ring == row.ring
<1> HIDE DEF n, h
<1>4. ASSUME NEW p \in Places
      PROVE  n - f[p] \in Places /\ f[p] \in Int /\ p = Back(last, n - f[p])
  BY SMTT(30), <1>1, <1>2 DEF Places, Back
<1>5. f \in [Places -> Int]
  BY <1>4
<1>6. ASSUME NEW j \in Places
      PROVE  f[Back(last, j)] = n - j
  BY <1>1, <1>2 DEF Places, Back
<1> HIDE DEF f, ring, last
<1>7. ASSUME NEW p \in P
      PROVE  f[p] \in Counted(id) /\ h[f[p]] = ring[p]
  <2> DEFINE j == n - f[p]
  <2>1. j \in Places /\ p = Back(last, j) /\ f[p] \in Int /\ f[p] = n - j
    BY <1>2, <1>4
  <2> HIDE DEF j
  <2>2. ring[p] = IF j < n THEN h[n - j] ELSE Empty
    BY <1>3, <2>1 DEF ring, last
  <2>3. Physical(ring[p])
    BY DEF ring
  <2>4. j < n
    BY <2>2, <2>3 DEF Physical, Empty
  <2>5. f[p] \in 1..n /\ f[p] > n - Window
    BY <1>2, <2>1, <2>4 DEF Places
  <2> QED BY <1>2, <2>1, <2>2, <2>3, <2>4, <2>5 DEF Counted, h, n
<1>8. ASSUME NEW k \in Counted(id)
      PROVE  \E p \in P : k = f[p]
  <2>1. k \in 1..n /\ k > n - Window /\ Physical(h[k])
    BY <1>2 DEF Counted, h, n
  <2>2. n - k \in Places /\ n - k < n /\ n - (n - k) = k
    BY <1>2, <2>1 DEF Places
  <2>3. ring[Back(last, n - k)] = h[k] /\ f[Back(last, n - k)] = k
    BY <1>3, <1>6, <2>2 DEF ring, last
  <2>4. Back(last, n - k) \in Places
    BY <1>1, <2>2, BackInPlaces DEF last
  <2> QED BY <2>1, <2>3, <2>4 DEF ring
<1>9. \A p, q \in P : f[p] = f[q] => p = q
  BY <1>4
<1>10. Counted(id) = {f[p] : p \in P} /\ \A p \in P : h[f[p]] = row.ring[p]
  BY <1>7, <1>8 DEF ring
<1> QED BY <1>5, <1>9, <1>10 DEF h

(* What datamgr_get_avg computes from the window is the average of the latest
   readings of the id. *)
LEMMA AverageOfWindow ==
  ASSUME TypeOK, RingHoldsLatest, NEW r \in DOMAIN sensors, IsFirst(r), NEW limit \in Int
  PROVE  LET ring == sensors[r].ring
             n == Cardinality({p \in Places : Physical(ring[p])})
         IN  Average(sensors[r].id, limit) = Total(ring) - limit * n
<1> DEFINE id   == sensors[r].id
           ring == sensors[r].ring
           P    == {p \in Places : Physical(ring[p])}
           T    == Counted(id)
           k    == [j \in T |-> seen[id][j] - limit]
           d    == [p \in Places |-> ring[p] - limit]
<1>1. sensors[r] \in Row
  BY DEF TypeOK
<1>2. ring \in [Places -> Int] /\ id \in Ids
  <2>1. ring \in [Places -> Values \cup {Empty}] /\ id \in Ids
    BY <1>1, RowFields
  <2>2. Values \cup {Empty} \subseteq Int
    BY DEF Empty
  <2> HIDE DEF ring
  <2> QED BY <2>1, <2>2
<1>3. seen[id] \in Seq(Values) /\ Len(seen[id]) \in Nat /\ DOMAIN seen[id] = 1..Len(seen[id])
  <2>1. seen[id] \in Seq(Values)
    BY <1>2 DEF TypeOK
  <2> QED BY <2>1
<1>4. IsFiniteSet(T) /\ \A j \in T : seen[id][j] \in Int
  <2>1. T \in SUBSET (1..Len(seen[id]))
    BY <1>3 DEF Counted
  <2> HIDE DEF T
  <2>2. IsFiniteSet(T)
    <3>1. \A n \in Nat : IsFiniteSet(1..n)
      BY FS_Interval
    <3> QED BY <1>3, <2>1, <3>1, FS_Subset
  <2>3. \A j \in T : seen[id][j] \in Values
    <3> HIDE DEF id
    <3> QED BY <1>3, <2>1
  <2> QED BY <2>2, <2>3
<1>5. PICK f \in [Places -> Int] :
        /\ T = {f[p] : p \in P}
        /\ \A p \in P : seen[id][f[p]] = ring[p]
        /\ \A p, q \in P : f[p] = f[q] => p = q
  BY PlacesAreReadings
<1>6. k \in [T -> Int] /\ Average(id, limit) = Sigma(k)[T]
  BY <1>4, AverageIsSum
<1>7. IsFiniteSet(Places) /\ P \in SUBSET Places
  BY FS_Interval DEF Places
<1>8. /\ Sigma(d)[P] \in Int /\ limit * Cardinality(P) \in Int
      /\ Total(ring) = Sigma(d)[P] + limit * Cardinality(P)
  BY <1>2, <1>7, SumAroundLimit
<1>9. d \in [Places -> Int] /\ \A p \in P : f[p] \in T /\ k[f[p]] = d[p]
  BY <1>2, <1>5
<1> HIDE DEF d, k, T, P
<1>10. Sigma(k)[{f[p] : p \in P}] = Sigma(d)[P]
  <2>1. /\ IsFiniteSet(Places) /\ d \in [Places -> Int] /\ P \in SUBSET Places
        /\ IsFiniteSet(T) /\ k \in [T -> Int]
    BY <1>4, <1>6, <1>7, <1>9
  <2>2. /\ \A x \in P : f[x] \in T /\ k[f[x]] = d[x]
        /\ \A x, y \in P : f[x] = f[y] => x = y
    BY <1>5, <1>9
  <2> QED BY ONLY <2>1, <2>2, SigmaReindex
<1>11. Sigma(k)[T] = Sigma(d)[P]
  BY <1>5, <1>10
<1>12. Total(ring) - limit * Cardinality(P) = Sigma(d)[P]
  <2> DEFINE a == limit * Cardinality(P)
             b == Sigma(d)[P]
             c == Total(ring)
  <2>1. a \in Int /\ b \in Int /\ c = b + a
    BY <1>8
  <2> HIDE DEF a, b, c
  <2>2. c - a = b
    BY <2>1
  <2> QED BY <2>2 DEF a, b, c
<1> QED BY <1>6, <1>11, <1>12 DEF P

-----------------------------------------------------------------------------
(* The queries. *)

(* What the last verdict of the file data manager says of the readings. *)
LEMMA VerdictIsAverage ==
  ASSUME PairInv, phase = "run", NEW r \in DOMAIN sensors, IsFirst(r)
  PROVE  FVerdict(table[r].running_avg) = AverageSays(sensors[r].id)
<1> USE LimitsAssumption
<1> DEFINE id  == sensors[r].id
           now == sensors[r].ring
           old == table[r].running_avg
           P   == {p \in Places : Physical(now[p])}
           n   == Cardinality(P)
           T   == Total(now)
<1>1. /\ sensors \in Seq(Row) /\ table \in Seq(FRow) /\ RowsAlike
      /\ TypeOK /\ RingHoldsLatest
  BY DEF PairInv, DataMgrInv, TypeOK, FTypeOK, TwinInv
<1>2. sensors[r] \in Row /\ table[r] \in FRow /\ r \in DOMAIN table
  BY <1>1 DEF RowsAlike
<1>3. now \in [Places -> Int] /\ old \in [Places -> Int]
  <2>1. now \in [Places -> Values \cup {Empty}] /\ old \in [Places -> Values \cup {FEmpty}]
    BY <1>2 DEF Row, FRow
  <2>2. Values \cup {Empty} \subseteq Int /\ Values \cup {FEmpty} \subseteq Int
    BY DEF Empty, FEmpty
  <2> HIDE DEF now, old
  <2> QED BY <2>1, <2>2
<1>4. \A p \in Places : Alike(old[p], now[p])
  BY <1>1, <1>2 DEF RowsAlike
<1>5. FSum(old) = T /\ T \in Int /\ FValid(old) = n /\ n \in 0..Window /\ (n = 0 => T = 0)
  <2> HIDE DEF old, now
  <2>1. /\ FSum(old) = T /\ T \in Int /\ FValid(old) = n
        /\ FValid(old) \in 0..Window /\ (FValid(old) = 0 => T = 0)
    BY <1>3, <1>4, AlikeSums
  <2> HIDE DEF T, n
  <2> QED BY <2>1
<1>6. Average(id, MaxTemp) = T - MaxTemp * n /\ Average(id, MinTemp) = T - MinTemp * n
  <2>1. MaxTemp \in Int /\ MinTemp \in Int
    OBVIOUS
  <2> QED BY <1>1, <2>1, AverageOfWindow
<1> HIDE DEF T, n, now, id
<1>7. FVerdict(old) = IF n > 0 /\ T > MaxTemp * n THEN "hot"
                      ELSE IF n > 0 /\ T < MinTemp * n THEN "cold" ELSE "none"
  BY <1>5 DEF FVerdict
<1>8. MaxTemp * n \in Int /\ MinTemp * n \in Int
      /\ (n = 0 => MaxTemp * n = 0 /\ MinTemp * n = 0)
  BY <1>5
<1> HIDE DEF old
<1> DEFINE a == MaxTemp * n
           b == MinTemp * n
<1>9. /\ FVerdict(old) = IF n > 0 /\ T > a THEN "hot"
                         ELSE IF n > 0 /\ T < b THEN "cold" ELSE "none"
      /\ a \in Int /\ b \in Int /\ (n = 0 => a = 0 /\ b = 0)
      /\ Average(id, MaxTemp) = T - a /\ Average(id, MinTemp) = T - b
  BY <1>6, <1>7, <1>8
<1> HIDE DEF a, b
<1>10. FVerdict(old) = AverageSays(id)
  BY <1>5, <1>9 DEF AverageSays
<1> QED BY <1>10 DEF old, id

(* The ids of a map without repetitions are as many as its lines. *)
LEMMA IdsCounted ==
  ASSUME lines \in Seq(Rooms \X Ids), UniqueIds
  PROVE  Len(lines) = Cardinality({lines[k][2] : k \in DOMAIN lines})
<1> DEFINE D == DOMAIN lines
           S == {lines[k][2] : k \in D}
           f == [k \in D |-> lines[k][2]]
<1>1. D = 1..Len(lines) /\ Len(lines) \in Nat
  OBVIOUS
<1>2. IsFiniteSet(D) /\ Cardinality(D) = Len(lines)
  <2>1. /\ IsFiniteSet(1..Len(lines))
        /\ Cardinality(1..Len(lines)) = IF 1 > Len(lines) THEN 0 ELSE Len(lines) - 1 + 1
    BY <1>1, FS_Interval
  <2> QED BY <1>1, <2>1
<1>3. f \in Surjection(D, S) /\ f \in Injection(D, S)
  <2>1. f \in [D -> S] /\ \A y \in S : \E k \in D : f[k] = y
    OBVIOUS
  <2>2. \A j, k \in D : f[j] = f[k] => j = k
    BY DEF UniqueIds
  <2> HIDE DEF D, S, f
  <2> QED BY <2>1, <2>2 DEF Surjection, Injection, IsInjective
<1> HIDE DEF D, S, f
<1>4. Cardinality(S) = Cardinality(D)
  BY <1>2, <1>3, FS_Surjection
<1> QED BY <1>2, <1>4 DEF D, S

(* What the queries about an id of the map do while the file data manager is
   loaded. *)
LEMMA AnswerFits ==
  ASSUME PairInv, fphase = "loaded", NEW id \in Ids, Ask(id), LinesOf(id) # {}
  PROVE  /\ fphase' = "loaded"
         /\ \/ answer' = <<"room", id, RoomOf(id)>>
            \/ answer' = <<"modified", id, heard[id]>>
            \/ answer' = <<"avg", id, AverageSays(id)>>
            \/ answer' = <<"total", id, Len(lines)>>
<1> DEFINE of == LinesOf(id)
<1>1. /\ phase = "run" /\ sensors \in Seq(Row) /\ table \in Seq(FRow) /\ RowsAlike
      /\ lines \in Seq(Rooms \X Ids) /\ Len(lines) = Len(sensors)
      /\ \A k \in DOMAIN lines : lines[k] = <<sensors[k].room, sensors[k].id>>
      /\ Len(table) = Len(sensors)
  BY DEF PairInv, DataMgrInv, TypeOK, FTypeOK, TwinInv, RowsAreLines, RowsAlike
<1>2. /\ DOMAIN sensors = 1..Len(sensors) /\ DOMAIN table = DOMAIN sensors
      /\ DOMAIN lines = DOMAIN sensors /\ Len(sensors) \in Nat
      /\ \A k \in DOMAIN sensors :
           /\ lines[k][1] = sensors[k].room /\ lines[k][2] = sensors[k].id
           /\ table[k].id = sensors[k].id /\ table[k].room = sensors[k].room
           /\ table[k].modified = sensors[k].modified
  BY <1>1 DEF RowsAlike
<1>3. of = {k \in DOMAIN sensors : sensors[k].id = id}
  BY <1>2 DEF LinesOf
<1>4. PICK r \in DOMAIN sensors : sensors[r].id = id /\ IsFirst(r)
  <2>1. Holds(id)
    BY <1>3 DEF Holds
  <2> QED BY <1>1, <2>1, FirstExists
<1>5. \A q \in 1..(r - 1) : q \in DOMAIN sensors /\ table[q].id # table[r].id
  BY <1>2, <1>4 DEF IsFirst
<1>6. table[r].id = id /\ r \in DOMAIN table /\ r \in 1..Len(table)
  BY <1>1, <1>2, <1>4
<1>7. FIndexOf(id) = r - 1 /\ FIndexOf(id) # -1
  <2>1. FIndexOf(id) = r - 1
    BY <1>1, <1>5, <1>6, FIndexOfFirst
  <2> QED BY <1>6, <2>1
<1>8. FAt(table, FIndexOf(id)) = table[r] /\ ~ FEndless(id)
  <2>1. FAt(table, r - 1) = table[r]
    BY <1>1, <1>2, <1>6 DEF FAt
  <2>2. FHolds(id)
    BY <1>6 DEF FHolds
  <2> QED BY <1>7, <2>1, <2>2 DEF FEndless
<1> HIDE DEF of
<1>9. RoomOf(id) = table[r].room
  <2>1. r \in of /\ of \subseteq 1..Len(sensors)
    BY <1>2, <1>3, <1>4
  <2>2. \A q \in of : ~ (q < r)
    <3>1. \A q \in 1..(r - 1) : q \notin of
      BY <1>2, <1>3, <1>5, <1>6
    <3> QED BY <1>2, <1>6, <2>1, <3>1
  <2>3. \A q \in of : r <= q
    BY <1>2, <2>1, <2>2
  <2>4. \A k \in of : (\A q \in of : k <= q) => k = r
    BY <1>2, <2>1, <2>3
  <2>5. (CHOOSE k \in of : \A q \in of : k <= q) = r
    BY <2>1, <2>3, <2>4
  <2> QED BY <1>2, <1>4, <2>5 DEF RoomOf, of
<1>10. table[r].modified = heard[id]
  BY <1>1, <1>2, <1>4 DEF PairInv, HeardInv
<1>11. FVerdict(table[r].running_avg) = AverageSays(id)
  BY <1>1, <1>4, VerdictIsAverage
<1>12. /\ fphase' = fphase
       /\ \/ answer' = <<"room", id, table[r].room>>
          \/ answer' = <<"modified", id, table[r].modified>>
          \/ answer' = <<"avg", id, FVerdict(table[r].running_avg)>>
          \/ answer' = <<"total", id, Len(table)>>
  BY <1>7, <1>8 DEF Ask, GetRoom, GetLastModified, GetAvg, QuerySpins, GetTotal
<1> QED BY <1>1, <1>9, <1>10, <1>11, <1>12

(* The total, asked for with any id, counts the ids of the map. *)
LEMMA TotalFits ==
  ASSUME PairInv, fphase = "loaded", NEW id \in Ids, Ask(id)
  PROVE  /\ answer'[2] = id
         /\ answer'[1] = "total" => answer'[3] = Len(lines)
<1>1. Len(table) = Len(lines)
  BY DEF PairInv, DataMgrInv, TwinInv, RowsAreLines, RowsAlike
<1>2. PICK x : \/ answer' = <<"room", id, x>> \/ answer' = <<"modified", id, x>>
               \/ answer' = <<"avg", id, x>> \/ answer' = <<"spin", id>>
               \/ answer' = <<"total", id, Len(table)>>
  BY DEF Ask, GetRoom, GetLastModified, GetAvg, QuerySpins, GetTotal
<1> QED BY <1>1, <1>2

(* No step but a query changes the answer. *)
LEMMA OnlyQueries ==
  ASSUME Next, answer' # answer
  PROVE  \E id \in Ids : fphase = "loaded" /\ Ask(id)
BY DEF Next, SameMap, SameReading, FMapRoom, FMapJunk, FEndOfMap, FReading, FFree, FNoFile,
       FEndOfFile, Ask

(* A query about an id of the map comes back with the room, the time or the
   average of that id, as plab1/datamgr.h says of full windows; the total counts
   the ids of a map that has each once. *)
THEOREM QueriesAsDocumented == Spec => AnswersAsDocumented
<1> DEFINE Fits ==
      LET id   == answer'[2]
          full == Len(seen[id]) >= Window /\ Counted(id) # {}
      IN  /\ LinesOf(id) # {} =>
               /\ fphase' = "loaded"
               /\ answer'[1] = "room"       => answer'[3] = RoomOf(id)
               /\ answer'[1] = "modified"   => answer'[3] = heard[id]
               /\ answer'[1] = "avg" /\ full => answer'[3] = AverageSays(id)
          /\ answer'[1] = "total" /\ UniqueIds =>
               answer'[3] = Cardinality({lines[k][2] : k \in DOMAIN lines})
<1>1. ASSUME PairInv, Next, answer' # answer PROVE Fits
  <2>1. PICK id \in Ids : fphase = "loaded" /\ Ask(id)
    BY <1>1, OnlyQueries
  <2>2. answer'[2] = id /\ (answer'[1] = "total" => answer'[3] = Len(lines))
    BY <1>1, <2>1, TotalFits
  <2>3. lines \in Seq(Rooms \X Ids)
    BY <1>1 DEF PairInv, DataMgrInv, TypeOK
  <2>4. answer'[1] = "total" /\ UniqueIds =>
          answer'[3] = Cardinality({lines[k][2] : k \in DOMAIN lines})
    BY <2>2, <2>3, IdsCounted
  <2>5. ASSUME LinesOf(id) # {}
        PROVE  /\ fphase' = "loaded"
               /\ answer'[1] = "room"     => answer'[3] = RoomOf(id)
               /\ answer'[1] = "modified" => answer'[3] = heard[id]
               /\ answer'[1] = "avg"      => answer'[3] = AverageSays(id)
    BY <1>1, <2>1, <2>5, AnswerFits
  <2> QED BY <2>2, <2>4, <2>5
<1>2. PairInv /\ [Next]_vars => [answer' # answer => Fits]_vars
  <2> HIDE DEF Fits
  <2> QED BY <1>1
<1> QED BY <1>2, PairInvariance, PTL DEF Spec, AnswersAsDocumented
=============================================================================
