--------------------------- MODULE DataMgr_proofs ---------------------------
(***************************************************************************)
(* The running average of the data manager, for every window length, every *)
(* map and any number of readings: DataMgrInv is inductive, and with it    *)
(* the window of each sensor holds its latest readings.                    *)
(***************************************************************************)
EXTENDS DataMgr, FiniteSetTheorems, TLAPS

USE IdsAssumption, ValuesAssumption, WindowAssumption

-----------------------------------------------------------------------------
(* The places of a window. *)

(* The place written next is a place of the window. *)
LEMMA AdvanceInPlaces ==
  ASSUME NEW p \in Places
  PROVE  Advance(p) \in Places
BY DEF Advance, Places

(* Walking back from a place stays in the window. *)
LEMMA BackInPlaces ==
  ASSUME NEW p \in Places, NEW j \in Places
  PROVE  Back(p, j) \in Places
BY DEF Back, Places

(* One step further on, the same place is one step further back; only the walk
   of length 0 ends at the place just written. *)
LEMMA BackAfterAdvance ==
  ASSUME NEW p \in Places, NEW j \in Places
  PROVE  /\ j = 0 => Back(Advance(p), j) = Advance(p)
         /\ j # 0 => /\ j - 1 \in Places
                     /\ Back(Advance(p), j) = Back(p, j - 1)
                     /\ Back(Advance(p), j) # Advance(p)
BY DEF Back, Advance, Places

-----------------------------------------------------------------------------
(* Inserting a row. *)

(* With an index at or beyond the end the row becomes the last one. *)
LEMMA InsertRowAppends ==
  ASSUME NEW T, NEW s \in Seq(T), NEW row \in T, NEW i \in Nat, Len(s) <= i
  PROVE  /\ InsertRow(s, row, i) \in Seq(T)
         /\ Len(InsertRow(s, row, i)) = Len(s) + 1
         /\ \A k \in 1..Len(s) : InsertRow(s, row, i)[k] = s[k]
         /\ InsertRow(s, row, i)[Len(s) + 1] = row
<1> DEFINE t == [k \in 1..(Len(s) + 1) |-> IF k < Len(s) + 1 THEN s[k] ELSE row]
<1>1. InsertRow(s, row, i) = t
  BY DEF InsertRow
<1>2. \A k \in 1..(Len(s) + 1) : t[k] \in T
  OBVIOUS
<1>3. t \in Seq(T) /\ Len(t) = Len(s) + 1
  BY <1>2
<1>4. \A k \in 1..Len(s) : t[k] = s[k]
  OBVIOUS
<1> QED BY <1>1, <1>3, <1>4

(* A fresh row is a row of empty places. *)
LEMMA NewRowIsRow ==
  ASSUME NEW room \in Rooms, NEW id \in Ids
  PROVE  /\ NewRow(room, id) \in Row
         /\ \A p \in Places : NewRow(room, id).ring[p] = Empty
         /\ NewRow(room, id).id = id /\ NewRow(room, id).room = room
         /\ NewRow(room, id).last = 0
BY DEF NewRow, Row, Places

(* What a row holds. *)
LEMMA RowFields ==
  ASSUME NEW row \in Row
  PROVE  /\ row.id \in Ids /\ row.last \in Places
         /\ row.ring \in [Places -> Values \cup {Empty}]
BY DEF Row

-----------------------------------------------------------------------------
LEMMA InitInv == DataMgrInit => DataMgrInv
BY DEF DataMgrInit, DataMgrInv, TypeOK, ParseInv, RowsAreLines, RingHoldsLatest

(* The steps that leave rows and readings alone. *)
LEMMA QuietStep ==
  ASSUME DataMgrInv, UNCHANGED <<sensors, lines, seen>>,
         index_dpl' \in Nat, index_dpl <= index_dpl', clock' \in Nat,
         phase' \in {"parse", "run", "failed", "spin", "freed"},
         phase' = "parse" => phase = "parse",
         phase \in {"parse", "run"}, 
         judged' \in {<<>>} \cup (Ids \X Verdicts)
  PROVE  DataMgrInv'
<1>1. TypeOK'
  BY DEF DataMgrInv, TypeOK
<1>2. ParseInv'
  BY DEF DataMgrInv, TypeOK, ParseInv
<1>3. RowsAreLines'
  BY DEF DataMgrInv, RowsAreLines
<1>4. RingHoldsLatest'
  BY DEF DataMgrInv, RingHoldsLatest, Stored, IsFirst
<1> QED BY <1>1, <1>2, <1>3, <1>4 DEF DataMgrInv

(* A line of the map adds a row nobody has sent a reading for. *)
LEMMA ParseRoomStep ==
  ASSUME DataMgrInv, NEW room \in Rooms, NEW id \in Ids, ParseRoom(room, id)
  PROVE  DataMgrInv'
<1> DEFINE row == NewRow(room, id)
           n   == Len(sensors)
<1>0. /\ sensors \in Seq(Row) /\ lines \in Seq(Rooms \X Ids) /\ index_dpl \in Nat
      /\ row \in Row /\ n <= index_dpl /\ Len(lines) = n /\ n \in Nat
      /\ phase = "parse" /\ \A i \in Ids : seen[i] = <<>>
  BY NewRowIsRow DEF DataMgrInv, TypeOK, ParseInv, ParseRoom, RowsAreLines
<1>1. /\ sensors' \in Seq(Row) /\ Len(sensors') = n + 1
      /\ \A k \in 1..n : sensors'[k] = sensors[k]
      /\ sensors'[n + 1] = row
  BY <1>0, InsertRowAppends DEF ParseRoom
<1>2. /\ lines' \in Seq(Rooms \X Ids) /\ Len(lines') = n + 1
      /\ \A k \in 1..n : lines'[k] = lines[k]
      /\ lines'[n + 1] = <<room, id>>
  BY <1>0 DEF ParseRoom
<1>3. TypeOK'
  BY <1>0, <1>1, <1>2 DEF DataMgrInv, TypeOK, ParseRoom
<1>4. ParseInv'
  BY <1>0, <1>1 DEF ParseInv, ParseRoom
<1>5. RowsAreLines'
  <2>1. \A k \in 1..(n + 1) : lines'[k] = <<sensors'[k].room, sensors'[k].id>>
    <3>1. \A k \in 1..n : lines[k] = <<sensors[k].room, sensors[k].id>>
      BY <1>0 DEF DataMgrInv, RowsAreLines
    <3>2. \A k \in 1..n : lines'[k] = <<sensors'[k].room, sensors'[k].id>>
      BY <1>1, <1>2, <3>1
    <3>3. lines'[n + 1] = <<sensors'[n + 1].room, sensors'[n + 1].id>>
      BY <1>1, <1>2, NewRowIsRow
    <3>4. \A k \in 1..(n + 1) : k \in 1..n \/ k = n + 1
      BY <1>0
    <3> QED BY <3>2, <3>3, <3>4
  <2> QED BY <2>1, <1>1, <1>2 DEF RowsAreLines
<1>6. RingHoldsLatest'
  <2> SUFFICES ASSUME NEW r \in 1..(n + 1), NEW j \in Places
               PROVE  sensors'[r].ring[Back(sensors'[r].last, j)] =
                        IF j < Len(Stored(r)') THEN Stored(r)'[Len(Stored(r)') - j] ELSE Empty
    BY <1>1 DEF RingHoldsLatest
  <2>1. sensors'[r] \in Row
    BY <1>1
  <2>2. Stored(r)' = <<>>
    BY <2>1, <1>0 DEF Stored, ParseRoom, Row
  <2>3. CASE r <= n
    <3>0. sensors[r] \in Row
      BY <1>0, <2>3
    <3>1. Stored(r) = <<>>
      BY <1>0, <3>0, RowFields DEF Stored
    <3> QED BY <1>0, <1>1, <2>2, <2>3, <3>1 DEF DataMgrInv, RingHoldsLatest, Places
  <2>4. CASE r = n + 1
    <3>1. Back(0, j) \in Places
      BY BackInPlaces DEF Places
    <3> QED BY <1>1, <2>2, <2>4, <3>1, NewRowIsRow DEF Places
  <2> QED BY <2>3, <2>4
<1> QED BY <1>3, <1>4, <1>5, <1>6 DEF DataMgrInv

(* A reading goes to the next place of the first row with its id. *)
LEMMA ReceiveKnownStep ==
  ASSUME DataMgrInv, NEW id \in Ids, NEW v \in Values, ReceiveKnown(id, v)
  PROVE  DataMgrInv'
<1>1. PICK r \in DOMAIN sensors : sensors[r].id = id /\ IsFirst(r) /\ Store(r, v)
  BY DEF ReceiveKnown
<1> DEFINE p  == Advance(sensors[r].last)
           h  == seen[id]
<1>0. /\ sensors \in Seq(Row) /\ DOMAIN sensors = 1..Len(sensors) /\ Len(sensors) \in Nat
      /\ seen \in [Ids -> Seq(Values)] /\ h \in Seq(Values) /\ Len(h) \in Nat
      /\ clock \in Nat /\ phase = "run"
  BY DEF DataMgrInv, TypeOK, ReceiveKnown, Reading
<1>2. /\ sensors[r] \in Row /\ p \in Places
      /\ sensors[r].ring \in [Places -> Values \cup {Empty}]
  <2>1. sensors[r] \in Row
    BY <1>0, <1>1
  <2> QED BY <2>1, RowFields, AdvanceInPlaces
<1>3. sensors' = [sensors EXCEPT ![r] = [id |-> sensors[r].id, room |-> sensors[r].room,
                    ring |-> [sensors[r].ring EXCEPT ![p] = v], last |-> p,
                    modified |-> clock + 1]]
  BY <1>0, <1>1 DEF Store, Refreshed
<1>4. /\ Len(sensors') = Len(sensors) /\ DOMAIN sensors' = DOMAIN sensors
      /\ sensors' \in Seq(Row)
      /\ \A q \in DOMAIN sensors : q # r => sensors'[q] = sensors[q]
      /\ \A q \in DOMAIN sensors : sensors'[q].id = sensors[q].id
                                   /\ sensors'[q].room = sensors[q].room
      /\ sensors'[r].last = p
      /\ sensors'[r].ring = [sensors[r].ring EXCEPT ![p] = v]
  <2>1. [id |-> sensors[r].id, room |-> sensors[r].room,
         ring |-> [sensors[r].ring EXCEPT ![p] = v], last |-> p,
         modified |-> clock + 1] \in Row
    BY <1>0, <1>2 DEF Row
  <2> QED BY <1>0, <1>1, <1>3, <2>1
<1>5. seen' = [seen EXCEPT ![id] = Append(h, v)]
  BY DEF ReceiveKnown
<1>6. TypeOK'
  <2>1. judged' \in Ids \X Verdicts
    BY <1>1 DEF Store, Judge, Verdicts
  <2> QED BY <1>0, <1>4, <1>5, <2>1 DEF DataMgrInv, TypeOK, ReceiveKnown, mapVars
<1>7. ParseInv'
  BY <1>0 DEF ParseInv, ReceiveKnown
<1>8. RowsAreLines'
  BY <1>0, <1>4 DEF DataMgrInv, RowsAreLines, ReceiveKnown, mapVars
<1>9. \A q \in DOMAIN sensors : IsFirst(q)' <=> IsFirst(q)
  <2> SUFFICES ASSUME NEW q \in DOMAIN sensors PROVE IsFirst(q)' <=> IsFirst(q)
    OBVIOUS
  <2>1. \A k \in 1..(q - 1) : k \in DOMAIN sensors
    BY <1>0
  <2>2. sensors'[q].id = sensors[q].id /\ \A k \in 1..(q - 1) : sensors'[k].id = sensors[k].id
    BY <1>4, <2>1
  <2> QED BY <2>2 DEF IsFirst
<1>10. RingHoldsLatest'
  <2> SUFFICES ASSUME NEW q \in DOMAIN sensors, NEW j \in Places,
                      NEW t, t = Stored(q)'
               PROVE  sensors'[q].ring[Back(sensors'[q].last, j)] =
                        IF j < Len(t) THEN t[Len(t) - j] ELSE Empty
    BY <1>4 DEF RingHoldsLatest
  <2>0. sensors[q] \in Row /\ sensors[q].id \in Ids
    <3>1. sensors[q] \in Row
      BY <1>0
    <3> QED BY <3>1, RowFields
  <2>1. CASE q # r
    <3>1. IsFirst(q) => sensors[q].id # id
      BY <1>0, <1>1, <2>1 DEF IsFirst
    <3>2. t = Stored(q)
      BY <1>0, <1>4, <1>5, <1>9, <2>0, <3>1 DEF Stored
    <3> QED BY <1>4, <2>1, <3>2 DEF DataMgrInv, RingHoldsLatest
  <2>2. CASE q = r
    <3>1. Stored(q) = h /\ t = Append(h, v)
      BY <1>0, <1>1, <1>4, <1>5, <1>9, <2>2 DEF Stored
    <3>2. Len(Append(h, v)) = Len(h) + 1 /\ Append(h, v)[Len(h) + 1] = v
          /\ \A k \in 1..Len(h) : Append(h, v)[k] = h[k]
      BY <1>0
    <3>3. sensors[r].last \in Places /\ sensors[r].ring \in [Places -> Values \cup {Empty}]
      BY <1>2 DEF Row
    <3>4. CASE j = 0
      <4>1. Back(p, j) = p
        BY <3>3, <3>4, BackAfterAdvance
      <4> QED BY <1>0, <1>2, <1>4, <2>2, <3>1, <3>2, <3>3, <3>4, <4>1
    <3>5. CASE j # 0
      <4>1. /\ j - 1 \in Places /\ Back(p, j) = Back(sensors[r].last, j - 1)
            /\ Back(p, j) # p
        BY <3>3, <3>5, BackAfterAdvance
      <4>2. Back(p, j) \in Places
        BY <1>2, BackInPlaces
      <4>3. sensors'[r].ring[Back(p, j)] = sensors[r].ring[Back(sensors[r].last, j - 1)]
        BY <1>4, <3>3, <4>1, <4>2
      <4>4. sensors[r].ring[Back(sensors[r].last, j - 1)] =
              IF j - 1 < Len(h) THEN h[Len(h) - (j - 1)] ELSE Empty
        BY <2>2, <3>1, <4>1 DEF DataMgrInv, RingHoldsLatest
      <4>5. j \in Nat /\ j >= 1
        BY <3>5 DEF Places
      <4>6. j - 1 < Len(h) => Append(h, v)[(Len(h) + 1) - j] = h[Len(h) - (j - 1)]
        BY <1>0, <3>2, <4>5
      <4>7. sensors'[q].ring[Back(sensors'[q].last, j)] =
              IF j - 1 < Len(h) THEN h[Len(h) - (j - 1)] ELSE Empty
        BY <1>4, <2>2, <4>3, <4>4
      <4>8. j - 1 < Len(h) <=> j < Len(h) + 1
        BY <1>0, <4>5
      <4>9. CASE j < Len(h) + 1
        <5>1. t[Len(t) - j] = Append(h, v)[(Len(h) + 1) - j]
          BY <1>0, <3>1, <3>2, <4>5
        <5>2. j < Len(t)
          BY <3>1, <3>2, <4>9
        <5> QED BY <4>6, <4>7, <4>8, <4>9, <5>1, <5>2
      <4>10. CASE ~(j < Len(h) + 1)
        BY <2>2, <3>1, <3>2, <4>7, <4>8, <4>10
      <4> QED BY <4>9, <4>10
    <3> QED BY <3>4, <3>5
  <2> QED BY <2>1, <2>2
<1> QED BY <1>6, <1>7, <1>8, <1>10 DEF DataMgrInv

(* datamgr_free empties the list. *)
LEMMA ReceiveEndStep ==
  ASSUME DataMgrInv, ReceiveEnd
  PROVE  DataMgrInv'
<1>1. sensors' = <<>> /\ phase' = "freed"
  BY DEF ReceiveEnd
<1> QED BY <1>1 DEF ReceiveEnd, DataMgrInv, TypeOK, ParseInv, RowsAreLines,
                    RingHoldsLatest, mapVars

LEMMA NextInv == DataMgrInv /\ [DataMgrNext]_dvars => DataMgrInv'
<1> SUFFICES ASSUME DataMgrInv, [DataMgrNext]_dvars PROVE DataMgrInv'
  OBVIOUS
<1>0. index_dpl \in Nat /\ clock \in Nat /\ judged \in {<<>>} \cup (Ids \X Verdicts)
  BY DEF DataMgrInv, TypeOK
<1>1. CASE MapMissing
  BY <1>0, <1>1, QuietStep DEF MapMissing, mapVars
<1>2. CASE ParseJunk
  BY <1>0, <1>2, QuietStep DEF ParseJunk
<1>3. CASE EndOfMap
  BY <1>0, <1>3, QuietStep DEF EndOfMap, mapVars
<1>4. CASE ReceiveEnd
  BY <1>4, ReceiveEndStep
<1>5. ASSUME NEW room \in Rooms, NEW id \in Ids, ParseRoom(room, id)
      PROVE  DataMgrInv'
  BY <1>5, ParseRoomStep
<1>6. ASSUME NEW id \in Ids, ReceiveInvalid(id)
      PROVE  DataMgrInv'
  <2>1. judged' \in Ids \X Verdicts
    BY <1>6 DEF ReceiveInvalid, Verdicts
  <2> QED BY <1>0, <1>6, <2>1, QuietStep DEF ReceiveInvalid, Reading, mapVars
<1>7. ASSUME NEW id \in Ids, ReceiveUnmapped(id)
      PROVE  DataMgrInv'
  BY <1>0, <1>7, QuietStep DEF ReceiveUnmapped, Reading, mapVars
<1>8. ASSUME NEW id \in Ids, NEW v \in Values, ReceiveKnown(id, v)
      PROVE  DataMgrInv'
  BY <1>8, ReceiveKnownStep
<1>9. CASE UNCHANGED dvars
  BY <1>9 DEF dvars, DataMgrInv, TypeOK, ParseInv, RowsAreLines, RingHoldsLatest,
              Stored, IsFirst
<1> QED BY <1>1, <1>2, <1>3, <1>4, <1>5, <1>6, <1>7, <1>8, <1>9 DEF DataMgrNext

(* The inductive invariant of the data manager: the rows are the lines of the
   map in their order, and the window of every row holds the latest readings
   of its sensor, whatever its length and however often it has wrapped. *)
THEOREM WindowCorrect == DataMgrSpec => []DataMgrInv
BY InitInv, NextInv, PTL DEF DataMgrSpec

(* In particular the place last written is the newest reading of the sensor
   and the walk back from it meets the older ones in order. *)
THEOREM RingAlwaysLatest == DataMgrSpec => []RingHoldsLatest
<1>1. DataMgrInv => RingHoldsLatest
  BY DEF DataMgrInv
<1> QED BY <1>1, WindowCorrect, PTL

-----------------------------------------------------------------------------
(* Induction.  The provers cannot instantiate an induction theorem that takes
   an operator, so induction is done here from the well-ordering of the naturals,
   over sets. *)

LEMMA Least ==
  ASSUME NEW S \in SUBSET Nat, S # {}
  PROVE  \E m \in S : \A k \in S : m <= k
<1> DEFINE R == {ss \in Nat \X Nat : ss[1] < ss[2]}
<1>1. IsWellFoundedOn(R, Nat)
  BY NatLessThanWellFounded, Zenon DEF OpToRel
<1>2. PICK m \in S : \A k \in S : ~ (<<k, m>> \in R)
  BY <1>1, WFMin
<1>3. ASSUME NEW k \in S PROVE m <= k
  <2>1. k \in Nat /\ m \in Nat
    OBVIOUS
  <2>2. <<k, m>> \notin R
    BY <1>2
  <2>3. ~ (k < m)
    BY <2>1, <2>2
  <2> QED BY <2>1, <2>3
<1> QED BY <1>3

LEMMA Induct ==
  ASSUME NEW S, 0 \in S, \A n \in Nat : n \in S => n + 1 \in S
  PROVE  Nat \subseteq S
<1> DEFINE B == {n \in Nat : n \notin S}
<1>1. SUFFICES ASSUME B # {} PROVE FALSE
  OBVIOUS
<1>2. PICK m \in B : \A k \in B : m <= k
  BY <1>1, Least
<1>3. m # 0 /\ m \in Nat
  BY <1>2
<1>4. m - 1 \in Nat /\ m - 1 \notin B
  BY <1>2, <1>3
<1> QED BY <1>2, <1>3, <1>4

(* What holds for a subset once it holds for all smaller ones holds for all. *)
LEMMA SubsetInduct ==
  ASSUME NEW S, IsFiniteSet(S), NEW G,
         \A s \in SUBSET S : (\A t \in SUBSET s : t # s => t \in G) => s \in G
  PROVE  SUBSET S \subseteq G
<1> DEFINE B == {s \in SUBSET S : s \notin G}
           C == {Cardinality(s) : s \in B}
<1>1. SUFFICES ASSUME B # {} PROVE FALSE
  OBVIOUS
<1>2. \A s \in SUBSET S : IsFiniteSet(s) /\ Cardinality(s) \in Nat
  BY FS_Subset, FS_CardinalityType
<1>3. C \in SUBSET Nat /\ C # {}
  BY <1>1, <1>2
<1>4. PICK m \in C : \A k \in C : m <= k
  BY <1>3, Least
<1>5. PICK s \in B : m = Cardinality(s)
  OBVIOUS
<1>6. ASSUME NEW t \in SUBSET s, t # s PROVE t \in G
  <2>1. Cardinality(t) <= Cardinality(s) /\ Cardinality(t) # Cardinality(s)
    BY <1>2, <1>6, FS_Subset
  <2>2. Cardinality(t) \in Nat /\ Cardinality(s) \in Nat
    BY <1>2
  <2>3. ~ (Cardinality(s) <= Cardinality(t))
    BY <2>1, <2>2
  <2>4. t \notin B
    BY <1>4, <1>5, <2>3
  <2> QED BY <2>4
<1> QED BY <1>6

-----------------------------------------------------------------------------
(* Sums over finite sets, the form of the folds of this model. *)

Pick(s) == CHOOSE x \in s : TRUE

Sums(h, g) ==
  \A s \in SUBSET DOMAIN h :
    g[s] = IF s = {} THEN 0 ELSE h[Pick(s)] + g[s \ {Pick(s)}]

(* Sigma(h)[s] is the sum of h[x] for the x in s. *)
Sigma(h) == CHOOSE g \in [SUBSET DOMAIN h -> Int] : Sums(h, g)

LEMMA PickIn == ASSUME NEW s, s # {} PROVE Pick(s) \in s
BY DEF Pick

LEMMA SigmaExists ==
  ASSUME NEW S, IsFiniteSet(S), NEW h \in [S -> Int]
  PROVE  \E g \in [SUBSET S -> Int] : Sums(h, g)
<1> DEFINE Good(g, n) == \A s \in SUBSET S : Cardinality(s) <= n =>
                           g[s] = IF s = {} THEN 0 ELSE h[Pick(s)] + g[s \ {Pick(s)}]
           B == {n \in Nat : \E g \in [SUBSET S -> Int] : Good(g, n)}
<1>0. \A s \in SUBSET S : /\ IsFiniteSet(s) /\ Cardinality(s) \in Nat
                          /\ Cardinality(s) = 0 <=> s = {}
                          /\ Cardinality(s) <= Cardinality(S)
  BY FS_Subset, FS_CardinalityType, FS_EmptySet
<1>1. \A s \in SUBSET S : s # {} =>
        /\ Pick(s) \in S /\ s \ {Pick(s)} \in SUBSET S
        /\ Cardinality(s \ {Pick(s)}) = Cardinality(s) - 1
  BY <1>0, PickIn, FS_RemoveElement
<1>2. 0 \in B
  <2>1. [s \in SUBSET S |-> 0] \in [SUBSET S -> Int]
    OBVIOUS
  <2>2. Good([s \in SUBSET S |-> 0], 0)
    BY <1>0
  <2> QED BY <2>1, <2>2
<1>3. ASSUME NEW n \in Nat, n \in B PROVE n + 1 \in B
  <2>1. PICK g \in [SUBSET S -> Int] : Good(g, n)
    BY <1>3
  <2> DEFINE k == [s \in SUBSET S |-> IF s = {} THEN 0 ELSE h[Pick(s)] + g[s \ {Pick(s)}]]
  <2>2. k \in [SUBSET S -> Int]
    <3>1. \A s \in SUBSET S : s # {} => h[Pick(s)] \in Int /\ g[s \ {Pick(s)}] \in Int
      BY <1>1
    <3> QED BY <3>1
  <2>3. ASSUME NEW s \in SUBSET S, Cardinality(s) <= n PROVE k[s] = g[s]
    BY <2>1, <2>3
  <2>4. ASSUME NEW s \in SUBSET S, Cardinality(s) <= n + 1, s # {}
        PROVE  k[s \ {Pick(s)}] = g[s \ {Pick(s)}]
    <3>1. Cardinality(s \ {Pick(s)}) <= n
      BY <1>0, <1>1, <2>4
    <3> QED BY <1>1, <2>3, <2>4, <3>1
  <2>5. Good(k, n + 1)
    BY <2>4
  <2> HIDE DEF k, Good
  <2> QED BY <2>2, <2>5
<1>4. Cardinality(S) \in B
  <2> HIDE DEF B
  <2> QED BY <1>0, <1>2, <1>3, Induct
<1>5. PICK g \in [SUBSET S -> Int] : Good(g, Cardinality(S))
  BY <1>4
<1>6. Sums(h, g)
  BY <1>0, <1>5 DEF Sums
<1> QED BY <1>6

LEMMA SigmaType ==
  ASSUME NEW S, IsFiniteSet(S), NEW h \in [S -> Int]
  PROVE  /\ Sigma(h) \in [SUBSET S -> Int]
         /\ Sigma(h)[{}] = 0 /\ Sums(h, Sigma(h))
<1>1. Sigma(h) \in [SUBSET S -> Int] /\ Sums(h, Sigma(h))
  BY SigmaExists DEF Sigma
<1> QED BY <1>1 DEF Sums

(* Any element of the set may be taken as the last one added. *)
LEMMA SigmaStep ==
  ASSUME NEW S, IsFiniteSet(S), NEW h \in [S -> Int], NEW s \in SUBSET S, NEW x \in s
  PROVE  Sigma(h)[s] = h[x] + Sigma(h)[s \ {x}]
<1> DEFINE g == Sigma(h)
           G == {u \in SUBSET S : \A y \in u : g[u] = h[y] + g[u \ {y}]}
<1>0. g \in [SUBSET S -> Int] /\ Sums(h, g)
  BY SigmaType
<1>1. \A u \in SUBSET S : u # {} => g[u] = h[Pick(u)] + g[u \ {Pick(u)}]
  BY <1>0 DEF Sums
<1> HIDE DEF g
<1>2. ASSUME NEW u \in SUBSET S, \A t \in SUBSET u : t # u => t \in G,
             NEW y \in u
      PROVE  g[u] = h[y] + g[u \ {y}]
  <2> DEFINE z == Pick(u)
  <2>1. z \in u
    BY PickIn
  <2>2. g[u] = h[z] + g[u \ {z}]
    BY <1>1, <1>2
  <2> HIDE DEF z
  <2>3. CASE y = z
    BY <2>2, <2>3
  <2>4. CASE y # z
    <3>1. u \ {z} \in G /\ u \ {y} \in G
      BY <1>2, <2>1
    <3>2. y \in u \ {z} /\ z \in u \ {y}
      BY <2>1, <2>4
    <3>3. g[u \ {z}] = h[y] + g[(u \ {z}) \ {y}] /\ g[u \ {y}] = h[z] + g[(u \ {y}) \ {z}]
      BY <3>1, <3>2
    <3>4. (u \ {z}) \ {y} = (u \ {y}) \ {z}
      OBVIOUS
    <3>5. h[y] \in Int /\ h[z] \in Int /\ g[(u \ {z}) \ {y}] \in Int
      BY <1>0, <2>1
    <3> QED BY <2>2, <3>3, <3>4, <3>5
  <2> QED BY <2>3, <2>4
<1>3. \A u \in SUBSET S : (\A t \in SUBSET u : t # u => t \in G) => u \in G
  BY <1>2
<1>4. SUBSET S \subseteq G
  <2> HIDE DEF G
  <2> QED BY <1>3, SubsetInduct
<1> QED BY <1>4 DEF g

(* A sum is bounded by the bounds of its terms. *)
LEMMA SigmaBounds ==
  ASSUME NEW S, IsFiniteSet(S), NEW h \in [S -> Int], NEW m \in Int, NEW s \in SUBSET S
  PROVE  /\ (\A x \in s : h[x] <= m) => Sigma(h)[s] <= m * Cardinality(s)
         /\ (\A x \in s : h[x] >= m) => Sigma(h)[s] >= m * Cardinality(s)
<1> DEFINE g == Sigma(h)
           G == {u \in SUBSET S :
                   /\ (\A x \in u : h[x] <= m) => g[u] <= m * Cardinality(u)
                   /\ (\A x \in u : h[x] >= m) => g[u] >= m * Cardinality(u)}
<1>0. g \in [SUBSET S -> Int] /\ g[{}] = 0
  BY SigmaType
<1>1. ASSUME NEW u \in SUBSET S, \A t \in SUBSET u : t # u => t \in G
      PROVE  u \in G
  <2>1. CASE u = {}
    <3>1. Cardinality(u) = 0
      BY <2>1, FS_EmptySet
    <3> QED BY <1>0, <2>1, <3>1
  <2>2. CASE u # {}
    <3>1. PICK x \in u : TRUE
      BY <2>2
    <3> DEFINE v == u \ {x}
    <3>2. g[u] = h[x] + g[v]
      BY SigmaStep
    <3>3. Cardinality(u) \in Nat /\ Cardinality(v) = Cardinality(u) - 1
      BY FS_Subset, FS_CardinalityType, FS_RemoveElement
    <3>4. v \in G /\ g[v] \in Int /\ h[x] \in Int
      BY <1>0, <1>1
    <3> DEFINE a == Cardinality(u)
               b == Cardinality(v)
    <3>5. m * a = m + m * b
      <4> HIDE DEF a, b, v
      <4> QED BY <3>3 DEF a, b
    <3>6. m * b \in Int
      BY <3>3
    <3>7. (\A y \in u : h[y] <= m) => g[v] <= m * b /\ h[x] <= m
      BY <3>4
    <3>8. (\A y \in u : h[y] >= m) => g[v] >= m * b /\ h[x] >= m
      BY <3>4
    <3> HIDE DEF v, a, b, G
    <3>9. (\A y \in u : h[y] <= m) => g[u] <= m * a
      BY <3>2, <3>4, <3>5, <3>6, <3>7
    <3>10. (\A y \in u : h[y] >= m) => g[u] >= m * a
      BY <3>2, <3>4, <3>5, <3>6, <3>8
    <3> QED BY <3>9, <3>10 DEF G, a
  <2> QED BY <2>1, <2>2
<1>2. SUBSET S \subseteq G
  <2> HIDE DEF G
  <2> QED BY <1>1, SubsetInduct
<1> QED BY <1>2

-----------------------------------------------------------------------------
(* The sum of a window. *)

(* What a place adds to the average. *)
Contribution(ring) == [p \in DOMAIN ring |-> IF Physical(ring[p]) THEN ring[p] ELSE 0]

(* The fold of datamgr_get_avg is the sum of the values that count. *)
LEMMA TotalIsSum ==
  ASSUME NEW S, IsFiniteSet(S), NEW ring \in [S -> Int]
  PROVE  /\ Contribution(ring) \in [S -> Int]
         /\ Total(ring) = Sigma(Contribution(ring))[S]
<1> DEFINE h == Contribution(ring)
           U(g) == [s \in SUBSET S |->
                      IF s = {} THEN 0
                      ELSE IF Physical(ring[Pick(s)])
                           THEN ring[Pick(s)] + g[s \ {Pick(s)}]
                           ELSE g[s \ {Pick(s)}]]
           c == CHOOSE g : g = U(g)
<1>1. h \in [S -> Int] /\ \A x \in S : h[x] = IF Physical(ring[x]) THEN ring[x] ELSE 0
  BY DEF Contribution
<1>2. Total(ring) = c[S]
  BY DEF Total, FoldFunction, FoldFunctionOnSet, MapThenFoldSet, Pick
<1> DEFINE z == [s \in SUBSET S |-> Sigma(h)[s]]
<1>3. Sigma(h) \in [SUBSET S -> Int] /\ Sums(h, Sigma(h))
  BY <1>1, SigmaType
<1>4. \A s \in SUBSET S : s # {} => Pick(s) \in S /\ s \ {Pick(s)} \in SUBSET S
  BY PickIn
<1>5. \A s \in SUBSET S : s # {} => z[s] = h[Pick(s)] + z[s \ {Pick(s)}]
  <2> HIDE DEF h
  <2> QED BY <1>1, <1>3, <1>4 DEF Sums
<1>6. z[{}] = 0 /\ \A s \in SUBSET S : z[s] \in Int
  BY <1>1, <1>3, SigmaType
<1> HIDE DEF z, h
<1>7. z = U(z)
  <2>1. ASSUME NEW s \in SUBSET S, s # {}
        PROVE  z[s] = IF Physical(ring[Pick(s)]) THEN ring[Pick(s)] + z[s \ {Pick(s)}]
                      ELSE z[s \ {Pick(s)}]
    <3>1. z[s \ {Pick(s)}] \in Int /\ z[s] = h[Pick(s)] + z[s \ {Pick(s)}]
      BY <1>4, <1>5, <1>6, <2>1
    <3>2. h[Pick(s)] = IF Physical(ring[Pick(s)]) THEN ring[Pick(s)] ELSE 0
      BY <1>1, <1>4, <2>1
    <3> QED BY <3>1, <3>2
  <2>2. \A s \in SUBSET S : z[s] = U(z)[s]
    BY <1>6, <2>1
  <2> QED BY <2>2 DEF z
<1>8. c = U(c)
  <2> HIDE DEF U
  <2> QED BY <1>7
<1> HIDE DEF c
<1> DEFINE G == {s \in SUBSET S : c[s] = z[s]}
<1>9. ASSUME NEW s \in SUBSET S, \A t \in SUBSET s : t # s => t \in G PROVE s \in G
  <2>1. c[s] = U(c)[s]
    BY <1>8
  <2>2. CASE s = {}
    BY <1>6, <2>1, <2>2
  <2>3. CASE s # {}
    <3>1. s \ {Pick(s)} \in G
      BY <1>9, <2>3, PickIn
    <3>2. z[s] = U(z)[s]
      BY <1>7
    <3>3. c[s \ {Pick(s)}] = z[s \ {Pick(s)}]
      BY <3>1
    <3> QED BY <2>1, <2>3, <3>2, <3>3
  <2> QED BY <2>2, <2>3
<1>10. SUBSET S \subseteq G
  <2> HIDE DEF G
  <2> QED BY <1>9, SubsetInduct
<1>11. Total(ring) = z[S]
  BY <1>2, <1>10
<1> QED BY <1>1, <1>11 DEF z, h

(* The average is above the limit times the length of the window only when a
   value that counts is, and below it only when one is or does not count. *)
LEMMA WindowSum ==
  ASSUME NEW ring \in [Places -> Int], NEW m \in Nat
  PROVE  /\ Total(ring) \in Int
         /\ (\A p \in Places : Physical(ring[p]) => ring[p] <= m) => Total(ring) <= m * Window
         /\ (\A p \in Places : Physical(ring[p]) /\ ring[p] >= m) => Total(ring) >= m * Window
         /\ (\A p \in Places : Physical(ring[p]) /\ ring[p] > m) => Total(ring) > m * Window
         /\ (\A p \in Places : Physical(ring[p]) /\ ring[p] < m) => Total(ring) < m * Window
<1> DEFINE h == Contribution(ring)
           g == Sigma(h)
<1>1. IsFiniteSet(Places) /\ Cardinality(Places) = Window
  BY FS_Interval DEF Places
<1>2. h \in [Places -> Int] /\ Total(ring) = g[Places]
  BY <1>1, TotalIsSum
<1>3. \A x \in Places : h[x] = IF Physical(ring[x]) THEN ring[x] ELSE 0
  BY DEF Contribution
<1> HIDE DEF h
<1>4. g \in [SUBSET Places -> Int]
  BY <1>1, <1>2, SigmaType
<1>5. \A k \in Int :
        /\ (\A x \in Places : h[x] <= k) => g[Places] <= k * Window
        /\ (\A x \in Places : h[x] >= k) => g[Places] >= k * Window
  BY <1>1, <1>2, SigmaBounds
<1> HIDE DEF g
<1>6. (\A p \in Places : Physical(ring[p]) => ring[p] <= m) => Total(ring) <= m * Window
  <2> SUFFICES ASSUME \A p \in Places : Physical(ring[p]) => ring[p] <= m
               PROVE  Total(ring) <= m * Window
    OBVIOUS
  <2>1. \A x \in Places : h[x] <= m
    BY <1>3
  <2> QED BY <1>2, <1>5, <2>1
<1>7. (\A p \in Places : Physical(ring[p]) /\ ring[p] >= m) => Total(ring) >= m * Window
  <2> SUFFICES ASSUME \A p \in Places : Physical(ring[p]) /\ ring[p] >= m
               PROVE  Total(ring) >= m * Window
    OBVIOUS
  <2>1. \A x \in Places : h[x] >= m
    BY <1>3
  <2> QED BY <1>2, <1>5, <2>1
<1>8. (\A p \in Places : Physical(ring[p]) /\ ring[p] > m) => Total(ring) > m * Window
  <2> SUFFICES ASSUME \A p \in Places : Physical(ring[p]) /\ ring[p] > m
               PROVE  Total(ring) > m * Window
    OBVIOUS
  <2>1. \A x \in Places : h[x] >= m + 1
    BY <1>3
  <2>2. Total(ring) >= (m + 1) * Window
    BY <1>2, <1>5, <2>1
  <2>3. (m + 1) * Window = m * Window + Window
    OBVIOUS
  <2>4. m * Window \in Int /\ Total(ring) \in Int
    BY <1>2, <1>4
  <2> QED BY <2>2, <2>3, <2>4
<1>9. (\A p \in Places : Physical(ring[p]) /\ ring[p] < m) => Total(ring) < m * Window
  <2> SUFFICES ASSUME \A p \in Places : Physical(ring[p]) /\ ring[p] < m
               PROVE  Total(ring) < m * Window
    OBVIOUS
  <2>1. \A x \in Places : h[x] <= m - 1
    BY <1>3
  <2>2. Total(ring) <= (m - 1) * Window
    BY <1>2, <1>5, <2>1
  <2>3. (m - 1) * Window = m * Window - Window
    OBVIOUS
  <2>4. m * Window \in Int /\ Total(ring) \in Int
    BY <1>2, <1>4
  <2> QED BY <2>2, <2>3, <2>4
<1> QED BY <1>2, <1>4, <1>6, <1>7, <1>8, <1>9

-----------------------------------------------------------------------------
(* What is logged about a sensor. *)

(* Nothing has been judged while the map is read, and what has been judged
   fits the readings. *)
JudgedInv == (phase = "parse" => judged = <<>>) /\ AlarmsJustified

(* A full window has readings that count in every place. *)
LEMMA FullWindow ==
  ASSUME seen \in [Ids -> Seq(Values)], NEW id \in Ids
  PROVE  /\ Cardinality(Counted(id)) \in Nat
         /\ Cardinality(Counted(id)) = Window =>
              \A j \in Places : Len(seen[id]) - j \in Counted(id)
<1> DEFINE h == seen[id]
           n == Len(h)
           I == (n - Window + 1)..n
<1>1. h \in Seq(Values) /\ n \in Nat /\ DOMAIN h = 1..n
  OBVIOUS
<1>2. IsFiniteSet(I) /\ Cardinality(I) = Window
  <2> HIDE DEF n
  <2> QED BY <1>1, FS_Interval
<1>3. Counted(id) \in SUBSET I
  BY <1>1 DEF Counted
<1>4. /\ Cardinality(Counted(id)) \in Nat
      /\ Cardinality(Counted(id)) = Window => Counted(id) = I
  BY <1>2, <1>3, FS_Subset, FS_CardinalityType
<1>5. \A j \in Places : n - j \in I
  BY <1>1 DEF Places
<1> QED BY <1>4, <1>5

(* A place of the first row of an id holds a reading of that id among the
   latest ones, or no reading. *)
LEMMA PlaceHolds ==
  ASSUME TypeOK, RingHoldsLatest, NEW r \in DOMAIN sensors, IsFirst(r)
  PROVE  LET id == sensors[r].id
             h  == seen[id]
         IN  /\ \A p \in Places : Physical(sensors[r].ring[p]) =>
                  \E j \in Counted(id) : sensors[r].ring[p] = h[j]
             /\ \A j \in Counted(id) : \E p \in Places : sensors[r].ring[p] = h[j]
             /\ Cardinality(Counted(id)) = Window =>
                  \A p \in Places : Physical(sensors[r].ring[p])
<1> DEFINE row == sensors[r]
           id == row.id
           h  == seen[id]
           n  == Len(h)
<1>1. row \in Row /\ row.last \in Places /\ id \in Ids
  <2>1. row \in Row
    BY DEF TypeOK
  <2> QED BY <2>1, RowFields
<1>2. h \in Seq(Values) /\ n \in Nat /\ DOMAIN h = 1..n
  <2>1. h \in Seq(Values)
    BY <1>1 DEF TypeOK
  <2> HIDE DEF h
  <2> QED BY <2>1
<1>3. \A j \in Places : row.ring[Back(row.last, j)] = IF j < n THEN h[n - j] ELSE Empty
  BY DEF RingHoldsLatest, Stored
<1>4. ASSUME NEW p \in Places
      PROVE  \E j \in Places : p = Back(row.last, j)
  <2> DEFINE j == IF p <= row.last THEN row.last - p ELSE row.last - p + Window
  <2>1. j \in Places /\ p = Back(row.last, j)
    BY <1>1 DEF Places, Back
  <2> QED BY <2>1
<1>5. ASSUME NEW p \in Places, Physical(row.ring[p])
      PROVE  \E j \in Counted(id) : row.ring[p] = h[j]
  <2>1. PICK j \in Places : p = Back(row.last, j)
    BY <1>4
  <2>2. row.ring[p] = IF j < n THEN h[n - j] ELSE Empty
    BY <1>3, <2>1
  <2>3. j < n
    BY <1>5, <2>2 DEF Physical, Empty
  <2>4. n - j \in Counted(id) /\ row.ring[p] = h[n - j]
    BY <1>2, <1>5, <2>2, <2>3 DEF Counted, Places
  <2> QED BY <2>4
<1>6. ASSUME NEW k \in Counted(id)
      PROVE  \E p \in Places : row.ring[p] = h[k]
  <2>1. k \in 1..n /\ k > n - Window
    BY <1>2 DEF Counted
  <2>2. n - k \in Places /\ n - k < n /\ n - (n - k) = k
    BY SMTT(30), <1>2, <2>1 DEF Places
  <2>3. row.ring[Back(row.last, n - k)] = h[k]
    BY <1>3, <2>2
  <2>4. Back(row.last, n - k) \in Places
    BY <1>1, <2>2, BackInPlaces
  <2> QED BY <2>3, <2>4
<1>7. ASSUME Cardinality(Counted(id)) = Window, NEW p \in Places
      PROVE  Physical(row.ring[p])
  <2>1. PICK j \in Places : p = Back(row.last, j)
    BY <1>4
  <2>2. n - j \in Counted(id)
    BY <1>1, <1>7, FullWindow DEF TypeOK
  <2>3. n - j \in 1..n /\ Physical(h[n - j])
    BY <1>2, <2>2 DEF Counted
  <2>4. j < n
    BY <1>2, <2>3 DEF Places
  <2> QED BY <1>3, <2>1, <2>3, <2>4
<1> QED BY <1>5, <1>6, <1>7

(* The verdict about the window of a first row fits the readings of its id. *)
JudgedNow == \E r \in DOMAIN sensors :
               IsFirst(r) /\ judged = <<sensors[r].id, Judge(sensors[r].ring)>>

LEMMA JudgeFits == TypeOK /\ RingHoldsLatest /\ JudgedNow => AlarmsJustified
<1> SUFFICES ASSUME TypeOK, RingHoldsLatest, NEW r \in DOMAIN sensors, IsFirst(r),
                    judged = <<sensors[r].id, Judge(sensors[r].ring)>>
             PROVE  AlarmsJustified
  BY DEF JudgedNow
<1> DEFINE ring == sensors[r].ring
           id   == sensors[r].id
           h    == seen[id]
           full == Cardinality(Counted(id)) = Window
<1> USE LimitsAssumption
<1>1. sensors[r] \in Row
  BY DEF TypeOK
<1>2. ring \in [Places -> Int] /\ id \in Ids
  <2>1. ring \in [Places -> Values \cup {Empty}] /\ id \in Ids
    BY <1>1, RowFields
  <2>2. Values \cup {Empty} \subseteq Int
    BY DEF Empty
  <2> HIDE DEF ring
  <2> QED BY <2>1, <2>2
<1>3. /\ \A p \in Places : Physical(ring[p]) => \E j \in Counted(id) : ring[p] = h[j]
      /\ \A j \in Counted(id) : \E p \in Places : ring[p] = h[j]
      /\ full => \A p \in Places : Physical(ring[p])
  BY PlaceHolds
<1>4. judged[1] = id /\ judged[2] = Judge(ring) /\ Judge(ring) \in {"hot", "cold", "none"}
  BY DEF Judge
<1>5. \A p \in Places : ring[p] \in Int
  BY <1>2
<1> DEFINE hot  == Total(ring) > MaxTemp * Window
           cold == Total(ring) < MinTemp * Window
<1>6. /\ Judge(ring) = "hot" => hot
      /\ Judge(ring) = "cold" => cold
      /\ Judge(ring) = "none" => ~hot /\ ~cold
  BY DEF Judge
<1> DEFINE T == Total(ring)
<1>7. \A m \in Nat :
        /\ T \in Int /\ m * Window \in Int
        /\ (\A p \in Places : Physical(ring[p]) => ring[p] <= m) => T <= m * Window
        /\ (\A p \in Places : Physical(ring[p]) /\ ring[p] >= m) => T >= m * Window
        /\ (\A p \in Places : Physical(ring[p]) /\ ring[p] > m) => T > m * Window
        /\ (\A p \in Places : Physical(ring[p]) /\ ring[p] < m) => T < m * Window
  <2> HIDE DEF ring
  <2>1. \A m \in Nat : m * Window \in Int
    OBVIOUS
  <2> QED BY <1>2, <2>1, WindowSum, Zenon
<1> HIDE DEF T
<1>8. ASSUME hot PROVE \E j \in Counted(id) : h[j] > MaxTemp
  <2>1. ~ (T <= MaxTemp * Window)
    BY <1>7, <1>8 DEF T
  <2>2. PICK p \in Places : Physical(ring[p]) /\ ~ (ring[p] <= MaxTemp)
    BY <1>7, <2>1
  <2> QED BY <1>3, <1>5, <2>2
<1>9. ASSUME cold PROVE ~full \/ \E j \in Counted(id) : h[j] < MinTemp
  <2>1. ~ (T >= MinTemp * Window)
    BY <1>7, <1>9 DEF T
  <2>2. PICK p \in Places : ~ (Physical(ring[p]) /\ ring[p] >= MinTemp)
    BY <1>7, <2>1
  <2> QED BY <1>3, <1>5, <2>2
<1>10. ASSUME ~hot, ~cold, full
       PROVE  (\E j \in Counted(id) : h[j] <= MaxTemp) /\ (\E j \in Counted(id) : h[j] >= MinTemp)
  <2>1. ~ (T > MaxTemp * Window) /\ ~ (T < MinTemp * Window)
    BY <1>10 DEF T
  <2>2. PICK p \in Places : ~ (ring[p] > MaxTemp)
    BY <1>3, <1>7, <1>10, <2>1
  <2>3. PICK q \in Places : ring[q] >= MinTemp
    <3>1. SUFFICES ASSUME \A q \in Places : ~ (ring[q] >= MinTemp) PROVE FALSE
      OBVIOUS
    <3>2. \A q \in Places : ring[q] < MinTemp
      BY <1>5, <3>1
    <3> QED BY <1>3, <1>7, <1>10, <2>1, <3>2
  <2> QED BY <1>3, <1>5, <1>10, <2>2, <2>3
<1> HIDE DEF hot, cold
<1>11. CASE Judge(ring) = "hot"
  BY <1>4, <1>6, <1>8, <1>11 DEF AlarmsJustified
<1>12. CASE Judge(ring) = "cold"
  BY <1>4, <1>6, <1>9, <1>12 DEF AlarmsJustified
<1>13. CASE Judge(ring) = "none"
  BY <1>4, <1>6, <1>10, <1>13 DEF AlarmsJustified
<1> QED BY <1>4, <1>11, <1>12, <1>13

(* No step makes the verdict and the readings disagree. *)
LEMMA JudgedStep ==
  ASSUME DataMgrInv, DataMgrInv', JudgedInv, [DataMgrNext]_dvars
  PROVE  JudgedInv'
<1>1. ASSUME UNCHANGED <<judged, seen, lines>>, phase' = "parse" => phase = "parse"
      PROVE  JudgedInv'
  BY <1>1 DEF JudgedInv, AlarmsJustified, Counted
<1>2. CASE MapMissing \/ ParseJunk \/ EndOfMap \/ ReceiveEnd
  BY <1>1, <1>2 DEF MapMissing, ParseJunk, EndOfMap, ReceiveEnd, mapVars
<1>3. ASSUME NEW room \in Rooms, NEW id \in Ids, ParseRoom(room, id)
      PROVE  JudgedInv'
  BY <1>3 DEF ParseRoom, JudgedInv, AlarmsJustified
<1>4. ASSUME NEW id \in Ids, ReceiveInvalid(id)
      PROVE  JudgedInv'
  <2>1. judged' = <<id, "invalid">> /\ sensors = <<>> /\ phase = "run" /\ phase' = "run"
        /\ lines' = lines
    BY <1>4 DEF ReceiveInvalid, Reading, mapVars
  <2>2. lines = <<>>
    BY <2>1 DEF DataMgrInv, TypeOK, RowsAreLines
  <2>3. judged'[2] = "invalid" /\ lines' = <<>>
    BY <2>1, <2>2
  <2> QED BY <2>1, <2>3 DEF JudgedInv, AlarmsJustified
<1>5. ASSUME NEW id \in Ids, ReceiveUnmapped(id)
      PROVE  JudgedInv'
  BY <1>1, <1>5 DEF ReceiveUnmapped, mapVars, Reading
<1>6. ASSUME NEW id \in Ids, NEW v \in Values, ReceiveKnown(id, v)
      PROVE  JudgedInv'
  <2>1. PICK r \in DOMAIN sensors : sensors[r].id = id /\ IsFirst(r) /\ Store(r, v)
    BY <1>6 DEF ReceiveKnown
  <2>2. sensors \in Seq(Row) /\ DOMAIN sensors = 1..Len(sensors)
    BY DEF DataMgrInv, TypeOK
  <2>3. /\ DOMAIN sensors' = DOMAIN sensors
        /\ \A q \in DOMAIN sensors : sensors'[q].id = sensors[q].id
        /\ judged' = <<sensors'[r].id, Judge(sensors'[r].ring)>>
    BY <2>1, <2>2 DEF Store, Refreshed
  <2>4. \A q \in 1..(r - 1) : q \in DOMAIN sensors
    BY <2>2
  <2>5. IsFirst(r)'
    BY <2>1, <2>3, <2>4 DEF IsFirst
  <2>6. AlarmsJustified'
    <3>1. JudgedNow'
      BY <2>3, <2>5 DEF JudgedNow
    <3>2. (TypeOK /\ RingHoldsLatest /\ JudgedNow => AlarmsJustified)'
      BY JudgeFits, PTL
    <3> QED BY <3>1, <3>2 DEF DataMgrInv
  <2>7. phase' = "run"
    BY <1>6 DEF ReceiveKnown, Reading
  <2> QED BY <2>6, <2>7 DEF JudgedInv
<1>7. CASE UNCHANGED dvars
  BY <1>1, <1>7 DEF dvars
<1> QED BY <1>2, <1>3, <1>4, <1>5, <1>6, <1>7 DEF DataMgrNext

(* Whatever the map, the readings and the length of the window: a sensor is
   called too hot only when one of its latest readings is, too cold only when
   one is or its window is not full of values that count, and silence means
   that a full window is not all on one side of a limit (datamgr_get_avg). *)
THEOREM VerdictsFit == DataMgrSpec => []AlarmsJustified
<1>1. DataMgrInit => JudgedInv
  BY DEF DataMgrInit, JudgedInv, AlarmsJustified
<1>2. DataMgrInv /\ DataMgrInv' /\ JudgedInv /\ [DataMgrNext]_dvars => JudgedInv'
  BY JudgedStep
<1>3. JudgedInv => AlarmsJustified
  BY DEF JudgedInv
<1> QED BY <1>1, <1>2, <1>3, WindowCorrect, PTL DEF DataMgrSpec
=============================================================================
