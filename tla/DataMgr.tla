------------------------------ MODULE DataMgr ------------------------------
(***************************************************************************)
(* The data manager of the sensor gateway (datamgr.c): its list of rooms,  *)
(* read from room_sensor.map, and the running average it keeps for each    *)
(* sensor.  SBuffer.tla models how the readings reach it; here they simply *)
(* arrive, one at a time, because the thread is the only user of its list. *)
(*                                                                         *)
(* A map file is the sequence of pieces fgets returns.  A line that does   *)
(* not fit in the twelve characters of its buffer, two numbers of five     *)
(* digits for one, comes in two pieces, the second of which is junk.       *)
(*                                                                         *)
(* Temperatures are whole degrees; the average is compared with the limits *)
(* after multiplying both sides by the length of the window.               *)
(***************************************************************************)
EXTENDS Integers, Sequences, FiniteSets, Functions

CONSTANTS
  Ids,          \* sensor ids, other than the 0 of the end marker
  Rooms,        \* room ids
  Values,       \* temperatures a sensor may send
  Window,       \* RUN_AVG_LENGTH
  MinTemp,      \* SET_MIN_TEMP
  MaxTemp,      \* SET_MAX_TEMP
  MaxPieces,    \* bound: pieces of the map file
  MaxReadings   \* bound: readings in one behaviour

Empty == -300              \* what a place of the window holds before a reading does
Physical(v) == v > -275

ASSUME IdsAssumption    == Ids \subseteq Nat \ {0}
ASSUME ValuesAssumption == Values \subseteq Int
ASSUME WindowAssumption == Window \in Nat \ {0}
ASSUME LimitsAssumption == MinTemp \in Nat /\ MaxTemp \in Nat /\ MinTemp <= MaxTemp
ASSUME BoundAssumption  == MaxPieces \in Nat /\ MaxReadings \in Nat

VARIABLES
  phase,      \* "parse", "run", "failed", "spin" (in a search) or "freed"
  sensors,    \* the list: one row per line of the map
  index_dpl,  \* the index at which the next row is inserted
  lines,      \* history: the lines that could be parsed
  seen,       \* history: seen[id], the readings stored for id
  clock,      \* readings so far, the time stamp of the last one
  judged      \* the last reading: whose, and what was logged about it

mapVars == <<index_dpl, lines>>
dvars   == <<phase, sensors, index_dpl, lines, seen, clock, judged>>

Places == 0..(Window - 1)
Row == [id : Ids, room : Rooms, ring : [Places -> Values \cup {Empty}],
        last : Places, modified : Nat]

Verdicts == {"hot", "cold", "none", "invalid"}

TypeOK ==
  /\ phase \in {"parse", "run", "failed", "spin", "freed"}
  /\ sensors \in Seq(Row) /\ lines \in Seq(Rooms \X Ids)
  /\ index_dpl \in Nat /\ clock \in Nat
  /\ seen \in [Ids -> Seq(Values)]
  /\ judged \in {<<>>} \cup (Ids \X Verdicts)

DataMgrInit ==
  /\ phase = "parse" /\ sensors = <<>> /\ index_dpl = 0 /\ lines = <<>>
  /\ seen = [id \in Ids |-> <<>>] /\ clock = 0 /\ judged = <<>>

-----------------------------------------------------------------------------
(* The list. *)

(* element_compare: the search stops at the first row with the id. *)
IsFirst(r) == \A q \in 1..(r - 1) : sensors[q].id # sensors[r].id
Holds(id)  == \E r \in DOMAIN sensors : sensors[r].id = id

(* dpl_insert_at_index: an index beyond the last row means the end. *)
InsertRow(s, row, i) ==
  LET p == 1 + IF i < Len(s) THEN i ELSE Len(s)
  IN  [k \in 1..(Len(s) + 1) |->
         IF k < p THEN s[k] ELSE IF k = p THEN row ELSE s[k - 1]]

NewRow(room, id) ==
  [id |-> id, room |-> room, ring |-> [p \in Places |-> Empty],
   last |-> 0, modified |-> 0]

-----------------------------------------------------------------------------
(* datamgr_parse_map.  The index counts every piece, parsed or not. *)

MapMissing ==
  /\ phase = "parse" /\ index_dpl = 0
  /\ phase' = "failed"
  /\ UNCHANGED <<sensors, mapVars, seen, clock, judged>>

ParseRoom(room, id) ==
  /\ phase = "parse" /\ index_dpl < MaxPieces
  /\ sensors' = InsertRow(sensors, NewRow(room, id), index_dpl)
  /\ lines' = Append(lines, <<room, id>>)
  /\ index_dpl' = index_dpl + 1
  /\ UNCHANGED <<phase, seen, clock, judged>>

ParseJunk ==
  /\ phase = "parse" /\ index_dpl < MaxPieces
  /\ index_dpl' = index_dpl + 1
  /\ UNCHANGED <<phase, sensors, lines, seen, clock, judged>>

EndOfMap ==
  /\ phase = "parse"
  /\ phase' = "run"
  /\ UNCHANGED <<sensors, mapVars, seen, clock, judged>>

-----------------------------------------------------------------------------
(* The running average. *)

(* Mutant: the last place of the window is never used. *)
Advance_Short(p) == IF p + 2 >= Window THEN 0 ELSE p + 1

(* The place after p in the window. *)
Advance(p) == IF p + 1 >= Window THEN 0 ELSE p + 1

(* The sum of the values that count. *)
Total(ring) == FoldFunction(LAMBDA v, s : IF Physical(v) THEN v + s ELSE s, 0, ring)

(* datamgr_get_avg divides by the length of the window, however many of its
   values have been added. *)
Judge(ring) ==
  IF Total(ring) > MaxTemp * Window THEN "hot"
  ELSE IF Total(ring) < MinTemp * Window THEN "cold" ELSE "none"

Refreshed(row, ring, p) ==
  [id |-> row.id, room |-> row.room, ring |-> ring, last |-> p, modified |-> clock + 1]

(* Mutant: the average is taken before the value is stored. *)
Store_JudgesFirst(r, v) ==
  LET p == Advance(sensors[r].last)
      ring == [sensors[r].ring EXCEPT ![p] = v]
  IN  /\ sensors' = [sensors EXCEPT ![r] = Refreshed(@, ring, p)]
      /\ judged' = <<sensors[r].id, Judge(sensors[r].ring)>>

Store(r, v) ==
  LET p == Advance(sensors[r].last)
      ring == [sensors[r].ring EXCEPT ![p] = v]
  IN  /\ sensors' = [sensors EXCEPT ![r] = Refreshed(@, ring, p)]
      /\ judged' = <<sensors[r].id, Judge(ring)>>

-----------------------------------------------------------------------------
(* The loop of datamgr.  A reading of a sensor the map does not hold is called
   invalid when the list is empty; otherwise the search never comes back. *)

Reading == phase = "run" /\ clock < MaxReadings

ReceiveKnown(id, v) ==
  /\ Reading
  /\ \E r \in DOMAIN sensors : sensors[r].id = id /\ IsFirst(r) /\ Store(r, v)
  /\ seen' = [seen EXCEPT ![id] = Append(@, v)]
  /\ clock' = clock + 1
  /\ UNCHANGED <<phase, mapVars>>

ReceiveInvalid(id) ==
  /\ Reading
  /\ sensors = <<>>
  /\ judged' = <<id, "invalid">>
  /\ clock' = clock + 1
  /\ UNCHANGED <<phase, sensors, mapVars, seen>>

ReceiveUnmapped(id) ==
  /\ Reading
  /\ sensors # <<>> /\ ~Holds(id)
  /\ phase' = "spin"
  /\ clock' = clock + 1
  /\ UNCHANGED <<sensors, mapVars, seen, judged>>

(* The end marker: datamgr_free. *)
ReceiveEnd ==
  /\ phase = "run"
  /\ phase' = "freed"
  /\ sensors' = <<>>
  /\ UNCHANGED <<mapVars, seen, clock, judged>>

DataMgrNext ==
  \/ MapMissing \/ ParseJunk \/ EndOfMap \/ ReceiveEnd
  \/ \E room \in Rooms, id \in Ids : ParseRoom(room, id)
  \/ \E id \in Ids : ReceiveInvalid(id) \/ ReceiveUnmapped(id)
  \/ \E id \in Ids, v \in Values : ReceiveKnown(id, v)

DataMgrSpec == DataMgrInit /\ [][DataMgrNext]_dvars

-----------------------------------------------------------------------------
(* Correctness. *)

(* The place that was written j readings before place p. *)
Back(p, j) == IF j <= p THEN p - j ELSE p - j + Window

(* The readings a row has stored: a second row with the same id gets none. *)
Stored(r) == IF IsFirst(r) THEN seen[sensors[r].id] ELSE <<>>

(* However often the window has wrapped around, walking back from the place
   last written meets the latest readings of that sensor, newest first, and
   behind them only places no reading has reached (datamgr.c:46). *)
RingHoldsLatest ==
  \A r \in DOMAIN sensors : \A j \in Places :
    sensors[r].ring[Back(sensors[r].last, j)] =
      IF j < Len(Stored(r)) THEN Stored(r)[Len(Stored(r)) - j] ELSE Empty

(* The rows are the lines of the map in their order, although the index they
   are inserted at also counts what could not be parsed (datamgr.c:89). *)
RowsAreLines ==
  phase \in {"parse", "run", "spin"} =>
    /\ Len(sensors) = Len(lines)
    /\ \A r \in DOMAIN lines : lines[r] = <<sensors[r].room, sensors[r].id>>

(* The values of id that are in its window and count. *)
Counted(id) ==
  LET h == seen[id] IN
  {j \in DOMAIN h : j > Len(h) - Window /\ Physical(h[j])}

(* What is logged after a reading fits the readings: too hot needs a reading
   above the limit; too cold one below it, or a window that is not full of
   values that count; silence needs that a full window is not all above or
   all below a limit (datamgr.c:103). *)
AlarmsJustified ==
  judged # <<>> =>
    LET id   == judged[1]
        h    == seen[id]
        full == Cardinality(Counted(id)) = Window
    IN  CASE judged[2] = "hot"  -> \E j \in Counted(id) : h[j] > MaxTemp
          [] judged[2] = "cold" -> ~full \/ \E j \in Counted(id) : h[j] < MinTemp
          [] judged[2] = "none" -> full => /\ \E j \in Counted(id) : h[j] <= MaxTemp
                                           /\ \E j \in Counted(id) : h[j] >= MinTemp
          [] OTHER -> lines = <<>>

(* datamgr.h:74: "Values that are physically impossible (below 0K) are not
   counted": while every reading of a sensor lies between the limits, nothing
   is logged about it. *)
QuietBetweenLimits ==
  judged # <<>> =>
    ((\A j \in DOMAIN seen[judged[1]] : seen[judged[1]][j] \in MinTemp..MaxTemp)
       => judged[2] \in {"none", "invalid"})

(* Before the first reading no row holds one. *)
ParseInv ==
  /\ phase = "parse" => /\ Len(sensors) <= index_dpl
                        /\ \A id \in Ids : seen[id] = <<>>

DataMgrInv == TypeOK /\ ParseInv /\ RowsAreLines /\ RingHoldsLatest
=============================================================================
