------------------------- MODULE TwoReaders_proofs -------------------------
(***************************************************************************)
(* The two readers of milestone 3, for any number of readers and records:  *)
(* ReadersInv is inductive, and with it every reading is in one place,     *)
(* overtaken only by readings other readers took meanwhile, and written by *)
(* the time main returns.                                                  *)
(***************************************************************************)
EXTENDS TwoReaders, FiniteSetTheorems, TLAPS

USE ReadersAssumption, BoundAssumption

-----------------------------------------------------------------------------
(* Sequences. *)

LEMMA AppendFacts ==
  ASSUME NEW T, NEW s \in Seq(T), NEW x \in T
  PROVE  /\ Append(s, x) \in Seq(T)
         /\ Len(s) \in Nat /\ DOMAIN s = 1..Len(s)
         /\ DOMAIN Append(s, x) = 1..(Len(s) + 1)
         /\ \A i \in DOMAIN s : Append(s, x)[i] = s[i]
         /\ Append(s, x)[Len(s) + 1] = x
         /\ \A i \in DOMAIN Append(s, x) : i \in DOMAIN s \/ i = Len(s) + 1
OBVIOUS

LEMMA TailFacts ==
  ASSUME NEW T, NEW s \in Seq(T), s # <<>>
  PROVE  /\ Tail(s) \in Seq(T)
         /\ 1 \in DOMAIN s /\ Head(s) = s[1]
         /\ \A i \in DOMAIN Tail(s) : /\ i \in Nat /\ i + 1 \in DOMAIN s
                                      /\ i + 1 > 1 /\ Tail(s)[i] = s[i + 1]
         /\ \A i \in DOMAIN s : i = 1 \/ \E j \in DOMAIN Tail(s) : Tail(s)[j] = s[i]
<1>1. /\ Len(s) \in Nat /\ Len(s) > 0 /\ Len(Tail(s)) = Len(s) - 1
      /\ Tail(s) \in Seq(T) /\ Head(s) = s[1]
      /\ DOMAIN s = 1..Len(s) /\ DOMAIN Tail(s) = 1..(Len(s) - 1)
      /\ \A i \in 1..(Len(s) - 1) : Tail(s)[i] = s[i + 1]
  OBVIOUS
<1>2. ASSUME NEW i \in DOMAIN s, i # 1
      PROVE  \E j \in DOMAIN Tail(s) : Tail(s)[j] = s[i]
  <2>1. i - 1 \in DOMAIN Tail(s) /\ (i - 1) + 1 = i
    BY <1>1, <1>2
  <2> QED BY <1>1, <2>1
<1> QED BY <1>1, <1>2

LEMMA InitInv == Init => ReadersInv
<1> SUFFICES ASSUME Init PROVE ReadersInv
  OBVIOUS
<1>1. Cardinality(Readers) \in Nat
  BY FS_CardinalityType
<1>2. TypeOK
  <2>1. <<>> \in Seq(Nat)
    OBVIOUS
  <2>2. ends = {} /\ lost = {} /\ fed = 0 /\ created = {}
    BY DEF Init
  <2>3. ends \subseteq 1..fed /\ lost \subseteq 1..fed /\ created \subseteq Readers
    BY <2>2
  <2>4. /\ reader \in [Readers -> {"none", "remove", "blocked", "write", "done"}]
        /\ hand \in [Readers -> Nat]
    BY DEF Init, End
  <2>5. markers \in Nat /\ fed \in Nat /\ unmarked \in BOOLEAN /\ fault \in BOOLEAN
    BY <1>1 DEF Init
  <2>6. queue \in Seq(Nat) /\ rows \in Seq(Nat)
    BY <2>1 DEF Init
  <2>7. main = "init" /\ buf = "none"
    BY DEF Init
  <2> QED BY <2>3, <2>4, <2>5, <2>6, <2>7 DEF TypeOK
<1>3. PhaseInv /\ QueueInv /\ TakenInv /\ HandInv /\ RowsInv /\ PlacedInv
  BY DEF Init, PhaseInv, QueueInv, TakenInv, HandInv, RowsInv, PlacedInv, Readings
<1>4. Drained /\ RowsComplete /\ DroppedInv /\ FaultOnlyAbandoned
  BY DEF Init, Drained, RowsComplete, DroppedInv, FaultOnlyAbandoned
<1> QED BY <1>2, <1>3, <1>4 DEF ReadersInv

LEMMA NothingFed == fed = 0 => Readings = {}
BY DEF Readings

(* The bounds of the readings. *)
LEMMA ReadingBounds ==
  ASSUME TypeOK, NEW k \in Readings
  PROVE  k \in Nat /\ 0 < k /\ k <= fed /\ k # End
BY DEF TypeOK, Readings, End

-----------------------------------------------------------------------------
(* Steps of main that move no record. *)

LEMMA MainStep ==
  ASSUME ReadersInv, UNCHANGED <<created, queue, feedVars, rdVars>>,
         \/ main = "init" /\ main' = "output" /\ buf = "none" /\ buf' = "live"
         \/ main = "init" /\ main' = "failed" /\ UNCHANGED buf
         \/ main = "output" /\ main' \in {"create", "abandon"} /\ UNCHANGED buf
         \/ main = "create" /\ main' = "abandon" /\ UNCHANGED buf
         \/ main = "input" /\ main' \in {"feed", "abandon"} /\ UNCHANGED buf
         \/ main = "feed" /\ main' = "mark" /\ UNCHANGED buf
         \/ main = "destroy" /\ main' \in {"failed", "stuck"} /\ UNCHANGED buf
  PROVE  ReadersInv'
<1> USE DEF ReadersInv, feedVars, rdVars
<1>1. TypeOK'
  BY DEF TypeOK
<1>2. PhaseInv'
  BY DEF PhaseInv, TypeOK
<1>3. QueueInv'
  BY DEF QueueInv, PhaseInv, Readings
<1>4. TakenInv' /\ HandInv' /\ RowsInv'
  BY DEF TakenInv, HandInv, RowsInv, Readings, Written
<1>5. PlacedInv'
  <2>1. fed = 0 => Readings = {}
    BY NothingFed
  <2> QED BY <2>1 DEF PlacedInv, PhaseInv, Readings, Written, Held, Queued
<1>6. Drained'
  <2>1. main = "init" => \A r \in Readers : reader[r] = "none"
    BY DEF PhaseInv
  <2> QED BY <2>1 DEF Drained, PhaseInv
<1>7. RowsComplete' /\ DroppedInv' /\ FaultOnlyAbandoned'
  BY DEF RowsComplete, DroppedInv, FaultOnlyAbandoned, PhaseInv
<1> QED BY <1>1, <1>2, <1>3, <1>4, <1>5, <1>6, <1>7

LEMMA CreateReaderStep ==
  ASSUME ReadersInv, NEW r \in Readers, CreateReader(r)
  PROVE  ReadersInv'
<1> USE DEF ReadersInv, feedVars
<1>0. /\ reader \in [Readers -> {"none", "remove", "blocked", "write", "done"}]
      /\ reader' = [reader EXCEPT ![r] = "remove"] /\ created' = created \cup {r}
      /\ main = "create" /\ main' \in {"input", "create"}
      /\ UNCHANGED <<buf, queue, fed, ends, lost, markers, unmarked, hand, rows, fault>>
      /\ fed = 0 /\ queue = <<>> /\ rows = <<>>
      /\ reader[r] # "write" /\ \A q \in Readers : reader[q] # "write"
  BY DEF CreateReader, TypeOK, PhaseInv
<1>1. TypeOK'
  BY <1>0 DEF TypeOK
<1>2. PhaseInv'
  BY <1>0 DEF PhaseInv, TypeOK
<1>3. QueueInv'
  BY <1>0 DEF QueueInv, Readings
<1>4. TakenInv' /\ HandInv' /\ RowsInv'
  BY <1>0 DEF TakenInv, HandInv, RowsInv, Readings, Written
<1>5. PlacedInv'
  BY <1>0, NothingFed DEF PlacedInv, Readings
<1>6. Drained'
  <2>1. \A q \in Readers : reader'[q] = "done" => reader[q] = "done"
    BY <1>0
  <2> QED BY <1>0, <2>1 DEF Drained
<1>7. RowsComplete' /\ DroppedInv' /\ FaultOnlyAbandoned'
  BY <1>0 DEF RowsComplete, DroppedInv, FaultOnlyAbandoned
<1> QED BY <1>1, <1>2, <1>3, <1>4, <1>5, <1>6, <1>7

(* main gives up; nothing has been fed. *)
LEMMA AbandonStep ==
  ASSUME ReadersInv, Abandon
  PROVE  ReadersInv'
<1> USE DEF ReadersInv, feedVars, rdVars
<1>0. /\ main = "abandon" /\ main' = "destroy" /\ buf' = "gone" /\ queue' = <<>>
      /\ UNCHANGED <<created, fed, ends, lost, markers, unmarked, reader, hand, rows, fault>>
      /\ queue = <<>>
  BY DEF Abandon, PhaseInv
<1>1. TypeOK'
  BY <1>0 DEF TypeOK
<1>2. PhaseInv'
  BY <1>0 DEF PhaseInv
<1>3. QueueInv' /\ TakenInv'
  BY <1>0 DEF QueueInv, TakenInv
<1>4. HandInv' /\ RowsInv'
  BY <1>0 DEF HandInv, RowsInv, Readings, Written
<1>5. PlacedInv' /\ Drained' /\ RowsComplete' /\ DroppedInv' /\ FaultOnlyAbandoned'
  BY <1>0 DEF PlacedInv, Drained, RowsComplete, DroppedInv, FaultOnlyAbandoned
<1> QED BY <1>1, <1>2, <1>3, <1>4, <1>5

(* main joins its readers.  The buffer begins with an end marker and nobody
   holds a record: what is not in the file stands behind an end of the file's
   own, or there is none. *)
LEMMA JoinStep ==
  ASSUME ReadersInv, Join
  PROVE  ReadersInv'
<1> USE DEF ReadersInv, feedVars, rdVars
<1>0. /\ main = "join" /\ main' = "returned" /\ buf' = "gone" /\ queue' = <<>>
      /\ UNCHANGED <<created, fed, ends, lost, markers, unmarked, reader, hand, rows, fault>>
      /\ \A r \in Readers : reader[r] = "done"
      /\ queue \in Seq(Nat)
  BY DEF Join, TypeOK
<1>1. TypeOK'
  BY <1>0 DEF TypeOK
<1>2. PhaseInv'
  BY <1>0 DEF PhaseInv
<1>3. QueueInv' /\ TakenInv'
  BY <1>0 DEF QueueInv, TakenInv
<1>4. HandInv' /\ RowsInv'
  BY <1>0 DEF HandInv, RowsInv, Readings, Written
<1>5. PlacedInv' /\ Drained' /\ FaultOnlyAbandoned'
  BY <1>0 DEF PlacedInv, Drained, FaultOnlyAbandoned
<1>6. RowsComplete'
  <2> SUFFICES ASSUME NEW k \in Readings, \A e \in ends \ lost : k < e
               PROVE  Written(k)
    BY <1>0 DEF RowsComplete, Readings, Written
  <2>1. buf = "live" /\ k \in Nat /\ k # End
    BY <1>0 DEF PhaseInv, TypeOK, Readings, End
  <2>2. queue # <<>> /\ Head(queue) = End
    BY <1>0, <2>1 DEF Drained
  <2>3. ~Held(k)
    BY <1>0 DEF Held
  <2>4. ASSUME Queued(k)
        PROVE  FALSE
    <3>1. PICK i \in DOMAIN queue : queue[i] = k
      BY <2>4 DEF Queued
    <3>2. 1 \in DOMAIN queue /\ queue[1] = End /\ 1 < i
      BY <1>0, <2>1, <2>2, <3>1
    <3>3. \E e \in ends \ lost : e < k
      BY <2>1, <3>1, <3>2 DEF QueueInv
    <3> QED BY <3>3, <2>1 DEF TypeOK
  <2> QED BY <2>1, <2>3, <2>4 DEF PlacedInv
<1>7. DroppedInv'
  <2> SUFFICES ASSUME NEW k \in Readings, ~Written(k), NEW j \in DOMAIN rows
               PROVE  rows[j] < k
    BY <1>0 DEF DroppedInv, Readings, Written
  <2>0. k # End
    BY ReadingBounds
  <2>1. buf = "live" /\ k # End
    BY <1>0, <2>0 DEF PhaseInv, TypeOK
  <2>2. Queued(k)
    BY <1>0, <2>1 DEF PlacedInv, Held
  <2> QED BY <2>1, <2>2 DEF Queued, TakenInv
<1> QED BY <1>1, <1>2, <1>3, <1>4, <1>5, <1>6, <1>7

-----------------------------------------------------------------------------
(* sbuffer_insert: one element more at the end, and at most one reader awake
   that was not. *)

LEMMA SignalFacts ==
  ASSUME TypeOK, Signal
  PROVE  /\ reader' \in [Readers -> {"none", "remove", "blocked", "write", "done"}]
         /\ \A r \in Readers : \/ reader'[r] = reader[r]
                               \/ reader[r] = "blocked" /\ reader'[r] = "remove"
BY DEF TypeOK, Signal

(* What an insert leaves as it was: who holds what, and who is done. *)
LEMMA Unmoved ==
  ASSUME TypeOK, UNCHANGED <<hand, rows>>,
         \A r \in Readers : \/ reader'[r] = reader[r]
                            \/ reader[r] = "blocked" /\ reader'[r] = "remove"
  PROVE  /\ \A r \in Readers : reader'[r] = "write" <=> reader[r] = "write"
         /\ \A r \in Readers : reader'[r] = "done" <=> reader[r] = "done"
         /\ \A r \in Readers : reader'[r] # "none" <=> reader[r] # "none"
         /\ \A k : Held(k)' <=> Held(k)
         /\ \A k : Written(k)' <=> Written(k)
<1>1. \A r \in Readers : reader'[r] = "write" <=> reader[r] = "write"
  OBVIOUS
<1>2. \A k : Held(k)' <=> Held(k)
  BY <1>1 DEF Held
<1>3. \A k : Written(k)' <=> Written(k)
  BY DEF Written
<1> QED BY <1>1, <1>2, <1>3

(* An end marker of main. *)
LEMMA MarkStep ==
  ASSUME ReadersInv, Mark
  PROVE  ReadersInv'
<1> USE DEF ReadersInv
<1>0. /\ main = "mark" /\ main' \in {"mark", "join"} /\ markers' \in Nat
      /\ unmarked' \in BOOLEAN
      /\ UNCHANGED <<created, buf, fed, ends, lost, hand, rows, fault>>
      /\ queue \in Seq(Nat)
      /\ queue' = queue \/ queue' = Append(queue, End)
      /\ \A r \in Readers : \/ reader'[r] = reader[r]
                            \/ reader[r] = "blocked" /\ reader'[r] = "remove"
      /\ reader' \in [Readers -> {"none", "remove", "blocked", "write", "done"}]
  <2>1. /\ queue \in Seq(Nat) /\ markers \in Nat /\ unmarked \in BOOLEAN
        /\ reader \in [Readers -> {"none", "remove", "blocked", "write", "done"}]
    BY DEF TypeOK
  <2>2. \/ Insert(End) /\ UNCHANGED unmarked
        \/ unmarked' = TRUE /\ UNCHANGED <<queue, reader>>
    BY DEF Mark
  <2>3. /\ main = "mark" /\ main' \in {"mark", "join"} /\ markers' \in Nat
        /\ UNCHANGED <<created, buf, fed, ends, lost, hand, rows, fault>>
    BY <2>1 DEF Mark
  <2>4. CASE Insert(End) /\ UNCHANGED unmarked
    BY <2>1, <2>3, <2>4, SignalFacts DEF Insert
  <2>5. CASE unmarked' = TRUE /\ UNCHANGED <<queue, reader>>
    BY <2>1, <2>3, <2>5
  <2> QED BY <2>2, <2>4, <2>5
<1>q. /\ queue' \in Seq(Nat)
      /\ \A i \in DOMAIN queue' : queue'[i] # End => i \in DOMAIN queue /\ queue'[i] = queue[i]
      /\ \A i \in DOMAIN queue : i \in DOMAIN queue' /\ queue'[i] = queue[i]
      /\ DOMAIN queue = 1..Len(queue) /\ Len(queue) \in Nat
      /\ \A i \in DOMAIN queue' : i \in Nat
  <2>1. DOMAIN queue = 1..Len(queue) /\ Len(queue) \in Nat /\ End \in Nat
    BY <1>0 DEF End
  <2>2. CASE queue' = queue
    BY <1>0, <2>1, <2>2
  <2>3. CASE queue' = Append(queue, End)
    <3>1. /\ DOMAIN queue' = 1..(Len(queue) + 1) /\ queue' \in Seq(Nat)
          /\ \A i \in DOMAIN queue : queue'[i] = queue[i]
          /\ queue'[Len(queue) + 1] = End
          /\ \A i \in DOMAIN queue' : i \in DOMAIN queue \/ i = Len(queue) + 1
      BY <1>0, <2>1, <2>3, AppendFacts
    <3> QED BY <2>1, <3>1
  <2> QED BY <1>0, <2>2, <2>3
<1>u. /\ \A r \in Readers : reader'[r] = "write" <=> reader[r] = "write"
      /\ \A r \in Readers : reader'[r] = "done" <=> reader[r] = "done"
      /\ \A r \in Readers : reader'[r] # "none" <=> reader[r] # "none"
      /\ \A k : Held(k)' <=> Held(k)
      /\ \A k : Written(k)' <=> Written(k)
      /\ Readings' = Readings
  BY <1>0, Unmoved DEF Readings
<1>1. TypeOK'
  BY <1>0, <1>q DEF TypeOK
<1>2. PhaseInv'
  BY <1>0, <1>u DEF PhaseInv
<1>3. QueueInv'
  <2>1. \A i \in DOMAIN queue' : queue'[i] # End => queue'[i] \in Readings
    BY <1>q DEF QueueInv
  <2>2. ASSUME NEW i \in DOMAIN queue', NEW j \in DOMAIN queue', i < j, queue'[j] # End
        PROVE  IF queue'[i] # End THEN queue'[i] < queue'[j]
               ELSE \E e \in ends \ lost : e < queue'[j]
    <3>1. j \in DOMAIN queue /\ i \in DOMAIN queue
      BY <1>0, <1>q, <2>2, AppendFacts
    <3> QED BY <1>q, <2>2, <3>1 DEF QueueInv
  <2> QED BY <1>0, <1>u, <2>1, <2>2 DEF QueueInv
<1>4. TakenInv'
  BY <1>0, <1>q, <1>u DEF TakenInv
<1>5. HandInv' /\ RowsInv'
  BY <1>0, <1>u DEF HandInv, RowsInv
<1>6. PlacedInv'
  BY <1>0, <1>q, <1>u DEF PlacedInv, Queued
<1>7. Drained'
  <2>1. queue # <<>> => queue' # <<>> /\ Head(queue') = Head(queue)
    BY <1>0, <1>q
  <2> QED BY <1>0, <1>u, <2>1 DEF Drained
<1>8. RowsComplete' /\ DroppedInv' /\ FaultOnlyAbandoned'
  BY <1>0 DEF RowsComplete, DroppedInv, FaultOnlyAbandoned
<1> QED BY <1>1, <1>2, <1>3, <1>4, <1>5, <1>6, <1>7, <1>8

(* A record of the file.  A reading goes behind all others and is larger; an
   end marker is one of the file's own from then on. *)
LEMMA FeedStep ==
  ASSUME ReadersInv, NEW d \in {End, fed + 1}, Feed(d)
  PROVE  ReadersInv'
<1> USE DEF ReadersInv
<1> DEFINE n == fed + 1
<1>0. /\ main = "feed" /\ n \in Nat /\ n > 0 /\ fed' = n /\ d \in Nat
      /\ UNCHANGED <<main, created, buf, markers, unmarked, hand, rows, fault>>
      /\ queue \in Seq(Nat) /\ fed \in Nat
      /\ ends \subseteq 1..fed /\ lost \subseteq 1..fed
      /\ DOMAIN queue = 1..Len(queue) /\ Len(queue) \in Nat
      /\ \/ d = n /\ d # End /\ ends' = ends
         \/ d = End /\ ends' = ends \cup {n}
  BY DEF Feed, TypeOK, End
<1>i. \/ Insert(d) /\ lost' = lost
      \/ lost' = lost \cup {n} /\ UNCHANGED <<queue, reader>>
  BY DEF Feed
<1>r. /\ \A r \in Readers : \/ reader'[r] = reader[r]
                            \/ reader[r] = "blocked" /\ reader'[r] = "remove"
      /\ reader' \in [Readers -> {"none", "remove", "blocked", "write", "done"}]
  <2>1. reader \in [Readers -> {"none", "remove", "blocked", "write", "done"}]
    BY DEF TypeOK
  <2> QED BY <1>i, <2>1, SignalFacts DEF Insert
<1>u. /\ \A r \in Readers : reader'[r] = "write" <=> reader[r] = "write"
      /\ \A r \in Readers : reader'[r] = "done" <=> reader[r] = "done"
      /\ \A r \in Readers : reader'[r] # "none" <=> reader[r] # "none"
      /\ \A k : Held(k)' <=> Held(k)
      /\ \A k : Written(k)' <=> Written(k)
  BY <1>0, <1>r, Unmoved
<1>e. /\ ends' \subseteq 1..n /\ lost' \subseteq 1..n
      /\ ends \subseteq ends' /\ lost \subseteq lost'
      /\ ends \ lost \subseteq ends' \ lost'
  <2>1. 1..fed \subseteq 1..n /\ n \in 1..n /\ n \notin 1..fed
    BY <1>0
  <2>2. ends' \in {ends, ends \cup {n}} /\ lost' \in {lost, lost \cup {n}}
    BY <1>0, <1>i
  <2>3. n \notin ends /\ n \notin lost
    BY <1>0, <2>1
  <2> QED BY <1>0, <2>1, <2>2, <2>3
<1>d. Readings' = IF lost' = lost /\ d = n THEN Readings \cup {n} ELSE Readings
  <2>1. n \notin 1..fed /\ 1..n = (1..fed) \cup {n}
    BY <1>0
  <2>2. n \notin ends /\ n \notin lost /\ n # End
    BY <1>0, <2>1 DEF End
  <2>3. Readings' = ((1..fed) \cup {n}) \ (ends' \cup lost')
    BY <1>0, <2>1 DEF Readings
  <2>4. CASE lost' = lost /\ d = n
    BY <1>0, <2>1, <2>2, <2>3, <2>4 DEF Readings
  <2>5. CASE lost' = lost /\ d # n
    BY <1>0, <2>1, <2>2, <2>3, <2>5 DEF Readings
  <2>6. CASE lost' = lost \cup {n}
    <3>1. lost' # lost
      BY <2>2, <2>6
    <3> QED BY <1>0, <2>1, <2>3, <2>6, <3>1 DEF Readings
  <2> QED BY <1>i, <2>4, <2>5, <2>6
<1>b. \A k \in Readings : k \in Nat /\ k < n /\ k # End
  BY <1>0, ReadingBounds
<1>q. /\ queue' \in Seq(Nat)
      /\ \A i \in DOMAIN queue : i \in DOMAIN queue' /\ queue'[i] = queue[i]
      /\ \A i \in DOMAIN queue' :
           \/ i \in DOMAIN queue
           \/ i = Len(queue) + 1 /\ queue'[i] = d /\ lost' = lost
      /\ \A i \in DOMAIN queue' : i \in Nat
      /\ lost' = lost /\ d = n => \E i \in DOMAIN queue' : queue'[i] = n
  <2>1. CASE Insert(d) /\ lost' = lost
    <3>1. /\ DOMAIN queue' = 1..(Len(queue) + 1) /\ queue' \in Seq(Nat)
          /\ \A i \in DOMAIN queue : queue'[i] = queue[i]
          /\ queue'[Len(queue) + 1] = d
          /\ \A i \in DOMAIN queue' : i \in DOMAIN queue \/ i = Len(queue) + 1
      BY <1>0, <2>1, AppendFacts DEF Insert
    <3> QED BY <1>0, <2>1, <3>1
  <2>2. CASE lost' = lost \cup {n} /\ UNCHANGED <<queue, reader>>
    <3>1. n \notin lost
      BY <1>0
    <3> QED BY <1>0, <2>2, <3>1
  <2> QED BY <1>i, <2>1, <2>2
<1>1. TypeOK'
  BY <1>0, <1>q, <1>r, <1>e DEF TypeOK
<1>2. PhaseInv'
  BY <1>0, <1>u DEF PhaseInv
<1>3. QueueInv'
  <2>1. \A i \in DOMAIN queue' : queue'[i] # End => queue'[i] \in Readings'
    BY <1>0, <1>q, <1>d DEF QueueInv
  <2>2. ASSUME NEW i \in DOMAIN queue', NEW j \in DOMAIN queue', i < j, queue'[j] # End
        PROVE  IF queue'[i] # End THEN queue'[i] < queue'[j]
               ELSE \E e \in ends' \ lost' : e < queue'[j]
    <3>1. CASE j \in DOMAIN queue
      <4>1. i \in DOMAIN queue
        BY <1>0, <1>q, <2>2, <3>1
      <4> QED BY <1>q, <1>e, <2>2, <3>1, <4>1 DEF QueueInv
    <3>2. CASE j \notin DOMAIN queue
      <4>1. j = Len(queue) + 1 /\ queue'[j] = n /\ i \in DOMAIN queue /\ queue'[i] = queue[i]
        BY <1>0, <1>q, <2>2, <3>2
      <4>2. CASE queue[i] # End
        BY <1>b, <4>1, <4>2 DEF QueueInv
      <4>3. CASE queue[i] = End
        <5>1. PICK e \in ends \ lost : TRUE
          BY <1>0, <4>1, <4>3 DEF QueueInv
        <5>2. e \in Nat /\ e < n
          BY <1>0, <5>1
        <5> QED BY <1>e, <4>1, <4>3, <5>1, <5>2
      <4> QED BY <4>2, <4>3
    <3> QED BY <3>1, <3>2
  <2>3. ASSUME NEW i \in DOMAIN queue', queue'[i] = End
        PROVE  ends' \ lost' # {}
    <3>1. CASE i \in DOMAIN queue
      BY <1>0, <1>q, <1>e, <2>3, <3>1 DEF QueueInv
    <3>2. CASE i \notin DOMAIN queue
      <4>1. d = End /\ lost' = lost /\ n \notin lost
        BY <1>0, <1>q, <2>3, <3>2
      <4> QED BY <1>0, <4>1
    <3> QED BY <3>1, <3>2
  <2> QED BY <2>1, <2>2, <2>3 DEF QueueInv
<1>4. TakenInv'
  <2> SUFFICES ASSUME NEW i \in DOMAIN queue', queue'[i] # End
               PROVE  /\ \A j \in DOMAIN rows : rows[j] < queue'[i]
                      /\ \A r \in Readers : reader'[r] = "write" => hand[r] < queue'[i]
    BY <1>0 DEF TakenInv
  <2>1. CASE i \in DOMAIN queue
    BY <1>q, <1>u, <2>1 DEF TakenInv
  <2>2. CASE i \notin DOMAIN queue
    <3>1. queue'[i] = n
      BY <1>0, <1>q, <2>2
    <3> QED BY <1>b, <1>u, <3>1 DEF RowsInv, HandInv
  <2> QED BY <2>1, <2>2
<1>5. HandInv' /\ RowsInv'
  BY <1>0, <1>u, <1>d DEF HandInv, RowsInv
<1>6. PlacedInv'
  <2>1. \A k : Queued(k) => Queued(k)'
    BY <1>q DEF Queued
  <2>2. \A k : lost' = lost /\ d = n /\ k = n => Queued(k)'
    BY <1>q DEF Queued
  <2> SUFFICES ASSUME buf = "live", NEW k \in Readings'
               PROVE  Written(k)' \/ Held(k)' \/ Queued(k)'
    BY <1>0 DEF PlacedInv
  <2>3. k \in Readings \/ (lost' = lost /\ d = n /\ k = n)
    BY <1>d
  <2> QED BY <1>u, <2>1, <2>2, <2>3 DEF PlacedInv
<1>7. Drained'
  <2>1. queue # <<>> => queue' # <<>> /\ Head(queue') = Head(queue)
    BY <1>0, <1>i DEF Insert
  <2> QED BY <1>0, <1>u, <2>1 DEF Drained
<1>8. RowsComplete' /\ DroppedInv' /\ FaultOnlyAbandoned'
  BY <1>0 DEF RowsComplete, DroppedInv, FaultOnlyAbandoned
<1> QED BY <1>1, <1>2, <1>3, <1>4, <1>5, <1>6, <1>7, <1>8

-----------------------------------------------------------------------------
(* The readers. *)

(* A step of a reader that moves no record: it falls asleep, wakes up, or ends
   because of an end marker. *)
LEMMA ReaderStep ==
  ASSUME ReadersInv, NEW r \in Readers, ~Over,
         UNCHANGED <<main, created, buf, queue, feedVars, hand, rows, fault>>,
         NEW to \in {"remove", "blocked", "done"}, reader' = [reader EXCEPT ![r] = to],
         reader[r] \in {"remove", "blocked"},
         to = "done" => buf = "live" /\ queue # <<>> /\ Head(queue) = End
  PROVE  ReadersInv'
<1> USE DEF ReadersInv, feedVars
<1>0. reader \in [Readers -> {"none", "remove", "blocked", "write", "done"}]
  BY DEF TypeOK
<1>u. /\ \A q \in Readers : reader'[q] = "write" <=> reader[q] = "write"
      /\ \A q \in Readers : reader'[q] = "done" <=> reader[q] = "done" \/ (q = r /\ to = "done")
      /\ \A q \in Readers : reader'[q] # "none" <=> reader[q] # "none"
      /\ Readings' = Readings
  BY <1>0 DEF Readings
<1>h. (\A k : Held(k)' <=> Held(k)) /\ (\A k : Written(k)' <=> Written(k))
      /\ (\A k : Queued(k)' <=> Queued(k))
  BY <1>u DEF Held, Written, Queued
<1>1. TypeOK'
  BY <1>0 DEF TypeOK
<1>2. PhaseInv'
  BY <1>u DEF PhaseInv, Over
<1>3. QueueInv' /\ TakenInv'
  BY <1>u DEF QueueInv, TakenInv
<1>4. HandInv' /\ RowsInv'
  BY <1>u, <1>h DEF HandInv, RowsInv
<1>5. PlacedInv'
  BY <1>u, <1>h DEF PlacedInv
<1>6. Drained'
  BY <1>u DEF Drained
<1>7. RowsComplete' /\ DroppedInv' /\ FaultOnlyAbandoned'
  BY DEF RowsComplete, DroppedInv, FaultOnlyAbandoned, Over
<1> QED BY <1>1, <1>2, <1>3, <1>4, <1>5, <1>6, <1>7

(* A reader that meets the freed buffer: main has given up. *)
LEMMA RemoveFreedStep ==
  ASSUME ReadersInv, NEW r \in Readers, RemoveFreed(r)
  PROVE  ReadersInv'
<1> USE DEF ReadersInv, feedVars
<1>0. /\ reader \in [Readers -> {"none", "remove", "blocked", "write", "done"}]
      /\ reader' = [reader EXCEPT ![r] = "done"] /\ reader[r] = "remove" /\ fault' = TRUE
      /\ buf = "gone" /\ main \in {"destroy", "stuck"} /\ r \in created /\ fed = 0
      /\ UNCHANGED <<main, created, buf, queue, fed, ends, lost, markers, unmarked, hand, rows>>
  BY DEF RemoveFreed, TypeOK, PhaseInv, Over
<1>u. /\ \A q \in Readers : reader'[q] = "write" <=> reader[q] = "write"
      /\ \A q \in Readers : reader'[q] # "none" <=> reader[q] # "none"
      /\ Readings' = Readings /\ \A k : Written(k)' <=> Written(k)
  BY <1>0 DEF Readings, Written
<1>1. TypeOK'
  BY <1>0 DEF TypeOK
<1>2. PhaseInv'
  BY <1>0, <1>u DEF PhaseInv
<1>3. QueueInv' /\ TakenInv' /\ HandInv' /\ RowsInv'
  BY <1>0, <1>u DEF QueueInv, TakenInv, HandInv, RowsInv
<1>4. PlacedInv' /\ Drained' /\ RowsComplete' /\ DroppedInv' /\ FaultOnlyAbandoned'
  BY <1>0 DEF PlacedInv, Drained, RowsComplete, DroppedInv, FaultOnlyAbandoned
<1> QED BY <1>1, <1>2, <1>3, <1>4

(* A reader takes the oldest record: from the head of the buffer into its hand. *)
LEMMA RemoveStep ==
  ASSUME ReadersInv, NEW r \in Readers, Remove(r)
  PROVE  ReadersInv'
<1> USE DEF ReadersInv, feedVars
<1>0. /\ reader \in [Readers -> {"none", "remove", "blocked", "write", "done"}]
      /\ hand \in [Readers -> Nat] /\ queue \in Seq(Nat)
      /\ reader' = [reader EXCEPT ![r] = "write"] /\ reader[r] = "remove"
      /\ hand' = [hand EXCEPT ![r] = Head(queue)]
      /\ queue # <<>> /\ queue' = Tail(queue) /\ Head(queue) # End
      /\ buf = "live" /\ main \in {"feed", "mark", "join"}
      /\ UNCHANGED <<main, created, buf, fed, ends, lost, markers, unmarked, rows, fault>>
  BY DEF Remove, TypeOK, PhaseInv, Over
<1> DEFINE x == queue[1]
<1>q. /\ queue' \in Seq(Nat) /\ 1 \in DOMAIN queue /\ Head(queue) = x /\ x # End
      /\ \A i \in DOMAIN queue' : /\ i \in Nat /\ i + 1 \in DOMAIN queue
                                   /\ i + 1 > 1 /\ queue'[i] = queue[i + 1]
      /\ \A i \in DOMAIN queue : i = 1 \/ \E j \in DOMAIN queue' : queue'[j] = queue[i]
  BY <1>0, TailFacts
<1>x. x \in Readings /\ x \in Nat
  BY <1>q, ReadingBounds DEF QueueInv
<1>u. /\ \A q \in Readers : reader'[q] = "write" <=> reader[q] = "write" \/ q = r
      /\ \A q \in Readers : q # r => hand'[q] = hand[q]
      /\ hand'[r] = x
      /\ \A q \in Readers : reader'[q] # "none" <=> reader[q] # "none"
      /\ \A q \in Readers : reader'[q] = "done" <=> reader[q] = "done"
      /\ Readings' = Readings /\ \A k : Written(k)' <=> Written(k)
  BY <1>0, <1>q DEF Readings, Written
<1>1. TypeOK'
  BY <1>0, <1>q, <1>x DEF TypeOK
<1>2. PhaseInv'
  BY <1>0, <1>u DEF PhaseInv
<1>3. QueueInv'
  <2>1. \A i \in DOMAIN queue' : queue'[i] # End => queue'[i] \in Readings
    BY <1>q DEF QueueInv
  <2>2. ASSUME NEW i \in DOMAIN queue', NEW j \in DOMAIN queue', i < j, queue'[j] # End
        PROVE  IF queue'[i] # End THEN queue'[i] < queue'[j]
               ELSE \E e \in ends \ lost : e < queue'[j]
    <3>1. i + 1 < j + 1 /\ i + 1 \in DOMAIN queue /\ j + 1 \in DOMAIN queue
      BY <1>q, <2>2
    <3> QED BY <1>q, <2>2, <3>1 DEF QueueInv
  <2>3. main = "feed" => \A i \in DOMAIN queue' : queue'[i] = End => ends \ lost # {}
    BY <1>q DEF QueueInv
  <2> QED BY <1>0, <1>u, <2>1, <2>2, <2>3 DEF QueueInv
<1>4. TakenInv'
  <2> SUFFICES ASSUME NEW i \in DOMAIN queue', queue'[i] # End
               PROVE  /\ \A j \in DOMAIN rows : rows[j] < queue'[i]
                      /\ \A q \in Readers : reader'[q] = "write" => hand'[q] < queue'[i]
    BY <1>0 DEF TakenInv
  <2>1. i + 1 \in DOMAIN queue /\ 1 < i + 1 /\ queue'[i] = queue[i + 1]
    BY <1>q
  <2>2. x < queue'[i]
    BY <1>q, <2>1 DEF QueueInv
  <2> QED BY <1>u, <2>1, <2>2 DEF TakenInv
<1>5. HandInv'
  <2>1. ~Written(x)
    <3>1. \A j \in DOMAIN rows : rows[j] < x
      BY <1>q DEF TakenInv
    <3> QED BY <1>x, <3>1 DEF Written
  <2>2. \A q \in Readers : reader[q] = "write" => hand[q] < x
    BY <1>q DEF TakenInv
  <2>3. \A q \in Readers : reader[q] = "write" => hand[q] # x
    BY <1>x, <2>2
  <2>4. \A q \in Readers : reader'[q] = "write" =>
          hand'[q] \in Readings /\ ~Written(hand'[q])
    BY <1>u, <1>x, <2>1 DEF HandInv
  <2>5. \A q, p \in Readers : reader'[q] = "write" /\ reader'[p] = "write" /\ q # p
          => hand'[q] # hand'[p]
    BY <1>u, <2>3 DEF HandInv
  <2>6. \A q \in Readers : reader'[q] = "write" => ~Written(hand[q])' \/ q = r
    BY <1>u, <2>4
  <2>7. \A k : Written(k)' <=> \E i \in DOMAIN rows : rows[i] = k
    BY <1>0 DEF Written
  <2> QED BY <1>u, <2>4, <2>5, <2>7 DEF HandInv, Written
<1>6. RowsInv'
  BY <1>0, <1>u DEF RowsInv
<1>7. PlacedInv'
  <2> SUFFICES ASSUME NEW k \in Readings
               PROVE  Written(k)' \/ Held(k)' \/ Queued(k)'
    BY <1>u DEF PlacedInv
  <2>1. Held(k) => Held(k)'
    <3> SUFFICES ASSUME NEW q \in Readers, reader[q] = "write", hand[q] = k
                 PROVE  Held(k)'
      BY DEF Held
    <3>1. q # r
      BY <1>0
    <3> QED BY <1>u, <3>1 DEF Held
  <2>2. k = x => Held(k)'
    BY <1>u DEF Held
  <2>3. Queued(k) => k = x \/ Queued(k)'
    BY <1>q DEF Queued
  <2> QED BY <1>0, <1>u, <2>1, <2>2, <2>3 DEF PlacedInv
<1>8. Drained'
  BY <1>0, <1>u DEF Drained
<1>9. RowsComplete' /\ DroppedInv' /\ FaultOnlyAbandoned'
  BY <1>0 DEF RowsComplete, DroppedInv, FaultOnlyAbandoned
<1> QED BY <1>1, <1>2, <1>3, <1>4, <1>5, <1>6, <1>7, <1>8, <1>9

(* A reader writes what it holds: from its hand into the file. *)
LEMMA WriteRowStep ==
  ASSUME ReadersInv, NEW r \in Readers, WriteRow(r)
  PROVE  ReadersInv'
<1> USE DEF ReadersInv, feedVars
<1> DEFINE x == hand[r]
<1>0. /\ reader \in [Readers -> {"none", "remove", "blocked", "write", "done"}]
      /\ rows \in Seq(Nat) /\ x \in Nat
      /\ reader' = [reader EXCEPT ![r] = "remove"] /\ reader[r] = "write"
      /\ rows' = Append(rows, x) /\ main \in {"feed", "mark", "join"}
      /\ UNCHANGED <<main, created, buf, queue, fed, ends, lost, markers, unmarked, hand, fault>>
      /\ x \in Readings /\ ~Written(x)
  BY DEF WriteRow, TypeOK, PhaseInv, Over, HandInv
<1>w. /\ rows' \in Seq(Nat)
      /\ DOMAIN rows = 1..Len(rows) /\ Len(rows) \in Nat
      /\ \A i \in DOMAIN rows : i \in DOMAIN rows' /\ rows'[i] = rows[i]
      /\ Len(rows) + 1 \in DOMAIN rows' /\ rows'[Len(rows) + 1] = x
      /\ \A i \in DOMAIN rows' : i \in DOMAIN rows \/ i = Len(rows) + 1
  BY <1>0, AppendFacts
<1>u. /\ \A q \in Readers : reader'[q] = "write" <=> reader[q] = "write" /\ q # r
      /\ \A q \in Readers : reader'[q] # "none" <=> reader[q] # "none"
      /\ \A q \in Readers : reader'[q] = "done" <=> reader[q] = "done"
      /\ Readings' = Readings
  BY <1>0 DEF Readings
<1>x. \A k : Written(k)' <=> Written(k) \/ k = x
  BY <1>w DEF Written
<1>1. TypeOK'
  BY <1>0, <1>w DEF TypeOK
<1>2. PhaseInv'
  BY <1>0, <1>u DEF PhaseInv
<1>3. QueueInv'
  BY <1>0, <1>u DEF QueueInv
<1>4. TakenInv'
  BY <1>0, <1>w, <1>u DEF TakenInv
<1>5. HandInv'
  <2>1. \A q \in Readers : reader'[q] = "write" => hand[q] \in Readings /\ hand[q] # x
    BY <1>0, <1>u DEF HandInv
  <2>2. \A q \in Readers : reader'[q] = "write" => ~(\E i \in DOMAIN rows' : rows'[i] = hand[q])
    BY <1>w, <1>u, <2>1 DEF HandInv, Written
  <2> QED BY <1>0, <1>u, <2>1, <2>2 DEF HandInv, Written
<1>6. RowsInv'
  BY <1>0, <1>w, <1>u DEF RowsInv, Written
<1>7. PlacedInv'
  <2> SUFFICES ASSUME buf = "live", NEW k \in Readings
               PROVE  Written(k)' \/ Held(k)' \/ Queued(k)'
    BY <1>0, <1>u DEF PlacedInv
  <2>1. Held(k) => k = x \/ Held(k)'
    <3> SUFFICES ASSUME NEW q \in Readers, reader[q] = "write", hand[q] = k, k # x
                 PROVE  Held(k)'
      BY DEF Held
    <3>1. q # r
      OBVIOUS
    <3> QED BY <1>0, <1>u, <3>1 DEF Held
  <2>2. Queued(k) => Queued(k)'
    BY <1>0 DEF Queued
  <2> QED BY <1>x, <2>1, <2>2 DEF PlacedInv
<1>8. Drained'
  BY <1>0, <1>u DEF Drained
<1>9. RowsComplete' /\ DroppedInv' /\ FaultOnlyAbandoned'
  BY <1>0 DEF RowsComplete, DroppedInv, FaultOnlyAbandoned
<1> QED BY <1>1, <1>2, <1>3, <1>4, <1>5, <1>6, <1>7, <1>8, <1>9

-----------------------------------------------------------------------------
LEMMA NextInv == ReadersInv /\ [Next]_vars => ReadersInv'
<1> SUFFICES ASSUME ReadersInv, [Next]_vars PROVE ReadersInv'
  OBVIOUS
<1>1. CASE InitBuffer
  <2>1. main = "init" => buf = "none"
    BY DEF ReadersInv, PhaseInv
  <2> QED BY <1>1, <2>1, MainStep DEF InitBuffer
<1>2. CASE OpenOutput
  BY <1>2, MainStep DEF OpenOutput
<1>3. CASE CreateFails
  BY <1>3, MainStep DEF CreateFails
<1>4. CASE OpenInput
  BY <1>4, MainStep DEF OpenInput
<1>5. ASSUME NEW r \in Readers, CreateReader(r)
      PROVE  ReadersInv'
  BY <1>5, CreateReaderStep
<1>6. ASSUME NEW d \in {End, fed + 1}, Feed(d)
      PROVE  ReadersInv'
  BY <1>6, FeedStep
<1>7. CASE EndOfFile
  BY <1>7, MainStep DEF EndOfFile
<1>8. CASE Mark
  BY <1>8, MarkStep
<1>9. CASE Join
  BY <1>9, JoinStep
<1>10. CASE Abandon
  BY <1>10, AbandonStep
<1>11. CASE Destroy
  BY <1>11, MainStep DEF Destroy
<1>12. ASSUME NEW r \in Readers, RemoveLast(r)
       PROVE  ReadersInv'
  BY <1>12, ReaderStep DEF RemoveLast
<1>13. ASSUME NEW r \in Readers, Remove(r)
       PROVE  ReadersInv'
  BY <1>13, RemoveStep
<1>14. ASSUME NEW r \in Readers, Block(r)
       PROVE  ReadersInv'
  BY <1>14, ReaderStep DEF Block
<1>15. ASSUME NEW r \in Readers, RemoveFreed(r)
       PROVE  ReadersInv'
  BY <1>15, RemoveFreedStep
<1>16. ASSUME NEW r \in Readers, WriteRow(r)
       PROVE  ReadersInv'
  BY <1>16, WriteRowStep
<1>17. ASSUME NEW r \in Readers, SpuriousWakeup(r)
       PROVE  ReadersInv'
  BY <1>17, ReaderStep DEF SpuriousWakeup
<1>18. CASE UNCHANGED vars
  BY <1>18 DEF vars, ReadersInv, TypeOK, PhaseInv, QueueInv, TakenInv, HandInv, RowsInv,
               PlacedInv, Drained, RowsComplete, DroppedInv, FaultOnlyAbandoned, Readings, Written,
               Held, Queued
<1> QED BY <1>1, <1>2, <1>3, <1>4, <1>5, <1>6, <1>7, <1>8, <1>9, <1>10, <1>11, <1>12,
           <1>13, <1>14, <1>15, <1>16, <1>17, <1>18 DEF Next, Main, Reader

(* Every reading is in the buffer, in one reader's hand or in one row, and in
   no two of these places. *)
LEMMA InvEachOnce == ReadersInv => EachOnce
<1> SUFFICES ASSUME ReadersInv PROVE EachOnce
  OBVIOUS
<1> USE DEF ReadersInv
<1>1. \A k \in Readings : Written(k) \/ Held(k) \/ (buf = "live" => Queued(k))
  BY DEF PlacedInv
<1>2. ASSUME NEW k \in 1..fed
      PROVE  ~(Queued(k) /\ Held(k)) /\ ~(Queued(k) /\ Written(k)) /\ ~(Held(k) /\ Written(k))
  <2>1. k \in Nat /\ k # End
    BY DEF TypeOK, End
  <2>2. ~(Queued(k) /\ Held(k))
    BY <2>1 DEF Queued, Held, TakenInv
  <2>3. ~(Queued(k) /\ Written(k))
    BY <2>1 DEF Queued, Written, TakenInv
  <2>4. ~(Held(k) /\ Written(k))
    BY DEF Held, HandInv
  <2> QED BY <2>2, <2>3, <2>4
<1>3. /\ \A r, q \in Readers : reader[r] = "write" /\ reader[q] = "write" /\ r # q
                                => hand[r] # hand[q]
      /\ \A i, j \in DOMAIN rows : i # j => rows[i] # rows[j]
      /\ \A i \in DOMAIN rows : rows[i] \in Readings
  BY DEF HandInv, RowsInv
<1> QED BY <1>1, <1>2, <1>3 DEF EachOnce

(* A reading that a later one has overtaken is in a hand, because what is still
   in the buffer is later than every row. *)
LEMMA InvOvertaken == ReadersInv => OvertakenInHand
<1> SUFFICES ASSUME ReadersInv, NEW k \in Readings, NEW i \in DOMAIN rows,
                    k < rows[i], ~Written(k), ~Held(k)
             PROVE  FALSE
  BY DEF OvertakenInHand
<1> USE DEF ReadersInv
<1>1. k \in Nat /\ k # End /\ rows[i] \in Nat
  BY ReadingBounds DEF RowsInv
<1>2. CASE buf = "live"
  <2>1. PICK j \in DOMAIN queue : queue[j] = k
    BY <1>2 DEF PlacedInv, Queued
  <2>2. rows[i] < k
    BY <1>1, <2>1 DEF TakenInv
  <2> QED BY <1>1, <2>2
<1>3. CASE buf # "live"
  <2>1. main = "returned" \/ fed = 0
    BY <1>3 DEF PhaseInv, TypeOK
  <2>2. fed # 0
    BY NothingFed
  <2>3. rows[i] < k
    BY <2>1, <2>2 DEF DroppedInv
  <2> QED BY <1>1, <2>3
<1> QED BY <1>2, <1>3

(* The inductive invariant of main, buffer and readers. *)
THEOREM ReadersInvariance == Spec => []ReadersInv
BY InitInv, NextInv, PTL DEF Spec

(* No reading is lost, duplicated or in two places, whatever the interleaving
   of main and any number of readers. *)
THEOREM NoneLostNoneTwice == Spec => []EachOnce
BY ReadersInvariance, InvEachOnce, PTL

(* Rows leave the order of the file only by what other readers hold. *)
THEOREM AlmostInOrder == Spec => []OvertakenInHand
BY ReadersInvariance, InvOvertaken, PTL

(* When main returns every reading in front of the first end marker has been
   written. *)
THEOREM FileComplete == Spec => []RowsComplete
<1>1. ReadersInv => RowsComplete
  BY DEF ReadersInv
<1> QED BY <1>1, ReadersInvariance, PTL

(* The freed buffer is used only after main gave up with readers running. *)
THEOREM FaultCause == Spec => []FaultOnlyAbandoned
<1>1. ReadersInv => FaultOnlyAbandoned
  BY DEF ReadersInv
<1> QED BY <1>1, ReadersInvariance, PTL

-----------------------------------------------------------------------------
(* Signals and sleeping readers. *)

LEMMA BlockedCount ==
  ASSUME NEW B, B \subseteq Readers
  PROVE  IsFiniteSet(B) /\ Cardinality(B) \in Nat /\ Cardinality(B) <= Cardinality(Readers)
BY FS_Subset, FS_CardinalityType

LEMMA EndsCount ==
  ASSUME TypeOK
  PROVE  IsFiniteSet(EndsQueued) /\ Cardinality(EndsQueued) \in Nat
<1>1. EndsQueued \subseteq 1..Len(queue) /\ Len(queue) \in Nat
  BY DEF EndsQueued, TypeOK
<1>2. IsFiniteSet(1..Len(queue))
  BY <1>1, FS_Interval
<1> QED BY <1>1, <1>2, FS_Subset, FS_CardinalityType

(* A signal takes one reader from those who sleep. *)
LEMMA SignalCount ==
  ASSUME TypeOK, Signal
  PROVE  \/ Blocked = {} /\ Blocked' = {} /\ UNCHANGED reader
         \/ /\ Cardinality(Blocked') = Cardinality(Blocked) - 1
            /\ \E r \in Readers : reader'[r] = "remove"
<1>1. CASE \A r \in Readers : reader[r] # "blocked"
  BY <1>1 DEF Signal, Blocked
<1>2. CASE \E r \in Readers : reader[r] = "blocked" /\ reader' = [reader EXCEPT ![r] = "remove"]
  <2>1. PICK r \in Readers : reader[r] = "blocked" /\ reader' = [reader EXCEPT ![r] = "remove"]
    BY <1>2
  <2>2. Blocked' = Blocked \ {r} /\ r \in Blocked /\ reader'[r] = "remove"
    BY <2>1 DEF TypeOK, Blocked
  <2>3. IsFiniteSet(Blocked)
    BY BlockedCount DEF Blocked
  <2> QED BY <2>2, <2>3, FS_RemoveElement
<1> QED BY <1>1, <1>2 DEF Signal

(* The markers in the buffer after an insertion. *)
LEMMA InsertEnds ==
  ASSUME TypeOK, NEW d \in Nat, queue' = Append(queue, d)
  PROVE  /\ queue' # <<>>
         /\ d # End => EndsQueued' = EndsQueued
         /\ d = End => /\ EndsQueued' # {}
                       /\ Cardinality(EndsQueued') = Cardinality(EndsQueued) + 1
<1>1. /\ queue \in Seq(Nat) /\ Len(queue) \in Nat
      /\ DOMAIN queue = 1..Len(queue) /\ DOMAIN queue' = 1..(Len(queue) + 1)
      /\ \A i \in DOMAIN queue : queue'[i] = queue[i]
      /\ queue'[Len(queue) + 1] = d
      /\ \A i \in DOMAIN queue' : i \in DOMAIN queue \/ i = Len(queue) + 1
  BY AppendFacts DEF TypeOK
<1>2. queue' # <<>>
  BY <1>1
<1>3. CASE d # End
  BY <1>1, <1>2, <1>3 DEF EndsQueued
<1>4. CASE d = End
  <2>1. EndsQueued' = EndsQueued \cup {Len(queue) + 1} /\ Len(queue) + 1 \notin EndsQueued
    BY <1>1, <1>4 DEF EndsQueued
  <2> QED BY <1>2, <1>4, <2>1, EndsCount, FS_AddElement
<1> QED BY <1>3, <1>4

LEMMA InsertWakes ==
  ASSUME ReadersInv, StartedInv, WakeupsSuffice, buf = "live", UNCHANGED buf,
         main \in {"feed", "mark"}, NEW d \in Nat, Insert(d)
  PROVE  WakeupsSuffice'
<1> USE DEF ReadersInv
<1>1. /\ queue' # <<>>
      /\ d # End => EndsQueued' = EndsQueued
      /\ d = End => EndsQueued' # {} /\ Cardinality(EndsQueued') = Cardinality(EndsQueued) + 1
  BY InsertEnds DEF Insert
<1>2. \/ Blocked = {} /\ Blocked' = {} /\ UNCHANGED reader
      \/ /\ Cardinality(Blocked') = Cardinality(Blocked) - 1
         /\ \E r \in Readers : reader'[r] = "remove"
  BY SignalCount DEF Insert
<1>3. /\ Cardinality(Blocked) \in Nat /\ Cardinality(Blocked) <= Cardinality(Readers)
      /\ Cardinality(Blocked') \in Nat /\ Cardinality(Readers) \in Nat
  BY BlockedCount, FS_CardinalityType DEF Blocked
<1>4. Cardinality(EndsQueued) \in Nat
  BY EndsCount
<1>5. EndsQueued = {} => Cardinality(EndsQueued) = 0
  BY FS_EmptySet
<1>6. CASE EndsQueued' = {}
  <2>1. EndsQueued = {}
    BY <1>1, <1>6
  <2>2. ASSUME UNCHANGED reader, Blocked = {}
        PROVE  \E r \in Readers : reader'[r] \in {"remove", "write"}
    <3>1. \A r \in Readers : reader[r] \in {"remove", "write", "done"}
      BY <2>2 DEF TypeOK, StartedInv, Blocked
    <3>2. ASSUME NEW r \in Readers, reader[r] = "done"
          PROVE  FALSE
      <4>1. queue # <<>> /\ Head(queue) = End
        BY <3>2 DEF Drained
      <4>2. 1 \in EndsQueued
        BY <4>1, TailFacts DEF EndsQueued, TypeOK
      <4> QED BY <2>1, <4>2
    <3> QED BY <2>2, <3>1, <3>2
  <2> QED BY <1>2, <1>6, <2>2 DEF WakeupsSuffice
<1>7. CASE EndsQueued' # {} /\ EndsQueued = {}
  <2>1. Cardinality(EndsQueued') = 1
    BY <1>1, <1>5, <1>7
  <2>2. Blocked' = {} \/ Cardinality(Blocked') + Cardinality(EndsQueued') <= Cardinality(Readers)
    BY <1>2, <1>3, <2>1
  <2> QED BY <1>7, <2>2 DEF WakeupsSuffice
<1>8. CASE EndsQueued' # {} /\ EndsQueued # {}
  <2>1. queue # <<>>
    BY <1>8 DEF EndsQueued
  <2>2. Blocked = {} \/ Cardinality(Blocked) + Cardinality(EndsQueued) <= Cardinality(Readers)
    BY <1>8, <2>1 DEF WakeupsSuffice
  <2>3. Cardinality(EndsQueued') \in {Cardinality(EndsQueued), Cardinality(EndsQueued) + 1}
    BY <1>1
  <2>4. Blocked = {} => Blocked' = {}
    <3>1. Blocked = {} => Cardinality(Blocked) = 0
      BY FS_EmptySet
    <3> QED BY <1>2, <1>3, <3>1
  <2>5. Blocked' = {} \/ Cardinality(Blocked') + Cardinality(EndsQueued') <= Cardinality(Readers)
    BY <1>2, <1>3, <1>4, <2>2, <2>3, <2>4
  <2> QED BY <1>8, <2>5 DEF WakeupsSuffice
<1> QED BY <1>6, <1>7, <1>8

(* Taking a reading moves the markers without changing their number. *)
LEMMA RemoveEnds ==
  ASSUME TypeOK, queue # <<>>, Head(queue) # End, queue' = Tail(queue)
  PROVE  /\ EndsQueued' = {} <=> EndsQueued = {}
         /\ Cardinality(EndsQueued') = Cardinality(EndsQueued)
<1>1. /\ Len(queue) \in Nat /\ DOMAIN queue = 1..Len(queue)
      /\ DOMAIN queue' = 1..(Len(queue) - 1) /\ queue[1] # End
      /\ \A i \in DOMAIN queue' : queue'[i] = queue[i + 1]
  BY DEF TypeOK
<1> DEFINE f == [i \in EndsQueued |-> i - 1]
<1>2. ASSUME NEW i \in EndsQueued
      PROVE  i - 1 \in EndsQueued'
  <2>1. i \in 1..Len(queue) /\ queue[i] = End /\ i # 1
    BY <1>1 DEF EndsQueued
  <2>2. i - 1 \in DOMAIN queue' /\ queue'[i - 1] = queue[(i - 1) + 1] /\ (i - 1) + 1 = i
    BY <1>1, <2>1
  <2> QED BY <2>1, <2>2 DEF EndsQueued
<1>3. ASSUME NEW j \in EndsQueued'
      PROVE  j + 1 \in EndsQueued /\ (j + 1) - 1 = j
  BY <1>1 DEF EndsQueued
<1>4. f \in Bijection(EndsQueued, EndsQueued')
  <2>1. f \in [EndsQueued -> EndsQueued']
    BY <1>2
  <2>2. \A i, k \in EndsQueued : f[i] = f[k] => i = k
    BY <1>1 DEF EndsQueued
  <2>3. \A j \in EndsQueued' : \E i \in EndsQueued : f[i] = j
    BY <1>3
  <2> QED BY <2>1, <2>2, <2>3 DEF Bijection, Injection, Surjection, IsInjective
<1>5. ExistsBijection(EndsQueued, EndsQueued')
  BY <1>4 DEF ExistsBijection
<1> QED BY <1>2, <1>3, <1>5, EndsCount, FS_Bijection

(* Steps that do not touch the buffer and put no reader to sleep. *)
LEMMA AwakeStep ==
  ASSUME TypeOK, WakeupsSuffice, UNCHANGED queue, buf' = "live" => buf = "live",
         \A r \in Readers : reader'[r] = "blocked" => reader[r] = "blocked",
         EndsQueued = {} => \A r \in Readers : reader[r] \in {"remove", "write"}
                                     => reader'[r] \in {"remove", "write"}
  PROVE  WakeupsSuffice'
<1>1. Blocked' \subseteq Blocked /\ EndsQueued' = EndsQueued
  BY DEF Blocked, EndsQueued
<1>2. Cardinality(Blocked') <= Cardinality(Blocked) /\ Cardinality(Blocked') \in Nat
      /\ Cardinality(Blocked) \in Nat
  BY <1>1, BlockedCount, FS_Subset DEF Blocked
<1>3. Cardinality(EndsQueued) \in Nat /\ Cardinality(Readers) \in Nat
  BY EndsCount, FS_CardinalityType
<1> QED BY <1>1, <1>2, <1>3 DEF WakeupsSuffice

LEMMA RemoveWakes ==
  ASSUME TypeOK, WakeupsSuffice, NEW r \in Readers, Remove(r)
  PROVE  WakeupsSuffice'
<1>1. /\ queue # <<>> /\ Head(queue) # End /\ queue' = Tail(queue) /\ UNCHANGED buf
      /\ reader' = [reader EXCEPT ![r] = "write"] /\ reader[r] = "remove"
  BY DEF Remove
<1>2. (EndsQueued' = {} <=> EndsQueued = {})
      /\ Cardinality(EndsQueued') = Cardinality(EndsQueued)
  BY <1>1, RemoveEnds
<1>3. Blocked' = Blocked /\ reader'[r] = "write"
  BY <1>1 DEF Blocked, TypeOK
<1> QED BY <1>1, <1>2, <1>3 DEF WakeupsSuffice

LEMMA StartedStep ==
  ASSUME ReadersInv, StartedInv, [Next]_vars
  PROVE  StartedInv'
<1> USE DEF ReadersInv, StartedInv, TypeOK
<1>1. ASSUME NEW r \in Readers, CreateReader(r)
      PROVE  StartedInv'
  BY <1>1 DEF CreateReader
<1>2. CASE InitBuffer \/ OpenOutput \/ CreateFails \/ OpenInput \/ EndOfFile \/ Join
             \/ Abandon \/ Destroy \/ UNCHANGED vars
  BY <1>2 DEF InitBuffer, OpenOutput, CreateFails, OpenInput, EndOfFile, Join, Abandon,
              Destroy, rdVars, vars
<1>3. ASSUME NEW d \in {End, fed + 1}, Feed(d)
      PROVE  StartedInv'
  BY <1>3 DEF Feed, Insert, Signal
<1>4. CASE Mark
  BY <1>4 DEF Mark, Insert, Signal
<1>5. ASSUME NEW r \in Readers, Reader(r) \/ SpuriousWakeup(r)
      PROVE  StartedInv'
  BY <1>5 DEF Reader, RemoveLast, Remove, Block, RemoveFreed, WriteRow, SpuriousWakeup
<1> QED BY <1>1, <1>2, <1>3, <1>4, <1>5 DEF Next, Main

LEMMA WakeStep ==
  ASSUME ReadersInv, StartedInv, WakeupsSuffice, [Next]_vars
  PROVE  WakeupsSuffice'
<1> USE DEF ReadersInv
<1>1. CASE InitBuffer
  BY <1>1 DEF InitBuffer, PhaseInv, WakeupsSuffice
<1>2. CASE OpenOutput \/ CreateFails \/ OpenInput \/ EndOfFile \/ Destroy \/ UNCHANGED vars
  BY <1>2, AwakeStep DEF OpenOutput, CreateFails, OpenInput, EndOfFile, Destroy, rdVars, vars
<1>3. ASSUME NEW r \in Readers, CreateReader(r)
      PROVE  WakeupsSuffice'
  BY <1>3 DEF CreateReader, PhaseInv, WakeupsSuffice
<1>4. ASSUME NEW d \in {End, fed + 1}, Feed(d)
      PROVE  WakeupsSuffice'
  <2>1. d \in Nat /\ buf = "live" /\ UNCHANGED buf /\ main = "feed"
    BY <1>4 DEF Feed, PhaseInv, TypeOK, End
  <2>2. CASE Insert(d)
    BY <2>1, <2>2, InsertWakes
  <2>3. CASE UNCHANGED <<queue, reader>>
    BY <2>1, <2>3, AwakeStep
  <2> QED BY <1>4, <2>2, <2>3 DEF Feed
<1>5. CASE Mark
  <2>1. End \in Nat /\ buf = "live" /\ UNCHANGED buf /\ main = "mark"
    BY <1>5 DEF Mark, PhaseInv, TypeOK, End
  <2>2. CASE Insert(End)
    BY <2>1, <2>2, InsertWakes
  <2>3. CASE UNCHANGED <<queue, reader>>
    BY <2>1, <2>3, AwakeStep
  <2> QED BY <1>5, <2>2, <2>3 DEF Mark
<1>6. CASE Join \/ Abandon
  BY <1>6 DEF Join, Abandon, WakeupsSuffice
<1>7. ASSUME NEW r \in Readers, RemoveLast(r)
      PROVE  WakeupsSuffice'
  <2>1. EndsQueued # {}
    BY <1>7, TailFacts DEF RemoveLast, EndsQueued, TypeOK
  <2> QED BY <1>7, <2>1, AwakeStep DEF RemoveLast, TypeOK
<1>8. ASSUME NEW r \in Readers, Remove(r)
      PROVE  WakeupsSuffice'
  BY <1>8, RemoveWakes
<1>9. ASSUME NEW r \in Readers, Block(r) \/ RemoveFreed(r)
      PROVE  WakeupsSuffice'
  BY <1>9 DEF Block, RemoveFreed, WakeupsSuffice
<1>10. ASSUME NEW r \in Readers, WriteRow(r) \/ SpuriousWakeup(r)
       PROVE  WakeupsSuffice'
  BY <1>10, AwakeStep DEF WriteRow, SpuriousWakeup, TypeOK
<1> QED BY <1>1, <1>2, <1>3, <1>4, <1>5, <1>6, <1>7, <1>8, <1>9, <1>10 DEF Next, Main, Reader

(* One signal per record is enough, however many readers sleep: a record is
   never left to sleeping readers only, and there is an end marker for each. *)
THEOREM SignalsSuffice == Spec => []WakeupsSuffice
<1>1. Init => StartedInv /\ WakeupsSuffice
  BY DEF Init, StartedInv, WakeupsSuffice
<1>2. ReadersInv /\ StartedInv /\ WakeupsSuffice /\ [Next]_vars => StartedInv' /\ WakeupsSuffice'
  BY StartedStep, WakeStep
<1> QED BY <1>1, <1>2, ReadersInvariance, PTL DEF Spec
=============================================================================
