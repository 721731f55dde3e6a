----------------------------- MODULE TwoReaders -----------------------------
(***************************************************************************)
(* The buffer program of milestone 3: main feeds the records of a file to  *)
(* a buffer from which several readers take them and write them to a CSV   *)
(* file.  One mutex guards the buffer and one condition variable, which    *)
(* sbuffer_insert signals before it unlocks the mutex, announces data.  An *)
(* end marker is never removed, so that every reader can see it; main      *)
(* inserts one per reader because each signal wakes a single reader.       *)
(*                                                                         *)
(* The k-th record of the file is the number k, an end marker (sensor id   *)
(* 0) is End.  A critical section is one action.  The program keeps the    *)
(* list in one piece, so the queue is a sequence here; SBuffer.tla has the *)
(* pointers of its successor.                                              *)
(***************************************************************************)
EXTENDS Naturals, Sequences, FiniteSets

CONSTANTS
  Readers,      \* the reader threads; the program has two
  Faults,       \* what may fail: "init", "output", "thread", "input", "insert"
  MaxRecords    \* bound: records in the file

End == 0

ASSUME ReadersAssumption == IsFiniteSet(Readers) /\ Readers # {}
ASSUME BoundAssumption   == MaxRecords \in Nat

VARIABLES
  main,     \* where main is
  created,  \* the reader threads that exist
  buf,      \* "none", "live" or "gone": *buffer, its mutex and its condition
  queue,    \* the records in the buffer, oldest first
  fed,      \* records of the file main has tried to insert
  ends,     \* history: those of them with sensor id 0
  lost,     \* history: those sbuffer_insert had no memory for
  markers,  \* end markers main has still to insert
  unmarked, \* a marker was lost for want of memory
  reader,   \* reader[r]: where reader r is
  hand,     \* hand[r]: its received_data
  rows,     \* the rows of sensor_data_out.csv
  fault     \* a reader used the buffer after it had been freed

feedVars == <<fed, ends, lost, markers, unmarked>>
rdVars   == <<reader, hand, rows, fault>>
vars     == <<main, created, buf, queue, fed, ends, lost, markers, unmarked,
              reader, hand, rows, fault>>

TypeOK ==
  /\ main \in {"init", "output", "create", "input", "feed", "mark", "join",
               "abandon", "destroy", "stuck", "failed", "returned"}
  /\ created \subseteq Readers
  /\ buf \in {"none", "live", "gone"}
  /\ queue \in Seq(Nat) /\ rows \in Seq(Nat)
  /\ fed \in Nat /\ ends \subseteq 1..fed /\ lost \subseteq 1..fed
  /\ markers \in Nat /\ unmarked \in BOOLEAN
  /\ reader \in [Readers -> {"none", "remove", "blocked", "write", "done"}]
  /\ hand \in [Readers -> Nat]
  /\ fault \in BOOLEAN

Init ==
  /\ main = "init" /\ created = {} /\ buf = "none" /\ queue = <<>>
  /\ fed = 0 /\ ends = {} /\ lost = {}
  /\ markers = Cardinality(Readers) /\ unmarked = FALSE
  /\ reader = [r \in Readers |-> "none"] /\ hand = [r \in Readers |-> End]
  /\ rows = <<>> /\ fault = FALSE

Over == main \in {"failed", "returned"}   \* the process has ended

-----------------------------------------------------------------------------
(* main, up to the loop. *)

InitBuffer ==
  /\ main = "init"
  /\ \/ main' = "output" /\ buf' = "live"
     \/ "init" \in Faults /\ main' = "failed" /\ UNCHANGED buf
  /\ UNCHANGED <<created, queue, feedVars, rdVars>>

OpenOutput ==
  /\ main = "output"
  /\ \/ main' = "create"
     \/ "output" \in Faults /\ main' = "abandon"
  /\ UNCHANGED <<created, buf, queue, feedVars, rdVars>>

CreateReader(r) ==
  /\ main = "create" /\ r \notin created
  /\ created' = created \cup {r}
  /\ reader' = [reader EXCEPT ![r] = "remove"]
  /\ main' = IF created' = Readers THEN "input" ELSE "create"
  /\ UNCHANGED <<buf, queue, feedVars, hand, rows, fault>>

CreateFails ==
  /\ main = "create" /\ "thread" \in Faults
  /\ main' = "abandon"
  /\ UNCHANGED <<created, buf, queue, feedVars, rdVars>>

OpenInput ==
  /\ main = "input"
  /\ \/ main' = "feed"
     \/ "input" \in Faults /\ main' = "abandon"
  /\ UNCHANGED <<created, buf, queue, feedVars, rdVars>>

-----------------------------------------------------------------------------
(* sbuffer_insert *)

(* pthread_cond_signal wakes one of those who wait, if any. *)
Signal ==
  \/ \E r \in Readers : reader[r] = "blocked" /\ reader' = [reader EXCEPT ![r] = "remove"]
  \/ (\A r \in Readers : reader[r] # "blocked") /\ UNCHANGED reader

(* Mutant: data is announced only when the buffer was empty. *)
Insert_SignalFirst(d) ==
  /\ queue' = Append(queue, d)
  /\ IF queue = <<>> THEN Signal ELSE UNCHANGED reader

(* Mutant: new records go to the front. *)
Insert_Front(d) == queue' = <<d>> \o queue /\ Signal

Insert(d) == queue' = Append(queue, d) /\ Signal

(* main inserts the next record, which may be one with sensor id 0; it does
   not look at the result. *)
Feed(d) ==
  /\ main = "feed" /\ fed < MaxRecords
  /\ d \in {End, fed + 1}
  /\ fed' = fed + 1
  /\ ends' = IF d = End THEN ends \cup {fed + 1} ELSE ends
  /\ \/ Insert(d) /\ UNCHANGED lost
     \/ "insert" \in Faults /\ lost' = lost \cup {fed + 1} /\ UNCHANGED <<queue, reader>>
  /\ UNCHANGED <<main, created, buf, markers, unmarked, hand, rows, fault>>

EndOfFile ==
  /\ main = "feed"
  /\ main' = "mark"
  /\ UNCHANGED <<created, buf, queue, feedVars, rdVars>>

(* Mutant: one marker, whatever the number of readers. *)
Mark_Once ==
  /\ main = "mark" /\ markers > 0
  /\ markers' = 0
  /\ main' = "join"
  /\ Insert(End) /\ UNCHANGED unmarked
  /\ UNCHANGED <<created, buf, fed, ends, lost, hand, rows, fault>>

Mark ==
  /\ main = "mark" /\ markers > 0
  /\ markers' = markers - 1
  /\ main' = IF markers' = 0 THEN "join" ELSE "mark"
  /\ \/ Insert(End) /\ UNCHANGED unmarked
     \/ "insert" \in Faults /\ unmarked' = TRUE /\ UNCHANGED <<queue, reader>>
  /\ UNCHANGED <<created, buf, fed, ends, lost, hand, rows, fault>>

-----------------------------------------------------------------------------
(* The end of main. *)

(* Mutant: main waits for one of its readers. *)
Join_One ==
  /\ main = "join" /\ \E r \in Readers : reader[r] = "done"
  /\ main' = "returned" /\ buf' = "gone" /\ queue' = <<>>
  /\ UNCHANGED <<created, feedVars, rdVars>>

(* Mutant: the buffer is freed before the second reader has returned. *)
Join_Frees ==
  /\ main = "join" /\ \E r \in Readers : reader[r] = "done"
  /\ main' = "destroy" /\ buf' = "gone" /\ queue' = <<>>
  /\ UNCHANGED <<created, feedVars, rdVars>>

(* Both readers have returned: the files are closed and the buffer is freed
   with whatever it still holds. *)
Join ==
  /\ main = "join" /\ \A r \in Readers : reader[r] = "done"
  /\ main' = "returned" /\ buf' = "gone" /\ queue' = <<>>
  /\ UNCHANGED <<created, feedVars, rdVars>>

(* An error while readers may be running: the buffer is freed under them. *)
Abandon ==
  /\ main = "abandon"
  /\ main' = "destroy" /\ buf' = "gone" /\ queue' = <<>>
  /\ UNCHANGED <<created, feedVars, rdVars>>

(* sbuffer_free destroys the mutex and the condition variable.  Destroying a
   condition variable that threads wait on is undefined: main may hang. *)
Destroy ==
  /\ main = "destroy"
  /\ \/ main' = "failed"
     \/ (\E r \in Readers : reader[r] = "blocked") /\ main' = "stuck"
  /\ UNCHANGED <<created, buf, queue, feedVars, rdVars>>

-----------------------------------------------------------------------------
(* The readers. *)

(* sbuffer_remove finds the end marker and leaves it there; the thread ends. *)
RemoveLast(r) ==
  /\ reader[r] = "remove" /\ ~Over /\ buf = "live"
  /\ queue # <<>> /\ Head(queue) = End
  /\ reader' = [reader EXCEPT ![r] = "done"]
  /\ UNCHANGED <<main, created, buf, queue, feedVars, hand, rows, fault>>

(* Mutant: the record is copied but stays in the buffer. *)
Remove_Keeps(r) ==
  /\ reader[r] = "remove" /\ ~Over /\ buf = "live"
  /\ queue # <<>> /\ Head(queue) # End
  /\ hand' = [hand EXCEPT ![r] = Head(queue)]
  /\ queue' = IF Len(queue) = 1 THEN queue ELSE Tail(queue)
  /\ reader' = [reader EXCEPT ![r] = "write"]
  /\ UNCHANGED <<main, created, buf, feedVars, rows, fault>>

Remove(r) ==
  /\ reader[r] = "remove" /\ ~Over /\ buf = "live"
  /\ queue # <<>> /\ Head(queue) # End
  /\ hand' = [hand EXCEPT ![r] = Head(queue)]
  /\ queue' = Tail(queue)
  /\ reader' = [reader EXCEPT ![r] = "write"]
  /\ UNCHANGED <<main, created, buf, feedVars, rows, fault>>

Block(r) ==
  /\ reader[r] = "remove" /\ ~Over /\ buf = "live"
  /\ queue = <<>>
  /\ reader' = [reader EXCEPT ![r] = "blocked"]
  /\ UNCHANGED <<main, created, buf, queue, feedVars, hand, rows, fault>>

(* sbuffer_remove on the freed buffer; what the reader does next is undefined
   and of no interest. *)
RemoveFreed(r) ==
  /\ reader[r] = "remove" /\ ~Over /\ buf = "gone"
  /\ fault' = TRUE
  /\ reader' = [reader EXCEPT ![r] = "done"]
  /\ UNCHANGED <<main, created, buf, queue, feedVars, hand, rows>>

(* The row is written under the lock of the CSV file. *)
WriteRow(r) ==
  /\ reader[r] = "write" /\ ~Over
  /\ rows' = Append(rows, hand[r])
  /\ reader' = [reader EXCEPT ![r] = "remove"]
  /\ UNCHANGED <<main, created, buf, queue, feedVars, hand, fault>>

SpuriousWakeup(r) ==
  /\ reader[r] = "blocked" /\ ~Over
  /\ reader' = [reader EXCEPT ![r] = "remove"]
  /\ UNCHANGED <<main, created, buf, queue, feedVars, hand, rows, fault>>

-----------------------------------------------------------------------------
Main ==
  \/ InitBuffer \/ OpenOutput \/ CreateFails \/ OpenInput
  \/ \E r \in Readers : CreateReader(r)
  \/ \E d \in {End, fed + 1} : Feed(d)
  \/ EndOfFile \/ Mark \/ Join \/ Abandon \/ Destroy

Reader(r) == RemoveLast(r) \/ Remove(r) \/ Block(r) \/ RemoveFreed(r) \/ WriteRow(r)

Next == Main \/ \E r \in Readers : Reader(r) \/ SpuriousWakeup(r)

(***************************************************************************)
(* Each thread runs whenever it can.                                       *)
(***************************************************************************)
Spec == Init /\ [][Next]_vars /\ WF_vars(Main) /\ \A r \in Readers : WF_vars(Reader(r))

-----------------------------------------------------------------------------
(* Correctness. *)

Readings  == (1..fed) \ (ends \cup lost)         \* the readings that were inserted
Queued(k) == \E i \in DOMAIN queue : queue[i] = k
Held(k)   == \E r \in Readers : reader[r] = "write" /\ hand[r] = k
Written(k) == \E i \in DOMAIN rows : rows[i] = k

(* Two readers and main pass a record on without a lock that spans buffer and
   file; yet a reading is never in two places, in none, or written twice. *)
EachOnce ==
  /\ \A k \in Readings : Written(k) \/ Held(k) \/ (buf = "live" => Queued(k))
  /\ \A k \in 1..fed : ~(Queued(k) /\ Held(k)) /\ ~(Queued(k) /\ Written(k))
                       /\ ~(Held(k) /\ Written(k))
  /\ \A r, q \in Readers : reader[r] = "write" /\ reader[q] = "write" /\ r # q
                             => hand[r] # hand[q]
  /\ \A i, j \in DOMAIN rows : i # j => rows[i] # rows[j]
  /\ \A i \in DOMAIN rows : rows[i] \in Readings

(* The lock of the file says nothing about order.  A reading is overtaken only
   by the readings that other readers take while its own reader holds it. *)
OvertakenInHand ==
  \A k \in Readings : \A i \in DOMAIN rows :
    k < rows[i] /\ ~Written(k) => Held(k)

(* When a reader has seen an end marker no reading in front of the first one
   is left in the buffer. *)
Drained ==
  buf = "live" /\ (\E r \in Readers : reader[r] = "done") =>
    queue # <<>> /\ Head(queue) = End

(* Every reading in front of the first end marker is in the file when main
   returns from its last statement. *)
RowsComplete ==
  main = "returned" =>
    \A k \in Readings : (\A e \in ends \ lost : k < e) => Written(k)

Blocked == {r \in Readers : reader[r] = "blocked"}
EndsQueued == {i \in DOMAIN queue : queue[i] = End}

(* A signal wakes one reader, who may find that another has taken the record.
   Still a record is never left to readers who all sleep, and each end marker
   finds one reader fewer asleep (main.c:77). *)
WakeupsSuffice ==
  buf = "live" /\ queue # <<>> =>
    /\ EndsQueued = {} => \E r \in Readers : reader[r] \in {"remove", "write"}
    /\ EndsQueued # {} =>
         \/ Blocked = {}
         \/ Cardinality(Blocked) + Cardinality(EndsQueued) <= Cardinality(Readers)

(* The freed buffer is used on one path only: main gives up before it has read
   a record, while readers that it has already created are running (main.c:48
   and main.c:57). *)
FaultOnlyAbandoned ==
  fault => main \in {"destroy", "stuck", "failed"} /\ created # {} /\ fed = 0

(* main returns, by one of its exits, unless it lost an end marker or destroys
   the condition variable under a waiting reader. *)
MainEnds == <>(Over \/ unmarked \/ main = "stuck")

-----------------------------------------------------------------------------
(* The inductive invariant. *)

(* The readings in the buffer are in the order of the file; one that stands
   behind an end marker stands behind one of the file's own. *)
QueueInv ==
  /\ \A i \in DOMAIN queue : queue[i] # End => queue[i] \in Readings
  /\ \A i, j \in DOMAIN queue : i < j /\ queue[j] # End =>
       IF queue[i] # End THEN queue[i] < queue[j]
       ELSE \E e \in ends \ lost : e < queue[j]
  /\ main = "feed" => \A i \in DOMAIN queue : queue[i] = End => ends \ lost # {}

(* What has been taken was in front of everything that is still there. *)
TakenInv ==
  \A i \in DOMAIN queue : queue[i] # End =>
    /\ \A j \in DOMAIN rows : rows[j] < queue[i]
    /\ \A r \in Readers : reader[r] = "write" => hand[r] < queue[i]

HandInv ==
  /\ \A r \in Readers : reader[r] = "write" => hand[r] \in Readings /\ ~Written(hand[r])
  /\ \A r, q \in Readers : reader[r] = "write" /\ reader[q] = "write" /\ r # q
                             => hand[r] # hand[q]

RowsInv ==
  /\ \A i \in DOMAIN rows : rows[i] \in Readings
  /\ \A i, j \in DOMAIN rows : i # j => rows[i] # rows[j]

PlacedInv == buf = "live" => \A k \in Readings : Written(k) \/ Held(k) \/ Queued(k)

(* What main frees with the buffer is later than every row. *)
DroppedInv ==
  main = "returned" =>
    \A k \in Readings : ~Written(k) => \A i \in DOMAIN rows : rows[i] < k

(* Nothing is fed before both readers exist, and the buffer is freed either
   before that or after they have returned. *)
PhaseInv ==
  /\ main \notin {"feed", "mark", "join", "returned"} =>
       /\ fed = 0 /\ queue = <<>> /\ rows = <<>>
       /\ \A r \in Readers : reader[r] # "write"
  /\ buf = "gone" => main \in {"destroy", "stuck", "failed", "returned"}
  /\ main = "init" => buf = "none"
  /\ buf = "none" => main \in {"init", "failed"}
  /\ main = "returned" => \A r \in Readers : reader[r] = "done"
  /\ \A r \in Readers : reader[r] # "none" => r \in created
  /\ main \in {"init", "output"} => created = {}

(* Once main reads its file every reader has been started. *)
StartedInv ==
  /\ \A r \in created : reader[r] # "none"
  /\ main \in {"input", "feed", "mark", "join"} => created = Readers

ReadersInv ==
  /\ TypeOK /\ PhaseInv /\ QueueInv /\ TakenInv /\ HandInv /\ RowsInv /\ PlacedInv
  /\ DroppedInv
  /\ Drained /\ RowsComplete /\ FaultOnlyAbandoned
=============================================================================
