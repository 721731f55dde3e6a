------------------------------ MODULE SBuffer ------------------------------
(***************************************************************************)
(* The shared buffer of the sensor gateway (sbuffer.c) with the loops of   *)
(* its two consumers, the data manager (datamgr.c) and the storage manager *)
(* (sensor_db.c), and the clean-up main.c does when both have returned.    *)
(*                                                                         *)
(* The buffer is a linked list of heap nodes.  A node is inserted with     *)
(* stage 0; the data manager copies the first node of stage 0 and raises   *)
(* its stage to 1; the storage manager takes the head once its stage is 1. *)
(* One mutex guards the list.  The data manager sleeps on the condition    *)
(* variable "filled", the storage manager on "updated"; both are signalled *)
(* after the mutex has been released.  The record End has sensor id 0.     *)
(*                                                                         *)
(* Pointers are indices: the k-th node allocated has address k, NULL is 0. *)
(* Addresses are not reused, and memory that has been freed keeps its      *)
(* contents; using it sets "fault", after which the process may also abort *)
(* at any moment.                                                          *)
(*                                                                         *)
(* A critical section that neither waits nor loops is one action, enabled  *)
(* while the mutex is free.  The writers are the environment: any writer   *)
(* may insert any record, End included, at any time before the buffer is   *)
(* freed.  Gateway.tla puts the connection manager in their place.         *)
(***************************************************************************)
EXTENDS Naturals, Sequences

CONSTANTS
  Writers,      \* the threads that insert records
  Readings,     \* the records with a non-zero sensor id
  Mapped,       \* those whose sensor id is in room_sensor.map
  End,          \* the record with sensor id 0
  NoData,       \* content of a local sensor_data_t that is not yet assigned
  Faults,       \* start-up failures that may happen: "map", "csv"
  MaxInserts    \* bound: inserts in one behaviour

Data == Readings \cup {End}
NULL == 0

ASSUME MappedAssumption == Mapped \subseteq Readings
ASSUME EndAssumption    == End \notin Readings /\ NoData \notin Data
ASSUME BoundAssumption  == MaxInserts \in Nat

VARIABLES
  node,      \* node[k]: the k-th node allocated, with data, stage and next
  head,      \* buffer->head
  tail,      \* buffer->tail
  freed,     \* the nodes passed to free
  fault,     \* a freed node was dereferenced or freed again
  aborted,   \* the process was killed because of a fault
  mutex,     \* "free", or who holds buffermutex across several steps
  owed,      \* writers that released the mutex and have yet to signal filled
  buf,       \* "live", "freeing" (inside sbuffer_free) or "gone"
  dm,        \* where the data manager is
  dummy,     \* the data manager's cursor in sbuffer_read
  reading,   \* the data manager's received_data
  received,  \* history: every record sbuffer_read has handed out
  sm,        \* where the storage manager is
  record,    \* the storage manager's received_data
  csv        \* the rows of data.csv

list   == <<node, head, tail, freed>>
damage == <<fault, aborted>>
dmVars == <<dm, dummy, reading, received>>
smVars == <<sm, record, csv>>
vars   == <<node, head, tail, freed, fault, aborted, mutex, owed, buf,
            dm, dummy, reading, received, sm, record, csv>>

Node == [data : Data, stage : {0, 1}, next : 0..MaxInserts]

TypeOK ==
  /\ node \in Seq(Node) /\ Len(node) <= MaxInserts
  /\ head \in 0..Len(node) /\ tail \in 0..Len(node)
  /\ freed \subseteq 1..Len(node)
  /\ fault \in BOOLEAN /\ aborted \in BOOLEAN
  /\ mutex \in {"free", "datamgr", "main"}
  /\ owed \subseteq Writers
  /\ buf \in {"live", "freeing", "gone"}
  /\ dm \in {"start", "failed", "read", "blocked", "scan", "signal",
             "process", "spin", "done"}
  /\ dummy \in 0..Len(node)
  /\ reading \in Data \cup {NoData}
  /\ received \in Seq(Data)
  /\ sm \in {"start", "failed", "remove", "blocked", "write", "done"}
  /\ record \in Data \cup {NoData}
  /\ csv \in Seq(Readings)

Init ==
  /\ node = <<>> /\ head = NULL /\ tail = NULL /\ freed = {}
  /\ fault = FALSE /\ aborted = FALSE
  /\ mutex = "free" /\ owed = {} /\ buf = "live"
  /\ dm = "start" /\ dummy = NULL /\ reading = NoData /\ received = <<>>
  /\ sm = "start" /\ record = NoData /\ csv = <<>>

(* The code dereferences, or frees, the nodes in S. *)
Touch(S) == fault' = (fault \/ S \cap freed # {})

Running == ~aborted

-----------------------------------------------------------------------------
(* sbuffer_insert, called by a writer. *)

NewNode(d) == [data |-> d, stage |-> 0, next |-> NULL]

Insert(w, d) ==
  /\ Running /\ buf = "live" /\ mutex = "free"
  /\ w \notin owed
  /\ Len(node) < MaxInserts
  /\ LET new == Len(node) + 1 IN
     /\ tail' = new
     /\ \/ /\ tail = NULL
           /\ head' = new
           /\ node' = Append(node, NewNode(d))
           /\ UNCHANGED fault
        \/ /\ tail # NULL
           /\ node' = Append([node EXCEPT ![tail].next = new], NewNode(d))
           /\ Touch({tail})
           /\ UNCHANGED head
  /\ owed' = owed \cup {w}
  /\ UNCHANGED <<freed, aborted, mutex, buf, dmVars, smVars>>

(* Mutant: the signal is not sent. *)
SignalFilled_Silent(w) ==
  /\ Running /\ w \in owed
  /\ owed' = owed \ {w}
  /\ UNCHANGED <<list, damage, mutex, buf, dmVars, smVars>>

(* pthread_cond_signal(&filled): only the data manager waits on filled. *)
SignalFilled(w) ==
  /\ Running /\ w \in owed
  /\ owed' = owed \ {w}
  /\ dm' = IF dm = "blocked" THEN "read" ELSE dm
  /\ UNCHANGED <<list, damage, mutex, buf, dummy, reading, received, smVars>>

-----------------------------------------------------------------------------
(* The data manager. *)

(* datamgr_parse_map succeeds; on failure the thread returns at once. *)
DatamgrStart ==
  /\ Running /\ dm = "start"
  /\ dm' = "read"
  /\ UNCHANGED <<list, damage, mutex, owed, buf, dummy, reading, received, smVars>>

DatamgrFails ==
  /\ Running /\ dm = "start" /\ "map" \in Faults
  /\ dm' = "failed"
  /\ UNCHANGED <<list, damage, mutex, owed, buf, dummy, reading, received, smVars>>

(* Mutant: wait for a node, read or not. *)
Unread_AnyNode == head # NULL

(* The condition sbuffer_read waits for: the newest node has not been read. *)
Unread == head # NULL /\ node[tail].stage = 0

TouchTail == IF head = NULL THEN UNCHANGED fault ELSE Touch({tail})

ReadBlock ==
  /\ Running /\ dm = "read" /\ mutex = "free"
  /\ ~Unread
  /\ TouchTail
  /\ dm' = "blocked"
  /\ UNCHANGED <<list, aborted, mutex, owed, buf, dummy, reading, received, smVars>>

ReadStart ==
  /\ Running /\ dm = "read" /\ mutex = "free"
  /\ Unread
  /\ TouchTail
  /\ mutex' = "datamgr"
  /\ dummy' = head
  /\ dm' = "scan"
  /\ UNCHANGED <<list, aborted, owed, buf, reading, received, smVars>>

(* One turn of the search for the first node of stage 0; a search that runs
   off the list makes sbuffer_read fail, and the data manager calls it again. *)
ScanMiss ==
  /\ Running /\ dm = "scan"
  /\ node[dummy].stage # 0
  /\ Touch({dummy})
  /\ IF node[dummy].next = NULL
       THEN mutex' = "free" /\ dm' = "read" /\ UNCHANGED dummy
       ELSE dummy' = node[dummy].next /\ UNCHANGED <<mutex, dm>>
  /\ UNCHANGED <<list, aborted, owed, buf, reading, received, smVars>>

ScanHit ==
  /\ Running /\ dm = "scan"
  /\ node[dummy].stage = 0
  /\ Touch({dummy})
  /\ node' = [node EXCEPT ![dummy].stage = 1]
  /\ reading' = node[dummy].data
  /\ received' = Append(received, node[dummy].data)
  /\ mutex' = "free"
  /\ dm' = "signal"
  /\ UNCHANGED <<head, tail, freed, aborted, owed, buf, dummy, smVars>>

(* Mutant: the signal is not sent. *)
SignalUpdated_Silent ==
  /\ Running /\ dm = "signal"
  /\ dm' = "process"
  /\ UNCHANGED <<list, damage, mutex, owed, buf, dummy, reading, received, smVars>>

(* pthread_cond_signal(&updated): only the storage manager waits on it. *)
SignalUpdated ==
  /\ Running /\ dm = "signal"
  /\ dm' = "process"
  /\ sm' = IF sm = "blocked" THEN "remove" ELSE sm
  /\ UNCHANGED <<list, damage, mutex, owed, buf, dummy, reading, received, record, csv>>

(* The end marker makes the thread return.  A reading is looked up in the
   sensor list: dpl_get_index_of_element returns -1 only for an empty list and
   never returns for an id that a non-empty list does not hold. *)
Process ==
  /\ Running /\ dm = "process"
  /\ \/ reading = End /\ dm' = "done"
     \/ reading # End /\ (Mapped = {} \/ reading \in Mapped) /\ dm' = "read"
     \/ reading # End /\ Mapped # {} /\ reading \notin Mapped /\ dm' = "spin"
  /\ UNCHANGED <<list, damage, mutex, owed, buf, dummy, reading, received, smVars>>

-----------------------------------------------------------------------------
(* The storage manager. *)

(* data.csv is opened; on failure the thread returns at once. *)
StorageStart ==
  /\ Running /\ sm = "start"
  /\ sm' = "remove"
  /\ UNCHANGED <<list, damage, mutex, owed, buf, dmVars, record, csv>>

StorageFails ==
  /\ Running /\ sm = "start" /\ "csv" \in Faults
  /\ sm' = "failed"
  /\ UNCHANGED <<list, damage, mutex, owed, buf, dmVars, record, csv>>

(* Mutant: wait for a node, read or not. *)
Removable_AnyNode == head # NULL

(* The condition sbuffer_remove waits for: the oldest node has been read. *)
Removable == head # NULL /\ node[head].stage = 1

TouchHead == IF head = NULL THEN UNCHANGED fault ELSE Touch({head})

RemoveBlock ==
  /\ Running /\ sm = "remove" /\ mutex = "free"
  /\ ~Removable
  /\ TouchHead
  /\ sm' = "blocked"
  /\ UNCHANGED <<list, aborted, mutex, owed, buf, dmVars, record, csv>>

(* Mutant: the tail is not reset when the last node leaves the list. *)
Unlink_TailKept == head' = node[head].next /\ UNCHANGED tail

(* The head leaves the list. *)
Unlink ==
  \/ head = tail /\ head' = NULL /\ tail' = NULL
  \/ head # tail /\ head' = node[head].next /\ UNCHANGED tail

(* The head is copied, unlinked unless it is an end marker, and freed in
   either case. *)
RemoveTake ==
  /\ Running /\ sm = "remove" /\ mutex = "free"
  /\ Removable
  /\ TouchHead
  /\ record' = node[head].data
  /\ \/ node[head].data = End /\ UNCHANGED <<head, tail>>
     \/ node[head].data # End /\ Unlink
  /\ freed' = freed \cup {head}
  /\ sm' = "write"
  /\ UNCHANGED <<node, aborted, mutex, owed, buf, dmVars, csv>>

StoreRow ==
  /\ Running /\ sm = "write"
  /\ \/ record = End /\ sm' = "done" /\ UNCHANGED csv
     \/ record # End /\ sm' = "remove" /\ csv' = Append(csv, record)
  /\ UNCHANGED <<list, damage, mutex, owed, buf, dmVars, record>>

-----------------------------------------------------------------------------
(* POSIX lets pthread_cond_wait return without a signal; a call of
   sbuffer_cond has the same effect on the data manager. *)
SpuriousWakeup ==
  /\ Running
  /\ \/ dm = "blocked" /\ dm' = "read" /\ UNCHANGED sm
     \/ sm = "blocked" /\ sm' = "remove" /\ UNCHANGED dm
  /\ UNCHANGED <<list, damage, mutex, owed, buf, dummy, reading, received, record, csv>>

-----------------------------------------------------------------------------
(* main joins the consumers and calls sbuffer_free. *)

Joined == dm \in {"failed", "done"} /\ sm \in {"failed", "done"}

FreeStart ==
  /\ Running /\ buf = "live" /\ mutex = "free"
  /\ Joined
  /\ mutex' = "main"
  /\ buf' = "freeing"
  /\ UNCHANGED <<list, damage, owed, dmVars, smVars>>

FreeNode ==
  /\ Running /\ buf = "freeing"
  /\ head # NULL
  /\ Touch({head})
  /\ Unlink
  /\ freed' = freed \cup {head}
  /\ UNCHANGED <<node, aborted, mutex, owed, buf, dmVars, smVars>>

(* Mutant: the loop of sbuffer_free stops at the last node. *)
FreeBuffer_LastNodeLeft ==
  /\ Running /\ buf = "freeing"
  /\ head = tail
  /\ buf' = "gone"
  /\ mutex' = "free"
  /\ UNCHANGED <<list, damage, owed, dmVars, smVars>>

FreeBuffer ==
  /\ Running /\ buf = "freeing"
  /\ head = NULL
  /\ buf' = "gone"
  /\ mutex' = "free"
  /\ UNCHANGED <<list, damage, owed, dmVars, smVars>>

(* The outcome of a fault: the C library may kill the process. *)
Abort ==
  /\ Running /\ fault
  /\ aborted' = TRUE
  /\ UNCHANGED <<list, fault, mutex, owed, buf, dmVars, smVars>>

-----------------------------------------------------------------------------
Datamgr == \/ DatamgrStart \/ ReadBlock \/ ReadStart \/ ScanMiss \/ ScanHit
           \/ SignalUpdated \/ Process

Storagemgr == StorageStart \/ RemoveBlock \/ RemoveTake \/ StoreRow

Consumers == \/ Datamgr \/ DatamgrFails
             \/ Storagemgr \/ StorageFails
             \/ SpuriousWakeup \/ Abort

(* The environment's side of the contract: no writer is inside
   sbuffer_insert when main frees the buffer. *)
Free == (owed = {} /\ FreeStart) \/ FreeNode \/ FreeBuffer

Next ==
  \/ \E w \in Writers : (\E d \in Data : Insert(w, d)) \/ SignalFilled(w)
  \/ Consumers
  \/ Free

SafeSpec == Init /\ [][Next]_vars

(***************************************************************************)
(* Each thread runs whenever it can.  Writers need not insert, but once    *)
(* inside sbuffer_insert they reach the signal.                            *)
(***************************************************************************)
Fairness ==
  /\ \A w \in Writers : WF_vars(SignalFilled(w))
  /\ WF_vars(Datamgr)
  /\ WF_vars(Storagemgr)
  /\ WF_vars(Free)

Spec == SafeSpec /\ Fairness

-----------------------------------------------------------------------------
(* Correctness. *)

Inserted == [k \in DOMAIN node |-> node[k].data]

(* The storage manager has taken the end marker (sensor_db.c, the break). *)
SawEnd == record = End /\ sm \in {"write", "done"}

(* How many nodes, from the oldest on, are no longer in the list. *)
Unlinked == IF head = NULL THEN Len(node) ELSE head - 1

(* Rows are written in the order in which records were inserted, no record is
   skipped or written twice, and none is written before the data manager has
   seen it: the stages of sbuffer_read and sbuffer_remove impose this order
   whatever the interleaving of the writers and the two consumers. *)
InOrder ==
  /\ Len(csv) <= Len(received) /\ Len(received) <= Len(node)
  /\ \A k \in 1..Len(received) : received[k] = node[k].data
  /\ \A k \in 1..Len(csv) : csv[k] = received[k]

(* sbuffer_read never takes its failure return: when the newest node is unread
   the search meets an unread node before the end of the list (the comment of
   sbuffer.c:134 argues the converse). *)
NoReadFailure ==
  dm = "scan" /\ node[dummy].stage # 0 => node[dummy].next # NULL

(* The only freed node ever used is the end marker that sbuffer_remove frees
   and leaves in the list: nothing goes wrong before the storage manager has
   taken it, and then only by an insert behind it or by sbuffer_free. *)
FaultOnlyAfterEnd == fault => SawEnd /\ (buf = "live" => Len(node) > head)

(* A consumer sleeps on a condition that holds only while the thread that made
   it true still has to signal, although both signals are sent after the mutex
   has been released and each is sent once. *)
NoLostWakeup ==
  /\ dm = "blocked" /\ Unread => owed # {}
  /\ sm = "blocked" /\ Removable => dm = "signal"

(* sbuffer_free releases every node the consumers left behind. *)
NoLeak == buf = "gone" => freed = 1..Len(node)

(* The comment of sbuffer.c:110: "don't remove end marker to make sure every
   thread sees it".  A node that is still the head has not been freed. *)
MarkerKept == buf = "live" /\ head # NULL => head \notin freed

(* The buffer implements the stream of SensorStream.tla. *)
Stream == INSTANCE SensorStream WITH stream <- Inserted

StreamSafe == Stream!SafeSpec

(* No consumer has given up at its start or is caught in the search of
   datamgr for a sensor that is not in the map. *)
Unhindered == dm \notin {"failed", "spin"} /\ sm # "failed"

(* As long as that is so, every record that is inserted in front of an end
   marker is received and written: the consumers do not fall asleep on it. *)
StreamLive == []Unhindered => Stream!Fairness

(* Then, too, an end marker makes both consumers return and the buffer is
   freed, unless the process dies of the fault. *)
ShutdownCompletes ==
  []Unhindered =>
    ((\E k \in 1..Len(node) : node[k].data = End) ~> (buf = "gone" \/ aborted))

-----------------------------------------------------------------------------
(* The inductive invariant. *)

(* The list holds the nodes head, head + 1, ..., Len(node) in this order. *)
ListInv ==
  /\ head = NULL <=> tail = NULL
  /\ tail # NULL => tail = Len(node) /\ head <= tail
  /\ \A k \in 1..Len(node) : head # NULL /\ head <= k =>
       node[k].next = IF k = Len(node) THEN NULL ELSE k + 1

(* Exactly the unlinked nodes are freed, but for an end marker at the head. *)
FreedInv ==
  /\ 1..Unlinked \subseteq freed
  /\ freed \subseteq 1..Unlinked \cup (IF SawEnd THEN {head} ELSE {})

(* The nodes of stage 1 are those that have been read; only the last record
   read can be an end marker, and then the data manager is on its way out. *)
ReceivedInv ==
  /\ Len(received) <= Len(node)
  /\ \A k \in 1..Len(node) : node[k].stage = 1 <=> k <= Len(received)
  /\ \A k \in 1..Len(received) : received[k] = node[k].data
  /\ \A k \in 1..Len(received) : received[k] = End =>
       k = Len(received) /\ dm \in {"signal", "process", "done"}
  /\ dm \in {"signal", "process"} =>
       received # <<>> /\ reading = received[Len(received)]
  /\ dm = "done" => received # <<>> /\ received[Len(received)] = End

(* While the data manager searches, some node is unread and the cursor has
   not passed the first of them. *)
ScanInv ==
  /\ mutex = "datamgr" <=> dm = "scan"
  /\ mutex = "main" <=> buf = "freeing"
  /\ dm = "scan" => /\ head # NULL /\ head <= dummy
                    /\ dummy <= Len(received) + 1
                    /\ Len(received) < Len(node)

(* The rows are the records of the unlinked nodes, but for the one in hand. *)
CsvInv ==
  /\ Len(csv) <= Len(received)
  /\ \A k \in 1..Len(csv) : csv[k] = received[k]
  /\ sm = "write" /\ record # End =>
       Len(csv) < Len(received) /\ record = received[Len(csv) + 1]
  /\ sm = "done" => record = End
  /\ SawEnd => Len(received) = Len(csv) + 1 /\ received[Len(received)] = End
  /\ buf = "live" =>
       /\ Unlinked <= Len(received)
       /\ Unlinked = Len(csv) + (IF sm = "write" /\ record # End THEN 1 ELSE 0)
       /\ SawEnd => head # NULL

(* sbuffer_free runs only after both consumers have returned. *)
FreeInv ==
  /\ buf # "live" => Joined
  /\ buf = "gone" => head = NULL

IndInv ==
  /\ TypeOK /\ ListInv /\ FreedInv /\ ReceivedInv /\ ScanInv /\ CsvInv /\ FreeInv
  /\ FaultOnlyAfterEnd /\ NoLostWakeup
=============================================================================
