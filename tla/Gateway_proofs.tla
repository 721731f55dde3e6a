--------------------------- MODULE Gateway_proofs ---------------------------
(***************************************************************************)
(* Proofs about Gateway for every finite set of connections, every limit   *)
(* and every combination of failures.  The buffer's step lemmas carry over *)
(* from SBuffer_proofs: what the connection manager adds leaves IndInv     *)
(* alone.                                                                  *)
(***************************************************************************)
EXTENDS Gateway, SBuffer_proofs, FiniteSetTheorems

USE WritersAssumption, ClientsAssumption, MaxConnAssumption

-----------------------------------------------------------------------------
(* The buffer's invariant. *)

LEMMA LateAbortStep ==
  ASSUME IndInv, LateAbort
  PROVE  IndInv'
<1> USE DEF LateAbort, IndInv, list, dmVars, smVars
<1>1. (TypeOK /\ ListInv /\ FreedInv /\ ReceivedInv)'
  BY DEF TypeOK, ListInv, FreedInv, ReceivedInv, Unlinked, SawEnd
<1>2. (ScanInv /\ CsvInv /\ FreeInv)'
  BY DEF ScanInv, CsvInv, FreeInv, Unlinked, SawEnd, Joined
<1>3. (FaultOnlyAfterEnd /\ NoLostWakeup)'
  BY DEF FaultOnlyAfterEnd, NoLostWakeup, SawEnd, Unread, Removable
<1> QED BY <1>1, <1>2, <1>3

LEMMA MainStep ==
  ASSUME IndInv, Main
  PROVE  IndInv'
  BY FreeStartStep, FreeNodeStep, FreeBufferStep DEF Main

(* A step of the connection manager inserts one record or leaves the buffer
   alone. *)
LEMMA AcceptThreadBuffer ==
  ASSUME AcceptThread
  PROVE  Insert(Acceptor, End) \/ UNCHANGED vars
  BY DEF AcceptThread, ConnmgrStart, AcceptTest, AcceptFails, AcceptLoad,
     AcceptCount, Spawn, SpawnFails, AcceptUncount, Poll, Mark, ConnmgrExit

LEMMA HandlerBuffer ==
  ASSUME NEW c \in Clients, Handler(c)
  PROVE  Insert(c, c) \/ UNCHANGED vars
  BY DEF Handler, Receive, InsertReading, Disconnect, HandlerLoad, HandlerUncount

LEMMA GatewayIndInv == IndInv /\ [GatewayNext]_gatewayVars => IndInv'
<1> SUFFICES ASSUME IndInv, [GatewayNext]_gatewayVars PROVE IndInv'
  OBVIOUS
<1>1. CASE UNCHANGED vars
  BY <1>1, StutterStep
<1>2. ASSUME NEW w \in Writers, NEW d \in Data, Insert(w, d) PROVE IndInv'
  BY <1>2, InsertStep
<1>3. CASE AcceptThread
  BY <1>1, <1>2, <1>3, AcceptThreadBuffer DEF Data
<1>4. ASSUME NEW c \in Clients, Handler(c) PROVE IndInv'
  BY <1>1, <1>2, <1>4, HandlerBuffer DEF Data, Clients
<1>5. ASSUME NEW c \in Clients, Accept(c) PROVE IndInv'
  BY <1>1, <1>5 DEF Accept
<1>6. CASE BufferStep
  BY <1>6, ConsumersStep, LateAbortStep, MainStep, SignalFilledStep DEF BufferStep
<1>7. CASE UNCHANGED gatewayVars
  BY <1>1, <1>7 DEF gatewayVars
<1> QED BY <1>3, <1>4, <1>5, <1>6, <1>7 DEF GatewayNext

(* The buffer behind the connection manager keeps its invariant: order, no
   lost wake-up, and no fault before the marker is taken hold in the gateway
   whatever the counter race does. *)
THEOREM GatewayBuffer == GatewaySafeSpec => []IndInv
<1>1. GatewayInit => IndInv
  BY InitInv DEF GatewayInit
<1> QED BY <1>1, GatewayIndInv, PTL DEF GatewaySafeSpec

(* Whatever the race does, data.csv holds readings in the order in which they
   were inserted. *)
THEOREM GatewayOrdering == GatewaySafeSpec => []InOrder
  BY InvImpliesOrder, GatewayBuffer, PTL

LEMMA GatewayStreamStep ==
  IndInv /\ [GatewayNext]_gatewayVars => [Stream!Next]_(Stream!svars)
<1> SUFFICES ASSUME IndInv, [GatewayNext]_gatewayVars
             PROVE  Stream!Next \/ UNCHANGED <<Inserted, received, csv>>
  BY DEF Stream!svars
<1>1. CASE UNCHANGED vars
  BY <1>1 DEF vars, Inserted
<1>2. ASSUME NEW w \in Writers, NEW d \in Data, Insert(w, d) PROVE Stream!Next
  BY <1>2, StreamInsert DEF Stream!Next
<1>3. CASE AcceptThread
  BY <1>1, <1>2, <1>3, AcceptThreadBuffer DEF Data
<1>4. ASSUME NEW c \in Clients, Handler(c)
      PROVE  Stream!Next \/ UNCHANGED <<Inserted, received, csv>>
  BY <1>1, <1>2, <1>4, HandlerBuffer DEF Data, Clients
<1>5. ASSUME NEW c \in Clients, Accept(c)
      PROVE  UNCHANGED <<Inserted, received, csv>>
  BY <1>5 DEF Accept, vars, Inserted
<1>6. CASE BufferStep
  <2>1. CASE LateAbort
    BY <2>1 DEF LateAbort, Inserted, list, dmVars, smVars
  <2> QED BY <1>6, <2>1, StreamConsumers, StreamFree, StreamSignal DEF BufferStep, Main
<1>7. CASE UNCHANGED gatewayVars
  BY <1>1, <1>7 DEF gatewayVars
<1> QED BY <1>3, <1>4, <1>5, <1>6, <1>7 DEF GatewayNext

(* The whole gateway, race included, implements the stream: what it stores is
   a prefix of what it received, in the order of insertion. *)
THEOREM GatewayImplements == GatewaySafeSpec => StreamSafe
<1>1. GatewayInit => Stream!Init
  BY StreamInit DEF GatewayInit
<1> QED BY <1>1, GatewayStreamStep, GatewayBuffer, PTL
        DEF GatewaySafeSpec, StreamSafe, Stream!SafeSpec

-----------------------------------------------------------------------------
(* The accept thread, the handlers and the counter. *)

LEMMA InsertedType ==
  ASSUME IndInv
  PROVE  Inserted \in Seq(Data) /\ Len(Inserted) = Len(node)
<1>1. node \in Seq(Node)
  BY DEF IndInv, TypeOK
<1>2. \A k \in 1..Len(node) : node[k].data \in Data
  BY NodeType
<1>3. DOMAIN node = 1..Len(node) /\ Len(node) \in Nat
  BY <1>1
<1> QED BY <1>2, <1>3 DEF Inserted

LEMMA CountedFinite == IsFiniteSet(Counted) /\ Cardinality(Counted) \in Nat
<1>1. Counted \in SUBSET Clients
  BY DEF Counted
<1> QED BY <1>1, FS_Subset, FS_CardinalityType

(* An update of conn_counter that is not lost adds value - loaded. *)
LEMMA WriteEffect ==
  ASSUME raced \in BOOLEAN, NEW loaded, NEW value, Write(loaded, value)
  PROVE  /\ counter' = value /\ raced' \in BOOLEAN
         /\ ~raced' => ~raced /\ loaded = counter
  BY Zenon DEF Write

(* What keeps the marker where it is. *)
LEMMA MarkerKeptStep ==
  ASSUME MarkerInv, MarkerLast, Inserted' = Inserted, owed' \subseteq owed,
         buf' = buf \/ acc' = "exited",
         raced' \in BOOLEAN, ~raced' => ~raced,
         acc = "exited" => acc' = "exited", acc = "leave" => acc' \in {"leave", "exited"},
         acc' = "exited" => Acceptor \notin owed',
         \A c \in Clients : c \in owed' /\ handler[c] = "recv" => handler'[c] = "recv"
  PROVE  MarkerInv' /\ MarkerLast'
<1>1. MarkerLast'
  BY DEF MarkerLast
<1>2. \A k \in 1..Len(Inserted') : Inserted'[k] = End => acc' \in {"leave", "exited"}
  BY DEF MarkerInv
<1>3. \A c \in Clients : c \in owed' => handler'[c] = "recv"
  BY DEF MarkerInv
<1>4. Acceptor \in owed' => acc' = "leave"
  BY DEF MarkerInv
<1>5. buf' # "live" => acc' = "exited"
  BY DEF MarkerInv
<1> QED BY <1>1, <1>2, <1>3, <1>4, <1>5 DEF MarkerInv

(* The accept thread moves on without counting or inserting. *)
LEMMA AcceptMovesConn ==
  ASSUME IndInv, ConnInv,
         ConnmgrStart \/ AcceptTest \/ AcceptFails \/ AcceptLoad \/ Poll \/ ConnmgrExit
  PROVE  ConnInv'
<1> USE DEF ConnInv
<1>1. /\ UNCHANGED <<vars, counter, client, handler, reg, raced, late>>
      /\ \/ acc = "init" /\ acc' \in {"test", "exited"}
         \/ acc = "test" /\ acc' = "accept" /\ counter < MaxConn
         \/ acc = "test" /\ acc' = "poll"
         \/ acc = "accept" /\ acc' = "test"
         \/ acc = "load" /\ acc' = "store"
         \/ acc = "undoLoad" /\ acc' = "undoStore"
         \/ acc = "poll" /\ acc' = "mark" /\ ~(counter > 0)
         \/ acc = "leave" /\ acc' = "exited" /\ Acceptor \notin owed
  BY DEF ConnmgrStart, AcceptTest, AcceptFails, AcceptLoad, Poll, ConnmgrExit, AccGoes
<1>2. accReg' = accReg \/ accReg' = counter
  BY DEF ConnmgrStart, AcceptTest, AcceptFails, AcceptLoad, Poll, ConnmgrExit
<1>3. GatewayTypeOK'
  BY <1>1, <1>2 DEF GatewayTypeOK
<1>4. AdmitInv'
  BY <1>1 DEF AdmitInv
<1>5. Counted' = Counted
  BY <1>1 DEF Counted
<1>6. CounterExact'
  BY <1>1, <1>5 DEF CounterExact
<1>7. LimitInv'
  BY <1>1, <1>5 DEF LimitInv, CounterExact
<1>8. QuietInv'
  <2>1. acc = "init" => Counted = {}
    BY DEF AdmitInv, Counted
  <2>2. ~raced /\ ~(counter > 0) => Counted = {}
    BY CountedFinite, FS_EmptySet DEF CounterExact
  <2> QED BY <1>1, <1>5, <2>1, <2>2 DEF QuietInv
<1>9. Inserted' = Inserted /\ owed' = owed /\ buf' = buf
  BY <1>1 DEF vars, Inserted
<1>10. acc = "init" => Acceptor \notin owed
  BY DEF MarkerInv
<1>11. MarkerInv' /\ MarkerLast'
  BY <1>1, <1>9, <1>10, MarkerKeptStep DEF GatewayTypeOK
<1>12. LateInv'
  BY <1>1 DEF LateInv
<1> QED BY <1>3, <1>4, <1>6, <1>7, <1>8, <1>11, <1>12


LEMMA AcceptConn ==
  ASSUME IndInv, ConnInv, NEW c \in Clients, Accept(c)
  PROVE  ConnInv'
<1> USE DEF ConnInv, Accept, AccGoes, HandlerGoes
<1>1. GatewayTypeOK'
  BY DEF GatewayTypeOK
<1>2. AdmitInv'
  BY DEF AdmitInv, GatewayTypeOK
<1>3. Counted' = Counted
  BY DEF Counted, GatewayTypeOK
<1>4. (CounterExact /\ LimitInv /\ QuietInv /\ LateInv)'
  BY <1>3 DEF CounterExact, LimitInv, QuietInv, LateInv
<1>5. Inserted' = Inserted /\ owed' = owed /\ buf' = buf
  BY DEF vars, Inserted
<1>6. MarkerInv' /\ MarkerLast'
  BY <1>5, MarkerKeptStep DEF GatewayTypeOK
<1> QED BY <1>1, <1>2, <1>4, <1>6

LEMMA AcceptCountConn ==
  ASSUME IndInv, ConnInv, AcceptCount
  PROVE  ConnInv'
<1> USE DEF ConnInv, AcceptCount, AccGoes
<1>1. /\ counter' = accReg + 1 /\ raced' \in BOOLEAN
      /\ ~raced' => ~raced /\ accReg = counter
  BY WriteEffect DEF GatewayTypeOK
<1>2. GatewayTypeOK'
  BY <1>1 DEF GatewayTypeOK
<1>3. AdmitInv'
  BY DEF AdmitInv
<1>4. client \in Clients /\ handler[client] = "accepted"
  BY DEF AdmitInv
<1>5. Counted' = Counted \cup {client} /\ client \notin Counted
  BY <1>4 DEF Counted, AdmitInv
<1>6. Cardinality(Counted') = Cardinality(Counted) + 1
  BY <1>5, CountedFinite, FS_AddElement
<1>7. (CounterExact /\ LimitInv /\ QuietInv /\ LateInv)'
  BY <1>1, <1>6, CountedFinite DEF CounterExact, LimitInv, QuietInv, LateInv
<1>8. Inserted' = Inserted /\ owed' = owed /\ buf' = buf
  BY DEF vars, Inserted
<1>9. MarkerInv' /\ MarkerLast'
  BY <1>1, <1>8, MarkerKeptStep
<1> QED BY <1>2, <1>3, <1>7, <1>9

LEMMA SpawnConn ==
  ASSUME IndInv, ConnInv, Spawn \/ SpawnFails
  PROVE  ConnInv'
<1> USE DEF ConnInv, Spawn, SpawnFails, AccGoes, HandlerGoes
<1>1. client \in Clients /\ handler[client] = "accepted"
  BY DEF AdmitInv
<1>2. GatewayTypeOK'
  BY DEF GatewayTypeOK
<1>3. AdmitInv'
  BY <1>1 DEF AdmitInv, GatewayTypeOK
<1>4. Counted' = Counted
  BY <1>1 DEF Counted, AdmitInv, GatewayTypeOK
<1>5. (CounterExact /\ LimitInv /\ QuietInv /\ LateInv)'
  BY <1>4 DEF CounterExact, LimitInv, QuietInv, LateInv
<1>6. Inserted' = Inserted /\ owed' = owed /\ buf' = buf
  BY DEF vars, Inserted
<1>7. \A c \in Clients : handler[c] = "recv" => handler'[c] = "recv"
  BY <1>1 DEF GatewayTypeOK
<1>8. MarkerInv' /\ MarkerLast'
  BY <1>6, <1>7, MarkerKeptStep DEF GatewayTypeOK
<1> QED BY <1>2, <1>3, <1>5, <1>8

LEMMA AcceptUncountConn ==
  ASSUME IndInv, ConnInv, AcceptUncount
  PROVE  ConnInv'
<1> USE DEF ConnInv, AcceptUncount, AccGoes
<1>1. /\ counter' = accReg - 1 /\ raced' \in BOOLEAN
      /\ ~raced' => ~raced /\ accReg = counter
  BY WriteEffect DEF GatewayTypeOK
<1>2. GatewayTypeOK'
  BY <1>1 DEF GatewayTypeOK
<1>3. AdmitInv'
  BY DEF AdmitInv
<1>4. client \in Clients /\ handler[client] = "gone"
  BY DEF AdmitInv
<1>5. Counted' = Counted \ {client} /\ client \in Counted
  BY <1>4 DEF Counted, AdmitInv
<1>6. Cardinality(Counted') = Cardinality(Counted) - 1
  BY <1>5, CountedFinite, FS_RemoveElement
<1>7. (CounterExact /\ LimitInv /\ QuietInv /\ LateInv)'
  BY <1>1, <1>5, <1>6, CountedFinite DEF CounterExact, LimitInv, QuietInv, LateInv
<1>8. Inserted' = Inserted /\ owed' = owed /\ buf' = buf
  BY DEF vars, Inserted
<1>9. MarkerInv' /\ MarkerLast'
  BY <1>1, <1>8, MarkerKeptStep
<1> QED BY <1>2, <1>3, <1>7, <1>9

(* The marker is inserted, or the insert fails unnoticed. *)
LEMMA MarkConn ==
  ASSUME IndInv, ConnInv, Mark
  PROVE  ConnInv'
<1> USE DEF ConnInv, Mark, AccGoes
<1>1. GatewayTypeOK'
  BY DEF GatewayTypeOK
<1>2. AdmitInv'
  BY DEF AdmitInv
<1>3. Counted' = Counted
  BY DEF Counted
<1>4. (CounterExact /\ LimitInv /\ QuietInv /\ LateInv)'
  BY <1>3 DEF CounterExact, LimitInv, QuietInv, LateInv
<1>5. \A k \in 1..Len(Inserted) : Inserted[k] # End
  BY DEF MarkerInv
<1>6. CASE Insert(Acceptor, End)
  <2>1. End \in Data /\ Acceptor \in Writers
    BY DEF Data
  <2>2. Inserted' = Append(Inserted, End)
    BY <1>6, <2>1, InsertStep
  <2>3. MarkerLast'
    BY <1>5, <2>2, InsertedType DEF MarkerLast
  <2>4. owed' = owed \cup {Acceptor} /\ buf' = "live"
    BY <1>6 DEF Insert
  <2>5. MarkerInv'
    BY <2>4 DEF MarkerInv
  <2> QED BY <1>1, <1>2, <1>4, <2>3, <2>5
<1>7. CASE UNCHANGED vars
  <2>1. Inserted' = Inserted /\ owed' = owed /\ buf' = buf
    BY <1>7 DEF vars, Inserted
  <2>2. MarkerInv' /\ MarkerLast'
    BY <2>1, MarkerKeptStep DEF GatewayTypeOK
  <2> QED BY <1>1, <1>2, <1>4, <2>2
<1> QED BY <1>6, <1>7

(* The handler moves on without inserting or counting itself out. *)
LEMMA HandlerMovesConn ==
  ASSUME IndInv, ConnInv, NEW c \in Clients, Receive(c) \/ Disconnect(c) \/ HandlerLoad(c)
  PROVE  ConnInv'
<1> USE DEF ConnInv, Receive, Disconnect, HandlerLoad, HandlerGoes
<1>1. GatewayTypeOK'
  BY DEF GatewayTypeOK, accVars
<1>2. AdmitInv'
  BY DEF AdmitInv, GatewayTypeOK, accVars
<1>3. Counted' = Counted
  BY DEF Counted, GatewayTypeOK, accVars
<1>4. (CounterExact /\ LimitInv /\ QuietInv /\ LateInv)'
  BY <1>3 DEF CounterExact, LimitInv, QuietInv, LateInv, accVars
<1>5. Inserted' = Inserted /\ owed' = owed /\ buf' = buf
  BY DEF vars, Inserted
<1>6. \A x \in Clients : x \in owed /\ handler[x] = "recv" => handler'[x] = "recv"
  BY DEF GatewayTypeOK
<1>7. acc' = acc
  BY DEF accVars
<1>8. MarkerInv' /\ MarkerLast'
  BY <1>5, <1>6, <1>7, MarkerKeptStep DEF GatewayTypeOK, MarkerInv
<1> QED BY <1>1, <1>2, <1>4, <1>8

LEMMA InsertReadingConn ==
  ASSUME IndInv, ConnInv, NEW c \in Clients, InsertReading(c)
  PROVE  ConnInv'
<1> USE DEF ConnInv, InsertReading, HandlerGoes
<1>1. GatewayTypeOK'
  BY DEF GatewayTypeOK, accVars
<1>2. AdmitInv'
  BY DEF AdmitInv, GatewayTypeOK, accVars
<1>3. Counted' = Counted
  BY DEF Counted, GatewayTypeOK, accVars
<1>4. (CounterExact /\ LimitInv /\ QuietInv)'
  BY <1>3 DEF CounterExact, LimitInv, QuietInv, accVars
<1>5. c \in Counted
  BY DEF Counted
<1>6. acc \in {"mark", "leave", "exited"} => raced
  BY <1>5 DEF QuietInv
<1>7. LateInv'
  BY <1>6 DEF LateInv, MarkerInv
<1>8. CASE Insert(c, c)
  <2>1. c \in Data /\ c \in Writers /\ c # End /\ c # Acceptor
    BY EndAssumption DEF Data, Clients
  <2>2. Inserted' = Append(Inserted, c)
    BY <1>8, <2>1, InsertStep
  <2>3. MarkerLast'
    BY <1>6, <2>1, <2>2, InsertedType DEF MarkerLast, MarkerInv
  <2>4. owed' = owed \cup {c} /\ buf' = buf /\ acc' = acc /\ buf = "live"
    BY <1>8 DEF Insert, accVars
  <2>5. \A k \in 1..Len(Inserted') : Inserted'[k] = End => acc' \in {"leave", "exited"}
    BY <2>1, <2>2, <2>4, InsertedType DEF MarkerInv
  <2>6. \A x \in Clients : x \in owed' => handler'[x] = "recv"
    BY <2>4 DEF MarkerInv, GatewayTypeOK
  <2>7. MarkerInv'
    BY <2>1, <2>4, <2>5, <2>6 DEF MarkerInv
  <2> QED BY <1>1, <1>2, <1>4, <1>7, <2>3, <2>7
<1>9. CASE UNCHANGED vars
  <2>1. Inserted' = Inserted /\ owed' = owed /\ buf' = buf /\ acc' = acc
    BY <1>9 DEF vars, Inserted, accVars
  <2>2. \A x \in Clients : x \in owed /\ handler[x] = "recv" => handler'[x] = "recv"
    BY DEF GatewayTypeOK
  <2>3. MarkerInv' /\ MarkerLast'
    BY <2>1, <2>2, MarkerKeptStep DEF GatewayTypeOK, MarkerInv
  <2> QED BY <1>1, <1>2, <1>4, <1>7, <2>3
<1> QED BY <1>8, <1>9

LEMMA HandlerUncountConn ==
  ASSUME IndInv, ConnInv, NEW c \in Clients, HandlerUncount(c)
  PROVE  ConnInv'
<1> USE DEF ConnInv, HandlerUncount, HandlerGoes
<1>1. /\ counter' = reg[c] - 1 /\ raced' \in BOOLEAN
      /\ ~raced' => ~raced /\ reg[c] = counter
  BY WriteEffect DEF GatewayTypeOK
<1>2. GatewayTypeOK'
  BY <1>1 DEF GatewayTypeOK, accVars
<1>3. AdmitInv'
  BY DEF AdmitInv, GatewayTypeOK, accVars
<1>4. Counted' = Counted \ {c} /\ c \in Counted
  BY DEF Counted, AdmitInv, GatewayTypeOK, accVars
<1>5. Cardinality(Counted') = Cardinality(Counted) - 1
  BY <1>4, CountedFinite, FS_RemoveElement
<1>6. (CounterExact /\ LimitInv /\ QuietInv /\ LateInv)'
  BY <1>1, <1>4, <1>5, CountedFinite DEF CounterExact, LimitInv, QuietInv, LateInv, accVars
<1>7. Inserted' = Inserted /\ owed' = owed /\ buf' = buf /\ acc' = acc
  BY DEF vars, Inserted, accVars
<1>8. \A x \in Clients : x \in owed /\ handler[x] = "recv" => handler'[x] = "recv"
  BY DEF GatewayTypeOK
<1>9. MarkerInv' /\ MarkerLast'
  BY <1>1, <1>7, <1>8, MarkerKeptStep DEF MarkerInv
<1> QED BY <1>2, <1>3, <1>6, <1>9

(* A step of a consumer or of the clean-up does not concern the connections. *)
LEMMA BufferStepConn ==
  ASSUME IndInv, ConnInv, BufferStep
  PROVE  ConnInv'
<1> USE DEF ConnInv
<1>1. UNCHANGED <<connVars, late>>
  BY DEF BufferStep
<1>2. (GatewayTypeOK /\ AdmitInv /\ CounterExact /\ LimitInv /\ QuietInv /\ LateInv)'
  BY <1>1 DEF connVars, GatewayTypeOK, AdmitInv, CounterExact, Counted, LimitInv,
     QuietInv, LateInv
<1>3. Inserted' = Inserted /\ owed' \subseteq owed /\ (buf' = buf \/ acc = "exited")
  <2>1. CASE ScanHit
    BY <2>1, ScanHitStep DEF ScanHit
  <2>2. CASE Datamgr \/ DatamgrFails
    BY <2>1, <2>2 DEF Datamgr, DatamgrFails, DatamgrStart, ReadBlock, ReadStart,
       ScanMiss, SignalUpdated, Process, Inserted, list
  <2>3. CASE Storagemgr \/ StorageFails
    BY <2>3 DEF Storagemgr, StorageFails, StorageStart, RemoveBlock, RemoveTake,
       StoreRow, Inserted, list
  <2>4. CASE SpuriousWakeup \/ Abort \/ LateAbort
    BY <2>4 DEF SpuriousWakeup, Abort, LateAbort, Inserted, list
  <2>5. CASE Main
    <3>1. Inserted' = Inserted /\ owed' = owed
      BY <2>5 DEF Main, FreeStart, FreeNode, FreeBuffer, Inserted, list
    <3>2. buf' = buf \/ acc = "exited"
      BY <2>5 DEF Main, FreeStart, FreeNode, FreeBuffer, MarkerInv
    <3> QED BY <3>1, <3>2
  <2>6. ASSUME NEW w \in Writers, SignalFilled(w)
        PROVE  Inserted' = Inserted /\ owed' \subseteq owed /\ buf' = buf
    BY <2>6 DEF SignalFilled, Inserted, list
  <2> QED BY <2>2, <2>3, <2>4, <2>5, <2>6 DEF BufferStep, Consumers
<1>4. MarkerInv' /\ MarkerLast'
  BY <1>1, <1>3, MarkerKeptStep DEF connVars, GatewayTypeOK, MarkerInv
<1> QED BY <1>2, <1>4

LEMMA ConnStep == IndInv /\ ConnInv /\ [GatewayNext]_gatewayVars => ConnInv'
<1> SUFFICES ASSUME IndInv, ConnInv, [GatewayNext]_gatewayVars PROVE ConnInv'
  OBVIOUS
<1>1. CASE AcceptThread
  BY <1>1, AcceptMovesConn, AcceptCountConn, SpawnConn, AcceptUncountConn, MarkConn
  DEF AcceptThread
<1>2. ASSUME NEW c \in Clients, Accept(c) PROVE ConnInv'
  BY <1>2, AcceptConn
<1>3. ASSUME NEW c \in Clients, Handler(c) PROVE ConnInv'
  BY <1>3, HandlerMovesConn, InsertReadingConn, HandlerUncountConn DEF Handler
<1>4. CASE BufferStep
  BY <1>4, BufferStepConn
<1>5. CASE UNCHANGED gatewayVars
  BY <1>5 DEF gatewayVars, vars, connVars, ConnInv, GatewayTypeOK, AdmitInv, CounterExact,
     Counted, LimitInv, QuietInv, LateInv, MarkerInv, MarkerLast, Inserted
<1> QED BY <1>1, <1>2, <1>3, <1>4, <1>5 DEF GatewayNext

LEMMA ConnInit == GatewayInit => ConnInv
<1> SUFFICES ASSUME GatewayInit PROVE ConnInv
  OBVIOUS
<1> USE DEF GatewayInit
<1>1. raced \in BOOLEAN /\ late \in BOOLEAN
  BY Zenon
<1>2. GatewayTypeOK /\ AdmitInv
  BY <1>1 DEF GatewayTypeOK, AdmitInv
<1>3. Counted = {}
  BY DEF Counted
<1>4. Cardinality(Counted) = 0
  BY <1>3, FS_EmptySet
<1>5. CounterExact /\ LimitInv /\ QuietInv /\ LateInv
  BY <1>3, <1>4 DEF CounterExact, LimitInv, QuietInv, LateInv
<1>6. Inserted = <<>> /\ owed = {} /\ buf = "live"
  BY DEF Init, Inserted
<1>7. MarkerInv /\ MarkerLast
  BY <1>6 DEF MarkerInv, MarkerLast
<1> QED BY <1>2, <1>5, <1>7 DEF ConnInv

(* The invariant of the gateway: what conn_counter counts, who is inside the
   buffer and where the marker is, next to the buffer's own invariant. *)
THEOREM GatewayInvariance == GatewaySafeSpec => []GatewayInv
<1>1. GatewayInit => GatewayInv
  BY ConnInit, InitInv DEF GatewayInit, GatewayInv
<1>2. GatewayInv /\ [GatewayNext]_gatewayVars => GatewayInv'
  BY GatewayIndInv, ConnStep DEF GatewayInv
<1> QED BY <1>1, <1>2, PTL DEF GatewaySafeSpec

(* Without a lost update conn_counter is the number of connections. *)
THEOREM CounterIsExact == GatewaySafeSpec => []CounterExact
<1>1. GatewayInv => CounterExact
  BY DEF GatewayInv, ConnInv
<1> QED BY <1>1, GatewayInvariance, PTL

LEMMA InvImpliesLimitHolds == GatewayInv => LimitUnlessRaced
<1> SUFFICES ASSUME GatewayInv, ~raced, Open # {} PROVE Cardinality(Open) <= MaxConn
  BY DEF LimitUnlessRaced, ConnectionLimit
<1> USE DEF GatewayInv, ConnInv
<1>1. CASE acc \in {"load", "store"}
  <2>1. Open \subseteq Counted \cup {client}
    BY DEF Open, Counted, AdmitInv
  <2>2. Cardinality(Counted) < MaxConn
    BY <1>1 DEF LimitInv
  <2>3. /\ IsFiniteSet(Counted \cup {client})
        /\ Cardinality(Counted \cup {client}) <= Cardinality(Counted) + 1
    <3>1. /\ IsFiniteSet(Counted \cup {client})
          /\ Cardinality(Counted \cup {client}) =
               IF client \in Counted THEN Cardinality(Counted) ELSE Cardinality(Counted) + 1
      BY CountedFinite, FS_AddElement
    <3> HIDE DEF GatewayInv, ConnInv
    <3> QED BY <3>1, CountedFinite
  <2>4. Cardinality(Open) <= Cardinality(Counted \cup {client})
    BY <2>1, <2>3, FS_Subset
  <2>5. Cardinality(Open) \in Nat /\ Cardinality(Counted \cup {client}) \in Nat
    BY <2>1, <2>3, FS_Subset, FS_CardinalityType
  <2> QED BY <2>2, <2>3, <2>4, <2>5, CountedFinite
<1>2. CASE acc \notin {"load", "store"}
  <2>1. Open \subseteq Counted
    BY <1>2 DEF Open, Counted, AdmitInv
  <2>2. Cardinality(Open) <= Cardinality(Counted)
    BY <2>1, CountedFinite, FS_Subset
  <2>3. Cardinality(Open) \in Nat
    BY <2>1, CountedFinite, FS_Subset, FS_CardinalityType
  <2> QED BY <2>1, <2>2, <2>3, CountedFinite DEF LimitInv
<1> QED BY <1>1, <1>2

(* Without a lost update never more than max_conn connections are open. *)
THEOREM LimitHolds == GatewaySafeSpec => []LimitUnlessRaced
  BY InvImpliesLimitHolds, GatewayInvariance, PTL

(* Without a lost update the marker is the last record inserted. *)
THEOREM MarkerIsLast == GatewaySafeSpec => []MarkerLast
<1>1. GatewayInv => MarkerLast
  BY DEF GatewayInv, ConnInv
<1> QED BY <1>1, GatewayInvariance, PTL

(* Without a lost update no handler outlives the counter on connmgr's stack. *)
THEOREM CounterOutlives == GatewaySafeSpec => []CounterOutlivesHandlers
<1>1. GatewayInv => CounterOutlivesHandlers
  BY DEF GatewayInv, ConnInv, CounterOutlivesHandlers, QuietInv, Counted, AdmitInv,
     GatewayTypeOK
<1> QED BY <1>1, GatewayInvariance, PTL

LEMMA InvImpliesBufferOutlives == GatewayInv => BufferOutlivesWriters
<1> SUFFICES ASSUME GatewayInv, ~raced PROVE ~late /\ (buf # "live" => owed = {})
  BY DEF BufferOutlivesWriters
<1> USE DEF GatewayInv, ConnInv
<1>1. ~late
  BY DEF LateInv
<1>2. ASSUME buf # "live", NEW w \in owed PROVE FALSE
  <2>1. acc = "exited" /\ Counted = {}
    BY <1>2 DEF MarkerInv, QuietInv
  <2>2. w \in Clients \/ w = Acceptor
    BY <1>2 DEF IndInv, TypeOK
  <2> QED BY <1>2, <2>1, <2>2 DEF MarkerInv, Counted
<1> QED BY <1>1, <1>2

(* Without a lost update no handler uses the buffer while or after main frees
   it, nor signals the destroyed condition variable. *)
THEOREM BufferOutlives == GatewaySafeSpec => []BufferOutlivesWriters
  BY InvImpliesBufferOutlives, GatewayInvariance, PTL

LEMMA InvImpliesFaultAtShutdown == GatewayInv => FaultOnlyAtShutdown
<1> SUFFICES ASSUME GatewayInv, ~raced, fault, buf = "live" PROVE FALSE
  BY DEF FaultOnlyAtShutdown
<1> USE DEF GatewayInv, ConnInv, IndInv
<1>1. SawEnd /\ Len(node) > head
  BY DEF FaultOnlyAfterEnd
<1>2. head # NULL /\ head = Len(received) /\ received[head] = End
  BY <1>1 DEF CsvInv, SawEnd, Unlinked, TypeOK
<1>3. head \in 1..Len(node)
  BY <1>2, ListEnds
<1>4. Inserted[head] = End
  BY <1>2, <1>3 DEF ReceivedInv, Inserted, TypeOK
<1>5. head = Len(node)
  BY <1>3, <1>4, InsertedType DEF MarkerLast
<1> QED BY <1>1, <1>5 DEF TypeOK

(* Without a lost update freed memory is not used before main cleans up. *)
THEOREM FaultAtShutdown == GatewaySafeSpec => []FaultOnlyAtShutdown
  BY InvImpliesFaultAtShutdown, GatewayInvariance, PTL

LEMMA InvImpliesNothingLost == GatewayInv => AllStored
<1> SUFFICES ASSUME GatewayInv, ~raced, sm = "done"
             PROVE  csv = SubSeq(Inserted, 1, Len(Inserted) - 1)
  BY DEF AllStored
<1> USE DEF GatewayInv, ConnInv, IndInv
<1>1. Len(received) = Len(csv) + 1 /\ received[Len(received)] = End
  BY DEF CsvInv, SawEnd
<1>2. Len(received) \in 1..Len(node)
  BY <1>1 DEF ReceivedInv, TypeOK
<1>3. \A k \in 1..Len(received) : received[k] = Inserted[k]
  BY DEF ReceivedInv, Inserted, TypeOK
<1>4. Len(received) = Len(Inserted)
  BY <1>1, <1>2, <1>3, InsertedType DEF MarkerLast
<1>5. \A k \in 1..Len(csv) : csv[k] = Inserted[k]
  BY <1>1, <1>3 DEF CsvInv, TypeOK
<1>6. csv \in Seq(Data)
  BY DEF TypeOK, Data
<1> HIDE DEF GatewayInv, ConnInv, IndInv
<1> QED BY <1>1, <1>4, <1>5, <1>6, InsertedType

(* Without a lost update every reading inserted is in data.csv when main
   frees the buffer. *)
THEOREM NothingLost == GatewaySafeSpec => []AllStored
  BY InvImpliesNothingLost, GatewayInvariance, PTL

(* With one connection at a time there are no two threads that count. *)
LEMMA AtMostOneCounted ==
  ASSUME ConnInv, ~raced, MaxConn <= 1
  PROVE  /\ \A x, y \in Counted : x = y
         /\ acc = "store" => Counted = {}
<1> USE DEF ConnInv
<1>1. acc = "store" => Counted = {}
  BY CountedFinite, FS_EmptySet DEF LimitInv
<1>2. ASSUME NEW x \in Counted, NEW y \in Counted, x # y PROVE FALSE
  <2>1. Cardinality(Counted) <= 1
    <3>1. Cardinality(Counted) <= MaxConn
      BY <1>2 DEF LimitInv
    <3> QED BY <3>1, CountedFinite
  <2>2. IsFiniteSet({x}) /\ Cardinality({x}) = 1
    BY FS_Singleton
  <2>3. Cardinality({x} \cup {y}) = 2
    <3>1. y \notin {x}
      BY <1>2
    <3>2. Cardinality({x} \cup {y}) = Cardinality({x}) + 1
      BY <2>2, <3>1, FS_AddElement
    <3> QED BY <2>2, <3>2
  <2>4. Cardinality({x} \cup {y}) <= Cardinality(Counted)
    BY CountedFinite, FS_Subset
  <2> QED BY <2>1, <2>3, <2>4, CountedFinite
<1> QED BY <1>1, <1>2

LEMMA RegStep ==
  MaxConn <= 1 /\ ConnInv /\ RegInv /\ [GatewayNext]_gatewayVars => RegInv'
<1> SUFFICES ASSUME MaxConn <= 1, ConnInv, RegInv, [GatewayNext]_gatewayVars PROVE RegInv'
  OBVIOUS
<1> USE DEF RegInv, AccGoes, HandlerGoes
<1>1. CASE AcceptCount
  <2>1. \A c \in Clients : handler[c] # "store"
    BY <1>1, AtMostOneCounted DEF AcceptCount, Counted
  <2>2. ~raced'
    BY <1>1 DEF AcceptCount, Write
  <2> QED BY <1>1, <2>1, <2>2 DEF AcceptCount
<1>2. CASE AcceptUncount
  <2>1. client \in Counted /\ handler[client] = "gone"
    BY <1>2 DEF AcceptUncount, Counted, ConnInv, AdmitInv
  <2>2. \A c \in Clients : handler[c] # "store"
    BY <2>1, AtMostOneCounted DEF Counted
  <2>3. ~raced'
    BY <1>2 DEF AcceptUncount, Write
  <2> QED BY <1>2, <2>2, <2>3 DEF AcceptUncount
<1>3. ASSUME NEW c \in Clients, HandlerUncount(c) PROVE RegInv'
  <2>1. c \in Counted
    BY <1>3 DEF HandlerUncount, Counted
  <2>2. acc \notin {"store", "undoStore"}
    BY <2>1, <1>3, AtMostOneCounted DEF HandlerUncount, Counted, ConnInv, AdmitInv
  <2>3. \A x \in Clients : handler[x] = "store" => x = c
    BY <2>1, AtMostOneCounted DEF Counted
  <2>4. ~raced'
    BY <1>3 DEF HandlerUncount, Write
  <2>5. \A x \in Clients : handler'[x] # "store"
    BY <1>3, <2>3 DEF HandlerUncount, ConnInv, GatewayTypeOK
  <2>6. acc' = acc
    BY <1>3 DEF HandlerUncount, accVars
  <2> QED BY <2>2, <2>4, <2>5, <2>6
<1>4. CASE AcceptLoad
  BY <1>4 DEF AcceptLoad
<1>5. ASSUME NEW c \in Clients, HandlerLoad(c) PROVE RegInv'
  BY <1>5 DEF HandlerLoad, accVars, ConnInv, GatewayTypeOK
<1>6. CASE ConnmgrStart \/ AcceptTest \/ AcceptFails \/ Poll \/ ConnmgrExit \/ Mark
  BY <1>6 DEF ConnmgrStart, AcceptTest, AcceptFails, Poll, ConnmgrExit, Mark
<1>7. CASE Spawn \/ SpawnFails
  BY <1>7 DEF Spawn, SpawnFails, ConnInv, GatewayTypeOK
<1>8. ASSUME NEW c \in Clients, Accept(c) \/ Receive(c) \/ Disconnect(c) \/ InsertReading(c)
      PROVE  RegInv'
  BY <1>8 DEF Accept, Receive, Disconnect, InsertReading, accVars, ConnInv, GatewayTypeOK
<1>9. CASE UNCHANGED connVars
  BY <1>9 DEF connVars
<1> QED BY <1>1, <1>2, <1>3, <1>4, <1>5, <1>6, <1>7, <1>8, <1>9
    DEF GatewayNext, AcceptThread, Handler, BufferStep, gatewayVars

(* With at most one connection at a time no update of conn_counter is lost,
   so all that is promised while none is lost holds without reserve. *)
THEOREM SingleConnection == MaxConn <= 1 /\ GatewaySafeSpec => []NeverRaced
<1>1. GatewayInit => RegInv
  <2>1. GatewayInit => ~raced
    BY Zenon DEF GatewayInit
  <2> QED BY <2>1 DEF GatewayInit, RegInv
<1>2. GatewayInv => ConnInv
  BY DEF GatewayInv
<1>3. RegInv => NeverRaced
  BY DEF RegInv, NeverRaced
<1> SUFFICES ASSUME MaxConn <= 1 PROVE GatewaySafeSpec => []NeverRaced
  OBVIOUS
<1>4. ConnInv /\ RegInv /\ [GatewayNext]_gatewayVars => RegInv'
  BY RegStep
<1> QED BY <1>1, <1>2, <1>3, <1>4, GatewayInvariance, PTL DEF GatewaySafeSpec
=============================================================================
