------------------------------ MODULE Gateway ------------------------------
(***************************************************************************)
(* The sensor gateway: the connection manager (connmgr.c) writing into the *)
(* shared buffer of SBuffer.tla, and main.c waiting for its three threads. *)
(*                                                                         *)
(* The accept thread admits connections while conn_counter is below the    *)
(* maximum, then polls until the counter is zero and inserts the end       *)
(* marker.  Each connection has a detached handler thread that receives    *)
(* readings, inserts them, and counts itself out when the connection ends. *)
(* conn_counter is a plain int shared by all of them without a lock: each  *)
(* ++ and -- is a load and a store with anything in between.               *)
(*                                                                         *)
(* A member of Readings is a connection; it also stands for the readings   *)
(* received over it.  Each client connects at most once, at any moment.    *)
(***************************************************************************)
EXTENDS SBuffer, Integers, FiniteSets

CONSTANTS
  Acceptor,   \* the accept thread as a writer
  MaxConn     \* max_conn, the second argument of the program

Clients == Readings

ASSUME WritersAssumption == Acceptor \notin Clients /\ Writers = Clients \cup {Acceptor}
ASSUME ClientsAssumption == IsFiniteSet(Clients)
ASSUME MaxConnAssumption == MaxConn \in Int

(* Further start-up and run-time failures a run may explore through Faults:
   "listen" (server socket or accept thread), "accept" (accept returns an
   error), "spawn" (malloc or pthread_create for a handler), "malloc" (the
   node of sbuffer_insert). *)

VARIABLES
  counter,   \* conn_counter
  acc,       \* where the accept thread, or connmgr around it, is
  client,    \* the connection the accept thread is admitting
  accReg,    \* the value the accept thread has loaded from conn_counter
  handler,   \* handler[c]: where the handler of connection c is
  reg,       \* reg[c]: the value that handler has loaded from conn_counter
  raced,     \* history: some update of conn_counter was lost
  late       \* a handler used the buffer after main freed it

accVars    == <<acc, client, accReg>>
connVars   == <<counter, acc, client, accReg, handler, reg, raced>>
gatewayVars == <<vars, connVars, late>>

GatewayTypeOK ==
  /\ counter \in Int /\ accReg \in Int /\ reg \in [Clients -> Int]
  /\ acc \in {"init", "test", "accept", "load", "store", "spawn",
              "undoLoad", "undoStore", "poll", "mark", "leave", "exited"}
  /\ client \in Clients \cup {NoData}
  /\ handler \in [Clients -> {"none", "accepted", "recv", "insert", "load",
                              "store", "gone"}]
  /\ raced \in BOOLEAN /\ late \in BOOLEAN

GatewayInit ==
  /\ Init
  /\ counter = 0 /\ acc = "init" /\ client = NoData /\ accReg = 0
  /\ handler = [c \in Clients |-> "none"]
  /\ reg = [c \in Clients |-> 0]
  /\ raced = FALSE /\ late = FALSE

(* conn_counter = value, computed from what was loaded earlier. *)
Write(loaded, value) ==
  /\ counter' = value
  /\ raced' = (raced \/ loaded # counter)

AccGoes(from, to) == Running /\ acc = from /\ acc' = to

HandlerGoes(c, from, to) ==
  /\ Running
  /\ handler[c] = from
  /\ handler' = [handler EXCEPT ![c] = to]

-----------------------------------------------------------------------------
(* connmgr and its accept thread. *)

ConnmgrStart ==
  /\ \/ AccGoes("init", "test")
     \/ "listen" \in Faults /\ AccGoes("init", "exited")
  /\ UNCHANGED <<vars, counter, client, accReg, handler, reg, raced, late>>

(* Mutant: one connection too many. *)
AcceptTest_OrEqual ==
  /\ \/ counter <= MaxConn /\ AccGoes("test", "accept")
     \/ ~(counter <= MaxConn) /\ AccGoes("test", "poll")
  /\ UNCHANGED <<vars, counter, client, accReg, handler, reg, raced, late>>

AcceptTest ==
  /\ \/ counter < MaxConn /\ AccGoes("test", "accept")
     \/ ~(counter < MaxConn) /\ AccGoes("test", "poll")
  /\ UNCHANGED <<vars, counter, client, accReg, handler, reg, raced, late>>

(* A client connects and tcp_wait_for_connection returns its socket. *)
Accept(c) ==
  /\ AccGoes("accept", "load")
  /\ HandlerGoes(c, "none", "accepted")
  /\ client' = c
  /\ UNCHANGED <<vars, counter, accReg, reg, raced, late>>

AcceptFails ==
  /\ "accept" \in Faults
  /\ AccGoes("accept", "test")
  /\ UNCHANGED <<vars, counter, client, accReg, handler, reg, raced, late>>

(* The load of the increment of conn_counter, and of the decrement on the
   error paths. *)
AcceptLoad ==
  /\ AccGoes("load", "store") \/ AccGoes("undoLoad", "undoStore")
  /\ accReg' = counter
  /\ UNCHANGED <<vars, counter, client, handler, reg, raced, late>>

AcceptCount ==
  /\ AccGoes("store", "spawn")
  /\ Write(accReg, accReg + 1)
  /\ UNCHANGED <<vars, client, accReg, handler, reg, late>>

Spawn ==
  /\ AccGoes("spawn", "test")
  /\ HandlerGoes(client, "accepted", "recv")
  /\ UNCHANGED <<vars, counter, client, accReg, reg, raced, late>>

(* Mutant: the error path forgets to decrement. *)
SpawnFails_StillCounted ==
  /\ "spawn" \in Faults
  /\ AccGoes("spawn", "test")
  /\ HandlerGoes(client, "accepted", "gone")
  /\ UNCHANGED <<vars, counter, client, accReg, reg, raced, late>>

SpawnFails ==
  /\ "spawn" \in Faults
  /\ AccGoes("spawn", "undoLoad")
  /\ HandlerGoes(client, "accepted", "gone")
  /\ UNCHANGED <<vars, counter, client, accReg, reg, raced, late>>

AcceptUncount ==
  /\ AccGoes("undoStore", "test")
  /\ Write(accReg, accReg - 1)
  /\ UNCHANGED <<vars, client, accReg, handler, reg, late>>

(* Mutant: the accept thread does not wait for the handlers. *)
Poll_NoWait ==
  /\ AccGoes("poll", "mark")
  /\ UNCHANGED <<vars, counter, client, accReg, handler, reg, raced, late>>

(* The polling loop; sleeping changes nothing. *)
Poll ==
  /\ ~(counter > 0)
  /\ AccGoes("poll", "mark")
  /\ UNCHANGED <<vars, counter, client, accReg, handler, reg, raced, late>>

(* The result of inserting the end marker is not looked at. *)
Mark ==
  /\ AccGoes("mark", "leave")
  /\ \/ Insert(Acceptor, End)
     \/ "malloc" \in Faults /\ UNCHANGED vars
  /\ UNCHANGED <<counter, client, accReg, handler, reg, raced, late>>

(* The accept thread returns, connmgr joins it and returns. *)
ConnmgrExit ==
  /\ AccGoes("leave", "exited")
  /\ Acceptor \notin owed
  /\ UNCHANGED <<vars, counter, client, accReg, handler, reg, raced, late>>

-----------------------------------------------------------------------------
(* handle_client, the thread of connection c. *)

(* Bound: the readings leave one of the MaxInserts nodes for the marker. *)
RoomForReading ==
  Len(node) + Cardinality({c \in Clients : handler[c] = "insert"}) < MaxInserts - 1

(* The three tcp_receive calls of a reading succeed. *)
Receive(c) ==
  /\ c \notin owed
  /\ RoomForReading
  /\ HandlerGoes(c, "recv", "insert")
  /\ UNCHANGED <<vars, counter, accVars, reg, raced, late>>

(* sbuffer_insert, which may fail for want of memory and may come too late. *)
InsertReading(c) ==
  /\ HandlerGoes(c, "insert", "recv")
  /\ \/ Insert(c, c) /\ UNCHANGED late
     \/ "malloc" \in Faults /\ UNCHANGED <<vars, late>>
     \/ buf = "gone" /\ late' = TRUE /\ UNCHANGED vars
  /\ UNCHANGED <<counter, accVars, reg, raced>>

(* The connection is closed by the node, times out or fails in one of the
   three calls; what has been received of a reading is dropped. *)
Disconnect(c) ==
  /\ c \notin owed
  /\ HandlerGoes(c, "recv", "load")
  /\ UNCHANGED <<vars, counter, accVars, reg, raced, late>>

HandlerLoad(c) ==
  /\ HandlerGoes(c, "load", "store")
  /\ reg' = [reg EXCEPT ![c] = counter]
  /\ UNCHANGED <<vars, counter, accVars, raced, late>>

HandlerUncount(c) ==
  /\ HandlerGoes(c, "store", "gone")
  /\ Write(reg[c], reg[c] - 1)
  /\ UNCHANGED <<vars, accVars, reg, late>>

-----------------------------------------------------------------------------
(* main joins connmgr before the two consumers; sbuffer_free does not know of
   the detached handlers. *)
Main == (acc = "exited" /\ FreeStart) \/ FreeNode \/ FreeBuffer

LateAbort ==
  /\ Running /\ late
  /\ aborted' = TRUE
  /\ UNCHANGED <<list, fault, mutex, owed, buf, dmVars, smVars>>

AcceptThread ==
  \/ ConnmgrStart \/ AcceptTest \/ AcceptFails \/ AcceptLoad \/ AcceptCount
  \/ Spawn \/ SpawnFails \/ AcceptUncount \/ Poll \/ Mark \/ ConnmgrExit

Handler(c) ==
  \/ Receive(c) \/ InsertReading(c) \/ Disconnect(c) \/ HandlerLoad(c)
  \/ HandlerUncount(c)

BufferStep ==
  /\ Consumers \/ LateAbort \/ Main \/ \E w \in Writers : SignalFilled(w)
  /\ UNCHANGED <<connVars, late>>

GatewayNext ==
  \/ AcceptThread
  \/ \E c \in Clients : Accept(c) \/ Handler(c)
  \/ BufferStep

GatewaySafeSpec == GatewayInit /\ [][GatewayNext]_gatewayVars

(***************************************************************************)
(* Threads run whenever they can.  Nobody has to connect, but no sensor    *)
(* node sends forever: a connection that is open ends in the end, if only  *)
(* because tcp_receive gives up after TIMEOUT seconds of silence.          *)
(***************************************************************************)
GatewayFairness ==
  /\ WF_gatewayVars(AcceptThread)
  /\ \A c \in Clients : WF_gatewayVars(Handler(c)) /\ SF_gatewayVars(Disconnect(c))
  /\ \A w \in Writers : WF_gatewayVars(SignalFilled(w) /\ UNCHANGED <<connVars, late>>)
  /\ WF_gatewayVars(Datamgr /\ UNCHANGED <<connVars, late>>)
  /\ WF_gatewayVars(Storagemgr /\ UNCHANGED <<connVars, late>>)
  /\ WF_gatewayVars(Main /\ UNCHANGED <<connVars, late>>)

GatewaySpec == GatewaySafeSpec /\ GatewayFairness

-----------------------------------------------------------------------------
(* Correctness. *)

Open == {c \in Clients : handler[c] \in {"accepted", "recv", "insert"}}

(* The connections conn_counter should count at this moment. *)
Counted ==
  {c \in Clients : \/ handler[c] \in {"recv", "insert", "load", "store"}
                   \/ handler[c] = "accepted" /\ acc = "spawn"
                   \/ c = client /\ acc \in {"undoLoad", "undoStore"}}

(* Without a lost update conn_counter is the number of connections. *)
CounterExact == ~raced => counter = Cardinality(Counted)

(* main.c:69: "allowing up to %d connections". *)
ConnectionLimit == Open # {} => Cardinality(Open) <= MaxConn

(* Lost updates of conn_counter are the only way to exceed the limit. *)
LimitUnlessRaced == ~raced => ConnectionLimit

(* Nothing is inserted behind the end marker, and there is one marker. *)
MarkerLast ==
  ~raced => \A k \in 1..Len(Inserted) : Inserted[k] = End => k = Len(Inserted)

(* conn_counter is a local variable of connmgr: no handler still has to
   update it when connmgr returns. *)
CounterOutlivesHandlers ==
  ~raced /\ acc = "exited" => \A c \in Clients : handler[c] \in {"none", "gone"}

(* The buffer outlives its users unless an update was lost: nobody inserts
   into, or is about to signal for, a buffer that main is freeing. *)
BufferOutlivesWriters ==
  ~raced => ~late /\ (buf # "live" => owed = {})

(* Before the shut-down no freed node is used, unless an update was lost: the
   freed end marker stays harmless as long as nothing is inserted behind it. *)
FaultOnlyAtShutdown == ~raced /\ fault => buf # "live"

(* When main has freed the buffer every reading a handler inserted is in
   data.csv, provided the CSV file could be opened. *)
AllStored ==
  ~raced /\ buf # "live" /\ sm = "done" =>
    csv = SubSeq(Inserted, 1, Len(Inserted) - 1)

(* At most one connection at a time: no update can be lost. *)
NeverRaced == ~raced

(* The end marker was never inserted: the server socket was not opened, or
   the insert at the end of the accept thread failed. *)
MarkerMissing ==
  acc = "exited" /\ \A k \in 1..Len(Inserted) : Inserted[k] # End

(* From the moment the accept loop ends the gateway shuts down.  What can keep
   it from doing so: a lost update of conn_counter, a missing end marker, a
   data manager that could not parse the map or met an unknown sensor id. *)
ShutsDownUnlessHindered ==
  acc \in {"poll", "exited"} ~>
    (\/ buf = "gone" \/ aborted \/ raced
     \/ MarkerMissing \/ dm \in {"failed", "spin"})

(* connmgr.c:140: "Indicate end of sbuffer when max connections are reached". *)
MarkerFollows == acc = "poll" ~> (acc = "exited" \/ aborted)

-----------------------------------------------------------------------------
(* The inductive invariant. *)

(* The connection being admitted is the accept thread's, and no handler runs
   before the server socket is open. *)
AdmitInv ==
  /\ \A c \in Clients : handler[c] = "accepted" <=>
       c = client /\ acc \in {"load", "store", "spawn"}
  /\ acc \in {"load", "store", "spawn", "undoLoad", "undoStore"} => client \in Clients
  /\ acc \in {"undoLoad", "undoStore"} => handler[client] = "gone"
  /\ acc = "init" => \A c \in Clients : handler[c] = "none"

(* There is room for one more connection until the accept thread counts it. *)
LimitInv ==
  ~raced => /\ Counted # {} => Cardinality(Counted) <= MaxConn
            /\ acc \in {"accept", "load", "store"} => Cardinality(Counted) < MaxConn

(* All handlers are gone when the accept thread inserts the marker. *)
QuietInv == ~raced /\ acc \in {"mark", "leave", "exited"} => Counted = {}

(* The marker is the accept thread's last act; a thread inside sbuffer_insert
   has not moved on; main waits for connmgr. *)
MarkerInv ==
  /\ \A k \in 1..Len(Inserted) : Inserted[k] = End => acc \in {"leave", "exited"}
  /\ \A c \in Clients : c \in owed => handler[c] = "recv"
  /\ Acceptor \in owed => acc = "leave"
  /\ buf # "live" => acc = "exited"

LateInv == late => raced

ConnInv ==
  /\ GatewayTypeOK /\ AdmitInv
  /\ CounterExact /\ LimitInv /\ QuietInv
  /\ MarkerInv /\ MarkerLast /\ LateInv

GatewayInv == IndInv /\ ConnInv

(* With one connection at a time a loaded value of conn_counter is current. *)
RegInv ==
  /\ ~raced
  /\ acc \in {"store", "undoStore"} => accReg = counter
  /\ \A c \in Clients : handler[c] = "store" => reg[c] = counter
=============================================================================
