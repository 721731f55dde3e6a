----------------------------- MODULE SensorLink -----------------------------
(***************************************************************************)
(* Sensor nodes, the TCP library tcpsock.c and the servers that use it: the *)
(* test server of plab3 and the connection manager of the final gateway.   *)
(* Both programs accept nodes in one thread and serve each in a thread of  *)
(* its own; they differ in tcp_receive (only the later one gives up after  *)
(* TIMEOUT seconds), in the bound of the accept loop and in its end.       *)
(*                                                                         *)
(* A node sends each reading in three pieces: id, value, timestamp.  TCP   *)
(* carries a stream of bytes, so a receive may return a part of a piece.   *)
(* The stream is numbered 0, 1, 2, ...; what a receive stored in a field   *)
(* is [from, n], the n units of the stream from the number `from` on.      *)
(*                                                                         *)
(* The lost updates of the gateway's unprotected conn_counter are the      *)
(* subject of Gateway.tla; here its ++ and -- are single steps.            *)
(***************************************************************************)
EXTENDS Integers, Sequences, FiniteSets

CONSTANTS
  Nodes,     \* the sensor nodes; each connects once and names its connection
  Listen,    \* the listening socket
  MaxConn,   \* the largest number of connections, an argument of both programs
  Size,      \* Size[f]: the units of piece f of a reading
  Loops      \* bound: Loops[c] readings are sent by node c (LOOPS; without it
             \* the node sends until it is killed)

Fields == {"id", "value", "ts"}
Following == [id |-> "value", value |-> "ts", ts |-> "id"]

ASSUME NodesAssumption == IsFiniteSet(Nodes) /\ Listen \notin Nodes
ASSUME SizeAssumption  == Size \in [Fields -> Nat \ {0}]
ASSUME BoundsAssumption == MaxConn \in Nat /\ Loops \in [Nodes -> Nat]

Offset    == [id |-> 0, value |-> Size.id, ts |-> Size.id + Size.value]
Whole     == Size.id + Size.value + Size.ts
Nothing   == [from |-> 0, n |-> 0]     \* no piece, in a field not yet received

VARIABLES
  program,  \* "plab3" or "final": the server that is running
  srv,      \* where its accept thread, or the main thread around it, is
  conns,    \* conn_counter
  fds,      \* the descriptors the server process has open
  socks,    \* the sockets for which it has a tcpsock_t
  starved,  \* history: connections accepted when memory was out
  node,     \* node[c]: "off", the piece that node sends next, or "gone"
  link,     \* link[c]: "none", "up", "shut" by the server, or "reset"
  sent,     \* sent[c]: units that node has put into the stream
  taken,    \* taken[c]: units the server has received
  handler,  \* handler[c]: "none", the piece it receives next, "close", "done"
  data,     \* data[c]: the fields of the handler's sensor_data_t
  out       \* out[c]: history, the readings it printed or put in the buffer

netVars == <<node, link, sent>>
hVars   == <<taken, handler, data, out>>
sockVars == <<fds, socks, starved>>
vars    == <<program, srv, conns, sockVars, netVars, hVars>>

Pieces == [Fields -> [from : Nat, n : Nat]]

TypeOK ==
  /\ program \in {"plab3", "final"}
  /\ srv \in {"start", "thread", "loop", "wait", "leave", "closed", "exited"}
  /\ conns \in Int
  /\ fds \subseteq Nodes \cup {Listen} /\ socks \subseteq fds /\ starved \subseteq Nodes
  /\ node \in [Nodes -> {"off", "gone"} \cup Fields]
  /\ link \in [Nodes -> {"none", "up", "shut", "reset"}]
  /\ sent \in [Nodes -> Nat] /\ taken \in [Nodes -> Nat]
  /\ handler \in [Nodes -> {"none", "close", "done"} \cup Fields]
  /\ data \in [Nodes -> Pieces] /\ out \in [Nodes -> Seq(Pieces)]

Init ==
  /\ program \in {"plab3", "final"} /\ srv = "start" /\ conns = 0
  /\ fds = {} /\ socks = {} /\ starved = {}
  /\ node = [c \in Nodes |-> "off"] /\ link = [c \in Nodes |-> "none"]
  /\ sent = [c \in Nodes |-> 0] /\ taken = [c \in Nodes |-> 0]
  /\ handler = [c \in Nodes |-> "none"]
  /\ data = [c \in Nodes |-> [f \in Fields |-> Nothing]]
  /\ out = [c \in Nodes |-> <<>>]

Up == srv # "exited"     \* the server process exists

-----------------------------------------------------------------------------
(* The library on the server's side. *)

(* The connections the kernel has set up and no accept has taken. *)
Pending == {c \in Nodes : link[c] \in {"up", "reset"} /\ handler[c] = "none" /\ c \notin fds}

(* tcp_close: the descriptor is closed only if shutdown succeeds, which it
   does not on a connection that has been reset; the tcpsock_t is freed in
   any case.  Closing the listening socket resets what is pending. *)
TcpClose(s) ==
  /\ socks' = socks \ {s}
  /\ fds' = IF s \in Nodes /\ link[s] = "reset" THEN fds ELSE fds \ {s}
  /\ link' = IF s = Listen
             THEN [c \in Nodes |-> IF c \in Pending THEN "reset" ELSE link[c]]
             ELSE IF link[s] = "up" THEN [link EXCEPT ![s] = "shut"] ELSE link

(* tcp_passive_open: bind and listen fail with the descriptor open. *)
PassiveOpen   == fds' = {Listen} /\ socks' = {Listen}
PassiveFails  == fds' \in {{}, {Listen}} /\ socks' = {}

(* tcp_wait_for_connection: no memory for the address leaves an open
   descriptor without a tcpsock_t. *)
Accepted(c) == fds' = fds \cup {c} /\ socks' = socks \cup {c} /\ UNCHANGED starved
Starved(c)  == fds' = fds \cup {c} /\ starved' = starved \cup {c} /\ UNCHANGED socks

(* The process ends and the kernel closes what it had open. *)
Exit ==
  /\ srv' = "exited" /\ fds' = {} /\ socks' = {}
  /\ link' = [c \in Nodes |-> IF link[c] # "up" THEN link[c]
                              ELSE IF c \in Pending THEN "reset" ELSE "shut"]

-----------------------------------------------------------------------------
(* Start of the servers and accept loop. *)

OpenServer ==
  /\ srv = "start"
  /\ PassiveOpen /\ srv' = "thread"
  /\ UNCHANGED <<program, conns, starved, netVars, hVars>>

(* connmgr returns and leaves the gateway running; the test server exits. *)
OpenServerFails ==
  /\ srv = "start"
  /\ IF program = "final" THEN PassiveFails /\ srv' = "closed" /\ UNCHANGED link ELSE Exit
  /\ UNCHANGED <<program, conns, starved, node, sent, hVars>>

StartAccepting ==
  /\ srv = "thread"
  /\ srv' = "loop"
  /\ UNCHANGED <<program, conns, sockVars, netVars, hVars>>

AcceptThreadFails ==
  /\ srv = "thread"
  /\ IF program = "final" THEN TcpClose(Listen) /\ srv' = "closed" ELSE Exit
  /\ UNCHANGED <<program, conns, starved, node, sent, hVars>>

(* The test server compares with <=. *)
AcceptsMore == IF program = "final" THEN conns < MaxConn ELSE conns <= MaxConn

(* accept takes a connection and a thread is created for it. *)
Accept(c) ==
  /\ srv = "loop" /\ AcceptsMore /\ c \in Pending
  /\ Accepted(c)
  /\ conns' = conns + 1
  /\ handler' = [handler EXCEPT ![c] = "id"]
  /\ UNCHANGED <<program, srv, netVars, taken, data, out>>

(* ... or memory runs out in tcp_wait_for_connection, and the loop goes on; *)
AcceptStarves(c) ==
  /\ srv = "loop" /\ AcceptsMore /\ c \in Pending
  /\ Starved(c)
  /\ UNCHANGED <<program, srv, conns, netVars, hVars>>

(* Mutant: the socket of a connection without a thread is forgotten. *)
SpawnFails_NotClosed(c) ==
  /\ srv = "loop" /\ AcceptsMore /\ c \in Pending
  /\ Accepted(c)
  /\ UNCHANGED <<program, srv, conns, netVars, hVars>>

(* ... or its thread cannot be created: tcp_close, and it is not counted. *)
SpawnFails(c) ==
  /\ srv = "loop" /\ AcceptsMore /\ c \in Pending
  /\ fds' = IF link[c] = "reset" THEN fds \cup {c} ELSE fds
  /\ link' = IF link[c] = "up" THEN [link EXCEPT ![c] = "shut"] ELSE link
  /\ UNCHANGED <<program, srv, conns, socks, starved, node, sent, hVars>>

(* Mutant: connmgr does not wait either. *)
LeaveLoop_NoWait ==
  /\ srv = "loop" /\ ~AcceptsMore
  /\ srv' = "leave"
  /\ UNCHANGED <<program, conns, sockVars, netVars, hVars>>

(* The test server ends when it has accepted enough, connmgr when those it
   accepted have ended. *)
LeaveLoop ==
  /\ srv = "loop" /\ ~AcceptsMore
  /\ srv' = IF program = "final" THEN "wait" ELSE "leave"
  /\ UNCHANGED <<program, conns, sockVars, netVars, hVars>>

Poll ==
  /\ srv = "wait" /\ conns <= 0
  /\ srv' = "leave"
  /\ UNCHANGED <<program, conns, sockVars, netVars, hVars>>

CloseServer ==
  /\ srv = "leave"
  /\ TcpClose(Listen) /\ srv' = "closed"
  /\ UNCHANGED <<program, conns, starved, node, sent, hVars>>

(* The test server's main returns, whoever is still being served. *)
ServerReturns ==
  /\ srv = "closed" /\ program = "plab3"
  /\ Exit
  /\ UNCHANGED <<program, conns, starved, node, sent, hVars>>

-----------------------------------------------------------------------------
(* handle_client *)

Available(c) == IF link[c] = "up" THEN sent[c] - taken[c] ELSE 0

(* recv returns part or all of what is asked for; the handler looks at the
   number of bytes only to see that it is not zero. *)
Receive(c, n) ==
  LET f == handler[c] IN
    /\ n <= Size[f] /\ n <= Available(c)
    /\ data' = [data EXCEPT ![c][f] = [from |-> taken[c], n |-> n]]
    /\ taken' = [taken EXCEPT ![c] = @ + n]
    /\ out' = IF f = "ts" THEN [out EXCEPT ![c] = Append(@, data'[c])] ELSE out
    /\ handler' = [handler EXCEPT ![c] = Following[f]]

Leave(c) == handler' = [handler EXCEPT ![c] = "close"] /\ UNCHANGED <<taken, data, out>>

(* recv returns 0 at the end of the stream and an error after a reset. *)
PeerGone(c) == Available(c) = 0 /\ (node[c] = "gone" \/ link[c] # "up")

(* Mutant: a time-out drops the reading it was in and keeps the connection. *)
TimesOut_Resumes(c) ==
  /\ Available(c) = 0
  /\ IF handler[c] = "id" THEN Leave(c)
     ELSE handler' = [handler EXCEPT ![c] = "id"] /\ UNCHANGED <<taken, data, out>>

(* Mutant: nobody gives up. *)
TimesOut_Never(c) == FALSE /\ Leave(c)

(* select finds nothing to receive for TIMEOUT seconds. *)
TimesOut(c) == Available(c) = 0 /\ Leave(c)

(* The loop of the test server, over a recv that blocks. *)
TestHandler(c) ==
  /\ program = "plab3"
  /\ (\E n \in 1..Size[handler[c]] : Receive(c, n)) \/ (PeerGone(c) /\ Leave(c))

(* The loop of the gateway. *)
GatewayHandler(c) ==
  /\ program = "final"
  /\ (\E n \in 1..Size[handler[c]] : Receive(c, n)) \/ (PeerGone(c) /\ Leave(c)) \/ TimesOut(c)

Serve(c) ==
  /\ Up /\ handler[c] \in Fields
  /\ TestHandler(c) \/ GatewayHandler(c)
  /\ UNCHANGED <<program, srv, conns, sockVars, netVars>>

(* The thread closes its socket; the gateway's also counts itself out. *)
CloseClient(c) ==
  /\ Up /\ handler[c] = "close"
  /\ TcpClose(c)
  /\ handler' = [handler EXCEPT ![c] = "done"]
  /\ data' = [data EXCEPT ![c] = [f \in Fields |-> Nothing]]
  /\ conns' = IF program = "final" THEN conns - 1 ELSE conns
  /\ UNCHANGED <<program, srv, starved, node, sent, taken, out>>

-----------------------------------------------------------------------------
(* sensor_node.c *)

(* tcp_active_open succeeds when the server listens; otherwise, or when a
   step of it fails, the node exits. *)
Connect(c) ==
  /\ node[c] = "off"
  /\ \/ /\ Listen \in socks
        /\ node' = [node EXCEPT ![c] = "id"] /\ link' = [link EXCEPT ![c] = "up"]
     \/ node' = [node EXCEPT ![c] = "gone"] /\ UNCHANGED link
  /\ UNCHANGED <<program, srv, conns, sockVars, sent, hVars>>

(* A piece goes into the stream.  The first one after the server has closed
   the connection is answered by a reset. *)
Send(c) ==
  /\ node[c] \in Fields /\ sent[c] < Loops[c] * Whole
  /\ \/ link[c] = "up" /\ sent' = [sent EXCEPT ![c] = @ + Size[node[c]]] /\ UNCHANGED link
     \/ link[c] = "shut" /\ link' = [link EXCEPT ![c] = "reset"] /\ UNCHANGED sent
  /\ node' = [node EXCEPT ![c] = Following[@]]
  /\ UNCHANGED <<program, srv, conns, sockVars, hVars>>

(* tcp_send fails and the node exits. *)
SendFails(c) ==
  /\ node[c] \in Fields /\ link[c] \in {"shut", "reset"}
  /\ node' = [node EXCEPT ![c] = "gone"]
  /\ UNCHANGED <<program, srv, conns, sockVars, link, sent, hVars>>

(* The node has sent its readings and closes the connection. *)
NodeCloses(c) ==
  /\ node[c] = "id" /\ sent[c] = Loops[c] * Whole
  /\ node' = [node EXCEPT ![c] = "gone"]
  /\ UNCHANGED <<program, srv, conns, sockVars, link, sent, hVars>>

(* The node is killed, perhaps between two pieces. *)
NodeDies(c) ==
  /\ node[c] \in Fields
  /\ node' = [node EXCEPT ![c] = "gone"]
  /\ UNCHANGED <<program, srv, conns, sockVars, link, sent, hVars>>

(* The network or the node's host breaks the connection. *)
Reset(c) ==
  /\ link[c] = "up"
  /\ link' = [link EXCEPT ![c] = "reset"]
  /\ UNCHANGED <<program, srv, conns, sockVars, node, sent, hVars>>

-----------------------------------------------------------------------------
Server ==
  \/ OpenServer \/ OpenServerFails \/ StartAccepting \/ AcceptThreadFails
  \/ \E c \in Nodes : Accept(c) \/ AcceptStarves(c) \/ SpawnFails(c)
  \/ LeaveLoop \/ Poll \/ CloseServer \/ ServerReturns

Handler(c) == Serve(c) \/ CloseClient(c)

Node(c) == Connect(c) \/ Send(c) \/ SendFails(c) \/ NodeCloses(c)

Next == Server \/ \E c \in Nodes : Handler(c) \/ Node(c) \/ NodeDies(c) \/ Reset(c)

(***************************************************************************)
(* The handler threads run whenever they can; the time-out of select is    *)
(* one of the things they can do.  Nothing is assumed of nodes or network. *)
(***************************************************************************)
Spec == Init /\ [][Next]_vars /\ \A c \in Nodes : WF_vars(Handler(c))

-----------------------------------------------------------------------------
(* Correctness. *)

(* The i-th reading of a node as it was sent. *)
Reading(i) == [f \in Fields |-> [from |-> (i - 1) * Whole + Offset[f], n |-> Size[f]]]

Torn(r) == \E f \in Fields : r[f].n < Size[f]

(* Readings reach the buffer as they were sent, up to the first of which a
   piece was received in part; from there on they may be put together from
   pieces of two readings.  No byte is ever used twice. *)
ReadingsIntact ==
  \A c \in Nodes :
    /\ \A i \in DOMAIN out[c] :
         out[c][i] = Reading(i) \/ \E j \in 1..i : Torn(out[c][j])
    /\ \A i, j \in DOMAIN out[c] : \A f, g \in Fields :
         i < j \/ (i = j /\ Offset[f] < Offset[g]) =>
           out[c][i][f].from + out[c][i][f].n <= out[c][j][g].from

(* A descriptor of the server outlives its tcpsock_t in two cases only: the
   peer had reset the connection, or there was no memory in accept; and every
   tcpsock_t is in the hands of a thread that will close it. *)
DescriptorsAccounted ==
  \A c \in Nodes :
    /\ c \in fds \ socks => link[c] = "reset" \/ c \in starved
    /\ c \in socks => handler[c] \in Fields \cup {"close"}
    /\ handler[c] = "done" /\ Up /\ c \in fds => link[c] = "reset"

Served == {c \in Nodes : handler[c] # "none"}
Active == {c \in Served : handler[c] # "done"}

(* The gateway closes its server socket when every connection it served has
   ended.  The test server, whose comments say the same (test_server.c:125,
   test_server.c:128), closes it when it has accepted one connection more than
   the maximum, whatever has become of them. *)
EndOfServer ==
  /\ program = "final" =>
       /\ Cardinality(Active) <= MaxConn
       /\ srv \in {"leave", "closed"} => Active = {}
  /\ program = "plab3" =>
       /\ Cardinality(Served) <= MaxConn + 1
       /\ srv = "leave" => Cardinality(Served) = MaxConn + 1

(* A thread of the gateway ends although its node has fallen silent; one of
   the test server ends when its peer has, or with the program. *)
HandlersEnd ==
  \A c \in Nodes :
    (handler[c] \in Fields /\ (program = "final" \/ node[c] = "gone" \/ link[c] # "up"))
      ~> (handler[c] = "done" \/ ~Up)

-----------------------------------------------------------------------------
(* The inductive invariant. *)

(* The end of a piece in the stream. *)
EndOf(p) == p.from + p.n

(* The pieces of the reading under way that the handler has. *)
Got(c) == {f \in Fields : handler[c] \in Fields /\ Offset[f] < Offset[handler[c]]}

(* A handler takes the stream in its order. *)
OrderInv ==
  \A c \in Nodes :
    /\ handler[c] = "none" => out[c] = <<>> /\ taken[c] = 0
    /\ \A i \in DOMAIN out[c] : \A f \in Fields : EndOf(out[c][i][f]) <= taken[c]
    /\ \A f \in Got(c) :
         /\ EndOf(data[c][f]) <= taken[c]
         /\ \A i \in DOMAIN out[c] : \A g \in Fields :
              EndOf(out[c][i][g]) <= data[c][f].from
         /\ \A g \in Got(c) : Offset[f] < Offset[g] => EndOf(data[c][f]) <= data[c][g].from

(* No piece has been received in part. *)
Clean(c) ==
  /\ \A i \in DOMAIN out[c] : ~Torn(out[c][i])
  /\ \A f \in Got(c) : ~(data[c][f].n < Size[f])

(* Until one is, the handler is in step with the node. *)
StepInv ==
  \A c \in Nodes :
    handler[c] \in Fields /\ Clean(c) =>
      /\ taken[c] = Len(out[c]) * Whole + Offset[handler[c]]
      /\ \A f \in Got(c) : data[c][f] = Reading(Len(out[c]) + 1)[f]

UnopenedInv == \A c \in Nodes : node[c] = "off" => link[c] = "none"

(* conn_counter counts the handlers at work in the gateway and all that were
   ever started in the test server, which never counts one out. *)
CountInv ==
  /\ conns = Cardinality(IF program = "final" THEN Active ELSE Served)
  /\ conns <= IF program = "final" THEN MaxConn ELSE MaxConn + 1
  /\ srv \in {"start", "thread"} => Served = {}
  /\ srv = "wait" => program = "final"
  /\ program = "final" /\ srv \in {"leave", "closed"} => Active = {}
  /\ program = "plab3" /\ srv = "leave" => conns > MaxConn

LinkInv ==
  /\ TypeOK /\ UnopenedInv /\ DescriptorsAccounted
  /\ OrderInv /\ StepInv /\ ReadingsIntact
=============================================================================
