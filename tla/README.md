# Verification of the sensor gateway (oscLabs)

The repository holds the lab exercises of an operating-systems course. Its end
product is the **sensor gateway** in `src/milestone 4 (Final)/`: a server that
accepts TCP connections from sensor nodes, moves their readings through a
shared buffer to a data manager and a storage manager, and stops in an orderly
way after a given number of connections. The other directories hold earlier
stages of the same parts. This project models the gateway, and the earlier
stages where they do something else than the final one: the two-reader buffer of
milestone 3, the file-driven data manager of plab1, the test server of plab3 and
the list exercise of milestone 1. Every path below is relative to
`src/milestone 4 (Final)/` unless it starts with `src/`.

## 1. Inventory

| Part | Code | State | Operations | Talks to |
|---|---|---|---|---|
| shared buffer | `sbuffer.c` | linked list of heap nodes (record, stage, next), head, tail; one mutex; conditions `filled`, `updated` | `init`, `insert`, `read`, `remove`, `cond`, `free` | called by handlers (insert), data manager (read), storage manager (remove), main (init, free) |
| connection manager | `connmgr.c` | `conn_counter` on the stack of `connmgr`, server socket, one socket per handler | accept loop, `handle_client`, poll until the counter is zero, end marker | sensor nodes (TCP), buffer, log |
| data manager | `datamgr.c` | list of sensors with a ring of the last five values each | parse the map, read a record, update the ring, report the average | buffer, pointer list, log |
| storage manager | `sensor_db.c` | `data.csv` | open, remove a record, write a row, close | buffer, log |
| main | `main.c` | thread ids, the buffer, the log pipe | start the log process and three threads, join, free | all of them |
| log process | `main.c` 49-62, 175-246 | pipe, `gateway.log`, sequence number | read a message, number and write it | everybody, through the pipe |
| pointer list | `lib/dplist.c` | doubly linked list with callbacks | create, free, insert, remove, size, searches | data manager |
| socket library | `lib/tcpsock.c` | descriptor, peer address, a magic cookie | open, connect, wait, send, receive, close | connection manager, sensor node |
| sensor node | `sensor_node.c`, `test3.sh`, `test5.sh` | one connection | connect, send readings, close | gateway (TCP) |
| two-reader buffer | `src/milestone3/main.c`, `sbuffer.c` | the buffer with one mutex and one condition, the CSV file with a lock of its own | main feeds a file and one end marker per reader; two readers remove and write | - |
| file data manager | `src/plab1/datamgr.c` | a list as in the final data manager | parse map and readings, room, average, last-modified and total queries | its own list |
| test server | `src/plab3/test_server.c` | a connection counter, one socket per handler | accept loop, handlers, close | sensor nodes (TCP) |
| list exercise | `src/milestone1/ex2/dplist.c` | doubly linked list without callbacks | as the pointer list | - |
| logger of milestone 2 | `src/milestone2` | pipe, `gateway.log` | as the log process, one thread | - |
| room map generator | `file_creator.c` | none | writes a map and readings once | data manager (files) |
| introductory labs | `src/clab1gcc`, `src/clab2`, `src/homework2` | none | single functions | - |

What makes each part correct:

- *Buffer*: records leave in the order they entered; none is lost, repeated,
  or stored before the data manager has read it; no thread sleeps on a
  condition that holds; memory is freed once and not used afterwards.
- *Connection manager*: at most `max_conn` connections at a time; every
  connection that ends is counted out; the end marker comes after the last
  reading; no handler outlives the counter or the buffer it uses.
- *Data manager / storage manager*: both return after the end marker, each
  reading is looked up and stored once.
- *main*: the program ends, and then `data.csv` holds every reading.
- *Pointer list*: forward and backward links agree, the documented results of
  the searches.
- *Log process*: messages are numbered consecutively and each is written once.
- *Running average*: the window holds the latest readings of its sensor, and
  what is logged about a sensor fits them.
- *Connection*: a reading reaches the buffer as its node sent it, and a server
  gives back every descriptor.
- *Two readers*: each record goes to exactly one of them and to the file, and
  both of them end.

The hard behaviours: three long-lived threads and one per connection;
condition variables signalled after the mutex is released; a connection counter
shared without a lock; detached handlers that main does not join; failures at
start-up that make single threads return while the rest keep waiting; sensors
that disconnect, time out or fail between two parts of a reading; receives that
return less than was asked for; a window that wraps around; two readers racing
for one record and then for a second lock. `hazards` in
`PROJECT.json` lists each at its line with the properties that watch it.

## 2. Modules

| Module | What it is |
|---|---|
| `SensorStream` | abstract specification: a stream of records, received in order, stored in order once received, ended by `End`; `Spec` adds that consumers keep up |
| `SBuffer` | `sbuffer.c` with the loops of `datamgr.c` and `sensor_db.c` and the clean-up of `main.c`; any writer inserts anything |
| `SBuffer_proofs` | its theorems |
| `Gateway` | `connmgr.c` and `main.c` on top of `SBuffer`: the writers are now the handlers and the accept thread |
| `Gateway_proofs` | its theorems |
| `Logger` | the pipe, the writers and the log process of `main.c` |
| `Logger_proofs` | its theorems |
| `ListSeq` | abstract specification of a list: a sequence with clamped indices |
| `Dplist` | `lib/dplist.c` at pointer level |
| `Dplist_proofs` | its theorems and those of `ListExercise` |
| `ListExercise` | the list of milestone 1 run beside `Dplist` on the same calls |
| `DataMgr` | `datamgr.c`: map, rows, windows, verdicts |
| `DataMgr_proofs` | its theorems |
| `FileDataMgr` | the data manager of plab1 run beside `DataMgr` on the same map and readings |
| `FileDataMgr_proofs` | its theorems |
| `TwoReaders` | `main.c` and `sbuffer.c` of milestone 3 |
| `TwoReaders_proofs` | its theorems |
| `SensorLink` | `sensor_node.c`, `lib/tcpsock.c` and the two servers above it, byte streams and descriptors |
| `SensorLink_proofs` | its theorems |
| `MC...` | what the TLC instances need: symmetry sets, index ranges, values |

`Gateway` extends `SBuffer`: it has the same variables and actions, conjoined
with its own. `ListExercise` extends `Dplist` and `FileDataMgr` extends
`DataMgr`: each runs two programs in lock step. The other modules stand alone;
what the rest of the gateway sees of them is in the other modules: `Process` in
`SBuffer` is the search of `Dplist` and the data manager of `DataMgr`, `Receive`
and `Disconnect` in `Gateway` are the receive loop of `SensorLink`, and nobody
looks at the results of the log. Operators whose names end in a suffix behind an
underscore (`Poll_NoWait`) are mutants: plausible mistakes in the definition that
follows them, each of which breaks a property of the project.

### SBuffer

Nodes are numbered in the order of allocation and pointers are these numbers
(0 is NULL), so `node`, `head`, `tail` and the `next` fields are the list of
the C code. `freed` holds the nodes given to `free`; every dereference of a
pointer goes through `Touch`, which records in `fault` that freed memory was
used, or freed again. After a fault the process may abort at any moment.

| Action | Code |
|---|---|
| `Insert`, `SignalFilled` | `sbuffer_insert`: the critical section; the signal after the unlock |
| `ReadBlock`, `ReadStart`, `ScanMiss`, `ScanHit`, `SignalUpdated` | `sbuffer_read`: waiting, the test on the tail, the search from the head, the signal after the unlock |
| `Process` | what `datamgr` does with a record: return on `End`, look the sensor up |
| `RemoveBlock`, `RemoveTake`, `StoreRow` | `sbuffer_remove` and the loop of `storagemgr` |
| `DatamgrFails`, `StorageFails` | the map cannot be parsed, `data.csv` cannot be opened: the thread returns |
| `SpuriousWakeup` | a wake-up without a signal, which POSIX allows; `sbuffer_cond` adds nothing else |
| `FreeStart`, `FreeNode`, `FreeBuffer` | main has joined the consumers; `sbuffer_free` |

`dpl_get_index_of_element` (`lib/dplist.c` 211-219) does not leave its loop
when a non-empty list lacks the element, so a reading of an unmapped sensor
takes the data manager to `"spin"`, for good; with an empty map it returns -1
and the loop goes on.

### Gateway

`acc` is the program counter of the accept thread (and of `connmgr` around it),
`handler[c]` that of the handler of connection `c`. `conn_counter++` and
`conn_counter--` are a load (`AcceptLoad`, `HandlerLoad`) and a store
(`AcceptCount`, `AcceptUncount`, `HandlerUncount`); the history variable
`raced` says that a store overwrote an update made since the load. `late` says
that a handler used the buffer after main freed it. `Receive` is the arrival of
all three parts of a reading; `Disconnect` is any way out of the receive loop:
close, timeout, or an error in one of the three calls, with the part of the
reading received so far dropped. `Main` is main waiting for `connmgr` first.
`Gateway` does not restrict `sbuffer_free` to a moment without writers, as
`SBuffer` does (`Free`): main cannot know of detached handlers, and that none
is left is a property to establish.

### Logger

`main`, `child` and `pc[t]` are the program counters of main, of the forked log
process, and of a thread inside `write_to_log_process`. `readers` and `writers`
are the processes that hold an end of the pipe open. The kernel's rules are
modelled because the program relies on them: a full pipe blocks the writer
(which holds `pipemutex`), a pipe without readers kills it, the end of the file
is seen when the last write end is closed. `Fork`, `ParentSetup`, `ChildSetup`,
`ChildOpens` and `ChildFails` are `create_log_process`, `BeginMessage`,
`EnterWrite`, `WriteMessage` and `Sigpipe` are `write_to_log_process`, `ChildReads`
is `log_pipe_to_file`, `CloseLog`, `Wait` and `ChildEnds` are `end_log_process`.
`ErrorExit` stands for the exits of main that leave the log process alone. The
earlier `src/milestone2/milestone2/logger.c` follows the same protocol without a
mutex and with the loop inside `create_log_process`.

### Dplist and ListExercise

`heap[k]` is the k-th node allocated, with its `prev`, `next` and element. One
thread uses the list, so an operation is one step. `Node[k]` is where a loop along `next`
is after k turns; the size, the nodes that are linked and the elements follow from it,
and `ReferenceAt` is the loop of `dpl_get_reference_at_index`.
`dpl_get_index_of_element` is a loop of steps (`FindStart`, `FindMatch`, `FindNext`),
because it may not end: on the last node a mismatch changes nothing, so there is no step. Copies and borrowed pointers are
not told apart. The same code is in `src/milestone1/milestone1/dplist.c`.
`ElementAtReference` is `dpl_get_element_at_reference`, which takes an index for
a truth value and so works for the first node only.

`ListExercise` gives the list of `src/milestone1/ex2/dplist.c` the same calls. Its
insertion is the same code (an instance of `Dplist` on the variables `xheap`,
`xhead`), its removal (`XRemoveFirst`, `XRemoveOther`) and its search (`XIndexOf`) are
not. Where it follows NULL or frees an element twice it is `crashed`.

### DataMgr and FileDataMgr

A map is the sequence of pieces `fgets` returns, parsable (`ParseRoom`) or not
(`ParseJunk`); both advance `index_dpl`, as the code does. `sensors` is the list with
the ring, the place last written and the time stamp of each row. `ReceiveKnown` is
the whole handling of a reading (`datamgr.c` 38-52): search, time stamp, place,
value, average and verdict; `ReceiveInvalid` and `ReceiveUnmapped` are the two ways of
an unmapped sensor, `ReceiveEnd` is the end marker with `datamgr_free`. Averages are
compared by multiplying out the divisor, so integers are exact.

`FileDataMgr` has the actions of `src/plab1/datamgr.c` with the prefix `F`
(`FMapRoom`, `FMapJunk`, `FReading`, `FEndOfFile`, `FFree`) and its queries (`GetRoom`,
`GetLastModified`, `GetAvg`, `GetTotal`, `QuerySpins`). Its average divides by the
number of values that count and not by the length of the window. `Next` gives both
programs the same piece of the map or the same reading.

### TwoReaders

`main` is the program counter of main with each of its exits, `reader[r]` that of a
reader; `queue` is the list, `hand[r]` the record a reader has removed and not yet
written, `rows` the file. `InitBuffer` to `OpenInput` are main up to its loop, `Feed` is
one turn of the loop with `sbuffer_insert`, which may fail unnoticed; `Mark` inserts
an end marker, `Join` waits for the readers and frees the buffer, `Abandon` and
`Destroy` are the exits that free it at once. `Remove`, `RemoveLast`, `Block` and
`WriteRow` are `sbuffer_remove` and the loop of a reader. `Signal` wakes one waiting
reader of main's choice; `SpuriousWakeup` wakes one for nothing. Destroying a
condition variable that threads wait on is undefined: `Destroy` may succeed or hang
(`"stuck"`), both of which happen in practice.

### SensorLink

The bytes of a connection are numbered, and what `tcp_receive` stored in a field is
the interval `[from, n]` of that stream. `node[c]` and `handler[c]` are the program
counters of a sensor node and of the handler of its connection, `link[c]` what the
kernel knows of the connection, `fds` the descriptors the server has open, `socks`
those with a `tcpsock_t`. `program` chooses the server at the start: connection manager
or test server. They differ in the accept test (`AcceptsMore`), in what follows the
loop (`LeaveLoop`, `Poll`) and in the time-out of `tcp_receive` (`GatewayHandler`,
`TestHandler`).

| Action | Code |
|---|---|
| `OpenServer`, `OpenServerFails`, `StartAccepting`, `AcceptThreadFails` | `tcp_passive_open` and `pthread_create` in `connmgr` and in the main of the test server |
| `Accept`, `AcceptStarves`, `SpawnFails` | one turn of the accept loop: `tcp_wait_for_connection`, the thread; memory runs out; the thread cannot be created |
| `LeaveLoop`, `Poll`, `CloseServer`, `ServerReturns` | the ends of the two servers |
| `Serve` | one `tcp_receive` of `handle_client`, the whole piece or a part, or the way out of the loop |
| `CloseClient` | the end of `handle_client` |
| `Connect`, `Send`, `SendFails`, `NodeCloses` | `sensor_node.c` |
| `NodeDies`, `Reset` | the node is killed, the network breaks the connection |

## 3. What the model leaves out of the code it covers

- A critical section that neither waits nor loops is one action: the mutex
  makes it atomic, and everything in it is lock-protected state.
- Freed memory keeps its contents and addresses are not reused. Both are
  choices among the outcomes undefined behaviour allows; `fault` records that
  they were needed, and `Abort` adds the other common outcome. In `TwoReaders` a
  reader that uses the freed buffer stops there.
- A lost update is modelled for `conn_counter`, which is the only variable
  shared without a lock, in `Gateway`; in `SensorLink` its `++` and `--` are single
  steps. A reading of a `volatile`-less variable that the compiler keeps in a
  register in the polling loop is not modelled: the loop calls `sleep`, and the
  counter's address has been passed to other threads.
- In `Gateway` a reading is received whole or dropped; receives in parts are in
  `SensorLink`.
- In `SensorLink` the first piece sent after the server has closed a connection
  is answered by a reset before the next one; the kernel may deliver that later.
  Ports, addresses and the magic cookie of a `tcpsock_t` are left out.
- In `Gateway` no sensor has id 0. In `SBuffer` any writer may insert `End`
  at any time, which covers it.
- Temperatures of `DataMgr` are whole degrees; `double` rounding is not modelled.
  A search that does not end and a list emptied by `datamgr_free` end the model of
  that program.
- `TwoReaders` has the list as a sequence; nodes and their links are in
  `SBuffer`, whose list is the same code.
- `malloc` for the buffer and `pthread_create` for the three threads fail only
  before anything runs; `main` then exits. These paths are not modelled for the
  gateway; for milestone 3, where readers already run, they are.
- Log messages are left out of `SBuffer` and `Gateway`. In `Logger` a message is
  its writer; over-long or unterminated message texts are not modelled.
- Descriptor numbers are not modelled, so the second `close(fd1[0])` of
  `end_log_process` has no effect in `Logger`.
- In `Dplist`, `malloc` does not fail (the code does not check it).

Not modelled at all: `file_creator.c`, which writes its files once and keeps no
state; `src/milestone2`, whose logger is the protocol of `Logger` with a single
thread and no mutex, and whose exercises write a file or pass one string through a
pipe; `src/milestone1/ex1`, the unfinished form of `ex2`; the introductory labs
(`src/clab1gcc`, `src/clab2`, `src/homework2`), single functions without state.

## 4. Runs

| Run | Checks | Instance (distinct states) |
|---|---|---|
| `sbuffer` | order, no failed search, what can cause a fault, no lost wake-up, no leak; refinement of `SensorStream`, its fairness included; shut-down after an end marker | two writers, one mapped and one unmapped reading plus `End`, four inserts, both start-up failures (44 000) |
| `sbuffer_marker` | **violated**: `MarkerKept` | two writers, one reading, three inserts |
| `gateway_safety` | exact counter, connection limit, marker last, lifetimes of counter and buffer, every reading stored: all "unless an update of the counter was lost" | three clients, `max_conn` 2, three inserts, failures of listen, accept, spawn, malloc; clients are symmetric (607 000) |
| `gateway_live` | the gateway shuts down after the accept loop unless one of four named obstacles occurred | two clients, one of them not in the map, three inserts, all start-up failures (146 000) |
| `gateway_hang` | **violated**: `MarkerFollows` | two clients, `max_conn` 2 |
| `logger` | log complete, losses only by detached threads, SIGPIPE only without a log process; the log process ends, main returns, writes return | main, two joined and one detached thread, six messages by the threads, a pipe of two messages, all failures (35 000) |
| `dplist` | links agree, nodes freed once and never used after, refinement of `ListSeq`, each call as documented, a present element is found, the exercise agrees | two elements, four allocations, indices from -1 to 5 (377 000) |
| `dplist_search` | **violated**: `LookupReturns` | two allocations |
| `datamgr` | windows hold the latest readings, verdicts fit them, both data managers hold the same rows, how their verdicts differ, queries about known ids as documented | two ids, two rooms, maps of three pieces, three readings of -280, 4, 12 or 30 degrees, window 2, limits 10 and 20 (765 000) |
| `datamgr_cold` | **violated**: `QuietBetweenLimits` | as above |
| `milestone3` | each record once, overtaken only in hand, file complete, wake-ups suffice, faults only when main gives up; main ends | two readers, files of four records with end markers anywhere, all failures (46 000) |
| `link` | readings intact, descriptors accounted for, the ends of the two servers; handlers end | two nodes with two readings and one, pieces of 1, 2 and 1 units, one connection allowed, both servers, resets, kills, time-outs (767 000) |

Why the bounds suffice: with four inserts the list is empty, has one node, two,
and more, in every combination of stages, is emptied and refilled, and grows
behind a freed marker. Two writers let inserts overtake each other's signals;
a third adds only more of the same. Two concurrent connections are the least
that can lose an update, and three clients the least that can exceed a limit of
two. A pipe of two messages is full, partly filled and empty while threads wait
for the mutex (the real one holds 728). A list of four nodes has a first, a last and
two middle nodes, so every case of insertion and removal has neighbours of every
kind. Three readings wrap a window of two around and leave it partly filled, and the
sums of the values fall on both sides of each limit; three pieces of map give a
junk piece on either side of a row and two rows of one id. Four records give each
reader two, with the order of removal and of writing reversed, and an end marker of
the file before, between and behind readings. In `link` one piece can be torn, which
is enough to put all that follows out of step, and the second reading shows it; two
nodes are one more than the limit of the gateway and exactly the limit the test
server really has. The theorems of section 6 hold without these bounds.

Deadlock checking is off because each program is meant to stop, and TLC would
report its last state (in `dplist` the unending search is such a state as
well); that it does not stop early is what the liveness properties say.

### Fairness

Threads of the process run whenever they can (weak fairness per thread): the
mutex is held for finitely many steps and no thread starves another. A
signal owed after an unlock is sent. Nothing is assumed of spurious wake-ups,
of start-up failures, of clients connecting, or of writers inserting.
`StreamLive` and `ShutdownCompletes` speak of behaviours in which neither consumer
has failed at its start nor is caught in an unending search (`[]Unhindered`): those
are obstacles the code has, and no fairness removes them. For open
connections `Gateway` assumes strong fairness of `Disconnect`: no sensor sends
for ever, because a node that stops sending is dropped after `TIMEOUT` seconds
(`tcp_receive`), and `test3.sh` and `test5.sh` kill the nodes that send for ever because they
were built without `LOOPS`. It has to be
strong because a handler that is inserting cannot disconnect at that moment.
In `Logger` both processes run and a thread inside `write_to_log_process` goes on
when it can; nobody has to begin a message or return from its thread, and main's
turn at `pipemutex` comes because the threads write finitely many messages. In
`Dplist` a search runs once it is called. In `TwoReaders` main and each reader run; a
file ends because it is finite (`MaxRecords`). In `SensorLink` only the handlers run:
the time-out of `select` is one of the things a handler of the gateway can do,
so that it ends although its node is silent, and nothing is assumed of nodes,
network or accept thread.

## 5. Findings

1. `sbuffer_marker`: `sbuffer.c` 110 says the end marker is not removed "to
   make sure every thread sees it". It stays linked, but line 118 frees it like
   any node. Head and tail dangle, and `sbuffer_free` frees the marker a second
   time at every normal shut-down.
2. `gateway_hang`: `conn_counter` has no lock. A lost decrement leaves the accept
   thread polling for ever: the marker announced at `connmgr.c` 140 never comes.
3. `dplist_search`: `lib/dplist.h` 104 promises -1 for an element that is not in
   the list; the loop of `dpl_get_index_of_element` never ends instead. One
   reading of a sensor that is not in `room_sensor.map` stops the data manager
   (`"spin"` in `SBuffer`), and with it the shut-down.
4. `datamgr_cold`: `datamgr.c` 77 and `datamgr.h` 74 say that a value below 0 K is not
   counted in the average. The marker of an empty place is left out of the sum, but
   the sum is divided by the whole window, so the place counts as 0 degrees:
   a sensor well within its limits is logged as too cold until its window is full.

`FaultOnlyAfterEnd` and the properties of `gateway_safety` bound the damage of the
first two: with no lost update the only use of freed memory is the clean-up of the
end marker, and every reading is stored before it.

Other differences between code and comments met on the way, on which no run is
spent; the models follow the code:

- A lost increment of `conn_counter` lets one more connection in than `main.c` 69
  announces; `LimitUnlessRaced` and `SingleConnection` say when that cannot happen.
- `sbuffer.h` 35, here and in `src/milestone3`, says `sbuffer_remove` returns
  `SBUFFER_NO_DATA` for an empty buffer; the code waits.
- `src/plab1/datamgr.h` 76, 84 and 92 ask the queries to end the program through
  `ERROR_HANDLER` for an id that is not in the map. The code does not: on an empty list
  the room and the time are 0 after a message and `datamgr_get_avg` follows NULL; on any
  other list the search never ends (`QuerySpins`).
- `src/plab1/datamgr.h` 83 says the average is 0 with fewer than `RUN_AVG_LENGTH`
  readings; the code averages what there is, and divides 0 by 0 without any.
- `datamgr_get_total_sensors` counts the rows of the map; line 99 of that header speaks
  of unique ids. `AnswersAsDocumented` requires nothing in these three cases.
- `src/plab3/test_server.c` 125 and 128 speak of all connections being processed
  before the server closes; `<=` at line 61 admits one more than the maximum, and
  main returns with handlers at work (`EndOfServer`).
- `dpl_remove_at_index` of `src/milestone1/ex2` ends the program for an index beyond
  the last node, where `dplist.h` promises the removal of that node.
- `dpl_get_element_at_reference` returns an element for the first node only (and for
  nodes with an equal element); `src/milestone1/milestone1/ourtest.c` 178-183 expects
  one for the last.

## 6. Proofs

All theorems hold for every set of writers, readings, clients, nodes and readers
(clients, nodes and readers: finite), every bound on inserts, readings and records,
every `MaxConn`, window, limit and size of a piece, every set of elements and of integer
indices and every number of list nodes; the assumptions are the named `ASSUME`s of the
modules. Nothing else is assumed.

**Buffer.** `IndInv` is inductive (`Invariance`). The properties alone are not:
that records are stored in order depends on which nodes are linked
(`ListInv`), which of them are freed (`FreedInv`), that stages fall from 1 to 0
exactly once along the list (`ReceivedInv`), that the cursor of a running search
is not beyond the first unread node (`ScanInv`), and that the rows written plus
the record in hand are the unlinked nodes (`CsvInv`). From it follow
`TypeCorrect`, `Ordering`, `ReadNeverFails`, `FaultCause`, `WakeupNotLost`,
`FreeReleasesAll`. `Implements` proves the refinement of `SensorStream`: an
insert is `Put`, `ScanHit` is `Receive`, `StoreRow` of a reading is `Store`, all
other steps stutter.

**Gateway.** `GatewayBuffer` carries `IndInv` over to the larger system, in
which the freeing main does not wait for writers; `GatewayOrdering` and
`GatewayImplements` follow, lost updates or not. `GatewayInv` adds `ConnInv`:
the accepting thread's own client (`AdmitInv`), `counter = Cardinality(Counted)`
(`CounterExact`), room for one more connection between the test and the count
(`LimitInv`), no counted connection from the end of the polling on (`QuietInv`),
and who can be inside the buffer when (`MarkerInv`). `GatewayInvariance` proves
it; `CounterIsExact`, `LimitHolds`, `MarkerIsLast`, `CounterOutlives`,
`BufferOutlives`, `FaultAtShutdown` and `NothingLost` follow.
`SingleConnection` proves that with `MaxConn <= 1` no update is ever lost: two
counted connections would be needed, so `RegInv` (a loaded value is current) is
inductive.

**Logger.** `LoggerInv` is inductive (`LoggerInvariance`): it ties the open ends
of the pipe to the program counters (`EndsInv`), says which threads can still be
inside a write when main has gone on (`ThreadInv`), and keeps
`log \o pipe = sent`. Completeness alone is not inductive: that nothing is sent
after the child has ended needs to know that no write end and no write in
progress is left then. `LogIsComplete`, `LossOnlyDetached` and
`KilledOnlyWithoutLogger` follow.

**Data manager.** `DataMgrInv` is inductive (`WindowCorrect`): types, the rows are
the parsed lines although the index of insertion runs ahead of them (`ParseInv`,
`RowsAreLines`), and walking back from the place last written meets the latest
readings (`RingAlwaysLatest`). The last needs `ParseInv`: a row added while parsing
has no readings yet. The lemmas are the arithmetic of a ring of arbitrary length.
`VerdictsFit` goes on from there: a verdict compares a sum over the places of the
window with a limit, so it needs that a sum of terms of one sign has that sign, for
a window of any length, and that the places are the latest readings (`FullWindow`).
The property is a part of the invariant (`JudgedInv`), because a verdict stays while
only the map or other things change.

**The two data managers.** `PairInv` is inductive (`PairInvariance`): beside
`DataMgrInv`, both insert at the same index and hold the same rows (`TwinInv`), and
the first row of an id knows when its last reading came (`HeardInv`); which program
is at which point has to be part of it, because the rows drift apart once one has
ended. `ImplementsDataMgr` shows that the gateway's half of each step is a step of
`DataMgr` alone, so that everything proved there holds here (`TwinVerdictsFit`).
`TwinsHoldSameRows` and `TwinVerdictsRelated` follow, the latter by comparing the two
sums term by term: an empty place counts 0 degrees in one and nothing in the
other. The relation holds in this direction because no limit is below 0 degrees
(`LimitsAssumption`). `QueriesAsDocumented` is an action property about
the ids of the map; for the average it renumbers the sum over the places of the ring
as a sum over the latest readings (`SigmaReindex`), by the bijection that
`RingHoldsLatest` gives (`PlacesAreReadings`).

**Pointer list.** `ListInv` says that there is a sequence of distinct nodes which
`head` and `next` follow to NULL and `prev` follows back, that the nodes not in it are
the freed ones, and that the cursor of a running search is at its index with no match
before it. `ListSound` alone is not inductive: backward links that fit do not exclude a
cycle. That a loop along the list does what it should is proved once, as the lemma
that `Node[k]` is the (k+1)-st node of the chain; sizes, references and
elements follow. For each operation a lemma gives the chain after its writes: the old
one with a node put in (the four cases of `dpl_insert_at_index` are one, `Written`) or
taken out (`Unchain`). From that follow `ListIsSound`, the refinement of `ListSeq`
(`ListIsImplemented`: the elements along the chain are the sequence, insertion and
removal its `InsertAt` and `RemoveAt`), and `CallsAreDocumented`. The list of the
exercise has a chain of its own (`XHolds`) in which nothing is said of the back link
of the first node, which its removal leaves dangling; as long as it has not crashed,
it carries the same elements (`XInv`), from which `ExerciseIsTheList`.

**Two readers.** `ReadersInv` is inductive (`ReadersInvariance`). That nothing is
written twice (`NoneLostNoneTwice`) and that a record is only overtaken in a reader's
hand (`AlmostInOrder`) need that the queue is in the order of the file (`QueueInv`),
that what has been taken was in front of what is left (`TakenInv`), what is in the
hands and in the file (`HandInv`, `RowsInv`), and where each reading is
(`PlacedInv`); completeness of the file (`FileComplete`) that a reader which has
ended saw an end marker at the head (`Drained`); `FaultCause` the order of main
(`PhaseInv`). `SignalsSuffice` counts: sleeping readers and queued end markers are
together no more than there are readers, and without an end marker in the queue a
reader is awake as long as there is a record. It needs that all readers have been
started before the first record (`StartedInv`): one that is still to start is neither
asleep nor awake.

**Connections.** `LinkInv` is inductive (`LinkInvariance`): a handler takes the
stream in its order and uses no byte twice, whatever the receives return
(`OrderInv`); until it receives a piece in part it is in step with its node
(`StepInv`). `StreamIntact` and `DescriptorsHeld` follow. For `ServerEnds` the counter
is compared with what it counts (`CountInv`): the handlers at work in the gateway, all
that were ever started in the test server.

Induction over data is done without the induction theorems of the library, which take
an operator as a parameter: `Least` (a non-empty set of naturals has a least element,
from its well-ordering) and `Induct` (a set with 0 and every successor is all of Nat)
are about sets, and the set is what is named in each use. A sum over a window is a
`FoldFunction` of the community modules; `Sigma` is the recursive function of sets that
it unfolds to, shown to exist and to be independent of the order of its terms
(`SigmaExists`, `SigmaStep`).

Only model-checked: what depends on fairness, which is out of the prover's reach
(`StreamLive`, `ShutdownCompletes`, `ShutsDownUnlessHindered`, `LoggerEnds`,
`MainReturns`, `WritesReturn`, `PresentIsFound`, `MainEnds`, `HandlersEnd`), and the
four violations. Every invariant and every action property of a passing run is proved.

## 7. State of the plan

All that was planned is done: the buffer with its consumers, the connection
manager, main's shut-down, the log process, the pointer list and its first form,
the two data managers, the two-reader buffer, and the sockets with both servers.

Worth adding: descriptor numbers and their reuse, for the second `close` in
`end_log_process` (`main.c` 233); the early exits of the gateway's main, before its
threads run.
