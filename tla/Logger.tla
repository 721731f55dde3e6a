------------------------------- MODULE Logger -------------------------------
(***************************************************************************)
(* The log process of the sensor gateway (main.c).  main creates a pipe    *)
(* and forks; the child moves messages from the pipe to gateway.log until  *)
(* read reports the end of the file; the gateway's threads write messages  *)
(* under pipemutex; at the end main closes the pipe and waits for the      *)
(* child.                                                                  *)
(*                                                                         *)
(* The kernel's side is part of the model: a write blocks while the pipe   *)
(* is full and kills the gateway with SIGPIPE when no process can read the *)
(* pipe; a read blocks while the pipe is empty and reports the end of the  *)
(* file when no process can write any more.  A write of LOG_MESSAGE_LENGTH *)
(* bytes is atomic, so a message is its writer's name; the number in front *)
(* of a log line is its position in log.                                   *)
(***************************************************************************)
EXTENDS Naturals, Sequences

CONSTANTS
  Main,         \* the main thread of the gateway
  Joined,       \* the threads main joins before it closes the log
  Detached,     \* handler threads, which main does not join
  Capacity,     \* the messages a pipe can hold
  MaxMessages,  \* bound: messages begun in one behaviour
  Faults        \* failures that may happen: "fork" (pipe or fork), "log"
                \* (open or setvbuf of gateway.log), "exit" (an error exit of main)

Threads == {Main} \cup Joined \cup Detached

ASSUME ThreadsAssumption ==
  Main \notin Joined \cup Detached /\ Joined \cap Detached = {}
ASSUME CapacityAssumption == Capacity \in Nat

VARIABLES
  main,      \* where main is
  child,     \* where the log process is
  readers,   \* the processes with an open read end: "parent", "child"
  writers,   \* the processes with an open write end
  pc,        \* pc[t]: where thread t is in write_to_log_process
  pipe,      \* the messages in the pipe
  log,       \* the lines of gateway.log
  begun,     \* number of messages begun
  sent,      \* history: the messages written to the pipe
  lost       \* history: the threads whose write found the pipe closed

pipeEnds == <<readers, writers>>
history  == <<begun, sent, lost>>
logVars  == <<main, child, readers, writers, pc, pipe, log, begun, sent, lost>>

Gone == {"ended", "exited", "killed", "failed"}

TypeOK ==
  /\ main \in {"create", "forked", "hello", "work", "bye", "close", "wait"} \cup Gone
  /\ child \in {"none", "forked", "open", "read", "exited", "failed"}
  /\ readers \subseteq {"parent", "child"} /\ writers \subseteq {"parent", "child"}
  /\ pc \in [Threads -> {"idle", "enter", "inside", "done"}]
  /\ pipe \in Seq(Threads) /\ Len(pipe) <= Capacity
  /\ log \in Seq(Threads) /\ sent \in Seq(Threads)
  /\ begun \in Nat /\ lost \subseteq Threads

Init ==
  /\ main = "create" /\ child = "none"
  /\ readers = {} /\ writers = {}
  /\ pc = [t \in Threads |-> "idle"]
  /\ pipe = <<>> /\ log = <<>>
  /\ begun = 0 /\ sent = <<>> /\ lost = {}

-----------------------------------------------------------------------------
(* create_log_process, in the parent and in the child. *)

(* The gateway's process ends: its threads and its descriptors are gone. *)
ProcessEnds(how) ==
  /\ main' = how
  /\ pc' = [t \in Threads |-> "done"]
  /\ readers' = readers \ {"parent"}
  /\ writers' = writers \ {"parent"}

CreateFails ==
  /\ main = "create" /\ "fork" \in Faults
  /\ ProcessEnds("failed")
  /\ UNCHANGED <<child, pipe, log, history>>

Fork ==
  /\ main = "create"
  /\ main' = "forked" /\ child' = "forked"
  /\ readers' = {"parent", "child"} /\ writers' = {"parent", "child"}
  /\ UNCHANGED <<pc, pipe, log, history>>

(* Mutant: the parent keeps its read end. *)
ParentSetup_KeepsReadEnd ==
  /\ main = "forked" /\ main' = "hello"
  /\ UNCHANGED <<child, pipeEnds, pc, pipe, log, history>>

ParentSetup ==
  /\ main = "forked" /\ main' = "hello"
  /\ readers' = readers \ {"parent"}
  /\ UNCHANGED <<child, writers, pc, pipe, log, history>>

(* Mutant: the child keeps its write end. *)
ChildSetup_KeepsWriteEnd ==
  /\ child = "forked" /\ child' = "open"
  /\ UNCHANGED <<main, pipeEnds, pc, pipe, log, history>>

ChildSetup ==
  /\ child = "forked" /\ child' = "open"
  /\ writers' = writers \ {"child"}
  /\ UNCHANGED <<main, readers, pc, pipe, log, history>>

(* The log file is opened and made line buffered, or the child returns. *)
ChildOpens ==
  /\ child = "open" /\ child' = "read"
  /\ UNCHANGED <<main, pipeEnds, pc, pipe, log, history>>

ChildFails ==
  /\ child = "open" /\ "log" \in Faults
  /\ child' = "failed"
  /\ readers' = readers \ {"child"}
  /\ UNCHANGED <<main, writers, pc, pipe, log, history>>

-----------------------------------------------------------------------------
(* write_to_log_process, called by thread t; its result is never looked at. *)

PipemutexFree == \A t \in Threads : pc[t] \notin {"enter", "inside"}

(* main writes its first and its last message; its other threads run from the
   first one on until the process ends. *)
MayWrite(t) ==
  IF t = Main THEN main \in {"hello", "bye"}
              ELSE main \in {"work", "bye", "close", "wait"}

BeginMessage(t) ==
  /\ MayWrite(t) /\ pc[t] = "idle"
  /\ t # Main => begun < MaxMessages
  /\ PipemutexFree
  /\ pc' = [pc EXCEPT ![t] = "enter"]
  /\ begun' = begun + 1
  /\ UNCHANGED <<main, child, pipeEnds, pipe, log, sent, lost>>

(* The call of write fails at once when end_log_process has closed the pipe. *)
EnterWrite(t) ==
  /\ pc[t] = "enter"
  /\ \/ "parent" \in writers /\ pc' = [pc EXCEPT ![t] = "inside"] /\ UNCHANGED lost
     \/ "parent" \notin writers /\ pc' = [pc EXCEPT ![t] = "idle"] /\ lost' = lost \cup {t}
  /\ UNCHANGED <<main, child, pipeEnds, pipe, log, begun, sent>>

WriteMessage(t) ==
  /\ pc[t] = "inside" /\ readers # {}
  /\ Len(pipe) < Capacity
  /\ pipe' = Append(pipe, t) /\ sent' = Append(sent, t)
  /\ pc' = [pc EXCEPT ![t] = "idle"]
  /\ main' = IF t # Main THEN main ELSE IF main = "hello" THEN "work" ELSE "close"
  /\ UNCHANGED <<child, pipeEnds, log, begun, lost>>

Sigpipe(t) ==
  /\ pc[t] = "inside" /\ readers = {}
  /\ ProcessEnds("killed")
  /\ UNCHANGED <<child, pipe, log, history>>

-----------------------------------------------------------------------------
(* The rest of main. *)

ThreadReturns(t) ==
  /\ t # Main /\ main \in {"work", "bye", "close", "wait"}
  /\ pc[t] = "idle"
  /\ pc' = [pc EXCEPT ![t] = "done"]
  /\ UNCHANGED <<main, child, pipeEnds, pipe, log, history>>

(* Mutant: main does not wait for its threads. *)
Join_NoWait ==
  /\ main = "work" /\ main' = "bye"
  /\ UNCHANGED <<child, pipeEnds, pc, pipe, log, history>>

Join ==
  /\ main = "work" /\ main' = "bye"
  /\ \A t \in Joined : pc[t] = "done"
  /\ UNCHANGED <<child, pipeEnds, pc, pipe, log, history>>

(* One of the error exits, which leave the log process alone. *)
ErrorExit ==
  /\ main = "work" /\ "exit" \in Faults
  /\ ProcessEnds("exited")
  /\ UNCHANGED <<child, pipe, log, history>>

(* end_log_process in the parent: the read end is closed for a second time,
   then the write end; then main waits for the child. *)
CloseLog ==
  /\ main = "close" /\ main' = "wait"
  /\ readers' = readers \ {"parent"}
  /\ writers' = writers \ {"parent"}
  /\ UNCHANGED <<child, pc, pipe, log, history>>

Wait ==
  /\ main = "wait" /\ child \in {"exited", "failed"}
  /\ ProcessEnds("ended")
  /\ UNCHANGED <<child, pipe, log, history>>

-----------------------------------------------------------------------------
(* log_pipe_to_file, in the child. *)

ChildReads ==
  /\ child = "read" /\ pipe # <<>>
  /\ log' = Append(log, Head(pipe))
  /\ pipe' = Tail(pipe)
  /\ UNCHANGED <<main, child, pipeEnds, pc, history>>

(* Nobody can write any more: a write in progress keeps the pipe open. *)
EndOfFile == writers = {} /\ \A t \in Threads : pc[t] # "inside"

(* Mutant: the child takes an empty pipe for the end. *)
ChildEnds_WhenEmpty ==
  /\ child = "read" /\ pipe = <<>>
  /\ child' = "exited"
  /\ readers' = readers \ {"child"}
  /\ UNCHANGED <<main, writers, pc, pipe, log, history>>

(* Mutant: the child ends although messages are left. *)
ChildEnds_Undrained ==
  /\ child = "read" /\ EndOfFile
  /\ child' = "exited"
  /\ readers' = readers \ {"child"}
  /\ UNCHANGED <<main, writers, pc, pipe, log, history>>

ChildEnds ==
  /\ child = "read" /\ pipe = <<>> /\ EndOfFile
  /\ child' = "exited"
  /\ readers' = readers \ {"child"}
  /\ UNCHANGED <<main, writers, pc, pipe, log, history>>

-----------------------------------------------------------------------------
Child == ChildSetup \/ ChildOpens \/ ChildReads \/ ChildEnds

InWrite(t) == EnterWrite(t) \/ WriteMessage(t) \/ Sigpipe(t)

MainGoes == Fork \/ ParentSetup \/ BeginMessage(Main) \/ CloseLog \/ Wait

Next ==
  \/ MainGoes \/ CreateFails \/ Join \/ ErrorExit
  \/ Child \/ ChildFails
  \/ \E t \in Threads : InWrite(t)
  \/ \E t \in Joined \cup Detached : BeginMessage(t) \/ ThreadReturns(t)

SafeSpec == Init /\ [][Next]_logVars

(***************************************************************************)
(* Both processes run, and so does a thread that is inside                 *)
(* write_to_log_process.  Nobody has to begin a message or to return.      *)
(***************************************************************************)
Fairness ==
  /\ WF_logVars(MainGoes)
  /\ WF_logVars(Child)
  /\ \A t \in Threads : WF_logVars(InWrite(t))

Spec == SafeSpec /\ Fairness

-----------------------------------------------------------------------------
(* Correctness. *)

(* main.c:221: "make log line buffered, so no logs get lost".  When the log
   process ends by itself the log holds every message written to the pipe, in
   the order of writing, however the gateway ended. *)
LogComplete == child = "exited" => log = sent

(* Only a detached handler can find the log closed: main closes it after it
   has joined its threads and written its own last message. *)
LostByDetached == lost \subseteq Detached

(* The gateway dies of SIGPIPE only if the log process failed to start: no
   message is written after the log process has ended by itself. *)
KilledWithoutLogger == main = "killed" => child = "failed"

(* However the gateway ends, the log process ends as well. *)
LoggerEnds == main \in Gone ~> child \in {"none", "exited", "failed"}

(* Once main has joined its threads it does not hang in the log. *)
MainReturns == main = "bye" ~> main \in Gone

(* No thread stays blocked on a full pipe while it holds pipemutex. *)
WritesReturn == \A t \in Threads : pc[t] = "inside" ~> pc[t] # "inside"

-----------------------------------------------------------------------------
(* The inductive invariant. *)

(* Who holds which end of the pipe. *)
EndsInv ==
  /\ "child" \in writers => child = "forked"
  /\ child \in {"forked", "open", "read"} => "child" \in readers
  /\ "parent" \in writers <=> main \in {"forked", "hello", "work", "bye", "close"}
  /\ child = "none" <=> main \in {"create", "failed"}
  /\ child = "exited" => writers = {}

(* A thread in write_to_log_process is alive, and one that main joins has
   returned when main goes on. *)
ThreadInv ==
  /\ main \in Gone => \A t \in Threads : pc[t] = "done"
  /\ main \in {"create", "forked"} => \A t \in Threads : pc[t] = "idle"
  /\ \A t \in Joined : main \in {"bye", "close", "wait"} => pc[t] = "done"
  /\ pc[Main] \in {"enter", "inside"} => main \in {"hello", "bye"}
  /\ child = "exited" => \A t \in Threads : pc[t] # "inside"

LoggerInv ==
  /\ TypeOK /\ EndsInv /\ ThreadInv
  /\ log \o pipe = sent
  /\ child = "exited" => pipe = <<>>
  /\ LostByDetached /\ KilledWithoutLogger
=============================================================================
