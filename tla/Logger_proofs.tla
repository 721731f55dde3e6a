---------------------------- MODULE Logger_proofs ----------------------------
(***************************************************************************)
(* Proofs about Logger.tla: LoggerInv is inductive, and the log holds      *)
(* every message when the log process ends by itself.                      *)
(***************************************************************************)
EXTENDS Logger, SequenceTheorems, TLAPS

USE ThreadsAssumption, CapacityAssumption

LEMMA LoggerInit == Init => LoggerInv
  BY DEF Init, LoggerInv, TypeOK, EndsInv, ThreadInv, LostByDetached, KilledWithoutLogger,
     Gone, Threads

(* A message that enters the pipe follows all that were sent. *)
LEMMA PipeAppend ==
  ASSUME log \in Seq(Threads), pipe \in Seq(Threads), NEW t \in Threads, log \o pipe = sent
  PROVE  log \o Append(pipe, t) = Append(sent, t)
<1>1. Append(pipe, t) = pipe \o <<t>> /\ <<t>> \in Seq(Threads)
  BY AppendIsConcat
<1>2. log \o (pipe \o <<t>>) = (log \o pipe) \o <<t>>
  BY <1>1, ConcatAssociative
<1>3. log \o pipe \in Seq(Threads)
  BY ConcatProperties
<1>4. Append(log \o pipe, t) = (log \o pipe) \o <<t>>
  BY <1>3, AppendIsConcat
<1> QED BY <1>1, <1>2, <1>4

(* A message that leaves the pipe is the next line of the log. *)
LEMMA PipeToLog ==
  ASSUME log \in Seq(Threads), pipe \in Seq(Threads), pipe # <<>>
  PROVE  /\ Append(log, Head(pipe)) \o Tail(pipe) = log \o pipe
         /\ Append(log, Head(pipe)) \in Seq(Threads)
         /\ Tail(pipe) \in Seq(Threads) /\ Len(Tail(pipe)) = Len(pipe) - 1
  OBVIOUS

(* The gateway's process ends, in whatever way but by SIGPIPE. *)
LEMMA ProcessEndsStep ==
  ASSUME LoggerInv, NEW how \in Gone, ProcessEnds(how),
         UNCHANGED <<child, pipe, log, history>>,
         how = "killed" => child = "failed",
         child = "none" <=> how = "failed"
  PROVE  LoggerInv'
<1> USE DEF LoggerInv, ProcessEnds, history, Gone
<1>1. TypeOK'
  BY DEF TypeOK
<1>2. EndsInv'
  BY DEF EndsInv, TypeOK
<1>3. ThreadInv'
  BY DEF ThreadInv, Threads
<1>4. (LostByDetached /\ KilledWithoutLogger)'
  BY DEF LostByDetached, KilledWithoutLogger
<1> QED BY <1>1, <1>2, <1>3, <1>4

LEMMA CreateStep ==
  ASSUME LoggerInv, CreateFails \/ Fork \/ ParentSetup \/ ErrorExit \/ Wait
  PROVE  LoggerInv'
<1> USE DEF LoggerInv
<1>1. CASE CreateFails
  BY <1>1, ProcessEndsStep DEF CreateFails, EndsInv, Gone
<1>2. CASE ErrorExit
  BY <1>2, ProcessEndsStep DEF ErrorExit, EndsInv, Gone
<1>3. CASE Wait
  BY <1>3, ProcessEndsStep DEF Wait, EndsInv, Gone
<1>4. CASE Fork
  BY <1>4 DEF Fork, history, TypeOK, EndsInv, ThreadInv, LostByDetached, KilledWithoutLogger, Gone
<1>5. CASE ParentSetup
  BY <1>5 DEF ParentSetup, history, TypeOK, EndsInv, ThreadInv, LostByDetached,
     KilledWithoutLogger, Gone, Threads
<1> QED BY <1>1, <1>2, <1>3, <1>4, <1>5

LEMMA MainStep ==
  ASSUME LoggerInv, Join \/ CloseLog
  PROVE  LoggerInv'
<1> USE DEF LoggerInv
<1>1. CASE Join
  BY <1>1 DEF Join, history, pipeEnds, TypeOK, EndsInv, ThreadInv, LostByDetached,
     KilledWithoutLogger, Gone
<1>2. CASE CloseLog
  BY <1>2 DEF CloseLog, history, TypeOK, EndsInv, ThreadInv, LostByDetached,
     KilledWithoutLogger, Gone
<1> QED BY <1>1, <1>2

LEMMA ChildStep ==
  ASSUME LoggerInv, Child \/ ChildFails
  PROVE  LoggerInv'
<1> USE DEF LoggerInv, history, EndsInv, ThreadInv, LostByDetached, KilledWithoutLogger
<1>1. CASE ChildSetup
  BY <1>1 DEF ChildSetup, TypeOK
<1>2. CASE ChildOpens
  BY <1>2 DEF ChildOpens, pipeEnds, TypeOK
<1>3. CASE ChildReads
  BY <1>3, PipeToLog DEF ChildReads, pipeEnds, TypeOK
<1>4. CASE ChildEnds
  BY <1>4 DEF ChildEnds, EndOfFile, TypeOK
<1>5. CASE ChildFails
  BY <1>5 DEF ChildFails, TypeOK
<1> QED BY <1>1, <1>2, <1>3, <1>4, <1>5 DEF Child

LEMMA BeginStep ==
  ASSUME LoggerInv, NEW t \in Threads, BeginMessage(t)
  PROVE  LoggerInv'
<1> USE DEF LoggerInv, BeginMessage, MayWrite, pipeEnds
<1>1. TypeOK'
  BY DEF TypeOK
<1>2. EndsInv'
  BY DEF EndsInv
<1>3. ThreadInv'
  BY DEF ThreadInv, TypeOK, Gone, Threads
<1>4. (LostByDetached /\ KilledWithoutLogger)'
  BY DEF LostByDetached, KilledWithoutLogger
<1> QED BY <1>1, <1>2, <1>3, <1>4

LEMMA EnterStep ==
  ASSUME LoggerInv, NEW t \in Threads, EnterWrite(t)
  PROVE  LoggerInv'
<1> USE DEF LoggerInv, EnterWrite, pipeEnds
<1>1. TypeOK'
  BY DEF TypeOK
<1>2. EndsInv'
  BY DEF EndsInv
<1>3. main \in {"hello", "work", "bye", "close", "wait"}
  BY DEF TypeOK, ThreadInv
<1>4. ThreadInv'
  BY <1>3 DEF ThreadInv, TypeOK, EndsInv, Gone, Threads
<1>5. LostByDetached'
  <2>1. "parent" \notin writers => t \in Detached
    BY <1>3 DEF ThreadInv, EndsInv, Threads
  <2> QED BY <2>1 DEF LostByDetached
<1>6. KilledWithoutLogger'
  BY DEF KilledWithoutLogger
<1> QED BY <1>1, <1>2, <1>4, <1>5, <1>6

LEMMA WriteStep ==
  ASSUME LoggerInv, NEW t \in Threads, WriteMessage(t)
  PROVE  LoggerInv'
<1> USE DEF LoggerInv, WriteMessage, pipeEnds
<1>1. main \in {"hello", "work", "bye", "close", "wait"}
  BY DEF TypeOK, ThreadInv
<1>2. t = Main => main \in {"hello", "bye"}
  BY DEF ThreadInv
<1>3. TypeOK'
  BY <1>1 DEF TypeOK
<1>4. EndsInv'
  BY <1>1, <1>2 DEF EndsInv
<1>5. ThreadInv'
  BY <1>1, <1>2 DEF ThreadInv, TypeOK, Gone, Threads
<1>6. log' \o pipe' = sent'
  BY PipeAppend DEF TypeOK
<1>7. child # "exited"
  BY DEF ThreadInv
<1>8. (LostByDetached /\ KilledWithoutLogger)'
  BY <1>1, <1>2 DEF LostByDetached, KilledWithoutLogger
<1> QED BY <1>3, <1>4, <1>5, <1>6, <1>7, <1>8

(* Nobody can read the pipe: the log process has failed, since it does not end
   by itself while a write is in progress. *)
LEMMA SigpipeStep ==
  ASSUME LoggerInv, NEW t \in Threads, Sigpipe(t)
  PROVE  LoggerInv'
<1> USE DEF LoggerInv, Sigpipe
<1>1. main \in {"hello", "work", "bye", "close", "wait"}
  BY DEF TypeOK, ThreadInv
<1>2. child \notin {"forked", "open", "read", "exited"}
  BY DEF EndsInv, ThreadInv
<1>3. child = "failed"
  BY <1>1, <1>2 DEF TypeOK, EndsInv
<1> QED BY <1>3, ProcessEndsStep DEF Gone

LEMMA ReturnStep ==
  ASSUME LoggerInv, NEW t \in Joined \cup Detached, ThreadReturns(t)
  PROVE  LoggerInv'
<1> USE DEF LoggerInv, ThreadReturns, pipeEnds, history
<1>1. TypeOK'
  BY DEF TypeOK
<1>2. EndsInv'
  BY DEF EndsInv
<1>3. ThreadInv'
  BY DEF ThreadInv, TypeOK, Gone, Threads
<1>4. (LostByDetached /\ KilledWithoutLogger)'
  BY DEF LostByDetached, KilledWithoutLogger
<1> QED BY <1>1, <1>2, <1>3, <1>4

LEMMA LoggerStep == LoggerInv /\ [Next]_logVars => LoggerInv'
<1> SUFFICES ASSUME LoggerInv, [Next]_logVars PROVE LoggerInv'
  OBVIOUS
<1>1. CASE MainGoes \/ CreateFails \/ Join \/ ErrorExit
  BY <1>1, CreateStep, MainStep, BeginStep DEF MainGoes, Threads
<1>2. CASE Child \/ ChildFails
  BY <1>2, ChildStep
<1>3. ASSUME NEW t \in Threads, InWrite(t) PROVE LoggerInv'
  BY <1>3, EnterStep, WriteStep, SigpipeStep DEF InWrite
<1>4. ASSUME NEW t \in Joined \cup Detached, BeginMessage(t) \/ ThreadReturns(t)
      PROVE  LoggerInv'
  BY <1>4, BeginStep, ReturnStep DEF Threads
<1>5. CASE UNCHANGED logVars
  BY <1>5 DEF logVars, LoggerInv, TypeOK, EndsInv, ThreadInv, LostByDetached,
     KilledWithoutLogger
<1> QED BY <1>1, <1>2, <1>3, <1>4, <1>5 DEF Next

(* The invariant of the log: who holds which end of the pipe, who can still
   write, and that log and pipe together are what has been sent. *)
THEOREM LoggerInvariance == SafeSpec => []LoggerInv
  BY LoggerInit, LoggerStep, PTL DEF SafeSpec

(* When the log process ends by itself every message written is in the log. *)
THEOREM LogIsComplete == SafeSpec => []LogComplete
<1>1. LoggerInv => LogComplete
  BY DEF LoggerInv, LogComplete, TypeOK
<1> QED BY <1>1, LoggerInvariance, PTL

(* Threads that main joins never find the log closed. *)
THEOREM LossOnlyDetached == SafeSpec => []LostByDetached
<1>1. LoggerInv => LostByDetached
  BY DEF LoggerInv
<1> QED BY <1>1, LoggerInvariance, PTL

(* Only a log process that failed to start can bring the gateway down. *)
THEOREM KilledOnlyWithoutLogger == SafeSpec => []KilledWithoutLogger
<1>1. LoggerInv => KilledWithoutLogger
  BY DEF LoggerInv
<1> QED BY <1>1, LoggerInvariance, PTL
=============================================================================
