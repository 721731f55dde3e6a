-------------------------- MODULE SensorLink_proofs --------------------------
(***************************************************************************)
(* For any number of nodes, any sizes of the pieces of a reading and any   *)
(* limit on connections: what the handlers make of the streams of bytes,   *)
(* and what becomes of the descriptors of the server (SensorLink.tla).     *)
(***************************************************************************)
EXTENDS SensorLink, FiniteSetTheorems, TLAPS

-----------------------------------------------------------------------------
(* Pieces and readings. *)

(* The pieces of a reading follow each other without a gap. *)
LEMMA Layout ==
  /\ Size.id \in Nat \ {0} /\ Size.value \in Nat \ {0} /\ Size.ts \in Nat \ {0}
  /\ Whole \in Nat /\ Offset.id = 0 /\ Offset.value = Size.id
  /\ Offset.ts = Size.id + Size.value /\ Whole = Offset.ts + Size.ts
BY SizeAssumption DEF Fields, Offset, Whole

(* The pieces a handler has are those in front of the one it waits for. *)
LEMMA GotFacts ==
  ASSUME NEW c \in Nodes
  PROVE  /\ handler[c] = "id" => Got(c) = {}
         /\ handler[c] = "value" => Got(c) = {"id"}
         /\ handler[c] = "ts" => Got(c) = {"id", "value"}
         /\ handler[c] \notin Fields => Got(c) = {}
<1> USE Layout DEF Got, Fields
<1>1. handler[c] = "id" => Got(c) = {}
  OBVIOUS
<1>2. handler[c] = "value" => Got(c) = {"id"}
  OBVIOUS
<1>3. handler[c] = "ts" => Got(c) = {"id", "value"}
  OBVIOUS
<1>4. handler[c] \notin Fields => Got(c) = {}
  OBVIOUS
<1> QED BY <1>1, <1>2, <1>3, <1>4

LEMMA GotFactsPrime ==
  ASSUME NEW c \in Nodes
  PROVE  /\ handler'[c] = "id" => Got(c)' = {}
         /\ handler'[c] = "value" => Got(c)' = {"id"}
         /\ handler'[c] = "ts" => Got(c)' = {"id", "value"}
         /\ handler'[c] \notin Fields => Got(c)' = {}
<1> USE Layout DEF Got, Fields
<1>1. handler'[c] = "id" => Got(c)' = {}
  OBVIOUS
<1>2. handler'[c] = "value" => Got(c)' = {"id"}
  OBVIOUS
<1>3. handler'[c] = "ts" => Got(c)' = {"id", "value"}
  OBVIOUS
<1>4. handler'[c] \notin Fields => Got(c)' = {}
  OBVIOUS
<1> QED BY <1>1, <1>2, <1>3, <1>4

(* One reading more is Whole units more. *)
LEMMA NextReading ==
  ASSUME NEW k \in Nat
  PROVE  (k + 1) * Whole = k * Whole + Whole /\ k * Whole \in Nat
BY Layout

(* The pieces of reading k + 1. *)
LEMMA ReadingFacts ==
  ASSUME NEW k \in Nat, NEW f \in Fields
  PROVE  Reading(k + 1)[f] = [from |-> k * Whole + Offset[f], n |-> Size[f]]
<1>1. (k + 1) - 1 = k
  OBVIOUS
<1> QED BY <1>1 DEF Reading

-----------------------------------------------------------------------------
LEMMA InitInv == Init => LinkInv
<1> SUFFICES ASSUME Init PROVE LinkInv
  OBVIOUS
<1>1. TypeOK
  BY DEF Init, TypeOK, Pieces, Nothing, Fields
<1>2. UnopenedInv /\ DescriptorsAccounted
  BY DEF Init, UnopenedInv, DescriptorsAccounted, Up
<1>3. \A c \in Nodes : handler[c] \notin Fields /\ out[c] = <<>> /\ taken[c] = 0
  BY DEF Init, Fields
<1>4. \A c \in Nodes : Got(c) = {}
  BY <1>3, GotFacts
<1>5. OrderInv /\ StepInv /\ ReadingsIntact
  BY <1>3, <1>4 DEF OrderInv, StepInv, ReadingsIntact
<1> QED BY <1>1, <1>2, <1>5 DEF LinkInv

(* The handlers' side of the invariant. *)
StreamInv == OrderInv /\ StepInv /\ ReadingsIntact

LEMMA StreamFrame ==
  ASSUME StreamInv, UNCHANGED hVars
  PROVE  StreamInv'
<1> USE DEF hVars
<1>1. \A c \in Nodes : Got(c)' = Got(c)
  BY DEF Got
<1>2. OrderInv'
  BY <1>1 DEF StreamInv, OrderInv, EndOf
<1>3. StepInv'
  BY <1>1 DEF StreamInv, StepInv, Clean, Torn
<1>4. ReadingsIntact'
  BY DEF StreamInv, ReadingsIntact, Torn
<1> QED BY <1>2, <1>3, <1>4 DEF StreamInv

(* A handler begins, leaves its loop or closes: no reading changes, and it is
   not in the middle of one afterwards. *)
LEMMA StreamMoves ==
  ASSUME TypeOK, StreamInv, NEW c \in Nodes, UNCHANGED <<taken, out>>,
         handler' = [handler EXCEPT ![c] = handler'[c]],
         \A b \in Nodes \ {c} : data'[b] = data[b],
         \/ handler'[c] \in {"close", "done"}
         \/ handler[c] = "none" /\ handler'[c] = "id" /\ UNCHANGED data
  PROVE  StreamInv'
<1>0. \A b \in Nodes \ {c} : handler'[b] = handler[b] /\ Got(b)' = Got(b)
  BY DEF TypeOK, Got
<1>1. Got(c)' = {} /\ handler'[c] # "none"
  BY GotFactsPrime DEF Fields
<1>2. OrderInv'
  BY <1>0, <1>1 DEF StreamInv, OrderInv, EndOf
<1>3. StepInv'
  <2>1. ASSUME NEW b \in Nodes \ {c}, handler'[b] \in Fields, Clean(b)'
        PROVE  /\ taken'[b] = Len(out'[b]) * Whole + Offset[handler'[b]]
               /\ \A f \in Got(b)' : data'[b][f] = Reading(Len(out'[b]) + 1)[f]
    <3>1. Clean(b)
      BY <2>1, <1>0 DEF Clean, Torn
    <3> QED BY <2>1, <3>1, <1>0 DEF StreamInv, StepInv
  <2>2. handler'[c] \in Fields => taken'[c] = Len(out'[c]) * Whole + Offset[handler'[c]]
    <3> SUFFICES ASSUME handler'[c] \in Fields PROVE taken'[c] = Len(out'[c]) * Whole + Offset[handler'[c]]
      OBVIOUS
    <3>1. handler[c] = "none" /\ handler'[c] = "id"
      BY DEF Fields
    <3>2. out'[c] = <<>> /\ taken'[c] = 0
      BY <3>1 DEF StreamInv, OrderInv
    <3>3. Len(out'[c]) = 0 /\ 0 * Whole = 0
      BY <3>2, Layout
    <3> QED BY <3>1, <3>2, <3>3, Layout
  <2> QED BY <2>1, <2>2, <1>1 DEF StepInv
<1>4. ReadingsIntact'
  BY DEF StreamInv, ReadingsIntact, Torn
<1> QED BY <1>2, <1>3, <1>4 DEF StreamInv

-----------------------------------------------------------------------------
(* tcp_receive stores a piece, or a part of one. *)

(* What the handler of c holds afterwards, and that its stream goes on. *)
LEMMA ReceiveFacts ==
  ASSUME TypeOK, NEW c \in Nodes, handler[c] \in Fields,
         NEW n \in 1..Size[handler[c]], Receive(c, n)
  PROVE  /\ taken \in [Nodes -> Nat] /\ taken' \in [Nodes -> Nat]
         /\ taken'[c] = taken[c] + n
         /\ handler' \in [Nodes -> {"none", "close", "done"} \cup Fields]
         /\ handler'[c] = Following[handler[c]]
         /\ data' \in [Nodes -> Pieces] /\ data'[c] \in Pieces /\ data[c] \in Pieces
         /\ data'[c][handler[c]] = [from |-> taken[c], n |-> n]
         /\ \A f \in Fields \ {handler[c]} : data'[c][f] = data[c][f]
         /\ out' \in [Nodes -> Seq(Pieces)] /\ out[c] \in Seq(Pieces)
         /\ handler[c] = "ts" => out'[c] = Append(out[c], data'[c])
         /\ handler[c] # "ts" => out'[c] = out[c]
         /\ \A b \in Nodes \ {c} :
              taken'[b] = taken[b] /\ handler'[b] = handler[b]
                /\ data'[b] = data[b] /\ out'[b] = out[b]
<1> DEFINE f0 == handler[c]
           p0 == [from |-> taken[c], n |-> n]
<1>0. Size[f0] \in Nat /\ n \in Nat
  BY SizeAssumption
<1>1. /\ data' = [data EXCEPT ![c][f0] = p0]
      /\ taken' = [taken EXCEPT ![c] = @ + n]
      /\ out' = IF f0 = "ts" THEN [out EXCEPT ![c] = Append(@, data'[c])] ELSE out
      /\ handler' = [handler EXCEPT ![c] = Following[f0]]
  BY DEF Receive
<1>2. /\ taken \in [Nodes -> Nat] /\ data \in [Nodes -> Pieces]
      /\ out \in [Nodes -> Seq(Pieces)]
      /\ handler \in [Nodes -> {"none", "close", "done"} \cup Fields]
  BY DEF TypeOK
<1>3. Following[f0] \in Fields
  BY DEF Fields, Following
<1>4. p0 \in [from : Nat, n : Nat]
  BY <1>0, <1>2
<1>5. data[c] \in Pieces /\ data'[c] = [data[c] EXCEPT ![f0] = p0]
  BY <1>1, <1>2
<1>6. data'[c] \in Pieces /\ data'[c][f0] = p0
      /\ \A f \in Fields \ {f0} : data'[c][f] = data[c][f]
  BY <1>4, <1>5 DEF Pieces
<1>7. \A b \in Nodes \ {c} : data'[b] = data[b]
  BY <1>1, <1>2
<1>8. data' \in [Nodes -> Pieces]
  <2>1. \A b \in Nodes : data'[b] \in Pieces
    BY <1>2, <1>6, <1>7
  <2>2. data' = [b \in Nodes |-> data'[b]]
    BY <1>1, <1>2
  <2> QED BY <2>1, <2>2
<1>9. Append(out[c], data'[c]) \in Seq(Pieces) /\ out[c] \in Seq(Pieces)
  BY <1>2, <1>6
<1>10. out' \in [Nodes -> Seq(Pieces)]
       /\ (f0 = "ts" => out'[c] = Append(out[c], data'[c]))
       /\ (f0 # "ts" => out'[c] = out[c])
       /\ \A b \in Nodes \ {c} : out'[b] = out[b]
  BY <1>1, <1>2, <1>9
<1> QED BY <1>0, <1>1, <1>2, <1>3, <1>5, <1>6, <1>7, <1>8, <1>10

LEMMA ReceiveOrder ==
  ASSUME TypeOK, OrderInv, NEW c \in Nodes, handler[c] \in Fields,
         NEW n \in 1..Size[handler[c]], Receive(c, n)
  PROVE  OrderInv'
<1> DEFINE f0 == handler[c]
<1>t. taken[c] \in Nat /\ n \in Nat /\ 0 < n
  BY SizeAssumption DEF TypeOK
<1>n. handler'[c] = Following[f0] /\ handler'[c] # "none"
  <2>1. handler'[c] = Following[f0] /\ f0 \in Fields
    BY ReceiveFacts
  <2>2. \A f \in Fields : Following[f] # "none"
    BY DEF Following, Fields
  <2> QED BY <2>1, <2>2
<1>d. \A f \in Fields : data[c][f] \in [from : Nat, n : Nat]
  BY DEF TypeOK, Pieces
<1>f. /\ taken'[c] = taken[c] + n
      /\ data'[c][f0] = [from |-> taken[c], n |-> n]
      /\ \A f \in Fields \ {f0} : data'[c][f] = data[c][f]
      /\ out[c] \in Seq(Pieces)
      /\ f0 = "ts" => out'[c] = Append(out[c], data'[c])
      /\ f0 # "ts" => out'[c] = out[c]
  BY ReceiveFacts
<1>o. /\ \A b \in Nodes \ {c} : taken'[b] = taken[b] /\ handler'[b] = handler[b]
           /\ data'[b] = data[b] /\ out'[b] = out[b]
      /\ \A b \in Nodes \ {c} : Got(b)' = Got(b)
  BY ReceiveFacts DEF Got
<1>g. \A i \in DOMAIN out[c] : \A g \in Fields :
        out[c][i][g].from \in Nat /\ out[c][i][g].n \in Nat
  <2>1. \A i \in DOMAIN out[c] : out[c][i] \in Pieces
    BY <1>f
  <2>2. \A i \in DOMAIN out[c] : \A g \in Fields : out[c][i][g] \in [from : Nat, n : Nat]
    BY <2>1 DEF Pieces
  <2> QED BY <2>2
<1>e. \A f \in Fields : data[c][f].from \in Nat /\ data[c][f].n \in Nat
  BY <1>d
<1>p. EndOf(data'[c][f0]) = taken'[c] /\ data'[c][f0].from = taken[c]
  BY <1>t, <1>f DEF EndOf
<1>h. /\ \A i \in DOMAIN out[c] : \A f \in Fields : EndOf(out[c][i][f]) <= taken[c]
      /\ \A f \in Got(c) :
         /\ EndOf(data[c][f]) <= taken[c]
         /\ \A i \in DOMAIN out[c] : \A g \in Fields :
              EndOf(out[c][i][g]) <= data[c][f].from
         /\ \A g \in Got(c) : Offset[f] < Offset[g] => EndOf(data[c][f]) <= data[c][g].from
  BY DEF OrderInv
<1>1. \A i \in DOMAIN out[c] : \A f \in Fields : EndOf(out[c][i][f]) <= taken'[c]
  <2>1. \A i \in DOMAIN out[c] : \A f \in Fields : EndOf(out[c][i][f]) \in Nat
    BY <1>g DEF EndOf
  <2>2. \A k \in Nat : k <= taken[c] => k <= taken'[c]
    BY <1>t, <1>f
  <2> QED BY <2>1, <2>2, <1>h
<1>2. \A f \in Got(c) : f \in Fields \ {f0} /\ data'[c][f] = data[c][f]
                        /\ EndOf(data'[c][f]) <= taken[c] /\ EndOf(data'[c][f]) <= taken'[c]
  <2>1. \A f \in Got(c) : f \in Fields \ {f0}
    BY GotFacts DEF Fields
  <2>2. \A f \in Fields : EndOf(data[c][f]) \in Nat
    BY <1>e DEF EndOf
  <2>3. \A k \in Nat : k <= taken[c] => k <= taken'[c]
    BY <1>t, <1>f
  <2> QED BY <2>1, <2>2, <2>3, <1>h, <1>f
<1>3. CASE f0 # "ts"
  <2>1. Got(c)' = Got(c) \cup {f0}
    BY <1>3, <1>n, GotFacts, GotFactsPrime DEF Fields, Following
  <2>2. \A f \in Got(c)' : EndOf(data'[c][f]) <= taken'[c]
    BY <2>1, <1>2, <1>p, <1>t, <1>f
  <2>3. \A f \in Got(c)' : \A i \in DOMAIN out[c] : \A g \in Fields :
          EndOf(out[c][i][g]) <= data'[c][f].from
    BY <2>1, <1>2, <1>p, <1>h
  <2>4. \A f, g \in Got(c)' :
          Offset[f] < Offset[g] => EndOf(data'[c][f]) <= data'[c][g].from
    <3>1. \A g \in Got(c) : ~(Offset[f0] < Offset[g])
      BY <1>3, GotFacts, Layout DEF Fields
    <3>2. ~(Offset[f0] < Offset[f0])
      BY Layout DEF Fields
    <3> QED BY <3>1, <3>2, <2>1, <1>2, <1>p, <1>h
  <2> QED BY <1>o, <1>n, <1>1, <1>3, <1>f, <2>2, <2>3, <2>4 DEF OrderInv, EndOf
<1>4. CASE f0 = "ts"
  <2>1. Got(c)' = {} /\ Got(c) = {"id", "value"}
    BY <1>4, <1>n, GotFacts, GotFactsPrime DEF Fields, Following
  <2>2. \A f \in Fields : EndOf(data'[c][f]) <= taken'[c]
    BY <2>1, <1>2, <1>p, <1>4, <1>t, <1>f DEF Fields
  <2>3. \A i \in DOMAIN out'[c] : \A f \in Fields : EndOf(out'[c][i][f]) <= taken'[c]
    <3>1. \A i \in DOMAIN out'[c] : (i \in DOMAIN out[c] /\ out'[c][i] = out[c][i])
                                    \/ out'[c][i] = data'[c]
      BY <1>4, <1>f
    <3> QED BY <3>1, <2>2, <1>1
  <2> QED BY <1>o, <1>n, <2>1, <2>3 DEF OrderInv, EndOf
<1> QED BY <1>3, <1>4

(* As long as every piece has come whole, the new one is the next of the node's. *)
LEMMA ReceiveStep ==
  ASSUME TypeOK, StepInv, NEW c \in Nodes, handler[c] \in Fields,
         NEW n \in 1..Size[handler[c]], Receive(c, n), Clean(c), n = Size[handler[c]]
  PROVE  /\ taken[c] = Len(out[c]) * Whole + Offset[handler[c]]
         /\ \A f \in Got(c) \cup {handler[c]} : data'[c][f] = Reading(Len(out[c]) + 1)[f]
<1> DEFINE f0 == handler[c]
<1>1. /\ taken[c] = Len(out[c]) * Whole + Offset[f0]
      /\ \A f \in Got(c) : data[c][f] = Reading(Len(out[c]) + 1)[f]
  BY DEF StepInv
<1>2. \A f \in Got(c) : f \in Fields \ {f0}
  BY GotFacts DEF Fields
<1>3. \A f \in Got(c) : data'[c][f] = data[c][f]
  BY <1>2, ReceiveFacts
<1>4. Len(out[c]) \in Nat
  BY ReceiveFacts
<1>5. Reading(Len(out[c]) + 1)[f0] = [from |-> Len(out[c]) * Whole + Offset[f0], n |-> Size[f0]]
  BY <1>4, ReadingFacts
<1>6. data'[c][f0] = [from |-> taken[c], n |-> n]
  BY ReceiveFacts
<1> QED BY <1>1, <1>3, <1>5, <1>6

(* What was clean after the piece was clean before, and the piece is whole. *)
LEMMA ReceiveClean ==
  ASSUME TypeOK, NEW c \in Nodes, handler[c] \in Fields,
         NEW n \in 1..Size[handler[c]], Receive(c, n), Clean(c)'
  PROVE  Clean(c) /\ n = Size[handler[c]]
<1> DEFINE f0 == handler[c]
<1>1. Size[f0] \in Nat /\ n \in Nat /\ n <= Size[f0]
  BY SizeAssumption
<1>2. data'[c][f0].n = n
  <2>1. data'[c][f0] = [from |-> taken[c], n |-> n]
    BY ReceiveFacts
  <2> QED BY <2>1
<1>3. \A f \in Got(c) : f \in Fields \ {f0} /\ data'[c][f] = data[c][f]
  <2>1. \A f \in Got(c) : f \in Fields \ {f0}
    BY GotFacts DEF Fields
  <2>2. \A f \in Fields \ {f0} : data'[c][f] = data[c][f]
    BY ReceiveFacts
  <2> QED BY <2>1, <2>2
<1>4. CASE f0 = "ts"
  <2>1. out[c] \in Seq(Pieces) /\ out'[c] = Append(out[c], data'[c])
    BY <1>4, ReceiveFacts
  <2>2. \A i \in DOMAIN out[c] : i \in DOMAIN out'[c] /\ out'[c][i] = out[c][i]
    BY <2>1, ReceiveFacts
  <2>3. Len(out[c]) + 1 \in DOMAIN out'[c] /\ out'[c][Len(out[c]) + 1] = data'[c]
    BY <2>1, ReceiveFacts
  <2>4. ~Torn(data'[c]) /\ \A i \in DOMAIN out[c] : ~Torn(out[c][i])
    BY <2>2, <2>3 DEF Clean, Torn
  <2>5. ~(n < Size[f0]) /\ \A f \in Got(c) : ~(data[c][f].n < Size[f])
    BY <2>4, <1>2, <1>3 DEF Torn
  <2> QED BY <2>4, <2>5, <1>1 DEF Clean
<1>5. CASE f0 # "ts"
  <2>1. out'[c] = out[c] /\ handler'[c] = Following[f0]
    BY <1>5, ReceiveFacts
  <2>2. Got(c)' = Got(c) \cup {f0}
    BY <1>5, <2>1, GotFacts, GotFactsPrime DEF Fields, Following
  <2>3. \A i \in DOMAIN out[c] : ~Torn(out[c][i])
    BY <2>1 DEF Clean, Torn
  <2>4. ~(n < Size[f0]) /\ \A f \in Got(c) : ~(data[c][f].n < Size[f])
    BY <2>2, <1>2, <1>3 DEF Clean
  <2> QED BY <2>3, <2>4, <1>1 DEF Clean
<1> QED BY <1>4, <1>5

LEMMA ReceiveInStep ==
  ASSUME TypeOK, StepInv, NEW c \in Nodes, handler[c] \in Fields,
         NEW n \in 1..Size[handler[c]], Receive(c, n)
  PROVE  StepInv'
<1> DEFINE f0 == handler[c]
           k == Len(out[c])
<1>1. \A b \in Nodes \ {c} :
        handler'[b] \in Fields /\ Clean(b)' =>
          /\ taken'[b] = Len(out'[b]) * Whole + Offset[handler'[b]]
          /\ \A f \in Got(b)' : data'[b][f] = Reading(Len(out'[b]) + 1)[f]
  <2>1. \A b \in Nodes \ {c} : taken'[b] = taken[b] /\ handler'[b] = handler[b]
           /\ data'[b] = data[b] /\ out'[b] = out[b]
    BY ReceiveFacts
  <2>2. \A b \in Nodes \ {c} : Got(b)' = Got(b)
    BY <2>1 DEF Got
  <2>3. \A b \in Nodes \ {c} : Clean(b)' => Clean(b)
    BY <2>1, <2>2 DEF Clean, Torn
  <2> QED BY <2>1, <2>2, <2>3 DEF StepInv
<1>2. ASSUME handler'[c] \in Fields, Clean(c)'
      PROVE  /\ taken'[c] = Len(out'[c]) * Whole + Offset[handler'[c]]
             /\ \A f \in Got(c)' : data'[c][f] = Reading(Len(out'[c]) + 1)[f]
  <2>1. Clean(c) /\ n = Size[f0]
    BY <1>2, ReceiveClean
  <2>2. /\ taken[c] = k * Whole + Offset[f0]
        /\ \A f \in Got(c) \cup {f0} : data'[c][f] = Reading(k + 1)[f]
    BY <2>1, ReceiveStep
  <2>3. taken'[c] = taken[c] + Size[f0] /\ handler'[c] = Following[f0]
        /\ out[c] \in Seq(Pieces) /\ k \in Nat
    <3>1. taken'[c] = taken[c] + n /\ handler'[c] = Following[f0] /\ out[c] \in Seq(Pieces)
      BY ReceiveFacts
    <3> QED BY <3>1, <2>1
  <2>4. k * Whole \in Nat /\ (k + 1) * Whole = k * Whole + Whole
    BY <2>3, NextReading
  <2>5. CASE f0 = "ts"
    <3>1. Got(c)' = {} /\ handler'[c] = "id"
      BY <2>3, <2>5, GotFactsPrime DEF Following
    <3>2. Len(out'[c]) = k + 1
      <4>1. out'[c] = Append(out[c], data'[c]) /\ data'[c] \in Pieces
        BY <2>5, ReceiveFacts
      <4> QED BY <4>1, <2>3
    <3> QED BY <3>1, <3>2, <2>2, <2>3, <2>4, <2>5, Layout
  <2>6. CASE f0 # "ts"
    <3>1. Got(c)' = Got(c) \cup {f0}
      BY <2>3, <2>6, GotFacts, GotFactsPrime DEF Fields, Following
    <3>2. out'[c] = out[c]
      BY <2>6, ReceiveFacts
    <3>3. Offset[Following[f0]] = Offset[f0] + Size[f0]
      BY <2>6, Layout DEF Fields, Following
    <3>4. Offset[f0] \in Nat /\ Size[f0] \in Nat
      BY Layout DEF Fields
    <3> QED BY <3>1, <3>2, <3>3, <3>4, <2>2, <2>3, <2>4
  <2> QED BY <2>5, <2>6
<1> QED BY <1>1, <1>2 DEF StepInv

LEMMA ReceiveIntact ==
  ASSUME TypeOK, OrderInv, StepInv, ReadingsIntact, NEW c \in Nodes, handler[c] \in Fields,
         NEW n \in 1..Size[handler[c]], Receive(c, n)
  PROVE  ReadingsIntact'
<1> DEFINE f0 == handler[c]
           k == Len(out[c])
<1>0. \A b \in Nodes \ {c} : out'[b] = out[b]
  BY ReceiveFacts
<1>1. CASE f0 # "ts"
  <2>1. out'[c] = out[c]
    BY <1>1, ReceiveFacts
  <2>2. \A b \in Nodes : out'[b] = out[b]
    BY <1>0, <2>1
  <2> QED BY <2>2 DEF ReadingsIntact, Torn
<1>2. CASE f0 = "ts"
  <2>1. out[c] \in Seq(Pieces) /\ k \in Nat /\ out'[c] = Append(out[c], data'[c])
        /\ data'[c] \in Pieces
    <3>1. out[c] \in Seq(Pieces) /\ out'[c] = Append(out[c], data'[c]) /\ data'[c] \in Pieces
      BY <1>2, ReceiveFacts
    <3> QED BY <3>1
  <2>2. /\ \A i \in DOMAIN out'[c] : i \in DOMAIN out[c] \/ i = k + 1
        /\ \A i \in DOMAIN out[c] : i \in DOMAIN out'[c] /\ out'[c][i] = out[c][i] /\ i \in 1..k
        /\ k + 1 \in DOMAIN out'[c] /\ out'[c][k + 1] = data'[c]
        /\ DOMAIN out[c] = 1..k
    BY <2>1
  <2>3. Got(c) = {"id", "value"}
    BY <1>2, GotFacts
  <2>4. \A f \in Got(c) : data'[c][f] = data[c][f]
    <3>1. \A f \in Got(c) : f \in Fields \ {f0}
      BY <2>3, <1>2 DEF Fields
    <3> QED BY <3>1, ReceiveFacts
  <2>5. data'[c][f0].from = taken[c]
    <3>1. data'[c][f0] = [from |-> taken[c], n |-> n]
      BY ReceiveFacts
    <3> QED BY <3>1
  <2>6. \A i \in DOMAIN out'[c] :
          out'[c][i] = Reading(i) \/ \E j \in 1..i : Torn(out'[c][j])
    <3>1. ASSUME NEW i \in DOMAIN out[c]
          PROVE  out'[c][i] = Reading(i) \/ \E j \in 1..i : Torn(out'[c][j])
      <4>1. out[c][i] = Reading(i) \/ \E j \in 1..i : Torn(out[c][j])
        BY DEF ReadingsIntact
      <4>2. \A j \in 1..i : j \in DOMAIN out[c]
        BY <2>2
      <4>3. \A j \in 1..i : out'[c][j] = out[c][j]
        BY <4>2, <2>2
      <4> QED BY <4>1, <4>3, <2>2
    <3>2. ASSUME ~\E j \in 1..(k + 1) : Torn(out'[c][j])
          PROVE  data'[c] = Reading(k + 1)
      <4>1. \A i \in DOMAIN out[c] : ~Torn(out[c][i])
        BY <3>2, <2>2, <2>1
      <4>2. ~Torn(data'[c])
        BY <3>2, <2>2, <2>1
      <4>3. Clean(c)'
        <5>1. \A i \in DOMAIN out'[c] : ~Torn(out'[c][i])
          BY <4>1, <4>2, <2>2
        <5>2. Got(c)' = {}
          <6>1. handler'[c] = "id"
            <7>1. handler'[c] = Following[handler[c]]
              BY ReceiveFacts
            <7> QED BY <7>1, <1>2 DEF Following
          <6> QED BY <6>1, GotFactsPrime
        <5> QED BY <5>1, <5>2 DEF Clean, Torn
      <4>4. Clean(c) /\ n = Size[f0]
        BY <4>3, ReceiveClean
      <4>5. \A f \in Fields : data'[c][f] = Reading(k + 1)[f]
        BY <4>4, ReceiveStep, <2>3, <1>2 DEF Fields
      <4>6. data'[c] = [f \in Fields |-> data'[c][f]]
        BY <2>1 DEF Pieces
      <4> QED BY <4>5, <4>6 DEF Reading
    <3> QED BY <3>1, <3>2, <2>2
  <2>7. \A i \in DOMAIN out[c] : \A f, g \in Fields :
          EndOf(out[c][i][f]) <= data'[c][g].from
    <3>1. ASSUME NEW i \in DOMAIN out[c], NEW f \in Fields
          PROVE  /\ EndOf(out[c][i][f]) <= taken[c]
                 /\ \A g \in Got(c) : EndOf(out[c][i][f]) <= data[c][g].from
      BY DEF OrderInv
    <3> QED BY <3>1, <2>3, <2>4, <2>5, <1>2 DEF Fields
  <2>8. \A f, g \in Fields :
          Offset[f] < Offset[g] => EndOf(data'[c][f]) <= data'[c][g].from
    <3>1. /\ \A f \in Got(c) : EndOf(data[c][f]) <= taken[c]
          /\ \A f, g \in Got(c) : Offset[f] < Offset[g] => EndOf(data[c][f]) <= data[c][g].from
      BY DEF OrderInv
    <3>2. \A g \in Fields : ~(Offset["ts"] < Offset[g])
      BY Layout DEF Fields
    <3> QED BY <3>1, <3>2, <2>3, <2>4, <2>5, <1>2 DEF Fields
  <2>9. \A i, j \in DOMAIN out'[c] : \A f, g \in Fields :
          i < j \/ (i = j /\ Offset[f] < Offset[g]) =>
            EndOf(out'[c][i][f]) <= out'[c][j][g].from
    <3> SUFFICES ASSUME NEW i \in DOMAIN out'[c], NEW j \in DOMAIN out'[c],
                        NEW f \in Fields, NEW g \in Fields,
                        i < j \/ (i = j /\ Offset[f] < Offset[g])
                 PROVE  EndOf(out'[c][i][f]) <= out'[c][j][g].from
      OBVIOUS
    <3>1. CASE i \in DOMAIN out[c] /\ j \in DOMAIN out[c]
      BY <3>1, <2>2 DEF ReadingsIntact, EndOf
    <3>2. CASE i \in DOMAIN out[c] /\ j = k + 1
      BY <3>2, <2>2, <2>7
    <3>3. CASE i = k + 1 /\ j = k + 1
      BY <3>3, <2>1, <2>2, <2>8
    <3>4. ~(i = k + 1 /\ j \in DOMAIN out[c])
      BY <2>1, <2>2
    <3> QED BY <3>1, <3>2, <3>3, <3>4, <2>2
  <2> QED BY SMTT(30), <1>0, <2>6, <2>9 DEF ReadingsIntact, EndOf, Torn
<1> QED BY <1>1, <1>2

(* What a handler does in its loop keeps the streams in order. *)
LEMMA ServeStream ==
  ASSUME TypeOK, StreamInv, NEW c \in Nodes, Serve(c)
  PROVE  StreamInv' /\ handler' \in [Nodes -> {"none", "close", "done"} \cup Fields]
         /\ taken' \in [Nodes -> Nat] /\ data' \in [Nodes -> Pieces]
         /\ out' \in [Nodes -> Seq(Pieces)]
         /\ handler'[c] \in Fields \cup {"close"}
         /\ \A b \in Nodes \ {c} : handler'[b] = handler[b]
<1>1. handler[c] \in Fields
  BY DEF Serve
<1>2. ASSUME NEW n \in 1..Size[handler[c]], Receive(c, n)
      PROVE  StreamInv' /\ handler' \in [Nodes -> {"none", "close", "done"} \cup Fields]
             /\ taken' \in [Nodes -> Nat] /\ data' \in [Nodes -> Pieces]
             /\ out' \in [Nodes -> Seq(Pieces)]
             /\ handler'[c] \in Fields \cup {"close"}
             /\ \A b \in Nodes \ {c} : handler'[b] = handler[b]
  <2>1. StreamInv'
    BY <1>1, <1>2, ReceiveOrder, ReceiveInStep, ReceiveIntact DEF StreamInv
  <2>2. /\ handler' \in [Nodes -> {"none", "close", "done"} \cup Fields]
        /\ taken' \in [Nodes -> Nat] /\ data' \in [Nodes -> Pieces]
        /\ out' \in [Nodes -> Seq(Pieces)]
        /\ handler'[c] = Following[handler[c]]
        /\ \A b \in Nodes \ {c} : handler'[b] = handler[b]
    BY <1>1, <1>2, ReceiveFacts
  <2>3. Following[handler[c]] \in Fields
    BY <1>1 DEF Following, Fields
  <2> QED BY <2>1, <2>2, <2>3
<1>3. ASSUME Leave(c)
      PROVE  StreamInv' /\ handler' \in [Nodes -> {"none", "close", "done"} \cup Fields]
             /\ taken' \in [Nodes -> Nat] /\ data' \in [Nodes -> Pieces]
             /\ out' \in [Nodes -> Seq(Pieces)]
             /\ handler'[c] \in Fields \cup {"close"}
             /\ \A b \in Nodes \ {c} : handler'[b] = handler[b]
  <2>1. /\ handler' = [handler EXCEPT ![c] = "close"] /\ UNCHANGED <<taken, data, out>>
        /\ handler' \in [Nodes -> {"none", "close", "done"} \cup Fields] /\ handler'[c] = "close"
        /\ \A b \in Nodes \ {c} : handler'[b] = handler[b]
    BY <1>3 DEF Leave, TypeOK
  <2>2. StreamInv'
    BY <2>1, StreamMoves
  <2> QED BY <2>1, <2>2 DEF TypeOK
<1> QED BY <1>2, <1>3 DEF Serve, TestHandler, GatewayHandler, TimesOut

-----------------------------------------------------------------------------
(* The descriptors. *)

DescriptorInv == TypeOK /\ UnopenedInv /\ DescriptorsAccounted

(* Leaving the handlers alone. *)
LEMMA Keeps ==
  ASSUME TypeOK, UNCHANGED hVars
  PROVE  /\ taken' \in [Nodes -> Nat] /\ data' \in [Nodes -> Pieces]
         /\ out' \in [Nodes -> Seq(Pieces)]
         /\ handler' \in [Nodes -> {"none", "close", "done"} \cup Fields]
         /\ handler' = handler
BY DEF TypeOK, hVars

(* The server opens its socket, starts or waits. *)
LEMMA StartKeeps ==
  ASSUME DescriptorInv,
         OpenServer \/ StartAccepting \/ LeaveLoop \/ Poll
  PROVE  DescriptorInv'
<1>1. /\ UNCHANGED <<program, conns, starved, netVars, hVars>>
      /\ srv' \in {"thread", "loop", "wait", "leave"}
      /\ srv # "exited"
      /\ UNCHANGED <<fds, socks>> \/ (fds' = {Listen} /\ socks' = {Listen})
  BY DEF OpenServer, StartAccepting, LeaveLoop, Poll, PassiveOpen, sockVars
<1>2. TypeOK'
  BY <1>1, Keeps DEF DescriptorInv, TypeOK, netVars
<1>3. UnopenedInv'
  BY <1>1 DEF DescriptorInv, UnopenedInv, netVars
<1>4. DescriptorsAccounted'
  BY <1>1, NodesAssumption DEF DescriptorInv, DescriptorsAccounted, netVars, hVars, Up
<1> QED BY <1>2, <1>3, <1>4 DEF DescriptorInv

(* What TcpClose(Listen) and Exit do to a connection. *)
LEMMA LinkChanges ==
  ASSUME TypeOK, Exit \/ TcpClose(Listen) \/ (PassiveFails /\ UNCHANGED link)
  PROVE  /\ fds' \subseteq Nodes \cup {Listen} /\ socks' \subseteq fds'
         /\ link' \in [Nodes -> {"none", "up", "shut", "reset"}]
         /\ \A c \in Nodes : link[c] = "none" => link'[c] = "none"
         /\ \A c \in Nodes : c \in fds' => c \in fds /\ link'[c] = link[c]
         /\ \A c \in Nodes : (c \in socks' => c \in socks) /\ (c \in fds' /\ c \in socks => c \in socks')
<1>1. CASE Exit
  BY <1>1 DEF Exit, TypeOK
<1>2. CASE TcpClose(Listen)
  <2>1. /\ socks' = socks \ {Listen} /\ fds' = fds \ {Listen}
        /\ link' = [c \in Nodes |-> IF c \in Pending THEN "reset" ELSE link[c]]
    BY <1>2, NodesAssumption DEF TcpClose
  <2> QED BY <2>1, NodesAssumption DEF TypeOK, Pending
<1>3. CASE PassiveFails /\ UNCHANGED link
  <2>1. \A c \in Nodes : c \notin fds'
    BY <1>3, NodesAssumption DEF PassiveFails
  <2> QED BY <1>3, <2>1, NodesAssumption DEF PassiveFails, TypeOK
<1> QED BY <1>1, <1>2, <1>3

(* The server closes its socket, or the process ends. *)
LEMMA EndKeeps ==
  ASSUME DescriptorInv,
         OpenServerFails \/ AcceptThreadFails \/ CloseServer \/ ServerReturns
  PROVE  DescriptorInv'
<1>1. /\ UNCHANGED <<program, conns, starved, node, sent, hVars>>
      /\ Exit \/ TcpClose(Listen) \/ (PassiveFails /\ UNCHANGED link)
      /\ srv' \in {"closed", "exited"} /\ srv # "exited"
  BY DEF OpenServerFails, AcceptThreadFails, CloseServer, ServerReturns, Exit
<1>2. /\ fds' \subseteq Nodes \cup {Listen} /\ socks' \subseteq fds'
      /\ link' \in [Nodes -> {"none", "up", "shut", "reset"}]
      /\ \A c \in Nodes : link[c] = "none" => link'[c] = "none"
      /\ \A c \in Nodes : c \in fds' => c \in fds /\ link'[c] = link[c]
      /\ \A c \in Nodes : (c \in socks' => c \in socks) /\ (c \in fds' /\ c \in socks => c \in socks')
  BY <1>1, LinkChanges DEF DescriptorInv
<1>3. TypeOK'
  BY <1>1, <1>2, Keeps DEF DescriptorInv, TypeOK
<1>4. UnopenedInv'
  BY <1>1, <1>2 DEF DescriptorInv, UnopenedInv
<1>5. DescriptorsAccounted'
  BY <1>1, <1>2 DEF DescriptorInv, DescriptorsAccounted, hVars, Up
<1> QED BY <1>3, <1>4, <1>5 DEF DescriptorInv

(* accept takes a connection. *)
LEMMA AcceptKeeps ==
  ASSUME DescriptorInv, StreamInv, NEW c \in Nodes,
         Accept(c) \/ AcceptStarves(c) \/ SpawnFails(c)
  PROVE  DescriptorInv' /\ StreamInv'
<1> USE DEF DescriptorInv
<1>0. c \in Pending /\ handler[c] = "none" /\ c \notin fds /\ c \notin socks /\ link[c] \in {"up", "reset"}
  BY DEF Accept, AcceptStarves, SpawnFails, Pending, TypeOK
<1>1. CASE Accept(c)
  <2>1. /\ handler' = [handler EXCEPT ![c] = "id"] /\ UNCHANGED <<taken, data, out>>
        /\ UNCHANGED <<program, srv, netVars, starved>> /\ conns' = conns + 1
        /\ fds' = fds \cup {c} /\ socks' = socks \cup {c}
    BY <1>1 DEF Accept, Accepted
  <2>2. /\ handler' \in [Nodes -> {"none", "close", "done"} \cup Fields] /\ handler'[c] = "id"
        /\ \A b \in Nodes \ {c} : handler'[b] = handler[b]
    BY <2>1 DEF TypeOK, Fields
  <2>3. StreamInv'
    BY <1>0, <2>1, <2>2, StreamMoves
  <2>4. TypeOK'
    BY <2>1, <2>2 DEF TypeOK, netVars
  <2>5. UnopenedInv'
    BY <2>1 DEF UnopenedInv, netVars
  <2>6. DescriptorsAccounted'
    BY <1>0, <2>1, <2>2 DEF DescriptorsAccounted, netVars, Up, Fields
  <2> QED BY <2>3, <2>4, <2>5, <2>6
<1>2. CASE AcceptStarves(c)
  <2>1. /\ UNCHANGED <<program, srv, conns, socks, netVars, hVars>>
        /\ fds' = fds \cup {c} /\ starved' = starved \cup {c}
    BY <1>2 DEF AcceptStarves, Starved
  <2>2. StreamInv'
    BY <2>1, StreamFrame
  <2>3. TypeOK'
    BY <2>1, Keeps DEF TypeOK, netVars
  <2>4. UnopenedInv'
    BY <2>1 DEF UnopenedInv, netVars
  <2>5. DescriptorsAccounted'
    BY <1>0, <2>1 DEF DescriptorsAccounted, netVars, hVars, Up
  <2> QED BY <2>2, <2>3, <2>4, <2>5
<1>3. CASE SpawnFails(c)
  <2>1. /\ UNCHANGED <<program, srv, conns, socks, starved, node, sent, hVars>>
        /\ fds' = IF link[c] = "reset" THEN fds \cup {c} ELSE fds
        /\ link' = IF link[c] = "up" THEN [link EXCEPT ![c] = "shut"] ELSE link
    BY <1>3 DEF SpawnFails
  <2>2. StreamInv'
    BY <2>1, StreamFrame
  <2>3. /\ link' \in [Nodes -> {"none", "up", "shut", "reset"}]
        /\ \A b \in Nodes \ {c} : link'[b] = link[b]
        /\ link[c] = "reset" => link'[c] = "reset"
    BY <2>1 DEF TypeOK
  <2>4. TypeOK'
    BY <2>1, <2>3, Keeps DEF TypeOK
  <2>5. UnopenedInv'
    BY <1>0, <2>1, <2>3 DEF UnopenedInv
  <2>6. DescriptorsAccounted'
    BY <1>0, <2>1, <2>3 DEF DescriptorsAccounted, hVars, Up
  <2> QED BY <2>2, <2>4, <2>5, <2>6
<1> QED BY <1>1, <1>2, <1>3

(* A handler serves its node. *)
LEMMA ServeKeeps ==
  ASSUME DescriptorInv, StreamInv, NEW c \in Nodes, Serve(c)
  PROVE  DescriptorInv' /\ StreamInv'
<1> USE DEF DescriptorInv
<1>1. UNCHANGED <<program, srv, conns, sockVars, netVars>> /\ handler[c] \in Fields
  BY DEF Serve
<1>2. StreamInv' /\ handler' \in [Nodes -> {"none", "close", "done"} \cup Fields]
      /\ taken' \in [Nodes -> Nat] /\ data' \in [Nodes -> Pieces]
      /\ out' \in [Nodes -> Seq(Pieces)]
      /\ handler'[c] \in Fields \cup {"close"}
      /\ \A b \in Nodes \ {c} : handler'[b] = handler[b]
  BY ServeStream
<1>3. TypeOK'
  BY <1>1, <1>2 DEF TypeOK, sockVars, netVars
<1>4. UnopenedInv'
  BY <1>1 DEF UnopenedInv, netVars
<1>5. "done" \notin Fields
  BY DEF Fields
<1>6. DescriptorsAccounted'
  BY <1>1, <1>2, <1>5 DEF DescriptorsAccounted, sockVars, netVars, Up
<1> QED BY <1>2, <1>3, <1>4, <1>6

(* A handler closes its connection. *)
LEMMA CloseKeeps ==
  ASSUME DescriptorInv, StreamInv, NEW c \in Nodes, CloseClient(c)
  PROVE  DescriptorInv' /\ StreamInv'
<1> USE DEF DescriptorInv
<1>1. /\ UNCHANGED <<program, srv, starved, node, sent, taken, out>>
      /\ handler' = [handler EXCEPT ![c] = "done"]
      /\ data' = [data EXCEPT ![c] = [f \in Fields |-> Nothing]]
      /\ conns' = IF program = "final" THEN conns - 1 ELSE conns
      /\ socks' = socks \ {c}
      /\ fds' = IF link[c] = "reset" THEN fds ELSE fds \ {c}
      /\ link' = IF link[c] = "up" THEN [link EXCEPT ![c] = "shut"] ELSE link
  BY NodesAssumption DEF CloseClient, TcpClose
<1>2. /\ handler' \in [Nodes -> {"none", "close", "done"} \cup Fields] /\ handler'[c] = "done"
      /\ \A b \in Nodes \ {c} : handler'[b] = handler[b]
  BY <1>1 DEF TypeOK
<1>3. [f \in Fields |-> Nothing] \in Pieces
  BY DEF Pieces, Nothing
<1>4. data' \in [Nodes -> Pieces] /\ \A b \in Nodes \ {c} : data'[b] = data[b]
  BY <1>1, <1>3 DEF TypeOK
<1>5. StreamInv'
  BY <1>1, <1>2, <1>4, StreamMoves
<1>6. /\ link' \in [Nodes -> {"none", "up", "shut", "reset"}]
      /\ \A b \in Nodes \ {c} : link'[b] = link[b]
      /\ link[c] = "reset" => link'[c] = "reset"
      /\ link[c] = "none" => link'[c] = "none"
  BY <1>1 DEF TypeOK
<1>7. TypeOK'
  <2>1. socks' \subseteq fds' /\ fds' \subseteq Nodes \cup {Listen} /\ conns' \in Int
    BY <1>1 DEF TypeOK
  <2> QED BY <1>1, <1>2, <1>4, <1>6, <2>1 DEF TypeOK
<1>8. UnopenedInv'
  BY <1>1, <1>6 DEF UnopenedInv
<1>9. DescriptorsAccounted'
  BY <1>1, <1>2, <1>6 DEF DescriptorsAccounted, Up
<1> QED BY <1>5, <1>7, <1>8, <1>9

(* The nodes and the network. *)
LEMMA NetworkKeeps ==
  ASSUME DescriptorInv, NEW c \in Nodes,
         Node(c) \/ NodeDies(c) \/ Reset(c)
  PROVE  DescriptorInv' /\ UNCHANGED hVars
<1> USE DEF DescriptorInv
<1>1. /\ UNCHANGED <<program, srv, conns, fds, socks, starved, hVars>>
      /\ UNCHANGED node \/ \E v \in {"gone"} \cup Fields : node' = [node EXCEPT ![c] = v]
      /\ \/ UNCHANGED link
         \/ link[c] # "reset" /\ node[c] = "off" /\ node'[c] = "id" /\ link' = [link EXCEPT ![c] = "up"]
         \/ link[c] \in {"up", "shut"} /\ link' = [link EXCEPT ![c] = "reset"]
      /\ UNCHANGED sent \/ \E f \in Fields : sent' = [sent EXCEPT ![c] = @ + Size[f]]
  <2>1. CASE Connect(c)
    <3>1. node[c] = "off" /\ link[c] = "none"
      BY <2>1 DEF Connect, UnopenedInv
    <3>2. node \in [Nodes -> {"off", "gone"} \cup Fields]
      BY DEF TypeOK
    <3> QED BY <2>1, <3>1, <3>2 DEF Connect, sockVars, Fields
  <2>2. CASE Send(c)
    <3>1. node[c] \in Fields /\ Following[node[c]] \in Fields
          /\ node' = [node EXCEPT ![c] = Following[node[c]]]
      BY <2>2 DEF Send, Fields, Following
    <3> QED BY <2>2, <3>1 DEF Send, sockVars
  <2>3. CASE SendFails(c) \/ NodeCloses(c) \/ NodeDies(c)
    BY <2>3 DEF SendFails, NodeCloses, NodeDies, sockVars
  <2>4. CASE Reset(c)
    BY <2>4 DEF Reset, sockVars
  <2> QED BY <2>1, <2>2, <2>3, <2>4 DEF Node
<1>2. node' \in [Nodes -> {"off", "gone"} \cup Fields]
      /\ (\A b \in Nodes : node'[b] = "off" => node[b] = "off")
      /\ (node'[c] = "off" => UNCHANGED node)
  <2>1. CASE UNCHANGED node
    BY <2>1 DEF TypeOK
  <2>2. ASSUME NEW v \in {"gone"} \cup Fields, node' = [node EXCEPT ![c] = v]
        PROVE  /\ node' \in [Nodes -> {"off", "gone"} \cup Fields]
               /\ (\A b \in Nodes : node'[b] = "off" => node[b] = "off")
               /\ (node'[c] = "off" => UNCHANGED node)
    BY <2>2 DEF TypeOK, Fields
  <2> QED BY <1>1, <2>1, <2>2
<1>3. sent' \in [Nodes -> Nat]
  BY <1>1, SizeAssumption DEF TypeOK
<1>4. /\ link' \in [Nodes -> {"none", "up", "shut", "reset"}]
      /\ \A b \in Nodes \ {c} : link'[b] = link[b]
      /\ link[c] = "reset" => link'[c] = "reset"
      /\ UNCHANGED link \/ node[c] # "off" \/ node'[c] = "id"
  BY <1>1 DEF TypeOK, UnopenedInv
<1>5. TypeOK'
  BY <1>1, <1>2, <1>3, <1>4, Keeps DEF TypeOK
<1>6. UnopenedInv'
  BY <1>2, <1>4 DEF UnopenedInv
<1>7. DescriptorsAccounted'
  BY <1>1, <1>4 DEF DescriptorsAccounted, Up, hVars
<1> QED BY <1>1, <1>5, <1>6, <1>7

-----------------------------------------------------------------------------
LEMMA NextInv == LinkInv /\ [Next]_vars => LinkInv'
<1> SUFFICES ASSUME LinkInv, [Next]_vars PROVE LinkInv'
  OBVIOUS
<1>0. DescriptorInv /\ StreamInv
  BY DEF LinkInv, DescriptorInv, StreamInv
<1>1. CASE Server
  <2>1. CASE OpenServer \/ StartAccepting \/ LeaveLoop \/ Poll
    BY <2>1, <1>0, StartKeeps, StreamFrame
       DEF OpenServer, StartAccepting, LeaveLoop, Poll, LinkInv, DescriptorInv, StreamInv
  <2>2. CASE OpenServerFails \/ AcceptThreadFails \/ CloseServer \/ ServerReturns
    <3>1. UNCHANGED hVars
      BY <2>2 DEF OpenServerFails, AcceptThreadFails, CloseServer, ServerReturns
    <3> QED BY <3>1, <2>2, <1>0, EndKeeps, StreamFrame DEF LinkInv, DescriptorInv, StreamInv
  <2>3. CASE \E c \in Nodes : Accept(c) \/ AcceptStarves(c) \/ SpawnFails(c)
    BY <2>3, <1>0, AcceptKeeps DEF LinkInv, DescriptorInv, StreamInv
  <2> QED BY <1>1, <2>1, <2>2, <2>3 DEF Server
<1>2. CASE \E c \in Nodes : Handler(c)
  BY <1>2, <1>0, ServeKeeps, CloseKeeps DEF Handler, LinkInv, DescriptorInv, StreamInv
<1>3. CASE \E c \in Nodes : Node(c) \/ NodeDies(c) \/ Reset(c)
  BY <1>3, <1>0, NetworkKeeps, StreamFrame DEF LinkInv, DescriptorInv, StreamInv
<1>4. CASE UNCHANGED vars
  <2>1. UNCHANGED hVars
    BY <1>4 DEF vars
  <2>2. StreamInv'
    BY <2>1, <1>0, StreamFrame
  <2>3. TypeOK' /\ UnopenedInv' /\ DescriptorsAccounted'
    BY <1>4, <1>0, <2>1, Keeps
       DEF DescriptorInv, TypeOK, UnopenedInv, DescriptorsAccounted, Up, vars, sockVars, netVars
  <2> QED BY <2>2, <2>3 DEF LinkInv, StreamInv
<1> QED BY <1>1, <1>2, <1>3, <1>4 DEF Next

(* The library, its servers and its nodes stay within the invariant. *)
THEOREM LinkInvariance == Spec => []LinkInv
<1>1. Init /\ [][Next]_vars => []LinkInv
  BY InitInv, NextInv, PTL
<1> QED BY <1>1, PTL DEF Spec

(* Up to the first piece received in part, the readings a handler passes on
   are those its node sent, in their order and none left out; and no part of
   the stream is used twice even after that. *)
THEOREM StreamIntact == Spec => []ReadingsIntact
<1>1. LinkInv => ReadingsIntact
  BY DEF LinkInv
<1> QED BY <1>1, LinkInvariance, PTL

(* A descriptor without a tcpsock_t has been left by tcp_close on a reset
   connection, or by an accept that had no memory. *)
THEOREM DescriptorsHeld == Spec => []DescriptorsAccounted
<1>1. LinkInv => DescriptorsAccounted
  BY DEF LinkInv
<1> QED BY <1>1, LinkInvariance, PTL

-----------------------------------------------------------------------------
(* The counter and the ends of the two servers. *)

LEMMA FiniteServed ==
  /\ IsFiniteSet(Served) /\ IsFiniteSet(Active)
  /\ Cardinality(Served) \in Nat /\ Cardinality(Active) \in Nat
<1>1. Served \in SUBSET Nodes /\ Active \in SUBSET Nodes
  BY DEF Served, Active
<1> QED BY <1>1, NodesAssumption, FS_Subset, FS_CardinalityType

(* Steps that start and end no handler and leave the counter alone. *)
LEMMA CountFrame ==
  ASSUME CountInv, UNCHANGED <<program, conns, handler>>,
         srv' = srv \/ srv' \in {"loop", "exited"}
  PROVE  CountInv'
BY DEF CountInv, Served, Active

LEMMA CountServer ==
  ASSUME TypeOK, CountInv,
         \/ OpenServer \/ OpenServerFails \/ StartAccepting \/ AcceptThreadFails
         \/ LeaveLoop \/ Poll \/ CloseServer \/ ServerReturns
  PROVE  CountInv'
<1> USE DEF hVars, Exit
<1>1. CASE StartAccepting \/ ServerReturns
  BY <1>1, CountFrame DEF StartAccepting, ServerReturns
<1>2. CASE OpenServer \/ OpenServerFails \/ AcceptThreadFails
  <2>1. UNCHANGED <<program, conns, handler>> /\ Served = {} /\ srv' \in {"thread", "closed", "exited"}
        /\ (srv' = "closed" => program = "final")
    BY <1>2 DEF OpenServer, OpenServerFails, AcceptThreadFails, CountInv
  <2>2. Served' = {} /\ Active' = {} /\ Active = {}
    BY <2>1 DEF Served, Active
  <2> QED BY <2>1, <2>2 DEF CountInv
<1>3. CASE LeaveLoop
  <2>1. /\ UNCHANGED <<program, conns, handler>>
        /\ srv' = IF program = "final" THEN "wait" ELSE "leave"
        /\ program = "plab3" => conns > MaxConn
    BY <1>3, BoundsAssumption DEF LeaveLoop, AcceptsMore, TypeOK
  <2> QED BY <2>1 DEF CountInv, Served, Active
<1>4. CASE Poll
  <2>1. UNCHANGED <<program, conns, handler>> /\ srv' = "leave" /\ conns <= 0
        /\ srv = "wait"
    BY <1>4 DEF Poll
  <2>2. program = "final"
    BY <2>1 DEF CountInv, TypeOK
  <2>3. Active = {}
    BY <2>1, <2>2, FiniteServed, FS_EmptySet DEF CountInv
  <2> QED BY <2>1, <2>2, <2>3 DEF CountInv, Served, Active
<1>5. CASE CloseServer
  BY <1>5 DEF CloseServer, CountInv, Served, Active
<1> QED BY <1>1, <1>2, <1>3, <1>4, <1>5

LEMMA CountAccept ==
  ASSUME TypeOK, CountInv, NEW c \in Nodes, Accept(c)
  PROVE  CountInv'
<1>1. /\ UNCHANGED <<program, srv>> /\ srv = "loop" /\ conns' = conns + 1
      /\ handler[c] = "none" /\ handler' = [handler EXCEPT ![c] = "id"]
      /\ AcceptsMore
  BY DEF Accept, Pending
<1>2. /\ Served' = Served \cup {c} /\ c \notin Served
      /\ Active' = Active \cup {c} /\ c \notin Active
  BY <1>1 DEF Served, Active, TypeOK
<1>3. /\ Cardinality(Served') = Cardinality(Served) + 1
      /\ Cardinality(Active') = Cardinality(Active) + 1
  BY <1>2, FiniteServed, FS_AddElement
<1>4. conns' <= IF program = "final" THEN MaxConn ELSE MaxConn + 1
  BY <1>1, BoundsAssumption DEF AcceptsMore, TypeOK
<1> QED BY <1>1, <1>3, <1>4 DEF CountInv

LEMMA CountHandler ==
  ASSUME TypeOK, CountInv, NEW c \in Nodes, Handler(c)
  PROVE  CountInv'
<1>1. CASE Serve(c)
  <2>0. UNCHANGED <<program, srv, conns>> /\ handler[c] \in Fields
    BY <1>1 DEF Serve
  <2>1. \E h \in Fields \cup {"close"} : handler' = [handler EXCEPT ![c] = h]
    <3>1. ASSUME NEW n \in Nat, Receive(c, n)
          PROVE  \E h \in Fields : handler' = [handler EXCEPT ![c] = h]
      <4>1. handler' = [handler EXCEPT ![c] = Following[handler[c]]]
        BY <3>1 DEF Receive
      <4>2. Following[handler[c]] \in Fields
        BY <2>0 DEF Following, Fields
      <4> QED BY <4>1, <4>2
    <3>2. Leave(c) => handler' = [handler EXCEPT ![c] = "close"]
      BY DEF Leave
    <3>3. Leave(c) \/ \E n \in 1..Size[handler[c]] : Receive(c, n)
      BY <1>1 DEF Serve, TestHandler, GatewayHandler, TimesOut
    <3>4. Size[handler[c]] \in Nat
      BY <2>0, SizeAssumption
    <3>5. \A n \in 1..Size[handler[c]] : n \in Nat
      BY <3>4
    <3> QED BY <3>1, <3>2, <3>3, <3>5
  <2>2. Served' = Served /\ Active' = Active
    BY <2>0, <2>1 DEF Served, Active, TypeOK, Fields
  <2> QED BY <2>0, <2>2 DEF CountInv
<1>2. CASE CloseClient(c)
  <2>1. /\ UNCHANGED <<program, srv>> /\ handler[c] = "close"
        /\ handler' = [handler EXCEPT ![c] = "done"]
        /\ conns' = IF program = "final" THEN conns - 1 ELSE conns
    BY <1>2 DEF CloseClient
  <2>2. Served' = Served /\ Active' = Active \ {c} /\ c \in Active
    BY <2>1 DEF Served, Active, TypeOK
  <2>3. Cardinality(Active') = Cardinality(Active) - 1
    BY <2>2, FiniteServed, FS_RemoveElement
  <2>4. program = "final" => conns' <= MaxConn
    BY <2>1, BoundsAssumption DEF CountInv, TypeOK
  <2> QED BY <2>1, <2>2, <2>3, <2>4 DEF CountInv
<1> QED BY <1>1, <1>2 DEF Handler

LEMMA CountStep == TypeOK /\ CountInv /\ [Next]_vars => CountInv'
<1> SUFFICES ASSUME TypeOK, CountInv, [Next]_vars PROVE CountInv'
  OBVIOUS
<1>1. CASE Server
  <2>1. ASSUME NEW c \in Nodes, AcceptStarves(c) \/ SpawnFails(c)
        PROVE  CountInv'
    BY <2>1, CountFrame DEF AcceptStarves, SpawnFails, hVars
  <2> QED BY <1>1, <2>1, CountServer, CountAccept DEF Server
<1>2. ASSUME NEW c \in Nodes, Handler(c)
      PROVE  CountInv'
  BY <1>2, CountHandler
<1>3. ASSUME NEW c \in Nodes, Node(c) \/ NodeDies(c) \/ Reset(c)
      PROVE  CountInv'
  BY <1>3, CountFrame DEF Node, Connect, Send, SendFails, NodeCloses, NodeDies, Reset, hVars
<1>4. CASE UNCHANGED vars
  BY <1>4, CountFrame DEF vars, hVars
<1> QED BY <1>1, <1>2, <1>3, <1>4 DEF Next

LEMMA CountSays == TypeOK /\ CountInv => EndOfServer
<1> SUFFICES ASSUME TypeOK, CountInv PROVE EndOfServer
  OBVIOUS
<1>1. CASE program = "final"
  BY <1>1 DEF CountInv, EndOfServer
<1>2. CASE program = "plab3"
  BY <1>2, FiniteServed, BoundsAssumption DEF CountInv, EndOfServer
<1> QED BY <1>1, <1>2 DEF TypeOK

(* The gateway never serves more than max_conn nodes at a time and closes its
   server socket when all have ended; the test server has accepted max_conn + 1
   when it does, for every number of nodes. *)
THEOREM ServerEnds == Spec => []EndOfServer
<1>1. Init => CountInv
  <2> SUFFICES ASSUME Init PROVE CountInv
    OBVIOUS
  <2>1. Served = {} /\ Active = {}
    BY DEF Init, Served, Active
  <2> QED BY <2>1, BoundsAssumption, FS_EmptySet DEF Init, CountInv
<1>2. LinkInv => TypeOK
  BY DEF LinkInv
<1> QED BY <1>1, <1>2, CountStep, CountSays, LinkInvariance, PTL DEF Spec
=============================================================================
