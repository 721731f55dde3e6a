--------------------------- MODULE Dplist_proofs ---------------------------
(***************************************************************************)
(* The pointer list, for any elements, any indices and any number of       *)
(* nodes: its pointers always form one list in both directions, each call  *)
(* does to it what dplist.h says (Dplist.tla, ListSeq.tla), and the list   *)
(* of milestone1/ex2 stays equal to it (ListExercise.tla).                 *)
(***************************************************************************)
EXTENDS ListExercise, SequenceTheorems, FiniteSetTheorems, TLAPS

USE IndicesAssumption, NodesAssumption

-----------------------------------------------------------------------------
(* Induction, from the well-ordering of the naturals. *)

LEMMA Least ==
  ASSUME NEW S \in SUBSET Nat, S # {}
  PROVE  \E m \in S : \A k \in S : m <= k
<1> DEFINE R == {ss \in Nat \X Nat : ss[1] < ss[2]}
<1>1. IsWellFoundedOn(R, Nat)
  BY NatLessThanWellFounded, Zenon DEF OpToRel
<1>2. PICK m \in S : \A k \in S : ~ (<<k, m>> \in R)
  BY <1>1, WFMin
<1>3. ASSUME NEW k \in S PROVE m <= k
  <2>1. k \in Nat /\ m \in Nat
    OBVIOUS
  <2>2. <<k, m>> \notin R
    BY <1>2
  <2>3. ~ (k < m)
    BY <2>1, <2>2
  <2> QED BY <2>1, <2>3
<1> QED BY <1>3

LEMMA Induct ==
  ASSUME NEW S, 0 \in S, \A n \in Nat : n \in S => n + 1 \in S
  PROVE  Nat \subseteq S
<1> DEFINE B == {n \in Nat : n \notin S}
<1>1. SUFFICES ASSUME B # {} PROVE FALSE
  OBVIOUS
<1>2. PICK m \in B : \A k \in B : m <= k
  BY <1>1, Least
<1>3. m # 0 /\ m \in Nat
  BY <1>2
<1>4. m - 1 \in Nat /\ m - 1 \notin B
  BY <1>2, <1>3
<1> QED BY <1>2, <1>3, <1>4

-----------------------------------------------------------------------------
(* Sequences with an element put in or taken out. *)

Ins(s, j, x) ==
  [k \in 1..(Len(s) + 1) |-> IF k < j THEN s[k] ELSE IF k = j THEN x ELSE s[k - 1]]
Del(s, j) == [k \in 1..(Len(s) - 1) |-> IF k < j THEN s[k] ELSE s[k + 1]]

LEMMA InsIs ==
  ASSUME NEW T, NEW s \in Seq(T), NEW j \in 1..(Len(s) + 1), NEW x \in T
  PROVE  Ins(s, j, x) \in Seq(T) /\ Len(Ins(s, j, x)) = Len(s) + 1
<1>1. \A k \in 1..(Len(s) + 1) : (IF k < j THEN s[k] ELSE IF k = j THEN x ELSE s[k - 1]) \in T
  OBVIOUS
<1> QED BY <1>1 DEF Ins

LEMMA DelIs ==
  ASSUME NEW T, NEW s \in Seq(T), NEW j \in 1..Len(s)
  PROVE  Del(s, j) \in Seq(T) /\ Len(Del(s, j)) = Len(s) - 1
<1>1. \A k \in 1..(Len(s) - 1) : (IF k < j THEN s[k] ELSE s[k + 1]) \in T
  OBVIOUS
<1>2. Len(s) - 1 \in Nat
  OBVIOUS
<1> QED BY <1>1, <1>2 DEF Del

(* They are the InsertAt and RemoveAt of the specification. *)
LEMMA InsertAtIs ==
  ASSUME NEW T, NEW s \in Seq(T), NEW j \in 1..(Len(s) + 1), NEW x \in T
  PROVE  Documented!InsertAt(s, j, x) = Ins(s, j, x)
<1> DEFINE n == Len(s)
           a == SubSeq(s, 1, j - 1)
           c == SubSeq(s, j, n)
           t == a \o <<x>>
           u == t \o c
<1>1. n \in Nat /\ j \in Int
  OBVIOUS
<1>2. a \in Seq(T) /\ Len(a) = j - 1 /\ \A k \in 1..(j - 1) : a[k] = s[k]
  OBVIOUS
<1>3. c \in Seq(T) /\ Len(c) = n - j + 1 /\ \A k \in 1..(n - j + 1) : c[k] = s[k + j - 1]
  OBVIOUS
<1> HIDE DEF a, c
<1>4. /\ t \in Seq(T) /\ Len(t) = j
      /\ \A k \in 1..j : t[k] = IF k < j THEN s[k] ELSE x
  BY <1>2
<1> HIDE DEF t
<1>5. /\ u \in Seq(T) /\ Len(u) = n + 1
      /\ \A k \in 1..(n + 1) : u[k] = IF k <= j THEN t[k] ELSE c[k - j]
  <2>1. /\ u \in Seq(T) /\ Len(u) = Len(t) + Len(c)
        /\ \A k \in 1..(Len(t) + Len(c)) :
             u[k] = IF k <= Len(t) THEN t[k] ELSE c[k - Len(t)]
    BY <1>3, <1>4, ConcatProperties
  <2>2. Len(t) = j /\ Len(t) + Len(c) = n + 1
    BY <1>1, <1>3, <1>4
  <2> HIDE DEF u
  <2> QED BY <2>1, <2>2
<1> HIDE DEF u
<1>6. \A k \in 1..(n + 1) : u[k] = Ins(s, j, x)[k]
  <2> SUFFICES ASSUME NEW k \in 1..(n + 1) PROVE u[k] = Ins(s, j, x)[k]
    OBVIOUS
  <2>1. CASE k <= j
    BY <1>1, <1>4, <1>5, <2>1 DEF Ins
  <2>2. CASE k > j
    <3>1. k - j \in 1..(n - j + 1) /\ (k - j) + j - 1 = k - 1
      BY <1>1, <2>2
    <3> QED BY <1>1, <1>3, <1>5, <2>2, <3>1 DEF Ins
  <2> QED BY <1>1, <2>1, <2>2
<1>7. Ins(s, j, x) \in Seq(T) /\ Len(Ins(s, j, x)) = n + 1
  BY InsIs
<1>8. u = Ins(s, j, x)
  BY <1>5, <1>6, <1>7
<1> QED BY <1>8 DEF u, t, a, c, Documented!InsertAt

LEMMA RemoveAtIs ==
  ASSUME NEW T, NEW s \in Seq(T), NEW j \in 1..Len(s)
  PROVE  Documented!RemoveAt(s, j) = Del(s, j)
<1> DEFINE n == Len(s)
           a == SubSeq(s, 1, j - 1)
           c == SubSeq(s, j + 1, n)
           u == a \o c
<1>1. n \in Nat /\ j \in Int
  OBVIOUS
<1>2. a \in Seq(T) /\ Len(a) = j - 1 /\ \A k \in 1..(j - 1) : a[k] = s[k]
  OBVIOUS
<1>3. c \in Seq(T) /\ Len(c) = n - j /\ \A k \in 1..(n - j) : c[k] = s[k + j]
  OBVIOUS
<1> HIDE DEF a, c
<1>4. /\ u \in Seq(T) /\ Len(u) = n - 1
      /\ \A k \in 1..(n - 1) : u[k] = IF k <= j - 1 THEN a[k] ELSE c[k - (j - 1)]
  <2>1. /\ u \in Seq(T) /\ Len(u) = Len(a) + Len(c)
        /\ \A k \in 1..(Len(a) + Len(c)) :
             u[k] = IF k <= Len(a) THEN a[k] ELSE c[k - Len(a)]
    BY <1>2, <1>3, ConcatProperties
  <2>2. Len(a) = j - 1 /\ Len(a) + Len(c) = n - 1
    BY <1>1, <1>2, <1>3
  <2> HIDE DEF u
  <2> QED BY <2>1, <2>2
<1> HIDE DEF u
<1>5. \A k \in 1..(n - 1) : u[k] = Del(s, j)[k]
  <2> SUFFICES ASSUME NEW k \in 1..(n - 1) PROVE u[k] = Del(s, j)[k]
    OBVIOUS
  <2>1. CASE k < j
    BY <1>1, <1>2, <1>4, <2>1 DEF Del
  <2>2. CASE k >= j
    <3>1. k - (j - 1) \in 1..(n - j) /\ (k - (j - 1)) + j = k + 1
      BY <1>1, <2>2
    <3> QED BY <1>1, <1>3, <1>4, <2>2, <3>1 DEF Del
  <2> QED BY <1>1, <2>1, <2>2
<1>6. Del(s, j) \in Seq(T) /\ Len(Del(s, j)) = n - 1
  BY DelIs
<1>7. u = Del(s, j)
  BY <1>4, <1>5, <1>6
<1> QED BY <1>7 DEF u, a, c, Documented!RemoveAt

-----------------------------------------------------------------------------
(* The nodes of a list in order: each links to the next, the last to NULL, and
   each but the first back to the one before.  What the first links back to is
   left open, the exercise leaves it dangling. *)
Chain(hp, hd, p) ==
  /\ p \in Seq(1..Len(hp))
  /\ hd = IF Len(p) = 0 THEN NULL ELSE p[1]
  /\ \A k \in 1..Len(p) : hp[p[k]].next = IF k < Len(p) THEN p[k + 1] ELSE NULL
  /\ \A k \in 2..Len(p) : hp[p[k]].prev = p[k - 1]
  /\ \A j, k \in 1..Len(p) : p[j] = p[k] => j = k

(* The loops of Dplist.tla, of any nodes and any head. *)
NodeOf(hp, hd) ==
  CHOOSE f : f = [k \in Nat |->
    IF k = 0 THEN hd ELSE IF f[k - 1] = NULL THEN NULL ELSE hp[f[k - 1]].next]
SizeOf(hp, hd) ==
  CHOOSE n \in 0..Len(hp) : NodeOf(hp, hd)[n] = NULL /\ \A k \in 0..(n - 1) : NodeOf(hp, hd)[k] # NULL
WalkOf(hp, hd) ==
  CHOOSE f : f = [k \in Nat |->
    IF k = 0 THEN hd ELSE IF hp[f[k - 1]].next # NULL THEN hp[f[k - 1]].next ELSE f[k - 1]]
RefOf(hp, hd, i) == IF hd = NULL \/ i <= 0 THEN hd ELSE WalkOf(hp, hd)[i]

(* A list has no more nodes than were allocated. *)
LEMMA ChainFits ==
  ASSUME NEW hp, NEW hd, NEW p, Len(hp) \in Nat, Chain(hp, hd, p)
  PROVE  /\ Len(p) \in Nat /\ Len(p) <= Len(hp)
         /\ \A k \in 1..Len(p) : p[k] \in 1..Len(hp) /\ p[k] # NULL
<1>1. /\ p \in Seq(1..Len(hp)) /\ Len(p) \in Nat /\ p \in [1..Len(p) -> 1..Len(hp)]
      /\ \A j, k \in 1..Len(p) : p[j] = p[k] => j = k
  BY LenProperties DEF Chain
<1>2. /\ IsFiniteSet(1..Len(p)) /\ Cardinality(1..Len(p)) = Len(p)
      /\ IsFiniteSet(1..Len(hp)) /\ Cardinality(1..Len(hp)) = Len(hp)
  <2>1. ASSUME NEW n \in Nat PROVE IsFiniteSet(1..n) /\ Cardinality(1..n) = n
    <3>1. /\ IsFiniteSet(1..n)
          /\ Cardinality(1..n) = IF 1 > n THEN 0 ELSE n - 1 + 1
      BY FS_Interval
    <3> QED BY <3>1
  <2> QED BY <1>1, <2>1
<1>3. ~ (Len(hp) < Len(p))
  <2>1. SUFFICES ASSUME Cardinality(1..Len(hp)) < Cardinality(1..Len(p)) PROVE FALSE
    BY <1>2
  <2>2. \E x, y \in 1..Len(p) : x # y /\ p[x] = p[y]
    BY <1>1, <1>2, <2>1, FS_PigeonHole
  <2> QED BY <1>1, <2>2
<1>4. \A k \in 1..Len(p) : p[k] \in 1..Len(hp) /\ p[k] # NULL
  BY <1>1 DEF NULL
<1> QED BY <1>1, <1>3, <1>4

(* Following next from the head goes along the nodes and then stays at NULL. *)
LEMMA NodeIs ==
  ASSUME NEW hp, NEW hd, NEW p, Len(hp) \in Nat, Chain(hp, hd, p)
  PROVE  \A k \in Nat : NodeOf(hp, hd)[k] = IF k < Len(p) THEN p[k + 1] ELSE NULL
<1> DEFINE F(f) == [k \in Nat |->
             IF k = 0 THEN hd ELSE IF f[k - 1] = NULL THEN NULL ELSE hp[f[k - 1]].next]
           g == [k \in Nat |-> IF k < Len(p) THEN p[k + 1] ELSE NULL]
           f == NodeOf(hp, hd)
<1>1. /\ Len(p) \in Nat /\ \A k \in 1..Len(p) : p[k] # NULL
      /\ hd = IF Len(p) = 0 THEN NULL ELSE p[1]
      /\ \A k \in 1..Len(p) : hp[p[k]].next = IF k < Len(p) THEN p[k + 1] ELSE NULL
  BY ChainFits DEF Chain
<1>2. \A k \in Nat : g[k] = IF k = 0 THEN hd ELSE IF g[k - 1] = NULL THEN NULL ELSE hp[g[k - 1]].next
  <2> SUFFICES ASSUME NEW k \in Nat
               PROVE  g[k] = IF k = 0 THEN hd ELSE IF g[k - 1] = NULL THEN NULL ELSE hp[g[k - 1]].next
    OBVIOUS
  <2>1. CASE k = 0
    BY <1>1, <2>1
  <2>2. CASE k # 0 /\ k - 1 < Len(p)
    <3>1. k - 1 \in Nat /\ k \in 1..Len(p) /\ g[k - 1] = p[k]
      BY <1>1, <2>2
    <3> QED BY <1>1, <2>2, <3>1
  <2>3. CASE k # 0 /\ ~ (k - 1 < Len(p))
    <3>1. k - 1 \in Nat /\ g[k - 1] = NULL /\ g[k] = NULL
      BY <1>1, <2>3
    <3> QED BY <2>3, <3>1
  <2> QED BY <2>1, <2>2, <2>3
<1>3. g = F(g)
  BY <1>2
<1>4. f = F(f)
  BY <1>3 DEF NodeOf
<1> HIDE DEF g, f
<1>5. \A k \in Nat : f[k] = IF k = 0 THEN hd ELSE IF f[k - 1] = NULL THEN NULL ELSE hp[f[k - 1]].next
  BY <1>4
<1> DEFINE S == {k \in Nat : f[k] = g[k]}
<1>6. 0 \in S
  BY <1>2, <1>5
<1>7. \A k \in Nat : k \in S => k + 1 \in S
  BY <1>2, <1>5
<1>8. Nat \subseteq S
  <2> HIDE DEF S
  <2> QED BY <1>6, <1>7, Induct
<1>9. \A k \in Nat : f[k] = g[k]
  BY <1>8
<1> QED BY <1>9 DEF f, g

(* dpl_size counts the nodes. *)
LEMMA SizeIs ==
  ASSUME NEW hp, NEW hd, NEW p, Len(hp) \in Nat, Chain(hp, hd, p)
  PROVE  SizeOf(hp, hd) = Len(p)
<1> DEFINE f == NodeOf(hp, hd)
           At(n) == f[n] = NULL /\ \A k \in 0..(n - 1) : f[k] # NULL
<1>1. Len(p) \in Nat /\ Len(p) <= Len(hp) /\ \A k \in 1..Len(p) : p[k] # NULL
  BY ChainFits
<1>2. \A k \in Nat : f[k] = IF k < Len(p) THEN p[k + 1] ELSE NULL
  BY NodeIs
<1> HIDE DEF f
<1>3. \A k \in Nat : f[k] = NULL <=> k >= Len(p)
  BY <1>1, <1>2
<1>4. Len(p) \in 0..Len(hp) /\ At(Len(p))
  BY <1>1, <1>3
<1>5. \A n \in 0..Len(hp) : At(n) => n = Len(p)
  BY <1>1, <1>3
<1>6. (CHOOSE n \in 0..Len(hp) : At(n)) = Len(p)
  <2> HIDE DEF At
  <2> QED BY <1>4, <1>5
<1> QED BY <1>6 DEF SizeOf, f

(* dpl_get_reference_at_index stays on the last node. *)
LEMMA RefIs ==
  ASSUME NEW hp, NEW hd, NEW p, Len(hp) \in Nat, Chain(hp, hd, p), NEW i \in Int, Len(p) # 0
  PROVE  /\ RefOf(hp, hd, i) = p[IF i <= 0 THEN 1 ELSE IF i < Len(p) THEN i + 1 ELSE Len(p)]
         /\ hd # NULL
<1> DEFINE n == Len(p)
           F(f) == [k \in Nat |->
             IF k = 0 THEN hd ELSE IF hp[f[k - 1]].next # NULL THEN hp[f[k - 1]].next ELSE f[k - 1]]
           g == [k \in Nat |-> IF k < n THEN p[k + 1] ELSE p[n]]
           f == WalkOf(hp, hd)
<1>1. /\ n \in Nat /\ n # 0 /\ \A k \in 1..n : p[k] # NULL
      /\ hd = p[1]
      /\ \A k \in 1..n : hp[p[k]].next = IF k < n THEN p[k + 1] ELSE NULL
  BY ChainFits DEF Chain
<1> HIDE DEF n
<1>2. \A k \in Nat : g[k] = IF k = 0 THEN hd
                            ELSE IF hp[g[k - 1]].next # NULL THEN hp[g[k - 1]].next ELSE g[k - 1]
  <2> SUFFICES ASSUME NEW k \in Nat
               PROVE  g[k] = IF k = 0 THEN hd
                             ELSE IF hp[g[k - 1]].next # NULL THEN hp[g[k - 1]].next ELSE g[k - 1]
    OBVIOUS
  <2>1. CASE k = 0
    BY <1>1, <2>1
  <2>2. CASE k # 0 /\ k < n
    <3>1. k - 1 \in Nat /\ k \in 1..n /\ k + 1 \in 1..n /\ g[k - 1] = p[k] /\ g[k] = p[k + 1]
      BY <1>1, <2>2
    <3> QED BY <1>1, <2>2, <3>1
  <2>3. CASE k # 0 /\ ~ (k < n)
    <3>1. k - 1 \in Nat /\ n \in 1..n /\ g[k - 1] = p[n] /\ g[k] = p[n]
      BY <1>1, <2>3
    <3>2. hp[p[n]].next = NULL
      BY <1>1, <3>1
    <3> QED BY <2>3, <3>1, <3>2
  <2> QED BY <2>1, <2>2, <2>3
<1>3. g = F(g)
  BY <1>2
<1>4. f = F(f)
  BY <1>3 DEF WalkOf
<1> HIDE DEF g, f
<1>5. \A k \in Nat : f[k] = IF k = 0 THEN hd
                            ELSE IF hp[f[k - 1]].next # NULL THEN hp[f[k - 1]].next ELSE f[k - 1]
  BY <1>4
<1> DEFINE S == {k \in Nat : f[k] = g[k]}
<1>6. 0 \in S
  BY <1>2, <1>5
<1>7. \A k \in Nat : k \in S => k + 1 \in S
  BY <1>2, <1>5
<1>8. Nat \subseteq S
  <2> HIDE DEF S
  <2> QED BY <1>6, <1>7, Induct
<1>9. \A k \in Nat : f[k] = IF k < n THEN p[k + 1] ELSE p[n]
  BY <1>8 DEF g
<1>10. hd # NULL
  BY <1>1
<1> QED BY <1>1, <1>9, <1>10 DEF RefOf, f, n

(* A new node linked in as the j-th. *)
LEMMA InsertChain ==
  ASSUME NEW hp, NEW hd, NEW p, Len(hp) \in Nat, Chain(hp, hd, p),
         NEW j \in 1..(Len(p) + 1), NEW new, new = Len(hp) + 1,
         NEW hp2, NEW hd2, Len(hp2) = Len(hp) + 1,
         hd2 = IF j = 1 THEN new ELSE hd,
         \A k \in 1..Len(p) : hp2[p[k]].next = IF k = j - 1 THEN new ELSE hp[p[k]].next,
         \A k \in 1..Len(p) : k = j => hp2[p[k]].prev = new,
         \A k \in 2..Len(p) : k # j => hp2[p[k]].prev = hp[p[k]].prev,
         hp2[new].next = IF j <= Len(p) THEN p[j] ELSE NULL,
         j > 1 => hp2[new].prev = p[j - 1]
  PROVE  Chain(hp2, hd2, Ins(p, j, new))
<1> DEFINE n == Len(p)
           q == Ins(p, j, new)
<1>1. /\ n \in Nat /\ \A k \in 1..n : p[k] \in 1..Len(hp)
      /\ hd = IF n = 0 THEN NULL ELSE p[1]
      /\ \A k \in 1..n : hp[p[k]].next = IF k < n THEN p[k + 1] ELSE NULL
      /\ \A k \in 2..n : hp[p[k]].prev = p[k - 1]
      /\ \A i, k \in 1..n : p[i] = p[k] => i = k
      /\ j \in 1..(n + 1) /\ j \in Int
      /\ \A k \in 1..n : hp2[p[k]].next = IF k = j - 1 THEN new ELSE hp[p[k]].next
      /\ \A k \in 1..n : k = j => hp2[p[k]].prev = new
      /\ \A k \in 2..n : k # j => hp2[p[k]].prev = hp[p[k]].prev
      /\ hp2[new].next = IF j <= n THEN p[j] ELSE NULL
  BY ChainFits DEF Chain
<1>2. q \in Seq(1..Len(hp2)) /\ Len(q) = n + 1
  <2>1. p \in Seq(1..Len(hp))
    BY DEF Chain
  <2>2. 1..Len(hp) \subseteq 1..Len(hp2) /\ new \in 1..Len(hp2)
    OBVIOUS
  <2>3. p \in Seq(1..Len(hp2))
    BY <1>1, <2>1, <2>2, SeqMonotonic
  <2> QED BY <1>1, <2>2, <2>3, InsIs
<1>3. \A k \in 1..(n + 1) : q[k] = IF k < j THEN p[k] ELSE IF k = j THEN new ELSE p[k - 1]
  BY DEF Ins
<1> HIDE DEF n, q
<1>0. n \in Nat /\ j \in Int /\ j \in 1..(n + 1)
  BY <1>1
<1>4. hd2 = IF Len(q) = 0 THEN NULL ELSE q[1]
  <2>1. Len(q) # 0 /\ 1 \in 1..(n + 1)
    BY <1>0, <1>2
  <2>2. q[1] = IF 1 < j THEN p[1] ELSE IF 1 = j THEN new ELSE p[0]
    BY <1>3, <2>1
  <2>3. j > 1 => n # 0
    BY <1>0
  <2> QED BY <1>1, <1>0, <2>1, <2>2, <2>3
<1>5. ASSUME NEW k \in 1..(n + 1)
      PROVE  hp2[q[k]].next = IF k < n + 1 THEN q[k + 1] ELSE NULL
  <2>1. CASE k < j - 1
    <3>1. k \in 1..n /\ k < n /\ q[k] = p[k] /\ q[k + 1] = p[k + 1]
      BY <1>1, <1>3, <2>1
    <3> QED BY SMTT(30), <1>1, <2>1, <3>1
  <2>2. CASE k = j - 1
    <3>1. k \in 1..n /\ q[k] = p[k] /\ q[k + 1] = new /\ k < n + 1
      BY <1>1, <1>3, <2>2
    <3> QED BY <1>1, <2>2, <3>1
  <2>3. CASE k = j
    <3>1. q[k] = new /\ (k < n + 1 => q[k + 1] = p[k])
      BY <1>1, <1>3, <2>3
    <3>2. k < n + 1 <=> j <= n
      BY <1>1, <2>3
    <3> QED BY <1>1, <2>3, <3>1, <3>2
  <2>4. CASE k > j
    <3>0. /\ k - 1 \in 1..n /\ k - 1 # j - 1 /\ k \in 1..(n + 1) /\ ~ (k < j) /\ k # j
          /\ k < n + 1 => k + 1 \in 1..(n + 1) /\ ~ (k + 1 < j) /\ k + 1 # j /\ k + 1 - 1 = k
      <4>1. n \in Int /\ j \in Int /\ k \in Int /\ 1 <= j /\ j < k /\ k <= n + 1
        BY <1>0, <2>4
      <4> QED BY <4>1
    <3>1. k - 1 \in 1..n /\ q[k] = p[k - 1] /\ (k < n + 1 => q[k + 1] = p[k]) /\ k - 1 # j - 1
      BY <1>3, <3>0
    <3>2. hp2[p[k - 1]].next = hp[p[k - 1]].next
      BY <1>1, <3>1
    <3>3. hp[p[k - 1]].next = IF k - 1 < n THEN p[k] ELSE NULL
      BY SMTT(30), <1>1, <3>1
    <3> QED BY <1>1, <3>1, <3>2, <3>3
  <2> QED BY <1>1, <2>1, <2>2, <2>3, <2>4
<1>6. ASSUME NEW k \in 2..(n + 1)
      PROVE  hp2[q[k]].prev = q[k - 1]
  <2>1. CASE k < j
    <3>1. k \in 2..n /\ q[k] = p[k] /\ q[k - 1] = p[k - 1] /\ k # j
      BY <1>1, <1>3, <2>1
    <3> QED BY <1>1, <3>1
  <2>2. CASE k = j
    <3>1. q[k] = new /\ q[k - 1] = p[k - 1] /\ j > 1
      BY <1>1, <1>3, <2>2
    <3> QED BY <1>1, <2>2, <3>1
  <2>3. CASE k = j + 1
    <3>1. j \in 1..n /\ q[k] = p[j] /\ q[k - 1] = new
      BY <1>1, <1>3, <2>3
    <3> QED BY <1>1, <3>1
  <2>4. CASE k > j + 1
    <3>1. k - 1 \in 2..n /\ q[k] = p[k - 1] /\ q[k - 1] = p[k - 2] /\ k - 1 # j /\ (k - 1) - 1 = k - 2
      <4>1. /\ k - 1 \in 2..n /\ k - 1 # j /\ (k - 1) - 1 = k - 2 /\ k \in 1..(n + 1)
            /\ k - 1 \in 1..(n + 1) /\ ~ (k < j) /\ k # j /\ ~ (k - 1 < j)
        BY <1>0, <2>4
      <4> QED BY <1>3, <4>1
    <3>2. hp2[p[k - 1]].prev = hp[p[k - 1]].prev
      BY <1>1, <3>1
    <3>3. hp[p[k - 1]].prev = p[(k - 1) - 1]
      BY <1>1, <3>1
    <3> QED BY <1>1, <3>1, <3>2, <3>3
  <2> QED BY <1>1, <2>1, <2>2, <2>3, <2>4
<1>7. \A i, k \in 1..(n + 1) : q[i] = q[k] => i = k
  <2> SUFFICES ASSUME NEW i \in 1..(n + 1), NEW k \in 1..(n + 1), q[i] = q[k] PROVE i = k
    OBVIOUS
  <2>1. \A m \in 1..(n + 1) : m # j => /\ q[m] # new
                                       /\ (IF m < j THEN m ELSE m - 1) \in 1..n
                                       /\ q[m] = p[IF m < j THEN m ELSE m - 1]
    BY <1>1, <1>3
  <2>2. q[j] = new /\ j \in 1..(n + 1)
    BY <1>1, <1>3
  <2>3. CASE i = j \/ k = j
    BY <1>1, <2>1, <2>2, <2>3
  <2>4. CASE i # j /\ k # j
    <3> DEFINE at(m) == IF m < j THEN m ELSE m - 1
    <3>1. /\ at(i) \in 1..n /\ q[i] = p[at(i)]
          /\ at(k) \in 1..n /\ q[k] = p[at(k)]
      BY <2>1, <2>4
    <3> HIDE DEF at
    <3>2. at(i) = at(k)
      BY <1>1, <3>1
    <3> QED BY <1>0, <2>4, <3>2 DEF at
  <2> QED BY <2>3, <2>4
<1> QED BY <1>2, <1>4, <1>5, <1>6, <1>7 DEF Chain, q

(* The j-th node taken out of the chain. *)
LEMMA RemoveChain ==
  ASSUME NEW hp, NEW hd, NEW p, Len(hp) \in Nat, Chain(hp, hd, p),
         NEW j \in 1..Len(p), NEW hp2, NEW hd2, Len(hp2) = Len(hp),
         hd2 = IF j > 1 THEN hd ELSE IF Len(p) = 1 THEN NULL ELSE p[2],
         \A k \in 1..Len(p) : k # j =>
           hp2[p[k]].next = IF k # j - 1 THEN hp[p[k]].next
                            ELSE IF j < Len(p) THEN p[j + 1] ELSE NULL,
         \A k \in 2..Len(p) : k # j /\ k # j + 1 => hp2[p[k]].prev = hp[p[k]].prev,
         j > 1 /\ j < Len(p) => hp2[p[j + 1]].prev = p[j - 1]
  PROVE  Chain(hp2, hd2, Del(p, j))
<1> DEFINE n == Len(p)
           q == Del(p, j)
<1>1. /\ n \in Nat /\ \A k \in 1..n : p[k] \in 1..Len(hp)
      /\ hd = IF n = 0 THEN NULL ELSE p[1]
      /\ \A k \in 1..n : hp[p[k]].next = IF k < n THEN p[k + 1] ELSE NULL
      /\ \A k \in 2..n : hp[p[k]].prev = p[k - 1]
      /\ \A i, k \in 1..n : p[i] = p[k] => i = k
      /\ j \in 1..n /\ j \in Int
      /\ hd2 = IF j > 1 THEN hd ELSE IF n = 1 THEN NULL ELSE p[2]
      /\ \A k \in 1..n : k # j =>
           hp2[p[k]].next = IF k # j - 1 THEN hp[p[k]].next ELSE IF j < n THEN p[j + 1] ELSE NULL
      /\ \A k \in 2..n : k # j /\ k # j + 1 => hp2[p[k]].prev = hp[p[k]].prev
      /\ j > 1 /\ j < n => hp2[p[j + 1]].prev = p[j - 1]
  BY ChainFits DEF Chain
<1>2. q \in Seq(1..Len(hp2)) /\ Len(q) = n - 1
  BY DelIs DEF Chain
<1>3. \A k \in 1..(n - 1) : q[k] = IF k < j THEN p[k] ELSE p[k + 1]
  BY DEF Del
<1> HIDE DEF n, q
<1>0. n \in Nat /\ j \in Int /\ j \in 1..n
  BY <1>1
<1>4. hd2 = IF Len(q) = 0 THEN NULL ELSE q[1]
  BY <1>1, <1>2, <1>3
<1>5. ASSUME NEW k \in 1..(n - 1)
      PROVE  hp2[q[k]].next = IF k < n - 1 THEN q[k + 1] ELSE NULL
  <2>1. CASE k < j - 1
    <3>1. k \in 1..n /\ k # j /\ k < n - 1 /\ q[k] = p[k] /\ q[k + 1] = p[k + 1]
      BY <1>1, <1>3, <2>1
    <3>0. k # j - 1
      BY <1>0, <2>1
    <3>2. hp2[p[k]].next = hp[p[k]].next
      BY <1>1, <3>1, <3>0
    <3> QED BY SMTT(30), <1>1, <3>1, <3>2
  <2>2. CASE k = j - 1
    <3>1. /\ k \in 1..n /\ k # j /\ q[k] = p[k] /\ (k < n - 1 <=> j < n)
          /\ k < n - 1 => q[k + 1] = p[j + 1]
      BY <1>1, <1>3, <2>2
    <3> QED BY <1>1, <2>2, <3>1
  <2>3. CASE k >= j
    <3>1. /\ k + 1 \in 1..n /\ k + 1 # j /\ k + 1 # j - 1 /\ q[k] = p[k + 1]
          /\ k < n - 1 => q[k + 1] = p[k + 1 + 1]
      <4>1. /\ k + 1 \in 1..n /\ k + 1 # j /\ k + 1 # j - 1 /\ ~ (k < j)
            /\ k < n - 1 => k + 1 \in 1..(n - 1) /\ ~ (k + 1 < j)
        BY <1>0, <2>3
      <4> QED BY <1>3, <4>1
    <3>2. hp2[p[k + 1]].next = hp[p[k + 1]].next
      BY <1>1, <3>1
    <3>3. hp[p[k + 1]].next = IF k + 1 < n THEN p[k + 1 + 1] ELSE NULL
      BY <1>1, <3>1
    <3> QED BY <1>1, <3>1, <3>2, <3>3
  <2> QED BY <1>1, <2>1, <2>2, <2>3
<1>6. ASSUME NEW k \in 2..(n - 1)
      PROVE  hp2[q[k]].prev = q[k - 1]
  <2>1. CASE k < j
    <3>1. k \in 2..n /\ q[k] = p[k] /\ q[k - 1] = p[k - 1] /\ k # j /\ k # j + 1
      BY <1>1, <1>3, <2>1
    <3> QED BY <1>1, <3>1
  <2>2. CASE k = j
    <3>1. q[k] = p[j + 1] /\ q[k - 1] = p[j - 1] /\ j > 1 /\ j < n
      BY <1>1, <1>3, <2>2
    <3> QED BY <1>1, <3>1
  <2>3. CASE k > j
    <3>1. k + 1 \in 2..n /\ q[k] = p[k + 1] /\ q[k - 1] = p[k] /\ k + 1 # j /\ k + 1 # j + 1
      <4>1. /\ k + 1 \in 2..n /\ k + 1 # j /\ k + 1 # j + 1 /\ ~ (k < j) /\ k \in 1..(n - 1)
            /\ k - 1 \in 1..(n - 1) /\ ~ (k - 1 < j) /\ k - 1 + 1 = k
        BY <1>0, <2>3
      <4> QED BY <1>3, <4>1
    <3>2. hp2[p[k + 1]].prev = hp[p[k + 1]].prev
      BY <1>1, <3>1
    <3>3. hp[p[k + 1]].prev = p[k]
      BY <1>1, <3>1
    <3> QED BY <1>1, <3>1, <3>2, <3>3
  <2> QED BY <1>1, <2>1, <2>2, <2>3
<1>7. \A i, k \in 1..(n - 1) : q[i] = q[k] => i = k
  <2> SUFFICES ASSUME NEW i \in 1..(n - 1), NEW k \in 1..(n - 1), q[i] = q[k] PROVE i = k
    OBVIOUS
  <2> DEFINE at(m) == IF m < j THEN m ELSE m + 1
  <2>1. ASSUME NEW m \in 1..(n - 1) PROVE at(m) \in 1..n /\ q[m] = p[at(m)]
    <3>1. at(m) \in 1..n
      BY <1>0
    <3>2. q[m] = IF m < j THEN p[m] ELSE p[m + 1]
      BY <1>3
    <3> QED BY <3>1, <3>2
  <2> HIDE DEF at
  <2>2. at(i) \in 1..n /\ q[i] = p[at(i)] /\ at(k) \in 1..n /\ q[k] = p[at(k)]
    BY <2>1
  <2>3. at(i) = at(k)
    BY <1>1, <2>2
  <2> QED BY <1>0, <2>3 DEF at
<1> QED BY <1>2, <1>4, <1>5, <1>6, <1>7 DEF Chain, q

(* The loops of Dplist.tla go along the nodes of its list. *)
Nodes(p)           == {p[k] : k \in 1..Len(p)}
ElementsOf(hp, p)  == [k \in 1..Len(p) |-> hp[p[k]].element]
ItemsOf(hp, hd)    == [k \in 1..SizeOf(hp, hd) |-> hp[NodeOf(hp, hd)[k - 1]].element]
ChainedOf(hp, hd)  == {NodeOf(hp, hd)[k] : k \in 0..Len(hp)} \ {NULL}

LEMMA ItemsIs ==
  ASSUME NEW hp, NEW hd, NEW p, Len(hp) \in Nat, Chain(hp, hd, p)
  PROVE  /\ ItemsOf(hp, hd) = ElementsOf(hp, p)
         /\ ChainedOf(hp, hd) = Nodes(p) /\ Nodes(p) \subseteq 1..Len(hp)
         /\ hd = NULL <=> Len(p) = 0
<1>1. /\ Len(p) \in Nat /\ Len(p) <= Len(hp)
      /\ \A k \in 1..Len(p) : p[k] \in 1..Len(hp) /\ p[k] # NULL
  BY ChainFits
<1>2. \A k \in Nat : NodeOf(hp, hd)[k] = IF k < Len(p) THEN p[k + 1] ELSE NULL
  BY NodeIs
<1>3. SizeOf(hp, hd) = Len(p)
  BY SizeIs
<1>4. ItemsOf(hp, hd) = ElementsOf(hp, p)
  <2>1. ASSUME NEW k \in 1..Len(p) PROVE NodeOf(hp, hd)[k - 1] = p[k]
    <3>1. k - 1 \in Nat /\ k - 1 < Len(p) /\ k - 1 + 1 = k
      BY <1>1
    <3> QED BY <1>2, <3>1
  <2> QED BY <1>3, <2>1 DEF ItemsOf, ElementsOf
<1>5. ChainedOf(hp, hd) = Nodes(p)
  <2>1. ASSUME NEW a \in Nodes(p) PROVE a \in ChainedOf(hp, hd)
    <3>1. PICK k \in 1..Len(p) : a = p[k]
      BY DEF Nodes
    <3>2. k - 1 \in 0..Len(hp) /\ k - 1 \in Nat /\ k - 1 < Len(p) /\ k - 1 + 1 = k
      BY <1>1
    <3>3. NodeOf(hp, hd)[k - 1] = a /\ a # NULL
      BY <1>1, <1>2, <3>1, <3>2
    <3> QED BY <3>2, <3>3 DEF ChainedOf
  <2>2. ASSUME NEW a \in ChainedOf(hp, hd) PROVE a \in Nodes(p)
    <3>1. PICK k \in 0..Len(hp) : a = NodeOf(hp, hd)[k] /\ a # NULL
      BY DEF ChainedOf
    <3>2. k < Len(p) /\ a = p[k + 1]
      BY <1>2, <3>1
    <3>3. k + 1 \in 1..Len(p)
      BY <1>1, <3>2
    <3> QED BY <3>2, <3>3 DEF Nodes
  <2> QED BY <2>1, <2>2
<1>6. Nodes(p) \subseteq 1..Len(hp)
  BY <1>1 DEF Nodes
<1>7. hd = NULL <=> Len(p) = 0
  BY <1>1 DEF Chain
<1> QED BY <1>4, <1>5, <1>6, <1>7

LEMMA Loops ==
  /\ Size = SizeOf(heap, head) /\ Items = ItemsOf(heap, head) /\ Chained = ChainedOf(heap, head)
  /\ \A i : ReferenceAt(i) = RefOf(heap, head, i)
<1>1. Node = NodeOf(heap, head)
  BY DEF Node, NodeOf
<1>2. Size = SizeOf(heap, head)
  BY <1>1 DEF Size, SizeOf
<1>3. ASSUME NEW i PROVE ReferenceAt(i) = RefOf(heap, head, i)
  BY DEF ReferenceAt, RefOf, WalkOf
<1> QED BY <1>1, <1>2, <1>3 DEF Items, ItemsOf, Chained, ChainedOf

LEMMA ExLoops ==
  /\ Ex!Size = SizeOf(xheap, xhead) /\ Ex!Items = ItemsOf(xheap, xhead)
  /\ Ex!Node = NodeOf(xheap, xhead)
  /\ \A i : Ex!ReferenceAt(i) = RefOf(xheap, xhead, i)
<1> USE DEF Ex!NULL, NULL
<1>1. Ex!Node = NodeOf(xheap, xhead)
  BY DEF Ex!Node, NodeOf
<1>2. Ex!Size = SizeOf(xheap, xhead)
  BY <1>1 DEF Ex!Size, SizeOf
<1>3. ASSUME NEW i PROVE Ex!ReferenceAt(i) = RefOf(xheap, xhead, i)
  BY DEF Ex!ReferenceAt, RefOf, WalkOf
<1> QED BY <1>1, <1>2, <1>3 DEF Ex!Items, ItemsOf

-----------------------------------------------------------------------------
(* Writing to nodes. *)

LEMMA CellFields ==
  /\ \A c \in Cell : c.prev \in 0..MaxNodes /\ c.next \in 0..MaxNodes /\ c.element \in Elements
  /\ \A c \in Cell, x \in 0..MaxNodes :
       /\ [c EXCEPT !.next = x] \in Cell
       /\ [c EXCEPT !.next = x].next = x /\ [c EXCEPT !.next = x].prev = c.prev
       /\ [c EXCEPT !.next = x].element = c.element
  /\ \A c \in Cell, x \in 0..MaxNodes :
       /\ [c EXCEPT !.prev = x] \in Cell
       /\ [c EXCEPT !.prev = x].prev = x /\ [c EXCEPT !.prev = x].next = c.next
       /\ [c EXCEPT !.prev = x].element = c.element
  /\ \A x, y \in 0..MaxNodes, e \in Elements :
       /\ NewCell(x, y, e) \in Cell /\ NewCell(x, y, e).prev = x
       /\ NewCell(x, y, e).next = y /\ NewCell(x, y, e).element = e
<1>1. \A c \in Cell : c.prev \in 0..MaxNodes /\ c.next \in 0..MaxNodes /\ c.element \in Elements
  BY DEF Cell
<1>2. ASSUME NEW c \in Cell, NEW x \in 0..MaxNodes
      PROVE  /\ [c EXCEPT !.next = x] \in Cell
             /\ [c EXCEPT !.next = x].next = x /\ [c EXCEPT !.next = x].prev = c.prev
             /\ [c EXCEPT !.next = x].element = c.element
  BY DEF Cell
<1>3. ASSUME NEW c \in Cell, NEW x \in 0..MaxNodes
      PROVE  /\ [c EXCEPT !.prev = x] \in Cell
             /\ [c EXCEPT !.prev = x].prev = x /\ [c EXCEPT !.prev = x].next = c.next
             /\ [c EXCEPT !.prev = x].element = c.element
  BY DEF Cell
<1>4. ASSUME NEW x \in 0..MaxNodes, NEW y \in 0..MaxNodes, NEW e \in Elements
      PROVE  /\ NewCell(x, y, e) \in Cell /\ NewCell(x, y, e).prev = x
             /\ NewCell(x, y, e).next = y /\ NewCell(x, y, e).element = e
  BY DEF Cell, NewCell
<1> QED BY <1>1, <1>2, <1>3, <1>4

LEMMA SetNext ==
  ASSUME NEW hp \in Seq(Cell), NEW b \in 1..Len(hp), NEW x \in 0..MaxNodes
  PROVE  /\ [hp EXCEPT ![b].next = x] \in Seq(Cell) /\ Len([hp EXCEPT ![b].next = x]) = Len(hp)
         /\ \A a \in 1..Len(hp) :
              /\ [hp EXCEPT ![b].next = x][a].next = IF a = b THEN x ELSE hp[a].next
              /\ [hp EXCEPT ![b].next = x][a].prev = hp[a].prev
              /\ [hp EXCEPT ![b].next = x][a].element = hp[a].element
<1> DEFINE c == [hp[b] EXCEPT !.next = x]
<1>1. hp[b] \in Cell
  OBVIOUS
<1>2. c \in Cell /\ c.next = x /\ c.prev = hp[b].prev /\ c.element = hp[b].element
  BY <1>1, CellFields
<1>3. [hp EXCEPT ![b].next = x] = [hp EXCEPT ![b] = c]
  OBVIOUS
<1> HIDE DEF c
<1>4. /\ [hp EXCEPT ![b] = c] \in Seq(Cell) /\ Len([hp EXCEPT ![b] = c]) = Len(hp)
      /\ \A a \in 1..Len(hp) : [hp EXCEPT ![b] = c][a] = IF a = b THEN c ELSE hp[a]
  BY <1>2, ExceptSeq
<1> QED BY <1>2, <1>3, <1>4

LEMMA SetPrev ==
  ASSUME NEW hp \in Seq(Cell), NEW b \in 1..Len(hp), NEW x \in 0..MaxNodes
  PROVE  /\ [hp EXCEPT ![b].prev = x] \in Seq(Cell) /\ Len([hp EXCEPT ![b].prev = x]) = Len(hp)
         /\ \A a \in 1..Len(hp) :
              /\ [hp EXCEPT ![b].prev = x][a].prev = IF a = b THEN x ELSE hp[a].prev
              /\ [hp EXCEPT ![b].prev = x][a].next = hp[a].next
              /\ [hp EXCEPT ![b].prev = x][a].element = hp[a].element
<1> DEFINE c == [hp[b] EXCEPT !.prev = x]
<1>1. hp[b] \in Cell
  OBVIOUS
<1>2. c \in Cell /\ c.prev = x /\ c.next = hp[b].next /\ c.element = hp[b].element
  BY <1>1, CellFields
<1>3. [hp EXCEPT ![b].prev = x] = [hp EXCEPT ![b] = c]
  OBVIOUS
<1> HIDE DEF c
<1>4. /\ [hp EXCEPT ![b] = c] \in Seq(Cell) /\ Len([hp EXCEPT ![b] = c]) = Len(hp)
      /\ \A a \in 1..Len(hp) : [hp EXCEPT ![b] = c][a] = IF a = b THEN c ELSE hp[a]
  BY <1>2, ExceptSeq
<1> QED BY <1>2, <1>3, <1>4

LEMMA AddCell ==
  ASSUME NEW hp \in Seq(Cell), NEW c \in Cell
  PROVE  /\ Append(hp, c) \in Seq(Cell) /\ Len(Append(hp, c)) = Len(hp) + 1
         /\ Append(hp, c)[Len(hp) + 1] = c
         /\ \A a \in 1..Len(hp) : Append(hp, c)[a] = hp[a]
OBVIOUS

-----------------------------------------------------------------------------
(* dpl_insert_at_index *)

(* The four cases, on any nodes; T is the set of nodes dereferenced. *)
Linked(hp, hd, hp2, hd2, e, i, T) ==
  LET new == Len(hp) + 1
      ref == RefOf(hp, hd, i)
      before == hp[ref].prev
  IN  \/ /\ hd = NULL /\ hd2 = new /\ T = {}
         /\ hp2 = Append(hp, NewCell(NULL, NULL, e))
      \/ /\ hd # NULL /\ i <= 0 /\ hd2 = new /\ T = {hd}
         /\ hp2 = Append([hp EXCEPT ![hd].prev = new], NewCell(NULL, hd, e))
      \/ /\ hd # NULL /\ 0 < i /\ i < SizeOf(hp, hd) /\ hd2 = hd /\ T = {ref, before}
         /\ hp2 = Append([hp EXCEPT ![before].next = new, ![ref].prev = new],
                         NewCell(before, ref, e))
      \/ /\ hd # NULL /\ 0 < i /\ i >= SizeOf(hp, hd) /\ hd2 = hd /\ T = {ref}
         /\ hp2 = Append([hp EXCEPT ![ref].next = new], NewCell(ref, NULL, e))

(* The place in the list, from 1, of the node inserted at index i. *)
InsPlace(p, i) == (IF i < 0 THEN 0 ELSE IF i > Len(p) THEN Len(p) ELSE i) + 1

(* What each of the cases writes: the new node, the link to it from the node
   before its place and the link to it from the node behind. *)
Written(hp, hd, p, hp2, hd2, e, j, T) ==
  LET new == Len(hp) + 1 IN
  /\ j \in 1..(Len(p) + 1)
  /\ hp2 \in Seq(Cell) /\ Len(hp2) = new
  /\ hd2 = IF j = 1 THEN new ELSE hd
  /\ T \subseteq Nodes(p)
  /\ hp2[new].next = IF j <= Len(p) THEN p[j] ELSE NULL
  /\ hp2[new].prev = IF j > 1 THEN p[j - 1] ELSE NULL
  /\ hp2[new].element = e
  /\ \A a \in 1..Len(hp) :
       /\ hp2[a].element = hp[a].element
       /\ hp2[a].next = IF j > 1 /\ a = p[j - 1] THEN new ELSE hp[a].next
       /\ hp2[a].prev = IF j <= Len(p) /\ a = p[j] THEN new ELSE hp[a].prev

LEMMA LinkedWrites ==
  ASSUME NEW hp \in Seq(Cell), NEW hd, NEW p, NEW hp2, NEW hd2, NEW T,
         NEW e \in Elements, NEW i \in Int, Chain(hp, hd, p), Len(hp) < MaxNodes,
         Linked(hp, hd, hp2, hd2, e, i, T)
  PROVE  Written(hp, hd, p, hp2, hd2, e, InsPlace(p, i), T)
<1> DEFINE n   == Len(p)
           new == Len(hp) + 1
           ref == RefOf(hp, hd, i)
           before == hp[ref].prev
           j   == InsPlace(p, i)
<1>1. /\ Len(hp) \in Nat /\ n \in Nat /\ new \in 0..MaxNodes /\ new \in Nat
      /\ NULL = 0 /\ NULL \in 0..MaxNodes
      /\ \A a \in 1..Len(hp) : a \in 0..MaxNodes /\ a # new
      /\ \A k \in 1..n : p[k] \in 1..Len(hp)
      /\ hd = IF n = 0 THEN NULL ELSE p[1]
      /\ \A k \in 1..n : hp[p[k]].next = IF k < n THEN p[k + 1] ELSE NULL
      /\ \A k \in 2..n : hp[p[k]].prev = p[k - 1]
      /\ hd = NULL <=> n = 0
      /\ SizeOf(hp, hd) = n
  <2>1. Len(hp) \in Nat /\ Len(hp) < MaxNodes
    OBVIOUS
  <2>2. /\ new \in 0..MaxNodes /\ new \in Nat /\ NULL = 0 /\ NULL \in 0..MaxNodes
        /\ \A a \in 1..Len(hp) : a \in 0..MaxNodes /\ a # new
    BY <2>1 DEF NULL
  <2> QED BY <2>1, <2>2, ChainFits, ItemsIs, SizeIs DEF Chain
<1>2. CASE hd = NULL
  <2>1. n = 0 /\ j = 1
    BY <1>1, <1>2 DEF InsPlace
  <2>2. hd2 = new /\ T = {} /\ hp2 = Append(hp, NewCell(NULL, NULL, e))
    BY <1>1, <1>2, <2>1 DEF Linked
  <2>3. NewCell(NULL, NULL, e) \in Cell /\ NewCell(NULL, NULL, e).prev = NULL
        /\ NewCell(NULL, NULL, e).next = NULL /\ NewCell(NULL, NULL, e).element = e
    BY <1>1, CellFields
  <2>4. /\ hp2 \in Seq(Cell) /\ Len(hp2) = new /\ hp2[new] = NewCell(NULL, NULL, e)
        /\ \A a \in 1..Len(hp) : hp2[a] = hp[a]
    BY <2>2, <2>3, AddCell
  <2> HIDE DEF n, j, ref, before
  <2> QED BY <1>1, <2>1, <2>2, <2>3, <2>4 DEF Written, n, j
<1>3. CASE hd # NULL /\ i <= 0
  <2> DEFINE h == [hp EXCEPT ![hd].prev = new]
             c == NewCell(NULL, hd, e)
  <2>1. n # 0 /\ j = 1 /\ hd = p[1] /\ hd \in 1..Len(hp)
    BY <1>1, <1>3 DEF InsPlace
  <2>2. hd2 = new /\ T = {hd} /\ hp2 = Append(h, c)
    BY SMTT(30), <1>1, <1>3, <2>1 DEF Linked
  <2>3. c \in Cell /\ c.prev = NULL /\ c.next = hd /\ c.element = e
    <3>1. hd \in 0..MaxNodes /\ NULL \in 0..MaxNodes
      BY <1>1, <2>1
    <3> QED BY <3>1, CellFields
  <2>4. /\ h \in Seq(Cell) /\ Len(h) = Len(hp)
        /\ \A a \in 1..Len(hp) : /\ h[a].prev = IF a = hd THEN new ELSE hp[a].prev
                                 /\ h[a].next = hp[a].next /\ h[a].element = hp[a].element
    BY <1>1, <2>1, SetPrev
  <2> HIDE DEF c, h
  <2>5. /\ hp2 \in Seq(Cell) /\ Len(hp2) = new /\ hp2[new] = c
        /\ \A a \in 1..Len(hp) : hp2[a] = h[a]
    BY <2>2, <2>3, <2>4, AddCell
  <2>6. T \subseteq Nodes(p)
    BY <1>1, <2>1, <2>2 DEF Nodes
  <2> HIDE DEF n, j, ref, before
  <2> QED BY <1>1, <2>1, <2>2, <2>3, <2>4, <2>5, <2>6 DEF Written, n, j
<1>4. CASE hd # NULL /\ 0 < i /\ i < n
  <2> DEFINE h1 == [hp EXCEPT ![before].next = new]
             h2 == [h1 EXCEPT ![ref].prev = new]
             c == NewCell(before, ref, e)
  <2>1. j = i + 1 /\ i \in 1..n /\ i + 1 \in 1..n /\ i + 1 \in 2..n /\ i + 1 - 1 = i
    BY <1>1, <1>4 DEF InsPlace
  <2>2. ref = p[j] /\ ref \in 1..Len(hp)
    BY <1>1, <1>4, <2>1, RefIs
  <2>3. before = p[j - 1] /\ before \in 1..Len(hp)
    BY <1>1, <2>1, <2>2
  <2>4. hd2 = hd /\ T = {ref, before}
        /\ hp2 = Append([hp EXCEPT ![before].next = new, ![ref].prev = new], c)
    <3>1. hd # NULL /\ ~ (i <= 0) /\ ~ (i >= SizeOf(hp, hd))
      <4> HIDE DEF n
      <4> QED BY <1>1, <1>4
    <3> QED BY ONLY <3>1, Linked(hp, hd, hp2, hd2, e, i, T) DEF Linked
  <2>5. c \in Cell /\ c.prev = before /\ c.next = ref /\ c.element = e
    BY <1>1, <2>2, <2>3, CellFields
  <2>6. hp2 = Append(h2, c)
    BY <2>4
  <2> HIDE DEF ref, before
  <2>7. /\ h1 \in Seq(Cell) /\ Len(h1) = Len(hp)
        /\ \A a \in 1..Len(hp) : /\ h1[a].next = IF a = before THEN new ELSE hp[a].next
                                 /\ h1[a].prev = hp[a].prev /\ h1[a].element = hp[a].element
    BY <1>1, <2>3, SetNext
  <2> HIDE DEF c, h1
  <2>8. /\ h2 \in Seq(Cell) /\ Len(h2) = Len(hp)
        /\ \A a \in 1..Len(hp) : /\ h2[a].prev = IF a = ref THEN new ELSE h1[a].prev
                                 /\ h2[a].next = h1[a].next /\ h2[a].element = h1[a].element
    <3>1. ref \in 1..Len(h1)
      BY <2>2, <2>7
    <3> QED BY <1>1, <2>7, <3>1, SetPrev
  <2> HIDE DEF h2
  <2>9. /\ hp2 \in Seq(Cell) /\ Len(hp2) = new /\ hp2[new] = c
        /\ \A a \in 1..Len(hp) : hp2[a] = h2[a]
    BY <2>5, <2>6, <2>8, AddCell
  <2>10. T \subseteq Nodes(p)
    BY <2>1, <2>2, <2>3, <2>4 DEF Nodes
  <2>11. j \in 1..(n + 1) /\ j # 1 /\ j > 1 /\ j <= n
    BY <1>1, <2>1
  <2>12. /\ hp2[new].next = p[j] /\ hp2[new].prev = p[j - 1] /\ hp2[new].element = e
    BY <2>2, <2>3, <2>5, <2>9
  <2>13. \A a \in 1..Len(hp) : /\ hp2[a].element = hp[a].element
                               /\ hp2[a].next = IF a = p[j - 1] THEN new ELSE hp[a].next
                               /\ hp2[a].prev = IF a = p[j] THEN new ELSE hp[a].prev
    BY <2>2, <2>3, <2>7, <2>8, <2>9
  <2> HIDE DEF j
  <2> QED BY <2>4, <2>9, <2>10, <2>11, <2>12, <2>13 DEF Written, j
<1>5. CASE hd # NULL /\ 0 < i /\ ~ (i < n)
  <2> DEFINE h == [hp EXCEPT ![ref].next = new]
             c == NewCell(ref, NULL, e)
  <2>1. j = n + 1 /\ n \in 1..n /\ n + 1 - 1 = n
    BY <1>1, <1>5 DEF InsPlace
  <2>2. ref = p[n] /\ ref \in 1..Len(hp)
    BY <1>1, <1>5, <2>1, RefIs
  <2>3. hd2 = hd /\ T = {ref} /\ hp2 = Append(h, c)
    <3>1. hd # NULL /\ ~ (i <= 0) /\ ~ (i < SizeOf(hp, hd))
      <4> HIDE DEF n
      <4> QED BY <1>1, <1>5
    <3> QED BY ONLY <3>1, Linked(hp, hd, hp2, hd2, e, i, T) DEF Linked
  <2> HIDE DEF ref, before
  <2>4. c \in Cell /\ c.prev = ref /\ c.next = NULL /\ c.element = e
    <3>1. ref \in 0..MaxNodes /\ NULL \in 0..MaxNodes
      BY <1>1, <2>2
    <3> QED BY <3>1, CellFields
  <2>5. /\ h \in Seq(Cell) /\ Len(h) = Len(hp)
        /\ \A a \in 1..Len(hp) : /\ h[a].next = IF a = ref THEN new ELSE hp[a].next
                                 /\ h[a].prev = hp[a].prev /\ h[a].element = hp[a].element
    BY <1>1, <2>2, SetNext
  <2> HIDE DEF c, h
  <2>6. /\ hp2 \in Seq(Cell) /\ Len(hp2) = new /\ hp2[new] = c
        /\ \A a \in 1..Len(hp) : hp2[a] = h[a]
    BY <2>3, <2>4, <2>5, AddCell
  <2>7. T \subseteq Nodes(p)
    BY <2>1, <2>2, <2>3 DEF Nodes
  <2>8. j \in 1..(n + 1) /\ j # 1 /\ j > 1 /\ ~ (j <= n) /\ p[j - 1] = ref
    BY <1>1, <2>1, <2>2
  <2> HIDE DEF j
  <2> QED BY <2>3, <2>4, <2>5, <2>6, <2>7, <2>8 DEF Written, j
<1> QED BY <1>1, <1>2, <1>3, <1>4, <1>5

LEMMA InsNodes ==
  ASSUME NEW hp, NEW hd, NEW p, NEW j \in 1..(Len(p) + 1), NEW new,
         Len(hp) \in Nat, Chain(hp, hd, p)
  PROVE  \A a : a \in Nodes(Ins(p, j, new)) <=> a \in Nodes(p) \/ a = new
<1> DEFINE n == Len(p)
           q == Ins(p, j, new)
<1>1. n \in Nat /\ j \in 1..(n + 1)
  BY ChainFits
<1>2. q = [k \in 1..(n + 1) |-> IF k < j THEN p[k] ELSE IF k = j THEN new ELSE p[k - 1]]
  BY DEF Ins
<1>3. Len(q) = n + 1 /\ \A k \in 1..(n + 1) : q[k] = IF k < j THEN p[k] ELSE IF k = j THEN new ELSE p[k - 1]
  <2>1. n + 1 \in Nat
    BY <1>1
  <2> QED BY <1>2, <2>1
<1> HIDE DEF n, q
<1>4. ASSUME NEW k \in 1..(n + 1) PROVE q[k] \in Nodes(p) \cup {new}
  <2>1. k < j => k \in 1..n
    BY <1>1
  <2>2. ~ (k < j) /\ k # j => k - 1 \in 1..n
    BY <1>1
  <2> QED BY <1>3, <2>1, <2>2 DEF Nodes, n
<1>5. ASSUME NEW k \in 1..n PROVE p[k] \in Nodes(q)
  <2>1. k \in 1..(n + 1) /\ k + 1 \in 1..(n + 1) /\ k + 1 - 1 = k
    BY <1>1
  <2>2. k < j => q[k] = p[k]
    BY <1>3, <2>1
  <2>3. ~ (k < j) => q[k + 1] = p[k]
    <3>1. ~ (k < j) => ~ (k + 1 < j) /\ k + 1 # j
      BY <1>1
    <3> QED BY <1>3, <2>1, <3>1
  <2> QED BY <1>3, <2>1, <2>2, <2>3 DEF Nodes
<1>6. new \in Nodes(q)
  BY <1>1, <1>3 DEF Nodes
<1> QED BY <1>3, <1>4, <1>5, <1>6 DEF Nodes, n, q

(* The element put in at its place. *)
LEMMA InsElements ==
  ASSUME NEW hp \in Seq(Cell), NEW hd, NEW p, NEW hp2, NEW hd2, NEW T,
         NEW e \in Elements, NEW j, NEW new, new = Len(hp) + 1, Chain(hp, hd, p),
         Written(hp, hd, p, hp2, hd2, e, j, T)
  PROVE  /\ Chain(hp2, hd2, Ins(p, j, new))
         /\ ElementsOf(hp2, Ins(p, j, new)) = Ins(ElementsOf(hp, p), j, e)
         /\ (hd # NULL => hp[hd].prev = NULL) => hp2[hd2].prev = NULL
         /\ hd2 # NULL
<1> DEFINE n == Len(p)
           q == Ins(p, j, new)
<1>1. /\ Len(hp) \in Nat /\ n \in Nat /\ \A k \in 1..n : p[k] \in 1..Len(hp) /\ p[k] # new
      /\ \A i, k \in 1..n : p[i] = p[k] => i = k
      /\ hd = IF n = 0 THEN NULL ELSE p[1]
      /\ hd = NULL <=> n = 0
  <2>1. Len(hp) \in Nat
    BY LenProperties
  <2>2. n \in Nat /\ \A k \in 1..n : p[k] \in 1..Len(hp)
    BY <2>1, ChainFits
  <2>3. \A k \in 1..n : p[k] # new
    BY <2>1, <2>2
  <2>4. hd = NULL <=> n = 0
    BY <2>1, ItemsIs
  <2>5. hd = IF n = 0 THEN NULL ELSE p[1]
    BY DEF Chain
  <2>6. \A i, k \in 1..n : p[i] = p[k] => i = k
    BY DEF Chain
  <2> QED BY <2>1, <2>2, <2>3, <2>4, <2>5, <2>6
<1>2. /\ j \in 1..(n + 1) /\ j \in Int
      /\ Len(hp2) = new /\ hd2 = IF j = 1 THEN new ELSE hd
      /\ hp2[new].next = IF j <= n THEN p[j] ELSE NULL
      /\ hp2[new].prev = IF j > 1 THEN p[j - 1] ELSE NULL
      /\ hp2[new].element = e
      /\ \A a \in 1..Len(hp) :
           /\ hp2[a].element = hp[a].element
           /\ hp2[a].next = IF j > 1 /\ a = p[j - 1] THEN new ELSE hp[a].next
           /\ hp2[a].prev = IF j <= n /\ a = p[j] THEN new ELSE hp[a].prev
  BY <1>1 DEF Written
<1>3. ASSUME NEW k \in 1..n
      PROVE  /\ hp2[p[k]].next = IF k = j - 1 THEN new ELSE hp[p[k]].next
             /\ hp2[p[k]].prev = IF k = j THEN new ELSE hp[p[k]].prev
             /\ hp2[p[k]].element = hp[p[k]].element
  <2>1. j > 1 => (j - 1 \in 1..n /\ (p[k] = p[j - 1] <=> k = j - 1))
    BY <1>1, <1>2
  <2>2. k = j - 1 => j > 1
    BY <1>1, <1>2
  <2>3. j <= n => (j \in 1..n /\ (p[k] = p[j] <=> k = j))
    BY <1>1, <1>2
  <2>4. k = j => j <= n
    BY <1>1, <1>2
  <2>5. p[k] \in 1..Len(hp)
    BY <1>1
  <2> QED BY <1>2, <2>1, <2>2, <2>3, <2>4, <2>5
<1>4. Chain(hp2, hd2, q)
  <2>1. /\ Len(hp) \in Nat /\ j \in 1..(Len(p) + 1)
        /\ new = Len(hp) + 1 /\ Len(hp2) = Len(hp) + 1
        /\ hd2 = IF j = 1 THEN new ELSE hd
        /\ \A k \in 1..Len(p) : hp2[p[k]].next = IF k = j - 1 THEN new ELSE hp[p[k]].next
        /\ \A k \in 1..Len(p) : k = j => hp2[p[k]].prev = new
        /\ hp2[new].next = IF j <= Len(p) THEN p[j] ELSE NULL
        /\ j > 1 => hp2[new].prev = p[j - 1]
    BY <1>1, <1>2, <1>3
  <2>2. \A k \in 2..Len(p) : k # j => hp2[p[k]].prev = hp[p[k]].prev
    <3>1. \A k \in 2..n : k \in 1..n
      BY <1>1
    <3> QED BY <1>3, <3>1
  <2> HIDE DEF q
  <2> QED BY <2>1, <2>2, InsertChain DEF q
<1>5. Len(q) = n + 1 /\ \A k \in 1..(n + 1) : q[k] = IF k < j THEN p[k] ELSE IF k = j THEN new ELSE p[k - 1]
  <2>1. q = [k \in 1..(n + 1) |-> IF k < j THEN p[k] ELSE IF k = j THEN new ELSE p[k - 1]]
    BY DEF Ins
  <2>2. n + 1 \in Nat
    BY <1>1
  <2>3. q \in Seq(Nat) /\ Len(q) = n + 1
    <3>1. \A k \in 1..(n + 1) : (IF k < j THEN p[k] ELSE IF k = j THEN new ELSE p[k - 1]) \in Nat
      BY <1>1, <1>2
    <3> QED BY <2>1, <2>2, <3>1
  <2> QED BY <2>1, <2>3
<1>6. ElementsOf(hp2, q) = Ins(ElementsOf(hp, p), j, e)
  <2> DEFINE es == ElementsOf(hp, p)
  <2>1. Len(es) = n /\ \A k \in 1..n : es[k] = hp[p[k]].element
    BY <1>1 DEF ElementsOf
  <2>2. Ins(es, j, e) = [k \in 1..(n + 1) |-> IF k < j THEN es[k] ELSE IF k = j THEN e ELSE es[k - 1]]
    BY <2>1 DEF Ins
  <2> HIDE DEF es, q
  <2>3. ElementsOf(hp2, q) = [k \in 1..(n + 1) |-> hp2[q[k]].element]
    BY <1>5 DEF ElementsOf
  <2>4. ASSUME NEW k \in 1..(n + 1)
        PROVE  hp2[q[k]].element = IF k < j THEN es[k] ELSE IF k = j THEN e ELSE es[k - 1]
    <3>1. k < j => k \in 1..n
      BY <1>1, <1>2
    <3>2. ~ (k < j) /\ k # j => k - 1 \in 1..n
      BY <1>1, <1>2
    <3> QED BY <1>2, <1>3, <1>5, <2>1, <3>1, <3>2
  <2> QED BY <2>2, <2>3, <2>4 DEF es, q
<1>7. (hd # NULL => hp[hd].prev = NULL) => hp2[hd2].prev = NULL
  <2>1. CASE j = 1
    BY <1>2, <2>1
  <2>2. CASE j # 1
    <3>1. j > 1 /\ 1 \in 1..n /\ hd2 = p[1] /\ hd = p[1] /\ hd # NULL
      BY <1>1, <1>2, <2>2
    <3> QED BY <1>3, <2>2, <3>1
  <2> QED BY <2>1, <2>2
<1>8. hd2 # NULL
  <2>1. new # NULL
    BY <1>1 DEF NULL
  <2> QED BY <1>1, <1>2, <2>1
<1> QED BY <1>4, <1>6, <1>7, <1>8

-----------------------------------------------------------------------------
(* dpl_remove_at_index *)

(* The neighbours of ref are linked to each other. *)
Unlinked(hp, hp2, ref) ==
  hp2 = [k \in 1..Len(hp) |->
          [hp[k] EXCEPT !.next = IF k = hp[ref].prev THEN hp[ref].next ELSE @,
                        !.prev = IF k = hp[ref].next THEN hp[ref].prev ELSE @]]

(* The place in the list, from 1, of the node removed at index i. *)
RemPlace(p, i) == (IF i < 0 THEN 0 ELSE IF i > Len(p) - 1 THEN Len(p) - 1 ELSE i) + 1

LEMMA RemPlaceIs ==
  ASSUME NEW hp, NEW hd, NEW p, Len(hp) \in Nat, Chain(hp, hd, p), NEW i \in Int, Len(p) # 0
  PROVE  RemPlace(p, i) \in 1..Len(p) /\ RefOf(hp, hd, i) = p[RemPlace(p, i)]
<1>1. Len(p) \in Nat
  BY ChainFits
<1>2. RemPlace(p, i) = IF i <= 0 THEN 1 ELSE IF i < Len(p) THEN i + 1 ELSE Len(p)
  BY <1>1 DEF RemPlace
<1>3. RemPlace(p, i) \in 1..Len(p)
  BY <1>1, <1>2
<1> QED BY <1>2, <1>3, RefIs

(* What is left of the nodes and the elements. *)
LEMMA DelNodes ==
  ASSUME NEW hp, NEW hd, NEW p, NEW j \in 1..Len(p), Len(hp) \in Nat, Chain(hp, hd, p)
  PROVE  \A a : a \in Nodes(Del(p, j)) <=> a \in Nodes(p) /\ a # p[j]
<1> DEFINE n  == Len(p)
           q  == Del(p, j)
<1>1. n \in Nat /\ j \in 1..n /\ \A i, k \in 1..n : p[i] = p[k] => i = k
  BY ChainFits DEF Chain
<1>2. q = [k \in 1..(n - 1) |-> IF k < j THEN p[k] ELSE p[k + 1]]
  BY DEF Del
<1>3. Len(q) = n - 1
  BY DelIs DEF Chain
<1> HIDE DEF n, q
<1>4. ASSUME NEW a \in Nodes(q) PROVE a \in Nodes(p) \ {p[j]}
  <2>1. PICK k \in 1..(n - 1) : a = q[k]
    BY <1>3 DEF Nodes
  <2> DEFINE m == IF k < j THEN k ELSE k + 1
  <2>2. m \in 1..n /\ m # j
    BY <1>1
  <2>3. a = p[m]
    BY <1>2, <2>1
  <2> HIDE DEF m
  <2> QED BY <1>1, <2>2, <2>3 DEF Nodes, n
<1>5. ASSUME NEW a \in Nodes(p) \ {p[j]} PROVE a \in Nodes(q)
  <2>1. PICK k \in 1..n : a = p[k]
    BY DEF Nodes, n
  <2> DEFINE m == IF k < j THEN k ELSE k - 1
  <2>2. k # j
    BY <2>1
  <2>3. m \in 1..(n - 1) /\ (k < j => m = k) /\ (~ (k < j) => ~ (m < j) /\ m + 1 = k)
    BY <1>1, <2>2
  <2> HIDE DEF m
  <2>4. q[m] = a
    BY <1>2, <2>1, <2>3
  <2> QED BY <1>3, <2>3, <2>4 DEF Nodes
<1> QED BY <1>4, <1>5 DEF q

LEMMA DelElements ==
  ASSUME NEW hp, NEW hd, NEW p, NEW hp2, NEW j \in 1..Len(p),
         Len(hp) \in Nat, Chain(hp, hd, p),
         \A k \in 1..Len(p) : hp2[p[k]].element = hp[p[k]].element
  PROVE  ElementsOf(hp2, Del(p, j)) = Del(ElementsOf(hp, p), j)
<1> DEFINE n  == Len(p)
           q  == Del(p, j)
           es == ElementsOf(hp, p)
<1>1. /\ n \in Nat /\ \A i, k \in 1..n : p[i] = p[k] => i = k
      /\ \A k \in 1..n : hp2[p[k]].element = hp[p[k]].element
      /\ j \in 1..n
  BY ChainFits DEF Chain
<1>2. q = [k \in 1..(n - 1) |-> IF k < j THEN p[k] ELSE p[k + 1]]
  BY DEF Del
<1>3. Len(q) = n - 1
  BY DelIs DEF Chain
<1>4. Len(es) = n /\ \A k \in 1..n : es[k] = hp[p[k]].element
  BY <1>1 DEF ElementsOf
<1>5. Del(es, j) = [k \in 1..(n - 1) |-> IF k < j THEN es[k] ELSE es[k + 1]]
  BY <1>4 DEF Del
<1> HIDE DEF n, q, es
<1>6. ElementsOf(hp2, q) = [k \in 1..(n - 1) |-> hp2[q[k]].element]
  BY <1>3 DEF ElementsOf
<1>7. ASSUME NEW k \in 1..(n - 1)
      PROVE  hp2[q[k]].element = IF k < j THEN es[k] ELSE es[k + 1]
  <2>1. k \in 1..n /\ k + 1 \in 1..n
    BY <1>1
  <2>2. q[k] = IF k < j THEN p[k] ELSE p[k + 1]
    BY <1>2
  <2> QED BY <1>1, <1>4, <2>1, <2>2
<1>8. ElementsOf(hp2, q) = Del(es, j)
  BY <1>5, <1>6, <1>7
<1> QED BY <1>8 DEF q, es

LEMMA UnlinkedChain ==
  ASSUME NEW hp \in Seq(Cell), NEW hd, NEW p, NEW hp2, NEW hd2, NEW j \in 1..Len(p),
         Chain(hp, hd, p), Unlinked(hp, hp2, p[j]),
         j = 1 => hp[p[j]].prev = NULL,
         hd2 = IF hp[p[j]].prev = NULL THEN hp[p[j]].next ELSE hd
  PROVE  /\ hp2 \in Seq(Cell) /\ Len(hp2) = Len(hp)
         /\ Chain(hp2, hd2, Del(p, j))
         /\ p[j] \in Nodes(p)
         /\ hp[p[j]].prev \in Nodes(p) \cup {NULL} /\ hp[p[j]].next \in Nodes(p) \cup {NULL}
         /\ ElementsOf(hp2, Del(p, j)) = Del(ElementsOf(hp, p), j)
         /\ (hd # NULL => hp[hd].prev = NULL) => (hd2 # NULL => hp2[hd2].prev = NULL)
<1> DEFINE n == Len(p)
           before == hp[p[j]].prev
           after  == hp[p[j]].next
<1>1. /\ Len(hp) \in Nat /\ n \in Nat /\ \A k \in 1..n : p[k] \in 1..Len(hp) /\ p[k] # NULL
      /\ \A i, k \in 1..n : p[i] = p[k] => i = k
      /\ hd = IF n = 0 THEN NULL ELSE p[1]
      /\ \A k \in 1..n : hp[p[k]].next = IF k < n THEN p[k + 1] ELSE NULL
      /\ \A k \in 2..n : hp[p[k]].prev = p[k - 1]
      /\ j \in 1..n /\ j \in Int /\ p[j] \in 1..Len(hp)
  <2>1. Len(hp) \in Nat /\ n \in Nat /\ \A k \in 1..n : p[k] \in 1..Len(hp) /\ p[k] # NULL
    BY ChainFits
  <2>2. j \in 1..n /\ j \in Int /\ p[j] \in 1..Len(hp)
    BY <2>1
  <2> QED BY <2>1, <2>2 DEF Chain
<1>2. /\ before = IF j > 1 THEN p[j - 1] ELSE NULL
      /\ after = IF j < n THEN p[j + 1] ELSE NULL
      /\ j > 1 => j - 1 \in 1..n
      /\ j < n => j + 1 \in 1..n
  <2>1. j > 1 => j \in 2..n /\ j - 1 \in 1..n
    BY <1>1
  <2>2. j < n => j + 1 \in 1..n
    BY <1>1
  <2>3. ~ (j > 1) => j = 1
    BY <1>1
  <2> QED BY <1>1, <2>1, <2>2, <2>3
<1>3. /\ \A a \in 1..Len(hp) : hp[a] \in Cell
      /\ before \in 0..MaxNodes /\ after \in 0..MaxNodes
  <2>1. \A a \in 1..Len(hp) : hp[a] \in Cell
    OBVIOUS
  <2> QED BY <1>1, <2>1, CellFields
<1>4. hp2 = [k \in 1..Len(hp) |->
               [hp[k] EXCEPT !.next = IF k = before THEN after ELSE @,
                             !.prev = IF k = after THEN before ELSE @]]
  BY DEF Unlinked
<1> HIDE DEF n, before, after
<1>5. ASSUME NEW a \in 1..Len(hp)
      PROVE  /\ hp2[a] \in Cell
             /\ hp2[a].next = IF a = before THEN after ELSE hp[a].next
             /\ hp2[a].prev = IF a = after THEN before ELSE hp[a].prev
             /\ hp2[a].element = hp[a].element
  <2> DEFINE c  == hp[a]
             x  == IF a = before THEN after ELSE c.next
             y  == IF a = after THEN before ELSE c.prev
             c1 == [c EXCEPT !.next = x]
             c2 == [c1 EXCEPT !.prev = y]
  <2>1. c \in Cell /\ x \in 0..MaxNodes /\ y \in 0..MaxNodes
    BY <1>3, CellFields
  <2>2. hp2[a] = [hp[a] EXCEPT !.next = IF a = before THEN after ELSE @,
                               !.prev = IF a = after THEN before ELSE @]
    BY <1>4
  <2>3. hp2[a] = c2
    BY <2>1, <2>2 DEF Cell
  <2> HIDE DEF c, x, y
  <2>4. c1 \in Cell /\ c1.next = x /\ c1.prev = c.prev /\ c1.element = c.element
    BY <2>1, CellFields
  <2> HIDE DEF c1
  <2>5. c2 \in Cell /\ c2.prev = y /\ c2.next = c1.next /\ c2.element = c1.element
    BY <2>1, <2>4, CellFields
  <2> QED BY <2>3, <2>4, <2>5 DEF c, x, y
<1>6. hp2 \in Seq(Cell) /\ Len(hp2) = Len(hp)
  <2>1. hp2 \in [1..Len(hp) -> Cell]
    BY <1>4, <1>5
  <2>2. Len(hp) \in Nat
    BY <1>1
  <2> HIDE DEF Unlinked
  <2>3. hp2 \in Seq(Cell)
    BY <2>1, <2>2
  <2>4. Len(hp2) = Len(hp)
    BY <2>1, <2>2, <2>3
  <2> QED BY <2>3, <2>4
<1>7. ASSUME NEW k \in 1..n
      PROVE  /\ hp2[p[k]].next = IF k = j - 1 THEN after ELSE hp[p[k]].next
             /\ hp2[p[k]].prev = IF k = j + 1 THEN before ELSE hp[p[k]].prev
             /\ hp2[p[k]].element = hp[p[k]].element
  <2>1. p[k] = before <=> k = j - 1
    <3>1. CASE j > 1
      BY <1>1, <1>2, <3>1
    <3>2. CASE ~ (j > 1)
      <4>1. before = NULL /\ k # j - 1
        BY <1>1, <1>2, <3>2
      <4> QED BY <1>1, <4>1
    <3> QED BY <3>1, <3>2
  <2>2. p[k] = after <=> k = j + 1
    <3>1. CASE j < n
      BY <1>1, <1>2, <3>1
    <3>2. CASE ~ (j < n)
      <4>1. after = NULL /\ k # j + 1
        BY <1>1, <1>2, <3>2
      <4> QED BY <1>1, <4>1
    <3> QED BY <3>1, <3>2
  <2> QED BY <1>1, <1>5, <2>1, <2>2
<1>8. hd2 = IF j > 1 THEN hd ELSE IF n = 1 THEN NULL ELSE p[2]
  <2>1. CASE j > 1
    <3>1. before # NULL
      BY <1>1, <1>2, <2>1
    <3> QED BY <2>1, <3>1 DEF before
  <2>2. CASE ~ (j > 1)
    <3>1. j = 1 /\ hd2 = after /\ (j < n <=> n # 1)
      BY <1>1, <2>2 DEF after
    <3> QED BY <1>2, <2>2, <3>1
  <2> QED BY <2>1, <2>2
<1>9. Chain(hp2, hd2, Del(p, j))
  <2>1. /\ hd2 = IF j > 1 THEN hd ELSE IF Len(p) = 1 THEN NULL ELSE p[2]
        /\ \A k \in 1..Len(p) : k # j =>
             hp2[p[k]].next = IF k # j - 1 THEN hp[p[k]].next
                              ELSE IF j < Len(p) THEN p[j + 1] ELSE NULL
    BY <1>2, <1>7, <1>8 DEF n
  <2>2. \A k \in 2..Len(p) : k # j /\ k # j + 1 => hp2[p[k]].prev = hp[p[k]].prev
    <3>1. \A k \in 2..n : k \in 1..n
      BY <1>1
    <3> QED BY <1>7, <3>1 DEF n
  <2>3. j > 1 /\ j < Len(p) => hp2[p[j + 1]].prev = p[j - 1]
    BY <1>2, <1>7 DEF n
  <2> QED BY <1>1, <1>6, <2>1, <2>2, <2>3, RemoveChain
<1>10. p[j] \in Nodes(p) /\ before \in Nodes(p) \cup {NULL} /\ after \in Nodes(p) \cup {NULL}
  <2>1. j \in 1..Len(p) /\ (j > 1 => j - 1 \in 1..Len(p)) /\ (j < Len(p) => j + 1 \in 1..Len(p))
    BY <1>2 DEF n
  <2> QED BY <1>2, <2>1 DEF Nodes, n
<1>11. ElementsOf(hp2, Del(p, j)) = Del(ElementsOf(hp, p), j)
  <2>1. \A k \in 1..Len(p) : hp2[p[k]].element = hp[p[k]].element
    BY <1>7 DEF n
  <2> QED BY <1>1, <2>1, DelElements
<1>12. (hd # NULL => hp[hd].prev = NULL) => (hd2 # NULL => hp2[hd2].prev = NULL)
  <2> SUFFICES ASSUME hd # NULL => hp[hd].prev = NULL, hd2 # NULL PROVE hp2[hd2].prev = NULL
    OBVIOUS
  <2>1. CASE j > 1
    <3>1. 1 \in 1..n /\ 1 # j + 1 /\ hd = p[1] /\ hd # NULL /\ hd2 = p[1]
      BY <1>1, <1>8, <2>1
    <3> QED BY <1>7, <3>1
  <2>2. CASE ~ (j > 1)
    <3>1. j = 1 /\ 2 \in 1..n /\ hd2 = p[2] /\ before = NULL
      BY <1>1, <1>2, <1>8, <2>2
    <3> QED BY <1>7, <3>1
  <2> QED BY <2>1, <2>2
<1> QED BY <1>6, <1>9, <1>10, <1>11, <1>12 DEF before, after

-----------------------------------------------------------------------------
(* The invariant of the list: its nodes form a chain, nothing precedes the
   head, the nodes that are not in it are those that were freed, and a search
   stands on a node of it behind nodes with other elements. *)
Holds(p) ==
  /\ Chain(heap, head, p)
  /\ head # NULL => heap[head].prev = NULL
  /\ freed = (1..Len(heap)) \ Nodes(p)
  /\ cursor # NULL => /\ index < Len(p) /\ cursor = p[index + 1] /\ key \in Elements
                      /\ \A k \in 1..index : heap[p[k]].element # key
  /\ ~live => head = NULL /\ cursor = NULL

ListInv == TypeOK /\ ~fault /\ \E p \in Seq(1..Len(heap)) : Holds(p)

(* What the invariant says of the loops. *)
LEMMA HoldsFacts ==
  ASSUME TypeOK, NEW p, Holds(p)
  PROVE  /\ heap \in Seq(Cell) /\ Len(heap) \in Nat /\ Len(heap) <= MaxNodes
         /\ Len(p) \in Nat /\ Len(p) <= Len(heap)
         /\ Items = ElementsOf(heap, p) /\ Size = Len(p) /\ Len(Items) = Len(p)
         /\ Items \in Seq(Elements)
         /\ Chained = Nodes(p) /\ Nodes(p) \subseteq 1..Len(heap)
         /\ head = NULL <=> Len(p) = 0
         /\ \A a : a \in freed <=> a \in 1..Len(heap) /\ a \notin Nodes(p)
<1>1. heap \in Seq(Cell) /\ Len(heap) \in Nat /\ Len(heap) <= MaxNodes
  BY DEF TypeOK
<1>2. Chain(heap, head, p)
  BY DEF Holds
<1>3. Len(p) \in Nat /\ Len(p) <= Len(heap) /\ \A k \in 1..Len(p) : p[k] \in 1..Len(heap)
  BY <1>1, <1>2, ChainFits
<1>4. Items = ElementsOf(heap, p) /\ Chained = Nodes(p) /\ Nodes(p) \subseteq 1..Len(heap)
      /\ (head = NULL <=> Len(p) = 0)
  BY <1>1, <1>2, Loops, ItemsIs
<1>5. Size = Len(p)
  BY <1>1, <1>2, Loops, SizeIs
<1>6. \A k \in 1..Len(p) : heap[p[k]].element \in Elements
  BY <1>1, <1>3, CellFields
<1>7. ElementsOf(heap, p) \in Seq(Elements) /\ Len(ElementsOf(heap, p)) = Len(p)
  BY <1>3, <1>6 DEF ElementsOf
<1>8. \A a : a \in freed <=> a \in 1..Len(heap) /\ a \notin Nodes(p)
  BY DEF Holds
<1> QED BY <1>1, <1>3, <1>4, <1>5, <1>7, <1>8

LEMMA InitList == Init => ListInv /\ Documented!Init
<1> SUFFICES ASSUME Init PROVE ListInv /\ Documented!Init
  OBVIOUS
<1> DEFINE p == <<>>
<1>1. TypeOK /\ ~fault
  <2>1. heap = <<>> /\ Len(heap) = 0 /\ heap \in Seq(Cell) /\ Len(heap) <= MaxNodes
    BY DEF Init
  <2>2. head = 0 /\ cursor = 0 /\ index = 0 /\ key = NULL /\ answer = <<>> /\ freed = {}
    BY DEF Init, NULL
  <2>3. live \in BOOLEAN /\ fault \in BOOLEAN /\ ~fault
    BY DEF Init
  <2>4. head \in 0..Len(heap) /\ cursor \in 0..Len(heap) /\ index \in 0..MaxNodes
    BY <2>1, <2>2
  <2> QED BY <2>1, <2>2, <2>3, <2>4 DEF TypeOK
<1>2. Len(heap) = 0 /\ p \in Seq(1..Len(heap)) /\ Len(p) = 0
  BY DEF Init
<1>3. Holds(p)
  BY <1>2 DEF Init, Holds, Chain, Nodes
<1>4. Items = <<>>
  <2>1. Items = ElementsOf(heap, p)
    BY <1>1, <1>3, HoldsFacts
  <2> QED BY <1>2, <2>1 DEF ElementsOf
<1> QED BY <1>1, <1>2, <1>3, <1>4 DEF ListInv, Init, Documented!Init

(* An insertion links a node in, whichever of the cases it is. *)
LEMMA InsertLinks ==
  ASSUME NEW e, NEW i, InsertAtIndex(e, i), fault \in BOOLEAN
  PROVE  \E T : /\ Linked(heap, head, heap', head', e, i, T)
                /\ fault' = (fault \/ T \cap freed # {})
<1> DEFINE new == Len(heap) + 1
           ref == ReferenceAt(i)
           before == heap[ref].prev
<1>1. ref = RefOf(heap, head, i) /\ Size = SizeOf(heap, head)
  BY Loops
<1>2. InsertFirst(new, e) \/ InsertFront(new, e, i) \/ InsertMiddle(new, e, i) \/ InsertLast(new, e, i)
  BY DEF InsertAtIndex
<1>3. CASE InsertFirst(new, e)
  <2> DEFINE T == {}
  <2>1. Linked(heap, head, heap', head', e, i, T)
    BY <1>3 DEF InsertFirst, Linked
  <2>2. T \cap freed = {} /\ fault' = fault
    BY <1>3 DEF InsertFirst
  <2>3. fault' = (fault \/ T \cap freed # {})
    <3> HIDE DEF T
    <3> QED BY <2>2
  <2> QED BY <2>1, <2>3
<1>4. CASE InsertFront(new, e, i)
  <2> DEFINE T == {head}
  <2>1. fault' = (fault \/ T \cap freed # {}) /\ Linked(heap, head, heap', head', e, i, T)
    BY <1>4 DEF InsertFront, Linked, Touch
  <2> QED BY <2>1
<1>5. CASE InsertMiddle(new, e, i)
  <2> DEFINE T == {ref, before}
  <2>1. /\ head # NULL /\ 0 < i /\ i < Size /\ head' = head
        /\ heap' = Append([heap EXCEPT ![before].next = new, ![ref].prev = new],
                          NewCell(before, ref, e))
        /\ fault' = (fault \/ T \cap freed # {})
    BY <1>5 DEF InsertMiddle, Touch
  <2> HIDE DEF ref
  <2>2. Linked(heap, head, heap', head', e, i, T)
    BY <1>1, <2>1 DEF Linked
  <2> QED BY <2>1, <2>2
<1>6. CASE InsertLast(new, e, i)
  <2> DEFINE T == {ref}
  <2>1. /\ head # NULL /\ 0 < i /\ i >= Size /\ head' = head
        /\ heap' = Append([heap EXCEPT ![ref].next = new], NewCell(ref, NULL, e))
        /\ fault' = (fault \/ T \cap freed # {})
    BY <1>6 DEF InsertLast, Touch
  <2> HIDE DEF ref
  <2>2. Linked(heap, head, heap', head', e, i, T)
    BY <1>1, <2>1 DEF Linked
  <2> QED BY <2>1, <2>2
<1> QED BY <1>2, <1>3, <1>4, <1>5, <1>6

(* dpl_insert_at_index keeps the list a list and inserts where dplist.h says. *)
LEMMA InsertStep ==
  ASSUME ListInv, NEW e \in Elements, NEW i \in Indices, InsertAtIndex(e, i)
  PROVE  ListInv' /\ Documented!Insert(e, i)
<1>1. PICK p \in Seq(1..Len(heap)) : Holds(p)
  BY DEF ListInv
<1>2. PICK T : /\ Linked(heap, head, heap', head', e, i, T)
               /\ fault' = (fault \/ T \cap freed # {})
  BY InsertLinks DEF ListInv, TypeOK
<1>0. PICK new : new = Len(heap) + 1
  OBVIOUS
<1> DEFINE j == InsPlace(p, i)
           q == Ins(p, j, new)
<1>3. /\ heap \in Seq(Cell) /\ Len(heap) \in Nat /\ Len(heap) <= MaxNodes
      /\ Len(p) \in Nat /\ Len(p) <= Len(heap)
      /\ Items = ElementsOf(heap, p) /\ Len(Items) = Len(p) /\ Items \in Seq(Elements)
      /\ Nodes(p) \subseteq 1..Len(heap)
      /\ \A a : a \in freed <=> a \in 1..Len(heap) /\ a \notin Nodes(p)
  BY <1>1, HoldsFacts DEF ListInv
<1>4. /\ Chain(heap, head, p) /\ (head # NULL => heap[head].prev = NULL)
      /\ live /\ cursor = NULL /\ Len(heap) < MaxNodes /\ i \in Int
  BY <1>1 DEF Holds, InsertAtIndex, Ready
<1>5. Written(heap, head, p, heap', head', e, j, T)
  BY <1>2, <1>3, <1>4, LinkedWrites
<1>6. /\ Chain(heap', head', q) /\ ElementsOf(heap', q) = Ins(ElementsOf(heap, p), j, e)
      /\ \A a : a \in Nodes(q) <=> a \in Nodes(p) \/ a = new
      /\ heap'[head'].prev = NULL /\ head' # NULL
  <2> HIDE DEF j
  <2>1. /\ heap \in Seq(Cell) /\ Chain(heap, head, p)
        /\ Written(heap, head, p, heap', head', e, j, T) /\ new = Len(heap) + 1
    BY <1>0, <1>3, <1>4, <1>5
  <2>2. Chain(heap', head', q) /\ head' # NULL /\ heap'[head'].prev = NULL
    BY <1>4, <2>1, InsElements
  <2>3. ElementsOf(heap', q) = Ins(ElementsOf(heap, p), j, e)
    BY <2>1, InsElements
  <2>4. ASSUME NEW a PROVE a \in Nodes(q) <=> a \in Nodes(p) \/ a = new
    <3>1. j \in 1..(Len(p) + 1)
      BY <2>1 DEF Written
    <3> QED BY <1>3, <2>1, <3>1, InsNodes
  <2> QED BY <2>2, <2>3, <2>4
<1>7. /\ heap' \in Seq(Cell) /\ Len(heap') = Len(heap) + 1 /\ j \in 1..(Len(p) + 1)
      /\ T \subseteq Nodes(p) /\ head' = IF j = 1 THEN Len(heap) + 1 ELSE head
  BY <1>5 DEF Written
<1>8. ~fault'
  BY <1>2, <1>3, <1>7 DEF ListInv
<1>9. TypeOK'
  <2>1. UNCHANGED <<live, freed, cursor, index, key>> /\ answer' = <<>>
    BY DEF InsertAtIndex, search
  <2>4. fault' \in BOOLEAN
    BY <1>2
  <2>2. head' \in 0..Len(heap') /\ freed' \subseteq 1..Len(heap') /\ cursor' \in 0..Len(heap')
    BY <1>3, <1>7, <2>1 DEF ListInv, TypeOK
  <2>3. Len(heap') <= MaxNodes
    BY <1>3, <1>4, <1>7
  <2> QED BY <1>7, <2>1, <2>2, <2>3, <2>4 DEF ListInv, TypeOK
<1>10. Holds(q)'
  <2> HIDE DEF q
  <2>1. UNCHANGED <<live, freed, cursor>>
    BY DEF InsertAtIndex, search
  <2>2. freed' = (1..Len(heap')) \ Nodes(q)
    <3>1. ASSUME NEW a PROVE a \in freed' <=> a \in (1..Len(heap')) \ Nodes(q)
      <4>1. a \in 1..Len(heap') <=> a \in 1..Len(heap) \/ a = Len(heap) + 1
        BY <1>3, <1>7
      <4>2. ~ (Len(heap) + 1 \in 1..Len(heap))
        BY <1>3
      <4>3. a \in Nodes(q) <=> a \in Nodes(p) \/ a = new
        BY <1>6
      <4> QED BY <1>0, <1>3, <2>1, <4>1, <4>2, <4>3
    <3> QED BY <3>1
  <2>3. Chain(heap', head', q)
    BY <1>6
  <2>4. live' /\ cursor' = NULL /\ heap'[head'].prev = NULL
    BY <1>4, <1>6, <2>1
  <2> QED BY <2>2, <2>3, <2>4 DEF Holds
<1>11. ListInv'
  <2> HIDE DEF q
  <2>1. q \in Seq(1..Len(heap'))
    BY <1>6 DEF Chain
  <2> QED BY <1>8, <1>9, <1>10, <2>1 DEF ListInv
<1>12. Documented!Insert(e, i)
  <2>1. Items' = ElementsOf(heap', q)
    <3>1. (Items = ItemsOf(heap, head))'
      BY Loops, PTL
    <3> HIDE DEF q
    <3> QED BY <1>3, <1>6, <1>7, <3>1, ItemsIs DEF q
  <2>2. Documented!InsertAt(Items, j, e) = Ins(Items, j, e)
    <3> HIDE DEF j
    <3>1. j \in 1..(Len(Items) + 1)
      BY <1>3, <1>7
    <3> QED BY <1>3, <3>1, InsertAtIs
  <2>3. Items' = Documented!InsertAt(Items, j, e)
    BY <1>3, <1>6, <2>1, <2>2
  <2>4. j = Documented!Clamp(i, Len(Items)) + 1
    BY <1>3 DEF InsPlace, Documented!Clamp
  <2>5. answer' = <<>>
    BY DEF InsertAtIndex
  <2> HIDE DEF j
  <2> QED BY <2>3, <2>4, <2>5 DEF Documented!Insert
<1> QED BY <1>11, <1>12

(* dpl_remove_at_index takes out the node dplist.h says. *)
LEMMA RemoveStep ==
  ASSUME ListInv, NEW i \in Indices, RemoveAtIndex(i)
  PROVE  ListInv' /\ Documented!RemoveIndex(i)
<1>1. PICK p \in Seq(1..Len(heap)) : Holds(p)
  BY DEF ListInv
<1> DEFINE j == RemPlace(p, i)
           q == Del(p, j)
           ref == ReferenceAt(i)
           before == heap[ref].prev
           after == heap[ref].next
<1>2. /\ heap \in Seq(Cell) /\ Len(heap) \in Nat /\ Len(heap) <= MaxNodes
      /\ Len(p) \in Nat /\ Len(p) <= Len(heap)
      /\ Items = ElementsOf(heap, p) /\ Len(Items) = Len(p) /\ Items \in Seq(Elements)
      /\ Nodes(p) \subseteq 1..Len(heap)
      /\ \A a : a \in freed <=> a \in 1..Len(heap) /\ a \notin Nodes(p)
      /\ head = NULL <=> Len(p) = 0
  BY <1>1, HoldsFacts DEF ListInv
<1>3. /\ Chain(heap, head, p) /\ (head # NULL => heap[head].prev = NULL)
      /\ live /\ cursor = NULL /\ head # NULL /\ Len(p) # 0 /\ i \in Int
  BY <1>1, <1>2 DEF Holds, RemoveAtIndex, Ready
<1>4. j \in 1..Len(p) /\ ref = p[j]
  BY <1>2, <1>3, RemPlaceIs, Loops
<1>5. /\ Unlinked(heap, heap', p[j])
      /\ head' = IF heap[p[j]].prev = NULL THEN heap[p[j]].next ELSE head
      /\ fault' = (fault \/ {p[j], heap[p[j]].prev, heap[p[j]].next} \cap freed # {})
      /\ freed' = freed \cup {p[j]}
  <2>1. Unchain(p[j]) /\ freed' = freed \cup {p[j]}
    BY <1>4 DEF RemoveAtIndex
  <2> HIDE DEF j
  <2> QED BY <2>1 DEF Unchain, Touch, Unlinked
<1>6. j = 1 => heap[p[j]].prev = NULL
  <2>1. head = p[1]
    BY <1>3 DEF Chain
  <2> QED BY <1>3, <2>1
<1> HIDE DEF j
<1>7. /\ heap' \in Seq(Cell) /\ Len(heap') = Len(heap)
      /\ Chain(heap', head', q)
      /\ {p[j], heap[p[j]].prev, heap[p[j]].next} \subseteq Nodes(p) \cup {NULL}
      /\ ElementsOf(heap', q) = Del(ElementsOf(heap, p), j)
      /\ head' # NULL => heap'[head'].prev = NULL
  <2>1. /\ heap \in Seq(Cell) /\ j \in 1..Len(p) /\ Chain(heap, head, p)
        /\ Unlinked(heap, heap', p[j]) /\ (j = 1 => heap[p[j]].prev = NULL)
        /\ head' = IF heap[p[j]].prev = NULL THEN heap[p[j]].next ELSE head
    BY <1>2, <1>3, <1>4, <1>5, <1>6
  <2>2. heap' \in Seq(Cell) /\ Len(heap') = Len(heap) /\ Chain(heap', head', q)
    BY <2>1, UnlinkedChain, ZenonT(60)
  <2>3. {p[j], heap[p[j]].prev, heap[p[j]].next} \subseteq Nodes(p) \cup {NULL}
    <3>1. p[j] \in Nodes(p) /\ heap[p[j]].prev \in Nodes(p) \cup {NULL}
      BY <2>1, UnlinkedChain
    <3>2. heap[p[j]].next \in Nodes(p) \cup {NULL}
      BY <2>1, UnlinkedChain
    <3> QED BY <3>1, <3>2
  <2>4. ElementsOf(heap', q) = Del(ElementsOf(heap, p), j)
    BY <2>1, <2>2, UnlinkedChain
  <2>5. head' # NULL => heap'[head'].prev = NULL
    <3>1. (head # NULL => heap[head].prev = NULL) => (head' # NULL => heap'[head'].prev = NULL)
      BY <2>1, <2>2, <2>3, <2>4, UnlinkedChain
    <3> QED BY <1>3, <3>1
  <2> QED BY <2>2, <2>3, <2>4, <2>5
<1>8. \A a : a \in Nodes(q) <=> a \in Nodes(p) /\ a # p[j]
  BY <1>2, <1>3, <1>4, DelNodes
<1> HIDE DEF q
<1>9. UNCHANGED <<live, cursor, index, key>> /\ answer' = <<>>
  BY DEF RemoveAtIndex, search
<1>10. ~fault' /\ fault' \in BOOLEAN
  <2>1. ~ (NULL \in freed)
    BY <1>2 DEF NULL
  <2>2. {p[j], heap[p[j]].prev, heap[p[j]].next} \cap freed = {}
    BY <1>2, <1>7, <2>1
  <2> QED BY <1>5, <2>2 DEF ListInv
<1>11. p[j] \in Nodes(p) /\ p[j] \in 1..Len(heap)
  BY <1>2, <1>4 DEF Nodes
<1>12. TypeOK'
  <2>1. head' \in 0..Len(heap')
    <3>1. q \in Seq(1..Len(heap')) /\ head' = IF Len(q) = 0 THEN NULL ELSE q[1]
      BY <1>7 DEF Chain
    <3>2. Len(q) \in Nat /\ Len(heap') \in Nat
      BY <1>2, <1>7, <3>1
    <3> QED BY <3>1, <3>2 DEF NULL
  <2>2. freed' \subseteq 1..Len(heap') /\ cursor' \in 0..Len(heap')
    BY <1>2, <1>5, <1>7, <1>9, <1>11 DEF ListInv, TypeOK
  <2>3. Len(heap') <= MaxNodes
    BY <1>2, <1>7
  <2> QED BY <1>7, <1>9, <1>10, <2>1, <2>2, <2>3 DEF ListInv, TypeOK
<1>13. Holds(q)'
  <2>1. freed' = (1..Len(heap')) \ Nodes(q)
    BY <1>2, <1>5, <1>7, <1>8, <1>11
  <2> QED BY <1>3, <1>7, <1>9, <2>1 DEF Holds
<1>14. ListInv'
  <2>1. q \in Seq(1..Len(heap'))
    BY <1>7 DEF Chain
  <2> QED BY <1>10, <1>12, <1>13, <2>1 DEF ListInv
<1>15. Documented!RemoveIndex(i)
  <2>1. Items' = ElementsOf(heap', q)
    <3>1. (Items = ItemsOf(heap, head))'
      BY Loops, PTL
    <3> QED BY <1>2, <1>7, <3>1, ItemsIs
  <2>2. Documented!RemoveAt(Items, j) = Del(Items, j)
    <3>1. j \in 1..Len(Items)
      BY <1>2, <1>4
    <3> QED BY <1>2, <3>1, RemoveAtIs
  <2>3. Items' = Documented!RemoveAt(Items, j)
    BY <1>2, <1>7, <2>1, <2>2
  <2>4. j = Documented!Clamp(i, Len(Items) - 1) + 1
    BY <1>2 DEF j, RemPlace, Documented!Clamp
  <2>5. Items # <<>>
    BY <1>2, <1>3
  <2> QED BY <1>9, <2>3, <2>4, <2>5 DEF Documented!RemoveIndex
<1> QED BY <1>14, <1>15

-----------------------------------------------------------------------------
(* The other steps. *)

(* An empty list. *)
LEMMA EmptyItems ==
  TypeOK => (head = NULL => Items = <<>>)
<1> SUFFICES ASSUME TypeOK, head = NULL PROVE Items = <<>>
  OBVIOUS
<1> DEFINE p == <<>>
<1>1. Len(heap) \in Nat
  BY DEF TypeOK
<1>2. Chain(heap, head, p)
  BY DEF Chain
<1>3. Items = ElementsOf(heap, p)
  BY <1>1, <1>2, Loops, ItemsIs
<1> QED BY <1>3 DEF ElementsOf

LEMMA CreateStep ==
  ASSUME ListInv, Create
  PROVE  ListInv' /\ Items' = Items /\ answer' = answer
<1>1. PICK p \in Seq(1..Len(heap)) : Holds(p)
  BY DEF ListInv
<1>2. head = NULL /\ cursor = NULL /\ head' = NULL /\ live'
      /\ UNCHANGED <<heap, freed, fault, cursor, index, key, answer>>
  BY <1>1 DEF Create, Holds, search
<1>3. TypeOK'
  BY <1>2 DEF ListInv, TypeOK
<1>4. Holds(p)'
  BY <1>1, <1>2 DEF Holds
<1>5. ListInv'
  BY <1>2, <1>3, <1>4 DEF ListInv
<1>6. Items = <<>> /\ Items' = <<>>
  <2>1. (TypeOK => (head = NULL => Items = <<>>))'
    BY EmptyItems, PTL
  <2> QED BY <1>2, <1>3, <2>1, EmptyItems DEF ListInv
<1> QED BY <1>2, <1>5, <1>6

(* dpl_free passes each node of the list to free, once. *)
LEMMA FreeStep ==
  ASSUME ListInv, FreeList
  PROVE  ListInv' /\ Documented!Clear
<1>1. PICK p \in Seq(1..Len(heap)) : Holds(p)
  BY DEF ListInv
<1> DEFINE q == <<>>
<1>2. /\ Len(heap) \in Nat /\ Chained = Nodes(p) /\ Nodes(p) \subseteq 1..Len(heap)
      /\ \A a : a \in freed <=> a \in 1..Len(heap) /\ a \notin Nodes(p)
  BY <1>1, HoldsFacts DEF ListInv
<1>3. /\ freed' = freed \cup Nodes(p) /\ fault' = (fault \/ Nodes(p) \cap freed # {})
      /\ ~live' /\ live' \in BOOLEAN /\ head' = NULL /\ cursor = NULL /\ answer' = <<>>
      /\ UNCHANGED <<heap, cursor, index, key>>
  BY <1>2 DEF FreeList, Touch, search, Ready
<1>4. ~fault' /\ fault' \in BOOLEAN
  <2>1. Nodes(p) \cap freed = {}
    BY <1>2
  <2> QED BY <1>3, <2>1 DEF ListInv
<1>5. freed' = 1..Len(heap)
  BY <1>2, <1>3
<1>6. TypeOK'
  <2>1. head' \in 0..Len(heap')
    BY <1>2, <1>3 DEF NULL
  <2> QED BY <1>3, <1>4, <1>5, <2>1 DEF ListInv, TypeOK
<1>7. Holds(q)'
  <2>1. Chain(heap', head', q)
    BY <1>3 DEF Chain
  <2>2. freed' = (1..Len(heap')) \ Nodes(q)
    BY <1>3, <1>5 DEF Nodes
  <2> QED BY <1>3, <2>1, <2>2 DEF Holds
<1>8. ListInv'
  <2>1. q \in Seq(1..Len(heap'))
    OBVIOUS
  <2> QED BY <1>4, <1>6, <1>7, <2>1 DEF ListInv
<1>9. Items' = <<>>
  <2>1. (TypeOK => (head = NULL => Items = <<>>))'
    BY EmptyItems, PTL
  <2> QED BY <1>3, <1>6, <2>1
<1> QED BY <1>3, <1>8, <1>9 DEF Documented!Clear

(* The index, from 1, of the first match; 0 if there is none. *)
FirstOf(s, e) ==
  LET I == {k \in 1..Len(s) : s[k] = e}
  IN  IF I # {} THEN CHOOSE x \in I : \A y \in I : x <= y ELSE 0

LEMMA FirstIs ==
  ASSUME NEW T, NEW s \in Seq(T), NEW e
  PROVE  /\ \A k \in 1..Len(s) :
              s[k] = e /\ (\A m \in 1..(k - 1) : s[m] # e) => FirstOf(s, e) = k
         /\ (\A k \in 1..Len(s) : s[k] # e) => FirstOf(s, e) = 0
<1> DEFINE I == {k \in 1..Len(s) : s[k] = e}
<1>1. ASSUME NEW k \in 1..Len(s), s[k] = e, \A m \in 1..(k - 1) : s[m] # e
      PROVE  FirstOf(s, e) = k
  <2>1. k \in I
    BY <1>1
  <2>2. \A y \in I : k <= y
    BY <1>1
  <2>3. I \subseteq Int
    OBVIOUS
  <2> HIDE DEF I
  <2>4. \A x \in I : (\A y \in I : x <= y) => x = k
    BY <2>1, <2>2, <2>3
  <2>5. (CHOOSE x \in I : \A y \in I : x <= y) = k
    BY <2>1, <2>2, <2>4
  <2> QED BY <2>1, <2>5 DEF FirstOf, I
<1>2. ASSUME \A k \in 1..Len(s) : s[k] # e PROVE FirstOf(s, e) = 0
  <2>1. I = {}
    BY <1>2
  <2> QED BY <2>1 DEF FirstOf
<1> QED BY <1>1, <1>2

LEMMA LookupIs ==
  ASSUME NEW e, answer' = <<e, FirstOf(Items, e) - 1>>, Items' = Items
  PROVE  Documented!Lookup(e)
BY DEF Documented!Lookup, Documented!SelectInSeq, Documented!Min, FirstOf

(* dpl_get_index_of_element enters the list, or answers for an empty one. *)
LEMMA FindStartStep ==
  ASSUME ListInv, NEW e \in Elements, FindStart(e)
  PROVE  ListInv' /\ Items' = Items /\ (answer' = answer \/ Documented!Lookup(e))
<1>1. PICK p \in Seq(1..Len(heap)) : Holds(p)
  BY DEF ListInv
<1>2. /\ Chain(heap, head, p) /\ Len(p) \in Nat /\ Len(heap) \in Nat
      /\ head = NULL <=> Len(p) = 0
  BY <1>1, HoldsFacts DEF ListInv, Holds
<1>3. UNCHANGED <<live, heap, head, freed, fault>> /\ live /\ cursor = NULL
  BY DEF FindStart, Ready
<1>4. Items' = Items
  <2>1. (Items = ItemsOf(heap, head))'
    BY Loops, PTL
  <2> QED BY <1>3, <2>1, Loops
<1>5. CASE head = NULL
  <2>1. answer' = <<e, -1>> /\ UNCHANGED <<cursor, index, key>>
    BY <1>5 DEF FindStart, search
  <2>2. TypeOK'
    <3>1. answer' \in Elements \X (-1..MaxNodes)
      BY <2>1
    <3> QED BY <1>3, <2>1, <3>1 DEF ListInv, TypeOK
  <2>3. Holds(p)'
    BY <1>1, <1>3, <2>1 DEF Holds
  <2>4. ListInv'
    BY <1>3, <2>2, <2>3 DEF ListInv
  <2>5. Items = <<>>
    BY <1>5, EmptyItems DEF ListInv
  <2>6. FirstOf(Items, e) = 0
    <3>1. Items \in Seq(Elements) /\ \A k \in 1..Len(Items) : Items[k] # e
      BY <2>5
    <3> QED BY <3>1, FirstIs
  <2>7. Documented!Lookup(e)
    BY <1>4, <2>1, <2>6, LookupIs
  <2> QED BY <1>4, <2>4, <2>7
<1>6. CASE head # NULL
  <2>1. cursor' = head /\ index' = 0 /\ key' = e /\ answer' = answer
    BY <1>6 DEF FindStart
  <2>2. TypeOK'
    <3>1. cursor' \in 0..Len(heap') /\ index' \in 0..MaxNodes
      BY <1>3, <2>1 DEF ListInv, TypeOK
    <3> QED BY <1>3, <2>1, <3>1 DEF ListInv, TypeOK
  <2>3. Holds(p)'
    <3>1. head = p[1] /\ index' < Len(p) /\ cursor' = p[index' + 1]
      BY <1>2, <1>6, <2>1 DEF Chain
    <3>2. \A k \in 1..index' : heap[p[k]].element # key'
      BY <2>1
    <3> QED BY <1>1, <1>3, <2>1, <3>1, <3>2 DEF Holds
  <2>4. ListInv'
    BY <1>3, <2>2, <2>3 DEF ListInv
  <2> QED BY <1>4, <2>1, <2>4
<1> QED BY <1>5, <1>6

(* Where a search stands. *)
LEMMA CursorFacts ==
  ASSUME ListInv, cursor # NULL, NEW p \in Seq(1..Len(heap)), Holds(p)
  PROVE  /\ index \in Nat /\ index + 1 \in 1..Len(p) /\ cursor = p[index + 1]
         /\ cursor \in Nodes(p) /\ ~ (cursor \in freed) /\ live /\ key \in Elements
         /\ \A k \in 1..index : Items[k] # key
         /\ Items[index + 1] = heap[cursor].element
         /\ heap[cursor].next = IF index + 1 < Len(p) THEN p[index + 1 + 1] ELSE NULL
<1>1. /\ Len(p) \in Nat /\ Items = ElementsOf(heap, p)
      /\ \A a : a \in freed <=> a \in 1..Len(heap) /\ a \notin Nodes(p)
  BY HoldsFacts DEF ListInv
<1>2. /\ index < Len(p) /\ cursor = p[index + 1] /\ live /\ key \in Elements /\ index \in Nat
      /\ \A k \in 1..index : heap[p[k]].element # key
      /\ \A k \in 1..Len(p) : heap[p[k]].next = IF k < Len(p) THEN p[k + 1] ELSE NULL
  BY DEF Holds, ListInv, TypeOK, Chain
<1>3. index + 1 \in 1..Len(p) /\ \A k \in 1..index : k \in 1..Len(p)
  BY <1>1, <1>2
<1>4. cursor \in Nodes(p)
  BY <1>2, <1>3 DEF Nodes
<1>5. \A k \in 1..Len(p) : Items[k] = heap[p[k]].element
  BY <1>1 DEF ElementsOf
<1> QED BY <1>1, <1>2, <1>3, <1>4, <1>5

LEMMA FindMatchStep ==
  ASSUME ListInv, FindMatch
  PROVE  ListInv' /\ Documented!Lookup(key) /\ key \in Elements
<1>1. PICK p \in Seq(1..Len(heap)) : Holds(p)
  BY DEF ListInv
<1>2. /\ cursor # NULL /\ heap[cursor].element = key /\ answer' = <<key, index>>
      /\ cursor' = NULL /\ index' = 0 /\ key' = NULL
      /\ fault' = (fault \/ {cursor} \cap freed # {})
      /\ UNCHANGED <<live, heap, head, freed>>
  BY DEF FindMatch, Touch
<1>3. /\ index \in Nat /\ index + 1 \in 1..Len(p) /\ ~ (cursor \in freed) /\ key \in Elements
      /\ live /\ \A k \in 1..index : Items[k] # key
      /\ Items[index + 1] = heap[cursor].element
  BY <1>1, <1>2, CursorFacts
<1>4. Items \in Seq(Elements) /\ Len(Items) = Len(p) /\ Len(p) \in Nat
  BY <1>1, HoldsFacts DEF ListInv
<1>5. ~fault' /\ fault' \in BOOLEAN
  <2>1. {cursor} \cap freed = {}
    BY <1>3
  <2> QED BY <1>2, <2>1 DEF ListInv
<1>6. TypeOK'
  <2>1. answer' \in Elements \X (-1..MaxNodes) /\ cursor' \in 0..Len(heap') /\ index' \in 0..MaxNodes
    <3>1. index \in -1..MaxNodes /\ Len(heap) \in Nat
      BY <1>3 DEF ListInv, TypeOK
    <3> QED BY <1>2, <1>3, <3>1 DEF NULL
  <2> QED BY <1>2, <1>5, <2>1 DEF ListInv, TypeOK
<1>7. Holds(p)'
  BY <1>1, <1>2, <1>3 DEF Holds
<1>8. ListInv'
  BY <1>2, <1>5, <1>6, <1>7 DEF ListInv
<1>9. Items' = Items
  <2>1. (Items = ItemsOf(heap, head))'
    BY Loops, PTL
  <2> QED BY <1>2, <2>1, Loops
<1>10. FirstOf(Items, key) = index + 1
  <2> DEFINE k == index + 1
  <2>1. k \in 1..Len(Items) /\ Items[k] = key
    BY <1>2, <1>3, <1>4
  <2>2. \A m \in 1..(k - 1) : Items[m] # key
    BY <1>3
  <2> HIDE DEF k
  <2>3. FirstOf(Items, key) = k
    BY <1>4, <2>1, <2>2, FirstIs
  <2> QED BY <2>3 DEF k
<1>11. Documented!Lookup(key)
  <2>1. FirstOf(Items, key) - 1 = index
    BY <1>3, <1>10
  <2> QED BY <1>2, <1>9, <2>1, LookupIs
<1> QED BY <1>3, <1>8, <1>11

LEMMA FindNextStep ==
  ASSUME ListInv, FindNext
  PROVE  ListInv' /\ Items' = Items /\ answer' = answer
<1>1. PICK p \in Seq(1..Len(heap)) : Holds(p)
  BY DEF ListInv
<1>2. /\ cursor # NULL /\ heap[cursor].element # key /\ heap[cursor].next # NULL
      /\ cursor' = heap[cursor].next /\ index' = index + 1
      /\ fault' = (fault \/ {cursor} \cap freed # {})
      /\ UNCHANGED <<live, heap, head, freed, key, answer>>
  BY DEF FindNext, Touch
<1>3. /\ index \in Nat /\ index + 1 \in 1..Len(p) /\ cursor = p[index + 1]
      /\ ~ (cursor \in freed) /\ live /\ key \in Elements
      /\ heap[cursor].next = IF index + 1 < Len(p) THEN p[index + 1 + 1] ELSE NULL
  BY <1>1, <1>2, CursorFacts
<1>4. /\ Len(p) \in Nat /\ Len(p) <= Len(heap) /\ Len(heap) \in Nat /\ Len(heap) <= MaxNodes
      /\ \A k \in 1..Len(p) : p[k] \in 1..Len(heap)
  <2>1. Chain(heap, head, p)
    BY <1>1 DEF Holds
  <2>2. Len(heap) \in Nat /\ Len(heap) <= MaxNodes
    BY DEF ListInv, TypeOK
  <2> QED BY <2>1, <2>2, ChainFits
<1>5. ~fault' /\ fault' \in BOOLEAN
  <2>1. {cursor} \cap freed = {}
    BY <1>3
  <2> QED BY <1>2, <2>1 DEF ListInv
<1>6. /\ index' \in Nat /\ index' < Len(p) /\ cursor' = p[index' + 1] /\ cursor' \in 1..Len(heap)
      /\ index' \in 0..MaxNodes
  <2>1. index + 1 < Len(p) /\ index + 1 + 1 \in 1..Len(p)
    BY <1>2, <1>3, <1>4
  <2> QED BY <1>2, <1>3, <1>4, <2>1
<1>7. TypeOK'
  <2>1. cursor' \in 0..Len(heap')
    BY <1>2, <1>4, <1>6
  <2> QED BY <1>2, <1>5, <1>6, <2>1 DEF ListInv, TypeOK
<1>8. Holds(p)'
  <2>1. \A k \in 1..index : heap[p[k]].element # key
    BY <1>1, <1>2 DEF Holds
  <2>2. \A k \in 1..(index + 1) : k \in 1..index \/ k = index + 1
    BY <1>3
  <2>3. \A k \in 1..index' : heap'[p[k]].element # key'
    BY <1>2, <1>3, <2>1, <2>2
  <2> QED BY <1>1, <1>2, <1>3, <1>6, <2>3 DEF Holds
<1>9. ListInv'
  BY <1>2, <1>5, <1>7, <1>8 DEF ListInv
<1>10. Items' = Items
  <2>1. (Items = ItemsOf(heap, head))'
    BY Loops, PTL
  <2> QED BY <1>2, <2>1, Loops
<1> QED BY <1>2, <1>9, <1>10

LEMMA ListStutter ==
  ASSUME ListInv, UNCHANGED listVars
  PROVE  ListInv' /\ Items' = Items /\ answer' = answer
<1>1. UNCHANGED <<live, heap, head, freed, fault, cursor, index, key, answer>>
  BY DEF listVars
<1>2. PICK p \in Seq(1..Len(heap)) : Holds(p)
  BY DEF ListInv
<1>3. TypeOK' /\ Holds(p)'
  BY <1>1, <1>2 DEF ListInv, TypeOK, Holds
<1>4. (Items = ItemsOf(heap, head))'
  BY Loops, PTL
<1> QED BY <1>1, <1>3, <1>4, Loops DEF ListInv

(* Every step keeps the list, and is a step of ListSeq or leaves it alone. *)
LEMMA ListStep ==
  ListInv /\ [Next]_listVars => ListInv' /\ [Documented!Next]_<<Items, answer>>
<1> SUFFICES ASSUME ListInv, [Next]_listVars
             PROVE  ListInv' /\ [Documented!Next]_<<Items, answer>>
  OBVIOUS
<1>1. CASE Create
  BY <1>1, CreateStep
<1>2. CASE FreeList
  BY <1>2, FreeStep DEF Documented!Next
<1>3. ASSUME NEW e \in Elements, NEW i \in Indices, InsertAtIndex(e, i)
      PROVE  ListInv' /\ [Documented!Next]_<<Items, answer>>
  BY <1>3, InsertStep DEF Documented!Next
<1>4. ASSUME NEW i \in Indices, RemoveAtIndex(i)
      PROVE  ListInv' /\ [Documented!Next]_<<Items, answer>>
  BY <1>4, RemoveStep DEF Documented!Next
<1>5. ASSUME NEW e \in Elements, FindStart(e)
      PROVE  ListInv' /\ [Documented!Next]_<<Items, answer>>
  BY <1>5, FindStartStep DEF Documented!Next
<1>6. CASE FindMatch
  BY <1>6, FindMatchStep DEF Documented!Next
<1>7. CASE FindNext
  BY <1>7, FindNextStep
<1>8. CASE UNCHANGED listVars
  BY <1>8, ListStutter
<1> QED BY <1>1, <1>2, <1>3, <1>4, <1>5, <1>6, <1>7, <1>8 DEF Next, Find

LEMMA ListInvariant == Init /\ [][Next]_listVars => []ListInv
<1>1. Init => ListInv
  BY InitList
<1>2. ListInv /\ [Next]_listVars => ListInv'
  BY ListStep
<1> QED BY <1>1, <1>2, PTL

LEMMA InvIsSound == ListInv => ListSound
<1> SUFFICES ASSUME ListInv PROVE ListSound
  OBVIOUS
<1>1. PICK p \in Seq(1..Len(heap)) : Holds(p)
  BY DEF ListInv
<1>2. Chained = Nodes(p) /\ Len(p) \in Nat
  BY <1>1, HoldsFacts DEF ListInv
<1>3. /\ \A k \in 1..Len(p) : heap[p[k]].next = IF k < Len(p) THEN p[k + 1] ELSE NULL
      /\ \A k \in 2..Len(p) : heap[p[k]].prev = p[k - 1]
  BY <1>1 DEF Holds, Chain
<1>4. ASSUME NEW a \in Chained, heap[a].next # NULL PROVE heap[heap[a].next].prev = a
  <2>1. PICK k \in 1..Len(p) : a = p[k]
    BY <1>2 DEF Nodes
  <2>2. k < Len(p) /\ heap[a].next = p[k + 1]
    BY <1>3, <1>4, <2>1
  <2>3. k + 1 \in 2..Len(p) /\ k + 1 - 1 = k
    BY <1>2, <2>2
  <2>4. heap[p[k + 1]].prev = p[k + 1 - 1]
    BY <1>3, <2>3
  <2> QED BY <2>1, <2>2, <2>3, <2>4
<1> QED BY <1>1, <1>2, <1>4 DEF ListSound, Holds, ListInv

(* Following next and following prev visit the same nodes in opposite order,
   nothing precedes the head, and a node is freed exactly when it leaves the
   list, once, and is never used after. *)
THEOREM ListIsSound == Spec => []ListSound
BY InvIsSound, ListInvariant, PTL DEF Spec

(* The pointers implement the sequence of dplist.h: every behaviour of the list
   is one of insertions, removals, clearing and first-match lookups at the
   indices the header promises. *)
THEOREM ListIsImplemented == Spec => ImplementsList
<1>1. Init => Documented!Init
  BY InitList
<1>2. ListInv /\ [Next]_listVars => [Documented!Next]_<<Items, answer>>
  BY ListStep
<1> QED BY <1>1, <1>2, ListInvariant, PTL DEF Spec, ImplementsList, Documented!Spec

(* The element at an index, and the first element through its reference. *)
LEMMA ElementAtIs ==
  ASSUME ListInv, NEW i \in Indices, head # NULL
  PROVE  /\ ElementAt(i) = Items[Documented!Clamp(i, Size - 1) + 1]
         /\ i <= 0 => ElementAtReference(ReferenceAt(i)) = ElementAt(i)
<1>1. PICK p \in Seq(1..Len(heap)) : Holds(p)
  BY DEF ListInv
<1>2. /\ Len(heap) \in Nat /\ Len(p) \in Nat /\ Len(p) # 0 /\ Size = Len(p)
      /\ Items = ElementsOf(heap, p) /\ Chain(heap, head, p) /\ i \in Int
  BY <1>1, HoldsFacts DEF ListInv, Holds
<1>3. RemPlace(p, i) \in 1..Len(p) /\ ReferenceAt(i) = p[RemPlace(p, i)]
  BY <1>2, RemPlaceIs, Loops
<1>4. RemPlace(p, i) = Documented!Clamp(i, Size - 1) + 1
  BY <1>2 DEF RemPlace, Documented!Clamp
<1>5. ElementAt(i) = Items[RemPlace(p, i)]
  <2>1. ElementAt(i) = heap[p[RemPlace(p, i)]].element
    BY <1>3 DEF ElementAt
  <2>2. \A k \in 1..Len(p) : Items[k] = heap[p[k]].element
    BY <1>2 DEF ElementsOf
  <2> QED BY <1>3, <2>1, <2>2
<1>6. ASSUME i <= 0 PROVE ElementAtReference(ReferenceAt(i)) = ElementAt(i)
  <2>1. ReferenceAt(i) = head
    BY <1>6 DEF ReferenceAt
  <2> QED BY <2>1 DEF ElementAtReference, ElementAt
<1> QED BY <1>4, <1>5, <1>6

(* Each call does what dplist.h says of its own arguments. *)
THEOREM CallsAreDocumented == Spec => CallsAsDocumented
<1> DEFINE Calls ==
      /\ \A e \in Elements, i \in Indices : InsertAtIndex(e, i) => Documented!Insert(e, i)
      /\ \A i \in Indices : RemoveAtIndex(i) => Documented!RemoveIndex(i)
      /\ FreeList => Documented!Clear
      /\ FindMatch => Documented!Lookup(key)
      /\ \A i \in Indices : head # NULL =>
           /\ ElementAt(i) = Items[Documented!Clamp(i, Size - 1) + 1]
           /\ i <= 0 => ElementAtReference(ReferenceAt(i)) = ElementAt(i)
<1>1. ListInv => Calls
  <2> SUFFICES ASSUME ListInv PROVE Calls
    OBVIOUS
  <2>1. ASSUME NEW e \in Elements, NEW i \in Indices, InsertAtIndex(e, i)
        PROVE  Documented!Insert(e, i)
    BY <2>1, InsertStep
  <2>2. ASSUME NEW i \in Indices, RemoveAtIndex(i) PROVE Documented!RemoveIndex(i)
    BY <2>2, RemoveStep
  <2>3. FreeList => Documented!Clear
    BY FreeStep
  <2>4. FindMatch => Documented!Lookup(key)
    BY FindMatchStep
  <2>5. ASSUME NEW i \in Indices, head # NULL
        PROVE  /\ ElementAt(i) = Items[Documented!Clamp(i, Size - 1) + 1]
               /\ i <= 0 => ElementAtReference(ReferenceAt(i)) = ElementAt(i)
    BY <2>5, ElementAtIs
  <2> QED BY <2>1, <2>2, <2>3, <2>4, <2>5
<1>2. [][Calls]_listVars => CallsAsDocumented
  BY PTL DEF CallsAsDocumented
<1> HIDE DEF Calls
<1> QED BY <1>1, <1>2, ListInvariant, PTL DEF Spec

-----------------------------------------------------------------------------
(* The list of milestone1/ex2 beside it. *)

(* While the program lives, its nodes form a chain of their own with the same
   elements, none of them freed. *)
XHolds(r) ==
  /\ Chain(xheap, xhead, r)
  /\ ElementsOf(xheap, r) = Items
  /\ \A a \in Nodes(r) : a \notin xfreed

XInv ==
  ~crashed =>
    /\ xheap \in Seq(Cell) /\ xfreed \subseteq 1..Len(xheap) /\ ~xfault
    /\ \E r \in Seq(1..Len(xheap)) : XHolds(r)

(* A step with the exercise is a step of the list. *)
LEMMA XStepIsStep == [XNext]_allVars => [Next]_listVars
BY DEF XNext, XFind, Next, allVars

(* The loops of the exercise along its chain. *)
LEMMA XHoldsFacts ==
  ASSUME xheap \in Seq(Cell), NEW r, XHolds(r)
  PROVE  /\ Len(xheap) \in Nat /\ Len(r) \in Nat /\ Chain(xheap, xhead, r)
         /\ Ex!Items = Items /\ Ex!Size = Len(r) /\ Len(Items) = Len(r)
         /\ xhead = NULL <=> Len(r) = 0
         /\ Nodes(r) \subseteq 1..Len(xheap)
         /\ Items = ElementsOf(xheap, r)
         /\ \A k \in 1..Len(r) : Items[k] = xheap[r[k]].element
         /\ Items \in Seq(Elements)
<1>1. Len(xheap) \in Nat /\ Chain(xheap, xhead, r) /\ Items = ElementsOf(xheap, r)
  BY DEF XHolds
<1>2. Len(r) \in Nat /\ \A k \in 1..Len(r) : r[k] \in 1..Len(xheap)
  BY <1>1, ChainFits
<1>3. /\ Ex!Items = Items /\ Nodes(r) \subseteq 1..Len(xheap) /\ (xhead = NULL <=> Len(r) = 0)
  BY <1>1, ItemsIs, ExLoops
<1>4. Ex!Size = Len(r)
  BY <1>1, SizeIs, ExLoops
<1>5. \A k \in 1..Len(r) : xheap[r[k]].element \in Elements
  BY <1>2, CellFields
<1>6. /\ Len(Items) = Len(r) /\ \A k \in 1..Len(r) : Items[k] = xheap[r[k]].element
      /\ Items \in Seq(Elements)
  BY <1>1, <1>2, <1>5 DEF ElementsOf
<1> QED BY <1>1, <1>2, <1>3, <1>4, <1>6

(* A call that leaves the elements alone, or finds the exercise without any. *)
LEMMA XQuiet ==
  ASSUME XInv, UNCHANGED xVars, Items' = Items
  PROVE  XInv'
<1>1. UNCHANGED <<xheap, xhead, xfreed, xfault, crashed>>
  BY DEF xVars
<1> SUFFICES ASSUME ~crashed PROVE XInv'
  BY <1>1 DEF XInv
<1>2. PICK r \in Seq(1..Len(xheap)) : XHolds(r)
  BY DEF XInv
<1>3. XHolds(r)'
  BY <1>1, <1>2 DEF XHolds
<1> QED BY <1>1, <1>3 DEF XInv

LEMMA XEmpty ==
  ASSUME XInv, UNCHANGED <<xheap, xfreed, xfault, crashed>>, xhead' = NULL, Items' = <<>>
  PROVE  XInv'
<1> SUFFICES ASSUME ~crashed PROVE XInv'
  BY DEF XInv
<1> DEFINE r == <<>>
<1>1. Chain(xheap', xhead', r) /\ ElementsOf(xheap', r) = <<>> /\ Nodes(r) = {}
  BY DEF Chain, ElementsOf, Nodes
<1>2. XHolds(r)'
  BY <1>1 DEF XHolds
<1>3. r \in Seq(1..Len(xheap'))
  OBVIOUS
<1> QED BY <1>2, <1>3 DEF XInv

(* The insertions of the two lists are the same code. *)
LEMMA XInsertLinks ==
  ASSUME NEW e, NEW i, Ex!InsertAtIndex(e, i), ~xfault
  PROVE  \E T : /\ Linked(xheap, xhead, xheap', xhead', e, i, T)
                /\ T \cap xfreed = {} => ~xfault'
<1> USE DEF Ex!NULL, NULL
<1> DEFINE new == Len(xheap) + 1
           ref == Ex!ReferenceAt(i)
           before == xheap[ref].prev
<1>1. ref = RefOf(xheap, xhead, i) /\ Ex!Size = SizeOf(xheap, xhead)
  BY ExLoops
<1>2. Ex!InsertFirst(new, e) \/ Ex!InsertFront(new, e, i) \/ Ex!InsertMiddle(new, e, i)
      \/ Ex!InsertLast(new, e, i)
  BY DEF Ex!InsertAtIndex
<1>3. CASE Ex!InsertFirst(new, e)
  <2> DEFINE T == {}
  <2>1. Linked(xheap, xhead, xheap', xhead', e, i, T)
    BY <1>3 DEF Ex!InsertFirst, Linked, Ex!NewCell, NewCell
  <2>2. ~xfault'
    BY <1>3 DEF Ex!InsertFirst
  <2> QED BY <2>1, <2>2
<1>4. CASE Ex!InsertFront(new, e, i)
  <2> DEFINE T == {xhead}
  <2>1. Linked(xheap, xhead, xheap', xhead', e, i, T)
    BY <1>4 DEF Ex!InsertFront, Linked, Ex!NewCell, NewCell
  <2>2. T \cap xfreed = {} => ~xfault'
    BY <1>4 DEF Ex!InsertFront, Ex!Touch
  <2> QED BY <2>1, <2>2
<1>5. CASE Ex!InsertMiddle(new, e, i)
  <2> DEFINE T == {ref, before}
  <2>1. /\ xhead # NULL /\ 0 < i /\ i < Ex!Size /\ xhead' = xhead
        /\ xheap' = Append([xheap EXCEPT ![before].next = new, ![ref].prev = new],
                           NewCell(before, ref, e))
    BY <1>5 DEF Ex!InsertMiddle, Ex!NewCell, NewCell
  <2>2. T \cap xfreed = {} => ~xfault'
    BY <1>5 DEF Ex!InsertMiddle, Ex!Touch
  <2> HIDE DEF ref
  <2>3. Linked(xheap, xhead, xheap', xhead', e, i, T)
    BY <1>1, <2>1 DEF Linked
  <2> QED BY <2>2, <2>3
<1>6. CASE Ex!InsertLast(new, e, i)
  <2> DEFINE T == {ref}
  <2>1. /\ xhead # NULL /\ 0 < i /\ i >= Ex!Size /\ xhead' = xhead
        /\ xheap' = Append([xheap EXCEPT ![ref].next = new], NewCell(ref, NULL, e))
    BY <1>6 DEF Ex!InsertLast, Ex!NewCell, NewCell
  <2>2. T \cap xfreed = {} => ~xfault'
    BY <1>6 DEF Ex!InsertLast, Ex!Touch
  <2> HIDE DEF ref
  <2>3. Linked(xheap, xhead, xheap', xhead', e, i, T)
    BY <1>1, <2>1 DEF Linked
  <2> QED BY <2>2, <2>3
<1> QED BY <1>2, <1>3, <1>4, <1>5, <1>6

LEMMA XInsertStep ==
  ASSUME ListInv, XInv, ~crashed, NEW e \in Elements, NEW i \in Indices,
         InsertAtIndex(e, i), XInsert(e, i)
  PROVE  XInv'
<1>1. PICK r \in Seq(1..Len(xheap)) : XHolds(r)
  BY DEF XInv
<1>2. /\ xheap \in Seq(Cell) /\ ~xfault /\ xfreed \subseteq 1..Len(xheap)
      /\ Len(xheap) < MaxNodes /\ xfreed' = xfreed /\ i \in Int
  BY DEF XInv, XInsert, Ex!InsertAtIndex
<1>3. /\ Len(xheap) \in Nat /\ Len(r) \in Nat /\ Chain(xheap, xhead, r) /\ Len(Items) = Len(r)
      /\ Nodes(r) \subseteq 1..Len(xheap) /\ Items = ElementsOf(xheap, r) /\ Items \in Seq(Elements)
  BY <1>1, <1>2, XHoldsFacts
<1>4. PICK T : /\ Linked(xheap, xhead, xheap', xhead', e, i, T)
               /\ T \cap xfreed = {} => ~xfault'
  BY <1>2, XInsertLinks DEF XInsert
<1>5. PICK new : new = Len(xheap) + 1
  OBVIOUS
<1> DEFINE j == InsPlace(r, i)
           q == Ins(r, j, new)
<1>6. Written(xheap, xhead, r, xheap', xhead', e, j, T)
  BY <1>2, <1>3, <1>4, LinkedWrites
<1> HIDE DEF j
<1>7. /\ j \in 1..(Len(r) + 1) /\ xheap' \in Seq(Cell) /\ Len(xheap') = Len(xheap) + 1
      /\ T \subseteq Nodes(r)
  BY <1>6 DEF Written
<1>8. Chain(xheap', xhead', q)
  BY <1>2, <1>3, <1>5, <1>6, InsElements
<1>9. ElementsOf(xheap', q) = Ins(ElementsOf(xheap, r), j, e)
  BY <1>2, <1>3, <1>5, <1>6, InsElements
<1>10. \A a : a \in Nodes(q) <=> a \in Nodes(r) \/ a = new
  BY <1>3, <1>7, InsNodes
<1> HIDE DEF q
<1>11. Items' = Ins(Items, j, e)
  <2>1. Items' = Documented!InsertAt(Items, j, e)
    BY <1>3, InsertStep DEF Documented!Insert, Documented!Clamp, InsPlace, j
  <2>2. j \in 1..(Len(Items) + 1)
    BY <1>3, <1>7
  <2> QED BY <1>3, <2>1, <2>2, InsertAtIs
<1>12. ~xfault' /\ xfreed' \subseteq 1..Len(xheap')
  <2>1. T \cap xfreed = {}
    BY <1>1, <1>7 DEF XHolds
  <2> QED BY <1>2, <1>3, <1>4, <1>7, <2>1
<1>13. XHolds(q)'
  <2>1. ~ (new \in xfreed)
    BY <1>2, <1>3, <1>5
  <2>2. \A a \in Nodes(q) : a \notin xfreed'
    BY <1>1, <1>2, <1>10, <2>1 DEF XHolds
  <2> QED BY <1>3, <1>8, <1>9, <1>11, <2>2 DEF XHolds
<1>14. q \in Seq(1..Len(xheap'))
  BY <1>8 DEF Chain
<1> QED BY <1>7, <1>12, <1>13, <1>14 DEF XInv

(* Removing the first node: the back link of the next one dangles from here on,
   which a chain allows. *)
LEMMA XRemoveFirstChain ==
  ASSUME NEW r \in Seq(1..Len(xheap)), xheap \in Seq(Cell), ~xfault, XHolds(r), Len(r) # 0,
         XRemoveFirst
  PROVE  /\ xheap' \in Seq(Cell) /\ Len(xheap') = Len(xheap) /\ ~xfault'
         /\ xfreed' = xfreed \cup {r[1]}
         /\ Chain(xheap', xhead', Del(r, 1))
         /\ ElementsOf(xheap', Del(r, 1)) = Del(ElementsOf(xheap, r), 1)
<1>1. /\ Len(xheap) \in Nat /\ Len(r) \in Nat /\ Chain(xheap, xhead, r)
      /\ \A k \in 1..Len(r) : r[k] \in 1..Len(xheap)
      /\ xhead = r[1] /\ 1 \in 1..Len(r) /\ xhead \in Nodes(r)
  <2>1. Len(xheap) \in Nat /\ Chain(xheap, xhead, r)
    BY DEF XHolds
  <2>2. Len(r) \in Nat /\ \A k \in 1..Len(r) : r[k] \in 1..Len(xheap)
    BY <2>1, ChainFits
  <2>3. xhead = r[1] /\ 1 \in 1..Len(r)
    BY <2>1, <2>2 DEF Chain
  <2> QED BY <2>1, <2>2, <2>3 DEF Nodes
<1>2. /\ \A k \in 1..Len(r) : xheap[r[k]].next = IF k < Len(r) THEN r[k + 1] ELSE NULL
      /\ \A j, k \in 1..Len(r) : r[j] = r[k] => j = k
  BY <1>1 DEF Chain
<1>3. /\ xheap' = [xheap EXCEPT ![xhead].prev = NULL] /\ xhead' = xheap[xhead].next
      /\ xfreed' = xfreed \cup {r[1]} /\ xfault' = (xfault \/ xhead \in xfreed)
  BY <1>1 DEF XRemoveFirst
<1>4. /\ xheap' \in Seq(Cell) /\ Len(xheap') = Len(xheap)
      /\ \A a \in 1..Len(xheap) : /\ xheap'[a].prev = IF a = xhead THEN NULL ELSE xheap[a].prev
                                  /\ xheap'[a].next = xheap[a].next
                                  /\ xheap'[a].element = xheap[a].element
  <2>1. xhead \in 1..Len(xheap) /\ NULL \in 0..MaxNodes
    BY <1>1 DEF NULL
  <2> QED BY <1>3, <2>1, SetPrev
<1>5. ~xfault'
  BY <1>1, <1>3 DEF XHolds
<1>6. Chain(xheap', xhead', Del(r, 1))
  <2> DEFINE j == 1
  <2>1. xhead' = IF j > 1 THEN xhead ELSE IF Len(r) = 1 THEN NULL ELSE r[2]
    <3>1. xheap[r[1]].next = IF 1 < Len(r) THEN r[2] ELSE NULL
      BY <1>1, <1>2
    <3>2. Len(r) \in Nat /\ Len(r) # 0
      BY <1>1
    <3>3. 1 < Len(r) <=> Len(r) # 1
      <4>1. \A n \in Nat : n # 0 => (1 < n <=> n # 1)
        OBVIOUS
      <4> QED BY <3>2, <4>1
    <3>4. xhead' = xheap[r[1]].next
      BY <1>1, <1>3
    <3> QED BY <3>1, <3>3, <3>4
  <2>2. \A k \in 1..Len(r) : k # j =>
          xheap'[r[k]].next = IF k # j - 1 THEN xheap[r[k]].next
                              ELSE IF j < Len(r) THEN r[j + 1] ELSE NULL
    BY <1>1, <1>4
  <2>3. \A k \in 2..Len(r) : k # j /\ k # j + 1 => xheap'[r[k]].prev = xheap[r[k]].prev
    <3>1. ASSUME NEW k \in 2..Len(r) PROVE r[k] \in 1..Len(xheap) /\ r[k] # xhead
      <4>1. k \in 1..Len(r) /\ k # 1
        BY <1>1
      <4> QED BY <1>1, <1>2, <4>1
    <3> QED BY <1>4, <3>1
  <2>4. j \in 1..Len(r) /\ (j > 1 /\ j < Len(r) => xheap'[r[j + 1]].prev = r[j - 1])
    BY <1>1
  <2> HIDE DEF j
  <2>5. Chain(xheap', xhead', Del(r, j))
    BY <1>1, <1>4, <2>1, <2>2, <2>3, <2>4, RemoveChain
  <2> QED BY <2>5 DEF j
<1>7. ElementsOf(xheap', Del(r, 1)) = Del(ElementsOf(xheap, r), 1)
  <2>1. \A k \in 1..Len(r) : xheap'[r[k]].element = xheap[r[k]].element
    BY <1>1, <1>4
  <2> QED BY <1>1, <2>1, DelElements
<1> QED BY <1>3, <1>4, <1>5, <1>6, <1>7

(* Removing another node is the same as in Dplist, or the end of the program. *)
LEMMA XRemoveOtherChain ==
  ASSUME NEW r \in Seq(1..Len(xheap)), NEW i \in Int, i > 0, NEW j, j = RemPlace(r, i),
         xheap \in Seq(Cell), xfreed \subseteq 1..Len(xheap), ~xfault, XHolds(r), Len(r) # 0,
         XRemoveOther(i)
  PROVE  crashed' \/ /\ xheap' \in Seq(Cell) /\ Len(xheap') = Len(xheap) /\ ~xfault'
                     /\ xfreed' = xfreed \cup {r[j]}
                     /\ Chain(xheap', xhead', Del(r, j))
                     /\ ElementsOf(xheap', Del(r, j)) = Del(ElementsOf(xheap, r), j)
<1> DEFINE ref    == Ex!ReferenceAt(i)
           before == xheap[ref].prev
           after  == xheap[ref].next
           count  == IF i < Ex!Size THEN i ELSE Ex!Size - 1
<1>1. /\ Len(xheap) \in Nat /\ Len(r) \in Nat /\ Chain(xheap, xhead, r) /\ Ex!Size = Len(r)
      /\ Nodes(r) \subseteq 1..Len(xheap)
  BY XHoldsFacts
<1>2. j \in 1..Len(r) /\ ref = r[j]
  BY <1>1, RemPlaceIs, ExLoops
<1>3. CASE before = NULL \/ (after = NULL /\ count # i)
  <2>1. Dies
    BY <1>3 DEF XRemoveOther
  <2> QED BY <2>1 DEF Dies
<1>4. CASE ~ (before = NULL \/ (after = NULL /\ count # i))
  <2>1. /\ xheap' = [k \in 1..Len(xheap) |->
                      [xheap[k] EXCEPT !.next = IF k = before THEN after ELSE @,
                                       !.prev = IF k = after THEN before ELSE @]]
        /\ xfreed' = xfreed \cup {ref} /\ xhead' = xhead
        /\ xfault' = (xfault \/ {ref, before, after} \cap xfreed # {})
    BY <1>4 DEF XRemoveOther
  <2>2. Unlinked(xheap, xheap', r[j])
    BY <1>2, <2>1 DEF Unlinked
  <2>3. j # 1
    <3>1. SUFFICES ASSUME j = 1 PROVE FALSE
      OBVIOUS
    <3>2. Len(r) = 1
      BY <1>1, <3>1 DEF RemPlace
    <3>3. xheap[r[1]].next = NULL
      BY <1>1, <3>2 DEF Chain
    <3>4. after = NULL /\ count # i
      <4> HIDE DEF ref
      <4> QED BY <1>1, <1>2, <3>1, <3>2, <3>3
    <3> QED BY <1>4, <3>4
  <2>4. j = 1 => xheap[r[j]].prev = NULL
    BY <2>3
  <2>5. xhead' = IF xheap[r[j]].prev = NULL THEN xheap[r[j]].next ELSE xhead
    BY <1>2, <1>4, <2>1
  <2>6. /\ xheap \in Seq(Cell) /\ j \in 1..Len(r) /\ Chain(xheap, xhead, r)
        /\ Unlinked(xheap, xheap', r[j]) /\ (j = 1 => xheap[r[j]].prev = NULL)
        /\ xhead' = IF xheap[r[j]].prev = NULL THEN xheap[r[j]].next ELSE xhead
    BY <1>1, <1>2, <2>2, <2>4, <2>5
  <2>7. xheap' \in Seq(Cell) /\ Len(xheap') = Len(xheap) /\ Chain(xheap', xhead', Del(r, j))
    <3>1. Chain(xheap', xhead', Del(r, j))
      BY <2>6, UnlinkedChain
    <3>2. ElementsOf(xheap', Del(r, j)) = Del(ElementsOf(xheap, r), j)
      BY <2>6, <3>1, UnlinkedChain
    <3>3. xheap' \in Seq(Cell)
      BY <2>6, <3>1, <3>2, UnlinkedChain
    <3>4. Len(xheap') = Len(xheap)
      BY <2>6, <3>1, <3>2, UnlinkedChain
    <3> QED BY <3>1, <3>3, <3>4
  <2>9. ElementsOf(xheap', Del(r, j)) = Del(ElementsOf(xheap, r), j)
    BY <2>6, <2>7, UnlinkedChain
  <2>8. ~xfault'
    <3>1. r[j] \in Nodes(r) /\ xheap[r[j]].prev \in Nodes(r) \cup {NULL}
      BY <2>6, UnlinkedChain
    <3>2. xheap[r[j]].next \in Nodes(r) \cup {NULL}
      BY <2>6, UnlinkedChain
    <3>3. NULL \notin xfreed /\ \A a \in Nodes(r) : a \notin xfreed
      BY <1>1 DEF NULL, XHolds
    <3>4. {r[j], xheap[r[j]].prev, xheap[r[j]].next} \cap xfreed = {}
      BY <3>1, <3>2, <3>3
    <3> HIDE DEF ref
    <3> QED BY <1>2, <2>1, <3>4
  <2> QED BY <1>2, <2>1, <2>7, <2>8, <2>9
<1> QED BY <1>3, <1>4

LEMMA XRemoveStep ==
  ASSUME ListInv, XInv, ~crashed, NEW i \in Indices, RemoveAtIndex(i), XRemove(i)
  PROVE  XInv'
<1> SUFFICES ASSUME ~crashed' PROVE XInv'
  BY DEF XInv
<1>1. PICK r \in Seq(1..Len(xheap)) : XHolds(r)
  BY DEF XInv
<1>2. xheap \in Seq(Cell) /\ ~xfault /\ xfreed \subseteq 1..Len(xheap) /\ i \in Int
  BY DEF XInv
<1>3. /\ Len(xheap) \in Nat /\ Len(r) \in Nat /\ Chain(xheap, xhead, r) /\ Len(Items) = Len(r)
      /\ Nodes(r) \subseteq 1..Len(xheap) /\ Items = ElementsOf(xheap, r) /\ Items \in Seq(Elements)
  BY <1>1, <1>2, XHoldsFacts
<1>4. Documented!RemoveIndex(i)
  BY RemoveStep
<1>5. Len(r) # 0
  BY <1>3, <1>4 DEF Documented!RemoveIndex
<1>6. PICK j : j = RemPlace(r, i)
  OBVIOUS
<1>7. j \in 1..Len(r)
  BY <1>2, <1>3, <1>5, <1>6, RemPlaceIs
<1> DEFINE q == Del(r, j)
<1>8. /\ xheap' \in Seq(Cell) /\ Len(xheap') = Len(xheap) /\ ~xfault'
      /\ xfreed' = xfreed \cup {r[j]}
      /\ Chain(xheap', xhead', q)
      /\ ElementsOf(xheap', q) = Del(ElementsOf(xheap, r), j)
  <2>1. CASE i <= 0
    <3>1. j = 1
      BY <1>2, <1>3, <1>5, <1>6, <2>1 DEF RemPlace
    <3>2. XRemoveFirst
      BY <2>1 DEF XRemove, IsFirst
    <3> QED BY <1>1, <1>2, <1>5, <3>1, <3>2, XRemoveFirstChain
  <2>2. CASE ~ (i <= 0)
    <3>1. i > 0 /\ XRemoveOther(i)
      BY <1>2, <2>2 DEF XRemove, IsFirst
    <3> QED BY <1>1, <1>2, <1>5, <1>6, <3>1, XRemoveOtherChain
  <2> QED BY <2>1, <2>2
<1>9. \A a : a \in Nodes(q) <=> a \in Nodes(r) /\ a # r[j]
  BY <1>3, <1>7, DelNodes
<1> HIDE DEF q
<1>10. Items' = Del(Items, j)
  <2>1. j = Documented!Clamp(i, Len(Items) - 1) + 1
    BY <1>3, <1>6 DEF RemPlace, Documented!Clamp
  <2>2. Items' = Documented!RemoveAt(Items, j)
    BY <1>4, <2>1 DEF Documented!RemoveIndex
  <2>3. j \in 1..Len(Items)
    BY <1>3, <1>7
  <2> QED BY <1>3, <2>2, <2>3, RemoveAtIs
<1>11. xfreed' \subseteq 1..Len(xheap')
  <2>1. r[j] \in Nodes(r)
    BY <1>7 DEF Nodes
  <2> QED BY <1>2, <1>3, <1>8, <2>1
<1>12. XHolds(q)'
  <2>1. \A a \in Nodes(q) : a \notin xfreed'
    BY <1>1, <1>8, <1>9 DEF XHolds
  <2> QED BY <1>3, <1>8, <1>10, <2>1 DEF XHolds
<1>13. q \in Seq(1..Len(xheap'))
  BY <1>8 DEF Chain
<1> QED BY <1>8, <1>11, <1>12, <1>13 DEF XInv

LEMMA XInitInv == XInit => XInv
<1> SUFFICES ASSUME XInit PROVE XInv
  OBVIOUS
<1> DEFINE r == <<>>
<1>1. Items = <<>>
  BY InitList DEF XInit, Documented!Init
<1>2. xheap = <<>> /\ xhead = NULL /\ xfreed = {} /\ ~xfault
  BY DEF XInit
<1>3. Chain(xheap, xhead, r) /\ ElementsOf(xheap, r) = <<>> /\ Nodes(r) = {}
  BY <1>2 DEF Chain, ElementsOf, Nodes
<1>4. XHolds(r) /\ r \in Seq(1..Len(xheap))
  BY <1>1, <1>3 DEF XHolds
<1>5. xheap \in Seq(Cell)
  BY <1>2
<1> QED BY <1>2, <1>4, <1>5 DEF XInv

LEMMA XStep == ListInv /\ XInv /\ [XNext]_allVars => XInv'
<1> SUFFICES ASSUME ListInv, XInv, [XNext]_allVars PROVE XInv'
  OBVIOUS
<1>1. CASE crashed /\ UNCHANGED xVars
  BY <1>1 DEF XInv, xVars
<1>2. CASE ~crashed /\ Create /\ xhead' = NULL /\ UNCHANGED <<xheap, xfreed, xfault, crashed>>
  <2>1. Items' = Items
    BY <1>2, CreateStep
  <2>2. Items = <<>>
    <3>1. head = NULL
      BY <1>2 DEF Create, ListInv, Holds
    <3> QED BY <3>1, EmptyItems DEF ListInv
  <2> QED BY <1>2, <2>1, <2>2, XEmpty
<1>3. CASE ~crashed /\ FreeList /\ XFree
  <2>1. Items' = <<>>
    BY <1>3, FreeStep DEF Documented!Clear
  <2>2. CASE xhead = NULL
    <3>1. UNCHANGED <<xheap, xhead, xfreed, xfault, crashed>>
      BY <1>3, <2>2 DEF XFree, xVars
    <3> QED BY <2>1, <2>2, <3>1, XEmpty
  <2>3. CASE xhead # NULL
    BY <1>3, <2>3 DEF XFree, Dies, XInv
  <2> QED BY <2>2, <2>3
<1>4. ASSUME NEW e \in Elements, NEW i \in Indices, ~crashed, InsertAtIndex(e, i), XInsert(e, i)
      PROVE  XInv'
  BY <1>4, XInsertStep
<1>5. ASSUME NEW i \in Indices, ~crashed, RemoveAtIndex(i), XRemove(i)
      PROVE  XInv'
  BY <1>5, XRemoveStep
<1>6. ASSUME NEW e \in Elements, FindStart(e), UNCHANGED xVars
      PROVE  XInv'
  BY <1>6, FindStartStep, XQuiet
<1>7. CASE Find /\ UNCHANGED xVars
  <2>1. Items' = Items
    BY <1>7, FindMatchStep, FindNextStep DEF Find, Documented!Lookup
  <2> QED BY <1>7, <2>1, XQuiet
<1>8. CASE UNCHANGED allVars
  <2>1. UNCHANGED listVars /\ UNCHANGED xVars
    BY <1>8 DEF allVars
  <2> QED BY <2>1, ListStutter, XQuiet
<1> QED BY <1>1, <1>2, <1>3, <1>4, <1>5, <1>6, <1>7, <1>8 DEF XNext, XFind, Along

(* The exercise's own search finds the first match too. *)
LEMMA XIndexIs ==
  ASSUME xheap \in Seq(Cell), NEW r, XHolds(r), NEW e
  PROVE  XIndexOf(e) = FirstOf(Items, e) - 1
<1> DEFINE found == {k \in 0..(Ex!Size - 1) : xheap[Ex!Node[k]].element = e}
<1>1. /\ Len(xheap) \in Nat /\ Len(r) \in Nat /\ Chain(xheap, xhead, r)
      /\ Ex!Size = Len(r) /\ Len(Items) = Len(r) /\ Items \in Seq(Elements)
      /\ \A k \in 1..Len(r) : Items[k] = xheap[r[k]].element
  BY XHoldsFacts
<1>2. \A k \in Nat : Ex!Node[k] = IF k < Len(r) THEN r[k + 1] ELSE NULL
  BY <1>1, NodeIs, ExLoops
<1>3. found \subseteq Nat /\ \A k : k \in found <=> k \in 0..(Len(r) - 1) /\ Items[k + 1] = e
  <2>1. ASSUME NEW k \in 0..(Len(r) - 1) PROVE xheap[Ex!Node[k]].element = Items[k + 1]
    <3>1. k \in Nat /\ k < Len(r) /\ k + 1 \in 1..Len(r)
      BY <1>1
    <3> QED BY <1>1, <1>2, <3>1
  <2>2. found = {k \in 0..(Len(r) - 1) : xheap[Ex!Node[k]].element = e}
    BY <1>1
  <2>3. \A k : k \in found <=> k \in 0..(Len(r) - 1) /\ xheap[Ex!Node[k]].element = e
    BY <2>2
  <2> HIDE DEF found
  <2>4. \A k : k \in found <=> k \in 0..(Len(r) - 1) /\ Items[k + 1] = e
    BY <2>1, <2>3
  <2> QED BY <2>4
<1>4. XIndexOf(e) = IF found = {} THEN -1 ELSE CHOOSE k \in found : \A j \in found : k <= j
  BY DEF XIndexOf
<1> HIDE DEF found
<1>5. CASE found = {}
  <2>1. \A k \in 1..Len(Items) : Items[k] # e
    <3>1. ASSUME NEW k \in 1..Len(Items), Items[k] = e PROVE FALSE
      <4>1. k - 1 \in 0..(Len(r) - 1) /\ (k - 1) + 1 = k
        BY <1>1
      <4>2. k - 1 \in found
        BY <1>3, <3>1, <4>1
      <4> QED BY <1>5, <4>2
    <3> QED BY <3>1
  <2>2. FirstOf(Items, e) = 0
    BY <1>1, <2>1, FirstIs
  <2> QED BY <1>4, <1>5, <2>2
<1>6. CASE found # {}
  <2>1. PICK m \in found : \A j \in found : m <= j
    BY <1>3, <1>6, Least
  <2>2. (CHOOSE k \in found : \A j \in found : k <= j) = m
    <3>1. \A k \in found : (\A j \in found : k <= j) => k = m
      BY <1>3, <2>1
    <3> QED BY <2>1, <3>1
  <2>3. m \in Nat /\ m + 1 \in 1..Len(Items) /\ Items[m + 1] = e
    <3>1. m \in 0..(Len(r) - 1) /\ Items[m + 1] = e
      BY <1>3, <2>1
    <3> QED BY <1>1, <3>1
  <2>4. \A k \in 1..(m + 1 - 1) : Items[k] # e
    <3>1. ASSUME NEW k \in 1..(m + 1 - 1), Items[k] = e PROVE FALSE
      <4>1. k - 1 \in 0..(Len(r) - 1) /\ (k - 1) + 1 = k /\ ~ (m <= k - 1)
        BY <1>1, <2>3
      <4>2. k - 1 \in found
        BY <1>3, <3>1, <4>1
      <4> QED BY <2>1, <4>1, <4>2
    <3> QED BY <3>1
  <2>5. FirstOf(Items, e) = m + 1
    BY <1>1, <2>3, <2>4, FirstIs
  <2> QED BY <1>4, <1>6, <2>2, <2>3, <2>5
<1> QED BY <1>5, <1>6

LEMMA XInvAgrees == ListInv /\ XInv => ExerciseAgrees
<1> SUFFICES ASSUME ListInv, XInv, ~crashed PROVE ExerciseAgrees
  BY DEF ExerciseAgrees
<1>1. PICK p \in Seq(1..Len(heap)) : Holds(p)
  BY DEF ListInv
<1>2. PICK r \in Seq(1..Len(xheap)) : XHolds(r)
  BY DEF XInv
<1>3. /\ Len(heap) \in Nat /\ Len(p) \in Nat /\ Items = ElementsOf(heap, p) /\ Len(Items) = Len(p)
      /\ head = NULL <=> Len(p) = 0
      /\ Chain(heap, head, p)
  BY <1>1, HoldsFacts DEF ListInv, Holds
<1>4. /\ Len(xheap) \in Nat /\ Len(r) \in Nat /\ Ex!Items = Items /\ Len(Items) = Len(r)
      /\ xhead = NULL <=> Len(r) = 0
      /\ Chain(xheap, xhead, r)
      /\ \A k \in 1..Len(r) : Items[k] = xheap[r[k]].element
  BY <1>2, XHoldsFacts DEF XInv
<1>5. ASSUME NEW i \in Indices PROVE Ex!ElementAt(i) = ElementAt(i)
  <2>1. CASE Len(p) = 0
    BY <1>3, <1>4, <2>1 DEF ElementAt, Ex!ElementAt, Ex!NULL, NULL
  <2>2. CASE Len(p) # 0
    <3>1. RemPlace(r, i) \in 1..Len(r) /\ Ex!ReferenceAt(i) = r[RemPlace(r, i)]
      BY <1>3, <1>4, <2>2, RemPlaceIs, ExLoops
    <3>2. RemPlace(p, i) \in 1..Len(p) /\ ReferenceAt(i) = p[RemPlace(p, i)]
      BY <1>3, <2>2, RemPlaceIs, Loops
    <3>3. RemPlace(r, i) = RemPlace(p, i)
      BY <1>3, <1>4 DEF RemPlace
    <3>4. ElementAt(i) = heap[ReferenceAt(i)].element
      BY <1>3, <2>2 DEF ElementAt
    <3>5. Ex!ElementAt(i) = xheap[Ex!ReferenceAt(i)].element
      <4>1. xhead # 0
        BY <1>3, <1>4, <2>2 DEF NULL
      <4> QED BY <4>1 DEF Ex!ElementAt, Ex!NULL
    <3>6. \A k \in 1..Len(p) : Items[k] = heap[p[k]].element
      BY <1>3 DEF ElementsOf
    <3> QED BY <1>4, <3>1, <3>2, <3>3, <3>4, <3>5, <3>6
  <2> QED BY <2>1, <2>2
<1>6. ASSUME NEW e \in Elements
      PROVE  XIndexOf(e) = (Documented!SelectInSeq(Items, LAMBDA x : x = e)) - 1
  <2>1. XIndexOf(e) = FirstOf(Items, e) - 1
    BY <1>2, XIndexIs DEF XInv
  <2> QED BY <2>1 DEF FirstOf, Documented!SelectInSeq, Documented!Min
<1> QED BY <1>4, <1>5, <1>6 DEF ExerciseAgrees, XInv

(* As long as it lives the exercise holds the same list, answers for every index
   and every element alike, and uses no freed node, though the back link of its
   first node may dangle. *)
THEOREM ExerciseIsTheList == XSpec => []ExerciseAgrees
<1>1. XInit => Init
  BY DEF XInit
<1>2. XSpec => []ListInv
  BY <1>1, XStepIsStep, ListInvariant, PTL DEF XSpec
<1>3. XSpec => []XInv
  BY <1>2, XInitInv, XStep, PTL DEF XSpec
<1> QED BY <1>2, <1>3, XInvAgrees, PTL
=============================================================================
