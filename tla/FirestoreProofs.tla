--------------------------- MODULE FirestoreProofs ---------------------------
(***************************************************************************)
(* Lemmas about the SDK as the app sees it (Firestore).                    *)
(*                                                                         *)
(* The app keeps one fact in two documents by a chain of two writes: the   *)
(* first is queued at once, the second by the completion of the first.     *)
(* UserService.follow writes `following`, then `followers`; likePost       *)
(* writes post-likes, then user-likes.  The second document lags behind    *)
(* the first, and what it will end up as is decided by the last completion *)
(* that waits for the main thread; when none does, by the last second      *)
(* write in the queue; else by the document itself.  MirrorAt says that it *)
(* will agree with the first document X of a chain whose second is Y, on a *)
(* device with mutation queue q and main queue m.                          *)
(***************************************************************************)
EXTENDS Firestore, SequenceTheorems, FiniteSetTheorems, WellFoundedInduction, TLAPS

-----------------------------------------------------------------------------
\* A chain c: the collections of its two writes, and the key of their documents.
IsAck(b, c)    == b.type = "ack" /\ b.w.coll = c.first /\ b.w.key = c.key
IsSecond(w, c) == w.coll = c.second /\ w.key = c.key

Acks(m, c)    == {i \in DOMAIN m : IsAck(m[i], c)}
Seconds(q, c) == {i \in DOMAIN q : IsSecond(q[i], c)}

MirrorAt(q, m, X, Y, c) ==
    /\ \A i \in Acks(m, c) : (\A j \in Acks(m, c) : j <= i) => (m[i].w.op = "set" <=> X)
    /\ Acks(m, c) = {} => \A i \in Seconds(q, c) :
            (\A j \in Seconds(q, c) : j <= i) => (q[i].op = "set" <=> X)
    /\ Acks(m, c) = {} /\ Seconds(q, c) = {} => (X <=> Y)

\* A first write of c stored with a completion waiting: its ack is the last.
LEMMA MirrorFirstStored ==
    ASSUME NEW S, NEW m \in Seq(S), NEW b \in S, NEW q, NEW X, NEW Y, NEW c,
           IsAck(b, c), b.w.op = "set" <=> X
    PROVE  MirrorAt(q, Append(m, b), X, Y, c)
<1> DEFINE n == Append(m, b)
<1>1. /\ DOMAIN n = 1..(Len(m) + 1) /\ Len(m) \in Nat
      /\ n[Len(m) + 1] = b
    BY AppendProperties, LenProperties
<1> HIDE DEF n
<1>2. Len(m) + 1 \in Acks(n, c)
    BY <1>1 DEF Acks
<1>3. \A i \in Acks(n, c) : i \in 1..(Len(m) + 1)
    BY <1>1 DEF Acks
<1>4. \A i \in Acks(n, c) : (\A j \in Acks(n, c) : j <= i) => i = Len(m) + 1
    BY <1>1, <1>2, <1>3
<1> QED BY <1>1, <1>2, <1>4 DEF MirrorAt, n

\* Blocks that are not acks of first writes of c do not matter.
LEMMA MirrorAppendBlock ==
    ASSUME NEW S, NEW m \in Seq(S), NEW b \in S, NEW q, NEW X, NEW Y, NEW c,
           ~IsAck(b, c), MirrorAt(q, m, X, Y, c)
    PROVE  MirrorAt(q, Append(m, b), X, Y, c)
<1> DEFINE n == Append(m, b)
<1>1. /\ DOMAIN n = 1..(Len(m) + 1) /\ Len(m) \in Nat /\ DOMAIN m = 1..Len(m)
      /\ n[Len(m) + 1] = b /\ \A i \in 1..Len(m) : n[i] = m[i]
    BY AppendProperties, LenProperties
<1> HIDE DEF n
<1>2. Acks(n, c) = Acks(m, c) /\ \A i \in Acks(m, c) : n[i] = m[i]
    BY <1>1 DEF Acks
<1> QED BY <1>2 DEF MirrorAt, n

\* Nor do queued writes that are not second writes of c.
LEMMA MirrorAppendWrites ==
    ASSUME NEW S, NEW q \in Seq(S), NEW ws \in Seq(S), NEW m, NEW X, NEW Y, NEW c,
           \A i \in DOMAIN ws : ~IsSecond(ws[i], c), MirrorAt(q, m, X, Y, c)
    PROVE  MirrorAt(q \o ws, m, X, Y, c)
<1> DEFINE r == q \o ws
<1>1. /\ DOMAIN r = 1..(Len(q) + Len(ws)) /\ DOMAIN q = 1..Len(q) /\ DOMAIN ws = 1..Len(ws)
      /\ Len(q) \in Nat /\ Len(ws) \in Nat
      /\ \A i \in DOMAIN r : r[i] = IF i <= Len(q) THEN q[i] ELSE ws[i - Len(q)]
    BY ConcatProperties, LenProperties
<1> HIDE DEF r
<1>2. \A i \in DOMAIN r : ~(i <= Len(q)) => i - Len(q) \in DOMAIN ws
    BY <1>1
<1>3. Seconds(r, c) = Seconds(q, c) /\ \A i \in Seconds(q, c) : r[i] = q[i]
    BY <1>1, <1>2 DEF Seconds
<1> QED BY <1>3 DEF MirrorAt, r

\* A block that is not an ack of a first write of c runs.
LEMMA MirrorRunOther ==
    ASSUME NEW S, NEW m \in Seq(S), m # << >>, NEW q, NEW X, NEW Y, NEW c,
           ~IsAck(Head(m), c), MirrorAt(q, m, X, Y, c)
    PROVE  MirrorAt(q, Tail(m), X, Y, c)
<1> DEFINE n == Tail(m)
<1>1. /\ Len(m) \in Nat /\ DOMAIN m = 1..Len(m) /\ DOMAIN n = 1..(Len(m) - 1) /\ m[1] = Head(m)
      /\ Len(m) > 0 /\ \A i \in DOMAIN n : n[i] = m[i + 1]
    BY HeadTailProperties, LenProperties, EmptySeq
<1> HIDE DEF n
<1>2. \A i \in Acks(n, c) : i + 1 \in Acks(m, c) /\ n[i] = m[i + 1]
    BY <1>1 DEF Acks
<1>3. \A i \in Acks(m, c) : i - 1 \in Acks(n, c)
    BY <1>1 DEF Acks
<1>4. Acks(n, c) = {} <=> Acks(m, c) = {}
    BY <1>2, <1>3
<1>5. Acks(n, c) \subseteq Nat /\ Acks(m, c) \subseteq Nat
    BY <1>1 DEF Acks
<1>6. \A i \in Acks(n, c) : (\A j \in Acks(n, c) : j <= i) => (\A j \in Acks(m, c) : j <= i + 1)
    BY <1>3, <1>5
<1> QED BY <1>2, <1>4, <1>6 DEF MirrorAt, n

\* The ack of a first write of c runs and issues the second write of c.
LEMMA MirrorSecondIssued ==
    ASSUME NEW S, NEW m \in Seq(S), m # << >>, NEW W, NEW q \in Seq(W), NEW w \in W,
           NEW X, NEW Y, NEW c,
           IsAck(Head(m), c), IsSecond(w, c), w.op = Head(m).w.op, MirrorAt(q, m, X, Y, c)
    PROVE  MirrorAt(q \o <<w>>, Tail(m), X, Y, c)
<1> DEFINE n == Tail(m)
           r == q \o <<w>>
<1>1. /\ Len(m) \in Nat /\ DOMAIN m = 1..Len(m) /\ DOMAIN n = 1..(Len(m) - 1) /\ m[1] = Head(m)
      /\ Len(m) > 0 /\ \A i \in DOMAIN n : n[i] = m[i + 1]
    BY HeadTailProperties, LenProperties, EmptySeq
<1>2. /\ DOMAIN r = 1..(Len(q) + 1) /\ Len(q) \in Nat /\ r[Len(q) + 1] = w
    OBVIOUS
<1> HIDE DEF n, r
<1>3. \A i \in Acks(n, c) : i + 1 \in Acks(m, c) /\ n[i] = m[i + 1]
    BY <1>1 DEF Acks
<1>4. \A i \in Acks(m, c) : i = 1 \/ i - 1 \in Acks(n, c)
    BY <1>1 DEF Acks
<1>5. Acks(n, c) \subseteq Nat /\ Acks(m, c) \subseteq Nat
    BY <1>1 DEF Acks
<1>6. \A i \in Acks(n, c) : (\A j \in Acks(n, c) : j <= i) => (\A j \in Acks(m, c) : j <= i + 1)
    BY <1>4, <1>5
<1>7. Acks(n, c) = {} => (w.op = "set" <=> X)
  <2> SUFFICES ASSUME Acks(n, c) = {} PROVE w.op = "set" <=> X
    OBVIOUS
  <2>1. 1 \in Acks(m, c) /\ \A j \in Acks(m, c) : j = 1
    BY <1>1, <1>4 DEF Acks
  <2> QED BY <1>1, <2>1 DEF MirrorAt
<1>8. Len(q) + 1 \in Seconds(r, c) /\ \A i \in Seconds(r, c) : i \in 1..(Len(q) + 1)
    BY <1>2 DEF Seconds
<1>9. \A i \in Seconds(r, c) : (\A j \in Seconds(r, c) : j <= i) => i = Len(q) + 1
    BY <1>2, <1>8
<1>10. Seconds(r, c) # {}
    BY <1>8
<1>11. \A i \in Acks(n, c) : (\A j \in Acks(n, c) : j <= i) => (n[i].w.op = "set" <=> X)
    BY <1>3, <1>6 DEF MirrorAt
<1> QED BY <1>2, <1>7, <1>9, <1>10, <1>11 DEF MirrorAt, n, r

\* A write that is not a second write of c leaves the queue.
LEMMA MirrorDecideOther ==
    ASSUME NEW S, NEW q \in Seq(S), q # << >>, NEW m, NEW X, NEW Y, NEW c,
           ~IsSecond(Head(q), c), MirrorAt(q, m, X, Y, c)
    PROVE  MirrorAt(Tail(q), m, X, Y, c)
<1> DEFINE r == Tail(q)
<1>1. /\ Len(q) \in Nat /\ DOMAIN q = 1..Len(q) /\ DOMAIN r = 1..(Len(q) - 1) /\ q[1] = Head(q)
      /\ Len(q) > 0 /\ \A i \in DOMAIN r : r[i] = q[i + 1]
    BY HeadTailProperties, LenProperties, EmptySeq
<1> HIDE DEF r
<1>2. \A i \in Seconds(r, c) : i + 1 \in Seconds(q, c) /\ r[i] = q[i + 1]
    BY <1>1 DEF Seconds
<1>3. \A i \in Seconds(q, c) : i - 1 \in Seconds(r, c)
    BY <1>1 DEF Seconds
<1>4. Seconds(r, c) = {} <=> Seconds(q, c) = {}
    BY <1>2, <1>3
<1>5. Seconds(r, c) \subseteq Nat /\ Seconds(q, c) \subseteq Nat
    BY <1>1 DEF Seconds
<1>6. \A i \in Seconds(r, c) :
        (\A j \in Seconds(r, c) : j <= i) => (\A j \in Seconds(q, c) : j <= i + 1)
    BY <1>3, <1>5
<1> QED BY <1>2, <1>4, <1>6 DEF MirrorAt, r

\* A second write of c is stored.
LEMMA MirrorSecondStored ==
    ASSUME NEW S, NEW q \in Seq(S), q # << >>, NEW m, NEW X, NEW Y, NEW Z, NEW c,
           IsSecond(Head(q), c), Head(q).op = "set" <=> Z, MirrorAt(q, m, X, Y, c)
    PROVE  MirrorAt(Tail(q), m, X, Z, c)
<1> DEFINE r == Tail(q)
<1>1. /\ Len(q) \in Nat /\ DOMAIN q = 1..Len(q) /\ DOMAIN r = 1..(Len(q) - 1) /\ q[1] = Head(q)
      /\ Len(q) > 0 /\ \A i \in DOMAIN r : r[i] = q[i + 1]
    BY HeadTailProperties, LenProperties, EmptySeq
<1> HIDE DEF r
<1>2. \A i \in Seconds(r, c) : i + 1 \in Seconds(q, c) /\ r[i] = q[i + 1]
    BY <1>1 DEF Seconds
<1>3. \A i \in Seconds(q, c) : i = 1 \/ i - 1 \in Seconds(r, c)
    BY <1>1 DEF Seconds
<1>4. Seconds(r, c) \subseteq Nat /\ Seconds(q, c) \subseteq Nat
    BY <1>1 DEF Seconds
<1>5. \A i \in Seconds(r, c) :
        (\A j \in Seconds(r, c) : j <= i) => (\A j \in Seconds(q, c) : j <= i + 1)
    BY <1>3, <1>4
<1>6. Acks(m, c) = {} /\ Seconds(r, c) = {} => (X <=> Z)
  <2> SUFFICES ASSUME Acks(m, c) = {}, Seconds(r, c) = {} PROVE X <=> Z
    OBVIOUS
  <2>1. 1 \in Seconds(q, c) /\ \A j \in Seconds(q, c) : j = 1
    BY <1>1, <1>3 DEF Seconds
  <2> QED BY <1>1, <2>1 DEF MirrorAt
<1> QED BY <1>2, <1>5, <1>6 DEF MirrorAt, r

\* The device dies while no ack of c waits.
LEMMA MirrorKilled ==
    ASSUME NEW S, NEW q \in Seq(S), NEW m, NEW X, NEW Y, NEW c, Acks(m, c) = {},
           \A i \in DOMAIN q : /\ Forgotten(q)[i].coll = q[i].coll
                               /\ Forgotten(q)[i].key = q[i].key
                               /\ Forgotten(q)[i].op = q[i].op,
           MirrorAt(q, m, X, Y, c)
    PROVE  MirrorAt(Forgotten(q), << >>, X, Y, c)
<1>1. Seconds(Forgotten(q), c) = Seconds(q, c) /\ DOMAIN Forgotten(q) = DOMAIN q
    BY DEF Seconds, IsSecond, Forgotten
<1>2. Acks(<< >>, c) = {}
    BY DEF Acks
<1>3. \A i \in Seconds(q, c) : Forgotten(q)[i].op = q[i].op
    BY DEF Seconds
<1> QED BY <1>1, <1>2, <1>3 DEF MirrorAt

-----------------------------------------------------------------------------
\* The positions of some blocks or writes in a queue, if there are any, have a
\* last one.
LEMMA HasLast ==
    ASSUME NEW n \in Nat, NEW S \in SUBSET (1..n), S # {}
    PROVE  \E i \in S : \A j \in S : j <= i
<1> DEFINE From(i) == {j \in S : j >= i}
           T == {From(i) : i \in S}
<1>1. IsWellFoundedOn(StrictSubsetOrdering(S), FiniteSubsetsOf(S))
  BY FS_StrictSubsetOrderingWellFounded
<1>2. T \subseteq FiniteSubsetsOf(S) /\ T # {}
  <2>1. IsFiniteSet(1..n)
    BY FS_Interval
  <2>2. IsFiniteSet(S)
    BY <2>1, FS_Subset
  <2>3. \A i \in S : From(i) \subseteq S /\ IsFiniteSet(From(i))
    BY <2>2, FS_Subset
  <2> QED
    BY <2>3 DEF FiniteSubsetsOf
<1>3. PICK A \in T : \A B \in T : ~(<<B, A>> \in StrictSubsetOrdering(S))
  <2> HIDE DEF T
  <2> QED
    BY <1>1, <1>2, WFMin
<1>4. PICK i \in S : A = From(i)
  OBVIOUS
<1>5. ASSUME NEW j \in S, j > i PROVE FALSE
  <2>1. i \in Int /\ j \in Int /\ \A k \in S : k \in Int
    OBVIOUS
  <2>2. \A k \in S : k >= j => k >= i
    BY <1>5, <2>1
  <2>3. i >= i /\ ~(i >= j)
    BY <1>5, <2>1
  <2>4. From(j) \subseteq From(i) /\ From(j) # From(i) /\ From(j) \in T
    BY <2>2, <2>3
  <2>5. From(j) \subseteq S /\ From(i) \subseteq S
    OBVIOUS
  <2> HIDE DEF From
  <2>6. <<From(j), From(i)>> \in StrictSubsetOrdering(S)
    BY <2>4, <2>5 DEF StrictSubsetOrdering
  <2> QED
    BY <1>3, <1>4, <2>4, <2>6
<1>6. \A j \in S : j <= i
  BY <1>5
<1> QED
  BY <1>6

-----------------------------------------------------------------------------
(***************************************************************************)
(* What is in a queue, whatever its order.                                 *)
(***************************************************************************)
Elems(s) == {s[i] : i \in DOMAIN s}

\* A write or a block at the end.
LEMMA ElemsAppend ==
    ASSUME NEW S, NEW s \in Seq(S), NEW x \in S
    PROVE  Append(s, x) \in Seq(S) /\ Elems(Append(s, x)) = Elems(s) \union {x}
<1> DEFINE t == Append(s, x)
<1>1. /\ t \in Seq(S) /\ DOMAIN t = 1..(Len(s) + 1) /\ Len(s) \in Nat /\ DOMAIN s = 1..Len(s)
      /\ t[Len(s) + 1] = x /\ \A i \in 1..Len(s) : t[i] = s[i]
  BY AppendProperties, LenProperties
<1> HIDE DEF t
<1>2. \A y : y \in Elems(t) => y \in Elems(s) \union {x}
  BY <1>1 DEF Elems
<1>3. \A y : y \in Elems(s) \union {x} => y \in Elems(t)
  <2>1. \A i \in 1..Len(s) : i \in DOMAIN t
    BY <1>1
  <2>2. Len(s) + 1 \in DOMAIN t
    BY <1>1
  <2> QED
    BY <1>1, <2>1, <2>2 DEF Elems
<1>4. Elems(t) = Elems(s) \union {x}
  BY <1>2, <1>3
<1> QED
  BY <1>1, <1>4 DEF t

\* Two queues, one after the other.
LEMMA ElemsConcat ==
    ASSUME NEW S, NEW s \in Seq(S), NEW t \in Seq(S)
    PROVE  s \o t \in Seq(S) /\ Elems(s \o t) = Elems(s) \union Elems(t)
<1> DEFINE r == s \o t
<1>1. /\ r \in Seq(S) /\ DOMAIN r = 1..(Len(s) + Len(t)) /\ Len(s) \in Nat /\ Len(t) \in Nat
      /\ DOMAIN s = 1..Len(s) /\ DOMAIN t = 1..Len(t)
      /\ \A i \in 1..(Len(s) + Len(t)) : r[i] = IF i <= Len(s) THEN s[i] ELSE t[i - Len(s)]
  BY ConcatProperties, LenProperties
<1> HIDE DEF r
<1>2. \A y : y \in Elems(r) => y \in Elems(s) \union Elems(t)
  <2> SUFFICES ASSUME NEW i \in DOMAIN r PROVE r[i] \in Elems(s) \union Elems(t)
    BY DEF Elems
  <2>1. CASE i <= Len(s)
    BY <1>1, <2>1 DEF Elems
  <2>2. CASE ~(i <= Len(s))
    <3>1. i - Len(s) \in DOMAIN t /\ r[i] = t[i - Len(s)]
      BY <1>1, <2>2
    <3> QED
      BY <3>1 DEF Elems
  <2> QED
    BY <2>1, <2>2
<1>3. \A i \in DOMAIN s : i \in DOMAIN r /\ r[i] = s[i]
  BY <1>1
<1>4. \A i \in DOMAIN t : i + Len(s) \in DOMAIN r /\ r[i + Len(s)] = t[i]
  <2> SUFFICES ASSUME NEW i \in DOMAIN t
               PROVE  i + Len(s) \in DOMAIN r /\ r[i + Len(s)] = t[i]
    OBVIOUS
  <2>1. i + Len(s) \in 1..(Len(s) + Len(t)) /\ ~(i + Len(s) <= Len(s)) /\ (i + Len(s)) - Len(s) = i
    BY <1>1
  <2> QED
    BY <1>1, <2>1
<1>5. \A y : y \in Elems(s) \union Elems(t) => y \in Elems(r)
  BY <1>3, <1>4 DEF Elems
<1>6. Elems(r) = Elems(s) \union Elems(t)
  BY <1>2, <1>5
<1> QED
  BY <1>1, <1>6 DEF r

\* The head of a queue and the rest of it.
LEMMA ElemsTail ==
    ASSUME NEW S, NEW s \in Seq(S), s # << >>
    PROVE  /\ Head(s) \in S /\ Tail(s) \in Seq(S)
           /\ Elems(s) = {Head(s)} \union Elems(Tail(s))
<1> DEFINE t == Tail(s)
<1>1. /\ t \in Seq(S) /\ DOMAIN t = 1..(Len(s) - 1) /\ Len(s) \in Nat \ {0}
      /\ DOMAIN s = 1..Len(s) /\ Head(s) = s[1] /\ Head(s) \in S
      /\ \A i \in 1..(Len(s) - 1) : t[i] = s[i + 1]
  OBVIOUS
<1> HIDE DEF t
<1>2. \A i \in DOMAIN t : i + 1 \in DOMAIN s /\ s[i + 1] = t[i]
  BY <1>1
<1>3. \A i \in DOMAIN s : i = 1 \/ (i - 1 \in DOMAIN t /\ t[i - 1] = s[i])
  BY <1>1
<1>4. 1 \in DOMAIN s /\ s[1] = Head(s)
  BY <1>1
<1>5. Elems(s) = {Head(s)} \union Elems(t)
  BY <1>2, <1>3, <1>4 DEF Elems
<1> QED
  BY <1>1, <1>5 DEF t

\* Queues of no element and of one.
LEMMA ElemsFew ==
    ASSUME NEW S, NEW x \in S
    PROVE  << >> \in Seq(S) /\ Elems(<< >>) = {} /\ <<x>> \in Seq(S) /\ Elems(<<x>>) = {x}
BY DEF Elems

\* What is in a queue has the type of its elements.
LEMMA ElemsIn ==
    ASSUME NEW S, NEW s \in Seq(S)
    PROVE  Elems(s) \subseteq S
BY DEF Elems

-----------------------------------------------------------------------------
(***************************************************************************)
(* What may happen to the device of user v: the set W holds its writes, B  *)
(* its blocks and R its reads.                                             *)
(***************************************************************************)

\* A write is issued.
LEMMA DeviceIssues ==
    ASSUME NEW v \in User, NEW W, DOMAIN queue = User, queue[v] \in Seq(W),
           NEW w \in W, queue' = WriteMutations(v, <<w>>)
    PROVE  /\ DOMAIN queue' = User /\ queue'[v] \in Seq(W)
           /\ queue'[v] = Append(queue[v], w)
           /\ Elems(queue'[v]) = Elems(queue[v]) \union {w}
<1>1. DOMAIN queue' = User /\ queue'[v] = queue[v] \o <<w>>
  BY DEF WriteMutations
<1>2. queue[v] \o <<w>> = Append(queue[v], w)
  OBVIOUS
<1>3. /\ Append(queue[v], w) \in Seq(W)
      /\ Elems(Append(queue[v], w)) = Elems(queue[v]) \union {w}
  BY ElemsAppend
<1> QED
  BY <1>1, <1>2, <1>3

\* A block is posted.
LEMMA DevicePosts ==
    ASSUME NEW v \in User, NEW B, DOMAIN mainq = User, mainq[v] \in Seq(B),
           NEW b \in B, mainq' = [mainq EXCEPT ![v] = Append(@, b)]
    PROVE  /\ DOMAIN mainq' = User /\ mainq'[v] \in Seq(B)
           /\ mainq'[v] = Append(mainq[v], b)
           /\ Elems(mainq'[v]) = Elems(mainq[v]) \union {b}
<1>1. DOMAIN mainq' = User /\ mainq'[v] = Append(mainq[v], b)
  OBVIOUS
<1>2. /\ Append(mainq[v], b) \in Seq(B)
      /\ Elems(Append(mainq[v], b)) = Elems(mainq[v]) \union {b}
  BY ElemsAppend
<1> QED
  BY <1>1, <1>2

\* The oldest write is decided.
LEMMA DeviceDecides ==
    ASSUME NEW v \in User, NEW W, DOMAIN queue = User, queue[v] \in Seq(W), queue[v] # << >>,
           queue' = [queue EXCEPT ![v] = Tail(@)]
    PROVE  /\ DOMAIN queue' = User /\ queue'[v] \in Seq(W) /\ queue'[v] = Tail(queue[v])
           /\ Head(queue[v]) \in W
           /\ Elems(queue[v]) = {Head(queue[v])} \union Elems(queue'[v])
<1>1. /\ Head(queue[v]) \in W /\ Tail(queue[v]) \in Seq(W)
      /\ Elems(queue[v]) = {Head(queue[v])} \union Elems(Tail(queue[v]))
  BY ElemsTail
<1>2. DOMAIN queue' = User /\ queue'[v] = Tail(queue[v])
  OBVIOUS
<1> QED
  BY <1>1, <1>2

\* The first block runs, and posts the blocks bs.
LEMMA DeviceRuns ==
    ASSUME NEW v \in User, NEW B, DOMAIN mainq = User, mainq[v] \in Seq(B), mainq[v] # << >>,
           NEW bs \in Seq(B), mainq' = RunFirst(v, bs)
    PROVE  /\ DOMAIN mainq' = User /\ mainq'[v] = Tail(mainq[v]) \o bs /\ mainq'[v] \in Seq(B)
           /\ Head(mainq[v]) \in B
           /\ Elems(mainq[v]) = {Head(mainq[v])} \union Elems(Tail(mainq[v]))
           /\ Elems(mainq'[v]) = Elems(Tail(mainq[v])) \union Elems(bs)
<1> DEFINE t == Tail(mainq[v])
<1>1. DOMAIN mainq' = User /\ mainq'[v] = t \o bs
  BY DEF RunFirst
<1>2. Head(mainq[v]) \in B /\ t \in Seq(B) /\ Elems(mainq[v]) = {Head(mainq[v])} \union Elems(t)
  BY ElemsTail
<1> HIDE DEF t
<1>3. t \o bs \in Seq(B) /\ Elems(t \o bs) = Elems(t) \union Elems(bs)
  BY <1>2, ElemsConcat
<1> QED
  BY <1>1, <1>2, <1>3 DEF t

\* Reads are asked for, or one is answered or has failed.
LEMMA DeviceAsks ==
    ASSUME NEW v \in User, NEW R, asked \in [User -> [R -> Nat]]
    PROVE  /\ \A rs : /\ Ask(v, rs) \in [User -> [R -> Nat]]
                      /\ \A r \in R : Ask(v, rs)[v][r]
                             = IF r \in rs THEN asked[v][r] + 1 ELSE asked[v][r]
           /\ \A s \in R : asked[v][s] > 0 =>
                 /\ [asked EXCEPT ![v][s] = @ - 1] \in [User -> [R -> Nat]]
                 /\ \A r \in R : [asked EXCEPT ![v][s] = @ - 1][v][r]
                        = IF r = s THEN asked[v][r] - 1 ELSE asked[v][r]
           /\ Ask(v, {}) = asked
<1>1. \A u \in User : asked[u] = [r \in DOMAIN asked[u] |-> asked[u][r]]
  OBVIOUS
<1>2. Ask(v, {}) = [asked EXCEPT ![v] = [r \in DOMAIN asked[v] |-> asked[v][r]]]
  BY DEF Ask
<1>3. Ask(v, {}) = asked
  BY <1>1, <1>2
<1>4. \A rs : /\ Ask(v, rs) \in [User -> [R -> Nat]]
              /\ \A r \in R : Ask(v, rs)[v][r] = IF r \in rs THEN asked[v][r] + 1 ELSE asked[v][r]
  BY DEF Ask
<1>5. \A s \in R : asked[v][s] > 0 =>
         /\ [asked EXCEPT ![v][s] = @ - 1] \in [User -> [R -> Nat]]
         /\ \A r \in R : [asked EXCEPT ![v][s] = @ - 1][v][r]
                = IF r = s THEN asked[v][r] - 1 ELSE asked[v][r]
  OBVIOUS
<1> QED
  BY <1>3, <1>4, <1>5

-----------------------------------------------------------------------------
(***************************************************************************)
(* At most one element of a queue is in the set K.                         *)
(***************************************************************************)
Solo(s, K) == \A i, j \in DOMAIN s : s[i] \in K /\ s[j] \in K => i = j

\* It stays so when an element is added that is not in K, or the first one.
LEMMA SoloAppend ==
    ASSUME NEW S, NEW s \in Seq(S), NEW x \in S, NEW K, Solo(s, K),
           x \in K => \A y \in Elems(s) : y \notin K
    PROVE  Solo(Append(s, x), K)
<1> DEFINE t == Append(s, x)
<1>1. /\ DOMAIN t = 1..(Len(s) + 1) /\ Len(s) \in Nat /\ DOMAIN s = 1..Len(s)
      /\ t[Len(s) + 1] = x /\ \A i \in 1..Len(s) : t[i] = s[i]
  BY AppendProperties, LenProperties
<1> HIDE DEF t
<1>2. \A i \in DOMAIN t : i = Len(s) + 1 \/ i \in DOMAIN s
  BY <1>1
<1>3. \A i, j \in DOMAIN t : t[i] \in K /\ t[j] \in K => i = j
  BY <1>1, <1>2 DEF Elems, Solo
<1> QED
  BY <1>3 DEF t, Solo

\* It stays so when the first element is removed; if that was the one, no other
\* is left.
LEMMA SoloTail ==
    ASSUME NEW S, NEW s \in Seq(S), s # << >>, NEW K, Solo(s, K)
    PROVE  /\ Solo(Tail(s), K)
           /\ Head(s) \in K => \A y \in Elems(Tail(s)) : y \notin K
<1> DEFINE t == Tail(s)
<1>1. /\ t \in Seq(S) /\ DOMAIN t = 1..(Len(s) - 1) /\ Len(s) \in Nat \ {0}
      /\ DOMAIN s = 1..Len(s) /\ Head(s) = s[1]
      /\ \A i \in 1..(Len(s) - 1) : t[i] = s[i + 1]
  OBVIOUS
<1> HIDE DEF t
<1>2. \A i \in DOMAIN t : i + 1 \in DOMAIN s /\ t[i] = s[i + 1] /\ i + 1 # 1 /\ i \in Nat
  BY <1>1
<1>3. ASSUME NEW i \in DOMAIN t, NEW j \in DOMAIN t, t[i] \in K, t[j] \in K
      PROVE  i = j
  <2>1. i + 1 = j + 1 /\ i \in Nat /\ j \in Nat
    BY <1>2, <1>3 DEF Solo
  <2> QED
    BY <2>1
<1>4. Head(s) \in K => \A y \in Elems(t) : y \notin K
  <2>1. 1 \in DOMAIN s
    BY <1>1
  <2> QED
    BY <1>1, <1>2, <2>1 DEF Elems, Solo
<1> QED
  BY <1>3, <1>4 DEF t, Solo
=============================================================================
