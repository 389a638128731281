------------------------- MODULE ProfileScreenProofs -------------------------
(***************************************************************************)
(* Theorems about ProfileScreen, for any users, viewers and bounds.        *)
(*                                                                         *)
(* The screen's isFollowed is written by the completions of checks and of  *)
(* follows, which come in any order.  Each follow goes through four        *)
(* stages: its first write is queued, that write's ack waits for the main  *)
(* thread, its second write is queued, that write's ack waits.  Follows    *)
(* never overtake each other, so whatever is wrong is followed by          *)
(* something newer; the newest says what the device takes to be true, the  *)
(* last queued first write or else the database.  Only refusals make the   *)
(* device take back what it said.                                          *)
(*                                                                         *)
(* The last part shows that the screen uses the services as SocialGraph    *)
(* allows.                                                                 *)
(***************************************************************************)
EXTENDS ProfileScreen, SocialGraphProofs

-----------------------------------------------------------------------------
\* One of the elements of s after index i is in K.
After(s, K, i) == \E j \in DOMAIN s : j > i /\ s[j] \in K

\* The first and the second writes of the follows of pair e, those that a
\* completion waits for, and their acks.
FirstWrites(e) == {w \in ScreenWritesOf(e[1]) : w.coll = "following" /\ w.key = e}
LiveFirsts(e)  == {w \in FirstWrites(e) : w.then # NoOne}
LiveSeconds(e) ==
    {w \in ScreenWritesOf(e[1]) : w.coll = "followers" /\ w.key = e /\ w.then # NoOne}
FirstAcks(e)  == {b \in ScreenBlocksOf(e[1]) : b.type = "ack" /\ b.w \in LiveFirsts(e)}
SecondAcks(e) == {b \in ScreenBlocksOf(e[1]) : b.type = "ack" /\ b.w \in LiveSeconds(e)}
CheckAnswers(e) ==
    {b \in ScreenBlocksOf(e[1]) : b.type = "answer" /\ b.r = CheckIfUserIsFollowed(e[2])}

\* What the device with mutation queue q takes to be the state of document e,
\* whose state in the database is X.
Firsts(q, e) == {i \in DOMAIN q : q[i] \in FirstWrites(e)}
Present(q, X, e) ==
    IF Firsts(q, e) = {} THEN X
    ELSE \E i \in Firsts(q, e) : q[i].op = "set" /\ \A j \in Firsts(q, e) : j <= i

\* A follow of e has not come to its completion.
Chained(q, m, e) ==
    \/ After(q, LiveFirsts(e), 0) \/ After(m, FirstAcks(e), 0)
    \/ After(q, LiveSeconds(e), 0) \/ After(m, SecondAcks(e), 0)

\* Queued first writes that nobody waits for are older than the others.
FirstsInOrder(q, e) ==
    \A i, j \in DOMAIN q :
        i < j /\ q[i] \in LiveFirsts(e) /\ q[j] \in FirstWrites(e) => q[j] \in LiveFirsts(e)

\* Each stage of a follow, and each answer to a check, says what is true, or
\* something newer follows it.
ChecksRight(q, m, X, e) ==
    \A i \in DOMAIN m : m[i] \in CheckAnswers(e) =>
        \/ m[i].docs # {} <=> Present(q, X, e)
        \/ After(q, LiveFirsts(e), 0) \/ After(m, FirstAcks(e), i)

FirstAcksRight(q, m, X, e) ==
    \A i \in DOMAIN m : m[i] \in FirstAcks(e) =>
        \/ m[i].w.op = "set" <=> Present(q, X, e)
        \/ After(q, LiveFirsts(e), 0) \/ After(m, FirstAcks(e), i)

SecondsRight(q, m, X, e) ==
    \A i \in DOMAIN q : q[i] \in LiveSeconds(e) =>
        \/ q[i].op = "set" <=> Present(q, X, e)
        \/ After(q, LiveFirsts(e), 0) \/ After(m, FirstAcks(e), 0) \/ After(q, LiveSeconds(e), i)

SecondAcksRight(q, m, X, e) ==
    \A i \in DOMAIN m : m[i] \in SecondAcks(e) =>
        \/ m[i].w.op = "set" <=> Present(q, X, e)
        \/ After(q, LiveFirsts(e), 0) \/ After(m, FirstAcks(e), 0)
        \/ After(q, LiveSeconds(e), 0) \/ After(m, SecondAcks(e), i)

StagesRight(q, m, X, e) ==
    /\ FirstsInOrder(q, e) /\ ChecksRight(q, m, X, e) /\ FirstAcksRight(q, m, X, e)
    /\ SecondsRight(q, m, X, e) /\ SecondAcksRight(q, m, X, e)

Stages == \A e \in Pair \ misled : StagesRight(queue[e[1]], mainq[e[1]], Follows(e), e)

\* Read r of u's device is asked, and its completion has not run.
UnderWay(u, r) ==
    asked[u][r] > 0 \/ \E b \in Elems(mainq[u]) : b.type = "answer" /\ b.r = r

\* The screen's isFollowed is right, or is about to be written.
FlagRight(e) ==
    \/ isFollowed[e[1]][e[2]] <=> Present(queue[e[1]], Follows(e), e)
    \/ Chained(queue[e[1]], mainq[e[1]], e)
    \/ UnderWay(e[1], CheckIfUserIsFollowed(e[2]))

Flags == \A e \in appeared \ misled : FlagRight(e)

\* The header shows isFollowed, or the screen is about to be reloaded.
HeaderRight(u, v) ==
    \/ header[u][v] = isFollowed[u][v]
    \/ Reload(v) \in Elems(mainq[u])
    \/ UnderWay(u, FetchUserStats(v))

Headers == \A u, v \in User : HeaderRight(u, v)

ScreenInv == ScreenTypeOK /\ Stages /\ Flags /\ Headers

-----------------------------------------------------------------------------
(***************************************************************************)
(* What follows in a queue.                                                *)
(***************************************************************************)

\* An element is added.
LEMMA AfterAppend ==
    ASSUME NEW S, NEW s \in Seq(S), NEW x \in S
    PROVE  /\ DOMAIN Append(s, x) = 1..(Len(s) + 1) /\ DOMAIN s = 1..Len(s) /\ Len(s) \in Nat
           /\ Append(s, x)[Len(s) + 1] = x /\ \A i \in DOMAIN s : Append(s, x)[i] = s[i]
           /\ \A K, i : After(s, K, i) => After(Append(s, x), K, i)
           /\ \A K : x \in K => After(Append(s, x), K, 0)
           /\ \A K : \A i \in DOMAIN s : x \in K => After(Append(s, x), K, i)
           /\ \A K, i : x \notin K /\ After(Append(s, x), K, i) => After(s, K, i)
<1> DEFINE t == Append(s, x)
<1>1. /\ DOMAIN t = 1..(Len(s) + 1) /\ Len(s) \in Nat /\ DOMAIN s = 1..Len(s)
      /\ t[Len(s) + 1] = x /\ \A i \in 1..Len(s) : t[i] = s[i]
  BY AppendProperties, LenProperties
<1> HIDE DEF t
<1>2. /\ \A i \in DOMAIN s : i \in DOMAIN t /\ t[i] = s[i] /\ Len(s) + 1 > i
      /\ Len(s) + 1 \in DOMAIN t /\ Len(s) + 1 > 0
      /\ \A i \in DOMAIN t : i = Len(s) + 1 \/ i \in DOMAIN s
  BY <1>1
<1>3. /\ \A K, i : After(s, K, i) => After(t, K, i)
      /\ \A K : x \in K => After(t, K, 0)
  BY <1>1, <1>2 DEF After
<1>4. \A K : \A i \in DOMAIN s : x \in K => After(t, K, i)
  BY <1>1, <1>2 DEF After
<1>5. \A K, i : x \notin K /\ After(t, K, i) => After(s, K, i)
  BY <1>1, <1>2 DEF After
<1> QED
  BY <1>1, <1>3, <1>4, <1>5 DEF t

\* The first element is removed.
LEMMA AfterTail ==
    ASSUME NEW S, NEW s \in Seq(S), s # << >>
    PROVE  /\ Tail(s) \in Seq(S) /\ Head(s) \in S /\ 1 \in DOMAIN s /\ s[1] = Head(s)
           /\ \A i \in DOMAIN Tail(s) : i \in Nat /\ i + 1 \in DOMAIN s /\ Tail(s)[i] = s[i + 1]
           /\ \A i \in DOMAIN s : i \in Nat /\ (i = 1 \/ (i - 1 \in DOMAIN Tail(s) /\ Tail(s)[i - 1] = s[i]))
           /\ \A K : \A i \in Nat : After(s, K, i + 1) <=> After(Tail(s), K, i)
           /\ \A K : After(s, K, 1) <=> After(Tail(s), K, 0)
           /\ \A K : Head(s) \notin K => (After(s, K, 0) <=> After(Tail(s), K, 0))
           /\ \A K : Head(s) \in K => After(s, K, 0)
<1> DEFINE t == Tail(s)
<1>1. /\ t \in Seq(S) /\ DOMAIN t = 1..(Len(s) - 1) /\ Len(s) \in Nat \ {0}
      /\ DOMAIN s = 1..Len(s) /\ Head(s) = s[1] /\ Head(s) \in S
      /\ \A i \in 1..(Len(s) - 1) : t[i] = s[i + 1]
  OBVIOUS
<1> HIDE DEF t
<1>2. /\ \A i \in DOMAIN t : i \in Nat /\ i + 1 \in DOMAIN s /\ s[i + 1] = t[i]
      /\ \A i \in DOMAIN s : i \in Nat /\ i > 0 /\ (i = 1 \/ (i - 1 \in DOMAIN t /\ t[i - 1] = s[i]))
      /\ 1 \in DOMAIN s
  BY <1>1
<1>3. ASSUME NEW K, NEW i \in Nat PROVE After(s, K, i + 1) <=> After(t, K, i)
  <2>1. ASSUME NEW j \in DOMAIN s, j > i + 1, s[j] \in K
        PROVE  \E k \in DOMAIN t : k > i /\ t[k] \in K
    <3>1. j - 1 \in DOMAIN t /\ t[j - 1] = s[j] /\ j - 1 > i
      BY <1>2, <2>1
    <3> QED
      BY <2>1, <3>1
  <2>2. ASSUME NEW j \in DOMAIN t, j > i, t[j] \in K
        PROVE  \E k \in DOMAIN s : k > i + 1 /\ s[k] \in K
    <3>1. j + 1 \in DOMAIN s /\ s[j + 1] = t[j] /\ j + 1 > i + 1
      BY <1>2, <2>2
    <3> QED
      BY <2>2, <3>1
  <2> QED
    BY <2>1, <2>2 DEF After
<1>4. \A K : After(s, K, 1) <=> After(t, K, 0)
  <2>1. 0 \in Nat /\ 0 + 1 = 1
    OBVIOUS
  <2> QED
    BY <1>3, <2>1
<1>5. \A K : Head(s) \notin K => (After(s, K, 0) <=> After(s, K, 1))
  <2>1. \A j \in DOMAIN s : j > 0 /\ (j > 1 \/ j = 1) /\ (j > 1 => j > 0)
    BY <1>2
  <2> QED
    BY <1>1, <2>1 DEF After
<1>6. \A K : Head(s) \in K => After(s, K, 0)
  BY <1>1, <1>2 DEF After
<1> QED
  BY <1>1, <1>2, <1>3, <1>4, <1>5, <1>6 DEF t

\* Several elements that are not in K are added.
LEMMA AfterConcat ==
    ASSUME NEW S, NEW s \in Seq(S), NEW r \in Seq(S)
    PROVE  /\ s \o r \in Seq(S)
           /\ \A i \in DOMAIN s : i \in DOMAIN (s \o r) /\ (s \o r)[i] = s[i]
           /\ \A i \in DOMAIN (s \o r) : i \in DOMAIN s \/ (s \o r)[i] \in Elems(r)
           /\ \A K, i : After(s, K, i) => After(s \o r, K, i)
           /\ \A K : (\A x \in Elems(r) : x \notin K) => \A i : After(s \o r, K, i) => After(s, K, i)
<1> DEFINE t == s \o r
<1>1. /\ t \in Seq(S) /\ DOMAIN t = 1..(Len(s) + Len(r)) /\ DOMAIN s = 1..Len(s) /\ DOMAIN r = 1..Len(r)
      /\ Len(s) \in Nat /\ Len(r) \in Nat
      /\ \A i \in DOMAIN t : t[i] = IF i <= Len(s) THEN s[i] ELSE r[i - Len(s)]
  BY ConcatProperties, LenProperties
<1> HIDE DEF t
<1>2. \A i \in DOMAIN s : i \in DOMAIN t /\ t[i] = s[i]
  BY <1>1
<1>3. \A i \in DOMAIN t : i \in DOMAIN s \/ (i - Len(s) \in DOMAIN r /\ t[i] = r[i - Len(s)])
  BY <1>1
<1>4. \A i \in DOMAIN t : i \in DOMAIN s \/ t[i] \in Elems(r)
  BY <1>3 DEF Elems
<1>5. \A K, i : After(s, K, i) => After(t, K, i)
  BY <1>2 DEF After
<1>6. ASSUME NEW K, \A x \in Elems(r) : x \notin K, NEW i, After(t, K, i) PROVE After(s, K, i)
  BY <1>2, <1>4, <1>6 DEF After
<1> QED
  BY <1>1, <1>2, <1>4, <1>5, <1>6 DEF t

-----------------------------------------------------------------------------
(***************************************************************************)
(* What the device takes to be true of document e.                         *)
(***************************************************************************)

\* Other writes do not matter, when they are issued ...
LEMMA PresentConcat ==
    ASSUME NEW S, NEW q \in Seq(S), NEW ws \in Seq(S), NEW X \in BOOLEAN, NEW e,
           \A w \in Elems(ws) : w \notin FirstWrites(e)
    PROVE  Present(q \o ws, X, e) <=> Present(q, X, e)
<1> DEFINE t == q \o ws
<1>1. /\ \A i \in DOMAIN q : i \in DOMAIN t /\ t[i] = q[i]
      /\ \A i \in DOMAIN t : i \in DOMAIN q \/ t[i] \in Elems(ws)
  BY AfterConcat
<1> HIDE DEF t
<1>2. Firsts(t, e) = Firsts(q, e) /\ \A i \in Firsts(q, e) : t[i] = q[i]
  BY <1>1 DEF Firsts
<1> QED
  BY <1>2 DEF Present, t

\* ... and when they are decided.
LEMMA PresentTail ==
    ASSUME NEW S, NEW q \in Seq(S), q # << >>, NEW X \in BOOLEAN, NEW e
    PROVE  /\ Head(q) \notin FirstWrites(e) => (Present(Tail(q), X, e) <=> Present(q, X, e))
           /\ Head(q) \in FirstWrites(e) =>
                 \A Z \in BOOLEAN : (Z <=> Head(q).op = "set") => (Present(Tail(q), Z, e) <=> Present(q, X, e))
           /\ Head(q) \in FirstWrites(e) /\ Firsts(Tail(q), e) = {} =>
                 (Present(q, X, e) <=> Head(q).op = "set")
<1> DEFINE t == Tail(q)
<1>1. /\ 1 \in DOMAIN q /\ q[1] = Head(q)
      /\ \A i \in DOMAIN t : i \in Nat /\ i + 1 \in DOMAIN q /\ t[i] = q[i + 1]
      /\ \A i \in DOMAIN q : i \in Nat /\ (i = 1 \/ (i - 1 \in DOMAIN t /\ t[i - 1] = q[i]))
  BY AfterTail
<1>2. DOMAIN t = 1..(Len(q) - 1) /\ Len(q) \in Nat
  OBVIOUS
<1> HIDE DEF t
<1>3. /\ \A i \in Firsts(t, e) : i \in Nat /\ i >= 1 /\ i + 1 \in Firsts(q, e) /\ t[i] = q[i + 1]
      /\ \A i \in Firsts(q, e) : i \in Nat /\ (i = 1 \/ (i - 1 \in Firsts(t, e) /\ t[i - 1] = q[i]))
      /\ 1 \in Firsts(q, e) <=> Head(q) \in FirstWrites(e)
  BY <1>1, <1>2 DEF Firsts
<1>4. ASSUME Firsts(t, e) # {}, NEW Z
      PROVE  Present(t, Z, e) <=> Present(q, X, e)
  <2>1. Firsts(q, e) # {}
    BY <1>3, <1>4
  <2>2. ASSUME NEW i \in Firsts(t, e), t[i].op = "set", \A j \in Firsts(t, e) : j <= i
        PROVE  \E k \in Firsts(q, e) : q[k].op = "set" /\ \A j \in Firsts(q, e) : j <= k
    <3>1. i + 1 \in Firsts(q, e) /\ q[i + 1].op = "set"
      BY <1>3, <2>2
    <3>2. ASSUME NEW j \in Firsts(q, e) PROVE j <= i + 1
      <4>1. i \in Nat /\ i >= 1 /\ j \in Nat
        BY <1>3
      <4>2. j = 1 \/ j - 1 <= i
        BY <1>3, <2>2
      <4> QED
        BY <4>1, <4>2
    <3> QED
      BY <3>1, <3>2
  <2>3. ASSUME NEW k \in Firsts(q, e), q[k].op = "set", \A j \in Firsts(q, e) : j <= k
        PROVE  \E i \in Firsts(t, e) : t[i].op = "set" /\ \A j \in Firsts(t, e) : j <= i
    <3>1. PICK l \in Firsts(t, e) : TRUE
      BY <1>4
    <3>2. l + 1 <= k /\ l >= 1 /\ l \in Nat /\ k \in Nat
      BY <1>3, <2>3
    <3>3. k # 1
      BY <3>2
    <3>4. k - 1 \in Firsts(t, e) /\ t[k - 1].op = "set"
      BY <1>3, <2>3, <3>3
    <3>5. \A j \in Firsts(t, e) : j <= k - 1
      BY <1>3, <2>3, <3>2
    <3> QED
      BY <3>4, <3>5
  <2> QED
    BY <1>4, <2>1, <2>2, <2>3 DEF Present
<1>5. ASSUME Firsts(t, e) = {}, Head(q) \notin FirstWrites(e)
      PROVE  Present(t, X, e) <=> Present(q, X, e)
  <2>1. Firsts(q, e) = {}
    BY <1>3, <1>5
  <2> QED
    BY <1>5, <2>1 DEF Present
<1>6. ASSUME Firsts(t, e) = {}, Head(q) \in FirstWrites(e)
      PROVE  Present(q, X, e) <=> Head(q).op = "set"
  <2>1. Firsts(q, e) = {1}
    BY <1>3, <1>6
  <2>2. 1 <= 1
    OBVIOUS
  <2> QED
    BY <1>1, <2>1, <2>2 DEF Present
<1>7. ASSUME Firsts(t, e) = {}, NEW Z \in BOOLEAN
      PROVE  Present(t, Z, e) <=> Z
  BY <1>7 DEF Present
<1> QED
  BY <1>4, <1>5, <1>6, <1>7 DEF t

\* Nor does it matter whether somebody waits for a write.
LEMMA PresentForgotten ==
    ASSUME NEW q, NEW X \in BOOLEAN, NEW e,
           \A i \in DOMAIN q : /\ Forgotten(q)[i] \in FirstWrites(e) <=> q[i] \in FirstWrites(e)
                               /\ Forgotten(q)[i].op = q[i].op
    PROVE  Present(Forgotten(q), X, e) <=> Present(q, X, e)
<1>1. DOMAIN Forgotten(q) = DOMAIN q
  BY DEF Forgotten
<1>2. Firsts(Forgotten(q), e) = Firsts(q, e) /\ \A i \in Firsts(q, e) : Forgotten(q)[i].op = q[i].op
  BY <1>1 DEF Firsts
<1> QED
  BY <1>2 DEF Present

-----------------------------------------------------------------------------
(***************************************************************************)
(* The stages of the follows of pair e, on a device with mutation queue q  *)
(* and main queue m.                                                       *)
(***************************************************************************)

\* The stages are distinct.
LEMMA Kinds ==
    ASSUME NEW e
    PROVE  /\ LiveFirsts(e) \subseteq FirstWrites(e)
           /\ \A w : ~(w \in FirstWrites(e) /\ w \in LiveSeconds(e))
           /\ \A b : ~(b \in FirstAcks(e) /\ b \in SecondAcks(e))
           /\ \A b : ~(b \in FirstAcks(e) /\ b \in CheckAnswers(e))
           /\ \A b : ~(b \in SecondAcks(e) /\ b \in CheckAnswers(e))
<1>1. \A w : ~(w \in FirstWrites(e) /\ w \in LiveSeconds(e))
  BY DEF FirstWrites, LiveSeconds
<1>2. LiveFirsts(e) \subseteq FirstWrites(e)
  BY DEF LiveFirsts
<1>3. \A b : b \in FirstAcks(e) => b.type = "ack" /\ b.w \in FirstWrites(e)
  BY <1>2 DEF FirstAcks
<1>4. \A b : b \in SecondAcks(e) => b.type = "ack" /\ b.w \in LiveSeconds(e)
  BY DEF SecondAcks
<1>5. \A b : b \in CheckAnswers(e) => b.type = "answer"
  BY DEF CheckAnswers
<1> QED
  BY <1>1, <1>2, <1>3, <1>4, <1>5

\* A first write is queued: it is newer than everything.
LEMMA StagesIssueFirst ==
    ASSUME NEW W, NEW q \in Seq(W), NEW w \in W, NEW m, NEW X \in BOOLEAN, NEW e,
           w \in LiveFirsts(e), StagesRight(q, m, X, e)
    PROVE  StagesRight(Append(q, w), m, X, e) /\ Chained(Append(q, w), m, e)
<1> DEFINE t == Append(q, w)
<1>1. /\ DOMAIN t = 1..(Len(q) + 1) /\ DOMAIN q = 1..Len(q) /\ Len(q) \in Nat
      /\ t[Len(q) + 1] = w /\ \A i \in DOMAIN q : t[i] = q[i]
      /\ After(t, LiveFirsts(e), 0)
  BY AfterAppend
<1> HIDE DEF t
<1>2. FirstsInOrder(t, e)
  <2> SUFFICES ASSUME NEW i \in DOMAIN t, NEW j \in DOMAIN t, i < j, t[i] \in LiveFirsts(e),
                      t[j] \in FirstWrites(e)
               PROVE  t[j] \in LiveFirsts(e)
    BY DEF FirstsInOrder
  <2>1. CASE j = Len(q) + 1
    BY <1>1, <2>1
  <2>2. CASE j # Len(q) + 1
    <3>1. i \in DOMAIN q /\ j \in DOMAIN q
      BY <1>1, <2>2
    <3> QED
      BY <1>1, <3>1 DEF StagesRight, FirstsInOrder
  <2> QED
    BY <2>1, <2>2
<1>3. /\ ChecksRight(t, m, X, e) /\ FirstAcksRight(t, m, X, e)
      /\ SecondsRight(t, m, X, e) /\ SecondAcksRight(t, m, X, e)
  BY <1>1 DEF ChecksRight, FirstAcksRight, SecondsRight, SecondAcksRight
<1>4. Chained(t, m, e)
  BY <1>1 DEF Chained
<1> QED
  BY <1>2, <1>3, <1>4 DEF StagesRight, t

\* Other writes are queued.
LEMMA StagesIssueOther ==
    ASSUME NEW W, NEW q \in Seq(W), NEW ws \in Seq(W), NEW m, NEW X \in BOOLEAN, NEW e,
           \A w \in Elems(ws) : w \notin FirstWrites(e) /\ w \notin LiveSeconds(e),
           StagesRight(q, m, X, e)
    PROVE  /\ StagesRight(q \o ws, m, X, e)
           /\ Chained(q, m, e) => Chained(q \o ws, m, e)
<1> DEFINE t == q \o ws
<1>1. Present(t, X, e) <=> Present(q, X, e)
  BY PresentConcat
<1>2. \A w \in Elems(ws) : w \notin LiveFirsts(e)
  BY Kinds
<1>3. /\ \A i \in DOMAIN q : i \in DOMAIN t /\ t[i] = q[i]
      /\ \A i \in DOMAIN t : i \in DOMAIN q \/ t[i] \in Elems(ws)
      /\ \A K, i : After(q, K, i) => After(t, K, i)
  BY AfterConcat
<1> HIDE DEF t
<1>4. /\ \A i \in DOMAIN t : t[i] \in FirstWrites(e) \/ t[i] \in LiveFirsts(e) \/ t[i] \in LiveSeconds(e)
             => i \in DOMAIN q /\ t[i] = q[i]
  BY <1>2, <1>3
<1>5. FirstsInOrder(t, e)
  BY <1>4 DEF StagesRight, FirstsInOrder
<1>6. ChecksRight(t, m, X, e) /\ FirstAcksRight(t, m, X, e)
  BY <1>1, <1>3 DEF StagesRight, ChecksRight, FirstAcksRight
<1>7. SecondsRight(t, m, X, e)
  BY <1>1, <1>3, <1>4 DEF StagesRight, SecondsRight
<1>8. SecondAcksRight(t, m, X, e)
  BY <1>1, <1>3 DEF StagesRight, SecondAcksRight
<1>9. Chained(q, m, e) => Chained(t, m, e)
  BY <1>3 DEF Chained
<1> QED
  BY <1>5, <1>6, <1>7, <1>8, <1>9 DEF StagesRight, t

\* A block is posted that is no stage, or a check that is right.
LEMMA StagesPost ==
    ASSUME NEW B, NEW m \in Seq(B), NEW b \in B, NEW q, NEW X \in BOOLEAN, NEW e,
           b \notin FirstAcks(e), b \notin SecondAcks(e),
           b \in CheckAnswers(e) => (b.docs # {} <=> Present(q, X, e)),
           StagesRight(q, m, X, e)
    PROVE  /\ StagesRight(q, Append(m, b), X, e)
           /\ Chained(q, m, e) => Chained(q, Append(m, b), e)
<1> DEFINE t == Append(m, b)
<1>1. /\ DOMAIN t = 1..(Len(m) + 1) /\ DOMAIN m = 1..Len(m) /\ Len(m) \in Nat
      /\ t[Len(m) + 1] = b /\ \A i \in DOMAIN m : t[i] = m[i]
      /\ \A K, i : After(m, K, i) => After(t, K, i)
  BY AfterAppend
<1> HIDE DEF t
<1>2. \A i \in DOMAIN t : t[i] = b \/ (i \in DOMAIN m /\ t[i] = m[i])
  BY <1>1
<1>3. ChecksRight(q, t, X, e)
  BY <1>1, <1>2 DEF StagesRight, ChecksRight
<1>4. FirstAcksRight(q, t, X, e)
  BY <1>1, <1>2 DEF StagesRight, FirstAcksRight
<1>5. SecondsRight(q, t, X, e)
  BY <1>1 DEF StagesRight, SecondsRight
<1>6. SecondAcksRight(q, t, X, e)
  BY <1>1, <1>2 DEF StagesRight, SecondAcksRight
<1>7. Chained(q, m, e) => Chained(q, t, e)
  BY <1>1 DEF Chained
<1> QED
  BY <1>3, <1>4, <1>5, <1>6, <1>7 DEF StagesRight, t

\* A write is decided that nobody waits for, or that is no stage.
LEMMA StagesDecide ==
    ASSUME NEW W, NEW q \in Seq(W), q # << >>, NEW m, NEW X \in BOOLEAN, NEW Z \in BOOLEAN, NEW e,
           Head(q) \notin LiveFirsts(e), Head(q) \notin LiveSeconds(e),
           Present(Tail(q), Z, e) <=> Present(q, X, e), StagesRight(q, m, X, e)
    PROVE  /\ StagesRight(Tail(q), m, Z, e)
           /\ Chained(q, m, e) => Chained(Tail(q), m, e)
<1> DEFINE t == Tail(q)
<1>1. /\ \A i \in DOMAIN t : i \in Nat /\ i + 1 \in DOMAIN q /\ t[i] = q[i + 1]
      /\ \A K : \A i \in Nat : After(q, K, i + 1) <=> After(t, K, i)
      /\ \A K : Head(q) \notin K => (After(q, K, 0) <=> After(t, K, 0))
  BY AfterTail
<1> DEFINE P == Present(q, X, e)
           R == Present(t, Z, e)
<1>2. R <=> P
  OBVIOUS
<1> HIDE DEF t, P, R
<1>3. /\ After(q, LiveFirsts(e), 0) <=> After(t, LiveFirsts(e), 0)
      /\ After(q, LiveSeconds(e), 0) <=> After(t, LiveSeconds(e), 0)
  BY <1>1
<1>4. FirstsInOrder(t, e)
  <2> SUFFICES ASSUME NEW i \in DOMAIN t, NEW j \in DOMAIN t, i < j, t[i] \in LiveFirsts(e),
                      t[j] \in FirstWrites(e)
               PROVE  t[j] \in LiveFirsts(e)
    BY DEF FirstsInOrder
  <2>1. i + 1 < j + 1
    BY <1>1
  <2> QED
    BY <1>1, <2>1 DEF StagesRight, FirstsInOrder
<1>5. ChecksRight(t, m, Z, e) /\ FirstAcksRight(t, m, Z, e)
  BY <1>2, <1>3 DEF StagesRight, ChecksRight, FirstAcksRight, P, R
<1>6. SecondsRight(t, m, Z, e)
  <2> SUFFICES ASSUME NEW i \in DOMAIN t, t[i] \in LiveSeconds(e)
               PROVE  \/ t[i].op = "set" <=> R
                      \/ After(t, LiveFirsts(e), 0) \/ After(m, FirstAcks(e), 0)
                      \/ After(t, LiveSeconds(e), i)
    BY DEF SecondsRight, R
  <2>1. i \in Nat /\ i + 1 \in DOMAIN q /\ t[i] = q[i + 1]
    BY <1>1
  <2>2. \/ q[i + 1].op = "set" <=> P
        \/ After(q, LiveFirsts(e), 0) \/ After(m, FirstAcks(e), 0)
        \/ After(q, LiveSeconds(e), i + 1)
    BY <2>1 DEF StagesRight, SecondsRight, P
  <2>3. After(q, LiveSeconds(e), i + 1) <=> After(t, LiveSeconds(e), i)
    BY <1>1, <2>1
  <2> QED
    BY <1>2, <1>3, <2>1, <2>2, <2>3
<1>7. SecondAcksRight(t, m, Z, e)
  BY <1>2, <1>3 DEF StagesRight, SecondAcksRight, P, R
<1>8. Chained(q, m, e) => Chained(t, m, e)
  BY <1>3 DEF Chained
<1> QED
  BY <1>4, <1>5, <1>6, <1>7, <1>8 DEF StagesRight, t

\* A first write is stored, and its ack is posted.
LEMMA StagesFirstStored ==
    ASSUME NEW W, NEW q \in Seq(W), q # << >>, NEW B, NEW m \in Seq(B), NEW a \in B,
           NEW X \in BOOLEAN, NEW Z \in BOOLEAN, NEW e,
           Head(q) \in LiveFirsts(e), Z <=> Head(q).op = "set",
           a \in FirstAcks(e), a.w = Head(q), StagesRight(q, m, X, e)
    PROVE  StagesRight(Tail(q), Append(m, a), Z, e) /\ Chained(Tail(q), Append(m, a), e)
<1> DEFINE t == Tail(q)
           n == Append(m, a)
<1>1. /\ 1 \in DOMAIN q /\ q[1] = Head(q)
      /\ \A i \in DOMAIN t : i \in Nat /\ i + 1 \in DOMAIN q /\ t[i] = q[i + 1]
      /\ \A K : \A i \in Nat : After(q, K, i + 1) <=> After(t, K, i)
      /\ \A K : Head(q) \notin K => (After(q, K, 0) <=> After(t, K, 0))
  BY AfterTail
<1>2. /\ DOMAIN n = 1..(Len(m) + 1) /\ DOMAIN m = 1..Len(m) /\ Len(m) \in Nat
      /\ n[Len(m) + 1] = a /\ \A i \in DOMAIN m : n[i] = m[i]
      /\ \A K, i : After(m, K, i) => After(n, K, i)
      /\ After(n, FirstAcks(e), 0) /\ \A i \in DOMAIN m : After(n, FirstAcks(e), i)
  BY AfterAppend
<1>3. Head(q) \in FirstWrites(e) /\ Head(q) \notin LiveSeconds(e)
  BY Kinds
<1>4. Firsts(t, e) = {} => (Present(q, X, e) <=> a.w.op = "set")
  BY <1>3, PresentTail
<1>5. Present(t, Z, e) <=> Present(q, X, e)
  BY <1>3, PresentTail
<1>6. a \notin CheckAnswers(e) /\ a \notin SecondAcks(e)
  BY Kinds
<1> DEFINE P == Present(q, X, e)
           R == Present(t, Z, e)
<1> HIDE DEF t, n, P, R
<1>7. \A i \in DOMAIN n : (i = Len(m) + 1 /\ n[i] = a) \/ (i \in DOMAIN m /\ n[i] = m[i])
  BY <1>2
<1>8. FirstsInOrder(t, e)
  <2> SUFFICES ASSUME NEW i \in DOMAIN t, NEW j \in DOMAIN t, i < j, t[i] \in LiveFirsts(e),
                      t[j] \in FirstWrites(e)
               PROVE  t[j] \in LiveFirsts(e)
    BY DEF FirstsInOrder
  <2>1. i + 1 < j + 1
    BY <1>1
  <2> QED
    BY <1>1, <2>1 DEF StagesRight, FirstsInOrder
<1>9. ChecksRight(t, n, Z, e)
  BY <1>2, <1>6, <1>7 DEF ChecksRight
<1>10. After(t, LiveFirsts(e), 0) \/ Firsts(t, e) = {}
  <2> SUFFICES ASSUME NEW i \in Firsts(t, e) PROVE After(t, LiveFirsts(e), 0)
    OBVIOUS
  <2>1. DOMAIN t = 1..(Len(q) - 1) /\ Len(q) \in Nat
    BY DEF t
  <2>2. i \in DOMAIN t /\ t[i] \in FirstWrites(e)
    BY DEF Firsts
  <2>3. i \in Nat /\ i + 1 \in DOMAIN q /\ t[i] = q[i + 1]
    BY <1>1, <2>2
  <2>4. i > 0 /\ 1 < i + 1
    BY <2>1, <2>2
  <2>5. t[i] \in LiveFirsts(e)
    BY <1>1, <2>2, <2>3, <2>4 DEF StagesRight, FirstsInOrder
  <2> QED
    BY <2>2, <2>4, <2>5 DEF After
<1>11. After(t, LiveFirsts(e), 0) \/ (a.w.op = "set" <=> R)
  BY <1>4, <1>5, <1>10 DEF P, R
<1>12. FirstAcksRight(t, n, Z, e)
  <2> SUFFICES ASSUME NEW i \in DOMAIN n, n[i] \in FirstAcks(e)
               PROVE  \/ n[i].w.op = "set" <=> R
                      \/ After(t, LiveFirsts(e), 0) \/ After(n, FirstAcks(e), i)
    BY DEF FirstAcksRight, R
  <2> QED
    BY <1>2, <1>7, <1>11
<1>13. SecondsRight(t, n, Z, e) /\ SecondAcksRight(t, n, Z, e)
  BY <1>2 DEF SecondsRight, SecondAcksRight
<1>14. Chained(t, n, e)
  BY <1>2 DEF Chained
<1> QED
  BY <1>8, <1>9, <1>12, <1>13, <1>14 DEF StagesRight, t, n

\* A second write is decided, one way or the other, and its ack is posted.
LEMMA StagesSecondDecided ==
    ASSUME NEW W, NEW q \in Seq(W), q # << >>, NEW B, NEW m \in Seq(B), NEW a \in B,
           NEW X \in BOOLEAN, NEW e,
           Head(q) \in LiveSeconds(e), a \in SecondAcks(e), a.w = Head(q), StagesRight(q, m, X, e)
    PROVE  StagesRight(Tail(q), Append(m, a), X, e) /\ Chained(Tail(q), Append(m, a), e)
<1> DEFINE t == Tail(q)
           n == Append(m, a)
<1>1. /\ 1 \in DOMAIN q /\ q[1] = Head(q)
      /\ \A i \in DOMAIN t : i \in Nat /\ i + 1 \in DOMAIN q /\ t[i] = q[i + 1]
      /\ \A K : \A i \in Nat : After(q, K, i + 1) <=> After(t, K, i)
      /\ \A K : After(q, K, 1) <=> After(t, K, 0)
      /\ \A K : Head(q) \notin K => (After(q, K, 0) <=> After(t, K, 0))
  BY AfterTail
<1>2. /\ DOMAIN n = 1..(Len(m) + 1) /\ DOMAIN m = 1..Len(m) /\ Len(m) \in Nat
      /\ n[Len(m) + 1] = a /\ \A i \in DOMAIN m : n[i] = m[i]
      /\ \A K, i : After(m, K, i) => After(n, K, i)
      /\ After(n, SecondAcks(e), 0) /\ \A i \in DOMAIN m : After(n, SecondAcks(e), i)
  BY AfterAppend
<1>3. Head(q) \notin FirstWrites(e) /\ Head(q) \notin LiveFirsts(e)
  BY Kinds
<1>4. Present(t, X, e) <=> Present(q, X, e)
  BY <1>3, PresentTail
<1>5. a \notin CheckAnswers(e) /\ a \notin FirstAcks(e)
  BY Kinds
<1> DEFINE P == Present(q, X, e)
           R == Present(t, X, e)
<1>6. R <=> P
  BY <1>4
<1> HIDE DEF t, n, P, R
<1>7. \A i \in DOMAIN n : (i = Len(m) + 1 /\ n[i] = a) \/ (i \in DOMAIN m /\ n[i] = m[i])
  BY <1>2
<1>8. After(q, LiveFirsts(e), 0) <=> After(t, LiveFirsts(e), 0)
  BY <1>1, <1>3
<1>9. FirstsInOrder(t, e)
  <2> SUFFICES ASSUME NEW i \in DOMAIN t, NEW j \in DOMAIN t, i < j, t[i] \in LiveFirsts(e),
                      t[j] \in FirstWrites(e)
               PROVE  t[j] \in LiveFirsts(e)
    BY DEF FirstsInOrder
  <2>1. i + 1 < j + 1
    BY <1>1
  <2> QED
    BY <1>1, <2>1 DEF StagesRight, FirstsInOrder
<1>10. ChecksRight(t, n, X, e)
  BY <1>2, <1>5, <1>6, <1>7, <1>8 DEF StagesRight, ChecksRight, P, R
<1>11. FirstAcksRight(t, n, X, e)
  BY <1>2, <1>5, <1>6, <1>7, <1>8 DEF StagesRight, FirstAcksRight, P, R
<1>12. SecondsRight(t, n, X, e)
  <2> SUFFICES ASSUME NEW i \in DOMAIN t, t[i] \in LiveSeconds(e)
               PROVE  \/ t[i].op = "set" <=> R
                      \/ After(t, LiveFirsts(e), 0) \/ After(n, FirstAcks(e), 0)
                      \/ After(t, LiveSeconds(e), i)
    BY DEF SecondsRight, R
  <2>1. i \in Nat /\ i + 1 \in DOMAIN q /\ t[i] = q[i + 1]
    BY <1>1
  <2>2. \/ q[i + 1].op = "set" <=> P
        \/ After(q, LiveFirsts(e), 0) \/ After(m, FirstAcks(e), 0)
        \/ After(q, LiveSeconds(e), i + 1)
    BY <2>1 DEF StagesRight, SecondsRight, P
  <2>3. After(q, LiveSeconds(e), i + 1) <=> After(t, LiveSeconds(e), i)
    BY <1>1, <2>1
  <2> QED
    BY <1>2, <1>6, <1>8, <2>1, <2>2, <2>3
<1>13. \/ a.w.op = "set" <=> R
       \/ After(t, LiveFirsts(e), 0) \/ After(n, FirstAcks(e), 0) \/ After(t, LiveSeconds(e), 0)
  <2>1. \/ q[1].op = "set" <=> P
        \/ After(q, LiveFirsts(e), 0) \/ After(m, FirstAcks(e), 0) \/ After(q, LiveSeconds(e), 1)
    BY <1>1 DEF StagesRight, SecondsRight, P
  <2> QED
    BY <1>1, <1>2, <1>6, <1>8, <2>1
<1>14. SecondAcksRight(t, n, X, e)
  <2> SUFFICES ASSUME NEW i \in DOMAIN n, n[i] \in SecondAcks(e)
               PROVE  \/ n[i].w.op = "set" <=> R
                      \/ After(t, LiveFirsts(e), 0) \/ After(n, FirstAcks(e), 0)
                      \/ After(t, LiveSeconds(e), 0) \/ After(n, SecondAcks(e), i)
    BY DEF SecondAcksRight, R
  <2> QED
    BY <1>2, <1>7, <1>13
<1>15. Chained(t, n, e)
  BY <1>2 DEF Chained
<1> QED
  BY <1>9, <1>10, <1>11, <1>12, <1>14, <1>15 DEF StagesRight, t, n

\* A block runs that is not the ack of a first write.  A check or the ack of a
\* second write is right, or a follow is still on its way.
LEMMA StagesRun ==
    ASSUME NEW B, NEW m \in Seq(B), m # << >>, NEW q, NEW X \in BOOLEAN, NEW e,
           Head(m) \notin FirstAcks(e), StagesRight(q, m, X, e)
    PROVE  /\ StagesRight(q, Tail(m), X, e)
           /\ Head(m) \notin SecondAcks(e) /\ Chained(q, m, e) => Chained(q, Tail(m), e)
           /\ Head(m) \in SecondAcks(e) =>
                 (Head(m).w.op = "set" <=> Present(q, X, e)) \/ Chained(q, Tail(m), e)
           /\ Head(m) \in CheckAnswers(e) =>
                 (Head(m).docs # {} <=> Present(q, X, e)) \/ Chained(q, Tail(m), e)
<1> DEFINE t == Tail(m)
<1>1. /\ 1 \in DOMAIN m /\ m[1] = Head(m)
      /\ \A i \in DOMAIN t : i \in Nat /\ i + 1 \in DOMAIN m /\ t[i] = m[i + 1]
      /\ \A K : \A i \in Nat : After(m, K, i + 1) <=> After(t, K, i)
      /\ \A K : After(m, K, 1) <=> After(t, K, 0)
      /\ \A K : Head(m) \notin K => (After(m, K, 0) <=> After(t, K, 0))
  BY AfterTail
<1> DEFINE P == Present(q, X, e)
<1> HIDE DEF t, P
<1>2. After(m, FirstAcks(e), 0) <=> After(t, FirstAcks(e), 0)
  BY <1>1
<1>3. ASSUME NEW i \in DOMAIN t
      PROVE  /\ i + 1 \in DOMAIN m /\ t[i] = m[i + 1]
             /\ \A K : After(m, K, i + 1) <=> After(t, K, i)
  BY <1>1
<1>4. ChecksRight(q, t, X, e)
  BY <1>3 DEF StagesRight, ChecksRight
<1>5. FirstAcksRight(q, t, X, e)
  BY <1>3 DEF StagesRight, FirstAcksRight
<1>6. SecondsRight(q, t, X, e)
  BY <1>2 DEF StagesRight, SecondsRight
<1>7. SecondAcksRight(q, t, X, e)
  BY <1>2, <1>3 DEF StagesRight, SecondAcksRight
<1>8. Head(m) \notin SecondAcks(e) /\ Chained(q, m, e) => Chained(q, t, e)
  BY <1>1, <1>2 DEF Chained
<1>9. ASSUME Head(m) \in SecondAcks(e)
      PROVE  (Head(m).w.op = "set" <=> P) \/ Chained(q, t, e)
  <2>1. \/ m[1].w.op = "set" <=> P
        \/ After(q, LiveFirsts(e), 0) \/ After(m, FirstAcks(e), 0)
        \/ After(q, LiveSeconds(e), 0) \/ After(m, SecondAcks(e), 1)
    BY <1>1, <1>9 DEF StagesRight, SecondAcksRight, P
  <2> QED
    BY <1>1, <1>2, <2>1 DEF Chained
<1>10. ASSUME Head(m) \in CheckAnswers(e)
       PROVE  (Head(m).docs # {} <=> P) \/ Chained(q, t, e)
  <2>1. \/ m[1].docs # {} <=> P
        \/ After(q, LiveFirsts(e), 0) \/ After(m, FirstAcks(e), 1)
    BY <1>1, <1>10 DEF StagesRight, ChecksRight, P
  <2> QED
    BY <1>1, <2>1 DEF Chained
<1> QED
  BY <1>4, <1>5, <1>6, <1>7, <1>8, <1>9, <1>10 DEF StagesRight, t, P

\* The ack of a first write runs and issues the second write.
LEMMA StagesFirstAcked ==
    ASSUME NEW B, NEW m \in Seq(B), m # << >>, NEW W, NEW q \in Seq(W), NEW w \in W,
           NEW X \in BOOLEAN, NEW e,
           Head(m) \in FirstAcks(e), w \in LiveSeconds(e), w.op = Head(m).w.op,
           StagesRight(q, m, X, e)
    PROVE  StagesRight(Append(q, w), Tail(m), X, e) /\ Chained(Append(q, w), Tail(m), e)
<1> DEFINE t == Tail(m)
           n == Append(q, w)
<1>1. /\ 1 \in DOMAIN m /\ m[1] = Head(m)
      /\ \A i \in DOMAIN t : i \in Nat /\ i + 1 \in DOMAIN m /\ t[i] = m[i + 1]
      /\ \A K : \A i \in Nat : After(m, K, i + 1) <=> After(t, K, i)
      /\ \A K : After(m, K, 1) <=> After(t, K, 0)
      /\ \A K : Head(m) \notin K => (After(m, K, 0) <=> After(t, K, 0))
  BY AfterTail
<1>2. /\ DOMAIN n = 1..(Len(q) + 1) /\ DOMAIN q = 1..Len(q) /\ Len(q) \in Nat
      /\ n[Len(q) + 1] = w /\ \A i \in DOMAIN q : n[i] = q[i]
      /\ \A K, i : After(q, K, i) => After(n, K, i)
      /\ After(n, LiveSeconds(e), 0) /\ \A i \in DOMAIN q : After(n, LiveSeconds(e), i)
  BY AfterAppend
<1>3. w \notin FirstWrites(e) /\ w \notin LiveFirsts(e)
  BY Kinds
<1>4. Present(n, X, e) <=> Present(q, X, e)
  <2> DEFINE ws == <<w>>
  <2>1. ws \in Seq(W) /\ Elems(ws) = {w} /\ q \o ws = Append(q, w)
    BY ElemsFew
  <2> HIDE DEF ws
  <2>2. \A x \in Elems(ws) : x \notin FirstWrites(e)
    BY <1>3, <2>1
  <2>3. Present(q \o ws, X, e) <=> Present(q, X, e)
    BY <2>1, <2>2, PresentConcat
  <2> QED
    BY <2>1, <2>3
<1> DEFINE P == Present(q, X, e)
           R == Present(n, X, e)
<1>5. R <=> P
  BY <1>4
<1> HIDE DEF t, n, P, R
<1>6. \A i \in DOMAIN n : (i = Len(q) + 1 /\ n[i] = w) \/ (i \in DOMAIN q /\ n[i] = q[i])
  BY <1>2
<1>7. ASSUME NEW i \in DOMAIN t
      PROVE  /\ i + 1 \in DOMAIN m /\ t[i] = m[i + 1]
             /\ \A K : After(m, K, i + 1) <=> After(t, K, i)
  BY <1>1
<1>8. FirstsInOrder(n, e)
  BY <1>3, <1>6 DEF StagesRight, FirstsInOrder
<1>9. ChecksRight(n, t, X, e)
  BY <1>2, <1>5, <1>7 DEF StagesRight, ChecksRight, P, R
<1>10. FirstAcksRight(n, t, X, e)
  BY <1>2, <1>5, <1>7 DEF StagesRight, FirstAcksRight, P, R
<1>11. (w.op = "set" <=> R) \/ After(n, LiveFirsts(e), 0) \/ After(t, FirstAcks(e), 0)
  <2>1. \/ m[1].w.op = "set" <=> P
        \/ After(q, LiveFirsts(e), 0) \/ After(m, FirstAcks(e), 1)
    BY <1>1 DEF StagesRight, FirstAcksRight, P
  <2> QED
    BY <1>1, <1>2, <1>5, <2>1
<1>12. SecondsRight(n, t, X, e)
  <2> SUFFICES ASSUME NEW i \in DOMAIN n, n[i] \in LiveSeconds(e)
               PROVE  \/ n[i].op = "set" <=> R
                      \/ After(n, LiveFirsts(e), 0) \/ After(t, FirstAcks(e), 0)
                      \/ After(n, LiveSeconds(e), i)
    BY DEF SecondsRight, R
  <2> QED
    BY <1>2, <1>6, <1>11
<1>13. SecondAcksRight(n, t, X, e)
  BY <1>2 DEF SecondAcksRight
<1>14. Chained(n, t, e)
  BY <1>2 DEF Chained
<1> QED
  BY <1>8, <1>9, <1>10, <1>12, <1>13, <1>14 DEF StagesRight, t, n

\* After a restart nobody waits for a write, and nothing waits for the main
\* thread.
LEMMA StagesKilled ==
    ASSUME NEW q, NEW X \in BOOLEAN, NEW e,
           \A i \in DOMAIN q : q[i] \notin LiveFirsts(e) /\ q[i] \notin LiveSeconds(e)
    PROVE  StagesRight(q, << >>, X, e)
<1>1. DOMAIN << >> = {}
  OBVIOUS
<1>2. FirstsInOrder(q, e) /\ SecondsRight(q, << >>, X, e)
  BY DEF FirstsInOrder, SecondsRight
<1>3. /\ ChecksRight(q, << >>, X, e) /\ FirstAcksRight(q, << >>, X, e)
      /\ SecondAcksRight(q, << >>, X, e)
  BY <1>1 DEF ChecksRight, FirstAcksRight, SecondAcksRight
<1> QED
  BY <1>2, <1>3 DEF StagesRight

-----------------------------------------------------------------------------
(***************************************************************************)
(* Writes, blocks and reads of a device.                                   *)
(***************************************************************************)

\* What is known of a write of u's device.
LEMMA ScreenWriteFields ==
    ASSUME NEW u \in User, NEW w \in ScreenWritesOf(u)
    PROVE  /\ w \in WritesOf(u) /\ w.coll \in Coll /\ w.op \in Ops /\ w.key \in Key(w.coll)
           /\ w.coll \in {"following", "followers"} =>
                /\ w.key \in Pair /\ w.key[1] = u /\ w.key[2] \in User /\ w.key[2] # u
                /\ w.key = <<u, w.key[2]>>
                /\ w.then \in {"profile", NoOne}
           /\ [w EXCEPT !.then = NoOne] \in ScreenWritesOf(u)
<1>1. w \in WritesOf(u) /\ (w.coll \in {"following", "followers"} => w.then \in {"profile", NoOne})
  BY DEF ScreenWritesOf
<1>2. [w EXCEPT !.then = NoOne] \in WritesOf(u)
  BY <1>1, WriteFields
<1>3. [w EXCEPT !.then = NoOne].then = NoOne
  BY <1>1 DEF WritesOf
<1>4. [w EXCEPT !.then = NoOne] \in ScreenWritesOf(u)
  BY <1>2, <1>3 DEF ScreenWritesOf
<1> QED
  BY <1>1, <1>4, WriteFields

\* The writes the actions issue.
LEMMA ScreenWriteTypes ==
    ASSUME NEW u \in User
    PROVE  /\ \A v \in User, op \in Ops : u # v =>
                 /\ FollowingWrite(u, v, op, "profile") \in ScreenWritesOf(u)
                 /\ FollowersWrite(u, v, op, "profile") \in ScreenWritesOf(u)
                 /\ NotificationWrite(u, v) \in ScreenWritesOf(u)
           /\ \A p \in Post : Owner[p] = u => PostWrite(p) \in ScreenWritesOf(u)
           /\ \A v \in User, p \in Post, op \in Ops : Owner[p] = u \/ v = u =>
                 FeedWrite(v, p, op) \in ScreenWritesOf(u)
<1>1. ASSUME NEW v \in User, NEW op \in Ops, u # v
      PROVE  /\ FollowingWrite(u, v, op, "profile") \in ScreenWritesOf(u)
             /\ FollowersWrite(u, v, op, "profile") \in ScreenWritesOf(u)
             /\ NotificationWrite(u, v) \in ScreenWritesOf(u)
  <2>1. /\ FollowingWrite(u, v, op, "profile") \in WritesOf(u)
        /\ FollowersWrite(u, v, op, "profile") \in WritesOf(u)
        /\ NotificationWrite(u, v) \in WritesOf(u)
    BY <1>1, FollowWriteTypes
  <2> QED
    BY <2>1 DEF ScreenWritesOf, FollowingWrite, FollowersWrite, NotificationWrite, Write
<1>2. ASSUME NEW p \in Post, Owner[p] = u PROVE PostWrite(p) \in ScreenWritesOf(u)
  <2>1. PostWrite(p) \in WritesOf(u)
    BY <1>2, PostWriteTypes DEF Ops
  <2> QED
    BY <2>1 DEF ScreenWritesOf, PostWrite, Write
<1>3. ASSUME NEW v \in User, NEW p \in Post, NEW op \in Ops, Owner[p] = u \/ v = u
      PROVE  FeedWrite(v, p, op) \in ScreenWritesOf(u)
  <2>1. FeedWrite(v, p, op) \in WritesOf(u)
    BY <1>3, PostWriteTypes
  <2> QED
    BY <2>1 DEF ScreenWritesOf, FeedWrite, Write
<1> QED
  BY <1>1, <1>2, <1>3

\* What is known of a block of u's device.
LEMMA ScreenBlockFields ==
    ASSUME NEW u \in User, NEW b \in ScreenBlocksOf(u)
    PROVE  /\ b.type \in {"ack", "answer", "reload"}
           /\ b.type = "ack" => b.w \in ScreenWritesOf(u) /\ b.w.then # NoOne
           /\ b.type = "answer" =>
                \/ b.r \in FeedReads /\ b.docs \subseteq Post
                \/ b.r \in ShareReads /\ Owner[b.r.of] = u /\ b.docs \subseteq User
                \/ b.r \in ScreenReads /\ b.docs \subseteq User
           /\ b.type = "reload" => b.of \in User /\ b = Reload(b.of)
<1>1. CASE b \in BlocksOf(u) /\ (b.type = "ack" => b.w \in ScreenWritesOf(u))
  BY <1>1, BlockFields
<1>2. CASE b \in [type : {"answer"}, r : ScreenReads, docs : SUBSET User]
  BY <1>2
<1>3. CASE b \in [type : {"reload"}, of : User]
  BY <1>3 DEF Reload
<1> QED
  BY <1>1, <1>2, <1>3 DEF ScreenBlocksOf

\* The blocks that are posted.
LEMMA ScreenBlockTypes ==
    ASSUME NEW u \in User
    PROVE  /\ \A w \in ScreenWritesOf(u), ok \in BOOLEAN : w.then # NoOne =>
                 /\ Acked(w, ok) \in ScreenBlocksOf(u)
                 /\ Acked(w, ok).type = "ack" /\ Acked(w, ok).w = w
           /\ \A r, ds : Answered(r, ds).type = "answer" /\ Answered(r, ds).r = r
                            /\ Answered(r, ds).docs = ds
           /\ \A r \in FeedReads, ds \in SUBSET Post : Answered(r, ds) \in ScreenBlocksOf(u)
           /\ \A r \in ShareReads, ds \in SUBSET User : Owner[r.of] = u =>
                 Answered(r, ds) \in ScreenBlocksOf(u)
           /\ \A r \in ScreenReads, ds \in SUBSET User : Answered(r, ds) \in ScreenBlocksOf(u)
           /\ \A v \in User : Reload(v) \in ScreenBlocksOf(u) /\ Reload(v).type = "reload"
                                  /\ Reload(v).of = v
<1>1. ASSUME NEW w \in ScreenWritesOf(u), NEW ok \in BOOLEAN, w.then # NoOne
      PROVE  /\ Acked(w, ok) \in ScreenBlocksOf(u)
             /\ Acked(w, ok).type = "ack" /\ Acked(w, ok).w = w
  <2>1. Acked(w, ok) \in BlocksOf(u) /\ Acked(w, ok).w = w /\ Acked(w, ok).type = "ack"
    BY <1>1 DEF Acked, BlocksOf, ScreenWritesOf
  <2> QED
    BY <2>1 DEF ScreenBlocksOf
<1>2. \A r, ds : Answered(r, ds).type = "answer" /\ Answered(r, ds).r = r /\ Answered(r, ds).docs = ds
  BY DEF Answered
<1>3. \A r \in FeedReads, ds \in SUBSET Post : Answered(r, ds) \in BlocksOf(u)
  BY DEF Answered, BlocksOf
<1>4. \A r \in ShareReads, ds \in SUBSET User : Owner[r.of] = u => Answered(r, ds) \in BlocksOf(u)
  BY DEF Answered, BlocksOf
<1>5. \A r \in ScreenReads, ds \in SUBSET User : Answered(r, ds) \in ScreenBlocksOf(u)
  BY DEF Answered, ScreenBlocksOf
<1>6. \A v \in User : Reload(v) \in ScreenBlocksOf(u) /\ Reload(v).type = "reload" /\ Reload(v).of = v
  BY DEF Reload, ScreenBlocksOf
<1>7. \A b \in BlocksOf(u) : b.type = "answer" => b \in ScreenBlocksOf(u)
  BY DEF ScreenBlocksOf
<1> QED
  BY <1>1, <1>2, <1>3, <1>4, <1>5, <1>6, <1>7

\* The reads of the screen and those of the services are distinct.
LEMMA ScreenReadFacts ==
    /\ \A v \in User : /\ CheckIfUserIsFollowed(v) \in ScreenReads /\ FetchUserStats(v) \in ScreenReads
                       /\ FetchUserProfilePosts(v) \in ScreenReads
    /\ \A v : /\ CheckIfUserIsFollowed(v).kind = "check" /\ CheckIfUserIsFollowed(v).of = v
              /\ FetchUserStats(v).kind = "stats" /\ FetchUserStats(v).of = v
    /\ \A r \in ScreenReads :
           /\ r.of \in User /\ r.kind \in {"check", "stats", "posts"} /\ r \notin Reads
           /\ r.kind = "check" => r = CheckIfUserIsFollowed(r.of)
           /\ r.kind = "stats" => r = FetchUserStats(r.of)
    /\ \A r \in Reads : r.kind \in {"addPosts", "dropPosts", "image", "followers"}
    /\ \A v \in User : \A d : FeedRead(v, d) \in FeedReads
    /\ FeedReads \subseteq Reads /\ ShareReads \subseteq Reads
<1>1. \A r \in ScreenReads :
        /\ r.of \in User /\ r.kind \in {"check", "stats", "posts"}
        /\ r = [kind |-> r.kind, of |-> r.of]
  BY DEF ScreenReads
<1>2. \A r \in Reads : r.kind \in {"addPosts", "dropPosts", "image", "followers"}
  BY DEF Reads, FeedReads, ShareReads
<1>3. \A v \in User : \A d : FeedRead(v, d) \in FeedReads
  BY DEF FeedRead, FeedReads, Read
<1>4. FeedReads \subseteq Reads /\ ShareReads \subseteq Reads
  BY DEF Reads
<1>5. \A v \in User : /\ CheckIfUserIsFollowed(v) \in ScreenReads /\ FetchUserStats(v) \in ScreenReads
                      /\ FetchUserProfilePosts(v) \in ScreenReads
  BY DEF CheckIfUserIsFollowed, FetchUserStats, FetchUserProfilePosts, Read, ScreenReads
<1>6. \A v : /\ CheckIfUserIsFollowed(v).kind = "check" /\ CheckIfUserIsFollowed(v).of = v
             /\ FetchUserStats(v).kind = "stats" /\ FetchUserStats(v).of = v
  BY DEF CheckIfUserIsFollowed, FetchUserStats, Read
<1>7. \A r \in ScreenReads : /\ r.kind = "check" => r = CheckIfUserIsFollowed(r.of)
                             /\ r.kind = "stats" => r = FetchUserStats(r.of)
  BY <1>1 DEF CheckIfUserIsFollowed, FetchUserStats, Read
<1>8. \A r \in ScreenReads : r \notin Reads
  BY <1>1, <1>2
<1> QED
  BY <1>1, <1>2, <1>3, <1>4, <1>5, <1>6, <1>7, <1>8

-----------------------------------------------------------------------------
(***************************************************************************)
(* The devices, and a step of one of them.                                 *)
(***************************************************************************)

\* Both members of a pair are users.
LEMMA PairIs ==
    /\ \A e \in Pair : e[1] \in User /\ e[2] \in User /\ e[1] # e[2] /\ e = <<e[1], e[2]>>
    /\ \A u, v \in User : u # v => <<u, v>> \in Pair
BY DEF Pair

\* The device of u.
LEMMA ScreenDevice ==
    ASSUME ScreenTypeOK, NEW u \in User
    PROVE  /\ DOMAIN queue = User /\ queue[u] \in Seq(ScreenWritesOf(u))
           /\ Elems(queue[u]) \subseteq ScreenWritesOf(u)
           /\ DOMAIN mainq = User /\ mainq[u] \in Seq(ScreenBlocksOf(u))
           /\ Elems(mainq[u]) \subseteq ScreenBlocksOf(u)
           /\ asked \in [User -> [Reads \union ScreenReads -> Nat]]
<1>1. /\ DOMAIN queue = User /\ queue[u] \in Seq(ScreenWritesOf(u))
      /\ DOMAIN mainq = User /\ mainq[u] \in Seq(ScreenBlocksOf(u))
      /\ asked \in [User -> [Reads \union ScreenReads -> Nat]]
  BY DEF ScreenTypeOK
<1>2. Elems(queue[u]) \subseteq ScreenWritesOf(u) /\ Elems(mainq[u]) \subseteq ScreenBlocksOf(u)
  BY <1>1, ElemsIn
<1> QED
  BY <1>1, <1>2

\* What a check finds is what the device takes to be true.
LEMMA PresentIs ==
    ASSUME ScreenTypeOK, NEW e \in Pair
    PROVE  LocallyPresent(e[1], "following", e, docs["following"])
              <=> Present(queue[e[1]], Follows(e), e)
<1> DEFINE q == queue[e[1]]
           own == {i \in DOMAIN q : q[i].coll = "following" /\ q[i].key = e}
<1>1. e[1] \in User
  BY PairIs
<1>2. \A i \in DOMAIN q : q[i] \in ScreenWritesOf(e[1])
  BY <1>1, ScreenDevice DEF Elems
<1>3. own = Firsts(q, e)
  BY <1>2 DEF Firsts, FirstWrites
<1>4. LocallyPresent(e[1], "following", e, docs["following"])
         <=> IF own = {} THEN e \in docs["following"]
             ELSE \E i \in own : q[i].op = "set" /\ \A j \in own : j <= i
  BY DEF LocallyPresent
<1> HIDE DEF own, q
<1> QED
  BY <1>3, <1>4 DEF Present, Follows, q

\* The types after a step of u's device.
LEMMA TypeStep ==
    ASSUME ScreenTypeOK, NEW u \in User,
           DOMAIN queue' = User, \A x \in User \ {u} : queue'[x] = queue[x],
           queue'[u] \in Seq(ScreenWritesOf(u)),
           DOMAIN mainq' = User, \A x \in User \ {u} : mainq'[x] = mainq[x],
           mainq'[u] \in Seq(ScreenBlocksOf(u)),
           asked' \in [User -> [Reads \union ScreenReads -> Nat]],
           \A x \in User, r \in ShareReads : asked'[x][r] > 0 => Owner[r.of] = x,
           DOMAIN docs' = Coll, \A c \in Coll : docs'[c] \subseteq Key(c),
           isFollowed' \in [User -> [User -> BOOLEAN]], header' \in [User -> [User -> BOOLEAN]],
           appeared' \subseteq Pair, misled' \subseteq User \X User
    PROVE  ScreenTypeOK'
<1>1. \A x \in User : queue'[x] \in Seq(ScreenWritesOf(x))
  BY DEF ScreenTypeOK
<1>2. \A x \in User : mainq'[x] \in Seq(ScreenBlocksOf(x))
  BY DEF ScreenTypeOK
<1> QED
  BY <1>1, <1>2 DEF ScreenTypeOK

\* Reads are asked for on u's device.
LEMMA ScreenAsks ==
    ASSUME ScreenTypeOK, NEW u \in User, NEW rs, asked' = Ask(u, rs),
           \A r \in rs : r \in ShareReads => Owner[r.of] = u
    PROVE  /\ asked' \in [User -> [Reads \union ScreenReads -> Nat]]
           /\ \A x \in User, r \in ShareReads : asked'[x][r] > 0 => Owner[r.of] = x
           /\ \A x \in User \ {u} : asked'[x] = asked[x]
           /\ \A r \in Reads \union ScreenReads : asked[u][r] > 0 => asked'[u][r] > 0
           /\ \A r \in Reads \union ScreenReads : r \in rs => asked'[u][r] > 0
<1> DEFINE R == Reads \union ScreenReads
<1>1. asked \in [User -> [R -> Nat]] /\ ShareReads \subseteq R
  BY ScreenReadFacts DEF ScreenTypeOK
<1> HIDE DEF R
<1>2. /\ asked' \in [User -> [R -> Nat]]
      /\ \A r \in R : asked'[u][r] = IF r \in rs THEN asked[u][r] + 1 ELSE asked[u][r]
  <2>1. \A ss : /\ Ask(u, ss) \in [User -> [R -> Nat]]
                /\ \A r \in R : Ask(u, ss)[u][r] = IF r \in ss THEN asked[u][r] + 1 ELSE asked[u][r]
    BY <1>1, DeviceAsks
  <2> QED
    BY <2>1
<1>3. \A x \in User \ {u} : asked'[x] = asked[x]
  BY <1>1 DEF Ask
<1>4. \A r \in R : asked[u][r] \in Nat
  BY <1>1
<1>5. /\ \A r \in R : asked[u][r] > 0 => asked'[u][r] > 0
      /\ \A r \in R : r \in rs => asked'[u][r] > 0
      /\ \A r \in R : r \notin rs => asked'[u][r] = asked[u][r]
  BY <1>2, <1>4
<1>6. \A x \in User, r \in ShareReads : asked'[x][r] > 0 => Owner[r.of] = x
  <2>1. \A x \in User, r \in ShareReads : asked[x][r] > 0 => Owner[r.of] = x
    BY DEF ScreenTypeOK
  <2>2. ASSUME NEW r \in ShareReads, asked'[u][r] > 0 PROVE Owner[r.of] = u
    <3>1. r \in R
      BY <1>1
    <3> QED
      BY <1>5, <2>1, <2>2, <3>1
  <2>3. ASSUME NEW x \in User \ {u}, NEW r \in ShareReads, asked'[x][r] > 0
        PROVE  Owner[r.of] = x
    BY <1>3, <2>1, <2>3
  <2> QED
    BY <2>2, <2>3
<1> QED
  BY <1>2, <1>3, <1>5, <1>6 DEF R

\* Writes are issued on u's device.
LEMMA ScreenIssues ==
    ASSUME ScreenTypeOK, NEW u \in User, NEW ws \in Seq(ScreenWritesOf(u)),
           queue' = WriteMutations(u, ws) \/ (ws = << >> /\ UNCHANGED queue)
    PROVE  /\ DOMAIN queue' = User /\ queue'[u] \in Seq(ScreenWritesOf(u))
           /\ queue'[u] = queue[u] \o ws
           /\ \A x \in User \ {u} : queue'[x] = queue[x]
<1> DEFINE W == ScreenWritesOf(u)
<1>1. DOMAIN queue = User /\ queue[u] \in Seq(W) /\ ws \in Seq(W)
  BY ScreenDevice
<1> HIDE DEF W
<1>2. /\ DOMAIN queue' = User /\ queue'[u] = queue[u] \o ws
      /\ \A x \in User \ {u} : queue'[x] = queue[x]
  <2>1. CASE queue' = WriteMutations(u, ws)
    BY <1>1, <2>1 DEF WriteMutations
  <2>2. CASE ws = << >> /\ UNCHANGED queue
    BY <1>1, <2>2, ConcatEmptySeq
  <2> QED
    BY <2>1, <2>2
<1>3. queue[u] \o ws \in Seq(W)
  BY <1>1, ConcatProperties
<1> QED
  BY <1>2, <1>3 DEF W

\* Nothing that belongs to another user than u changes.
OnlyDevice(u) ==
    /\ \A x \in User \ {u} :
          /\ queue'[x] = queue[x] /\ mainq'[x] = mainq[x] /\ asked'[x] = asked[x]
          /\ isFollowed'[x] = isFollowed[x] /\ header'[x] = header[x]
    /\ \A e \in Pair : e[1] # u =>
          /\ Follows(e)' <=> Follows(e)
          /\ e \in appeared' <=> e \in appeared
          /\ e \in misled' <=> e \in misled

\* Then only what is said of u's own pairs is to be shown.
LEMMA DeviceStep ==
    ASSUME ScreenInv, ScreenTypeOK', NEW u \in User, OnlyDevice(u),
           \A e \in Pair : e[1] = u /\ e \notin misled' =>
               /\ StagesRight(queue'[u], mainq'[u], Follows(e)', e)
               /\ e \in appeared' => FlagRight(e)',
           \A v \in User : HeaderRight(u, v)'
    PROVE  ScreenInv'
<1>1. Stages'
  <2> SUFFICES ASSUME NEW e \in Pair, e \notin misled'
               PROVE  StagesRight(queue'[e[1]], mainq'[e[1]], Follows(e)', e)
    BY DEF Stages
  <2>1. CASE e[1] = u
    BY <2>1
  <2>2. CASE e[1] # u
    <3>1. /\ queue'[e[1]] = queue[e[1]] /\ mainq'[e[1]] = mainq[e[1]]
          /\ Follows(e)' = Follows(e) /\ e \notin misled
      BY <2>2, PairIs DEF OnlyDevice, Follows
    <3>2. StagesRight(queue[e[1]], mainq[e[1]], Follows(e), e)
      BY <3>1 DEF ScreenInv, Stages
    <3> QED
      BY <3>1, <3>2
  <2> QED
    BY <2>1, <2>2
<1>2. Flags'
  <2> SUFFICES ASSUME NEW e \in Pair, e \notin misled', e \in appeared'
               PROVE  FlagRight(e)'
    BY DEF Flags, ScreenTypeOK
  <2>1. CASE e[1] = u
    BY <2>1
  <2>2. CASE e[1] # u
    <3>1. /\ queue'[e[1]] = queue[e[1]] /\ mainq'[e[1]] = mainq[e[1]] /\ asked'[e[1]] = asked[e[1]]
          /\ isFollowed'[e[1]] = isFollowed[e[1]]
          /\ Follows(e)' = Follows(e) /\ e \notin misled /\ e \in appeared
      BY <2>2, PairIs DEF OnlyDevice, Follows
    <3>2. FlagRight(e)
      BY <3>1 DEF ScreenInv, Flags
    <3> QED
      BY <3>1, <3>2 DEF FlagRight, UnderWay
  <2> QED
    BY <2>1, <2>2
<1>3. Headers'
  <2> SUFFICES ASSUME NEW x \in User, NEW v \in User, x # u PROVE HeaderRight(x, v)'
    BY DEF Headers
  <2>1. /\ mainq'[x] = mainq[x] /\ asked'[x] = asked[x]
        /\ isFollowed'[x] = isFollowed[x] /\ header'[x] = header[x]
    BY DEF OnlyDevice
  <2>2. HeaderRight(x, v)
    BY DEF ScreenInv, Headers
  <2> QED
    BY <2>1, <2>2 DEF HeaderRight, UnderWay
<1> QED
  BY <1>1, <1>2, <1>3 DEF ScreenInv

\* What the invariant says of the pairs of u's device.
LEMMA ScreenHas ==
    ASSUME ScreenInv, NEW u \in User
    PROVE  /\ \A e \in Pair : e[1] = u /\ e \notin misled =>
                 /\ StagesRight(queue[u], mainq[u], Follows(e), e)
                 /\ e \in appeared => FlagRight(e)
           /\ \A v \in User : HeaderRight(u, v)
           /\ \A e : Follows(e) \in BOOLEAN /\ Follows(e)' \in BOOLEAN
BY DEF ScreenInv, Stages, Flags, Headers, Follows

-----------------------------------------------------------------------------
(***************************************************************************)
(* Touches.                                                                *)
(***************************************************************************)

\* The profile is shown: its check is under way.
LEMMA ViewWillAppearInv ==
    ASSUME ScreenInv, NEW u \in User, NEW v \in User, ViewWillAppear(u, v)
    PROVE  ScreenInv'
<1> DEFINE rs == {FetchUserStats(v), FetchUserProfilePosts(v), CheckIfUserIsFollowed(v)}
<1>1. ScreenTypeOK /\ v # u
  BY DEF ScreenInv, ViewWillAppear
<1>2. /\ asked' = Ask(u, rs) /\ appeared' = appeared \union {<<u, v>>}
      /\ UNCHANGED <<queue, mainq, docs, drawn, taps, faults, torn, refused>>
      /\ UNCHANGED <<isFollowed, header, lost, misled>>
  BY DEF ViewWillAppear, graphVars
<1>3. \A r \in ShareReads : r \notin rs
  BY <1>1, ScreenReadFacts
<1>4. CheckIfUserIsFollowed(v) \in rs
  OBVIOUS
<1> HIDE DEF rs
<1>5. /\ asked' \in [User -> [Reads \union ScreenReads -> Nat]]
      /\ \A x \in User, r \in ShareReads : asked'[x][r] > 0 => Owner[r.of] = x
      /\ \A x \in User \ {u} : asked'[x] = asked[x]
      /\ \A r \in Reads \union ScreenReads : asked[u][r] > 0 => asked'[u][r] > 0
      /\ \A r \in Reads \union ScreenReads : r \in rs => asked'[u][r] > 0
  BY <1>1, <1>2, <1>3, ScreenAsks
<1>6. CheckIfUserIsFollowed(v) \in ScreenReads
  BY ScreenReadFacts
<1>7. ScreenTypeOK'
  <2>1. appeared' \subseteq Pair
    BY <1>1, <1>2, PairIs DEF ScreenTypeOK
  <2> QED
    BY <1>1, <1>2, <1>5, <2>1 DEF ScreenTypeOK
<1>8. OnlyDevice(u)
  BY <1>2, <1>5 DEF OnlyDevice, Follows
<1>9. \A r \in Reads \union ScreenReads : UnderWay(u, r) => UnderWay(u, r)'
  BY <1>2, <1>5 DEF UnderWay
<1>10. UnderWay(u, CheckIfUserIsFollowed(v))'
  BY <1>4, <1>5, <1>6 DEF UnderWay
<1>11. ASSUME NEW e \in Pair, e[1] = u, e \notin misled'
       PROVE  /\ StagesRight(queue'[u], mainq'[u], Follows(e)', e)
              /\ e \in appeared' => FlagRight(e)'
  <2>1. StagesRight(queue[u], mainq[u], Follows(e), e) /\ (e \in appeared => FlagRight(e))
    BY <1>2, <1>11, ScreenHas
  <2>2. Follows(e)' = Follows(e)
    BY <1>2 DEF Follows
  <2>3. CASE e = <<u, v>>
    BY <1>2, <1>10, <2>1, <2>2, <2>3 DEF FlagRight
  <2>4. CASE e # <<u, v>>
    <3>1. e \in appeared' => e \in appeared
      BY <1>2, <2>4
    <3>2. UnderWay(u, CheckIfUserIsFollowed(e[2])) => UnderWay(u, CheckIfUserIsFollowed(e[2]))'
      BY <1>9, PairIs, ScreenReadFacts
    <3> QED
      BY <1>2, <1>11, <2>1, <2>2, <3>1, <3>2 DEF FlagRight
  <2> QED
    BY <2>3, <2>4
<1>12. \A x \in User : HeaderRight(u, x)'
  BY <1>2, <1>9, ScreenHas, ScreenReadFacts DEF HeaderRight
<1> QED
  BY <1>7, <1>8, <1>11, <1>12, DeviceStep

\* The button is tapped: the new first write is the newest stage of its pair.
LEMMA EditProfileButtonClickedInv ==
    ASSUME ScreenInv, NEW u \in User, NEW v \in User, EditProfileButtonClicked(u, v)
    PROVE  ScreenInv'
<1> SUFFICES ASSUME NEW w, w = FollowingWrite(u, v, OpFor(~header[u][v]), "profile")
             PROVE  ScreenInv'
  OBVIOUS
<1>1. ScreenTypeOK /\ v # u
  BY DEF ScreenInv, EditProfileButtonClicked, CallFollow
<1>2. /\ queue' = WriteMutations(u, <<w>>)
      /\ UNCHANGED <<asked, mainq, docs, isFollowed, header, appeared, misled>>
  BY DEF EditProfileButtonClicked, CallFollow, screenVars
<1>3. OpFor(~header[u][v]) \in Ops
  BY DEF OpFor, Ops
<1>4. /\ w \in ScreenWritesOf(u) /\ w.coll = "following" /\ w.key = <<u, v>> /\ w.then = "profile"
  BY <1>1, <1>3, ScreenWriteTypes DEF FollowingWrite, Write
<1> DEFINE ws == <<w>>
<1>5. ws \in Seq(ScreenWritesOf(u)) /\ Elems(ws) = {w} /\ queue[u] \o ws = Append(queue[u], w)
  BY <1>1, <1>4, ElemsFew, ScreenDevice
<1> HIDE DEF ws
<1>6. /\ DOMAIN queue' = User /\ queue'[u] \in Seq(ScreenWritesOf(u))
      /\ queue'[u] = queue[u] \o ws
      /\ \A x \in User \ {u} : queue'[x] = queue[x]
  BY <1>1, <1>2, <1>5, ScreenIssues DEF ws
<1>7. ScreenTypeOK'
  BY <1>1, <1>2, <1>6, TypeStep DEF ScreenTypeOK
<1>8. OnlyDevice(u)
  BY <1>2, <1>6 DEF OnlyDevice, Follows
<1>9. ASSUME NEW e \in Pair, e[1] = u, e \notin misled'
      PROVE  /\ StagesRight(queue'[u], mainq'[u], Follows(e)', e)
             /\ e \in appeared' => FlagRight(e)'
  <2>1. StagesRight(queue[u], mainq[u], Follows(e), e) /\ (e \in appeared => FlagRight(e))
    BY <1>2, <1>9, ScreenHas
  <2>2. Follows(e)' = Follows(e) /\ Follows(e) \in BOOLEAN
    BY <1>2 DEF Follows
  <2>3. queue[u] \in Seq(ScreenWritesOf(u))
    BY <1>1, ScreenDevice
  <2>4. CASE e = <<u, v>>
    <3>1. w \in LiveFirsts(e)
      BY <1>4, <1>9, <2>4 DEF LiveFirsts, FirstWrites, NoOne
    <3>2. StagesRight(Append(queue[u], w), mainq[u], Follows(e), e) /\ Chained(Append(queue[u], w), mainq[u], e)
      BY <1>4, <2>1, <2>2, <2>3, <3>1, StagesIssueFirst
    <3> QED
      BY <1>2, <1>5, <1>6, <1>9, <2>2, <3>2, ZenonT(40) DEF FlagRight
  <2>5. CASE e # <<u, v>>
    <3>1. \A x \in Elems(ws) : x \notin FirstWrites(e) /\ x \notin LiveSeconds(e)
      BY <1>4, <1>5, <2>5 DEF FirstWrites, LiveSeconds
    <3> DEFINE W == ScreenWritesOf(u)
               q == queue[u]
               m == mainq[u]
               X == Follows(e)
    <3>2. q \in Seq(W) /\ ws \in Seq(W) /\ X \in BOOLEAN /\ StagesRight(q, m, X, e)
      BY <1>5, <2>1, <2>2, <2>3
    <3> HIDE DEF W, q, m, X
    <3>3. /\ StagesRight(q \o ws, m, X, e) /\ (Chained(q, m, e) => Chained(q \o ws, m, e))
      BY <3>1, <3>2, StagesIssueOther
    <3>4. Present(q \o ws, X, e) <=> Present(q, X, e)
      BY <3>1, <3>2, PresentConcat
    <3>5. /\ StagesRight(queue'[u], mainq[u], Follows(e), e)
          /\ Chained(queue[u], mainq[u], e) => Chained(queue'[u], mainq[u], e)
          /\ Present(queue'[u], Follows(e), e) <=> Present(queue[u], Follows(e), e)
      BY <1>6, <3>3, <3>4 DEF q, m, X
    <3> QED
      BY <1>2, <1>9, <2>1, <2>2, <3>5 DEF FlagRight, UnderWay
  <2> QED
    BY <2>4, <2>5
<1>10. \A x \in User : HeaderRight(u, x)'
  BY <1>2, ScreenHas DEF HeaderRight, UnderWay
<1> QED
  BY <1>7, <1>8, <1>9, <1>10, DeviceStep

-----------------------------------------------------------------------------
(***************************************************************************)
(* Running blocks.                                                         *)
(***************************************************************************)

\* The main thread of u's device runs block b, which issues the writes ws and
\* the reads rs and posts the blocks bs.
Posted == {<< >>} \union {<<Reload(v)>> : v \in User}

Runs(u, b, ws, rs, bs) ==
    /\ mainq[u] # << >> /\ b = Head(mainq[u]) /\ mainq' = RunFirst(u, bs) /\ bs \in Posted
    /\ queue' = WriteMutations(u, ws) \/ (ws = << >> /\ UNCHANGED queue)
    /\ ws \in Seq(ScreenWritesOf(u))
    /\ asked' = Ask(u, rs) /\ \A r \in rs : r \in ShareReads => Owner[r.of] = u
    /\ UNCHANGED <<docs, appeared, misled>>

\* The queues after b has run.
LEMMA RunsQueue ==
    ASSUME ScreenTypeOK, NEW u \in User, NEW b, NEW ws, NEW rs, NEW bs, Runs(u, b, ws, rs, bs)
    PROVE  /\ b \in ScreenBlocksOf(u) /\ b = Head(mainq[u])
           /\ DOMAIN mainq' = User /\ mainq'[u] \in Seq(ScreenBlocksOf(u))
           /\ \A x \in User \ {u} : mainq'[x] = mainq[x]
           /\ Elems(mainq[u]) = {b} \union Elems(Tail(mainq[u]))
           /\ Elems(mainq'[u]) = Elems(Tail(mainq[u])) \union Elems(bs)
           /\ \/ mainq'[u] = Tail(mainq[u]) /\ bs = << >>
              \/ \E v \in User : mainq'[u] = Append(Tail(mainq[u]), Reload(v)) /\ bs = <<Reload(v)>>
           /\ \A v \in User : bs = <<Reload(v)>> => Reload(v) \in Elems(mainq'[u])
<1> DEFINE B == ScreenBlocksOf(u)
<1>1. /\ DOMAIN mainq = User /\ mainq[u] \in Seq(B) /\ mainq[u] # << >> /\ b = Head(mainq[u])
      /\ mainq' = RunFirst(u, bs) /\ bs \in Posted
  BY ScreenDevice DEF Runs
<1>2. \A v \in User : Reload(v) \in B
  BY ScreenBlockTypes
<1> HIDE DEF B
<1>3. \A v \in User : <<Reload(v)>> \in Seq(B) /\ Elems(<<Reload(v)>>) = {Reload(v)}
  BY <1>2, ElemsFew
<1>4. << >> \in Seq(B)
  OBVIOUS
<1>5. bs \in Seq(B)
  BY <1>1, <1>3, <1>4 DEF Posted
<1>6. /\ DOMAIN mainq' = User /\ mainq'[u] = Tail(mainq[u]) \o bs /\ mainq'[u] \in Seq(B)
      /\ b \in B /\ Elems(mainq[u]) = {b} \union Elems(Tail(mainq[u]))
      /\ Elems(mainq'[u]) = Elems(Tail(mainq[u])) \union Elems(bs)
  BY <1>1, <1>5, DeviceRuns
<1>7. \A x \in User \ {u} : mainq'[x] = mainq[x]
  BY <1>1 DEF RunFirst
<1>8. Tail(mainq[u]) \in Seq(B)
  BY <1>1, AfterTail
<1>9. \/ mainq'[u] = Tail(mainq[u]) /\ bs = << >>
      \/ \E v \in User : mainq'[u] = Append(Tail(mainq[u]), Reload(v)) /\ bs = <<Reload(v)>>
  <2>1. CASE bs = << >>
    BY <1>6, <1>8, <2>1, ConcatEmptySeq
  <2>2. ASSUME NEW v \in User, bs = <<Reload(v)>>
        PROVE  mainq'[u] = Append(Tail(mainq[u]), Reload(v))
    <3> DEFINE t == Tail(mainq[u])
               r == Reload(v)
    <3>1. t \in Seq(B) /\ r \in B
      BY <1>2, <1>8
    <3> HIDE DEF t, r
    <3>2. t \o <<r>> = Append(t, r)
      BY <3>1
    <3> QED
      BY <1>6, <2>2, <3>2 DEF t, r
  <2> QED
    BY <1>1, <2>1, <2>2 DEF Posted
<1>10. \A v \in User : bs = <<Reload(v)>> => Reload(v) \in Elems(mainq'[u])
  BY <1>3, <1>6
<1> QED
  BY <1>1, <1>6, <1>7, <1>9, <1>10 DEF B

\* The types after b has run.
LEMMA RunsTyped ==
    ASSUME ScreenTypeOK, NEW u \in User, NEW b, NEW ws, NEW rs, NEW bs, Runs(u, b, ws, rs, bs),
           isFollowed' \in [User -> [User -> BOOLEAN]], header' \in [User -> [User -> BOOLEAN]]
    PROVE  ScreenTypeOK'
<1>1. DOMAIN mainq' = User /\ mainq'[u] \in Seq(ScreenBlocksOf(u))
      /\ \A x \in User \ {u} : mainq'[x] = mainq[x]
  BY RunsQueue
<1>2. /\ DOMAIN queue' = User /\ queue'[u] \in Seq(ScreenWritesOf(u))
      /\ \A x \in User \ {u} : queue'[x] = queue[x]
  BY ScreenIssues DEF Runs
<1>3. /\ asked' \in [User -> [Reads \union ScreenReads -> Nat]]
      /\ \A x \in User, r \in ShareReads : asked'[x][r] > 0 => Owner[r.of] = x
  BY ScreenAsks DEF Runs
<1>4. UNCHANGED <<docs, appeared, misled>>
  BY DEF Runs
<1> QED
  BY <1>1, <1>2, <1>3, <1>4, TypeStep DEF ScreenTypeOK

\* Only u's device changes.
LEMMA RunsOnly ==
    ASSUME ScreenTypeOK, NEW u \in User, NEW b, NEW ws, NEW rs, NEW bs, Runs(u, b, ws, rs, bs),
           \A x \in User \ {u} : isFollowed'[x] = isFollowed[x] /\ header'[x] = header[x]
    PROVE  OnlyDevice(u)
<1>1. \A x \in User \ {u} : mainq'[x] = mainq[x]
  BY RunsQueue
<1>2. \A x \in User \ {u} : queue'[x] = queue[x]
  BY ScreenIssues DEF Runs
<1>3. \A x \in User \ {u} : asked'[x] = asked[x]
  BY ScreenAsks DEF Runs
<1> QED
  BY <1>1, <1>2, <1>3 DEF OnlyDevice, Runs, Follows

\* What is under way, and what is about to be reloaded, stays so.
LEMMA RunsUnderWay ==
    ASSUME ScreenTypeOK, NEW u \in User, NEW b, NEW ws, NEW rs, NEW bs, Runs(u, b, ws, rs, bs)
    PROVE  /\ \A r \in ScreenReads :
                 UnderWay(u, r) /\ ~(b.type = "answer" /\ b.r = r) => UnderWay(u, r)'
           /\ \A r \in ScreenReads : r \in rs => UnderWay(u, r)'
           /\ \A v \in User : Reload(v) \in Elems(mainq[u]) /\ b # Reload(v) =>
                 Reload(v) \in Elems(mainq'[u])
<1>1. /\ \A r \in Reads \union ScreenReads : asked[u][r] > 0 => asked'[u][r] > 0
      /\ \A r \in Reads \union ScreenReads : r \in rs => asked'[u][r] > 0
  BY ScreenAsks DEF Runs
<1>2. /\ Elems(mainq[u]) = {b} \union Elems(Tail(mainq[u]))
      /\ Elems(mainq'[u]) = Elems(Tail(mainq[u])) \union Elems(bs)
  BY RunsQueue
<1>3. \A x \in Elems(mainq[u]) : x = b \/ x \in Elems(mainq'[u])
  BY <1>2
<1>4. \A r \in ScreenReads :
         UnderWay(u, r) /\ ~(b.type = "answer" /\ b.r = r) => UnderWay(u, r)'
  BY <1>1, <1>3 DEF UnderWay
<1> QED
  BY <1>1, <1>3, <1>4 DEF UnderWay

\* The stages of a pair after b has run, unless b is the ack of a first write.
LEMMA RunsPair ==
    ASSUME ScreenInv, NEW u \in User, NEW b, NEW ws, NEW rs, NEW bs, Runs(u, b, ws, rs, bs),
           NEW e \in Pair, e[1] = u, e \notin misled, b \notin FirstAcks(e),
           \A w \in Elems(ws) : w \notin FirstWrites(e) /\ w \notin LiveSeconds(e)
    PROVE  /\ StagesRight(queue'[u], mainq'[u], Follows(e)', e)
           /\ Present(queue'[u], Follows(e)', e) <=> Present(queue[u], Follows(e), e)
           /\ b \notin SecondAcks(e) /\ Chained(queue[u], mainq[u], e) =>
                 Chained(queue'[u], mainq'[u], e)
           /\ b \in SecondAcks(e) => \/ b.w.op = "set" <=> Present(queue[u], Follows(e), e)
                                     \/ Chained(queue'[u], mainq'[u], e)
           /\ b \in CheckAnswers(e) => \/ b.docs # {} <=> Present(queue[u], Follows(e), e)
                                       \/ Chained(queue'[u], mainq'[u], e)
<1>1. ScreenTypeOK /\ Follows(e)' = Follows(e) /\ Follows(e) \in BOOLEAN
  BY DEF ScreenInv, Follows, Runs
<1>2. StagesRight(queue[u], mainq[u], Follows(e), e)
  BY ScreenHas
<1>3. /\ ws \in Seq(ScreenWritesOf(u)) /\ mainq[u] # << >>
      /\ queue' = WriteMutations(u, ws) \/ (ws = << >> /\ UNCHANGED queue)
  BY DEF Runs
<1>4. queue[u] \in Seq(ScreenWritesOf(u)) /\ mainq[u] \in Seq(ScreenBlocksOf(u))
  BY <1>1, ScreenDevice
<1>5. queue'[u] = queue[u] \o ws
  BY <1>1, <1>3, ScreenIssues
<1>6. /\ b = Head(mainq[u])
      /\ \/ mainq'[u] = Tail(mainq[u])
         \/ \E v \in User : mainq'[u] = Append(Tail(mainq[u]), Reload(v))
  BY <1>1, RunsQueue
<1>7. \A v \in User : Reload(v) \in ScreenBlocksOf(u) /\ Reload(v).type = "reload"
  BY ScreenBlockTypes
<1>8. \A v \in User : /\ Reload(v) \notin FirstAcks(e) /\ Reload(v) \notin SecondAcks(e)
                      /\ Reload(v) \notin CheckAnswers(e)
  BY <1>7 DEF FirstAcks, SecondAcks, CheckAnswers
<1> DEFINE W == ScreenWritesOf(u)
           B == ScreenBlocksOf(u)
           q == queue[u]
           m == mainq[u]
           n == mainq'[u]
           X == Follows(e)
<1>9. /\ q \in Seq(W) /\ ws \in Seq(W) /\ m \in Seq(B) /\ m # << >> /\ X \in BOOLEAN
      /\ StagesRight(q, m, X, e) /\ b = Head(m) /\ Head(m) \notin FirstAcks(e)
      /\ n = Tail(m) \/ \E v \in User : n = Append(Tail(m), Reload(v))
      /\ \A v \in User : Reload(v) \in B
  BY <1>1, <1>2, <1>3, <1>4, <1>6, <1>7
<1> HIDE DEF W, B, q, m, n, X
<1>10. /\ StagesRight(q, Tail(m), X, e)
       /\ Head(m) \notin SecondAcks(e) /\ Chained(q, m, e) => Chained(q, Tail(m), e)
       /\ Head(m) \in SecondAcks(e) =>
             (Head(m).w.op = "set" <=> Present(q, X, e)) \/ Chained(q, Tail(m), e)
       /\ Head(m) \in CheckAnswers(e) =>
             (Head(m).docs # {} <=> Present(q, X, e)) \/ Chained(q, Tail(m), e)
  BY <1>9, StagesRun
<1>11. Tail(m) \in Seq(B)
  BY <1>9, AfterTail
<1> DEFINE t == Tail(m)
<1> HIDE DEF t
<1>12. StagesRight(q, n, X, e) /\ (Chained(q, t, e) => Chained(q, n, e))
  <2>1. ASSUME NEW v \in User, n = Append(t, Reload(v))
        PROVE  StagesRight(q, n, X, e) /\ (Chained(q, t, e) => Chained(q, n, e))
    <3> DEFINE r == Reload(v)
    <3>1. /\ r \in B /\ t \in Seq(B) /\ StagesRight(q, t, X, e) /\ n = Append(t, r)
          /\ r \notin FirstAcks(e) /\ r \notin SecondAcks(e) /\ r \notin CheckAnswers(e)
      BY <1>8, <1>9, <1>10, <1>11, <2>1 DEF t
    <3> HIDE DEF r
    <3> QED
      BY <1>9, <3>1, StagesPost
  <2> QED
    BY <1>9, <1>10, <2>1 DEF t
<1>13. StagesRight(q \o ws, n, X, e) /\ (Chained(q, n, e) => Chained(q \o ws, n, e))
  BY <1>9, <1>12, StagesIssueOther
<1>14. Present(q \o ws, X, e) <=> Present(q, X, e)
  BY <1>9, PresentConcat
<1> DEFINE P == Present(q, X, e)
<1> HIDE DEF P
<1>15. /\ StagesRight(q \o ws, n, X, e)
       /\ Present(q \o ws, X, e) <=> P
       /\ b \notin SecondAcks(e) /\ Chained(q, m, e) => Chained(q \o ws, n, e)
       /\ b \in SecondAcks(e) => (b.w.op = "set" <=> P) \/ Chained(q \o ws, n, e)
       /\ b \in CheckAnswers(e) => (b.docs # {} <=> P) \/ Chained(q \o ws, n, e)
  BY <1>9, <1>10, <1>12, <1>13, <1>14 DEF t, P
<1> QED
  BY <1>1, <1>5, <1>15 DEF q, m, n, X, P

\* The flag of a pair after b has run: what b writes is right, or more follows.
LEMMA RunsFlag ==
    ASSUME ScreenInv, NEW u \in User, NEW b, NEW ws, NEW rs, NEW bs, Runs(u, b, ws, rs, bs),
           NEW e \in Pair, e[1] = u, e \notin misled, e \in appeared, b \notin FirstAcks(e),
           \A w \in Elems(ws) : w \notin FirstWrites(e) /\ w \notin LiveSeconds(e),
           b \in SecondAcks(e) => (isFollowed'[u][e[2]] <=> b.w.op = "set"),
           b \in CheckAnswers(e) => (isFollowed'[u][e[2]] <=> b.docs # {}),
           b \notin SecondAcks(e) /\ b \notin CheckAnswers(e) =>
               isFollowed'[u][e[2]] = isFollowed[u][e[2]]
    PROVE  FlagRight(e)'
<1>1. /\ Present(queue'[u], Follows(e)', e) <=> Present(queue[u], Follows(e), e)
      /\ b \notin SecondAcks(e) /\ Chained(queue[u], mainq[u], e) =>
            Chained(queue'[u], mainq'[u], e)
      /\ b \in SecondAcks(e) => \/ b.w.op = "set" <=> Present(queue[u], Follows(e), e)
                                \/ Chained(queue'[u], mainq'[u], e)
      /\ b \in CheckAnswers(e) => \/ b.docs # {} <=> Present(queue[u], Follows(e), e)
                                  \/ Chained(queue'[u], mainq'[u], e)
  BY RunsPair
<1>2. FlagRight(e) /\ ScreenTypeOK /\ e[2] \in User
  BY ScreenHas, PairIs DEF ScreenInv
<1>3. CASE b \in SecondAcks(e)
  BY <1>1, <1>3 DEF FlagRight
<1>4. CASE b \in CheckAnswers(e)
  BY <1>1, <1>4 DEF FlagRight
<1>5. CASE b \notin SecondAcks(e) /\ b \notin CheckAnswers(e)
  <2>1. b \in ScreenBlocksOf(u)
    BY <1>2, RunsQueue
  <2>2. ~(b.type = "answer" /\ b.r = CheckIfUserIsFollowed(e[2]))
    BY <1>5, <2>1 DEF CheckAnswers
  <2>3. UnderWay(u, CheckIfUserIsFollowed(e[2])) => UnderWay(u, CheckIfUserIsFollowed(e[2]))'
    BY <1>2, <2>2, RunsUnderWay, ScreenReadFacts
  <2> QED
    BY <1>1, <1>2, <1>5, <2>3 DEF FlagRight
<1> QED
  BY <1>3, <1>4, <1>5

\* The header of a profile, unless b reloads it or answers its stats.
LEMMA RunsHeader ==
    ASSUME ScreenInv, NEW u \in User, NEW b, NEW ws, NEW rs, NEW bs, Runs(u, b, ws, rs, bs),
           NEW v \in User, header'[u][v] = header[u][v], isFollowed'[u][v] = isFollowed[u][v],
           b # Reload(v), ~(b.type = "answer" /\ b.r = FetchUserStats(v))
    PROVE  HeaderRight(u, v)'
<1>1. HeaderRight(u, v) /\ ScreenTypeOK
  BY ScreenHas DEF ScreenInv
<1>2. UnderWay(u, FetchUserStats(v)) => UnderWay(u, FetchUserStats(v))'
  BY <1>1, RunsUnderWay, ScreenReadFacts
<1>3. Reload(v) \in Elems(mainq[u]) => Reload(v) \in Elems(mainq'[u])
  BY <1>1, RunsUnderWay
<1> QED
  BY <1>1, <1>2, <1>3 DEF HeaderRight

\* A block that issues no write, or no read.
LEMMA NothingIssued ==
    ASSUME ScreenTypeOK, NEW u \in User
    PROVE  << >> \in Seq(ScreenWritesOf(u)) /\ Elems(<< >>) = {} /\ Ask(u, {}) = asked
<1>1. Ask(u, {}) = asked
  BY ScreenDevice, DeviceAsks
<1> QED
  BY <1>1 DEF Elems

\* A block that has nothing to do with follows or with the screen.
LEMMA RunsCalm ==
    ASSUME ScreenInv, NEW u \in User, NEW b, NEW ws, NEW rs, Runs(u, b, ws, rs, << >>),
           UNCHANGED <<isFollowed, header>>,
           \A w \in Elems(ws) : w.coll # "following" /\ w.coll # "followers",
           \/ b.type = "ack" /\ b.w.coll # "following" /\ b.w.coll # "followers"
           \/ b.type = "answer" /\ b.r \in Reads
    PROVE  ScreenInv'
<1>1. ScreenTypeOK
  BY DEF ScreenInv
<1>2. ScreenTypeOK'
  BY <1>1, RunsTyped DEF ScreenTypeOK
<1>3. OnlyDevice(u)
  BY <1>1, RunsOnly
<1>4. UNCHANGED <<appeared, misled>>
  BY DEF Runs
<1>5. ASSUME NEW e \in Pair, e[1] = u, e \notin misled'
      PROVE  /\ StagesRight(queue'[u], mainq'[u], Follows(e)', e)
             /\ e \in appeared' => FlagRight(e)'
  <2>1. \A w \in Elems(ws) : w \notin FirstWrites(e) /\ w \notin LiveSeconds(e)
    BY DEF FirstWrites, LiveSeconds
  <2>2. b \notin FirstAcks(e) /\ b \notin SecondAcks(e)
    BY DEF FirstAcks, SecondAcks, LiveFirsts, FirstWrites, LiveSeconds
  <2>3. b \notin CheckAnswers(e)
    BY PairIs, ScreenReadFacts DEF CheckAnswers
  <2>4. StagesRight(queue'[u], mainq'[u], Follows(e)', e)
    BY <1>4, <1>5, <2>1, <2>2, RunsPair
  <2>5. e \in appeared' => FlagRight(e)'
    BY <1>4, <1>5, <2>1, <2>2, <2>3, RunsFlag
  <2> QED
    BY <2>4, <2>5
<1>6. ASSUME NEW v \in User PROVE HeaderRight(u, v)'
  <2>1. b # Reload(v) /\ ~(b.type = "answer" /\ b.r = FetchUserStats(v))
    BY ScreenBlockTypes, ScreenReadFacts
  <2> QED
    BY <2>1, RunsHeader
<1> QED
  BY <1>2, <1>3, <1>5, <1>6, DeviceStep

\* The completion of a first write: its second write is queued.
LEMMA FollowAckedInv ==
    ASSUME ScreenInv, NEW u \in User, NEW b, FollowAcked(u, b), UNCHANGED screenVars
    PROVE  ScreenInv'
<1> SUFFICES ASSUME NEW w, w = FollowersWrite(u, b.w.key[2], b.w.op, b.w.then)
             PROVE  ScreenInv'
  OBVIOUS
<1> DEFINE f == b.w.key
<1>1. ScreenTypeOK
  BY DEF ScreenInv
<1>2. /\ mainq[u] # << >> /\ b = Head(mainq[u]) /\ mainq' = RunFirst(u, << >>)
      /\ b.type = "ack" /\ b.w.coll = "following"
      /\ queue' = WriteMutations(u, <<w>>) /\ asked' = asked
      /\ UNCHANGED <<docs, isFollowed, header, appeared, misled>>
  BY DEF FollowAcked, RunningAlone, Running, graphVars, screenVars
<1>3. b \in ScreenBlocksOf(u)
  BY <1>1, <1>2, ScreenDevice, ElemsTail
<1>4. b.w \in ScreenWritesOf(u) /\ b.w.then # NoOne
  BY <1>2, <1>3, ScreenBlockFields
<1>5. /\ f \in Pair /\ f[1] = u /\ f[2] \in User /\ f[2] # u /\ f = <<u, f[2]>>
      /\ b.w.op \in Ops /\ b.w.then = "profile"
  BY <1>2, <1>4, ScreenWriteFields
<1>6. /\ w \in ScreenWritesOf(u) /\ w.coll = "followers" /\ w.key = f /\ w.then = "profile"
      /\ w.op = b.w.op
  BY <1>5, ScreenWriteTypes DEF FollowersWrite, Write
<1>7. w \in LiveSeconds(f) /\ b \in FirstAcks(f)
  BY <1>2, <1>3, <1>4, <1>5, <1>6 DEF LiveSeconds, FirstAcks, LiveFirsts, FirstWrites, NoOne
<1> DEFINE ws == <<w>>
<1>8. /\ ws \in Seq(ScreenWritesOf(u)) /\ Elems(ws) = {w}
      /\ queue[u] \o ws = Append(queue[u], w)
  BY <1>1, <1>6, ElemsFew, ScreenDevice
<1>9. queue' = WriteMutations(u, ws)
  BY <1>2
<1> HIDE DEF ws
<1>10. Runs(u, b, ws, {}, << >>)
  <2>1. asked' = Ask(u, {})
    BY <1>1, <1>2, NothingIssued
  <2> QED
    BY <1>2, <1>8, <1>9, <2>1 DEF Runs, Posted
<1>11. ScreenTypeOK'
  BY <1>1, <1>2, <1>10, RunsTyped DEF ScreenTypeOK
<1>12. OnlyDevice(u)
  BY <1>1, <1>2, <1>10, RunsOnly
<1>13. ASSUME NEW e \in Pair, e[1] = u, e \notin misled', e # f
       PROVE  /\ StagesRight(queue'[u], mainq'[u], Follows(e)', e)
              /\ e \in appeared' => FlagRight(e)'
  <2>1. \A x \in Elems(ws) : x \notin FirstWrites(e) /\ x \notin LiveSeconds(e)
    BY <1>6, <1>8, <1>13 DEF FirstWrites, LiveSeconds
  <2>2. b \notin FirstAcks(e) /\ b \notin SecondAcks(e) /\ b \notin CheckAnswers(e)
    BY <1>2, <1>13 DEF FirstAcks, SecondAcks, LiveFirsts, FirstWrites, LiveSeconds, CheckAnswers
  <2>3. StagesRight(queue'[u], mainq'[u], Follows(e)', e)
    BY <1>2, <1>10, <1>13, <2>1, <2>2, RunsPair
  <2>4. e \in appeared' => FlagRight(e)'
    BY <1>2, <1>10, <1>13, <2>1, <2>2, RunsFlag
  <2> QED
    BY <2>3, <2>4
<1>14. ASSUME f \notin misled'
       PROVE  /\ StagesRight(queue'[u], mainq'[u], Follows(f)', f)
              /\ FlagRight(f)'
  <2> DEFINE W == ScreenWritesOf(u)
             B == ScreenBlocksOf(u)
             q == queue[u]
             m == mainq[u]
             X == Follows(f)
  <2>1. /\ q \in Seq(W) /\ w \in W /\ m \in Seq(B) /\ m # << >> /\ X \in BOOLEAN
        /\ Head(m) \in FirstAcks(f) /\ w.op = Head(m).w.op /\ Follows(f)' = X
    <3>1. q \in Seq(W) /\ m \in Seq(B)
      BY <1>1, ScreenDevice
    <3>2. m # << >> /\ Head(m) = b
      BY <1>2
    <3>3. X \in BOOLEAN /\ Follows(f)' = X
      BY <1>2 DEF Follows
    <3> QED
      BY <1>6, <1>7, <3>1, <3>2, <3>3
  <2>2. StagesRight(q, m, X, f)
    BY <1>2, <1>5, <1>14, ScreenHas
  <2>3. queue'[u] = Append(q, w) /\ mainq'[u] = Tail(m)
    BY <1>1, <1>8, <1>9, <1>10, ScreenIssues, RunsQueue
  <2> HIDE DEF W, B, q, m, X, f
  <2>4. StagesRight(Append(q, w), Tail(m), X, f) /\ Chained(Append(q, w), Tail(m), f)
    BY <1>7, <2>1, <2>2, StagesFirstAcked
  <2> QED
    BY <1>5, <2>1, <2>3, <2>4 DEF FlagRight
<1>15. ASSUME NEW v \in User PROVE HeaderRight(u, v)'
  <2>1. b # Reload(v) /\ b.type # "answer"
    BY <1>2, ScreenBlockTypes
  <2> QED
    BY <1>2, <1>10, <2>1, RunsHeader
<1> HIDE DEF f
<1> QED
  BY <1>11, <1>12, <1>13, <1>14, <1>15, DeviceStep

\* The other blocks of the services issue no write of a follow.
LEMMA OtherBlockInv ==
    ASSUME ScreenInv, NEW u \in User, NEW b, ServiceBlock(u, b), ~FollowAcked(u, b),
           UNCHANGED screenVars
    PROVE  ScreenInv'
<1> DEFINE W == ScreenWritesOf(u)
           Calm(ws) == \A w \in Elems(ws) : w.coll # "following" /\ w.coll # "followers"
<1>1. /\ ScreenTypeOK
      /\ mainq[u] # << >> /\ b = Head(mainq[u]) /\ mainq' = RunFirst(u, << >>)
      /\ UNCHANGED <<docs, isFollowed, header, appeared, misled>>
  BY DEF ScreenInv, ServiceBlock, FollowAcked, CellCompletion, UploadCompletion,
         FeedAfterFollowing, ImageUploaded, FeedAfterPost, RunningAlone, Running, graphVars,
         screenVars
<1>2. b \in ScreenBlocksOf(u)
  BY <1>1, ScreenDevice, ElemsTail
<1>3. asked' = asked => asked' = Ask(u, {})
  BY <1>1, NothingIssued
<1>4. \A ws, rs : /\ queue' = WriteMutations(u, ws) \/ (ws = << >> /\ UNCHANGED queue)
                  /\ ws \in Seq(W) /\ asked' = Ask(u, rs)
                  /\ \A r \in rs : r \in ShareReads => Owner[r.of] = u
                  => Runs(u, b, ws, rs, << >>)
  BY <1>1 DEF Runs, Posted
<1>5. CASE CellCompletion(u, b)
  <2>1. b.type = "ack" /\ b.w.coll = "followers" /\ b.w.then = "notifications"
    BY <1>5 DEF CellCompletion
  <2>2. b.w \in W
    BY <1>2, <2>1, ScreenBlockFields
  <2> QED
    BY <2>1, <2>2, ScreenWriteFields DEF NoOne
<1>6. CASE UploadCompletion(u, b)
  <2>1. b.type = "ack" /\ b.w.coll = "posts" /\ UNCHANGED <<queue, asked>>
    BY <1>6 DEF UploadCompletion
  <2>2. << >> \in Seq(W) /\ Calm(<< >>)
    BY <1>1, NothingIssued
  <2>3. Runs(u, b, << >>, {}, << >>)
    BY <1>3, <1>4, <2>1, <2>2
  <2> QED
    BY <1>1, <2>1, <2>2, <2>3, RunsCalm
<1>7. CASE FeedAfterFollowing(u, b)
  <2>1. /\ b.type = "answer" /\ b.r.kind \in {"addPosts", "dropPosts"} /\ UNCHANGED asked
    BY <1>7 DEF FeedAfterFollowing
  <2>2. b.docs \subseteq Post /\ b.r \in FeedReads
    BY <1>2, <2>1, ScreenBlockFields DEF ShareReads, ScreenReads
  <2>3. PICK ps \in Orderings(b.docs) :
            queue' = WriteMutations(u, [i \in DOMAIN ps |->
                       FeedWrite(u, ps[i], OpFor(b.r.kind = "addPosts"))])
    BY <1>7 DEF FeedAfterFollowing
  <2> DEFINE ws == [i \in DOMAIN ps |-> FeedWrite(u, ps[i], OpFor(b.r.kind = "addPosts"))]
  <2>4. IsFiniteSet(b.docs)
    BY <2>2, FiniteAssumption, FS_Subset
  <2>5. \A i \in DOMAIN ps : ps[i] \in Post /\ OpFor(b.r.kind = "addPosts") \in Ops
    BY <2>2, <2>4, OrderingsType DEF OpFor, Ops
  <2>6. \A i \in DOMAIN ps : FeedWrite(u, ps[i], OpFor(b.r.kind = "addPosts")) \in W
    BY <2>5, ScreenWriteTypes
  <2>7. ws \in Seq(W)
    BY <2>4, <2>6, OrderingsType
  <2>8. Calm(ws)
    BY DEF Elems, FeedWrite, Write
  <2>9. queue' = WriteMutations(u, ws)
    BY <2>3
  <2> HIDE DEF ws
  <2>10. Runs(u, b, ws, {}, << >>)
    BY <1>3, <1>4, <2>1, <2>7, <2>9
  <2> QED
    BY <1>1, <2>1, <2>2, <2>8, <2>10, RunsCalm, ScreenReadFacts
<1>8. CASE ImageUploaded(u, b)
  <2>1. /\ b.type = "answer" /\ b.r.kind = "image"
        /\ queue' = WriteMutations(u, <<PostWrite(b.r.of)>>)
        /\ asked' = Ask(u, {Read("followers", b.r.of)})
    BY <1>8 DEF ImageUploaded
  <2>2. b.r \in ShareReads /\ Owner[b.r.of] = u /\ b.r.of \in Post
    BY <1>2, <2>1, ScreenBlockFields DEF FeedReads, ShareReads, ScreenReads
  <2>3. PostWrite(b.r.of) \in W /\ PostWrite(b.r.of).coll = "posts"
    BY <2>2, ScreenWriteTypes DEF PostWrite, Write
  <2> DEFINE ws == <<PostWrite(b.r.of)>>
  <2>4. ws \in Seq(W) /\ Calm(ws)
    BY <2>3, ElemsFew
  <2>5. \A r \in {Read("followers", b.r.of)} : r \in ShareReads => Owner[r.of] = u
    BY <2>2 DEF Read
  <2>6. Runs(u, b, ws, {Read("followers", b.r.of)}, << >>)
    BY <1>4, <2>1, <2>4, <2>5
  <2> HIDE DEF ws
  <2> QED
    BY <1>1, <2>1, <2>2, <2>4, <2>6, RunsCalm, ScreenReadFacts
<1>9. CASE FeedAfterPost(u, b)
  <2>1. b.type = "answer" /\ b.r.kind = "followers" /\ UNCHANGED asked
    BY <1>9 DEF FeedAfterPost
  <2>2. b.docs \subseteq User /\ b.r \in ShareReads /\ Owner[b.r.of] = u /\ b.r.of \in Post
    BY <1>2, <2>1, ScreenBlockFields DEF FeedReads, ShareReads, ScreenReads
  <2>3. PICK vs \in Orderings(b.docs) :
            queue' = WriteMutations(u, [i \in DOMAIN vs |-> FeedWrite(vs[i], b.r.of, "set")])
    BY <1>9 DEF FeedAfterPost
  <2> DEFINE ws == [i \in DOMAIN vs |-> FeedWrite(vs[i], b.r.of, "set")]
  <2>4. IsFiniteSet(b.docs)
    BY <2>2, FiniteAssumption, FS_Subset
  <2>5. \A i \in DOMAIN vs : FeedWrite(vs[i], b.r.of, "set") \in W
    BY <2>2, <2>4, OrderingsType, ScreenWriteTypes DEF Ops
  <2>6. ws \in Seq(W)
    BY <2>4, <2>5, OrderingsType
  <2>7. Calm(ws)
    BY DEF Elems, FeedWrite, Write
  <2>8. queue' = WriteMutations(u, ws)
    BY <2>3
  <2> HIDE DEF ws
  <2>9. Runs(u, b, ws, {}, << >>)
    BY <1>3, <1>4, <2>1, <2>6, <2>8
  <2> QED
    BY <1>1, <2>1, <2>2, <2>7, <2>9, RunsCalm, ScreenReadFacts
<1> QED
  BY <1>5, <1>6, <1>7, <1>8, <1>9 DEF ServiceBlock

\* The completion of a follow: isFollowed is right or a newer follow is on its
\* way, and the stats under way will reload the header.
LEMMA FollowCompletionInv ==
    ASSUME ScreenInv, NEW u \in User, NEW b, FollowCompletion(u, b)
    PROVE  ScreenInv'
<1> DEFINE f == b.w.key
           didFollow == b.w.op = "set"
           rs == {FeedRead(f[2], didFollow)} \union {FetchUserStats(f[2])}
<1> SUFFICES ASSUME NEW ws, ws = IF didFollow THEN <<NotificationWrite(u, f[2])>> ELSE << >>
             PROVE  ScreenInv'
  OBVIOUS
<1>1. ScreenTypeOK
  BY DEF ScreenInv
<1>2. /\ mainq[u] # << >> /\ b = Head(mainq[u]) /\ mainq' = RunFirst(u, << >>)
      /\ b.type = "ack" /\ b.w.coll = "followers" /\ b.w.then = "profile"
      /\ isFollowed' = [isFollowed EXCEPT ![u][f[2]] = didFollow]
      /\ UNCHANGED <<docs, header, appeared, misled>>
  BY DEF FollowCompletion, ProfileCompletion, RunningAlone, Running, graphVars
<1>3. asked' = Ask(u, rs) /\ queue' = WriteMutations(u, ws)
  BY DEF FollowCompletion, ProfileCompletion
<1>4. b \in ScreenBlocksOf(u)
  BY <1>1, <1>2, ScreenDevice, ElemsTail
<1>5. b.w \in ScreenWritesOf(u)
  BY <1>2, <1>4, ScreenBlockFields
<1>6. f \in Pair /\ f[1] = u /\ f[2] \in User /\ f[2] # u /\ f = <<u, f[2]>>
  BY <1>2, <1>5, ScreenWriteFields
<1>7. b \in SecondAcks(f)
  BY <1>2, <1>4, <1>5, <1>6 DEF SecondAcks, LiveSeconds, NoOne
<1>8. ws \in Seq(ScreenWritesOf(u))
      /\ \A w \in Elems(ws) : w.coll # "following" /\ w.coll # "followers"
  <2>1. /\ NotificationWrite(u, f[2]) \in ScreenWritesOf(u)
        /\ NotificationWrite(u, f[2]).coll = "notifications"
    BY <1>6, ScreenWriteTypes DEF NotificationWrite, Write, Ops
  <2> DEFINE w == NotificationWrite(u, f[2])
             W == ScreenWritesOf(u)
  <2> HIDE DEF w, W
  <2>2. << >> \in Seq(W) /\ Elems(<< >>) = {} /\ <<w>> \in Seq(W) /\ Elems(<<w>>) = {w}
    BY <2>1, ElemsFew DEF w, W
  <2>3. ws = << >> \/ ws = <<w>>
    BY DEF w
  <2> QED
    BY <2>1, <2>2, <2>3 DEF w, W
<1>9. \A r \in rs : r \in ShareReads => Owner[r.of] = u
  BY DEF FeedRead, FetchUserStats, Read, ShareReads
<1>10. Runs(u, b, ws, rs, << >>)
  BY <1>2, <1>3, <1>8, <1>9 DEF Runs, Posted
<1>11. /\ isFollowed' \in [User -> [User -> BOOLEAN]] /\ header' \in [User -> [User -> BOOLEAN]]
       /\ \A x \in User \ {u} : isFollowed'[x] = isFollowed[x]
       /\ isFollowed'[u][f[2]] <=> didFollow
       /\ \A x \in User : x # f[2] => isFollowed'[u][x] = isFollowed[u][x]
  BY <1>1, <1>2, <1>6 DEF ScreenTypeOK
<1>12. ScreenTypeOK'
  BY <1>1, <1>10, <1>11, RunsTyped
<1>13. OnlyDevice(u)
  BY <1>1, <1>2, <1>10, <1>11, RunsOnly
<1>14. ASSUME NEW e \in Pair, e[1] = u, e \notin misled'
       PROVE  /\ StagesRight(queue'[u], mainq'[u], Follows(e)', e)
              /\ e \in appeared' => FlagRight(e)'
  <2>1. \A w \in Elems(ws) : w \notin FirstWrites(e) /\ w \notin LiveSeconds(e)
    BY <1>8 DEF FirstWrites, LiveSeconds
  <2>2. b \notin FirstAcks(e) /\ b \notin CheckAnswers(e)
    BY <1>2 DEF FirstAcks, LiveFirsts, FirstWrites, CheckAnswers
  <2>3. b \in SecondAcks(e) <=> e[2] = f[2]
    BY <1>6, <1>7, <1>14, PairIs DEF SecondAcks, LiveSeconds
  <2>4. StagesRight(queue'[u], mainq'[u], Follows(e)', e)
    BY <1>2, <1>10, <1>14, <2>1, <2>2, RunsPair
  <2>5. /\ b \in SecondAcks(e) => (isFollowed'[u][e[2]] <=> b.w.op = "set")
        /\ b \notin SecondAcks(e) => isFollowed'[u][e[2]] = isFollowed[u][e[2]]
    BY <1>11, <2>3, PairIs
  <2>6. e \in appeared' => FlagRight(e)'
    BY <1>2, <1>10, <1>14, <2>1, <2>2, <2>5, RunsFlag
  <2> QED
    BY <2>4, <2>6
<1>15. ASSUME NEW v \in User PROVE HeaderRight(u, v)'
  <2>1. CASE v = f[2]
    <3>1. FetchUserStats(v) \in rs /\ FetchUserStats(v) \in ScreenReads
      BY <2>1, ScreenReadFacts
    <3>2. UnderWay(u, FetchUserStats(v))'
      BY <1>1, <1>10, <3>1, RunsUnderWay
    <3> QED
      BY <3>2 DEF HeaderRight
  <2>2. CASE v # f[2]
    <3>1. b # Reload(v) /\ b.type # "answer"
      BY <1>2, ScreenBlockTypes
    <3> QED
      <4>1. header'[u][v] = header[u][v] /\ isFollowed'[u][v] = isFollowed[u][v]
        BY <1>2, <1>11, <2>2
      <4> HIDE DEF rs
      <4> QED
        BY <1>10, <3>1, <4>1, RunsHeader
  <2> QED
    BY <2>1, <2>2
<1> QED
  BY <1>12, <1>13, <1>14, <1>15, DeviceStep

\* A read of the screen is answered: a check is right or a follow is on its
\* way, and a reload is posted.
LEMMA ScreenAnsweredInv ==
    ASSUME ScreenInv, NEW u \in User, NEW b, ScreenAnswered(u, b)
    PROVE  ScreenInv'
<1> SUFFICES ASSUME NEW v, v = b.r.of PROVE ScreenInv'
  OBVIOUS
<1>1. ScreenTypeOK
  BY DEF ScreenInv
<1>2. /\ mainq[u] # << >> /\ b = Head(mainq[u]) /\ mainq' = RunFirst(u, <<Reload(v)>>)
      /\ b.type = "answer" /\ b.r \in ScreenReads
      /\ isFollowed' = IF b.r.kind = "check" THEN [isFollowed EXCEPT ![u][v] = (b.docs # {})]
                       ELSE isFollowed
      /\ UNCHANGED <<docs, queue, asked, header, appeared, misled>>
  BY DEF ScreenAnswered, Running, graphVars
<1>3. b \in ScreenBlocksOf(u)
  BY <1>1, <1>2, ScreenDevice, ElemsTail
<1>4. v \in User
  BY <1>2, ScreenReadFacts
<1>5. Runs(u, b, << >>, {}, <<Reload(v)>>) /\ Elems(<< >>) = {}
  <2>1. asked' = Ask(u, {}) /\ << >> \in Seq(ScreenWritesOf(u)) /\ Elems(<< >>) = {}
    BY <1>1, <1>2, NothingIssued
  <2>2. <<Reload(v)>> \in Posted
    BY <1>4 DEF Posted
  <2> QED
    BY <1>2, <2>1, <2>2 DEF Runs
<1>6. /\ isFollowed' \in [User -> [User -> BOOLEAN]] /\ header' \in [User -> [User -> BOOLEAN]]
      /\ \A x \in User \ {u} : isFollowed'[x] = isFollowed[x]
      /\ b.r.kind = "check" => (isFollowed'[u][v] <=> b.docs # {})
      /\ \A x \in User : x # v \/ b.r.kind # "check" => isFollowed'[u][x] = isFollowed[u][x]
  <2>1. CASE b.r.kind = "check"
    <3> DEFINE d == b.docs # {}
    <3>1. isFollowed' = [isFollowed EXCEPT ![u][v] = d] /\ d \in BOOLEAN
      BY <1>2, <2>1
    <3>2. isFollowed \in [User -> [User -> BOOLEAN]] /\ header' \in [User -> [User -> BOOLEAN]]
      BY <1>1, <1>2 DEF ScreenTypeOK
    <3> HIDE DEF d
    <3>3. /\ isFollowed' \in [User -> [User -> BOOLEAN]]
          /\ \A x \in User \ {u} : isFollowed'[x] = isFollowed[x]
          /\ isFollowed'[u][v] = d
          /\ \A x \in User : x # v => isFollowed'[u][x] = isFollowed[u][x]
      BY <1>4, <3>1, <3>2
    <3> QED
      BY <2>1, <3>2, <3>3 DEF d
  <2>2. CASE b.r.kind # "check"
    BY <1>1, <1>2, <2>2 DEF ScreenTypeOK
  <2> QED
    BY <2>1, <2>2
<1>7. ScreenTypeOK'
  BY <1>1, <1>5, <1>6, RunsTyped
<1>8. OnlyDevice(u)
  BY <1>1, <1>2, <1>5, <1>6, RunsOnly
<1>9. ASSUME NEW e \in Pair, e[1] = u, e \notin misled'
      PROVE  /\ StagesRight(queue'[u], mainq'[u], Follows(e)', e)
             /\ e \in appeared' => FlagRight(e)'
  <2>1. \A w \in Elems(<< >>) : w \notin FirstWrites(e) /\ w \notin LiveSeconds(e)
    BY <1>5
  <2>2. b \notin FirstAcks(e) /\ b \notin SecondAcks(e)
    BY <1>2 DEF FirstAcks, SecondAcks
  <2>3. b \in CheckAnswers(e) <=> b.r.kind = "check" /\ v = e[2]
    <3>1. e[2] \in User
      BY PairIs
    <3>2. b.r = CheckIfUserIsFollowed(e[2]) <=> b.r.kind = "check" /\ v = e[2]
      BY <1>2, <3>1, ScreenReadFacts
    <3> QED
      BY <1>2, <1>3, <1>9, <3>2 DEF CheckAnswers
  <2>4. StagesRight(queue'[u], mainq'[u], Follows(e)', e)
    BY <1>2, <1>5, <1>9, <2>1, <2>2, RunsPair
  <2>5. /\ b \in CheckAnswers(e) => (isFollowed'[u][e[2]] <=> b.docs # {})
        /\ b \notin CheckAnswers(e) => isFollowed'[u][e[2]] = isFollowed[u][e[2]]
    BY <1>6, <2>3, PairIs
  <2>6. e \in appeared' => FlagRight(e)'
    BY <1>2, <1>5, <1>9, <2>1, <2>2, <2>5, RunsFlag
  <2> QED
    BY <2>4, <2>6
<1>10. ASSUME NEW x \in User PROVE HeaderRight(u, x)'
  <2>1. CASE x = v
    <3>1. Reload(v) \in Elems(mainq'[u])
      BY <1>1, <1>4, <1>5, RunsQueue
    <3> QED
      BY <2>1, <3>1 DEF HeaderRight
  <2>2. CASE x # v
    <3>1. b # Reload(x) /\ b.r # FetchUserStats(x)
      BY <1>2, <2>2, ScreenBlockTypes, ScreenReadFacts
    <3> QED
      BY <1>2, <1>5, <1>6, <2>2, <3>1, RunsHeader
  <2> QED
    BY <2>1, <2>2
<1> QED
  BY <1>7, <1>8, <1>9, <1>10, DeviceStep

\* The screen reloads: the header shows isFollowed.
LEMMA ReloadDataInv ==
    ASSUME ScreenInv, NEW u \in User, NEW b, ReloadData(u, b)
    PROVE  ScreenInv'
<1> SUFFICES ASSUME NEW v, v = b.of PROVE ScreenInv'
  OBVIOUS
<1>1. ScreenTypeOK
  BY DEF ScreenInv
<1>2. /\ mainq[u] # << >> /\ b = Head(mainq[u]) /\ mainq' = RunFirst(u, << >>)
      /\ b.type = "reload" /\ header' = [header EXCEPT ![u][v] = isFollowed[u][v]]
      /\ UNCHANGED <<docs, queue, asked, isFollowed, appeared, misled>>
  BY DEF ReloadData, RunningAlone, Running, graphVars
<1>3. b \in ScreenBlocksOf(u)
  BY <1>1, <1>2, ScreenDevice, ElemsTail
<1>4. v \in User /\ b = Reload(v)
  BY <1>2, <1>3, ScreenBlockFields
<1>5. Runs(u, b, << >>, {}, << >>) /\ Elems(<< >>) = {}
  <2>1. asked' = Ask(u, {}) /\ << >> \in Seq(ScreenWritesOf(u)) /\ Elems(<< >>) = {}
    BY <1>1, <1>2, NothingIssued
  <2> QED
    BY <1>2, <2>1 DEF Runs, Posted
<1>6. /\ isFollowed' \in [User -> [User -> BOOLEAN]] /\ header' \in [User -> [User -> BOOLEAN]]
      /\ \A x \in User \ {u} : header'[x] = header[x]
      /\ header'[u][v] = isFollowed'[u][v]
      /\ \A x \in User : x # v => header'[u][x] = header[u][x]
  BY <1>1, <1>2, <1>4 DEF ScreenTypeOK
<1>7. ScreenTypeOK'
  BY <1>1, <1>5, <1>6, RunsTyped
<1>8. OnlyDevice(u)
  BY <1>1, <1>2, <1>5, <1>6, RunsOnly
<1>9. ASSUME NEW e \in Pair, e[1] = u, e \notin misled'
      PROVE  /\ StagesRight(queue'[u], mainq'[u], Follows(e)', e)
             /\ e \in appeared' => FlagRight(e)'
  <2>1. \A w \in Elems(<< >>) : w \notin FirstWrites(e) /\ w \notin LiveSeconds(e)
    BY <1>5
  <2>2. b \notin FirstAcks(e) /\ b \notin SecondAcks(e) /\ b \notin CheckAnswers(e)
    BY <1>2 DEF FirstAcks, SecondAcks, CheckAnswers
  <2>3. StagesRight(queue'[u], mainq'[u], Follows(e)', e)
    BY <1>2, <1>5, <1>9, <2>1, <2>2, RunsPair
  <2>4. e \in appeared' => FlagRight(e)'
    BY <1>2, <1>5, <1>9, <2>1, <2>2, RunsFlag
  <2> QED
    BY <2>3, <2>4
<1>10. ASSUME NEW x \in User PROVE HeaderRight(u, x)'
  <2>1. CASE x = v
    BY <1>6, <2>1 DEF HeaderRight
  <2>2. CASE x # v
    <3>1. b # Reload(x) /\ b.type # "answer"
      BY <1>2, <1>4, <2>2, ScreenBlockTypes
    <3> QED
      BY <1>2, <1>5, <1>6, <2>2, <3>1, RunsHeader
  <2> QED
    BY <2>1, <2>2
<1> QED
  BY <1>7, <1>8, <1>9, <1>10, DeviceStep

\* So does every block of the main thread.
LEMMA RunScreenBlockInv ==
    ASSUME ScreenInv, NEW u \in User, RunScreenBlock(u)
    PROVE  ScreenInv'
<1> DEFINE b == Head(mainq[u])
<1>1. \/ (ServiceBlock(u, b) /\ UNCHANGED screenVars) \/ FollowCompletion(u, b)
      \/ ScreenAnswered(u, b) \/ ReloadData(u, b)
  BY DEF RunScreenBlock
<1> HIDE DEF b
<1> QED
  BY <1>1, FollowAckedInv, OtherBlockInv, FollowCompletionInv, ScreenAnsweredInv, ReloadDataInv

-----------------------------------------------------------------------------
(***************************************************************************)
(* Decided writes.                                                         *)
(***************************************************************************)

\* The backend decides the oldest write w of u's device.
Decides(u, w, ok) ==
    /\ queue[u] # << >> /\ w = Head(queue[u]) /\ ok \in BOOLEAN /\ NotifyUser(u, w, ok)
    /\ UNCHANGED <<isFollowed, header, appeared>>

\* The queues after that.
LEMMA DecidedQueues ==
    ASSUME ScreenTypeOK, NEW u \in User, NEW w, NEW ok, Decides(u, w, ok)
    PROVE  /\ w \in ScreenWritesOf(u)
           /\ DOMAIN queue' = User /\ queue'[u] \in Seq(ScreenWritesOf(u))
           /\ queue'[u] = Tail(queue[u]) /\ \A x \in User \ {u} : queue'[x] = queue[x]
           /\ DOMAIN mainq' = User /\ mainq'[u] \in Seq(ScreenBlocksOf(u))
           /\ \A x \in User \ {u} : mainq'[x] = mainq[x]
           /\ Elems(mainq[u]) \subseteq Elems(mainq'[u])
           /\ w.then = NoOne => mainq'[u] = mainq[u]
           /\ w.then # NoOne => mainq'[u] = Append(mainq[u], Acked(w, ok))
           /\ asked' = asked
<1> DEFINE W == ScreenWritesOf(u)
           B == ScreenBlocksOf(u)
<1>1. /\ DOMAIN queue = User /\ queue[u] \in Seq(W) /\ DOMAIN mainq = User /\ mainq[u] \in Seq(B)
      /\ queue[u] # << >> /\ w = Head(queue[u]) /\ ok \in BOOLEAN
      /\ queue' = [queue EXCEPT ![u] = Tail(@)] /\ asked' = asked
      /\ w.then = NoOne => mainq' = mainq
      /\ w.then # NoOne => mainq' = [mainq EXCEPT ![u] = Append(@, Acked(w, ok))]
  BY ScreenDevice DEF Decides, NotifyUser
<1>2. \A x \in W : \A o \in BOOLEAN : x.then # NoOne => Acked(x, o) \in B
  BY ScreenBlockTypes
<1> HIDE DEF W, B
<1>3. /\ DOMAIN queue' = User /\ queue'[u] \in Seq(W) /\ queue'[u] = Tail(queue[u]) /\ w \in W
  BY <1>1, DeviceDecides
<1>4. \A x \in User \ {u} : queue'[x] = queue[x]
  BY <1>1
<1>5. CASE w.then = NoOne
  BY <1>1, <1>3, <1>4, <1>5 DEF W, B
<1>6. CASE w.then # NoOne
  <2> DEFINE a == Acked(w, ok)
  <2>1. a \in B /\ mainq' = [mainq EXCEPT ![u] = Append(@, a)]
    BY <1>1, <1>2, <1>3, <1>6
  <2> HIDE DEF a
  <2>2. /\ DOMAIN mainq' = User /\ mainq'[u] \in Seq(B) /\ mainq'[u] = Append(mainq[u], a)
        /\ Elems(mainq'[u]) = Elems(mainq[u]) \union {a}
    BY <1>1, <2>1, DevicePosts
  <2>3. \A x \in User \ {u} : mainq'[x] = mainq[x]
    BY <2>1
  <2> QED
    BY <1>1, <1>3, <1>4, <1>6, <2>2, <2>3 DEF W, B, a
<1> QED
  BY <1>5, <1>6

\* The stages of a pair after that, when the document is what its first write
\* makes it.
LEMMA DecidedPair ==
    ASSUME ScreenInv, NEW u \in User, NEW w, NEW ok, Decides(u, w, ok),
           NEW e \in Pair, e[1] = u, e \notin misled, NEW Z \in BOOLEAN,
           w \in FirstWrites(e) => (Z <=> w.op = "set"),
           w \notin FirstWrites(e) => (Z <=> Follows(e))
    PROVE  /\ StagesRight(queue'[u], mainq'[u], Z, e)
           /\ Present(queue'[u], Z, e) <=> Present(queue[u], Follows(e), e)
           /\ Chained(queue[u], mainq[u], e) => Chained(queue'[u], mainq'[u], e)
<1> DEFINE W == ScreenWritesOf(u)
           B == ScreenBlocksOf(u)
           q == queue[u]
           m == mainq[u]
           n == mainq'[u]
           a == Acked(w, ok)
           X == Follows(e)
<1>1. ScreenTypeOK
  BY DEF ScreenInv
<1>2. /\ q \in Seq(W) /\ q # << >> /\ w = Head(q) /\ w \in W /\ m \in Seq(B) /\ X \in BOOLEAN
      /\ StagesRight(q, m, X, e) /\ queue'[u] = Tail(q)
      /\ w.then = NoOne => n = m
      /\ w.then # NoOne => n = Append(m, a)
  BY <1>1, DecidedQueues, ScreenDevice, ScreenHas DEF Decides
<1>3. w.then # NoOne => a \in B /\ a.type = "ack" /\ a.w = w
  BY <1>2, ScreenBlockTypes DEF Decides
<1>4. /\ a \in FirstAcks(e) => w \in LiveFirsts(e)
      /\ a \in SecondAcks(e) => w \in LiveSeconds(e)
      /\ w \in LiveFirsts(e) => a \in FirstAcks(e) /\ w.then # NoOne
      /\ w \in LiveSeconds(e) => a \in SecondAcks(e) /\ w.then # NoOne
      /\ a \notin CheckAnswers(e)
  <2>1. a.type = "ack" /\ a.w = w
    BY DEF Acked
  <2>2. w \in LiveFirsts(e) \/ w \in LiveSeconds(e) => w.then # NoOne
    BY DEF LiveFirsts, LiveSeconds
  <2>3. w.then # NoOne => a \in ScreenBlocksOf(e[1])
    BY <1>3
  <2> HIDE DEF a
  <2> QED
    BY <2>1, <2>2, <2>3 DEF FirstAcks, SecondAcks, CheckAnswers
<1> HIDE DEF W, B, q, m, n, a, X
<1>5. Present(Tail(q), Z, e) <=> Present(q, X, e)
  <2>1. CASE w \in FirstWrites(e)
    BY <1>2, <2>1, PresentTail
  <2>2. CASE w \notin FirstWrites(e)
    <3>1. Z = X
      BY <1>2, <2>2 DEF X
    <3> QED
      BY <1>2, <2>2, <3>1, PresentTail
  <2> QED
    BY <2>1, <2>2
<1>6. StagesRight(Tail(q), n, Z, e) /\ (Chained(q, m, e) => Chained(Tail(q), n, e))
  <2>1. CASE w \in LiveFirsts(e)
    <3>1. /\ a \in B /\ a \in FirstAcks(e) /\ a.w = Head(q) /\ n = Append(m, a)
          /\ Head(q) \in LiveFirsts(e) /\ (Z <=> Head(q).op = "set")
      BY <1>2, <1>3, <1>4, <2>1, Kinds
    <3> QED
      BY <1>2, <3>1, StagesFirstStored
  <2>2. CASE w \in LiveSeconds(e)
    <3>1. /\ a \in B /\ a \in SecondAcks(e) /\ a.w = Head(q) /\ n = Append(m, a)
          /\ Head(q) \in LiveSeconds(e) /\ Z = X
      BY <1>2, <1>3, <1>4, <2>2, Kinds DEF X
    <3> QED
      BY <1>2, <3>1, StagesSecondDecided
  <2>3. CASE w \notin LiveFirsts(e) /\ w \notin LiveSeconds(e)
    <3>1. StagesRight(Tail(q), m, Z, e) /\ (Chained(q, m, e) => Chained(Tail(q), m, e))
      BY <1>2, <1>5, <2>3, StagesDecide
    <3>2. CASE w.then = NoOne
      BY <1>2, <3>1, <3>2
    <3>3. CASE w.then # NoOne
      <4> DEFINE t == Tail(q)
      <4>1. /\ a \in B /\ n = Append(m, a) /\ StagesRight(t, m, Z, e) /\ m \in Seq(B)
            /\ a \notin FirstAcks(e) /\ a \notin SecondAcks(e) /\ a \notin CheckAnswers(e)
        BY <1>2, <1>3, <1>4, <2>3, <3>1, <3>3
      <4> HIDE DEF t
      <4>2. StagesRight(t, Append(m, a), Z, e) /\ (Chained(t, m, e) => Chained(t, Append(m, a), e))
        BY <4>1, StagesPost
      <4> QED
        BY <3>1, <4>1, <4>2 DEF t
    <3> QED
      BY <3>2, <3>3
  <2> QED
    BY <2>1, <2>2, <2>3
<1> QED
  BY <1>2, <1>5, <1>6 DEF q, m, n, X

\* What the invariant is after that.
LEMMA DecidedInv ==
    ASSUME ScreenInv, NEW u \in User, NEW w, NEW ok, Decides(u, w, ok),
           DOMAIN docs' = Coll, \A c \in Coll : docs'[c] \subseteq Key(c), misled' \subseteq User \X User,
           \A e \in Pair : e[1] # u => (Follows(e)' <=> Follows(e)) /\ (e \in misled' <=> e \in misled),
           \A e \in Pair : e[1] = u /\ e \notin misled' =>
               /\ e \notin misled
               /\ w \in FirstWrites(e) => (Follows(e)' <=> w.op = "set")
               /\ w \notin FirstWrites(e) => (Follows(e)' <=> Follows(e))
    PROVE  ScreenInv'
<1>1. ScreenTypeOK
  BY DEF ScreenInv
<1>2. /\ DOMAIN queue' = User /\ queue'[u] \in Seq(ScreenWritesOf(u))
      /\ \A x \in User \ {u} : queue'[x] = queue[x]
      /\ DOMAIN mainq' = User /\ mainq'[u] \in Seq(ScreenBlocksOf(u))
      /\ \A x \in User \ {u} : mainq'[x] = mainq[x]
      /\ Elems(mainq[u]) \subseteq Elems(mainq'[u]) /\ asked' = asked
  BY <1>1, DecidedQueues
<1>3. UNCHANGED <<isFollowed, header, appeared>>
  BY DEF Decides
<1>4. ScreenTypeOK'
  BY <1>1, <1>2, <1>3, TypeStep DEF ScreenTypeOK
<1>5. OnlyDevice(u)
  BY <1>2, <1>3 DEF OnlyDevice
<1>6. \A r : UnderWay(u, r) => UnderWay(u, r)'
  BY <1>2 DEF UnderWay
<1>7. ASSUME NEW e \in Pair, e[1] = u, e \notin misled'
      PROVE  /\ StagesRight(queue'[u], mainq'[u], Follows(e)', e)
             /\ e \in appeared' => FlagRight(e)'
  <2> DEFINE Z == Follows(e)'
  <2>1. /\ Z \in BOOLEAN /\ e \notin misled
        /\ w \in FirstWrites(e) => (Z <=> w.op = "set")
        /\ w \notin FirstWrites(e) => (Z <=> Follows(e))
    BY <1>7 DEF Follows
  <2> HIDE DEF Z
  <2>2. /\ StagesRight(queue'[u], mainq'[u], Z, e)
        /\ Present(queue'[u], Z, e) <=> Present(queue[u], Follows(e), e)
        /\ Chained(queue[u], mainq[u], e) => Chained(queue'[u], mainq'[u], e)
    BY <1>7, <2>1, DecidedPair
  <2>3. e \in appeared => FlagRight(e)
    BY <1>7, <2>1, ScreenHas
  <2>4. e \in appeared' => FlagRight(e)'
    BY <1>3, <1>6, <1>7, <2>2, <2>3 DEF FlagRight, Z
  <2> QED
    BY <2>2, <2>4 DEF Z
<1>8. \A v \in User : HeaderRight(u, v)'
  BY <1>2, <1>3, <1>6, ScreenHas DEF HeaderRight
<1> QED
  BY <1>4, <1>5, <1>7, <1>8, DeviceStep

\* A write is stored: only `following` documents of u's own pairs change.
LEMMA CommitForScreenInv ==
    ASSUME ScreenInv, NEW u \in User, CommitForScreen(u)
    PROVE  ScreenInv'
<1> SUFFICES ASSUME NEW w, w = Head(queue[u]) PROVE ScreenInv'
  OBVIOUS
<1>1. /\ ScreenTypeOK /\ Decides(u, w, TRUE) /\ docs' = Apply(w) /\ UNCHANGED misled
  BY DEF ScreenInv, CommitForScreen, Commit, Decides, screenVars
<1>2. w \in ScreenWritesOf(u)
  BY <1>1, DecidedQueues
<1>3. /\ w.coll \in Coll /\ w.op \in Ops /\ w.key \in Key(w.coll)
      /\ w.coll = "following" => w.key \in Pair /\ w.key[1] = u
  BY <1>2, ScreenWriteFields
<1>4. DOMAIN docs = Coll /\ \A c \in Coll : docs[c] \subseteq Key(c)
  BY <1>1 DEF ScreenTypeOK
<1>5. /\ DOMAIN docs' = Coll
      /\ docs'[w.coll] = IF w.op = "set" THEN docs[w.coll] \union {w.key} ELSE docs[w.coll] \ {w.key}
      /\ \A c \in Coll : c # w.coll => docs'[c] = docs[c]
  BY <1>1, <1>3, <1>4 DEF Apply
<1>6. \A c \in Coll : docs'[c] \subseteq Key(c)
  BY <1>3, <1>4, <1>5
<1>7. "following" \in Coll
  BY DEF Coll
<1>8. \A e : Follows(e)' <=> IF w.coll = "following" /\ w.key = e THEN w.op = "set" ELSE Follows(e)
  BY <1>5, <1>7 DEF Follows
<1>9. \A e \in Pair : e[1] = u => (w \in FirstWrites(e) <=> w.coll = "following" /\ w.key = e)
  BY <1>2 DEF FirstWrites
<1>10. misled' \subseteq User \X User
  BY <1>1 DEF ScreenTypeOK
<1>11. \A e \in Pair : e[1] # u => (Follows(e)' <=> Follows(e)) /\ (e \in misled' <=> e \in misled)
  BY <1>1, <1>3, <1>8
<1>12. \A e \in Pair : e[1] = u /\ e \notin misled' =>
         /\ e \notin misled
         /\ w \in FirstWrites(e) => (Follows(e)' <=> w.op = "set")
         /\ w \notin FirstWrites(e) => (Follows(e)' <=> Follows(e))
  BY <1>1, <1>8, <1>9
<1> QED
  BY <1>1, <1>5, <1>6, <1>10, <1>11, <1>12, DecidedInv

\* A write is refused: a pair whose first write it was is misled.
LEMMA RejectOnScreenInv ==
    ASSUME ScreenInv, NEW u \in User, RejectOnScreen(u)
    PROVE  ScreenInv'
<1> SUFFICES ASSUME NEW w, w = Head(queue[u]) PROVE ScreenInv'
  OBVIOUS
<1>1. /\ ScreenTypeOK /\ Decides(u, w, FALSE) /\ docs' = docs
      /\ misled' = IF w.coll = "following" THEN misled \union {w.key} ELSE misled
  BY DEF ScreenInv, RejectOnScreen, Reject, Decides
<1>2. w \in ScreenWritesOf(u)
  BY <1>1, DecidedQueues
<1>3. w.coll = "following" => w.key \in Pair /\ w.key[1] = u
  BY <1>2, ScreenWriteFields
<1>4. DOMAIN docs' = Coll /\ \A c \in Coll : docs'[c] \subseteq Key(c)
  BY <1>1 DEF ScreenTypeOK
<1>5. misled' \subseteq User \X User
  <2>1. misled \subseteq User \X User /\ Pair \subseteq User \X User
    BY <1>1 DEF ScreenTypeOK, Pair
  <2> QED
    BY <1>1, <1>3, <2>1
<1>6. \A e : Follows(e)' <=> Follows(e)
  BY <1>1 DEF Follows
<1>7. \A e \in Pair : e[1] # u => (Follows(e)' <=> Follows(e)) /\ (e \in misled' <=> e \in misled)
  BY <1>1, <1>3, <1>6
<1>8. \A e \in Pair : e \notin misled' => e \notin misled /\ w \notin FirstWrites(e)
  BY <1>1 DEF FirstWrites
<1> QED
  BY <1>1, <1>4, <1>5, <1>6, <1>7, <1>8, DecidedInv

-----------------------------------------------------------------------------
(***************************************************************************)
(* Reads, and the death of the app.                                        *)
(***************************************************************************)

\* One read r of u's device is no longer outstanding.
LEMMA ReadEnds ==
    ASSUME ScreenTypeOK, NEW u \in User, NEW r \in Reads \union ScreenReads, asked[u][r] > 0,
           asked' = [asked EXCEPT ![u][r] = @ - 1]
    PROVE  /\ asked' \in [User -> [Reads \union ScreenReads -> Nat]]
           /\ \A x \in User, y \in ShareReads : asked'[x][y] > 0 => Owner[y.of] = x
           /\ \A x \in User \ {u} : asked'[x] = asked[x]
           /\ \A y \in Reads \union ScreenReads : y # r => asked'[u][y] = asked[u][y]
<1> DEFINE R == Reads \union ScreenReads
<1>1. asked \in [User -> [R -> Nat]] /\ ShareReads \subseteq R /\ r \in R
  BY ScreenReadFacts DEF ScreenTypeOK
<1> HIDE DEF R
<1>2. /\ asked' \in [User -> [R -> Nat]]
      /\ \A y \in R : asked'[u][y] = IF y = r THEN asked[u][y] - 1 ELSE asked[u][y]
  <2>1. \A s \in R : asked[u][s] > 0 =>
          /\ [asked EXCEPT ![u][s] = @ - 1] \in [User -> [R -> Nat]]
          /\ \A y \in R : [asked EXCEPT ![u][s] = @ - 1][u][y]
                 = IF y = s THEN asked[u][y] - 1 ELSE asked[u][y]
    BY <1>1, DeviceAsks
  <2> QED
    BY <1>1, <2>1
<1>3. \A x \in User \ {u} : asked'[x] = asked[x]
  BY <1>1
<1>4. \A y \in R : asked[u][y] \in Nat
  BY <1>1
<1>5. \A y \in R : asked'[u][y] > 0 => asked[u][y] > 0
  BY <1>2, <1>4
<1>6. \A x \in User, y \in ShareReads : asked'[x][y] > 0 => Owner[y.of] = x
  BY <1>1, <1>3, <1>5 DEF ScreenTypeOK
<1> QED
  BY <1>2, <1>3, <1>6 DEF R

\* Read r of u's device is answered with documents ds, those a check of the
\* screen finds.
LEMMA AnsweredInv ==
    ASSUME ScreenInv, NEW u \in User, NEW r \in Reads \union ScreenReads, NEW ds, Respond(u, r, ds),
           UNCHANGED <<docs, isFollowed, header, appeared, misled>>,
           Answered(r, ds) \in ScreenBlocksOf(u),
           \A e \in Pair : e[1] = u /\ r = CheckIfUserIsFollowed(e[2]) =>
               (ds # {} <=> LocallyPresent(u, "following", e, docs["following"]))
    PROVE  ScreenInv'
<1> DEFINE B == ScreenBlocksOf(u)
           b == Answered(r, ds)
<1>1. ScreenTypeOK /\ b \in B /\ DOMAIN mainq = User /\ mainq[u] \in Seq(B)
  BY ScreenDevice DEF ScreenInv
<1>2. /\ asked[u][r] > 0 /\ asked' = [asked EXCEPT ![u][r] = @ - 1]
      /\ mainq' = [mainq EXCEPT ![u] = Append(@, b)] /\ UNCHANGED queue
  BY DEF Respond
<1>3. b.type = "answer" /\ b.r = r /\ b.docs = ds
  BY ScreenBlockTypes
<1>4. /\ asked' \in [User -> [Reads \union ScreenReads -> Nat]]
      /\ \A x \in User, y \in ShareReads : asked'[x][y] > 0 => Owner[y.of] = x
      /\ \A x \in User \ {u} : asked'[x] = asked[x]
      /\ \A y \in Reads \union ScreenReads : y # r => asked'[u][y] = asked[u][y]
  BY <1>1, <1>2, ReadEnds, ZenonT(40)
<1> HIDE DEF B, b
<1>5. /\ DOMAIN mainq' = User /\ mainq'[u] \in Seq(B) /\ mainq'[u] = Append(mainq[u], b)
      /\ Elems(mainq'[u]) = Elems(mainq[u]) \union {b}
  BY <1>1, <1>2, DevicePosts
<1>6. \A x \in User \ {u} : mainq'[x] = mainq[x]
  BY <1>2
<1>7. ScreenTypeOK'
  BY <1>1, <1>2, <1>4, <1>5, <1>6, TypeStep DEF ScreenTypeOK, B
<1>8. OnlyDevice(u)
  BY <1>2, <1>4, <1>6 DEF OnlyDevice, Follows
<1>9. \A y \in ScreenReads : UnderWay(u, y) => UnderWay(u, y)'
  <2> SUFFICES ASSUME NEW y \in ScreenReads, UnderWay(u, y) PROVE UnderWay(u, y)'
    OBVIOUS
  <2>1. CASE y = r
    BY <1>3, <1>5, <2>1 DEF UnderWay
  <2>2. CASE y # r
    BY <1>4, <1>5, <2>2 DEF UnderWay
  <2> QED
    BY <2>1, <2>2
<1>10. ASSUME NEW e \in Pair, e[1] = u, e \notin misled'
       PROVE  /\ StagesRight(queue'[u], mainq'[u], Follows(e)', e)
              /\ e \in appeared' => FlagRight(e)'
  <2> DEFINE q == queue[u]
             m == mainq[u]
             X == Follows(e)
  <2>1. /\ StagesRight(q, m, X, e) /\ X \in BOOLEAN /\ Follows(e)' = X /\ (e \in appeared => FlagRight(e))
    BY <1>10, ScreenHas DEF Follows
  <2>2. b \notin FirstAcks(e) /\ b \notin SecondAcks(e)
    BY <1>3 DEF FirstAcks, SecondAcks
  <2>3. b \in CheckAnswers(e) => (b.docs # {} <=> Present(q, X, e))
    <3>1. b \in CheckAnswers(e) => r = CheckIfUserIsFollowed(e[2])
      BY <1>3 DEF CheckAnswers
    <3>2. LocallyPresent(u, "following", e, docs["following"]) <=> Present(q, X, e)
      BY <1>1, <1>10, PresentIs
    <3> QED
      BY <1>3, <1>10, <3>1, <3>2
  <2>4. b \in B /\ m \in Seq(B)
    BY <1>1
  <2> HIDE DEF q, m, X
  <2>5. StagesRight(q, Append(m, b), X, e) /\ (Chained(q, m, e) => Chained(q, Append(m, b), e))
    BY <2>1, <2>2, <2>3, <2>4, StagesPost
  <2>6. UnderWay(u, CheckIfUserIsFollowed(e[2])) => UnderWay(u, CheckIfUserIsFollowed(e[2]))'
    BY <1>9, PairIs, ScreenReadFacts
  <2>7. mainq'[u] = Append(m, b) /\ queue'[u] = q
    BY <1>2, <1>5 DEF m, q
  <2>8. e \in appeared' => FlagRight(e)'
    BY <1>10, <2>1, <2>5, <2>6, <2>7 DEF FlagRight, q, m, X
  <2> QED
    BY <2>1, <2>5, <2>7, <2>8
<1>11. \A v \in User : HeaderRight(u, v)'
  <2>1. \A v \in User : UnderWay(u, FetchUserStats(v)) => UnderWay(u, FetchUserStats(v))'
    BY <1>9, ScreenReadFacts
  <2> QED
    BY <1>5, <2>1, ScreenHas DEF HeaderRight
<1> QED
  BY <1>7, <1>8, <1>10, <1>11, DeviceStep

\* A read is answered.
LEMMA AnswerScreenInv ==
    ASSUME ScreenInv, NEW u \in User, NEW r \in Reads \union ScreenReads, AnswerScreen(u, r)
    PROVE  ScreenInv'
<1>1. ScreenTypeOK /\ UNCHANGED <<docs, isFollowed, header, appeared, misled>>
  BY DEF ScreenInv, AnswerScreen, Answer, graphVars, screenVars
<1>2. CASE r \in ScreenReads
  <2> SUFFICES ASSUME NEW ds, ds = FoundOnScreen(u, r) PROVE ScreenInv'
    OBVIOUS
  <2>1. Respond(u, r, ds)
    BY <1>2 DEF AnswerScreen
  <2>2. ds \subseteq User
    BY <1>2, ScreenReadFacts DEF FoundOnScreen
  <2>3. Answered(r, ds) \in ScreenBlocksOf(u)
    BY <1>2, <2>2, ScreenBlockTypes
  <2>4. ASSUME NEW e \in Pair, e[1] = u, r = CheckIfUserIsFollowed(e[2])
        PROVE  ds # {} <=> LocallyPresent(u, "following", e, docs["following"])
    <3>1. r.kind = "check" /\ <<u, r.of>> = e
      BY <2>4, PairIs, ScreenReadFacts
    <3> QED
      BY <3>1 DEF FoundOnScreen
  <2> QED
    BY <1>1, <2>1, <2>3, <2>4, AnsweredInv
<1>3. CASE r \in Reads
  <2> SUFFICES ASSUME NEW ds, ds = Found(r) PROVE ScreenInv'
    OBVIOUS
  <2>1. r \notin ScreenReads
    BY <1>3, ScreenReadFacts
  <2>2. Respond(u, r, ds)
    BY <2>1 DEF AnswerScreen, Answer
  <2>3. r \in FeedReads => ds \subseteq Post
    <3>1. docs["posts"] \subseteq Post
      BY <1>1 DEF ScreenTypeOK, Coll, Key
    <3> QED
      BY <3>1 DEF Found, FeedReads
  <2>4. r \in ShareReads => ds \subseteq User /\ Owner[r.of] = u
    <3>1. asked[u][r] > 0
      BY <2>2 DEF Respond
    <3>2. r \in ShareReads => Owner[r.of] = u
      BY <1>1, <3>1 DEF ScreenTypeOK
    <3> QED
      BY <3>2 DEF Found, ShareReads
  <2>5. Answered(r, ds) \in ScreenBlocksOf(u)
    BY <1>3, <2>3, <2>4, ScreenBlockTypes DEF Reads
  <2>6. \A e \in Pair : r # CheckIfUserIsFollowed(e[2])
    BY <2>1, PairIs, ScreenReadFacts
  <2> QED
    BY <1>1, <2>2, <2>5, <2>6, AnsweredInv
<1> QED
  BY <1>2, <1>3

\* A read fails: stats never do, and a pair whose check fails is misled.
LEMMA FailOnScreenInv ==
    ASSUME ScreenInv, NEW u \in User, NEW r \in Reads \union ScreenReads, FailOnScreen(u, r)
    PROVE  ScreenInv'
<1>1. /\ ScreenTypeOK /\ r.kind # "stats"
      /\ misled' = IF r.kind = "check" THEN misled \union {<<u, r.of>>} ELSE misled
      /\ UNCHANGED <<docs, isFollowed, header, appeared>>
      /\ ReadFails(u, r)
  BY DEF ScreenInv, FailOnScreen, FailToAnswer, graphVars
<1>2. /\ asked[u][r] > 0 /\ asked' = [asked EXCEPT ![u][r] = @ - 1] /\ UNCHANGED <<queue, mainq>>
  BY <1>1 DEF ReadFails
<1>3. /\ asked' \in [User -> [Reads \union ScreenReads -> Nat]]
      /\ \A x \in User, y \in ShareReads : asked'[x][y] > 0 => Owner[y.of] = x
      /\ \A x \in User \ {u} : asked'[x] = asked[x]
      /\ \A y \in Reads \union ScreenReads : y # r => asked'[u][y] = asked[u][y]
  BY <1>1, <1>2, ReadEnds
<1>4. r.kind = "check" => r \in ScreenReads /\ r.of \in User /\ r = CheckIfUserIsFollowed(r.of)
  BY ScreenReadFacts
<1>5. misled' \subseteq User \X User
  <2>1. misled \subseteq User \X User
    BY <1>1 DEF ScreenTypeOK
  <2> QED
    BY <1>1, <1>4, <2>1
<1>6. ScreenTypeOK'
  <2>1. DOMAIN queue = User /\ DOMAIN mainq = User
    BY <1>1, ScreenDevice
  <2> QED
    BY <1>1, <1>2, <1>3, <1>5, TypeStep DEF ScreenTypeOK
<1>7. OnlyDevice(u)
  <2>1. \A e \in Pair : e[1] # u => (e \in misled' <=> e \in misled)
    BY <1>1
  <2> QED
    BY <1>1, <1>2, <1>3, <2>1 DEF OnlyDevice, Follows
<1>8. \A y \in ScreenReads : y # r /\ UnderWay(u, y) => UnderWay(u, y)'
  BY <1>2, <1>3 DEF UnderWay
<1>9. ASSUME NEW e \in Pair, e[1] = u, e \notin misled'
      PROVE  /\ StagesRight(queue'[u], mainq'[u], Follows(e)', e)
             /\ e \in appeared' => FlagRight(e)'
  <2>1. e \notin misled
    BY <1>1, <1>9
  <2>2. /\ StagesRight(queue[u], mainq[u], Follows(e), e) /\ (e \in appeared => FlagRight(e))
        /\ Follows(e)' = Follows(e)
    BY <1>1, <1>9, <2>1, ScreenHas DEF Follows
  <2>3. CheckIfUserIsFollowed(e[2]) # r
    <3>1. SUFFICES ASSUME CheckIfUserIsFollowed(e[2]) = r PROVE FALSE
      OBVIOUS
    <3>2. r.kind = "check" /\ r.of = e[2]
      BY <3>1, ScreenReadFacts
    <3>3. <<u, r.of>> = e
      BY <1>9, <3>2, PairIs
    <3> QED
      BY <1>1, <1>9, <3>2, <3>3
  <2>4. UnderWay(u, CheckIfUserIsFollowed(e[2])) => UnderWay(u, CheckIfUserIsFollowed(e[2]))'
    BY <1>8, <2>3, PairIs, ScreenReadFacts
  <2>5. e \in appeared' => FlagRight(e)'
    BY <1>1, <1>2, <1>9, <2>2, <2>4 DEF FlagRight
  <2> QED
    BY <1>2, <2>2, <2>5
<1>10. ASSUME NEW v \in User PROVE HeaderRight(u, v)'
  <2>1. FetchUserStats(v) # r /\ FetchUserStats(v) \in ScreenReads
    BY <1>1, ScreenReadFacts
  <2>2. UnderWay(u, FetchUserStats(v)) => UnderWay(u, FetchUserStats(v))'
    BY <1>8, <2>1
  <2> QED
    BY <1>1, <1>2, <2>2, ScreenHas DEF HeaderRight
<1> QED
  BY <1>6, <1>7, <1>9, <1>10, DeviceStep

\* The app dies: nobody waits for its writes, and no screen has appeared.
LEMMA KillScreensInv ==
    ASSUME ScreenInv, NEW u \in User, KillScreens(u)
    PROVE  ScreenInv'
<1>1. /\ ScreenTypeOK /\ Terminate(u) /\ UNCHANGED docs
      /\ isFollowed' = [isFollowed EXCEPT ![u] = NothingShown]
      /\ header' = [header EXCEPT ![u] = NothingShown]
      /\ appeared' = {e \in appeared : e[1] # u} /\ misled' = {e \in misled : e[1] # u}
  BY DEF ScreenInv, KillScreens, Kill
<1>2. /\ queue' = [queue EXCEPT ![u] = Forgotten(@)]
      /\ asked' = [asked EXCEPT ![u] = [r \in DOMAIN @ |-> 0]]
      /\ mainq' = [mainq EXCEPT ![u] = << >>]
  BY <1>1 DEF Terminate
<1> DEFINE W == ScreenWritesOf(u)
           q == queue[u]
<1>3. /\ DOMAIN queue = User /\ q \in Seq(W) /\ DOMAIN mainq = User
      /\ asked \in [User -> [Reads \union ScreenReads -> Nat]]
  BY <1>1, ScreenDevice
<1>4. \A w \in W : [w EXCEPT !.then = NoOne] \in W /\ [w EXCEPT !.then = NoOne].then = NoOne
  <2>1. \A w \in W : [w EXCEPT !.then = NoOne] \in W
    BY ScreenWriteFields
  <2>2. \A w \in W : [w EXCEPT !.then = NoOne].then = NoOne
    BY DEF ScreenWritesOf, WritesOf
  <2> QED
    BY <2>1, <2>2
<1> HIDE DEF W, q
<1>5. \A i \in DOMAIN q : Forgotten(q)[i] \in W /\ Forgotten(q)[i].then = NoOne
  <2>1. \A i \in DOMAIN q : q[i] \in W
    BY <1>3
  <2> QED
    BY <1>4, <2>1 DEF Forgotten
<1>6. Forgotten(q) \in Seq(W) /\ DOMAIN Forgotten(q) = DOMAIN q
  <2>1. DOMAIN q = 1..Len(q) /\ Len(q) \in Nat
    BY <1>3
  <2> QED
    BY <1>5, <2>1 DEF Forgotten
<1>7. /\ DOMAIN queue' = User /\ queue'[u] = Forgotten(q) /\ queue'[u] \in Seq(W)
      /\ \A x \in User \ {u} : queue'[x] = queue[x]
      /\ DOMAIN mainq' = User /\ mainq'[u] = << >> /\ \A x \in User \ {u} : mainq'[x] = mainq[x]
  BY <1>2, <1>3, <1>6 DEF q
<1>8. << >> \in Seq(ScreenBlocksOf(u))
  OBVIOUS
<1>9. /\ asked' \in [User -> [Reads \union ScreenReads -> Nat]]
      /\ \A x \in User \ {u} : asked'[x] = asked[x]
      /\ \A r \in Reads \union ScreenReads : asked'[u][r] = 0
  BY <1>2, <1>3
<1>10. \A x \in User, r \in ShareReads : asked'[x][r] > 0 => Owner[r.of] = x
  <2>1. \A r \in ShareReads : r \in Reads \union ScreenReads
    BY ScreenReadFacts
  <2>2. \A r \in ShareReads : ~(asked'[u][r] > 0)
    BY <1>9, <2>1
  <2> QED
    BY <1>1, <1>9, <2>2 DEF ScreenTypeOK
<1>11. /\ isFollowed' \in [User -> [User -> BOOLEAN]] /\ header' \in [User -> [User -> BOOLEAN]]
       /\ \A x \in User \ {u} : isFollowed'[x] = isFollowed[x] /\ header'[x] = header[x]
       /\ isFollowed'[u] = NothingShown /\ header'[u] = NothingShown
  BY <1>1 DEF ScreenTypeOK, NothingShown
<1>12. appeared' \subseteq Pair /\ misled' \subseteq User \X User
  BY <1>1 DEF ScreenTypeOK
<1>13. DOMAIN docs' = Coll /\ \A c \in Coll : docs'[c] \subseteq Key(c)
  BY <1>1 DEF ScreenTypeOK
<1>14. ScreenTypeOK'
  <2>1. queue'[u] \in Seq(ScreenWritesOf(u)) /\ mainq'[u] \in Seq(ScreenBlocksOf(u))
    BY <1>7, <1>8 DEF W
  <2> QED
    BY <1>1, <1>7, <1>9, <1>10, <1>11, <1>12, <1>13, <2>1, TypeStep
<1>15. OnlyDevice(u)
  BY <1>1, <1>7, <1>9, <1>11 DEF OnlyDevice, Follows
<1>16. ASSUME NEW e \in Pair, e[1] = u
       PROVE  StagesRight(queue'[u], mainq'[u], Follows(e)', e) /\ e \notin appeared'
  <2>1. \A i \in DOMAIN Forgotten(q) :
           Forgotten(q)[i] \notin LiveFirsts(e) /\ Forgotten(q)[i] \notin LiveSeconds(e)
    BY <1>5, <1>6 DEF LiveFirsts, LiveSeconds
  <2> DEFINE X == Follows(e)'
             p == Forgotten(q)
  <2>2. X \in BOOLEAN
    BY DEF Follows
  <2> HIDE DEF X, p
  <2>3. StagesRight(p, << >>, X, e)
    BY <2>1, <2>2, StagesKilled DEF p
  <2> QED
    BY <1>1, <1>7, <1>16, <2>3 DEF X, p
<1>17. \A v \in User : HeaderRight(u, v)'
  BY <1>11 DEF HeaderRight
<1> QED
  BY <1>14, <1>15, <1>16, <1>17, DeviceStep

-----------------------------------------------------------------------------
(***************************************************************************)
(* The theorems.                                                           *)
(***************************************************************************)

\* At the start nothing is queued, shown or asked for.
LEMMA ScreenInvInit == ScreenInit => ScreenInv
<1> SUFFICES ASSUME ScreenInit PROVE ScreenInv
  OBVIOUS
<1>1. /\ queue = [u \in User |-> << >>] /\ mainq = [u \in User |-> << >>]
      /\ asked = [u \in User |-> [r \in Reads \union ScreenReads |-> 0]]
      /\ docs = [c \in Coll |-> {}]
      /\ isFollowed = [u \in User |-> NothingShown] /\ header = [u \in User |-> NothingShown]
      /\ appeared = {} /\ misled = {}
  BY DEF ScreenInit, SdkInit, GraphInit
<1>2. ScreenTypeOK
  <2>1. /\ DOMAIN queue = User /\ \A u \in User : queue[u] \in Seq(ScreenWritesOf(u))
        /\ DOMAIN mainq = User /\ \A u \in User : mainq[u] \in Seq(ScreenBlocksOf(u))
    BY <1>1
  <2>2. /\ asked \in [User -> [Reads \union ScreenReads -> Nat]]
        /\ \A u \in User, r \in ShareReads : ~(asked[u][r] > 0)
    BY <1>1, ScreenReadFacts
  <2>3. isFollowed \in [User -> [User -> BOOLEAN]] /\ header \in [User -> [User -> BOOLEAN]]
    BY <1>1 DEF NothingShown
  <2> QED
    BY <1>1, <2>1, <2>2, <2>3 DEF ScreenTypeOK
<1>3. Stages
  <2> SUFFICES ASSUME NEW e \in Pair PROVE StagesRight(queue[e[1]], mainq[e[1]], Follows(e), e)
    BY DEF Stages
  <2> DEFINE X == Follows(e)
             q == queue[e[1]]
  <2>1. X \in BOOLEAN /\ q = << >> /\ mainq[e[1]] = << >>
    BY <1>1, PairIs DEF Follows
  <2>2. \A i \in DOMAIN q : q[i] \notin LiveFirsts(e) /\ q[i] \notin LiveSeconds(e)
    BY <2>1
  <2> HIDE DEF X, q
  <2>3. StagesRight(q, << >>, X, e)
    BY <2>1, <2>2, StagesKilled
  <2> QED
    BY <2>1, <2>3 DEF X, q
<1>4. Flags
  BY <1>1 DEF Flags
<1>5. Headers
  BY <1>1 DEF Headers, HeaderRight
<1> QED
  BY <1>2, <1>3, <1>4, <1>5 DEF ScreenInv

\* Every step preserves the invariant.
LEMMA ScreenInvNext ==
    ASSUME ScreenInv, [ScreenNext]_allVars
    PROVE  ScreenInv'
<1>1. ASSUME NEW u \in User, ScreenTouched(u) \/ ScreenProgress(u) \/ ScreenFailing(u)
      PROVE  ScreenInv'
  <2>1. CASE ScreenTouched(u)
    BY <2>1, ViewWillAppearInv, EditProfileButtonClickedInv DEF ScreenTouched
  <2>2. CASE ScreenProgress(u)
    BY <2>2, CommitForScreenInv, AnswerScreenInv, RunScreenBlockInv DEF ScreenProgress
  <2>3. CASE ScreenFailing(u)
    BY <2>3, RejectOnScreenInv, FailOnScreenInv, KillScreensInv DEF ScreenFailing
  <2> QED
    BY <1>1, <2>1, <2>2, <2>3
<1>2. CASE UNCHANGED allVars
  <2>1. UNCHANGED <<queue, asked, mainq, docs, isFollowed, header, appeared, misled>>
    BY <1>2 DEF allVars, vars, sdkVars, graphVars, screenVars
  <2>2. ScreenTypeOK'
    BY <2>1 DEF ScreenInv, ScreenTypeOK
  <2>3. Stages' /\ Flags' /\ Headers'
    BY <2>1 DEF ScreenInv, Stages, Flags, Headers, FlagRight, HeaderRight, UnderWay, Follows
  <2> QED
    BY <2>2, <2>3 DEF ScreenInv
<1> QED
  BY <1>1, <1>2 DEF ScreenNext

\* Throughout every behaviour of the profile screen, each stage of a follow and
\* each answer to a check is right or followed by something newer, and so are
\* isFollowed and the header.
THEOREM ScreenInvariant == ScreenSpec => []ScreenInv
  BY ScreenInvInit, ScreenInvNext, PTL DEF ScreenSpec

\* The services and the profile screen keep their types, whatever the screen
\* taps: a device writes only its own half of the graph.
THEOREM ScreenTypeCorrect == ScreenSpec => []ScreenTypeOK
<1>1. ScreenInv => ScreenTypeOK
  BY DEF ScreenInv
<1> QED
  BY <1>1, ScreenInvariant, PTL

\* When nothing is queued, waiting or asked for, the flag and the header have
\* nothing left to wait for.
LEMMA ScreenInvImplies == ScreenInv => ButtonShowsTruth
<1> SUFFICES ASSUME ScreenInv, NEW e \in appeared \ misled, Idle(e[1])
             PROVE  /\ header[e[1]][e[2]] = isFollowed[e[1]][e[2]]
                    /\ isFollowed[e[1]][e[2]] <=> Follows(e)
  BY DEF ButtonShowsTruth
<1>1. ScreenTypeOK /\ e \in Pair
  BY DEF ScreenInv, ScreenTypeOK
<1>2. e[1] \in User /\ e[2] \in User
  BY <1>1, PairIs
<1>3. /\ queue[e[1]] = << >> /\ mainq[e[1]] = << >>
      /\ \A r \in Reads \union ScreenReads : asked[e[1]][r] = 0
  <2>1. DOMAIN asked[e[1]] = Reads \union ScreenReads
    BY <1>1, <1>2 DEF ScreenTypeOK
  <2> QED
    BY <2>1 DEF Idle
<1>4. Elems(mainq[e[1]]) = {} /\ DOMAIN queue[e[1]] = {} /\ DOMAIN mainq[e[1]] = {}
  BY <1>3 DEF Elems
<1>5. \A r \in ScreenReads : ~UnderWay(e[1], r)
  <2>1. \A r \in ScreenReads : ~(asked[e[1]][r] > 0)
    BY <1>3
  <2> QED
    BY <1>4, <2>1 DEF UnderWay
<1>6. ~Chained(queue[e[1]], mainq[e[1]], e)
  BY <1>4 DEF Chained, After
<1>7. Present(queue[e[1]], Follows(e), e) = Follows(e)
  <2>1. Firsts(queue[e[1]], e) = {}
    BY <1>4 DEF Firsts
  <2> QED
    BY <2>1 DEF Present
<1>8. FlagRight(e) /\ HeaderRight(e[1], e[2])
  BY <1>1, <1>2, ScreenHas
<1>9. isFollowed[e[1]][e[2]] <=> Follows(e)
  BY <1>2, <1>5, <1>6, <1>7, <1>8, ScreenReadFacts DEF FlagRight
<1>10. header[e[1]][e[2]] = isFollowed[e[1]][e[2]]
  BY <1>2, <1>4, <1>5, <1>8, ScreenReadFacts DEF HeaderRight
<1> QED
  BY <1>9, <1>10

\* However taps, checks, completions and reloads interleave, once the device is
\* idle the follow button of a profile shows what the database says, unless a
\* check failed or the backend refused the follow.
THEOREM ButtonIsRight == ScreenSpec => []ButtonShowsTruth
  BY ScreenInvariant, ScreenInvImplies, PTL

-----------------------------------------------------------------------------
(***************************************************************************)
(* What the services see of a main queue.  The ranks of the positions of   *)
(* their blocks are 1, 2, 3, ... without gaps, whatever blocks of the      *)
(* screen lie in between.                                                  *)
(***************************************************************************)

\* The positions up to i, and their number.
LEMMA RankType ==
    ASSUME NEW n \in Nat, NEW S \in SUBSET (1..n), NEW i \in Nat
    PROVE  /\ IsFiniteSet(S) /\ IsFiniteSet({j \in S : j <= i})
           /\ Cardinality(S) \in Nat /\ Rank(S, i) \in Nat /\ Rank(S, i) <= Cardinality(S)
           /\ i >= n => Rank(S, i) = Cardinality(S)
<1> DEFINE T == {j \in S : j <= i}
<1>1. IsFiniteSet(1..n)
  BY FS_Interval
<1>2. IsFiniteSet(S)
  BY <1>1, FS_Subset
<1>3. T \in SUBSET S
  OBVIOUS
<1>4. i >= n => T = S
  <2>1. \A j \in S : j \in Nat /\ j <= n
    OBVIOUS
  <2>2. i >= n => \A j \in S : j <= i
    BY <2>1
  <2> QED
    BY <2>2
<1> HIDE DEF T
<1>5. IsFiniteSet(T) /\ Cardinality(T) <= Cardinality(S)
  BY <1>2, <1>3, FS_Subset
<1>6. Cardinality(S) \in Nat /\ Cardinality(T) \in Nat
  BY <1>2, <1>5, FS_CardinalityType
<1> QED
  BY <1>2, <1>4, <1>5, <1>6 DEF Rank, T

\* A later position has a higher rank.
LEMMA RankGrows ==
    ASSUME NEW n \in Nat, NEW S \in SUBSET (1..n), NEW i \in Nat, NEW k \in S, i < k
    PROVE  Rank(S, i) < Rank(S, k)
<1> DEFINE T == {j \in S : j <= i}
           V == {j \in S : j <= k}
<1>1. /\ IsFiniteSet(T) /\ IsFiniteSet(V) /\ Cardinality(T) \in Nat /\ Cardinality(V) \in Nat
  BY RankType DEF Rank
<1>2. T \union {k} \in SUBSET V /\ k \notin T
  <2>1. \A j \in S : j \in Nat
    OBVIOUS
  <2>2. \A j \in S : j <= i => j <= k
    BY <2>1
  <2>3. k <= k /\ ~(k <= i)
    BY <2>1
  <2> QED
    BY <2>2, <2>3
<1> HIDE DEF T, V
<1>3. Cardinality(T \union {k}) = Cardinality(T) + 1
  BY <1>1, <1>2, FS_AddElement
<1>4. Cardinality(T \union {k}) <= Cardinality(V)
  BY <1>1, <1>2, FS_Subset
<1> QED
  BY <1>1, <1>3, <1>4 DEF Rank, T, V

\* Every rank is that of one position.
LEMMA RankOnto ==
    ASSUME NEW n \in Nat, NEW S \in SUBSET (1..n)
    PROVE  /\ \A i \in S : Rank(S, i) \in 1..Cardinality(S)
           /\ \A k \in 1..Cardinality(S) : \E i \in S : Rank(S, i) = k
           /\ \A i, j \in S : Rank(S, i) = Rank(S, j) => i = j
<1> DEFINE c == Cardinality(S)
           f == [i \in S |-> Rank(S, i)]
<1>1. IsFiniteSet(S) /\ c \in Nat
  <2>1. 0 \in Nat
    OBVIOUS
  <2> QED
    BY <2>1, RankType
<1>2. ASSUME NEW i \in S PROVE Rank(S, i) \in 1..c
  <2>1. i \in Nat /\ 0 \in Nat /\ 0 < i
    OBVIOUS
  <2>2. Rank(S, 0) < Rank(S, i) /\ Rank(S, 0) \in Nat /\ Rank(S, i) \in Nat /\ Rank(S, i) <= c
    BY <2>1, RankType, RankGrows
  <2> QED
    BY <1>1, <2>2
<1>3. ASSUME NEW i \in S, NEW j \in S, Rank(S, i) = Rank(S, j) PROVE i = j
  <2>1. i \in Nat /\ j \in Nat
    OBVIOUS
  <2>0. Rank(S, i) \in Nat /\ Rank(S, j) \in Nat
    BY <2>1, RankType
  <2>2. /\ i < j => Rank(S, i) < Rank(S, j)
        /\ j < i => Rank(S, j) < Rank(S, i)
    BY <2>1, RankGrows
  <2>3. ~(i < j) /\ ~(j < i)
    BY <1>3, <2>0, <2>2
  <2> QED
    BY <2>1, <2>3
<1>4. f \in Injection(S, 1..c)
  BY <1>2, <1>3 DEF Injection, IsInjective
<1>5. IsFiniteSet(1..c) /\ Cardinality(1..c) = c
  BY <1>1, FS_Interval
<1>6. f \in Surjection(S, 1..c)
  <2> HIDE DEF f
  <2> QED
    BY <1>4, <1>5, FS_Injection
<1>7. \A k \in 1..c : \E i \in S : f[i] = k
  <2> HIDE DEF f
  <2> QED
    BY <1>6 DEF Surjection
<1> QED
  BY <1>2, <1>3, <1>7

\* What the services see, by rank.
LEMMA ServicePartIs ==
    ASSUME NEW B, NEW m \in Seq(B)
    PROVE  LET S == ServiceAt(m)
               s == ServicePart(m)
           IN  /\ S \in SUBSET (1..Len(m)) /\ Len(m) \in Nat /\ DOMAIN m = 1..Len(m)
               /\ Cardinality(S) \in Nat /\ s \in Seq(B) /\ Len(s) = Cardinality(S)
               /\ DOMAIN s = 1..Cardinality(S)
               /\ \A i \in S : Rank(S, i) \in 1..Cardinality(S) /\ s[Rank(S, i)] = m[i]
               /\ \A k \in 1..Cardinality(S) : \E i \in S : Rank(S, i) = k
<1> DEFINE S == ServiceAt(m)
           s == ServicePart(m)
           c == Cardinality(S)
           at(k) == CHOOSE i \in S : Rank(S, i) = k
<1>1. S \in SUBSET (1..Len(m)) /\ Len(m) \in Nat /\ DOMAIN m = 1..Len(m)
  BY LenProperties DEF ServiceAt
<1>2. s = [k \in 1..c |-> m[at(k)]]
  BY DEF ServicePart
<1> HIDE DEF S, s
<1>3. /\ \A i \in S : Rank(S, i) \in 1..c
      /\ \A k \in 1..c : \E i \in S : Rank(S, i) = k
      /\ \A i, j \in S : Rank(S, i) = Rank(S, j) => i = j
  BY <1>1, RankOnto
<1>4. c \in Nat
  <2>1. 0 \in Nat
    OBVIOUS
  <2> QED
    BY <1>1, <2>1, RankType
<1>5. \A k \in 1..c : at(k) \in S /\ Rank(S, at(k)) = k
  BY <1>3
<1>6. \A i \in S : at(Rank(S, i)) = i
  BY <1>3, <1>5
<1> HIDE DEF at
<1>7. \A k \in 1..c : s[k] = m[at(k)] /\ s[k] \in B
  BY <1>1, <1>2, <1>5, ElementOfSeq
<1>8. DOMAIN s = 1..c /\ s \in [1..c -> B]
  BY <1>2, <1>7
<1>9. s \in Seq(B) /\ Len(s) = c
  BY <1>4, <1>8, SeqDef, LenProperties
<1>10. \A i \in S : s[Rank(S, i)] = m[i]
  BY <1>3, <1>6, <1>7
<1> QED
  BY <1>1, <1>3, <1>4, <1>8, <1>9, <1>10 DEF S, s

\* A block of the screen is posted: the services see nothing.  A block of theirs
\* is the last they see.
LEMMA ServicePartAppend ==
    ASSUME NEW B, NEW m \in Seq(B), NEW b \in B
    PROVE  ServicePart(Append(m, b)) =
              IF IsServiceBlock(b) THEN Append(ServicePart(m), b) ELSE ServicePart(m)
<1> DEFINE n == Len(m) + 1
           t == Append(m, b)
           S == ServiceAt(m)
           U == ServiceAt(t)
           s == ServicePart(m)
           v == ServicePart(t)
           c == Cardinality(S)
           d == Cardinality(U)
<1>1. /\ t \in Seq(B) /\ Len(t) = n /\ t[n] = b /\ \A i \in 1..Len(m) : t[i] = m[i]
  BY AppendProperties
<1>2. /\ S \in SUBSET (1..Len(m)) /\ Len(m) \in Nat /\ c \in Nat /\ s \in Seq(B) /\ Len(s) = c
      /\ DOMAIN m = 1..Len(m)
      /\ \A i \in S : Rank(S, i) \in 1..c /\ s[Rank(S, i)] = m[i]
      /\ \A k \in 1..c : \E i \in S : Rank(S, i) = k
  BY ServicePartIs
<1>3. /\ U \in SUBSET (1..n) /\ d \in Nat /\ v \in Seq(B) /\ Len(v) = d /\ DOMAIN t = 1..n
      /\ \A i \in U : Rank(U, i) \in 1..d /\ v[Rank(U, i)] = t[i]
      /\ \A k \in 1..d : \E i \in U : Rank(U, i) = k
  BY <1>1, ServicePartIs
<1>4. U = IF IsServiceBlock(b) THEN S \union {n} ELSE S
  <2>1. \A i \in 1..n : i = n \/ i \in 1..Len(m)
    BY <1>2
  <2>2. n \in 1..n /\ n \notin 1..Len(m) /\ \A i \in 1..Len(m) : i \in 1..n
    BY <1>2
  <2> QED
    BY <1>1, <1>2, <1>3, <2>1, <2>2 DEF ServiceAt
<1> HIDE DEF S, U, s, v, t, n
<1>5. IsFiniteSet(S) /\ n \in Nat /\ n = Len(m) + 1 /\ n \notin S
  <2>1. 0 \in Nat
    OBVIOUS
  <2>2. IsFiniteSet(S)
    BY <1>2, <2>1, RankType
  <2> QED
    BY <1>2, <2>2 DEF n
<1>6. CASE ~IsServiceBlock(b)
  <2>1. U = S
    BY <1>4, <1>6
  <2>2. ASSUME NEW k \in 1..c PROVE v[k] = s[k]
    <3>1. PICK i \in S : Rank(S, i) = k
      BY <1>2
    <3>2. t[i] = m[i] /\ v[k] = t[i] /\ s[k] = m[i]
      BY <1>1, <1>2, <1>3, <2>1, <3>1
    <3> QED
      BY <3>2
  <2>3. Len(v) = Len(s)
    BY <1>2, <1>3, <2>1
  <2>4. v = s
    BY <1>2, <1>3, <2>2, <2>3, SeqEqual
  <2> QED
    BY <1>6, <2>4 DEF s, v, t
<1>7. CASE IsServiceBlock(b)
  <2>1. U = S \union {n} /\ d = c + 1
    BY <1>4, <1>5, <1>7, FS_AddElement
  <2>2. \A i \in S : Rank(U, i) = Rank(S, i)
    <3>1. \A i \in S : i \in 1..Len(m)
      BY <1>2
    <3>2. \A i \in S : ~(n <= i)
      BY <1>2, <1>5, <3>1
    <3>3. \A i \in S : {j \in U : j <= i} = {j \in S : j <= i}
      BY <2>1, <3>2
    <3> QED
      BY <3>3 DEF Rank
  <2>3. Rank(U, n) = d
    <3>1. n >= n
      BY <1>5
    <3> QED
      BY <1>3, <1>5, <3>1, RankType
  <2>4. /\ Append(s, b) \in Seq(B) /\ Len(Append(s, b)) = c + 1
        /\ Append(s, b)[c + 1] = b /\ \A k \in 1..c : Append(s, b)[k] = s[k]
    BY <1>2, AppendProperties
  <2>5. ASSUME NEW k \in 1..d PROVE v[k] = Append(s, b)[k]
    <3>1. PICK i \in U : Rank(U, i) = k
      BY <1>3
    <3>2. v[k] = t[i]
      BY <1>3, <3>1
    <3>3. CASE i = n
      BY <1>1, <2>1, <2>3, <2>4, <3>1, <3>2, <3>3
    <3>4. CASE i \in S
      <4>1. t[i] = m[i] /\ k \in 1..c /\ s[k] = m[i]
        BY <1>1, <1>2, <2>2, <3>1, <3>4
      <4> QED
        BY <2>4, <3>2, <4>1
    <3> QED
      BY <2>1, <3>3, <3>4
  <2>6. v = Append(s, b)
    BY <1>3, <2>1, <2>4, <2>5, SeqEqual
  <2> QED
    BY <1>7, <2>6 DEF s, v, t
<1> QED
  BY <1>6, <1>7

\* The positions of the services' blocks move up by one when the first block of
\* a queue has run.
LEMMA RankTail ==
    ASSUME NEW n \in Nat, NEW S \in SUBSET (1..(n + 1)), NEW U \in SUBSET (1..n),
           \A i \in 1..n : i \in U <=> i + 1 \in S, NEW i \in 0..n
    PROVE  Rank(S, i + 1) = IF 1 \in S THEN Rank(U, i) + 1 ELSE Rank(U, i)
<1> DEFINE X == {j \in S : j <= i + 1}
           Y == {j \in U : j <= i}
           Z == X \ {1}
           g == [j \in Y |-> j + 1]
<1>1. /\ IsFiniteSet(X) /\ Cardinality(X) \in Nat /\ IsFiniteSet(Y) /\ Cardinality(Y) \in Nat
  <2>1. n + 1 \in Nat /\ i + 1 \in Nat /\ i \in Nat
    OBVIOUS
  <2>2. IsFiniteSet(X) /\ Rank(S, i + 1) \in Nat
    BY <2>1, RankType
  <2>3. IsFiniteSet(Y) /\ Rank(U, i) \in Nat
    BY <2>1, RankType
  <2> QED
    BY <2>2, <2>3 DEF Rank
<1>2. ASSUME NEW j \in Y PROVE j \in Nat /\ j + 1 \in Z
  <2>1. j \in U /\ j \in 1..n /\ j <= i
    OBVIOUS
  <2>2. j + 1 \in S
    BY <2>1
  <2>3. j + 1 <= i + 1 /\ j + 1 # 1 /\ j \in Nat
    BY <2>1
  <2> QED
    BY <2>2, <2>3
<1>3. ASSUME NEW k \in Z PROVE \E j \in Y : j + 1 = k
  <2>1. k \in S /\ k \in 1..(n + 1) /\ k <= i + 1 /\ k # 1
    OBVIOUS
  <2>2. k - 1 \in 1..n /\ (k - 1) + 1 = k /\ k - 1 <= i
    BY <2>1
  <2>3. k - 1 \in U
    BY <2>1, <2>2
  <2>4. k - 1 \in Y
    BY <2>2, <2>3
  <2> QED
    BY <2>2, <2>4
<1>4. \A j, k \in Y : j + 1 = k + 1 => j = k
  BY <1>2
<1>5. g \in Bijection(Y, Z)
  <2>1. g \in [Y -> Z] /\ \A j \in Y : g[j] = j + 1
    BY <1>2
  <2> HIDE DEF g, Y, Z
  <2> QED
    BY <1>3, <1>4, <2>1 DEF Bijection, Injection, Surjection, IsInjective
<1>6. 1 \in X <=> 1 \in S
  OBVIOUS
<1> HIDE DEF X, Y, g
<1>7. Cardinality(Z) = IF 1 \in X THEN Cardinality(X) - 1 ELSE Cardinality(X)
  BY <1>1, FS_RemoveElement
<1>8. Cardinality(Z) = Cardinality(Y)
  <2>1. ExistsBijection(Y, Z)
    BY <1>5 DEF ExistsBijection
  <2> HIDE DEF Z
  <2> QED
    BY <1>1, <2>1, FS_Bijection
<1> QED
  BY <1>1, <1>6, <1>7, <1>8 DEF Rank, X, Y

\* The first block runs: if it is one of the screen, the services see nothing;
\* if it is one of theirs, it is the first they see.
LEMMA ServicePartTail ==
    ASSUME NEW B, NEW m \in Seq(B), m # << >>
    PROVE  /\ IsServiceBlock(Head(m)) =>
                /\ ServicePart(m) # << >> /\ Head(ServicePart(m)) = Head(m)
                /\ ServicePart(Tail(m)) = Tail(ServicePart(m))
           /\ ~IsServiceBlock(Head(m)) => ServicePart(Tail(m)) = ServicePart(m)
<1> DEFINE t == Tail(m)
           n == Len(t)
           S == ServiceAt(m)
           U == ServiceAt(t)
           s == ServicePart(m)
           v == ServicePart(t)
           c == Cardinality(S)
           d == Cardinality(U)
<1>1. /\ t \in Seq(B) /\ n \in Nat /\ Len(m) = n + 1 /\ Head(m) = m[1]
      /\ \A i \in 1..n : t[i] = m[i + 1]
  <2>1. /\ t \in Seq(B) /\ Len(m) \in Nat /\ Len(m) > 0 /\ n = Len(m) - 1 /\ Head(m) = m[1]
        /\ \A i \in 1..(Len(m) - 1) : t[i] = m[i + 1]
    BY HeadTailProperties, LenProperties, EmptySeq
  <2> HIDE DEF t
  <2> QED
    BY <2>1
<1>2. /\ S \in SUBSET (1..(n + 1)) /\ c \in Nat /\ s \in Seq(B) /\ Len(s) = c
      /\ DOMAIN m = 1..(n + 1)
      /\ \A i \in S : Rank(S, i) \in 1..c /\ s[Rank(S, i)] = m[i]
      /\ \A k \in 1..c : \E i \in S : Rank(S, i) = k
  BY <1>1, ServicePartIs
<1>3. /\ U \in SUBSET (1..n) /\ d \in Nat /\ v \in Seq(B) /\ Len(v) = d /\ DOMAIN t = 1..n
      /\ \A i \in U : Rank(U, i) \in 1..d /\ v[Rank(U, i)] = t[i]
      /\ \A k \in 1..d : \E i \in U : Rank(U, i) = k
  BY <1>1, ServicePartIs
<1>4. /\ \A i \in 1..n : i \in U <=> i + 1 \in S
      /\ 1 \in S <=> IsServiceBlock(Head(m))
  <2>1. \A i \in 1..n : i + 1 \in 1..(n + 1)
    BY <1>1
  <2>2. 1 \in 1..(n + 1)
    BY <1>1
  <2> QED
    BY <1>1, <1>2, <1>3, <2>1, <2>2 DEF ServiceAt
<1> HIDE DEF S, U, s, v, t, n
<1>5. \A i \in 0..n : Rank(S, i + 1) = IF 1 \in S THEN Rank(U, i) + 1 ELSE Rank(U, i)
  BY <1>1, <1>2, <1>3, <1>4, RankTail
<1>6. c = IF 1 \in S THEN d + 1 ELSE d
  <2>1. n \in 0..n /\ n >= n /\ n + 1 >= n + 1 /\ n + 1 \in Nat
    BY <1>1
  <2>2. Rank(S, n + 1) = c
    BY <1>2, <2>1, RankType
  <2>3. Rank(U, n) = d
    BY <1>1, <1>3, <2>1, RankType
  <2> QED
    BY <1>5, <2>1, <2>2, <2>3
<1>7. ASSUME NEW k \in 1..d
      PROVE  v[k] = s[IF 1 \in S THEN k + 1 ELSE k]
  <2>1. PICK i \in U : Rank(U, i) = k
    BY <1>3
  <2>2. i \in 1..n /\ i \in 0..n
    BY <1>1, <1>3
  <2>3. i + 1 \in S /\ v[k] = m[i + 1]
    BY <1>1, <1>3, <1>4, <2>1, <2>2
  <2>4. Rank(S, i + 1) = IF 1 \in S THEN k + 1 ELSE k
    BY <1>5, <2>1, <2>2
  <2>5. s[Rank(S, i + 1)] = m[i + 1]
    BY <1>2, <2>3
  <2> QED
    BY <2>3, <2>4, <2>5
<1>8. CASE ~IsServiceBlock(Head(m))
  <2>1. 1 \notin S /\ c = d
    BY <1>4, <1>6, <1>8
  <2>2. \A k \in 1..d : v[k] = s[k]
    BY <1>7, <2>1
  <2>3. v = s
    BY <1>2, <1>3, <2>1, <2>2, SeqEqual
  <2> QED
    BY <1>8, <2>3 DEF v, s, t
<1>9. CASE IsServiceBlock(Head(m))
  <2>1. 1 \in S /\ c = d + 1
    BY <1>4, <1>6, <1>9
  <2>2. s # << >> /\ Len(s) = d + 1
    BY <1>2, <1>3, <2>1, EmptySeq
  <2>3. Rank(S, 1) = 1
    <3>1. 0 \in 0..n /\ 0 + 1 = 1 /\ 0 \in Nat
      BY <1>1
    <3>2. Rank(S, 1) = Rank(U, 0) + 1
      BY <1>5, <2>1, <3>1
    <3>3. {j \in U : j <= 0} = {}
      <4>1. \A j \in U : j \in 1..n
        BY <1>3
      <4>2. \A j \in U : ~(j <= 0)
        BY <1>1, <4>1
      <4> QED
        BY <4>2
    <3>4. Rank(U, 0) = 0
      BY <3>3, FS_EmptySet DEF Rank
    <3> QED
      BY <3>2, <3>4
  <2>4. s[1] = m[1]
    BY <1>2, <2>1, <2>3
  <2>5. /\ Head(s) = s[1] /\ Tail(s) \in Seq(B) /\ Len(Tail(s)) = d
        /\ \A k \in 1..d : Tail(s)[k] = s[k + 1]
    <3>1. /\ Head(s) = s[1] /\ Tail(s) \in Seq(B) /\ Len(Tail(s)) = Len(s) - 1
          /\ \A k \in 1..(Len(s) - 1) : Tail(s)[k] = s[k + 1]
      BY <1>2, <2>2, HeadTailProperties
    <3>2. Len(s) - 1 = d
      BY <1>3, <2>2
    <3> QED
      BY <3>1, <3>2
  <2>6. \A k \in 1..d : v[k] = Tail(s)[k]
    BY <1>7, <2>1, <2>5
  <2>7. v = Tail(s)
    BY <1>3, <2>5, <2>6, SeqEqual
  <2> QED
    BY <1>1, <1>9, <2>2, <2>4, <2>5, <2>7 DEF v, s, t
<1> QED
  BY <1>8, <1>9

\* The services see nothing of an empty queue, and all of their blocks.
LEMMA ServicePartElems ==
    /\ ServicePart(<< >>) = << >>
    /\ \A B : \A m \in Seq(B) :
          /\ \A b \in Elems(ServicePart(m)) : b \in Elems(m) /\ IsServiceBlock(b)
          /\ \A b \in Elems(m) : IsServiceBlock(b) => b \in Elems(ServicePart(m))
<1>1. ServicePart(<< >>) = << >>
  <2>1. << >> \in Seq({}) /\ DOMAIN << >> = {}
    OBVIOUS
  <2>2. ServiceAt(<< >>) = {}
    BY <2>1 DEF ServiceAt
  <2>3. ServicePart(<< >>) \in Seq({}) /\ Len(ServicePart(<< >>)) = 0
    BY <2>1, <2>2, ServicePartIs, FS_EmptySet
  <2> QED
    BY <2>3, EmptySeq
<1>2. ASSUME NEW B, NEW m \in Seq(B)
      PROVE  /\ \A b \in Elems(ServicePart(m)) : b \in Elems(m) /\ IsServiceBlock(b)
             /\ \A b \in Elems(m) : IsServiceBlock(b) => b \in Elems(ServicePart(m))
  <2> DEFINE S == ServiceAt(m)
             s == ServicePart(m)
             c == Cardinality(S)
  <2>1. /\ DOMAIN s = 1..c /\ DOMAIN m = 1..Len(m) /\ S \in SUBSET (1..Len(m))
        /\ \A i \in S : Rank(S, i) \in 1..c /\ s[Rank(S, i)] = m[i]
        /\ \A k \in 1..c : \E i \in S : Rank(S, i) = k
    BY ServicePartIs
  <2>2. \A i \in DOMAIN m : i \in S <=> IsServiceBlock(m[i])
    BY DEF ServiceAt
  <2> HIDE DEF S, s
  <2>3. ASSUME NEW b \in Elems(s) PROVE b \in Elems(m) /\ IsServiceBlock(b)
    <3>1. PICK k \in 1..c : s[k] = b
      BY <2>1 DEF Elems
    <3>2. PICK i \in S : Rank(S, i) = k
      BY <2>1
    <3>3. i \in DOMAIN m /\ m[i] = b
      BY <2>1, <3>1, <3>2
    <3> QED
      BY <2>2, <3>2, <3>3 DEF Elems
  <2>4. ASSUME NEW b \in Elems(m), IsServiceBlock(b) PROVE b \in Elems(s)
    <3>1. PICK i \in DOMAIN m : m[i] = b
      BY DEF Elems
    <3>2. i \in S
      BY <2>2, <2>4, <3>1
    <3>3. Rank(S, i) \in DOMAIN s /\ s[Rank(S, i)] = b
      BY <2>1, <3>1, <3>2
    <3> QED
      BY <3>3 DEF Elems
  <2> QED
    BY <2>3, <2>4 DEF s
<1> QED
  BY <1>1, <1>2

-----------------------------------------------------------------------------
(***************************************************************************)
(* The screen implements the services: a step of the screen is the step of *)
(* the services it is made of, or one they do not see.                     *)
(***************************************************************************)

\* What does not depend on what the services see is the same for them.
LEMMA SameForServices ==
    /\ Services!Reads = Reads /\ Services!NoOne = NoOne /\ Services!Pair = Pair
    /\ \A u, v, op, s : /\ Services!FollowingWrite(u, v, op, s) = FollowingWrite(u, v, op, s)
                        /\ Services!FollowersWrite(u, v, op, s) = FollowersWrite(u, v, op, s)
    /\ \A u, v : Services!NotificationWrite(u, v) = NotificationWrite(u, v)
    /\ \A p : Services!PostWrite(p) = PostWrite(p)
    /\ \A u, p, op : Services!FeedWrite(u, p, op) = FeedWrite(u, p, op)
    /\ \A k, o : Services!Read(k, o) = Read(k, o)
    /\ \A v, d : Services!FeedRead(v, d) = FeedRead(v, d)
    /\ \A f : Services!OpFor(f) = OpFor(f)
    /\ \A S : Services!Orderings(S) = Orderings(S)
    /\ \A w, ok : Services!Acked(w, ok) = Acked(w, ok)
    /\ \A r, ds : Services!Answered(r, ds) = Answered(r, ds)
    /\ \A ws : Services!Forgotten(ws) = Forgotten(ws)
    /\ \A r : Services!Found(r) = Found(r)
    /\ \A w : Services!Apply(w) = Apply(w)
    /\ \A u, ws : Services!WriteMutations(u, ws) = WriteMutations(u, ws)
    /\ Services!graphVars = graphVars
<1>1. Services!Reads = Reads /\ Services!NoOne = NoOne /\ Services!Pair = Pair
  BY DEF Services!Reads, Services!FeedReads, Services!ShareReads, Reads, FeedReads, ShareReads,
         Services!NoOne, NoOne, Services!Pair, Pair
<1>2. \A c, o, k, t : Services!Write(c, o, k, t) = Write(c, o, k, t)
  BY DEF Services!Write, Write
<1>3. \A k, o : Services!Read(k, o) = Read(k, o)
  BY DEF Services!Read, Read
<1>4. /\ \A u, v, op, s : /\ Services!FollowingWrite(u, v, op, s) = FollowingWrite(u, v, op, s)
                          /\ Services!FollowersWrite(u, v, op, s) = FollowersWrite(u, v, op, s)
      /\ \A u, v : Services!NotificationWrite(u, v) = NotificationWrite(u, v)
      /\ \A p : Services!PostWrite(p) = PostWrite(p)
      /\ \A u, p, op : Services!FeedWrite(u, p, op) = FeedWrite(u, p, op)
  BY <1>1, <1>2 DEF Services!FollowingWrite, FollowingWrite, Services!FollowersWrite, FollowersWrite,
         Services!NotificationWrite, NotificationWrite, Services!PostWrite, PostWrite,
         Services!FeedWrite, FeedWrite
<1>5. /\ \A v, d : Services!FeedRead(v, d) = FeedRead(v, d)
      /\ \A f : Services!OpFor(f) = OpFor(f)
      /\ \A S : Services!Orderings(S) = Orderings(S)
  <2>1. \A v, d : Services!FeedRead(v, d) = FeedRead(v, d)
    BY <1>3 DEF Services!FeedRead, FeedRead
  <2>2. \A f : Services!OpFor(f) = OpFor(f)
    BY DEF Services!OpFor, OpFor
  <2>3. \A S : Services!Orderings(S) = Orderings(S)
    <3>1. \A S : Services!Cardinality(S) = Cardinality(S)
      BY Zenon DEF Services!Cardinality, Cardinality
    <3> QED
      BY <3>1, Zenon DEF Services!Orderings, Orderings
  <2> QED
    BY <2>1, <2>2, <2>3
<1>6. /\ \A w, ok : Services!Acked(w, ok) = Acked(w, ok)
      /\ \A r, ds : Services!Answered(r, ds) = Answered(r, ds)
      /\ \A ws : Services!Forgotten(ws) = Forgotten(ws)
  BY <1>1 DEF Services!Acked, Acked, Services!Answered, Answered, Services!Forgotten, Forgotten
<1>7. \A r : Services!Found(r) = Found(r)
  BY DEF Services!Found, Found
<1>8. /\ \A w : Services!Apply(w) = Apply(w)
      /\ \A u, ws : Services!WriteMutations(u, ws) = WriteMutations(u, ws)
      /\ Services!graphVars = graphVars
  BY DEF Services!Apply, Apply, Services!WriteMutations, WriteMutations, Services!graphVars, graphVars
<1> QED
  BY <1>1, <1>3, <1>4, <1>5, <1>6, <1>7, <1>8

\* A block is posted on u's main queue.
LEMMA SeesPosted ==
    ASSUME ScreenTypeOK, NEW u \in User, NEW b \in ScreenBlocksOf(u),
           mainq' = [mainq EXCEPT ![u] = Append(@, b)]
    PROVE  ServiceMainq' = IF IsServiceBlock(b) THEN [ServiceMainq EXCEPT ![u] = Append(@, b)]
                           ELSE ServiceMainq
<1> DEFINE B == ScreenBlocksOf(u)
<1>1. DOMAIN mainq = User /\ mainq[u] \in Seq(B)
  BY ScreenDevice
<1> HIDE DEF B
<1>2. ServicePart(Append(mainq[u], b)) =
         IF IsServiceBlock(b) THEN Append(ServicePart(mainq[u]), b) ELSE ServicePart(mainq[u])
  BY <1>1, ServicePartAppend DEF B
<1>3. \A x \in User : ServicePart(mainq'[x]) =
         IF x = u /\ IsServiceBlock(b) THEN Append(ServicePart(mainq[u]), b) ELSE ServicePart(mainq[x])
  <2>1. ServicePart(mainq'[u]) = ServicePart(Append(mainq[u], b))
    BY <1>1
  <2>2. \A x \in User \ {u} : mainq'[x] = mainq[x]
    BY <1>1
  <2> QED
    BY <1>2, <2>1, <2>2
<1> QED
  BY <1>3 DEF ServiceMainq

\* The first block of u's main queue runs.
LEMMA SeesRun ==
    ASSUME ScreenTypeOK, NEW u \in User, mainq[u] # << >>, NEW b, b = Head(mainq[u])
    PROVE  /\ IsServiceBlock(b) => ServiceMainq[u] # << >> /\ Head(ServiceMainq[u]) = b
           /\ IsServiceBlock(b) /\ mainq' = RunFirst(u, << >>) =>
                ServiceMainq' = Services!RunFirst(u, << >>)
           /\ ~IsServiceBlock(b) /\ mainq' = RunFirst(u, << >>) => ServiceMainq' = ServiceMainq
           /\ \A v \in User : ~IsServiceBlock(b) /\ mainq' = RunFirst(u, <<Reload(v)>>) =>
                ServiceMainq' = ServiceMainq
<1> DEFINE B == ScreenBlocksOf(u)
           m == mainq[u]
           s == ServicePart(m)
<1>1. DOMAIN mainq = User /\ m \in Seq(B)
  BY ScreenDevice
<1>2. ServiceMainq[u] = s /\ DOMAIN ServiceMainq = User
  BY DEF ServiceMainq
<1>3. \A v \in User : Reload(v) \in B /\ ~IsServiceBlock(Reload(v))
  <2>1. \A v \in User : Reload(v) \in B /\ Reload(v).type = "reload"
    BY ScreenBlockTypes
  <2> QED
    BY <2>1 DEF IsServiceBlock
<1> HIDE DEF B
<1>4. /\ IsServiceBlock(b) => s # << >> /\ Head(s) = b /\ ServicePart(Tail(m)) = Tail(s)
      /\ ~IsServiceBlock(b) => ServicePart(Tail(m)) = s
  BY <1>1, ServicePartTail
<1>5. Tail(m) \in Seq(B) /\ s \in Seq(B)
  BY <1>1, ElemsTail, ServicePartIs
<1>6. s # << >> => Tail(s) \in Seq(B)
  BY <1>5, ElemsTail
<1>7. Tail(m) \o << >> = Tail(m) /\ (s # << >> => Tail(s) \o << >> = Tail(s))
  BY <1>5, <1>6, ConcatEmptySeq
<1>8. \A x \in User \ {u} : \A bs : mainq' = RunFirst(u, bs) => mainq'[x] = mainq[x]
  BY <1>1 DEF RunFirst
<1>9. \A bs : mainq' = RunFirst(u, bs) => mainq'[u] = Tail(m) \o bs
  BY <1>1 DEF RunFirst
<1>10. ASSUME mainq' = RunFirst(u, << >>)
       PROVE  /\ ServicePart(mainq'[u]) = ServicePart(Tail(m))
              /\ \A x \in User \ {u} : ServicePart(mainq'[x]) = ServicePart(mainq[x])
  BY <1>7, <1>8, <1>9, <1>10
<1>11. ASSUME NEW v \in User, mainq' = RunFirst(u, <<Reload(v)>>)
       PROVE  /\ ServicePart(mainq'[u]) = ServicePart(Tail(m))
              /\ \A x \in User \ {u} : ServicePart(mainq'[x]) = ServicePart(mainq[x])
  <2> DEFINE l == Reload(v)
  <2>1. l \in B /\ ~IsServiceBlock(l) /\ mainq' = RunFirst(u, <<l>>)
    BY <1>3, <1>11
  <2> HIDE DEF l
  <2>2. Tail(m) \o <<l>> = Append(Tail(m), l)
    BY <1>5, <2>1, AppendIsConcat
  <2>3. ServicePart(Append(Tail(m), l)) = ServicePart(Tail(m))
    BY <1>5, <2>1, ServicePartAppend
  <2> QED
    BY <1>8, <1>9, <2>1, <2>2, <2>3
<1> HIDE DEF s, m
<1>12. ASSUME IsServiceBlock(b), mainq' = RunFirst(u, << >>)
       PROVE  ServiceMainq' = Services!RunFirst(u, << >>)
  <2>1. ServicePart(mainq'[u]) = Tail(s) \o << >>
    BY <1>4, <1>7, <1>10, <1>12
  <2>2. \A x \in User : ServicePart(mainq'[x]) =
            IF x = u THEN Tail(s) \o << >> ELSE ServicePart(mainq[x])
    BY <1>10, <1>12, <2>1
  <2>3. ServiceMainq' = [x \in User |-> IF x = u THEN Tail(s) \o << >> ELSE ServicePart(mainq[x])]
    BY <2>2 DEF ServiceMainq
  <2>4. Services!RunFirst(u, << >>) =
            [x \in User |-> IF x = u THEN Tail(s) \o << >> ELSE ServicePart(mainq[x])]
    BY DEF Services!RunFirst, ServiceMainq, s, m
  <2> QED
    BY <2>3, <2>4
<1>13. ASSUME ServicePart(mainq'[u]) = s,
              \A x \in User \ {u} : ServicePart(mainq'[x]) = ServicePart(mainq[x])
       PROVE  ServiceMainq' = ServiceMainq
  <2>1. \A x \in User : ServicePart(mainq'[x]) = ServicePart(mainq[x])
    BY <1>13 DEF s, m
  <2> QED
    BY <2>1 DEF ServiceMainq
<1> QED
  BY <1>2, <1>4, <1>10, <1>11, <1>12, <1>13

\* Reads are asked for on u's device; the services see those in rs.
LEMMA SeesAsked ==
    ASSUME ScreenTypeOK, NEW u \in User, NEW all, NEW rs, all \intersect Reads = rs \intersect Reads,
           asked' = Ask(u, all)
    PROVE  ServiceAsked' = Services!Ask(u, rs)
<1>1. asked \in [User -> [Reads \union ScreenReads -> Nat]]
  BY DEF ScreenTypeOK
<1>2. \A x \in User : \A r \in Reads :
         asked'[x][r] = IF x = u /\ r \in rs THEN asked[x][r] + 1 ELSE asked[x][r]
  BY <1>1 DEF Ask
<1>3. ServiceAsked' = [x \in User |-> [r \in Reads |->
         IF x = u /\ r \in rs THEN asked[x][r] + 1 ELSE asked[x][r]]]
  BY <1>2 DEF ServiceAsked
<1>4. /\ DOMAIN ServiceAsked = User
      /\ \A x \in User : DOMAIN ServiceAsked[x] = Reads
      /\ \A x \in User : \A r \in Reads : ServiceAsked[x][r] = asked[x][r]
  BY DEF ServiceAsked
<1>5. Services!Ask(u, rs) =
         [ServiceAsked EXCEPT ![u] = [r \in Reads |-> IF r \in rs THEN asked[u][r] + 1 ELSE asked[u][r]]]
  BY <1>4 DEF Services!Ask
<1>6. Services!Ask(u, rs) = [x \in User |-> [r \in Reads |->
         IF x = u /\ r \in rs THEN asked[x][r] + 1 ELSE asked[x][r]]]
  BY <1>5 DEF ServiceAsked
<1> QED
  BY <1>3, <1>6

\* A read of u's device ends.
LEMMA SeesEnded ==
    ASSUME ScreenTypeOK, NEW u \in User, NEW r \in Reads \union ScreenReads, asked[u][r] > 0,
           asked' = [asked EXCEPT ![u][r] = @ - 1]
    PROVE  /\ r \in Reads => /\ ServiceAsked[u][r] > 0
                             /\ ServiceAsked' = [ServiceAsked EXCEPT ![u][r] = @ - 1]
           /\ r \in ScreenReads => ServiceAsked' = ServiceAsked
<1>1. asked \in [User -> [Reads \union ScreenReads -> Nat]]
  BY DEF ScreenTypeOK
<1>2. \A x \in User : \A q \in Reads :
         asked'[x][q] = IF x = u /\ q = r THEN asked[x][q] - 1 ELSE asked[x][q]
  BY <1>1
<1>3. ServiceAsked' = [x \in User |-> [q \in Reads |->
         IF x = u /\ q = r THEN asked[x][q] - 1 ELSE asked[x][q]]]
  BY <1>2 DEF ServiceAsked
<1>4. r \in Reads => [ServiceAsked EXCEPT ![u][r] = @ - 1] = [x \in User |-> [q \in Reads |->
         IF x = u /\ q = r THEN asked[x][q] - 1 ELSE asked[x][q]]]
  BY DEF ServiceAsked
<1>5. r \in ScreenReads => r \notin Reads
  BY ScreenReadFacts
<1> QED
  BY <1>3, <1>4, <1>5, SMTT(30) DEF ServiceAsked

\* A step of the services, or one they do not see.
Seen == Services!Next \/ UNCHANGED Services!vars

\* What makes a step one the services do not see.
LEMMA NotSeen ==
    ASSUME UNCHANGED <<queue, ServiceAsked, ServiceMainq, graphVars>>
    PROVE  Seen
BY DEF Seen, Services!vars, Services!sdkVars, Services!graphVars, graphVars

\* Showing a screen.
LEMMA SeenAppear ==
    ASSUME ScreenTypeOK, NEW u \in User, NEW v \in User, ViewWillAppear(u, v)
    PROVE  Seen
<1> DEFINE all == {FetchUserStats(v), FetchUserProfilePosts(v), CheckIfUserIsFollowed(v)}
<1>1. UNCHANGED <<queue, mainq, graphVars>> /\ asked' = Ask(u, all)
  BY DEF ViewWillAppear
<1>2. all \intersect Reads = {}
  BY ScreenReadFacts
<1> HIDE DEF all
<1>3. ServiceAsked' = Services!Ask(u, {})
  BY <1>1, <1>2, SeesAsked
<1>4. Services!Ask(u, {}) = ServiceAsked
  BY DEF Services!Ask, ServiceAsked
<1>5. ServiceMainq' = ServiceMainq
  BY <1>1 DEF ServiceMainq
<1> QED
  BY <1>1, <1>3, <1>4, <1>5, NotSeen

\* The button calls follow or unfollow.
LEMMA SeenClick ==
    ASSUME ScreenTypeOK, NEW u \in User, NEW v \in User, EditProfileButtonClicked(u, v)
    PROVE  Seen
<1> DEFINE op == OpFor(~header[u][v])
<1>1. op \in {"set", "delete"} /\ "profile" \in Screen
  BY ViewAssumption DEF OpFor
<1>2. CallFollow(u, v, op, "profile")
  BY DEF EditProfileButtonClicked
<1> HIDE DEF op
<1>3. UNCHANGED <<asked, mainq>>
  BY <1>2 DEF CallFollow
<1>4. UNCHANGED <<ServiceAsked, ServiceMainq>>
  BY <1>3 DEF ServiceAsked, ServiceMainq
<1>5. Services!CallFollow(u, v, op, "profile")
  BY <1>2, <1>4, SameForServices DEF CallFollow, Services!CallFollow
<1>6. Services!Touched(u)
  BY <1>1, <1>5 DEF Services!Touched
<1> QED
  BY <1>6 DEF Seen, Services!Next

\* A write is decided.
LEMMA SeesDecided ==
    ASSUME ScreenTypeOK, NEW u \in User, queue[u] # << >>, NEW ok \in BOOLEAN,
           NEW w, w = Head(queue[u]), NotifyUser(u, w, ok)
    PROVE  Services!NotifyUser(u, w, ok)
<1>1. /\ queue' = [queue EXCEPT ![u] = Tail(@)]
      /\ mainq' = IF w.then = NoOne THEN mainq ELSE [mainq EXCEPT ![u] = Append(@, Acked(w, ok))]
      /\ asked' = asked
  BY DEF NotifyUser
<1>2. ServiceAsked' = ServiceAsked
  BY <1>1 DEF ServiceAsked
<1>3. w \in ScreenWritesOf(u)
  <2>1. queue[u] \in Seq(ScreenWritesOf(u))
    BY ScreenDevice
  <2> QED
    BY <2>1, ElemsTail
<1>4. CASE w.then = NoOne
  <2>1. ServiceMainq' = ServiceMainq
    BY <1>1, <1>4 DEF ServiceMainq
  <2> QED
    BY <1>1, <1>2, <1>4, <2>1, SameForServices DEF Services!NotifyUser
<1>5. CASE w.then # NoOne
  <2> DEFINE b == Acked(w, ok)
  <2>1. b \in ScreenBlocksOf(u) /\ IsServiceBlock(b)
    BY <1>3, <1>5, ScreenBlockTypes DEF IsServiceBlock
  <2>2. mainq' = [mainq EXCEPT ![u] = Append(@, b)]
    BY <1>1, <1>5
  <2>3. Services!Acked(w, ok) = b
    BY SameForServices
  <2> HIDE DEF b
  <2>4. ServiceMainq' = [ServiceMainq EXCEPT ![u] = Append(@, b)]
    BY <2>1, <2>2, SeesPosted
  <2> QED
    BY <1>1, <1>2, <1>5, <2>3, <2>4, SameForServices DEF Services!NotifyUser
<1> QED
  BY <1>4, <1>5

\* The backend decides: it stores a write or refuses it.
LEMMA SeenDecided ==
    ASSUME ScreenTypeOK, NEW u \in User, CommitForScreen(u) \/ RejectOnScreen(u)
    PROVE  Seen
<1>1. CASE CommitForScreen(u)
  <2>1. Commit(u)
    BY <1>1 DEF CommitForScreen
  <2> SUFFICES ASSUME NEW w, w = Head(queue[u]) PROVE Seen
    OBVIOUS
  <2>2. /\ queue[u] # << >> /\ NotifyUser(u, w, TRUE) /\ docs' = Apply(w)
        /\ torn' = IF w.coll # "following" THEN torn
                   ELSE IF w.then # NoOne THEN torn \ {w.key} ELSE torn \union {w.key}
        /\ UNCHANGED <<drawn, taps, faults, refused>>
    BY <2>1 DEF Commit
  <2>3. Services!NotifyUser(u, w, TRUE)
    BY <2>2, SeesDecided
  <2>4. Services!Commit(u)
    BY <2>2, <2>3, SameForServices DEF Services!Commit
  <2> QED
    BY <2>4 DEF Seen, Services!Next, Services!Progress
<1>2. CASE RejectOnScreen(u)
  <2>1. Reject(u)
    BY <1>2 DEF RejectOnScreen
  <2> SUFFICES ASSUME NEW w, w = Head(queue[u]) PROVE Seen
    OBVIOUS
  <2>2. /\ queue[u] # << >> /\ NotifyUser(u, w, FALSE) /\ Fault
        /\ torn' = IF w.coll \in {"following", "followers"} THEN torn \union {w.key} ELSE torn
        /\ refused' = IF w.coll = "posts" THEN refused \union {w.key} ELSE refused
        /\ UNCHANGED <<docs, drawn, taps>>
    BY <2>1 DEF Reject
  <2>3. Services!NotifyUser(u, w, FALSE)
    BY <2>2, SeesDecided
  <2>4. Services!Reject(u)
    BY <2>2, <2>3 DEF Services!Reject, Services!Fault, Fault
  <2> QED
    BY <2>4 DEF Seen, Services!Next, Services!Failing
<1> QED
  BY <1>1, <1>2

\* A read of the services, or of the screen, is answered or fails.
LEMMA SeenEnded ==
    ASSUME ScreenTypeOK, NEW u \in User, NEW r \in Reads \union ScreenReads,
           AnswerScreen(u, r) \/ FailOnScreen(u, r)
    PROVE  Seen
<1>1. r \in ScreenReads <=> r \notin Reads
  BY ScreenReadFacts
<1>2. CASE AnswerScreen(u, r) /\ r \in ScreenReads
  <2> DEFINE b == Answered(r, FoundOnScreen(u, r))
  <2>1. /\ asked[u][r] > 0 /\ asked' = [asked EXCEPT ![u][r] = @ - 1]
        /\ mainq' = [mainq EXCEPT ![u] = Append(@, b)] /\ UNCHANGED <<queue, graphVars>>
    BY <1>2 DEF AnswerScreen, Respond
  <2>2. b \in ScreenBlocksOf(u) /\ ~IsServiceBlock(b)
    <3>1. FoundOnScreen(u, r) \in SUBSET User
      BY <1>2, ScreenReadFacts DEF FoundOnScreen
    <3>2. b \in ScreenBlocksOf(u) /\ b.type = "answer" /\ b.r = r
      BY <1>2, <3>1, ScreenBlockTypes
    <3> QED
      BY <1>1, <1>2, <3>2 DEF IsServiceBlock
  <2> HIDE DEF b
  <2>3. ServiceMainq' = ServiceMainq
    BY <2>1, <2>2, SeesPosted
  <2>4. ServiceAsked' = ServiceAsked
    BY <1>2, <2>1, SeesEnded
  <2> QED
    BY <2>1, <2>3, <2>4, NotSeen
<1>3. CASE AnswerScreen(u, r) /\ r \notin ScreenReads
  <2> DEFINE b == Answered(r, Found(r))
  <2>1. /\ asked[u][r] > 0 /\ asked' = [asked EXCEPT ![u][r] = @ - 1]
        /\ mainq' = [mainq EXCEPT ![u] = Append(@, b)] /\ UNCHANGED <<queue, graphVars>>
    BY <1>3 DEF AnswerScreen, Answer, Respond
  <2>2. b \in ScreenBlocksOf(u) /\ IsServiceBlock(b)
    <3>1. /\ r \in FeedReads => Found(r) \in SUBSET Post
          /\ r \in ShareReads => Found(r) \in SUBSET User /\ Owner[r.of] = u
      BY <2>1 DEF Found, FeedReads, ShareReads, ScreenTypeOK, Coll, Key
    <3>2. b \in ScreenBlocksOf(u) /\ b.type = "answer" /\ b.r = r
      BY <1>1, <1>3, <3>1, ScreenBlockTypes DEF Reads
    <3> QED
      BY <1>1, <1>3, <3>2 DEF IsServiceBlock
  <2>3. Services!Answered(r, Services!Found(r)) = b
    BY SameForServices
  <2> HIDE DEF b
  <2>4. ServiceMainq' = [ServiceMainq EXCEPT ![u] = Append(@, b)]
    BY <2>1, <2>2, SeesPosted
  <2>5. ServiceAsked[u][r] > 0 /\ ServiceAsked' = [ServiceAsked EXCEPT ![u][r] = @ - 1]
    BY <1>1, <1>3, <2>1, SeesEnded
  <2>6. Services!Respond(u, r, Services!Found(r))
    BY <2>1, <2>3, <2>4, <2>5 DEF Services!Respond
  <2>7. UNCHANGED Services!graphVars
    BY <2>1 DEF graphVars, Services!graphVars
  <2>8. Services!Answer(u, r)
    BY <2>6, <2>7 DEF Services!Answer
  <2> QED
    BY <1>1, <1>3, <2>8, SameForServices DEF Seen, Services!Next, Services!Progress
<1>4. CASE FailOnScreen(u, r) /\ r \in ScreenReads
  <2>1. /\ asked[u][r] > 0 /\ asked' = [asked EXCEPT ![u][r] = @ - 1]
        /\ UNCHANGED <<queue, mainq, graphVars>>
    BY <1>1, <1>4 DEF FailOnScreen, ReadFails
  <2>2. ServiceMainq' = ServiceMainq
    BY <2>1 DEF ServiceMainq
  <2>3. ServiceAsked' = ServiceAsked
    BY <1>4, <2>1, SeesEnded
  <2> QED
    BY <2>1, <2>2, <2>3, NotSeen
<1>5. CASE FailOnScreen(u, r) /\ r \in Reads
  <2>1. FailToAnswer(u, r)
    BY <1>1, <1>5 DEF FailOnScreen
  <2>2. /\ asked[u][r] > 0 /\ asked' = [asked EXCEPT ![u][r] = @ - 1] /\ Fault
        /\ UNCHANGED <<queue, mainq, docs, drawn, taps, torn, refused>>
    BY <2>1 DEF FailToAnswer, ReadFails
  <2>3. ServiceMainq' = ServiceMainq
    BY <2>2 DEF ServiceMainq
  <2>4. ServiceAsked[u][r] > 0 /\ ServiceAsked' = [ServiceAsked EXCEPT ![u][r] = @ - 1]
    BY <1>5, <2>2, SeesEnded
  <2>5. Services!FailToAnswer(u, r)
    BY <2>2, <2>3, <2>4 DEF Services!FailToAnswer, Services!ReadFails, Services!Fault, Fault
  <2> QED
    BY <1>5, <2>5, SameForServices DEF Seen, Services!Next, Services!Failing
<1> QED
  BY <1>1, <1>2, <1>3, <1>4, <1>5

\* The process of u's device dies: the services lose what the device loses.
LEMMA SeenKill ==
    ASSUME ScreenTypeOK, NEW u \in User, KillScreens(u)
    PROVE  Seen
<1>1. Kill(u)
  BY DEF KillScreens
<1>2. /\ Fault /\ queue' = [queue EXCEPT ![u] = Forgotten(@)]
      /\ asked' = [asked EXCEPT ![u] = [r \in DOMAIN @ |-> 0]]
      /\ mainq' = [mainq EXCEPT ![u] = << >>]
      /\ torn' = torn \union {e \in Pair : FollowAcks(u, e) # {}}
      /\ UNCHANGED <<docs, drawn, taps, refused>>
  BY <1>1 DEF Kill, Terminate
<1>3. ServiceAsked' = [ServiceAsked EXCEPT ![u] = [r \in DOMAIN @ |-> 0]]
  <2>1. asked \in [User -> [Reads \union ScreenReads -> Nat]]
    BY DEF ScreenTypeOK
  <2>2. \A x \in User : \A r \in Reads : asked'[x][r] = IF x = u THEN 0 ELSE asked[x][r]
    BY <1>2, <2>1
  <2>3. ServiceAsked' = [x \in User |-> [r \in Reads |-> IF x = u THEN 0 ELSE asked[x][r]]]
    BY <2>2 DEF ServiceAsked
  <2>4. DOMAIN ServiceAsked[u] = Reads
    BY DEF ServiceAsked
  <2>5. [ServiceAsked EXCEPT ![u] = [r \in Reads |-> 0]]
           = [x \in User |-> [r \in Reads |-> IF x = u THEN 0 ELSE asked[x][r]]]
    BY DEF ServiceAsked
  <2> QED
    BY <2>3, <2>4, <2>5
<1>4. ServiceMainq' = [ServiceMainq EXCEPT ![u] = << >>]
  <2>1. DOMAIN mainq = User
    BY DEF ScreenTypeOK
  <2>2. mainq'[u] = << >> /\ \A x \in User \ {u} : mainq'[x] = mainq[x]
    BY <1>2, <2>1
  <2>3. ServicePart(mainq'[u]) = << >>
    BY <2>2, ServicePartElems
  <2>4. \A x \in User : ServicePart(mainq'[x]) = IF x = u THEN << >> ELSE ServicePart(mainq[x])
    BY <2>2, <2>3
  <2> QED
    BY <2>4 DEF ServiceMainq
<1>5. ASSUME NEW e \in Pair PROVE FollowAcks(u, e) # {} <=> Services!FollowAcks(u, e) # {}
  <2> DEFINE Ack(b) == b.type = "ack" /\ b.w.coll = "following" /\ b.w.key = e
             m == mainq[u]
             s == ServicePart(m)
  <2>1. ServiceMainq[u] = s
    BY DEF ServiceMainq
  <2>2. FollowAcks(u, e) # {} <=> \E b \in Elems(m) : Ack(b)
    BY DEF FollowAcks, Elems
  <2>3. Services!FollowAcks(u, e) = {i \in DOMAIN s : Ack(s[i])}
    BY <2>1 DEF Services!FollowAcks
  <2>4. Services!FollowAcks(u, e) # {} <=> \E b \in Elems(s) : Ack(b)
    BY <2>3 DEF Elems
  <2>5. \A b : Ack(b) => IsServiceBlock(b)
    BY DEF IsServiceBlock
  <2>6. m \in Seq(ScreenBlocksOf(u))
    BY ScreenDevice
  <2>7. /\ \A b \in Elems(s) : b \in Elems(m)
        /\ \A b \in Elems(m) : IsServiceBlock(b) => b \in Elems(s)
    BY <2>6, ServicePartElems
  <2> HIDE DEF m, s
  <2> QED
    BY <2>2, <2>4, <2>5, <2>7
<1>6. torn' = torn \union {e \in Pair : Services!FollowAcks(u, e) # {}}
  BY <1>2, <1>5
<1>7. Services!Terminate(u)
  BY <1>2, <1>3, <1>4, SameForServices DEF Services!Terminate
<1>8. Services!Kill(u)
  BY <1>2, <1>6, <1>7, SameForServices DEF Services!Kill, Services!Fault, Fault
<1> QED
  BY <1>8 DEF Seen, Services!Next, Services!Failing

\* The services run a block of theirs when the screen's device does.
LEMMA SeesRunning ==
    ASSUME ScreenTypeOK, NEW u \in User, NEW b, b = Head(mainq[u]), RunningAlone(u, b),
           IsServiceBlock(b)
    PROVE  Services!RunningAlone(u, b) /\ b = Head(ServiceMainq[u])
<1>1. mainq[u] # << >> /\ mainq' = RunFirst(u, << >>) /\ UNCHANGED graphVars
  BY DEF RunningAlone, Running
<1>2. /\ ServiceMainq[u] # << >> /\ Head(ServiceMainq[u]) = b
      /\ ServiceMainq' = Services!RunFirst(u, << >>)
  BY <1>1, SeesRun
<1>3. UNCHANGED Services!graphVars
  BY <1>1 DEF graphVars, Services!graphVars
<1> QED
  BY <1>2, <1>3 DEF Services!RunningAlone, Services!Running

\* A block whose effect is the same whichever screen is shown.
LEMMA SeenServiceBlock ==
    ASSUME ScreenTypeOK, NEW u \in User, NEW b, b = Head(mainq[u]), ServiceBlock(u, b)
    PROVE  Seen
<1>1. RunningAlone(u, b) /\ mainq[u] # << >>
  BY DEF ServiceBlock, FollowAcked, CellCompletion, UploadCompletion, FeedAfterFollowing,
         ImageUploaded, FeedAfterPost, RunningAlone, Running
<1>2. b \in ScreenBlocksOf(u)
  <2>1. mainq[u] \in Seq(ScreenBlocksOf(u))
    BY ScreenDevice
  <2> QED
    BY <1>1, <2>1, ElemsTail
<1>3. IsServiceBlock(b)
  <2>1. \/ b.type = "ack"
        \/ b.type = "answer" /\ b.r.kind \in {"addPosts", "dropPosts", "image", "followers"}
    BY DEF ServiceBlock, FollowAcked, CellCompletion, UploadCompletion, FeedAfterFollowing,
           ImageUploaded, FeedAfterPost
  <2>2. b.type = "answer" => b.r \in Reads \/ b.r \in ScreenReads
    BY <1>2, ScreenBlockFields DEF Reads
  <2> QED
    BY <2>1, <2>2, ScreenReadFacts DEF IsServiceBlock
<1>4. Services!RunningAlone(u, b) /\ b = Head(ServiceMainq[u])
  BY <1>1, <1>3, SeesRunning
<1>5. UNCHANGED asked => UNCHANGED ServiceAsked
  BY DEF ServiceAsked
<1>6. CASE FollowAcked(u, b)
  <2>1. Services!FollowAcked(u, b)
    BY <1>4, <1>5, <1>6, SameForServices DEF FollowAcked, Services!FollowAcked
  <2> QED
    BY <1>4, <2>1 DEF Seen, Services!Next, Services!Progress, Services!RunBlock, Services!ServiceBlock
<1>7. CASE CellCompletion(u, b)
  <2>1. Services!CellCompletion(u, b)
    BY <1>4, <1>5, <1>7 DEF CellCompletion, Services!CellCompletion
  <2> QED
    BY <1>4, <2>1 DEF Seen, Services!Next, Services!Progress, Services!RunBlock, Services!ServiceBlock
<1>8. CASE UploadCompletion(u, b)
  <2>1. Services!UploadCompletion(u, b)
    BY <1>4, <1>5, <1>8 DEF UploadCompletion, Services!UploadCompletion
  <2> QED
    BY <1>4, <2>1 DEF Seen, Services!Next, Services!Progress, Services!RunBlock, Services!ServiceBlock
<1>9. CASE FeedAfterFollowing(u, b)
  <2> DEFINE op == OpFor(b.r.kind = "addPosts")
  <2>1. PICK ps \in Orderings(b.docs) :
            queue' = WriteMutations(u, [i \in DOMAIN ps |-> FeedWrite(u, ps[i], op)])
    BY <1>9 DEF FeedAfterFollowing
  <2>2. /\ ps \in Services!Orderings(b.docs)
        /\ Services!OpFor(b.r.kind = "addPosts") = op
        /\ \A i : Services!FeedWrite(u, ps[i], op) = FeedWrite(u, ps[i], op)
    BY SameForServices
  <2> HIDE DEF op
  <2>3. [i \in DOMAIN ps |-> Services!FeedWrite(u, ps[i], op)]
           = [i \in DOMAIN ps |-> FeedWrite(u, ps[i], op)]
    BY <2>2
  <2>4. queue' = Services!WriteMutations(u, [i \in DOMAIN ps |-> Services!FeedWrite(u, ps[i], op)])
    BY <2>1, <2>3, SameForServices
  <2>5. \E qs \in Services!Orderings(b.docs) :
            queue' = Services!WriteMutations(u, [i \in DOMAIN qs |->
                Services!FeedWrite(u, qs[i], Services!OpFor(b.r.kind = "addPosts"))])
    BY <2>2, <2>4
  <2>6. Services!FeedAfterFollowing(u, b)
    BY <1>4, <1>5, <1>9, <2>5 DEF FeedAfterFollowing, Services!FeedAfterFollowing
  <2> QED
    BY <1>4, <2>6 DEF Seen, Services!Next, Services!Progress, Services!RunBlock, Services!ServiceBlock
<1>10. CASE ImageUploaded(u, b)
  <2> DEFINE rs == {Read("followers", b.r.of)}
  <2>1. asked' = Ask(u, rs) /\ queue' = WriteMutations(u, <<PostWrite(b.r.of)>>)
    BY <1>10 DEF ImageUploaded
  <2>2. rs = {Services!Read("followers", b.r.of)}
    BY SameForServices
  <2> HIDE DEF rs
  <2>3. ServiceAsked' = Services!Ask(u, rs)
    BY <2>1, SeesAsked
  <2>4. queue' = Services!WriteMutations(u, <<Services!PostWrite(b.r.of)>>)
    BY <2>1, SameForServices
  <2>5. Services!ImageUploaded(u, b)
    BY <1>4, <1>10, <2>2, <2>3, <2>4 DEF ImageUploaded, Services!ImageUploaded
  <2> QED
    BY <1>4, <2>5 DEF Seen, Services!Next, Services!Progress, Services!RunBlock, Services!ServiceBlock
<1>11. CASE FeedAfterPost(u, b)
  <2>1. PICK vs \in Orderings(b.docs) :
            queue' = WriteMutations(u, [i \in DOMAIN vs |-> FeedWrite(vs[i], b.r.of, "set")])
    BY <1>11 DEF FeedAfterPost
  <2>2. /\ vs \in Services!Orderings(b.docs)
        /\ \A i : Services!FeedWrite(vs[i], b.r.of, "set") = FeedWrite(vs[i], b.r.of, "set")
    BY SameForServices
  <2>3. [i \in DOMAIN vs |-> Services!FeedWrite(vs[i], b.r.of, "set")]
           = [i \in DOMAIN vs |-> FeedWrite(vs[i], b.r.of, "set")]
    BY <2>2
  <2>4. queue' = Services!WriteMutations(u, [i \in DOMAIN vs |->
                     Services!FeedWrite(vs[i], b.r.of, "set")])
    BY <2>1, <2>3, SameForServices
  <2>5. Services!FeedAfterPost(u, b)
    BY <1>4, <1>5, <1>11, <2>2, <2>4 DEF FeedAfterPost, Services!FeedAfterPost
  <2> QED
    BY <1>4, <2>5 DEF Seen, Services!Next, Services!Progress, Services!RunBlock, Services!ServiceBlock
<1> QED
  BY <1>6, <1>7, <1>8, <1>9, <1>10, <1>11 DEF ServiceBlock

\* The completion of follow and unfollow: the services do not see the screen's
\* own read.
LEMMA SeenCompletion ==
    ASSUME ScreenTypeOK, NEW u \in User, NEW b, b = Head(mainq[u]), FollowCompletion(u, b)
    PROVE  Seen
<1> DEFINE v == b.w.key[2]
           d == b.w.op = "set"
           all == {FeedRead(v, d)} \union {FetchUserStats(v)}
           rs == {FeedRead(v, d)} \union {}
           ws == IF d THEN <<NotificationWrite(u, v)>> ELSE << >>
<1>1. /\ RunningAlone(u, b) /\ b.type = "ack" /\ b.w.coll = "followers" /\ b.w.then = "profile"
      /\ asked' = Ask(u, all) /\ queue' = WriteMutations(u, ws)
  BY DEF FollowCompletion, ProfileCompletion
<1>2. v \in User
  <2>1. mainq[u] # << >> /\ mainq[u] \in Seq(ScreenBlocksOf(u))
    BY <1>1, ScreenDevice DEF RunningAlone, Running
  <2>2. b \in ScreenBlocksOf(u)
    BY <2>1, ElemsTail
  <2> QED
    BY <1>1, <2>2, ScreenBlockFields, ScreenWriteFields
<1>3. all \intersect Reads = rs \intersect Reads
  BY <1>2, ScreenReadFacts
<1>4. ServiceAsked' = Services!Ask(u, rs)
  <2> HIDE DEF all, rs
  <2> QED
    BY <1>1, <1>3, SeesAsked
<1>5. Services!RunningAlone(u, b) /\ b = Head(ServiceMainq[u])
  BY <1>1, SeesRunning DEF IsServiceBlock
<1>6. rs = {Services!FeedRead(v, d)} \union {}
  BY SameForServices
<1>7. queue' = Services!WriteMutations(u, IF d THEN <<Services!NotificationWrite(u, v)>> ELSE << >>)
  <2>1. Services!NotificationWrite(u, v) = NotificationWrite(u, v)
    BY SameForServices
  <2>2. queue' = Services!WriteMutations(u, ws)
    BY <1>1, SameForServices
  <2> QED
    BY <2>1, <2>2
<1>8. ServiceAsked' = Services!Ask(u, {Services!FeedRead(v, d)} \union {})
  BY <1>4, <1>6
<1>9. Services!ProfileCompletion(u, b, {})
  BY <1>1, <1>5, <1>7, <1>8 DEF Services!ProfileCompletion
<1> QED
  BY <1>5, <1>9 DEF Seen, Services!Next, Services!Progress, Services!RunBlock

\* The main thread runs a block.
LEMMA SeenRun ==
    ASSUME ScreenTypeOK, NEW u \in User, RunScreenBlock(u)
    PROVE  Seen
<1> SUFFICES ASSUME NEW b, b = Head(mainq[u]),
                    \/ ServiceBlock(u, b) \/ FollowCompletion(u, b)
                    \/ ScreenAnswered(u, b) \/ ReloadData(u, b)
             PROVE  Seen
  BY DEF RunScreenBlock
<1>1. CASE ScreenAnswered(u, b) \/ ReloadData(u, b)
  <2>1. /\ mainq[u] # << >> /\ UNCHANGED <<queue, asked, graphVars>>
    BY <1>1 DEF ScreenAnswered, ReloadData, RunningAlone, Running
  <2>2. ~IsServiceBlock(b)
    BY <1>1, ScreenReadFacts DEF ScreenAnswered, ReloadData, IsServiceBlock
  <2>3. mainq' = RunFirst(u, << >>) \/ \E v \in User : mainq' = RunFirst(u, <<Reload(v)>>)
    BY <1>1, ScreenReadFacts DEF ScreenAnswered, ReloadData, RunningAlone
  <2>4. ServiceMainq' = ServiceMainq
    BY <2>1, <2>2, <2>3, SeesRun
  <2>5. ServiceAsked' = ServiceAsked
    BY <2>1 DEF ServiceAsked
  <2> QED
    BY <2>1, <2>4, <2>5, NotSeen
<1> QED
  BY <1>1, SeenServiceBlock, SeenCompletion

\* The screens and the services begin together.
LEMMA SeenInit == ScreenInit => Services!Init
<1> SUFFICES ASSUME ScreenInit PROVE Services!Init
  OBVIOUS
<1>1. /\ queue = [u \in User |-> << >>] /\ mainq = [u \in User |-> << >>]
      /\ asked = [u \in User |-> [r \in Reads \union ScreenReads |-> 0]]
  BY DEF ScreenInit, SdkInit
<1>2. ServiceAsked = [u \in User |-> [r \in Reads |-> 0]]
  BY <1>1 DEF ServiceAsked
<1>3. ServiceMainq = [u \in User |-> << >>]
  BY <1>1, ServicePartElems DEF ServiceMainq
<1>4. Services!SdkInit(Services!Reads)
  BY <1>1, <1>2, <1>3, SameForServices DEF Services!SdkInit
<1>5. Services!GraphInit
  BY DEF ScreenInit, GraphInit, Services!GraphInit, Coll, Services!Coll
<1> QED
  BY <1>4, <1>5 DEF Services!Init

\* The profile screen only uses the services: with its reads and blocks left
\* out, each of its behaviours is one that SocialGraph describes, so that what
\* is proved of the services holds under the screen.
THEOREM ScreenImplementsServices == ScreenSpec => ImplementsServices
<1>1. ScreenTypeOK /\ [ScreenNext]_allVars => [Services!Next]_(Services!vars)
  <2> SUFFICES ASSUME ScreenTypeOK, [ScreenNext]_allVars PROVE [Services!Next]_(Services!vars)
    OBVIOUS
  <2>1. CASE UNCHANGED allVars
    <3>1. UNCHANGED <<queue, asked, mainq, graphVars>>
      BY <2>1 DEF allVars, vars, sdkVars
    <3>2. UNCHANGED <<ServiceAsked, ServiceMainq>>
      BY <3>1 DEF ServiceAsked, ServiceMainq
    <3> QED
      BY <3>1, <3>2, NotSeen DEF Seen
  <2>2. ASSUME NEW u \in User, ScreenTouched(u) \/ ScreenProgress(u) \/ ScreenFailing(u)
        PROVE  Seen
    <3>1. CASE ScreenTouched(u)
      BY <3>1, SeenAppear, SeenClick DEF ScreenTouched
    <3>2. CASE ScreenProgress(u)
      BY <3>2, SeenDecided, SeenEnded, SeenRun DEF ScreenProgress
    <3>3. CASE ScreenFailing(u)
      BY <3>3, SeenDecided, SeenEnded, SeenKill DEF ScreenFailing
    <3> QED
      BY <2>2, <3>1, <3>2, <3>3
  <2> QED
    BY <2>1, <2>2 DEF ScreenNext, Seen
<1> QED
  BY <1>1, SeenInit, ScreenTypeCorrect, PTL DEF ScreenSpec, ImplementsServices, Services!Spec
=============================================================================
