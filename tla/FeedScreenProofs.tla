--------------------------- MODULE FeedScreenProofs ---------------------------
(***************************************************************************)
(* Theorems about FeedScreen, for any posts, cells and bounds.             *)
(*                                                                         *)
(* The screen is right when everything has arrived, so the inductive       *)
(* invariant says what is still to arrive: a post that is missing from the *)
(* list of its call, the check of every heart that may be wrong, and the   *)
(* reload of every row that is out of date.                                *)
(***************************************************************************)
EXTENDS FeedScreen, FirestoreProofs

-----------------------------------------------------------------------------
Writes ==
    [coll : {"postLikes", "userLikes"}, op : {"set", "delete"}, key : Post, cell : Cell,
     then : {"completion"}]

Blocks ==
    [type : {"reload"}] \union [type : {"ack"}, w : Writes, ok : BOOLEAN]
        \union [type : {"answer"}, r : Reads, docs : SUBSET Post]

\* The device and the bounds have their types; a single post is not fetched.
DeviceOK ==
    /\ DOMAIN queue = User /\ queue[Viewer] \in Seq(Writes)
    /\ DOMAIN mainq = User /\ mainq[Viewer] \in Seq(Blocks)
    /\ events \in Nat /\ events <= MaxEvents /\ faults \in Nat
    /\ Len(fetches) <= events + 1
    /\ single => fetches = << >>

\* The blocks of the screen's main queue, and its writes that are not decided.
Waiting == Elems(mainq[Viewer])
Queued  == Elems(queue[Viewer])

\* Block b is the answer to read r.
Answers(b, r) == b.type = "answer" /\ b.r = r

\* Read r is asked, and its completion has not run.
UnderWay(r) == asked[Viewer][r] > 0 \/ \E b \in Waiting : Answers(b, r)

\* The feed is asked for once by each call.
FeedOnce ==
    /\ \A r \in FeedReads : asked[Viewer][r] <= 1
    /\ \A r \in FeedReads : asked[Viewer][r] > 0 => \A b \in Waiting : ~Answers(b, r)
    /\ \A i, j \in DOMAIN mainq[Viewer] : \A r \in FeedReads :
           Answers(mainq[Viewer][i], r) /\ Answers(mainq[Viewer][j], r) => i = j

\* A call that waits for the feed has nothing yet; the posts it asks for are of
\* its feed, and so are the ones it has got, which exist; the others that exist are
\* under way, unless a read has failed.
Fetching ==
    /\ \A k \in Fetch : UnderWay(FeedRead(k)) =>
           k \in DOMAIN fetches /\ fetches[k].docs = {} /\ fetches[k].got = {}
    /\ \A k \in Fetch, p \in Post : UnderWay(PostRead(k, p)) =>
           k \in DOMAIN fetches /\ p \in fetches[k].docs
    /\ \A k \in DOMAIN fetches :
           /\ fetches[k].got \subseteq fetches[k].docs \ absent
           /\ faults = 0 => \A p \in fetches[k].docs \ fetches[k].got :
                                p \in absent \/ UnderWay(PostRead(k, p))

\* The answer to the read of a post holds it if it exists.
PostAnswers ==
    \A b \in Waiting : \A k \in Fetch, p \in Post :
        Answers(b, PostRead(k, p)) => b.docs = {p} \ absent

\* As long as there was no refresh, the list has at least the rows that were counted.
Counted == Len(fetches) <= 1 => rows <= Cardinality(DOMAIN posts)

\* The list on the screen is the one of some call.
OneList == ~single => \E k \in DOMAIN fetches : DOMAIN posts = fetches[k].got

\* Unless it was tapped, a post is checked rightly, and its heart is right or
\* will be checked.
Hearts ==
    /\ \A b \in Waiting : \A p \in Post \ tapped :
           Answers(b, CheckRead(p)) => (b.docs # {} <=> p \in userLikes)
    /\ faults = 0 => \A p \in DOMAIN posts \ tapped :
           (posts[p] <=> p \in userLikes) \/ UnderWay(CheckRead(p))

\* A like of post p, tapped in cell c, is queued or its completion waits.
Flying(c, p) ==
    \/ \E w \in Queued : w.cell = c /\ w.key = p
    \/ \E b \in Waiting : b.type = "ack" /\ b.w.cell = c /\ b.w.key = p

\* A like in flight is of a tapped post, and of the post its cell still shows
\* unless the cell was reused.
Flights ==
    \A c \in Cell, p \in Post : Flying(c, p) =>
        p \in tapped /\ (c \in DOMAIN cells \ reused => cells[c].post = p)

FeedScreenInv ==
    /\ TypeOK /\ DeviceOK /\ FeedOnce /\ Fetching /\ OneList /\ Hearts /\ Flights
    /\ ScreenFollowsList /\ CountsOwnPost /\ PostAnswers /\ Counted /\ TrapsNeedRefresh

-----------------------------------------------------------------------------
(***************************************************************************)
(* Reads, writes and blocks.                                               *)
(***************************************************************************)

\* The three kinds of reads are apart, and say what they read.
LEMMA ReadFacts ==
    /\ \A k \in Fetch : FeedRead(k) \in FeedReads /\ FeedRead(k) \in Reads /\ FeedRead(k)[2] = k
    /\ \A k \in Fetch, p \in Post :
           /\ PostRead(k, p) \in PostReads /\ PostRead(k, p) \in Reads
           /\ PostRead(k, p)[2] = k /\ PostRead(k, p)[3] = p
    /\ \A p \in Post : CheckRead(p) \in CheckReads /\ CheckRead(p) \in Reads /\ CheckRead(p)[2] = p
    /\ \A r \in FeedReads : r[2] \in Fetch /\ r = FeedRead(r[2])
    /\ \A r \in PostReads : r[2] \in Fetch /\ r[3] \in Post /\ r = PostRead(r[2], r[3])
    /\ \A r \in CheckReads : r[2] \in Post /\ r = CheckRead(r[2])
    /\ \A r \in Reads : r \in FeedReads \/ r \in PostReads \/ r \in CheckReads
    /\ \A r \in FeedReads : r \notin PostReads /\ r \notin CheckReads
    /\ \A r \in PostReads : r \notin CheckReads
<1>1. \A k \in Fetch : FeedRead(k) \in FeedReads /\ FeedRead(k)[2] = k
  BY DEF FeedReads, FeedRead
<1>2. \A k \in Fetch, p \in Post :
          PostRead(k, p) \in PostReads /\ PostRead(k, p)[2] = k /\ PostRead(k, p)[3] = p
  BY DEF PostReads, PostRead
<1>3. \A p \in Post : CheckRead(p) \in CheckReads /\ CheckRead(p)[2] = p
  BY DEF CheckReads, CheckRead
<1>4. \A r \in FeedReads : r[2] \in Fetch /\ r = FeedRead(r[2]) /\ r[1] = "feed"
  BY DEF FeedReads, FeedRead
<1>5. \A r \in PostReads : r[2] \in Fetch /\ r[3] \in Post /\ r = PostRead(r[2], r[3]) /\ r[1] = "post"
  BY DEF PostReads, PostRead
<1>6. \A r \in CheckReads : r[2] \in Post /\ r = CheckRead(r[2]) /\ r[1] = "check"
  BY DEF CheckReads, CheckRead
<1> QED
  BY <1>1, <1>2, <1>3, <1>4, <1>5, <1>6 DEF Reads

\* What is asked after more reads, and after one was answered or has failed.
LEMMA AskedFacts ==
    ASSUME asked \in [User -> [Reads -> Nat]]
    PROVE  /\ \A rs : /\ Ask(Viewer, rs) \in [User -> [Reads -> Nat]]
                      /\ \A r \in Reads : Ask(Viewer, rs)[Viewer][r]
                             = IF r \in rs THEN asked[Viewer][r] + 1 ELSE asked[Viewer][r]
           /\ \A s \in Reads : asked[Viewer][s] > 0 =>
                 /\ [asked EXCEPT ![Viewer][s] = @ - 1] \in [User -> [Reads -> Nat]]
                 /\ \A r \in Reads : [asked EXCEPT ![Viewer][s] = @ - 1][Viewer][r]
                        = IF r = s THEN asked[Viewer][r] - 1 ELSE asked[Viewer][r]
BY ViewerAssumption, DeviceAsks

\* The writes and blocks of the actions have their types.
LEMMA BlockFacts ==
    /\ Reload \in Blocks /\ Reload.type = "reload"
    /\ \A w \in Writes, ok \in BOOLEAN :
           /\ Acked(w, ok) \in Blocks /\ Acked(w, ok).type = "ack"
           /\ Acked(w, ok).w = w /\ Acked(w, ok).ok = ok
    /\ \A r \in Reads, ds \in SUBSET Post :
           /\ Answered(r, ds) \in Blocks /\ Answered(r, ds).type = "answer"
           /\ Answered(r, ds).r = r /\ Answered(r, ds).docs = ds
    /\ \A b \in Blocks :
           /\ b.type \in {"reload", "ack", "answer"}
           /\ b.type = "ack" => b.w \in Writes /\ b.ok \in BOOLEAN
           /\ b.type = "answer" => b.r \in Reads /\ b.docs \in SUBSET Post
BY DEF Blocks, Reload, Acked, Answered

\* A running block b, and the blocks bs it posts.
LEMMA RunFacts ==
    ASSUME DeviceOK, NEW b, NEW bs \in {<< >>, <<Reload>>}, Running(b, bs)
    PROVE  /\ mainq[Viewer] # << >> /\ b = Head(mainq[Viewer]) /\ b \in Blocks
           /\ DOMAIN mainq' = User /\ mainq'[Viewer] = Tail(mainq[Viewer]) \o bs
           /\ mainq'[Viewer] \in Seq(Blocks)
           /\ Waiting = {b} \union Elems(Tail(mainq[Viewer]))
           /\ Waiting' = Elems(Tail(mainq[Viewer])) \union Elems(bs)
           /\ Waiting \subseteq Blocks
           /\ UNCHANGED <<feed, userLikes, absent, single, trapped, events, faults>>
<1>1. mainq' = RunFirst(Viewer, bs) /\ mainq[Viewer] # << >> /\ b = Head(mainq[Viewer])
      /\ UNCHANGED <<feed, userLikes, absent, single, trapped, events, faults>>
  BY DEF Running, backendVars, counters
<1>2. DOMAIN mainq = User /\ mainq[Viewer] \in Seq(Blocks) /\ Viewer \in User /\ bs \in Seq(Blocks)
  <2>1. << >> \in Seq(Blocks) /\ <<Reload>> \in Seq(Blocks)
    BY BlockFacts, ElemsFew
  <2> QED
    BY <2>1, ViewerAssumption DEF DeviceOK
<1>3. /\ DOMAIN mainq' = User /\ mainq'[Viewer] = Tail(mainq[Viewer]) \o bs
      /\ mainq'[Viewer] \in Seq(Blocks) /\ b \in Blocks
      /\ Elems(mainq[Viewer]) = {b} \union Elems(Tail(mainq[Viewer]))
      /\ Elems(mainq'[Viewer]) = Elems(Tail(mainq[Viewer])) \union Elems(bs)
  BY <1>1, <1>2, DeviceRuns
<1>4. Elems(mainq[Viewer]) \subseteq Blocks
  BY <1>2, ElemsIn
<1> QED
  BY <1>1, <1>3, <1>4 DEF Waiting

\* The reads under way after a block ran that asked for the reads rs, or none.
LEMMA RunUnderWay ==
    ASSUME DeviceOK, asked \in [User -> [Reads -> Nat]],
           NEW b, NEW bs \in {<< >>, <<Reload>>}, Running(b, bs),
           NEW rs, asked' = Ask(Viewer, rs)
    PROVE  \A r \in Reads :
              /\ r \in rs => UnderWay(r)'
              /\ UnderWay(r) /\ ~Answers(b, r) => UnderWay(r)'
              /\ UnderWay(r)' => UnderWay(r) \/ r \in rs
<1>1. /\ Waiting = {b} \union Elems(Tail(mainq[Viewer]))
      /\ Waiting' = Elems(Tail(mainq[Viewer])) \union Elems(bs)
  BY RunFacts
<1>2. \A c \in Elems(bs) : c.type # "answer"
  <2>1. bs = << >> => Elems(bs) = {}
    BY BlockFacts, ElemsFew
  <2>2. bs = <<Reload>> => Elems(bs) = {Reload}
    BY BlockFacts, ElemsFew
  <2> QED
    BY <2>1, <2>2, BlockFacts
<1>3. \A r \in Reads : asked'[Viewer][r] = IF r \in rs THEN asked[Viewer][r] + 1 ELSE asked[Viewer][r]
  BY AskedFacts
<1>4. \A r \in Reads : asked[Viewer][r] \in Nat
  BY ViewerAssumption
<1>5. \A r \in Reads : (r \in rs => asked'[Viewer][r] > 0)
                    /\ (asked[Viewer][r] > 0 => asked'[Viewer][r] > 0)
                    /\ (asked'[Viewer][r] > 0 => asked[Viewer][r] > 0 \/ r \in rs)
  BY <1>3, <1>4
<1> QED
  BY <1>1, <1>2, <1>5 DEF UnderWay, Answers

\* The likes in flight are those InFlight lists.
LEMMA InFlightIs ==
    \A c, p : <<c, p>> \in InFlight <=> Flying(c, p)
<1> DEFINE Acks2 == {i \in DOMAIN mainq[Viewer] : mainq[Viewer][i].type = "ack"}
           WS    == {queue[Viewer][i] : i \in DOMAIN queue[Viewer]}
                       \union {mainq[Viewer][i].w : i \in Acks2}
<1>1. InFlight = {<<w.cell, w.key>> : w \in WS}
  BY DEF InFlight
<1>2. \A w : w \in WS <=> w \in Queued \/ \E b \in Waiting : b.type = "ack" /\ b.w = w
  BY DEF Queued, Waiting, Elems
<1> HIDE DEF WS
<1>3. \A c, p : <<c, p>> \in InFlight <=> \E w \in WS : w.cell = c /\ w.key = p
  BY <1>1
<1>4. \A c, p : (\E w \in WS : w.cell = c /\ w.key = p) => Flying(c, p)
  BY <1>2 DEF Flying
<1>5. \A c, p : Flying(c, p) => \E w \in WS : w.cell = c /\ w.key = p
  BY <1>2 DEF Flying
<1> QED
  <2> SUFFICES ASSUME NEW c, NEW p PROVE <<c, p>> \in InFlight <=> Flying(c, p)
    OBVIOUS
  <2>1. <<c, p>> \in InFlight <=> \E w \in WS : w.cell = c /\ w.key = p
    BY <1>3
  <2>2. (\E w \in WS : w.cell = c /\ w.key = p) <=> Flying(c, p)
    BY <1>4, <1>5
  <2> QED
    BY <2>1, <2>2

\* A write that is issued.
LEMMA WriteFacts ==
    ASSUME DeviceOK, NEW w \in Writes, queue' = WriteMutations(Viewer, <<w>>)
    PROVE  /\ DOMAIN queue' = User /\ queue'[Viewer] \in Seq(Writes)
           /\ Queued' = Queued \union {w}
BY ViewerAssumption, DeviceIssues DEF DeviceOK, Queued

\* A write that is decided, and its completion.
LEMMA DecidedFacts ==
    ASSUME DeviceOK, queue[Viewer] # << >>, NEW ok \in BOOLEAN,
           NEW w, w = Head(queue[Viewer]), NotifyUser(Viewer, w, ok)
    PROVE  /\ w \in Writes /\ Queued = {w} \union Queued' /\ asked' = asked
           /\ DOMAIN queue' = User /\ queue'[Viewer] \in Seq(Writes)
           /\ DOMAIN mainq' = User /\ mainq'[Viewer] \in Seq(Blocks)
           /\ mainq'[Viewer] = Append(mainq[Viewer], Acked(w, ok))
           /\ Waiting' = Waiting \union {Acked(w, ok)} /\ Waiting \subseteq Blocks
<1>1. /\ DOMAIN queue = User /\ queue[Viewer] \in Seq(Writes)
      /\ DOMAIN mainq = User /\ mainq[Viewer] \in Seq(Blocks)
  BY DEF DeviceOK
<1>2. w \in Writes /\ w.then # NoOne
  <2>1. w \in Writes
    BY <1>1, ElemsTail
  <2> QED
    BY <2>1 DEF Writes, NoOne
<1>3. Acked(w, ok) \in Blocks
  BY <1>2, BlockFacts
<1>4. Elems(mainq[Viewer]) \subseteq Blocks
  BY <1>1, ElemsIn
<1>5. /\ queue' = [queue EXCEPT ![Viewer] = Tail(@)] /\ asked' = asked
      /\ mainq' = [mainq EXCEPT ![Viewer] = Append(@, Acked(w, ok))]
  BY <1>2 DEF NotifyUser
<1>6. /\ DOMAIN queue' = User /\ queue'[Viewer] \in Seq(Writes)
      /\ Elems(queue[Viewer]) = {w} \union Elems(queue'[Viewer])
  BY <1>1, <1>5, ViewerAssumption, DeviceDecides
<1>7. /\ DOMAIN mainq' = User /\ mainq'[Viewer] \in Seq(Blocks)
      /\ mainq'[Viewer] = Append(mainq[Viewer], Acked(w, ok))
      /\ Elems(mainq'[Viewer]) = Elems(mainq[Viewer]) \union {Acked(w, ok)}
  BY <1>1, <1>3, <1>5, ViewerAssumption, DevicePosts
<1> QED
  BY <1>2, <1>4, <1>5, <1>6, <1>7 DEF Queued, Waiting

\* A block that is posted.
LEMMA PostedFacts ==
    ASSUME DeviceOK, NEW b \in Blocks, mainq' = [mainq EXCEPT ![Viewer] = Append(@, b)]
    PROVE  /\ DOMAIN mainq' = User /\ mainq'[Viewer] \in Seq(Blocks)
           /\ mainq'[Viewer] = Append(mainq[Viewer], b)
           /\ Waiting' = Waiting \union {b} /\ Waiting \subseteq Blocks
<1>1. DOMAIN mainq = User /\ mainq[Viewer] \in Seq(Blocks)
  BY DEF DeviceOK
<1>2. Elems(mainq[Viewer]) \subseteq Blocks
  BY <1>1, ElemsIn
<1> QED
  BY <1>1, <1>2, ViewerAssumption, DevicePosts DEF Waiting

\* A row of the screen waits to be reloaded.
LEMMA ReloadWaitsIs ==
    ReloadWaits <=> \E b \in Waiting : b.type = "reload"
BY DEF ReloadWaits, Waiting, Elems

\* The same after a step.
LEMMA ReloadWillWait ==
    ReloadWaits' <=> \E b \in Waiting' : b.type = "reload"
BY DEF ReloadWaits, Waiting, Elems

\* Lists are finite, and the rows UIKit counts are those of the list.
LEMMA CountFacts ==
    ASSUME TypeOK
    PROVE  /\ IsFiniteSet(DOMAIN posts) /\ Cardinality(DOMAIN posts) \in Nat
           /\ NumberOfItems = Cardinality(DOMAIN posts)
           /\ \A S \in SUBSET Post :
                 /\ IsFiniteSet(S) /\ Cardinality(S) \in Nat
                 /\ \A T \in SUBSET S : Cardinality(T) \in Nat /\ Cardinality(T) <= Cardinality(S)
<1>1. \A S \in SUBSET Post : IsFiniteSet(S)
  BY PostAssumption, FS_Subset
<1>2. \A S \in SUBSET Post : Cardinality(S) \in Nat
  BY <1>1, FS_CardinalityType
<1>3. \A S \in SUBSET Post : \A T \in SUBSET S : T \in SUBSET Post /\ Cardinality(T) <= Cardinality(S)
  BY <1>1, FS_Subset
<1>4. DOMAIN posts \in SUBSET Post /\ NumberOfItems = Cardinality(DOMAIN posts)
  BY DEF TypeOK, NumberOfItems
<1> QED
  BY <1>1, <1>2, <1>3, <1>4

\* Answers to the feed stay single when another block is posted, and when the
\* first one has run.
LEMMA FeedAnswersPosted ==
    ASSUME NEW m \in Seq(Blocks), NEW b \in Blocks, NEW r,
           \A i, j \in DOMAIN m : Answers(m[i], r) /\ Answers(m[j], r) => i = j,
           Answers(b, r) => \A c \in Elems(m) : ~Answers(c, r)
    PROVE  \A i, j \in DOMAIN Append(m, b) :
              Answers(Append(m, b)[i], r) /\ Answers(Append(m, b)[j], r) => i = j
<1> DEFINE n == Append(m, b)
<1>1. /\ DOMAIN n = 1..(Len(m) + 1) /\ Len(m) \in Nat /\ DOMAIN m = 1..Len(m)
      /\ n[Len(m) + 1] = b /\ \A i \in 1..Len(m) : n[i] = m[i]
  BY AppendProperties, LenProperties
<1> HIDE DEF n
<1>2. \A i \in DOMAIN n : i = Len(m) + 1 \/ i \in DOMAIN m
  BY <1>1
<1>3. \A i, j \in DOMAIN n : Answers(n[i], r) /\ Answers(n[j], r) => i = j
  BY <1>1, <1>2 DEF Elems
<1> QED
  BY <1>3 DEF n

\* The same when the first has run and bs was posted.
LEMMA FeedAnswersRun ==
    ASSUME NEW m \in Seq(Blocks), m # << >>, NEW bs \in {<< >>, <<Reload>>}, NEW r,
           \A i, j \in DOMAIN m : Answers(m[i], r) /\ Answers(m[j], r) => i = j
    PROVE  /\ \A i, j \in DOMAIN (Tail(m) \o bs) :
                 Answers((Tail(m) \o bs)[i], r) /\ Answers((Tail(m) \o bs)[j], r) => i = j
           /\ Answers(Head(m), r) => \A c \in Elems(Tail(m)) : ~Answers(c, r)
<1> DEFINE t == Tail(m)
<1>1. /\ t \in Seq(Blocks) /\ DOMAIN t = 1..(Len(m) - 1) /\ Len(m) \in Nat \ {0}
      /\ DOMAIN m = 1..Len(m) /\ Head(m) = m[1] /\ Len(t) = Len(m) - 1
      /\ \A i \in 1..(Len(m) - 1) : t[i] = m[i + 1]
  OBVIOUS
<1> HIDE DEF t
<1>2. \A i \in DOMAIN t : i + 1 \in DOMAIN m /\ t[i] = m[i + 1] /\ i + 1 # 1 /\ i \in Nat
  BY <1>1
<1>3. \A i, j \in DOMAIN t : Answers(t[i], r) /\ Answers(t[j], r) => i = j
  <2> SUFFICES ASSUME NEW i \in DOMAIN t, NEW j \in DOMAIN t, Answers(t[i], r), Answers(t[j], r)
               PROVE  i = j
    OBVIOUS
  <2>1. i + 1 = j + 1 /\ i \in Nat /\ j \in Nat
    BY <1>2
  <2> QED
    BY <2>1
<1>4. Answers(Head(m), r) => \A c \in Elems(t) : ~Answers(c, r)
  <2>1. 1 \in DOMAIN m
    BY <1>1
  <2> QED
    BY <1>1, <1>2, <2>1 DEF Elems
<1>5. CASE bs = << >>
  <2>1. t \o bs = t
    BY <1>1, <1>5
  <2> QED
    BY <1>3, <1>4, <2>1 DEF t
<1>6. CASE bs = <<Reload>>
  <2>1. t \o bs = Append(t, Reload)
    BY <1>1, <1>6
  <2>2. ~Answers(Reload, r) /\ Reload \in Blocks
    BY BlockFacts DEF Answers
  <2>3. \A i, j \in DOMAIN Append(t, Reload) :
           Answers(Append(t, Reload)[i], r) /\ Answers(Append(t, Reload)[j], r) => i = j
    BY <1>1, <1>3, <2>2, FeedAnswersPosted
  <2> QED
    BY <1>4, <2>1, <2>3 DEF t
<1> QED
  BY <1>5, <1>6

-----------------------------------------------------------------------------
(***************************************************************************)
(* What keeps each part of the invariant.                                  *)
(***************************************************************************)

\* A completion that asks for nothing.
LEMMA AskNone ==
    ASSUME asked \in [User -> [Reads -> Nat]]
    PROVE  asked = Ask(Viewer, {})
BY ViewerAssumption, DeviceAsks

\* A block is posted that is no answer.
LEMMA NoAnswerPosted ==
    ASSUME DeviceOK, FeedOnce, NEW b \in Blocks, b.type # "answer",
           DOMAIN mainq' = User, mainq'[Viewer] = Append(mainq[Viewer], b),
           Waiting' = Waiting \union {b}, asked' = asked
    PROVE  FeedOnce' /\ \A r \in Reads : UnderWay(r)' <=> UnderWay(r)
<1>1. \A r : ~Answers(b, r)
  BY DEF Answers
<1>2. mainq[Viewer] \in Seq(Blocks)
  BY DEF DeviceOK
<1>3. \A r \in FeedReads : \A i, j \in DOMAIN mainq[Viewer] :
          Answers(mainq[Viewer][i], r) /\ Answers(mainq[Viewer][j], r) => i = j
  BY DEF FeedOnce
<1>4. \A r \in FeedReads : \A i, j \in DOMAIN mainq'[Viewer] :
          Answers(mainq'[Viewer][i], r) /\ Answers(mainq'[Viewer][j], r) => i = j
  BY <1>1, <1>2, <1>3, FeedAnswersPosted
<1>5. /\ \A r \in FeedReads : asked'[Viewer][r] <= 1
      /\ \A r \in FeedReads : asked'[Viewer][r] > 0 => \A c \in Waiting' : ~Answers(c, r)
  BY <1>1 DEF FeedOnce
<1>6. FeedOnce'
  BY <1>4, <1>5 DEF FeedOnce
<1> QED
  BY <1>1, <1>6 DEF UnderWay

\* A block runs that asks for no feed.
LEMMA FeedOnceRun ==
    ASSUME DeviceOK, FeedOnce, asked \in [User -> [Reads -> Nat]],
           NEW b, NEW bs \in {<< >>, <<Reload>>}, Running(b, bs),
           NEW rs, asked' = Ask(Viewer, rs), \A r \in FeedReads : r \notin rs
    PROVE  /\ FeedOnce'
           /\ \A r \in FeedReads : Answers(b, r) => ~UnderWay(r)'
<1>1. /\ mainq[Viewer] # << >> /\ b = Head(mainq[Viewer])
      /\ mainq'[Viewer] = Tail(mainq[Viewer]) \o bs
      /\ Waiting = {b} \union Elems(Tail(mainq[Viewer]))
      /\ Waiting' = Elems(Tail(mainq[Viewer])) \union Elems(bs)
  BY RunFacts
<1>2. mainq[Viewer] \in Seq(Blocks)
  BY DEF DeviceOK
<1>3. \A r \in FeedReads : \A i, j \in DOMAIN mainq[Viewer] :
          Answers(mainq[Viewer][i], r) /\ Answers(mainq[Viewer][j], r) => i = j
  BY DEF FeedOnce
<1>4. \A r \in FeedReads :
         /\ \A i, j \in DOMAIN (Tail(mainq[Viewer]) \o bs) :
               Answers((Tail(mainq[Viewer]) \o bs)[i], r) /\ Answers((Tail(mainq[Viewer]) \o bs)[j], r)
                  => i = j
         /\ Answers(Head(mainq[Viewer]), r) => \A c \in Elems(Tail(mainq[Viewer])) : ~Answers(c, r)
  BY <1>1, <1>2, <1>3, FeedAnswersRun
<1>5. \A r \in FeedReads : asked'[Viewer][r] = asked[Viewer][r] /\ r \in Reads
  BY AskedFacts, ZenonT(40) DEF Reads
<1>6. \A c \in Elems(bs) : \A r : ~Answers(c, r)
  <2>1. bs = << >> => Elems(bs) = {}
    BY BlockFacts, ElemsFew
  <2>2. bs = <<Reload>> => Elems(bs) = {Reload}
    BY BlockFacts, ElemsFew
  <2> QED
    BY <2>1, <2>2, BlockFacts DEF Answers
<1>7. FeedOnce'
  <2>1. \A r \in FeedReads : asked'[Viewer][r] <= 1
    BY <1>5 DEF FeedOnce
  <2>2. \A r \in FeedReads : asked'[Viewer][r] > 0 => \A c \in Waiting' : ~Answers(c, r)
    BY <1>1, <1>5, <1>6 DEF FeedOnce
  <2>3. \A i, j \in DOMAIN mainq'[Viewer] : \A r \in FeedReads :
            Answers(mainq'[Viewer][i], r) /\ Answers(mainq'[Viewer][j], r) => i = j
    BY <1>1, <1>4
  <2> QED
    BY <2>1, <2>2, <2>3 DEF FeedOnce
<1>8. \A r \in FeedReads : Answers(b, r) => ~(asked'[Viewer][r] > 0)
  BY <1>1, <1>5 DEF FeedOnce
<1>9. \A r \in FeedReads : Answers(b, r) => \A c \in Waiting' : ~Answers(c, r)
  BY <1>1, <1>4, <1>6
<1> QED
  BY <1>7, <1>8, <1>9 DEF UnderWay

\* The calls there are, are within the bound.
LEMMA FetchFacts ==
    ASSUME TypeOK, DeviceOK
    PROVE  /\ fetches \in Seq([isRenewable : BOOLEAN, docs : SUBSET Post, got : SUBSET Post])
           /\ DOMAIN fetches = 1..Len(fetches) /\ Len(fetches) \in Nat
           /\ \A k \in DOMAIN fetches :
                 /\ k \in Fetch
                 /\ fetches[k] \in [isRenewable : BOOLEAN, docs : SUBSET Post, got : SUBSET Post]
                 /\ fetches[k].docs \in SUBSET Post /\ fetches[k].got \in SUBSET Post
<1>1. fetches \in Seq([isRenewable : BOOLEAN, docs : SUBSET Post, got : SUBSET Post])
  BY DEF TypeOK
<1>2. DOMAIN fetches = 1..Len(fetches) /\ Len(fetches) \in Nat
  BY <1>1, LenProperties
<1>3. Len(fetches) <= MaxEvents + 1
  BY <1>2, FeedBounds DEF DeviceOK
<1>4. \A k \in DOMAIN fetches : k \in Fetch
  BY <1>2, <1>3, FeedBounds DEF Fetch
<1>5. \A k \in DOMAIN fetches :
          fetches[k] \in [isRenewable : BOOLEAN, docs : SUBSET Post, got : SUBSET Post]
  BY <1>1, <1>2, ElementOfSeq
<1> QED
  BY <1>1, <1>2, <1>4, <1>5

\* The calls are as they were, and their reads are under way if they were.
LEMMA FetchingKept ==
    ASSUME TypeOK, DeviceOK, Fetching, fetches' = fetches, absent' = absent,
           faults' = 0 => faults = 0,
           \A r \in Reads : r \notin CheckReads /\ UnderWay(r)' => UnderWay(r),
           \A r \in Reads : r \notin CheckReads /\ faults' = 0 /\ UnderWay(r) => UnderWay(r)'
    PROVE  Fetching'
<1>1. \A k \in Fetch : UnderWay(FeedRead(k))' => UnderWay(FeedRead(k))
  BY ReadFacts
<1>2. \A k \in Fetch, p \in Post :
         /\ UnderWay(PostRead(k, p))' => UnderWay(PostRead(k, p))
         /\ faults' = 0 /\ UnderWay(PostRead(k, p)) => UnderWay(PostRead(k, p))'
  BY ReadFacts
<1>3. \A k \in DOMAIN fetches : k \in Fetch /\ fetches[k].docs \subseteq Post
  BY FetchFacts
<1> QED
  BY <1>1, <1>2, <1>3 DEF Fetching

\* The list is as it was.
LEMMA OneListKept ==
    ASSUME OneList, single' = single, DOMAIN posts' = DOMAIN posts, DOMAIN fetches' = DOMAIN fetches,
           \A k \in DOMAIN fetches : fetches'[k].got = fetches[k].got
    PROVE  OneList'
BY DEF OneList

\* Hearts and the likes of untapped posts are as they were, and the answers to
\* new checks are right.
LEMMA HeartsKept ==
    ASSUME Hearts, TypeOK, tapped \subseteq tapped', faults' = 0 => faults = 0, posts' = posts,
           \A p \in Post \ tapped' : p \in userLikes' <=> p \in userLikes,
           \A b \in Waiting' : \A p \in Post \ tapped' : Answers(b, CheckRead(p)) =>
               b \in Waiting \/ (b.docs # {} <=> p \in userLikes'),
           \A p \in Post : faults' = 0 /\ UnderWay(CheckRead(p)) => UnderWay(CheckRead(p))'
    PROVE  Hearts'
<1>1. \A b \in Waiting' : \A p \in Post \ tapped' :
          Answers(b, CheckRead(p)) => (b.docs # {} <=> p \in userLikes')
  BY DEF Hearts
<1>2. DOMAIN posts \subseteq Post
  BY DEF TypeOK
<1>3. faults' = 0 => \A p \in DOMAIN posts' \ tapped' :
          (posts'[p] <=> p \in userLikes') \/ UnderWay(CheckRead(p))'
  <2> SUFFICES ASSUME faults' = 0, NEW p \in DOMAIN posts, p \notin tapped',
                      ~UnderWay(CheckRead(p))'
               PROVE  posts[p] <=> p \in userLikes'
    OBVIOUS
  <2>1. p \in Post /\ p \notin tapped /\ ~UnderWay(CheckRead(p)) /\ faults = 0
    BY <1>2
  <2>2. posts[p] <=> p \in userLikes
    BY <2>1 DEF Hearts
  <2> QED
    BY <2>1, <2>2
<1> QED
  BY <1>1, <1>3 DEF Hearts

\* No new like is in flight, and the cells show what they did.
LEMMA FlightsKept ==
    ASSUME Flights, tapped \subseteq tapped', reused' = reused, DOMAIN cells' = DOMAIN cells,
           \A c \in DOMAIN cells : cells'[c].post = cells[c].post,
           \A c \in Cell, p \in Post : Flying(c, p)' => Flying(c, p)
    PROVE  Flights'
BY DEF Flights

\* The rows and the list are as they were, and a reload that waits still does.
LEMMA ScreenKept ==
    ASSUME ScreenFollowsList, posts' = posts, rows' = rows, tapped \subseteq tapped',
           DOMAIN cells' = DOMAIN cells,
           \A c \in DOMAIN cells :
               cells'[c].post = cells[c].post /\ cells'[c].didLike = cells[c].didLike,
           \A b \in Waiting : b.type = "reload" => \E c \in Waiting' : c.type = "reload"
    PROVE  ScreenFollowsList'
<1>1. CASE ReloadWaits
  <2>1. ReloadWaits'
    BY <1>1, ReloadWaitsIs, ReloadWillWait
  <2> QED
    BY <2>1 DEF ScreenFollowsList
<1>2. CASE ~ReloadWaits
  <2>1. /\ rows = Cardinality(DOMAIN posts)
        /\ \A c \in DOMAIN cells :
              /\ cells[c].post \in DOMAIN posts
              /\ cells[c].post \in tapped \/ cells[c].didLike = posts[cells[c].post]
              /\ \A d \in DOMAIN cells : cells[d].post = cells[c].post => d = c
    BY <1>2 DEF ScreenFollowsList
  <2>2. rows' = Cardinality(DOMAIN posts')
    BY <2>1
  <2>3. \A c \in DOMAIN cells' :
              /\ cells'[c].post \in DOMAIN posts'
              /\ cells'[c].post \in tapped' \/ cells'[c].didLike = posts'[cells'[c].post]
              /\ \A d \in DOMAIN cells' : cells'[d].post = cells'[c].post => d = c
    BY <2>1
  <2> QED
    BY <2>2, <2>3 DEF ScreenFollowsList
<1> QED
  BY <1>1, <1>2

\* A reload waits.
LEMMA ScreenWaits ==
    ASSUME \E b \in Waiting' : b.type = "reload"
    PROVE  ScreenFollowsList'
BY ReloadWillWait DEF ScreenFollowsList

\* No answer arrives, UIKit has counted nothing and the list has the posts it had.
LEMMA CountKept ==
    ASSUME FeedScreenInv, UNCHANGED <<absent, single, rows, trapped>>,
           DOMAIN posts' = DOMAIN posts, Len(fetches') = Len(fetches),
           \A b \in Waiting' : b \in Waiting \/ b.type # "answer"
    PROVE  PostAnswers' /\ Counted' /\ TrapsNeedRefresh'
<1>1. PostAnswers'
  BY DEF FeedScreenInv, PostAnswers, Answers
<1> QED
  BY <1>1 DEF FeedScreenInv, Counted, TrapsNeedRefresh

-----------------------------------------------------------------------------
(***************************************************************************)
(* The actions keep the invariant: the SDK and the backend.                *)
(***************************************************************************)

\* One more of the events there may be.
LEMMA EventFacts ==
    ASSUME DeviceOK, Event
    PROVE  events' \in Nat /\ events' <= MaxEvents /\ events' = events + 1
BY FeedBounds DEF DeviceOK, Event

\* Others change the feed; the screen does not see it.
LEMMA FeedChangesInv ==
    ASSUME FeedScreenInv, NEW p \in Post, FeedChanges(p)
    PROVE  FeedScreenInv'
<1>1. UNCHANGED <<queue, asked, mainq, userLikes, absent, single, fetches, posts, rows, cells,
                  spinning, trapped, faults, tapped, reused>>
  BY DEF FeedChanges, sdkVars, screenVars, history
<1>2. feed' \subseteq Post
  BY DEF FeedChanges, FeedScreenInv, TypeOK
<1>3. TypeOK'
  BY <1>1, <1>2 DEF FeedScreenInv, TypeOK
<1>4. DeviceOK'
  <2>1. events \in Nat /\ events' = events + 1 /\ events' \in Nat /\ events' <= MaxEvents
    BY EventFacts DEF FeedChanges, FeedScreenInv, DeviceOK
  <2>2. Len(fetches) \in Nat /\ Len(fetches) <= events + 1
    BY FetchFacts DEF FeedScreenInv, DeviceOK
  <2>3. Len(fetches') <= events' + 1
    BY <1>1, <2>1, <2>2
  <2> QED
    BY <1>1, <2>1, <2>3 DEF FeedScreenInv, DeviceOK
<1>5. Waiting' = Waiting /\ Queued' = Queued
  BY <1>1 DEF Waiting, Queued
<1>6. FeedOnce' /\ Fetching' /\ OneList' /\ Hearts'
  BY <1>1, <1>5 DEF FeedScreenInv, FeedOnce, Fetching, OneList, Hearts, UnderWay
<1>7. Flights' /\ ScreenFollowsList' /\ CountsOwnPost'
  BY <1>1, <1>5 DEF FeedScreenInv, Flights, Flying, ScreenFollowsList, ReloadWaits, CountsOwnPost
<1>8. PostAnswers' /\ Counted' /\ TrapsNeedRefresh'
  BY <1>1, <1>5, CountKept
<1> QED
  BY <1>3, <1>4, <1>6, <1>7, <1>8 DEF FeedScreenInv

\* What reads find are posts; a check of an untapped post finds the truth.
LEMMA FoundFacts ==
    ASSUME FeedScreenInv, NEW r \in Reads
    PROVE  /\ Found(r) \in SUBSET Post
           /\ \A p \in Post \ tapped : r = CheckRead(p) => (Found(r) # {} <=> p \in userLikes)
           /\ \A k \in Fetch, p \in Post : r = PostRead(k, p) => Found(r) = {p} \ absent
<1>1. feed \subseteq Post
  BY DEF FeedScreenInv, TypeOK
<1>2. Found(r) \in SUBSET Post
  BY <1>1, ReadFacts DEF Found
<1>3. ASSUME NEW p \in Post, p \notin tapped, r = CheckRead(p)
      PROVE  Found(r) # {} <=> p \in userLikes
  <2>1. Found(r) = {q \in {p} : LocallyPresent(Viewer, "userLikes", q, userLikes)}
    BY <1>3, ReadFacts DEF Found
  <2>2. \A i \in DOMAIN queue[Viewer] : queue[Viewer][i].key # p
    <3> SUFFICES ASSUME NEW i \in DOMAIN queue[Viewer], queue[Viewer][i].key = p
                 PROVE  FALSE
      OBVIOUS
    <3>1. queue[Viewer][i] \in Queued /\ queue[Viewer][i] \in Writes
      BY ElemsIn DEF Queued, Elems, FeedScreenInv, DeviceOK
    <3>2. queue[Viewer][i].cell \in Cell
      BY <3>1 DEF Writes
    <3>3. Flying(queue[Viewer][i].cell, p)
      BY <3>1 DEF Flying
    <3> QED
      BY <1>3, <3>2, <3>3 DEF FeedScreenInv, Flights
  <2>3. LocallyPresent(Viewer, "userLikes", p, userLikes) <=> p \in userLikes
    BY <2>2 DEF LocallyPresent
  <2> QED
    BY <2>1, <2>3
<1>4. \A k \in Fetch, p \in Post : r = PostRead(k, p) => Found(r) = {p} \ absent
  BY ReadFacts DEF Found
<1> QED
  BY <1>2, <1>3, <1>4

\* A read is answered.
LEMMA AnswerInv ==
    ASSUME FeedScreenInv, NEW r \in Outstanding, Answer(r)
    PROVE  FeedScreenInv'
<1> DEFINE b == Answered(r, Found(r))
<1>1. UNCHANGED <<queue, feed, userLikes, absent, single, fetches, posts, rows, cells, spinning,
                  trapped, events, faults, tapped, reused>>
  BY DEF Answer, Respond, backendVars, screenVars, counters, history
<1>2. r \in Reads /\ asked[Viewer][r] > 0 /\ TypeOK /\ DeviceOK
  BY DEF Outstanding, FeedScreenInv
<1>3. b \in Blocks /\ b.type = "answer" /\ b.r = r /\ b.docs = Found(r)
  BY <1>2, FoundFacts, BlockFacts
<1>4. asked' = [asked EXCEPT ![Viewer][r] = @ - 1] /\ mainq' = [mainq EXCEPT ![Viewer] = Append(@, b)]
  BY DEF Answer, Respond
<1> HIDE DEF b
<1>5. /\ DOMAIN mainq' = User /\ mainq'[Viewer] \in Seq(Blocks)
      /\ mainq'[Viewer] = Append(mainq[Viewer], b)
      /\ Waiting' = Waiting \union {b} /\ Waiting \subseteq Blocks
  BY <1>2, <1>3, <1>4, PostedFacts
<1>6. asked \in [User -> [Reads -> Nat]]
  BY <1>2 DEF TypeOK
<1>7. /\ asked' \in [User -> [Reads -> Nat]]
      /\ \A s \in Reads : asked'[Viewer][s] = IF s = r THEN asked[Viewer][s] - 1 ELSE asked[Viewer][s]
  BY <1>2, <1>4, <1>6, AskedFacts
<1>8. \A s \in Reads : asked[Viewer][s] \in Nat
  BY <1>6, ViewerAssumption
<1>9. \A s : Answers(b, s) <=> s = r
  BY <1>3 DEF Answers
<1>10. \A s \in Reads : UnderWay(s)' <=> UnderWay(s)
  <2>1. \A s \in Reads : s # r => asked'[Viewer][s] = asked[Viewer][s]
    BY <1>7
  <2> QED
    BY <1>2, <1>5, <1>9, <2>1 DEF UnderWay
<1>11. TypeOK' /\ DeviceOK'
  BY <1>1, <1>2, <1>5, <1>7 DEF TypeOK, DeviceOK
<1>12. FeedOnce'
  <2>1. \A s \in FeedReads : asked'[Viewer][s] <= 1 /\ (asked'[Viewer][s] > 0 => s # r)
    <3>1. \A s \in FeedReads : asked[Viewer][s] <= 1 /\ s \in Reads
      BY DEF FeedScreenInv, FeedOnce, Reads
    <3> QED
      BY <1>7, <1>8, <3>1
  <2>2. \A s \in FeedReads : asked'[Viewer][s] > 0 => \A c \in Waiting' : ~Answers(c, s)
    <3>1. \A s \in FeedReads : asked'[Viewer][s] > 0 => asked[Viewer][s] > 0
      BY <1>7, <2>1 DEF Reads
    <3> QED
      BY <1>5, <1>9, <2>1, <3>1 DEF FeedScreenInv, FeedOnce
  <2>3. \A s \in FeedReads : \A i, j \in DOMAIN mainq'[Viewer] :
            Answers(mainq'[Viewer][i], s) /\ Answers(mainq'[Viewer][j], s) => i = j
    <3> SUFFICES ASSUME NEW s \in FeedReads
                 PROVE  \A i, j \in DOMAIN mainq'[Viewer] :
                           Answers(mainq'[Viewer][i], s) /\ Answers(mainq'[Viewer][j], s) => i = j
      OBVIOUS
    <3>1. Answers(b, s) => \A c \in Elems(mainq[Viewer]) : ~Answers(c, s)
      BY <1>2, <1>9 DEF FeedScreenInv, FeedOnce, Waiting
    <3>2. \A i, j \in DOMAIN mainq[Viewer] :
             Answers(mainq[Viewer][i], s) /\ Answers(mainq[Viewer][j], s) => i = j
      BY DEF FeedScreenInv, FeedOnce
    <3>3. mainq[Viewer] \in Seq(Blocks)
      BY <1>2 DEF DeviceOK
    <3> QED
      BY <1>3, <1>5, <3>1, <3>2, <3>3, FeedAnswersPosted
  <2> QED
    BY <2>1, <2>2, <2>3 DEF FeedOnce
<1>13. Fetching' /\ OneList'
  BY <1>1, <1>2, <1>10, FetchingKept, OneListKept DEF FeedScreenInv
<1>14. Hearts'
  <2>1. \A c \in Waiting' : \A p \in Post \ tapped' : Answers(c, CheckRead(p)) =>
            c \in Waiting \/ (c.docs # {} <=> p \in userLikes')
    BY <1>1, <1>2, <1>3, <1>5, <1>9, FoundFacts
  <2>2. \A p \in Post : UnderWay(CheckRead(p)) => UnderWay(CheckRead(p))'
    BY <1>10, ReadFacts
  <2> QED
    BY <1>1, <1>2, <2>1, <2>2, HeartsKept DEF FeedScreenInv
<1>15. Flights'
  <2>1. \A c \in Cell, p \in Post : Flying(c, p)' => Flying(c, p)
    BY <1>1, <1>3, <1>5 DEF Flying, Queued
  <2> QED
    BY <1>1, <2>1, FlightsKept DEF FeedScreenInv
<1>16. ScreenFollowsList'
  <2>1. \A c \in Waiting : c.type = "reload" => \E d \in Waiting' : d.type = "reload"
    BY <1>5
  <2> QED
    BY <1>1, <2>1, ScreenKept DEF FeedScreenInv
<1>17. CountsOwnPost'
  BY <1>1 DEF FeedScreenInv, CountsOwnPost
<1>18. PostAnswers'
  <2> SUFFICES ASSUME NEW c \in Waiting', NEW k \in Fetch, NEW p \in Post,
                      Answers(c, PostRead(k, p))
               PROVE  c.docs = {p} \ absent
    BY <1>1 DEF PostAnswers
  <2>1. CASE c \in Waiting
    BY <2>1 DEF FeedScreenInv, PostAnswers
  <2>2. CASE c = b
    <3>1. r = PostRead(k, p)
      BY <1>9, <2>2
    <3> QED
      BY <1>2, <1>3, <2>2, <3>1, FoundFacts
  <2> QED
    BY <1>5, <2>1, <2>2
<1>19. Counted' /\ TrapsNeedRefresh'
  BY <1>1 DEF FeedScreenInv, Counted, TrapsNeedRefresh
<1> QED
  BY <1>11, <1>12, <1>13, <1>14, <1>15, <1>16, <1>17, <1>18, <1>19 DEF FeedScreenInv

\* A write is decided: its completion is posted, and at most the like of its
\* post, which was tapped, changes.
LEMMA WriteDecided ==
    ASSUME FeedScreenInv, queue[Viewer] # << >>, NEW ok \in BOOLEAN,
           NEW w, w = Head(queue[Viewer]), NotifyUser(Viewer, w, ok),
           UNCHANGED <<feed, absent, single, fetches, posts, rows, cells, spinning, trapped>>,
           UNCHANGED <<tapped, reused>>,
           userLikes' \subseteq Post,
           \A p \in Post : p # w.key => (p \in userLikes' <=> p \in userLikes),
           events' \in Nat, events <= events', events' <= MaxEvents,
           faults' \in Nat, faults' = 0 => faults = 0
    PROVE  FeedScreenInv'
<1>1. TypeOK /\ DeviceOK /\ FeedOnce
  BY DEF FeedScreenInv
<1>2. /\ w \in Writes /\ Queued = {w} \union Queued' /\ asked' = asked
      /\ DOMAIN queue' = User /\ queue'[Viewer] \in Seq(Writes)
      /\ DOMAIN mainq' = User /\ mainq'[Viewer] \in Seq(Blocks)
      /\ mainq'[Viewer] = Append(mainq[Viewer], Acked(w, ok))
      /\ Waiting' = Waiting \union {Acked(w, ok)} /\ Waiting \subseteq Blocks
  BY <1>1, DecidedFacts
<1>3. /\ Acked(w, ok) \in Blocks /\ Acked(w, ok).type = "ack" /\ Acked(w, ok).w = w
      /\ w.cell \in Cell /\ w.key \in Post
  BY <1>2, BlockFacts DEF Writes
<1>4. w.key \in tapped
  <2>1. Flying(w.cell, w.key)
    BY <1>2 DEF Flying
  <2> QED
    BY <1>3, <2>1 DEF FeedScreenInv, Flights
<1>5. TypeOK'
  BY <1>1, <1>2 DEF TypeOK
<1>6. DeviceOK'
  <2>1. Len(fetches) \in Nat /\ Len(fetches) <= events + 1 /\ events \in Nat
    BY <1>1, FetchFacts DEF DeviceOK
  <2>2. Len(fetches') <= events' + 1
    BY <2>1
  <2> QED
    BY <1>1, <1>2, <2>2 DEF DeviceOK
<1>7. FeedOnce' /\ \A r \in Reads : UnderWay(r)' <=> UnderWay(r)
  BY <1>1, <1>2, <1>3, NoAnswerPosted
<1>8. Fetching' /\ OneList'
  BY <1>1, <1>7, FetchingKept, OneListKept DEF FeedScreenInv
<1>9. Hearts'
  <2>1. \A p \in Post \ tapped' : p \in userLikes' <=> p \in userLikes
    BY <1>4
  <2>2. \A c \in Waiting' : \A p \in Post \ tapped' : Answers(c, CheckRead(p)) =>
            c \in Waiting \/ (c.docs # {} <=> p \in userLikes')
    BY <1>2, <1>3 DEF Answers
  <2>3. \A p \in Post : UnderWay(CheckRead(p)) => UnderWay(CheckRead(p))'
    BY <1>7, ReadFacts
  <2> QED
    BY <1>1, <2>1, <2>2, <2>3, HeartsKept DEF FeedScreenInv
<1>10. Flights'
  <2>1. \A c \in Cell, p \in Post : Flying(c, p)' => Flying(c, p)
    BY <1>2, <1>3 DEF Flying
  <2> QED
    BY <2>1, FlightsKept DEF FeedScreenInv
<1>11. ScreenFollowsList'
  <2>1. \A c \in Waiting : c.type = "reload" => \E d \in Waiting' : d.type = "reload"
    BY <1>2
  <2> QED
    BY <2>1, ScreenKept DEF FeedScreenInv
<1>12. CountsOwnPost'
  BY DEF FeedScreenInv, CountsOwnPost
<1>13. PostAnswers' /\ Counted' /\ TrapsNeedRefresh'
  BY <1>2, <1>3, CountKept
<1> QED
  BY <1>5, <1>6, <1>7, <1>8, <1>9, <1>10, <1>11, <1>12, <1>13 DEF FeedScreenInv

\* The backend stores the oldest write.
LEMMA CommitInv ==
    ASSUME FeedScreenInv, Commit
    PROVE  FeedScreenInv'
<1> DEFINE w == Head(queue[Viewer])
<1>1. UNCHANGED <<feed, absent, single, fetches, posts, rows, cells, spinning, trapped, tapped,
                  reused, events, faults>>
  BY DEF Commit, screenVars, counters, history
<1>2. /\ queue[Viewer] # << >> /\ NotifyUser(Viewer, w, TRUE)
      /\ userLikes' = IF w.coll # "userLikes" THEN userLikes
                      ELSE IF w.op = "set" THEN userLikes \union {w.key}
                      ELSE userLikes \ {w.key}
  BY DEF Commit
<1>3. w \in Writes /\ w.key \in Post
  <2>1. w \in Writes
    BY <1>2, ElemsTail DEF FeedScreenInv, DeviceOK
  <2> QED
    BY <2>1 DEF Writes
<1> HIDE DEF w
<1>4. userLikes' \subseteq Post /\ \A p \in Post : p # w.key => (p \in userLikes' <=> p \in userLikes)
  BY <1>2, <1>3 DEF FeedScreenInv, TypeOK
<1>5. /\ events \in Nat /\ events <= MaxEvents /\ faults \in Nat /\ events' \in Nat
      /\ events <= events' /\ events' <= MaxEvents /\ faults' \in Nat /\ (faults' = 0 => faults = 0)
  BY <1>1 DEF FeedScreenInv, DeviceOK
<1> QED
  BY <1>1, <1>2, <1>4, <1>5, WriteDecided DEF w

\* One more fault.
LEMMA FaultFacts ==
    ASSUME DeviceOK, Fault
    PROVE  /\ events \in Nat /\ events' \in Nat /\ events <= events' /\ events' <= MaxEvents
           /\ faults' \in Nat /\ faults' # 0
BY FeedBounds DEF DeviceOK, Fault, Event

\* The backend refuses the oldest write.
LEMMA RejectInv ==
    ASSUME FeedScreenInv, Reject
    PROVE  FeedScreenInv'
<1>1. UNCHANGED <<feed, userLikes, absent, single, fetches, posts, rows, cells, spinning, trapped,
                  tapped, reused>>
  BY DEF Reject, backendVars, screenVars, history
<1>2. queue[Viewer] # << >> /\ NotifyUser(Viewer, Head(queue[Viewer]), FALSE)
  BY DEF Reject
<1>3. /\ events' \in Nat /\ events <= events' /\ events' <= MaxEvents
      /\ faults' \in Nat /\ (faults' = 0 => faults = 0)
  BY FaultFacts DEF FeedScreenInv, Reject
<1>4. userLikes' \subseteq Post
  BY <1>1 DEF FeedScreenInv, TypeOK
<1> QED
  BY <1>1, <1>2, <1>3, <1>4, WriteDecided

\* A read fails.
LEMMA FailToAnswerInv ==
    ASSUME FeedScreenInv, NEW r \in Outstanding, FailToAnswer(r)
    PROVE  FeedScreenInv'
<1>1. UNCHANGED <<queue, mainq, feed, userLikes, absent, single, fetches, posts, rows, cells,
                  spinning, trapped, tapped, reused>>
  BY DEF FailToAnswer, ReadFails, backendVars, screenVars, history
<1>2. r \in Reads /\ asked[Viewer][r] > 0 /\ TypeOK /\ DeviceOK
  BY DEF Outstanding, FeedScreenInv
<1>3. asked' = [asked EXCEPT ![Viewer][r] = @ - 1]
  BY DEF FailToAnswer, ReadFails
<1>4. asked \in [User -> [Reads -> Nat]]
  BY <1>2 DEF TypeOK
<1>5. /\ asked' \in [User -> [Reads -> Nat]]
      /\ \A s \in Reads : asked'[Viewer][s] = IF s = r THEN asked[Viewer][s] - 1 ELSE asked[Viewer][s]
  BY <1>2, <1>3, <1>4, AskedFacts
<1>6. \A s \in Reads : asked[Viewer][s] \in Nat
  BY <1>4, ViewerAssumption
<1>7. \A s \in Reads : asked'[Viewer][s] <= asked[Viewer][s] /\ asked'[Viewer][s] \in Nat
                    /\ (asked'[Viewer][s] > 0 => asked[Viewer][s] > 0)
  BY <1>2, <1>5, <1>6
<1>8. Waiting' = Waiting /\ Queued' = Queued
  BY <1>1 DEF Waiting, Queued
<1>9. \A s \in Reads : UnderWay(s)' => UnderWay(s)
  BY <1>7, <1>8 DEF UnderWay
<1>10. /\ events \in Nat /\ events' \in Nat /\ events <= events' /\ events' <= MaxEvents
       /\ faults' \in Nat /\ faults' # 0
  BY <1>2, FaultFacts DEF FailToAnswer
<1>11. TypeOK'
  BY <1>1, <1>2, <1>5 DEF TypeOK
<1>12. DeviceOK'
  <2>1. Len(fetches) \in Nat /\ Len(fetches) <= events + 1
    BY <1>2, FetchFacts DEF DeviceOK
  <2>2. Len(fetches') <= events' + 1
    BY <1>1, <1>10, <2>1
  <2> QED
    BY <1>1, <1>2, <1>10, <2>2 DEF DeviceOK
<1>13. FeedOnce'
  <2>1. \A s \in FeedReads : s \in Reads
    BY DEF Reads
  <2>2. \A s \in FeedReads : asked'[Viewer][s] <= 1
    BY <1>6, <1>7, <2>1 DEF FeedScreenInv, FeedOnce
  <2>3. \A s \in FeedReads : asked'[Viewer][s] > 0 => \A c \in Waiting' : ~Answers(c, s)
    BY <1>7, <1>8, <2>1 DEF FeedScreenInv, FeedOnce
  <2> QED
    BY <1>1, <2>2, <2>3 DEF FeedScreenInv, FeedOnce
<1>14. Fetching' /\ OneList'
  BY <1>1, <1>2, <1>9, <1>10, FetchingKept, OneListKept DEF FeedScreenInv
<1>15. Hearts'
  BY <1>1, <1>2, <1>8, <1>10, HeartsKept DEF FeedScreenInv
<1>16. Flights' /\ ScreenFollowsList' /\ CountsOwnPost'
  BY <1>1, <1>8 DEF FeedScreenInv, Flights, Flying, ScreenFollowsList, ReloadWaits, CountsOwnPost
<1>17. PostAnswers' /\ Counted' /\ TrapsNeedRefresh'
  BY <1>1, <1>8, CountKept
<1> QED
  BY <1>11, <1>12, <1>13, <1>14, <1>15, <1>16, <1>17 DEF FeedScreenInv

-----------------------------------------------------------------------------
(***************************************************************************)
(* The actions keep the invariant: touches.                                *)
(***************************************************************************)

\* A refresh of a single post only posts a reload.
LEMMA RefreshSingleInv ==
    ASSUME FeedScreenInv, Event, spinning' \in BOOLEAN, DetectRefresh, single
    PROVE  FeedScreenInv'
<1>1. /\ UNCHANGED <<queue, asked, feed, userLikes, absent, single, fetches, posts, rows, cells,
                     trapped, faults, tapped, reused>>
      /\ mainq' = [mainq EXCEPT ![Viewer] = Append(@, Reload)]
  BY DEF DetectRefresh, backendVars, history
<1>2. TypeOK /\ DeviceOK /\ FeedOnce
  BY DEF FeedScreenInv
<1>3. /\ DOMAIN mainq' = User /\ mainq'[Viewer] \in Seq(Blocks)
      /\ mainq'[Viewer] = Append(mainq[Viewer], Reload)
      /\ Waiting' = Waiting \union {Reload} /\ Waiting \subseteq Blocks
  BY <1>1, <1>2, PostedFacts, BlockFacts
<1>4. Reload \in Blocks /\ Reload.type = "reload"
  BY BlockFacts
<1>5. TypeOK'
  BY <1>1, <1>2 DEF TypeOK
<1>6. DeviceOK'
  <2>1. events \in Nat /\ events' \in Nat /\ events' <= MaxEvents /\ events' = events + 1
    BY <1>1, <1>2, EventFacts DEF DeviceOK
  <2>2. Len(fetches) \in Nat /\ Len(fetches) <= events + 1
    BY <1>2, FetchFacts DEF DeviceOK
  <2>3. Len(fetches') <= events' + 1
    BY <1>1, <2>1, <2>2
  <2> QED
    BY <1>1, <1>2, <1>3, <2>1, <2>3 DEF DeviceOK
<1>7. FeedOnce' /\ \A r \in Reads : UnderWay(r)' <=> UnderWay(r)
  BY <1>1, <1>2, <1>3, <1>4, NoAnswerPosted
<1>8. Fetching' /\ OneList'
  BY <1>1, <1>2, <1>7, FetchingKept, OneListKept DEF FeedScreenInv
<1>9. Hearts'
  <2>1. \A c \in Waiting' : \A p \in Post \ tapped' : Answers(c, CheckRead(p)) => c \in Waiting
    BY <1>3, <1>4 DEF Answers
  <2>2. \A p \in Post : UnderWay(CheckRead(p)) => UnderWay(CheckRead(p))'
    BY <1>7, ReadFacts
  <2> QED
    BY <1>1, <1>2, <2>1, <2>2, HeartsKept DEF FeedScreenInv
<1>10. Flights'
  <2>1. \A c \in Cell, p \in Post : Flying(c, p)' => Flying(c, p)
    BY <1>1, <1>3, <1>4 DEF Flying, Queued
  <2> QED
    BY <1>1, <2>1, FlightsKept DEF FeedScreenInv
<1>11. ScreenFollowsList'
  BY <1>3, <1>4, ScreenWaits
<1>12. CountsOwnPost'
  BY <1>1 DEF FeedScreenInv, CountsOwnPost
<1>13. PostAnswers' /\ Counted' /\ TrapsNeedRefresh'
  BY <1>1, <1>3, <1>4, CountKept
<1> QED
  BY <1>5, <1>6, <1>7, <1>8, <1>9, <1>10, <1>11, <1>12, <1>13 DEF FeedScreenInv

\* A refresh of the feed empties the list and starts a call, which has nothing.
LEMMA RefreshFeedInv ==
    ASSUME FeedScreenInv, Event, spinning' \in BOOLEAN, DetectRefresh, ~single
    PROVE  FeedScreenInv'
<1> DEFINE k == Len(fetches) + 1
<1>1. /\ UNCHANGED <<queue, feed, userLikes, absent, single, rows, cells, trapped, faults, tapped,
                     reused>>
      /\ mainq' = [mainq EXCEPT ![Viewer] = Append(@, Reload)]
      /\ posts' = << >> /\ fetches' = Append(fetches, NewFetch(TRUE))
      /\ asked' = Ask(Viewer, {FeedRead(k)})
  BY DEF DetectRefresh, backendVars, history
<1>2. TypeOK /\ DeviceOK /\ FeedOnce /\ Fetching
  BY DEF FeedScreenInv
<1>3. /\ DOMAIN mainq' = User /\ mainq'[Viewer] \in Seq(Blocks)
      /\ mainq'[Viewer] = Append(mainq[Viewer], Reload)
      /\ Waiting' = Waiting \union {Reload} /\ Waiting \subseteq Blocks
  BY <1>1, <1>2, PostedFacts, BlockFacts
<1>4. Reload \in Blocks /\ Reload.type = "reload" /\ \A r : ~Answers(Reload, r)
  BY BlockFacts DEF Answers
<1>5. DOMAIN posts' = {}
  BY <1>1
<1>6. /\ fetches \in Seq([isRenewable : BOOLEAN, docs : SUBSET Post, got : SUBSET Post])
      /\ DOMAIN fetches = 1..Len(fetches) /\ Len(fetches) \in Nat
  BY <1>2, FetchFacts
<1>7. NewFetch(TRUE) \in [isRenewable : BOOLEAN, docs : SUBSET Post, got : SUBSET Post]
      /\ NewFetch(TRUE).docs = {} /\ NewFetch(TRUE).got = {}
  BY DEF NewFetch
<1>8. /\ fetches' \in Seq([isRenewable : BOOLEAN, docs : SUBSET Post, got : SUBSET Post])
      /\ Len(fetches') = Len(fetches) + 1 /\ DOMAIN fetches' = 1..(Len(fetches) + 1)
      /\ \A i \in 1..Len(fetches) : fetches'[i] = fetches[i]
      /\ fetches'[Len(fetches) + 1] = NewFetch(TRUE)
  <2> DEFINE T == [isRenewable : BOOLEAN, docs : SUBSET Post, got : SUBSET Post]
             n == NewFetch(TRUE)
  <2>1. fetches \in Seq(T) /\ n \in T /\ fetches' = Append(fetches, n)
    BY <1>1, <1>6, <1>7
  <2> HIDE DEF T, n
  <2>2. /\ fetches' \in Seq(T) /\ Len(fetches') = Len(fetches) + 1
        /\ \A i \in 1..Len(fetches) : fetches'[i] = fetches[i]
        /\ fetches'[Len(fetches) + 1] = n
    BY <2>1, AppendProperties
  <2>3. DOMAIN fetches' = 1..(Len(fetches) + 1)
    BY <2>2, LenProperties
  <2> QED
    BY <2>2, <2>3 DEF T, n
<1>9. /\ events \in Nat /\ events' \in Nat /\ events' <= MaxEvents /\ events' = events + 1
      /\ events < MaxEvents /\ Len(fetches) <= events + 1
  BY <1>1, <1>2, EventFacts DEF DeviceOK, Event
<1>10. /\ k \in Fetch /\ k \notin DOMAIN fetches /\ k \in DOMAIN fetches'
       /\ \A i \in DOMAIN fetches' : i = k \/ i \in DOMAIN fetches
       /\ \A i \in DOMAIN fetches : i \in DOMAIN fetches' /\ i # k
  BY <1>6, <1>8, <1>9, FeedBounds DEF Fetch
<1>11. /\ \A i \in DOMAIN fetches : fetches'[i] = fetches[i]
       /\ fetches'[k].docs = {} /\ fetches'[k].got = {}
  BY <1>6, <1>7, <1>8
<1> HIDE DEF k
<1>12. asked \in [User -> [Reads -> Nat]]
  BY <1>2 DEF TypeOK
<1>13. /\ asked' \in [User -> [Reads -> Nat]]
       /\ \A r \in Reads : asked'[Viewer][r]
              = IF r \in {FeedRead(k)} THEN asked[Viewer][r] + 1 ELSE asked[Viewer][r]
       /\ \A r \in Reads : asked[Viewer][r] \in Nat
  BY <1>1, <1>12, AskedFacts, ViewerAssumption
<1>14. FeedRead(k) \in FeedReads /\ FeedRead(k) \in Reads /\ ~UnderWay(FeedRead(k))
  BY <1>2, <1>10, ReadFacts DEF Fetching
<1>15. asked[Viewer][FeedRead(k)] = 0 /\ asked'[Viewer][FeedRead(k)] = 1
  BY <1>13, <1>14 DEF UnderWay
<1>16. \A r \in Reads : r # FeedRead(k) => asked'[Viewer][r] = asked[Viewer][r]
  BY <1>13
<1>17. \A r \in Reads : r # FeedRead(k) => (UnderWay(r)' <=> UnderWay(r))
  BY <1>3, <1>4, <1>16 DEF UnderWay
<1>18. TypeOK'
  BY <1>1, <1>2, <1>5, <1>8, <1>13 DEF TypeOK
<1>19. DeviceOK'
  <2>1. Len(fetches') <= events' + 1
    BY <1>6, <1>8, <1>9
  <2> QED
    BY <1>1, <1>2, <1>3, <1>9, <2>1 DEF DeviceOK
<1>20. FeedOnce'
  <2>1. \A r \in FeedReads : r \in Reads
    BY DEF Reads
  <2>2. \A r \in FeedReads : asked'[Viewer][r] <= 1
    BY <1>2, <1>15, <1>16, <2>1 DEF FeedOnce
  <2>3. \A r \in FeedReads : asked'[Viewer][r] > 0 => \A c \in Waiting' : ~Answers(c, r)
    BY <1>2, <1>3, <1>4, <1>14, <1>16, <2>1 DEF FeedOnce, UnderWay
  <2>4. mainq[Viewer] \in Seq(Blocks)
    BY <1>2 DEF DeviceOK
  <2>5. \A r \in FeedReads : \A i, j \in DOMAIN mainq[Viewer] :
            Answers(mainq[Viewer][i], r) /\ Answers(mainq[Viewer][j], r) => i = j
    BY <1>2 DEF FeedOnce
  <2>6. \A r \in FeedReads : \A i, j \in DOMAIN mainq'[Viewer] :
            Answers(mainq'[Viewer][i], r) /\ Answers(mainq'[Viewer][j], r) => i = j
    BY <1>3, <1>4, <2>4, <2>5, FeedAnswersPosted
  <2> QED
    BY <2>2, <2>3, <2>6 DEF FeedOnce
<1>21. Fetching'
  <2>1. \A i \in Fetch : FeedRead(i) = FeedRead(k) => i = k
    BY <1>10, ReadFacts
  <2>2. \A i \in Fetch, p \in Post : PostRead(i, p) # FeedRead(k)
    BY <1>14, ReadFacts
  <2>3. \A i \in Fetch : UnderWay(FeedRead(i))' =>
            i \in DOMAIN fetches' /\ fetches'[i].docs = {} /\ fetches'[i].got = {}
    BY <1>2, <1>10, <1>11, <1>17, <2>1, ReadFacts DEF Fetching
  <2>4. \A i \in Fetch, p \in Post : UnderWay(PostRead(i, p))' <=> UnderWay(PostRead(i, p))
    BY <1>17, <2>2, ReadFacts
  <2>5. \A i \in Fetch, p \in Post : UnderWay(PostRead(i, p))' =>
            i \in DOMAIN fetches' /\ p \in fetches'[i].docs
    BY <1>2, <1>10, <1>11, <2>4 DEF Fetching
  <2>6. \A i \in DOMAIN fetches : i \in Fetch /\ fetches[i].docs \subseteq Post
    BY <1>2, FetchFacts
  <2>7. \A i \in DOMAIN fetches' :
           /\ fetches'[i].got \subseteq fetches'[i].docs \ absent'
           /\ faults' = 0 => \A p \in fetches'[i].docs \ fetches'[i].got :
                                 p \in absent' \/ UnderWay(PostRead(i, p))'
    BY <1>1, <1>2, <1>10, <1>11, <2>4, <2>6 DEF Fetching
  <2> QED
    BY <2>3, <2>5, <2>7 DEF Fetching
<1>22. OneList'
  BY <1>5, <1>10, <1>11 DEF OneList
<1>23. Hearts'
  BY <1>1, <1>3, <1>4, <1>5 DEF FeedScreenInv, Hearts
<1>24. Flights'
  <2>1. \A c \in Cell, p \in Post : Flying(c, p)' => Flying(c, p)
    BY <1>1, <1>3, <1>4 DEF Flying, Queued
  <2> QED
    BY <1>1, <2>1, FlightsKept DEF FeedScreenInv
<1>25. ScreenFollowsList'
  BY <1>3, <1>4, ScreenWaits
<1>26. CountsOwnPost'
  BY <1>1 DEF FeedScreenInv, CountsOwnPost
<1>27. PostAnswers'
  BY <1>1, <1>3, <1>4 DEF FeedScreenInv, PostAnswers
<1>28. Counted' /\ TrapsNeedRefresh'
  <2>1. Len(fetches') > 1
    <3>1. Len(fetches) # 0
      BY <1>6 DEF FeedScreenInv, OneList
    <3> QED
      BY <1>6, <1>8, <3>1
  <2>2. Len(fetches') \in Nat
    BY <1>6, <1>8
  <2> QED
    BY <1>1, <2>1, <2>2 DEF Counted, TrapsNeedRefresh
<1> QED
  BY <1>18, <1>19, <1>20, <1>21, <1>22, <1>23, <1>24, <1>25, <1>26, <1>27, <1>28 DEF FeedScreenInv

\* Both ways to a refresh: the control is pulled, or the viewer has posted.
LEMMA RefreshInv ==
    ASSUME FeedScreenInv, PullToRefresh \/ ControllerDidFinishUploadingPost
    PROVE  FeedScreenInv'
<1>1. Event /\ DetectRefresh
  BY DEF PullToRefresh, ControllerDidFinishUploadingPost
<1>2. spinning' \in BOOLEAN
  BY DEF PullToRefresh, ControllerDidFinishUploadingPost, FeedScreenInv, TypeOK
<1> QED
  BY <1>1, <1>2, RefreshSingleInv, RefreshFeedInv

\* A tap on the heart of a cell.
LEMMA DidTapLikeButtonInv ==
    ASSUME FeedScreenInv, NEW c \in Cell, DidTapLikeButton(c)
    PROVE  FeedScreenInv'
<1> DEFINE w == LikeWrite("postLikes", IF cells[c].didLike THEN "delete" ELSE "set",
                          cells[c].post, c)
           liked == cells[c].didLike
<1>1. /\ UNCHANGED <<asked, mainq, feed, userLikes, absent, single, fetches, posts, rows, spinning,
                     trapped, faults, reused>>
      /\ c \in DOMAIN cells /\ Event /\ tapped' = tapped \union {cells[c].post}
      /\ cells' = [cells EXCEPT ![c].didLike = ~liked]
      /\ queue' = WriteMutations(Viewer, <<w>>) \/ queue' = queue
  BY DEF DidTapLikeButton, backendVars
<1>2. TypeOK /\ DeviceOK
  BY DEF FeedScreenInv
<1>3. cells[c] \in ViewModels /\ cells[c].post \in Post /\ liked \in BOOLEAN
  BY <1>1, <1>2 DEF TypeOK, ViewModels
<1>4. w \in Writes /\ w.cell = c /\ w.key = cells[c].post
  <2>1. (IF liked THEN "delete" ELSE "set") \in {"set", "delete"}
    OBVIOUS
  <2> QED
    BY <1>3, <2>1 DEF LikeWrite, Writes
<1>5. (~liked) \in BOOLEAN
  OBVIOUS
<1> HIDE DEF w, liked
<1>6. /\ DOMAIN cells' = DOMAIN cells
      /\ \A d \in DOMAIN cells : d # c => cells'[d] = cells[d]
      /\ cells'[c].post = cells[c].post /\ cells'[c].counts = cells[c].counts
  BY <1>1, <1>3 DEF ViewModels
<1>7. cells'[c] \in ViewModels
  <2> DEFINE x == ~liked
  <2>1. x \in BOOLEAN
    BY <1>5
  <2>2. cells' = [cells EXCEPT ![c].didLike = x]
    BY <1>1
  <2> HIDE DEF x
  <2> QED
    BY <1>1, <1>3, <2>1, <2>2 DEF ViewModels
<1>8. /\ DOMAIN queue' = User /\ queue'[Viewer] \in Seq(Writes)
      /\ Queued' \subseteq Queued \union {w}
  <2>1. CASE queue' = WriteMutations(Viewer, <<w>>)
    BY <1>2, <1>4, <2>1, WriteFacts
  <2>2. CASE queue' = queue
    BY <1>2, <2>2 DEF DeviceOK, Queued
  <2> QED
    BY <1>1, <2>1, <2>2
<1>9. Waiting' = Waiting
  BY <1>1 DEF Waiting
<1>10. TypeOK'
  <2>1. \A d \in DOMAIN cells' : cells'[d] \in ViewModels
    BY <1>2, <1>6, <1>7 DEF TypeOK
  <2>2. tapped' \subseteq Post
    BY <1>1, <1>2, <1>3 DEF TypeOK
  <2> QED
    BY <1>1, <1>2, <1>6, <2>1, <2>2 DEF TypeOK
<1>11. DeviceOK'
  <2>1. events \in Nat /\ events' \in Nat /\ events' <= MaxEvents /\ events' = events + 1
    BY <1>1, <1>2, EventFacts DEF DeviceOK
  <2>2. Len(fetches) \in Nat /\ Len(fetches) <= events + 1
    BY <1>2, FetchFacts DEF DeviceOK
  <2>3. Len(fetches') <= events' + 1
    BY <1>1, <2>1, <2>2
  <2> QED
    BY <1>1, <1>2, <1>8, <2>1, <2>3 DEF DeviceOK
<1>12. \A r \in Reads : UnderWay(r)' <=> UnderWay(r)
  BY <1>1, <1>9 DEF UnderWay
<1>13. FeedOnce'
  BY <1>1, <1>9 DEF FeedScreenInv, FeedOnce
<1>14. Fetching' /\ OneList'
  BY <1>1, <1>2, <1>12, FetchingKept, OneListKept DEF FeedScreenInv
<1>15. Hearts'
  <2>1. \A p \in Post : UnderWay(CheckRead(p)) => UnderWay(CheckRead(p))'
    BY <1>12, ReadFacts
  <2> QED
    BY <1>1, <1>2, <1>9, <2>1, HeartsKept DEF FeedScreenInv
<1>16. Flights'
  <2> SUFFICES ASSUME NEW d \in Cell, NEW p \in Post, Flying(d, p)'
               PROVE  p \in tapped' /\ (d \in DOMAIN cells' \ reused' => cells'[d].post = p)
    BY DEF Flights
  <2>1. CASE Flying(d, p)
    BY <1>1, <1>6, <2>1 DEF FeedScreenInv, Flights
  <2>2. CASE ~Flying(d, p)
    <3>1. w.cell = d /\ w.key = p
      BY <1>8, <1>9, <2>2 DEF Flying
    <3> QED
      BY <1>1, <1>4, <1>6, <3>1
  <2> QED
    BY <2>1, <2>2
<1>17. ScreenFollowsList'
  <2>1. CASE ReloadWaits
    BY <1>1, <2>1 DEF ScreenFollowsList, ReloadWaits
  <2>2. CASE ~ReloadWaits
    <3>1. /\ rows = Cardinality(DOMAIN posts)
          /\ \A d \in DOMAIN cells :
                /\ cells[d].post \in DOMAIN posts
                /\ cells[d].post \in tapped \/ cells[d].didLike = posts[cells[d].post]
                /\ \A e \in DOMAIN cells : cells[e].post = cells[d].post => e = d
      BY <2>2 DEF FeedScreenInv, ScreenFollowsList
    <3>2. \A d \in DOMAIN cells : cells'[d].post = cells[d].post
      BY <1>6
    <3>3. \A d \in DOMAIN cells' :
             /\ cells'[d].post \in DOMAIN posts'
             /\ \A e \in DOMAIN cells' : cells'[e].post = cells'[d].post => e = d
      BY <1>1, <1>6, <3>1, <3>2
    <3>4. \A d \in DOMAIN cells' :
             cells'[d].post \in tapped' \/ cells'[d].didLike = posts'[cells'[d].post]
      BY <1>1, <1>6, <3>1
    <3>5. rows' = Cardinality(DOMAIN posts')
      BY <1>1, <3>1
    <3> QED
      BY <3>3, <3>4, <3>5 DEF ScreenFollowsList
  <2> QED
    BY <2>1, <2>2
<1>18. CountsOwnPost'
  BY <1>1, <1>6 DEF FeedScreenInv, CountsOwnPost
<1>19. PostAnswers' /\ Counted' /\ TrapsNeedRefresh'
  BY <1>1, <1>9, CountKept
<1> QED
  BY <1>10, <1>11, <1>13, <1>14, <1>15, <1>16, <1>17, <1>18, <1>19 DEF FeedScreenInv

-----------------------------------------------------------------------------
(***************************************************************************)
(* The actions keep the invariant: blocks of the main queue.               *)
(***************************************************************************)

\* What every block keeps, that asks for the reads rs and for no feed.
LEMMA RunCommon ==
    ASSUME FeedScreenInv, NEW b, NEW bs \in {<< >>, <<Reload>>}, Running(b, bs),
           NEW rs, asked' = Ask(Viewer, rs), \A r \in FeedReads : r \notin rs
    PROVE  /\ b \in Blocks /\ b \in Waiting
           /\ DOMAIN mainq' = User /\ mainq'[Viewer] \in Seq(Blocks)
           /\ asked' \in [User -> [Reads -> Nat]]
           /\ UNCHANGED <<feed, userLikes, absent, single, trapped, events, faults>>
           /\ \A c \in Waiting' : c \in Waiting \/ c = Reload
           /\ \A c \in Waiting : c = b \/ c \in Waiting'
           /\ bs = <<Reload>> => Reload \in Waiting'
           /\ FeedOnce'
           /\ \A r \in FeedReads : Answers(b, r) => ~UnderWay(r)'
           /\ \A r \in Reads :
                 /\ r \in rs => UnderWay(r)'
                 /\ UnderWay(r) /\ ~Answers(b, r) => UnderWay(r)'
                 /\ UnderWay(r)' => UnderWay(r) \/ r \in rs
<1>1. TypeOK /\ DeviceOK /\ FeedOnce
  BY DEF FeedScreenInv
<1>2. asked \in [User -> [Reads -> Nat]]
  BY <1>1 DEF TypeOK
<1>3. /\ b \in Blocks
      /\ DOMAIN mainq' = User /\ mainq'[Viewer] \in Seq(Blocks)
      /\ Waiting = {b} \union Elems(Tail(mainq[Viewer]))
      /\ Waiting' = Elems(Tail(mainq[Viewer])) \union Elems(bs)
      /\ UNCHANGED <<feed, userLikes, absent, single, trapped, events, faults>>
  BY <1>1, RunFacts
<1>4. Elems(bs) \subseteq {Reload} /\ (bs = <<Reload>> => Reload \in Elems(bs))
  <2>1. bs = << >> => Elems(bs) = {}
    BY BlockFacts, ElemsFew
  <2>2. bs = <<Reload>> => Elems(bs) = {Reload}
    BY BlockFacts, ElemsFew
  <2> QED
    BY <2>1, <2>2
<1>5. FeedOnce' /\ \A r \in FeedReads : Answers(b, r) => ~UnderWay(r)'
  BY <1>1, <1>2, FeedOnceRun
<1>6. \A r \in Reads :
         /\ r \in rs => UnderWay(r)'
         /\ UnderWay(r) /\ ~Answers(b, r) => UnderWay(r)'
         /\ UnderWay(r)' => UnderWay(r) \/ r \in rs
  BY <1>1, <1>2, RunUnderWay
<1>7. asked' \in [User -> [Reads -> Nat]]
  BY <1>2, AskedFacts
<1> QED
  BY <1>3, <1>4, <1>5, <1>6, <1>7

\* The likes in flight when a block has run that is no completion of a write.
LEMMA RunFlying ==
    ASSUME queue' = queue, \A c \in Waiting' : c \in Waiting \/ c = Reload
    PROVE  \A c \in Cell, p \in Post : Flying(c, p)' => Flying(c, p)
<1>1. Queued' = Queued /\ Reload.type # "ack"
  BY BlockFacts DEF Queued
<1> QED
  BY <1>1 DEF Flying

\* A call of the list changes.
LEMMA FetchChanged ==
    ASSUME TypeOK, DeviceOK, NEW k \in DOMAIN fetches, NEW S \in SUBSET Post,
           fetches' = [fetches EXCEPT ![k].docs = S] \/ fetches' = [fetches EXCEPT ![k].got = S]
    PROVE  /\ fetches' \in Seq([isRenewable : BOOLEAN, docs : SUBSET Post, got : SUBSET Post])
           /\ DOMAIN fetches' = DOMAIN fetches /\ Len(fetches') = Len(fetches)
           /\ \A i \in DOMAIN fetches : i # k => fetches'[i] = fetches[i]
           /\ fetches' = [fetches EXCEPT ![k].docs = S] =>
                 fetches'[k].docs = S /\ fetches'[k].got = fetches[k].got
           /\ fetches' = [fetches EXCEPT ![k].got = S] =>
                 fetches'[k].got = S /\ fetches'[k].docs = fetches[k].docs
<1> DEFINE T == [isRenewable : BOOLEAN, docs : SUBSET Post, got : SUBSET Post]
<1>1. fetches \in Seq(T) /\ fetches[k] \in T
  BY FetchFacts
<1>2. PICK x \in T : /\ fetches' = [fetches EXCEPT ![k] = x]
                     /\ fetches' = [fetches EXCEPT ![k].docs = S] =>
                           x.docs = S /\ x.got = fetches[k].got
                     /\ fetches' = [fetches EXCEPT ![k].got = S] =>
                           x.got = S /\ x.docs = fetches[k].docs
  <2>1. CASE fetches' = [fetches EXCEPT ![k].docs = S]
    <3>1. [fetches[k] EXCEPT !.docs = S] \in T
      BY <1>1
    <3>2. fetches' = [fetches EXCEPT ![k] = [fetches[k] EXCEPT !.docs = S]]
      BY <2>1
    <3>3. fetches' = [fetches EXCEPT ![k].got = S] =>
             /\ [fetches[k] EXCEPT !.docs = S] = [fetches[k] EXCEPT !.got = S]
      BY <1>1, <2>1
    <3>4. /\ [fetches[k] EXCEPT !.docs = S].docs = S
          /\ [fetches[k] EXCEPT !.docs = S].got = fetches[k].got
          /\ [fetches[k] EXCEPT !.got = S].got = S
          /\ [fetches[k] EXCEPT !.got = S].docs = fetches[k].docs
      BY <1>1
    <3> QED
      BY <3>1, <3>2, <3>3, <3>4
  <2>2. CASE fetches' = [fetches EXCEPT ![k].got = S]
    <3>1. [fetches[k] EXCEPT !.got = S] \in T
      BY <1>1
    <3>2. fetches' = [fetches EXCEPT ![k] = [fetches[k] EXCEPT !.got = S]]
      BY <2>2
    <3>3. fetches' = [fetches EXCEPT ![k].docs = S] =>
             /\ [fetches[k] EXCEPT !.docs = S] = [fetches[k] EXCEPT !.got = S]
      BY <1>1, <2>2
    <3>4. /\ [fetches[k] EXCEPT !.docs = S].docs = S
          /\ [fetches[k] EXCEPT !.docs = S].got = fetches[k].got
          /\ [fetches[k] EXCEPT !.got = S].got = S
          /\ [fetches[k] EXCEPT !.got = S].docs = fetches[k].docs
      BY <1>1
    <3> QED
      BY <3>1, <3>2, <3>3, <3>4
  <2> QED
    BY <2>1, <2>2
<1> HIDE DEF T
<1>3. fetches' \in Seq(T) /\ Len(fetches') = Len(fetches) /\ DOMAIN fetches' = DOMAIN fetches
  BY <1>1, <1>2, ExceptSeq, LenProperties
<1>4. fetches'[k] = x /\ \A i \in DOMAIN fetches : i # k => fetches'[i] = fetches[i]
  BY <1>2
<1> QED
  BY <1>2, <1>3, <1>4 DEF T

\* The feed has arrived, for the first and only time.
LEMMA FeedFetchedInv ==
    ASSUME FeedScreenInv, NEW b, FeedFetched(b)
    PROVE  FeedScreenInv'
<1> DEFINE k  == b.r[2]
           rs == {PostRead(k, p) : p \in b.docs}
<1>1. /\ Running(b, << >>) /\ b.type = "answer" /\ b.r \in FeedReads
      /\ fetches' = [fetches EXCEPT ![k].docs = b.docs]
      /\ asked' = Ask(Viewer, rs)
      /\ UNCHANGED <<queue, posts, rows, cells, spinning, tapped, reused>>
  BY DEF FeedFetched, history
<1>2. TypeOK /\ DeviceOK /\ Fetching
  BY DEF FeedScreenInv
<1>3. b \in Blocks
  BY <1>1, <1>2, RunFacts
<1>4. k \in Fetch /\ b.r = FeedRead(k) /\ Answers(b, FeedRead(k)) /\ b.docs \in SUBSET Post
  BY <1>1, <1>3, ReadFacts, BlockFacts DEF Answers
<1>5. \A r \in rs : r \in PostReads /\ r \in Reads
  BY <1>4, ReadFacts
<1>6. \A p \in b.docs : PostRead(k, p) \in rs
  OBVIOUS
<1>7. \A i \in Fetch, p \in Post : PostRead(i, p) \in rs => i = k /\ p \in b.docs
  BY <1>4, ReadFacts
<1> HIDE DEF k, rs
<1>8. \A r \in FeedReads : r \notin rs
  BY <1>5, ReadFacts
<1>9. /\ b \in Waiting
      /\ DOMAIN mainq' = User /\ mainq'[Viewer] \in Seq(Blocks)
      /\ asked' \in [User -> [Reads -> Nat]]
      /\ UNCHANGED <<feed, userLikes, absent, single, trapped, events, faults>>
      /\ \A c \in Waiting' : c \in Waiting \/ c = Reload
      /\ \A c \in Waiting : c = b \/ c \in Waiting'
      /\ FeedOnce'
      /\ \A r \in FeedReads : Answers(b, r) => ~UnderWay(r)'
      /\ \A r \in Reads :
            /\ r \in rs => UnderWay(r)'
            /\ UnderWay(r) /\ ~Answers(b, r) => UnderWay(r)'
            /\ UnderWay(r)' => UnderWay(r) \/ r \in rs
  BY <1>1, <1>8, RunCommon
<1>10. k \in DOMAIN fetches /\ fetches[k].docs = {} /\ fetches[k].got = {}
  <2>1. UnderWay(FeedRead(k))
    BY <1>4, <1>9 DEF UnderWay
  <2> QED
    BY <1>2, <1>4, <2>1 DEF Fetching
<1>11. /\ fetches' \in Seq([isRenewable : BOOLEAN, docs : SUBSET Post, got : SUBSET Post])
       /\ DOMAIN fetches' = DOMAIN fetches /\ Len(fetches') = Len(fetches)
       /\ \A i \in DOMAIN fetches : i # k => fetches'[i] = fetches[i]
       /\ fetches'[k].docs = b.docs /\ fetches'[k].got = fetches[k].got
  BY <1>1, <1>2, <1>4, <1>10, FetchChanged
<1>12. TypeOK'
  BY <1>1, <1>2, <1>9, <1>11 DEF TypeOK
<1>13. DeviceOK'
  <2>1. single => fetches' = << >>
    BY <1>2, <1>10 DEF DeviceOK
  <2> QED
    BY <1>1, <1>2, <1>9, <1>11, <2>1 DEF DeviceOK
<1>14. Fetching'
  <2>1. \A i \in Fetch : UnderWay(FeedRead(i))' => i # k /\ UnderWay(FeedRead(i))
    BY <1>4, <1>8, <1>9, ReadFacts
  <2>2. \A i \in Fetch : UnderWay(FeedRead(i))' =>
           i \in DOMAIN fetches' /\ fetches'[i].docs = {} /\ fetches'[i].got = {}
    BY <1>2, <1>11, <2>1 DEF Fetching
  <2>3. \A i \in Fetch, p \in Post : UnderWay(PostRead(i, p))' =>
           UnderWay(PostRead(i, p)) \/ (i = k /\ p \in b.docs)
    BY <1>7, <1>9, ReadFacts
  <2>4. \A i \in Fetch, p \in Post : UnderWay(PostRead(i, p)) =>
           i # k /\ i \in DOMAIN fetches /\ p \in fetches[i].docs
    BY <1>2, <1>10 DEF Fetching
  <2>5. \A i \in Fetch, p \in Post : UnderWay(PostRead(i, p))' =>
           i \in DOMAIN fetches' /\ p \in fetches'[i].docs
    BY <1>10, <1>11, <2>3, <2>4
  <2>6. \A i \in Fetch, p \in Post : UnderWay(PostRead(i, p)) => UnderWay(PostRead(i, p))'
    <3>1. \A i \in Fetch, p \in Post : ~Answers(b, PostRead(i, p)) /\ PostRead(i, p) \in Reads
      BY <1>1, ReadFacts DEF Answers
    <3> QED
      BY <1>9, <3>1
  <2>7. \A i \in DOMAIN fetches : i \in Fetch /\ fetches[i].docs \subseteq Post
    BY <1>2, FetchFacts
  <2>8. ASSUME NEW i \in DOMAIN fetches'
        PROVE  /\ fetches'[i].got \subseteq fetches'[i].docs \ absent'
               /\ faults' = 0 => \A p \in fetches'[i].docs \ fetches'[i].got :
                                     p \in absent' \/ UnderWay(PostRead(i, p))'
    <3>1. CASE i = k
      <4>1. \A p \in b.docs : UnderWay(PostRead(k, p))'
        BY <1>5, <1>6, <1>9
      <4> QED
        BY <1>10, <1>11, <3>1, <4>1
    <3>2. CASE i # k
      <4>1. fetches'[i] = fetches[i] /\ i \in DOMAIN fetches
        BY <1>11, <3>2
      <4> QED
        BY <1>2, <1>9, <2>6, <2>7, <4>1 DEF Fetching
    <3> QED
      BY <3>1, <3>2
  <2> QED
    BY <2>2, <2>5, <2>8 DEF Fetching
<1>15. OneList'
  BY <1>1, <1>9, <1>11, OneListKept DEF FeedScreenInv
<1>16. Hearts'
  <2>1. \A c \in Waiting' : \A p \in Post \ tapped' : Answers(c, CheckRead(p)) => c \in Waiting
    BY <1>9, BlockFacts DEF Answers
  <2>2. \A p \in Post : UnderWay(CheckRead(p)) => UnderWay(CheckRead(p))'
    <3>1. \A p \in Post : ~Answers(b, CheckRead(p)) /\ CheckRead(p) \in Reads
      BY <1>1, ReadFacts DEF Answers
    <3> QED
      BY <1>9, <3>1
  <2> QED
    BY <1>1, <1>2, <1>9, <2>1, <2>2, HeartsKept DEF FeedScreenInv
<1>17. Flights'
  BY <1>1, <1>9, RunFlying, FlightsKept DEF FeedScreenInv
<1>18. ScreenFollowsList'
  <2>1. \A c \in Waiting : c.type = "reload" => \E d \in Waiting' : d.type = "reload"
    BY <1>1, <1>9
  <2> QED
    BY <1>1, <2>1, ScreenKept DEF FeedScreenInv
<1>19. CountsOwnPost'
  BY <1>1 DEF FeedScreenInv, CountsOwnPost
<1>20. PostAnswers' /\ Counted' /\ TrapsNeedRefresh'
  BY <1>1, <1>9, <1>11, BlockFacts, CountKept
<1> QED
  BY <1>9, <1>12, <1>13, <1>14, <1>15, <1>16, <1>17, <1>18, <1>19, <1>20 DEF FeedScreenInv

\* A post has arrived.
LEMMA PostFetchedInv ==
    ASSUME FeedScreenInv, NEW b, PostFetched(b)
    PROVE  FeedScreenInv'
<1> DEFINE k   == b.r[2]
           p0  == b.r[3]
           got == fetches[k].got \union {p0}
           rs  == {CheckRead(p) : p \in got}
<1>1. /\ Running(b, <<Reload>>) /\ b.type = "answer" /\ b.r \in PostReads /\ b.docs # {}
      /\ fetches' = [fetches EXCEPT ![k].got = got]
      /\ posts' = [p \in got |-> FALSE]
      /\ asked' = Ask(Viewer, rs)
      /\ spinning' = (spinning /\ ~fetches[k].isRenewable)
      /\ UNCHANGED <<queue, rows, cells, tapped, reused>>
  BY DEF PostFetched, history
<1>2. TypeOK /\ DeviceOK /\ Fetching
  BY DEF FeedScreenInv
<1>3. b \in Blocks
  BY <1>1, <1>2, RunFacts
<1>4. k \in Fetch /\ p0 \in Post /\ b.r = PostRead(k, p0) /\ Answers(b, PostRead(k, p0))
  BY <1>1, ReadFacts DEF Answers
<1>5. k \in DOMAIN fetches /\ p0 \in fetches[k].docs /\ p0 \notin absent
  <2>1. b \in Waiting
    BY <1>1, <1>2, RunFacts
  <2>2. UnderWay(PostRead(k, p0))
    BY <1>4, <2>1 DEF UnderWay
  <2>3. b.docs = {p0} \ absent
    BY <1>4, <2>1 DEF FeedScreenInv, PostAnswers
  <2> QED
    BY <1>1, <1>2, <1>4, <2>2, <2>3 DEF Fetching
<1>6. /\ got \in SUBSET Post /\ got \subseteq fetches[k].docs \ absent
      /\ fetches[k].got \subseteq got /\ p0 \in got
  <2>1. fetches[k].got \subseteq fetches[k].docs \ absent /\ fetches[k].docs \subseteq Post
    BY <1>2, <1>5, FetchFacts DEF Fetching
  <2> QED
    BY <1>5, <2>1
<1>7. \A r \in rs : r \in CheckReads /\ r \in Reads
  BY <1>6, ReadFacts
<1>8. \A p \in got : CheckRead(p) \in rs
  OBVIOUS
<1>9. \A p \in fetches[k].docs \ got : p # p0 /\ p \notin fetches[k].got
  OBVIOUS
<1> HIDE DEF k, p0, got, rs
<1>10. \A r \in FeedReads \union PostReads : r \notin rs
  BY <1>7, ReadFacts
<1>11. /\ DOMAIN mainq' = User /\ mainq'[Viewer] \in Seq(Blocks)
       /\ asked' \in [User -> [Reads -> Nat]]
       /\ UNCHANGED <<feed, userLikes, absent, single, trapped, events, faults>>
       /\ \A c \in Waiting' : c \in Waiting \/ c = Reload
       /\ \A c \in Waiting : c = b \/ c \in Waiting'
       /\ Reload \in Waiting'
       /\ FeedOnce'
       /\ \A r \in Reads :
             /\ r \in rs => UnderWay(r)'
             /\ UnderWay(r) /\ ~Answers(b, r) => UnderWay(r)'
             /\ UnderWay(r)' => UnderWay(r) \/ r \in rs
  BY <1>1, <1>10, RunCommon
<1>12. /\ fetches' \in Seq([isRenewable : BOOLEAN, docs : SUBSET Post, got : SUBSET Post])
       /\ DOMAIN fetches' = DOMAIN fetches /\ Len(fetches') = Len(fetches)
       /\ \A i \in DOMAIN fetches : i # k => fetches'[i] = fetches[i]
       /\ fetches'[k].got = got /\ fetches'[k].docs = fetches[k].docs
  BY <1>1, <1>2, <1>5, <1>6, FetchChanged
<1>13. DOMAIN posts' = got /\ \A p \in got : posts'[p] = FALSE
  BY <1>1
<1>14. ~single
  BY <1>2, <1>5 DEF DeviceOK
<1>15. TypeOK'
  <2>1. spinning' \in BOOLEAN
    BY <1>1
  <2>2. DOMAIN posts' \subseteq Post /\ \A p \in DOMAIN posts' : posts'[p] \in BOOLEAN
    BY <1>6, <1>13
  <2> QED
    BY <1>1, <1>2, <1>11, <1>12, <1>14, <2>1, <2>2 DEF TypeOK
<1>16. DeviceOK'
  BY <1>1, <1>2, <1>11, <1>12, <1>14 DEF DeviceOK
<1>17. Fetching'
  <2>1. \A i \in Fetch : UnderWay(FeedRead(i))' => UnderWay(FeedRead(i))
    BY <1>10, <1>11, ReadFacts
  <2>2. ~UnderWay(FeedRead(k))
    BY <1>2, <1>4, <1>5 DEF Fetching
  <2>3. \A i \in Fetch : UnderWay(FeedRead(i))' =>
           i \in DOMAIN fetches' /\ fetches'[i].docs = {} /\ fetches'[i].got = {}
    BY <1>2, <1>12, <2>1, <2>2 DEF Fetching
  <2>4. \A i \in Fetch, p \in Post : UnderWay(PostRead(i, p))' => UnderWay(PostRead(i, p))
    BY <1>10, <1>11, ReadFacts
  <2>5. \A i \in Fetch, p \in Post : UnderWay(PostRead(i, p))' =>
           i \in DOMAIN fetches' /\ p \in fetches'[i].docs
    BY <1>2, <1>12, <2>4 DEF Fetching
  <2>6. \A i \in Fetch, p \in Post : UnderWay(PostRead(i, p)) /\ ~(i = k /\ p = p0)
            => UnderWay(PostRead(i, p))'
    <3>1. \A i \in Fetch, p \in Post :
             PostRead(i, p) \in Reads /\ (Answers(b, PostRead(i, p)) => i = k /\ p = p0)
      BY <1>4, ReadFacts DEF Answers
    <3> QED
      BY <1>11, <3>1
  <2>7. \A i \in DOMAIN fetches : i \in Fetch /\ fetches[i].docs \subseteq Post
    BY <1>2, FetchFacts
  <2>8. ASSUME NEW i \in DOMAIN fetches'
        PROVE  /\ fetches'[i].got \subseteq fetches'[i].docs \ absent'
               /\ faults' = 0 => \A p \in fetches'[i].docs \ fetches'[i].got :
                                     p \in absent' \/ UnderWay(PostRead(i, p))'
    <3>1. CASE i = k
      BY <1>2, <1>5, <1>6, <1>9, <1>11, <1>12, <2>6, <2>7, <3>1 DEF Fetching
    <3>2. CASE i # k
      <4>1. fetches'[i] = fetches[i] /\ i \in DOMAIN fetches
        BY <1>12, <3>2
      <4> QED
        BY <1>2, <1>11, <2>6, <2>7, <3>2, <4>1 DEF Fetching
    <3> QED
      BY <3>1, <3>2
  <2> QED
    BY <2>3, <2>5, <2>8 DEF Fetching
<1>18. OneList'
  BY <1>5, <1>12, <1>13 DEF OneList
<1>19. Hearts'
  <2>1. \A c \in Waiting' : \A p \in Post \ tapped' : Answers(c, CheckRead(p)) => c \in Waiting
    BY <1>11, BlockFacts DEF Answers
  <2>2. \A p \in DOMAIN posts' : UnderWay(CheckRead(p))'
    BY <1>7, <1>8, <1>11, <1>13
  <2>3. \A c \in Waiting' : \A p \in Post \ tapped' :
           Answers(c, CheckRead(p)) => (c.docs # {} <=> p \in userLikes')
    BY <1>1, <1>11, <2>1 DEF FeedScreenInv, Hearts
  <2> QED
    BY <2>2, <2>3 DEF Hearts
<1>20. Flights'
  BY <1>1, <1>11, RunFlying, FlightsKept DEF FeedScreenInv
<1>21. ScreenFollowsList'
  BY <1>11, BlockFacts, ScreenWaits
<1>22. CountsOwnPost'
  BY <1>1 DEF FeedScreenInv, CountsOwnPost
<1>23. PostAnswers'
  BY <1>11, BlockFacts DEF FeedScreenInv, PostAnswers, Answers
<1>24. Counted'
  <2> SUFFICES ASSUME Len(fetches) <= 1 PROVE rows <= Cardinality(got)
    BY <1>1, <1>12, <1>13 DEF Counted
  <2>1. DOMAIN posts \subseteq got
    <3>1. PICK i \in DOMAIN fetches : DOMAIN posts = fetches[i].got
      BY <1>14 DEF FeedScreenInv, OneList
    <3>2. i = k
      BY <1>2, <1>5, FetchFacts
    <3> QED
      BY <1>6, <3>1, <3>2
  <2>2. /\ Cardinality(DOMAIN posts) \in Nat /\ Cardinality(got) \in Nat
        /\ Cardinality(DOMAIN posts) <= Cardinality(got)
    BY <1>2, <1>6, <2>1, CountFacts
  <2>3. rows \in Nat /\ rows <= Cardinality(DOMAIN posts)
    BY <1>2 DEF FeedScreenInv, Counted, TypeOK
  <2> QED
    BY <2>2, <2>3
<1>25. TrapsNeedRefresh'
  BY <1>11, <1>12 DEF FeedScreenInv, TrapsNeedRefresh
<1> QED
  BY <1>11, <1>15, <1>16, <1>17, <1>18, <1>19, <1>20, <1>21, <1>22, <1>23, <1>24, <1>25
     DEF FeedScreenInv

\* A post that does not exist was looked for.
LEMMA PostMissingInv ==
    ASSUME FeedScreenInv, NEW b, PostMissing(b)
    PROVE  FeedScreenInv'
<1> DEFINE k  == b.r[2]
           p0 == b.r[3]
<1>1. /\ Running(b, << >>) /\ b.type = "answer" /\ b.r \in PostReads /\ b.docs = {}
      /\ UNCHANGED <<queue, asked, fetches, posts, rows, cells, spinning, tapped, reused>>
  BY DEF PostMissing, history
<1>2. TypeOK /\ DeviceOK /\ Fetching
  BY DEF FeedScreenInv
<1>3. k \in Fetch /\ p0 \in Post /\ b.r = PostRead(k, p0) /\ Answers(b, PostRead(k, p0))
  BY <1>1, ReadFacts DEF Answers
<1>4. asked' = Ask(Viewer, {})
  BY <1>1, <1>2, AskNone DEF TypeOK
<1>5. /\ b \in Waiting
      /\ DOMAIN mainq' = User /\ mainq'[Viewer] \in Seq(Blocks)
      /\ asked' \in [User -> [Reads -> Nat]]
      /\ UNCHANGED <<feed, userLikes, absent, single, trapped, events, faults>>
      /\ \A c \in Waiting' : c \in Waiting \/ c = Reload
      /\ \A c \in Waiting : c = b \/ c \in Waiting'
      /\ FeedOnce'
      /\ \A r \in Reads :
            /\ UnderWay(r) /\ ~Answers(b, r) => UnderWay(r)'
            /\ UnderWay(r)' => UnderWay(r)
  BY <1>1, <1>4, RunCommon
<1>6. p0 \in absent
  <2>1. b.docs = {p0} \ absent
    BY <1>3, <1>5 DEF FeedScreenInv, PostAnswers
  <2> QED
    BY <1>1, <2>1
<1> HIDE DEF k, p0
<1>7. TypeOK' /\ DeviceOK'
  BY <1>1, <1>2, <1>5 DEF TypeOK, DeviceOK
<1>8. Fetching'
  <2>1. \A i \in Fetch : UnderWay(FeedRead(i))' => UnderWay(FeedRead(i))
    BY <1>5, ReadFacts
  <2>2. \A i \in Fetch, p \in Post : UnderWay(PostRead(i, p))' => UnderWay(PostRead(i, p))
    BY <1>5, ReadFacts
  <2>3. \A i \in Fetch, p \in Post : UnderWay(PostRead(i, p)) /\ p # p0 => UnderWay(PostRead(i, p))'
    <3>1. \A i \in Fetch, p \in Post :
             PostRead(i, p) \in Reads /\ (Answers(b, PostRead(i, p)) => p = p0)
      BY <1>3, ReadFacts DEF Answers
    <3> QED
      BY <1>5, <3>1
  <2>4. \A i \in DOMAIN fetches : i \in Fetch /\ fetches[i].docs \subseteq Post
    BY <1>2, FetchFacts
  <2>5. \A i \in Fetch : UnderWay(FeedRead(i))' =>
           i \in DOMAIN fetches' /\ fetches'[i].docs = {} /\ fetches'[i].got = {}
    BY <1>1, <1>2, <2>1 DEF Fetching
  <2>6. \A i \in Fetch, p \in Post : UnderWay(PostRead(i, p))' =>
           i \in DOMAIN fetches' /\ p \in fetches'[i].docs
    BY <1>1, <1>2, <2>2 DEF Fetching
  <2>7. \A i \in DOMAIN fetches' :
           /\ fetches'[i].got \subseteq fetches'[i].docs \ absent'
           /\ faults' = 0 => \A p \in fetches'[i].docs \ fetches'[i].got :
                                 p \in absent' \/ UnderWay(PostRead(i, p))'
    BY <1>1, <1>2, <1>5, <1>6, <2>3, <2>4 DEF Fetching
  <2> QED
    BY <2>5, <2>6, <2>7 DEF Fetching
<1>9. OneList'
  BY <1>1, <1>5, OneListKept DEF FeedScreenInv
<1>10. Hearts'
  <2>1. \A c \in Waiting' : \A p \in Post \ tapped' : Answers(c, CheckRead(p)) => c \in Waiting
    BY <1>5, BlockFacts DEF Answers
  <2>2. \A p \in Post : UnderWay(CheckRead(p)) => UnderWay(CheckRead(p))'
    <3>1. \A p \in Post : ~Answers(b, CheckRead(p)) /\ CheckRead(p) \in Reads
      BY <1>1, ReadFacts DEF Answers
    <3> QED
      BY <1>5, <3>1
  <2> QED
    BY <1>1, <1>2, <1>5, <2>1, <2>2, HeartsKept DEF FeedScreenInv
<1>11. Flights'
  BY <1>1, <1>5, RunFlying, FlightsKept DEF FeedScreenInv
<1>12. ScreenFollowsList'
  <2>1. \A c \in Waiting : c.type = "reload" => \E d \in Waiting' : d.type = "reload"
    BY <1>1, <1>5
  <2> QED
    BY <1>1, <2>1, ScreenKept DEF FeedScreenInv
<1>13. CountsOwnPost'
  BY <1>1 DEF FeedScreenInv, CountsOwnPost
<1>14. PostAnswers' /\ Counted' /\ TrapsNeedRefresh'
  BY <1>1, <1>5, BlockFacts, CountKept
<1> QED
  BY <1>5, <1>7, <1>8, <1>9, <1>10, <1>11, <1>12, <1>13, <1>14 DEF FeedScreenInv

\* A check has arrived.
LEMMA CheckedInv ==
    ASSUME FeedScreenInv, NEW b, Checked(b)
    PROVE  FeedScreenInv'
<1> DEFINE p0    == b.r[2]
           found == b.docs # {}
<1>1. /\ b.type = "answer" /\ b.r \in CheckReads
      /\ Running(b, IF p0 \in DOMAIN posts THEN <<Reload>> ELSE << >>)
      /\ posts' = IF p0 \in DOMAIN posts THEN [posts EXCEPT ![p0] = found] ELSE posts
      /\ UNCHANGED <<queue, asked, fetches, rows, cells, spinning, tapped, reused>>
  BY DEF Checked, history
<1>2. TypeOK /\ DeviceOK /\ Fetching
  BY DEF FeedScreenInv
<1>3. PICK bs \in {<< >>, <<Reload>>} :
         Running(b, bs) /\ (p0 \in DOMAIN posts => bs = <<Reload>>)
  BY <1>1
<1>4. p0 \in Post /\ b.r = CheckRead(p0) /\ found \in BOOLEAN
  BY <1>1, ReadFacts
<1>5. \A r \in FeedReads \union PostReads : ~Answers(b, r)
  BY <1>1, ReadFacts DEF Answers
<1>6. Answers(b, CheckRead(p0)) /\ \A p \in Post : Answers(b, CheckRead(p)) => p = p0
  BY <1>1, <1>4, ReadFacts DEF Answers
<1>7. asked' = Ask(Viewer, {})
  BY <1>1, <1>2, AskNone DEF TypeOK
<1>8. /\ b \in Waiting
      /\ DOMAIN mainq' = User /\ mainq'[Viewer] \in Seq(Blocks)
      /\ asked' \in [User -> [Reads -> Nat]]
      /\ UNCHANGED <<feed, userLikes, absent, single, trapped, events, faults>>
      /\ \A c \in Waiting' : c \in Waiting \/ c = Reload
      /\ \A c \in Waiting : c = b \/ c \in Waiting'
      /\ bs = <<Reload>> => Reload \in Waiting'
      /\ FeedOnce'
      /\ \A r \in Reads :
            /\ UnderWay(r) /\ ~Answers(b, r) => UnderWay(r)'
            /\ UnderWay(r)' => UnderWay(r)
  BY <1>3, <1>7, RunCommon
<1>10. p0 \notin tapped => (found <=> p0 \in userLikes)
  BY <1>4, <1>6, <1>8 DEF FeedScreenInv, Hearts
<1> HIDE DEF p0, found
<1>11. /\ DOMAIN posts' = DOMAIN posts
       /\ \A p \in DOMAIN posts : p # p0 => posts'[p] = posts[p]
       /\ p0 \in DOMAIN posts => posts'[p0] = found
       /\ p0 \notin DOMAIN posts => posts' = posts
  BY <1>1
<1>12. TypeOK'
  <2>1. \A p \in DOMAIN posts' : posts'[p] \in BOOLEAN
    BY <1>2, <1>4, <1>11 DEF TypeOK
  <2> QED
    BY <1>1, <1>2, <1>8, <1>11, <2>1 DEF TypeOK
<1>13. DeviceOK'
  BY <1>1, <1>2, <1>8 DEF DeviceOK
<1>14. Fetching'
  <2>1. \A r \in Reads : r \notin CheckReads => ~Answers(b, r)
    BY <1>5, ReadFacts
  <2> QED
    BY <1>1, <1>2, <1>8, <2>1, FetchingKept
<1>15. OneList'
  BY <1>1, <1>8, <1>11, OneListKept DEF FeedScreenInv
<1>16. Hearts'
  <2>1. \A c \in Waiting' : \A p \in Post \ tapped' :
           Answers(c, CheckRead(p)) => (c.docs # {} <=> p \in userLikes')
    <3>1. \A c \in Waiting' : \A p \in Post : Answers(c, CheckRead(p)) => c \in Waiting
      BY <1>8, BlockFacts DEF Answers
    <3> QED
      BY <1>1, <1>8, <3>1 DEF FeedScreenInv, Hearts
  <2>2. ASSUME faults' = 0, NEW p \in DOMAIN posts' \ tapped', ~UnderWay(CheckRead(p))'
        PROVE  posts'[p] <=> p \in userLikes'
    <3>1. p \in DOMAIN posts /\ p \in Post /\ p \notin tapped /\ faults = 0 /\ userLikes' = userLikes
      BY <1>1, <1>2, <1>8, <1>11, <2>2 DEF TypeOK
    <3>2. CASE p = p0
      BY <1>10, <1>11, <3>1, <3>2
    <3>3. CASE p # p0
      <4>1. CheckRead(p) \in Reads /\ ~Answers(b, CheckRead(p))
        BY <1>6, <3>1, <3>3, ReadFacts
      <4>2. ~UnderWay(CheckRead(p))
        BY <1>8, <2>2, <4>1
      <4>3. posts[p] <=> p \in userLikes
        BY <3>1, <4>2 DEF FeedScreenInv, Hearts
      <4>4. posts'[p] = posts[p]
        BY <1>11, <3>1, <3>3
      <4> QED
        BY <3>1, <4>3, <4>4
    <3> QED
      BY <3>2, <3>3
  <2> QED
    BY <2>1, <2>2 DEF Hearts
<1>17. Flights'
  BY <1>1, <1>8, RunFlying, FlightsKept DEF FeedScreenInv
<1>18. ScreenFollowsList'
  <2>1. CASE p0 \in DOMAIN posts
    BY <1>3, <1>8, <2>1, BlockFacts, ScreenWaits
  <2>2. CASE p0 \notin DOMAIN posts
    <3>1. \A c \in Waiting : c.type = "reload" => \E d \in Waiting' : d.type = "reload"
      BY <1>1, <1>8
    <3> QED
      BY <1>1, <1>11, <2>2, <3>1, ScreenKept DEF FeedScreenInv
  <2> QED
    BY <2>1, <2>2
<1>19. CountsOwnPost'
  BY <1>1 DEF FeedScreenInv, CountsOwnPost
<1>20. PostAnswers' /\ Counted' /\ TrapsNeedRefresh'
  BY <1>1, <1>8, <1>11, BlockFacts, CountKept
<1> QED
  BY <1>8, <1>12, <1>13, <1>14, <1>15, <1>16, <1>17, <1>18, <1>19, <1>20 DEF FeedScreenInv

\* What a completion of a write keeps: it asks for nothing and posts nothing.
LEMMA AckRun ==
    ASSUME FeedScreenInv, NEW b, Running(b, << >>), b.type # "answer",
           UNCHANGED <<asked, fetches, posts, spinning, tapped>>
    PROVE  /\ b \in Blocks /\ b \in Waiting
           /\ DOMAIN mainq' = User /\ mainq'[Viewer] \in Seq(Blocks)
           /\ asked' \in [User -> [Reads -> Nat]]
           /\ UNCHANGED <<feed, userLikes, absent, single, trapped, events, faults>>
           /\ \A c \in Waiting' : c \in Waiting \/ c = Reload
           /\ \A c \in Waiting : c = b \/ c \in Waiting'
           /\ FeedOnce' /\ Fetching' /\ OneList' /\ Hearts'
<1>1. TypeOK /\ DeviceOK /\ Fetching
  BY DEF FeedScreenInv
<1>2. asked' = Ask(Viewer, {})
  BY <1>1, AskNone DEF TypeOK
<1>3. /\ b \in Blocks /\ b \in Waiting
      /\ DOMAIN mainq' = User /\ mainq'[Viewer] \in Seq(Blocks)
      /\ asked' \in [User -> [Reads -> Nat]]
      /\ UNCHANGED <<feed, userLikes, absent, single, trapped, events, faults>>
      /\ \A c \in Waiting' : c \in Waiting \/ c = Reload
      /\ \A c \in Waiting : c = b \/ c \in Waiting'
      /\ FeedOnce'
      /\ \A r \in Reads :
            /\ UnderWay(r) /\ ~Answers(b, r) => UnderWay(r)'
            /\ UnderWay(r)' => UnderWay(r)
  BY <1>2, RunCommon
<1>4. \A r : ~Answers(b, r)
  BY DEF Answers
<1>5. Fetching' /\ OneList'
  BY <1>1, <1>3, <1>4, FetchingKept, OneListKept DEF FeedScreenInv
<1>6. Hearts'
  <2>1. \A c \in Waiting' : \A p \in Post \ tapped' : Answers(c, CheckRead(p)) => c \in Waiting
    BY <1>3, BlockFacts DEF Answers
  <2>2. \A p \in Post : UnderWay(CheckRead(p)) => UnderWay(CheckRead(p))'
    BY <1>3, <1>4, ReadFacts
  <2> QED
    BY <1>1, <1>3, <2>1, <2>2, HeartsKept DEF FeedScreenInv
<1> QED
  BY <1>3, <1>5, <1>6

\* The first write of a like is decided: the second is issued.
LEMMA PostLikeAckedInv ==
    ASSUME FeedScreenInv, NEW b, PostLikeAcked(b)
    PROVE  FeedScreenInv'
<1> DEFINE w == LikeWrite("userLikes", b.w.op, b.w.key, b.w.cell)
<1>1. /\ Running(b, << >>) /\ b.type = "ack"
      /\ queue' = WriteMutations(Viewer, <<w>>)
      /\ UNCHANGED <<asked, fetches, posts, rows, cells, spinning, tapped, reused>>
  BY DEF PostLikeAcked, history
<1>2. TypeOK /\ DeviceOK
  BY DEF FeedScreenInv
<1>3. /\ b \in Blocks /\ b \in Waiting
      /\ DOMAIN mainq' = User /\ mainq'[Viewer] \in Seq(Blocks)
      /\ asked' \in [User -> [Reads -> Nat]]
      /\ UNCHANGED <<feed, userLikes, absent, single, trapped, events, faults>>
      /\ \A c \in Waiting' : c \in Waiting \/ c = Reload
      /\ \A c \in Waiting : c = b \/ c \in Waiting'
      /\ FeedOnce' /\ Fetching' /\ OneList' /\ Hearts'
  BY <1>1, AckRun
<1>4. w \in Writes /\ w.cell = b.w.cell /\ w.key = b.w.key
  <2>1. b.w \in Writes
    BY <1>1, <1>3, BlockFacts
  <2> QED
    BY <2>1 DEF LikeWrite, Writes
<1> HIDE DEF w
<1>5. DOMAIN queue' = User /\ queue'[Viewer] \in Seq(Writes) /\ Queued' = Queued \union {w}
  BY <1>1, <1>2, <1>4, WriteFacts
<1>6. TypeOK' /\ DeviceOK'
  BY <1>1, <1>2, <1>3, <1>5 DEF TypeOK, DeviceOK
<1>7. Flights'
  <2>1. \A c \in Cell, p \in Post : Flying(c, p)' => Flying(c, p)
    BY <1>1, <1>3, <1>4, <1>5, BlockFacts DEF Flying
  <2> QED
    BY <1>1, <2>1, FlightsKept DEF FeedScreenInv
<1>8. ScreenFollowsList'
  <2>1. \A c \in Waiting : c.type = "reload" => \E d \in Waiting' : d.type = "reload"
    BY <1>1, <1>3
  <2> QED
    BY <1>1, <2>1, ScreenKept DEF FeedScreenInv
<1>9. CountsOwnPost'
  BY <1>1 DEF FeedScreenInv, CountsOwnPost
<1>10. PostAnswers' /\ Counted' /\ TrapsNeedRefresh'
  BY <1>1, <1>3, BlockFacts, CountKept
<1> QED
  BY <1>3, <1>6, <1>7, <1>8, <1>9, <1>10 DEF FeedScreenInv

\* The completion of a like writes the count into the tapped cell, which still
\* shows the post unless it was reused.
LEMMA LikeCompletionInv ==
    ASSUME FeedScreenInv, NEW b, LikeCompletion(b)
    PROVE  FeedScreenInv'
<1>1. /\ Running(b, << >>) /\ b.type = "ack"
      /\ cells' = IF b.ok /\ b.w.cell \in DOMAIN cells
                  THEN [cells EXCEPT ![b.w.cell].counts = b.w.key] ELSE cells
      /\ UNCHANGED <<queue, asked, fetches, posts, rows, spinning, tapped, reused>>
  BY DEF LikeCompletion, history
<1>2. TypeOK /\ DeviceOK
  BY DEF FeedScreenInv
<1>3. /\ b \in Blocks /\ b \in Waiting
      /\ DOMAIN mainq' = User /\ mainq'[Viewer] \in Seq(Blocks)
      /\ asked' \in [User -> [Reads -> Nat]]
      /\ UNCHANGED <<feed, userLikes, absent, single, trapped, events, faults>>
      /\ \A c \in Waiting' : c \in Waiting \/ c = Reload
      /\ \A c \in Waiting : c = b \/ c \in Waiting'
      /\ FeedOnce' /\ Fetching' /\ OneList' /\ Hearts'
  BY <1>1, AckRun
<1>4. b.w.cell \in Cell /\ b.w.key \in Post /\ Flying(b.w.cell, b.w.key)
  <2>1. b.w \in Writes
    BY <1>1, <1>3, BlockFacts
  <2> QED
    BY <1>1, <1>3, <2>1 DEF Writes, Flying
<1>5. \A c \in DOMAIN cells : cells[c] \in ViewModels
  BY <1>2 DEF TypeOK
<1>6. /\ DOMAIN cells' = DOMAIN cells
      /\ \A c \in DOMAIN cells :
            /\ cells'[c] \in ViewModels
            /\ cells'[c].post = cells[c].post /\ cells'[c].didLike = cells[c].didLike
            /\ cells'[c].counts = cells[c].counts \/ (c = b.w.cell /\ cells'[c].counts = b.w.key)
  <2>1. CASE cells' = cells
    BY <1>5, <2>1
  <2>2. CASE b.w.cell \in DOMAIN cells /\ cells' = [cells EXCEPT ![b.w.cell].counts = b.w.key]
    BY <1>4, <1>5, <2>2 DEF ViewModels
  <2> QED
    BY <1>1, <2>1, <2>2
<1>7. TypeOK' /\ DeviceOK'
  BY <1>1, <1>2, <1>3, <1>6 DEF TypeOK, DeviceOK
<1>8. Flights'
  BY <1>1, <1>3, <1>6, RunFlying, FlightsKept DEF FeedScreenInv
<1>9. ScreenFollowsList'
  <2>1. \A c \in Waiting : c.type = "reload" => \E d \in Waiting' : d.type = "reload"
    BY <1>1, <1>3
  <2> QED
    BY <1>1, <1>6, <2>1, ScreenKept DEF FeedScreenInv
<1>10. CountsOwnPost'
  <2> SUFFICES ASSUME NEW c \in DOMAIN cells
               PROVE  \/ cells'[c].counts = cells'[c].post
                      \/ c \in reused /\ cells'[c].counts \in tapped
    BY <1>1, <1>6 DEF CountsOwnPost
  <2>1. cells[c].counts = cells[c].post \/ (c \in reused /\ cells[c].counts \in tapped)
    BY DEF FeedScreenInv, CountsOwnPost
  <2>2. b.w.key \in tapped /\ (c = b.w.cell /\ c \notin reused => cells[c].post = b.w.key)
    BY <1>4 DEF FeedScreenInv, Flights
  <2> QED
    BY <1>6, <2>1, <2>2
<1>11. PostAnswers' /\ Counted' /\ TrapsNeedRefresh'
  BY <1>1, <1>3, BlockFacts, CountKept
<1> QED
  BY <1>3, <1>7, <1>8, <1>9, <1>10, <1>11 DEF FeedScreenInv

\* The screen is reloaded.
LEMMA ReloadDataInv ==
    ASSUME FeedScreenInv, NEW b, ReloadData(b)
    PROVE  FeedScreenInv'
<1>1. /\ Running(b, << >>) /\ b.type = "reload" /\ rows' = NumberOfItems
      /\ cells' = << >> /\ reused' = {}
      /\ UNCHANGED <<queue, asked, fetches, posts, spinning, tapped>>
  BY DEF ReloadData
<1>2. TypeOK /\ DeviceOK
  BY DEF FeedScreenInv
<1>3. /\ b \in Blocks /\ b \in Waiting
      /\ DOMAIN mainq' = User /\ mainq'[Viewer] \in Seq(Blocks)
      /\ asked' \in [User -> [Reads -> Nat]]
      /\ UNCHANGED <<feed, userLikes, absent, single, trapped, events, faults>>
      /\ \A c \in Waiting' : c \in Waiting \/ c = Reload
      /\ \A c \in Waiting : c = b \/ c \in Waiting'
      /\ FeedOnce' /\ Fetching' /\ OneList' /\ Hearts'
  BY <1>1, AckRun
<1>4. DOMAIN cells' = {}
  BY <1>1
<1>5. rows' = Cardinality(DOMAIN posts') /\ rows' \in Nat
  BY <1>1, <1>2, CountFacts
<1>6. TypeOK' /\ DeviceOK'
  BY <1>1, <1>2, <1>3, <1>4, <1>5 DEF TypeOK, DeviceOK
<1>7. Flights'
  <2>1. \A c \in Cell, p \in Post : Flying(c, p)' => Flying(c, p)
    BY <1>1, <1>3, RunFlying
  <2> QED
    BY <1>1, <1>4, <2>1 DEF FeedScreenInv, Flights
<1>8. ScreenFollowsList' /\ CountsOwnPost'
  BY <1>4, <1>5 DEF ScreenFollowsList, CountsOwnPost
<1>9. PostAnswers'
  <2>1. \A c \in Waiting' : \A r : Answers(c, r) => c \in Waiting
    BY <1>3, BlockFacts DEF Answers
  <2> QED
    BY <1>3, <2>1 DEF FeedScreenInv, PostAnswers
<1>10. Counted' /\ TrapsNeedRefresh'
  BY <1>1, <1>3, <1>5 DEF FeedScreenInv, Counted, TrapsNeedRefresh
<1> QED
  BY <1>3, <1>6, <1>7, <1>8, <1>9, <1>10 DEF FeedScreenInv

-----------------------------------------------------------------------------
(***************************************************************************)
(* The actions keep the invariant: the rows are laid out.                  *)
(***************************************************************************)

\* What UIKit keeps: it touches nothing but the cells.
LEMMA LayoutCommon ==
    ASSUME FeedScreenInv,
           UNCHANGED <<queue, asked, mainq, feed, userLikes, absent, single, fetches, posts, rows>>,
           UNCHANGED <<spinning, events, faults, tapped>>
    PROVE  /\ DeviceOK' /\ FeedOnce' /\ Fetching' /\ OneList' /\ Hearts' /\ PostAnswers' /\ Counted'
           /\ \A c \in Cell, p \in Post : Flying(c, p)' => Flying(c, p)
           /\ ReloadWaits' = ReloadWaits
<1>1. Waiting' = Waiting /\ Queued' = Queued
  BY DEF Waiting, Queued
<1>2. DeviceOK' /\ Counted' /\ PostAnswers' /\ ReloadWaits' = ReloadWaits
  BY <1>1 DEF FeedScreenInv, DeviceOK, Counted, PostAnswers, ReloadWaits
<1>3. FeedOnce' /\ Fetching' /\ OneList' /\ Hearts'
  BY <1>1 DEF FeedScreenInv, FeedOnce, Fetching, OneList, Hearts, UnderWay
<1>4. \A c \in Cell, p \in Post : Flying(c, p)' => Flying(c, p)
  BY <1>1 DEF Flying
<1> QED
  BY <1>2, <1>3, <1>4

\* A cell leaves the screen.
LEMMA ScrolledOutInv ==
    ASSUME FeedScreenInv, NEW c \in Cell, ScrolledOut(c)
    PROVE  FeedScreenInv'
<1>1. /\ UNCHANGED <<queue, asked, mainq, feed, userLikes, absent, single, fetches, posts, rows>>
      /\ UNCHANGED <<spinning, trapped, events, faults, tapped>>
      /\ cells' = [d \in DOMAIN cells \ {c} |-> cells[d]] /\ reused' = reused \ {c}
  BY DEF ScrolledOut, sdkVars, backendVars, counters
<1>2. DOMAIN cells' = DOMAIN cells \ {c} /\ \A d \in DOMAIN cells' : cells'[d] = cells[d]
  BY <1>1
<1>3. /\ DeviceOK' /\ FeedOnce' /\ Fetching' /\ OneList' /\ Hearts' /\ PostAnswers' /\ Counted'
      /\ \A d \in Cell, p \in Post : Flying(d, p)' => Flying(d, p)
      /\ ReloadWaits' = ReloadWaits
  BY <1>1, LayoutCommon
<1>4. TypeOK'
  BY <1>1, <1>2 DEF FeedScreenInv, TypeOK
<1>5. Flights'
  BY <1>1, <1>2, <1>3 DEF FeedScreenInv, Flights
<1>6. ScreenFollowsList'
  BY <1>1, <1>2, <1>3 DEF FeedScreenInv, ScreenFollowsList
<1>7. CountsOwnPost' /\ TrapsNeedRefresh'
  BY <1>1, <1>2 DEF FeedScreenInv, CountsOwnPost, TrapsNeedRefresh
<1> QED
  BY <1>3, <1>4, <1>5, <1>6, <1>7 DEF FeedScreenInv

\* A cell is configured for a row that came into sight.
LEMMA CellForItemAtInv ==
    ASSUME FeedScreenInv, NEW c \in Cell, CellForItemAt(c)
    PROVE  FeedScreenInv'
<1>1. /\ UNCHANGED <<queue, asked, mainq, feed, userLikes, absent, single, fetches, posts, rows>>
      /\ UNCHANGED <<spinning, trapped, events, faults, tapped>>
      /\ c \notin DOMAIN cells
  BY DEF CellForItemAt, sdkVars, backendVars, counters
<1>2. PICK p \in DOMAIN posts :
         /\ ReloadWaits \/ \A d \in DOMAIN cells : cells[d].post # p
         /\ cells' = [d \in DOMAIN cells \union {c} |->
                        IF d = c THEN ViewModel(p, posts[p]) ELSE cells[d]]
         /\ reused' = IF \E q \in Post \ {p} : <<c, q>> \in InFlight
                      THEN reused \union {c} ELSE reused
  BY DEF CellForItemAt
<1>3. /\ DOMAIN cells' = DOMAIN cells \union {c}
      /\ \A d \in DOMAIN cells : cells'[d] = cells[d] /\ d # c
      /\ cells'[c].post = p /\ cells'[c].counts = p /\ cells'[c].didLike = posts[p]
      /\ cells'[c] = ViewModel(p, posts[p])
  BY <1>1, <1>2 DEF ViewModel
<1>4. /\ DeviceOK' /\ FeedOnce' /\ Fetching' /\ OneList' /\ Hearts' /\ PostAnswers' /\ Counted'
      /\ \A d \in Cell, q \in Post : Flying(d, q)' => Flying(d, q)
      /\ ReloadWaits' = ReloadWaits
  BY <1>1, LayoutCommon
<1>5. p \in Post /\ posts[p] \in BOOLEAN
  BY DEF FeedScreenInv, TypeOK
<1>6. reused \subseteq reused' /\ reused' \subseteq reused \union {c}
  BY <1>2
<1>7. TypeOK'
  <2>1. cells'[c] \in ViewModels
    BY <1>3, <1>5 DEF ViewModel, ViewModels
  <2>2. DOMAIN cells' \subseteq Cell /\ \A d \in DOMAIN cells' : cells'[d] \in ViewModels
    BY <1>3, <2>1 DEF FeedScreenInv, TypeOK
  <2>3. reused' \subseteq DOMAIN cells'
    BY <1>3, <1>6 DEF FeedScreenInv, TypeOK
  <2> QED
    BY <1>1, <2>2, <2>3 DEF FeedScreenInv, TypeOK
<1>8. Flights'
  <2> SUFFICES ASSUME NEW d \in Cell, NEW q \in Post, Flying(d, q)'
               PROVE  q \in tapped' /\ (d \in DOMAIN cells' \ reused' => cells'[d].post = q)
    BY DEF Flights
  <2>1. Flying(d, q) /\ q \in tapped'
    BY <1>1, <1>4 DEF FeedScreenInv, Flights
  <2>2. CASE d = c
    <3>1. <<c, q>> \in InFlight
      BY <2>1, <2>2, InFlightIs
    <3> QED
      BY <1>2, <1>3, <2>1, <2>2, <3>1
  <2>3. CASE d # c
    BY <1>3, <1>6, <2>1, <2>3 DEF FeedScreenInv, Flights
  <2> QED
    BY <2>2, <2>3
<1>9. ScreenFollowsList'
  <2>1. CASE ReloadWaits
    BY <1>4, <2>1 DEF ScreenFollowsList
  <2>2. CASE ~ReloadWaits
    <3>1. /\ rows = Cardinality(DOMAIN posts)
          /\ \A d \in DOMAIN cells :
                /\ cells[d].post \in DOMAIN posts /\ cells[d].post # p
                /\ cells[d].post \in tapped \/ cells[d].didLike = posts[cells[d].post]
                /\ \A e \in DOMAIN cells : cells[e].post = cells[d].post => e = d
      BY <1>2, <2>2 DEF FeedScreenInv, ScreenFollowsList
    <3>2. \A d \in DOMAIN cells' :
             /\ cells'[d].post \in DOMAIN posts'
             /\ cells'[d].post \in tapped' \/ cells'[d].didLike = posts'[cells'[d].post]
      BY <1>1, <1>3, <3>1
    <3>3. \A d, e \in DOMAIN cells' : cells'[e].post = cells'[d].post => e = d
      BY <1>3, <3>1
    <3>4. rows' = Cardinality(DOMAIN posts')
      BY <1>1, <3>1
    <3> QED
      BY <3>2, <3>3, <3>4 DEF ScreenFollowsList
  <2> QED
    BY <2>1, <2>2
<1>10. CountsOwnPost' /\ TrapsNeedRefresh'
  BY <1>1, <1>3, <1>6 DEF FeedScreenInv, CountsOwnPost, TrapsNeedRefresh
<1> QED
  BY <1>4, <1>7, <1>8, <1>9, <1>10 DEF FeedScreenInv

\* A row comes into sight that the list does not have: there was a refresh.
LEMMA IndexOutOfRangeInv ==
    ASSUME FeedScreenInv, IndexOutOfRange
    PROVE  FeedScreenInv'
<1>1. /\ UNCHANGED <<queue, asked, mainq, feed, userLikes, absent, single, fetches, posts, rows>>
      /\ UNCHANGED <<cells, spinning, events, faults, tapped, reused>>
      /\ trapped' = TRUE /\ ~single /\ Cardinality(DOMAIN posts) < rows
  BY DEF IndexOutOfRange, sdkVars, backendVars, counters, history
<1>2. /\ DeviceOK' /\ FeedOnce' /\ Fetching' /\ OneList' /\ Hearts' /\ PostAnswers' /\ Counted'
      /\ \A d \in Cell, p \in Post : Flying(d, p)' => Flying(d, p)
      /\ ReloadWaits' = ReloadWaits
  BY <1>1, LayoutCommon
<1>3. TypeOK'
  BY <1>1 DEF FeedScreenInv, TypeOK
<1>4. Flights'
  BY <1>1, <1>2, FlightsKept DEF FeedScreenInv
<1>5. ScreenFollowsList' /\ CountsOwnPost'
  BY <1>1, <1>2 DEF FeedScreenInv, ScreenFollowsList, CountsOwnPost
<1>6. TrapsNeedRefresh'
  <2>1. rows \in Nat /\ Cardinality(DOMAIN posts) \in Nat /\ Len(fetches) \in Nat
    BY CountFacts, FetchFacts DEF FeedScreenInv, TypeOK
  <2>2. ~(Len(fetches) <= 1)
    BY <1>1, <2>1 DEF FeedScreenInv, Counted
  <2> QED
    BY <1>1, <2>1, <2>2 DEF TrapsNeedRefresh
<1> QED
  BY <1>2, <1>3, <1>4, <1>5, <1>6 DEF FeedScreenInv

-----------------------------------------------------------------------------
(***************************************************************************)
(* The theorems.                                                           *)
(***************************************************************************)

\* The feed is asked for, or the single post is checked.
LEMMA InitInv ==
    ASSUME Init
    PROVE  FeedScreenInv
<1>1. /\ feed \in SUBSET Post /\ userLikes = Liked /\ queue = [u \in User |-> << >>]
      /\ rows = NumberOfItems /\ cells = << >> /\ spinning = FALSE /\ trapped = FALSE
      /\ events = 0 /\ faults = 0 /\ tapped = {} /\ reused = {} /\ absent \subseteq Post
  BY PostAssumption DEF Init
<1>0. spinning \in BOOLEAN /\ trapped \in BOOLEAN
  BY <1>1
<1>2. queue[Viewer] = << >> /\ Queued = {} /\ DOMAIN queue = User /\ queue[Viewer] \in Seq(Writes)
  BY <1>1, ViewerAssumption DEF Queued, Elems
<1>3. DOMAIN cells = {}
  BY <1>1
<1>4. events \in Nat /\ events <= MaxEvents /\ faults \in Nat
  BY <1>1, FeedBounds
<1>5. NewFetch(FALSE) \in [isRenewable : BOOLEAN, docs : SUBSET Post, got : SUBSET Post]
      /\ NewFetch(FALSE).docs = {} /\ NewFetch(FALSE).got = {}
  BY DEF NewFetch
<1>6. 1 \in Fetch
  BY FeedBounds DEF Fetch
<1>7. CASE /\ single = FALSE /\ fetches = <<NewFetch(FALSE)>>
           /\ posts = << >> /\ mainq = [u \in User |-> << >>]
           /\ asked = [u \in User |-> [r \in Reads |-> IF r = FeedRead(1) THEN 1 ELSE 0]]
  <2>1. /\ mainq[Viewer] = << >> /\ Waiting = {} /\ DOMAIN mainq = User
        /\ mainq[Viewer] \in Seq(Blocks)
    BY <1>7, ViewerAssumption DEF Waiting, Elems
  <2>2. DOMAIN posts = {}
    BY <1>7
  <2>3. /\ fetches \in Seq([isRenewable : BOOLEAN, docs : SUBSET Post, got : SUBSET Post])
        /\ DOMAIN fetches = {1} /\ Len(fetches) = 1 /\ fetches[1] = NewFetch(FALSE)
    <3> DEFINE T == [isRenewable : BOOLEAN, docs : SUBSET Post, got : SUBSET Post]
               n == NewFetch(FALSE)
    <3>1. n \in T /\ fetches = <<n>>
      BY <1>5, <1>7
    <3> HIDE DEF T, n
    <3>2. fetches \in Seq(T) /\ DOMAIN fetches = {1} /\ Len(fetches) = 1 /\ fetches[1] = n
      BY <3>1
    <3> QED
      BY <3>2 DEF T, n
  <2>4. asked \in [User -> [Reads -> Nat]]
    BY <1>7
  <2>5. \A r \in Reads : asked[Viewer][r] = IF r = FeedRead(1) THEN 1 ELSE 0
    BY <1>7, ViewerAssumption
  <2>6. \A r \in Reads : UnderWay(r) => r = FeedRead(1)
    BY <2>1, <2>5 DEF UnderWay
  <2>7. TypeOK /\ rows = 0 /\ Cardinality(DOMAIN posts) = 0
    <3>1. Cardinality(DOMAIN posts) = 0 /\ rows = 0
      BY <1>1, <1>7, <2>2, FS_EmptySet DEF NumberOfItems
    <3>2. /\ rows \in Nat /\ userLikes \subseteq Post
          /\ reused \subseteq DOMAIN cells /\ tapped \subseteq Post
      BY <1>1, <3>1, ViewerAssumption
    <3>3. single \in BOOLEAN /\ ~single
      BY <1>7
    <3> QED
      BY <1>0, <1>1, <1>3, <2>2, <2>3, <2>4, <3>1, <3>2, <3>3 DEF TypeOK
  <2>8. DeviceOK
    BY <1>1, <1>2, <1>4, <1>7, <2>1, <2>3 DEF DeviceOK
  <2>9. FeedOnce
    BY <2>1, <2>5 DEF FeedOnce, Reads
  <2>10. Fetching
    <3>1. \A k \in Fetch : UnderWay(FeedRead(k)) => k = 1
      BY <1>6, <2>6, ReadFacts
    <3>2. \A k \in Fetch, p \in Post : ~UnderWay(PostRead(k, p))
      BY <1>6, <2>6, ReadFacts
    <3> QED
      BY <1>5, <2>3, <3>1, <3>2 DEF Fetching
  <2>11. OneList
    BY <1>5, <2>2, <2>3 DEF OneList
  <2>12. Hearts /\ Flights
    BY <1>2, <2>1, <2>2 DEF Hearts, Flights, Flying
  <2>13. ScreenFollowsList /\ CountsOwnPost
    BY <1>3, <2>7 DEF ScreenFollowsList, CountsOwnPost
  <2>14. PostAnswers /\ Counted /\ TrapsNeedRefresh
    BY <1>1, <2>1, <2>7 DEF PostAnswers, Counted, TrapsNeedRefresh
  <2> QED
    BY <2>7, <2>8, <2>9, <2>10, <2>11, <2>12, <2>13, <2>14 DEF FeedScreenInv
<1>8. ASSUME single = TRUE, fetches = << >>, mainq = [u \in User |-> <<Reload>>],
             NEW p \in Post, posts = [q \in {p} |-> FALSE],
             asked = [u \in User |-> [r \in Reads |-> IF r = CheckRead(p) THEN 1 ELSE 0]]
      PROVE  FeedScreenInv
  <2>1. /\ mainq[Viewer] = <<Reload>> /\ Waiting = {Reload} /\ DOMAIN mainq = User
        /\ mainq[Viewer] \in Seq(Blocks)
    BY <1>8, ViewerAssumption, BlockFacts, ElemsFew DEF Waiting
  <2>2. Reload.type = "reload" /\ \A r : ~Answers(Reload, r)
    BY BlockFacts DEF Answers
  <2>3. DOMAIN posts = {p} /\ posts[p] = FALSE /\ Cardinality(DOMAIN posts) = 1
    BY <1>8, FS_Singleton
  <2>4. /\ fetches \in Seq([isRenewable : BOOLEAN, docs : SUBSET Post, got : SUBSET Post])
        /\ DOMAIN fetches = {} /\ Len(fetches) = 0
    BY <1>8
  <2>5. asked \in [User -> [Reads -> Nat]]
    BY <1>8
  <2>6. \A r \in Reads : asked[Viewer][r] = IF r = CheckRead(p) THEN 1 ELSE 0
    BY <1>8, ViewerAssumption
  <2>7. \A r \in Reads : UnderWay(r) <=> r = CheckRead(p)
    BY <2>1, <2>2, <2>6 DEF UnderWay
  <2>8. TypeOK /\ rows = 1
    <3>1. rows = 1
      BY <1>1, <1>8 DEF NumberOfItems
    <3>2. /\ single \in BOOLEAN /\ rows \in Nat /\ userLikes \subseteq Post
          /\ reused \subseteq DOMAIN cells /\ tapped \subseteq Post
      BY <1>1, <1>8, <3>1, ViewerAssumption
    <3>3. DOMAIN posts \subseteq Post /\ \A q \in DOMAIN posts : posts[q] \in BOOLEAN
      BY <1>8, <2>3
    <3> QED
      BY <1>0, <1>1, <1>3, <2>3, <2>4, <2>5, <3>1, <3>2, <3>3 DEF TypeOK
  <2>9. DeviceOK
    BY <1>1, <1>2, <1>4, <1>8, <2>1, <2>4 DEF DeviceOK
  <2>10. FeedOnce
    <3>1. \A r \in FeedReads : asked[Viewer][r] = 0
      BY <2>6, ReadFacts DEF Reads
    <3>2. \A i \in DOMAIN mainq[Viewer] : mainq[Viewer][i] = Reload
      BY <2>1
    <3> QED
      BY <2>1, <2>2, <3>1, <3>2 DEF FeedOnce
  <2>11. Fetching
    BY <2>4, <2>7, ReadFacts DEF Fetching
  <2>12. OneList
    BY <1>8 DEF OneList
  <2>13. Hearts
    BY <2>1, <2>2, <2>3, <2>7, ReadFacts DEF Hearts
  <2>14. Flights
    BY <1>2, <2>1, <2>2 DEF Flights, Flying
  <2>15. ScreenFollowsList /\ CountsOwnPost
    BY <1>3, <2>3, <2>8 DEF ScreenFollowsList, CountsOwnPost
  <2>16. PostAnswers /\ Counted /\ TrapsNeedRefresh
    BY <1>1, <2>1, <2>2, <2>3, <2>8 DEF PostAnswers, Counted, TrapsNeedRefresh
  <2> QED
    BY <2>8, <2>9, <2>10, <2>11, <2>12, <2>13, <2>14, <2>15, <2>16 DEF FeedScreenInv
<1> QED
  BY <1>7, <1>8 DEF Init

\* A stuttering step changes nothing.
LEMMA StutterInv ==
    ASSUME FeedScreenInv, UNCHANGED vars
    PROVE  FeedScreenInv'
<1>1. UNCHANGED <<queue, asked, mainq, feed, userLikes, absent, single, fetches, posts, rows, cells,
                  spinning, trapped, events, faults, tapped, reused>>
  BY DEF vars, sdkVars, backendVars, screenVars, counters, history
<1>2. Waiting' = Waiting /\ Queued' = Queued
  BY <1>1 DEF Waiting, Queued
<1>3. TypeOK' /\ DeviceOK'
  BY <1>1 DEF FeedScreenInv, TypeOK, DeviceOK
<1>4. FeedOnce' /\ Fetching' /\ OneList' /\ Hearts'
  BY <1>1, <1>2 DEF FeedScreenInv, FeedOnce, Fetching, OneList, Hearts, UnderWay
<1>5. Flights' /\ ScreenFollowsList' /\ CountsOwnPost'
  BY <1>1, <1>2 DEF FeedScreenInv, Flights, Flying, ScreenFollowsList, ReloadWaits, CountsOwnPost
<1>6. PostAnswers' /\ Counted' /\ TrapsNeedRefresh'
  BY <1>1, <1>2, CountKept
<1> QED
  BY <1>3, <1>4, <1>5, <1>6 DEF FeedScreenInv

\* Every step keeps the invariant.
LEMMA NextInv ==
    ASSUME FeedScreenInv, Next
    PROVE  FeedScreenInv'
<1>1. CASE Commit
  BY <1>1, CommitInv
<1>2. CASE \E r \in Outstanding : Answer(r)
  BY <1>2, AnswerInv
<1>3. CASE RunBlock
  <2> SUFFICES ASSUME NEW b, b = Head(mainq[Viewer]) PROVE FeedScreenInv'
    OBVIOUS
  <2>1. \/ FeedFetched(b) \/ PostFetched(b) \/ PostMissing(b) \/ Checked(b)
        \/ PostLikeAcked(b) \/ LikeCompletion(b) \/ ReloadData(b)
    BY <1>3 DEF RunBlock
  <2> QED
    BY <2>1, FeedFetchedInv, PostFetchedInv, PostMissingInv, CheckedInv, PostLikeAckedInv,
       LikeCompletionInv, ReloadDataInv
<1>4. CASE PullToRefresh \/ ControllerDidFinishUploadingPost
  BY <1>4, RefreshInv
<1>5. CASE \E c \in Cell : DidTapLikeButton(c)
  BY <1>5, DidTapLikeButtonInv
<1>6. CASE \E p \in Post : FeedChanges(p)
  BY <1>6, FeedChangesInv
<1>7. CASE Reject
  BY <1>7, RejectInv
<1>8. CASE \E r \in Outstanding : FailToAnswer(r)
  BY <1>8, FailToAnswerInv
<1>9. CASE Scrolled
  BY <1>9, ScrolledOutInv, CellForItemAtInv, IndexOutOfRangeInv DEF Scrolled
<1> QED
  BY <1>1, <1>2, <1>3, <1>4, <1>5, <1>6, <1>7, <1>8, <1>9 DEF Next, Progress, Touched

\* The inductive invariant of the feed screen holds in every state.
THEOREM FeedScreenInvariant == Spec => []FeedScreenInv
<1>1. Init => FeedScreenInv
  BY InitInv
<1>2. FeedScreenInv /\ [Next]_vars => FeedScreenInv'
  BY NextInv, StutterInv
<1> QED
  BY <1>1, <1>2, PTL DEF Spec

\* The state of the screen stays well formed, and a single post is never lost to
\* a refresh.
THEOREM FeedScreenTypeCorrect == Spec => []TypeOK
<1>1. FeedScreenInv => TypeOK
  BY DEF FeedScreenInv
<1> QED
  BY <1>1, FeedScreenInvariant, PTL

\* However refreshes overlap, the list that is left is the list of one
\* fetchFeedPosts, and all of it that exists if no read failed.
THEOREM ListIsOfOneFetch == Spec => []ListIsOneFetch
<1>1. FeedScreenInv => ListIsOneFetch
  <2> SUFFICES ASSUME FeedScreenInv, AtRest, ~single
               PROVE  \E k \in DOMAIN fetches :
                         /\ DOMAIN posts = fetches[k].got
                         /\ faults = 0 => fetches[k].got = fetches[k].docs \ absent
    BY DEF ListIsOneFetch
  <2>1. PICK k \in DOMAIN fetches : DOMAIN posts = fetches[k].got
    BY DEF FeedScreenInv, OneList
  <2>2. \A r \in Reads : ~UnderWay(r)
    <3>1. Waiting = {}
      BY DEF AtRest, Waiting, Elems
    <3> QED
      BY <3>1 DEF AtRest, Outstanding, UnderWay
  <2>3. k \in Fetch /\ fetches[k].docs \subseteq Post
    BY FetchFacts DEF FeedScreenInv
  <2>4. faults = 0 => fetches[k].docs \ absent \subseteq fetches[k].got
    BY <2>2, <2>3, ReadFacts DEF FeedScreenInv, Fetching
  <2>5. fetches[k].got \subseteq fetches[k].docs \ absent
    BY DEF FeedScreenInv, Fetching
  <2> QED
    BY <2>1, <2>4, <2>5
<1> QED
  BY <1>1, FeedScreenInvariant, PTL

\* However the checks of overlapping lists come in, every heart that nobody
\* tapped is right in the end, if no read failed.
THEOREM HeartsAreRight == Spec => []HeartsSettle
<1>1. FeedScreenInv => HeartsSettle
  <2> SUFFICES ASSUME FeedScreenInv, AtRest, faults = 0, NEW p \in DOMAIN posts \ tapped
               PROVE  posts[p] <=> p \in userLikes
    BY DEF HeartsSettle
  <2>1. p \in Post
    BY DEF FeedScreenInv, TypeOK
  <2>2. Waiting = {}
    BY DEF AtRest, Waiting, Elems
  <2>3. ~UnderWay(CheckRead(p))
    BY <2>1, <2>2, ReadFacts DEF AtRest, Outstanding, UnderWay
  <2> QED
    BY <2>3 DEF FeedScreenInv, Hearts
<1> QED
  BY <1>1, FeedScreenInvariant, PTL

\* Whatever is scrolled, with any number of cells: whenever no reload waits UIKit
\* has counted the list's rows, and every cell shows a post of the list, no other
\* cell's, with the list's heart unless it was tapped.
THEOREM RowsAreTheList == Spec => []ScreenFollowsList
<1>1. FeedScreenInv => ScreenFollowsList
  BY DEF FeedScreenInv
<1> QED
  BY <1>1, FeedScreenInvariant, PTL

\* cellForItemAt never indexes the list out of range before a second
\* fetchFeedPosts was called.
THEOREM NoTrapWithoutRefresh == Spec => []TrapsNeedRefresh
<1>1. FeedScreenInv => TrapsNeedRefresh
  BY DEF FeedScreenInv
<1> QED
  BY <1>1, FeedScreenInvariant, PTL

\* The count a cell shows is of its post, or of a post that was tapped in it and
\* whose like was in flight when scrolling or a reload last configured the cell.
THEOREM CountsAreOwn == Spec => []CountsOwnPost
<1>1. FeedScreenInv => CountsOwnPost
  BY DEF FeedScreenInv
<1> QED
  BY <1>1, FeedScreenInvariant, PTL
=============================================================================
