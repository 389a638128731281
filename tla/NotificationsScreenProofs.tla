---------------------- MODULE NotificationsScreenProofs ----------------------
(***************************************************************************)
(* Theorems about NotificationsScreen, for any notifications, senders,     *)
(* cells and bounds.                                                       *)
(*                                                                         *)
(* That a button shows the truth rests on two arguments, one for each way  *)
(* it gets its value.  A row whose sender was not tapped since its last    *)
(* check has the value of a check, and a check that arrives when nothing   *)
(* of its sender is in flight tells the truth.  A row that was tapped has  *)
(* one write in flight, or none any more, and its cell shows the opposite  *)
(* of what that write does until the completion toggles it.  Either may be *)
(* spoilt when the row is laid out anew, by a reload or by scrolling; then *)
(* a check, or the history, says so.                                       *)
(***************************************************************************)
EXTENDS NotificationsScreen, FirestoreProofs

-----------------------------------------------------------------------------
Writes ==
    [coll : {"following", "followers"}, op : {"set", "delete"}, key : User \ {Viewer}, cell : Cell,
     then : {"completion"}]

Blocks ==
    [type : {"reload"}] \union [type : {"ack"}, w : Writes, ok : BOOLEAN]
        \union [type : {"answer"}, r : Reads, docs : SUBSET Note]

\* The blocks of the screen's main queue, and its writes that are not decided.
Waiting == Elems(mainq[Viewer])
Queued  == Elems(queue[Viewer])

\* Block b is the answer to read r.
Answers(b, r) == b.type = "answer" /\ b.r = r

\* The device and the bounds have their types; a list on its way is of
\* notifications that are stored.
DeviceOK ==
    /\ DOMAIN queue = User /\ queue[Viewer] \in Seq(Writes)
    /\ DOMAIN mainq = User /\ mainq[Viewer] \in Seq(Blocks)
    /\ events \in Nat
    /\ \A b \in Waiting : Answers(b, NotesRead) => b.docs \subseteq stored

\* Read r is asked, and its completion has not run.
UnderWay(r) == asked[Viewer][r] > 0 \/ \E b \in Waiting : Answers(b, r)

\* Whatever is in flight was tapped since the last check of its rows.
Tapping == \A n \in Note : Pending(Sender[n]) => n \in tapped

\* A write of `following` about uid is not decided, or was decided after the
\* block at index i was posted.
FollowingOf(uid) == {w \in Writes : w.coll = "following" /\ w.key = uid}

Newer(i, uid) ==
    \/ \E w \in Queued : w \in FollowingOf(uid)
    \/ \E j \in DOMAIN mainq[Viewer] :
           j > i /\ mainq[Viewer][j].type = "ack" /\ mainq[Viewer][j].w \in FollowingOf(uid)

\* A check tells the truth, unless such a write is newer.
ChecksRight ==
    \A i \in DOMAIN mainq[Viewer] : \A n \in Note :
        Answers(mainq[Viewer][i], CheckRead(n)) /\ ~Newer(i, Sender[n]) =>
            (mainq[Viewer][i].docs # {} <=> Sender[n] \in following)

\* The writes about uid, and their completions.
WritesOf(uid) == {w \in Writes : w.key = uid}
AcksOf(uid)   == {b \in Blocks : b.type = "ack" /\ b.w.key = uid}

\* At most one write about uid is in flight.
Once(uid) ==
    /\ Solo(queue[Viewer], WritesOf(uid)) /\ Solo(mainq[Viewer], AcksOf(uid))
    /\ \A w \in Queued, b \in Waiting : ~(w \in WritesOf(uid) /\ b \in AcksOf(uid))

\* The button of row n shows the truth.
ShowsTruth(n) ==
    \A c \in DOMAIN cells : cells[c].note = n =>
        (cells[c].userIsFollowed <=> Sender[n] \in following)

\* Write w will turn the button of row n to what w does; the backend has
\* decided it, or is going to.
Turns(w, n) ==
    /\ \A c \in DOMAIN cells : cells[c].note = n =>
           c = w.cell /\ (cells[c].userIsFollowed <=> w.op = "delete")
    /\ (w.op = "set" <=> Sender[n] \in following) \/ (w.coll = "following" /\ w \in Queued)

\* Row n was tapped once and in its own cell.
Own(n) ==
    /\ Once(Sender[n])
    /\ \A w \in InFlight : w.key = Sender[n] => Turns(w, n)
    /\ ~Pending(Sender[n]) => ShowsTruth(n)

\* The rows that were tapped, and the rows that were not, with buttons that may
\* be relied on.
TappedRows ==
    \A n \in FollowNote \intersect tapped : n \notin doubtful => ReloadWaits \/ Own(n)

UntappedRows ==
    \A n \in FollowNote \ tapped : n \notin doubtful =>
        /\ n \in DOMAIN list => (list[n] <=> Sender[n] \in following) \/ UnderWay(CheckRead(n))
        /\ ReloadWaits \/ UnderWay(CheckRead(n)) \/ ShowsTruth(n)

\* The completion of a write toggles a row of its own sender, or one that is in
\* doubt or about to be reloaded.
Reuse ==
    \A w \in InFlight : w.cell \in DOMAIN cells =>
        \/ Sender[cells[w.cell].note] = w.key
        \/ cells[w.cell].note \in doubtful
        \/ ReloadWaits

\* Of two lists on their way, the later one has all of the earlier.
ListsGrow ==
    \A i, j \in DOMAIN mainq[Viewer] :
        i < j /\ Answers(mainq[Viewer][i], NotesRead) /\ Answers(mainq[Viewer][j], NotesRead) =>
            mainq[Viewer][i].docs \subseteq mainq[Viewer][j].docs

\* Without a refresh the list has as many rows as UIKit counted or more, and a
\* list on its way has all of it.
RowsCovered ==
    ~refreshed =>
        /\ rows <= Cardinality(DOMAIN list)
        /\ \A b \in Waiting : Answers(b, NotesRead) => DOMAIN list \subseteq b.docs

NotesInv ==
    /\ TypeOK /\ DeviceOK /\ RowsFollowList /\ ListsGrow /\ RowsCovered /\ TrapsNeedRefresh
    /\ Tapping /\ ChecksRight /\ TappedRows /\ UntappedRows /\ Reuse

-----------------------------------------------------------------------------
(***************************************************************************)
(* The reads, the blocks and the device.                                   *)
(***************************************************************************)

\* The reads have the form they were built in.
LEMMA ReadFacts ==
    /\ NotesRead \in Reads /\ OpenRead \in Reads /\ NotesRead # OpenRead
    /\ \A n \in Note : CheckRead(n) \in CheckReads /\ CheckRead(n) \in Reads /\ CheckRead(n)[2] = n
    /\ \A r \in CheckReads : r[2] \in Note /\ r = CheckRead(r[2]) /\ r # NotesRead /\ r # OpenRead
    /\ \A r \in Reads : r = NotesRead \/ r = OpenRead \/ r \in CheckReads
<1>1. \A n \in Note : CheckRead(n) \in CheckReads /\ CheckRead(n)[2] = n
  BY DEF CheckReads, CheckRead
<1>2. \A r \in CheckReads : r[2] \in Note /\ r = CheckRead(r[2]) /\ r[1] = "check"
  BY DEF CheckReads, CheckRead
<1>3. NotesRead[1] = "notes" /\ OpenRead[1] = "open"
  BY DEF NotesRead, OpenRead
<1> QED
  BY <1>1, <1>2, <1>3 DEF Reads

\* What is asked after more reads, and after one was answered or has failed.
LEMMA AskedFacts ==
    ASSUME asked \in [User -> [Reads -> Nat]]
    PROVE  /\ \A rs : /\ Ask(Viewer, rs) \in [User -> [Reads -> Nat]]
                      /\ \A r \in Reads : Ask(Viewer, rs)[Viewer][r]
                             = IF r \in rs THEN asked[Viewer][r] + 1 ELSE asked[Viewer][r]
           /\ \A s \in Reads : asked[Viewer][s] > 0 =>
                 /\ [asked EXCEPT ![Viewer][s] = @ - 1] \in [User -> [Reads -> Nat]]
                 /\ \A r \in Reads : [asked EXCEPT ![Viewer][s] = @ - 1][Viewer][r]
                        = IF r = s THEN asked[Viewer][r] - 1 ELSE asked[Viewer][r]
           /\ Ask(Viewer, {}) = asked
BY NotesAssumption, DeviceAsks

\* The writes and blocks of the actions have their types.
LEMMA BlockFacts ==
    /\ Reload \in Blocks /\ Reload.type = "reload"
    /\ \A w \in Writes, ok \in BOOLEAN :
           Acked(w, ok) \in Blocks /\ Acked(w, ok).type = "ack" /\ Acked(w, ok).w = w
    /\ \A r \in Reads, ds \in SUBSET Note :
           /\ Answered(r, ds) \in Blocks /\ Answered(r, ds).type = "answer"
           /\ Answered(r, ds).r = r /\ Answered(r, ds).docs = ds
    /\ \A b \in Blocks :
           /\ b.type \in {"reload", "ack", "answer"}
           /\ b.type = "ack" => b.w \in Writes
           /\ b.type = "answer" => b.r \in Reads /\ b.docs \in SUBSET Note
BY DEF Blocks, Reload, Acked, Answered

\* What a write is made of.
LEMMA WriteHas ==
    \A w \in Writes :
        /\ w.coll \in {"following", "followers"} /\ w.op \in {"set", "delete"}
        /\ w.key \in User \ {Viewer} /\ w.cell \in Cell /\ w.then = "completion"
BY DEF Writes

\* The device as the lemmas about devices want it.
LEMMA DeviceFacts ==
    ASSUME DeviceOK
    PROVE  /\ Viewer \in User
           /\ DOMAIN queue = User /\ queue[Viewer] \in Seq(Writes) /\ Queued \subseteq Writes
           /\ DOMAIN mainq = User /\ mainq[Viewer] \in Seq(Blocks) /\ Waiting \subseteq Blocks
<1>1. /\ DOMAIN queue = User /\ queue[Viewer] \in Seq(Writes)
      /\ DOMAIN mainq = User /\ mainq[Viewer] \in Seq(Blocks)
  BY DEF DeviceOK
<1>2. Elems(queue[Viewer]) \subseteq Writes
  BY <1>1, ElemsIn
<1>3. Elems(mainq[Viewer]) \subseteq Blocks
  BY <1>1, ElemsIn
<1> QED
  BY <1>1, <1>2, <1>3, NotesAssumption DEF Queued, Waiting

\* The writes in flight are queued or wait for their completion.
LEMMA InFlightIs ==
    \A w : w \in InFlight <=> w \in Queued \/ \E b \in Waiting : b.type = "ack" /\ b.w = w
BY DEF InFlight, Queued, Waiting, Elems

\* The table waits to be reloaded.
LEMMA ReloadIs ==
    ReloadWaits <=> \E b \in Waiting : b.type = "reload"
BY DEF ReloadWaits, Waiting, Elems

\* A block that is posted.
LEMMA PostedFacts ==
    ASSUME DeviceOK, NEW b \in Blocks, mainq' = [mainq EXCEPT ![Viewer] = Append(@, b)]
    PROVE  /\ DOMAIN mainq' = User /\ mainq'[Viewer] \in Seq(Blocks)
           /\ mainq'[Viewer] = Append(mainq[Viewer], b)
           /\ Waiting' = Waiting \union {b}
BY DeviceFacts, DevicePosts DEF Waiting

\* A write that is issued.
LEMMA IssuedFacts ==
    ASSUME DeviceOK, NEW w \in Writes, queue' = WriteMutations(Viewer, <<w>>)
    PROVE  /\ DOMAIN queue' = User /\ queue'[Viewer] \in Seq(Writes)
           /\ queue'[Viewer] = Append(queue[Viewer], w)
           /\ Queued' = Queued \union {w}
BY DeviceFacts, DeviceIssues DEF Queued

\* A write that is decided, and its completion.
LEMMA DecidedFacts ==
    ASSUME DeviceOK, queue[Viewer] # << >>, NEW ok \in BOOLEAN,
           NEW w, w = Head(queue[Viewer]), NotifyUser(Viewer, w, ok)
    PROVE  /\ w \in Writes /\ Queued = {w} \union Queued' /\ asked' = asked
           /\ DOMAIN queue' = User /\ queue'[Viewer] \in Seq(Writes)
           /\ queue'[Viewer] = Tail(queue[Viewer])
           /\ DOMAIN mainq' = User /\ mainq'[Viewer] \in Seq(Blocks)
           /\ mainq'[Viewer] = Append(mainq[Viewer], Acked(w, ok))
           /\ Waiting' = Waiting \union {Acked(w, ok)}
<1>1. w \in Writes
  BY DeviceFacts, ElemsTail
<1>2. w.then # NoOne
  BY <1>1, WriteHas DEF NoOne
<1>3. /\ queue' = [queue EXCEPT ![Viewer] = Tail(@)] /\ asked' = asked
      /\ mainq' = [mainq EXCEPT ![Viewer] = Append(@, Acked(w, ok))]
  BY <1>2 DEF NotifyUser
<1>4. /\ DOMAIN queue' = User /\ queue'[Viewer] \in Seq(Writes)
      /\ queue'[Viewer] = Tail(queue[Viewer])
      /\ Elems(queue[Viewer]) = {w} \union Elems(queue'[Viewer])
  BY <1>3, DeviceFacts, DeviceDecides
<1>5. Acked(w, ok) \in Blocks
  BY <1>1, BlockFacts
<1>6. /\ DOMAIN mainq' = User /\ mainq'[Viewer] \in Seq(Blocks)
      /\ mainq'[Viewer] = Append(mainq[Viewer], Acked(w, ok))
      /\ Waiting' = Waiting \union {Acked(w, ok)}
  BY <1>3, <1>5, PostedFacts
<1> QED
  BY <1>1, <1>3, <1>4, <1>6 DEF Queued

\* A running block b, and the blocks bs it posts.
LEMMA RunFacts ==
    ASSUME DeviceOK, mainq[Viewer] # << >>, NEW b, NEW bs \in {<< >>, <<Reload>>}, Running(b, bs)
    PROVE  /\ b = Head(mainq[Viewer]) /\ b \in Blocks
           /\ DOMAIN mainq' = User /\ mainq'[Viewer] = Tail(mainq[Viewer]) \o bs
           /\ mainq'[Viewer] \in Seq(Blocks)
           /\ Waiting = {b} \union Elems(Tail(mainq[Viewer]))
           /\ Waiting' = Elems(Tail(mainq[Viewer])) \union Elems(bs)
           /\ Elems(bs) \subseteq {Reload} /\ (bs = <<Reload>> => Reload \in Elems(bs))
           /\ UNCHANGED <<following, stored, trapped, others, events, unanswered, refreshed>>
<1>1. mainq' = RunFirst(Viewer, bs) /\ b = Head(mainq[Viewer])
      /\ UNCHANGED <<following, stored, trapped, others, events, unanswered, refreshed>>
  BY DEF Running, backendVars
<1>2. /\ << >> \in Seq(Blocks) /\ Elems(<< >>) = {}
      /\ <<Reload>> \in Seq(Blocks) /\ Elems(<<Reload>>) = {Reload}
  BY BlockFacts, ElemsFew
<1>3. bs \in Seq(Blocks)
  BY <1>2
<1>4. /\ DOMAIN mainq' = User /\ mainq'[Viewer] = Tail(mainq[Viewer]) \o bs
      /\ mainq'[Viewer] \in Seq(Blocks) /\ b \in Blocks
      /\ Elems(mainq[Viewer]) = {b} \union Elems(Tail(mainq[Viewer]))
      /\ Elems(mainq'[Viewer]) = Elems(Tail(mainq[Viewer])) \union Elems(bs)
  BY <1>1, <1>3, DeviceFacts, DeviceRuns
<1> QED
  BY <1>1, <1>2, <1>4 DEF Waiting

\* The tail of a queue with nothing or a reload behind it, index by index.
LEMMA RunIndices ==
    ASSUME NEW m \in Seq(Blocks), m # << >>, NEW bs \in {<< >>, <<Reload>>}
    PROVE  /\ \A i \in DOMAIN (Tail(m) \o bs) :
                 \/ (Tail(m) \o bs)[i] = Reload
                 \/ i + 1 \in DOMAIN m /\ (Tail(m) \o bs)[i] = m[i + 1]
           /\ \A j \in DOMAIN m : j > 1 =>
                 j - 1 \in DOMAIN (Tail(m) \o bs) /\ (Tail(m) \o bs)[j - 1] = m[j]
           /\ \A i \in DOMAIN (Tail(m) \o bs) : i \in Nat
           /\ \A i \in DOMAIN m : i \in Nat
           /\ 1 \in DOMAIN m /\ m[1] = Head(m)
<1> DEFINE t == Tail(m)
<1>1. /\ t \in Seq(Blocks) /\ DOMAIN t = 1..(Len(m) - 1) /\ Len(m) \in Nat \ {0}
      /\ DOMAIN m = 1..Len(m) /\ Len(t) = Len(m) - 1 /\ Head(m) = m[1]
      /\ \A i \in 1..(Len(m) - 1) : t[i] = m[i + 1]
  OBVIOUS
<1> HIDE DEF t
<1>2. CASE bs = << >>
  <2>1. t \o bs = t
    BY <1>1, <1>2
  <2>2. /\ \A i \in DOMAIN t : i + 1 \in DOMAIN m /\ t[i] = m[i + 1] /\ i \in Nat
        /\ \A j \in DOMAIN m : j > 1 => j - 1 \in DOMAIN t /\ t[j - 1] = m[j]
        /\ \A i \in DOMAIN m : i \in Nat
        /\ 1 \in DOMAIN m
    BY <1>1
  <2> QED
    BY <1>1, <2>1, <2>2 DEF t
<1>3. CASE bs = <<Reload>>
  <2>1. t \o bs = Append(t, Reload)
    BY <1>1, <1>3
  <2> DEFINE n == Append(t, Reload)
  <2> DEFINE B == Blocks
  <2>2. t \in Seq(B) /\ Reload \in B
    BY <1>1, BlockFacts
  <2> HIDE DEF B
  <2>3. /\ DOMAIN n = 1..(Len(t) + 1) /\ n[Len(t) + 1] = Reload /\ \A i \in 1..Len(t) : n[i] = t[i]
    BY <2>2, AppendProperties, LenProperties
  <2> HIDE DEF n
  <2>4. n = t \o bs
    BY <2>1 DEF n
  <2>5. /\ \A i \in DOMAIN n : n[i] = Reload \/ (i + 1 \in DOMAIN m /\ n[i] = m[i + 1])
        /\ \A j \in DOMAIN m : j > 1 => j - 1 \in DOMAIN n /\ n[j - 1] = m[j]
        /\ \A i \in DOMAIN n : i \in Nat
        /\ \A i \in DOMAIN m : i \in Nat
        /\ 1 \in DOMAIN m
    BY <1>1, <2>3
  <2> QED
    BY <1>1, <2>4, <2>5 DEF t
<1> QED
  BY <1>2, <1>3

\* The main queue after a block ran, index by index.
LEMMA RunQueue ==
    ASSUME DeviceOK, mainq[Viewer] # << >>, NEW b, NEW bs \in {<< >>, <<Reload>>}, Running(b, bs)
    PROVE  /\ \A i \in DOMAIN mainq'[Viewer] :
                 \/ mainq'[Viewer][i] = Reload
                 \/ i + 1 \in DOMAIN mainq[Viewer] /\ mainq'[Viewer][i] = mainq[Viewer][i + 1]
           /\ \A j \in DOMAIN mainq[Viewer] : j > 1 =>
                 j - 1 \in DOMAIN mainq'[Viewer] /\ mainq'[Viewer][j - 1] = mainq[Viewer][j]
           /\ \A i \in DOMAIN mainq'[Viewer] : i \in Nat
           /\ \A i \in DOMAIN mainq[Viewer] : i \in Nat
           /\ 1 \in DOMAIN mainq[Viewer] /\ mainq[Viewer][1] = b
<1> DEFINE m == mainq[Viewer]
           n == mainq'[Viewer]
<1>1. m \in Seq(Blocks) /\ m # << >> /\ n = Tail(m) \o bs /\ b = Head(m)
  BY DeviceFacts, RunFacts
<1> HIDE DEF m, n
<1>2. /\ \A i \in DOMAIN (Tail(m) \o bs) :
            (Tail(m) \o bs)[i] = Reload \/ (i + 1 \in DOMAIN m /\ (Tail(m) \o bs)[i] = m[i + 1])
      /\ \A j \in DOMAIN m : j > 1 =>
            j - 1 \in DOMAIN (Tail(m) \o bs) /\ (Tail(m) \o bs)[j - 1] = m[j]
      /\ \A i \in DOMAIN (Tail(m) \o bs) : i \in Nat
      /\ \A i \in DOMAIN m : i \in Nat
      /\ 1 \in DOMAIN m /\ m[1] = Head(m)
  BY <1>1, RunIndices
<1>3. /\ \A i \in DOMAIN n : n[i] = Reload \/ (i + 1 \in DOMAIN m /\ n[i] = m[i + 1])
      /\ \A j \in DOMAIN m : j > 1 => j - 1 \in DOMAIN n /\ n[j - 1] = m[j]
      /\ \A i \in DOMAIN n : i \in Nat
  BY <1>1, <1>2
<1> QED
  BY <1>1, <1>2, <1>3 DEF m, n

\* The reads under way after a block ran that asked for the reads rs, or none.
LEMMA RunUnderWay ==
    ASSUME DeviceOK, asked \in [User -> [Reads -> Nat]], mainq[Viewer] # << >>,
           NEW b, NEW bs \in {<< >>, <<Reload>>}, Running(b, bs),
           NEW rs, asked' = Ask(Viewer, rs)
    PROVE  \A r \in Reads :
              /\ r \in rs => UnderWay(r)'
              /\ UnderWay(r) /\ ~Answers(b, r) => UnderWay(r)'
<1>1. /\ Waiting = {b} \union Elems(Tail(mainq[Viewer]))
      /\ Waiting' = Elems(Tail(mainq[Viewer])) \union Elems(bs)
  BY RunFacts
<1>2. \A r \in Reads : asked'[Viewer][r] = IF r \in rs THEN asked[Viewer][r] + 1 ELSE asked[Viewer][r]
  BY AskedFacts
<1>3. \A r \in Reads : asked[Viewer][r] \in Nat
  BY NotesAssumption
<1>4. \A r \in Reads : (r \in rs => asked'[Viewer][r] > 0)
                    /\ (asked[Viewer][r] > 0 => asked'[Viewer][r] > 0)
  BY <1>2, <1>3
<1> QED
  BY <1>1, <1>4 DEF UnderWay

\* The writes in flight after a step.
LEMMA InFlightNext ==
    \A w : w \in InFlight' <=> w \in Queued' \/ \E b \in Waiting' : b.type = "ack" /\ b.w = w
BY DEF InFlight, Queued, Waiting, Elems

\* A reload that waits after a step.
LEMMA ReloadNext ==
    ReloadWaits' <=> \E b \in Waiting' : b.type = "reload"
BY DEF ReloadWaits, Waiting, Elems

-----------------------------------------------------------------------------
(***************************************************************************)
(* One write in flight about a user stays one.                             *)
(***************************************************************************)

\* While it is in flight there is no other.
LEMMA OnceOnly ==
    ASSUME DeviceOK, NEW uid, Once(uid), NEW w \in InFlight, w.key = uid
    PROVE  /\ \A v \in InFlight : v.key = uid => v = w
           /\ w \in Queued => \A b \in Waiting : b.type = "ack" => b.w.key # uid
           /\ (\E b \in Waiting : b.type = "ack" /\ b.w = w) => \A v \in Queued : v.key # uid
<1>1. Queued \subseteq Writes /\ Waiting \subseteq Blocks
  BY DeviceFacts
<1>2. \A v \in Queued : v.key = uid => v \in WritesOf(uid)
  BY <1>1 DEF WritesOf
<1>3. \A b \in Waiting : b.type = "ack" /\ b.w.key = uid => b \in AcksOf(uid)
  BY <1>1 DEF AcksOf
<1>4. \A v \in Queued, b \in Waiting : ~(v.key = uid /\ b.type = "ack" /\ b.w.key = uid)
  BY <1>2, <1>3 DEF Once
<1>5. \A v, x \in Queued : v.key = uid /\ x.key = uid => v = x
  <2>1. Solo(queue[Viewer], WritesOf(uid))
    BY DEF Once
  <2> QED
    BY <1>2, <2>1 DEF Solo, Queued, Elems
<1>6. \A a, b \in Waiting :
         a.type = "ack" /\ a.w.key = uid /\ b.type = "ack" /\ b.w.key = uid => a = b
  <2>1. Solo(mainq[Viewer], AcksOf(uid))
    BY DEF Once
  <2> QED
    BY <1>3, <2>1 DEF Solo, Waiting, Elems
<1> QED
  BY <1>4, <1>5, <1>6, InFlightIs

\* No write is in flight about the user.
LEMMA OnceNone ==
    ASSUME DeviceOK, NEW uid, ~Pending(uid)
    PROVE  /\ \A w \in Queued : w \notin WritesOf(uid)
           /\ \A b \in Waiting : b \notin AcksOf(uid)
           /\ Once(uid)
<1>1. \A w \in Queued : w \notin WritesOf(uid)
  BY InFlightIs DEF WritesOf, Pending
<1>2. \A b \in Waiting : b \notin AcksOf(uid)
  BY InFlightIs DEF AcksOf, Pending
<1> QED
  BY <1>1, <1>2 DEF Once, Solo, Queued, Waiting, Elems

\* A block is posted that is no completion of a write.
LEMMA OncePosted ==
    ASSUME DeviceOK, NEW b \in Blocks, b.type # "ack",
           mainq'[Viewer] = Append(mainq[Viewer], b), Waiting' = Waiting \union {b},
           queue'[Viewer] = queue[Viewer], NEW uid, Once(uid)
    PROVE  Once(uid)'
<1>1. b \notin AcksOf(uid) /\ Queued' = Queued
  BY DEF AcksOf, Queued
<1>2. Solo(Append(mainq[Viewer], b), AcksOf(uid))
  <2>1. Solo(mainq[Viewer], AcksOf(uid)) /\ mainq[Viewer] \in Seq(Blocks)
    BY DeviceFacts DEF Once
  <2> QED
    BY <1>1, <2>1, SoloAppend
<1>3. Solo(mainq'[Viewer], AcksOf(uid)) /\ Solo(queue'[Viewer], WritesOf(uid))
  BY <1>2 DEF Once
<1>4. \A w \in Queued', c \in Waiting' : ~(w \in WritesOf(uid) /\ c \in AcksOf(uid))
  BY <1>1 DEF Once
<1> QED
  BY <1>3, <1>4 DEF Once, Solo, WritesOf, AcksOf, Writes, Blocks

\* A block runs.
LEMMA OnceRun ==
    ASSUME DeviceOK, mainq[Viewer] # << >>, NEW b, NEW bs \in {<< >>, <<Reload>>}, Running(b, bs),
           NEW uid, Once(uid)
    PROVE  /\ Solo(mainq'[Viewer], AcksOf(uid))
           /\ b \in AcksOf(uid) => \A c \in Waiting' : c \notin AcksOf(uid)
<1>1. /\ mainq[Viewer] \in Seq(Blocks) /\ Solo(mainq[Viewer], AcksOf(uid))
  BY DeviceFacts DEF Once
<1>2. /\ b = Head(mainq[Viewer]) /\ mainq'[Viewer] = Tail(mainq[Viewer]) \o bs
      /\ Waiting' = Elems(Tail(mainq[Viewer])) \union Elems(bs)
      /\ Elems(bs) \subseteq {Reload}
  BY RunFacts
<1>3. Reload \notin AcksOf(uid)
  BY BlockFacts DEF AcksOf
<1>4. b \in AcksOf(uid) => \A c \in Elems(Tail(mainq[Viewer])) : c \notin AcksOf(uid)
  BY <1>1, <1>2, SoloTail
<1>5. /\ \A i \in DOMAIN mainq'[Viewer] :
            \/ mainq'[Viewer][i] = Reload
            \/ i + 1 \in DOMAIN mainq[Viewer] /\ mainq'[Viewer][i] = mainq[Viewer][i + 1]
      /\ \A i \in DOMAIN mainq'[Viewer] : i \in Nat
  BY RunQueue
<1>6. ASSUME NEW i \in DOMAIN mainq'[Viewer], NEW j \in DOMAIN mainq'[Viewer],
             mainq'[Viewer][i] \in AcksOf(uid), mainq'[Viewer][j] \in AcksOf(uid)
      PROVE  i = j
  <2>1. i + 1 = j + 1
    BY <1>1, <1>3, <1>5, <1>6 DEF Solo
  <2>2. i \in Nat /\ j \in Nat
    BY <1>5
  <2> QED
    BY <2>1, <2>2
<1> QED
  BY <1>2, <1>3, <1>4, <1>6 DEF Solo

-----------------------------------------------------------------------------
(***************************************************************************)
(* Checks that tell the truth go on doing so.                              *)
(***************************************************************************)

\* A block is posted.  When the truth about a sender changes, or its last write
\* of `following` leaves the mutation queue, the block is the completion of one.
LEMMA ChecksPosted ==
    ASSUME DeviceOK, ChecksRight, NEW b \in Blocks, mainq'[Viewer] = Append(mainq[Viewer], b),
           \A n \in Note : Answers(b, CheckRead(n)) =>
              \/ b.docs # {} <=> Sender[n] \in following'
              \/ \E w \in Queued' : w \in FollowingOf(Sender[n]),
           \A n \in Note :
              \/ b.type = "ack" /\ b.w \in FollowingOf(Sender[n])
              \/ /\ Sender[n] \in following' <=> Sender[n] \in following
                 /\ \A w \in Queued : w \in FollowingOf(Sender[n]) => w \in Queued'
    PROVE  ChecksRight'
<1> DEFINE m == mainq[Viewer]
           t == mainq'[Viewer]
<1>1. m \in Seq(Blocks) /\ t = Append(m, b)
  BY DeviceFacts
<1>2. /\ DOMAIN t = 1..(Len(m) + 1) /\ Len(m) \in Nat /\ DOMAIN m = 1..Len(m)
      /\ t[Len(m) + 1] = b /\ \A i \in 1..Len(m) : t[i] = m[i]
  <2> DEFINE B == Blocks
  <2>1. m \in Seq(B) /\ b \in B
    BY <1>1
  <2> HIDE DEF B, m, t
  <2> QED
    BY <1>1, <2>1, AppendProperties, LenProperties
<1> SUFFICES ASSUME NEW i \in DOMAIN t, NEW n \in Note, Answers(t[i], CheckRead(n)),
                    ~Newer(i, Sender[n])'
             PROVE  t[i].docs # {} <=> Sender[n] \in following'
  BY DEF ChecksRight, Answers, Newer
<1>3. ~\E w \in Queued' : w \in FollowingOf(Sender[n])
  BY DEF Newer, FollowingOf, Writes
<1>4. ~\E j \in DOMAIN t : j > i /\ t[j].type = "ack" /\ t[j].w \in FollowingOf(Sender[n])
  BY DEF Newer, FollowingOf, Writes
<1>5. CASE i = Len(m) + 1
  BY <1>2, <1>3, <1>5
<1>6. CASE i # Len(m) + 1
  <2>1. i \in DOMAIN m /\ t[i] = m[i] /\ Len(m) + 1 > i /\ Len(m) + 1 \in DOMAIN t
    BY <1>2, <1>6
  <2>2. ~(b.type = "ack" /\ b.w \in FollowingOf(Sender[n]))
    BY <1>2, <1>4, <2>1
  <2>3. \A j \in DOMAIN m : j \in DOMAIN t /\ t[j] = m[j]
    BY <1>2
  <2>4. ~Newer(i, Sender[n])
    BY <1>3, <1>4, <2>2, <2>3 DEF Newer
  <2> QED
    BY <2>1, <2>2, <2>4 DEF ChecksRight
<1> QED
  BY <1>5, <1>6

\* A block runs, and may issue writes.
LEMMA ChecksRun ==
    ASSUME DeviceOK, ChecksRight, mainq[Viewer] # << >>,
           NEW b, NEW bs \in {<< >>, <<Reload>>}, Running(b, bs), Queued \subseteq Queued'
    PROVE  ChecksRight'
<1> DEFINE m == mainq[Viewer]
           t == mainq'[Viewer]
<1>1. /\ \A i \in DOMAIN t : t[i] = Reload \/ (i + 1 \in DOMAIN m /\ t[i] = m[i + 1])
      /\ \A j \in DOMAIN m : j > 1 => j - 1 \in DOMAIN t /\ t[j - 1] = m[j]
      /\ \A i \in DOMAIN t : i \in Nat
      /\ \A i \in DOMAIN m : i \in Nat
      /\ following' = following
  BY RunQueue, RunFacts
<1> SUFFICES ASSUME NEW i \in DOMAIN t, NEW n \in Note, Answers(t[i], CheckRead(n)),
                    ~Newer(i, Sender[n])'
             PROVE  t[i].docs # {} <=> Sender[n] \in following'
  BY DEF ChecksRight, Answers, Newer
<1>2. i + 1 \in DOMAIN m /\ t[i] = m[i + 1]
  BY <1>1, BlockFacts DEF Answers
<1>3. ~\E w \in Queued : w \in FollowingOf(Sender[n])
  BY DEF Newer, FollowingOf, Writes
<1>4. ~\E j \in DOMAIN t : j > i /\ t[j].type = "ack" /\ t[j].w \in FollowingOf(Sender[n])
  BY DEF Newer, FollowingOf, Writes
<1>5. ASSUME NEW j \in DOMAIN m, j > i + 1
      PROVE  j - 1 \in DOMAIN t /\ t[j - 1] = m[j] /\ j - 1 > i
  <2>1. j \in Nat /\ i \in Nat
    BY <1>1
  <2>2. j > 1 /\ j - 1 > i
    BY <1>5, <2>1
  <2> QED
    BY <1>1, <2>2
<1>6. ~Newer(i + 1, Sender[n])
  BY <1>3, <1>4, <1>5 DEF Newer
<1> QED
  BY <1>1, <1>2, <1>6 DEF ChecksRight

\* A write is issued.
LEMMA ChecksIssued ==
    ASSUME ChecksRight, mainq' = mainq, following' = following, Queued \subseteq Queued'
    PROVE  ChecksRight'
BY DEF ChecksRight, Newer, Answers, FollowingOf, Writes

-----------------------------------------------------------------------------
(***************************************************************************)
(* The HUD, and the steps that leave the rows and the flights alone.       *)
(***************************************************************************)
HudType ==
    {h \in [phase : {"hidden", "presenting", "shown", "dismissing"},
            place : {"none", "here", "elsewhere"}, dismiss : BOOLEAN] :
        h.phase = "hidden" <=> h.place = "none"}

\* The HUD is in one of its phases, and hidden exactly when it has no view.
LEMMA HudFacts ==
    /\ Hidden \in HudType
    /\ \A h \in HudType :
          /\ Dismiss(h) \in HudType
          /\ Show(h, "here") \in HudType /\ Show(h, "elsewhere") \in HudType
          /\ h.phase = "dismissing" => Hidden \in HudType
          /\ h.phase = "presenting" =>
                [h EXCEPT !.phase = IF h.dismiss THEN "dismissing" ELSE "shown",
                          !.dismiss = FALSE] \in HudType
<1>1. Hidden \in HudType
  BY DEF Hidden, HudType
<1>2. ASSUME NEW h \in HudType PROVE Dismiss(h) \in HudType
  BY DEF Dismiss, HudType
<1>3. ASSUME NEW h \in HudType PROVE Show(h, "here") \in HudType /\ Show(h, "elsewhere") \in HudType
  BY DEF Show, HudType
<1>4. ASSUME NEW h \in HudType, h.phase = "presenting"
      PROVE  [h EXCEPT !.phase = IF h.dismiss THEN "dismissing" ELSE "shown",
                       !.dismiss = FALSE] \in HudType
  BY <1>4 DEF HudType
<1> QED
  BY <1>1, <1>2, <1>3, <1>4

\* The type invariant with the HUD apart.
LEMMA TypeParts ==
    TypeOK <=>
        /\ following \subseteq User \ {Viewer} /\ stored \subseteq Note
        /\ DOMAIN list \subseteq stored /\ \A n \in DOMAIN list : list[n] \in BOOLEAN
        /\ rows \in Nat /\ trapped \in BOOLEAN /\ DOMAIN cells \subseteq Cell
        /\ \A c \in DOMAIN cells : cells[c] \in [note : Note, userIsFollowed : BOOLEAN]
        /\ hud \in HudType
        /\ asked \in [User -> [Reads -> Nat]] /\ others \in [OtherScreen -> Nat]
        /\ unanswered \in Nat /\ tapped \subseteq Note /\ doubtful \subseteq Note
        /\ refreshed \in BOOLEAN
BY DEF TypeOK, HudType

\* The same after a step.
LEMMA TypeNext ==
    TypeOK' <=>
        /\ following' \subseteq User \ {Viewer} /\ stored' \subseteq Note
        /\ DOMAIN list' \subseteq stored' /\ \A n \in DOMAIN list' : list'[n] \in BOOLEAN
        /\ rows' \in Nat /\ trapped' \in BOOLEAN /\ DOMAIN cells' \subseteq Cell
        /\ \A c \in DOMAIN cells' : cells'[c] \in [note : Note, userIsFollowed : BOOLEAN]
        /\ hud' \in HudType
        /\ asked' \in [User -> [Reads -> Nat]] /\ others' \in [OtherScreen -> Nat]
        /\ unanswered' \in Nat /\ tapped' \subseteq Note /\ doubtful' \subseteq Note
        /\ refreshed' \in BOOLEAN
BY DEF TypeOK, HudType

\* The rows are the list's, or a reload waits: a step that changes neither.
LEMMA RowsKept ==
    ASSUME RowsFollowList, ReloadWaits => ReloadWaits', rows' = rows, DOMAIN list' = DOMAIN list,
           DOMAIN cells' = DOMAIN cells, \A c \in DOMAIN cells : cells'[c].note = cells[c].note
    PROVE  RowsFollowList'
BY DEF RowsFollowList, NumberOfRows

\* The list and every list on its way are finite.
LEMMA ListFinite ==
    /\ \A ns \in SUBSET Note : IsFiniteSet(ns) /\ Cardinality(ns) \in Nat
    /\ \A ns, ms \in SUBSET Note : ns \subseteq ms => Cardinality(ns) <= Cardinality(ms)
<1>1. \A ns \in SUBSET Note : IsFiniteSet(ns)
  BY NotesAssumption, FS_Subset
<1>2. \A ns \in SUBSET Note : Cardinality(ns) \in Nat
  BY <1>1, FS_CardinalityType
<1>3. \A ns, ms \in SUBSET Note : ns \subseteq ms => Cardinality(ns) <= Cardinality(ms)
  BY <1>1, FS_Subset
<1> QED
  BY <1>1, <1>2, <1>3

\* The list is as long as it was, and no list is on its way that was not.
LEMMA CoverKept ==
    ASSUME RowsCovered, TrapsNeedRefresh, rows' = rows, DOMAIN list' = DOMAIN list,
           refreshed' = refreshed, trapped' = trapped,
           \A b \in Waiting' : b.type = "answer" => b \in Waiting
    PROVE  RowsCovered' /\ TrapsNeedRefresh'
BY DEF RowsCovered, TrapsNeedRefresh, Answers

\* A block is posted; if it is a list, it has all of those on their way.
LEMMA ListsPosted ==
    ASSUME DeviceOK, ListsGrow, NEW b \in Blocks, mainq'[Viewer] = Append(mainq[Viewer], b),
           Answers(b, NotesRead) =>
              \A a \in Waiting : Answers(a, NotesRead) => a.docs \subseteq b.docs
    PROVE  ListsGrow'
<1> DEFINE m == mainq[Viewer]
           t == mainq'[Viewer]
<1>1. m \in Seq(Blocks) /\ t = Append(m, b)
  BY DeviceFacts
<1>2. /\ DOMAIN t = 1..(Len(m) + 1) /\ Len(m) \in Nat /\ DOMAIN m = 1..Len(m)
      /\ t[Len(m) + 1] = b /\ \A i \in 1..Len(m) : t[i] = m[i]
  <2> DEFINE B == Blocks
  <2>1. m \in Seq(B) /\ b \in B
    BY <1>1
  <2> HIDE DEF B, m, t
  <2> QED
    BY <1>1, <2>1, AppendProperties, LenProperties
<1> SUFFICES ASSUME NEW i \in DOMAIN t, NEW j \in DOMAIN t, i < j,
                    Answers(t[i], NotesRead), Answers(t[j], NotesRead)
             PROVE  t[i].docs \subseteq t[j].docs
  BY DEF ListsGrow, Answers
<1>3. i \in DOMAIN m /\ t[i] = m[i] /\ m[i] \in Waiting
  <2>1. i \in DOMAIN m /\ t[i] = m[i]
    BY <1>2
  <2> QED
    BY <2>1 DEF Waiting, Elems
<1>4. CASE j = Len(m) + 1
  BY <1>2, <1>3, <1>4
<1>5. CASE j # Len(m) + 1
  <2>1. j \in DOMAIN m /\ t[j] = m[j]
    BY <1>2, <1>5
  <2> QED
    BY <1>3, <2>1 DEF ListsGrow
<1> QED
  BY <1>4, <1>5

\* A block runs; if it is a list, those behind it have all of it.
LEMMA ListsRun ==
    ASSUME DeviceOK, ListsGrow, mainq[Viewer] # << >>,
           NEW b, NEW bs \in {<< >>, <<Reload>>}, Running(b, bs)
    PROVE  /\ ListsGrow'
           /\ \A a \in Waiting' : a.type = "answer" => a \in Waiting
           /\ Answers(b, NotesRead) =>
                 \A a \in Waiting' : Answers(a, NotesRead) => b.docs \subseteq a.docs
<1> DEFINE m == mainq[Viewer]
           t == mainq'[Viewer]
<1>1. /\ \A i \in DOMAIN t : t[i] = Reload \/ (i + 1 \in DOMAIN m /\ t[i] = m[i + 1])
      /\ \A i \in DOMAIN t : i \in Nat
      /\ \A i \in DOMAIN m : i \in Nat
      /\ 1 \in DOMAIN m /\ m[1] = b
  BY RunQueue
<1>2. Reload.type # "answer"
  BY BlockFacts
<1>3. \A i \in DOMAIN t : t[i].type = "answer" => i + 1 \in DOMAIN m /\ t[i] = m[i + 1]
  BY <1>1, <1>2
<1>4. ListsGrow'
  <2> SUFFICES ASSUME NEW i \in DOMAIN t, NEW j \in DOMAIN t, i < j,
                      Answers(t[i], NotesRead), Answers(t[j], NotesRead)
               PROVE  t[i].docs \subseteq t[j].docs
    BY DEF ListsGrow, Answers
  <2>1. i + 1 \in DOMAIN m /\ t[i] = m[i + 1] /\ j + 1 \in DOMAIN m /\ t[j] = m[j + 1]
    BY <1>3 DEF Answers
  <2>2. i + 1 < j + 1
    BY <1>1
  <2> QED
    BY <2>1, <2>2 DEF ListsGrow
<1>5. ASSUME NEW a \in Waiting', a.type = "answer"
      PROVE  a \in Waiting /\ \E k \in DOMAIN m : a = m[k] /\ k > 1
  <2>1. PICK i \in DOMAIN t : a = t[i]
    BY DEF Waiting, Elems
  <2>2. i + 1 \in DOMAIN m /\ a = m[i + 1]
    BY <1>3, <1>5, <2>1
  <2>3. i + 1 > 1
    <3>1. i \in Nat /\ i + 1 \in Nat
      BY <1>1
    <3>2. i # 0
      <4>1. mainq'[Viewer] \in Seq(Blocks)
        BY RunFacts
      <4> QED
        BY <2>1, <4>1
    <3> QED
      BY <3>1, <3>2
  <2> QED
    BY <2>2, <2>3 DEF Waiting, Elems
<1>6. ASSUME Answers(b, NotesRead), NEW a \in Waiting', Answers(a, NotesRead)
      PROVE  b.docs \subseteq a.docs
  <2>1. PICK k \in DOMAIN m : a = m[k] /\ k > 1
    BY <1>5, <1>6 DEF Answers
  <2> QED
    BY <1>1, <1>6, <2>1 DEF ListsGrow
<1> QED
  BY <1>4, <1>5, <1>6

\* The flights and the rows are as they were, and what a row relies on stays: a
\* reload that waits, a check under way, and its value in the list.
LEMMA Calm ==
    ASSUME NotesInv, Queued' = Queued,
           \A b : b.type = "ack" => (b \in Waiting' <=> b \in Waiting),
           \A uid : Once(uid) => Once(uid)',
           following' = following, cells' = cells, tapped' = tapped, doubtful \subseteq doubtful',
           ReloadWaits => ReloadWaits',
           \A n \in FollowNote \ tapped : n \notin doubtful' =>
              /\ UnderWay(CheckRead(n)) => UnderWay(CheckRead(n))'
              /\ n \in DOMAIN list' =>
                    UnderWay(CheckRead(n))' \/ (n \in DOMAIN list /\ list'[n] = list[n])
    PROVE  Tapping' /\ TappedRows' /\ UntappedRows' /\ Reuse'
<1>1. \A w : w \in InFlight' <=> w \in InFlight
  BY InFlightIs, InFlightNext
<1>2. \A uid : Pending(uid)' <=> Pending(uid)
  BY <1>1 DEF Pending
<1>3. Tapping'
  BY <1>2 DEF NotesInv, Tapping
<1>4. Reuse'
  BY <1>1 DEF NotesInv, Reuse
<1>5. \A n : ShowsTruth(n)' <=> ShowsTruth(n)
  BY DEF ShowsTruth
<1>6. \A w, n : Turns(w, n)' <=> Turns(w, n)
  BY DEF Turns
<1>7. \A n : Own(n) => Own(n)'
  BY <1>1, <1>2, <1>5, <1>6 DEF Own
<1>8. TappedRows'
  BY <1>7 DEF NotesInv, TappedRows
<1>9. UntappedRows'
  BY <1>5 DEF NotesInv, UntappedRows
<1> QED
  BY <1>3, <1>4, <1>8, <1>9

\* The device's queues are as they were, too.
LEMMA Still ==
    ASSUME NotesInv, queue' = queue, mainq' = mainq, following' = following,
           cells' = cells, list' = list, tapped' = tapped, doubtful \subseteq doubtful',
           events' \in Nat, stored \subseteq stored', rows' = rows, refreshed' = refreshed,
           trapped' => trapped \/ refreshed,
           \A n \in FollowNote : n \notin doubtful' =>
              (asked[Viewer][CheckRead(n)] > 0 => asked'[Viewer][CheckRead(n)] > 0),
           TypeOK'
    PROVE  NotesInv'
<1>1. Queued' = Queued /\ Waiting' = Waiting /\ (ReloadWaits' <=> ReloadWaits)
  BY DEF Queued, Waiting, ReloadWaits
<1>2. \A uid : Once(uid) => Once(uid)'
  BY <1>1 DEF Once, Solo, WritesOf, AcksOf, Writes, Blocks
<1>3. \A n \in FollowNote \ tapped : n \notin doubtful' =>
         (UnderWay(CheckRead(n)) => UnderWay(CheckRead(n))')
  BY <1>1 DEF UnderWay
<1>4. Tapping' /\ TappedRows' /\ UntappedRows' /\ Reuse'
  BY <1>1, <1>2, <1>3, Calm
<1>5. DeviceOK'
  BY <1>1 DEF NotesInv, DeviceOK, Writes, Blocks, Reads, CheckReads
<1>6. RowsFollowList'
  BY <1>1, RowsKept DEF NotesInv
<1>7. ChecksRight'
  BY <1>1, ChecksIssued DEF NotesInv
<1>8. ListsGrow' /\ RowsCovered' /\ TrapsNeedRefresh'
  BY <1>1 DEF NotesInv, ListsGrow, RowsCovered, TrapsNeedRefresh, Answers
<1> QED
  BY <1>4, <1>5, <1>6, <1>7, <1>8 DEF NotesInv

\* An event is counted.
LEMMA EventFacts ==
    ASSUME DeviceOK, Event
    PROVE  events' \in Nat
BY DEF DeviceOK, Event

\* More reads are asked for; those that were, are.
LEMMA AskedMore ==
    ASSUME TypeOK, NEW rs, asked' = Ask(Viewer, rs)
    PROVE  /\ asked' \in [User -> [Reads -> Nat]]
           /\ \A r \in Reads : /\ asked[Viewer][r] > 0 => asked'[Viewer][r] > 0
                               /\ r \in rs => asked'[Viewer][r] > 0
<1>1. asked \in [User -> [Reads -> Nat]]
  BY DEF TypeOK
<1>2. \A r \in Reads : asked[Viewer][r] \in Nat
  BY <1>1, NotesAssumption
<1>3. /\ asked' \in [User -> [Reads -> Nat]]
      /\ \A r \in Reads : asked'[Viewer][r] = IF r \in rs THEN asked[Viewer][r] + 1 ELSE asked[Viewer][r]
  BY <1>1, AskedFacts
<1> QED
  BY <1>2, <1>3

\* One read fewer is asked for; the others are as they were.
LEMMA AskedLess ==
    ASSUME TypeOK, NEW r \in Reads, asked[Viewer][r] > 0,
           asked' = [asked EXCEPT ![Viewer][r] = @ - 1]
    PROVE  /\ asked' \in [User -> [Reads -> Nat]]
           /\ \A s \in Reads : s # r => asked'[Viewer][s] = asked[Viewer][s]
<1>1. asked \in [User -> [Reads -> Nat]]
  BY DEF TypeOK
<1> QED
  BY <1>1, AskedFacts

\* A follow notification is one of the notifications.
LEMMA FollowNoteIn == \A n \in FollowNote : n \in Note /\ CheckRead(n) \in Reads
BY NotesAssumption, ReadFacts

\* The screen appears again, and asks for the list.
LEMMA ViewWillAppearInv ==
    ASSUME NotesInv, ViewWillAppear
    PROVE  NotesInv'
<1>1. TypeOK /\ DeviceOK
  BY DEF NotesInv
<1>2. /\ asked' = Ask(Viewer, {NotesRead}) /\ Event
      /\ UNCHANGED <<queue, mainq, following, stored, list, rows, cells, trapped, hud, others>>
      /\ UNCHANGED <<unanswered, tapped, doubtful, refreshed>>
  BY DEF ViewWillAppear, backendVars, screenVars, history
<1>3. /\ asked' \in [User -> [Reads -> Nat]]
      /\ \A r \in Reads : asked[Viewer][r] > 0 => asked'[Viewer][r] > 0
  BY <1>1, <1>2, AskedMore
<1>4. TypeOK'
  BY <1>1, <1>2, <1>3, TypeParts, TypeNext
<1> QED
  BY <1>1, <1>2, <1>3, <1>4, EventFacts, FollowNoteIn, Still

\* A row or a picture is touched, and opens.
LEMMA TouchedRowInv ==
    ASSUME NotesInv, DidSelectRow \/ \E c \in Cell : WantsToViewPost(c)
    PROVE  NotesInv'
<1>1. TypeOK /\ DeviceOK
  BY DEF NotesInv
<1>2. /\ asked' = Ask(Viewer, {OpenRead}) /\ Event /\ hud' = Show(hud, "here")
      /\ UNCHANGED <<queue, mainq, following, stored, list, rows, cells, trapped, others>>
      /\ UNCHANGED <<unanswered, tapped, doubtful, refreshed>>
  BY DEF DidSelectRow, WantsToViewPost, backendVars, screenVars, history
<1>3. /\ asked' \in [User -> [Reads -> Nat]]
      /\ \A r \in Reads : asked[Viewer][r] > 0 => asked'[Viewer][r] > 0
  BY <1>1, <1>2, AskedMore
<1>4. TypeOK'
  BY <1>1, <1>2, <1>3, TypeParts, TypeNext, HudFacts
<1> QED
  BY <1>1, <1>2, <1>3, <1>4, EventFacts, FollowNoteIn, Still

\* The other screens, and the animation of the HUD.
LEMMA HudMovesInv ==
    ASSUME NotesInv,
           \/ \E s \in OtherScreen : OtherScreenLoads(s) \/ OtherScreenLoaded(s)
           \/ SearchFails \/ ShareButtonPressed \/ AnimationDidFinish
    PROVE  NotesInv'
<1>1. TypeOK /\ DeviceOK
  BY DEF NotesInv
<1>2. /\ UNCHANGED <<queue, asked, mainq, following, stored, list, rows, cells, trapped>>
      /\ UNCHANGED <<tapped, doubtful, refreshed>>
  BY DEF OtherScreenLoads, OtherScreenLoaded, SearchFails, ShareButtonPressed, AnimationDidFinish,
         backendVars, screenVars, history, sdkVars
<1>3. hud' \in HudType
  <2>1. hud \in HudType
    BY <1>1, TypeParts
  <2>2. \/ hud' = Show(hud, "elsewhere") \/ hud' = Dismiss(hud) \/ hud' = hud
        \/ hud' = Dismiss(Show(hud, "elsewhere")) \/ AnimationDidFinish
    BY DEF OtherScreenLoads, OtherScreenLoaded, SearchFails, ShareButtonPressed
  <2>3. CASE AnimationDidFinish
    BY <2>1, <2>3, HudFacts DEF AnimationDidFinish
  <2>4. Show(hud, "elsewhere") \in HudType
    BY <2>1, HudFacts
  <2> QED
    BY <2>1, <2>2, <2>3, <2>4, HudFacts
<1>4. others' \in [OtherScreen -> Nat] /\ unanswered' \in Nat /\ events' \in Nat
  <2>1. others \in [OtherScreen -> Nat] /\ unanswered \in Nat /\ events \in Nat
    BY <1>1 DEF TypeOK, DeviceOK
  <2>2. ASSUME NEW s \in OtherScreen, OtherScreenLoads(s)
        PROVE  others' \in [OtherScreen -> Nat] /\ unanswered' \in Nat /\ events' \in Nat
    BY <2>1, <2>2 DEF OtherScreenLoads, Event, history
  <2>3. ASSUME NEW s \in OtherScreen, others[s] > 0
        PROVE  [others EXCEPT ![s] = @ - 1] \in [OtherScreen -> Nat]
    <3>1. others[s] - 1 \in Nat
      BY <2>1, <2>3
    <3> QED
      BY <2>1, <3>1
  <2>4. ASSUME NEW s \in OtherScreen, OtherScreenLoaded(s)
        PROVE  others' \in [OtherScreen -> Nat] /\ unanswered' \in Nat /\ events' \in Nat
    BY <2>1, <2>3, <2>4 DEF OtherScreenLoaded, history
  <2>5. CASE SearchFails
    BY <2>1, <2>3, <2>5 DEF SearchFails, Event, OtherScreen
  <2>6. CASE ShareButtonPressed
    BY <2>1, <2>6 DEF ShareButtonPressed, Event, history
  <2>7. CASE AnimationDidFinish
    BY <2>1, <2>7 DEF AnimationDidFinish, history
  <2> QED
    BY <2>2, <2>4, <2>5, <2>6, <2>7
<1>5. TypeOK'
  BY <1>1, <1>2, <1>3, <1>4, TypeParts, TypeNext
<1> QED
  BY <1>2, <1>4, <1>5, Still

\* A row is asked for that the list does not have.
LEMMA IndexOutOfRangeInv ==
    ASSUME NotesInv, IndexOutOfRange
    PROVE  NotesInv'
<1>1. TypeOK /\ DeviceOK /\ RowsCovered
  BY DEF NotesInv
<1>2. /\ Cardinality(DOMAIN list) < rows /\ trapped' = TRUE
      /\ UNCHANGED <<queue, asked, mainq, following, stored, list, rows, cells, hud, others, events>>
      /\ UNCHANGED <<unanswered, tapped, doubtful, refreshed>>
  BY DEF IndexOutOfRange, backendVars, history, sdkVars
<1>3. refreshed
  <2>1. rows \in Nat /\ DOMAIN list \in SUBSET Note
    BY <1>1, TypeParts
  <2>2. Cardinality(DOMAIN list) \in Nat
    BY <2>1, ListFinite
  <2> QED
    BY <1>1, <1>2, <2>1, <2>2 DEF RowsCovered
<1>4. TypeOK' /\ events' \in Nat
  BY <1>1, <1>2, TypeParts, TypeNext DEF DeviceOK
<1> QED
  BY <1>2, <1>3, <1>4, Still

\* A notification arrives at the backend.
LEMMA NoteArrivesInv ==
    ASSUME NotesInv, NEW n \in Note, NoteArrives(n)
    PROVE  NotesInv'
<1>1. TypeOK /\ DeviceOK
  BY DEF NotesInv
<1>2. /\ Event /\ stored' = stored \union {n}
      /\ UNCHANGED <<queue, asked, mainq, following, list, rows, cells, trapped, hud, others>>
      /\ UNCHANGED <<unanswered, tapped, doubtful, refreshed>>
  BY DEF NoteArrives, screenVars, history, sdkVars
<1>3. TypeOK'
  BY <1>1, <1>2, TypeParts, TypeNext
<1> QED
  BY <1>1, <1>2, <1>3, EventFacts, Still

\* A read fails; the row of a check is in doubt.
LEMMA FailToAnswerInv ==
    ASSUME NotesInv, NEW r \in Outstanding, FailToAnswer(r)
    PROVE  NotesInv'
<1>1. TypeOK /\ DeviceOK
  BY DEF NotesInv
<1>2. /\ Event /\ ReadFails(Viewer, r)
      /\ unanswered' = IF r = OpenRead THEN unanswered + 1 ELSE unanswered
      /\ doubtful' = doubtful \union {n \in Note : CheckRead(n) = r}
      /\ UNCHANGED <<following, stored, list, rows, cells, trapped, hud, others, tapped, refreshed>>
  BY DEF FailToAnswer, backendVars, screenVars
<1>3. /\ r \in Reads /\ asked[Viewer][r] > 0 /\ UNCHANGED <<queue, mainq>>
      /\ asked' = [asked EXCEPT ![Viewer][r] = @ - 1]
  BY <1>2 DEF Outstanding, ReadFails
<1>4. /\ asked' \in [User -> [Reads -> Nat]]
      /\ \A s \in Reads : s # r => asked'[Viewer][s] = asked[Viewer][s]
  BY <1>1, <1>3, AskedLess
<1>5. unanswered' \in Nat
  BY <1>1, <1>2 DEF TypeOK
<1>6. TypeOK'
  BY <1>1, <1>2, <1>3, <1>4, <1>5, TypeParts, TypeNext
<1>7. \A n \in FollowNote : n \notin doubtful' => CheckRead(n) # r
  BY <1>2, FollowNoteIn
<1> QED
  BY <1>1, <1>2, <1>3, <1>4, <1>6, <1>7, EventFacts, FollowNoteIn, Still

-----------------------------------------------------------------------------
(***************************************************************************)
(* The answers, and the other steps that post or run a block and leave the *)
(* flights alone.                                                          *)
(***************************************************************************)

\* What a read finds.
LEMMA FoundFacts ==
    ASSUME TypeOK, DeviceOK
    PROVE  /\ \A r \in Reads : Found(r) \in SUBSET Note
           /\ Found(NotesRead) = stored
           /\ \A n \in Note :
                 (~\E w \in Queued : w \in FollowingOf(Sender[n])) =>
                    (Found(CheckRead(n)) # {} <=> Sender[n] \in following)
<1>1. stored \subseteq Note
  BY DEF TypeOK
<1>2. \A r \in CheckReads :
         Found(r) = {n \in {r[2]} : LocallyPresent(Viewer, "following", Sender[n], following)}
  BY ReadFacts DEF Found
<1>3. \A r \in Reads : Found(r) \in SUBSET Note
  BY <1>1, <1>2, ReadFacts DEF Found
<1>4. ASSUME NEW n \in Note, ~\E w \in Queued : w \in FollowingOf(Sender[n])
      PROVE  Found(CheckRead(n)) # {} <=> Sender[n] \in following
  <2> DEFINE present == LocallyPresent(Viewer, "following", Sender[n], following)
  <2>1. Found(CheckRead(n)) = {m \in {n} : LocallyPresent(Viewer, "following", Sender[m], following)}
    BY <1>2, ReadFacts
  <2>2. Found(CheckRead(n)) # {} <=> present
    BY <2>1
  <2>3. Queued \subseteq Writes
    BY DeviceFacts
  <2>4. {i \in DOMAIN queue[Viewer] : queue[Viewer][i].coll = "following"
                                      /\ queue[Viewer][i].key = Sender[n]} = {}
    BY <1>4, <2>3 DEF Queued, Elems, FollowingOf
  <2>5. present <=> Sender[n] \in following
    BY <2>4 DEF LocallyPresent
  <2> QED
    BY <2>2, <2>5
<1> QED
  BY <1>3, <1>4 DEF Found

\* The steps that post a block which is no completion, and leave the rows alone.
LEMMA Posting ==
    ASSUME NotesInv, NEW b \in Blocks, b.type # "ack",
           mainq' = [mainq EXCEPT ![Viewer] = Append(@, b)],
           queue' = queue, following' = following, stored' = stored, cells' = cells,
           tapped' = tapped, doubtful' = doubtful, events' \in Nat,
           rows' = rows, trapped' = trapped, refreshed => refreshed',
           \/ list' = list /\ refreshed' = refreshed
           \/ DOMAIN list' = {} /\ b.type = "reload" /\ refreshed',
           \A n \in FollowNote : UnderWay(CheckRead(n)) => UnderWay(CheckRead(n))',
           Answers(b, NotesRead) => b.docs = stored,
           \A n \in Note : Answers(b, CheckRead(n)) =>
              \/ b.docs # {} <=> Sender[n] \in following
              \/ \E w \in Queued : w \in FollowingOf(Sender[n]),
           TypeOK'
    PROVE  NotesInv'
<1>1. TypeOK /\ DeviceOK /\ ChecksRight /\ RowsFollowList
  BY DEF NotesInv
<1>2. /\ DOMAIN mainq' = User /\ mainq'[Viewer] \in Seq(Blocks)
      /\ mainq'[Viewer] = Append(mainq[Viewer], b)
      /\ Waiting' = Waiting \union {b}
  BY <1>1, PostedFacts
<1>3. Queued' = Queued /\ (ReloadWaits => ReloadWaits') /\ (b.type = "reload" => ReloadWaits')
  BY <1>2, ReloadIs, ReloadNext DEF Queued
<1>4. \A uid : Once(uid) => Once(uid)'
  BY <1>1, <1>2, OncePosted
<1>5. \A a : a.type = "ack" => (a \in Waiting' <=> a \in Waiting)
  BY <1>2
<1>6. Tapping' /\ TappedRows' /\ UntappedRows' /\ Reuse'
  BY <1>3, <1>4, <1>5, Calm
<1>7. DeviceOK'
  <2>1. DOMAIN queue' = User /\ queue'[Viewer] \in Seq(Writes)
    BY <1>1 DEF DeviceOK
  <2>2. \A a \in Waiting' : Answers(a, NotesRead) => a.docs \subseteq stored'
    BY <1>1, <1>2 DEF DeviceOK
  <2> QED
    BY <1>2, <2>1, <2>2 DEF DeviceOK, Answers, Writes, Blocks, Reads, CheckReads
<1>8. RowsFollowList'
  <2>1. CASE b.type = "reload"
    BY <1>3, <2>1 DEF RowsFollowList
  <2>2. CASE list' = list
    BY <1>1, <1>3, <2>2, RowsKept
  <2> QED
    BY <2>1, <2>2
<1>9. ChecksRight'
  BY <1>1, <1>2, <1>3, ChecksPosted
<1>10. ListsGrow'
  <2>1. \A a \in Waiting : Answers(a, NotesRead) => a.docs \subseteq stored
    BY <1>1 DEF DeviceOK
  <2>2. ListsGrow
    BY DEF NotesInv
  <2> QED
    BY <1>1, <1>2, <2>1, <2>2, ListsPosted
<1>11. RowsCovered' /\ TrapsNeedRefresh'
  <2>1. RowsCovered /\ TrapsNeedRefresh /\ DOMAIN list \subseteq stored
    BY <1>1, TypeParts DEF NotesInv
  <2>2. \A a \in Waiting' : a \in Waiting \/ a = b
    BY <1>2
  <2> QED
    BY <2>1, <2>2 DEF RowsCovered, TrapsNeedRefresh, Answers
<1> QED
  BY <1>6, <1>7, <1>8, <1>9, <1>10, <1>11 DEF NotesInv

\* A read is answered.
LEMMA AnswerInv ==
    ASSUME NotesInv, NEW r \in Outstanding, Answer(r)
    PROVE  NotesInv'
<1> DEFINE b == Answered(r, Found(r))
<1>1. TypeOK /\ DeviceOK
  BY DEF NotesInv
<1>2. /\ r \in Reads /\ asked[Viewer][r] > 0 /\ queue' = queue
      /\ asked' = [asked EXCEPT ![Viewer][r] = @ - 1]
      /\ mainq' = [mainq EXCEPT ![Viewer] = Append(@, b)]
      /\ UNCHANGED <<following, stored, list, rows, cells, trapped, hud, others, events>>
      /\ UNCHANGED <<unanswered, tapped, doubtful, refreshed>>
  BY DEF Answer, Outstanding, Respond, backendVars, screenVars, history
<1>3. /\ b \in Blocks /\ b.type = "answer" /\ b.r = r /\ b.docs = Found(r)
  BY <1>1, <1>2, FoundFacts, BlockFacts
<1>4. /\ asked' \in [User -> [Reads -> Nat]]
      /\ \A s \in Reads : s # r => asked'[Viewer][s] = asked[Viewer][s]
  BY <1>1, <1>2, AskedLess
<1>5. TypeOK'
  BY <1>1, <1>2, <1>4, TypeParts, TypeNext
<1>6. Waiting' = Waiting \union {b}
  BY <1>1, <1>2, <1>3, PostedFacts
<1>7. \A s \in Reads : UnderWay(s) => UnderWay(s)'
  BY <1>3, <1>4, <1>6 DEF UnderWay, Answers
<1>8. Answers(b, NotesRead) => b.docs = stored
  BY <1>1, <1>3, FoundFacts DEF Answers
<1>9. \A n \in Note : Answers(b, CheckRead(n)) =>
         \/ b.docs # {} <=> Sender[n] \in following
         \/ \E w \in Queued : w \in FollowingOf(Sender[n])
  BY <1>1, <1>3, FoundFacts DEF Answers
<1>10. events' \in Nat
  BY <1>1, <1>2 DEF DeviceOK
<1> HIDE DEF b
<1> QED
  BY <1>2, <1>3, <1>5, <1>7, <1>8, <1>9, <1>10, FollowNoteIn, Posting

\* The list is emptied, and asked for again.
LEMMA DetectRefreshInv ==
    ASSUME NotesInv, DetectRefresh
    PROVE  NotesInv'
<1>1. TypeOK /\ DeviceOK
  BY DEF NotesInv
<1>2. /\ Event /\ list' = << >> /\ refreshed' = TRUE /\ queue' = queue
      /\ mainq' = [mainq EXCEPT ![Viewer] = Append(@, Reload)]
      /\ asked' = Ask(Viewer, {NotesRead})
      /\ UNCHANGED <<following, stored, rows, cells, trapped, hud, others, unanswered, tapped, doubtful>>
  BY DEF DetectRefresh, backendVars
<1>3. /\ asked' \in [User -> [Reads -> Nat]]
      /\ \A r \in Reads : asked[Viewer][r] > 0 => asked'[Viewer][r] > 0
  BY <1>1, <1>2, AskedMore
<1>4. DOMAIN list' = {}
  BY <1>2
<1>5. TypeOK'
  BY <1>1, <1>2, <1>3, <1>4, TypeParts, TypeNext
<1>6. Reload \in Blocks /\ Reload.type = "reload"
  BY BlockFacts
<1>7. Waiting' = Waiting \union {Reload}
  BY <1>1, <1>2, <1>6, PostedFacts
<1>8. \A r \in Reads : UnderWay(r) => UnderWay(r)'
  BY <1>3, <1>7 DEF UnderWay
<1>9. \A r : ~Answers(Reload, r)
  BY <1>6 DEF Answers
<1> QED
  BY <1>1, <1>2, <1>4, <1>5, <1>6, <1>8, <1>9, EventFacts, FollowNoteIn, Posting

\* What every run of a block keeps.
LEMMA RunCommon ==
    ASSUME NotesInv, mainq[Viewer] # << >>, NEW b, NEW bs \in {<< >>, <<Reload>>}, Running(b, bs),
           DOMAIN queue' = User, queue'[Viewer] \in Seq(Writes)
    PROVE  /\ DeviceOK' /\ b \in Waiting /\ b \in Blocks
           /\ b.type # "reload" => (ReloadWaits => ReloadWaits')
           /\ bs = <<Reload>> => ReloadWaits'
           /\ \A a : a.type = "ack" => (a \in Waiting <=> a \in Waiting' \/ a = b)
<1>1. /\ b \in Blocks /\ DOMAIN mainq' = User /\ mainq'[Viewer] \in Seq(Blocks)
      /\ Waiting = {b} \union Elems(Tail(mainq[Viewer]))
      /\ Waiting' = Elems(Tail(mainq[Viewer])) \union Elems(bs)
      /\ Elems(bs) \subseteq {Reload} /\ (bs = <<Reload>> => Reload \in Elems(bs))
      /\ UNCHANGED <<following, stored, trapped, others, events, unanswered, refreshed>>
  BY RunFacts DEF NotesInv
<1>2. Reload.type = "reload"
  BY BlockFacts
<1>3. \A a \in Waiting' : a.type # "reload" => a \in Waiting
  BY <1>1, <1>2
<1>4. DeviceOK'
  <2>1. \A a \in Waiting' : Answers(a, NotesRead) => a.docs \subseteq stored'
    BY <1>1, <1>3 DEF NotesInv, DeviceOK, Answers
  <2>2. events' \in Nat
    BY <1>1 DEF NotesInv, DeviceOK
  <2> QED
    BY <1>1, <2>1, <2>2 DEF DeviceOK, Answers, Writes, Blocks, Reads, CheckReads
<1>5. /\ b.type # "reload" => (ReloadWaits => ReloadWaits')
      /\ bs = <<Reload>> => ReloadWaits'
  BY <1>1, <1>2, ReloadIs, ReloadNext
<1>6. \A a : a.type = "ack" => (a \in Waiting <=> a \in Waiting' \/ a = b)
  BY <1>1, <1>2
<1> QED
  BY <1>1, <1>4, <1>5, <1>6

\* A block that is no completion of a write, and issues none.
LEMMA RunCalm ==
    ASSUME NotesInv, mainq[Viewer] # << >>, NEW b, NEW bs \in {<< >>, <<Reload>>}, Running(b, bs),
           queue' = queue, b.type # "ack"
    PROVE  /\ DeviceOK' /\ ChecksRight' /\ Queued' = Queued
           /\ \A a : a.type = "ack" => (a \in Waiting' <=> a \in Waiting)
           /\ \A uid : Once(uid) => Once(uid)'
<1>1. DeviceOK /\ ChecksRight
  BY DEF NotesInv
<1>2. DOMAIN queue' = User /\ queue'[Viewer] \in Seq(Writes) /\ Queued' = Queued
  BY <1>1 DEF DeviceOK, Queued
<1>3. DeviceOK' /\ b \in Waiting
  BY <1>2, RunCommon
<1>4. \A a : a.type = "ack" => (a \in Waiting' <=> a \in Waiting)
  BY <1>2, RunCommon
<1>5. ChecksRight'
  BY <1>1, <1>2, ChecksRun
<1>6. ASSUME NEW uid, Once(uid) PROVE Once(uid)'
  <2>1. Solo(mainq'[Viewer], AcksOf(uid))
    BY <1>1, <1>6, OnceRun
  <2>2. Solo(queue'[Viewer], WritesOf(uid))
    BY <1>6 DEF Once
  <2>3. \A w \in Queued', c \in Waiting' : ~(w \in WritesOf(uid) /\ c \in AcksOf(uid))
    BY <1>2, <1>4, <1>6 DEF Once, AcksOf
  <2> QED
    BY <2>1, <2>2, <2>3 DEF Once, Solo, WritesOf, AcksOf, Writes, Blocks
<1> QED
  BY <1>2, <1>3, <1>4, <1>5, <1>6

\* The list arrives, and the follows in it are checked.
LEMMA NotesFetchedInv ==
    ASSUME NotesInv, mainq[Viewer] # << >>, NEW b, NotesFetched(b)
    PROVE  NotesInv'
<1>1. TypeOK /\ DeviceOK
  BY DEF NotesInv
<1>2. /\ Running(b, <<Reload>>) /\ b.type = "answer" /\ b.r = NotesRead
      /\ list' = [n \in b.docs |-> FALSE]
      /\ asked' = Ask(Viewer, {CheckRead(n) : n \in b.docs \intersect FollowNote})
      /\ UNCHANGED <<queue, rows, cells, hud, tapped, doubtful>>
  BY DEF NotesFetched
<1>3. UNCHANGED <<following, stored, trapped, others, events, unanswered, refreshed>>
  BY <1>1, <1>2, RunFacts
<1>4. /\ DeviceOK' /\ ChecksRight' /\ Queued' = Queued
      /\ \A a : a.type = "ack" => (a \in Waiting' <=> a \in Waiting)
      /\ \A uid : Once(uid) => Once(uid)'
  BY <1>2, RunCalm
<1>5. b \in Waiting /\ ReloadWaits'
  BY <1>1, <1>2, RunCommon DEF DeviceOK
<1>6. b.docs \subseteq stored
  BY <1>1, <1>2, <1>5 DEF DeviceOK, Answers
<1>7. asked' \in [User -> [Reads -> Nat]]
  BY <1>1, <1>2, AskedMore
<1>8. TypeOK'
  BY <1>1, <1>2, <1>3, <1>6, <1>7, TypeParts, TypeNext
<1>9. \A n \in FollowNote :
         /\ UnderWay(CheckRead(n)) => UnderWay(CheckRead(n))'
         /\ n \in DOMAIN list' => UnderWay(CheckRead(n))'
  <2> DEFINE rs == {CheckRead(n) : n \in b.docs \intersect FollowNote}
  <2>1. asked \in [User -> [Reads -> Nat]] /\ asked' = Ask(Viewer, rs)
    BY <1>1, <1>2 DEF TypeOK
  <2>2. \A n \in FollowNote : ~Answers(b, CheckRead(n)) /\ CheckRead(n) \in Reads
    BY <1>2, ReadFacts, FollowNoteIn DEF Answers
  <2>3. \A n \in FollowNote : n \in DOMAIN list' => CheckRead(n) \in rs
    BY <1>2
  <2> HIDE DEF rs
  <2>4. \A r \in Reads : (r \in rs => UnderWay(r)') /\ (UnderWay(r) /\ ~Answers(b, r) => UnderWay(r)')
    BY <1>1, <1>2, <2>1, RunUnderWay
  <2> QED
    BY <2>2, <2>3, <2>4
<1>10. Tapping' /\ TappedRows' /\ UntappedRows' /\ Reuse'
  BY <1>2, <1>3, <1>4, <1>5, <1>9, Calm
<1>11. RowsFollowList'
  BY <1>5 DEF RowsFollowList
<1>12. /\ ListsGrow'
       /\ \A a \in Waiting' : Answers(a, NotesRead) => b.docs \subseteq a.docs
  <2>1. Answers(b, NotesRead) /\ ListsGrow
    BY <1>2 DEF Answers, NotesInv
  <2> QED
    BY <1>1, <1>2, <2>1, ListsRun
<1>13. RowsCovered' /\ TrapsNeedRefresh'
  <2>1. RowsCovered /\ TrapsNeedRefresh /\ Answers(b, NotesRead)
    BY <1>2 DEF Answers, NotesInv
  <2>2. DOMAIN list' = b.docs
    BY <1>2
  <2>3. ASSUME ~refreshed
        PROVE  rows <= Cardinality(b.docs)
    <3>1. rows <= Cardinality(DOMAIN list) /\ DOMAIN list \subseteq b.docs
      BY <1>5, <2>1, <2>3 DEF RowsCovered
    <3>2. DOMAIN list \in SUBSET Note /\ b.docs \in SUBSET Note /\ rows \in Nat
      BY <1>1, <1>6, TypeParts
    <3>3. /\ Cardinality(DOMAIN list) \in Nat /\ Cardinality(b.docs) \in Nat
          /\ Cardinality(DOMAIN list) <= Cardinality(b.docs)
      BY <3>1, <3>2, ListFinite
    <3> QED
      BY <3>1, <3>2, <3>3
  <2>4. RowsCovered'
    BY <1>2, <1>3, <1>12, <2>2, <2>3 DEF RowsCovered, Answers
  <2> QED
    BY <1>3, <2>1, <2>4 DEF TrapsNeedRefresh
<1> QED
  BY <1>4, <1>8, <1>10, <1>11, <1>12, <1>13 DEF NotesInv

\* A touched row opens.
LEMMA OpenedInv ==
    ASSUME NotesInv, mainq[Viewer] # << >>, NEW b, Opened(b)
    PROVE  NotesInv'
<1>1. TypeOK /\ DeviceOK /\ RowsFollowList
  BY DEF NotesInv
<1>2. /\ Running(b, << >>) /\ b.type = "answer" /\ b.r = OpenRead /\ hud' = Dismiss(hud)
      /\ UNCHANGED <<queue, asked, list, rows, cells, tapped, doubtful>>
  BY DEF Opened
<1>3. UNCHANGED <<following, stored, trapped, others, events, unanswered, refreshed>>
  BY <1>1, <1>2, RunFacts
<1>4. /\ DeviceOK' /\ ChecksRight' /\ Queued' = Queued
      /\ \A a : a.type = "ack" => (a \in Waiting' <=> a \in Waiting)
      /\ \A uid : Once(uid) => Once(uid)'
  BY <1>2, RunCalm
<1>5. ReloadWaits => ReloadWaits'
  BY <1>1, <1>2, RunCommon DEF DeviceOK
<1>6. TypeOK'
  BY <1>1, <1>2, <1>3, TypeParts, TypeNext, HudFacts
<1>7. \A n \in FollowNote : UnderWay(CheckRead(n)) => UnderWay(CheckRead(n))'
  <2>1. asked \in [User -> [Reads -> Nat]] /\ asked' = Ask(Viewer, {})
    BY <1>1, <1>2, AskedFacts DEF TypeOK
  <2>2. \A n \in FollowNote : ~Answers(b, CheckRead(n)) /\ CheckRead(n) \in Reads
    BY <1>2, ReadFacts, FollowNoteIn DEF Answers
  <2>3. \A r \in Reads : UnderWay(r) /\ ~Answers(b, r) => UnderWay(r)'
    BY <1>1, <1>2, <2>1, RunUnderWay
  <2> QED
    BY <2>2, <2>3
<1>8. Tapping' /\ TappedRows' /\ UntappedRows' /\ Reuse'
  BY <1>2, <1>3, <1>4, <1>5, <1>7, Calm
<1>9. RowsFollowList'
  BY <1>1, <1>2, <1>5, RowsKept
<1>10. ListsGrow' /\ \A a \in Waiting' : a.type = "answer" => a \in Waiting
  BY <1>1, <1>2, ListsRun DEF NotesInv
<1>11. RowsCovered' /\ TrapsNeedRefresh'
  BY <1>2, <1>3, <1>10, CoverKept DEF NotesInv
<1> QED
  BY <1>4, <1>6, <1>8, <1>9, <1>10, <1>11 DEF NotesInv

-----------------------------------------------------------------------------
(***************************************************************************)
(* The flight of a write: the tap, the backend's decision, and the two     *)
(* completions.                                                            *)
(***************************************************************************)

\* Nothing about a row's sender changes: its writes in flight, what the backend
\* stores, and the cells that show it.
LEMMA OwnKept ==
    ASSUME NEW n, Own(n), Once(Sender[n])',
           \A w : w.key = Sender[n] => /\ w \in InFlight' <=> w \in InFlight
                                       /\ w \in Queued => w \in Queued',
           Sender[n] \in following' <=> Sender[n] \in following,
           \A c \in DOMAIN cells' : cells'[c].note = n => c \in DOMAIN cells /\ cells'[c] = cells[c]
    PROVE  Own(n)'
<1>1. Pending(Sender[n])' <=> Pending(Sender[n])
  BY DEF Pending
<1>2. ShowsTruth(n) => ShowsTruth(n)'
  BY DEF ShowsTruth
<1>3. \A w : w.key = Sender[n] /\ Turns(w, n) => Turns(w, n)'
  BY DEF Turns
<1> QED
  BY <1>1, <1>2, <1>3 DEF Own

\* The button of a row is tapped.
LEMMA FollowButtonClickedInv ==
    ASSUME NotesInv, NEW c \in Cell, FollowButtonClicked(c)
    PROVE  NotesInv'
<1> SUFFICES
      ASSUME NEW note, note = cells[c].note, NEW uid, uid = Sender[note],
             NEW w, w = FollowWrite("following",
                                    IF cells[c].userIsFollowed THEN "delete" ELSE "set", uid, c)
      PROVE  NotesInv'
  OBVIOUS
<1>1. TypeOK /\ DeviceOK
  BY DEF NotesInv
<1>2. /\ Event /\ c \in DOMAIN cells /\ note \in FollowNote /\ hud' = Show(hud, "here")
      /\ queue' = WriteMutations(Viewer, <<w>>)
      /\ tapped' = tapped \union NotesOf(uid)
      /\ doubtful' = doubtful \union (IF Pending(uid) THEN NotesOf(uid) ELSE NotesOf(uid) \ {note})
      /\ UNCHANGED <<asked, mainq, following, stored, list, rows, cells, trapped, others>>
      /\ UNCHANGED <<unanswered, refreshed>>
  BY DEF FollowButtonClicked, backendVars, screenVars
<1>3. note \in Note /\ uid \in User \ {Viewer} /\ cells[c].userIsFollowed \in BOOLEAN
  BY <1>1, <1>2, NotesAssumption, TypeParts
<1>4. /\ w \in Writes /\ w.coll = "following" /\ w.key = uid /\ w.cell = c
      /\ w.op = IF cells[c].userIsFollowed THEN "delete" ELSE "set"
  BY <1>3 DEF FollowWrite, Writes
<1>5. /\ DOMAIN queue' = User /\ queue'[Viewer] \in Seq(Writes)
      /\ queue'[Viewer] = Append(queue[Viewer], w) /\ Queued' = Queued \union {w}
  BY <1>1, <1>2, <1>4, IssuedFacts
<1>6. Waiting' = Waiting /\ (ReloadWaits' <=> ReloadWaits)
      /\ \A r : UnderWay(r)' <=> UnderWay(r)
  BY <1>2 DEF Waiting, ReloadWaits, UnderWay
<1>7. \A v : v \in InFlight' <=> v \in InFlight \/ v = w
  BY <1>5, <1>6, InFlightIs, InFlightNext
<1>8. \A n \in Note : n \in NotesOf(uid) <=> Sender[n] = uid
  BY DEF NotesOf
<1>9. TypeOK'
  BY <1>1, <1>2, TypeParts, TypeNext, HudFacts DEF NotesOf
<1>10. DeviceOK'
  <2>1. events' \in Nat
    BY <1>1, <1>2, EventFacts
  <2> QED
    BY <1>1, <1>2, <1>5, <1>6, <2>1 DEF DeviceOK, Answers, Writes, Blocks, Reads, CheckReads
<1>11. RowsFollowList' /\ ListsGrow' /\ RowsCovered' /\ TrapsNeedRefresh'
  <2>1. RowsFollowList'
    BY <1>2, <1>6, RowsKept DEF NotesInv
  <2>2. ListsGrow'
    BY <1>2 DEF NotesInv, ListsGrow, Answers
  <2> QED
    BY <1>2, <1>6, <2>1, <2>2, CoverKept DEF NotesInv
<1>12. Tapping'
  <2>1. \A n \in Note : Pending(Sender[n])' => Pending(Sender[n]) \/ Sender[n] = uid
    BY <1>4, <1>7 DEF Pending
  <2> QED
    BY <1>2, <1>8, <2>1 DEF NotesInv, Tapping
<1>13. ChecksRight'
  BY <1>2, <1>5, ChecksIssued DEF NotesInv
<1>14. ASSUME NEW n \in FollowNote, n \in tapped', n \notin doubtful', ~ReloadWaits'
       PROVE  Own(n)'
  <2>1. n \in Note /\ n \notin doubtful /\ ~ReloadWaits
    BY <1>2, <1>6, <1>14, FollowNoteIn
  <2>2. CASE Sender[n] # uid
    <3>1. n \in tapped
      BY <1>2, <1>8, <1>14, <2>1, <2>2
    <3>2. Own(n)
      BY <1>14, <2>1, <3>1 DEF NotesInv, TappedRows
    <3>3. Once(Sender[n])'
      <4>1. Once(Sender[n]) /\ w \notin WritesOf(Sender[n])
        BY <1>4, <2>2, <3>2 DEF Own, WritesOf
      <4>2. Solo(queue'[Viewer], WritesOf(Sender[n]))
        BY <1>1, <1>4, <1>5, <4>1, DeviceFacts, SoloAppend DEF Once
      <4>3. \A v \in Queued', b \in Waiting' : ~(v \in WritesOf(Sender[n]) /\ b \in AcksOf(Sender[n]))
        BY <1>5, <1>6, <4>1 DEF Once
      <4>4. Solo(mainq'[Viewer], AcksOf(Sender[n]))
        BY <1>2, <4>1 DEF Once
      <4> QED
        BY <4>2, <4>3, <4>4 DEF Once, Solo, WritesOf, AcksOf, Writes, Blocks
    <3> QED
      BY <1>2, <1>4, <1>5, <1>7, <2>2, <3>2, <3>3, OwnKept
  <2>3. CASE Sender[n] = uid
    <3>1. ~Pending(uid) /\ n = note
      BY <1>2, <1>8, <1>14, <2>1, <2>3
    <3>2. /\ \A v \in Queued : v \notin WritesOf(uid)
          /\ \A b \in Waiting : b \notin AcksOf(uid)
          /\ Once(uid)
      BY <1>1, <3>1, OnceNone
    <3>3. Once(uid)'
      <4>1. Solo(queue'[Viewer], WritesOf(uid))
        <5>1. \A y \in Elems(queue[Viewer]) : y \notin WritesOf(uid)
          BY <3>2 DEF Queued
        <5>2. Solo(queue[Viewer], WritesOf(uid)) /\ queue[Viewer] \in Seq(Writes)
          BY <1>1, <3>2, DeviceFacts DEF Once
        <5> QED
          BY <1>4, <1>5, <5>1, <5>2, SoloAppend
      <4>2. Solo(mainq'[Viewer], AcksOf(uid))
        BY <1>2, <3>2 DEF Once
      <4>3. \A v \in Queued', b \in Waiting' : ~(v \in WritesOf(uid) /\ b \in AcksOf(uid))
        BY <1>6, <3>2
      <4> QED
        BY <4>1, <4>2, <4>3 DEF Once, Solo, WritesOf, AcksOf, Writes, Blocks
    <3>4. \A v \in InFlight' : v.key = uid => v = w
      BY <1>7, <3>1 DEF Pending
    <3>5. Turns(w, n)'
      <4>1. \A d \in DOMAIN cells : cells[d].note = n => d = c
        BY <1>2, <2>1, <3>1 DEF NotesInv, RowsFollowList
      <4>2. cells[c].userIsFollowed <=> w.op = "delete"
        BY <1>3, <1>4
      <4>3. w.coll = "following" /\ w \in Queued'
        BY <1>4, <1>5
      <4> QED
        BY <1>2, <1>4, <4>1, <4>2, <4>3 DEF Turns
    <3>6. Pending(uid)'
      BY <1>4, <1>7 DEF Pending
    <3> QED
      BY <2>3, <3>3, <3>4, <3>5, <3>6 DEF Own
  <2> QED
    BY <2>2, <2>3
<1>15. TappedRows'
  BY <1>14 DEF TappedRows
<1>16. UntappedRows'
  <2>1. \A n : ShowsTruth(n)' <=> ShowsTruth(n)
    BY <1>2 DEF ShowsTruth
  <2> QED
    BY <1>2, <1>6, <2>1 DEF NotesInv, UntappedRows
<1>17. Reuse'
  BY <1>2, <1>4, <1>6, <1>7 DEF NotesInv, Reuse
<1> QED
  BY <1>9, <1>10, <1>11, <1>12, <1>13, <1>15, <1>16, <1>17 DEF NotesInv

\* The backend decides the oldest write w: it does what w says, or the rows of its
\* sender are in doubt.
LEMMA DecidedInv ==
    ASSUME NotesInv, queue[Viewer] # << >>, NEW ok \in BOOLEAN,
           NEW w, w = Head(queue[Viewer]), NotifyUser(Viewer, w, ok),
           UNCHANGED <<stored, list, rows, cells, trapped, tapped, refreshed>>,
           events' \in Nat, doubtful \subseteq doubtful',
           \A u : u # w.key \/ w.coll # "following" => (u \in following' <=> u \in following),
           \/ \A n \in Note : Sender[n] = w.key => n \in doubtful'
           \/ w.coll = "following" => (w.key \in following' <=> w.op = "set"),
           TypeOK'
    PROVE  NotesInv'
<1>1. TypeOK /\ DeviceOK /\ ChecksRight
  BY DEF NotesInv
<1>2. /\ w \in Writes /\ Queued = {w} \union Queued' /\ asked' = asked
      /\ DOMAIN queue' = User /\ queue'[Viewer] \in Seq(Writes)
      /\ queue'[Viewer] = Tail(queue[Viewer])
      /\ DOMAIN mainq' = User /\ mainq'[Viewer] \in Seq(Blocks)
      /\ mainq'[Viewer] = Append(mainq[Viewer], Acked(w, ok))
      /\ Waiting' = Waiting \union {Acked(w, ok)}
  BY <1>1, DecidedFacts
<1>3. Acked(w, ok) \in Blocks /\ Acked(w, ok).type = "ack" /\ Acked(w, ok).w = w
  BY <1>2, BlockFacts
<1>4. /\ \A r : UnderWay(r)' <=> UnderWay(r)
      /\ ReloadWaits' <=> ReloadWaits
  BY <1>2, <1>3, ReloadIs, ReloadNext DEF UnderWay, Answers
<1>5. \A v : v \in InFlight' <=> v \in InFlight
  BY <1>2, <1>3, InFlightIs, InFlightNext
<1>6. \A uid : Pending(uid)' <=> Pending(uid)
  BY <1>5 DEF Pending
<1>7. w \in InFlight /\ w \in Queued /\ Pending(w.key)
  BY <1>2, InFlightIs DEF Pending
<1>8. DeviceOK'
  <2>1. \A b \in Waiting' : Answers(b, NotesRead) => b.docs \subseteq stored'
    BY <1>1, <1>2, <1>3 DEF DeviceOK, Answers
  <2> QED
    BY <1>2, <2>1 DEF DeviceOK, Answers, Writes, Blocks, Reads, CheckReads
<1>9. Tapping' /\ RowsFollowList' /\ ListsGrow' /\ RowsCovered' /\ TrapsNeedRefresh'
  <2>1. RowsFollowList'
    BY <1>4, RowsKept DEF NotesInv
  <2>2. ListsGrow'
    BY <1>1, <1>2, <1>3, ListsPosted DEF NotesInv, Answers
  <2>3. RowsCovered' /\ TrapsNeedRefresh'
    BY <1>2, <1>3, CoverKept DEF NotesInv
  <2> QED
    BY <1>6, <2>1, <2>2, <2>3 DEF NotesInv, Tapping
<1>10. ChecksRight'
  <2>1. ASSUME NEW n \in Note
        PROVE  \/ w \in FollowingOf(Sender[n])
               \/ /\ Sender[n] \in following' <=> Sender[n] \in following
                  /\ \A v \in Queued : v \in FollowingOf(Sender[n]) => v \in Queued'
    BY <1>2 DEF FollowingOf
  <2>2. \A n : ~Answers(Acked(w, ok), CheckRead(n))
    BY <1>3 DEF Answers
  <2> QED
    BY <1>1, <1>2, <1>3, <2>1, <2>2, ChecksPosted
<1>11. ASSUME NEW n \in FollowNote, n \in tapped', n \notin doubtful', ~ReloadWaits'
       PROVE  Own(n)'
  <2>1. n \in Note /\ n \in tapped /\ n \notin doubtful /\ ~ReloadWaits
    BY <1>4, <1>11, FollowNoteIn
  <2>2. Own(n) /\ Once(Sender[n])
    BY <1>11, <2>1 DEF NotesInv, TappedRows, Own
  <2>3. Once(Sender[n])'
    <3> DEFINE W == WritesOf(Sender[n])
               A == AcksOf(Sender[n])
    <3>1. /\ Solo(queue[Viewer], W) /\ Solo(mainq[Viewer], A)
          /\ \A v \in Queued, b \in Waiting : ~(v \in W /\ b \in A)
      BY <2>2 DEF Once
    <3>2. w \in W <=> Acked(w, ok) \in A
      BY <1>2, <1>3 DEF WritesOf, AcksOf
    <3> HIDE DEF W, A
    <3>3. Solo(queue'[Viewer], W) /\ (w \in W => \A v \in Queued' : v \notin W)
      BY <1>1, <1>2, <3>1, DeviceFacts, SoloTail DEF Queued
    <3>4. Solo(mainq'[Viewer], A)
      <4>1. Acked(w, ok) \in A => \A b \in Elems(mainq[Viewer]) : b \notin A
        BY <1>7, <3>1, <3>2 DEF Waiting
      <4> QED
        BY <1>1, <1>2, <1>3, <3>1, <4>1, DeviceFacts, SoloAppend
    <3>5. \A v \in Queued', b \in Waiting' : ~(v \in W /\ b \in A)
      BY <1>2, <3>1, <3>2, <3>3
    <3> QED
      BY <3>3, <3>4, <3>5 DEF Once, Solo, W, A, WritesOf, AcksOf, Writes, Blocks
  <2>4. CASE Sender[n] # w.key
    <3>1. \A v : v.key = Sender[n] => (v \in Queued => v \in Queued')
      BY <1>2, <2>4
    <3> QED
      BY <1>5, <2>2, <2>3, <2>4, <3>1, OwnKept
  <2>5. CASE Sender[n] = w.key
    <3>1. w.coll = "following" => (w.key \in following' <=> w.op = "set")
      BY <1>11, <2>1, <2>5
    <3>2. Turns(w, n)
      BY <1>7, <2>2, <2>5 DEF Own
    <3>3. Turns(w, n)'
      <4>1. w.op = "set" <=> Sender[n] \in following'
        BY <2>5, <3>1, <3>2 DEF Turns
      <4> QED
        BY <3>2, <4>1 DEF Turns
    <3>4. \A v \in InFlight' : v.key = Sender[n] => v = w
      BY <1>1, <1>5, <1>7, <2>2, <2>5, OnceOnly
    <3>5. Pending(Sender[n])'
      BY <1>6, <1>7, <2>5
    <3> QED
      BY <2>3, <3>3, <3>4, <3>5 DEF Own
  <2> QED
    BY <2>4, <2>5
<1>12. TappedRows'
  BY <1>11 DEF TappedRows
<1>13. UntappedRows'
  <2>1. ASSUME NEW n \in FollowNote, n \notin tapped, n \notin doubtful'
        PROVE  Sender[n] \in following' <=> Sender[n] \in following
    <3>1. Sender[n] # w.key
      BY <1>7, <2>1, FollowNoteIn DEF NotesInv, Tapping
    <3> QED
      BY <3>1
  <2>2. \A n \in FollowNote : n \notin tapped /\ n \notin doubtful' /\ ShowsTruth(n) => ShowsTruth(n)'
    BY <2>1 DEF ShowsTruth
  <2> QED
    BY <1>4, <2>1, <2>2 DEF NotesInv, UntappedRows
<1>14. Reuse'
  BY <1>4, <1>5 DEF NotesInv, Reuse
<1> QED
  BY <1>8, <1>9, <1>10, <1>12, <1>13, <1>14 DEF NotesInv

\* The backend accepts the oldest write.
LEMMA CommitInv ==
    ASSUME NotesInv, Commit
    PROVE  NotesInv'
<1> SUFFICES ASSUME NEW w, w = Head(queue[Viewer]) PROVE NotesInv'
  OBVIOUS
<1>1. TypeOK /\ DeviceOK
  BY DEF NotesInv
<1>2. /\ queue[Viewer] # << >> /\ NotifyUser(Viewer, w, TRUE)
      /\ following' = IF w.coll # "following" THEN following
                      ELSE IF w.op = "set" THEN following \union {w.key} ELSE following \ {w.key}
      /\ UNCHANGED <<stored, list, rows, cells, trapped, hud, others, events>>
      /\ UNCHANGED <<unanswered, tapped, doubtful, refreshed>>
  BY DEF Commit, screenVars, history
<1>3. w \in Writes /\ asked' = asked
  BY <1>1, <1>2, DecidedFacts
<1>4. TypeOK'
  BY <1>1, <1>2, <1>3, TypeParts, TypeNext, WriteHas
<1>5. events' \in Nat
  BY <1>1, <1>2 DEF DeviceOK
<1>6. /\ \A u : u # w.key \/ w.coll # "following" => (u \in following' <=> u \in following)
      /\ w.coll = "following" => (w.key \in following' <=> w.op = "set")
  BY <1>2
<1> QED
  BY <1>2, <1>4, <1>5, <1>6, DecidedInv

\* The backend refuses the oldest write.
LEMMA RejectInv ==
    ASSUME NotesInv, Reject
    PROVE  NotesInv'
<1> SUFFICES ASSUME NEW w, w = Head(queue[Viewer]) PROVE NotesInv'
  OBVIOUS
<1>1. TypeOK /\ DeviceOK
  BY DEF NotesInv
<1>2. /\ Event /\ queue[Viewer] # << >> /\ NotifyUser(Viewer, w, FALSE)
      /\ doubtful' = doubtful \union NotesOf(w.key)
      /\ UNCHANGED <<following, stored, list, rows, cells, trapped, hud, others>>
      /\ UNCHANGED <<unanswered, tapped, refreshed>>
  BY DEF Reject, backendVars, screenVars
<1>3. asked' = asked
  BY <1>1, <1>2, DecidedFacts
<1>4. TypeOK'
  BY <1>1, <1>2, <1>3, TypeParts, TypeNext DEF NotesOf
<1>5. \A n \in Note : Sender[n] = w.key => n \in doubtful'
  BY <1>2 DEF NotesOf
<1> QED
  BY <1>1, <1>2, <1>4, <1>5, EventFacts, DecidedInv

\* A completion runs: which writes are left in flight.
LEMMA AckRun ==
    ASSUME NotesInv, mainq[Viewer] # << >>, NEW b, Running(b, << >>), b.type = "ack",
           DOMAIN queue' = User, queue'[Viewer] \in Seq(Writes), Queued \subseteq Queued',
           asked' = asked
    PROVE  /\ DeviceOK' /\ ChecksRight' /\ b.w \in Writes /\ b.w \in InFlight
           /\ \E a \in Waiting : a.type = "ack" /\ a.w = b.w
           /\ ReloadWaits => ReloadWaits'
           /\ \A r \in Reads : UnderWay(r) => UnderWay(r)'
           /\ \A a \in Waiting' : a.type = "ack" => a \in Waiting
           /\ \A v : v \in InFlight => v \in InFlight' \/ v = b.w
           /\ \A v : v \in InFlight' => v \in InFlight \/ v \in Queued'
           /\ UNCHANGED <<following, stored, trapped, others, events, unanswered, refreshed>>
<1>1. TypeOK /\ DeviceOK /\ ChecksRight
  BY DEF NotesInv
<1>2. DeviceOK' /\ b \in Waiting /\ b \in Blocks /\ (ReloadWaits => ReloadWaits')
  BY RunCommon
<1>3. \A a : a.type = "ack" => (a \in Waiting <=> a \in Waiting' \/ a = b)
  BY RunCommon
<1>4. ChecksRight'
  BY <1>1, ChecksRun
<1>5. b.w \in Writes /\ b.w \in InFlight
  BY <1>2, BlockFacts, InFlightIs
<1>6. UNCHANGED <<following, stored, trapped, others, events, unanswered, refreshed>>
  BY <1>1, RunFacts
<1>7. \A r \in Reads : UnderWay(r) => UnderWay(r)'
  <2>1. asked \in [User -> [Reads -> Nat]] /\ asked' = Ask(Viewer, {})
    BY <1>1, AskedFacts DEF TypeOK
  <2>2. \A r \in Reads : UnderWay(r) /\ ~Answers(b, r) => UnderWay(r)'
    BY <1>1, <2>1, RunUnderWay
  <2> QED
    BY <2>2 DEF Answers
<1>8. \A v : v \in InFlight => v \in InFlight' \/ v = b.w
  BY <1>3, InFlightIs, InFlightNext
<1>9. \A v : v \in InFlight' => v \in InFlight \/ v \in Queued'
  BY <1>3, InFlightIs, InFlightNext
<1> QED
  BY <1>2, <1>3, <1>4, <1>5, <1>6, <1>7, <1>8, <1>9

\* The write of `following` completes, and its other half is issued.
LEMMA FollowingAckedInv ==
    ASSUME NotesInv, mainq[Viewer] # << >>, NEW b, FollowingAcked(b)
    PROVE  NotesInv'
<1> SUFFICES ASSUME NEW w, w = FollowWrite("followers", b.w.op, b.w.key, b.w.cell) PROVE NotesInv'
  OBVIOUS
<1>1. TypeOK /\ DeviceOK /\ RowsFollowList
  BY DEF NotesInv
<1>2. /\ Running(b, << >>) /\ b.type = "ack" /\ b.w.coll = "following"
      /\ queue' = WriteMutations(Viewer, <<w>>)
      /\ UNCHANGED <<asked, list, rows, cells, hud, tapped, doubtful>>
  BY DEF FollowingAcked
<1>3. /\ w \in Writes /\ w.coll = "followers" /\ w.op = b.w.op /\ w.key = b.w.key
      /\ w.cell = b.w.cell
  <2>1. b \in Blocks
    BY <1>1, <1>2, RunFacts
  <2>2. b.w \in Writes
    BY <1>2, <2>1, BlockFacts
  <2> QED
    BY <2>2 DEF FollowWrite, Writes
<1>4. /\ DOMAIN queue' = User /\ queue'[Viewer] \in Seq(Writes)
      /\ queue'[Viewer] = Append(queue[Viewer], w) /\ Queued' = Queued \union {w}
  BY <1>1, <1>2, <1>3, IssuedFacts
<1>5. /\ DeviceOK' /\ ChecksRight' /\ b.w \in InFlight
      /\ \E a \in Waiting : a.type = "ack" /\ a.w = b.w
      /\ ReloadWaits => ReloadWaits'
      /\ \A r \in Reads : UnderWay(r) => UnderWay(r)'
      /\ \A a \in Waiting' : a.type = "ack" => a \in Waiting
      /\ \A v : v \in InFlight => v \in InFlight' \/ v = b.w
      /\ \A v : v \in InFlight' => v \in InFlight \/ v \in Queued'
      /\ UNCHANGED <<following, stored, trapped, others, events, unanswered, refreshed>>
  BY <1>2, <1>4, AckRun
<1>6. \A v : v \in InFlight' => v \in InFlight \/ v = w
  BY <1>4, <1>5, InFlightIs
<1>7. \A uid : Pending(uid)' => Pending(uid)
  BY <1>3, <1>5, <1>6 DEF Pending
<1>8. TypeOK'
  BY <1>1, <1>2, <1>5, TypeParts, TypeNext
<1>9. Tapping' /\ RowsFollowList' /\ ListsGrow' /\ RowsCovered' /\ TrapsNeedRefresh'
  <2>1. RowsFollowList'
    BY <1>1, <1>2, <1>5, RowsKept
  <2>2. ListsGrow' /\ \A a \in Waiting' : a.type = "answer" => a \in Waiting
    BY <1>1, <1>2, ListsRun DEF NotesInv
  <2>3. RowsCovered' /\ TrapsNeedRefresh'
    BY <1>2, <1>5, <2>2, CoverKept DEF NotesInv
  <2> QED
    BY <1>2, <1>7, <2>1, <2>2, <2>3 DEF NotesInv, Tapping
<1>10. ASSUME NEW n \in FollowNote, n \in tapped', n \notin doubtful', ~ReloadWaits'
       PROVE  Own(n)'
  <2>1. Own(n) /\ Once(Sender[n])
    BY <1>2, <1>5, <1>10 DEF NotesInv, TappedRows, Own
  <2>2. CASE Sender[n] # b.w.key
    <3>1. \A v : v.key = Sender[n] => (v \in InFlight' <=> v \in InFlight)
      BY <1>3, <1>5, <1>6, <2>2
    <3>2. Once(Sender[n])'
      <4>1. w \notin WritesOf(Sender[n])
        BY <1>3, <2>2 DEF WritesOf
      <4>2. Solo(queue'[Viewer], WritesOf(Sender[n]))
        BY <1>1, <1>3, <1>4, <2>1, <4>1, DeviceFacts, SoloAppend DEF Once
      <4>3. Solo(mainq'[Viewer], AcksOf(Sender[n]))
        BY <1>1, <1>2, <2>1, OnceRun
      <4>4. \A v \in Queued', a \in Waiting' : ~(v \in WritesOf(Sender[n]) /\ a \in AcksOf(Sender[n]))
        BY <1>4, <1>5, <2>1, <4>1 DEF Once, AcksOf
      <4> QED
        BY <4>2, <4>3, <4>4 DEF Once, Solo, WritesOf, AcksOf, Writes, Blocks
    <3> QED
      BY <1>2, <1>4, <1>5, <2>1, <3>1, <3>2, OwnKept
  <2>3. CASE Sender[n] = b.w.key
    <3>1. /\ \A v \in InFlight : v.key = Sender[n] => v = b.w
          /\ \A v \in Queued : v.key # Sender[n]
      BY <1>1, <1>5, <2>1, <2>3, OnceOnly
    <3>2. /\ \A v \in Queued : v \notin WritesOf(Sender[n])
          /\ \A a \in Waiting' : a \notin AcksOf(Sender[n])
      <4>1. b \in AcksOf(Sender[n])
        BY <1>1, <1>2, <2>3, RunFacts DEF AcksOf
      <4>2. \A a \in Waiting' : a \notin AcksOf(Sender[n])
        BY <1>1, <1>2, <2>1, <4>1, OnceRun
      <4> QED
        BY <3>1, <4>2 DEF WritesOf
    <3>3. Once(Sender[n])'
      <4>1. Solo(queue'[Viewer], WritesOf(Sender[n]))
        <5>1. \A y \in Elems(queue[Viewer]) : y \notin WritesOf(Sender[n])
          BY <3>2 DEF Queued
        <5>2. Solo(queue[Viewer], WritesOf(Sender[n])) /\ queue[Viewer] \in Seq(Writes)
          BY <1>1, <2>1, DeviceFacts DEF Once
        <5> QED
          BY <1>3, <1>4, <5>1, <5>2, SoloAppend
      <4>2. Solo(mainq'[Viewer], AcksOf(Sender[n]))
        BY <1>1, <1>2, <2>1, OnceRun
      <4> QED
        BY <3>2, <4>1, <4>2 DEF Once, Solo, WritesOf, AcksOf, Writes, Blocks
    <3>4. \A v \in InFlight' : v.key = Sender[n] => v = w
      <4>1. \A a \in Waiting' : ~(a.type = "ack" /\ a.w.key = Sender[n])
        BY <1>5, <3>2, DeviceFacts, <1>1 DEF AcksOf
      <4> QED
        BY <1>4, <3>1, <4>1, InFlightNext
    <3>5. Turns(b.w, n) /\ b.w \notin Queued
      BY <1>5, <2>1, <2>3, <3>1 DEF Own
    <3>6. Turns(w, n)'
      BY <1>2, <1>3, <1>5, <3>5 DEF Turns
    <3>7. Pending(Sender[n])'
      BY <1>3, <1>4, <2>3, InFlightNext DEF Pending
    <3> QED
      BY <3>3, <3>4, <3>6, <3>7 DEF Own
  <2> QED
    BY <2>2, <2>3
<1>11. TappedRows'
  BY <1>10 DEF TappedRows
<1>12. UntappedRows'
  <2>1. \A n : ShowsTruth(n)' <=> ShowsTruth(n)
    BY <1>2, <1>5 DEF ShowsTruth
  <2> QED
    BY <1>2, <1>5, <2>1, FollowNoteIn DEF NotesInv, UntappedRows
<1>13. Reuse'
  BY <1>2, <1>3, <1>5, <1>6 DEF NotesInv, Reuse
<1> QED
  BY <1>5, <1>8, <1>9, <1>11, <1>12, <1>13 DEF NotesInv

\* The other half completes, and the button of the tapped cell is toggled.
LEMMA FollowCompletionInv ==
    ASSUME NotesInv, mainq[Viewer] # << >>, NEW b, FollowCompletion(b)
    PROVE  NotesInv'
<1>1. TypeOK /\ DeviceOK /\ RowsFollowList
  BY DEF NotesInv
<1>2. /\ Running(b, << >>) /\ b.type = "ack" /\ b.w.coll = "followers" /\ hud' = Dismiss(hud)
      /\ cells' = IF b.w.cell \in DOMAIN cells
                  THEN [cells EXCEPT ![b.w.cell].userIsFollowed = ~@] ELSE cells
      /\ UNCHANGED <<queue, asked, list, rows, tapped, doubtful>>
  BY DEF FollowCompletion
<1>3. /\ DOMAIN queue' = User /\ queue'[Viewer] \in Seq(Writes) /\ Queued' = Queued
  BY <1>1, <1>2 DEF DeviceOK, Queued
<1>4. /\ DeviceOK' /\ ChecksRight' /\ b.w \in InFlight /\ b.w \in Writes
      /\ \E a \in Waiting : a.type = "ack" /\ a.w = b.w
      /\ ReloadWaits => ReloadWaits'
      /\ \A r \in Reads : UnderWay(r) => UnderWay(r)'
      /\ \A a \in Waiting' : a.type = "ack" => a \in Waiting
      /\ \A v : v \in InFlight => v \in InFlight' \/ v = b.w
      /\ \A v : v \in InFlight' => v \in InFlight \/ v \in Queued'
      /\ UNCHANGED <<following, stored, trapped, others, events, unanswered, refreshed>>
  BY <1>2, <1>3, AckRun
<1>5. \A v : v \in InFlight' => v \in InFlight
  BY <1>3, <1>4, InFlightIs
<1>6. \A uid : Pending(uid)' => Pending(uid)
  BY <1>5 DEF Pending
<1>7. /\ DOMAIN cells' = DOMAIN cells
      /\ \A c \in DOMAIN cells :
            /\ cells'[c].note = cells[c].note
            /\ cells'[c] \in [note : Note, userIsFollowed : BOOLEAN]
            /\ c # b.w.cell => cells'[c] = cells[c]
            /\ c = b.w.cell => cells'[c].userIsFollowed = ~cells[c].userIsFollowed
  <2>1. \A c \in DOMAIN cells : cells[c] \in [note : Note, userIsFollowed : BOOLEAN]
    BY <1>1, TypeParts
  <2>2. DOMAIN cells' = DOMAIN cells /\ \A c \in DOMAIN cells : c # b.w.cell => cells'[c] = cells[c]
    BY <1>2
  <2>3. ASSUME b.w.cell \in DOMAIN cells
        PROVE  cells'[b.w.cell] = [cells[b.w.cell] EXCEPT !.userIsFollowed = ~@]
    BY <1>2, <2>3
  <2>4. ASSUME NEW x \in [note : Note, userIsFollowed : BOOLEAN]
        PROVE  /\ [x EXCEPT !.userIsFollowed = ~@].note = x.note
               /\ [x EXCEPT !.userIsFollowed = ~@].userIsFollowed = ~x.userIsFollowed
               /\ [x EXCEPT !.userIsFollowed = ~@] \in [note : Note, userIsFollowed : BOOLEAN]
    <3>1. (~x.userIsFollowed) \in BOOLEAN
      OBVIOUS
    <3> QED
      BY <3>1
  <2> QED
    BY <2>1, <2>2, <2>3, <2>4
<1>8. TypeOK'
  BY <1>1, <1>2, <1>4, <1>7, TypeParts, TypeNext, HudFacts
<1>9. Tapping' /\ RowsFollowList' /\ ListsGrow' /\ RowsCovered' /\ TrapsNeedRefresh'
  <2>1. RowsFollowList'
    BY <1>1, <1>2, <1>4, <1>7, RowsKept
  <2>2. ListsGrow' /\ \A a \in Waiting' : a.type = "answer" => a \in Waiting
    BY <1>1, <1>2, ListsRun DEF NotesInv
  <2>3. RowsCovered' /\ TrapsNeedRefresh'
    BY <1>2, <1>4, <2>2, CoverKept DEF NotesInv
  <2> QED
    BY <1>2, <1>6, <2>1, <2>2, <2>3 DEF NotesInv, Tapping
<1>10. ASSUME NEW n \in Note, Sender[n] # b.w.key, n \notin doubtful, ~ReloadWaits
       PROVE  \A c \in DOMAIN cells : cells[c].note = n => cells'[c] = cells[c]
  BY <1>4, <1>7, <1>10 DEF NotesInv, Reuse
<1>11. ASSUME NEW n \in FollowNote, n \in tapped', n \notin doubtful', ~ReloadWaits'
       PROVE  Own(n)'
  <2>1. Own(n) /\ Once(Sender[n]) /\ n \in Note /\ n \notin doubtful /\ ~ReloadWaits
    BY <1>2, <1>4, <1>11, FollowNoteIn DEF NotesInv, TappedRows, Own
  <2>2. Once(Sender[n])'
    <3>1. Solo(mainq'[Viewer], AcksOf(Sender[n]))
      BY <1>1, <1>2, <2>1, OnceRun
    <3>2. Solo(queue'[Viewer], WritesOf(Sender[n]))
      BY <1>2, <2>1 DEF Once
    <3>3. \A v \in Queued', a \in Waiting' : ~(v \in WritesOf(Sender[n]) /\ a \in AcksOf(Sender[n]))
      BY <1>3, <1>4, <2>1 DEF Once, AcksOf
    <3> QED
      BY <3>1, <3>2, <3>3 DEF Once, Solo, WritesOf, AcksOf, Writes, Blocks
  <2>3. CASE Sender[n] # b.w.key
    <3>1. \A v : v.key = Sender[n] => (v \in InFlight' <=> v \in InFlight)
      BY <1>4, <1>5, <2>3
    <3>2. \A c \in DOMAIN cells : cells[c].note = n => cells'[c] = cells[c]
      BY <1>10, <2>1, <2>3
    <3> QED
      BY <1>3, <1>4, <1>7, <2>1, <2>2, <3>1, <3>2, OwnKept
  <2>4. CASE Sender[n] = b.w.key
    <3>1. \A v \in Queued : v.key # Sender[n]
      BY <1>1, <1>4, <2>1, <2>4, OnceOnly
    <3>2. ~Pending(Sender[n])'
      <4>1. b \in AcksOf(Sender[n])
        BY <1>1, <1>2, <2>4, RunFacts DEF AcksOf
      <4>2. \A a \in Waiting' : a \notin AcksOf(Sender[n])
        BY <1>1, <1>2, <2>1, <4>1, OnceRun
      <4>3. \A a \in Waiting' : ~(a.type = "ack" /\ a.w.key = Sender[n])
        BY <1>1, <1>4, <4>2, DeviceFacts DEF AcksOf
      <4> QED
        BY <1>3, <3>1, <4>3, InFlightNext DEF Pending
    <3>3. Turns(b.w, n)
      BY <1>4, <2>1, <2>4 DEF Own
    <3>4. b.w.op = "set" <=> Sender[n] \in following
      BY <1>2, <3>3 DEF Turns
    <3>5. b.w.op = "set" <=> b.w.op # "delete"
      BY <1>4, WriteHas
    <3>6. ShowsTruth(n)'
      <4> SUFFICES ASSUME NEW c \in DOMAIN cells, cells[c].note = n
                   PROVE  cells'[c].userIsFollowed <=> Sender[n] \in following
        BY <1>4, <1>7 DEF ShowsTruth
      <4>1. c = b.w.cell /\ (cells[c].userIsFollowed <=> b.w.op = "delete")
        BY <3>3 DEF Turns
      <4>2. cells'[c].userIsFollowed = ~cells[c].userIsFollowed
        BY <1>7, <4>1
      <4> QED
        BY <3>4, <3>5, <4>1, <4>2
    <3> QED
      BY <2>2, <3>2, <3>6 DEF Own, Pending
  <2> QED
    BY <2>3, <2>4
<1>12. TappedRows'
  BY <1>11 DEF TappedRows
<1>13. UntappedRows'
  <2>1. ASSUME NEW n \in FollowNote, n \notin tapped, n \notin doubtful, ~ReloadWaits, ShowsTruth(n)
        PROVE  ShowsTruth(n)'
    <3>1. n \in Note /\ Sender[n] # b.w.key
      BY <1>4, <2>1, FollowNoteIn DEF NotesInv, Tapping, Pending
    <3>2. \A c \in DOMAIN cells : cells[c].note = n => cells'[c] = cells[c]
      BY <1>10, <2>1, <3>1
    <3> QED
      BY <1>4, <1>7, <2>1, <3>2 DEF ShowsTruth
  <2> QED
    BY <1>2, <1>4, <2>1, FollowNoteIn DEF NotesInv, UntappedRows
<1>14. Reuse'
  BY <1>2, <1>4, <1>5, <1>7 DEF NotesInv, Reuse
<1> QED
  BY <1>4, <1>8, <1>9, <1>12, <1>13, <1>14 DEF NotesInv

-----------------------------------------------------------------------------
(***************************************************************************)
(* A check that arrives, and the reload of the table.                      *)
(***************************************************************************)

\* A check arrives, and settles its row when nothing of its sender is in flight.
LEMMA CheckedInv ==
    ASSUME NotesInv, mainq[Viewer] # << >>, NEW b, Checked(b)
    PROVE  NotesInv'
<1> SUFFICES ASSUME NEW n, n = b.r[2], NEW bs, bs = IF n \in DOMAIN list THEN <<Reload>> ELSE << >>,
                    NEW settled, settled = IF Pending(Sender[n]) THEN {} ELSE {n}
             PROVE  NotesInv'
  OBVIOUS
<1>1. TypeOK /\ DeviceOK /\ RowsFollowList /\ ChecksRight
  BY DEF NotesInv
<1>2. /\ b.type = "answer" /\ b.r \in CheckReads /\ Running(b, bs) /\ bs \in {<< >>, <<Reload>>}
      /\ list' = IF n \in DOMAIN list THEN [list EXCEPT ![n] = b.docs # {}] ELSE list
      /\ tapped' = tapped \ settled /\ doubtful' = doubtful \ settled
      /\ UNCHANGED <<queue, asked, rows, cells, hud>>
  BY DEF Checked
<1>3. n \in Note /\ b.r = CheckRead(n) /\ Answers(b, CheckRead(n))
  BY <1>2, ReadFacts DEF Answers
<1>4. UNCHANGED <<following, stored, trapped, others, events, unanswered, refreshed>>
  BY <1>1, <1>2, RunFacts
<1>5. /\ DeviceOK' /\ ChecksRight' /\ Queued' = Queued
      /\ \A a : a.type = "ack" => (a \in Waiting' <=> a \in Waiting)
      /\ \A uid : Once(uid) => Once(uid)'
  BY <1>2, RunCalm
<1>6. (ReloadWaits => ReloadWaits') /\ (n \in DOMAIN list => ReloadWaits')
  BY <1>1, <1>2, RunCommon DEF DeviceOK
<1>7. \A m \in Note : m # n /\ UnderWay(CheckRead(m)) => UnderWay(CheckRead(m))'
  <2>1. asked \in [User -> [Reads -> Nat]] /\ asked' = Ask(Viewer, {})
    BY <1>1, <1>2, AskedFacts DEF TypeOK
  <2>2. \A m \in Note : m # n => ~Answers(b, CheckRead(m)) /\ CheckRead(m) \in Reads
    BY <1>3, ReadFacts DEF Answers
  <2>3. \A r \in Reads : UnderWay(r) /\ ~Answers(b, r) => UnderWay(r)'
    BY <1>1, <1>2, <2>1, RunUnderWay
  <2> QED
    BY <2>2, <2>3
<1>8. DOMAIN list' = DOMAIN list /\ \A m \in DOMAIN list : m # n => list'[m] = list[m]
  BY <1>2
<1>9. n \in DOMAIN list => list'[n] = (b.docs # {})
  BY <1>2
<1>10. TypeOK'
  <2>1. \A m \in DOMAIN list' : list'[m] \in BOOLEAN
    BY <1>1, <1>8, <1>9, TypeParts
  <2> QED
    BY <1>1, <1>2, <1>4, <1>8, <2>1, TypeParts, TypeNext
<1>11. RowsFollowList' /\ ListsGrow' /\ RowsCovered' /\ TrapsNeedRefresh'
  <2>1. RowsFollowList'
    BY <1>1, <1>2, <1>6, <1>8, RowsKept
  <2>2. ListsGrow' /\ \A a \in Waiting' : a.type = "answer" => a \in Waiting
    BY <1>1, <1>2, ListsRun DEF NotesInv
  <2>3. RowsCovered' /\ TrapsNeedRefresh'
    BY <1>2, <1>4, <1>8, <2>2, CoverKept DEF NotesInv
  <2> QED
    BY <2>1, <2>2, <2>3
<1>12. \A w : w \in InFlight' <=> w \in InFlight
  BY <1>5, InFlightIs, InFlightNext
<1>13. \A uid : Pending(uid)' <=> Pending(uid)
  BY <1>12 DEF Pending
<1>14. Tapping'
  BY <1>2, <1>13 DEF NotesInv, Tapping
<1>15. ASSUME n \notin DOMAIN list, ~ReloadWaits'
       PROVE  \A c \in DOMAIN cells : cells[c].note # n
  BY <1>1, <1>6, <1>15 DEF RowsFollowList
<1>16. \A m : ShowsTruth(m)' <=> ShowsTruth(m)
  BY <1>2, <1>4 DEF ShowsTruth
<1>17. TappedRows'
  <2>1. \A w, m : Turns(w, m)' <=> Turns(w, m)
    BY <1>2, <1>4, <1>5 DEF Turns
  <2>2. \A m : Own(m) => Own(m)'
    BY <1>5, <1>12, <1>13, <1>16, <2>1 DEF Own
  <2>3. \A m : m \in tapped' /\ m \notin doubtful' => m \in tapped /\ m \notin doubtful
    BY <1>2
  <2> QED
    BY <1>6, <2>2, <2>3 DEF NotesInv, TappedRows
<1>18. UntappedRows'
  <2> SUFFICES ASSUME NEW m \in FollowNote, m \notin tapped', m \notin doubtful'
               PROVE  /\ m \in DOMAIN list' =>
                            (list'[m] <=> Sender[m] \in following') \/ UnderWay(CheckRead(m))'
                      /\ ReloadWaits' \/ UnderWay(CheckRead(m))' \/ ShowsTruth(m)'
    BY DEF UntappedRows
  <2>1. CASE m # n
    <3>1. m \in Note /\ m \notin tapped /\ m \notin doubtful
      BY <1>2, <2>1, FollowNoteIn
    <3>2. /\ m \in DOMAIN list => (list[m] <=> Sender[m] \in following) \/ UnderWay(CheckRead(m))
          /\ ReloadWaits \/ UnderWay(CheckRead(m)) \/ ShowsTruth(m)
      BY <3>1 DEF NotesInv, UntappedRows
    <3> QED
      BY <1>4, <1>6, <1>7, <1>8, <1>16, <2>1, <3>1, <3>2
  <2>2. CASE m = n
    <3>1. ~Pending(Sender[n])
      BY <1>2, <1>3, <2>2 DEF NotesInv, Tapping
    <3>2. ~Newer(1, Sender[n])
      <4>1. \A w \in Queued : w \notin FollowingOf(Sender[n])
        BY <3>1, InFlightIs DEF Pending, FollowingOf
      <4>2. \A a \in Waiting : a.type = "ack" => a.w \notin FollowingOf(Sender[n])
        BY <3>1, InFlightIs DEF Pending, FollowingOf
      <4> QED
        BY <4>1, <4>2 DEF Newer, Waiting, Elems
    <3>3. b.docs # {} <=> Sender[n] \in following
      <4>1. 1 \in DOMAIN mainq[Viewer] /\ mainq[Viewer][1] = b
        BY <1>1, <1>2, RunQueue
      <4> QED
        BY <1>1, <1>3, <3>2, <4>1 DEF ChecksRight
    <3>4. CASE n \in DOMAIN list
      BY <1>4, <1>6, <1>9, <2>2, <3>3, <3>4
    <3>5. CASE n \notin DOMAIN list
      <4>1. ReloadWaits' \/ ShowsTruth(n)
        BY <1>15, <3>5 DEF ShowsTruth
      <4> QED
        BY <1>8, <1>16, <2>2, <3>5, <4>1
    <3> QED
      BY <3>4, <3>5
  <2> QED
    BY <2>1, <2>2
<1>19. Reuse'
  <2> SUFFICES ASSUME NEW w \in InFlight, w.cell \in DOMAIN cells, Sender[cells[w.cell].note] # w.key,
                      ~ReloadWaits'
               PROVE  cells[w.cell].note \in doubtful'
    BY <1>2, <1>12 DEF Reuse
  <2>1. cells[w.cell].note \in doubtful
    BY <1>6 DEF NotesInv, Reuse
  <2>2. cells[w.cell].note # n
    BY <1>6, <1>15
  <2> QED
    BY <1>2, <2>1, <2>2
<1> QED
  BY <1>5, <1>10, <1>11, <1>14, <1>17, <1>18, <1>19 DEF NotesInv

\* The table is reloaded: the rows are counted, and no cell shows any.
LEMMA ReloadDataInv ==
    ASSUME NotesInv, mainq[Viewer] # << >>, NEW b, ReloadData(b)
    PROVE  NotesInv'
<1>1. TypeOK /\ DeviceOK
  BY DEF NotesInv
<1>2. /\ Running(b, << >>) /\ b.type = "reload" /\ rows' = NumberOfRows /\ cells' = << >>
      /\ doubtful' = doubtful \union tapped
      /\ UNCHANGED <<queue, asked, list, hud, tapped>>
  BY DEF ReloadData
<1>3. DOMAIN cells' = {}
  BY <1>2
<1>4. UNCHANGED <<following, stored, trapped, others, events, unanswered, refreshed>>
  BY <1>1, <1>2, RunFacts
<1>5. /\ DeviceOK' /\ ChecksRight' /\ Queued' = Queued
      /\ \A a : a.type = "ack" => (a \in Waiting' <=> a \in Waiting)
  BY <1>2, RunCalm
<1>6. \A w : w \in InFlight' <=> w \in InFlight
  BY <1>5, InFlightIs, InFlightNext
<1>7. DOMAIN list \in SUBSET Note /\ rows' = Cardinality(DOMAIN list) /\ rows' \in Nat
  <2>1. DOMAIN list \in SUBSET Note
    BY <1>1, TypeParts
  <2> QED
    BY <1>2, <2>1, ListFinite DEF NumberOfRows
<1>8. TypeOK'
  BY <1>1, <1>2, <1>3, <1>4, <1>7, TypeParts, TypeNext
<1>9. RowsFollowList'
  BY <1>2, <1>3, <1>7 DEF RowsFollowList, NumberOfRows
<1>10. ListsGrow' /\ \A a \in Waiting' : a.type = "answer" => a \in Waiting
  BY <1>1, <1>2, ListsRun DEF NotesInv
<1>11. RowsCovered' /\ TrapsNeedRefresh'
  <2>1. RowsCovered'
    BY <1>2, <1>4, <1>7, <1>10 DEF NotesInv, RowsCovered, Answers
  <2> QED
    BY <1>4, <2>1 DEF NotesInv, TrapsNeedRefresh
<1>12. Tapping'
  BY <1>2, <1>6 DEF NotesInv, Tapping, Pending
<1>13. TappedRows' /\ Reuse'
  BY <1>2, <1>3 DEF TappedRows, Reuse
<1>14. UntappedRows'
  <2> SUFFICES ASSUME NEW m \in FollowNote, m \notin tapped', m \notin doubtful'
               PROVE  /\ m \in DOMAIN list' =>
                            (list'[m] <=> Sender[m] \in following') \/ UnderWay(CheckRead(m))'
                      /\ ReloadWaits' \/ UnderWay(CheckRead(m))' \/ ShowsTruth(m)'
    BY DEF UntappedRows
  <2>1. m \in DOMAIN list => (list[m] <=> Sender[m] \in following) \/ UnderWay(CheckRead(m))
    BY <1>2 DEF NotesInv, UntappedRows
  <2>2. UnderWay(CheckRead(m)) => UnderWay(CheckRead(m))'
    <3>1. asked \in [User -> [Reads -> Nat]] /\ asked' = Ask(Viewer, {})
      BY <1>1, <1>2, AskedFacts DEF TypeOK
    <3>2. \A r \in Reads : UnderWay(r) /\ ~Answers(b, r) => UnderWay(r)'
      BY <1>1, <1>2, <3>1, RunUnderWay
    <3> QED
      BY <1>2, <3>2, FollowNoteIn DEF Answers
  <2>3. ShowsTruth(m)'
    BY <1>3 DEF ShowsTruth
  <2> QED
    BY <1>2, <1>4, <2>1, <2>2, <2>3
<1> QED
  BY <1>5, <1>8, <1>9, <1>10, <1>11, <1>12, <1>13, <1>14 DEF NotesInv

\* The rows on the screen change, and what they show: those that stay, as they were,
\* and new ones as they are in the list.
LEMMA LaidOut ==
    ASSUME NotesInv, TypeOK', NEW c, NEW n, doubtful \subseteq doubtful',
           UNCHANGED <<queue, asked, mainq, following, stored, list, rows, trapped, events>>,
           UNCHANGED <<tapped, refreshed>>,
           \A d \in DOMAIN cells' :
              \/ d \in DOMAIN cells /\ cells'[d] = cells[d]
              \/ /\ d = c /\ d \notin DOMAIN cells /\ n \in DOMAIN list
                 /\ cells'[d].note = n /\ cells'[d].userIsFollowed = list[n],
           c \in DOMAIN cells' /\ c \notin DOMAIN cells =>
              /\ ReloadWaits \/ \A d \in DOMAIN cells : cells[d].note # n
              /\ n \in tapped \/ (\E w \in InFlight : w.cell = c) => n \in doubtful'
    PROVE  NotesInv'
<1>1. DeviceOK /\ RowsFollowList
  BY DEF NotesInv
<1>2. Queued' = Queued /\ Waiting' = Waiting /\ (ReloadWaits' <=> ReloadWaits)
  BY DEF Queued, Waiting, ReloadWaits
<1>3. (\A w : w \in InFlight' <=> w \in InFlight) /\ (\A r : UnderWay(r)' <=> UnderWay(r))
  BY <1>2, InFlightIs, InFlightNext DEF UnderWay
<1>4. DeviceOK'
  BY <1>1, <1>2 DEF DeviceOK, Answers, Writes, Blocks, Reads, CheckReads
<1>5. ChecksRight'
  BY <1>2, ChecksIssued DEF NotesInv
<1>6. ListsGrow'
  BY DEF NotesInv, ListsGrow, Answers
<1>7. RowsCovered' /\ TrapsNeedRefresh'
  BY <1>2, CoverKept DEF NotesInv
<1>8. Tapping'
  BY <1>3 DEF NotesInv, Tapping, Pending
<1>9. RowsFollowList'
  <2>1. CASE ReloadWaits
    BY <1>2, <2>1 DEF RowsFollowList
  <2>2. CASE ~ReloadWaits
    <3>1. /\ rows = NumberOfRows /\ NumberOfRows' = NumberOfRows
          /\ \A d \in DOMAIN cells : cells[d].note \in DOMAIN list
          /\ \A d, e \in DOMAIN cells : cells[d].note = cells[e].note => d = e
      BY <1>1, <2>2 DEF RowsFollowList, NumberOfRows
    <3>2. \A d \in DOMAIN cells' : cells'[d].note \in DOMAIN list
      BY <3>1
    <3>3. \A d, e \in DOMAIN cells' : cells'[d].note = cells'[e].note => d = e
      BY <2>2, <3>1
    <3> QED
      BY <3>1, <3>2, <3>3 DEF RowsFollowList
  <2> QED
    BY <2>1, <2>2
<1>10. TappedRows'
  <2> SUFFICES ASSUME NEW m \in FollowNote, m \in tapped, m \notin doubtful', ~ReloadWaits
               PROVE  Own(m)'
    BY <1>2 DEF TappedRows
  <2>1. Own(m)
    BY DEF NotesInv, TappedRows
  <2>2. \A d \in DOMAIN cells' : cells'[d].note = m => d \in DOMAIN cells /\ cells'[d] = cells[d]
    OBVIOUS
  <2>3. Once(Sender[m])'
    BY <1>2, <2>1 DEF Own, Once, Solo, WritesOf, AcksOf, Writes, Blocks
  <2> QED
    BY <1>2, <1>3, <2>1, <2>2, <2>3, OwnKept
<1>11. UntappedRows'
  <2> SUFFICES ASSUME NEW m \in FollowNote, m \notin tapped, m \notin doubtful'
               PROVE  /\ m \in DOMAIN list' =>
                            (list'[m] <=> Sender[m] \in following') \/ UnderWay(CheckRead(m))'
                      /\ ReloadWaits' \/ UnderWay(CheckRead(m))' \/ ShowsTruth(m)'
    BY DEF UntappedRows
  <2>1. /\ m \in DOMAIN list => (list[m] <=> Sender[m] \in following) \/ UnderWay(CheckRead(m))
        /\ ReloadWaits \/ UnderWay(CheckRead(m)) \/ ShowsTruth(m)
    BY DEF NotesInv, UntappedRows
  <2>2. ASSUME ~UnderWay(CheckRead(m)), ShowsTruth(m)
        PROVE  ShowsTruth(m)'
    BY <2>1, <2>2 DEF ShowsTruth
  <2> QED
    BY <1>2, <1>3, <2>1, <2>2
<1>12. Reuse'
  <2> SUFFICES ASSUME NEW w \in InFlight, w.cell \in DOMAIN cells',
                      Sender[cells'[w.cell].note] # w.key, ~ReloadWaits
               PROVE  cells'[w.cell].note \in doubtful'
    BY <1>2, <1>3 DEF Reuse
  <2>1. CASE w.cell \in DOMAIN cells /\ cells'[w.cell] = cells[w.cell]
    BY <2>1 DEF NotesInv, Reuse
  <2>2. CASE ~(w.cell \in DOMAIN cells /\ cells'[w.cell] = cells[w.cell])
    BY <2>2
  <2> QED
    BY <2>1, <2>2
<1> QED
  BY <1>4, <1>5, <1>6, <1>7, <1>8, <1>9, <1>10, <1>11, <1>12 DEF NotesInv

\* A cell leaves the screen.
LEMMA ScrolledOutInv ==
    ASSUME NotesInv, NEW c \in Cell, ScrolledOut(c)
    PROVE  NotesInv'
<1>1. TypeOK
  BY DEF NotesInv
<1>2. /\ cells' = [d \in DOMAIN cells \ {c} |-> cells[d]]
      /\ UNCHANGED <<queue, asked, mainq, following, stored, list, rows, trapped, hud, others, events>>
      /\ UNCHANGED <<unanswered, tapped, doubtful, refreshed>>
  BY DEF ScrolledOut, sdkVars, backendVars, history
<1>3. DOMAIN cells' = DOMAIN cells \ {c} /\ \A d \in DOMAIN cells' : cells'[d] = cells[d]
  BY <1>2
<1>4. TypeOK'
  BY <1>1, <1>2, <1>3, TypeParts, TypeNext
<1> QED
  BY <1>2, <1>3, <1>4, LaidOut

\* A cell is dequeued for a row.
LEMMA CellForRowAtInv ==
    ASSUME NotesInv, NEW c \in Cell, CellForRowAt(c)
    PROVE  NotesInv'
<1>1. TypeOK
  BY DEF NotesInv
<1>2. PICK n \in DOMAIN list :
         /\ ReloadWaits \/ \A d \in DOMAIN cells : cells[d].note # n
         /\ cells' = [d \in DOMAIN cells \union {c} |->
                        IF d = c THEN ViewModel(n, list[n]) ELSE cells[d]]
         /\ doubtful' = IF n \in tapped \/ \E w \in InFlight : w.cell = c
                        THEN doubtful \union {n} ELSE doubtful
  BY DEF CellForRowAt
<1>3. /\ c \notin DOMAIN cells
      /\ UNCHANGED <<queue, asked, mainq, following, stored, list, rows, trapped, hud, others, events>>
      /\ UNCHANGED <<unanswered, tapped, refreshed>>
  BY DEF CellForRowAt, sdkVars, backendVars
<1>4. /\ DOMAIN cells' = DOMAIN cells \union {c} /\ cells'[c] = ViewModel(n, list[n])
      /\ \A d \in DOMAIN cells : cells'[d] = cells[d]
  BY <1>2, <1>3
<1>5. cells'[c].note = n /\ cells'[c].userIsFollowed = list[n]
  BY <1>4 DEF ViewModel
<1>6. TypeOK'
  <2>1. n \in Note /\ list[n] \in BOOLEAN
    BY <1>1, TypeParts
  <2>2. cells'[c] \in [note : Note, userIsFollowed : BOOLEAN]
    BY <1>4, <2>1 DEF ViewModel
  <2>3. \A d \in DOMAIN cells' : cells'[d] \in [note : Note, userIsFollowed : BOOLEAN]
    BY <1>1, <1>4, <2>2, TypeParts
  <2>4. DOMAIN cells' \subseteq Cell /\ doubtful' \subseteq Note
    BY <1>1, <1>2, <1>4, <2>1, TypeParts
  <2> QED
    BY <1>1, <1>3, <2>3, <2>4, TypeParts, TypeNext
<1>7. /\ doubtful \subseteq doubtful'
      /\ n \in tapped \/ (\E w \in InFlight : w.cell = c) => n \in doubtful'
  BY <1>2
<1>8. \A d \in DOMAIN cells' :
         \/ d \in DOMAIN cells /\ cells'[d] = cells[d]
         \/ /\ d = c /\ d \notin DOMAIN cells /\ n \in DOMAIN list
            /\ cells'[d].note = n /\ cells'[d].userIsFollowed = list[n]
  BY <1>3, <1>4, <1>5
<1> QED
  BY <1>2, <1>3, <1>6, <1>7, <1>8, LaidOut

-----------------------------------------------------------------------------
(***************************************************************************)
(* The invariant, and what it says of the screen.                          *)
(***************************************************************************)

\* The invariant holds before the list has arrived.
LEMMA InitInv ==
    ASSUME Init
    PROVE  NotesInv
<1>1. /\ stored \in SUBSET Note /\ following \in SUBSET Known
      /\ queue[Viewer] = << >> /\ mainq[Viewer] = << >> /\ DOMAIN queue = User /\ DOMAIN mainq = User
      /\ DOMAIN list = {} /\ DOMAIN cells = {} /\ trapped = FALSE /\ refreshed = FALSE
      /\ hud = Hidden /\ events = 0 /\ unanswered = 0 /\ tapped = {} /\ doubtful = {}
  BY NotesAssumption DEF Init
<1>2. asked \in [User -> [Reads -> Nat]]
  BY DEF Init
<1>3. Queued = {} /\ Waiting = {}
  BY <1>1 DEF Queued, Waiting, Elems
<1>4. \A w : w \notin InFlight
  BY <1>3, InFlightIs
<1>5. TypeOK
  <2>1. following \subseteq User \ {Viewer}
    BY <1>1, NotesAssumption
  <2>2. others \in [OtherScreen -> Nat] /\ unanswered \in Nat /\ rows \in Nat
    BY <1>1, FS_EmptySet DEF Init, NumberOfRows
  <2> QED
    BY <1>1, <1>2, <2>1, <2>2, TypeParts, HudFacts
<1>6. DeviceOK
  <2>1. << >> \in Seq(Writes) /\ << >> \in Seq(Blocks)
    OBVIOUS
  <2> QED
    BY <1>1, <1>3, <2>1 DEF DeviceOK
<1>7. RowsFollowList /\ Tapping
  BY <1>1, <1>4 DEF Init, RowsFollowList, Tapping, Pending
<1>8. ChecksRight
  BY <1>1 DEF ChecksRight
<1>9. TappedRows /\ UntappedRows /\ Reuse
  BY <1>1, <1>4 DEF TappedRows, UntappedRows, Reuse, ShowsTruth
<1>10. ListsGrow /\ RowsCovered /\ TrapsNeedRefresh
  <2>1. rows <= Cardinality(DOMAIN list)
    BY <1>1, FS_EmptySet DEF Init, NumberOfRows
  <2> QED
    BY <1>1, <1>3, <2>1 DEF ListsGrow, RowsCovered, TrapsNeedRefresh
<1> QED
  BY <1>5, <1>6, <1>7, <1>8, <1>9, <1>10 DEF NotesInv

\* A step that changes nothing.
LEMMA StutterInv ==
    ASSUME NotesInv, UNCHANGED vars
    PROVE  NotesInv'
<1>1. /\ UNCHANGED <<queue, asked, mainq, following, stored, list, rows, cells, trapped, hud, others, events>>
      /\ UNCHANGED <<unanswered, tapped, doubtful, refreshed>>
  BY DEF vars, sdkVars, backendVars, screenVars, history
<1>2. TypeOK' /\ events' \in Nat
  BY <1>1, TypeParts, TypeNext DEF NotesInv, DeviceOK
<1> QED
  BY <1>1, <1>2, Still

\* Every step keeps the invariant.
LEMMA NextInv ==
    ASSUME NotesInv, Next
    PROVE  NotesInv'
<1>1. CASE RunBlock
  <2> SUFFICES ASSUME NEW b, b = Head(mainq[Viewer]) PROVE NotesInv'
    OBVIOUS
  <2>1. /\ mainq[Viewer] # << >>
        /\ \/ NotesFetched(b) \/ Checked(b) \/ Opened(b)
           \/ FollowingAcked(b) \/ FollowCompletion(b) \/ ReloadData(b)
    BY <1>1 DEF RunBlock
  <2>2. CASE NotesFetched(b)
    BY <2>1, <2>2, NotesFetchedInv
  <2>3. CASE Checked(b)
    BY <2>1, <2>3, CheckedInv
  <2>4. CASE Opened(b)
    BY <2>1, <2>4, OpenedInv
  <2>5. CASE FollowingAcked(b)
    BY <2>1, <2>5, FollowingAckedInv
  <2>6. CASE FollowCompletion(b)
    BY <2>1, <2>6, FollowCompletionInv
  <2>7. CASE ReloadData(b)
    BY <2>1, <2>7, ReloadDataInv
  <2> QED
    BY <2>1, <2>2, <2>3, <2>4, <2>5, <2>6, <2>7
<1>2. CASE Commit
  BY <1>2, CommitInv
<1>3. CASE \E r \in Outstanding : Answer(r)
  BY <1>3, AnswerInv
<1>4. CASE \/ \E s \in OtherScreen : OtherScreenLoads(s) \/ OtherScreenLoaded(s)
           \/ SearchFails \/ ShareButtonPressed \/ AnimationDidFinish
  BY <1>4, HudMovesInv
<1>5. CASE ViewWillAppear
  BY <1>5, ViewWillAppearInv
<1>6. CASE DetectRefresh
  BY <1>6, DetectRefreshInv
<1>7. CASE \E c \in Cell : FollowButtonClicked(c)
  BY <1>7, FollowButtonClickedInv
<1>8. CASE DidSelectRow \/ \E c \in Cell : WantsToViewPost(c)
  BY <1>8, TouchedRowInv
<1>9. CASE \E n \in Note : NoteArrives(n)
  BY <1>9, NoteArrivesInv
<1>10. CASE Reject
  BY <1>10, RejectInv
<1>11. CASE \E r \in Outstanding : FailToAnswer(r)
  BY <1>11, FailToAnswerInv
<1>12. CASE Scrolled
  BY <1>12, ScrolledOutInv, CellForRowAtInv, IndexOutOfRangeInv DEF Scrolled
<1> QED
  BY <1>1, <1>2, <1>3, <1>4, <1>5, <1>6, <1>7, <1>8, <1>9, <1>10, <1>11, <1>12
     DEF Next, Progress, Touched, Elsewhere

\* The inductive invariant of the notifications screen holds in every state.
THEOREM NotesInvariant == Spec => []NotesInv
<1>1. Init => NotesInv
  BY InitInv
<1>2. NotesInv /\ [Next]_vars => NotesInv'
  BY NextInv, StutterInv
<1> QED
  BY <1>1, <1>2, PTL DEF Spec

\* The state of the screen and of the HUD stays well formed, and the list holds
\* nothing the backend does not store.
THEOREM NotesTypeCorrect == Spec => []TypeOK
<1>1. NotesInv => TypeOK
  BY DEF NotesInv
<1> QED
  BY <1>1, NotesInvariant, PTL

\* Whenever no reload waits, UIKit has counted the rows of the list, and the cells
\* on the screen show notifications of it, each at most once, however few cells
\* there are and however the rows were scrolled.
THEOREM RowsAreTheList == Spec => []RowsFollowList
<1>1. NotesInv => RowsFollowList
  BY DEF NotesInv
<1> QED
  BY <1>1, NotesInvariant, PTL

\* The list is indexed out of range only after a refresh: the lists that overlapping
\* calls of fetchNotifications hand over never get shorter.
THEOREM NoTrapWithoutRefresh == Spec => []TrapsNeedRefresh
<1>1. NotesInv => TrapsNeedRefresh
  BY DEF NotesInv
<1> QED
  BY <1>1, NotesInvariant, PTL

\* At rest a button that is not in doubt shows whether the sender is followed,
\* whatever taps, checks, reloads, scrolling and writes of other rows came in
\* between.
THEOREM ButtonsAreRight == Spec => []ButtonShowsTruth
<1>1. NotesInv => ButtonShowsTruth
  <2> SUFFICES ASSUME NotesInv, AtRest, NEW c \in DOMAIN cells, NEW n, n = cells[c].note,
                      n \in FollowNote, n \notin doubtful
               PROVE  cells[c].userIsFollowed <=> Sender[n] \in following
    BY DEF ButtonShowsTruth
  <2>1. Queued = {} /\ Waiting = {}
    BY DEF AtRest, Queued, Waiting, Elems
  <2>2. ~ReloadWaits /\ ~Pending(Sender[n])
    BY <2>1, InFlightIs, ReloadIs DEF Pending
  <2>3. ~UnderWay(CheckRead(n))
    BY <2>1, FollowNoteIn DEF AtRest, Outstanding, UnderWay
  <2>4. ShowsTruth(n)
    <3>1. CASE n \in tapped
      BY <2>2, <3>1 DEF NotesInv, TappedRows, Own
    <3>2. CASE n \notin tapped
      BY <2>2, <2>3, <3>2 DEF NotesInv, UntappedRows
    <3> QED
      BY <3>1, <3>2
  <2> QED
    BY <2>4 DEF ShowsTruth
<1> QED
  BY <1>1, NotesInvariant, PTL
=============================================================================
