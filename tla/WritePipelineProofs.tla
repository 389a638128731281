------------------------- MODULE WritePipelineProofs -------------------------
(***************************************************************************)
(* Theorems about WritePipeline, for every set of accounts, every size of  *)
(* the pipeline and every bound on writes, changes of account and faults.  *)
(***************************************************************************)
EXTENDS WritePipeline, Integers, SequenceTheorems, FiniteSetTheorems, WellFoundedInduction, TLAPS

-----------------------------------------------------------------------------
(***************************************************************************)
(* The inductive invariant.  Its first part is about a stream s, the       *)
(* mutation queue q it serves and the tasks w of the worker queue: the     *)
(* operators of the stream are shown to keep it one by one.                *)
(***************************************************************************)

\* A mutation queue: ids and writes grow along it.
Ordered(q) ==
    \A i, j \in 1 .. Len(q) : i < j => q[i].id < q[j].id /\ q[i].n < q[j].n

\* The pipeline is the beginning of the queue, and within its limit.
Serves(s, q) ==
    /\ Len(s.pipeline) <= Len(q) /\ Len(s.pipeline) <= kMaxPendingWrites
    /\ \A i \in 1 .. Len(s.pipeline) : s.pipeline[i] = q[i]

\* Only the handshake is on the wire, or its answer.
Greeting(sent, replies) ==
    \/ sent = <<Handshake>> /\ replies = << >>
    \/ sent = << >> /\ replies = <<"handshake">>

\* What is on the wire, by the state of the stream.
Wire(s) ==
    /\ ~IsOpen(s) => s.sent = << >> /\ s.replies = << >> /\ ~s.handshake
    /\ IsOpen(s) /\ ~s.handshake =>
           s.pipeline /= << >> /\ Greeting(s.sent, s.replies)
    /\ s.handshake =>
           /\ Len(s.pipeline) = Len(s.replies) + Len(s.sent)
           /\ \A i \in 1 .. Len(s.sent) : s.sent[i] = s.pipeline[Len(s.replies) + i]
           /\ \A i \in 1 .. Len(s.replies) :
                  s.replies[i] = "ack" \/ (s.replies[i] = "refused" /\ i = Len(s.replies))

\* The stream idles only when open and unneeded, and is not started in vain.
Calm(s) ==
    /\ s.idle => IsOpen(s) /\ s.pipeline = << >>
    /\ s.state \in {"Starting", "Backoff"} => s.pipeline /= << >>

\* At most one token request or token is under way for the present close
\* count, and only while the stream is Starting.
Counted(s, w) ==
    /\ \A c \in s.requests : c <= s.close_count /\ (c = s.close_count => s.state = "Starting")
    /\ \A i \in 1 .. Len(w) : w[i].type = "resume" =>
           /\ w[i].close_count <= s.close_count
           /\ w[i].close_count = s.close_count =>
                  s.state = "Starting" /\ s.close_count \notin s.requests
    /\ \A i, j \in 1 .. Len(w) :
           /\ w[i].type = "resume" /\ w[j].type = "resume"
           /\ w[i].close_count = s.close_count /\ w[j].close_count = s.close_count
           => i = j

StreamInv(s, q, w) == s \in Stream /\ Serves(s, q) /\ Wire(s) /\ Calm(s) /\ Counted(s, w)

\* A pipeline with something in it has a started stream.
Busy(s) == s.pipeline /= << >> => IsStarted(s)

\* Every queue is ordered, its ids are used up, and its writes are its owner's.
QueueInv ==
    \A u \in User :
        /\ Ordered(queue[u])
        /\ \A i \in 1 .. Len(queue[u]) :
               /\ queue[u][i].id < next_batch_id
               /\ queue[u][i].n <= Len(made) /\ made[queue[u][i].n].by = u

\* The writes that wait for the worker queue are younger than the queued ones
\* and in the order they were made.
TaskInv ==
    \A i \in 1 .. Len(worker) : worker[i].type = "write" =>
        /\ worker[i].n <= Len(made)
        /\ \A j \in 1 .. Len(worker) : j < i /\ worker[j].type = "write" => worker[j].n < worker[i].n
        /\ \A u \in User : \A j \in 1 .. Len(queue[u]) : queue[u][j].n < worker[i].n

\* Whoever waits, waits for a queued write.
CallbackInv ==
    \A u \in User : \A c \in callbacks[u] :
        \E i \in 1 .. Len(queue[u]) : c = <<queue[u][i].id, queue[u][i].n>>

\* f[i] is the user the SDK will work for when the i-th task is run: from the
\* current user to the one Auth has signed in.  Writes and tokens are of the
\* user that is then current.
Attributed(f) ==
    /\ f[1] = current_user /\ f[Len(worker) + 1] = auth
    /\ \A i \in 1 .. Len(worker) :
           /\ f[i + 1] = IF worker[i].type = "credential" THEN worker[i].user ELSE f[i]
           /\ worker[i].type = "write" => made[worker[i].n].by = f[i]
           /\ worker[i].type = "resume" => worker[i].token \in {f[i], NoToken}

UserInv == \E f \in [1 .. Len(worker) + 1 -> User] : Attributed(f)

\* An open stream was opened with the token of the current user.
TokenInv == IsOpen(stream) => stream.token = current_user

PipelineInv ==
    /\ TypeOK /\ QueueInv /\ TaskInv /\ CallbackInv /\ UserInv /\ TokenInv
    /\ StreamInv(stream, queue[current_user], worker) /\ Busy(stream)

-----------------------------------------------------------------------------
(***************************************************************************)
(* Least and greatest elements.                                            *)
(***************************************************************************)

\* What Min and Max choose, when there is a least or greatest element.
LEMMA MinIs ==
    ASSUME NEW S \in SUBSET Int, NEW x \in S, \A y \in S : x <= y
    PROVE  Min(S) = x
<1>1. \E z \in S : \A y \in S : z <= y
  OBVIOUS
<1>2. Min(S) \in S /\ \A y \in S : Min(S) <= y
  BY <1>1, Zenon DEF Min
<1>3. Min(S) \in Int /\ x \in Int /\ Min(S) <= x /\ x <= Min(S)
  BY <1>2
<1> QED
  BY <1>3

\* The same for Max.
LEMMA MaxIs ==
    ASSUME NEW S \in SUBSET Int, NEW x \in S, \A y \in S : y <= x
    PROVE  Max(S) = x
<1>1. \E z \in S : \A y \in S : y <= z
  OBVIOUS
<1>2. Max(S) \in S /\ \A y \in S : y <= Max(S)
  BY <1>1, Zenon DEF Max
<1>3. Max(S) \in Int /\ x \in Int /\ Max(S) <= x /\ x <= Max(S)
  BY <1>2
<1> QED
  BY <1>3

\* A set of naturals with an upper bound has a greatest element, which is the
\* least of its upper bounds: what NextBatchIdFromDb and Stored rely on.
LEMMA MaxExists ==
    ASSUME NEW S \in SUBSET Nat, S # {}, NEW b \in Nat, \A y \in S : y <= b
    PROVE  Max(S) \in S /\ \A y \in S : y <= Max(S)
<1> DEFINE T == {x \in Nat : \A y \in S : y <= x}
<1>1. T \subseteq Nat /\ T # {}
  OBVIOUS
<1>2. PICK x \in T : \A y \in T : ~(<<y, x>> \in OpToRel(<, Nat))
  BY <1>1, NatLessThanWellFounded, WFMin
<1>3. \A y \in T : ~(y < x)
  BY <1>2 DEF OpToRel
<1>4. x \in S
  <2>1. SUFFICES ASSUME x \notin S PROVE FALSE
    OBVIOUS
  <2>2. PICK z \in S : TRUE
    OBVIOUS
  <2>3. x > 0 /\ x - 1 \in Nat
    BY <2>1, <2>2
  <2>4. \A y \in S : y <= x - 1
    BY <2>1
  <2>5. x - 1 \in T
    BY <2>3, <2>4
  <2> QED
    BY <1>3, <2>3, <2>5
<1>5. Max(S) = x
  BY <1>4, MaxIs
<1> QED
  BY <1>4, <1>5

-----------------------------------------------------------------------------
(***************************************************************************)
(* Operators of the stream.                                                *)
(***************************************************************************)

\* What is known of a stream.
LEMMA StreamFields ==
    ASSUME NEW s \in Stream
    PROVE  /\ s.state \in {"Initial", "Starting", "Open", "Error", "Backoff"}
           /\ s.handshake \in BOOLEAN /\ s.idle \in BOOLEAN /\ s.token \in User
           /\ s.close_count \in Nat /\ s.requests \in SUBSET Nat
           /\ s.pipeline \in Seq(Batch) /\ s.sent \in Seq(Batch \union {Handshake})
           /\ s.replies \in Seq({"handshake", "ack", "refused"})
           /\ Len(s.pipeline) \in Nat /\ Len(s.sent) \in Nat /\ Len(s.replies) \in Nat
    BY LenProperties DEF Stream

\* What is known of a task of the worker queue.
LEMMA TaskFields ==
    ASSUME NEW t \in Task
    PROVE  /\ t.type \in {"write", "credential", "resume"}
           /\ t.type = "write" => t.n \in Write /\ t.n \in Nat /\ t.n > 0
           /\ t.type = "credential" => t.user \in User
           /\ t.type = "resume" => t.close_count \in Nat /\ t.token \in User \union {NoToken}
    BY PipelineAssumption DEF Task, Write

\* What is on the wire depends on these fields only.
LEMMA SameWire ==
    ASSUME NEW s, NEW t, Wire(s), t.state = s.state, t.handshake = s.handshake,
           t.pipeline = s.pipeline, t.sent = s.sent, t.replies = s.replies
    PROVE  Wire(t)
    BY ZenonT(40) DEF Wire, IsOpen

\* FillWritePipeline reads exactly the batches that follow the pipeline in the
\* queue, as many as fit.
LEMMA NextBatchesAre ==
    ASSUME NEW s \in Stream, NEW q \in Seq(Batch), Ordered(q), Serves(s, q)
    PROVE  /\ NextBatches(s, q) \in Seq(Batch)
           /\ Len(NextBatches(s, q)) \in Nat
           /\ Len(s.pipeline) + Len(NextBatches(s, q)) =
                  IF Len(q) < kMaxPendingWrites THEN Len(q) ELSE kMaxPendingWrites
           /\ \A i \in 1 .. Len(NextBatches(s, q)) : NextBatches(s, q)[i] = q[Len(s.pipeline) + i]
<1> DEFINE p    == s.pipeline
           m    == Len(p)
           last == IF p = << >> THEN 0 ELSE Last(p).id
           from == {i \in DOMAIN q : q[i].id > last}
           rest == IF from = {} THEN << >> ELSE SubSeq(q, Min(from), Len(q))
           room == kMaxPendingWrites - m
<1>1. /\ p \in Seq(Batch) /\ m \in Nat /\ Len(q) \in Nat /\ DOMAIN q = 1 .. Len(q)
      /\ \A i \in 1 .. Len(q) : q[i] \in Batch /\ q[i].id \in Nat /\ q[i].id > 0
      /\ kMaxPendingWrites \in Nat /\ kMaxPendingWrites > 0
  <2>1. p \in Seq(Batch) /\ m \in Nat
    BY StreamFields
  <2>2. Len(q) \in Nat /\ DOMAIN q = 1 .. Len(q)
    BY LenProperties
  <2>3. \A i \in 1 .. Len(q) : q[i] \in Batch
    BY ElementOfSeq
  <2>4. \A b \in Batch : b.id \in Nat /\ b.id > 0
    BY DEF Batch
  <2> QED
    BY <2>1, <2>2, <2>3, <2>4, PipelineAssumption
<1>2. /\ m <= Len(q) /\ m <= kMaxPendingWrites /\ \A i \in 1 .. m : p[i] = q[i]
  BY DEF Serves
<1>3. last = IF m = 0 THEN 0 ELSE q[m].id
  BY <1>1, <1>2, EmptySeq DEF Last
<1>4. \A i \in 1 .. Len(q) : q[i].id > last <=> i > m
  <2> SUFFICES ASSUME NEW i \in 1 .. Len(q)
               PROVE  q[i].id > last <=> i > m
    OBVIOUS
  <2>1. CASE m = 0
    BY <2>1, <1>1, <1>3
  <2>2. CASE m > 0
    <3>1. m \in 1 .. Len(q) /\ last = q[m].id
      BY <2>2, <1>1, <1>2, <1>3
    <3>2. CASE i = m
      BY <3>1, <3>2, <1>1
    <3>3. CASE i < m
      BY <3>1, <3>3, <1>1 DEF Ordered
    <3>4. CASE i > m
      BY <3>1, <3>4, <1>1 DEF Ordered
    <3> QED
      BY <3>2, <3>3, <3>4, <1>1
  <2> QED
    BY <2>1, <2>2, <1>1
<1>5. from = (m + 1) .. Len(q)
  BY <1>1, <1>4
<1>6. room \in Nat /\ kMaxPendingWrites = m + room
  BY <1>1, <1>2
<1>7. CASE m = Len(q)
  <2>1. from = {} /\ rest = << >>
    BY <1>7, <1>1, <1>5
  <2>2. NextBatches(s, q) = SubSeq(<< >>, 1, Min({0, room}))
    BY <2>1 DEF NextBatches
  <2>3. Min({0, room}) = 0
    <3> HIDE DEF room
    <3>1. {0, room} \in SUBSET Int /\ 0 \in {0, room} /\ \A y \in {0, room} : 0 <= y
      BY <1>6
    <3> QED
      BY <3>1, MinIs
  <2>4. NextBatches(s, q) = << >>
    BY <2>2, <2>3, SubSeqEmpty
  <2>5. Len(NextBatches(s, q)) = 0 /\ NextBatches(s, q) \in Seq(Batch)
    BY <2>4, EmptySeq
  <2>6. m + 0 = IF Len(q) < kMaxPendingWrites THEN Len(q) ELSE kMaxPendingWrites
    <3>1. m \in Nat /\ Len(q) \in Nat /\ kMaxPendingWrites \in Nat /\ m <= kMaxPendingWrites
      BY <1>1, <1>2
    <3>2. m = Len(q)
      BY <1>7
    <3> HIDE DEF m
    <3> QED
      BY <3>1, <3>2
  <2>7. 1 .. 0 = {}
    OBVIOUS
  <2> QED
    BY <2>5, <2>6, <2>7
<1>8. CASE m < Len(q)
  <2>1. from # {} /\ m + 1 \in from /\ from \in SUBSET Int /\ \A y \in from : m + 1 <= y
    BY <1>8, <1>1, <1>5
  <2>2. Min(from) = m + 1
    <3> HIDE DEF from
    <3> QED
      BY <2>1, MinIs
  <2>3. rest = SubSeq(q, m + 1, Len(q))
    BY <2>1, <2>2
  <2> DEFINE r    == SubSeq(q, m + 1, Len(q))
             len  == Len(q) - m
             take == IF len < room THEN len ELSE room
  <2>4. \A i \in (m + 1) .. Len(q) : q[i] \in Batch
    BY <1>1
  <2>5. /\ r \in Seq(Batch) /\ Len(r) = len /\ len \in Nat
        /\ \A i \in 1 .. len : r[i] = q[m + i]
    <3> HIDE DEF m
    <3>1. Len(q) - (m + 1) + 1 = len /\ m + 1 <= Len(q) /\ len \in Nat
      BY <1>1, <1>8
    <3>2. \A i \in 1 .. len : m + 1 + i - 1 = m + i
      BY <3>1, <1>1
    <3> QED
      BY <2>4, <1>1, <3>1, <3>2, SubSeqProperties
  <2>6. Min({len, room}) = take
    <3> HIDE DEF m, room, len
    <3>1. {len, room} \in SUBSET Int /\ take \in {len, room} /\ \A y \in {len, room} : take <= y
      BY <1>6, <2>5
    <3> QED
      BY <3>1, MinIs
  <2>7. NextBatches(s, q) = SubSeq(r, 1, take)
    BY <2>3, <2>5, <2>6 DEF NextBatches
  <2>8. take \in Nat /\ take <= len
    <3> HIDE DEF m, room, len
    <3> QED
      BY <1>6, <2>5
  <2>9. \A i \in 1 .. take : r[i] \in Batch /\ r[i] = q[m + i]
    <3> HIDE DEF m, room, len, take, r
    <3> QED
      BY <2>5, <2>8, ElementOfSeq
  <2>10. /\ SubSeq(r, 1, take) \in Seq(Batch) /\ Len(SubSeq(r, 1, take)) = take
         /\ \A i \in 1 .. take : SubSeq(r, 1, take)[i] = q[m + i]
    <3> HIDE DEF m, room, len, take, r
    <3>1. \A i \in 1 .. take : 1 + i - 1 = i
      BY <2>8
    <3> QED
      BY <2>8, <2>9, <3>1, SubSeqProperties
  <2>11. m + take = IF Len(q) < kMaxPendingWrites THEN Len(q) ELSE kMaxPendingWrites
    <3> HIDE DEF m
    <3> QED
      BY <1>1, <1>2, <1>8
  <2>12. Len(NextBatches(s, q)) = take
    BY <2>7, <2>10
  <2> HIDE DEF take, r
  <2> QED
    BY <2>7, <2>8, <2>10, <2>11, <2>12
<1> QED
  BY <1>7, <1>8, <1>1, <1>2

\* Starting a stream that has something to send and is not started keeps the
\* invariant and makes it busy; what is on the wire and the pipeline stay.
LEMMA StartKeeps ==
    ASSUME NEW s, NEW q, NEW w, StreamInv(s, q, w)
    PROVE  /\ StreamInv(StartIfNeeded(s), q, w) /\ Busy(StartIfNeeded(s))
           /\ IsOpen(StartIfNeeded(s)) <=> IsOpen(s)
           /\ StartIfNeeded(s).token = s.token /\ StartIfNeeded(s).replies = s.replies
           /\ StartIfNeeded(s).handshake = s.handshake /\ StartIfNeeded(s).pipeline = s.pipeline
<1> DEFINE t == StartIfNeeded(s)
<1>1. s \in Stream
  BY DEF StreamInv
<1>2. CASE s.pipeline = << >> \/ IsStarted(s)
  BY <1>2 DEF StartIfNeeded, Busy
<1>3. CASE ~(s.pipeline = << >> \/ IsStarted(s))
  <2>1. s.state \in {"Initial", "Error"} /\ ~IsOpen(s) /\ s.pipeline # << >>
    BY <1>1, <1>3, StreamFields DEF IsStarted, IsOpen
  <2>2. /\ t \in Stream /\ t.state \in {"Starting", "Backoff"}
        /\ t.handshake = s.handshake /\ t.idle = s.idle /\ t.token = s.token
        /\ t.close_count = s.close_count
        /\ t.pipeline = s.pipeline /\ t.sent = s.sent /\ t.replies = s.replies
        /\ \/ t.state = "Starting" /\ t.requests = s.requests \union {s.close_count}
           \/ t.state = "Backoff" /\ t.requests = s.requests
    BY <1>1, <1>3, <2>1, StreamFields DEF StartIfNeeded, Start, Stream
  <2>3. Serves(t, q) /\ Wire(t) /\ Calm(t)
    BY <2>1, <2>2 DEF StreamInv, Serves, Wire, Calm, IsOpen
  <2>4. Counted(t, w)
    <3>1. s.close_count \in Nat /\ s.requests \in SUBSET Nat /\ Counted(s, w)
      BY <1>1, StreamFields DEF StreamInv
    <3> QED
      BY <3>1, <2>1, <2>2 DEF Counted
  <2> QED
    BY <2>1, <2>2, <2>3, <2>4 DEF StreamInv, Busy, IsStarted, IsOpen
<1> QED
  BY <1>2, <1>3

\* Filling the pipeline from an ordered queue keeps the invariant: what is
\* added follows the pipeline in the queue, and goes out on a stream whose
\* handshake is complete.
LEMMA FillKeeps ==
    ASSUME NEW s, NEW q \in Seq(Batch), Ordered(q), NEW w, StreamInv(s, q, w)
    PROVE  /\ StreamInv(FillWritePipeline(s, q), q, w) /\ Busy(FillWritePipeline(s, q))
           /\ IsOpen(FillWritePipeline(s, q)) <=> IsOpen(s)
           /\ FillWritePipeline(s, q).token = s.token
           /\ FillWritePipeline(s, q).replies = s.replies
           /\ FillWritePipeline(s, q).handshake = s.handshake
           /\ Len(s.pipeline) <= Len(FillWritePipeline(s, q).pipeline)
<1> DEFINE new   == NextBatches(s, q)
           added == [s EXCEPT !.pipeline = @ \o new]
           t     == IF added.pipeline = << >> THEN MarkIdle(s)
                    ELSE IF IsOpen(s) /\ s.handshake THEN Sent(added, new) ELSE added
           m     == Len(s.pipeline)
<1>1. s \in Stream /\ Serves(s, q) /\ Wire(s) /\ Calm(s) /\ Counted(s, w)
  BY DEF StreamInv
<1>2. /\ new \in Seq(Batch) /\ Len(new) \in Nat
      /\ m + Len(new) = IF Len(q) < kMaxPendingWrites THEN Len(q) ELSE kMaxPendingWrites
      /\ \A i \in 1 .. Len(new) : new[i] = q[m + i]
  BY <1>1, NextBatchesAre
<1> HIDE DEF new
<1>3. m \in Nat /\ s.pipeline \in Seq(Batch) /\ Len(q) \in Nat /\ kMaxPendingWrites \in Nat
  BY <1>1, StreamFields, LenProperties, PipelineAssumption
<1> DEFINE p == s.pipeline \o new
<1>4. /\ p \in Seq(Batch) /\ Len(p) = m + Len(new)
      /\ \A i \in 1 .. m : p[i] = s.pipeline[i]
      /\ \A i \in 1 .. Len(new) : p[m + i] = new[i]
  BY <1>2, <1>3, ConcatProperties
<1>5. Len(p) <= Len(q) /\ Len(p) <= kMaxPendingWrites /\ m <= Len(p)
  BY <1>2, <1>3, <1>4
<1>6. \A i \in 1 .. Len(p) : p[i] = q[i]
  <2> SUFFICES ASSUME NEW i \in 1 .. Len(p) PROVE p[i] = q[i]
    OBVIOUS
  <2>1. CASE i <= m
    BY <2>1, <1>1, <1>3, <1>4 DEF Serves
  <2>2. CASE i > m
    <3>1. i - m \in 1 .. Len(new) /\ m + (i - m) = i
      BY <2>2, <1>2, <1>3, <1>4
    <3> QED
      BY <3>1, <1>2, <1>4
  <2> QED
    BY <2>1, <2>2, <1>2, <1>3, <1>4
<1> HIDE DEF p
<1>7. added.pipeline = p /\ added = [s EXCEPT !.pipeline = p]
  BY <1>1 DEF Stream, p
<1> HIDE DEF added
<1>8. /\ StreamInv(t, q, w) /\ (IsOpen(t) <=> IsOpen(s)) /\ t.token = s.token
      /\ t.replies = s.replies /\ t.handshake = s.handshake /\ m <= Len(t.pipeline)
  <2>1. CASE p = << >>
    <3>1. s.pipeline = << >> /\ m = 0
      BY <2>1, <1>3, <1>5, EmptySeq
    <3>2. t = MarkIdle(s)
      BY <2>1, <1>7
    <3>3. CASE IsOpen(s)
      <4>1. t = [s EXCEPT !.idle = TRUE]
        BY <3>2, <3>3 DEF MarkIdle
      <4> HIDE DEF t
      <4>2. /\ t \in Stream /\ t.state = s.state /\ t.idle = TRUE
            /\ t.handshake = s.handshake /\ t.token = s.token
            /\ t.close_count = s.close_count /\ t.requests = s.requests
            /\ t.pipeline = s.pipeline /\ t.sent = s.sent /\ t.replies = s.replies
        BY <4>1, <1>1 DEF Stream
      <4>3. Serves(t, q) /\ Wire(t)
        BY <4>2, <1>1, SameWire DEF Serves
      <4>4. Calm(t)
        BY <4>2, <3>1, <3>3 DEF Calm, IsOpen
      <4>5. Counted(t, w)
        BY <4>2, <1>1 DEF Counted
      <4> QED
        BY <4>2, <4>3, <4>4, <4>5, <1>3 DEF StreamInv, IsOpen
    <3>4. CASE ~IsOpen(s)
      <4>1. t = s
        BY <3>2, <3>4 DEF MarkIdle
      <4> HIDE DEF t
      <4> QED
        BY <4>1, <1>3
    <3> QED
      BY <3>3, <3>4
  <2>2. CASE p # << >> /\ ~(IsOpen(s) /\ s.handshake)
    <3>1. t = [s EXCEPT !.pipeline = p]
      BY <2>2, <1>7
    <3> HIDE DEF t
    <3>2. /\ t \in Stream /\ t.state = s.state /\ t.idle = s.idle
          /\ t.handshake = s.handshake /\ t.token = s.token
          /\ t.close_count = s.close_count /\ t.requests = s.requests
          /\ t.pipeline = p /\ t.sent = s.sent /\ t.replies = s.replies
      BY <3>1, <1>1, <1>4 DEF Stream
    <3>3. Serves(t, q)
      BY <3>2, <1>5, <1>6 DEF Serves
    <3>4. ~s.handshake
      BY <2>2, <1>1 DEF Wire
    <3>5. ~s.idle
      BY <2>2, <3>4, <1>1 DEF Wire, Calm
    <3> QED
      BY <3>2, <3>3, <3>4, <3>5, <2>2, <1>1, <1>5 DEF StreamInv, Wire, Calm, Counted, IsOpen
  <2>3. CASE p # << >> /\ IsOpen(s) /\ s.handshake
    <3>1. t = Sent(added, new)
      BY <2>3, <1>7
    <3> HIDE DEF t
    <3>2. s.sent \in Seq(Batch \union {Handshake}) /\ new \in Seq(Batch \union {Handshake})
      BY <1>1, <1>2, StreamFields, SeqMonotonic
    <3>3. /\ t \in Stream /\ t.state = s.state /\ t.idle = FALSE
          /\ t.handshake = s.handshake /\ t.token = s.token
          /\ t.close_count = s.close_count /\ t.requests = s.requests
          /\ t.pipeline = p /\ t.sent = s.sent \o new /\ t.replies = s.replies
      <4>1. CASE new = << >>
        <5>1. p = s.pipeline /\ s.sent \o new = s.sent
          BY <4>1, <3>2, <1>3, ConcatEmptySeq DEF p
        <5>2. ~s.idle /\ s.idle \in BOOLEAN
          BY <5>1, <2>3, <1>1, StreamFields DEF Calm
        <5>3. t = added
          BY <4>1, <3>1 DEF Sent
        <5> QED
          BY <5>1, <5>2, <5>3, <1>1, <1>4, <1>7 DEF Stream
      <4>2. CASE new # << >>
        <5>1. t = [added EXCEPT !.sent = @ \o new, !.idle = FALSE]
          BY <4>2, <3>1 DEF Sent
        <5>2. s.sent \o new \in Seq(Batch \union {Handshake})
          BY <3>2, ConcatProperties
        <5>3. /\ added \in Stream /\ added.state = s.state
              /\ added.handshake = s.handshake /\ added.token = s.token
              /\ added.close_count = s.close_count /\ added.requests = s.requests
              /\ added.pipeline = p /\ added.sent = s.sent /\ added.replies = s.replies
          BY <1>1, <1>4, <1>7 DEF Stream
        <5> QED
          BY <5>1, <5>2, <5>3 DEF Stream
      <4> QED
        BY <4>1, <4>2
    <3>4. Serves(t, q)
      BY <3>3, <1>5, <1>6 DEF Serves
    <3>5. Wire(t)
      <4> DEFINE a == Len(s.replies)
                 l == Len(s.sent)
      <4>1. /\ a \in Nat /\ l \in Nat /\ m = a + l
            /\ \A i \in 1 .. l : s.sent[i] = s.pipeline[a + i]
            /\ \A i \in 1 .. a :
                   s.replies[i] = "ack" \/ (s.replies[i] = "refused" /\ i = a)
        BY <1>1, <2>3, StreamFields DEF Wire
      <4>2. /\ Len(t.sent) = l + Len(new)
            /\ \A i \in 1 .. l + Len(new) :
                   t.sent[i] = IF i <= l THEN s.sent[i] ELSE new[i - l]
        BY <3>2, <3>3, ConcatProperties
      <4> HIDE DEF a, l
      <4>3. Len(p) = a + Len(t.sent)
        BY <4>1, <4>2, <1>2, <1>4
      <4>4. \A i \in 1 .. Len(t.sent) : t.sent[i] = p[a + i]
        <5> SUFFICES ASSUME NEW i \in 1 .. Len(t.sent) PROVE t.sent[i] = p[a + i]
          OBVIOUS
        <5>1. CASE i <= l
          <6>1. i \in 1 .. l /\ a + i \in 1 .. m
            BY <5>1, <4>1, <4>2, <1>2
          <6> QED
            BY <6>1, <5>1, <4>1, <4>2, <1>4
        <5>2. CASE i > l
          <6>1. i - l \in 1 .. Len(new) /\ m + (i - l) = a + i
            BY <5>2, <4>1, <4>2, <1>2
          <6> QED
            BY <6>1, <5>2, <4>1, <4>2, <1>4, <1>2
        <5> QED
          BY <5>1, <5>2, <4>1, <4>2, <1>2
      <4> QED
        BY <4>1, <4>3, <4>4, <3>3, <2>3, ZenonT(40) DEF Wire, IsOpen, a
    <3> QED
      BY <3>3, <3>4, <3>5, <2>3, <1>1, <1>5 DEF StreamInv, Calm, Counted, IsOpen
  <2> QED
    BY <2>1, <2>2, <2>3
<1>9. FillWritePipeline(s, q) = StartIfNeeded(t)
  BY DEF FillWritePipeline, new, added
<1> HIDE DEF t
<1> QED
  BY <1>8, <1>9, StartKeeps

\* A closed stream has nothing on the wire, and the close count it had is of
\* the past: no token request or token is of the new one.
LEMMA CloseKeeps ==
    ASSUME NEW s \in Stream, NEW q, Serves(s, q), NEW w \in Seq(Task), Counted(s, w),
           NEW state \in {"Initial", "Error"}
    PROVE  /\ StreamInv(Close(s, state), q, w)
           /\ Close(s, state).state = state /\ ~IsOpen(Close(s, state))
           /\ Close(s, state).pipeline = s.pipeline /\ ~Close(s, state).handshake
<1> DEFINE t == Close(s, state)
<1>1. /\ s.close_count \in Nat /\ s.requests \in SUBSET Nat
  BY StreamFields
<1>2. << >> \in Seq(Batch \union {Handshake}) /\ << >> \in Seq({"handshake", "ack", "refused"})
  BY EmptySeq
<1>3. /\ t \in Stream /\ t.state = state /\ t.handshake = FALSE /\ t.idle = FALSE
      /\ t.close_count = s.close_count + 1 /\ t.requests = s.requests
      /\ t.pipeline = s.pipeline /\ t.sent = << >> /\ t.replies = << >>
  <2>1. /\ t.state = state /\ t.handshake = FALSE /\ t.idle = FALSE
        /\ t.close_count = s.close_count + 1 /\ t.requests = s.requests
        /\ t.pipeline = s.pipeline /\ t.sent = << >> /\ t.replies = << >>
    BY DEF Close, Stream
  <2>2. t \in Stream
    <3> DEFINE c == s.close_count + 1
    <3>1. c \in Nat /\ Unauthenticated \in User
      BY <1>1 DEF User
    <3>2. t = [s EXCEPT !.state = state, !.handshake = FALSE, !.idle = FALSE, !.close_count = c,
                        !.token = Unauthenticated, !.sent = << >>, !.replies = << >>]
      BY DEF Close
    <3> HIDE DEF c
    <3> QED
      BY <3>1, <3>2, <1>2 DEF Stream
  <2> QED
    BY <2>1, <2>2
<1> HIDE DEF t
<1>4. Serves(t, q)
  BY <1>3 DEF Serves
<1>5. Wire(t) /\ Calm(t)
  BY <1>3 DEF Wire, Calm, IsOpen
<1>6. Counted(t, w)
  <2>1. \A c \in t.requests : c <= t.close_count /\ c # t.close_count
    BY <1>1, <1>3 DEF Counted
  <2>2. \A i \in 1 .. Len(w) : w[i].type = "resume" =>
            w[i].close_count <= t.close_count /\ w[i].close_count # t.close_count
    <3> SUFFICES ASSUME NEW i \in 1 .. Len(w), w[i].type = "resume"
                 PROVE  w[i].close_count <= t.close_count /\ w[i].close_count # t.close_count
      OBVIOUS
    <3>1. w[i].close_count <= s.close_count /\ w[i].close_count \in Nat
      BY TaskFields, ElementOfSeq DEF Counted
    <3> QED
      BY <3>1, <1>1, <1>3
  <2> QED
    BY <2>1, <2>2 DEF Counted
<1> QED
  BY <1>3, <1>4, <1>5, <1>6 DEF StreamInv, IsOpen, t

\* Nothing is under way for a stream that is neither started nor Starting, so
\* it can be put back to Initial.
LEMMA InhibitKeeps ==
    ASSUME NEW s, NEW q, NEW w, StreamInv(s, q, w), s.state \in {"Initial", "Error"}
    PROVE  /\ StreamInv(InhibitBackoff(s), q, w)
           /\ ~IsOpen(InhibitBackoff(s)) /\ ~InhibitBackoff(s).handshake
           /\ InhibitBackoff(s).pipeline = s.pipeline
<1> DEFINE t == InhibitBackoff(s)
<1>1. s \in Stream /\ ~IsOpen(s)
  BY DEF StreamInv, IsOpen
<1>2. /\ t \in Stream /\ t.state = "Initial"
      /\ t.handshake = s.handshake /\ t.idle = s.idle
      /\ t.close_count = s.close_count /\ t.requests = s.requests
      /\ t.pipeline = s.pipeline /\ t.sent = s.sent /\ t.replies = s.replies
  BY <1>1 DEF InhibitBackoff, Stream
<1> HIDE DEF t
<1>3. ~s.handshake /\ ~s.idle /\ s.sent = << >> /\ s.replies = << >>
  BY <1>1 DEF StreamInv, Wire, Calm
<1>4. Serves(t, q) /\ Wire(t) /\ Calm(t)
  BY <1>2, <1>3 DEF StreamInv, Serves, Wire, Calm, IsOpen
<1>5. Counted(t, w)
  BY <1>2 DEF StreamInv, Counted
<1> QED
  BY <1>2, <1>3, <1>4, <1>5 DEF StreamInv, IsOpen, t

\* A stopped stream is neither started nor open.
LEMMA StopKeeps ==
    ASSUME NEW s, NEW q, NEW w \in Seq(Task), StreamInv(s, q, w)
    PROVE  /\ StreamInv(Stop(s), q, w) /\ Stop(s).state \in {"Initial", "Error"}
           /\ ~IsOpen(Stop(s)) /\ ~Stop(s).handshake /\ Stop(s).pipeline = s.pipeline
<1>1. s \in Stream /\ Serves(s, q) /\ Counted(s, w) /\ Wire(s)
  BY DEF StreamInv
<1>2. CASE IsStarted(s)
  <2>1. Stop(s) = Close(s, "Initial")
    BY <1>2 DEF Stop
  <2> QED
    BY <2>1, <1>1, CloseKeeps
<1>3. CASE ~IsStarted(s)
  <2>1. Stop(s) = s
    BY <1>3 DEF Stop
  <2>2. s.state \in {"Initial", "Error"} /\ ~IsOpen(s)
    BY <1>1, <1>3, StreamFields DEF IsStarted, IsOpen
  <2> QED
    BY <2>1, <2>2, <1>1 DEF Wire
<1> QED
  BY <1>2, <1>3

\* With the network disabled the pipeline is empty, the beginning of any queue.
LEMMA DisableKeeps ==
    ASSUME NEW s, NEW q, NEW w \in Seq(Task), StreamInv(s, q, w), NEW r \in Seq(Batch)
    PROVE  /\ StreamInv(DisableNetwork(s), r, w)
           /\ DisableNetwork(s).state \in {"Initial", "Error"}
<1> DEFINE u == Stop(s)
           t == DisableNetwork(s)
<1>1. StreamInv(u, q, w) /\ u.state \in {"Initial", "Error"} /\ ~IsOpen(u) /\ ~u.handshake
  BY StopKeeps
<1>2. u \in Stream /\ Wire(u) /\ Calm(u) /\ Counted(u, w)
  BY <1>1 DEF StreamInv
<1>3. t = [u EXCEPT !.pipeline = << >>] /\ << >> \in Seq(Batch) /\ Len(<< >>) = 0
  BY EmptySeq DEF DisableNetwork
<1> HIDE DEF t, u
<1>4. /\ t \in Stream /\ t.state = u.state
      /\ t.handshake = u.handshake /\ t.idle = u.idle
      /\ t.close_count = u.close_count /\ t.requests = u.requests
      /\ t.pipeline = << >> /\ t.sent = u.sent /\ t.replies = u.replies
  BY <1>2, <1>3 DEF Stream
<1>5. Serves(t, r)
  <2>1. Len(r) \in Nat /\ kMaxPendingWrites \in Nat /\ Len(t.pipeline) = 0
    BY <1>3, <1>4, LenProperties, PipelineAssumption
  <2> QED
    BY <2>1 DEF Serves
<1>6. Wire(t) /\ Calm(t)
  BY <1>1, <1>2, <1>4 DEF Wire, Calm, IsOpen
<1>7. Counted(t, w)
  BY <1>2, <1>4 DEF Counted
<1> QED
  BY <1>1, <1>4, <1>5, <1>6, <1>7 DEF StreamInv, t

\* A restarted network serves the queue it is given, of whatever user, and the
\* stream is not open yet.
LEMMA RestartKeeps ==
    ASSUME NEW s, NEW q, NEW w \in Seq(Task), StreamInv(s, q, w), NEW r \in Seq(Batch), Ordered(r)
    PROVE  /\ StreamInv(RestartNetwork(s, r), r, w) /\ Busy(RestartNetwork(s, r))
           /\ ~IsOpen(RestartNetwork(s, r)) /\ ~RestartNetwork(s, r).handshake
<1> DEFINE u == DisableNetwork(s)
           v == InhibitBackoff(u)
<1>1. StreamInv(u, r, w) /\ u.state \in {"Initial", "Error"}
  BY DisableKeeps
<1> HIDE DEF u
<1>2. StreamInv(v, r, w) /\ ~IsOpen(v) /\ ~v.handshake
  BY <1>1, InhibitKeeps
<1> HIDE DEF v
<1>3. RestartNetwork(s, r) = FillWritePipeline(v, r)
  BY DEF RestartNetwork, u, v
<1> QED
  BY <1>2, <1>3, FillKeeps

\* A new stream serves any queue once filled.
LEMMA NewStreamServes ==
    ASSUME NEW q \in Seq(Batch)
    PROVE  StreamInv(NewStream, q, << >>) /\ ~IsOpen(NewStream) /\ ~NewStream.handshake
           /\ Busy(NewStream)
<1>1. /\ << >> \in Seq(Batch) /\ << >> \in Seq(Batch \union {Handshake})
      /\ << >> \in Seq({"handshake", "ack", "refused"}) /\ Len(<< >>) = 0
  BY EmptySeq
<1>2. NewStream \in Stream
  BY <1>1 DEF NewStream, Stream, User
<1>3. Serves(NewStream, q)
  <2>1. Len(q) \in Nat /\ kMaxPendingWrites \in Nat /\ NewStream.pipeline = << >>
    BY LenProperties, PipelineAssumption DEF NewStream
  <2> QED
    BY <1>1, <2>1 DEF Serves
<1>4. Wire(NewStream) /\ Calm(NewStream) /\ ~IsOpen(NewStream) /\ ~NewStream.handshake
  BY DEF NewStream, Wire, Calm, IsOpen
<1>5. Counted(NewStream, << >>)
  BY <1>1 DEF NewStream, Counted
<1> QED
  BY <1>2, <1>3, <1>4, <1>5 DEF StreamInv, Busy, NewStream

\* A task that leaves the worker queue, or one that carries no token and enters
\* it, does not concern the stream.
LEMMA TasksCounted ==
    ASSUME NEW s, NEW q, NEW w \in Seq(Task), StreamInv(s, q, w)
    PROVE  /\ w # << >> => StreamInv(s, q, Tail(w))
           /\ \A t \in Task : t.type # "resume" => StreamInv(s, q, Append(w, t))
<1>1. ASSUME w # << >> PROVE Counted(s, Tail(w))
  <2> DEFINE v == Tail(w)
  <2>1. /\ Len(w) \in Nat /\ Len(v) = Len(w) - 1 /\ \A i \in 1 .. Len(v) : v[i] = w[i + 1]
        /\ \A i \in 1 .. Len(v) : i + 1 \in 1 .. Len(w)
        /\ \A i, j \in 1 .. Len(v) : i + 1 = j + 1 => i = j
    BY <1>1, HeadTailProperties, LenProperties
  <2> HIDE DEF v
  <2> QED
    BY <2>1 DEF StreamInv, Counted
<1>2. ASSUME NEW t \in Task, t.type # "resume" PROVE Counted(s, Append(w, t))
  <2> DEFINE v == Append(w, t)
  <2>1. /\ Len(w) \in Nat /\ Len(v) = Len(w) + 1 /\ \A i \in 1 .. Len(w) : v[i] = w[i]
        /\ v[Len(w) + 1] = t
    BY AppendProperties, LenProperties
  <2>2. \A i \in 1 .. Len(v) : v[i].type = "resume" => i \in 1 .. Len(w) /\ v[i] = w[i]
    BY <1>2, <2>1
  <2> HIDE DEF v
  <2>3. \A i \in 1 .. Len(v) : v[i].type = "resume" =>
            /\ v[i].close_count <= s.close_count
            /\ v[i].close_count = s.close_count =>
                   s.state = "Starting" /\ s.close_count \notin s.requests
    BY <2>2 DEF StreamInv, Counted
  <2>4. \A i, j \in 1 .. Len(v) :
            /\ v[i].type = "resume" /\ v[j].type = "resume"
            /\ v[i].close_count = s.close_count /\ v[j].close_count = s.close_count
            => i = j
    BY <2>2, Zenon DEF StreamInv, Counted
  <2>5. \A c \in s.requests : c <= s.close_count /\ (c = s.close_count => s.state = "Starting")
    BY DEF StreamInv, Counted
  <2>6. Counted(s, v)
    BY <2>3, <2>4, <2>5 DEF Counted
  <2> QED
    BY <2>6 DEF v
<1> QED
  BY <1>1, <1>2 DEF StreamInv

-----------------------------------------------------------------------------
(***************************************************************************)
(* The tasks of the worker queue and the users they are run for.           *)
(***************************************************************************)

\* What TypeOK says of lengths and elements.
LEMMA TypeFacts ==
    ASSUME TypeOK
    PROVE  /\ Len(made) \in Nat /\ Len(worker) \in Nat /\ worker \in Seq(Task)
           /\ \A i \in 1 .. Len(made) : made[i].by \in Account /\ made[i].by \in User
           /\ \A i \in 1 .. Len(worker) : worker[i] \in Task
           /\ \A u \in User :
                  /\ queue[u] \in Seq(Batch) /\ Len(queue[u]) \in Nat
                  /\ \A i \in 1 .. Len(queue[u]) :
                         /\ queue[u][i] \in Batch
                         /\ queue[u][i].id \in Nat /\ queue[u][i].id > 0
                         /\ queue[u][i].n \in Write /\ queue[u][i].n \in Nat /\ queue[u][i].n > 0
           /\ current_user \in User /\ auth \in User /\ next_batch_id \in Nat
<1>1. Len(made) \in Nat /\ \A i \in 1 .. Len(made) : made[i].by \in Account
  <2> DEFINE S == [by : Account, bad : BOOLEAN]
  <2>1. made \in Seq(S)
    BY DEF TypeOK
  <2>2. \A x \in S : x.by \in Account
    OBVIOUS
  <2> HIDE DEF S
  <2>3. Len(made) \in Nat /\ \A i \in 1 .. Len(made) : made[i] \in S
    BY <2>1, LenProperties, ElementOfSeq
  <2> QED
    BY <2>2, <2>3
<1>2. worker \in Seq(Task) /\ Len(worker) \in Nat /\ \A i \in 1 .. Len(worker) : worker[i] \in Task
  BY LenProperties, ElementOfSeq DEF TypeOK
<1>3. ASSUME NEW u \in User
      PROVE  /\ queue[u] \in Seq(Batch) /\ Len(queue[u]) \in Nat
             /\ \A i \in 1 .. Len(queue[u]) : queue[u][i] \in Batch
  <2>1. queue[u] \in Seq(Batch)
    BY DEF TypeOK
  <2> QED
    BY <2>1, LenProperties, ElementOfSeq
<1>4. \A b \in Batch : b.id \in Nat /\ b.id > 0 /\ b.n \in Write /\ b.n \in Nat /\ b.n > 0
  BY PipelineAssumption DEF Batch, Write
<1>5. current_user \in User /\ auth \in User /\ next_batch_id \in Nat
  BY DEF TypeOK
<1>6. Account \subseteq User
  BY DEF User
<1> QED
  BY <1>1, <1>2, <1>3, <1>4, <1>5, <1>6

\* The task at the head of the worker queue is run for the user it is of.
LEMMA HeadIsOfCurrentUser ==
    ASSUME TypeOK, UserInv, worker # << >>
    PROVE  /\ Head(worker) = worker[1] /\ Head(worker) \in Task
           /\ Len(worker) >= 1 /\ 1 \in 1 .. Len(worker)
           /\ Head(worker).type = "write" => made[Head(worker).n].by = current_user
           /\ Head(worker).type = "resume" => Head(worker).token \in {current_user, NoToken}
<1>1. Len(worker) \in Nat /\ Len(worker) >= 1 /\ worker \in Seq(Task)
  BY TypeFacts, EmptySeq
<1>2. Head(worker) = worker[1] /\ 1 \in 1 .. Len(worker) /\ worker[1] \in Task
  BY <1>1, ElementOfSeq
<1>3. PICK f \in [1 .. Len(worker) + 1 -> User] : Attributed(f)
  BY DEF UserInv
<1>4. /\ worker[1].type = "write" => made[worker[1].n].by = f[1]
      /\ worker[1].type = "resume" => worker[1].token \in {f[1], NoToken}
      /\ f[1] = current_user
  BY <1>2, <1>3 DEF Attributed
<1> QED
  BY <1>1, <1>2, <1>4

\* A task is queued: it is of the user that Auth has signed in.
LEMMA UserInvAppend ==
    ASSUME TypeOK, UserInv, TaskInv, NEW t \in Task, worker' = Append(worker, t),
           current_user' = current_user, auth' \in User,
           auth' = (IF t.type = "credential" THEN t.user ELSE auth),
           \A n \in 1 .. Len(made) : made'[n].by = made[n].by,
           t.type = "write" => made'[t.n].by = auth,
           t.type = "resume" => t.token \in {auth, NoToken}
    PROVE  UserInv'
<1>1. PICK f \in [1 .. Len(worker) + 1 -> User] : Attributed(f)
  BY DEF UserInv
<1> DEFINE l == Len(worker)
           g == [i \in 1 .. l + 2 |-> IF i = l + 2 THEN auth' ELSE f[i]]
<1>2. /\ l \in Nat /\ Len(worker') = l + 1
      /\ \A i \in 1 .. l : worker'[i] = worker[i] /\ worker[i] \in Task
      /\ worker'[l + 1] = t
  BY TypeFacts, AppendProperties
<1>3. /\ f[1] = current_user /\ f[l + 1] = auth
      /\ \A i \in 1 .. l :
             /\ f[i + 1] = IF worker[i].type = "credential" THEN worker[i].user ELSE f[i]
             /\ worker[i].type = "write" => made[worker[i].n].by = f[i]
             /\ worker[i].type = "resume" => worker[i].token \in {f[i], NoToken}
  BY <1>1 DEF Attributed
<1> HIDE DEF l
<1>4. f \in [1 .. l + 1 -> User]
  BY <1>1 DEF l
<1>5. /\ g \in [1 .. l + 2 -> User] /\ g[l + 2] = auth'
      /\ \A i \in 1 .. l + 1 : g[i] = f[i]
  BY <1>2, <1>4
<1>6. \A i \in 1 .. l : worker[i].type = "write" => worker[i].n \in 1 .. Len(made)
  BY <1>2, TaskFields, TypeFacts DEF TaskInv, l
<1> HIDE DEF g
<1>7. g[1] = current_user' /\ g[l + 2] = auth'
  BY <1>2, <1>3, <1>5
<1>8. ASSUME NEW i \in 1 .. l + 1
      PROVE  /\ g[i + 1] = IF worker'[i].type = "credential" THEN worker'[i].user ELSE g[i]
             /\ worker'[i].type = "write" => made'[worker'[i].n].by = g[i]
             /\ worker'[i].type = "resume" => worker'[i].token \in {g[i], NoToken}
  <2>1. CASE i = l + 1
    <3>1. worker'[i] = t /\ g[i] = auth /\ g[i + 1] = auth' /\ i + 1 = l + 2
      BY <2>1, <1>2, <1>3, <1>5
    <3> QED
      BY <3>1
  <2>2. CASE i \in 1 .. l
    <3>1. worker'[i] = worker[i] /\ g[i] = f[i] /\ g[i + 1] = f[i + 1]
      BY <2>2, <1>2, <1>5
    <3> QED
      BY <3>1, <2>2, <1>3, <1>6
  <2> QED
    BY <2>1, <2>2, <1>2
<1>9. Len(worker') + 1 = l + 2
  BY <1>2
<1>h. PICK h : h = g
  OBVIOUS
<1>10. Attributed(h)'
  BY <1>h, <1>2, <1>7, <1>8, <1>9 DEF Attributed
<1>11. h \in [1 .. Len(worker') + 1 -> User]
  BY <1>h, <1>5, <1>9
<1> QED
  BY <1>10, <1>11 DEF UserInv

\* The head of the worker queue is run, and changes the user if it says so.
LEMMA UserInvTail ==
    ASSUME TypeOK, UserInv, worker # << >>, worker' = Tail(worker),
           auth' = auth, made' = made,
           current_user' = (IF Head(worker).type = "credential" THEN Head(worker).user
                            ELSE current_user)
    PROVE  UserInv'
<1>1. PICK f \in [1 .. Len(worker) + 1 -> User] : Attributed(f)
  BY DEF UserInv
<1> DEFINE l == Len(worker)
           g == [i \in 1 .. l |-> f[i + 1]]
<1>2. /\ l \in Nat /\ l >= 1 /\ Len(worker') = l - 1
      /\ \A i \in 1 .. l - 1 : worker'[i] = worker[i + 1]
      /\ Head(worker) = worker[1]
  BY TypeFacts, HeadTailProperties, HeadIsOfCurrentUser
<1>3. /\ f[1] = current_user /\ f[l + 1] = auth
      /\ \A i \in 1 .. l :
             /\ f[i + 1] = IF worker[i].type = "credential" THEN worker[i].user ELSE f[i]
             /\ worker[i].type = "write" => made[worker[i].n].by = f[i]
             /\ worker[i].type = "resume" => worker[i].token \in {f[i], NoToken}
  BY <1>1 DEF Attributed
<1>4. f \in [1 .. l + 1 -> User]
  BY <1>1
<1> HIDE DEF l
<1>5. g \in [1 .. l -> User] /\ \A i \in 1 .. l : g[i] = f[i + 1]
  BY <1>2, <1>4
<1> HIDE DEF g
<1>6. g[1] = current_user' /\ g[l] = auth'
  BY <1>2, <1>3, <1>5
<1>7. ASSUME NEW i \in 1 .. l - 1
      PROVE  /\ g[i + 1] = IF worker'[i].type = "credential" THEN worker'[i].user ELSE g[i]
             /\ worker'[i].type = "write" => made'[worker'[i].n].by = g[i]
             /\ worker'[i].type = "resume" => worker'[i].token \in {g[i], NoToken}
  <2>1. /\ worker'[i] = worker[i + 1] /\ g[i] = f[i + 1] /\ g[i + 1] = f[(i + 1) + 1]
        /\ i + 1 \in 1 .. l
    BY <1>2, <1>5
  <2> QED
    BY <2>1, <1>3
<1>8. Len(worker') + 1 = l
  BY <1>2
<1>h. PICK h : h = g
  OBVIOUS
<1>9. Attributed(h)'
  BY <1>h, <1>2, <1>6, <1>7, <1>8 DEF Attributed
<1>10. h \in [1 .. Len(worker') + 1 -> User]
  BY <1>h, <1>5, <1>8
<1> QED
  BY <1>9, <1>10 DEF UserInv

-----------------------------------------------------------------------------
(***************************************************************************)
(* What the backend stores.                                                *)
(***************************************************************************)

\* A document keeps its value or gets that of one of the messages.
LEMMA StoredIs ==
    ASSUME TypeOK, NEW ms \in Seq(Batch \union {Handshake})
    PROVE  /\ Stored(ms) \in [User -> {0} \union Write]
           /\ \A u \in User :
                  \/ Stored(ms)[u] = doc[u]
                  \/ \E i \in 1 .. Len(ms) :
                        /\ ms[i] # Handshake /\ made[ms[i].n].by = u
                        /\ Stored(ms)[u] = ms[i].n
<1> DEFINE of(u) == {m.n : m \in {x \in ToSet(ms) : x /= Handshake /\ made[x.n].by = u}}
<1>1. \A x \in ToSet(ms) : \E i \in 1 .. Len(ms) : x = ms[i] /\ x \in Batch \union {Handshake}
  <2>1. DOMAIN ms = 1 .. Len(ms) /\ \A i \in 1 .. Len(ms) : ms[i] \in Batch \union {Handshake}
    BY LenProperties, ElementOfSeq
  <2> QED
    BY <2>1 DEF ToSet
<1>2. ASSUME NEW u \in User, NEW y \in of(u)
      PROVE  /\ y \in Write
             /\ \E i \in 1 .. Len(ms) : ms[i] # Handshake /\ made[ms[i].n].by = u /\ y = ms[i].n
  <2>1. PICK x \in ToSet(ms) : x /= Handshake /\ made[x.n].by = u /\ y = x.n
    OBVIOUS
  <2>2. PICK i \in 1 .. Len(ms) : x = ms[i] /\ x \in Batch \union {Handshake}
    BY <1>1
  <2>3. x \in Batch
    BY <2>1, <2>2
  <2>4. x.n \in Write
    BY <2>3 DEF Batch
  <2> QED
    BY <2>1, <2>2, <2>4
<1>3. ASSUME NEW u \in User, of(u) # {} PROVE Max(of(u)) \in of(u)
  <2>0. \A y \in Write : y \in Nat /\ y <= MaxWrites
    BY PipelineAssumption DEF Write
  <2>1. of(u) \in SUBSET Nat /\ MaxWrites \in Nat /\ \A y \in of(u) : y <= MaxWrites
    <3>1. \A y \in of(u) : y \in Write
      BY <1>2
    <3> HIDE DEF of
    <3> QED
      BY <3>1, <2>0, PipelineAssumption
  <2> HIDE DEF of
  <2> QED
    BY <1>3, <2>1, MaxExists
<1>4. Stored(ms) = [u \in User |-> IF of(u) = {} THEN doc[u] ELSE Max(of(u))]
  BY DEF Stored
<1> HIDE DEF of
<1>5. ASSUME NEW u \in User
      PROVE  /\ Stored(ms)[u] \in {0} \union Write
             /\ \/ Stored(ms)[u] = doc[u]
                \/ \E i \in 1 .. Len(ms) :
                      ms[i] # Handshake /\ made[ms[i].n].by = u /\ Stored(ms)[u] = ms[i].n
  <2>1. CASE of(u) = {}
    BY <2>1, <1>4 DEF TypeOK
  <2>2. CASE of(u) # {}
    <3>1. Stored(ms)[u] \in of(u)
      BY <2>2, <1>3, <1>4
    <3> QED
      BY <3>1, <1>2
  <2> QED
    BY <2>1, <2>2
<1> QED
  BY <1>4, <1>5

\* When a stream is given up, a document keeps its value or gets that of a
\* message that was on the wire and breaks no rule.
LEMMA GivenUpStores ==
    ASSUME TypeOK, GivenUp
    PROVE  /\ doc' \in [User -> {0} \union Write]
           /\ \A u \in User :
                  \/ doc'[u] = doc[u]
                  \/ \E i \in 1 .. Len(stream.sent) :
                        /\ stream.sent[i] # Handshake /\ ~Bad(stream.sent[i])
                        /\ made[stream.sent[i].n].by = u /\ doc'[u] = stream.sent[i].n
<1> DEFINE sent == stream.sent
<1>1. sent \in Seq(Batch \union {Handshake}) /\ Len(sent) \in Nat
  BY StreamFields DEF TypeOK
<1>2. PICK ms \in MayHaveTaken : doc' = Stored(ms)
  BY DEF GivenUp
<1> HIDE DEF sent
<1>3. /\ ms \in Seq(Batch \union {Handshake})
      /\ \A i \in 1 .. Len(ms) : i \in 1 .. Len(sent) /\ ms[i] = sent[i] /\ ~Bad(ms[i])
  <2>1. CASE Refused
    <3>1. ms = << >>
      BY <2>1, <1>2 DEF MayHaveTaken
    <3> QED
      BY <3>1, EmptySeq
  <2>2. CASE ~Refused
    <3>1. ms \in Prefixes(sent) /\ \A i \in DOMAIN ms : ~Bad(ms[i])
      BY <2>2, <1>2 DEF MayHaveTaken, sent
    <3>2. PICK l \in 0 .. Len(sent) : ms = SubSeq(sent, 1, l)
      BY <3>1 DEF Prefixes
    <3>3. \A i \in 1 .. l : sent[i] \in Batch \union {Handshake}
      BY <1>1, <3>2, ElementOfSeq
    <3>4. /\ ms \in Seq(Batch \union {Handshake}) /\ Len(ms) = l
          /\ \A i \in 1 .. l : ms[i] = sent[i]
      <4>1. l \in Int /\ l - 1 + 1 = l /\ (1 <= l \/ l = 0) /\ \A i \in 1 .. l : 1 + i - 1 = i
        BY <1>1, <3>2
      <4> QED
        BY <3>2, <3>3, <4>1, SubSeqProperties
    <3>5. DOMAIN ms = 1 .. l
      BY <3>4, LenProperties
    <3> QED
      BY <1>1, <3>1, <3>4, <3>5
  <2> QED
    BY <2>1, <2>2
<1> QED
  BY <1>2, <1>3, StoredIs DEF sent

\* NextBatchIdFromDb is above every id in use.
LEMMA NextIdIsFresh ==
    ASSUME TypeOK, QueueInv
    PROVE  /\ NextBatchIdFromDb \in Nat \ {0}
           /\ \A u \in User : \A i \in 1 .. Len(queue[u]) : queue[u][i].id < NextBatchIdFromDb
<1> DEFINE ids == UNION {{b.id : b \in ToSet(queue[u])} : u \in User}
           S   == {0} \union ids
<1>1. ASSUME NEW u \in User
      PROVE  DOMAIN queue[u] = 1 .. Len(queue[u])
  BY TypeFacts, LenProperties
<1>2. \A y \in ids : \E u \in User : \E i \in 1 .. Len(queue[u]) : y = queue[u][i].id
  BY <1>1 DEF ToSet
<1>3. \A u \in User : \A i \in 1 .. Len(queue[u]) : queue[u][i].id \in ids
  BY <1>1 DEF ToSet
<1>4. \A y \in ids : y \in Nat /\ y <= next_batch_id
  <2> HIDE DEF ids
  <2>1. ASSUME NEW u \in User, NEW i \in 1 .. Len(queue[u])
        PROVE  queue[u][i].id \in Nat /\ queue[u][i].id <= next_batch_id
    <3>1. queue[u][i].id \in Nat /\ next_batch_id \in Nat
      BY TypeFacts
    <3>2. queue[u][i].id < next_batch_id
      BY DEF QueueInv
    <3> QED
      BY <3>1, <3>2
  <2> QED
    BY <1>2, <2>1
<1> HIDE DEF ids
<1>5. S \in SUBSET Nat /\ S # {} /\ next_batch_id \in Nat /\ \A y \in S : y <= next_batch_id
  BY <1>4, TypeFacts
<1>6. NextBatchIdFromDb = 1 + Max(S)
  BY DEF NextBatchIdFromDb, ids
<1> HIDE DEF S
<1>7. Max(S) \in Nat /\ \A y \in S : y <= Max(S)
  BY <1>5, MaxExists
<1>8. \A u \in User : \A i \in 1 .. Len(queue[u]) : queue[u][i].id \in S /\ queue[u][i].id \in Nat
  BY <1>3, TypeFacts DEF S
<1> QED
  BY <1>6, <1>7, <1>8

-----------------------------------------------------------------------------
(***************************************************************************)
(* Each action keeps the invariant.                                        *)
(***************************************************************************)

\* The parts of PipelineInv, and what they say of the queue the stream serves.
LEMMA InvFacts ==
    ASSUME PipelineInv
    PROVE  /\ TypeOK /\ QueueInv /\ TaskInv /\ CallbackInv /\ UserInv /\ TokenInv
           /\ stream \in Stream /\ StreamInv(stream, queue[current_user], worker) /\ Busy(stream)
           /\ current_user \in User /\ queue[current_user] \in Seq(Batch)
           /\ Ordered(queue[current_user]) /\ worker \in Seq(Task)
<1>1. /\ TypeOK /\ QueueInv /\ TaskInv /\ CallbackInv /\ UserInv /\ TokenInv
      /\ StreamInv(stream, queue[current_user], worker) /\ Busy(stream)
  BY DEF PipelineInv
<1>2. stream \in Stream
  BY <1>1 DEF StreamInv
<1>3. current_user \in User /\ queue[current_user] \in Seq(Batch) /\ worker \in Seq(Task)
  BY <1>1, TypeFacts
<1>4. Ordered(queue[current_user])
  BY <1>1, <1>3 DEF QueueInv
<1> QED
  BY <1>1, <1>2, <1>3, <1>4

\* A step that touches nothing but the stream and the database.
LEMMA StreamStep ==
    ASSUME PipelineInv, StreamInv(stream', queue[current_user], worker), Busy(stream'),
           IsOpen(stream') => stream'.token = current_user, doc' \in [User -> {0} \union Write],
           UNCHANGED <<worker, current_user, queue, next_batch_id, callbacks>>,
           UNCHANGED <<auth, made, decided, told>>
    PROVE  PipelineInv'
<1>1. TypeOK /\ QueueInv /\ TaskInv /\ CallbackInv /\ UserInv
  BY InvFacts
<1>2. stream' \in Stream
  BY DEF StreamInv
<1>3. TypeOK'
  BY <1>1, <1>2 DEF TypeOK
<1>4. QueueInv' /\ TaskInv' /\ CallbackInv'
  BY <1>1 DEF QueueInv, TaskInv, CallbackInv, Ordered
<1>5. UserInv'
  BY <1>1 DEF UserInv, Attributed
<1>6. TokenInv' /\ StreamInv(stream, queue[current_user], worker)' /\ Busy(stream)'
  BY DEF TokenInv, IsOpen, StreamInv, Serves, Wire, Calm, Counted, Busy, IsStarted
<1> QED
  BY <1>3, <1>4, <1>5, <1>6 DEF PipelineInv

\* The backend answers the messages of a stream in order.
LEMMA BackendReadsKeeps ==
    ASSUME PipelineInv, BackendReads
    PROVE  PipelineInv'
<1> DEFINE s == stream
           q == queue[current_user]
           m == Head(s.sent)
           reply == IF m = Handshake THEN "handshake" ELSE IF Bad(m) THEN "refused" ELSE "ack"
<1>1. /\ s \in Stream /\ Serves(s, q) /\ Wire(s) /\ Calm(s) /\ Counted(s, worker) /\ Busy(s)
      /\ TypeOK /\ TokenInv
  BY InvFacts DEF StreamInv
<1>2. /\ s.sent # << >> /\ ~Refused
      /\ stream' = [s EXCEPT !.sent = Tail(@), !.replies = Append(@, reply)]
      /\ doc' = IF reply = "ack" THEN Stored(<<m>>) ELSE doc
  BY DEF BackendReads
<1>3. /\ s.sent \in Seq(Batch \union {Handshake}) /\ s.pipeline \in Seq(Batch)
      /\ s.replies \in Seq({"handshake", "ack", "refused"})
      /\ Len(s.pipeline) \in Nat /\ Len(s.sent) \in Nat /\ Len(s.replies) \in Nat
      /\ s.handshake \in BOOLEAN
  BY <1>1, StreamFields
<1>4. /\ m = s.sent[1] /\ m \in Batch \union {Handshake} /\ Len(s.sent) >= 1
      /\ Tail(s.sent) \in Seq(Batch \union {Handshake}) /\ Len(Tail(s.sent)) = Len(s.sent) - 1
      /\ \A i \in 1 .. Len(s.sent) - 1 : Tail(s.sent)[i] = s.sent[i + 1]
  BY <1>2, <1>3, HeadTailProperties, EmptySeq
<1>5. /\ reply \in {"handshake", "ack", "refused"}
      /\ Append(s.replies, reply) \in Seq({"handshake", "ack", "refused"})
      /\ Len(Append(s.replies, reply)) = Len(s.replies) + 1
      /\ \A i \in 1 .. Len(s.replies) : Append(s.replies, reply)[i] = s.replies[i]
      /\ Append(s.replies, reply)[Len(s.replies) + 1] = reply
  <2>1. reply \in {"handshake", "ack", "refused"}
    OBVIOUS
  <2> HIDE DEF reply
  <2> QED
    BY <2>1, <1>3, AppendProperties
<1>6. doc' \in [User -> {0} \union Write]
  <2>1. <<m>> \in Seq(Batch \union {Handshake})
    BY <1>4
  <2> HIDE DEF m, reply
  <2>2. Stored(<<m>>) \in [User -> {0} \union Write] /\ doc \in [User -> {0} \union Write]
    BY <2>1, <1>1, StoredIs DEF TypeOK
  <2> QED
    BY <2>2, <1>2
<1>7. IsOpen(s)
  BY <1>1, <1>2 DEF Wire
<1>8. \A i \in 1 .. Len(s.replies) : s.replies[i] # "refused"
  <2>1. DOMAIN s.replies = 1 .. Len(s.replies)
    BY <1>3, LenProperties
  <2> QED
    BY <2>1, <1>2 DEF Refused, ToSet
<1> DEFINE t == stream'
           sent == Tail(s.sent)
           replies == Append(s.replies, reply)
<1> HIDE DEF m, reply, sent, replies
<1>9. /\ t \in Stream /\ t.state = s.state /\ t.idle = s.idle
      /\ t.handshake = s.handshake /\ t.token = s.token
      /\ t.close_count = s.close_count /\ t.requests = s.requests
      /\ t.pipeline = s.pipeline /\ t.sent = sent /\ t.replies = replies
  BY <1>1, <1>2, <1>4, <1>5 DEF Stream, sent, replies
<1>10. Wire(t)
  <2>1. CASE ~s.handshake
    <3>1. s.pipeline # << >> /\ Greeting(s.sent, s.replies)
      BY <2>1, <1>1, <1>7 DEF Wire
    <3>2. s.sent = <<Handshake>> /\ s.replies = << >>
      BY <3>1, <1>2 DEF Greeting
    <3>3. m = Handshake /\ reply = "handshake"
      BY <3>2 DEF m, reply
    <3>4. sent = << >> /\ replies = <<"handshake">>
      BY <3>2, <3>3 DEF sent, replies
    <3> QED
      BY <3>1, <3>4, <2>1, <1>7, <1>9 DEF Wire, IsOpen, Greeting
  <2>2. CASE s.handshake
    <3>1. /\ Len(s.pipeline) = Len(s.replies) + Len(s.sent)
          /\ \A i \in 1 .. Len(s.sent) : s.sent[i] = s.pipeline[Len(s.replies) + i]
          /\ \A i \in 1 .. Len(s.replies) :
                 s.replies[i] = "ack" \/ (s.replies[i] = "refused" /\ i = Len(s.replies))
      BY <2>2, <1>1 DEF Wire
    <3> DEFINE a == Len(s.replies)
               l == Len(s.sent)
               p == Len(s.pipeline)
    <3>0. a \in Nat /\ l \in Nat /\ p \in Nat /\ l >= 1 /\ p = a + l
      BY <1>3, <1>4, <3>1
    <3>2. m = s.pipeline[a + 1] /\ a + 1 \in 1 .. p
      <4>1. 1 \in 1 .. l
        BY <3>0
      <4>2. m = s.pipeline[a + 1]
        BY <4>1, <3>1, <1>4
      <4> HIDE DEF a, l, p
      <4> QED
        BY <4>2, <3>0
    <3>3. m # Handshake
      <4>1. m \in Batch
        BY <3>2, <1>3, ElementOfSeq
      <4> QED
        BY <4>1 DEF Batch, Handshake
    <3>4. reply \in {"ack", "refused"}
      BY <3>3 DEF reply
    <3>5. /\ Len(sent) = Len(s.sent) - 1 /\ Len(replies) = Len(s.replies) + 1
          /\ \A i \in 1 .. Len(s.replies) : replies[i] = s.replies[i]
          /\ replies[Len(s.replies) + 1] = reply
          /\ \A i \in 1 .. Len(sent) : sent[i] = s.sent[i + 1]
      BY <1>4, <1>5 DEF sent, replies
    <3>6. /\ Len(sent) = l - 1 /\ Len(replies) = a + 1
          /\ \A i \in 1 .. Len(sent) : sent[i] = s.sent[i + 1]
          /\ \A i \in 1 .. l : s.sent[i] = s.pipeline[a + i]
      BY <3>1, <3>5
    <3>7. /\ p = Len(replies) + Len(sent)
          /\ \A i \in 1 .. Len(sent) : sent[i] = s.pipeline[Len(replies) + i]
      <4> HIDE DEF a, l, p
      <4>1. p = Len(replies) + Len(sent)
        BY <3>0, <3>6
      <4>2. ASSUME NEW i \in 1 .. Len(sent)
            PROVE  sent[i] = s.pipeline[Len(replies) + i]
        <5>1. i + 1 \in 1 .. l /\ a + (i + 1) = Len(replies) + i
          BY <3>0, <3>6
        <5> QED
          BY <5>1, <3>6
      <4> QED
        BY <4>1, <4>2
    <3>8. \A i \in 1 .. Len(replies) :
              replies[i] = "ack" \/ (replies[i] = "refused" /\ i = Len(replies))
      <4> SUFFICES ASSUME NEW i \in 1 .. Len(replies)
                   PROVE  replies[i] = "ack" \/ (replies[i] = "refused" /\ i = Len(replies))
        OBVIOUS
      <4>1. CASE i = Len(replies)
        BY <4>1, <3>4, <3>5
      <4>2. CASE i # Len(replies)
        <5>1. i \in 1 .. Len(s.replies)
          BY <4>2, <3>5, <1>3
        <5> QED
          BY <5>1, <3>1, <3>5, <1>8
      <4> QED
        BY <4>1, <4>2
    <3> QED
      BY <3>7, <3>8, <2>2, <1>7, <1>9 DEF Wire, IsOpen
  <2> QED
    BY <2>1, <2>2, <1>3
<1>11. StreamInv(t, q, worker) /\ Busy(t) /\ (IsOpen(t) => t.token = current_user)
  <2>1. Serves(t, q)
    BY <1>1, <1>9 DEF Serves
  <2>2. Calm(t) /\ Busy(t) /\ (IsOpen(t) => t.token = current_user)
    BY <1>1, <1>9 DEF Calm, Busy, IsOpen, IsStarted, TokenInv
  <2>3. Counted(t, worker)
    BY <1>1, <1>9 DEF Counted
  <2> QED
    BY <2>1, <2>2, <2>3, <1>9, <1>10 DEF StreamInv
<1> QED
  BY <1>6, <1>11, StreamStep DEF BackendReads

\* The handshake is complete: the whole pipeline is sent.
LEMMA HandshakeKeeps ==
    ASSUME PipelineInv, OnWriteStreamHandshakeComplete
    PROVE  PipelineInv'
<1> DEFINE s == stream
           q == queue[current_user]
           t == stream'
<1>1. /\ s \in Stream /\ Serves(s, q) /\ Wire(s) /\ Calm(s) /\ Counted(s, worker) /\ Busy(s)
      /\ TypeOK /\ TokenInv
  BY InvFacts DEF StreamInv
<1>2. /\ s.replies # << >> /\ Head(s.replies) = "handshake"
      /\ t = Sent([s EXCEPT !.handshake = TRUE, !.replies = Tail(@)], s.pipeline)
  BY DEF OnWriteStreamHandshakeComplete, Reply
<1>3. /\ s.sent \in Seq(Batch \union {Handshake}) /\ s.pipeline \in Seq(Batch)
      /\ s.replies \in Seq({"handshake", "ack", "refused"})
      /\ Len(s.pipeline) \in Nat /\ Len(s.replies) \in Nat /\ Len(s.replies) >= 1
      /\ s.replies[1] = "handshake"
  BY <1>1, <1>2, StreamFields, EmptySeq
<1>4. IsOpen(s) /\ ~s.handshake
  <2>1. IsOpen(s)
    BY <1>1, <1>2 DEF Wire
  <2>2. ASSUME s.handshake PROVE FALSE
    <3>1. 1 \in 1 .. Len(s.replies)
      BY <1>3
    <3>2. s.replies[1] = "ack" \/ s.replies[1] = "refused"
      BY <3>1, <2>2, <1>1 DEF Wire
    <3> QED
      BY <3>2, <1>3
  <2> QED
    BY <2>1, <2>2
<1>5. s.pipeline # << >> /\ Greeting(s.sent, s.replies)
  BY <1>1, <1>4 DEF Wire
<1>6. s.sent = << >> /\ s.replies = <<"handshake">>
  BY <1>2, <1>5 DEF Greeting
<1>7. /\ << >> \in Seq({"handshake", "ack", "refused"}) /\ Len(<< >>) = 0
      /\ Tail(s.replies) = << >> /\ s.sent \o s.pipeline = s.pipeline
      /\ s.pipeline \in Seq(Batch \union {Handshake})
  BY <1>3, <1>6, EmptySeq, ConcatEmptySeq, SeqMonotonic
<1> DEFINE u == [s EXCEPT !.handshake = TRUE, !.replies = Tail(@)]
<1>8. /\ u \in Stream /\ u.state = s.state /\ u.handshake = TRUE /\ u.token = s.token
      /\ u.close_count = s.close_count /\ u.requests = s.requests
      /\ u.pipeline = s.pipeline /\ u.sent = s.sent /\ u.replies = << >>
  BY <1>1, <1>7 DEF Stream
<1>9. t = [u EXCEPT !.sent = @ \o s.pipeline, !.idle = FALSE]
  BY <1>2, <1>5 DEF Sent
<1> HIDE DEF u
<1>10. /\ t \in Stream /\ t.state = s.state /\ t.handshake = TRUE /\ t.token = s.token
       /\ t.close_count = s.close_count /\ t.requests = s.requests /\ t.idle = FALSE
       /\ t.pipeline = s.pipeline /\ t.sent = s.pipeline /\ t.replies = << >>
  BY <1>7, <1>8, <1>9 DEF Stream
<1> HIDE DEF t
<1>11. Wire(t)
  BY <1>3, <1>4, <1>7, <1>10 DEF Wire, IsOpen
<1>12. Serves(t, q)
  BY <1>1, <1>10 DEF Serves
<1>13. Calm(t) /\ Busy(t) /\ (IsOpen(t) => t.token = current_user)
  BY <1>1, <1>10 DEF Calm, Busy, IsOpen, IsStarted, TokenInv
<1>14. Counted(t, worker)
  BY <1>1, <1>10 DEF Counted
<1>15. doc' \in [User -> {0} \union Write]
  BY <1>1 DEF TypeOK, OnWriteStreamHandshakeComplete, outside
<1> QED
  BY <1>10, <1>11, <1>12, <1>13, <1>14, <1>15, StreamStep
  DEF StreamInv, OnWriteStreamHandshakeComplete, outside, t

\* The stream breaks, and backs off if it has something to send.
LEMMA StreamCloseKeeps ==
    ASSUME PipelineInv, OnWriteStreamClose
    PROVE  PipelineInv'
<1> DEFINE t == Close(stream, "Error")
<1>1. stream' = StartIfNeeded(t)
  BY DEF OnWriteStreamClose
<1>2. StreamInv(t, queue[current_user], worker) /\ ~IsOpen(t)
  BY InvFacts, CloseKeeps DEF StreamInv
<1> HIDE DEF t
<1>3. StreamInv(stream', queue[current_user], worker) /\ Busy(stream') /\ ~IsOpen(stream')
  BY <1>1, <1>2, StartKeeps
<1>4. doc' \in [User -> {0} \union Write]
  BY InvFacts, GivenUpStores DEF OnWriteStreamClose
<1> QED
  BY <1>3, <1>4, StreamStep DEF OnWriteStreamClose

\* The backoff is over: the token is asked for.
LEMMA BackoffKeeps ==
    ASSUME PipelineInv, BackoffElapsed
    PROVE  PipelineInv'
<1> DEFINE u == [stream EXCEPT !.state = "Initial"]
           q == queue[current_user]
<1>1. stream.state = "Backoff" /\ stream' = Start(u)
  BY DEF BackoffElapsed
<1>2. /\ stream \in Stream /\ Serves(stream, q) /\ Wire(stream) /\ Calm(stream)
      /\ Counted(stream, worker) /\ TypeOK
  BY InvFacts DEF StreamInv
<1>3. ~IsOpen(stream) /\ stream.pipeline # << >> /\ ~stream.idle
  BY <1>1, <1>2 DEF IsOpen, Calm
<1>4. /\ u \in Stream /\ u.state = "Initial"
      /\ u.handshake = stream.handshake /\ u.idle = stream.idle
      /\ u.close_count = stream.close_count /\ u.requests = stream.requests
      /\ u.pipeline = stream.pipeline /\ u.sent = stream.sent /\ u.replies = stream.replies
  BY <1>2 DEF Stream
<1> HIDE DEF u
<1>5. Serves(u, q)
  BY <1>2, <1>4 DEF Serves
<1>6. Wire(u) /\ Calm(u)
  BY <1>2, <1>3, <1>4 DEF Wire, Calm, IsOpen
<1>7. Counted(u, worker)
  BY <1>1, <1>2, <1>4 DEF Counted
<1>8. StreamInv(u, q, worker)
  BY <1>4, <1>5, <1>6, <1>7 DEF StreamInv
<1>9. stream' = StartIfNeeded(u)
  BY <1>1, <1>3, <1>4 DEF StartIfNeeded, IsStarted
<1>10. StreamInv(stream', q, worker) /\ Busy(stream') /\ ~IsOpen(stream')
  <2>1. ~IsOpen(u)
    BY <1>4 DEF IsOpen
  <2> QED
    BY <1>8, <1>9, <2>1, StartKeeps
<1>11. doc' \in [User -> {0} \union Write]
  BY <1>2 DEF TypeOK, BackoffElapsed, outside
<1> QED
  BY <1>10, <1>11, StreamStep DEF BackoffElapsed, outside

\* The stream was idle for too long.
LEMMA IdleKeeps ==
    ASSUME PipelineInv, IdleTimeout
    PROVE  PipelineInv'
<1>1. stream.idle /\ stream' = Stop(stream)
  BY DEF IdleTimeout
<1>2. StreamInv(stream', queue[current_user], worker) /\ ~IsOpen(stream')
      /\ stream'.pipeline = stream.pipeline
  BY <1>1, InvFacts, StopKeeps
<1>3. Busy(stream')
  BY <1>1, <1>2, InvFacts DEF StreamInv, Calm, Busy
<1>4. doc' \in [User -> {0} \union Write]
  BY InvFacts, GivenUpStores DEF IdleTimeout
<1> QED
  BY <1>2, <1>3, <1>4, StreamStep DEF IdleTimeout

\* The network changes under the stream.
LEMMA ConnectivityKeeps ==
    ASSUME PipelineInv, ConnectivityChanged
    PROVE  PipelineInv'
<1>1. stream' = RestartNetwork(stream, queue[current_user])
  BY DEF ConnectivityChanged
<1>2. StreamInv(stream', queue[current_user], worker) /\ Busy(stream') /\ ~IsOpen(stream')
  BY <1>1, InvFacts, RestartKeeps
<1>3. doc' \in [User -> {0} \union Write]
  BY InvFacts, GivenUpStores DEF ConnectivityChanged
<1> QED
  BY <1>2, <1>3, StreamStep DEF ConnectivityChanged

\* The app makes a write, of the account that is signed in.
LEMMA AppWritesKeeps ==
    ASSUME PipelineInv, NEW bad \in BOOLEAN, AppWrites(bad)
    PROVE  PipelineInv'
<1> DEFINE n == Len(made) + 1
           t == WriteTask(n)
           w == [by |-> auth, bad |-> bad]
           S == [by : Account, bad : BOOLEAN]
<1>1. /\ auth \in Account /\ Len(made) < MaxWrites
      /\ made' = Append(made, w) /\ worker' = Append(worker, t)
      /\ UNCHANGED <<current_user, queue, next_batch_id, callbacks, stream>>
      /\ UNCHANGED <<auth, doc, decided, told>>
  BY DEF AppWrites, device
<1>2. TypeOK /\ QueueInv /\ TaskInv /\ CallbackInv /\ UserInv /\ TokenInv
      /\ StreamInv(stream, queue[current_user], worker) /\ Busy(stream)
  BY InvFacts
<1>3. Len(made) \in Nat /\ MaxWrites \in Nat /\ n \in Write /\ made \in Seq(S) /\ w \in S
  BY <1>1, <1>2, TypeFacts, PipelineAssumption DEF Write, TypeOK
<1>4. t \in Task /\ t.type = "write" /\ t.n = n
  BY <1>3 DEF Task, WriteTask
<1> HIDE DEF t, w, S
<1>5. /\ made' \in Seq(S) /\ Len(made') = n /\ \A i \in 1 .. Len(made) : made'[i] = made[i]
      /\ made'[n] = w
  BY <1>1, <1>3, AppendProperties
<1>6. /\ worker' \in Seq(Task) /\ Len(worker) \in Nat /\ Len(worker') = Len(worker) + 1
      /\ \A i \in 1 .. Len(worker) : worker'[i] = worker[i] /\ worker[i] \in Task
      /\ worker'[Len(worker) + 1] = t
  BY <1>1, <1>2, <1>4, TypeFacts, AppendProperties
<1>7. TypeOK'
  <2>1. Len(made') <= MaxWrites
    BY <1>1, <1>3, <1>5
  <2> QED
    BY <1>1, <1>2, <1>5, <1>6, <2>1 DEF TypeOK, S
<1>8. QueueInv'
  <2> SUFFICES ASSUME NEW u \in User
               PROVE  /\ Ordered(queue[u])
                      /\ \A i \in 1 .. Len(queue[u]) :
                             /\ queue[u][i].id < next_batch_id
                             /\ queue[u][i].n <= n /\ made'[queue[u][i].n].by = u
    BY <1>1, <1>5 DEF QueueInv, Ordered
  <2>1. ASSUME NEW i \in 1 .. Len(queue[u])
        PROVE  /\ queue[u][i].id < next_batch_id
               /\ queue[u][i].n <= n /\ made'[queue[u][i].n].by = u
    <3>1. /\ queue[u][i].id < next_batch_id /\ queue[u][i].n <= Len(made)
          /\ made[queue[u][i].n].by = u
      BY <1>2 DEF QueueInv
    <3>2. queue[u][i].n \in Nat /\ queue[u][i].n > 0
      BY <1>2, TypeFacts
    <3>3. queue[u][i].n \in 1 .. Len(made) /\ queue[u][i].n <= n
      BY <3>1, <3>2, <1>3
    <3> QED
      BY <3>1, <3>3, <1>5
  <2>2. Ordered(queue[u])
    BY <1>2 DEF QueueInv
  <2> QED
    BY <2>1, <2>2
<1>9. TaskInv'
  <2> SUFFICES ASSUME NEW i \in 1 .. Len(worker'), worker'[i].type = "write"
               PROVE  /\ worker'[i].n <= n
                      /\ \A j \in 1 .. Len(worker') :
                            j < i /\ worker'[j].type = "write" => worker'[j].n < worker'[i].n
                      /\ \A u \in User : \A j \in 1 .. Len(queue[u]) : queue[u][j].n < worker'[i].n
    BY <1>1, <1>5 DEF TaskInv
  <2>1. \A j \in 1 .. Len(worker) : worker[j].type = "write" =>
            worker'[j] = worker[j] /\ worker[j].n \in Nat /\ worker[j].n <= Len(made)
    BY <1>2, <1>6, TaskFields DEF TaskInv
  <2>2. CASE i = Len(worker) + 1
    <3>1. worker'[i].n = n
      BY <2>2, <1>4, <1>6
    <3>2. \A j \in 1 .. Len(worker') : j < i => j \in 1 .. Len(worker)
      BY <2>2, <1>6
    <3>3. \A u \in User : \A j \in 1 .. Len(queue[u]) : queue[u][j].n < n
      <4> SUFFICES ASSUME NEW u \in User, NEW j \in 1 .. Len(queue[u])
                   PROVE  queue[u][j].n < n
        OBVIOUS
      <4>1. queue[u][j].n <= Len(made) /\ queue[u][j].n \in Nat
        BY <1>2, TypeFacts DEF QueueInv
      <4> QED
        BY <4>1, <1>3
    <3>4. \A j \in 1 .. Len(worker) : worker[j].type = "write" => worker[j].n < n
      BY <2>1, <1>3
    <3> QED
      BY <3>1, <3>2, <3>3, <3>4, <2>1, <1>3, <1>6
  <2>3. CASE i \in 1 .. Len(worker)
    <3>1. worker'[i] = worker[i] /\ worker[i].type = "write"
      BY <2>3, <1>6
    <3>2. \A j \in 1 .. Len(worker') : j < i => j \in 1 .. Len(worker) /\ worker'[j] = worker[j]
      BY <2>3, <1>6
    <3>3. worker[i].n <= n
      BY <2>1, <2>3, <3>1, <1>3
    <3> QED
      BY <3>1, <3>2, <3>3, <2>3, <1>2 DEF TaskInv
  <2> QED
    BY <2>2, <2>3, <1>6
<1>10. CallbackInv'
  BY <1>1, <1>2 DEF CallbackInv
<1>11. UserInv'
  <2>1. auth \in User /\ w.by = auth
    BY <1>1 DEF User, w
  <2>2. \A i \in 1 .. Len(made) : made'[i].by = made[i].by
    BY <1>5
  <2> QED
    BY <1>1, <1>2, <1>4, <1>5, <2>1, <2>2, UserInvAppend
<1>12. StreamInv(stream, queue[current_user], worker)'
  <2>1. StreamInv(stream, queue[current_user], Append(worker, t))
    BY <1>2, <1>4, TypeFacts, TasksCounted
  <2> QED
    BY <1>1, <2>1 DEF StreamInv, Serves, Wire, Calm, Counted, IsOpen
<1>13. TokenInv' /\ Busy(stream)'
  BY <1>1, <1>2 DEF TokenInv, Busy, IsOpen, IsStarted
<1> QED
  BY <1>7, <1>8, <1>9, <1>10, <1>11, <1>12, <1>13 DEF PipelineInv

\* A task is added that is not a write: the writes keep their order.
LEMMA TaskInvAppend ==
    ASSUME TypeOK, TaskInv, NEW t \in Task, t.type # "write", worker' = Append(worker, t),
           UNCHANGED <<queue, made>>
    PROVE  worker' \in Seq(Task) /\ TaskInv'
<1>1. /\ worker' \in Seq(Task) /\ Len(worker) \in Nat /\ Len(worker') = Len(worker) + 1
      /\ \A i \in 1 .. Len(worker) : worker'[i] = worker[i]
      /\ worker'[Len(worker) + 1] = t
  BY TypeFacts, AppendProperties
<1>2. \A i \in 1 .. Len(worker') : worker'[i].type = "write" =>
          i \in 1 .. Len(worker) /\ worker'[i] = worker[i]
  BY <1>1
<1> QED
  BY <1>1, <1>2 DEF TaskInv

\* Auth queues a change of account.
LEMMA AuthKeeps ==
    ASSUME PipelineInv, NEW u \in User, AuthStateDidChange(u)
    PROVE  PipelineInv'
<1> DEFINE t == CredentialTask(u)
<1>1. /\ auth' = u /\ worker' = Append(worker, t)
      /\ UNCHANGED <<current_user, queue, next_batch_id, callbacks, stream>>
      /\ UNCHANGED <<made, doc, decided, told>>
  BY DEF AuthStateDidChange, device
<1>2. TypeOK /\ QueueInv /\ TaskInv /\ CallbackInv /\ UserInv /\ TokenInv
      /\ StreamInv(stream, queue[current_user], worker) /\ Busy(stream)
  BY InvFacts
<1>3. t \in Task /\ t.type = "credential" /\ t.user = u
  BY DEF Task, CredentialTask
<1> HIDE DEF t
<1>4. worker' \in Seq(Task) /\ TaskInv'
  BY <1>1, <1>2, <1>3, TaskInvAppend
<1>5. TypeOK'
  BY <1>1, <1>2, <1>4 DEF TypeOK
<1>6. QueueInv' /\ CallbackInv'
  BY <1>1, <1>2 DEF QueueInv, CallbackInv, Ordered
<1>7. UserInv'
  BY <1>1, <1>2, <1>3, UserInvAppend
<1>8. StreamInv(stream, queue[current_user], worker)'
  <2>1. StreamInv(stream, queue[current_user], Append(worker, t))
    BY <1>2, <1>3, TypeFacts, TasksCounted
  <2> QED
    BY <1>1, <2>1 DEF StreamInv, Serves, Wire, Calm, Counted, IsOpen
<1>9. TokenInv' /\ Busy(stream)'
  BY <1>1, <1>2 DEF TokenInv, Busy, IsOpen, IsStarted
<1> QED
  BY <1>4, <1>5, <1>6, <1>7, <1>8, <1>9 DEF PipelineInv

\* A token request is answered, with a token of whoever is signed in or none.
LEMMA TokenKeeps ==
    ASSUME PipelineInv, NEW c \in stream.requests, NEW token \in {auth, NoToken},
           stream' = [stream EXCEPT !.requests = @ \ {c}],
           worker' = Append(worker, ResumeTask(c, token)),
           UNCHANGED <<current_user, queue, next_batch_id, callbacks>>,
           UNCHANGED <<auth, made, doc, decided, told>>
    PROVE  PipelineInv'
<1> DEFINE t == ResumeTask(c, token)
           s == stream'
           l == Len(worker)
           q == queue[current_user]
<1>1. /\ TypeOK /\ QueueInv /\ TaskInv /\ CallbackInv /\ UserInv /\ TokenInv
      /\ stream \in Stream /\ Serves(stream, q) /\ Wire(stream) /\ Calm(stream)
      /\ Counted(stream, worker) /\ Busy(stream)
  BY InvFacts DEF StreamInv
<1>2. stream.requests \in SUBSET Nat /\ stream.close_count \in Nat /\ c \in Nat
  BY <1>1, StreamFields
<1>3. /\ t \in Task /\ t.type = "resume" /\ t.close_count = c /\ t.token = token
  BY <1>1, <1>2, TypeFacts DEF Task, ResumeTask
<1> HIDE DEF t
<1>4. worker' \in Seq(Task) /\ TaskInv'
  BY <1>1, <1>3, TaskInvAppend DEF t
<1>5. /\ s \in Stream /\ s.state = stream.state /\ s.idle = stream.idle
      /\ s.handshake = stream.handshake /\ s.token = stream.token
      /\ s.close_count = stream.close_count /\ s.requests = stream.requests \ {c}
      /\ s.pipeline = stream.pipeline /\ s.sent = stream.sent /\ s.replies = stream.replies
  BY <1>1, <1>2 DEF Stream
<1>6. TypeOK'
  BY <1>1, <1>4, <1>5 DEF TypeOK
<1>7. QueueInv' /\ CallbackInv'
  BY <1>1 DEF QueueInv, CallbackInv, Ordered
<1>8. UserInv'
  BY <1>1, <1>3, TypeFacts, UserInvAppend DEF t
<1>9. Serves(s, q) /\ Wire(s)
  BY <1>1, <1>5, SameWire DEF Serves
<1>10. Calm(s) /\ Busy(s) /\ (IsOpen(s) => s.token = current_user)
  BY <1>1, <1>5 DEF Calm, Busy, IsOpen, IsStarted, TokenInv
<1>11. Counted(s, worker')
  <2>1. /\ l \in Nat /\ Len(worker') = l + 1 /\ \A i \in 1 .. l : worker'[i] = worker[i]
        /\ worker'[l + 1] = t
    BY <1>1, <1>3, TypeFacts, AppendProperties DEF t
  <2> HIDE DEF s, l
  <2>2. \A i \in 1 .. Len(worker') : (i \in 1 .. l /\ worker'[i] = worker[i]) \/ i = l + 1
    BY <2>1
  <2>3. c <= s.close_count /\ (c = s.close_count => s.state = "Starting")
    BY <1>1, <1>5 DEF Counted
  <2>4. c = s.close_count => s.close_count \notin s.requests
    BY <1>5
  <2>5. ASSUME NEW i \in 1 .. l, worker[i].type = "resume"
        PROVE  /\ worker[i].close_count <= s.close_count
               /\ worker[i].close_count = s.close_count =>
                      s.state = "Starting" /\ s.close_count \notin s.requests
               /\ worker[i].close_count = s.close_count => c # s.close_count
    BY <1>1, <1>5, <2>5 DEF Counted, l
  <2>6. ASSUME NEW i \in 1 .. Len(worker'), worker'[i].type = "resume"
        PROVE  /\ worker'[i].close_count <= s.close_count
               /\ worker'[i].close_count = s.close_count =>
                      s.state = "Starting" /\ s.close_count \notin s.requests
    BY <2>1, <2>2, <2>3, <2>4, <2>5, <2>6, <1>3
  <2>7. ASSUME NEW i \in 1 .. Len(worker'), NEW j \in 1 .. Len(worker'),
               worker'[i].type = "resume", worker'[j].type = "resume",
               worker'[i].close_count = s.close_count, worker'[j].close_count = s.close_count
        PROVE  i = j
    <3>1. CASE i \in 1 .. l /\ j \in 1 .. l
      BY <3>1, <2>1, <2>7, <1>1, <1>5 DEF Counted, l
    <3>2. CASE i = l + 1 /\ j \in 1 .. l
      BY <3>2, <2>1, <2>5, <2>7, <1>3
    <3>3. CASE j = l + 1 /\ i \in 1 .. l
      BY <3>3, <2>1, <2>5, <2>7, <1>3
    <3> QED
      BY <3>1, <3>2, <3>3, <2>2
  <2>8. \A d \in s.requests : d <= s.close_count /\ (d = s.close_count => s.state = "Starting")
    BY <1>1, <1>5 DEF Counted
  <2> QED
    BY <2>6, <2>7, <2>8 DEF Counted
<1> QED
  <2>1. StreamInv(stream, queue[current_user], worker)'
    <3>1. Serves(stream, queue[current_user])' /\ Wire(stream)'
      BY <1>9 DEF Serves, Wire, IsOpen
    <3>2. Calm(stream)'
      BY <1>10 DEF Calm, IsOpen
    <3>3. Counted(stream, worker)'
      BY <1>11 DEF Counted
    <3> QED
      BY <3>1, <3>2, <3>3, <1>5 DEF StreamInv
  <2>2. TokenInv' /\ Busy(stream)'
    BY <1>10 DEF TokenInv, Busy, IsOpen, IsStarted
  <2> QED
    BY <1>4, <1>6, <1>7, <1>8, <2>1, <2>2 DEF PipelineInv

\* The part of the invariant about the stream, in the next state.
LEMMA StreamInvNext ==
    ASSUME StreamInv(stream', queue'[current_user'], worker'), Busy(stream'),
           IsOpen(stream') => stream'.token = current_user'
    PROVE  /\ StreamInv(stream, queue[current_user], worker)'
           /\ Busy(stream)' /\ TokenInv'
<1>1. Serves(stream, queue[current_user])' /\ Wire(stream)' /\ Calm(stream)'
  BY DEF StreamInv, Serves, Wire, Calm, IsOpen
<1>2. Counted(stream, worker)'
  BY DEF StreamInv, Counted
<1>3. StreamInv(stream, queue[current_user], worker)'
  BY <1>1, <1>2 DEF StreamInv
<1>4. Busy(stream)' /\ TokenInv'
  BY DEF TokenInv, Busy, IsOpen, IsStarted
<1> QED
  BY <1>3, <1>4

\* The head of the worker queue is taken: the writes keep their order.
LEMMA TaskInvTail ==
    ASSUME TypeOK, TaskInv, worker # << >>, worker' = Tail(worker), UNCHANGED <<queue, made>>
    PROVE  worker' \in Seq(Task) /\ TaskInv'
<1>1. /\ worker' \in Seq(Task) /\ Len(worker) \in Nat /\ Len(worker') = Len(worker) - 1
      /\ \A i \in 1 .. Len(worker') : worker'[i] = worker[i + 1]
  BY TypeFacts, HeadTailProperties
<1>2. \A i \in 1 .. Len(worker') : i + 1 \in 1 .. Len(worker)
  BY <1>1
<1>3. \A i, j \in 1 .. Len(worker') : j < i => j + 1 < i + 1
  BY <1>1
<1> QED
  BY <1>1, <1>2, <1>3 DEF TaskInv

\* A token comes to the worker queue.  If its close count is the stream's, the
\* stream is Starting; it opens with a token of the current user, or closes.
LEMMA RunResumeKeeps ==
    ASSUME PipelineInv, RunResume
    PROVE  PipelineInv'
<1> DEFINE task == Head(worker)
           q    == queue[current_user]
           w    == Tail(worker)
           t    == stream'
<1>1. /\ worker # << >> /\ task.type = "resume" /\ worker' = w
      /\ t = IF task.close_count # stream.close_count THEN stream
             ELSE IF task.token = NoToken THEN StartIfNeeded(Close(stream, "Error"))
             ELSE Sent([stream EXCEPT !.state = "Open", !.token = task.token], <<Handshake>>)
      /\ UNCHANGED <<current_user, queue, next_batch_id, callbacks>>
      /\ UNCHANGED <<auth, made, doc, decided, told>>
  BY DEF RunResume, NextTask, outside
<1>2. /\ TypeOK /\ QueueInv /\ TaskInv /\ CallbackInv /\ UserInv /\ TokenInv
      /\ stream \in Stream /\ StreamInv(stream, q, worker) /\ Busy(stream)
      /\ worker \in Seq(Task)
  BY InvFacts
<1>3. /\ task = worker[1] /\ 1 \in 1 .. Len(worker) /\ task.token \in {current_user, NoToken}
      /\ Len(worker) \in Nat
  BY <1>1, <1>2, HeadIsOfCurrentUser, TypeFacts
<1>4. StreamInv(stream, q, w) /\ w \in Seq(Task)
  BY <1>1, <1>2, TasksCounted, HeadTailProperties
<1> HIDE DEF t
<1>5. StreamInv(t, q, w) /\ Busy(t) /\ (IsOpen(t) => t.token = current_user)
  <2>1. CASE task.close_count # stream.close_count
    BY <2>1, <1>1, <1>2, <1>4 DEF TokenInv
  <2>2. CASE task.close_count = stream.close_count /\ task.token = NoToken
    <3>1. t = StartIfNeeded(Close(stream, "Error"))
      BY <2>2, <1>1
    <3>2. StreamInv(Close(stream, "Error"), q, w) /\ ~IsOpen(Close(stream, "Error"))
      BY <1>4, CloseKeeps DEF StreamInv
    <3> QED
      BY <3>1, <3>2, StartKeeps
  <2>3. CASE task.close_count = stream.close_count /\ task.token # NoToken
    <3>1. /\ stream.state = "Starting" /\ stream.close_count \notin stream.requests
          /\ task.token = current_user /\ current_user \in User
      BY <2>3, <1>1, <1>2, <1>3, TypeFacts DEF StreamInv, Counted
    <3>2. /\ Serves(stream, q) /\ Wire(stream) /\ Calm(stream) /\ Counted(stream, worker)
      BY <1>2 DEF StreamInv
    <3>3. /\ ~IsOpen(stream) /\ stream.pipeline # << >> /\ stream.sent = << >>
          /\ stream.replies = << >> /\ ~stream.handshake /\ stream.handshake \in BOOLEAN
      BY <3>1, <3>2, <1>2, StreamFields DEF IsOpen, Wire, Calm
    <3>4. stream.sent \o <<Handshake>> = <<Handshake>>
          /\ <<Handshake>> \in Seq(Batch \union {Handshake})
      BY <3>3
    <3> DEFINE u == [stream EXCEPT !.state = "Open", !.token = task.token]
    <3>5. /\ u \in Stream /\ u.state = "Open" /\ u.token = current_user
          /\ u.handshake = stream.handshake
          /\ u.close_count = stream.close_count /\ u.requests = stream.requests
          /\ u.pipeline = stream.pipeline /\ u.sent = << >> /\ u.replies = << >>
      BY <3>1, <3>3, <1>2 DEF Stream
    <3>6. t = [u EXCEPT !.sent = @ \o <<Handshake>>, !.idle = FALSE]
      BY <2>3, <1>1 DEF Sent
    <3> HIDE DEF u
    <3>7. /\ t \in Stream /\ t.state = "Open" /\ t.token = current_user /\ t.idle = FALSE
          /\ t.handshake = stream.handshake
          /\ t.close_count = stream.close_count /\ t.requests = stream.requests
          /\ t.pipeline = stream.pipeline /\ t.sent = <<Handshake>> /\ t.replies = << >>
      BY <3>3, <3>4, <3>5, <3>6 DEF Stream
    <3>8. Greeting(t.sent, t.replies)
      BY <3>7 DEF Greeting
    <3>9. Wire(t)
      BY <3>3, <3>7, <3>8 DEF Wire, IsOpen
    <3>10. Serves(t, q)
      BY <3>2, <3>7 DEF Serves
    <3>11. Calm(t) /\ Busy(t)
      BY <3>7 DEF Calm, Busy, IsOpen, IsStarted
    <3>12. Counted(t, w)
      <4>1. \A i \in 1 .. Len(w) : w[i].type = "resume" =>
                w[i].close_count <= t.close_count /\ w[i].close_count # t.close_count
        <5> SUFFICES ASSUME NEW i \in 1 .. Len(w), w[i].type = "resume"
                     PROVE  w[i].close_count <= t.close_count /\ w[i].close_count # t.close_count
          OBVIOUS
        <5>1. w[i] = worker[i + 1] /\ i + 1 \in 1 .. Len(worker) /\ i + 1 # 1
          BY <1>1, <1>2, <1>3, HeadTailProperties
        <5>2. worker[i + 1].close_count <= stream.close_count
          BY <5>1, <3>2 DEF Counted
        <5>3. worker[i + 1].close_count # stream.close_count
          BY <5>1, <3>2, <2>3, <1>1, <1>3 DEF Counted
        <5> QED
          BY <5>1, <5>2, <5>3, <3>7
      <4>2. \A c \in t.requests : c <= t.close_count /\ c # t.close_count
        BY <3>1, <3>2, <3>7 DEF Counted
      <4> QED
        BY <4>1, <4>2 DEF Counted
    <3> QED
      BY <3>7, <3>9, <3>10, <3>11, <3>12 DEF StreamInv
  <2> QED
    BY <2>1, <2>2, <2>3
<1>6. worker' \in Seq(Task) /\ TaskInv'
  BY <1>1, <1>2, TaskInvTail
<1>7. t \in Stream
  BY <1>5 DEF StreamInv
<1>8. TypeOK'
  BY <1>1, <1>2, <1>6, <1>7 DEF TypeOK, t
<1>9. QueueInv' /\ CallbackInv'
  BY <1>1, <1>2 DEF QueueInv, CallbackInv, Ordered
<1>10. UserInv'
  BY <1>1, <1>2, UserInvTail
<1>11. StreamInv(stream, queue[current_user], worker)' /\ Busy(stream)' /\ TokenInv'
  BY <1>1, <1>5, StreamInvNext DEF t
<1> QED
  BY <1>6, <1>8, <1>9, <1>10, <1>11 DEF PipelineInv

\* The SDK goes over to the mutation queue of another user, or to a new token
\* of the same one.
LEMMA RunCredentialKeeps ==
    ASSUME PipelineInv, RunCredential
    PROVE  PipelineInv'
<1> DEFINE user == Head(worker).user
           w    == Tail(worker)
<1>1. /\ worker # << >> /\ Head(worker).type = "credential" /\ worker' = w
      /\ current_user' = user
      /\ next_batch_id' = (IF user = current_user THEN next_batch_id ELSE NextBatchIdFromDb)
      /\ stream' = RestartNetwork(stream, queue[user])
      /\ UNCHANGED <<queue, callbacks>> /\ UNCHANGED <<auth, made, decided, told>> /\ GivenUp
  BY DEF RunCredential, NextTask
<1>2. /\ TypeOK /\ QueueInv /\ TaskInv /\ CallbackInv /\ UserInv
      /\ StreamInv(stream, queue[current_user], worker) /\ worker \in Seq(Task)
  BY InvFacts
<1>3. user \in User /\ queue[user] \in Seq(Batch) /\ Ordered(queue[user])
  <2>1. user \in User
    BY <1>1, <1>2, HeadIsOfCurrentUser, TaskFields
  <2> QED
    BY <1>2, <2>1, TypeFacts DEF QueueInv
<1>4. worker' \in Seq(Task) /\ TaskInv'
  BY <1>1, <1>2, TaskInvTail
<1> HIDE DEF user
<1>5. StreamInv(stream, queue[current_user], w) /\ w \in Seq(Task)
  BY <1>1, <1>2, <1>4, TasksCounted
<1>6. StreamInv(stream', queue[user], w) /\ Busy(stream') /\ ~IsOpen(stream')
  BY <1>1, <1>3, <1>5, RestartKeeps
<1>7. stream' \in Stream
  BY <1>6 DEF StreamInv
<1>8. doc' \in [User -> {0} \union Write]
  BY <1>1, <1>2, GivenUpStores
<1>9. /\ next_batch_id' \in Nat \ {0}
      /\ \A u \in User : \A i \in 1 .. Len(queue[u]) : queue[u][i].id < next_batch_id'
  BY <1>1, <1>2, NextIdIsFresh DEF TypeOK, QueueInv
<1>10. TypeOK'
  BY <1>1, <1>2, <1>3, <1>4, <1>7, <1>8, <1>9 DEF TypeOK
<1>11. QueueInv' /\ CallbackInv'
  BY <1>1, <1>2, <1>9 DEF QueueInv, CallbackInv, Ordered
<1>12. UserInv'
  BY <1>1, <1>2, UserInvTail DEF user
<1>13. StreamInv(stream, queue[current_user], worker)' /\ Busy(stream)' /\ TokenInv'
  BY <1>1, <1>6, StreamInvNext
<1> QED
  BY <1>4, <1>10, <1>11, <1>12, <1>13 DEF PipelineInv

\* A write is persisted, in the queue of the account that made it.
LEMMA RunWriteKeeps ==
    ASSUME PipelineInv, RunWrite
    PROVE  PipelineInv'
<1> DEFINE n     == Head(worker).n
           me    == current_user
           batch == [id |-> next_batch_id, n |-> n]
           q     == Append(queue[me], batch)
           w     == Tail(worker)
           l     == Len(queue[me])
<1>1. /\ worker # << >> /\ Head(worker).type = "write" /\ worker' = w
      /\ queue' = [queue EXCEPT ![me] = q]
      /\ callbacks' = [callbacks EXCEPT ![me] = @ \union {<<batch.id, batch.n>>}]
      /\ stream' = FillWritePipeline(stream, q)
      /\ next_batch_id' = next_batch_id + 1
      /\ UNCHANGED current_user /\ UNCHANGED <<auth, made, doc, decided, told>>
  BY DEF RunWrite, NextTask, outside
<1>2. /\ TypeOK /\ QueueInv /\ TaskInv /\ CallbackInv /\ UserInv /\ TokenInv
      /\ stream \in Stream /\ StreamInv(stream, queue[me], worker) /\ worker \in Seq(Task)
      /\ me \in User /\ queue[me] \in Seq(Batch) /\ Ordered(queue[me]) /\ l \in Nat
      /\ queue \in [User -> Seq(Batch)] /\ next_batch_id \in Nat \ {0}
      /\ callbacks \in [User -> SUBSET ((Nat \ {0}) \X Write)]
  BY InvFacts, TypeFacts DEF TypeOK
<1>3. /\ Head(worker) = worker[1] /\ 1 \in 1 .. Len(worker) /\ n \in Write /\ n \in Nat
      /\ made[n].by = me /\ n <= Len(made)
      /\ \A u \in User : \A j \in 1 .. Len(queue[u]) : queue[u][j].n < n
  BY <1>1, <1>2, HeadIsOfCurrentUser, TaskFields DEF TaskInv
<1>4. batch \in Batch /\ batch.id = next_batch_id /\ batch.n = n
  BY <1>2, <1>3 DEF Batch
<1> HIDE DEF n, batch, q, l
<1>5. /\ q \in Seq(Batch) /\ Len(q) = l + 1 /\ \A i \in 1 .. l : q[i] = queue[me][i]
      /\ q[l + 1] = batch
  BY <1>2, <1>4, AppendProperties DEF q, l
<1>6. \A i \in 1 .. l : /\ q[i].id \in Nat /\ q[i].id < next_batch_id
                        /\ q[i].n \in Nat /\ q[i].n < n /\ q[i].n <= Len(made)
                        /\ made[q[i].n].by = me
  <2> SUFFICES ASSUME NEW i \in 1 .. l
               PROVE  /\ q[i].id \in Nat /\ q[i].id < next_batch_id
                      /\ q[i].n \in Nat /\ q[i].n < n /\ q[i].n <= Len(made)
                      /\ made[q[i].n].by = me
    OBVIOUS
  <2>1. q[i] = queue[me][i] /\ i \in 1 .. Len(queue[me])
    BY <1>5 DEF l
  <2>2. queue[me][i].id \in Nat /\ queue[me][i].n \in Nat
    BY <2>1, <1>2, TypeFacts
  <2>3. /\ queue[me][i].id < next_batch_id /\ queue[me][i].n <= Len(made)
        /\ made[queue[me][i].n].by = me
    BY <2>1, <1>2 DEF QueueInv
  <2>4. queue[me][i].n < n
    BY <2>1, <1>2, <1>3
  <2> QED
    BY <2>1, <2>2, <2>3, <2>4
<1>7. Ordered(q)
  <2> SUFFICES ASSUME NEW i \in 1 .. Len(q), NEW j \in 1 .. Len(q), i < j
               PROVE  q[i].id < q[j].id /\ q[i].n < q[j].n
    BY DEF Ordered
  <2>1. i \in 1 .. l
    BY <1>2, <1>5
  <2>2. CASE j = l + 1
    BY <2>1, <2>2, <1>4, <1>5, <1>6
  <2>3. CASE j \in 1 .. l
    BY <2>1, <2>3, <1>2, <1>5 DEF Ordered, l
  <2> QED
    BY <2>2, <2>3, <1>2, <1>5
<1>8. StreamInv(stream, q, w)
  <2>1. StreamInv(stream, queue[me], w)
    BY <1>1, <1>2, TasksCounted
  <2>2. Len(stream.pipeline) \in Nat
    BY <1>2, StreamFields
  <2>3. Serves(stream, q)
    <3>1. Serves(stream, queue[me])
      BY <2>1 DEF StreamInv
    <3> QED
      BY <3>1, <2>2, <1>2, <1>5 DEF Serves, l
  <2> QED
    BY <2>1, <2>3 DEF StreamInv
<1>9. StreamInv(stream', q, w) /\ Busy(stream') /\ (IsOpen(stream') => stream'.token = me)
  BY <1>1, <1>2, <1>5, <1>7, <1>8, FillKeeps DEF TokenInv
<1>10. /\ queue' \in [User -> Seq(Batch)] /\ queue'[me] = q
       /\ \A u \in User : u # me => queue'[u] = queue[u]
  BY <1>1, <1>2, <1>5
<1>11. /\ worker' \in Seq(Task) /\ Len(worker) \in Nat /\ Len(worker') = Len(worker) - 1
       /\ \A i \in 1 .. Len(worker') : worker'[i] = worker[i + 1] /\ i + 1 \in 1 .. Len(worker)
  BY <1>1, <1>2, TypeFacts, HeadTailProperties
<1>12. TypeOK'
  <2>1. stream' \in Stream
    BY <1>9 DEF StreamInv
  <2>2. callbacks' \in [User -> SUBSET ((Nat \ {0}) \X Write)]
    BY <1>1, <1>2, <1>3, <1>4
  <2>3. next_batch_id' \in Nat \ {0}
    BY <1>1, <1>2
  <2> QED
    BY <2>1, <2>2, <2>3, <1>1, <1>2, <1>10, <1>11 DEF TypeOK
<1>13. QueueInv'
  <2> SUFFICES ASSUME NEW u \in User
               PROVE  /\ Ordered(queue'[u])
                      /\ \A i \in 1 .. Len(queue'[u]) :
                             /\ queue'[u][i].id < next_batch_id + 1
                             /\ queue'[u][i].n <= Len(made) /\ made[queue'[u][i].n].by = u
    BY <1>1 DEF QueueInv, Ordered
  <2>1. CASE u = me
    <3>1. ASSUME NEW i \in 1 .. Len(q)
          PROVE  q[i].id < next_batch_id + 1 /\ q[i].n <= Len(made) /\ made[q[i].n].by = u
      <4>1. CASE i = l + 1
        BY <4>1, <2>1, <1>2, <1>3, <1>4, <1>5
      <4>2. CASE i \in 1 .. l
        BY <4>2, <2>1, <1>2, <1>6
      <4> QED
        BY <4>1, <4>2, <1>2, <1>5
    <3> QED
      BY <2>1, <3>1, <1>7, <1>10
  <2>2. CASE u # me
    <3>1. ASSUME NEW i \in 1 .. Len(queue[u])
          PROVE  queue[u][i].id < next_batch_id + 1
      <4>1. queue[u][i].id < next_batch_id /\ queue[u][i].id \in Nat
        BY <1>2, TypeFacts DEF QueueInv
      <4> QED
        BY <4>1, <1>2
    <3> QED
      BY <3>1, <2>2, <1>2, <1>10 DEF QueueInv
  <2> QED
    BY <2>1, <2>2
<1>14. TaskInv'
  <2> SUFFICES ASSUME NEW i \in 1 .. Len(worker'), worker'[i].type = "write"
               PROVE  /\ worker'[i].n <= Len(made)
                      /\ \A j \in 1 .. Len(worker') :
                            j < i /\ worker'[j].type = "write" => worker'[j].n < worker'[i].n
                      /\ \A u \in User : \A j \in 1 .. Len(queue'[u]) : queue'[u][j].n < worker'[i].n
    BY <1>1 DEF TaskInv
  <2>1. worker'[i] = worker[i + 1] /\ i + 1 \in 1 .. Len(worker) /\ 1 < i + 1
    BY <1>11
  <2>2. /\ worker[i + 1].n <= Len(made)
        /\ \A j \in 1 .. Len(worker) :
              j < i + 1 /\ worker[j].type = "write" => worker[j].n < worker[i + 1].n
        /\ \A u \in User : \A j \in 1 .. Len(queue[u]) : queue[u][j].n < worker[i + 1].n
    BY <2>1, <1>2 DEF TaskInv
  <2>3. n < worker[i + 1].n
    BY <2>1, <2>2, <1>1, <1>3 DEF n
  <2>4. \A j \in 1 .. Len(worker') : j < i => j + 1 < i + 1
    BY <1>11
  <2>5. ASSUME NEW u \in User, NEW j \in 1 .. Len(queue'[u])
        PROVE  queue'[u][j].n < worker[i + 1].n
    <3>1. CASE u # me
      BY <3>1, <2>2, <1>10
    <3>2. CASE u = me /\ j = l + 1
      BY <3>2, <2>3, <1>4, <1>5, <1>10
    <3>3. CASE u = me /\ j \in 1 .. l
      BY <3>3, <2>2, <1>2, <1>5, <1>10 DEF l
    <3> QED
      BY <3>1, <3>2, <3>3, <1>2, <1>5, <1>10
  <2> QED
    BY <2>1, <2>2, <2>4, <2>5, <1>11
<1>15. CallbackInv'
  <2> SUFFICES ASSUME NEW u \in User, NEW c \in callbacks'[u]
               PROVE  \E i \in 1 .. Len(queue'[u]) : c = <<queue'[u][i].id, queue'[u][i].n>>
    BY DEF CallbackInv
  <2>1. CASE u # me
    BY <2>1, <1>1, <1>2, <1>10 DEF CallbackInv
  <2>2. CASE u = me /\ c = <<batch.id, batch.n>>
    <3>1. l + 1 \in 1 .. Len(q)
      BY <1>2, <1>5
    <3> QED
      BY <3>1, <2>2, <1>5, <1>10
  <2>3. CASE u = me /\ c \in callbacks[u]
    <3>1. PICK i \in 1 .. l : c = <<queue[me][i].id, queue[me][i].n>>
      BY <2>3, <1>2 DEF CallbackInv, l
    <3>2. i \in 1 .. Len(q) /\ q[i] = queue[me][i]
      BY <1>2, <1>5
    <3> QED
      BY <2>3, <3>1, <3>2, <1>10
  <2> QED
    BY <2>1, <2>2, <2>3, <1>1, <1>2
<1>16. UserInv'
  BY <1>1, <1>2, UserInvTail
<1>17. StreamInv(stream, queue[current_user], worker)' /\ Busy(stream)' /\ TokenInv'
  BY <1>1, <1>9, <1>10, StreamInvNext
<1> QED
  BY <1>12, <1>13, <1>14, <1>15, <1>16, <1>17 DEF PipelineInv

\* RemoveMutationBatch of the oldest batch of a queue leaves the others.
LEMMA WithoutHead ==
    ASSUME NEW q \in Seq(Batch), Ordered(q), q # << >>
    PROVE  Without(q, q[1]) = Tail(q)
<1>1. Len(q) \in Nat /\ Len(q) >= 1 /\ DOMAIN q = 1 .. Len(q) /\ 1 \in 1 .. Len(q)
  BY EmptySeq, LenProperties
<1>2. \A i \in 1 .. Len(q) : q[i].id \in Nat
  <2>1. \A b \in Batch : b.id \in Nat
    BY DEF Batch
  <2> QED
    BY <2>1, ElementOfSeq
<1>3. \A i \in 1 .. Len(q) : q[i].id = q[1].id => i = 1
  <2> SUFFICES ASSUME NEW i \in 1 .. Len(q), q[i].id = q[1].id, i # 1 PROVE FALSE
    OBVIOUS
  <2>1. 1 < i
    BY <1>1
  <2>2. q[1].id < q[i].id
    BY <2>1, <1>1 DEF Ordered
  <2> QED
    BY <2>2, <1>1, <1>2
<1> DEFINE k == CHOOSE i \in DOMAIN q : q[i].id = q[1].id
<1>4. k \in DOMAIN q /\ q[k].id = q[1].id
  BY <1>1
<1>5. k = 1
  BY <1>1, <1>3, <1>4
<1>6. Without(q, q[1]) = SubSeq(q, 1, 0) \o SubSeq(q, 2, Len(q))
  <2>1. Without(q, q[1]) = RemoveAt(q, 1)
    BY <1>5 DEF Without
  <2> QED
    BY <2>1 DEF RemoveAt
<1>7. SubSeq(q, 1, 0) = << >> /\ SubSeq(q, 2, Len(q)) = Tail(q) /\ Tail(q) \in Seq(Batch)
  BY SubSeqEmpty, TailIsSubSeq, HeadTailProperties
<1> QED
  BY <1>6, <1>7, ConcatEmptySeq

\* The completions of nobody, and of one who waits.
LEMMA CompletionsAre ==
    /\ SetToSeq({}) = << >>
    /\ \A x : SetToSeq({x}) = <<x>>
<1>1. SetToSeq({}) = << >>
  <2> DEFINE F == [1 .. 0 -> {}]
  <2>1. << >> \in F /\ IsInjective(<< >>)
    BY DEF IsInjective
  <2>2. SetToSeq({}) \in F
    BY <2>1, FS_EmptySet DEF SetToSeq
  <2> QED
    BY <2>2
<1>2. ASSUME NEW x PROVE SetToSeq({x}) = <<x>>
  <2> DEFINE F == [1 .. 1 -> {x}]
  <2>1. <<x>> \in F /\ IsInjective(<<x>>)
    BY DEF IsInjective
  <2>2. SetToSeq({x}) \in F
    BY <2>1, FS_Singleton DEF SetToSeq
  <2> QED
    BY <2>2
<1> QED
  BY <1>1, <1>2

\* What the end of the first write of the pipeline does: it is the oldest of
\* the queue of the current user, it leaves that queue, and whoever waits for it
\* is told, once.
LEMMA ResolveIs ==
    ASSUME PipelineInv, stream.pipeline # << >>, NEW ok \in BOOLEAN,
           Resolve(Head(stream.pipeline), ok)
    PROVE  /\ queue[current_user] # << >> /\ Head(stream.pipeline) = queue[current_user][1]
           /\ queue' = [queue EXCEPT ![current_user] = Tail(queue[current_user])]
           /\ callbacks' = [callbacks EXCEPT ![current_user] =
                  @ \ {<<queue[current_user][1].id, queue[current_user][1].n>>}]
           /\ told' = IF <<queue[current_user][1].id, queue[current_user][1].n>>
                            \in callbacks[current_user]
                      THEN [told EXCEPT ![current_user] =
                               Append(@, [n |-> queue[current_user][1].n, ok |-> ok])]
                      ELSE told
           /\ decided' = decided \union {queue[current_user][1].n}
           /\ UNCHANGED <<current_user, next_batch_id>>
           /\ UNCHANGED <<worker, auth, made, switches, faults>>
<1> DEFINE me == current_user
           q  == queue[me]
           b  == Head(stream.pipeline)
           c  == <<q[1].id, q[1].n>>
           waiting == {x \in callbacks[me] : x[1] = b.id}
           D  == {[n |-> x[2], ok |-> ok] : x \in waiting}
<1>1. /\ queue' = [queue EXCEPT ![me] = Without(@, b)]
      /\ callbacks' = [callbacks EXCEPT ![me] = @ \ waiting]
      /\ told' = [told EXCEPT ![me] = @ \o SetToSeq(D)]
      /\ decided' = decided \union {b.n}
      /\ UNCHANGED <<current_user, next_batch_id>>
      /\ UNCHANGED <<worker, auth, made, switches, faults>>
  BY DEF Resolve
<1>2. /\ me \in User /\ q \in Seq(Batch) /\ Ordered(q) /\ stream \in Stream /\ Serves(stream, q)
      /\ TypeOK /\ CallbackInv
  BY InvFacts DEF StreamInv
<1>3. /\ stream.pipeline \in Seq(Batch) /\ Len(stream.pipeline) \in Nat
      /\ Len(stream.pipeline) >= 1 /\ Len(q) \in Nat
  BY <1>2, StreamFields, LenProperties, EmptySeq
<1>4. q # << >> /\ b = q[1] /\ 1 \in 1 .. Len(q)
  <2>1. 1 \in 1 .. Len(stream.pipeline) /\ 1 \in 1 .. Len(q)
    BY <1>2, <1>3 DEF Serves
  <2>2. stream.pipeline[1] = q[1]
    BY <2>1, <1>2 DEF Serves
  <2> QED
    BY <2>1, <2>2, <1>2, <1>3, EmptySeq
<1>5. queue' = [queue EXCEPT ![me] = Tail(q)]
  BY <1>1, <1>2, <1>4, WithoutHead
<1>6. \A x \in waiting : x = c
  <2> SUFFICES ASSUME NEW x \in callbacks[me], x[1] = q[1].id PROVE x = c
    BY <1>4
  <2>1. PICK i \in 1 .. Len(q) : x = <<q[i].id, q[i].n>>
    BY <1>2 DEF CallbackInv
  <2>2. q[i].id = q[1].id
    BY <2>1
  <2>3. q[i].id \in Nat /\ q[1].id \in Nat
    BY <1>2, <1>4, TypeFacts
  <2>4. i = 1
    <3>1. 1 < i => q[1].id < q[i].id
      BY <1>2, <1>4 DEF Ordered
    <3> QED
      BY <3>1, <2>2, <2>3, <1>3
  <2> QED
    BY <2>1, <2>4
<1>7. c[1] = b.id /\ c[2] = q[1].n
  BY <1>4
<1>8. waiting = IF c \in callbacks[me] THEN {c} ELSE {}
  BY <1>6, <1>7
<1> HIDE DEF waiting, c
<1>9. callbacks' = [callbacks EXCEPT ![me] = @ \ {c}]
  BY <1>1, <1>2, <1>8 DEF TypeOK
<1>10. told' = IF c \in callbacks[me]
               THEN [told EXCEPT ![me] = Append(@, [n |-> q[1].n, ok |-> ok])] ELSE told
  <2> DEFINE r == [n |-> q[1].n, ok |-> ok]
             S == [n : Write, ok : BOOLEAN]
  <2>1. told \in [User -> Seq(S)] /\ told[me] \in Seq(S) /\ r \in S
    BY <1>2, <1>4, TypeFacts DEF TypeOK
  <2>2. CASE c \in callbacks[me]
    <3>1. D = {r}
      BY <2>2, <1>7, <1>8
    <3>2. SetToSeq(D) = <<r>>
      BY <3>1, CompletionsAre
    <3> HIDE DEF r, S, D
    <3>3. told[me] \o <<r>> = Append(told[me], r)
      BY <2>1, AppendIsConcat
    <3>4. told' = [told EXCEPT ![me] = told[me] \o <<r>>]
      BY <3>2, <1>1
    <3>5. told' = [told EXCEPT ![me] = Append(told[me], r)]
      BY <3>3, <3>4
    <3> QED
      BY <3>5, <2>2 DEF r
  <2>3. CASE c \notin callbacks[me]
    <3>1. D = {}
      BY <2>3, <1>8
    <3>2. SetToSeq(D) = << >>
      BY <3>1, CompletionsAre
    <3> HIDE DEF r, S, D
    <3>3. told[me] \o << >> = told[me]
      BY <2>1, ConcatEmptySeq
    <3>4. told' = [told EXCEPT ![me] = told[me]]
      BY <3>2, <3>3, <1>1
    <3>5. told' = told
      BY <3>4, <2>1
    <3> QED
      BY <3>5, <2>3
  <2> QED
    BY <2>2, <2>3
<1> QED
  BY <1>1, <1>4, <1>5, <1>9, <1>10 DEF c

\* The same, for the invariant.
LEMMA ResolveKeeps ==
    ASSUME PipelineInv, stream.pipeline # << >>, NEW ok \in BOOLEAN,
           Resolve(Head(stream.pipeline), ok), doc' = doc,
           StreamInv(stream', Tail(queue[current_user]), worker), Busy(stream'),
           IsOpen(stream') => stream'.token = current_user
    PROVE  PipelineInv'
<1> DEFINE me == current_user
           q  == queue[me]
           r  == Tail(q)
           c  == <<q[1].id, q[1].n>>
<1>1. /\ q # << >>
      /\ queue' = [queue EXCEPT ![me] = r]
      /\ callbacks' = [callbacks EXCEPT ![me] = @ \ {c}]
      /\ told' = IF c \in callbacks[me]
                 THEN [told EXCEPT ![me] = Append(@, [n |-> q[1].n, ok |-> ok])] ELSE told
      /\ decided' = decided \union {q[1].n}
      /\ UNCHANGED <<current_user, next_batch_id>> /\ UNCHANGED <<worker, auth, made>>
  BY ResolveIs
<1>2. /\ TypeOK /\ QueueInv /\ TaskInv /\ CallbackInv /\ UserInv
      /\ me \in User /\ q \in Seq(Batch) /\ Ordered(q) /\ queue \in [User -> Seq(Batch)]
  BY InvFacts DEF TypeOK
<1>3. /\ r \in Seq(Batch) /\ Len(q) \in Nat /\ Len(r) = Len(q) - 1
      /\ \A i \in 1 .. Len(r) : r[i] = q[i + 1] /\ i + 1 \in 1 .. Len(q)
      /\ 1 \in 1 .. Len(q)
  BY <1>1, <1>2, HeadTailProperties, EmptySeq, LenProperties
<1> HIDE DEF r
<1>4. /\ queue' \in [User -> Seq(Batch)] /\ queue'[me] = r
      /\ \A u \in User : u # me => queue'[u] = queue[u]
  BY <1>1, <1>2, <1>3
<1>5. q[1].n \in Write
  BY <1>2, <1>3, TypeFacts
<1>6. TypeOK'
  <2>1. stream' \in Stream
    BY DEF StreamInv
  <2>2. callbacks' \in [User -> SUBSET ((Nat \ {0}) \X Write)]
    BY <1>1, <1>2 DEF TypeOK
  <2>3. told' \in [User -> Seq([n : Write, ok : BOOLEAN])]
    <3> DEFINE S == [n : Write, ok : BOOLEAN]
               x == [n |-> q[1].n, ok |-> ok]
    <3>1. told \in [User -> Seq(S)] /\ x \in S
      BY <1>2, <1>5 DEF TypeOK
    <3> HIDE DEF S, x
    <3>2. Append(told[me], x) \in Seq(S)
      BY <3>1, <1>2, AppendProperties
    <3>3. told' = IF c \in callbacks[me] THEN [told EXCEPT ![me] = Append(@, x)] ELSE told
      BY <1>1 DEF x
    <3>4. told' \in [User -> Seq(S)]
      BY <3>1, <3>2, <3>3
    <3> QED
      BY <3>4 DEF S
  <2>4. decided' \subseteq Write
    BY <1>1, <1>2, <1>5 DEF TypeOK
  <2> QED
    BY <2>1, <2>2, <2>3, <2>4, <1>1, <1>2, <1>4 DEF TypeOK
<1>7. QueueInv'
  <2> SUFFICES ASSUME NEW u \in User
               PROVE  /\ Ordered(queue'[u])
                      /\ \A i \in 1 .. Len(queue'[u]) :
                             /\ queue'[u][i].id < next_batch_id
                             /\ queue'[u][i].n <= Len(made) /\ made[queue'[u][i].n].by = u
    BY <1>1 DEF QueueInv, Ordered
  <2>1. CASE u = me
    <3>1. Ordered(r)
      <4> SUFFICES ASSUME NEW i \in 1 .. Len(r), NEW j \in 1 .. Len(r), i < j
                   PROVE  r[i].id < r[j].id /\ r[i].n < r[j].n
        BY DEF Ordered
      <4>1. i + 1 < j + 1
        BY <1>3
      <4> QED
        BY <4>1, <1>2, <1>3 DEF Ordered
    <3>2. \A i \in 1 .. Len(r) : /\ r[i].id < next_batch_id
                                 /\ r[i].n <= Len(made) /\ made[r[i].n].by = me
      BY <1>2, <1>3 DEF QueueInv
    <3> QED
      BY <2>1, <3>1, <3>2, <1>4
  <2>2. CASE u # me
    BY <2>2, <1>2, <1>4 DEF QueueInv
  <2> QED
    BY <2>1, <2>2
<1>8. TaskInv'
  <2> SUFFICES ASSUME NEW i \in 1 .. Len(worker), worker[i].type = "write",
                      NEW u \in User, NEW j \in 1 .. Len(queue'[u])
               PROVE  queue'[u][j].n < worker[i].n
    BY <1>1, <1>2 DEF TaskInv
  <2>1. CASE u = me
    BY <2>1, <1>2, <1>3, <1>4 DEF TaskInv
  <2>2. CASE u # me
    BY <2>2, <1>2, <1>4 DEF TaskInv
  <2> QED
    BY <2>1, <2>2
<1>9. CallbackInv'
  <2> SUFFICES ASSUME NEW u \in User, NEW x \in callbacks'[u]
               PROVE  \E i \in 1 .. Len(queue'[u]) : x = <<queue'[u][i].id, queue'[u][i].n>>
    BY DEF CallbackInv
  <2>1. CASE u # me
    BY <2>1, <1>1, <1>2, <1>4 DEF CallbackInv, TypeOK
  <2>2. CASE u = me
    <3>1. x \in callbacks[me] /\ x # c
      BY <2>2, <1>1, <1>2 DEF TypeOK
    <3>2. PICK i \in 1 .. Len(q) : x = <<q[i].id, q[i].n>>
      BY <3>1, <1>2 DEF CallbackInv
    <3>3. i # 1
      BY <3>1, <3>2
    <3>4. i - 1 \in 1 .. Len(r) /\ (i - 1) + 1 = i
      BY <3>3, <1>3
    <3>5. r[i - 1] = q[i]
      BY <3>4, <1>3
    <3> QED
      BY <2>2, <3>2, <3>4, <3>5, <1>4
  <2> QED
    BY <2>1, <2>2
<1>10. UserInv'
  BY <1>1, <1>2, SMTT(30) DEF UserInv, Attributed
<1>11. StreamInv(stream, queue[current_user], worker)' /\ Busy(stream)' /\ TokenInv'
  BY <1>1, <1>4, StreamInvNext DEF r
<1> QED
  BY <1>6, <1>7, <1>8, <1>9, <1>10, <1>11 DEF PipelineInv

\* An answer to a write finds a write in the pipeline: what the assertion of
\* RemoteStore::OnWriteStreamMutationResult requires.
LEMMA AnswerFindsWrite ==
    ASSUME PipelineInv, NEW type \in {"ack", "refused"}, Reply(type)
    PROVE  /\ IsOpen(stream) /\ stream.handshake /\ stream.pipeline # << >>
           /\ stream.replies # << >> /\ stream.replies[1] = type /\ 1 \in 1 .. Len(stream.replies)
<1>1. stream \in Stream /\ Wire(stream) /\ stream.replies # << >> /\ Head(stream.replies) = type
  BY InvFacts DEF StreamInv, Reply
<1>2. /\ stream.replies \in Seq({"handshake", "ack", "refused"}) /\ stream.pipeline \in Seq(Batch)
      /\ Len(stream.replies) \in Nat /\ Len(stream.replies) >= 1 /\ Len(stream.sent) \in Nat
      /\ stream.replies[1] = type /\ 1 \in 1 .. Len(stream.replies)
  BY <1>1, StreamFields, EmptySeq
<1>3. IsOpen(stream)
  BY <1>1 DEF Wire
<1>4. stream.handshake
  <2>1. SUFFICES ASSUME ~stream.handshake PROVE FALSE
    OBVIOUS
  <2>2. Greeting(stream.sent, stream.replies)
    BY <2>1, <1>1, <1>3 DEF Wire
  <2>3. stream.replies[1] = "handshake"
    BY <2>2, <1>1 DEF Greeting
  <2> QED
    BY <2>3, <1>2
<1>5. Len(stream.pipeline) = Len(stream.replies) + Len(stream.sent)
  BY <1>1, <1>4 DEF Wire
<1>6. stream.pipeline # << >>
  <2> DEFINE a == Len(stream.replies)
             l == Len(stream.sent)
             p == Len(stream.pipeline)
  <2>1. a \in Nat /\ a >= 1 /\ l \in Nat /\ p = a + l
    BY <1>2, <1>5
  <2>2. p # 0
    <3> HIDE DEF a, l, p
    <3> QED
      BY <2>1
  <2> QED
    BY <2>2, EmptySeq
<1> QED
  BY <1>1, <1>2, <1>3, <1>4, <1>6

\* The pipeline without its first write is the beginning of the queue without it.
LEMMA ServesTail ==
    ASSUME NEW s \in Stream, NEW t \in Stream, NEW q \in Seq(Batch), Serves(s, q),
           s.pipeline # << >>, t.pipeline = Tail(s.pipeline)
    PROVE  Serves(t, Tail(q)) /\ Tail(q) \in Seq(Batch)
<1> DEFINE p == s.pipeline
<1>1. p \in Seq(Batch) /\ Len(p) \in Nat /\ Len(p) >= 1 /\ Len(q) \in Nat /\ Len(p) <= Len(q)
  BY StreamFields, EmptySeq, LenProperties DEF Serves
<1>2. q # << >>
  BY <1>1, EmptySeq
<1>3. /\ Len(Tail(p)) = Len(p) - 1 /\ \A i \in 1 .. Len(Tail(p)) : Tail(p)[i] = p[i + 1]
      /\ Len(Tail(q)) = Len(q) - 1 /\ \A i \in 1 .. Len(Tail(q)) : Tail(q)[i] = q[i + 1]
      /\ Tail(q) \in Seq(Batch)
  BY <1>1, <1>2, HeadTailProperties
<1>4. kMaxPendingWrites \in Nat
  BY PipelineAssumption
<1>5. \A i \in 1 .. Len(Tail(p)) : i \in 1 .. Len(Tail(q)) /\ i + 1 \in 1 .. Len(p)
  BY <1>1, <1>3
<1> QED
  BY <1>1, <1>3, <1>4, <1>5 DEF Serves

\* A queue without its first batch is ordered.
LEMMA OrderedTail ==
    ASSUME NEW q \in Seq(Batch), Ordered(q), q # << >>
    PROVE  Ordered(Tail(q))
<1>1. /\ Len(q) \in Nat /\ Len(Tail(q)) = Len(q) - 1
      /\ \A i \in 1 .. Len(Tail(q)) : Tail(q)[i] = q[i + 1] /\ i + 1 \in 1 .. Len(q)
  BY HeadTailProperties, LenProperties
<1>2. \A i, j \in 1 .. Len(Tail(q)) : i < j => i + 1 < j + 1
  BY <1>1
<1> QED
  BY <1>1, <1>2 DEF Ordered

\* An acknowledgement.
LEMMA AckKeeps ==
    ASSUME PipelineInv, OnWriteStreamMutationResult
    PROVE  /\ PipelineInv' /\ stream'.replies = Tail(stream.replies)
           /\ \A i \in 1 .. Len(stream.pipeline) - 1 : stream'.pipeline[i] = stream.pipeline[i + 1]
<1> DEFINE s == stream
           q == queue[current_user]
           u == [s EXCEPT !.replies = Tail(@), !.pipeline = Tail(@)]
<1>1. /\ Reply("ack") /\ Resolve(Head(s.pipeline), TRUE) /\ doc' = doc
      /\ stream' = FillWritePipeline(u, queue'[current_user])
  BY DEF OnWriteStreamMutationResult
<1>2. /\ s \in Stream /\ Serves(s, q) /\ Wire(s) /\ Calm(s) /\ Counted(s, worker) /\ TokenInv
      /\ TypeOK /\ q \in Seq(Batch) /\ Ordered(q) /\ current_user \in User
  BY InvFacts DEF StreamInv
<1>3. /\ IsOpen(s) /\ s.handshake /\ s.pipeline # << >> /\ s.replies # << >>
  BY <1>1, AnswerFindsWrite
<1>4. queue'[current_user] = Tail(q)
  BY <1>1, <1>2, <1>3, ResolveIs DEF TypeOK
<1>5. /\ s.sent \in Seq(Batch \union {Handshake}) /\ s.pipeline \in Seq(Batch)
      /\ s.replies \in Seq({"handshake", "ack", "refused"})
      /\ Len(s.pipeline) \in Nat /\ Len(s.sent) \in Nat /\ Len(s.replies) \in Nat
  BY <1>2, StreamFields
<1>6. /\ Tail(s.replies) \in Seq({"handshake", "ack", "refused"})
      /\ Tail(s.pipeline) \in Seq(Batch)
      /\ Len(Tail(s.replies)) = Len(s.replies) - 1 /\ Len(Tail(s.pipeline)) = Len(s.pipeline) - 1
      /\ \A i \in 1 .. Len(Tail(s.replies)) : Tail(s.replies)[i] = s.replies[i + 1]
      /\ \A i \in 1 .. Len(Tail(s.pipeline)) : Tail(s.pipeline)[i] = s.pipeline[i + 1]
  BY <1>3, <1>5, HeadTailProperties
<1>7. /\ u \in Stream /\ u.state = s.state /\ u.handshake = s.handshake /\ u.idle = s.idle
      /\ u.token = s.token /\ u.close_count = s.close_count /\ u.requests = s.requests
      /\ u.pipeline = Tail(s.pipeline) /\ u.sent = s.sent /\ u.replies = Tail(s.replies)
  BY <1>2, <1>6 DEF Stream
<1> HIDE DEF u
<1>8. Serves(u, Tail(q)) /\ Tail(q) \in Seq(Batch)
  BY <1>2, <1>3, <1>7, ServesTail
<1>9. Wire(u)
  <2> DEFINE a == Len(s.replies)
             l == Len(s.sent)
             p == Len(s.pipeline)
  <2>1. /\ a \in Nat /\ l \in Nat /\ p \in Nat /\ p = a + l
        /\ Len(u.replies) = a - 1 /\ Len(u.pipeline) = p - 1 /\ Len(u.sent) = l
        /\ \A i \in 1 .. l : s.sent[i] = s.pipeline[a + i]
        /\ \A i \in 1 .. a : s.replies[i] = "ack" \/ (s.replies[i] = "refused" /\ i = a)
        /\ \A i \in 1 .. a - 1 : u.replies[i] = s.replies[i + 1]
        /\ \A i \in 1 .. p - 1 : u.pipeline[i] = s.pipeline[i + 1]
    <3>1. /\ p = a + l
          /\ \A i \in 1 .. l : s.sent[i] = s.pipeline[a + i]
          /\ \A i \in 1 .. a : s.replies[i] = "ack" \/ (s.replies[i] = "refused" /\ i = a)
      BY <1>2, <1>3 DEF Wire
    <3>2. Len(u.replies) = a - 1 /\ Len(u.pipeline) = p - 1 /\ Len(u.sent) = l
      BY <1>6, <1>7
    <3>3. \A i \in 1 .. a - 1 : u.replies[i] = s.replies[i + 1]
      BY <1>6, <1>7
    <3>4. \A i \in 1 .. p - 1 : u.pipeline[i] = s.pipeline[i + 1]
      BY <1>6, <1>7
    <3> QED
      BY <1>5, <3>1, <3>2, <3>3, <3>4
  <2>2. a >= 1
    BY <1>3, <1>5, EmptySeq
  <2> HIDE DEF a, l, p
  <2>3. Len(u.pipeline) = Len(u.replies) + Len(u.sent)
    BY <2>1, <2>2
  <2>4. ASSUME NEW i \in 1 .. Len(u.sent)
        PROVE  u.sent[i] = u.pipeline[Len(u.replies) + i]
    <3>1. i \in 1 .. l /\ (a - 1) + i \in 1 .. p - 1 /\ ((a - 1) + i) + 1 = a + i
      BY <2>1, <2>2
    <3> QED
      BY <3>1, <2>1, <1>7
  <2>5. ASSUME NEW i \in 1 .. Len(u.replies)
        PROVE  u.replies[i] = "ack" \/ (u.replies[i] = "refused" /\ i = Len(u.replies))
    <3>1. i + 1 \in 1 .. a /\ i \in 1 .. a - 1 /\ (i + 1 = a => i = a - 1)
      BY <2>1, <2>2
    <3> QED
      BY <3>1, <2>1
  <2> QED
    BY <2>3, <2>4, <2>5, <1>3, <1>7 DEF Wire, IsOpen
<1>10. Calm(u)
  BY <1>2, <1>3, <1>7 DEF Calm, IsOpen
<1>11. Counted(u, worker)
  BY <1>2, <1>7 DEF Counted
<1>12. StreamInv(u, Tail(q), worker)
  BY <1>7, <1>8, <1>9, <1>10, <1>11 DEF StreamInv
<1>13. Ordered(Tail(q))
  BY <1>1, <1>2, <1>3, ResolveIs, OrderedTail
<1>14. /\ StreamInv(stream', Tail(q), worker) /\ Busy(stream')
       /\ (IsOpen(stream') => stream'.token = current_user)
  BY <1>1, <1>2, <1>4, <1>7, <1>8, <1>12, <1>13, FillKeeps, ZenonT(40) DEF TokenInv, IsOpen
<1>15. stream'.replies = Tail(s.replies) /\ Len(u.pipeline) <= Len(stream'.pipeline)
  BY <1>1, <1>4, <1>7, <1>8, <1>12, <1>13, FillKeeps
<1>16. ASSUME NEW i \in 1 .. Len(s.pipeline) - 1
       PROVE  stream'.pipeline[i] = s.pipeline[i + 1]
  <2>1. i \in 1 .. Len(u.pipeline) /\ u.pipeline[i] = s.pipeline[i + 1]
    BY <1>6, <1>7
  <2>2. u.pipeline[i] = Tail(q)[i]
    BY <2>1, <1>8 DEF Serves
  <2>3. Serves(stream', Tail(q)) /\ stream' \in Stream
    BY <1>14 DEF StreamInv
  <2>4. i \in 1 .. Len(stream'.pipeline)
    <3> DEFINE l == Len(u.pipeline)
               p == Len(stream'.pipeline)
    <3>1. l \in Nat /\ p \in Nat /\ l <= p /\ i \in 1 .. l
      BY <1>7, <1>15, <2>1, <2>3, StreamFields
    <3>2. i \in 1 .. p
      <4> HIDE DEF l, p
      <4> QED
        BY <3>1
    <3> QED
      BY <3>2
  <2> QED
    BY <2>1, <2>2, <2>3, <2>4 DEF Serves
<1> QED
  BY <1>1, <1>3, <1>14, <1>15, <1>16, ResolveKeeps

\* A refusal: the stream is closed, and started again if there is more to send.
LEMMA RefusedKeeps ==
    ASSUME PipelineInv, HandleWriteError
    PROVE  PipelineInv' /\ ~stream'.handshake
<1> DEFINE s == stream
           q == queue[current_user]
           u == [s EXCEPT !.pipeline = Tail(@)]
           v == Close(u, "Error")
           x == InhibitBackoff(v)
<1>1. /\ Reply("refused") /\ Resolve(Head(s.pipeline), FALSE) /\ doc' = doc
      /\ stream' = FillWritePipeline(x, queue'[current_user])
  BY DEF HandleWriteError
<1>2. /\ s \in Stream /\ Serves(s, q) /\ Counted(s, worker) /\ worker \in Seq(Task)
      /\ TypeOK /\ q \in Seq(Batch) /\ Ordered(q) /\ current_user \in User
  BY InvFacts DEF StreamInv
<1>3. s.pipeline # << >>
  BY <1>1, AnswerFindsWrite
<1>4. queue'[current_user] = Tail(q)
  BY <1>1, <1>2, <1>3, ResolveIs DEF TypeOK
<1>5. /\ u \in Stream /\ u.state = s.state /\ u.pipeline = Tail(s.pipeline)
      /\ u.close_count = s.close_count /\ u.requests = s.requests
  <2>1. Tail(s.pipeline) \in Seq(Batch)
    BY <1>2, <1>3, StreamFields, HeadTailProperties
  <2> QED
    BY <2>1, <1>2 DEF Stream
<1> HIDE DEF u
<1>6. Serves(u, Tail(q)) /\ Tail(q) \in Seq(Batch) /\ Ordered(Tail(q))
  <2>1. q # << >>
    BY <1>1, <1>3, ResolveIs
  <2> QED
    BY <1>2, <1>3, <1>5, <2>1, ServesTail, OrderedTail
<1>7. Counted(u, worker)
  BY <1>2, <1>5 DEF Counted
<1>8. StreamInv(v, Tail(q), worker) /\ v.state = "Error"
  BY <1>2, <1>5, <1>6, <1>7, CloseKeeps
<1> HIDE DEF v
<1>9. StreamInv(x, Tail(q), worker) /\ ~IsOpen(x) /\ ~x.handshake
  BY <1>8, InhibitKeeps
<1> HIDE DEF x
<1>10. /\ StreamInv(stream', Tail(q), worker) /\ Busy(stream')
       /\ ~IsOpen(stream') /\ stream'.handshake = x.handshake
  <2>1. stream' = FillWritePipeline(x, Tail(q))
    BY <1>1, <1>4
  <2> HIDE DEF q
  <2> DEFINE f == FillWritePipeline(x, Tail(q))
  <2>2. /\ StreamInv(f, Tail(q), worker) /\ Busy(f) /\ (IsOpen(f) <=> IsOpen(x))
        /\ f.handshake = x.handshake
    BY <1>6, <1>9, FillKeeps
  <2> HIDE DEF f
  <2> QED
    BY <2>1, <2>2, <1>9 DEF f
<1>11. ~stream'.handshake
  BY <1>9, <1>10
<1> QED
  BY <1>1, <1>3, <1>10, <1>11, ResolveKeeps

\* The process starts again, for the account that is signed in.
LEMMA RestartProcessKeeps ==
    ASSUME PipelineInv, Restart
    PROVE  PipelineInv'
<1>1. /\ worker' = << >> /\ current_user' = auth /\ next_batch_id' = NextBatchIdFromDb
      /\ callbacks' = [u \in User |-> {}] /\ told' = [u \in User |-> << >>]
      /\ stream' = FillWritePipeline(NewStream, queue[auth]) /\ GivenUp
      /\ UNCHANGED <<auth, made, queue, decided>>
  BY DEF Restart
<1>2. /\ TypeOK /\ QueueInv /\ auth \in User /\ queue[auth] \in Seq(Batch) /\ Ordered(queue[auth])
  BY InvFacts, TypeFacts DEF QueueInv
<1>3. StreamInv(stream', queue[auth], << >>) /\ Busy(stream') /\ ~IsOpen(stream')
  <2>1. StreamInv(NewStream, queue[auth], << >>) /\ ~IsOpen(NewStream)
    BY <1>2, NewStreamServes
  <2> QED
    BY <2>1, <1>1, <1>2, FillKeeps
<1>4. stream' \in Stream
  BY <1>3 DEF StreamInv
<1>5. doc' \in [User -> {0} \union Write]
  BY <1>1, <1>2, GivenUpStores
<1>6. /\ next_batch_id' \in Nat \ {0}
      /\ \A u \in User : \A i \in 1 .. Len(queue[u]) : queue[u][i].id < next_batch_id'
  BY <1>1, <1>2, NextIdIsFresh
<1>7. worker' \in Seq(Task) /\ Len(worker') = 0 /\ << >> \in Seq([n : Write, ok : BOOLEAN])
  BY <1>1, EmptySeq
<1>8. TypeOK'
  BY <1>1, <1>2, <1>4, <1>5, <1>6, <1>7 DEF TypeOK
<1>9. QueueInv' /\ CallbackInv' /\ TaskInv'
  BY <1>1, <1>2, <1>6, <1>7 DEF QueueInv, CallbackInv, TaskInv, Ordered
<1>10. UserInv'
  <2> DEFINE f == [i \in 1 .. 1 |-> auth]
  <2>h. PICK h : h = f
    OBVIOUS
  <2>1. h \in [1 .. Len(worker') + 1 -> User] /\ Attributed(h)'
    BY <2>h, <1>1, <1>2, <1>7 DEF Attributed
  <2> QED
    BY <2>1 DEF UserInv
<1>11. StreamInv(stream, queue[current_user], worker)' /\ Busy(stream)' /\ TokenInv'
  BY <1>1, <1>3, StreamInvNext
<1> QED
  BY <1>8, <1>9, <1>10, <1>11 DEF PipelineInv

-----------------------------------------------------------------------------
(***************************************************************************)
(* The theorems.                                                           *)
(***************************************************************************)

\* The app starts with nothing queued and no stream.
LEMMA InitHolds ==
    ASSUME Init
    PROVE  PipelineInv
<1>1. /\ auth \in User /\ current_user = auth /\ made = << >> /\ worker = << >>
      /\ queue = [u \in User |-> << >>] /\ callbacks = [u \in User |-> {}]
      /\ next_batch_id = 1 /\ stream = NewStream
      /\ doc = [u \in User |-> 0] /\ decided = {} /\ told = [u \in User |-> << >>]
  BY PipelineAssumption DEF Init, User
<1>2. /\ << >> \in Seq(Batch) /\ << >> \in Seq(Task) /\ << >> \in Seq([by : Account, bad : BOOLEAN])
      /\ << >> \in Seq([n : Write, ok : BOOLEAN]) /\ Len(<< >>) = 0
  BY EmptySeq
<1>3. queue[current_user] = << >> /\ \A u \in User : queue[u] = << >>
  BY <1>1
<1>4. StreamInv(NewStream, << >>, << >>) /\ ~IsOpen(NewStream) /\ Busy(NewStream)
  BY <1>2, NewStreamServes
<1>5. StreamInv(stream, queue[current_user], worker) /\ Busy(stream) /\ TokenInv
  BY <1>1, <1>3, <1>4 DEF TokenInv
<1>6. stream \in Stream
  BY <1>5 DEF StreamInv
<1>7. made \in Seq([by : Account, bad : BOOLEAN]) /\ Len(made) <= MaxWrites
  BY <1>1, <1>2, PipelineAssumption
<1>8. TypeOK
  BY <1>1, <1>2, <1>6, <1>7 DEF TypeOK
<1>9. QueueInv /\ TaskInv /\ CallbackInv
  BY <1>1, <1>2, <1>3 DEF QueueInv, TaskInv, CallbackInv, Ordered
<1>10. UserInv
  <2> DEFINE f == [i \in 1 .. 1 |-> auth]
  <2>1. f \in [1 .. Len(worker) + 1 -> User] /\ Attributed(f)
    BY <1>1, <1>2 DEF Attributed
  <2> QED
    BY <2>1 DEF UserInv
<1> QED
  BY <1>5, <1>8, <1>9, <1>10 DEF PipelineInv

\* Nothing in the invariant depends on how much of the bounds is used.
LEMMA StutterKeeps ==
    ASSUME PipelineInv, UNCHANGED vars
    PROVE  PipelineInv'
<1>1. /\ UNCHANGED <<worker, current_user, queue, next_batch_id, callbacks>>
      /\ UNCHANGED <<auth, made, decided, told>> /\ stream' = stream /\ doc' = doc
  BY DEF vars, device, outside
<1>2. /\ StreamInv(stream', queue[current_user], worker) /\ Busy(stream')
      /\ (IsOpen(stream') => stream'.token = current_user) /\ doc' \in [User -> {0} \union Write]
  BY <1>1, InvFacts DEF TokenInv, TypeOK
<1> QED
  BY <1>1, <1>2, StreamStep

\* Every step keeps the invariant.
LEMMA NextKeeps ==
    ASSUME PipelineInv, [Next]_vars
    PROVE  PipelineInv'
<1>1. CASE UNCHANGED vars
  BY <1>1, StutterKeeps
<1>2. CASE \E c \in stream.requests : GetToken(c)
  <2>1. PICK c \in stream.requests : GetToken(c)
    BY <1>2
  <2> QED
    BY <2>1, TokenKeeps DEF GetToken, outside
<1>3. CASE \E c \in stream.requests : GetTokenFails(c)
  <2>1. PICK c \in stream.requests : GetTokenFails(c)
    BY <1>3
  <2> QED
    BY <2>1, TokenKeeps DEF GetTokenFails
<1>4. CASE BackendReads \/ OnWriteStreamHandshakeComplete \/ OnWriteStreamMutationResult
           \/ HandleWriteError \/ BackoffElapsed
  BY <1>4, BackendReadsKeeps, HandshakeKeeps, AckKeeps, RefusedKeeps, BackoffKeeps
<1>5. CASE RunWrite \/ RunCredential \/ RunResume
  BY <1>5, RunWriteKeeps, RunCredentialKeeps, RunResumeKeeps
<1>6. CASE \E bad \in BOOLEAN : AppWrites(bad)
  BY <1>6, AppWritesKeeps
<1>7. CASE \E u \in User : AuthStateDidChange(u)
  BY <1>7, AuthKeeps
<1>8. CASE OnWriteStreamClose \/ IdleTimeout \/ ConnectivityChanged \/ Restart
  BY <1>8, StreamCloseKeeps, IdleKeeps, ConnectivityKeeps, RestartProcessKeeps
<1> QED
  BY <1>1, <1>2, <1>3, <1>4, <1>5, <1>6, <1>7, <1>8 DEF Next, Progress

\* The inductive invariant of the write path holds in every reachable state.
THEOREM PipelineInvariant == Spec => []PipelineInv
<1>1. Init => PipelineInv
  BY InitHolds
<1>2. PipelineInv /\ [Next]_vars => PipelineInv'
  BY NextKeeps
<1> QED
  BY <1>1, <1>2, PTL DEF Spec

\* The pipeline as a prefix of the queue.
LEMMA PrefixHolds ==
    ASSUME PipelineInv
    PROVE  PipelineIsQueueHead
<1> DEFINE p == stream.pipeline
           q == queue[current_user]
<1>1. /\ p \in Seq(Batch) /\ q \in Seq(Batch) /\ Len(p) \in Nat /\ Len(q) \in Nat
      /\ Len(p) <= Len(q) /\ Len(p) <= kMaxPendingWrites
      /\ \A i \in 1 .. Len(p) : p[i] = q[i] /\ i \in 1 .. Len(q)
  BY InvFacts, StreamFields, LenProperties DEF StreamInv, Serves
<1>2. IsPrefix(p, q)
  <2> DEFINE l == Len(p)
             r == SubSeq(q, 1, l)
  <2>1. l \in Nat /\ \A i \in 1 .. l : q[i] \in Batch
    BY <1>1, ElementOfSeq
  <2>2. r \in Seq(Batch) /\ Len(r) = l /\ \A i \in 1 .. l : r[i] = q[i]
    <3> HIDE DEF l
    <3>1. l - 1 + 1 = l /\ (IF 1 <= l THEN l - 1 + 1 ELSE 0) = l /\ \A i \in 1 .. l : 1 + i - 1 = i
      BY <2>1
    <3> QED
      BY <2>1, <3>1, SubSeqProperties
  <2>3. p = r
    BY <1>1, <2>2, SeqEqual
  <2>4. SubSeq(p, 1, Len(p)) = p
    BY <1>1, SubSeqFull
  <2> QED
    BY <1>1, <2>3, <2>4 DEF IsPrefix
<1>3. \A u \in User : \A i, j \in DOMAIN queue[u] :
          i < j => queue[u][i].id < queue[u][j].id /\ queue[u][i].n < queue[u][j].n
  <2> SUFFICES ASSUME NEW u \in User
               PROVE  \A i, j \in DOMAIN queue[u] :
                          i < j => queue[u][i].id < queue[u][j].id /\ queue[u][i].n < queue[u][j].n
    OBVIOUS
  <2>1. DOMAIN queue[u] = 1 .. Len(queue[u]) /\ Ordered(queue[u])
    BY InvFacts, TypeFacts, LenProperties DEF QueueInv
  <2> QED
    BY <2>1 DEF Ordered
<1> QED
  BY <1>1, <1>2, <1>3 DEF PipelineIsQueueHead

\* The wire as the assertions of the code need it.
LEMMA AssertionsFollow ==
    ASSUME PipelineInv
    PROVE  AssertionsHold
<1> DEFINE s == stream
<1>1. /\ s \in Stream /\ Wire(s) /\ Calm(s) /\ Counted(s, worker) /\ Busy(s) /\ worker \in Seq(Task)
  BY InvFacts DEF StreamInv
<1>2. /\ s.pipeline \in Seq(Batch) /\ s.sent \in Seq(Batch \union {Handshake})
      /\ s.replies \in Seq({"handshake", "ack", "refused"})
      /\ Len(s.pipeline) \in Nat /\ Len(s.sent) \in Nat /\ Len(s.replies) \in Nat
  BY <1>1, StreamFields
<1>3. ASSUME s.handshake
      PROVE  /\ Len(s.replies) <= Len(s.pipeline)
             /\ s.sent = SubSeq(s.pipeline, Len(s.replies) + 1, Len(s.pipeline))
  <2> DEFINE a == Len(s.replies)
             l == Len(s.sent)
             p == Len(s.pipeline)
             B == Batch \union {Handshake}
             r == SubSeq(s.pipeline, a + 1, p)
  <2>1. /\ a \in Nat /\ l \in Nat /\ p \in Nat /\ p = a + l
        /\ \A i \in 1 .. l : s.sent[i] = s.pipeline[a + i]
        /\ \A i \in 1 .. p : s.pipeline[i] \in B
    BY <1>1, <1>2, <1>3, ElementOfSeq DEF Wire
  <2>2. a <= p
    <3> HIDE DEF a, l, p
    <3> QED
      BY <2>1
  <2>3. r \in Seq(B) /\ Len(r) = l /\ \A i \in 1 .. l : r[i] = s.pipeline[a + i]
    <3> HIDE DEF a, l, p, B
    <3>1. /\ p - (a + 1) + 1 = l /\ (IF a + 1 <= p THEN p - (a + 1) + 1 ELSE 0) = l
          /\ \A i \in 1 .. l : a + 1 + i - 1 = a + i
          /\ a + 1 \in Int /\ p \in Int /\ \A i \in (a + 1) .. p : s.pipeline[i] \in B
      BY <2>1
    <3>2. /\ r \in Seq(B) /\ Len(r) = (IF a + 1 <= p THEN p - (a + 1) + 1 ELSE 0)
          /\ \A i \in 1 .. p - (a + 1) + 1 : r[i] = s.pipeline[a + 1 + i - 1]
      BY <3>1, SubSeqProperties
    <3> QED
      BY <3>1, <3>2
  <2>4. s.sent = r
    <3>1. s.sent \in Seq(B) /\ Len(s.sent) = l
      BY <1>2
    <3> HIDE DEF r, l, B
    <3>2. \A i \in 1 .. Len(s.sent) : s.sent[i] = r[i]
      BY <2>1, <2>3, <3>1
    <3> QED
      BY <2>3, <3>1, <3>2, SeqEqual
  <2> QED
    BY <2>2, <2>4
<1>4. ASSUME ~s.handshake
      PROVE  ToSet(s.sent) \subseteq {Handshake} /\ ToSet(s.replies) \subseteq {"handshake"}
  <2>1. \/ Greeting(s.sent, s.replies)
        \/ s.sent = << >> /\ s.replies = << >>
    BY <1>1, <1>4 DEF Wire
  <2>2. ToSet(<< >>) = {}
    BY DEF ToSet
  <2>3. \A x : ToSet(<<x>>) = {x}
    BY DEF ToSet
  <2> QED
    BY <2>1, <2>2, <2>3, Zenon DEF Greeting
<1>5. \A t \in ToSet(worker) :
          t.type = "resume" /\ t.close_count = s.close_count => s.state = "Starting"
  <2>1. DOMAIN worker = 1 .. Len(worker)
    BY <1>1, LenProperties
  <2> QED
    BY <1>1, <2>1 DEF Counted, ToSet
<1> QED
  BY <1>1, <1>3, <1>4, <1>5 DEF AssertionsHold, Calm, Busy

\* The wire carries writes of the current user's queue.
LEMMA SentIsQueued ==
    ASSUME PipelineInv, NEW i \in 1 .. Len(stream.sent), stream.sent[i] # Handshake
    PROVE  /\ IsOpen(stream)
           /\ \E k \in 1 .. Len(queue[current_user]) :
                  /\ stream.sent[i] = queue[current_user][k]
                  /\ made[stream.sent[i].n].by = current_user
<1> DEFINE s == stream
           q == queue[current_user]
<1>1. /\ s \in Stream /\ Wire(s) /\ Serves(s, q) /\ QueueInv /\ current_user \in User
  BY InvFacts DEF StreamInv
<1>2. /\ Len(s.pipeline) \in Nat /\ Len(s.sent) \in Nat /\ Len(s.replies) \in Nat /\ Len(q) \in Nat
  BY <1>1, StreamFields, LenProperties, InvFacts
<1>3. s.sent # << >>
  <2>1. SUFFICES ASSUME s.sent = << >> PROVE FALSE
    OBVIOUS
  <2>2. Len(s.sent) = 0
    BY <2>1
  <2> QED
    BY <2>2
<1>4. IsOpen(s)
  BY <1>1, <1>3 DEF Wire
<1>5. s.handshake
  <2>1. SUFFICES ASSUME ~s.handshake PROVE FALSE
    OBVIOUS
  <2>2. Greeting(s.sent, s.replies)
    BY <2>1, <1>1, <1>4 DEF Wire
  <2>3. s.sent = <<Handshake>>
    BY <2>2, <1>3, Zenon DEF Greeting
  <2>4. \A x : \A j \in 1 .. Len(<<x>>) : <<x>>[j] = x
    OBVIOUS
  <2>5. s.sent[i] = Handshake
    BY <2>3, <2>4, Zenon
  <2> QED
    BY <2>5
<1> DEFINE a == Len(s.replies)
           l == Len(s.sent)
           p == Len(s.pipeline)
           k == a + i
<1>6. a \in Nat /\ l \in Nat /\ p \in Nat /\ p = a + l /\ i \in 1 .. l /\ s.sent[i] = s.pipeline[k]
  BY <1>1, <1>2, <1>5 DEF Wire
<1>7. p <= Len(q) /\ \A j \in 1 .. p : s.pipeline[j] = q[j]
  BY <1>1 DEF Serves
<1>8. k \in 1 .. p /\ k \in 1 .. Len(q)
  <2> HIDE DEF a, l, p
  <2> QED
    BY <1>2, <1>6, <1>7
<1>9. s.sent[i] = q[k] /\ made[q[k].n].by = current_user
  BY <1>1, <1>6, <1>7, <1>8 DEF QueueInv
<1> QED
  BY <1>4, <1>8, <1>9

\* Whose writes are on the wire.
LEMMA OwnerFollows ==
    ASSUME PipelineInv
    PROVE  SentByOwner
<1> SUFFICES ASSUME NEW m \in ToSet(stream.sent), m # Handshake
             PROVE  made[m.n].by = stream.token
  BY DEF SentByOwner
<1>1. DOMAIN stream.sent = 1 .. Len(stream.sent)
  BY InvFacts, StreamFields, LenProperties
<1>2. PICK i \in 1 .. Len(stream.sent) : m = stream.sent[i]
  BY <1>1 DEF ToSet
<1>3. IsOpen(stream) /\ made[m.n].by = current_user
  BY <1>2, SentIsQueued
<1> QED
  BY <1>3, InvFacts DEF TokenInv

\* Whose writes are queued.
LEMMA OwnQueueFollows ==
    ASSUME PipelineInv
    PROVE  OwnQueue
<1>1. \A u \in User : DOMAIN queue[u] = 1 .. Len(queue[u])
  BY InvFacts, TypeFacts, LenProperties
<1> QED
  BY <1>1, InvFacts DEF OwnQueue, QueueInv, ToSet

\* The state of the device stays well formed (TypeOK), whatever the worker queue,
\* the stream and the backend do.
THEOREM PipelineTypeCorrect == Spec => []TypeOK
<1>1. PipelineInv => TypeOK
  BY DEF PipelineInv
<1> QED
  BY <1>1, PipelineInvariant, PTL

\* RemoteStore's pipeline is the beginning of the mutation queue of the current
\* user, over every refill, restart and change of account.
THEOREM PipelineServesQueue == Spec => []PipelineIsQueueHead
<1>1. PipelineInv => PipelineIsQueueHead
  BY PrefixHolds
<1> QED
  BY <1>1, PipelineInvariant, PTL

\* The assertions of stream.cc and remote_store.cc never end the process: an
\* answer finds its write, and a token finds the stream that asked for it.
THEOREM NoAssertionFails == Spec => []AssertionsHold
<1>1. PipelineInv => AssertionsHold
  BY AssertionsFollow
<1> QED
  BY <1>1, PipelineInvariant, PTL

\* A write goes out only with the token of the account that made it.
THEOREM WritesGoOutByOwner == Spec => []SentByOwner
<1>1. PipelineInv => SentByOwner
  BY OwnerFollows
<1> QED
  BY <1>1, PipelineInvariant, PTL

\* A write is queued for the account that made it, though the worker queue runs
\* the write later.
THEOREM WritesQueuedForOwner == Spec => []OwnQueue
<1>1. PipelineInv => OwnQueue
  BY OwnQueueFollows
<1> QED
  BY <1>1, PipelineInvariant, PTL

-----------------------------------------------------------------------------
(***************************************************************************)
(* What the writes come to.  The backend holds the last write of an        *)
(* account when all are decided: LastWriteStored.  And WritePipeline       *)
(* implements FirestoreContract: what the modules of the app rely on when  *)
(* they write is what the SDK's write path gives them.                     *)
(***************************************************************************)

\* x is the last write of u that was decided and not refused, 0 if none.
Settled(u, x) ==
    LET good == {0} \union {n \in decided : made[n].by = u /\ ~made[n].bad}
    IN  x \in good /\ \A y \in good : y <= x

\* Writes are decided in the order they were made, account by account.
DecidedInv ==
    \A n \in decided :
        /\ n <= Len(made)
        /\ \A i \in 1 .. Len(queue[made[n].by]) : n < queue[made[n].by][i].n
        /\ \A i \in 1 .. Len(worker) : worker[i].type = "write" => n < worker[i].n

\* The backend holds the last write that was decided, or a queued one that it
\* has taken.
HeldInv ==
    \A u \in User :
        \/ Settled(u, doc[u])
        \/ \E i \in 1 .. Len(queue[u]) :
               ~made[queue[u][i].n].bad /\ doc[u] = queue[u][i].n

\* The answers on the wire are the backend's verdicts on the writes of the
\* pipeline, in its order, and the backend holds what it acknowledged last.
VerdictInv ==
    stream.handshake => \A i \in 1 .. Len(stream.replies) :
        /\ stream.replies[i] = "refused" <=> made[stream.pipeline[i].n].bad
        /\ stream.replies[i] = "ack" /\ (i = Len(stream.replies) \/ stream.replies[i + 1] = "refused")
               => doc[current_user] = stream.pipeline[i].n

StoreInv == DecidedInv /\ HeldInv /\ VerdictInv

-----------------------------------------------------------------------------
(***************************************************************************)
(* Steps that make, queue and decide nothing.                              *)
(***************************************************************************)

\* What is known of the decided writes.
LEMMA DecidedFacts ==
    ASSUME TypeOK, DecidedInv
    PROVE  \A n \in decided : n \in Nat /\ n \in 1 .. Len(made) /\ made[n].by \in User
<1>1. decided \subseteq Write /\ \A n \in Write : n \in Nat /\ n > 0
  BY PipelineAssumption DEF TypeOK, Write
<1>2. \A n \in decided : n <= Len(made)
  BY DEF DecidedInv
<1> QED
  BY <1>1, <1>2, TypeFacts

\* The worker queue gets no new write.
NoNewWrite ==
    \A i \in 1 .. Len(worker') : worker'[i].type = "write" =>
        \E j \in 1 .. Len(worker) : worker'[i] = worker[j]

\* Running a task and queueing one that is no write are such steps.
LEMMA TasksOnly ==
    ASSUME TypeOK
    PROVE  /\ worker' = worker => NoNewWrite
           /\ worker' = << >> => NoNewWrite
           /\ worker # << >> /\ worker' = Tail(worker) => NoNewWrite
           /\ \A t \in Task : t.type # "write" /\ worker' = Append(worker, t) => NoNewWrite
<1>1. worker \in Seq(Task) /\ Len(worker) \in Nat
  BY TypeFacts
<1>2. worker' = worker => NoNewWrite
  BY DEF NoNewWrite
<1>3. worker' = << >> => NoNewWrite
  BY EmptySeq DEF NoNewWrite
<1>4. ASSUME worker # << >>, worker' = Tail(worker)
      PROVE  NoNewWrite
  <2>1. /\ Len(Tail(worker)) = Len(worker) - 1
        /\ \A i \in 1 .. Len(Tail(worker)) : Tail(worker)[i] = worker[i + 1]
    BY <1>1, <1>4, HeadTailProperties
  <2>2. \A i \in 1 .. Len(Tail(worker)) : i + 1 \in 1 .. Len(worker)
    BY <1>1, <2>1
  <2> QED
    BY <1>4, <2>1, <2>2 DEF NoNewWrite
<1>5. ASSUME NEW t \in Task, t.type # "write", worker' = Append(worker, t)
      PROVE  NoNewWrite
  <2>1. /\ Len(Append(worker, t)) = Len(worker) + 1
        /\ \A i \in 1 .. Len(worker) : Append(worker, t)[i] = worker[i]
        /\ Append(worker, t)[Len(worker) + 1] = t
    BY <1>1, <1>5, AppendProperties
  <2>2. \A i \in 1 .. Len(worker) + 1 : i \in 1 .. Len(worker) \/ i = Len(worker) + 1
    BY <1>1
  <2> QED
    BY <1>5, <2>1, <2>2 DEF NoNewWrite
<1> QED
  BY <1>2, <1>3, <1>4, <1>5

\* Steps that leave the answers alone or give the stream up.
LEMMA QuietKeeps ==
    ASSUME PipelineInv, StoreInv, UNCHANGED <<made, decided, queue>>, NoNewWrite,
           doc' = doc \/ GivenUp,
           stream'.handshake =>
               \/ Len(stream'.replies) = 0
               \/ /\ doc' = doc /\ current_user' = current_user /\ stream.handshake
                  /\ stream'.replies = stream.replies /\ stream'.pipeline = stream.pipeline
    PROVE  StoreInv'
<1>1. DecidedInv'
  BY DEF StoreInv, DecidedInv, NoNewWrite
<1>2. HeldInv'
  <2> SUFFICES ASSUME NEW u \in User
               PROVE  \/ Settled(u, doc[u])'
                      \/ \E i \in 1 .. Len(queue[u]) :
                             ~made[queue[u][i].n].bad /\ doc'[u] = queue[u][i].n
    BY DEF HeldInv
  <2>1. CASE doc'[u] = doc[u]
    BY <2>1 DEF StoreInv, HeldInv, Settled
  <2>2. CASE doc'[u] # doc[u]
    <3>1. GivenUp /\ TypeOK
      BY <2>2, InvFacts
    <3>2. PICK i \in 1 .. Len(stream.sent) :
              /\ stream.sent[i] # Handshake /\ ~Bad(stream.sent[i])
              /\ made[stream.sent[i].n].by = u /\ doc'[u] = stream.sent[i].n
      BY <2>2, <3>1, GivenUpStores
    <3>3. PICK k \in 1 .. Len(queue[current_user]) :
              stream.sent[i] = queue[current_user][k] /\ made[stream.sent[i].n].by = current_user
      BY <3>2, SentIsQueued
    <3>4. ~made[stream.sent[i].n].bad
      BY <3>2 DEF Bad
    <3> QED
      BY <3>2, <3>3, <3>4
  <2> QED
    BY <2>1, <2>2
<1>3. VerdictInv'
  <2> SUFFICES ASSUME stream'.handshake, NEW i \in 1 .. Len(stream'.replies)
               PROVE  /\ stream'.replies[i] = "refused" <=> made[stream'.pipeline[i].n].bad
                      /\ stream'.replies[i] = "ack"
                           /\ (i = Len(stream'.replies) \/ stream'.replies[i + 1] = "refused")
                           => doc'[current_user'] = stream'.pipeline[i].n
    BY DEF VerdictInv
  <2>1. /\ doc' = doc /\ current_user' = current_user /\ stream.handshake
        /\ stream'.replies = stream.replies /\ stream'.pipeline = stream.pipeline
    <3>1. Len(stream'.replies) # 0
      <4>1. SUFFICES ASSUME Len(stream'.replies) = 0 PROVE FALSE
        OBVIOUS
      <4>2. i \in 1 .. 0
        BY <4>1
      <4> QED
        BY <4>2
    <3> QED
      BY <3>1
  <2> QED
    BY <2>1 DEF StoreInv, VerdictInv
<1> QED
  BY <1>1, <1>2, <1>3 DEF StoreInv

\* Steps of the stream that end with no handshake.
LEMMA ClosedKeeps ==
    ASSUME PipelineInv, StoreInv, UNCHANGED <<made, decided, queue>>, NoNewWrite, GivenUp,
           ~stream'.handshake
    PROVE  StoreInv'
    BY QuietKeeps

\* The stream breaks.
LEMMA StreamCloseStores ==
    ASSUME PipelineInv, StoreInv, OnWriteStreamClose
    PROVE  StoreInv'
<1>1. /\ stream' = StartIfNeeded(Close(stream, "Error")) /\ GivenUp /\ worker' = worker
      /\ UNCHANGED <<made, decided, queue>>
  BY DEF OnWriteStreamClose
<1>2. ~stream'.handshake
  <2>1. /\ StreamInv(Close(stream, "Error"), queue[current_user], worker)
        /\ ~Close(stream, "Error").handshake
    BY InvFacts, CloseKeeps DEF StreamInv
  <2> QED
    BY <1>1, <2>1, StartKeeps
<1> QED
  BY <1>1, <1>2, ClosedKeeps, TasksOnly, InvFacts

\* The stream has nothing to send and is stopped.
LEMMA IdleStores ==
    ASSUME PipelineInv, StoreInv, IdleTimeout
    PROVE  StoreInv'
<1>1. stream' = Stop(stream) /\ GivenUp /\ worker' = worker /\ UNCHANGED <<made, decided, queue>>
  BY DEF IdleTimeout
<1>2. ~stream'.handshake
  BY <1>1, InvFacts, StopKeeps
<1> QED
  BY <1>1, <1>2, ClosedKeeps, TasksOnly, InvFacts

\* The network changes.
LEMMA ConnectivityStores ==
    ASSUME PipelineInv, StoreInv, ConnectivityChanged
    PROVE  StoreInv'
<1>1. /\ stream' = RestartNetwork(stream, queue[current_user]) /\ GivenUp /\ worker' = worker
      /\ UNCHANGED <<made, decided, queue>>
  BY DEF ConnectivityChanged
<1>2. ~stream'.handshake
  BY <1>1, InvFacts, RestartKeeps
<1> QED
  BY <1>1, <1>2, ClosedKeeps, TasksOnly, InvFacts

\* The SDK goes over to another user, or to a new token.
LEMMA RunCredentialStores ==
    ASSUME PipelineInv, StoreInv, RunCredential
    PROVE  StoreInv'
<1>1. /\ worker # << >> /\ Head(worker).type = "credential" /\ worker' = Tail(worker)
      /\ stream' = RestartNetwork(stream, queue[Head(worker).user]) /\ GivenUp
      /\ UNCHANGED <<made, decided, queue>>
  BY DEF RunCredential, NextTask
<1>2. Head(worker).user \in User
  BY <1>1, InvFacts, HeadIsOfCurrentUser, TaskFields
<1>3. queue[Head(worker).user] \in Seq(Batch) /\ Ordered(queue[Head(worker).user])
  BY <1>2, InvFacts, TypeFacts DEF QueueInv
<1>4. ~stream'.handshake
  BY <1>1, <1>3, InvFacts, RestartKeeps
<1> QED
  BY <1>1, <1>4, ClosedKeeps, TasksOnly, InvFacts

\* The process starts again.
LEMMA RestartStores ==
    ASSUME PipelineInv, StoreInv, Restart
    PROVE  StoreInv'
<1>1. /\ stream' = FillWritePipeline(NewStream, queue[auth]) /\ GivenUp /\ worker' = << >>
      /\ UNCHANGED <<made, decided, queue>>
  BY DEF Restart
<1>2. queue[auth] \in Seq(Batch) /\ Ordered(queue[auth])
  BY InvFacts, TypeFacts DEF QueueInv
<1>3. ~stream'.handshake
  BY <1>1, <1>2, NewStreamServes, FillKeeps
<1> QED
  BY <1>1, <1>3, ClosedKeeps, TasksOnly, InvFacts

\* The token has arrived: the stream stays as it was, closes, or opens without
\* anything answered yet.
LEMMA RunResumeStores ==
    ASSUME PipelineInv, StoreInv, RunResume
    PROVE  StoreInv'
<1> DEFINE task == Head(worker)
<1>1. /\ worker # << >> /\ task.type = "resume" /\ worker' = Tail(worker)
      /\ stream' = IF task.close_count # stream.close_count THEN stream
                   ELSE IF task.token = NoToken THEN StartIfNeeded(Close(stream, "Error"))
                   ELSE Sent([stream EXCEPT !.state = "Open", !.token = task.token], <<Handshake>>)
      /\ UNCHANGED <<made, decided, queue>> /\ doc' = doc /\ current_user' = current_user
  BY DEF RunResume, NextTask, outside
<1>2. /\ StreamInv(stream, queue[current_user], worker) /\ TypeOK /\ stream \in Stream
      /\ Wire(stream) /\ Counted(stream, worker) /\ worker \in Seq(Task)
  BY InvFacts DEF StreamInv
<1>3. task = worker[1] /\ 1 \in 1 .. Len(worker)
  BY <1>1, InvFacts, HeadIsOfCurrentUser
<1>4. NoNewWrite
  BY <1>1, <1>2, TasksOnly
<1>5. CASE task.close_count # stream.close_count
  BY <1>1, <1>4, <1>5, QuietKeeps
<1>6. CASE task.close_count = stream.close_count /\ task.token = NoToken
  <2>1. /\ StreamInv(Close(stream, "Error"), queue[current_user], worker)
        /\ ~Close(stream, "Error").handshake
    BY <1>2, CloseKeeps DEF StreamInv
  <2>2. ~stream'.handshake
    BY <1>1, <1>6, <2>1, StartKeeps
  <2> QED
    BY <1>1, <1>4, <2>2, QuietKeeps
<1>7. CASE task.close_count = stream.close_count /\ task.token # NoToken
  <2>1. stream.state = "Starting"
    BY <1>1, <1>2, <1>3, <1>7 DEF Counted
  <2>2. ~stream.handshake /\ stream.handshake \in BOOLEAN
    BY <1>2, <2>1, StreamFields DEF Wire, IsOpen
  <2>3. stream'.handshake = stream.handshake
    BY <1>1, <1>2, <1>7 DEF Sent, Stream
  <2>4. ~stream'.handshake
    BY <2>2, <2>3
  <2> QED
    BY <1>1, <1>4, <2>4, QuietKeeps
<1> QED
  BY <1>5, <1>6, <1>7

\* The handshake is answered, and nothing else yet.
LEMMA HandshakeStores ==
    ASSUME PipelineInv, StoreInv, OnWriteStreamHandshakeComplete
    PROVE  StoreInv'
<1> DEFINE s == stream
<1>1. /\ Reply("handshake") /\ worker' = worker /\ UNCHANGED <<made, decided, queue>> /\ doc' = doc
      /\ stream' = Sent([s EXCEPT !.handshake = TRUE, !.replies = Tail(@)], s.pipeline)
  BY DEF OnWriteStreamHandshakeComplete, outside
<1>2. s \in Stream /\ Wire(s) /\ s.replies # << >> /\ Head(s.replies) = "handshake"
  BY <1>1, InvFacts DEF StreamInv, Reply
<1>3. s.replies \in Seq({"handshake", "ack", "refused"}) /\ s.replies[1] = "handshake"
      /\ 1 \in 1 .. Len(s.replies)
  BY <1>2, StreamFields, EmptySeq
<1>4. ~s.handshake
  BY <1>2, <1>3 DEF Wire
<1>5. IsOpen(s)
  BY <1>2 DEF Wire
<1>6. Greeting(s.sent, s.replies)
  BY <1>2, <1>4, <1>5 DEF Wire
<1>7. s.replies = <<"handshake">>
  BY <1>2, <1>6, Zenon DEF Greeting
<1>8. stream'.replies = Tail(s.replies)
  BY <1>1, <1>2 DEF Sent, Stream
<1>9. Len(stream'.replies) = 0
  <2>1. Len(<<"handshake">>) = 1
    OBVIOUS
  <2>2. Len(s.replies) = 1
    BY <1>7, <2>1, Zenon
  <2> QED
    BY <1>2, <1>3, <1>8, <2>2, HeadTailProperties
<1>10. NoNewWrite
  BY <1>1, TasksOnly, InvFacts
<1> QED
  BY <1>1, <1>9, <1>10, QuietKeeps

\* The backoff has elapsed.
LEMMA BackoffStores ==
    ASSUME PipelineInv, StoreInv, BackoffElapsed
    PROVE  StoreInv'
<1>1. /\ stream.state = "Backoff" /\ stream' = Start([stream EXCEPT !.state = "Initial"])
      /\ worker' = worker /\ UNCHANGED <<made, decided, queue>> /\ doc' = doc
  BY DEF BackoffElapsed, outside
<1>2. stream \in Stream /\ Wire(stream)
  BY InvFacts DEF StreamInv
<1>3. ~stream.handshake /\ stream.handshake \in BOOLEAN
  BY <1>1, <1>2, StreamFields DEF Wire, IsOpen
<1>4. stream'.handshake = stream.handshake
  BY <1>1, <1>2 DEF Start, Stream
<1>5. ~stream'.handshake
  BY <1>3, <1>4
<1>6. NoNewWrite
  BY <1>1, TasksOnly, InvFacts
<1> QED
  BY <1>1, <1>5, <1>6, QuietKeeps

\* A token request is answered or fails.
LEMMA TokenStores ==
    ASSUME PipelineInv, StoreInv, NEW c \in stream.requests, NEW token \in {auth, NoToken},
           stream' = [stream EXCEPT !.requests = @ \ {c}],
           worker' = Append(worker, ResumeTask(c, token)),
           UNCHANGED <<current_user, made, decided, queue, doc>>
    PROVE  StoreInv'
<1>1. stream \in Stream /\ TypeOK
  BY InvFacts
<1>2. /\ stream'.handshake = stream.handshake
      /\ stream'.replies = stream.replies /\ stream'.pipeline = stream.pipeline
  BY <1>1 DEF Stream
<1>3. c \in Nat /\ auth \in User
  BY <1>1, StreamFields, TypeFacts
<1>4. ResumeTask(c, token) \in Task /\ ResumeTask(c, token).type # "write"
  BY <1>3 DEF ResumeTask, Task
<1>5. NoNewWrite
  BY <1>1, <1>4, TasksOnly
<1> QED
  BY <1>2, <1>5, QuietKeeps

\* Somebody signs in or out.
LEMMA AuthStores ==
    ASSUME PipelineInv, StoreInv, NEW u \in User, AuthStateDidChange(u)
    PROVE  StoreInv'
<1>1. /\ worker' = Append(worker, CredentialTask(u)) /\ stream' = stream
      /\ UNCHANGED <<current_user, made, decided, queue, doc>>
  BY DEF AuthStateDidChange, device
<1>2. CredentialTask(u) \in Task /\ CredentialTask(u).type # "write"
  BY DEF CredentialTask, Task
<1>3. NoNewWrite
  BY <1>1, <1>2, TasksOnly, InvFacts
<1> QED
  BY <1>1, <1>3, QuietKeeps

\* Nothing happens.
LEMMA StutterStores ==
    ASSUME PipelineInv, StoreInv, UNCHANGED vars
    PROVE  StoreInv'
<1>1. worker' = worker /\ stream' = stream /\ UNCHANGED <<current_user, made, decided, queue, doc>>
  BY DEF vars, device, outside
<1>2. NoNewWrite
  BY <1>1, TasksOnly, InvFacts
<1> QED
  BY <1>1, <1>2, QuietKeeps

-----------------------------------------------------------------------------
(***************************************************************************)
(* Steps that make, queue, store or decide a write.                        *)
(***************************************************************************)

\* The answers that have come in are of the first writes of the queue.
LEMMA AnsweredIsQueued ==
    ASSUME PipelineInv, stream.handshake, NEW i \in 1 .. Len(stream.replies)
    PROVE  /\ i \in 1 .. Len(stream.pipeline) /\ i \in 1 .. Len(queue[current_user])
           /\ stream.pipeline[i] = queue[current_user][i]
           /\ queue[current_user][i].n \in 1 .. Len(made)
           /\ made[queue[current_user][i].n].by = current_user
<1> DEFINE a == Len(stream.replies)
           l == Len(stream.sent)
           p == Len(stream.pipeline)
           q == queue[current_user]
<1>1. stream \in Stream /\ Wire(stream) /\ Serves(stream, q) /\ QueueInv /\ TypeOK
      /\ current_user \in User
  BY InvFacts DEF StreamInv
<1>2. a \in Nat /\ l \in Nat /\ p \in Nat /\ p = a + l /\ Len(q) \in Nat
  BY <1>1, StreamFields, TypeFacts DEF Wire
<1>3. p <= Len(q) /\ \A j \in 1 .. p : stream.pipeline[j] = q[j]
  BY <1>1 DEF Serves
<1>4. i \in 1 .. a
  OBVIOUS
<1>5. i \in 1 .. p /\ i \in 1 .. Len(q)
  <2> HIDE DEF a, l, p
  <2> QED
    BY <1>2, <1>3, <1>4
<1>6. q[i].n \in Nat /\ q[i].n > 0 /\ q[i].n <= Len(made) /\ made[q[i].n].by = current_user
      /\ Len(made) \in Nat
  BY <1>1, <1>5, TypeFacts DEF QueueInv
<1> QED
  BY <1>3, <1>5, <1>6

\* What taking one write does to the database.
LEMMA StoredOne ==
    ASSUME TypeOK, NEW m \in Batch
    PROVE  \A u \in User : Stored(<<m>>)[u] = IF made[m.n].by = u THEN m.n ELSE doc[u]
<1>1. m # Handshake /\ m.n \in Int
  BY PipelineAssumption DEF Batch, Handshake, Write
<1>2. ToSet(<<m>>) = {m}
  BY DEF ToSet
<1> SUFFICES ASSUME NEW u \in User
             PROVE  Stored(<<m>>)[u] = IF made[m.n].by = u THEN m.n ELSE doc[u]
  OBVIOUS
<1> DEFINE of == {x.n : x \in {y \in ToSet(<<m>>) : y # Handshake /\ made[y.n].by = u}}
<1>3. Stored(<<m>>)[u] = IF of = {} THEN doc[u] ELSE Max(of)
  BY DEF Stored
<1>4. of = IF made[m.n].by = u THEN {m.n} ELSE {}
  BY <1>1, <1>2
<1>5. Max({m.n}) = m.n
  BY <1>1, MaxIs, SMTT(30)
<1> HIDE DEF of
<1> QED
  BY <1>3, <1>4, <1>5

\* The backend takes a message.
LEMMA BackendReadsStores ==
    ASSUME PipelineInv, StoreInv, BackendReads
    PROVE  StoreInv'
<1> DEFINE s == stream
           q == queue[current_user]
           m == Head(s.sent)
           reply == IF m = Handshake THEN "handshake" ELSE IF Bad(m) THEN "refused" ELSE "ack"
           a == Len(s.replies)
<1>1. /\ s.sent # << >> /\ ~Refused
      /\ stream' = [s EXCEPT !.sent = Tail(@), !.replies = Append(@, reply)]
      /\ doc' = IF reply = "ack" THEN Stored(<<m>>) ELSE doc
      /\ UNCHANGED <<worker, current_user, queue, made, decided>>
  BY DEF BackendReads
<1>2. /\ s \in Stream /\ Wire(s) /\ Serves(s, q) /\ TypeOK /\ QueueInv /\ current_user \in User
      /\ q \in Seq(Batch) /\ Len(q) \in Nat
  BY InvFacts, LenProperties DEF StreamInv
<1>3. /\ s.sent \in Seq(Batch \union {Handshake}) /\ s.pipeline \in Seq(Batch)
      /\ s.replies \in Seq({"handshake", "ack", "refused"})
      /\ Len(s.pipeline) \in Nat /\ Len(s.sent) \in Nat /\ a \in Nat
      /\ s.handshake \in BOOLEAN
  BY <1>2, StreamFields
<1>4. m = s.sent[1] /\ m \in Batch \union {Handshake} /\ 1 \in 1 .. Len(s.sent)
  BY <1>1, <1>3, HeadTailProperties, EmptySeq
<1>5. \A i \in 1 .. a : s.replies[i] # "refused"
  <2>1. DOMAIN s.replies = 1 .. Len(s.replies)
    BY <1>3, LenProperties
  <2> QED
    BY <2>1, <1>1 DEF Refused, ToSet
<1>6. /\ stream'.handshake = s.handshake /\ stream'.pipeline = s.pipeline
      /\ stream'.replies = Append(s.replies, reply)
  BY <1>1, <1>2 DEF Stream
<1>7. NoNewWrite
  BY <1>1, <1>2, TasksOnly
<1>8. CASE m = Handshake
  <2>1. doc' = doc
    BY <1>1, <1>8
  <2>2. ~s.handshake
    <3>1. SUFFICES ASSUME s.handshake PROVE FALSE
      OBVIOUS
    <3>2. m = s.pipeline[a + 1] /\ Len(s.pipeline) = a + Len(s.sent)
      BY <3>1, <1>2, <1>4 DEF Wire
    <3>3. a + 1 \in 1 .. Len(s.pipeline)
      <4> DEFINE l == Len(s.sent)
                 p == Len(s.pipeline)
      <4>1. a \in Nat /\ l \in Nat /\ 1 \in 1 .. l /\ p = a + l
        BY <1>3, <1>4, <3>2
      <4>2. a + 1 \in 1 .. p
        <5> HIDE DEF a, l, p
        <5> QED
          BY <4>1
      <4> QED
        BY <4>2
    <3>4. m \in Batch
      BY <3>2, <3>3, <1>3, ElementOfSeq
    <3> QED
      BY <3>4, <1>8 DEF Batch, Handshake
  <2>3. ~stream'.handshake
    BY <2>2, <1>6
  <2>4. UNCHANGED <<made, decided, queue>>
    BY <1>1
  <2> HIDE DEF m, reply
  <2> QED
    BY <2>1, <2>3, <2>4, <1>7, QuietKeeps
<1>9. CASE m # Handshake
  <2>1. PICK k \in 1 .. Len(q) : m = q[k] /\ made[m.n].by = current_user
    BY <1>4, <1>9, SentIsQueued
  <2>2. m \in Batch
    BY <1>4, <1>9
  <2>3. Bad(m) <=> made[m.n].bad
    BY <1>9 DEF Bad
  <2>4. reply = IF Bad(m) THEN "refused" ELSE "ack"
    BY <1>9
  <2>5. \A u \in User : doc'[u] = IF u = current_user /\ ~made[m.n].bad THEN m.n ELSE doc[u]
    <3>1. \A u \in User : Stored(<<m>>)[u] = IF made[m.n].by = u THEN m.n ELSE doc[u]
      BY <2>2, <1>2, StoredOne
    <3>2. doc' = IF ~made[m.n].bad THEN Stored(<<m>>) ELSE doc
      BY <2>3, <2>4, <1>1
    <3> HIDE DEF m
    <3> QED
      BY <3>1, <3>2, <2>1
  <2> HIDE DEF m, reply
  <2>6. /\ Len(stream'.replies) = a + 1 /\ stream'.replies[a + 1] = reply
        /\ \A i \in 1 .. a : stream'.replies[i] = s.replies[i]
    <3>1. reply \in {"handshake", "ack", "refused"}
      BY <2>4
    <3> QED
      BY <3>1, <1>3, <1>6, AppendProperties
  <2>7. DecidedInv'
    BY <1>1 DEF StoreInv, DecidedInv
  <2>8. HeldInv'
    <3> SUFFICES ASSUME NEW u \in User
                 PROVE  \/ Settled(u, doc[u])'
                        \/ \E i \in 1 .. Len(queue[u]) :
                               ~made[queue[u][i].n].bad /\ doc'[u] = queue[u][i].n
      BY <1>1 DEF HeldInv
    <3>1. CASE u = current_user /\ ~made[m.n].bad
      BY <3>1, <2>1, <2>5
    <3>2. CASE ~(u = current_user /\ ~made[m.n].bad)
      <4>1. doc'[u] = doc[u]
        BY <3>2, <2>5
      <4> QED
        BY <4>1, <1>1 DEF StoreInv, HeldInv, Settled
    <3> QED
      BY <3>1, <3>2
  <2>9. VerdictInv'
    <3> SUFFICES ASSUME s.handshake, NEW i \in 1 .. a + 1
                 PROVE  /\ stream'.replies[i] = "refused" <=> made[s.pipeline[i].n].bad
                        /\ stream'.replies[i] = "ack"
                             /\ (i = a + 1 \/ stream'.replies[i + 1] = "refused")
                             => doc'[current_user] = s.pipeline[i].n
      BY <1>1, <1>6, <2>6 DEF VerdictInv
    <3>1. m = s.pipeline[a + 1]
      BY <1>2, <1>4 DEF Wire
    <3>2. CASE i = a + 1
      <4>1. stream'.replies[i] = "refused" <=> made[m.n].bad
        BY <3>2, <2>3, <2>4, <2>6
      <4>2. ~made[m.n].bad => doc'[current_user] = m.n
        BY <2>5, <1>2
      <4>3. stream'.replies[i] = "ack" => ~made[m.n].bad
        BY <4>1
      <4> QED
        BY <4>1, <4>2, <4>3, <3>1, <3>2
    <3>3. CASE i # a + 1
      <4>1. i \in 1 .. a /\ i + 1 \in 1 .. a + 1 /\ (i + 1 = a + 1 => i = a)
        <5>1. a \in Nat /\ i \in 1 .. a + 1
          BY <1>3
        <5> HIDE DEF a
        <5> QED
          BY <5>1, <3>3
      <4>2. stream'.replies[i] = s.replies[i]
        BY <4>1, <2>6
      <4>3. s.replies[i] = "refused" <=> made[s.pipeline[i].n].bad
        BY <4>1 DEF StoreInv, VerdictInv
      <4>4. ASSUME stream'.replies[i] = "ack", stream'.replies[i + 1] = "refused"
            PROVE  doc'[current_user] = s.pipeline[i].n
        <5>1. i + 1 = a + 1
          <6>1. SUFFICES ASSUME i + 1 # a + 1 PROVE FALSE
            OBVIOUS
          <6>2. i + 1 \in 1 .. a
            BY <6>1, <4>1, <1>3
          <6> QED
            BY <6>2, <4>4, <2>6, <1>5
        <5>2. made[m.n].bad
          BY <5>1, <4>4, <2>3, <2>4, <2>6
        <5>3. doc'[current_user] = doc[current_user]
          BY <5>2, <2>5, <1>2
        <5>4. i = a /\ s.replies[i] = "ack"
          BY <5>1, <4>1, <4>2, <4>4
        <5> QED
          BY <5>3, <5>4, <4>1 DEF StoreInv, VerdictInv
      <4> QED
        BY <4>2, <4>3, <4>4, <3>3
    <3> QED
      BY <3>2, <3>3
  <2> QED
    BY <2>7, <2>8, <2>9 DEF StoreInv
<1> QED
  BY <1>8, <1>9

\* A handler of the app makes a write.
LEMMA AppWritesStores ==
    ASSUME PipelineInv, StoreInv, NEW bad \in BOOLEAN, AppWrites(bad)
    PROVE  StoreInv'
<1> DEFINE n == Len(made) + 1
           t == WriteTask(n)
           w == [by |-> auth, bad |-> bad]
<1>1. /\ auth \in Account /\ made' = Append(made, w) /\ worker' = Append(worker, t)
      /\ UNCHANGED <<current_user, queue, stream, doc, decided>>
  BY DEF AppWrites, device
<1>2. TypeOK /\ QueueInv /\ Len(made) \in Nat /\ worker \in Seq(Task) /\ Len(worker) \in Nat
  BY InvFacts, TypeFacts
<1>3. \A i \in 1 .. Len(made) : made'[i] = made[i]
  <2>1. made \in Seq([by : Account, bad : BOOLEAN]) /\ w \in [by : Account, bad : BOOLEAN]
    BY <1>1, <1>2 DEF TypeOK
  <2> QED
    BY <2>1, <1>1, AppendProperties
<1>4. Len(made') = n
  <2>1. made \in Seq([by : Account, bad : BOOLEAN]) /\ w \in [by : Account, bad : BOOLEAN]
    BY <1>1, <1>2 DEF TypeOK
  <2> HIDE DEF w
  <2> QED
    BY <2>1, <1>1, AppendProperties
<1>5. n \in Write
  <2>1. Len(made) < MaxWrites
    BY DEF AppWrites
  <2> QED
    BY <2>1, <1>2, PipelineAssumption DEF Write
<1>6. t \in Task /\ t.n = n
  BY <1>5 DEF Task, WriteTask
<1> HIDE DEF t, w
<1>7. /\ Len(worker') = Len(worker) + 1 /\ worker'[Len(worker) + 1] = t
      /\ \A i \in 1 .. Len(worker) : worker'[i] = worker[i]
  BY <1>1, <1>2, <1>6, AppendProperties
<1>8. \A m \in decided : m \in Nat /\ m \in 1 .. Len(made) /\ made[m].by \in User
  BY <1>2, DecidedFacts DEF StoreInv
<1>9. ASSUME NEW u \in User, NEW i \in 1 .. Len(queue[u])
      PROVE  made'[queue[u][i].n] = made[queue[u][i].n]
  <2>1. queue[u][i].n \in Nat /\ queue[u][i].n > 0 /\ queue[u][i].n <= Len(made)
    BY <1>2, TypeFacts DEF QueueInv
  <2> QED
    BY <2>1, <1>2, <1>3
<1>10. DecidedInv'
  <2> SUFFICES ASSUME NEW m \in decided
               PROVE  /\ m <= Len(made')
                      /\ \A i \in 1 .. Len(queue[made'[m].by]) : m < queue[made'[m].by][i].n
                      /\ \A i \in 1 .. Len(worker') : worker'[i].type = "write" => m < worker'[i].n
    BY <1>1 DEF DecidedInv
  <2>1. made'[m] = made[m] /\ m \in Nat /\ m <= Len(made)
    BY <1>3, <1>8
  <2>2. ASSUME NEW i \in 1 .. Len(worker'), worker'[i].type = "write"
        PROVE  m < worker'[i].n
    <3>1. CASE i \in 1 .. Len(worker)
      BY <3>1, <2>2, <1>7 DEF StoreInv, DecidedInv
    <3>2. CASE i = Len(worker) + 1
      BY <3>2, <2>1, <1>2, <1>6, <1>7
    <3> QED
      BY <3>1, <3>2, <1>2, <1>7
  <2> QED
    BY <2>1, <2>2, <1>2, <1>4 DEF StoreInv, DecidedInv
<1>11. HeldInv'
  <2> SUFFICES ASSUME NEW u \in User
               PROVE  \/ Settled(u, doc[u])'
                      \/ \E i \in 1 .. Len(queue[u]) :
                             ~made'[queue[u][i].n].bad /\ doc[u] = queue[u][i].n
    BY <1>1 DEF HeldInv
  <2>1. CASE Settled(u, doc[u])
    <3>1. \A m \in decided : made'[m] = made[m]
      BY <1>3, <1>8
    <3> QED
      BY <2>1, <3>1, <1>1 DEF Settled
  <2>2. CASE \E i \in 1 .. Len(queue[u]) : ~made[queue[u][i].n].bad /\ doc[u] = queue[u][i].n
    BY <2>2, <1>9
  <2> QED
    BY <2>1, <2>2 DEF StoreInv, HeldInv
<1>12. VerdictInv'
  <2> SUFFICES ASSUME stream.handshake, NEW i \in 1 .. Len(stream.replies)
               PROVE  made'[stream.pipeline[i].n] = made[stream.pipeline[i].n]
    BY <1>1 DEF StoreInv, VerdictInv
  <2> QED
    BY <1>3, AnsweredIsQueued
<1> QED
  BY <1>10, <1>11, <1>12 DEF StoreInv

\* The worker queue persists a write.
LEMMA RunWriteStores ==
    ASSUME PipelineInv, StoreInv, RunWrite
    PROVE  StoreInv'
<1> DEFINE me    == current_user
           batch == [id |-> next_batch_id, n |-> Head(worker).n]
           q     == Append(queue[me], batch)
           l     == Len(queue[me])
<1>1. /\ worker # << >> /\ Head(worker).type = "write" /\ worker' = Tail(worker)
      /\ queue' = [queue EXCEPT ![me] = q] /\ stream' = FillWritePipeline(stream, q)
      /\ UNCHANGED <<current_user, made, doc, decided>>
  BY DEF RunWrite, NextTask, outside
<1>2. /\ TypeOK /\ me \in User /\ queue[me] \in Seq(Batch) /\ l \in Nat
      /\ queue \in [User -> Seq(Batch)] /\ next_batch_id \in Nat \ {0}
      /\ stream \in Stream /\ StreamInv(stream, queue[me], worker) /\ worker \in Seq(Task)
  BY InvFacts, TypeFacts DEF TypeOK
<1>3. /\ Head(worker) = worker[1] /\ 1 \in 1 .. Len(worker) /\ Head(worker).n \in Write
      /\ made[Head(worker).n].by = me
  BY <1>1, <1>2, InvFacts, HeadIsOfCurrentUser, TaskFields
<1>4. batch \in Batch /\ batch.n = Head(worker).n
  BY <1>2, <1>3 DEF Batch
<1> HIDE DEF batch
<1>5. /\ q \in Seq(Batch) /\ Len(q) = l + 1 /\ \A i \in 1 .. l : q[i] = queue[me][i]
      /\ q[l + 1] = batch
  BY <1>2, <1>4, AppendProperties
<1> HIDE DEF q
<1>6. queue'[me] = q /\ \A u \in User : u # me => queue'[u] = queue[u]
  BY <1>1, <1>2
<1>7. NoNewWrite
  BY <1>1, <1>2, TasksOnly
<1>8. \A u \in User : \A i \in 1 .. Len(queue[u]) : i \in 1 .. Len(queue'[u]) /\ queue'[u][i] = queue[u][i]
  BY <1>2, <1>5, <1>6
<1>9. DecidedInv'
  <2> SUFFICES ASSUME NEW n \in decided
               PROVE  /\ \A i \in 1 .. Len(queue'[made[n].by]) : n < queue'[made[n].by][i].n
                      /\ \A i \in 1 .. Len(worker') : worker'[i].type = "write" => n < worker'[i].n
    BY <1>1 DEF StoreInv, DecidedInv
  <2>1. \A i \in 1 .. Len(worker') : worker'[i].type = "write" => n < worker'[i].n
    BY <1>7 DEF StoreInv, DecidedInv, NoNewWrite
  <2>2. \A i \in 1 .. Len(queue[made[n].by]) : n < queue[made[n].by][i].n
    BY DEF StoreInv, DecidedInv
  <2>3. n < Head(worker).n
    BY <1>1, <1>3 DEF StoreInv, DecidedInv
  <2>4. made[n].by \in User
    BY <1>2, DecidedFacts DEF StoreInv
  <2>5. CASE made[n].by = me
    <3> SUFFICES ASSUME NEW i \in 1 .. l + 1 PROVE n < q[i].n
      BY <2>1, <2>5, <1>5, <1>6
    <3>1. CASE i \in 1 .. l
      BY <3>1, <2>2, <2>5, <1>5
    <3>2. CASE i = l + 1
      BY <3>2, <2>3, <1>4, <1>5
    <3> QED
      BY <3>1, <3>2, <1>2
  <2>6. CASE made[n].by # me
    BY <2>1, <2>2, <2>4, <2>6, <1>6
  <2> QED
    BY <2>5, <2>6
<1>10. HeldInv'
  <2> SUFFICES ASSUME NEW u \in User
               PROVE  \/ Settled(u, doc[u])'
                      \/ \E i \in 1 .. Len(queue'[u]) :
                             ~made[queue'[u][i].n].bad /\ doc[u] = queue'[u][i].n
    BY <1>1 DEF HeldInv
  <2>1. CASE Settled(u, doc[u])
    BY <2>1, <1>1 DEF Settled
  <2>2. CASE \E i \in 1 .. Len(queue[u]) : ~made[queue[u][i].n].bad /\ doc[u] = queue[u][i].n
    BY <2>2, <1>8
  <2> QED
    BY <2>1, <2>2 DEF StoreInv, HeldInv
<1>11. VerdictInv'
  <2>1. Serves(stream', q) /\ stream'.handshake = stream.handshake /\ stream'.replies = stream.replies
        /\ Len(stream.pipeline) <= Len(stream'.pipeline) /\ stream' \in Stream
    <3>1. PipelineInv'
      BY RunWriteKeeps
    <3>2. StreamInv(stream, queue[current_user], worker)'
      BY <3>1 DEF PipelineInv
    <3>3. StreamInv(stream', q, worker')
      BY <3>2, <1>1, <1>6
    <3>4. Ordered(q)
      <4>1. QueueInv'
        BY <3>1 DEF PipelineInv
      <4> QED
        BY <4>1, <1>2, <1>6 DEF QueueInv, Ordered
    <3>5. StreamInv(stream, q, worker)
      <4>1. Len(stream.pipeline) \in Nat
        BY <1>2, StreamFields
      <4>2. /\ Len(stream.pipeline) <= l /\ Len(stream.pipeline) <= kMaxPendingWrites
            /\ \A i \in 1 .. Len(stream.pipeline) : stream.pipeline[i] = queue[me][i]
        BY <1>2 DEF StreamInv, Serves
      <4>3. \A i \in 1 .. Len(stream.pipeline) : i \in 1 .. l
        <5> DEFINE p == Len(stream.pipeline)
        <5>1. p \in Nat /\ p <= l
          BY <4>1, <4>2
        <5>2. \A i \in 1 .. p : i \in 1 .. l
          <6> HIDE DEF p
          <6> QED
            BY <5>1, <1>2
        <5> QED
          BY <5>2
      <4>4. Len(stream.pipeline) <= Len(q)
        BY <4>1, <4>2, <1>2, <1>5
      <4>5. Serves(stream, q)
        BY <4>2, <4>3, <4>4, <1>5 DEF Serves
      <4> QED
        BY <4>5, <1>2 DEF StreamInv
    <3> QED
      BY <3>3, <3>4, <3>5, <1>1, <1>5, FillKeeps DEF StreamInv
  <2>2. Len(stream.pipeline) \in Nat /\ Len(stream'.pipeline) \in Nat
    BY <2>1, <1>2, StreamFields
  <2> SUFFICES ASSUME stream.handshake, NEW i \in 1 .. Len(stream.replies)
               PROVE  stream'.pipeline[i] = stream.pipeline[i]
    BY <2>1, <1>1, SMTT(30) DEF StoreInv, VerdictInv
  <2>3. i \in 1 .. Len(stream.pipeline) /\ i \in 1 .. l /\ stream.pipeline[i] = queue[me][i]
    BY AnsweredIsQueued
  <2>4. i \in 1 .. Len(stream'.pipeline)
    BY <2>1, <2>2, <2>3
  <2> QED
    BY <2>1, <2>3, <2>4, <1>5 DEF Serves
<1> QED
  BY <1>9, <1>10, <1>11 DEF StoreInv

\* The steps that answers cause: the oldest write of the queue is decided, by
\* the verdict of the backend.
LEMMA ResolveStores ==
    ASSUME PipelineInv, StoreInv, stream.handshake, stream.replies # << >>, stream.pipeline # << >>,
           NEW ok \in BOOLEAN, Resolve(Head(stream.pipeline), ok), doc' = doc
    PROVE  DecidedInv' /\ HeldInv'
<1> DEFINE me == current_user
           q  == queue[me]
           r  == Tail(q)
           n  == q[1].n
<1>1. /\ q # << >> /\ queue' = [queue EXCEPT ![me] = r] /\ decided' = decided \union {n}
      /\ UNCHANGED <<current_user, worker, made>>
  BY ResolveIs
<1>2. /\ TypeOK /\ QueueInv /\ TaskInv /\ me \in User /\ q \in Seq(Batch) /\ Ordered(q)
      /\ queue \in [User -> Seq(Batch)]
      /\ stream \in Stream /\ Wire(stream)
  BY InvFacts DEF TypeOK, StreamInv
<1>3. /\ Len(q) \in Nat /\ 1 \in 1 .. Len(q) /\ Len(r) = Len(q) - 1
      /\ \A i \in 1 .. Len(r) : r[i] = q[i + 1] /\ i + 1 \in 1 .. Len(q) /\ i + 1 > 1
      /\ \A i \in 1 .. Len(q) : i # 1 => i - 1 \in 1 .. Len(r) /\ r[i - 1] = q[i]
  <2>1. /\ Len(q) \in Nat /\ Len(q) >= 1 /\ Len(r) = Len(q) - 1
        /\ \A i \in 1 .. Len(r) : r[i] = q[i + 1]
    BY <1>1, <1>2, HeadTailProperties, EmptySeq, LenProperties
  <2>2. \A i \in 1 .. Len(q) : i # 1 => i - 1 \in 1 .. Len(r) /\ (i - 1) + 1 = i
    BY <2>1
  <2> QED
    BY <2>1, <2>2
<1> HIDE DEF r
<1>4. queue'[me] = r /\ \A u \in User : u # me => queue'[u] = queue[u]
  BY <1>1, <1>2
<1>5. n \in Nat /\ n \in 1 .. Len(made) /\ made[n].by = me
  <2>1. n \in Nat /\ n > 0 /\ n <= Len(made) /\ made[n].by = me /\ Len(made) \in Nat
    BY <1>2, <1>3, TypeFacts DEF QueueInv
  <2> QED
    BY <2>1
<1> HIDE DEF n
<1>6. \A i \in 1 .. Len(r) : n < r[i].n
  BY <1>2, <1>3 DEF Ordered, n
<1>7. \A m \in decided : m \in Nat /\ (made[m].by = me => m < n)
  <2>1. \A m \in decided : m \in Nat
    BY <1>2, DecidedFacts DEF StoreInv
  <2> QED
    BY <2>1, <1>3 DEF StoreInv, DecidedInv, n
<1>8. DecidedInv'
  <2> SUFFICES ASSUME NEW m \in decided \union {n}
               PROVE  /\ m <= Len(made)
                      /\ \A i \in 1 .. Len(queue'[made[m].by]) : m < queue'[made[m].by][i].n
                      /\ \A i \in 1 .. Len(worker) : worker[i].type = "write" => m < worker[i].n
    BY <1>1 DEF DecidedInv
  <2>1. CASE m = n
    <3>1. \A i \in 1 .. Len(worker) : worker[i].type = "write" => n < worker[i].n
      BY <1>2, <1>3 DEF TaskInv, n
    <3> QED
      BY <2>1, <3>1, <1>4, <1>5, <1>6
  <2>2. CASE m \in decided
    <3>1. /\ m <= Len(made) /\ made[m].by \in User
          /\ \A i \in 1 .. Len(queue[made[m].by]) : m < queue[made[m].by][i].n
          /\ \A i \in 1 .. Len(worker) : worker[i].type = "write" => m < worker[i].n
      BY <2>2, <1>2, DecidedFacts DEF StoreInv, DecidedInv
    <3>2. CASE made[m].by = me
      BY <3>1, <3>2, <1>3, <1>4, SMTT(30)
    <3>3. CASE made[m].by # me
      BY <3>1, <3>3, <1>4
    <3> QED
      BY <3>2, <3>3
  <2> QED
    BY <2>1, <2>2
<1>9. HeldInv'
  <2> SUFFICES ASSUME NEW u \in User
               PROVE  \/ Settled(u, doc[u])'
                      \/ \E i \in 1 .. Len(queue'[u]) :
                             ~made[queue'[u][i].n].bad /\ doc[u] = queue'[u][i].n
    BY <1>1 DEF HeldInv
  <2>1. CASE u # me
    <3>1. CASE Settled(u, doc[u])
      BY <3>1, <2>1, <1>1, <1>5 DEF Settled
    <3>2. CASE \E i \in 1 .. Len(queue[u]) : ~made[queue[u][i].n].bad /\ doc[u] = queue[u][i].n
      BY <3>2, <2>1, <1>4
    <3> QED
      BY <3>1, <3>2 DEF StoreInv, HeldInv
  <2>2. CASE u = me
    <3>1. ASSUME NEW i \in 1 .. Len(q), ~made[q[i].n].bad, doc[me] = q[i].n
          PROVE  \/ Settled(u, doc[u])'
                 \/ \E j \in 1 .. Len(queue'[u]) :
                        ~made[queue'[u][j].n].bad /\ doc[u] = queue'[u][j].n
      <4>1. CASE i # 1
        <5>1. i - 1 \in 1 .. Len(queue'[u]) /\ queue'[u][i - 1] = q[i]
          BY <4>1, <2>2, <1>3, <1>4
        <5> QED
          BY <5>1, <3>1, <2>2
      <4>2. CASE i = 1
        <5>1. doc[me] = n /\ ~made[n].bad
          BY <4>2, <3>1 DEF n
        <5>2. \A m \in decided' : made'[m].by = me => m <= n
          BY <1>1, <1>5, <1>7
        <5> QED
          BY <5>1, <5>2, <2>2, <1>1, <1>5 DEF Settled
      <4> QED
        BY <4>1, <4>2
    <3>2. CASE made[n].bad
      <4>1. CASE Settled(me, doc[me])
        BY <4>1, <3>2, <2>2, <1>1 DEF Settled
      <4>2. CASE \E i \in 1 .. Len(q) : ~made[q[i].n].bad /\ doc[me] = q[i].n
        BY <4>2, <3>1
      <4> QED
        BY <4>1, <4>2, <1>2 DEF StoreInv, HeldInv
    <3>3. CASE ~made[n].bad
      <4> DEFINE a == Len(stream.replies)
      <4>1. a \in Nat /\ a >= 1 /\ 1 \in 1 .. a /\ a \in 1 .. a
        BY <1>2, StreamFields, EmptySeq
      <4>2. \A i \in 1 .. a : stream.replies[i] = "ack" \/ (stream.replies[i] = "refused" /\ i = a)
        BY <1>2 DEF Wire
      <4>3. \A i \in 1 .. a :
                /\ i \in 1 .. Len(q) /\ stream.pipeline[i] = q[i]
                /\ stream.replies[i] = "refused" <=> made[stream.pipeline[i].n].bad
        BY AnsweredIsQueued DEF StoreInv, VerdictInv
      <4>4. PICK i \in 1 .. a : stream.replies[i] = "ack"
                                /\ (i = a \/ stream.replies[i + 1] = "refused")
        <5>1. CASE stream.replies[a] = "ack"
          BY <5>1, <4>1
        <5>2. CASE stream.replies[a] # "ack"
          <6>1. stream.replies[a] = "refused" /\ stream.replies[1] # "refused"
            BY <5>2, <4>1, <4>2, <4>3, <3>3 DEF n
          <6>2. a # 1
            BY <6>1
          <6>3. a - 1 \in 1 .. a /\ (a - 1) + 1 = a /\ a - 1 # a
            <7> HIDE DEF a
            <7> QED
              BY <6>2, <4>1
          <6>4. stream.replies[a - 1] = "ack"
            BY <6>3, <4>2
          <6> QED
            BY <6>1, <6>3, <6>4
        <5> QED
          BY <5>1, <5>2
      <4>5. doc[me] = q[i].n /\ ~made[q[i].n].bad /\ i \in 1 .. Len(q)
        BY <4>3, <4>4 DEF StoreInv, VerdictInv
      <4> QED
        BY <4>5, <3>1
    <3> QED
      BY <3>2, <3>3
  <2> QED
    BY <2>1, <2>2
<1> QED
  BY <1>8, <1>9

\* A write is acknowledged.
LEMMA AckStores ==
    ASSUME PipelineInv, StoreInv, OnWriteStreamMutationResult
    PROVE  StoreInv'
<1> DEFINE s == stream
           q == queue[current_user]
           u == [s EXCEPT !.replies = Tail(@), !.pipeline = Tail(@)]
           a == Len(s.replies)
<1>1. /\ Reply("ack") /\ Resolve(Head(s.pipeline), TRUE) /\ doc' = doc
      /\ stream' = FillWritePipeline(u, queue'[current_user])
  BY DEF OnWriteStreamMutationResult
<1>2. s.handshake /\ s.pipeline # << >> /\ s.replies # << >>
  BY <1>1, AnswerFindsWrite
<1>3. DecidedInv' /\ HeldInv'
  BY <1>1, <1>2, ResolveStores
<1>4. UNCHANGED <<current_user, made>>
  BY <1>1, <1>2, ResolveIs
<1>5. /\ s \in Stream /\ a \in Nat /\ s.replies \in Seq({"handshake", "ack", "refused"})
      /\ s.pipeline \in Seq(Batch) /\ Len(s.pipeline) \in Nat
  BY InvFacts, StreamFields
<1>6. /\ Len(Tail(s.replies)) = a - 1
      /\ \A i \in 1 .. Len(Tail(s.replies)) : Tail(s.replies)[i] = s.replies[i + 1]
  BY <1>2, <1>5, HeadTailProperties
<1>7. stream'.replies = Tail(s.replies)
  BY AckKeeps
<1>8. ASSUME NEW i \in 1 .. Len(stream'.replies)
      PROVE  /\ i + 1 \in 1 .. a /\ stream'.replies[i] = s.replies[i + 1]
             /\ i = Len(stream'.replies) <=> i + 1 = a
             /\ stream'.pipeline[i] = s.pipeline[i + 1]
  <2>1. i \in 1 .. a - 1 /\ i + 1 \in 1 .. a /\ stream'.replies[i] = s.replies[i + 1]
        /\ (i = Len(stream'.replies) <=> i + 1 = a)
    BY <1>5, <1>6, <1>7
  <2>2. i + 1 \in 1 .. Len(s.pipeline)
    BY <2>1, <1>2, AnsweredIsQueued
  <2>3. i \in 1 .. Len(s.pipeline) - 1
    BY <2>2, <1>5
  <2>4. stream'.pipeline[i] = s.pipeline[i + 1]
    BY <2>3, AckKeeps
  <2> QED
    BY <2>1, <2>4
<1>9. VerdictInv'
  <2> SUFFICES ASSUME NEW i \in 1 .. Len(stream'.replies)
               PROVE  /\ stream'.replies[i] = "refused" <=> made[stream'.pipeline[i].n].bad
                      /\ stream'.replies[i] = "ack"
                           /\ (i = Len(stream'.replies) \/ stream'.replies[i + 1] = "refused")
                           => doc[current_user] = stream'.pipeline[i].n
    BY <1>1, <1>4 DEF VerdictInv
  <2>1. /\ i + 1 \in 1 .. a /\ stream'.replies[i] = s.replies[i + 1]
        /\ i = Len(stream'.replies) <=> i + 1 = a
        /\ stream'.pipeline[i] = s.pipeline[i + 1]
    BY <1>8
  <2>2. i # Len(stream'.replies) => stream'.replies[i + 1] = s.replies[(i + 1) + 1]
    <3>1. ASSUME i # Len(stream'.replies) PROVE i + 1 \in 1 .. Len(stream'.replies)
      BY <3>1, <1>5, <1>6, <1>7
    <3> QED
      BY <3>1, <1>8
  <2>3. /\ s.replies[i + 1] = "refused" <=> made[s.pipeline[i + 1].n].bad
        /\ s.replies[i + 1] = "ack" /\ (i + 1 = a \/ s.replies[(i + 1) + 1] = "refused")
             => doc[current_user] = s.pipeline[i + 1].n
    BY <2>1, <1>2 DEF StoreInv, VerdictInv
  <2> QED
    BY <2>1, <2>2, <2>3
<1> QED
  BY <1>3, <1>9 DEF StoreInv

\* A write is refused: the stream is closed with its answers.
LEMMA RefusedStores ==
    ASSUME PipelineInv, StoreInv, HandleWriteError
    PROVE  StoreInv'
<1>1. /\ Reply("refused") /\ Resolve(Head(stream.pipeline), FALSE) /\ doc' = doc
  BY DEF HandleWriteError
<1>2. stream.handshake /\ stream.pipeline # << >> /\ stream.replies # << >>
  BY <1>1, AnswerFindsWrite
<1>3. DecidedInv' /\ HeldInv'
  BY <1>1, <1>2, ResolveStores
<1>4. ~stream'.handshake
  BY RefusedKeeps
<1>5. VerdictInv'
  BY <1>4 DEF VerdictInv
<1> QED
  BY <1>3, <1>5 DEF StoreInv

-----------------------------------------------------------------------------
(***************************************************************************)
(* The theorem.                                                            *)
(***************************************************************************)

\* Nothing is decided or stored at the start.
LEMMA InitStores ==
    ASSUME Init
    PROVE  StoreInv
<1>1. decided = {} /\ doc = [u \in User |-> 0] /\ stream = NewStream
  BY DEF Init
<1>2. DecidedInv
  BY <1>1 DEF DecidedInv
<1>3. HeldInv
  BY <1>1 DEF HeldInv, Settled
<1>4. VerdictInv
  BY <1>1 DEF VerdictInv, NewStream
<1> QED
  BY <1>2, <1>3, <1>4 DEF StoreInv

\* Every step keeps the invariant.
LEMMA NextStores ==
    ASSUME PipelineInv, StoreInv, [Next]_vars
    PROVE  StoreInv'
<1>1. CASE UNCHANGED vars
  BY <1>1, StutterStores
<1>2. CASE \E c \in stream.requests : GetToken(c)
  <2>1. PICK c \in stream.requests : GetToken(c)
    BY <1>2
  <2> QED
    BY <2>1, TokenStores DEF GetToken, outside
<1>3. CASE \E c \in stream.requests : GetTokenFails(c)
  <2>1. PICK c \in stream.requests : GetTokenFails(c)
    BY <1>3
  <2> QED
    BY <2>1, TokenStores DEF GetTokenFails
<1>4. CASE BackendReads \/ OnWriteStreamHandshakeComplete \/ OnWriteStreamMutationResult
           \/ HandleWriteError \/ BackoffElapsed
  BY <1>4, BackendReadsStores, HandshakeStores, AckStores, RefusedStores, BackoffStores
<1>5. CASE RunWrite \/ RunCredential \/ RunResume
  BY <1>5, RunWriteStores, RunCredentialStores, RunResumeStores
<1>6. CASE \E bad \in BOOLEAN : AppWrites(bad)
  BY <1>6, AppWritesStores
<1>7. CASE \E u \in User : AuthStateDidChange(u)
  BY <1>7, AuthStores
<1>8. CASE OnWriteStreamClose \/ IdleTimeout \/ ConnectivityChanged \/ Restart
  BY <1>8, StreamCloseStores, IdleStores, ConnectivityStores, RestartStores
<1> QED
  BY <1>1, <1>2, <1>3, <1>4, <1>5, <1>6, <1>7, <1>8 DEF Next, Progress

\* The last of the writes of an account is on the backend once they are decided.
LEMMA LastWriteFollows ==
    ASSUME PipelineInv, StoreInv
    PROVE  LastWriteStored
<1> SUFFICES ASSUME NEW u \in User, queue[u] = << >>
             PROVE  doc[u] = Max({0} \union {n \in decided : made[n].by = u /\ ~made[n].bad})
  BY DEF LastWriteStored
<1> DEFINE good == {0} \union {n \in decided : made[n].by = u /\ ~made[n].bad}
<1>1. 1 .. Len(queue[u]) = {}
  OBVIOUS
<1>2. Settled(u, doc[u])
  BY <1>1 DEF StoreInv, HeldInv
<1>3. doc[u] \in good /\ \A y \in good : y <= doc[u]
  BY <1>2 DEF Settled
<1>4. good \in SUBSET Int
  BY InvFacts, DecidedFacts DEF StoreInv
<1> HIDE DEF good
<1>5. Max(good) = doc[u]
  BY <1>3, <1>4, MaxIs
<1> QED
  BY <1>5 DEF good

\* What the backend holds is explained by what was decided and what is queued,
\* in every reachable state.
THEOREM StoreInvariant == Spec => [](PipelineInv /\ StoreInv)
<1>1. Init => StoreInv
  BY InitStores
<1>2. PipelineInv /\ StoreInv /\ [Next]_vars => StoreInv'
  BY NextStores
<1> QED
  BY <1>1, <1>2, PipelineInvariant, PTL DEF Spec

\* When nothing of an account is queued the backend holds the last of its writes
\* that was not refused: neither a lost answer, nor a broken stream, a restart
\* or a change of account loses a write or leaves an older one on top.
THEOREM LastWriteIsStored == Spec => []LastWriteStored
<1>1. PipelineInv /\ StoreInv => LastWriteStored
  BY LastWriteFollows
<1> QED
  BY <1>1, StoreInvariant, PTL

-----------------------------------------------------------------------------
(***************************************************************************)
(* The refinement.                                                         *)
(***************************************************************************)

\* What the app is told is about writes that were decided.
ToldInv ==
    \A u \in User : \A i \in 1 .. Len(told[u]) : told[u][i].n \in decided

ContractInv == PipelineInv /\ StoreInv /\ ToldInv

\* The variables of the contract, as WritePipeline gives them.
QueueOf(u) == [i \in DOMAIN queue[u] |-> AsWritten(u, queue[u][i])]
MainqOf(u) == [i \in DOMAIN told[u] |-> Completion(told[u][i])]

WrittenQueue == [u \in Account |-> QueueOf(u)]
PostedBlocks == [u \in Account |-> MainqOf(u)]

\* A write as the app knows it, and a block of the main queue.
AppWrite == [n : Write, bad : BOOLEAN, then : {"caller", "nobody"}]
AckBlock == [type : {"ack"}, ok : BOOLEAN, w : AppWrite]

\* What the app sees of the queues is a queue of writes.
LEMMA QueueOfIs ==
    ASSUME PipelineInv, NEW u \in User
    PROVE  /\ QueueOf(u) \in Seq(AppWrite) /\ Len(QueueOf(u)) = Len(queue[u])
           /\ Len(queue[u]) \in Nat
           /\ \A i \in 1 .. Len(queue[u]) : QueueOf(u)[i] = AsWritten(u, queue[u][i])
<1>1. /\ queue[u] \in Seq(Batch) /\ Len(queue[u]) \in Nat /\ DOMAIN queue[u] = 1 .. Len(queue[u])
      /\ TypeOK /\ QueueInv
  BY InvFacts, TypeFacts, LenProperties
<1>2. \A i \in 1 .. Len(queue[u]) : AsWritten(u, queue[u][i]) \in AppWrite
  <2> SUFFICES ASSUME NEW i \in 1 .. Len(queue[u])
               PROVE  AsWritten(u, queue[u][i]) \in AppWrite
    OBVIOUS
  <2>1. queue[u][i].n \in Write /\ queue[u][i].n \in 1 .. Len(made)
    <3>1. /\ queue[u][i].n \in Write /\ queue[u][i].n \in Nat /\ queue[u][i].n > 0
          /\ queue[u][i].n <= Len(made) /\ Len(made) \in Nat
      BY <1>1, TypeFacts DEF QueueInv
    <3> QED
      BY <3>1
  <2>2. made[queue[u][i].n].bad \in BOOLEAN
    <3>1. made \in Seq([by : Account, bad : BOOLEAN])
      BY <1>1 DEF TypeOK
    <3>2. made[queue[u][i].n] \in [by : Account, bad : BOOLEAN]
      BY <2>1, <3>1, ElementOfSeq
    <3> QED
      BY <3>2
  <2> QED
    BY <2>1, <2>2 DEF AsWritten, AppWrite
<1>3. QueueOf(u) \in [1 .. Len(queue[u]) -> AppWrite]
  BY <1>1, <1>2 DEF QueueOf
<1>4. QueueOf(u) \in Seq(AppWrite)
  BY <1>1, <1>3, SeqDef
<1>5. Len(QueueOf(u)) = Len(queue[u])
  BY <1>1, <1>3, <1>4, LenProperties
<1> QED
  BY <1>1, <1>4, <1>5 DEF QueueOf

\* So are the completions it is told.
LEMMA MainqOfIs ==
    ASSUME ContractInv, NEW u \in User
    PROVE  /\ MainqOf(u) \in Seq(AckBlock) /\ Len(MainqOf(u)) = Len(told[u])
           /\ Len(told[u]) \in Nat
           /\ \A i \in 1 .. Len(told[u]) : MainqOf(u)[i] = Completion(told[u][i])
<1>1. /\ told[u] \in Seq([n : Write, ok : BOOLEAN]) /\ Len(told[u]) \in Nat
      /\ DOMAIN told[u] = 1 .. Len(told[u]) /\ TypeOK /\ DecidedInv /\ ToldInv
  BY InvFacts, LenProperties DEF ContractInv, TypeOK, StoreInv
<1>2. \A i \in 1 .. Len(told[u]) : Completion(told[u][i]) \in AckBlock
  <2> SUFFICES ASSUME NEW i \in 1 .. Len(told[u])
               PROVE  Completion(told[u][i]) \in AckBlock
    OBVIOUS
  <2>1. told[u][i] \in [n : Write, ok : BOOLEAN]
    BY <1>1, ElementOfSeq
  <2>2. told[u][i].n \in 1 .. Len(made)
    BY <1>1, DecidedFacts DEF ToldInv
  <2>3. made[told[u][i].n].bad \in BOOLEAN
    <3>1. made \in Seq([by : Account, bad : BOOLEAN])
      BY <1>1 DEF TypeOK
    <3>2. made[told[u][i].n] \in [by : Account, bad : BOOLEAN]
      BY <2>2, <3>1, ElementOfSeq
    <3> QED
      BY <3>2
  <2> QED
    BY <2>1, <2>3 DEF Completion, AckBlock, AppWrite
<1>3. MainqOf(u) \in [1 .. Len(told[u]) -> AckBlock]
  BY <1>1, <1>2 DEF MainqOf
<1>4. MainqOf(u) \in Seq(AckBlock)
  BY <1>1, <1>3, SeqDef
<1>5. Len(MainqOf(u)) = Len(told[u])
  BY <1>1, <1>3, <1>4, LenProperties
<1> QED
  BY <1>1, <1>4, <1>5 DEF MainqOf

\* A step of the contract, on its variables.
LEMMA ContractStep ==
    ASSUME \/ \E u \in Account :
                 \/ /\ QueueOf(u) # << >>
                    /\ WrittenQueue' = [WrittenQueue EXCEPT ![u] = Tail(QueueOf(u))]
                    /\ PostedBlocks' =
                           IF Head(QueueOf(u)).then = "nobody" THEN PostedBlocks
                           ELSE [PostedBlocks EXCEPT ![u] = Append(MainqOf(u),
                                    [type |-> "ack", w |-> Head(QueueOf(u)),
                                     ok |-> ~Head(QueueOf(u)).bad])]
                 \/ \E w \in [n : Write, bad : BOOLEAN, then : {"caller"}] :
                        /\ WrittenQueue' = [WrittenQueue EXCEPT ![u] = QueueOf(u) \o <<w>>]
                        /\ PostedBlocks' = PostedBlocks
           \/ /\ WrittenQueue' = [u \in Account |-> [i \in DOMAIN QueueOf(u) |->
                                     [QueueOf(u)[i] EXCEPT !.then = "nobody"]]]
              /\ PostedBlocks' = [u \in Account |-> << >>]
           \/ UNCHANGED <<WrittenQueue, PostedBlocks>>
    PROVE  [Contract!ContractNext]_(Contract!sdkVars)
<1> DEFINE masked == [u \in Account |-> << >>]
<1>1. masked' = masked
  OBVIOUS
<1>2. \A u \in Account : WrittenQueue[u] = QueueOf(u) /\ PostedBlocks[u] = MainqOf(u)
  BY DEF WrittenQueue, PostedBlocks
<1>3. CASE UNCHANGED <<WrittenQueue, PostedBlocks>>
  BY <1>1, <1>3 DEF Contract!sdkVars, WrittenQueue, PostedBlocks, QueueOf, MainqOf
<1>4. CASE /\ WrittenQueue' = [u \in Account |-> [i \in DOMAIN QueueOf(u) |->
                                     [QueueOf(u)[i] EXCEPT !.then = "nobody"]]]
           /\ PostedBlocks' = [u \in Account |-> << >>]
  <2>1. Contract!Restart
    BY <1>1, <1>2, <1>4 DEF Contract!Restart, Contract!Forgotten, Contract!NoOne, WrittenQueue, PostedBlocks, QueueOf, MainqOf
  <2> QED
    BY <2>1 DEF Contract!ContractNext
<1>5. ASSUME NEW u \in Account, QueueOf(u) # << >>,
             WrittenQueue' = [WrittenQueue EXCEPT ![u] = Tail(QueueOf(u))],
             PostedBlocks' =
                 IF Head(QueueOf(u)).then = "nobody" THEN PostedBlocks
                 ELSE [PostedBlocks EXCEPT ![u] = Append(MainqOf(u),
                          [type |-> "ack", w |-> Head(QueueOf(u)), ok |-> ~Head(QueueOf(u)).bad])]
      PROVE  Contract!ContractNext
  <2>1. Contract!Decide(u)
    BY <1>1, <1>2, <1>5 DEF Contract!Decide, Contract!NotifyUser, Contract!NoOne, Contract!Acked, WrittenQueue, PostedBlocks, QueueOf, MainqOf
  <2> QED
    BY <2>1 DEF Contract!ContractNext
<1>6. ASSUME NEW u \in Account, NEW w \in [n : Write, bad : BOOLEAN, then : {"caller"}],
             WrittenQueue' = [WrittenQueue EXCEPT ![u] = QueueOf(u) \o <<w>>],
             PostedBlocks' = PostedBlocks
      PROVE  Contract!ContractNext
  <2>1. Contract!MakeWrite(u, w)
    BY <1>1, <1>2, <1>6 DEF Contract!MakeWrite, Contract!WriteMutations, WrittenQueue, PostedBlocks, QueueOf, MainqOf
  <2> QED
    BY <2>1 DEF Contract!ContractNext
<1> QED
  BY <1>3, <1>4, <1>5, <1>6

-----------------------------------------------------------------------------
(***************************************************************************)
(* The steps of WritePipeline as steps of the contract.                    *)
(***************************************************************************)

\* Steps that queue, decide and tell nothing are not seen by the app.
LEMMA UnseenStep ==
    ASSUME UNCHANGED <<made, queue, callbacks, told>>
    PROVE  UNCHANGED <<WrittenQueue, PostedBlocks>>
    BY DEF WrittenQueue, PostedBlocks, QueueOf, MainqOf, AsWritten, Completion

\* Nor is the making of a write, until the worker queue runs it.
LEMMA AppWritesUnseen ==
    ASSUME ContractInv, NEW bad \in BOOLEAN, AppWrites(bad)
    PROVE  UNCHANGED <<WrittenQueue, PostedBlocks>> /\ ToldInv'
<1> DEFINE w == [by |-> auth, bad |-> bad]
<1>1. /\ auth \in Account /\ made' = Append(made, w)
      /\ UNCHANGED <<queue, callbacks, told, decided>>
  BY DEF AppWrites, device
<1>2. TypeOK /\ QueueInv /\ Len(made) \in Nat /\ DecidedInv /\ ToldInv
  BY InvFacts, TypeFacts DEF ContractInv, StoreInv
<1>3. \A i \in 1 .. Len(made) : made'[i] = made[i]
  <2>1. made \in Seq([by : Account, bad : BOOLEAN]) /\ w \in [by : Account, bad : BOOLEAN]
    BY <1>1, <1>2 DEF TypeOK
  <2> QED
    BY <2>1, <1>1, AppendProperties
<1>4. ASSUME NEW u \in User
      PROVE  QueueOf(u)' = QueueOf(u)
  <2>1. DOMAIN queue[u] = 1 .. Len(queue[u])
    BY <1>2, TypeFacts, LenProperties
  <2>2. \A i \in 1 .. Len(queue[u]) : made'[queue[u][i].n] = made[queue[u][i].n]
    <3> SUFFICES ASSUME NEW i \in 1 .. Len(queue[u])
                 PROVE  made'[queue[u][i].n] = made[queue[u][i].n]
      OBVIOUS
    <3>1. queue[u][i].n \in Nat /\ queue[u][i].n > 0 /\ queue[u][i].n <= Len(made)
      BY <1>2, TypeFacts DEF QueueInv
    <3> QED
      BY <3>1, <1>2, <1>3
  <2>3. \A i \in 1 .. Len(queue[u]) : AsWritten(u, queue[u][i])' = AsWritten(u, queue[u][i])
    BY <2>2, <1>1 DEF AsWritten
  <2> QED
    BY <2>1, <2>3, <1>1 DEF QueueOf
<1>5. ASSUME NEW u \in User
      PROVE  MainqOf(u)' = MainqOf(u)
  <2>1. DOMAIN told[u] = 1 .. Len(told[u])
    BY <1>2, LenProperties DEF TypeOK
  <2>2. \A i \in 1 .. Len(told[u]) : made'[told[u][i].n] = made[told[u][i].n]
    BY <1>2, <1>3, DecidedFacts DEF ToldInv
  <2>3. \A i \in 1 .. Len(told[u]) : Completion(told[u][i])' = Completion(told[u][i])
    BY <2>2, <1>1 DEF Completion
  <2> QED
    BY <2>1, <2>3, <1>1 DEF MainqOf
<1>6. Account \subseteq User
  BY DEF User
<1>7. ToldInv'
  BY <1>1, <1>2 DEF ToldInv
<1> QED
  BY <1>4, <1>5, <1>6, <1>7 DEF WrittenQueue, PostedBlocks

\* The worker queue runs a write: the app's write joins its account's queue.
LEMMA RunWriteMakes ==
    ASSUME ContractInv, RunWrite
    PROVE  /\ \E u \in Account : \E w \in [n : Write, bad : BOOLEAN, then : {"caller"}] :
                  /\ WrittenQueue' = [WrittenQueue EXCEPT ![u] = QueueOf(u) \o <<w>>]
                  /\ PostedBlocks' = PostedBlocks
           /\ ToldInv'
<1> DEFINE n     == Head(worker).n
           me    == current_user
           batch == [id |-> next_batch_id, n |-> n]
           q     == queue[me]
           l     == Len(q)
           w     == [n |-> n, bad |-> made[n].bad, then |-> "caller"]
           x     == <<next_batch_id, n>>
<1>1. /\ worker # << >> /\ Head(worker).type = "write"
      /\ queue' = [queue EXCEPT ![me] = Append(q, batch)]
      /\ callbacks' = [callbacks EXCEPT ![me] = @ \union {x}]
      /\ UNCHANGED <<current_user, made, decided, told>>
  BY DEF RunWrite, NextTask, outside
<1>2. /\ PipelineInv /\ TypeOK /\ QueueInv /\ TaskInv /\ UserInv /\ me \in User
      /\ q \in Seq(Batch) /\ l \in Nat /\ queue \in [User -> Seq(Batch)]
      /\ next_batch_id \in Nat \ {0} /\ callbacks \in [User -> SUBSET ((Nat \ {0}) \X Write)]
      /\ ToldInv
  BY InvFacts, TypeFacts DEF TypeOK, ContractInv
<1>3. n \in Write /\ n \in 1 .. Len(made) /\ made[n].by = me
  <2>1. /\ Head(worker) = worker[1] /\ 1 \in 1 .. Len(worker) /\ n \in Write /\ n \in Nat /\ n > 0
        /\ made[n].by = me
    BY <1>1, <1>2, HeadIsOfCurrentUser, TaskFields
  <2>2. n <= Len(made) /\ Len(made) \in Nat
    BY <1>1, <1>2, <2>1, TypeFacts DEF TaskInv
  <2> QED
    BY <2>1, <2>2
<1>4. me \in Account /\ made[n].bad \in BOOLEAN
  <2>1. made \in Seq([by : Account, bad : BOOLEAN])
    BY <1>2 DEF TypeOK
  <2>2. made[n] \in [by : Account, bad : BOOLEAN]
    BY <1>3, <2>1, ElementOfSeq
  <2> QED
    BY <1>3, <2>2
<1>5. batch \in Batch /\ batch.id = next_batch_id /\ batch.n = n
  BY <1>2, <1>3 DEF Batch
<1>6. w \in [n : Write, bad : BOOLEAN, then : {"caller"}] /\ w \in AppWrite
  BY <1>3, <1>4 DEF AppWrite
<1> HIDE DEF n, batch, q
<1>7. /\ queue'[me] = Append(q, batch) /\ Len(queue'[me]) = l + 1
      /\ \A i \in 1 .. l : queue'[me][i] = q[i]
      /\ queue'[me][l + 1] = batch
      /\ \A u \in User : u # me => queue'[u] = queue[u]
  BY <1>1, <1>2, <1>5, AppendProperties DEF q
<1>8. callbacks'[me] = callbacks[me] \union {x} /\ \A u \in User : u # me => callbacks'[u] = callbacks[u]
  BY <1>1, <1>2
<1>9. PICK m \in Account : m = me
  BY <1>4
<1>10. m \in User /\ m = me /\ m = current_user'
  BY <1>1, <1>2, <1>9
<1>11. ASSUME NEW u \in Account, u # m
       PROVE  QueueOf(u)' = QueueOf(u)
  <2>1. u \in User
    BY DEF User
  <2> QED
    BY <2>1, <1>1, <1>7, <1>8, <1>9, <1>11 DEF QueueOf, AsWritten
<1>12. QueueOf(m)' = QueueOf(m) \o <<w>>
  <2> DEFINE s == QueueOf(m)
             t == QueueOf(m)'
             r == s \o <<w>>
             A(b) == [n |-> b.n, bad |-> made[b.n].bad,
                      then |-> IF <<b.id, b.n>> \in callbacks'[m] THEN "caller" ELSE "nobody"]
  <2>1. s \in Seq(AppWrite) /\ Len(s) = l /\ \A i \in 1 .. l : s[i] = AsWritten(m, q[i])
    BY <1>2, <1>9, QueueOfIs DEF q
  <2>2. ASSUME NEW i \in 1 .. l
        PROVE  A(queue'[m][i]) = AsWritten(m, q[i])
    <3>1. queue'[m][i] = q[i]
      BY <1>7, <1>9
    <3>2. q[i].id < next_batch_id /\ q[i].id \in Nat
      BY <1>2, TypeFacts DEF QueueInv, q
    <3>3. <<q[i].id, q[i].n>> # x
      BY <3>2, <1>2
    <3>4. <<q[i].id, q[i].n>> \in callbacks'[m] <=> <<q[i].id, q[i].n>> \in callbacks[m]
      BY <3>3, <1>8, <1>9
    <3> QED
      BY <3>1, <3>4 DEF AsWritten
  <2>3. A(queue'[m][l + 1]) = w
    <3>1. queue'[m][l + 1] = batch
      BY <1>7, <1>9
    <3>2. <<batch.id, batch.n>> \in callbacks'[m]
      BY <1>5, <1>8, <1>9
    <3> QED
      BY <3>1, <3>2, <1>5
  <2>4. t = [i \in 1 .. l + 1 |-> A(queue'[m][i])]
    <3>1. DOMAIN queue'[m] = 1 .. l + 1
      BY <1>2, <1>5, <1>7, <1>9, AppendProperties, LenProperties
    <3> QED
      BY <3>1, <1>1 DEF QueueOf, AsWritten
  <2>5. \A i \in 1 .. l + 1 : i \in 1 .. l \/ i = l + 1
    BY <1>2
  <2>6. \A i \in 1 .. l : s[i] \in AppWrite
    BY <2>1, ElementOfSeq
  <2>7. /\ \A i \in 1 .. l : t[i] = s[i]
        /\ t[l + 1] = w
    <3>1. l + 1 \in 1 .. l + 1 /\ \A i \in 1 .. l : i \in 1 .. l + 1
      BY <1>2
    <3> QED
      <4> HIDE DEF A, t, s, w
      <4> QED
        BY <3>1, <2>1, <2>2, <2>3, <2>4
  <2>8. t \in [1 .. l + 1 -> AppWrite] /\ l + 1 \in Nat
    <3>1. \A i \in 1 .. l + 1 : t[i] \in AppWrite
      BY <2>5, <2>6, <2>7, <1>6
    <3> QED
      BY <3>1, <2>4, <1>2
  <2> HIDE DEF s, t
  <2>9. t \in Seq(AppWrite)
    BY <2>8, SeqDef
  <2>10. Len(t) = l + 1
    BY <2>8, <2>9, LenProperties
  <2> HIDE DEF w
  <2>11. r = Append(s, w) /\ Append(s, w) \in Seq(AppWrite) /\ Len(Append(s, w)) = l + 1
         /\ Append(s, w)[l + 1] = w /\ \A i \in 1 .. l : Append(s, w)[i] = s[i]
    BY <2>1, <1>6, AppendProperties, AppendIsConcat
  <2>12. \A i \in 1 .. l + 1 : t[i] = Append(s, w)[i]
    BY <2>5, <2>7, <2>11
  <2>13. t = Append(s, w)
    BY <2>9, <2>10, <2>11, <2>12, SeqEqual
  <2> QED
    BY <2>11, <2>13 DEF s, t
<1> HIDE DEF w
<1>13. WrittenQueue' = [WrittenQueue EXCEPT ![m] = QueueOf(m) \o <<w>>]
  BY <1>11, <1>12 DEF WrittenQueue
<1>14. PostedBlocks' = PostedBlocks /\ ToldInv'
  BY <1>1, <1>2 DEF PostedBlocks, MainqOf, Completion, ToldInv
<1> QED
  BY <1>6, <1>13, <1>14

\* An answer: the oldest write of the account is decided, by the verdict on it,
\* and its completion is posted if somebody waits for it.
LEMMA ResolveDecides ==
    ASSUME ContractInv, stream.pipeline # << >>, NEW ok \in BOOLEAN,
           Resolve(Head(stream.pipeline), ok), ok = ~made[queue[current_user][1].n].bad
    PROVE  /\ \E u \in Account :
                  /\ QueueOf(u) # << >>
                  /\ WrittenQueue' = [WrittenQueue EXCEPT ![u] = Tail(QueueOf(u))]
                  /\ PostedBlocks' =
                         IF Head(QueueOf(u)).then = "nobody" THEN PostedBlocks
                         ELSE [PostedBlocks EXCEPT ![u] = Append(MainqOf(u),
                                  [type |-> "ack", w |-> Head(QueueOf(u)),
                                   ok |-> ~Head(QueueOf(u)).bad])]
           /\ ToldInv'
<1> DEFINE me == current_user
           q  == queue[me]
           l  == Len(q)
           c  == <<q[1].id, q[1].n>>
           b  == [n |-> q[1].n, ok |-> ok]
<1>1. /\ q # << >> /\ queue' = [queue EXCEPT ![me] = Tail(q)]
      /\ callbacks' = [callbacks EXCEPT ![me] = @ \ {c}]
      /\ told' = IF c \in callbacks[me] THEN [told EXCEPT ![me] = Append(@, b)] ELSE told
      /\ decided' = decided \union {q[1].n}
      /\ UNCHANGED <<current_user, made>>
  BY ResolveIs DEF ContractInv
<1>2. /\ PipelineInv /\ TypeOK /\ QueueInv /\ me \in User /\ Ordered(q) /\ ToldInv
      /\ q \in Seq(Batch) /\ l \in Nat /\ queue \in [User -> Seq(Batch)]
      /\ callbacks \in [User -> SUBSET ((Nat \ {0}) \X Write)]
      /\ told \in [User -> Seq([n : Write, ok : BOOLEAN])]
  BY InvFacts, TypeFacts DEF TypeOK, ContractInv
<1>3. /\ l >= 1 /\ 1 \in 1 .. l /\ Tail(q) \in Seq(Batch) /\ Len(Tail(q)) = l - 1
      /\ \A i \in 1 .. l - 1 : Tail(q)[i] = q[i + 1] /\ i + 1 \in 1 .. l /\ 1 < i + 1
  <2>1. /\ l >= 1 /\ Tail(q) \in Seq(Batch) /\ Len(Tail(q)) = l - 1
        /\ \A i \in 1 .. Len(Tail(q)) : Tail(q)[i] = q[i + 1]
    BY <1>1, <1>2, HeadTailProperties, EmptySeq
  <2>2. 1 \in 1 .. l /\ \A i \in 1 .. l - 1 : i + 1 \in 1 .. l /\ 1 < i + 1
    BY <1>2, <2>1
  <2> QED
    BY <2>1, <2>2
<1>4. me \in Account
  <2>1. q[1].n \in Nat /\ q[1].n > 0 /\ q[1].n <= Len(made) /\ made[q[1].n].by = me
    BY <1>2, <1>3, TypeFacts DEF QueueInv
  <2> QED
    BY <2>1, <1>2, TypeFacts
<1>5. PICK m \in Account : m = me
  BY <1>4
<1>6. m \in User /\ m = me
  BY <1>2, <1>5
<1> HIDE DEF q, c, b
<1>7. /\ queue'[m] = Tail(q) /\ \A u \in User : u # m => queue'[u] = queue[u]
      /\ callbacks'[m] = callbacks[m] \ {c} /\ \A u \in User : u # m => callbacks'[u] = callbacks[u]
  BY <1>1, <1>2, <1>6
<1> DEFINE s == QueueOf(m)
<1>8. /\ s \in Seq(AppWrite) /\ Len(s) = l /\ \A i \in 1 .. l : s[i] = AsWritten(m, q[i])
  BY <1>2, <1>6, QueueOfIs DEF q
<1>9. s # << >> /\ Head(s) = AsWritten(m, q[1])
      /\ Tail(s) \in Seq(AppWrite) /\ Len(Tail(s)) = l - 1 /\ \A i \in 1 .. l - 1 : Tail(s)[i] = s[i + 1]
  <2> HIDE DEF s
  <2>1. s # << >>
    BY <1>3, <1>8, EmptySeq
  <2>2. Head(s) = s[1]
    BY <2>1, <1>8
  <2> QED
    BY <2>1, <2>2, <1>3, <1>8, HeadTailProperties
<1>10. QueueOf(m)' = Tail(s)
  <2> DEFINE t == QueueOf(m)'
             A(x) == [n |-> x.n, bad |-> made[x.n].bad,
                      then |-> IF <<x.id, x.n>> \in callbacks'[m] THEN "caller" ELSE "nobody"]
  <2>1. ASSUME NEW i \in 1 .. l - 1
        PROVE  A(Tail(q)[i]) = s[i + 1]
    <3>1. Tail(q)[i] = q[i + 1] /\ i + 1 \in 1 .. l /\ 1 < i + 1
      BY <1>3
    <3>2. q[1].id < q[i + 1].id /\ q[1].id \in Nat /\ q[i + 1].id \in Nat
      BY <3>1, <1>2, <1>3, TypeFacts DEF Ordered, q
    <3>3. <<q[i + 1].id, q[i + 1].n>> # c
      BY <3>2 DEF c
    <3>4. <<q[i + 1].id, q[i + 1].n>> \in callbacks'[m] <=> <<q[i + 1].id, q[i + 1].n>> \in callbacks[m]
      BY <3>3, <1>7
    <3> QED
      BY <3>1, <3>4, <1>8 DEF AsWritten
  <2>2. t = [i \in 1 .. l - 1 |-> A(Tail(q)[i])]
    <3>1. DOMAIN queue'[m] = 1 .. l - 1
      BY <1>3, <1>7, LenProperties
    <3> QED
      BY <3>1, <1>1, <1>7 DEF QueueOf, AsWritten
  <2> HIDE DEF A, s
  <2>3. \A i \in 1 .. l - 1 : t[i] = Tail(s)[i]
    BY <2>1, <2>2, <1>9
  <2>4. l - 1 \in Nat /\ \A i \in 1 .. l - 1 : Tail(s)[i] \in AppWrite
    BY <1>2, <1>3, <1>9, ElementOfSeq
  <2>5. t \in [1 .. l - 1 -> AppWrite]
    BY <2>2, <2>3, <2>4
  <2> HIDE DEF t
  <2>6. t \in Seq(AppWrite) /\ Len(t) = l - 1
    <3>1. t \in Seq(AppWrite)
      BY <2>4, <2>5, SeqDef
    <3> QED
      BY <3>1, <2>4, <2>5, LenProperties
  <2>7. t = Tail(s)
    BY <2>3, <2>6, <1>9, SeqEqual
  <2> QED
    BY <2>7 DEF t
<1>11. WrittenQueue' = [WrittenQueue EXCEPT ![m] = Tail(s)]
  <2>1. \A u \in Account : u # m => QueueOf(u)' = QueueOf(u)
    <3>1. Account \subseteq User
      BY DEF User
    <3> QED
      BY <3>1, <1>1, <1>7 DEF QueueOf, AsWritten
  <2> QED
    BY <2>1, <1>10 DEF WrittenQueue
<1>12. PostedBlocks' =
          IF Head(s).then = "nobody" THEN PostedBlocks
          ELSE [PostedBlocks EXCEPT ![m] =
                   Append(MainqOf(m), [type |-> "ack", w |-> Head(s), ok |-> ~Head(s).bad])]
  <2>1. /\ Head(s).then = IF c \in callbacks[m] THEN "caller" ELSE "nobody"
        /\ Head(s).bad = made[q[1].n].bad
        /\ c \in callbacks[m] => Head(s) = [n |-> q[1].n, bad |-> made[q[1].n].bad, then |-> "caller"]
    <3> HIDE DEF s
    <3> QED
      BY <1>9 DEF AsWritten, c
  <2>2. CASE c \notin callbacks[m]
    <3>1. told' = told
      BY <2>2, <1>1, <1>6
    <3>2. PostedBlocks' = PostedBlocks
      BY <3>1, <1>1 DEF PostedBlocks, MainqOf, Completion
    <3> HIDE DEF s
    <3> QED
      BY <3>2, <2>1, <2>2
  <2>3. CASE c \in callbacks[m]
    <3> DEFINE k == Len(told[m])
               d == [type |-> "ack", w |-> Head(s), ok |-> ~Head(s).bad]
               o == MainqOf(m)
               t == MainqOf(m)'
               S == [n : Write, ok : BOOLEAN]
    <3>1. o \in Seq(AckBlock) /\ Len(o) = k /\ k \in Nat /\ \A i \in 1 .. k : o[i] = Completion(told[m][i])
      BY <1>6, MainqOfIs
    <3>2. /\ told'[m] = Append(told[m], b) /\ \A u \in User : u # m => told'[u] = told[u]
      BY <2>3, <1>1, <1>2, <1>6
    <3>3. told[m] \in Seq(S) /\ b \in S
      BY <1>2, <1>3, <1>6, TypeFacts DEF b, q
    <3>4. /\ DOMAIN told'[m] = 1 .. k + 1 /\ told'[m][k + 1] = b
          /\ \A i \in 1 .. k : told'[m][i] = told[m][i]
      <4> HIDE DEF S
      <4> QED
        BY <3>1, <3>2, <3>3, AppendProperties, LenProperties
    <3>5. Completion(b) = d
      <4>1. b.ok = ok /\ b.n = q[1].n
        BY DEF b
      <4>2. ok = ~Head(s).bad
        BY <2>1 DEF q
      <4>3. Completion(b) = [type |-> "ack", ok |-> ok,
                             w |-> [n |-> q[1].n, bad |-> made[q[1].n].bad, then |-> "caller"]]
        BY <4>1 DEF Completion
      <4> HIDE DEF s
      <4> QED
        BY <4>2, <4>3, <2>1, <2>3
    <3>6. d \in AckBlock
      <4>1. Head(s) \in AppWrite
        BY <1>8, <1>9, HeadTailProperties
      <4> HIDE DEF s
      <4> QED
        BY <4>1 DEF AckBlock
    <3> HIDE DEF d, o, s
    <3>7. t = [i \in 1 .. k + 1 |-> Completion(told'[m][i])]
      BY <3>4, <1>1 DEF MainqOf, Completion
    <3>8. \A i \in 1 .. k + 1 : i \in 1 .. k \/ i = k + 1
      BY <3>1
    <3>9. /\ \A i \in 1 .. k : t[i] = o[i]
          /\ t[k + 1] = d
      <4>1. k + 1 \in 1 .. k + 1 /\ \A i \in 1 .. k : i \in 1 .. k + 1
        BY <3>1
      <4> HIDE DEF t, k
      <4> QED
        BY <4>1, <3>1, <3>4, <3>5, <3>7
    <3>10. k + 1 \in Nat /\ t \in [1 .. k + 1 -> AckBlock]
      <4>1. \A i \in 1 .. k + 1 : t[i] \in AckBlock
        BY <3>1, <3>6, <3>8, <3>9, ElementOfSeq
      <4> HIDE DEF t, k
      <4> QED
        BY <4>1, <3>1, <3>7
    <3> HIDE DEF t, k
    <3>11. t \in Seq(AckBlock) /\ Len(t) = k + 1
      <4>1. t \in Seq(AckBlock)
        BY <3>10, SeqDef
      <4> QED
        BY <4>1, <3>10, LenProperties
    <3>12. /\ Append(o, d) \in Seq(AckBlock) /\ Len(Append(o, d)) = k + 1
           /\ Append(o, d)[k + 1] = d /\ \A i \in 1 .. k : Append(o, d)[i] = o[i]
      BY <3>1, <3>6, AppendProperties
    <3>13. t = Append(o, d)
      <4>1. \A i \in 1 .. Len(t) : t[i] = Append(o, d)[i]
        <5>1. \A i \in 1 .. k + 1 : t[i] = Append(o, d)[i]
          BY <3>8, <3>9, <3>12
        <5> QED
          BY <5>1, <3>11
      <4> QED
        BY <4>1, <3>11, <3>12, SeqEqual
    <3>14. \A u \in Account : u # m => MainqOf(u)' = MainqOf(u)
      <4>1. Account \subseteq User
        BY DEF User
      <4> QED
        BY <4>1, <3>2, <1>1 DEF MainqOf, Completion
    <3>15. PostedBlocks' = [PostedBlocks EXCEPT ![m] = Append(o, d)]
      BY <3>13, <3>14 DEF PostedBlocks, t
    <3> QED
      BY <3>15, <2>1, <2>3 DEF o, d
  <2> QED
    BY <2>2, <2>3
<1>13. ToldInv'
  <2> SUFFICES ASSUME NEW u \in User, NEW i \in 1 .. Len(told'[u])
               PROVE  told'[u][i].n \in decided'
    BY DEF ToldInv
  <2>1. CASE told'[u] = told[u]
    BY <2>1, <1>1, <1>2 DEF ToldInv
  <2>2. CASE told'[u] # told[u]
    <3>1. u = me /\ told'[u] = Append(told[u], b) /\ told[u] \in Seq([n : Write, ok : BOOLEAN])
      BY <2>2, <1>1, <1>2
    <3>2. b \in [n : Write, ok : BOOLEAN] /\ b.n = q[1].n
      BY <1>2, <1>3, TypeFacts DEF b, q
    <3> DEFINE k == Len(told[u])
    <3>3. /\ k \in Nat /\ Len(told'[u]) = k + 1 /\ told'[u][k + 1] = b
          /\ \A j \in 1 .. k : told'[u][j] = told[u][j]
      BY <3>1, <3>2, AppendProperties, LenProperties
    <3>4. i \in 1 .. k \/ i = k + 1
      BY <3>3
    <3>5. CASE i \in 1 .. k
      BY <3>3, <3>5, <1>1, <1>2 DEF ToldInv
    <3>6. CASE i = k + 1
      BY <3>2, <3>3, <3>6, <1>1
    <3> QED
      BY <3>4, <3>5, <3>6
  <2> QED
    BY <2>1, <2>2
<1> HIDE DEF s
<1> QED
  BY <1>9, <1>11, <1>12, <1>13 DEF s

\* A restart: the queues survive, those who waited for them and the blocks of the
\* main queue do not.
LEMMA RestartForgets ==
    ASSUME ContractInv, Restart
    PROVE  /\ WrittenQueue' = [u \in Account |-> [i \in DOMAIN QueueOf(u) |->
                                  [QueueOf(u)[i] EXCEPT !.then = "nobody"]]]
           /\ PostedBlocks' = [u \in Account |-> << >>]
           /\ ToldInv'
<1>1. /\ callbacks' = [u \in User |-> {}] /\ told' = [u \in User |-> << >>]
      /\ UNCHANGED <<made, queue>>
  BY DEF Restart
<1>2. Account \subseteq User
  BY DEF User
<1>3. ASSUME NEW u \in Account
      PROVE  QueueOf(u)' = [i \in DOMAIN QueueOf(u) |-> [QueueOf(u)[i] EXCEPT !.then = "nobody"]]
  <2>1. callbacks'[u] = {} /\ u \in User
    BY <1>1, <1>2
  <2> QED
    BY <2>1, <1>1 DEF QueueOf, AsWritten
<1>4. ASSUME NEW u \in Account
      PROVE  MainqOf(u)' = << >>
  <2>1. told'[u] = << >>
    BY <1>1, <1>2
  <2> QED
    BY <2>1 DEF MainqOf
<1>5. ToldInv'
  BY <1>1, EmptySeq DEF ToldInv
<1> QED
  BY <1>3, <1>4, <1>5 DEF WrittenQueue, PostedBlocks

-----------------------------------------------------------------------------
(***************************************************************************)
(* The theorem.                                                            *)
(***************************************************************************)

\* The first state of WritePipeline is a first state of the contract.
LEMMA InitRefines ==
    ASSUME Init
    PROVE  Contract!ContractInit /\ ToldInv
<1>1. /\ queue = [u \in User |-> << >>] /\ told = [u \in User |-> << >>]
  BY DEF Init
<1>2. Account \subseteq User
  BY DEF User
<1>3. \A u \in Account : QueueOf(u) = << >> /\ MainqOf(u) = << >>
  BY <1>1, <1>2 DEF QueueOf, MainqOf
<1>4. [r \in {} |-> 0] = << >>
  OBVIOUS
<1>5. ToldInv
  BY <1>1, EmptySeq DEF ToldInv
<1>6. Contract!ContractInit
  BY <1>3, <1>4 DEF Contract!ContractInit, Contract!SdkInit, QueueOf, MainqOf
<1> QED
  BY <1>5, <1>6

\* Every step is a step of the contract or not seen by the app.
LEMMA NextRefines ==
    ASSUME ContractInv, [Next]_vars
    PROVE  [Contract!ContractNext]_(Contract!sdkVars) /\ ToldInv'
<1>1. ASSUME UNCHANGED <<made, queue, callbacks, told, decided>>
      PROVE  [Contract!ContractNext]_(Contract!sdkVars) /\ ToldInv'
  <2>1. UNCHANGED <<WrittenQueue, PostedBlocks>>
    BY <1>1, UnseenStep
  <2>2. ToldInv'
    BY <1>1 DEF ContractInv, ToldInv
  <2> QED
    BY <2>1, <2>2, ContractStep
<1>2. CASE UNCHANGED vars
  BY <1>1, <1>2 DEF vars, device, outside
<1>3. CASE \E c \in stream.requests : GetToken(c) \/ GetTokenFails(c)
  BY <1>1, <1>3 DEF GetToken, GetTokenFails, outside
<1>4. CASE BackendReads \/ OnWriteStreamHandshakeComplete \/ BackoffElapsed
  BY <1>1, <1>4 DEF BackendReads, OnWriteStreamHandshakeComplete, BackoffElapsed, outside
<1>5. CASE RunCredential \/ RunResume
  BY <1>1, <1>5 DEF RunCredential, RunResume, outside
<1>6. CASE \E u \in User : AuthStateDidChange(u)
  BY <1>1, <1>6 DEF AuthStateDidChange, device
<1>7. CASE OnWriteStreamClose \/ IdleTimeout \/ ConnectivityChanged
  BY <1>1, <1>7 DEF OnWriteStreamClose, IdleTimeout, ConnectivityChanged
<1>8. CASE \E bad \in BOOLEAN : AppWrites(bad)
  BY <1>8, AppWritesUnseen, ContractStep
<1>9. CASE RunWrite
  BY <1>9, RunWriteMakes, ContractStep
<1>10. CASE OnWriteStreamMutationResult
  <2>1. Reply("ack") /\ Resolve(Head(stream.pipeline), TRUE)
    BY <1>10 DEF OnWriteStreamMutationResult
  <2>2. /\ stream.handshake /\ stream.pipeline # << >> /\ stream.replies[1] = "ack"
        /\ 1 \in 1 .. Len(stream.replies)
    BY <2>1, AnswerFindsWrite DEF ContractInv
  <2>3. ~made[queue[current_user][1].n].bad
    BY <2>2, AnsweredIsQueued DEF ContractInv, StoreInv, VerdictInv
  <2> QED
    BY <2>1, <2>2, <2>3, ResolveDecides, ContractStep
<1>11. CASE HandleWriteError
  <2>1. Reply("refused") /\ Resolve(Head(stream.pipeline), FALSE)
    BY <1>11 DEF HandleWriteError
  <2>2. /\ stream.handshake /\ stream.pipeline # << >> /\ stream.replies[1] = "refused"
        /\ 1 \in 1 .. Len(stream.replies)
    BY <2>1, AnswerFindsWrite DEF ContractInv
  <2>3. made[queue[current_user][1].n].bad
    BY <2>2, AnsweredIsQueued DEF ContractInv, StoreInv, VerdictInv
  <2> QED
    BY <2>1, <2>2, <2>3, ResolveDecides, ContractStep
<1>12. CASE Restart
  BY <1>12, RestartForgets, ContractStep
<1> QED
  BY <1>2, <1>3, <1>4, <1>5, <1>6, <1>7, <1>8, <1>9, <1>10, <1>11, <1>12 DEF Next, Progress

\* WritePipeline implements FirestoreContract: the writes of an account are
\* decided in order and once each, by the backend's own verdict, and the
\* completion of each is posted unless the process ended in between.  This is
\* what SocialGraph, Likes, ProfileScreen and the other modules of the app assume
\* of the SDK when they write.
THEOREM PipelineImplementsContract == Spec => ImplementsContract
<1>1. Init => Contract!ContractInit /\ ToldInv
  BY InitRefines
<1>2. ContractInv /\ [Next]_vars => [Contract!ContractNext]_(Contract!sdkVars) /\ ToldInv'
  BY NextRefines
<1> QED
  BY <1>1, <1>2, StoreInvariant, PTL DEF Spec, ContractInv, ImplementsContract, Contract!Contract
=============================================================================
