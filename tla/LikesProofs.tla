----------------------------- MODULE LikesProofs -----------------------------
(***************************************************************************)
(* Theorems about Likes, for any users and any bounds.                     *)
(***************************************************************************)
EXTENDS Likes, FirestoreProofs

-----------------------------------------------------------------------------
\* likePost and unlikePost of user u.
Chain(u) == [first |-> "postLikes", second |-> "userLikes", key |-> u]

MirrorInv ==
    \A u \in User : u \notin torn =>
        MirrorAt(queue[u], mainq[u], u \in postLikes, u \in userLikes, Chain(u))

\* The writes that move the counter: of `likes`, and of the user under the post.
Counts(w) == w.coll \in {"likes", "postLikes"}

\* Of those, the ones queued are on u's device, at the positions S.
CountsOnlyAt(u, S) ==
    \A v \in User : \A i \in DOMAIN queue[v] : Counts(queue[v][i]) => v = u /\ i \in S

\* The number of users under the post once write w is stored.
CountAfter(w) == Cardinality(Edited("postLikes", postLikes, w))

\* A tap queues the number that will be right when its second write is stored:
\* both of its writes are queued, one after the other, or the second only.
HalfCountedAt(u, i) ==
    /\ queue[u][i].coll = "postLikes"
    /\ CountsOnlyAt(u, {i})
    /\ likes = CountAfter(queue[u][i])

UncountedAt(u, i) ==
    /\ i + 1 \in DOMAIN queue[u]
    /\ queue[u][i].coll = "likes" /\ queue[u][i + 1].coll = "postLikes"
    /\ CountsOnlyAt(u, {i, i + 1})
    /\ queue[u][i].n = CountAfter(queue[u][i + 1])

Settled     == CounterSettled /\ likes = Cardinality(postLikes)
HalfCounted == \E u \in User : \E i \in DOMAIN queue[u] : HalfCountedAt(u, i)
Uncounted   == \E u \in User : \E i \in DOMAIN queue[u] : UncountedAt(u, i)

CountInv ==
    ~careless => Settled \/ HalfCounted \/ Uncounted

LikesInv == TypeOK /\ MirrorInv /\ CountInv

-----------------------------------------------------------------------------
(***************************************************************************)
(* Types.                                                                  *)
(***************************************************************************)
QueuesTyped(q) == DOMAIN q = User /\ \A u \in User : q[u] \in Seq(WritesOf(u))
MainqsTyped(m) == DOMAIN m = User /\ \A u \in User : m[u] \in Seq(BlocksOf(u))

\* What is known of a write of u's device.
LEMMA WriteFields ==
    ASSUME NEW u \in User, NEW w \in WritesOf(u)
    PROVE  /\ w.coll \in {"likes", "postLikes", "userLikes", "notifications"}
           /\ w.op \in {"set", "delete"} /\ w.key = u /\ w.n \in Nat
           /\ w.then \in {"chain", "cell", NoOne}
           /\ w.op = "delete" => w.n > 0
           /\ [w EXCEPT !.then = NoOne] \in WritesOf(u)
BY DEF WritesOf, Ops, NoOne

\* What is known of a block of u's main queue.
LEMMA BlockFields ==
    ASSUME NEW u \in User, NEW b \in BlocksOf(u)
    PROVE  /\ b.type \in {"ack", "answer", "reload"}
           /\ b.type = "ack" => b.w \in WritesOf(u) /\ b.ok \in BOOLEAN
           /\ b.type = "answer" /\ b.r = "fetch" => b.docs \in Nat
           /\ b.type = "answer" /\ b.r = "check" => b.docs \in BOOLEAN
BY DEF BlocksOf

\* The writes of likePost, unlikePost and their completions are u's; the copy
\* that unlikePost counts down is positive.
LEMMA LikeWriteTypes ==
    ASSUME NEW u \in User, NEW n \in Nat
    PROVE  /\ LikePost(u, n) \in Seq(WritesOf(u))
           /\ n > 0 => UnlikePost(u, n) \in Seq(WritesOf(u))
           /\ UserLikeWrite(u, "set", n) \in WritesOf(u)
           /\ n > 0 => UserLikeWrite(u, "delete", n) \in WritesOf(u)
           /\ NotificationWrite(u) \in WritesOf(u)
<1>1. \A k \in Nat : \A c \in {"likes", "postLikes", "userLikes", "notifications"} :
          \A t \in {"chain", "cell", NoOne} : Write(u, c, "set", k, t) \in WritesOf(u)
  BY DEF Write, WritesOf, Ops
<1>2. \A k \in Nat : \A c \in {"likes", "postLikes", "userLikes", "notifications"} :
          \A t \in {"chain", "cell", NoOne} : k > 0 => Write(u, c, "delete", k, t) \in WritesOf(u)
  BY DEF Write, WritesOf, Ops
<1>3. LikePost(u, n) \in Seq(WritesOf(u))
  BY <1>1 DEF LikePost
<1>4. n > 0 => UnlikePost(u, n) \in Seq(WritesOf(u))
  BY <1>1, <1>2 DEF UnlikePost
<1> QED
  BY <1>1, <1>2, <1>3, <1>4 DEF UserLikeWrite, NotificationWrite

\* Writes issued on a device keep the mutation queues typed.
LEMMA WriteMutationsTyped ==
    ASSUME QueuesTyped(queue), NEW u \in User, NEW ws \in Seq(WritesOf(u))
    PROVE  QueuesTyped(WriteMutations(u, ws))
BY ConcatProperties DEF QueuesTyped, WriteMutations

\* A block that runs, and the blocks it posts, keep the main queues typed.
LEMMA RunFirstTyped ==
    ASSUME MainqsTyped(mainq), NEW u \in User, mainq[u] # << >>, NEW bs \in Seq(BlocksOf(u))
    PROVE  MainqsTyped(RunFirst(u, bs)) /\ Head(mainq[u]) \in BlocksOf(u)
<1>1. Head(mainq[u]) \in BlocksOf(u) /\ Tail(mainq[u]) \in Seq(BlocksOf(u))
  BY HeadTailProperties DEF MainqsTyped
<1>2. Tail(mainq[u]) \o bs \in Seq(BlocksOf(u))
  BY <1>1, ConcatProperties
<1> QED
  BY <1>1, <1>2 DEF MainqsTyped, RunFirst

\* So does a block posted by the SDK.
LEMMA PostedTyped ==
    ASSUME MainqsTyped(mainq), NEW u \in User, NEW b \in BlocksOf(u)
    PROVE  MainqsTyped([mainq EXCEPT ![u] = Append(@, b)])
<1>1. Append(mainq[u], b) \in Seq(BlocksOf(u))
  BY AppendProperties DEF MainqsTyped
<1> QED
  BY <1>1 DEF MainqsTyped

\* A decided write leaves its queue, and its ack is a block of its device.
LEMMA NotifyUserTyped ==
    ASSUME QueuesTyped(queue), MainqsTyped(mainq), NEW u \in User, queue[u] # << >>,
           NEW ok \in BOOLEAN, NotifyUser(u, Head(queue[u]), ok)
    PROVE  QueuesTyped(queue') /\ MainqsTyped(mainq') /\ Head(queue[u]) \in WritesOf(u)
<1> DEFINE w == Head(queue[u])
<1>1. w \in WritesOf(u) /\ Tail(queue[u]) \in Seq(WritesOf(u))
  BY HeadTailProperties DEF QueuesTyped
<1>2. QueuesTyped(queue')
  BY <1>1 DEF QueuesTyped, NotifyUser
<1>3. Acked(w, ok) \in BlocksOf(u)
  BY <1>1 DEF Acked, BlocksOf
<1> HIDE DEF w
<1>4. mainq' = mainq \/ mainq' = [mainq EXCEPT ![u] = Append(@, Acked(w, ok))]
  BY DEF NotifyUser, w
<1>5. MainqsTyped(mainq')
  BY <1>3, <1>4, PostedTyped
<1> QED
  BY <1>1, <1>2, <1>5 DEF w

\* A device that is restarted keeps its writes.
LEMMA ForgottenTyped ==
    ASSUME QueuesTyped(queue), NEW u \in User
    PROVE  QueuesTyped([queue EXCEPT ![u] = Forgotten(@)])
<1>1. queue[u] \in Seq(WritesOf(u)) /\ DOMAIN queue[u] = 1..Len(queue[u]) /\ Len(queue[u]) \in Nat
  BY LenProperties DEF QueuesTyped
<1>2. \A i \in DOMAIN queue[u] : [queue[u][i] EXCEPT !.then = NoOne] \in WritesOf(u)
  BY <1>1, ElementOfSeq, WriteFields
<1>3. Forgotten(queue[u]) \in Seq(WritesOf(u))
  BY <1>1, <1>2 DEF Forgotten
<1> QED
  BY <1>3 DEF QueuesTyped

\* What fetchPost finds, the writes of the device included, is a number.
LEMMA LocalLikesTyped ==
    ASSUME TypeOK, NEW u \in User
    PROVE  LocalLikes(u) \in Nat
<1>1. /\ queue[u] \in Seq(WritesOf(u)) /\ DOMAIN queue[u] = 1..Len(queue[u])
      /\ Len(queue[u]) \in Nat
  BY LenProperties DEF TypeOK
<1>2. \A i \in DOMAIN queue[u] : queue[u][i].n \in Nat
  BY <1>1, ElementOfSeq, WriteFields
<1>3. CASE CounterWrites(u) = {}
  BY <1>3 DEF LocalLikes, TypeOK
<1>4. CASE CounterWrites(u) # {}
  <2> DEFINE last == CHOOSE i \in CounterWrites(u) : \A j \in CounterWrites(u) : j <= i
  <2>1. \E i \in CounterWrites(u) : \A j \in CounterWrites(u) : j <= i
    <3>1. CounterWrites(u) \in SUBSET (1..Len(queue[u]))
      BY <1>1 DEF CounterWrites
    <3> QED
      BY <1>1, <1>4, <3>1, HasLast
  <2>2. last \in CounterWrites(u)
    <3> HIDE DEF last
    <3> QED
      BY <2>1, Zenon DEF last
  <2>3. last \in DOMAIN queue[u]
    BY <2>2 DEF CounterWrites
  <2>4. LocalLikes(u) = queue[u][last].n
    BY <1>4 DEF LocalLikes
  <2> HIDE DEF last
  <2> QED
    BY <1>2, <2>3, <2>4
<1> QED
  BY <1>3, <1>4

\* The bounds on touches and faults are kept.
LEMMA BoundsKept ==
    ASSUME TypeOK
    PROVE  (Touch => touches' \in 0..MaxTouches) /\ (Fault => faults' \in 0..MaxFaults)
BY LikesBounds DEF TypeOK, Touch, Fault

\* Init: cards on the table.
LEMMA InitTyped ==
    ASSUME Init
    PROVE  TypeOK
<1>1. PICK S \in SUBSET User :
          likes = Cardinality(S) /\ postLikes = S /\ userLikes = S /\ notified = {}
  BY DEF Init
<1>2. likes \in Nat
  BY <1>1, LikersAssumption, FS_Subset, FS_CardinalityType
<1>3. touches \in 0..MaxTouches /\ faults \in 0..MaxFaults
  BY LikesBounds DEF Init
<1>4. NoCopy \in Copies
  BY DEF NoCopy, PostCopy, Copies
<1>5. asked \in [User -> [Reads -> Nat]]
  BY DEF Init
<1>6. /\ DOMAIN queue = User /\ \A u \in User : queue[u] \in Seq(WritesOf(u))
      /\ DOMAIN mainq = User /\ \A u \in User : mainq[u] \in Seq(BlocksOf(u))
  BY EmptySeq DEF Init
<1>7. /\ listed \in [User -> BOOLEAN] /\ shown \in [User -> BOOLEAN]
      /\ list \in [User -> Copies] /\ cell \in [User -> Copies] /\ torn = {} /\ careless = FALSE
  BY <1>4 DEF Init
<1> QED
  BY <1>1, <1>2, <1>3, <1>5, <1>6, <1>7 DEF TypeOK

\* Taps and refreshes.
LEMMA TouchedTyped ==
    ASSUME TypeOK, NEW u \in User, Touched(u)
    PROVE  TypeOK'
<1>t. QueuesTyped(queue) /\ MainqsTyped(mainq) /\ cell[u] \in Copies
  BY DEF TypeOK, QueuesTyped, MainqsTyped
<1>c. cell[u].likes \in Nat /\ cell[u].didLike \in BOOLEAN
  BY <1>t DEF Copies
<1>1. CASE DidTapLikeButton(u)
  <2> DEFINE post == cell[u]
             ws == IF ~post.didLike THEN LikePost(u, post.likes)
                   ELSE IF post.likes > 0 THEN UnlikePost(u, post.likes)
                   ELSE << >>
  <2>1. ws \in Seq(WritesOf(u))
    BY <1>c, LikeWriteTypes, EmptySeq
  <2>2. queue' = WriteMutations(u, ws)
    BY <1>1 DEF DidTapLikeButton
  <2> HIDE DEF ws
  <2>3. QueuesTyped(queue')
    BY <1>t, <2>1, <2>2, WriteMutationsTyped
  <2>4. cell' \in [User -> Copies]
    <3> DEFINE flag == ~cell[u].didLike
    <3>1. flag \in BOOLEAN /\ cell' = [cell EXCEPT ![u].didLike = flag]
      BY <1>1 DEF DidTapLikeButton
    <3> HIDE DEF flag
    <3> QED
      BY <3>1 DEF TypeOK, Copies
  <2>5. careless' \in BOOLEAN
    BY <1>1 DEF DidTapLikeButton, TypeOK
  <2> QED
    BY <1>1, <2>3, <2>4, <2>5, BoundsKept
    DEF DidTapLikeButton, backendVars, TypeOK, QueuesTyped
<1>2. CASE DetectRefresh(u)
  <2>1. Reload \in BlocksOf(u) /\ NoCopy \in Copies
    BY DEF Reload, BlocksOf, NoCopy, PostCopy, Copies
  <2>2. MainqsTyped(mainq')
    BY <1>2, <1>t, <2>1, PostedTyped DEF DetectRefresh
  <2>3. asked' \in [User -> [Reads -> Nat]]
    BY <1>2 DEF DetectRefresh, Ask, TypeOK
  <2>4. listed' \in [User -> BOOLEAN] /\ list' \in [User -> Copies]
    BY <1>2, <2>1 DEF DetectRefresh, TypeOK
  <2> QED
    BY <1>2, <2>2, <2>3, <2>4, BoundsKept
    DEF DetectRefresh, backendVars, history, TypeOK, MainqsTyped
<1> QED
  BY <1>1, <1>2 DEF Touched

\* Writes that are decided, reads that are answered or fail, and a restart.
LEMMA SdkTyped ==
    ASSUME TypeOK, NEW u \in User,
           \/ Commit(u) \/ Reject(u) \/ Kill(u)
           \/ \E r \in Reads : Answer(u, r) \/ FailToAnswer(u, r)
    PROVE  TypeOK'
<1>t. QueuesTyped(queue) /\ MainqsTyped(mainq) /\ asked \in [User -> [Reads -> Nat]]
  BY DEF TypeOK, QueuesTyped, MainqsTyped
<1>1. CASE Commit(u)
  <2> DEFINE w == Head(queue[u])
  <2>1. queue[u] # << >> /\ NotifyUser(u, w, TRUE) /\ UNCHANGED asked
    BY <1>1 DEF Commit, NotifyUser
  <2>2. QueuesTyped(queue') /\ MainqsTyped(mainq') /\ w \in WritesOf(u)
    BY <1>t, <2>1, NotifyUserTyped
  <2>3. w.key \in User /\ w.n \in Nat
    BY <2>2, WriteFields
  <2>4. /\ likes' = IF w.coll = "likes" THEN w.n ELSE likes
        /\ postLikes' = Edited("postLikes", postLikes, w)
        /\ userLikes' = Edited("userLikes", userLikes, w)
        /\ notified' = Edited("notifications", notified, w)
        /\ torn' = IF w.coll # "postLikes" THEN torn
                   ELSE IF w.then # NoOne THEN torn \ {u} ELSE torn \union {u}
        /\ UNCHANGED <<screenVars, counters, careless>>
    BY <1>1 DEF Commit
  <2> HIDE DEF w
  <2>5. likes' \in Nat /\ torn' \subseteq User
    BY <2>3, <2>4 DEF TypeOK
  <2>6. postLikes' \subseteq User /\ userLikes' \subseteq User /\ notified' \subseteq User
    BY <2>3, <2>4 DEF TypeOK, Edited
  <2> QED
    BY <2>1, <2>2, <2>4, <2>5, <2>6 DEF screenVars, counters, TypeOK, QueuesTyped, MainqsTyped
<1>2. CASE Reject(u)
  <2> DEFINE w == Head(queue[u])
  <2>1. queue[u] # << >> /\ NotifyUser(u, w, FALSE) /\ UNCHANGED asked
    BY <1>2 DEF Reject, NotifyUser
  <2>2. QueuesTyped(queue') /\ MainqsTyped(mainq')
    BY <1>t, <2>1, NotifyUserTyped
  <2>3. torn' \subseteq User
    BY <1>2 DEF Reject, TypeOK
  <2>4. careless' \in BOOLEAN
    BY <1>2 DEF Reject, TypeOK
  <2> QED
    BY <1>2, <2>1, <2>2, <2>3, <2>4, BoundsKept
    DEF Reject, backendVars, screenVars, TypeOK, QueuesTyped, MainqsTyped
<1>3. ASSUME NEW r \in Reads, Answer(u, r) PROVE TypeOK'
  <2>1. Answered(r, Found(u, r)) \in BlocksOf(u)
    <3>1. CASE r = "fetch"
      <4>1. Found(u, r) \in Nat
        BY <3>1, LocalLikesTyped DEF Found
      <4> QED
        BY <3>1, <4>1 DEF Answered, BlocksOf
    <3>2. CASE r = "check"
      <4>1. Found(u, r) \in BOOLEAN
        <5> DEFINE own == {i \in DOMAIN queue[u] :
                              queue[u][i].coll = "userLikes" /\ queue[u][i].key = u}
        <5>1. Found(u, r) = IF own = {} THEN u \in userLikes
                            ELSE \E i \in own : queue[u][i].op = "set" /\ \A j \in own : j <= i
          BY <3>2 DEF Found, LocallyPresent
        <5> HIDE DEF own
        <5>2. CASE own = {}
          BY <5>1, <5>2
        <5>3. CASE own # {}
          BY <5>1, <5>3
        <5> QED
          BY <5>2, <5>3
      <4> QED
        BY <3>2, <4>1 DEF Answered, BlocksOf
    <3> QED
      BY <3>1, <3>2 DEF Reads
  <2>2. MainqsTyped(mainq')
    BY <1>3, <1>t, <2>1, PostedTyped DEF Answer, Respond
  <2>3. asked' \in [User -> [Reads -> Nat]]
    BY <1>3, <1>t DEF Answer, Respond
  <2> QED
    BY <1>3, <2>2, <2>3
    DEF Answer, Respond, backendVars, screenVars, counters, history, TypeOK, MainqsTyped
<1>4. ASSUME NEW r \in Reads, FailToAnswer(u, r) PROVE TypeOK'
  <2>1. asked' \in [User -> [Reads -> Nat]]
    BY <1>4, <1>t DEF FailToAnswer, ReadFails
  <2> QED
    BY <1>4, <2>1, BoundsKept
    DEF FailToAnswer, ReadFails, backendVars, screenVars, history, TypeOK
<1>5. CASE Kill(u)
  <2>1. QueuesTyped(queue')
    BY <1>5, <1>t, ForgottenTyped DEF Kill
  <2>2. MainqsTyped(mainq')
    BY <1>5, <1>t, EmptySeq DEF Kill, MainqsTyped
  <2>3. asked' \in [User -> [Reads -> Nat]]
    BY <1>5, <1>t DEF Kill
  <2>4. NoCopy \in Copies
    BY DEF NoCopy, PostCopy, Copies
  <2>5. /\ listed' \in [User -> BOOLEAN] /\ shown' \in [User -> BOOLEAN]
        /\ list' \in [User -> Copies] /\ cell' \in [User -> Copies] /\ torn' \subseteq User
    BY <1>5, <2>4 DEF Kill, TypeOK
  <2> QED
    BY <1>5, <2>1, <2>2, <2>3, <2>5, BoundsKept
    DEF Kill, backendVars, TypeOK, QueuesTyped, MainqsTyped
<1> QED
  BY <1>1, <1>2, <1>3, <1>4, <1>5

\* What the main thread does to the queues of u's device: it runs the first
\* block, which queues writes ws and posts blocks bs.
LEMMA RunBlockQueues ==
    ASSUME TypeOK, NEW u \in User, RunBlock(u)
    PROVE  /\ mainq[u] # << >> /\ Head(mainq[u]) \in BlocksOf(u)
           /\ UNCHANGED <<backendVars, counters, history>>
           /\ QueuesTyped(queue') /\ MainqsTyped(mainq')
           /\ \A v \in User \ {u} : queue'[v] = queue[v] /\ mainq'[v] = mainq[v]
           /\ \E bs \in {<< >>, <<Reload>>} : mainq'[u] = Tail(mainq[u]) \o bs
           /\ \E ws \in Seq(WritesOf(u)) :
                 /\ queue'[u] = queue[u] \o ws
                 /\ \A i \in DOMAIN ws : ~Counts(ws[i])
                 /\ IF Head(mainq[u]).type = "ack" /\ Head(mainq[u]).w.coll = "postLikes"
                    THEN ws = <<UserLikeWrite(u, Head(mainq[u]).w.op, Head(mainq[u]).w.n)>>
                    ELSE \A i \in DOMAIN ws : ws[i].coll # "userLikes"
<1> DEFINE b == Head(mainq[u])
           IsLikeAck == b.type = "ack" /\ b.w.coll = "postLikes"
<1>t. QueuesTyped(queue) /\ MainqsTyped(mainq)
  BY DEF TypeOK, QueuesTyped, MainqsTyped
<1>1. mainq[u] # << >> /\ UNCHANGED <<backendVars, counters, history>>
      /\ \E bs \in {<< >>, <<Reload>>} : mainq' = RunFirst(u, bs)
  BY DEF RunBlock, PostLikeAcked, LikeCompletion, Fetched, Checked, ReloadData, Running
<1>2. b \in BlocksOf(u) /\ Reload \in BlocksOf(u)
  <2>1. b \in BlocksOf(u)
    BY <1>1, <1>t, HeadTailProperties DEF MainqsTyped
  <2>2. Reload \in BlocksOf(u)
    BY DEF BlocksOf, Reload
  <2> QED
    BY <2>1, <2>2
<1>3. MainqsTyped(mainq')
  <2>1. << >> \in Seq(BlocksOf(u)) /\ <<Reload>> \in Seq(BlocksOf(u))
    BY <1>2
  <2> QED
    BY <1>1, <2>1, <1>t, RunFirstTyped
<1>4. /\ \A v \in User \ {u} : mainq'[v] = mainq[v]
      /\ \E bs \in {<< >>, <<Reload>>} : mainq'[u] = Tail(mainq[u]) \o bs
  BY <1>1, <1>t DEF RunFirst, MainqsTyped
<1> DEFINE Effect(ws) ==
              /\ \A i \in DOMAIN ws : ~Counts(ws[i])
              /\ IF IsLikeAck THEN ws = <<UserLikeWrite(u, b.w.op, b.w.n)>>
                 ELSE \A i \in DOMAIN ws : ws[i].coll # "userLikes"
<1>5. PICK ws \in Seq(WritesOf(u)) :
          /\ (queue' = queue /\ ws = << >>) \/ queue' = WriteMutations(u, ws)
          /\ Effect(ws)
  <2> HIDE DEF b
  <2>e. << >> \in Seq(WritesOf(u)) /\ DOMAIN << >> = {}
    BY EmptySeq
  <2>1. CASE PostLikeAcked(u, b)
    <3> DEFINE w == UserLikeWrite(u, b.w.op, b.w.n)
    <3>1. b.w \in WritesOf(u) /\ IsLikeAck /\ queue' = WriteMutations(u, <<w>>)
      BY <1>2, <2>1, BlockFields DEF PostLikeAcked
    <3>2. w \in WritesOf(u)
      BY <3>1, WriteFields, LikeWriteTypes
    <3>3. w.coll = "userLikes"
      BY DEF UserLikeWrite, Write
    <3> HIDE DEF w
    <3>4. <<w>> \in Seq(WritesOf(u)) /\ \A i \in DOMAIN <<w>> : ~Counts(<<w>>[i])
      BY <3>2, <3>3 DEF Counts
    <3> QED
      BY <3>1, <3>4 DEF w
  <2>2. CASE LikeCompletion(u, b)
    <3>1. ~IsLikeAck
      BY <2>2 DEF LikeCompletion
    <3>2. CASE queue' = queue \/ queue' = WriteMutations(u, << >>)
      BY <2>e, <3>1, <3>2
    <3>3. CASE queue' = WriteMutations(u, <<NotificationWrite(u)>>)
      <4> DEFINE w == NotificationWrite(u)
      <4>1. w \in WritesOf(u) /\ w.coll = "notifications"
        BY LikeWriteTypes DEF NotificationWrite, Write
      <4> HIDE DEF w
      <4>2. /\ <<w>> \in Seq(WritesOf(u))
            /\ \A i \in DOMAIN <<w>> : ~Counts(<<w>>[i]) /\ <<w>>[i].coll # "userLikes"
        BY <4>1 DEF Counts
      <4> QED
        BY <3>1, <3>3, <4>2 DEF w
    <3> QED
      BY <2>2, <3>2, <3>3 DEF LikeCompletion
  <2>3. CASE Fetched(u, b) \/ Checked(u, b) \/ ReloadData(u, b)
    <3>1. ~IsLikeAck /\ queue' = queue
      BY <2>3 DEF Fetched, Checked, ReloadData
    <3> QED
      BY <2>e, <3>1
  <2> QED
    BY <2>1, <2>2, <2>3 DEF RunBlock, b
<1>6. QueuesTyped(queue')
  BY <1>5, <1>t, WriteMutationsTyped
<1>7. queue'[u] = queue[u] \o ws /\ \A v \in User \ {u} : queue'[v] = queue[v]
  <2>1. CASE queue' = queue /\ ws = << >>
    BY <2>1, <1>t, ConcatEmptySeq DEF QueuesTyped
  <2>2. CASE queue' = WriteMutations(u, ws)
    BY <2>2, <1>t DEF WriteMutations, QueuesTyped
  <2> QED
    BY <1>5, <2>1, <2>2
<1> QED
  BY <1>1, <1>2, <1>3, <1>4, <1>5, <1>6, <1>7

\* A block of the main queue keeps the screen typed.
LEMMA RunBlockTyped ==
    ASSUME TypeOK, NEW u \in User, RunBlock(u)
    PROVE  TypeOK'
<1> DEFINE b == Head(mainq[u])
<1>1. /\ b \in BlocksOf(u) /\ UNCHANGED <<backendVars, counters, history>>
      /\ QueuesTyped(queue') /\ MainqsTyped(mainq')
  BY RunBlockQueues
<1> HIDE DEF b
<1>2. SUFFICES /\ asked' \in [User -> [Reads -> Nat]]
               /\ listed' \in [User -> BOOLEAN] /\ shown' \in [User -> BOOLEAN]
               /\ list' \in [User -> Copies] /\ cell' \in [User -> Copies]
  BY <1>1 DEF TypeOK, QueuesTyped, MainqsTyped, backendVars, counters, history
<1>3. CASE PostLikeAcked(u, b)
  BY <1>3 DEF PostLikeAcked, screenVars, TypeOK
<1>4. CASE LikeCompletion(u, b)
  <2>1. b.w \in WritesOf(u)
    BY <1>1, <1>4, BlockFields DEF LikeCompletion
  <2>2. (IF b.w.op = "set" THEN b.w.n + 1 ELSE b.w.n - 1) \in Nat
    <3>1. b.w.n \in Nat /\ (b.w.op # "set" => b.w.n > 0)
      BY <2>1, WriteFields
    <3> QED
      BY <3>1
  <2>3. cell' \in [User -> Copies]
    <3> DEFINE n == IF b.w.op = "set" THEN b.w.n + 1 ELSE b.w.n - 1
    <3>1. cell' = cell \/ cell' = [cell EXCEPT ![u].likes = n]
      BY <1>4 DEF LikeCompletion
    <3>2. n \in Nat
      BY <2>2
    <3> HIDE DEF n
    <3> QED
      BY <3>1, <3>2, ZenonT(40) DEF TypeOK, Copies
  <2> QED
    BY <1>4, <2>3 DEF LikeCompletion, TypeOK
<1>5. CASE Fetched(u, b)
  <2>1. PostCopy(b.docs, FALSE) \in Copies
    BY <1>1, <1>5, BlockFields DEF Fetched, PostCopy, Copies
  <2>2. asked' \in [User -> [Reads -> Nat]]
    BY <1>5 DEF Fetched, Ask, TypeOK
  <2> QED
    BY <1>5, <2>1, <2>2 DEF Fetched, TypeOK
<1>6. CASE Checked(u, b)
  <2>1. b.docs \in BOOLEAN
    BY <1>1, <1>6, BlockFields DEF Checked
  <2>2. list' \in [User -> Copies]
    BY <1>6, <2>1 DEF Checked, TypeOK, Copies
  <2> QED
    BY <1>6, <2>2 DEF Checked, TypeOK
<1>7. CASE ReloadData(u, b)
  BY <1>7 DEF ReloadData, TypeOK
<1> QED
  BY <1>3, <1>4, <1>5, <1>6, <1>7 DEF RunBlock, b

\* Every step keeps the types; the counter and its copies stay natural numbers.
LEMMA NextTyped ==
    ASSUME TypeOK, Next
    PROVE  TypeOK'
<1> PICK u \in User : Touched(u) \/ Progress(u) \/ Failing(u)
  BY DEF Next
<1> QED
  BY TouchedTyped, SdkTyped, RunBlockTyped DEF Progress, Failing

-----------------------------------------------------------------------------
(***************************************************************************)
(* The two records of a like agree.                                        *)
(***************************************************************************)
MirrorOf(u) ==
    u \notin torn => MirrorAt(queue[u], mainq[u], u \in postLikes, u \in userLikes, Chain(u))

\* What happens on other devices does not matter to a user's like.
LEMMA MirrorFrame ==
    ASSUME NEW v \in User, MirrorOf(v), queue'[v] = queue[v], mainq'[v] = mainq[v],
           v \in postLikes' <=> v \in postLikes, v \in userLikes' <=> v \in userLikes,
           v \notin torn' => v \notin torn
    PROVE  MirrorOf(v)'
<1> SUFFICES ASSUME v \notin torn'
             PROVE  MirrorAt(queue'[v], mainq'[v], v \in postLikes', v \in userLikes', Chain(v))
  BY DEF MirrorOf, MirrorAt, Acks, IsAck, Seconds, IsSecond, Chain
<1>1. MirrorAt(queue[v], mainq[v], v \in postLikes, v \in userLikes, Chain(v))
  BY DEF MirrorOf
<1> QED
  BY <1>1 DEF MirrorAt

\* A tap queues no second write, a refresh posts no completion.
LEMMA MirrorTouched ==
    ASSUME TypeOK, NEW u \in User, Touched(u), MirrorOf(u)
    PROVE  MirrorOf(u)'
<1>t. queue[u] \in Seq(WritesOf(u)) /\ mainq[u] \in Seq(BlocksOf(u)) /\ cell[u] \in Copies
      /\ u \in DOMAIN queue /\ u \in DOMAIN mainq
  BY DEF TypeOK
<1> SUFFICES ASSUME u \notin torn'
             PROVE  MirrorAt(queue'[u], mainq'[u], u \in postLikes', u \in userLikes', Chain(u))
  BY DEF MirrorOf, MirrorAt, Acks, IsAck, Seconds, IsSecond, Chain
<1>1. UNCHANGED <<postLikes, userLikes, torn>>
  BY DEF Touched, DidTapLikeButton, DetectRefresh, backendVars, history
<1>2. MirrorAt(queue[u], mainq[u], u \in postLikes, u \in userLikes, Chain(u))
  BY <1>1 DEF MirrorOf
<1>3. CASE DidTapLikeButton(u)
  <2> DEFINE post == cell[u]
             ws == IF ~post.didLike THEN LikePost(u, post.likes)
                   ELSE IF post.likes > 0 THEN UnlikePost(u, post.likes)
                   ELSE << >>
  <2>1. ws \in Seq(WritesOf(u))
    <3>1. post.likes \in Nat
      BY <1>t DEF Copies
    <3> QED
      BY <3>1, LikeWriteTypes, EmptySeq
  <2>2. \A i \in DOMAIN ws : ~IsSecond(ws[i], Chain(u))
    BY DEF LikePost, UnlikePost, Write, IsSecond, Chain
  <2>3. queue'[u] = queue[u] \o ws /\ UNCHANGED mainq
    BY <1>3, <1>t DEF DidTapLikeButton, WriteMutations
  <2> HIDE DEF ws
  <2>4. MirrorAt(queue[u] \o ws, mainq[u], u \in postLikes, u \in userLikes, Chain(u))
    BY <1>t, <1>2, <2>1, <2>2, MirrorAppendWrites
  <2> QED
    BY <1>1, <2>3, <2>4
<1>4. CASE DetectRefresh(u)
  <2>1. mainq'[u] = Append(mainq[u], Reload) /\ UNCHANGED queue
    BY <1>4, <1>t DEF DetectRefresh
  <2>2. Reload \in BlocksOf(u) /\ ~IsAck(Reload, Chain(u))
    BY DEF Reload, BlocksOf, IsAck
  <2> HIDE DEF Reload
  <2>3. MirrorAt(queue[u], Append(mainq[u], Reload), u \in postLikes, u \in userLikes, Chain(u))
    BY <1>t, <1>2, <2>2, MirrorAppendBlock
  <2> QED
    BY <1>1, <2>1, <2>3
<1> QED
  BY <1>3, <1>4 DEF Touched

\* What the SDK does to the queues of u's device when a write is decided.
LEMMA Decided ==
    ASSUME TypeOK, NEW u \in User, queue[u] # << >>, NEW ok \in BOOLEAN,
           NotifyUser(u, Head(queue[u]), ok)
    PROVE  /\ Head(queue[u]) \in WritesOf(u)
           /\ Acked(Head(queue[u]), ok) \in BlocksOf(u)
           /\ queue'[u] = Tail(queue[u])
           /\ mainq'[u] = IF Head(queue[u]).then = NoOne THEN mainq[u]
                          ELSE Append(mainq[u], Acked(Head(queue[u]), ok))
           /\ \A v \in User \ {u} : queue'[v] = queue[v] /\ mainq'[v] = mainq[v]
<1>1. Head(queue[u]) \in WritesOf(u)
  BY HeadTailProperties DEF TypeOK
<1>2. Acked(Head(queue[u]), ok) \in BlocksOf(u)
  BY <1>1 DEF Acked, BlocksOf
<1>3. queue'[u] = Tail(queue[u]) /\ \A v \in User \ {u} : queue'[v] = queue[v]
  BY DEF NotifyUser, TypeOK
<1>4. CASE Head(queue[u]).then = NoOne
  BY <1>1, <1>2, <1>3, <1>4 DEF NotifyUser
<1>5. CASE Head(queue[u]).then # NoOne
  BY <1>1, <1>2, <1>3, <1>5 DEF NotifyUser, TypeOK
<1> QED
  BY <1>4, <1>5

\* The write of u's device that the backend stores.
LEMMA MirrorCommit ==
    ASSUME TypeOK, NEW u \in User, Commit(u), MirrorOf(u)
    PROVE  MirrorOf(u)'
<1> DEFINE w == Head(queue[u])
           b == Acked(w, TRUE)
           X == u \in postLikes
           Y == u \in userLikes
<1> SUFFICES ASSUME u \notin torn'
             PROVE  MirrorAt(queue'[u], mainq'[u], u \in postLikes', u \in userLikes', Chain(u))
  BY DEF MirrorOf, MirrorAt, Acks, IsAck, Seconds, IsSecond, Chain
<1>t. queue[u] \in Seq(WritesOf(u)) /\ mainq[u] \in Seq(BlocksOf(u)) /\ queue[u] # << >>
  BY DEF TypeOK, Commit
<1>1. /\ w \in WritesOf(u) /\ b \in BlocksOf(u)
      /\ queue'[u] = Tail(queue[u])
      /\ mainq'[u] = IF w.then = NoOne THEN mainq[u] ELSE Append(mainq[u], b)
  BY <1>t, Decided DEF Commit
<1>2. /\ postLikes' = Edited("postLikes", postLikes, w)
      /\ userLikes' = Edited("userLikes", userLikes, w)
      /\ torn' = IF w.coll # "postLikes" THEN torn
                 ELSE IF w.then # NoOne THEN torn \ {u} ELSE torn \union {u}
  BY DEF Commit
<1>3. w.key = u /\ w.op \in {"set", "delete"}
      /\ w.coll \in {"likes", "postLikes", "userLikes", "notifications"}
  BY <1>1, WriteFields
<1>4. IsAck(b, Chain(u)) <=> w.coll = "postLikes"
  BY <1>3 DEF b, IsAck, Acked, Chain
<1>5. IsSecond(w, Chain(u)) <=> w.coll = "userLikes"
  BY <1>3 DEF IsSecond, Chain
<1>6. b.w.op = w.op
  BY DEF b, Acked
<1> HIDE DEF w, b
<1>7. CASE w.coll = "postLikes"
  <2>1. w.then # NoOne /\ mainq'[u] = Append(mainq[u], b)
    BY <1>1, <1>2, <1>7
  <2>2. b.w.op = "set" <=> u \in postLikes'
    BY <1>2, <1>3, <1>6, <1>7 DEF Edited
  <2>3. MirrorAt(queue'[u], Append(mainq[u], b), u \in postLikes', u \in userLikes', Chain(u))
    BY <1>1, <1>4, <1>7, <1>t, <2>2, MirrorFirstStored
  <2> QED
    BY <2>1, <2>3
<1>8. CASE w.coll # "postLikes"
  <2>1. MirrorAt(queue[u], mainq[u], X, Y, Chain(u)) /\ (u \in postLikes' <=> X)
    BY <1>2, <1>8 DEF MirrorOf, Edited
  <2>2. MirrorAt(Tail(queue[u]), mainq[u], X, u \in userLikes', Chain(u))
    <3>1. CASE w.coll = "userLikes"
      <4>1. w.op = "set" <=> u \in userLikes'
        BY <1>2, <1>3, <3>1 DEF Edited
      <4> QED
        BY <1>5, <1>t, <2>1, <3>1, <4>1, MirrorSecondStored DEF w
    <3>2. CASE w.coll # "userLikes"
      <4>1. u \in userLikes' <=> Y
        BY <1>2, <3>2 DEF Edited
      <4>2. MirrorAt(Tail(queue[u]), mainq[u], X, Y, Chain(u))
        BY <1>5, <1>t, <2>1, <3>2, MirrorDecideOther DEF w
      <4> QED
        BY <4>1, <4>2 DEF MirrorAt
    <3> QED
      BY <3>1, <3>2
  <2>3. MirrorAt(Tail(queue[u]), mainq'[u], X, u \in userLikes', Chain(u))
    <3>1. CASE w.then = NoOne
      BY <1>1, <2>2, <3>1
    <3>2. CASE w.then # NoOne
      <4>1. MirrorAt(Tail(queue[u]), Append(mainq[u], b), X, u \in userLikes', Chain(u))
        BY <1>1, <1>4, <1>8, <1>t, <2>2, MirrorAppendBlock
      <4> QED
        BY <1>1, <3>2, <4>1
    <3> QED
      BY <3>1, <3>2
  <2> QED
    BY <1>1, <2>1, <2>3 DEF MirrorAt
<1> QED
  BY <1>7, <1>8

\* A refused write of the chain tears it; any other does not matter.
LEMMA MirrorReject ==
    ASSUME TypeOK, NEW u \in User, Reject(u), MirrorOf(u)
    PROVE  MirrorOf(u)'
<1> DEFINE w == Head(queue[u])
           b == Acked(w, FALSE)
<1> SUFFICES ASSUME u \notin torn'
             PROVE  MirrorAt(queue'[u], mainq'[u], u \in postLikes', u \in userLikes', Chain(u))
  BY DEF MirrorOf, MirrorAt, Acks, IsAck, Seconds, IsSecond, Chain
<1>t. queue[u] \in Seq(WritesOf(u)) /\ mainq[u] \in Seq(BlocksOf(u)) /\ queue[u] # << >>
  BY DEF TypeOK, Reject
<1>1. /\ b \in BlocksOf(u)
      /\ queue'[u] = Tail(queue[u])
      /\ mainq'[u] = IF w.then = NoOne THEN mainq[u] ELSE Append(mainq[u], b)
  BY <1>t, Decided DEF Reject
<1>2. /\ UNCHANGED <<postLikes, userLikes>> /\ u \notin torn
      /\ w.coll # "postLikes" /\ w.coll # "userLikes"
  BY DEF Reject, backendVars
<1>3. ~IsAck(b, Chain(u)) /\ ~IsSecond(w, Chain(u))
  BY <1>2 DEF IsAck, Acked, IsSecond, Chain
<1>4. MirrorAt(queue[u], mainq[u], u \in postLikes, u \in userLikes, Chain(u))
  BY <1>2 DEF MirrorOf
<1> HIDE DEF b
<1>5. MirrorAt(Tail(queue[u]), mainq[u], u \in postLikes, u \in userLikes, Chain(u))
  BY <1>3, <1>4, <1>t, MirrorDecideOther
<1>6. MirrorAt(Tail(queue[u]), Append(mainq[u], b), u \in postLikes, u \in userLikes, Chain(u))
  BY <1>1, <1>3, <1>5, <1>t, MirrorAppendBlock
<1> QED
  BY <1>1, <1>2, <1>5, <1>6

\* An answer is no completion; a restart keeps the writes, and a completion it
\* loses tears the chain.
LEMMA MirrorAnswered ==
    ASSUME TypeOK, NEW u \in User, MirrorOf(u),
           Kill(u) \/ \E r \in Reads : Answer(u, r) \/ FailToAnswer(u, r)
    PROVE  MirrorOf(u)'
<1> SUFFICES ASSUME u \notin torn'
             PROVE  MirrorAt(queue'[u], mainq'[u], u \in postLikes', u \in userLikes', Chain(u))
  BY DEF MirrorOf, MirrorAt, Acks, IsAck, Seconds, IsSecond, Chain
<1>t. queue[u] \in Seq(WritesOf(u)) /\ mainq[u] \in Seq(BlocksOf(u))
      /\ u \in DOMAIN queue /\ u \in DOMAIN mainq
  BY DEF TypeOK
<1>1. UNCHANGED <<postLikes, userLikes>> /\ u \notin torn
  BY DEF Kill, Answer, FailToAnswer, backendVars, history
<1>2. MirrorAt(queue[u], mainq[u], u \in postLikes, u \in userLikes, Chain(u))
  BY <1>1 DEF MirrorOf
<1>3. ASSUME NEW r \in Reads, Answer(u, r)
      PROVE  MirrorAt(queue'[u], mainq'[u], u \in postLikes', u \in userLikes', Chain(u))
  <2> DEFINE b == Answered(r, Found(u, r))
  <2>1. UNCHANGED queue /\ mainq'[u] = Append(mainq[u], b)
    BY <1>3, <1>t DEF Answer, Respond
  <2>2. ~IsAck(b, Chain(u))
    BY DEF IsAck, Answered
  <2> HIDE DEF b
  <2>3. mainq[u] \in Seq(BlocksOf(u) \union {b}) /\ b \in BlocksOf(u) \union {b}
    BY <1>t
  <2>4. MirrorAt(queue[u], Append(mainq[u], b), u \in postLikes, u \in userLikes, Chain(u))
    BY <1>2, <2>2, <2>3, MirrorAppendBlock
  <2> QED
    BY <1>1, <2>1, <2>4
<1>4. ASSUME NEW r \in Reads, FailToAnswer(u, r)
      PROVE  MirrorAt(queue'[u], mainq'[u], u \in postLikes', u \in userLikes', Chain(u))
  BY <1>1, <1>2, <1>4 DEF FailToAnswer, ReadFails
<1>5. CASE Kill(u)
  <2>1. queue'[u] = Forgotten(queue[u]) /\ mainq'[u] = << >> /\ LikeAcks(u) = {}
    BY <1>5, <1>t DEF Kill
  <2>2. Acks(mainq[u], Chain(u)) = {}
    BY <2>1 DEF Acks, IsAck, Chain, LikeAcks
  <2>3. \A i \in DOMAIN queue[u] : /\ Forgotten(queue[u])[i].coll = queue[u][i].coll
                                   /\ Forgotten(queue[u])[i].key = queue[u][i].key
                                   /\ Forgotten(queue[u])[i].op = queue[u][i].op
    <3>1. \A i \in DOMAIN queue[u] : queue[u][i] \in WritesOf(u)
      BY <1>t, ElementOfSeq, LenProperties
    <3> QED
      BY <3>1 DEF Forgotten, WritesOf
  <2>4. MirrorAt(Forgotten(queue[u]), << >>, u \in postLikes, u \in userLikes, Chain(u))
    BY <1>2, <1>t, <2>2, <2>3, MirrorKilled
  <2> QED
    BY <1>1, <2>1, <2>4
<1> QED
  BY <1>3, <1>4, <1>5

\* The completion of the first write issues the second; no other block does.
LEMMA MirrorRunBlock ==
    ASSUME TypeOK, NEW u \in User, RunBlock(u), MirrorOf(u)
    PROVE  MirrorOf(u)'
<1> DEFINE b == Head(mainq[u])
           X == u \in postLikes
           Y == u \in userLikes
<1>t. queue[u] \in Seq(WritesOf(u)) /\ mainq[u] \in Seq(BlocksOf(u))
  BY DEF TypeOK
<1>1. /\ mainq[u] # << >> /\ b \in BlocksOf(u)
      /\ UNCHANGED <<backendVars, counters, history>>
  BY RunBlockQueues
<1> SUFFICES ASSUME u \notin torn'
             PROVE  MirrorAt(queue'[u], mainq'[u], u \in postLikes', u \in userLikes', Chain(u))
  BY DEF MirrorOf, MirrorAt, Acks, IsAck, Seconds, IsSecond, Chain
<1>2. MirrorAt(queue[u], mainq[u], X, Y, Chain(u)) /\ UNCHANGED <<postLikes, userLikes>>
  BY <1>1 DEF MirrorOf, backendVars, history
<1>3. PICK bs \in {<< >>, <<Reload>>} : mainq'[u] = Tail(mainq[u]) \o bs
  BY RunBlockQueues
<1>4. PICK ws \in Seq(WritesOf(u)) :
          /\ queue'[u] = queue[u] \o ws
          /\ IF b.type = "ack" /\ b.w.coll = "postLikes"
             THEN ws = <<UserLikeWrite(u, b.w.op, b.w.n)>>
             ELSE \A i \in DOMAIN ws : ws[i].coll # "userLikes"
  BY RunBlockQueues
<1>5. IsAck(b, Chain(u)) <=> b.type = "ack" /\ b.w.coll = "postLikes"
  <2>1. b.type = "ack" => b.w.key = u
    BY <1>1, BlockFields, WriteFields
  <2> QED
    BY <2>1 DEF IsAck, Chain
<1>6. MirrorAt(queue'[u], Tail(mainq[u]), X, Y, Chain(u))
  <2>1. CASE IsAck(b, Chain(u))
    <3> DEFINE w == UserLikeWrite(u, b.w.op, b.w.n)
    <3>1. IsSecond(w, Chain(u)) /\ w.op = b.w.op
      BY DEF IsSecond, Chain, UserLikeWrite, Write
    <3>2. ws = <<w>> /\ ws[1] = w /\ w \in WritesOf(u)
      <4>1. ws = <<w>>
        BY <1>4, <1>5, <2>1
      <4>2. 1 \in DOMAIN ws /\ ws[1] = w
        BY <4>1
      <4>3. ws[1] \in WritesOf(u)
        BY <4>2, ElementOfSeq, LenProperties
      <4> QED
        BY <4>1, <4>2, <4>3
    <3> HIDE DEF w, b
    <3>3. MirrorAt(queue[u] \o <<w>>, Tail(mainq[u]), X, Y, Chain(u))
      BY <1>1, <1>2, <1>t, <2>1, <3>1, <3>2, MirrorSecondIssued DEF b
    <3> QED
      BY <1>4, <3>2, <3>3
  <2>2. CASE ~IsAck(b, Chain(u))
    <3>1. \A i \in DOMAIN ws : ~IsSecond(ws[i], Chain(u))
      BY <1>4, <1>5, <2>2 DEF IsSecond, Chain
    <3>2. MirrorAt(queue[u], Tail(mainq[u]), X, Y, Chain(u))
      BY <1>1, <1>2, <1>t, <2>2, MirrorRunOther
    <3>3. MirrorAt(queue[u] \o ws, Tail(mainq[u]), X, Y, Chain(u))
      BY <1>t, <3>1, <3>2, MirrorAppendWrites
    <3> QED
      BY <1>4, <3>3
  <2> QED
    BY <2>1, <2>2
<1>7. MirrorAt(queue'[u], mainq'[u], X, Y, Chain(u))
  <2>t. Tail(mainq[u]) \in Seq(BlocksOf(u))
    BY <1>1, <1>t, HeadTailProperties
  <2>1. CASE bs = << >>
    <3>1. mainq'[u] = Tail(mainq[u])
      BY <1>3, <2>1, <2>t, ConcatEmptySeq
    <3> QED
      BY <1>6, <3>1
  <2>2. CASE bs = <<Reload>>
    <3>1. Reload \in BlocksOf(u) /\ ~IsAck(Reload, Chain(u))
      BY DEF Reload, BlocksOf, IsAck
    <3> HIDE DEF Reload
    <3>2. mainq'[u] = Append(Tail(mainq[u]), Reload)
      BY <1>3, <2>2, <2>t, <3>1, AppendIsConcat
    <3>3. MirrorAt(queue'[u], Append(Tail(mainq[u]), Reload), X, Y, Chain(u))
      BY <1>6, <2>t, <3>1, MirrorAppendBlock
    <3> QED
      BY <3>2, <3>3
  <2> QED
    BY <1>3, <2>1, <2>2
<1> QED
  BY <1>2, <1>7

\* A step of u's device, or about it, leaves the queues and the likes of other
\* users alone.
LEMMA OthersUntouched ==
    ASSUME TypeOK, NEW u \in User, Touched(u) \/ Progress(u) \/ Failing(u),
           NEW v \in User \ {u}
    PROVE  /\ queue'[v] = queue[v] /\ mainq'[v] = mainq[v]
           /\ v \in postLikes' <=> v \in postLikes
           /\ v \in userLikes' <=> v \in userLikes
           /\ v \notin torn' => v \notin torn
<1>t. /\ DOMAIN queue = User /\ DOMAIN mainq = User
      /\ queue[u] \in Seq(WritesOf(u)) /\ u # v
  BY DEF TypeOK
<1>1. CASE Touched(u)
  BY <1>1, <1>t DEF Touched, DidTapLikeButton, DetectRefresh, WriteMutations, backendVars, history
<1>2. CASE Commit(u)
  <2> DEFINE w == Head(queue[u])
  <2>1. queue[u] # << >> /\ NotifyUser(u, w, TRUE)
    BY <1>2 DEF Commit
  <2>2. w \in WritesOf(u) /\ queue'[v] = queue[v] /\ mainq'[v] = mainq[v]
    BY <2>1, Decided
  <2>3. w.key = u
    BY <2>2, WriteFields
  <2>4. /\ postLikes' = Edited("postLikes", postLikes, w)
        /\ userLikes' = Edited("userLikes", userLikes, w)
        /\ v \notin torn' => v \notin torn
    BY <1>2, <1>t DEF Commit
  <2> HIDE DEF w
  <2> QED
    BY <1>t, <2>2, <2>3, <2>4 DEF Edited
<1>3. CASE Reject(u)
  <2>1. queue[u] # << >> /\ NotifyUser(u, Head(queue[u]), FALSE)
    BY <1>3 DEF Reject
  <2>2. queue'[v] = queue[v] /\ mainq'[v] = mainq[v]
    BY <2>1, Decided
  <2> QED
    BY <1>3, <2>2 DEF Reject, backendVars
<1>4. ASSUME NEW r \in Reads, Answer(u, r) \/ FailToAnswer(u, r)
      PROVE  UNCHANGED <<backendVars, torn>> /\ queue'[v] = queue[v] /\ mainq'[v] = mainq[v]
  BY <1>4, <1>t DEF Answer, Respond, FailToAnswer, ReadFails, backendVars, history
<1>5. CASE Kill(u)
  BY <1>5, <1>t DEF Kill, backendVars
<1>6. CASE RunBlock(u)
  BY <1>6, RunBlockQueues DEF backendVars, history
<1> QED
  BY <1>1, <1>2, <1>3, <1>4, <1>5, <1>6 DEF Progress, Failing, backendVars

\* Every step keeps the two records on their way to agreement.
LEMMA MirrorNext ==
    ASSUME TypeOK, MirrorInv, Next
    PROVE  MirrorInv'
<1>0. \A v \in User : MirrorOf(v)
  BY DEF MirrorInv, MirrorOf
<1> PICK u \in User : Touched(u) \/ Progress(u) \/ Failing(u)
  BY DEF Next
<1>1. ASSUME NEW v \in User \ {u} PROVE MirrorOf(v)'
  BY <1>0, OthersUntouched, MirrorFrame
<1>2. MirrorOf(u)'
  BY <1>0, MirrorTouched, MirrorCommit, MirrorReject, MirrorAnswered, MirrorRunBlock
  DEF Progress, Failing
<1>3. \A v \in User : MirrorOf(v)'
  BY <1>1, <1>2
<1> QED
  BY <1>3 DEF MirrorInv, MirrorOf

\* At the start no write is queued and the two records agree.
LEMMA MirrorInit ==
    ASSUME Init
    PROVE  MirrorInv
<1> SUFFICES ASSUME NEW u \in User
             PROVE  MirrorAt(queue[u], mainq[u], u \in postLikes, u \in userLikes, Chain(u))
  BY DEF MirrorInv
<1>1. queue[u] = << >> /\ mainq[u] = << >> /\ (u \in postLikes <=> u \in userLikes)
  BY DEF Init
<1>2. Acks(<< >>, Chain(u)) = {} /\ Seconds(<< >>, Chain(u)) = {}
  BY DEF Acks, Seconds
<1> QED
  BY <1>1, <1>2 DEF MirrorAt

-----------------------------------------------------------------------------
(***************************************************************************)
(* The counter.                                                            *)
(***************************************************************************)

\* A step that only adds other writes to the end of queues, or forgets who waits.
LEMMA CountAppended ==
    ASSUME TypeOK, CountInv, UNCHANGED <<likes, postLikes, careless>>,
           \A v \in User :
              /\ DOMAIN queue[v] \subseteq DOMAIN queue'[v]
              /\ \A i \in DOMAIN queue[v] : /\ queue'[v][i].coll = queue[v][i].coll
                                            /\ queue'[v][i].op = queue[v][i].op
                                            /\ queue'[v][i].key = queue[v][i].key
                                            /\ queue'[v][i].n = queue[v][i].n
              /\ \A i \in DOMAIN queue'[v] : i \notin DOMAIN queue[v] => ~Counts(queue'[v][i])
    PROVE  CountInv'
<1> SUFFICES ASSUME ~careless PROVE Settled' \/ HalfCounted' \/ Uncounted'
  BY DEF CountInv
<1>1. ASSUME NEW u, NEW S, CountsOnlyAt(u, S) PROVE CountsOnlyAt(u, S)'
  BY <1>1 DEF CountsOnlyAt, Counts
<1>2. CASE Settled
  <2>1. CounterSettled'
    BY <1>2 DEF Settled, CounterSettled, Counts
  <2> QED
    BY <1>2, <2>1 DEF Settled
<1>3. CASE HalfCounted
  <2>1. PICK u \in User : \E i \in DOMAIN queue[u] : HalfCountedAt(u, i)
    BY <1>3 DEF HalfCounted
  <2>2. PICK i \in DOMAIN queue[u] : HalfCountedAt(u, i)
    BY <2>1
  <2>3. i \in DOMAIN queue'[u] /\ queue'[u][i].coll = "postLikes" /\ CountsOnlyAt(u, {i})'
    BY <1>1, <2>2 DEF HalfCountedAt
  <2>4. likes' = CountAfter(queue[u][i])'
    BY <2>2 DEF HalfCountedAt, CountAfter, Edited
  <2> QED
    BY <2>3, <2>4 DEF HalfCounted, HalfCountedAt
<1>4. CASE Uncounted
  <2>1. PICK u \in User : \E i \in DOMAIN queue[u] : UncountedAt(u, i)
    BY <1>4 DEF Uncounted
  <2>2. PICK i \in DOMAIN queue[u] : UncountedAt(u, i)
    BY <2>1
  <2>3. /\ i \in DOMAIN queue'[u] /\ i + 1 \in DOMAIN queue'[u]
        /\ queue'[u][i].coll = "likes" /\ queue'[u][i + 1].coll = "postLikes"
        /\ CountsOnlyAt(u, {i, i + 1})'
    BY <1>1, <2>2 DEF UncountedAt
  <2>4. queue'[u][i].n = CountAfter(queue[u][i + 1])'
    BY <2>2 DEF UncountedAt, CountAfter, Edited
  <2> QED
    BY <2>3, <2>4 DEF Uncounted, UncountedAt
<1> QED
  BY <1>2, <1>3, <1>4 DEF CountInv

\* The oldest write of u's device leaves the queue, and is stored if it counts.
LEMMA CountDecided ==
    ASSUME TypeOK, CountInv, ~careless, NEW u \in User, queue[u] # << >>,
           queue'[u] = Tail(queue[u]), \A v \in User \ {u} : queue'[v] = queue[v],
           likes' = IF Head(queue[u]).coll = "likes" THEN Head(queue[u]).n ELSE likes,
           postLikes' = Edited("postLikes", postLikes, Head(queue[u]))
    PROVE  CountInv'
<1> DEFINE w == Head(queue[u])
<1>t. queue[u] \in Seq(WritesOf(u))
  BY DEF TypeOK
<1>1. queue'[u] = Tail(queue[u]) /\ \A v \in User \ {u} : queue'[v] = queue[v]
  OBVIOUS
<1>2. /\ likes' = IF w.coll = "likes" THEN w.n ELSE likes
      /\ postLikes' = Edited("postLikes", postLikes, w)
  OBVIOUS
<1>3. /\ Len(queue[u]) \in Nat /\ DOMAIN queue[u] = 1..Len(queue[u]) /\ Len(queue[u]) > 0
      /\ queue[u][1] = w
      /\ DOMAIN queue'[u] = 1..(Len(queue[u]) - 1)
      /\ \A i \in DOMAIN queue'[u] : queue'[u][i] = queue[u][i + 1]
  BY <1>1, <1>t, HeadTailProperties, LenProperties, EmptySeq
<1> HIDE DEF w
<1>4. ~Counts(w) => UNCHANGED <<likes, postLikes>>
  BY <1>2 DEF Counts, Edited
<1>5. ASSUME NEW v \in User, NEW S, CountsOnlyAt(v, S), NEW T,
             \A i \in S : v = u => i = 1 \/ i - 1 \in T, v # u => S \subseteq T
      PROVE  CountsOnlyAt(v, T)'
  <2> SUFFICES ASSUME NEW x \in User, NEW i \in DOMAIN queue'[x], Counts(queue'[x][i])
               PROVE  x = v /\ i \in T
    BY DEF CountsOnlyAt, Counts
  <2>1. CASE x = u
    <3>1. i \in Nat /\ i # 0 /\ i + 1 \in DOMAIN queue[u] /\ queue[u][i + 1] = queue'[u][i]
      <4>1. i \in DOMAIN queue'[u]
        BY <2>1
      <4> QED
        BY <1>3, <4>1
    <3>2. v = u /\ i + 1 \in S
      BY <1>5, <2>1, <3>1 DEF CountsOnlyAt
    <3>3. i + 1 = 1 \/ (i + 1) - 1 \in T
      BY <1>5, <3>2
    <3>4. (i + 1) - 1 = i /\ i + 1 # 1
      BY <3>1
    <3> QED
      BY <2>1, <3>2, <3>3, <3>4
  <2>2. CASE x # u
    <3>1. x = v /\ i \in S
      BY <1>1, <1>5, <2>2 DEF CountsOnlyAt
    <3> QED
      BY <1>5, <2>2, <3>1
  <2> QED
    BY <2>1, <2>2
<1> SUFFICES Settled' \/ HalfCounted' \/ Uncounted'
  BY DEF CountInv
<1>6. CASE Settled
  <2>1. ~Counts(w)
    BY <1>3, <1>6 DEF Settled, CounterSettled, Counts
  <2>2. \A v \in User : \A i \in DOMAIN queue'[v] : queue'[v][i].coll \notin {"likes", "postLikes"}
    <3> SUFFICES ASSUME NEW v \in User, NEW i \in DOMAIN queue'[v]
                 PROVE  queue'[v][i].coll \notin {"likes", "postLikes"}
      OBVIOUS
    <3>1. CASE v = u
      <4>1. i + 1 \in DOMAIN queue[u] /\ queue[u][i + 1] = queue'[u][i]
        <5>1. i \in DOMAIN queue'[u]
          BY <3>1
        <5> QED
          BY <1>3, <5>1
      <4> QED
        BY <1>6, <3>1, <4>1 DEF Settled, CounterSettled
    <3>2. CASE v # u
      BY <1>1, <1>6, <3>2 DEF Settled, CounterSettled
    <3> QED
      BY <3>1, <3>2
  <2> QED
    BY <1>4, <1>6, <2>1, <2>2 DEF Settled, CounterSettled
<1>7. CASE HalfCounted
  <2>1. PICK v \in User : \E i \in DOMAIN queue[v] : HalfCountedAt(v, i)
    BY <1>7 DEF HalfCounted
  <2>2. PICK i \in DOMAIN queue[v] : HalfCountedAt(v, i)
    BY <2>1
  <2>3. queue[v][i].coll = "postLikes" /\ CountsOnlyAt(v, {i}) /\ likes = CountAfter(queue[v][i])
    BY <2>2 DEF HalfCountedAt
  <2>4. CASE v = u /\ i = 1
    <3>1. likes' = likes /\ likes' = Cardinality(postLikes')
      BY <1>2, <1>3, <2>3, <2>4 DEF CountAfter
    <3>2. CountsOnlyAt(v, {})'
      BY <1>5, <2>3, <2>4
    <3>3. CounterSettled'
      BY <3>2 DEF CountsOnlyAt, CounterSettled, Counts
    <3> QED
      BY <3>1, <3>3 DEF Settled
  <2>5. CASE v = u /\ i # 1
    <3>1. ~Counts(w)
      <4>1. 1 \in DOMAIN queue[u] /\ queue[u][1] = w
        BY <1>3
      <4> QED
        BY <2>3, <2>5, <4>1 DEF CountsOnlyAt
    <3>2. i - 1 \in DOMAIN queue'[u] /\ queue'[u][i - 1] = queue[u][i]
      BY <1>3, <2>5
    <3>3. CountsOnlyAt(v, {i - 1})'
      BY <1>5, <2>3, <2>5
    <3>4. UNCHANGED <<likes, postLikes>>
      BY <1>4, <3>1
    <3>5. HalfCountedAt(u, i - 1)'
      BY <2>3, <2>5, <3>2, <3>3, <3>4 DEF HalfCountedAt, CountAfter
    <3> QED
      BY <3>2, <3>5 DEF HalfCounted
  <2>6. CASE v # u
    <3>1. ~Counts(w)
      <4>1. 1 \in DOMAIN queue[u] /\ queue[u][1] = w
        BY <1>3
      <4> QED
        BY <2>3, <2>6, <4>1 DEF CountsOnlyAt
    <3>2. CountsOnlyAt(v, {i})'
      BY <1>5, <2>3, <2>6
    <3>3. UNCHANGED <<likes, postLikes>> /\ queue'[v] = queue[v]
      BY <1>1, <1>4, <2>6, <3>1
    <3>4. HalfCountedAt(v, i)'
      BY <2>3, <3>2, <3>3 DEF HalfCountedAt, CountAfter
    <3> QED
      BY <3>3, <3>4 DEF HalfCounted
  <2> QED
    BY <2>4, <2>5, <2>6
<1>8. CASE Uncounted
  <2>1. PICK v \in User : \E i \in DOMAIN queue[v] : UncountedAt(v, i)
    BY <1>8 DEF Uncounted
  <2>2. PICK i \in DOMAIN queue[v] : UncountedAt(v, i)
    BY <2>1
  <2>3. /\ i + 1 \in DOMAIN queue[v]
        /\ queue[v][i].coll = "likes" /\ queue[v][i + 1].coll = "postLikes"
        /\ CountsOnlyAt(v, {i, i + 1})
        /\ queue[v][i].n = CountAfter(queue[v][i + 1])
    BY <2>2 DEF UncountedAt
  <2>4. CASE v = u /\ i = 1
    <3>1. w.coll = "likes" /\ likes' = w.n /\ UNCHANGED postLikes
      BY <1>2, <1>3, <2>3, <2>4 DEF Edited
    <3>2. 1 \in DOMAIN queue'[u] /\ queue'[u][1] = queue[u][2]
      BY <1>3, <2>3, <2>4
    <3>3. CountsOnlyAt(u, {1})'
      BY <1>5, <2>3, <2>4
    <3>4. HalfCountedAt(u, 1)'
      BY <1>3, <2>3, <2>4, <3>1, <3>2, <3>3 DEF HalfCountedAt, CountAfter
    <3> QED
      BY <3>2, <3>4 DEF HalfCounted
  <2>5. CASE v = u /\ i # 1
    <3>1. ~Counts(w)
      <4>1. 1 \in DOMAIN queue[u] /\ queue[u][1] = w /\ i \in Nat /\ i # 0
        BY <1>3, <2>5
      <4>2. 1 # i + 1
        BY <4>1
      <4> QED
        BY <2>3, <2>5, <4>1, <4>2 DEF CountsOnlyAt
    <3>2. /\ i - 1 \in DOMAIN queue'[u] /\ queue'[u][i - 1] = queue[u][i]
          /\ (i - 1) + 1 \in DOMAIN queue'[u] /\ queue'[u][(i - 1) + 1] = queue[u][i + 1]
      BY <1>3, <2>3, <2>5
    <3>3. CountsOnlyAt(v, {i - 1, (i - 1) + 1})'
      <4>1. \A k \in {i, i + 1} : k - 1 \in {i - 1, (i - 1) + 1}
        BY <1>3, <2>5
      <4> QED
        BY <1>5, <2>3, <2>5, <4>1
    <3>4. UNCHANGED <<likes, postLikes>>
      BY <1>4, <3>1
    <3>5. UncountedAt(u, i - 1)'
      BY <2>3, <2>5, <3>2, <3>3, <3>4 DEF UncountedAt, CountAfter
    <3> QED
      BY <3>2, <3>5 DEF Uncounted
  <2>6. CASE v # u
    <3>1. ~Counts(w)
      <4>1. 1 \in DOMAIN queue[u] /\ queue[u][1] = w
        BY <1>3
      <4> QED
        BY <2>3, <2>6, <4>1 DEF CountsOnlyAt
    <3>2. CountsOnlyAt(v, {i, i + 1})'
      BY <1>5, <2>3, <2>6
    <3>3. UNCHANGED <<likes, postLikes>> /\ queue'[v] = queue[v]
      BY <1>1, <1>4, <2>6, <3>1
    <3>4. UncountedAt(v, i)'
      BY <2>3, <3>2, <3>3 DEF UncountedAt, CountAfter
    <3> QED
      BY <3>3, <3>4 DEF Uncounted
  <2> QED
    BY <2>4, <2>5, <2>6
<1> QED
  BY <1>6, <1>7, <1>8 DEF CountInv

\* A tap made from a cell that shows the current state queues the right number.
LEMMA CountTapped ==
    ASSUME TypeOK, CountInv, NEW u \in User, DidTapLikeButton(u)
    PROVE  CountInv'
<1> SUFFICES ASSUME ~careless' PROVE Settled' \/ HalfCounted' \/ Uncounted'
  BY DEF CountInv
<1> DEFINE post == cell[u]
           ws == IF ~post.didLike THEN LikePost(u, post.likes)
                 ELSE IF post.likes > 0 THEN UnlikePost(u, post.likes)
                 ELSE << >>
<1>t. /\ queue[u] \in Seq(WritesOf(u)) /\ u \in DOMAIN queue
      /\ IsFiniteSet(postLikes) /\ likes \in Nat
  BY LikersAssumption, FS_Subset DEF TypeOK
<1>1. ~careless /\ Careful(u)
  BY DEF DidTapLikeButton
<1>2. CounterSettled /\ post.likes = likes /\ (post.didLike <=> u \in postLikes)
  BY <1>1 DEF Careful
<1>3. likes = Cardinality(postLikes)
  <2>1. Settled \/ HalfCounted \/ Uncounted
    BY <1>1 DEF CountInv
  <2>2. ~HalfCounted /\ ~Uncounted
    BY <1>2 DEF CounterSettled, HalfCounted, HalfCountedAt, Uncounted, UncountedAt
  <2> QED
    BY <2>1, <2>2 DEF Settled
<1>4. /\ queue'[u] = queue[u] \o ws /\ \A v \in User \ {u} : queue'[v] = queue[v]
      /\ UNCHANGED <<likes, postLikes>>
  BY <1>t DEF DidTapLikeButton, WriteMutations, backendVars
<1>5. CASE ws = << >>
  <2>1. queue'[u] = queue[u]
    BY <1>4, <1>5, <1>t, ConcatEmptySeq
  <2>2. CounterSettled'
    BY <1>2, <1>4, <2>1 DEF CounterSettled
  <2> QED
    BY <1>3, <1>4, <2>2 DEF Settled
<1>6. ASSUME NEW a, NEW b, ws = <<a, b>>, a.coll = "likes", b.coll = "postLikes",
             a.n = CountAfter(b)
      PROVE  Uncounted'
  <2> HIDE DEF ws
  <2>1. PICK n \in Nat : n = Len(queue[u]) /\ DOMAIN queue[u] = 1..n
    BY <1>t, LenProperties
  <2>2. /\ DOMAIN queue'[u] = 1..(n + 2)
        /\ queue'[u][n + 1] = a /\ queue'[u][n + 2] = b
        /\ \A i \in 1..n : queue'[u][i] = queue[u][i]
    BY <1>4, <1>6, <1>t, <2>1
  <2>3. CountsOnlyAt(u, {n + 1, (n + 1) + 1})'
    <3> SUFFICES ASSUME NEW v \in User, NEW i \in DOMAIN queue'[v], Counts(queue'[v][i])
                 PROVE  v = u /\ i \in {n + 1, (n + 1) + 1}
      BY DEF CountsOnlyAt, Counts
    <3>1. v = u
      BY <1>2, <1>4 DEF CounterSettled, Counts
    <3>2. i \in 1..(n + 2)
      BY <2>2, <3>1
    <3>3. i \notin 1..n
      BY <1>2, <2>1, <2>2, <3>1 DEF CounterSettled, Counts
    <3> QED
      BY <2>1, <3>1, <3>2, <3>3
  <2>4. (n + 1) + 1 = n + 2 /\ n + 1 \in 1..(n + 2) /\ n + 2 \in 1..(n + 2)
    BY <2>1
  <2>5. UncountedAt(u, n + 1)'
    BY <1>4, <1>6, <2>2, <2>3, <2>4 DEF UncountedAt, CountAfter
  <2> QED
    BY <2>2, <2>4, <2>5 DEF Uncounted
<1>7. CASE ~post.didLike
  <2> DEFINE a == Write(u, "likes", "set", likes + 1, NoOne)
             b == Write(u, "postLikes", "set", likes, "chain")
  <2>1. ws = <<a, b>>
    BY <1>2, <1>7 DEF LikePost
  <2>2. a.coll = "likes" /\ b.coll = "postLikes" /\ a.n = likes + 1
        /\ Edited("postLikes", postLikes, b) = postLikes \union {u}
    BY DEF Write, Edited
  <2>3. Cardinality(postLikes \union {u}) = likes + 1
    BY <1>2, <1>3, <1>7, <1>t, FS_AddElement
  <2> HIDE DEF a, b, ws
  <2> QED
    BY <1>6, <2>1, <2>2, <2>3 DEF CountAfter
<1>8. CASE post.didLike /\ post.likes > 0
  <2> DEFINE a == Write(u, "likes", "set", likes - 1, NoOne)
             b == Write(u, "postLikes", "delete", likes, "chain")
  <2>1. ws = <<a, b>>
    BY <1>2, <1>8 DEF UnlikePost
  <2>2. a.coll = "likes" /\ b.coll = "postLikes" /\ a.n = likes - 1
        /\ Edited("postLikes", postLikes, b) = postLikes \ {u}
    BY DEF Write, Edited
  <2>3. Cardinality(postLikes \ {u}) = likes - 1
    BY <1>2, <1>3, <1>8, <1>t, FS_RemoveElement
  <2> HIDE DEF a, b, ws
  <2> QED
    BY <1>6, <2>1, <2>2, <2>3 DEF CountAfter
<1> QED
  BY <1>5, <1>7, <1>8

\* Every step keeps the counter exact, or on its way to be.
LEMMA CountNext ==
    ASSUME TypeOK, CountInv, Next
    PROVE  CountInv'
<1> PICK u \in User : Touched(u) \/ Progress(u) \/ Failing(u)
  BY DEF Next
<1>t. QueuesTyped(queue) /\ queue[u] \in Seq(WritesOf(u)) /\ u \in DOMAIN queue
  BY DEF TypeOK, QueuesTyped
<1>1. CASE DidTapLikeButton(u)
  BY <1>1, CountTapped
<1>2. CASE DetectRefresh(u) \/ \E r \in Reads : Answer(u, r) \/ FailToAnswer(u, r)
  <2>1. UNCHANGED <<queue, likes, postLikes, careless>>
    BY <1>2 DEF DetectRefresh, Answer, Respond, FailToAnswer, ReadFails, backendVars, history
  <2> QED
    BY <2>1, CountAppended
<1>3. CASE Commit(u)
  <2>1. queue[u] # << >> /\ NotifyUser(u, Head(queue[u]), TRUE) /\ UNCHANGED careless
        /\ likes' = (IF Head(queue[u]).coll = "likes" THEN Head(queue[u]).n ELSE likes)
        /\ postLikes' = Edited("postLikes", postLikes, Head(queue[u]))
    BY <1>3 DEF Commit
  <2>2. queue'[u] = Tail(queue[u]) /\ \A v \in User \ {u} : queue'[v] = queue[v]
    BY <2>1, Decided
  <2>3. CASE careless
    BY <2>1, <2>3 DEF CountInv
  <2>4. CASE ~careless
    BY <2>1, <2>2, <2>4, CountDecided
  <2> QED
    BY <2>3, <2>4
<1>4. CASE Reject(u)
  <2>1. queue[u] # << >> /\ NotifyUser(u, Head(queue[u]), FALSE) /\ UNCHANGED <<likes, postLikes>>
        /\ careless' = (careless \/ Head(queue[u]).coll \in {"likes", "postLikes"})
    BY <1>4 DEF Reject, backendVars
  <2>2. queue'[u] = Tail(queue[u]) /\ \A v \in User \ {u} : queue'[v] = queue[v]
    BY <2>1, Decided
  <2>3. CASE careless'
    BY <2>3 DEF CountInv
  <2>4. CASE ~careless'
    <3>1. /\ ~careless
          /\ likes' = (IF Head(queue[u]).coll = "likes" THEN Head(queue[u]).n ELSE likes)
          /\ postLikes' = Edited("postLikes", postLikes, Head(queue[u]))
      BY <2>1, <2>4 DEF Edited
    <3> QED
      BY <2>1, <2>2, <3>1, CountDecided
  <2> QED
    BY <2>3, <2>4
<1>5. CASE Kill(u)
  <2>1. /\ queue' = [queue EXCEPT ![u] = Forgotten(@)]
        /\ UNCHANGED <<likes, postLikes, careless>>
    BY <1>5 DEF Kill, backendVars
  <2>2. \A i \in DOMAIN queue[u] : queue[u][i] \in WritesOf(u)
    BY <1>t, ElementOfSeq, LenProperties
  <2>3. /\ DOMAIN Forgotten(queue[u]) = DOMAIN queue[u]
        /\ \A i \in DOMAIN queue[u] : /\ Forgotten(queue[u])[i].coll = queue[u][i].coll
                                      /\ Forgotten(queue[u])[i].op = queue[u][i].op
                                      /\ Forgotten(queue[u])[i].key = queue[u][i].key
                                      /\ Forgotten(queue[u])[i].n = queue[u][i].n
    BY <2>2 DEF Forgotten, WritesOf
  <2>4. queue'[u] = Forgotten(queue[u]) /\ \A v \in User \ {u} : queue'[v] = queue[v]
    BY <1>t, <2>1 DEF QueuesTyped
  <2> QED
    BY <2>1, <2>3, <2>4, CountAppended
<1>6. CASE RunBlock(u)
  <2>1. /\ UNCHANGED <<likes, postLikes, careless>>
        /\ \A v \in User \ {u} : queue'[v] = queue[v]
    BY <1>6, RunBlockQueues DEF backendVars, history
  <2>2. PICK ws \in Seq(WritesOf(u)) :
            queue'[u] = queue[u] \o ws /\ \A i \in DOMAIN ws : ~Counts(ws[i])
    BY <1>6, RunBlockQueues
  <2> DEFINE q == queue'[u]
  <2>3. /\ Len(queue[u]) \in Nat /\ DOMAIN queue[u] = 1..Len(queue[u])
        /\ Len(ws) \in Nat /\ DOMAIN ws = 1..Len(ws)
        /\ DOMAIN q = 1..(Len(queue[u]) + Len(ws))
        /\ \A i \in DOMAIN q :
              q[i] = IF i <= Len(queue[u]) THEN queue[u][i] ELSE ws[i - Len(queue[u])]
    BY <1>t, <2>2, ConcatProperties, LenProperties
  <2> HIDE DEF q
  <2>4. /\ DOMAIN queue[u] \subseteq DOMAIN q
        /\ \A i \in DOMAIN queue[u] : q[i] = queue[u][i]
    BY <2>3
  <2>5. \A i \in DOMAIN q : i \notin DOMAIN queue[u] => i - Len(queue[u]) \in DOMAIN ws /\ q[i] = ws[i - Len(queue[u])]
    BY <2>3
  <2>6. \A i \in DOMAIN q : i \notin DOMAIN queue[u] => ~Counts(q[i])
    BY <2>2, <2>5
  <2> QED
    BY <2>1, <2>4, <2>6, CountAppended DEF q
<1> QED
  BY <1>1, <1>2, <1>3, <1>4, <1>5, <1>6 DEF Touched, Progress, Failing

-----------------------------------------------------------------------------
(***************************************************************************)
(* The theorems.                                                           *)
(***************************************************************************)

\* At the start nothing is queued, and the counter is exact.
LEMMA InitInv ==
    ASSUME Init
    PROVE  LikesInv
<1>1. Settled
  <2>1. CounterSettled
    BY DEF Init, CounterSettled
  <2>2. likes = Cardinality(postLikes)
    BY DEF Init
  <2> QED
    BY <2>1, <2>2 DEF Settled
<1> QED
  BY <1>1, InitTyped, MirrorInit DEF LikesInv, CountInv

\* A stuttering step changes nothing.
LEMMA LikesStutter ==
    ASSUME LikesInv, UNCHANGED vars
    PROVE  LikesInv'
<1>1. UNCHANGED <<queue, asked, mainq, likes, postLikes, userLikes, notified, listed, list, shown,
                  cell, touches, faults, torn, careless>>
  BY DEF vars, sdkVars, backendVars, screenVars, counters, history
<1>2. TypeOK'
  BY <1>1 DEF LikesInv, TypeOK
<1>3. MirrorInv'
  BY <1>1 DEF LikesInv, MirrorInv, MirrorAt, Acks, IsAck, Seconds, IsSecond, Chain
<1>4. CountInv'
  BY <1>1, CountAppended DEF LikesInv
<1> QED
  BY <1>2, <1>3, <1>4 DEF LikesInv

\* The inductive invariant of likes holds in every state.
THEOREM LikesInvariant == Spec => []LikesInv
<1>1. Init => LikesInv
  BY InitInv
<1>2. LikesInv /\ [Next]_vars => LikesInv'
  BY NextTyped, MirrorNext, CountNext, LikesStutter DEF LikesInv
<1> QED
  BY <1>1, <1>2, PTL DEF Spec

\* Every variable has its type: the counter, its copies on the devices and the
\* numbers unlikePost queues never go below zero, whatever the taps race with.
THEOREM LikesTypeCorrect == Spec => []TypeOK
<1>1. LikesInv => TypeOK
  BY DEF LikesInv
<1> QED
  BY <1>1, LikesInvariant, PTL

\* The two documents of likePost and unlikePost agree once their chain has run,
\* if it lost no write.
THEOREM LikesAreMirrored == Spec => []LikeMirrored
<1>1. LikesInv => LikeMirrored
  <2> SUFFICES ASSUME LikesInv, NEW u \in User \ torn, LikeAcks(u) = {}, QueuedUserLikes(u) = {}
               PROVE  u \in postLikes <=> u \in userLikes
    BY DEF LikeMirrored
  <2>1. MirrorAt(queue[u], mainq[u], u \in postLikes, u \in userLikes, Chain(u))
    BY DEF LikesInv, MirrorInv
  <2>2. Acks(mainq[u], Chain(u)) = {} /\ Seconds(queue[u], Chain(u)) = {}
    BY DEF Acks, IsAck, Seconds, IsSecond, Chain, LikeAcks, QueuedUserLikes
  <2> QED
    BY <2>1, <2>2 DEF MirrorAt
<1> QED
  BY <1>1, LikesInvariant, PTL

\* As long as taps are made from cells that show the current state, the counter
\* is the number of users under the post whenever no write of it is queued.
THEOREM CounterIsExact == Spec => []CounterExact
<1>1. LikesInv => CounterExact
  <2> SUFFICES ASSUME LikesInv, ~careless, CounterSettled PROVE likes = Cardinality(postLikes)
    BY DEF CounterExact
  <2>1. ~HalfCounted /\ ~Uncounted
    BY DEF CounterSettled, HalfCounted, HalfCountedAt, Uncounted, UncountedAt
  <2> QED
    BY <2>1 DEF LikesInv, CountInv, Settled
<1> QED
  BY <1>1, LikesInvariant, PTL
=============================================================================
