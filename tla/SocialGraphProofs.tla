-------------------------- MODULE SocialGraphProofs --------------------------
(***************************************************************************)
(* Theorems about SocialGraph, for every set of users and posts and every  *)
(* bound on taps and faults.  The feed of patient users comes last.        *)
(***************************************************************************)
EXTENDS SocialGraph, FirestoreProofs

-----------------------------------------------------------------------------
(***************************************************************************)
(* Types of the writes and of the blocks the actions create.               *)
(***************************************************************************)

\* The writes of UserService.follow / unfollow and its completions are writes
\* of the device that follows.
LEMMA FollowWriteTypes ==
    ASSUME NEW u \in User, NEW v \in User, u # v, NEW op \in Ops,
           NEW screen \in {"profile", "notifications", NoOne}
    PROVE  /\ FollowingWrite(u, v, op, screen) \in WritesOf(u)
           /\ FollowersWrite(u, v, op, screen) \in WritesOf(u)
           /\ NotificationWrite(u, v) \in WritesOf(u)
    BY DEF FollowingWrite, FollowersWrite, NotificationWrite, Write, WritesOf, Ops, Coll, Key,
           Pair, NoOne

\* The writes of uploadPost and of the two feed updates, on the device that
\* issues them.
LEMMA PostWriteTypes ==
    ASSUME NEW p \in Post, NEW v \in User, NEW op \in Ops
    PROVE  /\ PostWrite(p) \in WritesOf(Owner[p])
           /\ FeedWrite(v, p, op) \in WritesOf(Owner[p])
           /\ FeedWrite(v, p, op) \in WritesOf(v)
    BY DEF PostWrite, FeedWrite, Write, WritesOf, Ops, Coll, Key, FeedKey, NoOne

\* What is known of a write of u's device.
LEMMA WriteFields ==
    ASSUME NEW u \in User, NEW w \in WritesOf(u)
    PROVE  /\ w.coll \in Coll /\ w.op \in Ops /\ w.key \in Key(w.coll)
           /\ w.coll \in {"following", "followers"} =>
                /\ w.key \in Pair /\ w.key[1] = u /\ w.key[2] \in User /\ w.key[2] # u
                /\ w.key = <<u, w.key[2]>>
                /\ w.then \in {"profile", "notifications", NoOne}
           /\ w.coll = "posts" => w.key \in Post /\ Owner[w.key] = u /\ w.op = "set"
           /\ w.coll = "feed" => w.key \in FeedKey
           /\ [w EXCEPT !.then = NoOne] \in WritesOf(u)
    BY DEF WritesOf, Key, Pair, Coll, Ops, NoOne, FeedKey

\* The same, of a write that is part of a chain.
LEMMA ChainFields ==
    ASSUME NEW u \in User, NEW w \in WritesOf(u), w.coll = "following" \/ w.coll = "followers"
    PROVE  /\ w.key = <<u, w.key[2]>> /\ w.key[2] \in User /\ w.key[2] # u
           /\ w.op \in Ops /\ w.then \in {"profile", "notifications", NoOne}
    BY WriteFields

\* A block is an ack of a write somebody waits for, or an answer.
LEMMA BlockFields ==
    ASSUME NEW u \in User, NEW b \in BlocksOf(u)
    PROVE  /\ b.type \in {"ack", "answer"}
           /\ b.type = "ack" => b.w \in WritesOf(u) /\ b.w.then # NoOne
           /\ b.type = "answer" =>
                \/ b.r \in FeedReads /\ b.docs \subseteq Post
                \/ b.r \in ShareReads /\ Owner[b.r.of] = u /\ b.docs \subseteq User
    BY DEF BlocksOf

-----------------------------------------------------------------------------
(***************************************************************************)
(* Types of the queues after the operations of the SDK.                    *)
(***************************************************************************)

\* Writes issued on a device keep the mutation queues typed.
LEMMA WriteMutationsTyped ==
    ASSUME QueueTyped(queue), NEW u \in User, NEW ws \in Seq(WritesOf(u))
    PROVE  QueueTyped(WriteMutations(u, ws))
    BY ConcatProperties DEF QueueTyped, WriteMutations

\* So does a single write.
LEMMA OneWriteTyped ==
    ASSUME QueueTyped(queue), NEW u \in User, NEW w \in WritesOf(u)
    PROVE  QueueTyped(WriteMutations(u, <<w>>))
<1>1. <<w>> \in Seq(WritesOf(u))
    OBVIOUS
<1> QED BY <1>1, WriteMutationsTyped

\* A block that has run leaves the main queues typed.
LEMMA RunFirstTyped ==
    ASSUME MainqTyped(mainq), NEW u \in User, mainq[u] # << >>
    PROVE  /\ MainqTyped(RunFirst(u, << >>))
           /\ RunFirst(u, << >>) = [mainq EXCEPT ![u] = Tail(@)]
           /\ Head(mainq[u]) \in BlocksOf(u)
<1>1. Head(mainq[u]) \in BlocksOf(u) /\ Tail(mainq[u]) \in Seq(BlocksOf(u))
    BY HeadTailProperties DEF MainqTyped
<1>2. Tail(mainq[u]) \o << >> = Tail(mainq[u])
    BY <1>1, ConcatEmptySeq
<1> QED BY <1>1, <1>2 DEF MainqTyped, RunFirst

\* A decided write leaves the queue, and its ack is a typed block.
LEMMA NotifyUserTyped ==
    ASSUME QueueTyped(queue), MainqTyped(mainq), NEW u \in User, queue[u] # << >>,
           NEW ok \in BOOLEAN, NotifyUser(u, Head(queue[u]), ok)
    PROVE  QueueTyped(queue') /\ MainqTyped(mainq') /\ Head(queue[u]) \in WritesOf(u)
<1> DEFINE w == Head(queue[u])
<1>1. w \in WritesOf(u) /\ Tail(queue[u]) \in Seq(WritesOf(u))
    BY HeadTailProperties DEF QueueTyped
<1>2. QueueTyped(queue')
    BY <1>1 DEF QueueTyped, NotifyUser
<1>3. CASE w.then = NoOne
    BY <1>1, <1>2, <1>3 DEF NotifyUser
<1>4. CASE w.then # NoOne
  <2>1. Acked(w, ok) \in BlocksOf(u)
    BY <1>1, <1>4 DEF Acked, BlocksOf
  <2>2. Append(mainq[u], Acked(w, ok)) \in Seq(BlocksOf(u))
    BY <2>1, AppendProperties DEF MainqTyped
  <2> QED BY <1>1, <1>2, <1>4, <2>2 DEF NotifyUser, MainqTyped
<1> QED BY <1>3, <1>4

\* The reads of uploadPost are among the reads.
LEMMA ShareReadsAreReads == ShareReads \subseteq Reads
    BY DEF Reads

\* An answer is a typed block.
LEMMA RespondTyped ==
    ASSUME MainqTyped(mainq), AskedTyped(asked),
           NEW u \in User, NEW r \in Reads, NEW ds,
           r \in FeedReads => ds \subseteq Post,
           r \in ShareReads => ds \subseteq User,
           Respond(u, r, ds)
    PROVE  MainqTyped(mainq') /\ AskedTyped(asked')
<1>1. Answered(r, ds) \in BlocksOf(u)
    BY DEF Answered, BlocksOf, Reads, AskedTyped, Respond
<1>2. Append(mainq[u], Answered(r, ds)) \in Seq(BlocksOf(u))
    BY <1>1, AppendProperties DEF MainqTyped
<1>3. MainqTyped(mainq')
    BY <1>2 DEF Respond, MainqTyped
<1>4. AskedTyped(asked')
  <2>1. asked' \in [User -> [Reads -> Nat]]
    BY DEF Respond, AskedTyped
  <2>2. \A x \in User, s \in Reads : asked'[x][s] <= asked[x][s]
    BY <2>1 DEF Respond, AskedTyped
  <2> QED BY <2>1, <2>2, ShareReadsAreReads DEF AskedTyped
<1> QED BY <1>3, <1>4

\* Reads issued on a device keep the outstanding reads typed, if those of a post
\* are issued on its owner's device.
LEMMA AskTyped ==
    ASSUME AskedTyped(asked), NEW u \in User, NEW rs,
           \A r \in rs : r \in ShareReads => Owner[r.of] = u
    PROVE  AskedTyped(Ask(u, rs))
<1>1. Ask(u, rs) \in [User -> [Reads -> Nat]]
    BY DEF Ask, AskedTyped
<1>2. \A x \in User, s \in Reads : Ask(u, rs)[x][s] > asked[x][s] => x = u /\ s \in rs
    BY DEF Ask, AskedTyped
<1>3. \A x \in User, s \in Reads : asked[x][s] \in Nat /\ Ask(u, rs)[x][s] \in Nat
    BY <1>1 DEF AskedTyped
<1> QED BY <1>1, <1>2, <1>3, ShareReadsAreReads DEF AskedTyped

\* An ordering of a finite set is a sequence of its elements.
LEMMA OrderingsType ==
    ASSUME NEW S, IsFiniteSet(S), NEW s \in Orderings(S)
    PROVE  /\ Cardinality(S) \in Nat
           /\ DOMAIN s = 1..Cardinality(S)
           /\ \A i \in DOMAIN s : s[i] \in S
    BY FS_CardinalityType DEF Orderings

\* A terminated device keeps typed writes that nobody waits for.
LEMMA TerminateTyped ==
    ASSUME TypeOK, NEW u \in User, Terminate(u)
    PROVE  QueueTyped(queue') /\ MainqTyped(mainq') /\ AskedTyped(asked')
<1>1. Forgotten(queue[u]) \in Seq(WritesOf(u))
  <2>1. queue[u] \in Seq(WritesOf(u)) /\ DOMAIN queue[u] = 1..Len(queue[u])
        /\ Len(queue[u]) \in Nat
    BY LenProperties DEF TypeOK, QueueTyped
  <2>2. \A i \in DOMAIN queue[u] : [queue[u][i] EXCEPT !.then = NoOne] \in WritesOf(u)
    BY <2>1, ElementOfSeq, WriteFields
  <2> QED BY <2>1, <2>2 DEF Forgotten
<1>2. QueueTyped(queue')
    BY <1>1 DEF TypeOK, QueueTyped, Terminate
<1>3. MainqTyped(mainq')
    BY EmptySeq DEF TypeOK, MainqTyped, Terminate
<1>4. AskedTyped(asked')
    BY ShareReadsAreReads DEF TypeOK, Terminate, AskedTyped
<1> QED BY <1>2, <1>3, <1>4

-----------------------------------------------------------------------------
(***************************************************************************)
(* Types are preserved.                                                    *)
(***************************************************************************)

\* A tap on a follow button, or on Share, preserves the types.
LEMMA TouchedTyped ==
    ASSUME TypeOK, NEW u \in User, Touched(u)
    PROVE  TypeOK'
<1>1. ASSUME NEW v \in User, NEW op \in {"set", "delete"}, NEW screen \in Screen,
             CallFollow(u, v, op, screen)
      PROVE  TypeOK'
  <2>1. <<FollowingWrite(u, v, op, screen)>> \in Seq(WritesOf(u))
    BY <1>1, FollowWriteTypes, ScreenAssumption DEF Ops, CallFollow
  <2>2. QueueTyped(queue')
    BY <1>1, <2>1, WriteMutationsTyped DEF TypeOK, CallFollow
  <2>3. taps' \in 0..MaxTaps
    BY <1>1, BoundAssumption DEF TypeOK, CallFollow
  <2> QED BY <1>1, <2>2, <2>3 DEF TypeOK, CallFollow, MainqTyped
<1>2. ASSUME ShareButtonPressed(u) PROVE TypeOK'
  <2>1. AskedTyped(asked')
    BY <1>2, AskTyped DEF TypeOK, ShareButtonPressed, Read
  <2>2. drawn' \subseteq Post
    BY <1>2 DEF TypeOK, ShareButtonPressed
  <2> QED BY <1>2, <2>1, <2>2 DEF TypeOK, ShareButtonPressed, QueueTyped, MainqTyped
<1> QED BY <1>1, <1>2 DEF Touched

\* A write decided by the backend preserves the types.
LEMMA DecidedTyped ==
    ASSUME TypeOK, NEW u \in User, Commit(u) \/ Reject(u)
    PROVE  TypeOK'
<1> DEFINE w == Head(queue[u])
<1>1. CASE Commit(u)
  <2>1. QueueTyped(queue') /\ MainqTyped(mainq') /\ w \in WritesOf(u)
    BY <1>1, NotifyUserTyped DEF TypeOK, Commit
  <2>0. w.key \in Key(w.coll) /\ (w.coll = "following" => w.key \in Pair)
    BY <2>1, WriteFields
  <2>2. DOMAIN docs' = Coll /\ \A c \in Coll : docs'[c] \subseteq Key(c)
    BY <1>1, <2>0 DEF TypeOK, Commit, Apply
  <2>3. torn' \subseteq Pair
    BY <1>1, <2>0 DEF TypeOK, Commit
  <2> QED BY <1>1, <2>1, <2>2, <2>3 DEF TypeOK, Commit, NotifyUser
<1>2. CASE Reject(u)
  <2>1. QueueTyped(queue') /\ MainqTyped(mainq') /\ w \in WritesOf(u)
    BY <1>2, NotifyUserTyped DEF TypeOK, Reject
  <2>0. /\ w.coll \in {"following", "followers"} => w.key \in Pair
        /\ w.coll = "posts" => w.key \in Post
    BY <2>1, WriteFields
  <2>2. torn' \subseteq Pair /\ refused' \subseteq Post
    BY <1>2, <2>0 DEF TypeOK, Reject
  <2>3. faults' \in 0..MaxFaults
    BY <1>2, BoundAssumption DEF TypeOK, Reject, Fault
  <2> QED BY <1>2, <2>1, <2>2, <2>3 DEF TypeOK, Reject, NotifyUser
<1> QED BY <1>1, <1>2

\* A read answered, a read that fails and a device that dies preserve the types.
LEMMA AnsweredTyped ==
    ASSUME TypeOK, NEW u \in User,
           (\E r \in Reads : Answer(u, r) \/ FailToAnswer(u, r)) \/ Kill(u)
    PROVE  TypeOK'
<1>1. ASSUME NEW r \in Reads, Answer(u, r) PROVE TypeOK'
  <2>1. /\ r \in FeedReads => Found(r) \subseteq Post
        /\ r \in ShareReads => Found(r) \subseteq User
    BY DEF Found, FeedReads, ShareReads, TypeOK, Coll, Key
  <2>2. MainqTyped(mainq') /\ AskedTyped(asked')
    BY <1>1, <2>1, RespondTyped DEF TypeOK, Answer
  <2> QED BY <1>1, <2>2 DEF TypeOK, Answer, graphVars, Respond, QueueTyped
<1>2. ASSUME NEW r \in Reads, FailToAnswer(u, r) PROVE TypeOK'
  <2>1. AskedTyped(asked')
    <3>1. asked' \in [User -> [Reads -> Nat]]
      BY <1>2 DEF TypeOK, FailToAnswer, ReadFails, AskedTyped
    <3>2. \A x \in User, s \in Reads : asked'[x][s] <= asked[x][s]
      BY <1>2, <3>1 DEF TypeOK, FailToAnswer, ReadFails, AskedTyped
    <3> QED BY <3>1, <3>2, ShareReadsAreReads DEF TypeOK, AskedTyped
  <2>2. faults' \in 0..MaxFaults
    BY <1>2, BoundAssumption DEF TypeOK, FailToAnswer, Fault
  <2> QED BY <1>2, <2>1, <2>2 DEF TypeOK, FailToAnswer, ReadFails, QueueTyped, MainqTyped
<1>3. ASSUME Kill(u) PROVE TypeOK'
  <2>1. QueueTyped(queue') /\ MainqTyped(mainq') /\ AskedTyped(asked')
    BY <1>3, TerminateTyped DEF Kill
  <2>2. faults' \in 0..MaxFaults
    BY <1>3, BoundAssumption DEF TypeOK, Kill, Fault
  <2> QED BY <1>3, <2>1, <2>2 DEF TypeOK, Kill
<1> QED BY <1>1, <1>2, <1>3

\* Every block of a main queue preserves the types when it runs.
LEMMA RunBlockTyped ==
    ASSUME TypeOK, NEW u \in User, RunBlock(u)
    PROVE  TypeOK'
<1> DEFINE b == Head(mainq[u])
<1>1. mainq[u] # << >> /\ mainq' = RunFirst(u, << >>) /\ UNCHANGED graphVars
    BY DEF RunBlock, ServiceBlock, FollowAcked, CellCompletion, UploadCompletion,
           FeedAfterFollowing, ImageUploaded, FeedAfterPost, ProfileCompletion,
           RunningAlone, Running
<1>2. MainqTyped(mainq') /\ b \in BlocksOf(u)
    BY <1>1, RunFirstTyped DEF TypeOK
<1> HIDE DEF b
<1> SUFFICES QueueTyped(queue') /\ AskedTyped(asked')
    BY <1>1, <1>2 DEF TypeOK, graphVars
<1>3. CASE FollowAcked(u, b)
  <2>0. b.w \in WritesOf(u) /\ b.w.coll = "following"
    BY <1>2, <1>3, BlockFields DEF FollowAcked
  <2>1. FollowersWrite(u, b.w.key[2], b.w.op, b.w.then) \in WritesOf(u)
    BY <2>0, WriteFields, FollowWriteTypes, ZenonT(40)
  <2>2. QueueTyped(queue')
    BY <1>3, <2>1, OneWriteTyped DEF TypeOK, FollowAcked
  <2> QED BY <1>3, <2>2 DEF TypeOK, FollowAcked
<1>4. CASE ProfileCompletion(u, b, {})
  <2>1. NotificationWrite(u, b.w.key[2]) \in WritesOf(u)
    BY <1>2, <1>4, BlockFields, WriteFields, FollowWriteTypes DEF ProfileCompletion, Ops
  <2>2. (IF b.w.op = "set" THEN <<NotificationWrite(u, b.w.key[2])>> ELSE << >>)
           \in Seq(WritesOf(u))
    BY <2>1
  <2>3. QueueTyped(queue')
    BY <1>4, <2>2, WriteMutationsTyped DEF TypeOK, ProfileCompletion
  <2>4. AskedTyped(asked')
    BY <1>4, AskTyped DEF TypeOK, ProfileCompletion, FeedRead, Read, ShareReads
  <2> QED BY <2>3, <2>4
<1>5. CASE CellCompletion(u, b) \/ UploadCompletion(u, b)
    BY <1>5 DEF TypeOK, CellCompletion, UploadCompletion, QueueTyped
<1>6. CASE FeedAfterFollowing(u, b)
  <2>1. b.docs \subseteq Post
    BY <1>2, <1>6, BlockFields DEF FeedAfterFollowing, ShareReads
  <2>2. PICK ps \in Orderings(b.docs) :
            queue' = WriteMutations(u, [i \in DOMAIN ps |->
                       FeedWrite(u, ps[i], OpFor(b.r.kind = "addPosts"))])
    BY <1>6 DEF FeedAfterFollowing
  <2>3. IsFiniteSet(b.docs)
    BY <2>1, FiniteAssumption, FS_Subset
  <2>4. \A i \in DOMAIN ps : FeedWrite(u, ps[i], OpFor(b.r.kind = "addPosts")) \in WritesOf(u)
    BY <2>1, <2>3, OrderingsType, PostWriteTypes DEF OpFor, Ops
  <2>5. [i \in DOMAIN ps |-> FeedWrite(u, ps[i], OpFor(b.r.kind = "addPosts"))]
           \in Seq(WritesOf(u))
    BY <2>3, <2>4, OrderingsType
  <2>6. QueueTyped(queue')
    BY <2>2, <2>5, WriteMutationsTyped DEF TypeOK
  <2> QED BY <1>6, <2>6 DEF TypeOK, FeedAfterFollowing
<1>7. CASE ImageUploaded(u, b)
  <2>1. b.r.of \in Post /\ Owner[b.r.of] = u
    BY <1>2, <1>7, BlockFields DEF ImageUploaded, ShareReads, FeedReads
  <2>2. PostWrite(b.r.of) \in WritesOf(u)
    BY <2>1, PostWriteTypes DEF Ops
  <2>3. QueueTyped(queue')
    BY <1>7, <2>2, OneWriteTyped DEF TypeOK, ImageUploaded
  <2>4. AskedTyped(asked')
    BY <1>7, <2>1, AskTyped DEF TypeOK, ImageUploaded, Read
  <2> QED BY <2>3, <2>4
<1>8. CASE FeedAfterPost(u, b)
  <2>1. b.docs \subseteq User /\ b.r.of \in Post /\ Owner[b.r.of] = u
    BY <1>2, <1>8, BlockFields DEF FeedAfterPost, ShareReads, FeedReads
  <2>2. PICK vs \in Orderings(b.docs) :
            queue' = WriteMutations(u, [i \in DOMAIN vs |-> FeedWrite(vs[i], b.r.of, "set")])
    BY <1>8 DEF FeedAfterPost
  <2>3. IsFiniteSet(b.docs)
    BY <2>1, FiniteAssumption, FS_Subset
  <2>4. \A i \in DOMAIN vs : FeedWrite(vs[i], b.r.of, "set") \in WritesOf(u)
    BY <2>1, <2>3, OrderingsType, PostWriteTypes DEF Ops
  <2>5. [i \in DOMAIN vs |-> FeedWrite(vs[i], b.r.of, "set")] \in Seq(WritesOf(u))
    BY <2>3, <2>4, OrderingsType
  <2>6. QueueTyped(queue')
    BY <2>2, <2>5, WriteMutationsTyped DEF TypeOK
  <2> QED BY <1>8, <2>6 DEF TypeOK, FeedAfterPost
<1> QED BY <1>3, <1>4, <1>5, <1>6, <1>7, <1>8 DEF RunBlock, ServiceBlock, b

\* Every step preserves the types.
LEMMA NextTyped ==
    ASSUME TypeOK, [Next]_vars
    PROVE  TypeOK'
<1>1. ASSUME NEW u \in User, Touched(u) \/ Progress(u) \/ Failing(u) PROVE TypeOK'
    BY <1>1, TouchedTyped, DecidedTyped, AnsweredTyped, RunBlockTyped DEF Progress, Failing
<1>2. CASE UNCHANGED vars
    BY <1>2 DEF vars, sdkVars, graphVars, TypeOK, QueueTyped, MainqTyped, AskedTyped
<1> QED BY <1>1, <1>2 DEF Next

\* The services keep every variable of SocialGraph in its type: on no device,
\* and at no point between two completions, is there a write or a block the
\* code has no handler for, and each device writes only its own documents.
THEOREM TypeCorrect == Spec => []TypeOK
<1>1. Init => TypeOK
  <2> SUFFICES ASSUME Init PROVE TypeOK
    OBVIOUS
  <2>1. QueueTyped(queue) /\ MainqTyped(mainq)
    BY EmptySeq DEF Init, SdkInit, QueueTyped, MainqTyped
  <2>2. AskedTyped(asked)
    BY DEF Init, SdkInit, AskedTyped, Reads
  <2> QED BY <2>1, <2>2, BoundAssumption DEF Init, GraphInit, TypeOK
<1> QED BY <1>1, NextTyped, PTL DEF Spec

-----------------------------------------------------------------------------
(***************************************************************************)
(* The two halves of the follow graph agree.                               *)
(*                                                                         *)
(* The inductive invariant says, of a pair e whose chain is not torn, that *)
(* `followers` will agree with `following` (MirrorAt in FirestoreProofs):  *)
(* that is LastWriteWins /\ MirrorAgreement, restated on the queues of the *)
(* device, so that each operation of the SDK is a lemma about sequences.   *)
(***************************************************************************)
\* follow and unfollow of the pair e.
Chain(e) == [first |-> "following", second |-> "followers", key |-> e]

MirrorInv ==
    \A e \in Pair : e \notin torn =>
        MirrorAt(queue[e[1]], mainq[e[1]], Follows(e), IsFollower(e), Chain(e))

\* The invariant restates the two properties the runs check.
LEMMA MirrorInvImplies == MirrorInv <=> LastWriteWins /\ MirrorAgreement
<1>1. \A e \in Pair : /\ Acks(mainq[e[1]], Chain(e)) = FollowAcks(e[1], e)
                      /\ Seconds(queue[e[1]], Chain(e)) = QueuedFollowers(e[1], e)
    BY DEF Acks, IsAck, FollowAcks, Seconds, IsSecond, QueuedFollowers, Chain
<1>2. MirrorInv => LastWriteWins
    BY <1>1 DEF MirrorInv, MirrorAt, LastWriteWins
<1>3. MirrorInv => MirrorAgreement
    BY <1>1 DEF MirrorInv, MirrorAt, MirrorAgreement, Settling
<1>4. LastWriteWins /\ MirrorAgreement => MirrorInv
    BY <1>1 DEF MirrorInv, MirrorAt, LastWriteWins, MirrorAgreement, Settling
<1> QED BY <1>2, <1>3, <1>4

\* What happens on other devices does not matter to a pair.
LEMMA MirrorFrame ==
    ASSUME NEW e \in Pair, e \notin torn => MirrorAt(queue[e[1]], mainq[e[1]], Follows(e), IsFollower(e), Chain(e)),
           queue'[e[1]] = queue[e[1]], mainq'[e[1]] = mainq[e[1]],
           Follows(e)' <=> Follows(e), IsFollower(e)' <=> IsFollower(e),
           e \notin torn' => e \notin torn
    PROVE  e \notin torn' =>
             MirrorAt(queue'[e[1]], mainq'[e[1]], Follows(e)', IsFollower(e)', Chain(e))
    BY DEF MirrorAt

\* Taps preserve the invariant: they queue first writes only.
LEMMA MirrorTouched ==
    ASSUME TypeOK, MirrorInv, NEW u \in User, Touched(u)
    PROVE  MirrorInv'
<1>1. ASSUME NEW v \in User, NEW op \in {"set", "delete"}, NEW screen \in Screen,
             CallFollow(u, v, op, screen)
      PROVE  MirrorInv'
  <2> SUFFICES ASSUME NEW e \in Pair
               PROVE  e \notin torn' => MirrorAt(queue'[e[1]], mainq'[e[1]],
                                                 Follows(e)', IsFollower(e)', Chain(e))
    BY DEF MirrorInv
  <2> DEFINE w == FollowingWrite(u, v, op, screen)
  <2>1. w \in WritesOf(u) /\ w.coll = "following"
    BY <1>1, FollowWriteTypes, ScreenAssumption DEF Ops, CallFollow, FollowingWrite, Write
  <2> HIDE DEF w
  <2>2. /\ UNCHANGED <<mainq, docs, torn>> /\ e[1] \in User
        /\ queue' = [queue EXCEPT ![u] = @ \o <<w>>]
    BY <1>1 DEF CallFollow, WriteMutations, w, Pair
  <2>3. CASE e[1] # u
    BY <2>2, <2>3, MirrorFrame DEF MirrorInv, Follows, IsFollower, TypeOK, QueueTyped
  <2>4. CASE e[1] = u
    <3>1. <<w>> \in Seq(WritesOf(u)) /\ \A i \in DOMAIN <<w>> : ~IsSecond(<<w>>[i], Chain(e))
      BY <2>1 DEF IsSecond, Chain
    <3>2. queue'[u] = queue[u] \o <<w>> /\ queue[u] \in Seq(WritesOf(u))
      BY <2>2 DEF TypeOK, QueueTyped
    <3>3. e \notin torn => MirrorAt(queue[u] \o <<w>>, mainq[u], Follows(e), IsFollower(e), Chain(e))
      BY <2>4, <3>1, <3>2, MirrorAppendWrites DEF MirrorInv
    <3> QED BY <2>2, <2>4, <3>2, <3>3 DEF Follows, IsFollower
  <2> QED BY <2>3, <2>4
<1>2. ASSUME ShareButtonPressed(u) PROVE MirrorInv'
    BY <1>2 DEF ShareButtonPressed, MirrorInv, Follows, IsFollower
<1> QED BY <1>1, <1>2 DEF Touched

\* So does a write the backend stores ...
LEMMA MirrorCommit ==
    ASSUME TypeOK, MirrorInv, NEW u \in User, Commit(u)
    PROVE  MirrorInv'
<1> SUFFICES ASSUME NEW e \in Pair
             PROVE  e \notin torn' => MirrorAt(queue'[e[1]], mainq'[e[1]],
                                               Follows(e)', IsFollower(e)', Chain(e))
    BY DEF MirrorInv
<1> DEFINE w == Head(queue[u])
           b == Acked(w, TRUE)
<1>1. /\ w \in WritesOf(u) /\ queue[u] # << >> /\ queue[u] \in Seq(WritesOf(u))
      /\ mainq[u] \in Seq(BlocksOf(u)) /\ e[1] \in User
    BY HeadTailProperties DEF TypeOK, QueueTyped, MainqTyped, Commit, Pair
<1>2. /\ queue' = [queue EXCEPT ![u] = Tail(@)]
      /\ mainq' = IF w.then = NoOne THEN mainq ELSE [mainq EXCEPT ![u] = Append(@, b)]
      /\ docs' = Apply(w)
      /\ torn' = IF w.coll # "following" THEN torn
                 ELSE IF w.then # NoOne THEN torn \ {w.key} ELSE torn \union {w.key}
    BY DEF Commit, NotifyUser
<1>3. w.then # NoOne => b \in BlocksOf(u)
    BY <1>1 DEF BlocksOf, Acked
<1>4. b.type = "ack" /\ b.w = w
    BY DEF Acked
<1>5. /\ w.coll \in {"following", "followers"} => w.key[1] = u
      /\ w.coll \in Coll
    BY <1>1, WriteFields
<1> HIDE DEF w, b
<1>6. /\ Follows(e)' <=> IF w.coll = "following" /\ w.key = e THEN w.op = "set" ELSE Follows(e)
      /\ IsFollower(e)' <=> IF w.coll = "followers" /\ w.key = e THEN w.op = "set" ELSE IsFollower(e)
    BY <1>2, <1>5 DEF Follows, IsFollower, Apply, TypeOK, Coll
<1>7. CASE e[1] # u
    BY <1>1, <1>2, <1>5, <1>6, <1>7, MirrorFrame DEF MirrorInv, TypeOK, QueueTyped, MainqTyped
<1>8. CASE e[1] = u /\ w.coll = "following" /\ w.key = e
  <2>1. CASE w.then = NoOne
    BY <1>2, <1>8, <2>1
  <2>2. CASE w.then # NoOne
    <3>1. mainq'[u] = Append(mainq[u], b) /\ IsAck(b, Chain(e)) /\ (b.w.op = "set" <=> Follows(e)')
      BY <1>1, <1>2, <1>4, <1>6, <1>8, <2>2 DEF TypeOK, MainqTyped, IsAck, Chain
    <3> QED BY <1>1, <1>3, <1>8, <2>2, <3>1, MirrorFirstStored
  <2> QED BY <2>1, <2>2
<1>9. CASE e[1] = u /\ ~(w.coll = "following" /\ w.key = e)
  <2> SUFFICES ASSUME e \notin torn'
               PROVE  MirrorAt(queue'[u], mainq'[u], Follows(e)', IsFollower(e)', Chain(e))
    BY <1>9
  <2>1. MirrorAt(queue[u], mainq[u], Follows(e), IsFollower(e), Chain(e))
    BY <1>2, <1>9 DEF MirrorInv
  <2>2. MirrorAt(Tail(queue[u]), mainq[u], Follows(e), IsFollower(e)', Chain(e))
    <3>1. CASE IsSecond(w, Chain(e))
      BY <1>1, <1>6, <2>1, <3>1, MirrorSecondStored DEF IsSecond, w, Chain
    <3>2. CASE ~IsSecond(w, Chain(e))
      <4>1. MirrorAt(Tail(queue[u]), mainq[u], Follows(e), IsFollower(e), Chain(e))
        BY <1>1, <2>1, <3>2, MirrorDecideOther DEF w
      <4> QED BY <1>6, <3>2, <4>1 DEF IsSecond, MirrorAt, Chain
    <3> QED BY <3>1, <3>2
  <2>3. MirrorAt(Tail(queue[u]), mainq'[u], Follows(e), IsFollower(e)', Chain(e))
    <3>1. CASE w.then = NoOne
      BY <1>2, <2>2, <3>1
    <3>2. CASE w.then # NoOne
      <4>1. mainq'[u] = Append(mainq[u], b) /\ ~IsAck(b, Chain(e))
        BY <1>1, <1>2, <1>4, <1>9, <3>2 DEF TypeOK, MainqTyped, IsAck, Chain
      <4> QED BY <1>1, <1>3, <2>2, <3>2, <4>1, MirrorAppendBlock
    <3> QED BY <3>1, <3>2
  <2>4. queue'[u] = Tail(queue[u]) /\ (Follows(e)' <=> Follows(e))
    BY <1>1, <1>2, <1>6, <1>9 DEF TypeOK, QueueTyped
  <2> QED BY <2>3, <2>4 DEF MirrorAt
<1> QED BY <1>7, <1>8, <1>9

\* ... and one it refuses, which tears the chain when it is part of one.
LEMMA MirrorReject ==
    ASSUME TypeOK, MirrorInv, NEW u \in User, Reject(u)
    PROVE  MirrorInv'
<1> SUFFICES ASSUME NEW e \in Pair, e \notin torn'
             PROVE  MirrorAt(queue'[e[1]], mainq'[e[1]], Follows(e)', IsFollower(e)', Chain(e))
    BY DEF MirrorInv
<1> DEFINE w == Head(queue[u])
           b == Acked(w, FALSE)
<1>1. /\ w \in WritesOf(u) /\ queue[u] # << >> /\ queue[u] \in Seq(WritesOf(u))
      /\ mainq[u] \in Seq(BlocksOf(u)) /\ e[1] \in User
    BY HeadTailProperties DEF TypeOK, QueueTyped, MainqTyped, Reject, Pair
<1>2. /\ queue' = [queue EXCEPT ![u] = Tail(@)]
      /\ mainq' = IF w.then = NoOne THEN mainq ELSE [mainq EXCEPT ![u] = Append(@, b)]
      /\ torn' = IF w.coll \in {"following", "followers"} THEN torn \union {w.key} ELSE torn
      /\ UNCHANGED docs
    BY DEF Reject, NotifyUser
<1>3. w.then # NoOne => b \in BlocksOf(u)
    BY <1>1 DEF BlocksOf, Acked
<1>4. b.type = "ack" /\ b.w = w
    BY DEF Acked
<1> HIDE DEF w, b
<1>5. e \notin torn /\ ~IsSecond(w, Chain(e)) /\ ~IsAck(b, Chain(e))
    BY <1>2, <1>4 DEF IsSecond, IsAck, Chain
<1>6. MirrorAt(queue[e[1]], mainq[e[1]], Follows(e), IsFollower(e), Chain(e))
    BY <1>5 DEF MirrorInv
<1>7. (Follows(e)' <=> Follows(e)) /\ (IsFollower(e)' <=> IsFollower(e))
    BY <1>2 DEF Follows, IsFollower
<1>8. CASE e[1] # u
  <2>1. queue'[e[1]] = queue[e[1]] /\ mainq'[e[1]] = mainq[e[1]]
    BY <1>1, <1>2, <1>8 DEF TypeOK, QueueTyped, MainqTyped
  <2> QED BY <1>6, <1>7, <2>1 DEF MirrorAt
<1>9. CASE e[1] = u
  <2>1. MirrorAt(Tail(queue[u]), mainq[u], Follows(e), IsFollower(e), Chain(e))
    BY <1>1, <1>5, <1>6, <1>9, MirrorDecideOther DEF w
  <2>2. MirrorAt(Tail(queue[u]), mainq'[u], Follows(e), IsFollower(e), Chain(e))
    <3>1. CASE w.then = NoOne
      BY <1>2, <2>1, <3>1
    <3>2. CASE w.then # NoOne
      <4>1. mainq'[u] = Append(mainq[u], b)
        BY <1>1, <1>2, <3>2 DEF TypeOK, MainqTyped
      <4> QED BY <1>1, <1>3, <1>5, <2>1, <3>2, <4>1, MirrorAppendBlock
    <3> QED BY <3>1, <3>2
  <2>3. queue'[u] = Tail(queue[u])
    BY <1>1, <1>2 DEF TypeOK, QueueTyped
  <2> QED BY <1>7, <1>9, <2>2, <2>3 DEF MirrorAt
<1> QED BY <1>8, <1>9

\* Answers are no acks, and a death tears the chains whose acks it loses.
LEMMA MirrorAnswered ==
    ASSUME TypeOK, MirrorInv, NEW u \in User,
           (\E r \in Reads : Answer(u, r) \/ FailToAnswer(u, r)) \/ Kill(u)
    PROVE  MirrorInv'
<1> SUFFICES ASSUME NEW e \in Pair, e \notin torn'
             PROVE  MirrorAt(queue'[e[1]], mainq'[e[1]], Follows(e)', IsFollower(e)', Chain(e))
    BY DEF MirrorInv
<1>0. e[1] \in User /\ mainq[u] \in Seq(BlocksOf(u)) /\ queue[u] \in Seq(WritesOf(u))
    BY DEF Pair, TypeOK, MainqTyped, QueueTyped
<1>1. ASSUME NEW r \in Reads, Answer(u, r)
      PROVE  MirrorAt(queue'[e[1]], mainq'[e[1]], Follows(e)', IsFollower(e)', Chain(e))
  <2> DEFINE b == Answered(r, Found(r))
  <2>1. /\ mainq' = [mainq EXCEPT ![u] = Append(@, b)] /\ UNCHANGED <<queue, docs, torn>>
    BY <1>1 DEF Answer, Respond, graphVars
  <2>2. ~IsAck(b, Chain(e))
    BY DEF IsAck, Answered, Chain
  <2>3. MirrorAt(queue[e[1]], mainq[e[1]], Follows(e), IsFollower(e), Chain(e))
    BY <2>1 DEF MirrorInv
  <2> HIDE DEF b
  <2>4. CASE e[1] # u
    BY <1>0, <2>1, <2>3, <2>4 DEF TypeOK, MainqTyped, Follows, IsFollower
  <2>5. CASE e[1] = u
    <3>1. mainq'[u] = Append(mainq[u], b)
      BY <2>1 DEF TypeOK, MainqTyped
    <3>2. mainq[u] \in Seq(BlocksOf(u) \union {b}) /\ b \in BlocksOf(u) \union {b}
      BY <1>0, SeqMonotonic
    <3>3. MirrorAt(queue[u], Append(mainq[u], b), Follows(e), IsFollower(e), Chain(e))
      BY <2>2, <2>3, <2>5, <3>2, MirrorAppendBlock
    <3> QED BY <2>1, <2>5, <3>1, <3>3 DEF Follows, IsFollower
  <2> QED BY <2>4, <2>5
<1>2. ASSUME NEW r \in Reads, FailToAnswer(u, r)
      PROVE  MirrorAt(queue'[e[1]], mainq'[e[1]], Follows(e)', IsFollower(e)', Chain(e))
    BY <1>2 DEF FailToAnswer, ReadFails, MirrorInv, Follows, IsFollower
<1>3. ASSUME Kill(u)
      PROVE  MirrorAt(queue'[e[1]], mainq'[e[1]], Follows(e)', IsFollower(e)', Chain(e))
  <2>1. /\ queue' = [queue EXCEPT ![u] = Forgotten(@)] /\ mainq' = [mainq EXCEPT ![u] = << >>]
        /\ UNCHANGED docs /\ e \notin torn /\ FollowAcks(u, e) = {}
    BY <1>3 DEF Kill, Terminate
  <2>2. MirrorAt(queue[e[1]], mainq[e[1]], Follows(e), IsFollower(e), Chain(e))
    BY <2>1 DEF MirrorInv
  <2>3. CASE e[1] # u
    BY <1>0, <2>1, <2>2, <2>3 DEF TypeOK, MainqTyped, QueueTyped, Follows, IsFollower
  <2>4. CASE e[1] = u
    <3>1. Acks(mainq[u], Chain(e)) = {}
      BY <2>1 DEF Acks, IsAck, FollowAcks, Chain
    <3>2. \A i \in DOMAIN queue[u] : queue[u][i] \in WritesOf(u)
      BY <1>0, LenProperties
    <3>3. \A i \in DOMAIN queue[u] :
             /\ Forgotten(queue[u])[i].coll = queue[u][i].coll
             /\ Forgotten(queue[u])[i].key = queue[u][i].key
             /\ Forgotten(queue[u])[i].op = queue[u][i].op
      BY <3>2 DEF Forgotten, WritesOf
    <3>4. MirrorAt(Forgotten(queue[u]), << >>, Follows(e), IsFollower(e), Chain(e))
      BY <1>0, <2>2, <2>4, <3>1, <3>3, MirrorKilled
    <3>5. queue'[u] = Forgotten(queue[u]) /\ mainq'[u] = << >>
      BY <2>1 DEF TypeOK, MainqTyped, QueueTyped
    <3> QED BY <2>1, <2>4, <3>4, <3>5 DEF Follows, IsFollower
  <2> QED BY <2>3, <2>4
<1> QED BY <1>1, <1>2, <1>3

\* The writes a block queues: the second write of the ack it is, or others.
LEMMA BlockWrites ==
    ASSUME TypeOK, NEW u \in User, RunBlock(u), NEW e \in Pair, e[1] = u
    PROVE  \E ws \in Seq(WritesOf(u)) :
             /\ queue'[u] = queue[u] \o ws
             /\ IF IsAck(Head(mainq[u]), Chain(e))
                THEN /\ Len(ws) = 1 /\ ws = <<ws[1]>> /\ IsSecond(ws[1], Chain(e))
                     /\ ws[1].op = Head(mainq[u]).w.op
                ELSE \A i \in DOMAIN ws : ~IsSecond(ws[i], Chain(e))
<1> DEFINE b == Head(mainq[u])
<1>0. mainq[u] # << >> /\ queue[u] \in Seq(WritesOf(u))
    BY DEF RunBlock, ServiceBlock, FollowAcked, CellCompletion, UploadCompletion,
           FeedAfterFollowing, ImageUploaded, FeedAfterPost, ProfileCompletion,
           RunningAlone, Running, TypeOK, QueueTyped
<1>1. b \in BlocksOf(u)
    BY <1>0, RunFirstTyped DEF TypeOK
<1> HIDE DEF b
<1>2. CASE FollowAcked(u, b)
  <2> DEFINE w == FollowersWrite(u, b.w.key[2], b.w.op, b.w.then)
  <2>1. b.type = "ack" /\ b.w \in WritesOf(u) /\ b.w.coll = "following"
    BY <1>1, <1>2, BlockFields DEF FollowAcked
  <2>0. /\ b.w.key = <<u, b.w.key[2]>> /\ b.w.key[2] \in User /\ b.w.key[2] # u
        /\ b.w.op \in Ops /\ b.w.then \in {"profile", "notifications", NoOne}
    BY <2>1, ChainFields
  <2>2. w \in WritesOf(u) /\ b.w.key = <<u, b.w.key[2]>>
    BY <2>0, FollowWriteTypes
  <2>3. w.op = b.w.op /\ w.coll = "followers" /\ w.key = b.w.key
    BY <2>2 DEF FollowersWrite, Write
  <2>4. queue'[u] = queue[u] \o <<w>>
    BY <1>2 DEF FollowAcked, WriteMutations, TypeOK, QueueTyped
  <2> HIDE DEF w
  <2>5. IsAck(b, Chain(e)) <=> IsSecond(w, Chain(e))
    BY <2>1, <2>3 DEF IsAck, IsSecond, Chain
  <2>6. <<w>> \in Seq(WritesOf(u)) /\ Len(<<w>>) = 1 /\ <<w>>[1] = w
        /\ \A i \in DOMAIN <<w>> : <<w>>[i] = w
    BY <2>2
  <2> QED BY <2>3, <2>4, <2>5, <2>6 DEF b
<1>4. CASE CellCompletion(u, b) \/ UploadCompletion(u, b)
  <2>1. queue' = queue /\ ~IsAck(b, Chain(e))
    BY <1>4 DEF CellCompletion, UploadCompletion, IsAck, Chain
  <2>2. queue'[u] = queue[u] \o << >> /\ << >> \in Seq(WritesOf(u))
    BY <1>0, <2>1, ConcatEmptySeq, EmptySeq
  <2>3. \A i \in DOMAIN << >> : ~IsSecond(<< >>[i], Chain(e))
    OBVIOUS
  <2> QED BY <2>1, <2>2, <2>3 DEF b
<1>5. CASE ProfileCompletion(u, b, {})
  <2> DEFINE ws == IF b.w.op = "set" THEN <<NotificationWrite(u, b.w.key[2])>> ELSE << >>
  <2>1. NotificationWrite(u, b.w.key[2]) \in WritesOf(u) /\ ~IsAck(b, Chain(e))
    BY <1>1, <1>5, BlockFields, WriteFields, FollowWriteTypes, ZenonT(40)
    DEF ProfileCompletion, Ops, IsAck, Chain
  <2>2. ws \in Seq(WritesOf(u)) /\ \A i \in DOMAIN ws : ws[i] = NotificationWrite(u, b.w.key[2])
    BY <2>1
  <2>3. queue'[u] = queue[u] \o ws
    BY <1>5 DEF ProfileCompletion, WriteMutations, TypeOK, QueueTyped
  <2>4. ~IsSecond(NotificationWrite(u, b.w.key[2]), Chain(e))
    BY DEF IsSecond, NotificationWrite, Write, Chain
  <2> QED BY <2>1, <2>2, <2>3, <2>4 DEF b
<1>6. CASE ImageUploaded(u, b)
  <2>1. b.r.of \in Post /\ Owner[b.r.of] = u /\ ~IsAck(b, Chain(e))
    BY <1>1, <1>6, BlockFields DEF ImageUploaded, ShareReads, FeedReads, IsAck, Chain
  <2>2. PostWrite(b.r.of) \in WritesOf(u) /\ ~IsSecond(PostWrite(b.r.of), Chain(e))
    BY <2>1, PostWriteTypes DEF Ops, IsSecond, PostWrite, Write, Chain
  <2>3. queue'[u] = queue[u] \o <<PostWrite(b.r.of)>>
    BY <1>6 DEF ImageUploaded, WriteMutations, TypeOK, QueueTyped
  <2>4. <<PostWrite(b.r.of)>> \in Seq(WritesOf(u))
        /\ \A i \in DOMAIN <<PostWrite(b.r.of)>> : <<PostWrite(b.r.of)>>[i] = PostWrite(b.r.of)
    BY <2>2
  <2> QED BY <2>1, <2>2, <2>3, <2>4 DEF b
<1>7. CASE FeedAfterFollowing(u, b)
  <2>1. b.docs \subseteq Post /\ ~IsAck(b, Chain(e)) /\ IsFiniteSet(b.docs)
    BY <1>1, <1>7, BlockFields, FiniteAssumption, FS_Subset
    DEF FeedAfterFollowing, ShareReads, IsAck, Chain
  <2>2. PICK ps \in Orderings(b.docs) :
            queue' = WriteMutations(u, [i \in DOMAIN ps |->
                       FeedWrite(u, ps[i], OpFor(b.r.kind = "addPosts"))])
    BY <1>7 DEF FeedAfterFollowing
  <2> DEFINE ws == [i \in DOMAIN ps |-> FeedWrite(u, ps[i], OpFor(b.r.kind = "addPosts"))]
  <2>3. \A i \in DOMAIN ps : FeedWrite(u, ps[i], OpFor(b.r.kind = "addPosts")) \in WritesOf(u)
    BY <2>1, OrderingsType, PostWriteTypes DEF OpFor, Ops
  <2>4. ws \in Seq(WritesOf(u))
    BY <2>1, <2>3, OrderingsType
  <2>5. \A i \in DOMAIN ws : ~IsSecond(ws[i], Chain(e))
    BY DEF IsSecond, FeedWrite, Write, Chain
  <2>6. queue'[u] = queue[u] \o ws
    BY <2>2 DEF WriteMutations, TypeOK, QueueTyped
  <2> QED BY <2>1, <2>4, <2>5, <2>6 DEF b
<1>8. CASE FeedAfterPost(u, b)
  <2>1. b.docs \subseteq User /\ b.r.of \in Post /\ Owner[b.r.of] = u /\ ~IsAck(b, Chain(e))
        /\ IsFiniteSet(b.docs)
    BY <1>1, <1>8, BlockFields, FiniteAssumption, FS_Subset
    DEF FeedAfterPost, ShareReads, FeedReads, IsAck, Chain
  <2>2. PICK vs \in Orderings(b.docs) :
            queue' = WriteMutations(u, [i \in DOMAIN vs |-> FeedWrite(vs[i], b.r.of, "set")])
    BY <1>8 DEF FeedAfterPost
  <2> DEFINE ws == [i \in DOMAIN vs |-> FeedWrite(vs[i], b.r.of, "set")]
  <2>3. \A i \in DOMAIN vs : FeedWrite(vs[i], b.r.of, "set") \in WritesOf(u)
    BY <2>1, OrderingsType, PostWriteTypes DEF Ops
  <2>4. ws \in Seq(WritesOf(u))
    BY <2>1, <2>3, OrderingsType
  <2>5. \A i \in DOMAIN ws : ~IsSecond(ws[i], Chain(e))
    BY DEF IsSecond, FeedWrite, Write, Chain
  <2>6. queue'[u] = queue[u] \o ws
    BY <2>2 DEF WriteMutations, TypeOK, QueueTyped
  <2> QED BY <2>1, <2>4, <2>5, <2>6 DEF b
<1> QED BY <1>2, <1>4, <1>5, <1>6, <1>7, <1>8 DEF RunBlock, ServiceBlock, b

\* Every block preserves the invariant when it runs.
LEMMA MirrorRunBlock ==
    ASSUME TypeOK, MirrorInv, NEW u \in User, RunBlock(u)
    PROVE  MirrorInv'
<1> SUFFICES ASSUME NEW e \in Pair, e \notin torn'
             PROVE  MirrorAt(queue'[e[1]], mainq'[e[1]], Follows(e)', IsFollower(e)', Chain(e))
    BY DEF MirrorInv
<1>1. /\ mainq[u] # << >> /\ mainq' = RunFirst(u, << >>) /\ UNCHANGED <<docs, torn>>
      /\ \A x \in User \ {u} : queue'[x] = queue[x]
    BY DEF RunBlock, ServiceBlock, FollowAcked, CellCompletion, UploadCompletion,
           FeedAfterFollowing, ImageUploaded, FeedAfterPost, ProfileCompletion,
           RunningAlone, Running, graphVars, WriteMutations, TypeOK, QueueTyped
<1>2. /\ mainq' = [mainq EXCEPT ![u] = Tail(@)] /\ e[1] \in User
      /\ queue[u] \in Seq(WritesOf(u)) /\ mainq[u] \in Seq(BlocksOf(u))
    BY <1>1, RunFirstTyped DEF TypeOK, Pair, QueueTyped, MainqTyped
<1>3. MirrorAt(queue[e[1]], mainq[e[1]], Follows(e), IsFollower(e), Chain(e))
    BY <1>1 DEF MirrorInv
<1>4. (Follows(e)' <=> Follows(e)) /\ (IsFollower(e)' <=> IsFollower(e))
    BY <1>1 DEF Follows, IsFollower
<1>5. CASE e[1] # u
  <2>1. queue'[e[1]] = queue[e[1]] /\ mainq'[e[1]] = mainq[e[1]]
    BY <1>1, <1>2, <1>5 DEF TypeOK, MainqTyped
  <2> QED BY <1>3, <1>4, <2>1 DEF MirrorAt
<1>6. CASE e[1] = u
  <2>1. PICK ws \in Seq(WritesOf(u)) :
             /\ queue'[u] = queue[u] \o ws
             /\ IF IsAck(Head(mainq[u]), Chain(e))
                THEN /\ Len(ws) = 1 /\ ws = <<ws[1]>> /\ IsSecond(ws[1], Chain(e))
                     /\ ws[1].op = Head(mainq[u]).w.op
                ELSE \A i \in DOMAIN ws : ~IsSecond(ws[i], Chain(e))
    BY <1>6, BlockWrites
  <2>2. queue'[u] = queue[u] \o ws /\ mainq'[u] = Tail(mainq[u])
    BY <1>2, <2>1 DEF TypeOK, MainqTyped, QueueTyped
  <2>3. MirrorAt(queue[u] \o ws, Tail(mainq[u]), Follows(e), IsFollower(e), Chain(e))
    <3>1. CASE IsAck(Head(mainq[u]), Chain(e))
      <4>1. ws = <<ws[1]>> /\ ws[1] \in WritesOf(u)
        BY <2>1, <3>1, ElementOfSeq, SMTT(30)
      <4>2. MirrorAt(queue[u] \o <<ws[1]>>, Tail(mainq[u]), Follows(e), IsFollower(e), Chain(e))
        BY <1>1, <1>2, <1>3, <1>6, <2>1, <3>1, <4>1, MirrorSecondIssued
      <4> QED BY <4>1, <4>2
    <3>2. CASE ~IsAck(Head(mainq[u]), Chain(e))
      <4>1. MirrorAt(queue[u], Tail(mainq[u]), Follows(e), IsFollower(e), Chain(e))
        BY <1>1, <1>2, <1>3, <1>6, <3>2, MirrorRunOther
      <4> QED BY <1>2, <2>1, <3>2, <4>1, MirrorAppendWrites
    <3> QED BY <3>1, <3>2
  <2> QED BY <1>4, <1>6, <2>2, <2>3 DEF MirrorAt
<1> QED BY <1>5, <1>6

\* The invariant is inductive.
LEMMA MirrorNext ==
    ASSUME TypeOK, MirrorInv, [Next]_vars
    PROVE  MirrorInv'
<1>1. ASSUME NEW u \in User, Touched(u) \/ Progress(u) \/ Failing(u) PROVE MirrorInv'
    BY <1>1, MirrorTouched, MirrorCommit, MirrorReject, MirrorAnswered, MirrorRunBlock
    DEF Progress, Failing
<1>2. CASE UNCHANGED vars
    BY <1>2 DEF vars, sdkVars, graphVars, MirrorInv, Follows, IsFollower
<1> QED BY <1>1, <1>2 DEF Next

\* Nothing is queued at first, and nobody follows anybody.
LEMMA MirrorInit == Init => MirrorInv
<1> SUFFICES ASSUME Init, NEW e \in Pair
             PROVE  MirrorAt(queue[e[1]], mainq[e[1]], Follows(e), IsFollower(e), Chain(e))
    BY DEF MirrorInv
<1>1. queue[e[1]] = << >> /\ mainq[e[1]] = << >> /\ ~Follows(e) /\ ~IsFollower(e)
    BY DEF Init, SdkInit, GraphInit, Pair, Follows, IsFollower, Coll
<1>2. Acks(<< >>, Chain(e)) = {} /\ Seconds(<< >>, Chain(e)) = {}
    BY DEF Acks, Seconds, Chain
<1> QED BY <1>1, <1>2 DEF MirrorAt

\* For any number of users, posts, taps and faults, the two documents that
\* UserService.follow / unfollow keep of one fact agree once the second write
\* is neither waiting nor queued, unless the chain lost one of its writes.
THEOREM MirrorAgrees == Spec => []MirrorAgreement
<1>1. TypeOK /\ MirrorInv /\ [Next]_vars => MirrorInv'
    BY MirrorNext
<1>2. MirrorInv => MirrorAgreement
    BY MirrorInvImplies
<1> QED BY <1>1, <1>2, MirrorInit, TypeCorrect, PTL DEF Spec

\* And no completion of an older tap overtakes that of a newer one: the last
\* second write on its way always agrees with `following`.
THEOREM LastWritesWin == Spec => []LastWriteWins
<1>1. TypeOK /\ MirrorInv /\ [Next]_vars => MirrorInv'
    BY MirrorNext
<1>2. MirrorInv => LastWriteWins
    BY MirrorInvImplies
<1> QED BY <1>1, <1>2, MirrorInit, TypeCorrect, PTL DEF Spec

-----------------------------------------------------------------------------
(***************************************************************************)
(* The feeds: whatever fails, no feed document names a post the backend    *)
(* has not decided.                                                        *)
(*                                                                         *)
(* NoDanglingFeed is not inductive: a feed write about to be stored could  *)
(* name any post.  What keeps it is the order of the queue: a post's write *)
(* was queued before the query for its fan-out was even asked, so it is    *)
(* ahead of every feed write that fan-out queues; and the ids in the       *)
(* answer to the other query, of a followed user's posts, come from the    *)
(* backend.                                                                *)
(***************************************************************************)
SettledPosts == docs["posts"] \union refused

IsPost(w, p)        == w.coll = "posts" /\ w.key = p
PostQueued(q, p)    == \E j \in DOMAIN q : IsPost(q[j], p)

\* In queue q, every post named by a feed write is settled or ahead of it.
InOrder(q, D) ==
    \A i \in DOMAIN q : q[i].coll = "feed" /\ q[i].op = "set" =>
        q[i].key[2] \in D \/ \E j \in DOMAIN q : j < i /\ IsPost(q[j], q[i].key[2])

QueuesInOrder == \A u \in User : InOrder(queue[u], SettledPosts)

\* The write of post p is decided, or waits in the queue of u's device.
Announced(u, p) == p \in SettledPosts \/ PostQueued(queue[u], p)

FanOutAnnounced ==
    \A u \in User, p \in Post : asked[u][Read("followers", p)] > 0 => Announced(u, p)

AnswerSound(u, b) ==
    b.type = "answer" =>
        /\ b.r.kind = "followers" => Announced(u, b.r.of)
        /\ b.r.kind \in {"addPosts", "dropPosts"} => b.docs \subseteq SettledPosts

AnswersSound == \A u \in User : \A i \in DOMAIN mainq[u] : AnswerSound(u, mainq[u][i])

FeedInv == NoDanglingFeed /\ QueuesInOrder /\ FanOutAnnounced /\ AnswersSound

\* Writes queued behind a queue in order keep it in order, if the posts they
\* name are settled or queued.
LEMMA InOrderAppend ==
    ASSUME NEW S, NEW q \in Seq(S), NEW ws \in Seq(S), NEW D, InOrder(q, D),
           \A i \in DOMAIN ws : ws[i].coll = "feed" /\ ws[i].op = "set" =>
                ws[i].key[2] \in D \/ PostQueued(q, ws[i].key[2])
    PROVE  /\ InOrder(q \o ws, D)
           /\ \A p : PostQueued(q, p) => PostQueued(q \o ws, p)
<1> DEFINE r == q \o ws
<1>1. /\ DOMAIN r = 1..(Len(q) + Len(ws)) /\ DOMAIN q = 1..Len(q) /\ DOMAIN ws = 1..Len(ws)
      /\ Len(q) \in Nat /\ Len(ws) \in Nat
      /\ \A i \in DOMAIN r : r[i] = IF i <= Len(q) THEN q[i] ELSE ws[i - Len(q)]
    BY ConcatProperties, LenProperties
<1> HIDE DEF r
<1>2. \A i \in DOMAIN q : i \in DOMAIN r /\ r[i] = q[i]
    BY <1>1
<1>3. ASSUME NEW i \in DOMAIN r, r[i].coll = "feed", r[i].op = "set"
      PROVE  r[i].key[2] \in D \/ \E j \in DOMAIN r : j < i /\ IsPost(r[j], r[i].key[2])
  <2>1. CASE i <= Len(q)
    BY <1>1, <1>2, <1>3, <2>1 DEF InOrder
  <2>2. CASE ~(i <= Len(q))
    <3>1. i - Len(q) \in DOMAIN ws /\ r[i] = ws[i - Len(q)] /\ \A j \in DOMAIN q : j < i
      BY <1>1, <2>2
    <3> QED BY <1>2, <1>3, <3>1 DEF PostQueued
  <2> QED BY <2>1, <2>2
<1>4. InOrder(r, D)
    BY <1>3 DEF InOrder
<1>5. \A p : PostQueued(q, p) => PostQueued(r, p)
    BY <1>2 DEF PostQueued
<1> QED BY <1>4, <1>5 DEF r

\* The oldest write leaves a queue in order, and its post, if it is one, is
\* settled.
LEMMA InOrderTail ==
    ASSUME NEW S, NEW q \in Seq(S), q # << >>, NEW D, NEW E, InOrder(q, D), D \subseteq E,
           \A p : IsPost(Head(q), p) => p \in E
    PROVE  /\ InOrder(Tail(q), E)
           /\ \A p : PostQueued(q, p) => p \in E \/ PostQueued(Tail(q), p)
           /\ Head(q).coll = "feed" /\ Head(q).op = "set" => Head(q).key[2] \in D
<1> DEFINE r == Tail(q)
<1>1. /\ Len(q) \in Nat /\ DOMAIN q = 1..Len(q) /\ DOMAIN r = 1..(Len(q) - 1) /\ q[1] = Head(q)
      /\ Len(q) > 0 /\ \A i \in DOMAIN r : r[i] = q[i + 1]
    BY HeadTailProperties, LenProperties, EmptySeq
<1> HIDE DEF r
<1>2. \A j \in DOMAIN q : j = 1 \/ (j - 1 \in DOMAIN r /\ r[j - 1] = q[j])
    BY <1>1
<1>3. ASSUME NEW i \in DOMAIN r, r[i].coll = "feed", r[i].op = "set"
      PROVE  r[i].key[2] \in E \/ \E j \in DOMAIN r : j < i /\ IsPost(r[j], r[i].key[2])
  <2>1. i + 1 \in DOMAIN q /\ r[i] = q[i + 1] /\ i \in Nat
    BY <1>1
  <2>2. q[i + 1].key[2] \in D \/ \E j \in DOMAIN q : j < i + 1 /\ IsPost(q[j], q[i + 1].key[2])
    BY <1>3, <2>1 DEF InOrder
  <2>3. CASE q[i + 1].key[2] \in D
    BY <2>1, <2>3
  <2>4. ASSUME NEW j \in DOMAIN q, j < i + 1, IsPost(q[j], q[i + 1].key[2])
        PROVE  r[i].key[2] \in E \/ \E k \in DOMAIN r : k < i /\ IsPost(r[k], r[i].key[2])
    <3>1. CASE j = 1
      BY <1>1, <2>1, <2>4, <3>1
    <3>2. CASE j # 1
      <4>1. j - 1 \in DOMAIN r /\ r[j - 1] = q[j] /\ j - 1 < i
        BY <1>1, <1>2, <2>1, <2>4, <3>2
      <4> QED BY <2>1, <2>4, <4>1
    <3> QED BY <3>1, <3>2
  <2> QED BY <2>2, <2>3, <2>4
<1>4. InOrder(r, E)
    BY <1>3 DEF InOrder
<1>5. \A p : PostQueued(q, p) => p \in E \/ PostQueued(r, p)
    BY <1>1, <1>2 DEF PostQueued
<1>6. Head(q).coll = "feed" /\ Head(q).op = "set" => Head(q).key[2] \in D
  <2>1. 1 \in DOMAIN q /\ \A j \in DOMAIN q : ~(j < 1)
    BY <1>1
  <2> QED BY <1>1, <2>1 DEF InOrder
<1> QED BY <1>4, <1>5, <1>6 DEF r

\* A queue that survives a restart is as much in order as it was.
LEMMA InOrderForgotten ==
    ASSUME NEW q, NEW D, InOrder(q, D),
           \A i \in DOMAIN q : /\ Forgotten(q)[i].coll = q[i].coll
                               /\ Forgotten(q)[i].key = q[i].key
                               /\ Forgotten(q)[i].op = q[i].op
    PROVE  InOrder(Forgotten(q), D) /\ \A p : PostQueued(q, p) => PostQueued(Forgotten(q), p)
<1>1. DOMAIN Forgotten(q) = DOMAIN q
    BY DEF Forgotten
<1> QED BY <1>1 DEF InOrder, PostQueued, IsPost

\* The fan-out query of a post is one of the reads.
LEMMA FollowersReads == \A p \in Post : Read("followers", p) \in Reads
    BY DEF Read, Reads, ShareReads

\* What is announced stays so, if no post is unsettled and no queue loses a
\* post that is not settled; then the answers stay sound.
LEMMA AnswersStaySound ==
    ASSUME SettledPosts \subseteq SettledPosts',
           \A x \in User : \A p : Announced(x, p) => Announced(x, p)'
    PROVE  \A x \in User : \A b : AnswerSound(x, b) => AnswerSound(x, b)'
    BY DEF AnswerSound

\* The blocks of a main queue after a block was appended or run.
LEMMA BlocksAfter ==
    ASSUME NEW S, NEW m \in Seq(S)
    PROVE  /\ \A b \in S : \A i \in DOMAIN Append(m, b) :
                Append(m, b)[i] = b \/ \E j \in DOMAIN m : Append(m, b)[i] = m[j]
           /\ m # << >> => \A i \in DOMAIN Tail(m) : \E j \in DOMAIN m : Tail(m)[i] = m[j]
<1>1. ASSUME NEW b \in S, NEW i \in DOMAIN Append(m, b)
      PROVE  Append(m, b)[i] = b \/ \E j \in DOMAIN m : Append(m, b)[i] = m[j]
  <2>1. /\ Len(m) \in Nat /\ DOMAIN m = 1..Len(m) /\ DOMAIN Append(m, b) = 1..(Len(m) + 1)
        /\ \A k \in 1..Len(m) : Append(m, b)[k] = m[k]
        /\ Append(m, b)[Len(m) + 1] = b
    BY AppendProperties, LenProperties
  <2> QED BY <2>1
<1>2. ASSUME m # << >>, NEW i \in DOMAIN Tail(m)
      PROVE  \E j \in DOMAIN m : Tail(m)[i] = m[j]
  <2>1. /\ Len(m) \in Nat /\ DOMAIN m = 1..Len(m) /\ DOMAIN Tail(m) = 1..(Len(m) - 1)
        /\ Tail(m)[i] = m[i + 1]
    BY <1>2, HeadTailProperties, LenProperties, EmptySeq
  <2> QED BY <1>2, <2>1
<1> QED BY <1>1, <1>2

\* Writes issued on a device, whose feed writes name announced posts.
LEMMA FeedWritesIssued ==
    ASSUME TypeOK, FeedInv, NEW u \in User, NEW ws \in Seq(WritesOf(u)),
           queue'[u] = queue[u] \o ws, \A x \in User \ {u} : queue'[x] = queue[x],
           UNCHANGED <<docs, refused>>,
           \A i \in DOMAIN ws : ws[i].coll = "feed" /\ ws[i].op = "set" =>
                Announced(u, ws[i].key[2])
    PROVE  /\ NoDanglingFeed' /\ QueuesInOrder'
           /\ \A x \in User : \A p : Announced(x, p) => Announced(x, p)'
           /\ \A x \in User : \A b : AnswerSound(x, b) => AnswerSound(x, b)'
<1>1. queue[u] \in Seq(WritesOf(u))
    BY DEF TypeOK, QueueTyped
<1>2. SettledPosts' = SettledPosts /\ NoDanglingFeed'
    BY DEF SettledPosts, FeedInv, NoDanglingFeed, Settled
<1>3. InOrder(queue[u] \o ws, SettledPosts)
      /\ \A p : PostQueued(queue[u], p) => PostQueued(queue[u] \o ws, p)
    BY <1>1, InOrderAppend DEF FeedInv, QueuesInOrder, Announced
<1>4. QueuesInOrder'
  <2>1. \A x \in User : InOrder(queue'[x], SettledPosts')
    BY <1>1, <1>2, <1>3, Zenon DEF FeedInv, QueuesInOrder
  <2> QED BY <2>1 DEF QueuesInOrder
<1>5. \A x \in User : \A p : Announced(x, p) => Announced(x, p)'
    BY <1>1, <1>2, <1>3 DEF Announced, PostQueued
<1> QED BY <1>2, <1>4, <1>5, AnswersStaySound

\* Taps queue no feed write and ask for no fan-out.
LEMMA FeedTouched ==
    ASSUME TypeOK, FeedInv, NEW u \in User, Touched(u)
    PROVE  FeedInv'
<1>1. ASSUME NEW v \in User, NEW op \in {"set", "delete"}, NEW screen \in Screen,
             CallFollow(u, v, op, screen)
      PROVE  FeedInv'
  <2> DEFINE w == FollowingWrite(u, v, op, screen)
  <2>1. w \in WritesOf(u) /\ w.coll = "following"
    BY <1>1, FollowWriteTypes, ScreenAssumption DEF Ops, CallFollow, FollowingWrite, Write
  <2>2. /\ queue'[u] = queue[u] \o <<w>> /\ \A x \in User \ {u} : queue'[x] = queue[x]
        /\ UNCHANGED <<asked, mainq, docs, refused>>
    BY <1>1 DEF CallFollow, WriteMutations, TypeOK, QueueTyped
  <2> HIDE DEF w
  <2>3. <<w>> \in Seq(WritesOf(u)) /\ \A i \in DOMAIN <<w>> : <<w>>[i].coll # "feed"
    BY <2>1
  <2>4. /\ NoDanglingFeed' /\ QueuesInOrder'
        /\ \A x \in User : \A p : Announced(x, p) => Announced(x, p)'
        /\ \A x \in User : \A b : AnswerSound(x, b) => AnswerSound(x, b)'
    BY <2>2, <2>3, FeedWritesIssued
  <2>5. FanOutAnnounced' /\ AnswersSound'
    BY <2>2, <2>4 DEF FeedInv, FanOutAnnounced, AnswersSound
  <2> QED BY <2>4, <2>5 DEF FeedInv
<1>2. ASSUME ShareButtonPressed(u) PROVE FeedInv'
  <2>1. PICK q \in Post : asked' = Ask(u, {Read("image", q)})
    BY <1>2 DEF ShareButtonPressed
  <2>2. UNCHANGED <<queue, mainq, docs, refused>>
    BY <1>2 DEF ShareButtonPressed
  <2>3. \A x \in User, p \in Post :
            asked'[x][Read("followers", p)] = asked[x][Read("followers", p)]
    BY <2>1, FollowersReads DEF Ask, Read, TypeOK, AskedTyped
  <2>4. FanOutAnnounced'
    BY <2>2, <2>3 DEF FeedInv, FanOutAnnounced, Announced, SettledPosts
  <2>5. NoDanglingFeed' /\ QueuesInOrder' /\ AnswersSound'
    BY <2>2 DEF FeedInv, NoDanglingFeed, Settled, QueuesInOrder, AnswersSound, AnswerSound,
                Announced, SettledPosts
  <2> QED BY <2>4, <2>5 DEF FeedInv
<1> QED BY <1>1, <1>2 DEF Touched

\* The oldest write of a device is decided: stored or refused.
LEMMA FeedDecided ==
    ASSUME TypeOK, FeedInv, NEW u \in User, Commit(u) \/ Reject(u)
    PROVE  FeedInv'
<1> DEFINE w == Head(queue[u])
<1>1. /\ w \in WritesOf(u) /\ queue[u] # << >> /\ queue[u] \in Seq(WritesOf(u))
      /\ mainq[u] \in Seq(BlocksOf(u))
    BY HeadTailProperties DEF TypeOK, QueueTyped, MainqTyped, Commit, Reject
<1>2. PICK ok \in BOOLEAN : NotifyUser(u, w, ok)
    BY DEF Commit, Reject
<1>3. /\ SettledPosts \subseteq SettledPosts'
      /\ \A p : IsPost(w, p) => p \in SettledPosts'
      /\ \A f \in docs'["feed"] \ docs["feed"] : w.coll = "feed" /\ w.op = "set" /\ f = w.key
  <2>1. w.coll = "posts" => w.op = "set"
    BY <1>1, WriteFields
  <2>2. CASE Commit(u)
    BY <1>1, <2>1, <2>2, WriteFields DEF Commit, Apply, SettledPosts, IsPost, TypeOK, Coll
  <2>3. CASE Reject(u)
    BY <2>3 DEF Reject, SettledPosts, IsPost
  <2> QED BY <2>2, <2>3
<1>4. /\ queue'[u] = Tail(queue[u]) /\ \A x \in User \ {u} : queue'[x] = queue[x]
      /\ \A x \in User \ {u} : mainq'[x] = mainq[x]
      /\ UNCHANGED asked
      /\ w.then = NoOne => mainq' = mainq
      /\ w.then # NoOne => mainq'[u] = Append(mainq[u], Acked(w, ok))
    BY <1>2 DEF NotifyUser, TypeOK, QueueTyped, MainqTyped
<1>5. w.then # NoOne => Acked(w, ok) \in BlocksOf(u)
    BY <1>1 DEF BlocksOf, Acked
<1> HIDE DEF w
<1>6. /\ InOrder(Tail(queue[u]), SettledPosts')
      /\ \A p : PostQueued(queue[u], p) => p \in SettledPosts' \/ PostQueued(Tail(queue[u]), p)
      /\ w.coll = "feed" /\ w.op = "set" => w.key[2] \in SettledPosts
    BY <1>1, <1>3, InOrderTail DEF FeedInv, QueuesInOrder, w
<1>7. NoDanglingFeed'
  <2>1. \A f \in docs'["feed"] : f[2] \in SettledPosts'
    BY <1>3, <1>6 DEF FeedInv, NoDanglingFeed, Settled, SettledPosts
  <2> QED BY <2>1 DEF NoDanglingFeed, Settled, SettledPosts
<1>8. QueuesInOrder'
  <2>1. ASSUME NEW x \in User \ {u} PROVE InOrder(queue[x], SettledPosts')
    BY <1>3 DEF FeedInv, QueuesInOrder, InOrder
  <2>2. \A x \in User : InOrder(queue'[x], SettledPosts')
    BY <1>4, <1>6, <2>1, Zenon
  <2> QED BY <2>2 DEF QueuesInOrder
<1>9. \A x \in User : \A p : Announced(x, p) => Announced(x, p)'
  <2>1. ASSUME NEW x \in User, NEW p, PostQueued(queue[x], p)
        PROVE  p \in SettledPosts' \/ PostQueued(queue'[x], p)
    BY <1>4, <1>6, <2>1, Zenon
  <2> QED BY <1>3, <2>1 DEF Announced
<1>10. FanOutAnnounced'
    BY <1>4, <1>9 DEF FeedInv, FanOutAnnounced
<1>11. AnswersSound'
  <2> SUFFICES ASSUME NEW x \in User, NEW i \in DOMAIN mainq'[x]
               PROVE  AnswerSound(x, mainq[x][i])'
    BY DEF AnswersSound
  <2>1. mainq'[x][i] = Acked(w, ok) \/ \E j \in DOMAIN mainq[x] : mainq'[x][i] = mainq[x][j]
    <3>1. CASE x = u /\ w.then # NoOne
      <4>1. mainq'[x] = Append(mainq[u], Acked(w, ok)) /\ Acked(w, ok) \in BlocksOf(u)
        BY <1>4, <1>5, <3>1
      <4> HIDE DEF w
      <4> QED BY <1>1, <3>1, <4>1, BlocksAfter
    <3>2. CASE ~(x = u /\ w.then # NoOne)
      <4>1. mainq'[x] = mainq[x]
        BY <1>4, <3>2
      <4> QED BY <4>1
    <3> QED BY <3>1, <3>2
  <2>2. CASE mainq'[x][i] = Acked(w, ok)
    BY <2>2 DEF AnswerSound, Acked
  <2>3. ASSUME NEW j \in DOMAIN mainq[x], mainq'[x][i] = mainq[x][j]
        PROVE  AnswerSound(x, mainq[x][i])'
    <3>1. AnswerSound(x, mainq[x][j])
      BY DEF FeedInv, AnswersSound
    <3>2. \A b : AnswerSound(x, b) => AnswerSound(x, b)'
      BY <1>3, <1>9, AnswersStaySound
    <3> QED BY <2>3, <3>1, <3>2 DEF AnswerSound
  <2> QED BY <2>1, <2>2, <2>3
<1> QED BY <1>7, <1>8, <1>10, <1>11 DEF FeedInv

\* Answers carry settled posts or announce themselves; a death empties the main
\* queue and keeps the order of the mutation queue.
LEMMA FeedAnswered ==
    ASSUME TypeOK, FeedInv, NEW u \in User,
           (\E r \in Reads : Answer(u, r) \/ FailToAnswer(u, r)) \/ Kill(u)
    PROVE  FeedInv'
<1>1. UNCHANGED <<docs, refused>> /\ SettledPosts' = SettledPosts /\ NoDanglingFeed'
    BY DEF Answer, FailToAnswer, Kill, graphVars, SettledPosts, FeedInv, NoDanglingFeed, Settled
<1>2. ASSUME NEW r \in Reads, Answer(u, r) \/ FailToAnswer(u, r) PROVE FeedInv'
  <2>1. /\ queue' = queue /\ asked[u][r] > 0
        /\ asked' = [asked EXCEPT ![u][r] = @ - 1]
        /\ mainq' = mainq \/ (/\ Answer(u, r)
                              /\ mainq' = [mainq EXCEPT ![u] = Append(@, Answered(r, Found(r)))])
    BY <1>2 DEF Answer, Respond, FailToAnswer, ReadFails
  <2>2. \A x \in User : \A p : Announced(x, p) <=> Announced(x, p)'
    BY <1>1, <2>1 DEF Announced
  <2>3. QueuesInOrder'
    BY <1>1, <2>1 DEF FeedInv, QueuesInOrder
  <2>4. FanOutAnnounced'
    <3>1. \A x \in User, s \in Reads : asked'[x][s] > 0 => asked[x][s] > 0
      BY <2>1 DEF TypeOK, AskedTyped
    <3> QED BY <2>2, <3>1, FollowersReads DEF FeedInv, FanOutAnnounced
  <2>5. AnswersSound'
    <3> SUFFICES ASSUME NEW x \in User, NEW i \in DOMAIN mainq'[x]
                 PROVE  AnswerSound(x, mainq[x][i])'
      BY DEF AnswersSound
    <3>1. \A b : AnswerSound(x, b) => AnswerSound(x, b)'
      BY <1>1, <2>2, AnswersStaySound
    <3>2. ASSUME NEW j \in DOMAIN mainq[x], mainq'[x][i] = mainq[x][j]
          PROVE  AnswerSound(x, mainq[x][i])'
      <4>1. AnswerSound(x, mainq[x][j])
        BY DEF FeedInv, AnswersSound
      <4> QED BY <3>1, <3>2, <4>1 DEF AnswerSound
    <3>3. CASE mainq'[x] = mainq[x]
      BY <3>2, <3>3
    <3>4. CASE x = u /\ mainq'[u] = Append(mainq[u], Answered(r, Found(r))) /\ Answer(u, r)
      <4>1. Answered(r, Found(r)) \in BlocksOf(u)
        <5>1. /\ r \in FeedReads => Found(r) \subseteq Post
              /\ r \in ShareReads => Found(r) \subseteq User
          BY DEF Found, FeedReads, ShareReads, TypeOK, Coll, Key
        <5> QED BY <2>1, <5>1 DEF Answered, BlocksOf, Reads, TypeOK, AskedTyped
      <4>2. AnswerSound(u, Answered(r, Found(r)))
        <5>1. r.kind = "followers" => r = Read("followers", r.of) /\ r.of \in Post
          BY DEF Reads, FeedReads, ShareReads, Read
        <5>2. r.kind = "followers" => Announced(u, r.of)
          BY <2>1, <5>1 DEF FeedInv, FanOutAnnounced
        <5>3. r.kind \in {"addPosts", "dropPosts"} => Found(r) \subseteq SettledPosts
          BY DEF Found, SettledPosts
        <5> QED BY <5>2, <5>3 DEF AnswerSound, Answered
      <4>3. mainq[u] \in Seq(BlocksOf(u))
        BY DEF TypeOK, MainqTyped
      <4>4. CASE mainq'[x][i] = Answered(r, Found(r))
        BY <3>1, <3>4, <4>2, <4>4 DEF AnswerSound
      <4>5. CASE \E j \in DOMAIN mainq[x] : mainq'[x][i] = mainq[x][j]
        BY <3>2, <4>5
      <4> QED BY <3>4, <4>1, <4>3, <4>4, <4>5, BlocksAfter
    <3> QED BY <2>1, <3>3, <3>4 DEF TypeOK, MainqTyped
  <2> QED BY <1>1, <2>3, <2>4, <2>5 DEF FeedInv
<1>3. ASSUME Kill(u) PROVE FeedInv'
  <2>1. /\ queue'[u] = Forgotten(queue[u]) /\ \A x \in User \ {u} : queue'[x] = queue[x]
        /\ mainq'[u] = << >> /\ \A x \in User \ {u} : mainq'[x] = mainq[x]
        /\ \A s \in Reads : asked'[u][s] = 0
        /\ \A x \in User \ {u} : asked'[x] = asked[x]
    BY <1>3 DEF Kill, Terminate, TypeOK, QueueTyped, MainqTyped, AskedTyped
  <2>2. \A i \in DOMAIN queue[u] : /\ Forgotten(queue[u])[i].coll = queue[u][i].coll
                                   /\ Forgotten(queue[u])[i].key = queue[u][i].key
                                   /\ Forgotten(queue[u])[i].op = queue[u][i].op
    <3>1. \A i \in DOMAIN queue[u] : queue[u][i] \in WritesOf(u)
      BY ElementOfSeq, LenProperties DEF TypeOK, QueueTyped
    <3> QED BY <3>1 DEF Forgotten, WritesOf
  <2>3. InOrder(Forgotten(queue[u]), SettledPosts)
        /\ \A p : PostQueued(queue[u], p) => PostQueued(Forgotten(queue[u]), p)
    BY <2>2, InOrderForgotten DEF FeedInv, QueuesInOrder
  <2>4. QueuesInOrder'
    <3>1. \A x \in User : InOrder(queue'[x], SettledPosts')
      BY <1>1, <2>1, <2>3, Zenon DEF FeedInv, QueuesInOrder
    <3> QED BY <3>1 DEF QueuesInOrder
  <2>5. \A x \in User : \A p : Announced(x, p) => Announced(x, p)'
    BY <1>1, <2>1, <2>3 DEF Announced, PostQueued
  <2>6. FanOutAnnounced'
    BY <2>1, <2>5, FollowersReads DEF FeedInv, FanOutAnnounced
  <2>7. AnswersSound'
    <3> SUFFICES ASSUME NEW x \in User, NEW i \in DOMAIN mainq'[x]
                 PROVE  AnswerSound(x, mainq[x][i])'
      BY DEF AnswersSound
    <3>1. x # u /\ mainq'[x] = mainq[x]
      BY <2>1
    <3>2. AnswerSound(x, mainq[x][i])
      BY <3>1 DEF FeedInv, AnswersSound
    <3>3. \A b : AnswerSound(x, b) => AnswerSound(x, b)'
      BY <1>1, <2>5, AnswersStaySound
    <3> QED BY <3>1, <3>2, <3>3 DEF AnswerSound
  <2> QED BY <1>1, <2>4, <2>6, <2>7 DEF FeedInv
<1> QED BY <1>2, <1>3

\* The writes a block queues: a feed write names an announced post, and a post
\* whose fan-out is asked for is queued.
LEMMA FeedBlockWrites ==
    ASSUME TypeOK, FeedInv, NEW u \in User, RunBlock(u)
    PROVE  \E ws \in Seq(WritesOf(u)) :
             /\ queue'[u] = queue[u] \o ws
             /\ \A i \in DOMAIN ws : ws[i].coll = "feed" /\ ws[i].op = "set" =>
                    Announced(u, ws[i].key[2])
             /\ \A x \in User, p \in Post : asked'[x][Read("followers", p)] > 0 =>
                    \/ asked[x][Read("followers", p)] > 0
                    \/ x = u /\ \E i \in DOMAIN ws : IsPost(ws[i], p)
<1> DEFINE b == Head(mainq[u])
<1>0. mainq[u] # << >> /\ queue[u] \in Seq(WritesOf(u)) /\ mainq[u] \in Seq(BlocksOf(u))
    BY DEF RunBlock, ServiceBlock, FollowAcked, CellCompletion, UploadCompletion,
           FeedAfterFollowing, ImageUploaded, FeedAfterPost, ProfileCompletion,
           RunningAlone, Running, TypeOK, QueueTyped, MainqTyped
<1>1. b \in BlocksOf(u) /\ AnswerSound(u, b)
  <2>1. b \in BlocksOf(u) /\ 1 \in DOMAIN mainq[u] /\ b = mainq[u][1]
    BY <1>0, HeadTailProperties, LenProperties, EmptySeq
  <2> QED BY <2>1 DEF FeedInv, AnswersSound
<1> HIDE DEF b
<1>2. CASE FollowAcked(u, b)
  <2> DEFINE w == FollowersWrite(u, b.w.key[2], b.w.op, b.w.then)
  <2>1. b.w \in WritesOf(u) /\ b.w.coll = "following"
    BY <1>1, <1>2, BlockFields DEF FollowAcked
  <2>2. w \in WritesOf(u) /\ w.coll = "followers"
    BY <2>1, ChainFields, FollowWriteTypes DEF FollowersWrite, Write
  <2>3. queue'[u] = queue[u] \o <<w>> /\ asked' = asked
    BY <1>2 DEF FollowAcked, WriteMutations, TypeOK, QueueTyped
  <2> HIDE DEF w
  <2>4. <<w>> \in Seq(WritesOf(u)) /\ \A i \in DOMAIN <<w>> : <<w>>[i].coll # "feed"
    BY <2>2
  <2> QED BY <2>3, <2>4
<1>3. CASE CellCompletion(u, b) \/ UploadCompletion(u, b)
  <2>1. queue' = queue /\ asked' = asked
    BY <1>3 DEF CellCompletion, UploadCompletion
  <2>2. queue'[u] = queue[u] \o << >> /\ << >> \in Seq(WritesOf(u)) /\ DOMAIN << >> = {}
    BY <1>0, <2>1, ConcatEmptySeq, EmptySeq
  <2> QED BY <2>1, <2>2
<1>4. CASE ProfileCompletion(u, b, {})
  <2> DEFINE n  == NotificationWrite(u, b.w.key[2])
             ws == IF b.w.op = "set" THEN <<n>> ELSE << >>
             fr == FeedRead(b.w.key[2], b.w.op = "set")
  <2>1. n \in WritesOf(u) /\ n.coll # "feed"
    BY <1>1, <1>4, BlockFields, WriteFields, FollowWriteTypes
    DEF ProfileCompletion, Ops, NotificationWrite, Write
  <2>2. queue'[u] = queue[u] \o ws /\ asked' = Ask(u, {fr})
    BY <1>4 DEF ProfileCompletion, WriteMutations, TypeOK, QueueTyped
  <2>3. \A p \in Post : Read("followers", p) # fr
    BY DEF FeedRead, Read
  <2> HIDE DEF n, fr
  <2>4. ws \in Seq(WritesOf(u)) /\ \A i \in DOMAIN ws : ws[i].coll # "feed"
    BY <2>1
  <2>5. \A x \in User, p \in Post :
            asked'[x][Read("followers", p)] = asked[x][Read("followers", p)]
    BY <2>2, <2>3, FollowersReads DEF Ask, TypeOK, AskedTyped
  <2> QED BY <2>2, <2>4, <2>5
<1>5. CASE ImageUploaded(u, b)
  <2> DEFINE w == PostWrite(b.r.of)
  <2>1. b.r.of \in Post /\ Owner[b.r.of] = u
    BY <1>1, <1>5, BlockFields DEF ImageUploaded, ShareReads, FeedReads
  <2>2. w \in WritesOf(u) /\ w.coll = "posts" /\ IsPost(w, b.r.of)
    BY <2>1, PostWriteTypes DEF Ops, PostWrite, Write, IsPost
  <2>3. queue'[u] = queue[u] \o <<w>> /\ asked' = Ask(u, {Read("followers", b.r.of)})
    BY <1>5 DEF ImageUploaded, WriteMutations, TypeOK, QueueTyped
  <2> HIDE DEF w
  <2>4. /\ <<w>> \in Seq(WritesOf(u)) /\ \A i \in DOMAIN <<w>> : <<w>>[i].coll # "feed"
        /\ \E i \in DOMAIN <<w>> : IsPost(<<w>>[i], b.r.of)
    BY <2>2
  <2>5. \A x \in User, p \in Post :
            asked'[x][Read("followers", p)] # asked[x][Read("followers", p)] =>
                x = u /\ Read("followers", p) = Read("followers", b.r.of)
    BY <2>3, FollowersReads DEF Ask, TypeOK, AskedTyped
  <2>6. \A p \in Post : Read("followers", p) = Read("followers", b.r.of) => p = b.r.of
    BY DEF Read
  <2> QED BY <2>3, <2>4, <2>5, <2>6
<1>6. CASE FeedAfterFollowing(u, b)
  <2>1. b.docs \subseteq Post /\ b.docs \subseteq SettledPosts /\ IsFiniteSet(b.docs)
    BY <1>1, <1>6, BlockFields, FiniteAssumption, FS_Subset
    DEF FeedAfterFollowing, ShareReads, AnswerSound
  <2>2. PICK ps \in Orderings(b.docs) :
            queue' = WriteMutations(u, [i \in DOMAIN ps |->
                       FeedWrite(u, ps[i], OpFor(b.r.kind = "addPosts"))])
    BY <1>6 DEF FeedAfterFollowing
  <2> DEFINE op == OpFor(b.r.kind = "addPosts")
             ws == [i \in DOMAIN ps |-> FeedWrite(u, ps[i], op)]
  <2>3. op \in Ops
    BY DEF OpFor, Ops
  <2>4. queue'[u] = queue[u] \o ws /\ asked' = asked
    BY <1>6, <2>2 DEF WriteMutations, TypeOK, QueueTyped, FeedAfterFollowing
  <2> HIDE DEF op
  <2>5. \A i \in DOMAIN ps : FeedWrite(u, ps[i], op) \in WritesOf(u)
    BY <2>1, <2>3, OrderingsType, PostWriteTypes
  <2>6. ws \in Seq(WritesOf(u))
    BY <2>1, <2>5, OrderingsType
  <2>7. \A i \in DOMAIN ws : ws[i].key[2] = ps[i] /\ ps[i] \in SettledPosts
    BY <2>1, OrderingsType DEF FeedWrite, Write
  <2> HIDE DEF ws
  <2> QED BY <2>4, <2>6, <2>7 DEF Announced
<1>7. CASE FeedAfterPost(u, b)
  <2>1. /\ b.docs \subseteq User /\ b.r.of \in Post /\ Owner[b.r.of] = u
        /\ Announced(u, b.r.of) /\ IsFiniteSet(b.docs)
    BY <1>1, <1>7, BlockFields, FiniteAssumption, FS_Subset
    DEF FeedAfterPost, ShareReads, FeedReads, AnswerSound
  <2>2. PICK vs \in Orderings(b.docs) :
            queue' = WriteMutations(u, [i \in DOMAIN vs |-> FeedWrite(vs[i], b.r.of, "set")])
    BY <1>7 DEF FeedAfterPost
  <2> DEFINE ws == [i \in DOMAIN vs |-> FeedWrite(vs[i], b.r.of, "set")]
  <2>3. \A i \in DOMAIN vs : FeedWrite(vs[i], b.r.of, "set") \in WritesOf(u)
    BY <2>1, OrderingsType, PostWriteTypes DEF Ops
  <2>4. ws \in Seq(WritesOf(u))
    BY <2>1, <2>3, OrderingsType
  <2>5. queue'[u] = queue[u] \o ws /\ asked' = asked
    BY <1>7, <2>2 DEF WriteMutations, TypeOK, QueueTyped, FeedAfterPost
  <2>6. \A i \in DOMAIN ws : ws[i].key[2] = b.r.of
    BY DEF FeedWrite, Write
  <2> HIDE DEF ws
  <2> QED BY <2>1, <2>4, <2>5, <2>6
<1> QED BY <1>2, <1>3, <1>4, <1>5, <1>6, <1>7 DEF RunBlock, ServiceBlock, b

\* Every block preserves the invariant when it runs.
LEMMA FeedRunBlock ==
    ASSUME TypeOK, FeedInv, NEW u \in User, RunBlock(u)
    PROVE  FeedInv'
<1>1. /\ mainq[u] # << >> /\ mainq' = RunFirst(u, << >>) /\ UNCHANGED <<docs, refused>>
      /\ \A x \in User \ {u} : queue'[x] = queue[x]
    BY DEF RunBlock, ServiceBlock, FollowAcked, CellCompletion, UploadCompletion,
           FeedAfterFollowing, ImageUploaded, FeedAfterPost, ProfileCompletion,
           RunningAlone, Running, graphVars, WriteMutations, TypeOK, QueueTyped
<1>2. mainq' = [mainq EXCEPT ![u] = Tail(@)] /\ mainq[u] \in Seq(BlocksOf(u))
      /\ queue[u] \in Seq(WritesOf(u))
    BY <1>1, RunFirstTyped DEF TypeOK, MainqTyped, QueueTyped
<1>3. PICK ws \in Seq(WritesOf(u)) :
             /\ queue'[u] = queue[u] \o ws
             /\ \A i \in DOMAIN ws : ws[i].coll = "feed" /\ ws[i].op = "set" =>
                    Announced(u, ws[i].key[2])
             /\ \A x \in User, p \in Post : asked'[x][Read("followers", p)] > 0 =>
                    \/ asked[x][Read("followers", p)] > 0
                    \/ x = u /\ \E i \in DOMAIN ws : IsPost(ws[i], p)
    BY FeedBlockWrites
<1>4. /\ NoDanglingFeed' /\ QueuesInOrder'
      /\ \A x \in User : \A p : Announced(x, p) => Announced(x, p)'
      /\ \A x \in User : \A b : AnswerSound(x, b) => AnswerSound(x, b)'
    BY <1>1, <1>3, FeedWritesIssued
<1>5. \A p : (\E i \in DOMAIN ws : IsPost(ws[i], p)) => Announced(u, p)'
  <2> SUFFICES ASSUME NEW p, NEW i \in DOMAIN ws, IsPost(ws[i], p)
               PROVE  PostQueued(queue'[u], p)
    BY DEF Announced
  <2>1. /\ Len(queue[u]) \in Nat /\ DOMAIN ws = 1..Len(ws) /\ Len(ws) \in Nat
        /\ DOMAIN queue'[u] = 1..(Len(queue[u]) + Len(ws))
        /\ \A k \in DOMAIN queue'[u] :
             queue'[u][k] = IF k <= Len(queue[u]) THEN queue[u][k] ELSE ws[k - Len(queue[u])]
    BY <1>2, <1>3, ConcatProperties, LenProperties
  <2>2. Len(queue[u]) + i \in DOMAIN queue'[u] /\ queue'[u][Len(queue[u]) + i] = ws[i]
    BY <2>1
  <2> QED BY <2>2 DEF PostQueued
<1>6. FanOutAnnounced'
    BY <1>3, <1>4, <1>5 DEF FeedInv, FanOutAnnounced
<1>7. AnswersSound'
  <2> SUFFICES ASSUME NEW x \in User, NEW i \in DOMAIN mainq'[x]
               PROVE  AnswerSound(x, mainq[x][i])'
    BY DEF AnswersSound
  <2>1. PICK j \in DOMAIN mainq[x] : mainq'[x][i] = mainq[x][j]
    <3>1. CASE x = u
      <4>1. mainq'[x] = Tail(mainq[u])
        BY <1>2, <3>1 DEF TypeOK, MainqTyped
      <4>2. mainq[u] # << >> /\ mainq[u] \in Seq(BlocksOf(u))
        BY <1>1, <1>2
      <4>3. \A k \in DOMAIN Tail(mainq[u]) : \E j \in DOMAIN mainq[u] : Tail(mainq[u])[k] = mainq[u][j]
        BY <4>2, BlocksAfter
      <4> QED BY <3>1, <4>1, <4>3
    <3>2. CASE x # u
      BY <1>2, <3>2 DEF TypeOK, MainqTyped
    <3> QED BY <3>1, <3>2
  <2>2. AnswerSound(x, mainq[x][j])
    BY DEF FeedInv, AnswersSound
  <2>3. \A b : AnswerSound(x, b) => AnswerSound(x, b)'
    BY <1>4
  <2> QED BY <2>1, <2>2, <2>3 DEF AnswerSound
<1> QED BY <1>4, <1>6, <1>7 DEF FeedInv

\* The invariant is inductive.
LEMMA FeedNext ==
    ASSUME TypeOK, FeedInv, [Next]_vars
    PROVE  FeedInv'
<1>1. ASSUME NEW u \in User, Touched(u) \/ Progress(u) \/ Failing(u) PROVE FeedInv'
    BY <1>1, FeedTouched, FeedDecided, FeedAnswered, FeedRunBlock DEF Progress, Failing
<1>2. CASE UNCHANGED vars
    BY <1>2 DEF vars, sdkVars, graphVars, FeedInv, NoDanglingFeed, Settled, QueuesInOrder,
                FanOutAnnounced, AnswersSound, AnswerSound, Announced, SettledPosts
<1> QED BY <1>1, <1>2 DEF Next

\* At first nothing is stored, queued or asked.
LEMMA FeedInit == Init => FeedInv
<1> SUFFICES ASSUME Init PROVE FeedInv
    OBVIOUS
<1>1. /\ docs["feed"] = {}
      /\ \A u \in User : /\ DOMAIN queue[u] = {} /\ DOMAIN mainq[u] = {}
                         /\ \A p \in Post : asked[u][Read("followers", p)] = 0
    BY FollowersReads DEF Init, SdkInit, GraphInit, Coll
<1> QED BY <1>1 DEF FeedInv, NoDanglingFeed, QueuesInOrder, InOrder, FanOutAnnounced, AnswersSound

\* For any number of users, posts, taps and faults, no feed document names a
\* post whose own document the backend has neither stored nor refused: the
\* fan-out of uploadPost never overtakes the post.
THEOREM NoDangling == Spec => []NoDanglingFeed
<1>1. TypeOK /\ FeedInv /\ [Next]_vars => FeedInv'
    BY FeedNext
<1>2. FeedInv => NoDanglingFeed
    BY DEF FeedInv
<1> QED BY <1>1, <1>2, FeedInit, TypeCorrect, PTL DEF Spec

-----------------------------------------------------------------------------
(***************************************************************************)
(* Patient users, who follow from profile screens only.  One touch is      *)
(* worked on at a time, by the device of one user a.  A tap is first a     *)
(* chain of two writes, during which only the feed of a and the posts of   *)
(* the user tapped are out of step.  Then, and after a share, the feeds    *)
(* are updated: `following` no longer changes, everything queued, asked    *)
(* and answered agrees with it, and each feed document that is wrong is    *)
(* covered by one of these.                                                *)
(***************************************************************************)
Right(x, p) == <<x, p>> \in docs["feed"] <=> Follows(<<x, Owner[p]>>)

\* Outside the pairs E the halves of the graph agree, and the feeds are right.
Mirrored(E) == \A e \in Pair \ E : Follows(e) <=> IsFollower(e)
ExactBut(E) == \A x \in User, p \in docs["posts"] : <<x, Owner[p]>> \notin E => Right(x, p)

AskedNothing(u) == \A r \in Reads : asked[u][r] = 0

\* The stages of a follow or unfollow of v by a.
Begun(a, v, op) ==
    /\ queue[a] = <<FollowingWrite(a, v, op, "profile")>> /\ mainq[a] = << >>
    /\ Mirrored({}) /\ ExactBut({})

FirstDone(a, v, op) ==
    /\ queue[a] = << >> /\ mainq[a] = <<Acked(FollowingWrite(a, v, op, "profile"), TRUE)>>
    /\ Mirrored({<<a, v>>}) /\ ExactBut({<<a, v>>}) /\ (Follows(<<a, v>>) <=> op = "set")

SecondBegun(a, v, op) ==
    /\ queue[a] = <<FollowersWrite(a, v, op, "profile")>> /\ mainq[a] = << >>
    /\ Mirrored({<<a, v>>}) /\ ExactBut({<<a, v>>}) /\ (Follows(<<a, v>>) <=> op = "set")

SecondDone(a, v, op) ==
    /\ queue[a] = << >> /\ mainq[a] = <<Acked(FollowersWrite(a, v, op, "profile"), TRUE)>>
    /\ Mirrored({}) /\ ExactBut({<<a, v>>}) /\ (Follows(<<a, v>>) <=> op = "set")

Chaining(a) ==
    /\ AskedNothing(a)
    /\ \E v \in User \ {a}, op \in Ops :
         Begun(a, v, op) \/ FirstDone(a, v, op) \/ SecondBegun(a, v, op) \/ SecondDone(a, v, op)

\* The reads, writes and blocks of an update agree with `following`.
ReadRight(a, r) ==
    /\ r.kind \in {"addPosts", "dropPosts"} => r.of # a
    /\ r.kind = "addPosts" => Follows(<<a, r.of>>)
    /\ r.kind = "dropPosts" => ~Follows(<<a, r.of>>)

WriteRight(w) ==
    /\ w.coll \notin {"following", "followers"}
    /\ w.coll = "feed" => (w.op = "set" <=> Follows(<<w.key[1], Owner[w.key[2]]>>))

BlockRight(a, b) ==
    /\ b.type = "ack" => b.w.coll = "posts"
    /\ b.type = "answer" =>
         /\ ReadRight(a, b.r)
         /\ b.r.kind = "followers" => \A x \in b.docs : Follows(<<x, a>>)
         /\ b.r.kind \in {"addPosts", "dropPosts"} => \A p \in b.docs : Owner[p] = b.r.of

\* The posts that are stored or queued.
Due(a) == docs["posts"] \union {w.key : w \in {x \in Elems(queue[a]) : x.coll = "posts"}}

\* Read r will find x, or has found it.
Fetching(a, r, x) ==
    \/ asked[a][r] > 0
    \/ \E b \in Elems(mainq[a]) : b.type = "answer" /\ b.r = r /\ x \in b.docs

\* The feed document of x and p is going to be written.
Covered(a, x, p) ==
    \/ \E w \in Elems(queue[a]) : w.coll = "feed" /\ w.key = <<x, p>>
    \/ x = a /\ Owner[p] # a
         /\ \E k \in {"addPosts", "dropPosts"} : Fetching(a, Read(k, Owner[p]), p)
    \/ Owner[p] = a /\ Follows(<<x, a>>) /\ Fetching(a, Read("followers", p), x)

Updating(a) ==
    /\ Mirrored({})
    /\ \A w \in Elems(queue[a]) : WriteRight(w)
    /\ \A b \in Elems(mainq[a]) : BlockRight(a, b)
    /\ \A r \in Reads : asked[a][r] > 0 => ReadRight(a, r)
    /\ \A x \in User, p \in Due(a) : Right(x, p) \/ Covered(a, x, p)

Alone(a) == \A x \in User \ {a} : Idle(x)

PatientInv ==
    \/ AllIdle /\ Mirrored({}) /\ ExactBut({})
    \/ \E a \in User : Alone(a) /\ (Chaining(a) \/ Updating(a))

\* What an idle device is.
LEMMA IdleIs ==
    ASSUME TypeOK, NEW u \in User
    PROVE  Idle(u) <=> queue[u] = << >> /\ mainq[u] = << >> /\ AskedNothing(u)
<1>1. DOMAIN asked[u] = Reads
  BY DEF TypeOK, AskedTyped
<1> QED
  BY <1>1 DEF Idle, AskedNothing

\* It does nothing by itself.
LEMMA IdleStuck ==
    ASSUME TypeOK, NEW u \in User, Idle(u)
    PROVE  ~Progress(u)
<1>1. queue[u] = << >> /\ mainq[u] = << >> /\ \A r \in Reads : ~(asked[u][r] > 0)
  <2>1. queue[u] = << >> /\ mainq[u] = << >> /\ \A r \in Reads : asked[u][r] = 0
    BY IdleIs DEF AskedNothing
  <2> QED
    BY <2>1
<1>2. ~Commit(u)
  BY <1>1 DEF Commit
<1>3. \A r \in Reads : ~Answer(u, r)
  BY <1>1 DEF Answer, Respond
<1>4. ~RunBlock(u)
  BY <1>1 DEF RunBlock, ServiceBlock, FollowAcked, CellCompletion, UploadCompletion,
         FeedAfterFollowing, ImageUploaded, FeedAfterPost, ProfileCompletion, RunningAlone, Running
<1> QED
  BY <1>2, <1>3, <1>4 DEF Progress

\* A step of u's device leaves the other devices alone.
LEMMA OtherDevices ==
    ASSUME TypeOK, TypeOK', NEW u \in User, Touched(u) \/ Progress(u)
    PROVE  Alone(u) => Alone(u)'
<1> SUFFICES ASSUME NEW x \in User \ {u}, Idle(x) PROVE Idle(x)'
  BY DEF Alone
<1>1. DOMAIN queue = User /\ DOMAIN mainq = User /\ DOMAIN asked = User
  BY DEF TypeOK, QueueTyped, MainqTyped, AskedTyped
<1>2. \A ws : WriteMutations(u, ws)[x] = queue[x]
  BY <1>1 DEF WriteMutations
<1>3. \A rs : Ask(u, rs)[x] = asked[x]
  BY <1>1 DEF Ask
<1>4. \A bs : RunFirst(u, bs)[x] = mainq[x]
  BY <1>1 DEF RunFirst
<1>5. queue'[x] = queue[x] /\ mainq'[x] = mainq[x] /\ asked'[x] = asked[x]
  <2>1. CASE Touched(u)
    BY <1>2, <1>3, <2>1 DEF Touched, CallFollow, ShareButtonPressed
  <2>2. CASE Commit(u)
    BY <1>1, <2>2 DEF Commit, NotifyUser
  <2>3. CASE \E r \in Reads : Answer(u, r)
    BY <1>1, <2>3 DEF Answer, Respond
  <2>4. CASE RunBlock(u)
    <3> DEFINE b == Head(mainq[u])
    <3>1. mainq' = RunFirst(u, << >>)
      BY <2>4 DEF RunBlock, ServiceBlock, FollowAcked, CellCompletion, UploadCompletion,
         FeedAfterFollowing, ImageUploaded, FeedAfterPost, ProfileCompletion, RunningAlone
    <3>2. queue' = queue \/ \E ws : queue' = WriteMutations(u, ws)
      BY <2>4 DEF RunBlock, ServiceBlock, FollowAcked, CellCompletion, UploadCompletion,
         FeedAfterFollowing, ImageUploaded, FeedAfterPost, ProfileCompletion
    <3>3. asked' = asked \/ \E rs : asked' = Ask(u, rs)
      BY <2>4 DEF RunBlock, ServiceBlock, FollowAcked, CellCompletion, UploadCompletion,
         FeedAfterFollowing, ImageUploaded, FeedAfterPost, ProfileCompletion
    <3> QED
      BY <1>2, <1>3, <1>4, <3>1, <3>2, <3>3
  <2> QED
    BY <2>1, <2>2, <2>3, <2>4 DEF Progress
<1> QED
  BY <1>5 DEF Idle

\* What a stored write leaves in the collections.
LEMMA DocsAfter ==
    ASSUME TypeOK, NEW u \in User, NEW w \in WritesOf(u), docs' = Apply(w)
    PROVE  /\ w.op = "set" => docs'[w.coll] = docs[w.coll] \union {w.key}
           /\ w.op # "set" => docs'[w.coll] = docs[w.coll] \ {w.key}
           /\ \A c \in Coll : c # w.coll => docs'[c] = docs[c]
           /\ {"following", "followers", "posts", "feed", "notifications"} \subseteq Coll
<1>1. w.coll \in Coll /\ DOMAIN docs = Coll
  BY WriteFields DEF TypeOK
<1> QED
  BY <1>1 DEF Apply, Coll

-----------------------------------------------------------------------------
(***************************************************************************)
(* The chain of a tap.                                                     *)
(***************************************************************************)

\* What a device that waits for one thing can do.
LEMMA ProgressIs ==
    ASSUME NEW a \in User, TypeOK, AskedNothing(a), Progress(a)
    PROVE  /\ mainq[a] = << >> => Commit(a)
           /\ queue[a] = << >> => RunBlock(a)
<1>1. \A r \in Reads : ~(asked[a][r] > 0)
  <2>1. \A r \in Reads : asked[a][r] = 0
    BY DEF AskedNothing
  <2> QED
    BY <2>1
<1>2. \A r \in Reads : ~Answer(a, r)
  BY <1>1 DEF Answer, Respond
<1>3. mainq[a] = << >> => ~RunBlock(a)
  BY DEF RunBlock, ServiceBlock, FollowAcked, CellCompletion, UploadCompletion,
         FeedAfterFollowing, ImageUploaded, FeedAfterPost, ProfileCompletion, RunningAlone, Running
<1>4. queue[a] = << >> => ~Commit(a)
  BY DEF Commit
<1> QED
  BY <1>2, <1>3, <1>4 DEF Progress

\* The only queued write is stored.
LEMMA CommitsOne ==
    ASSUME TypeOK, NEW a \in User, NEW w \in WritesOf(a), w.then # NoOne,
           queue[a] = <<w>>, mainq[a] = << >>, Commit(a)
    PROVE  /\ queue'[a] = << >> /\ mainq'[a] = <<Acked(w, TRUE)>>
           /\ asked' = asked /\ docs' = Apply(w)
<1>1. DOMAIN queue = User /\ DOMAIN mainq = User
  BY DEF TypeOK, QueueTyped, MainqTyped
<1>2. Head(queue[a]) = w /\ Tail(queue[a]) = << >>
  OBVIOUS
<1>3. /\ queue' = [queue EXCEPT ![a] = Tail(@)] /\ asked' = asked /\ docs' = Apply(w)
      /\ mainq' = [mainq EXCEPT ![a] = Append(@, Acked(w, TRUE))]
  BY <1>2 DEF Commit, NotifyUser
<1> DEFINE b == Acked(w, TRUE)
<1> HIDE DEF b
<1>4. Append(<< >>, b) = <<b>>
  OBVIOUS
<1>5. mainq' = [mainq EXCEPT ![a] = Append(@, b)]
  BY <1>3 DEF b
<1>6. mainq'[a] = <<b>>
  BY <1>1, <1>4, <1>5
<1> QED
  BY <1>1, <1>2, <1>3, <1>6 DEF b

\* The only block runs.
LEMMA RunsOne ==
    ASSUME TypeOK, NEW a \in User, NEW b, mainq[a] = <<b>>, mainq' = RunFirst(a, << >>)
    PROVE  mainq'[a] = << >> /\ Head(mainq[a]) = b
<1>1. DOMAIN mainq = User
  BY DEF TypeOK, MainqTyped
<1>2. Head(mainq[a]) = b /\ Tail(mainq[a]) = << >> /\ << >> \o << >> = << >>
  OBVIOUS
<1> QED
  BY <1>1, <1>2 DEF RunFirst

\* A device with nothing queued issues a write.
LEMMA IssuesOne ==
    ASSUME TypeOK, NEW a \in User, NEW w, queue[a] = << >>, queue' = WriteMutations(a, <<w>>)
    PROVE  queue'[a] = <<w>>
<1>1. DOMAIN queue = User
  BY DEF TypeOK, QueueTyped
<1>2. << >> \o <<w>> = <<w>>
  OBVIOUS
<1> QED
  BY <1>1, <1>2 DEF WriteMutations

\* The first write of the chain is stored.
LEMMA ChainBegun ==
    ASSUME TypeOK, NEW a \in User, NEW v \in User \ {a}, NEW op \in Ops, AskedNothing(a),
           Begun(a, v, op), Progress(a)
    PROVE  AskedNothing(a)' /\ FirstDone(a, v, op)'
<1> DEFINE w == FollowingWrite(a, v, op, "profile")
           e == <<a, v>>
<1>1. w \in WritesOf(a) /\ w.then # NoOne /\ w.coll = "following" /\ w.key = e /\ w.op = op
  BY FollowWriteTypes DEF FollowingWrite, Write, NoOne
<1>2. queue[a] = <<w>> /\ mainq[a] = << >>
  BY DEF Begun
<1>3. Commit(a)
  BY <1>2, ProgressIs
<1> HIDE DEF w
<1>4. /\ queue'[a] = << >> /\ mainq'[a] = <<Acked(w, TRUE)>> /\ asked' = asked /\ docs' = Apply(w)
  BY <1>1, <1>2, <1>3, CommitsOne
<1>5. /\ op = "set" => docs'["following"] = docs["following"] \union {e}
      /\ op # "set" => docs'["following"] = docs["following"] \ {e}
      /\ docs'["followers"] = docs["followers"] /\ docs'["posts"] = docs["posts"]
      /\ docs'["feed"] = docs["feed"]
  BY <1>1, <1>4, DocsAfter
<1> HIDE DEF e
<1>6. /\ Follows(e)' <=> op = "set"
      /\ \A f : f # e => (Follows(f)' <=> Follows(f)) /\ (IsFollower(f)' <=> IsFollower(f))
  BY <1>5 DEF Follows, IsFollower
<1>7. Mirrored({e})'
  BY <1>6 DEF Mirrored, Begun
<1>8. ExactBut({e})'
  <2> SUFFICES ASSUME NEW x \in User, NEW p \in docs["posts"], <<x, Owner[p]>> # e
               PROVE  Right(x, p)'
    BY <1>5 DEF ExactBut
  <2>1. Right(x, p)
    BY DEF Begun, ExactBut
  <2> QED
    BY <1>5, <1>6, <2>1 DEF Right
<1> QED
  BY <1>4, <1>6, <1>7, <1>8 DEF AskedNothing, FirstDone, w, e

\* Its ack issues the second write.
LEMMA ChainFirstDone ==
    ASSUME TypeOK, NEW a \in User, NEW v \in User \ {a}, NEW op \in Ops, AskedNothing(a),
           FirstDone(a, v, op), Progress(a)
    PROVE  AskedNothing(a)' /\ SecondBegun(a, v, op)'
<1> DEFINE w == FollowingWrite(a, v, op, "profile")
           b == Acked(w, TRUE)
           s == FollowersWrite(a, v, op, "profile")
<1>1. w.coll = "following" /\ w.key = <<a, v>> /\ w.op = op /\ w.then = "profile"
  BY DEF FollowingWrite, Write
<1>2. b.type = "ack" /\ b.w = w
  BY DEF Acked
<1>3. queue[a] = << >> /\ mainq[a] = <<b>>
  BY DEF FirstDone
<1>4. RunBlock(a)
  BY <1>3, ProgressIs
<1> HIDE DEF w, b, s
<1>5. Head(mainq[a]) = b
  BY <1>3
<1>6. FollowAcked(a, b)
  BY <1>1, <1>2, <1>4, <1>5 DEF RunBlock, ServiceBlock, FollowAcked, CellCompletion, UploadCompletion,
         FeedAfterFollowing, ImageUploaded, FeedAfterPost, ProfileCompletion
<1>7. /\ mainq' = RunFirst(a, << >>) /\ UNCHANGED <<docs, asked>>
      /\ queue' = WriteMutations(a, <<s>>)
  BY <1>1, <1>2, <1>6 DEF FollowAcked, RunningAlone, Running, graphVars, s
<1>8. queue'[a] = <<s>> /\ mainq'[a] = << >>
  BY <1>3, <1>7, RunsOne, IssuesOne
<1> QED
  BY <1>7, <1>8 DEF AskedNothing, FirstDone, SecondBegun, Mirrored, ExactBut, Right, Follows,
                   IsFollower, s

\* The second write is stored: the halves agree.
LEMMA ChainSecondBegun ==
    ASSUME TypeOK, NEW a \in User, NEW v \in User \ {a}, NEW op \in Ops, AskedNothing(a),
           SecondBegun(a, v, op), Progress(a)
    PROVE  AskedNothing(a)' /\ SecondDone(a, v, op)'
<1> DEFINE w == FollowersWrite(a, v, op, "profile")
           e == <<a, v>>
<1>1. w \in WritesOf(a) /\ w.then # NoOne /\ w.coll = "followers" /\ w.key = e /\ w.op = op
  BY FollowWriteTypes DEF FollowersWrite, Write, NoOne
<1>2. queue[a] = <<w>> /\ mainq[a] = << >>
  BY DEF SecondBegun
<1>3. Commit(a)
  BY <1>2, ProgressIs
<1> HIDE DEF w
<1>4. /\ queue'[a] = << >> /\ mainq'[a] = <<Acked(w, TRUE)>> /\ asked' = asked /\ docs' = Apply(w)
  BY <1>1, <1>2, <1>3, CommitsOne
<1>5. /\ op = "set" => docs'["followers"] = docs["followers"] \union {e}
      /\ op # "set" => docs'["followers"] = docs["followers"] \ {e}
      /\ docs'["following"] = docs["following"] /\ docs'["posts"] = docs["posts"]
      /\ docs'["feed"] = docs["feed"]
  BY <1>1, <1>4, DocsAfter
<1>6. /\ Mirrored({e}) /\ ExactBut({e}) /\ (Follows(e) <=> op = "set")
  BY DEF SecondBegun
<1> HIDE DEF e
<1>7. /\ \A f : Follows(f)' <=> Follows(f)
      /\ IsFollower(e)' <=> op = "set"
      /\ \A f : f # e => (IsFollower(f)' <=> IsFollower(f))
  BY <1>5 DEF Follows, IsFollower
<1>8. Mirrored({})'
  BY <1>6, <1>7 DEF Mirrored
<1>9. ExactBut({e})'
  BY <1>5, <1>6, <1>7 DEF ExactBut, Right
<1> QED
  BY <1>4, <1>6, <1>7, <1>8, <1>9 DEF AskedNothing, SecondDone, w, e

-----------------------------------------------------------------------------
(***************************************************************************)
(* The update of the feeds.                                                *)
(***************************************************************************)

\* A step that stores nothing keeps an update an update, if what it issues,
\* asks and posts is right, and what was covered, or is now due, is covered.
LEMMA UpdatingKept ==
    ASSUME NEW a \in User, Updating(a), UNCHANGED docs, NEW W,
           Elems(queue'[a]) = Elems(queue[a]) \union W,
           \A w \in W : WriteRight(w),
           \A b \in Elems(mainq'[a]) : b \in Elems(mainq[a]) \/ BlockRight(a, b),
           \A r \in Reads : asked'[a][r] > 0 => asked[a][r] > 0 \/ ReadRight(a, r),
           \A x \in User, p \in Due(a) : Covered(a, x, p) => Covered(a, x, p)',
           \A w \in W : w.coll = "posts" =>
                \A x \in User : Right(x, w.key) \/ Covered(a, x, w.key)'
    PROVE  Updating(a)'
<1>1. /\ Mirrored({})'
      /\ \A w : WriteRight(w) => WriteRight(w)'
      /\ \A r : ReadRight(a, r) => ReadRight(a, r)'
      /\ \A x, p : Right(x, p) => Right(x, p)'
  BY DEF Updating, Mirrored, WriteRight, ReadRight, Right, Follows, IsFollower
<1>2. \A b : BlockRight(a, b) => BlockRight(a, b)'
  BY DEF BlockRight, ReadRight, Follows
<1>3. \A w \in Elems(queue'[a]) : WriteRight(w)'
  BY <1>1 DEF Updating
<1>4. \A b \in Elems(mainq'[a]) : BlockRight(a, b)'
  BY <1>2 DEF Updating
<1>5. \A r \in Reads : asked'[a][r] > 0 => ReadRight(a, r)'
  BY <1>1 DEF Updating
<1>6. ASSUME NEW x \in User, NEW p \in Due(a)' PROVE Right(x, p)' \/ Covered(a, x, p)'
  <2>1. p \in Due(a) \/ \E w \in W : w.coll = "posts" /\ w.key = p
    BY <1>6 DEF Due
  <2>2. CASE p \in Due(a)
    BY <1>1, <2>2 DEF Updating
  <2>3. CASE \E w \in W : w.coll = "posts" /\ w.key = p
    BY <1>1, <2>3
  <2> QED
    BY <2>1, <2>2, <2>3
<1> QED
  BY <1>1, <1>3, <1>4, <1>5, <1>6 DEF Updating

\* A feed document stays covered if the queue grows, and the reads that cover it
\* are still fetching it or have led to its write.
LEMMA CoveredKept ==
    ASSUME NEW a, NEW x, NEW p, UNCHANGED docs, Elems(queue[a]) \subseteq Elems(queue'[a]),
           \A k \in {"addPosts", "dropPosts"} :
             x = a /\ Owner[p] # a /\ Fetching(a, Read(k, Owner[p]), p) =>
                \/ Fetching(a, Read(k, Owner[p]), p)'
                \/ \E w \in Elems(queue'[a]) : w.coll = "feed" /\ w.key = <<x, p>>,
           Owner[p] = a /\ Follows(<<x, a>>) /\ Fetching(a, Read("followers", p), x) =>
                \/ Fetching(a, Read("followers", p), x)'
                \/ \E w \in Elems(queue'[a]) : w.coll = "feed" /\ w.key = <<x, p>>,
           Covered(a, x, p)
    PROVE  Covered(a, x, p)'
<1>1. Follows(<<x, a>>)' <=> Follows(<<x, a>>)
  BY DEF Follows
<1> DEFINE F(k) == Fetching(a, Read(k, Owner[p]), p)
           G == Fetching(a, Read("followers", p), x)
           Q == \E w \in Elems(queue'[a]) : w.coll = "feed" /\ w.key = <<x, p>>
<1>2. \/ Q
      \/ x = a /\ Owner[p] # a /\ \E k \in {"addPosts", "dropPosts"} : F(k)
      \/ Owner[p] = a /\ Follows(<<x, a>>) /\ G
  BY DEF Covered
<1>3. CASE Q
  BY <1>3 DEF Covered
<1>4. CASE x = a /\ Owner[p] # a /\ \E k \in {"addPosts", "dropPosts"} : F(k)
  <2>1. Q \/ \E k \in {"addPosts", "dropPosts"} : Fetching(a, Read(k, Owner[p]), p)'
    BY <1>4
  <2> QED
    BY <1>3, <1>4, <2>1 DEF Covered
<1>5. CASE Owner[p] = a /\ Follows(<<x, a>>) /\ G
  <2>1. Q \/ Fetching(a, Read("followers", p), x)'
    BY <1>5
  <2> QED
    BY <1>1, <1>3, <1>5, <2>1 DEF Covered
<1> QED
  BY <1>2, <1>3, <1>4, <1>5

\* A read goes on fetching while its answer is not run.
LEMMA FetchingKept ==
    ASSUME NEW a, NEW r, NEW x,
           asked[a][r] > 0 => asked'[a][r] > 0,
           \A b \in Elems(mainq[a]) : b.type = "answer" /\ b.r = r => b \in Elems(mainq'[a]),
           Fetching(a, r, x)
    PROVE  Fetching(a, r, x)'
BY DEF Fetching

\* The queue after the writes ws.
LEMMA IssuesMany ==
    ASSUME TypeOK, NEW a \in User, NEW ws \in Seq(WritesOf(a)), queue' = WriteMutations(a, ws)
    PROVE  Elems(queue'[a]) = Elems(queue[a]) \union Elems(ws)
<1>1. DOMAIN queue = User /\ queue[a] \in Seq(WritesOf(a))
  BY DEF TypeOK, QueueTyped
<1>2. queue'[a] = queue[a] \o ws
  BY <1>1 DEF WriteMutations
<1> QED
  BY <1>1, <1>2, ElemsConcat

\* A query of the update is answered with all it will be asked to cover.
LEMMA UpdatingAnswer ==
    ASSUME TypeOK, NEW a \in User, Updating(a), NEW r \in Reads, Answer(a, r)
    PROVE  Updating(a)'
<1> DEFINE b == Answered(r, Found(r))
<1>1. /\ UNCHANGED <<queue, docs>> /\ asked[a][r] > 0
      /\ asked' = [asked EXCEPT ![a][r] = @ - 1]
      /\ mainq' = [mainq EXCEPT ![a] = Append(@, b)]
  BY DEF Answer, Respond, graphVars
<1>2. /\ DOMAIN mainq = User /\ mainq[a] \in Seq(BlocksOf(a)) /\ asked \in [User -> [Reads -> Nat]]
      /\ r \in ShareReads => Owner[r.of] = a
      /\ docs["posts"] \subseteq Post /\ docs["following"] \subseteq Pair
      /\ docs["followers"] \subseteq Pair
  BY <1>1 DEF TypeOK, MainqTyped, AskedTyped, Coll, Key
<1>3. /\ r.kind \in {"addPosts", "dropPosts"} => r \in FeedReads /\ r = Read(r.kind, r.of)
      /\ r.kind \notin {"addPosts", "dropPosts"} => r \in ShareReads /\ Owner[r.of] = a
      /\ r.kind = "followers" => r = Read("followers", r.of)
  BY <1>2 DEF Reads, FeedReads, ShareReads, Read
<1>4. b.type = "answer" /\ b.r = r /\ b.docs = Found(r)
  BY DEF Answered
<1>5. b \in BlocksOf(a)
  <2>1. /\ r \in FeedReads => Found(r) \subseteq Post
        /\ r \in ShareReads => Found(r) \subseteq User
    BY <1>2 DEF Found, FeedReads, ShareReads
  <2> QED
    BY <1>2, <2>1 DEF Answered, BlocksOf, Reads
<1> HIDE DEF b
<1>6. Elems(mainq'[a]) = Elems(mainq[a]) \union {b}
  <2> DEFINE B == BlocksOf(a)
  <2>1. mainq[a] \in Seq(B) /\ b \in B
    BY <1>2, <1>5
  <2> HIDE DEF B
  <2> QED
    BY <1>1, <1>2, <2>1, DevicePosts, ZenonT(40)
<1>7. \A s \in Reads : asked'[a][s] > 0 => asked[a][s] > 0
  BY <1>1, <1>2, DeviceAsks
<1>8. \A s \in Reads : s # r /\ asked[a][s] > 0 => asked'[a][s] > 0
  BY <1>1, <1>2, DeviceAsks
<1>9. /\ ReadRight(a, r) /\ \A e \in Pair : Follows(e) <=> IsFollower(e)
  BY <1>1 DEF Updating, Mirrored
<1>10. BlockRight(a, b)
  <2>1. r.kind = "followers" => \A x \in Found(r) : Follows(<<x, a>>)
    BY <1>2, <1>3, <1>9 DEF Found, IsFollower
  <2>2. r.kind \in {"addPosts", "dropPosts"} => \A p \in Found(r) : Owner[p] = r.of
    BY DEF Found
  <2> QED
    BY <1>4, <1>9, <2>1, <2>2 DEF BlockRight
<1>11. ASSUME NEW x \in User, NEW p \in Due(a), Covered(a, x, p) PROVE Covered(a, x, p)'
  <2>1. p \in Post /\ (Owner[p] # a => p \in docs["posts"])
    <3>1. \A w \in Elems(queue[a]) : w \in WritesOf(a)
      BY DEF TypeOK, QueueTyped, Elems
    <3>2. \A w \in Elems(queue[a]) : w.coll = "posts" => w.key \in Post /\ Owner[w.key] = a
      BY <3>1, WriteFields
    <3> QED
      BY <1>2, <3>2 DEF Due
  <2>2. ASSUME NEW s \in Reads, NEW y, Fetching(a, s, y), s = r => y \in Found(r)
        PROVE  Fetching(a, s, y)'
    <3>1. CASE s # r
      <4>1. asked[a][s] > 0 => asked'[a][s] > 0
        BY <1>8, <3>1
      <4> QED
        BY <1>6, <2>2, <4>1, FetchingKept
    <3>2. CASE s = r
      BY <1>4, <1>6, <2>2, <3>2 DEF Fetching
    <3> QED
      BY <3>1, <3>2
  <2>3. /\ \A k \in {"addPosts", "dropPosts"} : Read(k, Owner[p]) \in Reads
        /\ Read("followers", p) \in Reads
    BY <2>1, OwnerAssumption DEF Read, Reads, FeedReads, ShareReads
  <2>4. ASSUME NEW k \in {"addPosts", "dropPosts"}, Owner[p] # a
        PROVE  Read(k, Owner[p]) = r => p \in Found(r)
    BY <2>1, <2>4 DEF Read, Found
  <2>5. ASSUME Owner[p] = a, Follows(<<x, a>>)
        PROVE  Read("followers", p) = r => x \in Found(r)
    <3>1. <<x, a>> \in docs["followers"]
      BY <1>2, <1>9, <2>5 DEF Follows, IsFollower
    <3> QED
      BY <2>5, <3>1 DEF Read, Found
  <2>6. \A k \in {"addPosts", "dropPosts"} :
           Owner[p] # a /\ Fetching(a, Read(k, Owner[p]), p) => Fetching(a, Read(k, Owner[p]), p)'
    BY <2>2, <2>3, <2>4
  <2>7. Owner[p] = a /\ Follows(<<x, a>>) /\ Fetching(a, Read("followers", p), x) =>
           Fetching(a, Read("followers", p), x)'
    BY <2>2, <2>3, <2>5
  <2> QED
    BY <1>1, <1>11, <2>6, <2>7, CoveredKept
<1> QED
  <2> DEFINE W == {}
  <2>1. Elems(queue'[a]) = Elems(queue[a]) \union W
    BY <1>1
  <2>2. /\ \A w \in W : WriteRight(w)
        /\ \A w \in W : w.coll = "posts" =>
                \A x \in User : Right(x, w.key) \/ Covered(a, x, w.key)'
    OBVIOUS
  <2>3. \A c \in Elems(mainq'[a]) : c \in Elems(mainq[a]) \/ BlockRight(a, c)
    BY <1>6, <1>10
  <2>4. \A s \in Reads : asked'[a][s] > 0 => asked[a][s] > 0 \/ ReadRight(a, s)
    BY <1>7
  <2>5. UNCHANGED docs
    BY <1>1
  <2> HIDE DEF W
  <2> QED
    BY <1>11, <2>1, <2>2, <2>3, <2>4, <2>5, UpdatingKept

\* A write of the update is stored.
LEMMA UpdatingCommit ==
    ASSUME TypeOK, NEW a \in User, Updating(a), Commit(a)
    PROVE  Updating(a)'
<1> DEFINE w == Head(queue[a])
           b == Acked(w, TRUE)
<1>1. /\ queue[a] # << >> /\ queue' = [queue EXCEPT ![a] = Tail(@)] /\ asked' = asked
      /\ docs' = Apply(w)
      /\ mainq' = IF w.then = NoOne THEN mainq ELSE [mainq EXCEPT ![a] = Append(@, b)]
  BY DEF Commit, NotifyUser
<1>2. /\ DOMAIN queue = User /\ queue[a] \in Seq(WritesOf(a))
      /\ DOMAIN mainq = User /\ mainq[a] \in Seq(BlocksOf(a))
  BY DEF TypeOK, QueueTyped, MainqTyped
<1>3. w \in WritesOf(a) /\ Elems(queue[a]) = {w} \union Elems(queue'[a])
  <2> DEFINE W == WritesOf(a)
  <2>1. queue[a] \in Seq(W)
    BY <1>2
  <2> HIDE DEF W
  <2>2. w \in W /\ Elems(queue[a]) = {w} \union Elems(queue'[a])
    BY <1>1, <1>2, <2>1, DeviceDecides
  <2> QED
    BY <2>2 DEF W
<1>4. w.then # NoOne => b \in BlocksOf(a)
  BY <1>3 DEF Acked, BlocksOf
<1>5. b.type = "ack" /\ b.w = w
  BY DEF Acked
<1> HIDE DEF w, b
<1>6. WriteRight(w) /\ w.coll \in {"posts", "feed", "notifications"}
      /\ (w.then # NoOne => w.coll = "posts")
  <2>1. WriteRight(w)
    BY <1>3 DEF Updating
  <2>2. w.coll \in Coll /\ (w.coll \in {"notifications", "feed"} => w.then = NoOne)
    BY <1>3 DEF WritesOf
  <2> QED
    BY <2>1, <2>2 DEF WriteRight, Coll
<1>7. \/ Elems(mainq'[a]) = Elems(mainq[a])
      \/ w.then # NoOne /\ Elems(mainq'[a]) = Elems(mainq[a]) \union {b}
  <2>1. CASE w.then = NoOne
    BY <1>1, <2>1
  <2>2. CASE w.then # NoOne
    <3> DEFINE B == BlocksOf(a)
    <3>1. mainq[a] \in Seq(B) /\ b \in B
      BY <1>2, <1>4, <2>2
    <3> HIDE DEF B
    <3> QED
      BY <1>1, <1>2, <2>2, <3>1, DevicePosts
  <2> QED
    BY <2>1, <2>2
<1>8. /\ docs'["following"] = docs["following"] /\ docs'["followers"] = docs["followers"]
      /\ w.coll = "posts" => /\ docs'["posts"] = docs["posts"] \union {w.key}
                             /\ docs'["feed"] = docs["feed"]
      /\ w.coll = "feed" => /\ docs'["posts"] = docs["posts"]
                            /\ w.op = "set" => docs'["feed"] = docs["feed"] \union {w.key}
                            /\ w.op # "set" => docs'["feed"] = docs["feed"] \ {w.key}
      /\ w.coll = "notifications" => docs'["posts"] = docs["posts"] /\ docs'["feed"] = docs["feed"]
  <2>1. w.coll = "posts" => w.op = "set"
    BY <1>3, WriteFields
  <2> QED
    BY <1>1, <1>3, <1>6, <2>1, DocsAfter
<1>9. /\ \A e : (Follows(e)' <=> Follows(e)) /\ (IsFollower(e)' <=> IsFollower(e))
  BY <1>8 DEF Follows, IsFollower
<1>10. /\ Mirrored({})'
       /\ \A x : WriteRight(x) => WriteRight(x)'
       /\ \A r : ReadRight(a, r) => ReadRight(a, r)'
  BY <1>9 DEF Updating, Mirrored, WriteRight, ReadRight
<1>11. \A x : BlockRight(a, x) => BlockRight(a, x)'
  BY <1>9 DEF BlockRight, ReadRight
<1>12. \A x \in Elems(queue'[a]) : WriteRight(x)'
  BY <1>3, <1>10 DEF Updating
<1>13. \A x \in Elems(mainq'[a]) : BlockRight(a, x)'
  <2>1. w.then # NoOne => BlockRight(a, b)
    BY <1>5, <1>6 DEF BlockRight
  <2> QED
    BY <1>7, <1>11, <2>1 DEF Updating
<1>14. \A r \in Reads : asked'[a][r] > 0 => ReadRight(a, r)'
  BY <1>1, <1>10 DEF Updating
<1>15. ASSUME NEW x \in User, NEW p \in Due(a)' PROVE Right(x, p)' \/ Covered(a, x, p)'
  <2>1. p \in Due(a)
    BY <1>3, <1>6, <1>8, <1>15 DEF Due
  <2>2. CASE w.coll = "feed" /\ w.key = <<x, p>>
    <3>1. w.op = "set" <=> Follows(<<x, Owner[p]>>)
      BY <1>6, <2>2 DEF WriteRight
    <3>2. w.op = "set" <=> <<x, p>> \in docs'["feed"]
      BY <1>8, <2>2
    <3> QED
      BY <1>9, <3>1, <3>2 DEF Right
  <2>3. CASE ~(w.coll = "feed" /\ w.key = <<x, p>>)
    <3>1. Right(x, p) => Right(x, p)'
      BY <1>6, <1>8, <1>9, <2>3 DEF Right
    <3>2. \A r, y : Fetching(a, r, y) => Fetching(a, r, y)'
      BY <1>1, <1>7 DEF Fetching
    <3>3. Covered(a, x, p) => Covered(a, x, p)'
      BY <1>3, <1>9, <2>3, <3>2 DEF Covered
    <3>4. Right(x, p) \/ Covered(a, x, p)
      BY <2>1 DEF Updating
    <3> QED
      BY <3>1, <3>3, <3>4
  <2> QED
    BY <2>2, <2>3
<1> QED
  BY <1>10, <1>12, <1>13, <1>14, <1>15 DEF Updating

\* A block of the update runs: it issues the writes W, among them that of each
\* feed document it was to cover.
LEMMA UpdatingRuns ==
    ASSUME TypeOK, NEW a \in User, Updating(a), mainq[a] # << >>, mainq' = RunFirst(a, << >>),
           UNCHANGED docs, NEW b, b = Head(mainq[a]),
           NEW W, Elems(queue'[a]) = Elems(queue[a]) \union W,
           \A w \in W : WriteRight(w),
           \A r \in Reads : /\ asked[a][r] > 0 => asked'[a][r] > 0
                            /\ asked'[a][r] > 0 => asked[a][r] > 0 \/ ReadRight(a, r),
           b.type = "answer" /\ b.r.kind \in {"addPosts", "dropPosts"} =>
                \A p \in b.docs : \E w \in W : w.coll = "feed" /\ w.key = <<a, p>>,
           b.type = "answer" /\ b.r.kind = "followers" =>
                \A x \in b.docs : \E w \in W : w.coll = "feed" /\ w.key = <<x, b.r.of>>,
           \A w \in W : w.coll = "posts" =>
                w.key \in Due(a) \/ \A x \in User : Right(x, w.key) \/ Covered(a, x, w.key)'
    PROVE  Updating(a)'
<1>1. Elems(mainq[a]) = {b} \union Elems(mainq'[a])
  <2> DEFINE B == BlocksOf(a)
  <2>1. mainq[a] \in Seq(B) /\ DOMAIN mainq = User
    BY DEF TypeOK, MainqTyped
  <2> HIDE DEF B
  <2>2. << >> \in Seq(B) /\ Elems(<< >>) = {}
    BY DEF Elems
  <2>3. /\ Elems(mainq[a]) = {b} \union Elems(Tail(mainq[a]))
        /\ Elems(mainq'[a]) = Elems(Tail(mainq[a])) \union Elems(<< >>)
    BY <2>1, <2>2, DeviceRuns
  <2> QED
    BY <2>2, <2>3
<1>2. ASSUME NEW s \in Reads, NEW y, Fetching(a, s, y)
      PROVE  Fetching(a, s, y)' \/ (b.type = "answer" /\ b.r = s /\ y \in b.docs)
  BY <1>1, <1>2 DEF Fetching
<1>3. ASSUME NEW x \in User, NEW p \in Due(a), Covered(a, x, p) PROVE Covered(a, x, p)'
  <2>1. p \in Post
    <3>1. \A w \in Elems(queue[a]) : w \in WritesOf(a)
      BY DEF TypeOK, QueueTyped, Elems
    <3>2. \A w \in Elems(queue[a]) : w.coll = "posts" => w.key \in Post
      BY <3>1, WriteFields
    <3>3. docs["posts"] \subseteq Post
      BY DEF TypeOK, Coll, Key
    <3> QED
      BY <3>2, <3>3 DEF Due
  <2>2. /\ \A k \in {"addPosts", "dropPosts"} : Read(k, Owner[p]) \in Reads
        /\ Read("followers", p) \in Reads
    BY <2>1, OwnerAssumption DEF Read, Reads, FeedReads, ShareReads
  <2>3. ASSUME NEW k \in {"addPosts", "dropPosts"}, x = a, Fetching(a, Read(k, Owner[p]), p)
        PROVE  \/ Fetching(a, Read(k, Owner[p]), p)'
               \/ \E w \in Elems(queue'[a]) : w.coll = "feed" /\ w.key = <<x, p>>
    <3>1. Read(k, Owner[p]).kind = k
      BY DEF Read
    <3>2. CASE b.type = "answer" /\ b.r = Read(k, Owner[p]) /\ p \in b.docs
      <4>1. b.r.kind \in {"addPosts", "dropPosts"}
        BY <3>1, <3>2
      <4>2. \E w \in W : w.coll = "feed" /\ w.key = <<a, p>>
        BY <3>2, <4>1
      <4> QED
        BY <2>3, <4>2
    <3> QED
      BY <1>2, <2>2, <2>3, <3>2
  <2>4. ASSUME Fetching(a, Read("followers", p), x)
        PROVE  \/ Fetching(a, Read("followers", p), x)'
               \/ \E w \in Elems(queue'[a]) : w.coll = "feed" /\ w.key = <<x, p>>
    <3>1. Read("followers", p).kind = "followers" /\ Read("followers", p).of = p
      BY DEF Read
    <3>2. CASE b.type = "answer" /\ b.r = Read("followers", p) /\ x \in b.docs
      <4>1. b.r.kind = "followers" /\ b.r.of = p
        BY <3>1, <3>2
      <4>2. \E w \in W : w.coll = "feed" /\ w.key = <<x, p>>
        BY <3>2, <4>1
      <4> QED
        BY <4>2
    <3> QED
      BY <1>2, <2>2, <2>4, <3>2
  <2> QED
    BY <1>3, <2>3, <2>4, CoveredKept
<1>4. \A w \in W : w.coll = "posts" =>
          \A x \in User : Right(x, w.key) \/ Covered(a, x, w.key)'
  BY <1>3 DEF Updating
<1>5. \A c \in Elems(mainq'[a]) : c \in Elems(mainq[a]) \/ BlockRight(a, c)
  BY <1>1
<1> QED
  BY <1>3, <1>4, <1>5, UpdatingKept

\* The elements of an ordering are those of its set.
LEMMA OrderingElems ==
    ASSUME NEW S, NEW s \in Orderings(S)
    PROVE  \A x \in S : \E i \in DOMAIN s : s[i] = x
BY DEF Orderings

\* The posts of the user followed or unfollowed are copied to, or removed from,
\* the feed.
LEMMA UpdatingAfterFollowing ==
    ASSUME TypeOK, NEW a \in User, Updating(a), NEW b, b = Head(mainq[a]),
           FeedAfterFollowing(a, b)
    PROVE  Updating(a)'
<1>1. /\ mainq[a] # << >> /\ mainq' = RunFirst(a, << >>) /\ UNCHANGED <<docs, asked>>
      /\ b.type = "answer" /\ b.r.kind \in {"addPosts", "dropPosts"}
  BY DEF FeedAfterFollowing, RunningAlone, Running, graphVars
<1>2. b \in BlocksOf(a) /\ b \in Elems(mainq[a])
  <2>1. mainq[a] \in Seq(BlocksOf(a))
    BY DEF TypeOK, MainqTyped
  <2> QED
    BY <1>1, <2>1, ElemsTail
<1>3. /\ ReadRight(a, b.r) /\ \A p \in b.docs : Owner[p] = b.r.of
  BY <1>1, <1>2 DEF Updating, BlockRight
<1>4. b.docs \subseteq Post /\ IsFiniteSet(b.docs)
  BY <1>1, <1>2, BlockFields, FiniteAssumption, FS_Subset DEF ShareReads
<1> DEFINE op == OpFor(b.r.kind = "addPosts")
<1>5. PICK ps \in Orderings(b.docs) :
          queue' = WriteMutations(a, [i \in DOMAIN ps |-> FeedWrite(a, ps[i], op)])
  BY DEF FeedAfterFollowing
<1> DEFINE ws == [i \in DOMAIN ps |-> FeedWrite(a, ps[i], op)]
           W == Elems(ws)
<1>6. op \in Ops /\ (op = "set" <=> b.r.kind = "addPosts")
  BY DEF OpFor, Ops
<1> HIDE DEF op
<1>7. \A i \in DOMAIN ps : ps[i] \in b.docs /\ FeedWrite(a, ps[i], op) \in WritesOf(a)
  BY <1>4, <1>6, OrderingsType, PostWriteTypes
<1>8. ws \in Seq(WritesOf(a))
  BY <1>4, <1>7, OrderingsType
<1>9. Elems(queue'[a]) = Elems(queue[a]) \union W
  BY <1>5, <1>8, IssuesMany
<1>10. ASSUME NEW w \in W PROVE WriteRight(w) /\ w.coll # "posts"
  <2>1. PICK p \in b.docs : w = FeedWrite(a, p, op)
    BY <1>7, <1>10 DEF Elems
  <2>2. w.coll = "feed" /\ w.op = op /\ w.key = <<a, p>>
    BY <2>1 DEF FeedWrite, Write
  <2>3. b.r.kind = "addPosts" <=> Follows(<<a, Owner[p]>>)
    BY <1>1, <1>3 DEF ReadRight
  <2> QED
    BY <1>6, <2>2, <2>3 DEF WriteRight
<1>11. ASSUME NEW p \in b.docs PROVE \E w \in W : w.coll = "feed" /\ w.key = <<a, p>>
  <2>1. PICK i \in DOMAIN ps : ps[i] = p
    BY <1>4, OrderingElems
  <2>2. FeedWrite(a, p, op) \in W
    BY <2>1 DEF Elems
  <2> QED
    BY <2>2 DEF FeedWrite, Write
<1>12. \A r \in Reads : asked'[a][r] = asked[a][r]
  BY <1>1
<1> HIDE DEF ws, W
<1> QED
  BY <1>1, <1>9, <1>10, <1>11, <1>12, UpdatingRuns, ZenonT(40)

\* A post is copied to the feeds of its owner's followers.
LEMMA UpdatingAfterPost ==
    ASSUME TypeOK, NEW a \in User, Updating(a), NEW b, b = Head(mainq[a]), FeedAfterPost(a, b)
    PROVE  Updating(a)'
<1>1. /\ mainq[a] # << >> /\ mainq' = RunFirst(a, << >>) /\ UNCHANGED <<docs, asked>>
      /\ b.type = "answer" /\ b.r.kind = "followers"
  BY DEF FeedAfterPost, RunningAlone, Running, graphVars
<1>2. b \in BlocksOf(a) /\ b \in Elems(mainq[a])
  <2>1. mainq[a] \in Seq(BlocksOf(a))
    BY DEF TypeOK, MainqTyped
  <2> QED
    BY <1>1, <2>1, ElemsTail
<1>3. \A x \in b.docs : Follows(<<x, a>>)
  BY <1>1, <1>2 DEF Updating, BlockRight
<1> DEFINE p == b.r.of
<1>4. b.docs \subseteq User /\ p \in Post /\ Owner[p] = a /\ IsFiniteSet(b.docs)
  BY <1>1, <1>2, BlockFields, FiniteAssumption, FS_Subset DEF ShareReads, FeedReads
<1>5. PICK vs \in Orderings(b.docs) :
          queue' = WriteMutations(a, [i \in DOMAIN vs |-> FeedWrite(vs[i], p, "set")])
  BY DEF FeedAfterPost
<1> DEFINE ws == [i \in DOMAIN vs |-> FeedWrite(vs[i], p, "set")]
           W == Elems(ws)
<1>7. \A i \in DOMAIN vs : vs[i] \in b.docs /\ FeedWrite(vs[i], p, "set") \in WritesOf(a)
  BY <1>4, OrderingsType, PostWriteTypes DEF Ops
<1>8. ws \in Seq(WritesOf(a))
  BY <1>4, <1>7, OrderingsType
<1>9. Elems(queue'[a]) = Elems(queue[a]) \union W
  BY <1>5, <1>8, IssuesMany
<1>10. ASSUME NEW w \in W PROVE WriteRight(w) /\ w.coll # "posts"
  <2>1. PICK x \in b.docs : w = FeedWrite(x, p, "set")
    BY <1>7, <1>10 DEF Elems
  <2>2. w.coll = "feed" /\ w.op = "set" /\ w.key = <<x, p>>
    BY <2>1 DEF FeedWrite, Write
  <2>3. Follows(<<x, Owner[p]>>)
    BY <1>3, <1>4
  <2> QED
    BY <2>2, <2>3 DEF WriteRight
<1>11. ASSUME NEW x \in b.docs PROVE \E w \in W : w.coll = "feed" /\ w.key = <<x, p>>
  <2>1. PICK i \in DOMAIN vs : vs[i] = x
    BY <1>4, OrderingElems
  <2>2. FeedWrite(x, p, "set") \in W
    BY <2>1 DEF Elems
  <2> QED
    BY <2>2 DEF FeedWrite, Write
<1>12. \A r \in Reads : asked'[a][r] = asked[a][r]
  BY <1>1
<1> HIDE DEF ws, W
<1> QED
  BY <1>1, <1>9, <1>10, <1>11, <1>12, UpdatingRuns

\* One read is asked for.
LEMMA AsksOne ==
    ASSUME NEW a \in User, asked \in [User -> [Reads -> Nat]], NEW f
    PROVE  \A r \in Reads : Ask(a, {f})[a][r] = IF r \in {f} THEN asked[a][r] + 1 ELSE asked[a][r]
BY DEF Ask

\* The image is stored: the post is queued and its fan-out asked for.  No feed
\* names the post yet.
LEMMA UpdatingImage ==
    ASSUME TypeOK, NoDanglingFeed, refused = {}, NEW a \in User, Updating(a),
           NEW b, b = Head(mainq[a]), ImageUploaded(a, b)
    PROVE  Updating(a)'
<1> DEFINE p == b.r.of
           f == Read("followers", p)
           w == PostWrite(p)
           W == {w}
<1>1. /\ mainq[a] # << >> /\ mainq' = RunFirst(a, << >>) /\ UNCHANGED docs
      /\ b.type = "answer" /\ b.r.kind = "image"
      /\ queue' = WriteMutations(a, <<w>>) /\ asked' = Ask(a, {f})
  BY DEF ImageUploaded, RunningAlone, Running, graphVars
<1>2. b \in BlocksOf(a)
  <2>1. mainq[a] \in Seq(BlocksOf(a))
    BY DEF TypeOK, MainqTyped
  <2> QED
    BY <1>1, <2>1, ElemsTail
<1>3. p \in Post /\ Owner[p] = a
  BY <1>1, <1>2, BlockFields DEF ShareReads, FeedReads
<1>4. /\ w \in WritesOf(a) /\ w.coll = "posts" /\ w.key = p
      /\ f \in Reads /\ f.kind = "followers"
  BY <1>3, PostWriteTypes, FollowersReads DEF Ops, PostWrite, Write, Read
<1>5. WriteRight(w) /\ ReadRight(a, f)
  BY <1>4 DEF WriteRight, ReadRight
<1> HIDE DEF p, f, w
<1>6. Elems(queue'[a]) = Elems(queue[a]) \union {w}
  <2> DEFINE X == WritesOf(a)
  <2>1. DOMAIN queue = User /\ queue[a] \in Seq(X) /\ w \in X
    BY <1>4 DEF TypeOK, QueueTyped
  <2> HIDE DEF X
  <2> QED
    BY <1>1, <2>1, DeviceIssues, ZenonT(40)
<1>7. /\ \A r \in Reads : asked'[a][r] = IF r \in {f} THEN asked[a][r] + 1 ELSE asked[a][r]
      /\ \A r \in Reads : asked[a][r] \in Nat
  <2>1. asked \in [User -> [Reads -> Nat]]
    BY DEF TypeOK, AskedTyped
  <2>2. \A r \in Reads : Ask(a, {f})[a][r] = IF r \in {f} THEN asked[a][r] + 1 ELSE asked[a][r]
    BY <2>1, AsksOne, ZenonT(40)
  <2> QED
    BY <1>1, <2>1, <2>2
<1>8. \A r \in Reads : /\ asked[a][r] > 0 => asked'[a][r] > 0
                       /\ asked'[a][r] > 0 => asked[a][r] > 0 \/ r = f
  BY <1>7
<1>9. asked'[a][f] > 0
  BY <1>4, <1>7
<1>10. ASSUME NEW x \in User, p \notin Due(a) PROVE Right(x, p) \/ Covered(a, x, p)'
  <2>1. CASE Follows(<<x, a>>)
    <3>1. Follows(<<x, a>>)' /\ Fetching(a, Read("followers", p), x)'
      BY <1>1, <1>9, <2>1 DEF Follows, Fetching, f
    <3> QED
      BY <1>3, <3>1 DEF Covered
  <2>2. CASE ~Follows(<<x, a>>)
    <3>1. p \notin docs["posts"]
      BY <1>10 DEF Due
    <3>2. <<x, p>> \notin docs["feed"]
      <4>1. SUFFICES ASSUME <<x, p>> \in docs["feed"] PROVE FALSE
        OBVIOUS
      <4>2. Settled(<<x, p>>[2])
        BY <4>1 DEF NoDanglingFeed
      <4> QED
        BY <3>1, <4>2 DEF Settled
    <3> QED
      BY <1>3, <2>2, <3>2 DEF Right
  <2> QED
    BY <2>1, <2>2
<1>11. /\ \A y \in W : WriteRight(y)
       /\ \A y \in W : y.coll = "posts" =>
            y.key \in Due(a) \/ \A x \in User : Right(x, y.key) \/ Covered(a, x, y.key)'
  <2>1. \A y \in W : y = w
    OBVIOUS
  <2>2. p \in Due(a) \/ \A x \in User : Right(x, p) \/ Covered(a, x, p)'
    BY <1>10
  <2>3. w.key \in Due(a) \/ \A x \in User : Right(x, w.key) \/ Covered(a, x, w.key)'
    <3> SUFFICES ASSUME NEW k, k = w.key
                 PROVE  k \in Due(a) \/ \A x \in User : Right(x, k) \/ Covered(a, x, k)'
      OBVIOUS
    <3> QED
      BY <1>4, <2>2
  <2> QED
    BY <1>5, <2>1, <2>3
<1>12. Elems(queue'[a]) = Elems(queue[a]) \union W
  BY <1>6
<1>13. \A r \in Reads : /\ asked[a][r] > 0 => asked'[a][r] > 0
                        /\ asked'[a][r] > 0 => asked[a][r] > 0 \/ ReadRight(a, r)
  BY <1>5, <1>8
<1>14. ~(b.r.kind \in {"addPosts", "dropPosts"}) /\ ~(b.r.kind = "followers")
  BY <1>1
<1> HIDE DEF W
<1> QED
  BY <1>1, <1>11, <1>12, <1>13, <1>14, UpdatingRuns

\* The blocks of an update keep it an update.
LEMMA UpdatingRunBlock ==
    ASSUME TypeOK, NoDanglingFeed, refused = {}, NEW a \in User, Updating(a), RunBlock(a)
    PROVE  Updating(a)'
<1> SUFFICES ASSUME NEW b, b = Head(mainq[a]), ServiceBlock(a, b) \/ ProfileCompletion(a, b, {})
             PROVE  Updating(a)'
  BY DEF RunBlock
<1>1. mainq[a] # << >>
  BY DEF ServiceBlock, FollowAcked, CellCompletion, UploadCompletion, FeedAfterFollowing,
         ImageUploaded, FeedAfterPost, ProfileCompletion, RunningAlone, Running
<1>2. BlockRight(a, b)
  <2>1. mainq[a] \in Seq(BlocksOf(a))
    BY DEF TypeOK, MainqTyped
  <2>2. b \in Elems(mainq[a])
    BY <1>1, <2>1, ElemsTail
  <2> QED
    BY <2>2 DEF Updating
<1>3. ~FollowAcked(a, b) /\ ~CellCompletion(a, b) /\ ~ProfileCompletion(a, b, {})
  BY <1>2 DEF BlockRight, FollowAcked, CellCompletion, ProfileCompletion
<1>4. CASE UploadCompletion(a, b)
  <2> DEFINE W == {}
  <2>1. /\ mainq' = RunFirst(a, << >>) /\ UNCHANGED <<docs, queue, asked>> /\ b.type = "ack"
    BY <1>4 DEF UploadCompletion, RunningAlone, Running, graphVars
  <2>2. /\ Elems(queue'[a]) = Elems(queue[a]) \union W
        /\ \A w \in W : WriteRight(w)
        /\ \A w \in W : w.coll = "posts" =>
             w.key \in Due(a) \/ \A x \in User : Right(x, w.key) \/ Covered(a, x, w.key)'
    BY <2>1
  <2>3. b.type # "answer" /\ \A r \in Reads : asked'[a][r] = asked[a][r]
    BY <2>1
  <2> HIDE DEF W
  <2> QED
    BY <1>1, <2>1, <2>2, <2>3, UpdatingRuns
<1> QED
  BY <1>3, <1>4, UpdatingAfterFollowing, UpdatingAfterPost, UpdatingImage DEF ServiceBlock

\* The completion of the chain notifies, and asks for the posts of the user
\* followed or unfollowed: an update begins.
LEMMA ChainSecondDone ==
    ASSUME TypeOK, NEW a \in User, NEW v \in User \ {a}, NEW op \in Ops, AskedNothing(a),
           SecondDone(a, v, op), Progress(a)
    PROVE  Updating(a)'
<1> DEFINE w == FollowersWrite(a, v, op, "profile")
           b == Acked(w, TRUE)
           n == NotificationWrite(a, v)
           k == IF op = "set" THEN "addPosts" ELSE "dropPosts"
           f == Read(k, v)
<1>1. w.coll = "followers" /\ w.key = <<a, v>> /\ w.op = op /\ w.then = "profile"
  BY DEF FollowersWrite, Write
<1>2. b.type = "ack" /\ b.w = w
  BY DEF Acked
<1>3. queue[a] = << >> /\ mainq[a] = <<b>>
  BY DEF SecondDone
<1>4. RunBlock(a)
  BY <1>3, ProgressIs
<1>5. n.coll = "notifications" /\ f.kind = k /\ f.of = v /\ f \in Reads
  BY DEF NotificationWrite, Write, Read, Reads, FeedReads
<1> HIDE DEF w, b, n
<1>6. Head(mainq[a]) = b
  BY <1>3
<1>7. ProfileCompletion(a, b, {})
  BY <1>1, <1>2, <1>4, <1>6 DEF RunBlock, ServiceBlock, FollowAcked, CellCompletion,
         UploadCompletion, FeedAfterFollowing, ImageUploaded, FeedAfterPost
<1>8. /\ mainq' = RunFirst(a, << >>) /\ UNCHANGED docs
      /\ asked' = Ask(a, {f})
      /\ queue' = WriteMutations(a, IF op = "set" THEN <<n>> ELSE << >>)
  <2>1. b.w.key[2] = v /\ b.w.op = op
    BY <1>1, <1>2
  <2>2. {FeedRead(v, op = "set")} \union {} = {f}
    BY DEF FeedRead
  <2>3. /\ mainq' = RunFirst(a, << >>) /\ UNCHANGED docs
    BY <1>7 DEF ProfileCompletion, RunningAlone, Running, graphVars
  <2>4. /\ asked' = Ask(a, {FeedRead(b.w.key[2], b.w.op = "set")} \union {})
        /\ queue' = WriteMutations(a, IF b.w.op = "set" THEN <<NotificationWrite(a, b.w.key[2])>>
                                      ELSE << >>)
    BY <1>7 DEF ProfileCompletion
  <2> QED
    BY <2>1, <2>2, <2>3, <2>4 DEF n
<1> HIDE DEF f
<1>9. mainq'[a] = << >>
  BY <1>3, <1>8, RunsOne
<1>10. queue'[a] = << >> \/ queue'[a] = <<n>>
  <2>1. DOMAIN queue = User /\ << >> \o << >> = << >> /\ << >> \o <<n>> = <<n>>
    BY DEF TypeOK, QueueTyped
  <2> QED
    BY <1>3, <1>8, <2>1 DEF WriteMutations
<1>11. /\ Elems(mainq'[a]) = {}
       /\ \A x \in Elems(queue'[a]) : x = n
  BY <1>9, <1>10 DEF Elems
<1>12. /\ \A r \in Reads : asked'[a][r] = IF r \in {f} THEN asked[a][r] + 1 ELSE asked[a][r]
       /\ \A r \in Reads : asked[a][r] = 0
  <2>1. asked \in [User -> [Reads -> Nat]]
    BY DEF TypeOK, AskedTyped
  <2>2. \A r \in Reads : Ask(a, {f})[a][r] = IF r \in {f} THEN asked[a][r] + 1 ELSE asked[a][r]
    BY <2>1, AsksOne, ZenonT(40)
  <2> QED
    BY <1>8, <2>2 DEF AskedNothing
<1>13. /\ asked'[a][f] > 0 /\ \A r \in Reads : asked'[a][r] > 0 => r = f
  BY <1>5, <1>12
<1>14. /\ Mirrored({}) /\ ExactBut({<<a, v>>}) /\ (Follows(<<a, v>>) <=> op = "set")
  BY DEF SecondDone
<1>15. /\ \A e : (Follows(e)' <=> Follows(e)) /\ (IsFollower(e)' <=> IsFollower(e))
       /\ \A x, p : Right(x, p) => Right(x, p)'
  BY <1>8 DEF Follows, IsFollower, Right
<1>16. Mirrored({})'
  BY <1>14, <1>15 DEF Mirrored
<1>17. WriteRight(n)'
  BY <1>5 DEF WriteRight
<1>18. ReadRight(a, f)'
  BY <1>5, <1>14, <1>15 DEF ReadRight
<1>19. ASSUME NEW x \in User, NEW p \in Due(a)' PROVE Right(x, p)' \/ Covered(a, x, p)'
  <2>1. p \in docs["posts"]
    BY <1>5, <1>8, <1>11, <1>19 DEF Due
  <2>2. CASE <<x, Owner[p]>> # <<a, v>>
    BY <1>14, <1>15, <2>1, <2>2 DEF ExactBut
  <2>3. CASE <<x, Owner[p]>> = <<a, v>>
    <3>1. x = a /\ Owner[p] = v /\ Owner[p] # a
      BY <2>3
    <3>2. Read(k, Owner[p]) = f
      BY <3>1 DEF f
    <3>3. Fetching(a, Read(k, Owner[p]), p)'
      BY <1>13, <3>2 DEF Fetching
    <3> QED
      BY <3>1, <3>3 DEF Covered
  <2> QED
    BY <2>2, <2>3
<1> QED
  <2>1. \A y \in Elems(queue'[a]) : WriteRight(y)'
    BY <1>11, <1>17
  <2>2. \A r \in Reads : asked'[a][r] > 0 => ReadRight(a, r)'
    BY <1>13, <1>18
  <2> QED
    BY <1>11, <1>16, <1>19, <2>1, <2>2 DEF Updating

-----------------------------------------------------------------------------
(***************************************************************************)
(* From rest to rest.                                                      *)
(***************************************************************************)

\* A device at rest whose work is done has left every feed right.
LEMMA AtRest ==
    ASSUME TypeOK, PatientInv, AllIdle
    PROVE  Mirrored({}) /\ ExactBut({})
<1>1. SUFFICES ASSUME NEW a \in User, Chaining(a) \/ Updating(a)
               PROVE  Mirrored({}) /\ ExactBut({})
  BY DEF PatientInv
<1>2. queue[a] = << >> /\ mainq[a] = << >> /\ AskedNothing(a)
  BY IdleIs DEF AllIdle
<1>3. \A w : <<w>> # << >>
  OBVIOUS
<1>4. ~Chaining(a)
  BY <1>2, <1>3 DEF Chaining, Begun, FirstDone, SecondBegun, SecondDone
<1>5. Elems(queue[a]) = {} /\ Elems(mainq[a]) = {}
  BY <1>2 DEF Elems
<1>6. ASSUME NEW x \in User, NEW p \in docs["posts"] PROVE Right(x, p)
  <2>1. Right(x, p) \/ Covered(a, x, p)
    BY <1>1, <1>4, <1>6 DEF Updating, Due
  <2>2. p \in Post
    BY DEF TypeOK, Coll, Key
  <2>3. /\ \A k \in {"addPosts", "dropPosts"} : Read(k, Owner[p]) \in Reads
        /\ Read("followers", p) \in Reads
    BY <2>2, OwnerAssumption DEF Read, Reads, FeedReads, ShareReads
  <2>4. \A r \in Reads : ~(asked[a][r] > 0)
    <3>1. \A r \in Reads : asked[a][r] = 0
      BY <1>2 DEF AskedNothing
    <3> QED
      BY <3>1
  <2>5. \A r \in Reads : \A y : ~Fetching(a, r, y)
    BY <1>5, <2>4 DEF Fetching
  <2>6. ~Covered(a, x, p)
    BY <1>5, <2>3, <2>5 DEF Covered
  <2> QED
    BY <2>1, <2>6
<1> QED
  BY <1>1, <1>4, <1>6 DEF Updating, ExactBut

\* A device at rest is an update with nothing to do.
LEMMA RestUpdates ==
    ASSUME TypeOK, NEW a \in User, Idle(a), Mirrored({}), ExactBut({})
    PROVE  Updating(a)
<1>1. queue[a] = << >> /\ mainq[a] = << >> /\ AskedNothing(a)
  BY IdleIs
<1>2. Elems(queue[a]) = {} /\ Elems(mainq[a]) = {}
  BY <1>1 DEF Elems
<1>3. \A r \in Reads : ~(asked[a][r] > 0)
  <2>1. \A r \in Reads : asked[a][r] = 0
    BY <1>1 DEF AskedNothing
  <2> QED
    BY <2>1
<1>4. Due(a) = docs["posts"]
  BY <1>2 DEF Due
<1>5. \A x \in User, p \in Due(a) : Right(x, p)
  BY <1>4 DEF ExactBut
<1> QED
  BY <1>2, <1>3, <1>5 DEF Updating

\* A touch of a profile's button begins a chain, a share begins an update.
LEMMA PatientTouched ==
    ASSUME TypeOK, TypeOK', PatientInv, AllIdle, Screen \subseteq {"profile"},
           NEW a \in User, Touched(a)
    PROVE  PatientInv'
<1>1. Mirrored({}) /\ ExactBut({}) /\ Alone(a) /\ Idle(a)
  BY AtRest DEF AllIdle, Alone
<1>2. Alone(a)'
  BY <1>1, OtherDevices
<1>3. queue[a] = << >> /\ mainq[a] = << >> /\ AskedNothing(a)
  BY <1>1, IdleIs
<1>4. ASSUME NEW v \in User, NEW op \in {"set", "delete"}, NEW screen \in Screen,
             CallFollow(a, v, op, screen)
      PROVE  Chaining(a)'
  <2> DEFINE w == FollowingWrite(a, v, op, "profile")
  <2>1. /\ screen = "profile" /\ v \in User \ {a} /\ op \in Ops
        /\ queue' = WriteMutations(a, <<w>>) /\ UNCHANGED <<asked, mainq, docs>>
    BY <1>4 DEF CallFollow, Ops
  <2> HIDE DEF w
  <2>2. queue'[a] = <<w>>
    BY <1>3, <2>1, IssuesOne
  <2>3. Begun(a, v, op)'
    BY <1>1, <1>3, <2>1, <2>2 DEF Begun, Mirrored, ExactBut, Right, Follows, IsFollower, w
  <2>4. AskedNothing(a)'
    BY <1>3, <2>1 DEF AskedNothing
  <2> QED
    BY <2>1, <2>3, <2>4 DEF Chaining
<1>5. ASSUME ShareButtonPressed(a) PROVE Updating(a)'
  <2>1. PICK p \in Post : Owner[p] = a /\ asked' = Ask(a, {Read("image", p)})
    BY <1>5 DEF ShareButtonPressed
  <2> DEFINE r == Read("image", p)
             W == {}
  <2>2. r \in Reads /\ r.kind = "image"
    BY DEF Read, Reads, ShareReads
  <2>3. UNCHANGED <<queue, mainq, docs>>
    BY <1>5 DEF ShareButtonPressed
  <2> HIDE DEF r
  <2>4. Updating(a)
    BY <1>1, RestUpdates
  <2>5. asked \in [User -> [Reads -> Nat]]
    BY DEF TypeOK, AskedTyped
  <2>6. \A s \in Reads : Ask(a, {r})[a][s] = IF s \in {r} THEN asked[a][s] + 1 ELSE asked[a][s]
    BY <2>5, AsksOne
  <2>7. \A s \in Reads : asked'[a][s] = IF s \in {r} THEN asked[a][s] + 1 ELSE asked[a][s]
    BY <2>1, <2>6 DEF r
  <2>8. \A s \in Reads : /\ asked'[a][s] > 0 => asked[a][s] > 0 \/ s = r
                         /\ asked[a][s] > 0 => asked'[a][s] > 0
    BY <2>5, <2>7
  <2>9. ReadRight(a, r)
    BY <2>2 DEF ReadRight
  <2>10. ASSUME NEW x \in User, NEW q \in Due(a) PROVE ~Covered(a, x, q)
    <3>1. Elems(queue[a]) = {} /\ Elems(mainq[a]) = {}
      BY <1>3 DEF Elems
    <3>2. q \in Post
      BY <3>1, <2>10 DEF Due, TypeOK, Coll, Key
    <3>3. /\ \A k \in {"addPosts", "dropPosts"} : Read(k, Owner[q]) \in Reads
          /\ Read("followers", q) \in Reads
      BY <3>2, OwnerAssumption DEF Read, Reads, FeedReads, ShareReads
    <3>4. \A s \in Reads : asked[a][s] = 0
      BY <1>3 DEF AskedNothing
    <3>5. \A s \in Reads : ~(asked[a][s] > 0)
      BY <3>4
    <3>6. \A s \in Reads : \A y : ~Fetching(a, s, y)
      BY <3>1, <3>5 DEF Fetching
    <3> QED
      BY <3>1, <3>3, <3>6 DEF Covered
  <2>11. /\ Elems(queue'[a]) = Elems(queue[a]) \union W
         /\ \A w \in W : WriteRight(w)
         /\ \A w \in W : w.coll = "posts" =>
                \A x \in User : Right(x, w.key) \/ Covered(a, x, w.key)'
    BY <2>3
  <2>12. \A b \in Elems(mainq'[a]) : b \in Elems(mainq[a]) \/ BlockRight(a, b)
    BY <2>3
  <2>13. \A s \in Reads : asked'[a][s] > 0 => asked[a][s] > 0 \/ ReadRight(a, s)
    BY <2>8, <2>9
  <2>14. \A x \in User, q \in Due(a) : Covered(a, x, q) => Covered(a, x, q)'
    BY <2>10
  <2> HIDE DEF W
  <2> QED
    BY <2>3, <2>4, <2>11, <2>12, <2>13, <2>14, UpdatingKept
<1> QED
  BY <1>2, <1>4, <1>5 DEF Touched, PatientInv

\* Only the device that has work does anything.
LEMMA PatientProgress ==
    ASSUME TypeOK, TypeOK', NoDanglingFeed, refused = {}, PatientInv,
           NEW a \in User, Progress(a)
    PROVE  PatientInv'
<1>1. ~Idle(a)
  BY IdleStuck
<1>2. PICK c \in User : Alone(c) /\ (Chaining(c) \/ Updating(c))
  BY <1>1 DEF PatientInv, AllIdle
<1>3. c = a
  BY <1>1, <1>2 DEF Alone
<1>4. Alone(a)'
  BY <1>2, <1>3, OtherDevices
<1>5. CASE Updating(a)
  <2>1. Updating(a)'
    BY <1>5, UpdatingAnswer, UpdatingCommit, UpdatingRunBlock DEF Progress
  <2> QED
    BY <1>4, <2>1 DEF PatientInv
<1>6. CASE Chaining(a)
  <2>1. AskedNothing(a)
    BY <1>6 DEF Chaining
  <2>2. PICK v \in User \ {a}, op \in Ops :
           Begun(a, v, op) \/ FirstDone(a, v, op) \/ SecondBegun(a, v, op) \/ SecondDone(a, v, op)
    BY <1>6 DEF Chaining
  <2>3. Chaining(a)' \/ Updating(a)'
    <3>1. CASE Begun(a, v, op)
      BY <2>1, <3>1, ChainBegun DEF Chaining
    <3>2. CASE FirstDone(a, v, op)
      BY <2>1, <3>2, ChainFirstDone DEF Chaining
    <3>3. CASE SecondBegun(a, v, op)
      BY <2>1, <3>3, ChainSecondBegun DEF Chaining
    <3>4. CASE SecondDone(a, v, op)
      BY <2>1, <3>4, ChainSecondDone
    <3> QED
      BY <2>2, <3>1, <3>2, <3>3, <3>4
  <2> QED
    BY <1>4, <2>3 DEF PatientInv
<1> QED
  BY <1>2, <1>3, <1>5, <1>6

\* Without faults the backend refuses nothing.
LEMMA NothingRefused ==
    ASSUME NEW u \in User, Touched(u) \/ Progress(u)
    PROVE  UNCHANGED refused
BY DEF Touched, CallFollow, ShareButtonPressed, Progress, Commit, Answer, RunBlock, ServiceBlock,
       FollowAcked, CellCompletion, UploadCompletion, FeedAfterFollowing, ImageUploaded,
       FeedAfterPost, ProfileCompletion, RunningAlone, Running, graphVars

\* At the start nobody follows and nothing is shared.
LEMMA PatientInit ==
    ASSUME Init
    PROVE  PatientInv /\ refused = {}
<1>1. refused = {} /\ \A c \in Coll : docs[c] = {}
  BY DEF Init, GraphInit
<1>2. docs["following"] = {} /\ docs["followers"] = {} /\ docs["posts"] = {}
  BY <1>1 DEF Coll
<1>3. AllIdle
  BY DEF AllIdle, Idle, Init, SdkInit
<1>4. Mirrored({}) /\ ExactBut({})
  BY <1>2 DEF Mirrored, ExactBut, Follows, IsFollower
<1> QED
  BY <1>1, <1>3, <1>4 DEF PatientInv

\* The inductive invariant.
Undisturbed == PatientInv /\ refused = {}

\* Users who wait until everything has settled, and who follow from the profile
\* screen only, find in their feed exactly the posts of the users they follow:
\* the two feed updates of PostService leave nothing out and nothing behind.
\* (The screen of notifications follows without updating the feed; the run
\* `notifications` shows what that does.)
THEOREM FeedIsExact == Screen \subseteq {"profile"} => (PatientSpec => []FeedExact)
<1> SUFFICES ASSUME Screen \subseteq {"profile"} PROVE PatientSpec => []FeedExact
  OBVIOUS
<1>1. PatientNext => Next
  BY DEF PatientNext, Next
<1>2. PatientSpec => Spec
  BY <1>1, PTL DEF PatientSpec, Spec
<1>3. /\ Undisturbed /\ NoDanglingFeed /\ TypeOK /\ TypeOK' /\ [PatientNext]_vars
      => Undisturbed'
  <2> SUFFICES ASSUME Undisturbed, NoDanglingFeed, TypeOK, TypeOK', [PatientNext]_vars
               PROVE  Undisturbed'
    OBVIOUS
  <2>1. CASE UNCHANGED vars
    <3>1. UNCHANGED <<queue, asked, mainq, docs, refused>>
      BY <2>1 DEF vars, sdkVars, graphVars
    <3>2. /\ \A E : (Mirrored(E) => Mirrored(E)') /\ (ExactBut(E) => ExactBut(E)')
          /\ \A e : Follows(e)' <=> Follows(e)
          /\ \A u : (Idle(u) => Idle(u)') /\ (AskedNothing(u) => AskedNothing(u)')
      BY <3>1 DEF Mirrored, ExactBut, Right, Follows, IsFollower, Idle, AskedNothing
    <3>3. AllIdle => AllIdle'
      BY <3>2 DEF AllIdle
    <3>4. \A a \in User : Alone(a) => Alone(a)'
      BY <3>2 DEF Alone
    <3>5. ASSUME NEW a \in User, Chaining(a) PROVE Chaining(a)'
      <4>1. ASSUME NEW v, NEW op
            PROVE  /\ Begun(a, v, op) => Begun(a, v, op)'
                   /\ FirstDone(a, v, op) => FirstDone(a, v, op)'
                   /\ SecondBegun(a, v, op) => SecondBegun(a, v, op)'
                   /\ SecondDone(a, v, op) => SecondDone(a, v, op)'
        BY <3>1, <3>2 DEF Begun, FirstDone, SecondBegun, SecondDone
      <4> QED
        BY <3>2, <3>5, <4>1 DEF Chaining
    <3>6. ASSUME NEW a \in User, Updating(a) PROVE Updating(a)'
      <4>1. \A r : ReadRight(a, r) => ReadRight(a, r)'
        BY <3>2 DEF ReadRight
      <4>2. \A b : BlockRight(a, b) => BlockRight(a, b)'
        BY <3>2, <4>1 DEF BlockRight
      <4>3. \A w : WriteRight(w) => WriteRight(w)'
        BY <3>2 DEF WriteRight
      <4>4. \A x, p : (Right(x, p) => Right(x, p)') /\ (Covered(a, x, p) => Covered(a, x, p)')
        BY <3>1, <3>2 DEF Right, Covered, Fetching
      <4>5. Due(a)' = Due(a)
        BY <3>1 DEF Due
      <4> QED
        BY <3>1, <3>2, <3>6, <4>1, <4>2, <4>3, <4>4, <4>5 DEF Updating
    <3> QED
      BY <3>1, <3>2, <3>3, <3>4, <3>5, <3>6 DEF PatientInv, Undisturbed
  <2>2. ASSUME NEW u \in User, AllIdle /\ Touched(u) PROVE Undisturbed'
    BY <2>2, PatientTouched, NothingRefused DEF Undisturbed
  <2>3. ASSUME NEW u \in User, Progress(u) PROVE Undisturbed'
    BY <2>3, PatientProgress, NothingRefused DEF Undisturbed
  <2> QED
    BY <2>1, <2>2, <2>3 DEF PatientNext
<1>4. Undisturbed /\ TypeOK => FeedExact
  <2> SUFFICES ASSUME Undisturbed, TypeOK, AllIdle, NEW u \in User, NEW p \in docs["posts"]
               PROVE  <<u, p>> \in docs["feed"] <=> <<u, Owner[p]>> \in docs["following"]
    BY DEF FeedExact
  <2>1. Right(u, p)
    BY AtRest DEF ExactBut, Undisturbed
  <2> QED
    BY <2>1 DEF Right, Follows
<1>5. Init => Undisturbed
  BY PatientInit DEF Undisturbed
<1> QED
  BY <1>2, <1>3, <1>4, <1>5, TypeCorrect, NoDangling, PTL DEF PatientSpec
=============================================================================
