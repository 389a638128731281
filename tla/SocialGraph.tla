----------------------------- MODULE SocialGraph -----------------------------
(***************************************************************************)
(* Who follows whom, and whose feed holds which post: the services         *)
(* UserService, PostService, NotificationService and ImageUploader, called *)
(* by the screens in any order.                                            *)
(*                                                                         *)
(* UserService.follow / unfollow is a chain of two writes: `following`     *)
(* first and, from its completion, `followers`.  When the profile screen   *)
(* asked for it, the completion of the second write notifies the followed  *)
(* user and fills or empties the user's feed from a query of the other's   *)
(* posts (updateUserFeedAfterFollowing).  Sharing a post writes the post   *)
(* and fans it out to the feeds of the owner's followers, found by a query *)
(* of its own (updateUserFeedAfterPost).  Nothing ties these steps         *)
(* together: they are separate writes and reads of the SDK described by    *)
(* Firestore.tla.  Here a button may be tapped whatever it shows;          *)
(* ProfileScreen.tla adds what it shows.                                   *)
(***************************************************************************)
EXTENDS Firestore, FiniteSets

CONSTANTS
    Post,          \* the ids addDocument may draw
    Owner,         \* Owner[p]: the account that draws p
    Screen,        \* the screens whose follow buttons are used
    MaxTaps,       \* bound: how often a follow button is tapped
    MaxFaults      \* bound: how many reads fail, writes are refused, apps die

ASSUME OwnerAssumption  == Owner \in [Post -> User]
ASSUME ScreenAssumption == Screen \subseteq {"profile", "notifications"}
ASSUME FiniteAssumption == IsFiniteSet(User) /\ IsFiniteSet(Post)
ASSUME BoundAssumption  == MaxTaps \in Nat /\ MaxFaults \in Nat

VARIABLES
    docs,          \* docs[c]: the documents of collection c in the backend
    drawn,         \* posts whose upload was started
    taps,          \* how often a follow button was tapped
    faults,        \* how many faults happened
    torn,          \* history: pairs whose last chain lost one of its two writes
    refused        \* history: posts the backend refused to store

graphVars == <<docs, drawn, taps, faults, torn, refused>>
vars      == <<sdkVars, graphVars>>

-----------------------------------------------------------------------------
(***************************************************************************)
(* Documents.  Both following/u/user-following/v and                       *)
(* followers/v/user-followers/u are keyed <<u, v>>: u follows v.           *)
(***************************************************************************)
Coll == {"following", "followers", "posts", "feed", "notifications"}

Pair    == {e \in User \X User : e[1] # e[2]}
FeedKey == User \X Post

Write(coll, op, key, then) == [coll |-> coll, op |-> op, key |-> key, then |-> then]
OpFor(follow) == IF follow THEN "set" ELSE "delete"

\* The first write of UserService.follow / unfollow, called by a screen; its
\* completion issues the second one.
FollowingWrite(u, v, op, screen) == Write("following", op, <<u, v>>, screen)
\* Mutants of the second: the key's halves swapped; unfollow calling setData.
FollowersSwapped(u, v, op, screen)      == Write("followers", op, <<v, u>>, screen)
FollowersNeverDeleted(u, v, op, screen) == Write("followers", "set", <<u, v>>, screen)
\* The second; its completion is the one the screen passed.
FollowersWrite(u, v, op, screen) == Write("followers", op, <<u, v>>, screen)
\* NotificationService.uploadNotification(toUid: v, fromUser: u, type: .follow).
\* Repeated notifications of one pair are one key here.
NotificationWrite(u, v)  == Write("notifications", "set", <<u, v>>, NoOne)
PostWrite(p)             == Write("posts", "set", p, "upload")
FeedWrite(u, p, op)      == Write("feed", op, <<u, p>>, NoOne)

\* What a decided write leaves in its collection.
Apply(w) ==
    [docs EXCEPT ![w.coll] = IF w.op = "set" THEN @ \union {w.key} ELSE @ \ {w.key}]

(***************************************************************************)
(* Reads.                                                                  *)
(***************************************************************************)
Read(kind, of) == [kind |-> kind, of |-> of]

FeedReads  == [kind : {"addPosts", "dropPosts"}, of : User]
ShareReads == [kind : {"image", "followers"}, of : Post]
Reads      == FeedReads \union ShareReads

\* Mutant: didFollow is ignored.
FeedReadAlwaysAdds(v, didFollow) == Read("addPosts", v)
\* updateUserFeedAfterFollowing(user: v, didFollow:): the query of v's posts.
FeedRead(v, didFollow) == Read(IF didFollow THEN "addPosts" ELSE "dropPosts", v)

\* What a read finds.  The device's own queued writes never match one of these
\* queries: it queues no post of another user and no follower of its own.
Found(r) ==
    IF r.kind \in {"addPosts", "dropPosts"}
    THEN {p \in docs["posts"] : Owner[p] = r.of}
    ELSE {v \in User : r.kind = "followers" /\ <<v, Owner[r.of]>> \in docs["followers"]}

\* The orders in which the documents of a snapshot may come.
Orderings(S) ==
    {s \in [1..Cardinality(S) -> S] : \A x \in S : \E i \in DOMAIN s : s[i] = x}

-----------------------------------------------------------------------------
GraphInit ==
    /\ docs    = [c \in Coll |-> {}]
    /\ drawn   = {}
    /\ taps    = 0
    /\ faults  = 0
    /\ torn    = {}
    /\ refused = {}

Init == SdkInit(Reads) /\ GraphInit

-----------------------------------------------------------------------------
(***************************************************************************)
(* What the screens ask of the services.                                   *)
(***************************************************************************)

\* Mutant: both writes are issued at once, in the wrong order.
CallFollowBothAtOnce(u, v, op, screen) ==
    /\ taps < MaxTaps
    /\ taps' = taps + 1
    /\ v # u
    /\ queue' = WriteMutations(u, <<FollowersWrite(u, v, op, NoOne),
                                   FollowingWrite(u, v, op, screen)>>)
    /\ UNCHANGED <<asked, mainq, docs, drawn, faults, torn, refused>>

\* UserService.follow(uid: v) / unfollow(uid: v), called on u's device by the
\* follow button of a screen.
CallFollow(u, v, op, screen) ==
    /\ taps < MaxTaps
    /\ taps' = taps + 1
    /\ v # u
    /\ queue' = WriteMutations(u, <<FollowingWrite(u, v, op, screen)>>)
    /\ UNCHANGED <<asked, mainq, docs, drawn, faults, torn, refused>>

\* Mutant: the fan-out does not wait for the image and the post.
ShareButtonEager(u) ==
    /\ \E p \in Post \ drawn :
          /\ Owner[p] = u
          /\ drawn' = drawn \union {p}
          /\ asked' = Ask(u, {Read("image", p), Read("followers", p)})
    /\ UNCHANGED <<queue, mainq, docs, taps, faults, torn, refused>>

\* UploadPostVC.shareButtonPressed: PostService.uploadPost first uploads the
\* image.  Pressed twice, it uploads two posts.
ShareButtonPressed(u) ==
    /\ \E p \in Post \ drawn :
          /\ Owner[p] = u
          /\ drawn' = drawn \union {p}
          /\ asked' = Ask(u, {Read("image", p)})
    /\ UNCHANGED <<queue, mainq, docs, taps, faults, torn, refused>>

-----------------------------------------------------------------------------
(***************************************************************************)
(* The backend and the SDK.                                                *)
(***************************************************************************)

\* The backend stores the oldest write of u's device.
Commit(u) ==
    /\ queue[u] # << >>
    /\ LET w == Head(queue[u])
       IN  /\ NotifyUser(u, w, TRUE)
           /\ docs' = Apply(w)
           /\ torn' = IF w.coll # "following" THEN torn
                      ELSE IF w.then # NoOne THEN torn \ {w.key} ELSE torn \union {w.key}
    /\ UNCHANGED <<drawn, taps, faults, refused>>

Fault == faults < MaxFaults /\ faults' = faults + 1

\* The backend refuses it.
Reject(u) ==
    /\ Fault
    /\ queue[u] # << >>
    /\ LET w == Head(queue[u])
       IN  /\ NotifyUser(u, w, FALSE)
           /\ torn'    = IF w.coll \in {"following", "followers"}
                         THEN torn \union {w.key} ELSE torn
           /\ refused' = IF w.coll = "posts" THEN refused \union {w.key} ELSE refused
    /\ UNCHANGED <<docs, drawn, taps>>

\* A read is answered.
Answer(u, r) ==
    /\ Respond(u, r, Found(r))
    /\ UNCHANGED graphVars

\* A read or an upload fails.
FailToAnswer(u, r) ==
    /\ Fault
    /\ ReadFails(u, r)
    /\ UNCHANGED <<docs, drawn, taps, torn, refused>>

\* The blocks of u's main queue that will issue the second write of pair e.
FollowAcks(u, e) ==
    {i \in DOMAIN mainq[u] : /\ mainq[u][i].type = "ack"
                             /\ mainq[u][i].w.coll = "following"
                             /\ mainq[u][i].w.key = e}

\* The process of u's device dies and is started again.
Kill(u) ==
    /\ Fault
    /\ Terminate(u)
    /\ torn' = torn \union {e \in Pair : FollowAcks(u, e) # {}}
    /\ UNCHANGED <<docs, drawn, taps, refused>>

-----------------------------------------------------------------------------
(***************************************************************************)
(* The main thread of u's device runs its oldest block b.                  *)
(***************************************************************************)
Running(u, b) ==
    /\ mainq[u] # << >>
    /\ b = Head(mainq[u])
    /\ UNCHANGED graphVars

\* ... and b posts no block of its own.
RunningAlone(u, b) == Running(u, b) /\ mainq' = RunFirst(u, << >>)

\* Mutant: the second write is forgotten.
FollowAckedDropped(u, b) ==
    /\ RunningAlone(u, b)
    /\ b.type = "ack" /\ b.w.coll = "following"
    /\ UNCHANGED <<queue, asked>>

\* The closure in UserService.follow / unfollow: the second write is issued
\* whatever the error of the first was.
FollowAcked(u, b) ==
    /\ RunningAlone(u, b)
    /\ b.type = "ack" /\ b.w.coll = "following"
    /\ queue' = WriteMutations(u, <<FollowersWrite(u, b.w.key[2], b.w.op, b.w.then)>>)
    /\ UNCHANGED asked

\* ProfileVC's completion of follow / unfollow; `more` are the reads it issues
\* to bring the screen up to date.
ProfileCompletion(u, b, more) ==
    /\ RunningAlone(u, b)
    /\ b.type = "ack" /\ b.w.coll = "followers" /\ b.w.then = "profile"
    /\ LET v         == b.w.key[2]
           didFollow == b.w.op = "set"
       IN  /\ asked' = Ask(u, {FeedRead(v, didFollow)} \union more)
           /\ queue' = WriteMutations(u, IF didFollow THEN <<NotificationWrite(u, v)>>
                                         ELSE << >>)

\* NotificationsVC's completion: only the cell changes.
CellCompletion(u, b) ==
    /\ RunningAlone(u, b)
    /\ b.type = "ack" /\ b.w.coll = "followers" /\ b.w.then = "notifications"
    /\ UNCHANGED <<queue, asked>>

\* UploadPostVC's completion: the feed tab is shown and refreshed, or an error
\* is printed.
UploadCompletion(u, b) ==
    /\ RunningAlone(u, b)
    /\ b.type = "ack" /\ b.w.coll = "posts"
    /\ UNCHANGED <<queue, asked>>

\* PostService.updateUserFeedAfterFollowing: one feed write for each post.
FeedAfterFollowing(u, b) ==
    /\ RunningAlone(u, b)
    /\ b.type = "answer" /\ b.r.kind \in {"addPosts", "dropPosts"}
    /\ \E ps \in Orderings(b.docs) :
          queue' = WriteMutations(u, [i \in DOMAIN ps |->
                       FeedWrite(u, ps[i], OpFor(b.r.kind = "addPosts"))])
    /\ UNCHANGED asked

\* PostService.uploadPost once the image is stored: addDocument, and at once
\* the query of updateUserFeedAfterPost.
ImageUploaded(u, b) ==
    /\ RunningAlone(u, b)
    /\ b.type = "answer" /\ b.r.kind = "image"
    /\ queue' = WriteMutations(u, <<PostWrite(b.r.of)>>)
    /\ asked' = Ask(u, {Read("followers", b.r.of)})

\* PostService.updateUserFeedAfterPost: one feed write for each follower.
FeedAfterPost(u, b) ==
    /\ RunningAlone(u, b)
    /\ b.type = "answer" /\ b.r.kind = "followers"
    /\ \E vs \in Orderings(b.docs) :
          queue' = WriteMutations(u, [i \in DOMAIN vs |-> FeedWrite(vs[i], b.r.of, "set")])
    /\ UNCHANGED asked

\* The blocks whose effect is the same whichever screen is shown.
ServiceBlock(u, b) ==
    \/ FollowAcked(u, b)
    \/ CellCompletion(u, b)
    \/ UploadCompletion(u, b)
    \/ FeedAfterFollowing(u, b)
    \/ ImageUploaded(u, b)
    \/ FeedAfterPost(u, b)

RunBlock(u) ==
    LET b == Head(mainq[u])
    IN  ServiceBlock(u, b) \/ ProfileCompletion(u, b, {})

-----------------------------------------------------------------------------
Touched(u) ==
    \/ \E v \in User, op \in {"set", "delete"}, screen \in Screen :
          CallFollow(u, v, op, screen)
    \/ ShareButtonPressed(u)

Progress(u) ==
    \/ Commit(u)
    \/ \E r \in Reads : Answer(u, r)
    \/ RunBlock(u)

Failing(u) ==
    \/ Reject(u)
    \/ \E r \in Reads : FailToAnswer(u, r)
    \/ Kill(u)

Next == \E u \in User : Touched(u) \/ Progress(u) \/ Failing(u)

Spec == Init /\ [][Next]_vars

\* The run loop runs what is queued on it; the SDK sends a queued write until
\* the backend decides it, and answers each read in the end.
Fairness ==
    \A u \in User :
        /\ WF_vars(Commit(u))
        /\ WF_vars(RunBlock(u))
        /\ \A r \in Reads : WF_vars(Answer(u, r))

FairSpec == Spec /\ Fairness

-----------------------------------------------------------------------------
Idle(u) ==
    /\ queue[u] = << >>
    /\ mainq[u] = << >>
    /\ \A r \in DOMAIN asked[u] : asked[u][r] = 0

AllIdle == \A u \in User : Idle(u)

\* Users who wait until everything has settled before they touch the app again.
PatientNext == \E u \in User : (AllIdle /\ Touched(u)) \/ Progress(u)
PatientSpec == Init /\ [][PatientNext]_vars

-----------------------------------------------------------------------------
(***************************************************************************)
(* Types.                                                                  *)
(***************************************************************************)
Ops == {"set", "delete"}

Key(c) == IF c = "posts" THEN Post ELSE IF c = "feed" THEN FeedKey ELSE Pair

\* The writes the code issues on u's device.
WritesOf(u) ==
    {w \in [coll : Coll, op : Ops, key : Pair \union Post \union FeedKey,
            then : {"profile", "notifications", "upload", NoOne}] :
       /\ w.key \in Key(w.coll)
       /\ w.coll \in {"following", "followers"} =>
             w.key[1] = u /\ w.then # "upload"
       /\ w.coll = "notifications" => w.key[1] = u /\ w.op = "set" /\ w.then = NoOne
       /\ w.coll = "posts" => Owner[w.key] = u /\ w.op = "set" /\ w.then \in {"upload", NoOne}
       /\ w.coll = "feed"  => u \in {w.key[1], Owner[w.key[2]]} /\ w.then = NoOne}

\* The blocks that may wait on u's main queue.
BlocksOf(u) ==
    [type : {"ack"}, w : {w \in WritesOf(u) : w.then # NoOne}, ok : BOOLEAN]
    \union [type : {"answer"}, r : FeedReads, docs : SUBSET Post]
    \union [type : {"answer"}, r : {r \in ShareReads : Owner[r.of] = u}, docs : SUBSET User]

QueueTyped(q) == DOMAIN q = User /\ \A u \in User : q[u] \in Seq(WritesOf(u))
MainqTyped(m) == DOMAIN m = User /\ \A u \in User : m[u] \in Seq(BlocksOf(u))
AskedTyped(a) ==
    /\ a \in [User -> [Reads -> Nat]]
    /\ \A u \in User, r \in ShareReads : a[u][r] > 0 => Owner[r.of] = u

\* Every variable has its type; a device writes only its own half of the graph,
\* its own posts, and feed documents of its own account or of its own posts.
TypeOK ==
    /\ QueueTyped(queue)
    /\ MainqTyped(mainq)
    /\ AskedTyped(asked)
    /\ DOMAIN docs = Coll /\ \A c \in Coll : docs[c] \subseteq Key(c)
    /\ torn \subseteq Pair /\ drawn \subseteq Post /\ refused \subseteq Post
    /\ taps \in 0..MaxTaps /\ faults \in 0..MaxFaults

(***************************************************************************)
(* The two halves of the follow graph.                                     *)
(***************************************************************************)
Follows(e)    == e \in docs["following"]
IsFollower(e) == e \in docs["followers"]

\* The writes to `followers` of pair e that u's device has not had decided.
QueuedFollowers(u, e) ==
    {i \in DOMAIN queue[u] : queue[u][i].coll = "followers" /\ queue[u][i].key = e}

Settling(e) == FollowAcks(e[1], e) # {} \/ QueuedFollowers(e[1], e) # {}

\* UserService.follow / unfollow keep two documents for one fact.  However taps,
\* completions and screens interleave, once the second write of a pair is
\* neither waiting in a completion nor queued, the two documents agree, unless
\* the chain lost one of its writes to a refusal or to the death of the app.
MirrorAgreement ==
    \A e \in Pair : e \notin torn /\ ~Settling(e) => (Follows(e) <=> IsFollower(e))

\* While second writes of a pair are on their way, the last of them is the one
\* that makes the documents agree: the completion of an older tap never
\* overtakes that of a newer one.
LastWriteWins ==
    \A e \in Pair : e \notin torn =>
        LET u    == e[1]
            acks == FollowAcks(u, e)
            qs   == QueuedFollowers(u, e)
        IN  /\ \A i \in acks : (\A j \in acks : j <= i)
                 => (mainq[u][i].w.op = "set" <=> Follows(e))
            /\ acks = {} => \A i \in qs : (\A j \in qs : j <= i)
                 => (queue[u][i].op = "set" <=> Follows(e))

\* Halves of the graph that disagree come to agree, or their chain is torn.
MirrorConverges ==
    \A e \in Pair : (Follows(e) # IsFollower(e))
        ~> ((Follows(e) <=> IsFollower(e)) \/ e \in torn)

(***************************************************************************)
(* Feeds.                                                                  *)
(***************************************************************************)
Settled(p) == p \in docs["posts"] \/ p \in refused

\* A feed document never names a post the backend has not decided: uploadPost
\* queues the post before its fan-out, and updateUserFeedAfterFollowing copies
\* only ids the backend returned.  (fetchFeedPosts silently skips an id whose
\* post does not exist.)
NoDanglingFeed == \A f \in docs["feed"] : Settled(f[2])

\* At rest, a user's feed holds exactly the posts of the users followed: what
\* "Update User Feed After Following" and "Update User Feed After Post"
\* (PostService.swift lines 115 and 133) are there for.
FeedExact ==
    AllIdle => \A u \in User, p \in docs["posts"] :
        <<u, p>> \in docs["feed"] <=> <<u, Owner[p]>> \in docs["following"]
=============================================================================
