-------------------------------- MODULE Likes --------------------------------
(***************************************************************************)
(* The likes of one post: PostService.likePost / unlikePost and the feed   *)
(* screen (FeedVC and its FeedCell) that calls them.                       *)
(*                                                                         *)
(* Three documents record one tap: the counter `likes` of the post, the    *)
(* user under the post (post-likes) and the post under the user            *)
(* (user-likes).  The counter is written as a number computed from the     *)
(* copy of the post in the tapped cell; post-likes is queued with it, and  *)
(* user-likes from the completion of post-likes.  The screen keeps its own *)
(* list of posts; a reload copies the list over the cell, and the tap      *)
(* changes only the cell.                                                  *)
(***************************************************************************)
EXTENDS Firestore, FiniteSets

CONSTANTS
    Author,        \* the owner of the post
    MaxTouches,    \* bound: how often a heart is tapped or a feed pulled to refresh
    MaxFaults      \* bound: how many reads fail, writes are refused, apps die

ASSUME AuthorAssumption == Author \in User
ASSUME LikersAssumption == IsFiniteSet(User)
ASSUME LikesBounds      == {MaxTouches, MaxFaults} \subseteq Nat

VARIABLES
    likes,         \* the field `likes` of the post
    postLikes,     \* users in posts/p/post-likes
    userLikes,     \* users u with p in users/u/user-likes
    notified,      \* users whose like was announced to the author
    listed,        \* listed[u]: the post is in FeedVC.posts of u's device
    list,          \* list[u]: that post
    shown,         \* shown[u]: its cell is on the screen
    cell,          \* cell[u]: the post in the cell's view model
    touches,       \* how often users touched the app
    faults,        \* how many faults happened
    torn,          \* history: users whose last chain lost one of its two writes
    careless       \* history: a tap from a stale copy, or a refused counter write

backendVars == <<likes, postLikes, userLikes, notified>>
screenVars  == <<listed, list, shown, cell>>
counters    == <<touches, faults>>
history     == <<torn, careless>>
vars        == <<sdkVars, backendVars, screenVars, counters, history>>

-----------------------------------------------------------------------------
Reads == {"fetch", "check"}

\* A Post, as far as likes go.
PostCopy(n, didLike) == [likes |-> n, didLike |-> didLike]
NoCopy               == PostCopy(0, FALSE)

\* A write of u's device; n is the `likes` of the copy it was computed from.
Write(u, coll, op, n, then) == [coll |-> coll, op |-> op, key |-> u, n |-> n, then |-> then]

\* Mutants: the counter is left alone by unlikePost; user-likes is always set.
UnlikeForgetsCounter(u, n)      == <<Write(u, "postLikes", "delete", n, "chain")>>
UserLikeNeverDeleted(u, op, n)  == Write(u, "userLikes", "set", n, "cell")

\* What likePost and unlikePost queue at once ...
LikePost(u, n)   == <<Write(u, "likes", "set", n + 1, NoOne),
                      Write(u, "postLikes", "set", n, "chain")>>
UnlikePost(u, n) == <<Write(u, "likes", "set", n - 1, NoOne),
                      Write(u, "postLikes", "delete", n, "chain")>>
\* ... and from the completion of post-likes; `uploadNotification` of a like.
UserLikeWrite(u, op, n)  == Write(u, "userLikes", op, n, "cell")
NotificationWrite(u)     == Write(u, "notifications", "set", 0, NoOne)

\* A collection of users after write w.
Edited(coll, S, w) ==
    IF w.coll # coll THEN S ELSE IF w.op = "set" THEN S \union {w.key} ELSE S \ {w.key}

Reload == [type |-> "reload"]

\* The counter as u's device sees it: its own last queued write, if any.
CounterWrites(u) == {i \in DOMAIN queue[u] : queue[u][i].coll = "likes"}
LocalLikes(u) ==
    IF CounterWrites(u) = {} THEN likes
    ELSE queue[u][CHOOSE i \in CounterWrites(u) : \A j \in CounterWrites(u) : j <= i].n

\* fetchPost; checkIfUserLikedPost reads user-likes.
Found(u, r) ==
    IF r = "fetch" THEN LocalLikes(u) ELSE LocallyPresent(u, "userLikes", u, userLikes)

-----------------------------------------------------------------------------
\* Every feed has just been opened, and shows nothing yet (viewDidLoad has
\* called fetchPosts); some users already like the post.
Init ==
    /\ queue = [u \in User |-> << >>]
    /\ asked = [u \in User |-> [r \in Reads |-> IF r = "fetch" THEN 1 ELSE 0]]
    /\ mainq = [u \in User |-> << >>]
    /\ \E S \in SUBSET User :
          likes = Cardinality(S) /\ postLikes = S /\ userLikes = S /\ notified = {}
    /\ listed = [u \in User |-> FALSE] /\ list = [u \in User |-> NoCopy]
    /\ shown  = [u \in User |-> FALSE] /\ cell = [u \in User |-> NoCopy]
    /\ touches = 0 /\ faults = 0
    /\ torn = {} /\ careless = FALSE

-----------------------------------------------------------------------------
(***************************************************************************)
(* Touches.                                                                *)
(***************************************************************************)
Touch == touches < MaxTouches /\ touches' = touches + 1

\* No counter or post-likes write is queued anywhere.
CounterSettled ==
    \A u \in User : \A i \in DOMAIN queue[u] : queue[u][i].coll \notin {"likes", "postLikes"}

\* The tapped cell shows what the database holds, and nobody is changing it.
Careful(u) ==
    /\ CounterSettled
    /\ cell[u].likes = likes
    /\ cell[u].didLike <=> u \in postLikes

\* Mutant: unlikePost without its guard.
DidTapUnguarded(u) ==
    /\ shown[u]
    /\ Touch
    /\ cell' = [cell EXCEPT ![u].didLike = ~@]
    /\ queue' = WriteMutations(u, IF cell[u].didLike THEN UnlikePost(u, cell[u].likes)
                                  ELSE LikePost(u, cell[u].likes))
    /\ careless' = (careless \/ ~Careful(u))
    /\ UNCHANGED <<asked, mainq, backendVars, listed, list, shown, faults, torn>>

\* FeedCell.didTapLikeButton and FeedVC.cell(_:didLike:).  The cell's flag is
\* toggled even when unlikePost returns at its guard.
DidTapLikeButton(u) ==
    /\ shown[u]
    /\ Touch
    /\ cell' = [cell EXCEPT ![u].didLike = ~@]
    /\ LET post == cell[u]
       IN  queue' = WriteMutations(u,
               IF ~post.didLike THEN LikePost(u, post.likes)
               ELSE IF post.likes > 0 THEN UnlikePost(u, post.likes)
               ELSE << >>)
    /\ careless' = (careless \/ ~Careful(u))
    /\ UNCHANGED <<asked, mainq, backendVars, listed, list, shown, faults, torn>>

\* FeedVC.detectRefresh: the list is emptied and fetched again.
DetectRefresh(u) ==
    /\ Touch
    /\ listed' = [listed EXCEPT ![u] = FALSE]
    /\ list' = [list EXCEPT ![u] = NoCopy]
    /\ mainq' = [mainq EXCEPT ![u] = Append(@, Reload)]
    /\ asked' = Ask(u, {"fetch"})
    /\ UNCHANGED <<queue, backendVars, shown, cell, faults, history>>

-----------------------------------------------------------------------------
(***************************************************************************)
(* The backend and the SDK.                                                *)
(***************************************************************************)

\* The backend stores the oldest write of u's device.
Commit(u) ==
    /\ queue[u] # << >>
    /\ LET w == Head(queue[u])
       IN  /\ NotifyUser(u, w, TRUE)
           /\ likes'     = IF w.coll = "likes" THEN w.n ELSE likes
           /\ postLikes' = Edited("postLikes", postLikes, w)
           /\ userLikes' = Edited("userLikes", userLikes, w)
           /\ notified'  = Edited("notifications", notified, w)
           /\ torn' = IF w.coll # "postLikes" THEN torn
                      ELSE IF w.then # NoOne THEN torn \ {u} ELSE torn \union {u}
    /\ UNCHANGED <<screenVars, counters, careless>>

Fault == faults < MaxFaults /\ faults' = faults + 1

\* The backend refuses it.
Reject(u) ==
    /\ Fault
    /\ queue[u] # << >>
    /\ LET w == Head(queue[u])
       IN  /\ NotifyUser(u, w, FALSE)
           /\ torn' = IF w.coll \in {"postLikes", "userLikes"} THEN torn \union {u} ELSE torn
           /\ careless' = (careless \/ w.coll \in {"likes", "postLikes"})
    /\ UNCHANGED <<backendVars, screenVars, touches>>

Answer(u, r) ==
    /\ Respond(u, r, Found(u, r))
    /\ UNCHANGED <<backendVars, screenVars, counters, history>>

FailToAnswer(u, r) ==
    /\ Fault
    /\ ReadFails(u, r)
    /\ UNCHANGED <<backendVars, screenVars, touches, history>>

\* The blocks of u's main queue that will issue its user-likes write.
LikeAcks(u) ==
    {i \in DOMAIN mainq[u] : mainq[u][i].type = "ack" /\ mainq[u][i].w.coll = "postLikes"}

\* The process of u's device dies and opens the feed again.
Kill(u) ==
    /\ Fault
    /\ queue' = [queue EXCEPT ![u] = Forgotten(@)]
    /\ asked' = [asked EXCEPT ![u] = [r \in Reads |-> IF r = "fetch" THEN 1 ELSE 0]]
    /\ mainq' = [mainq EXCEPT ![u] = << >>]
    /\ torn' = IF LikeAcks(u) # {} THEN torn \union {u} ELSE torn
    /\ listed' = [listed EXCEPT ![u] = FALSE]
    /\ list' = [list EXCEPT ![u] = NoCopy]
    /\ shown' = [shown EXCEPT ![u] = FALSE]
    /\ cell' = [cell EXCEPT ![u] = NoCopy]
    /\ UNCHANGED <<backendVars, touches, careless>>

-----------------------------------------------------------------------------
(***************************************************************************)
(* The main thread of u's device runs its oldest block b and posts bs.     *)
(***************************************************************************)
Running(u, b, bs) ==
    /\ mainq[u] # << >>
    /\ b = Head(mainq[u])
    /\ mainq' = RunFirst(u, bs)
    /\ UNCHANGED <<backendVars, counters, history>>

\* The closure in likePost / unlikePost: it ignores its error.
PostLikeAcked(u, b) ==
    /\ Running(u, b, << >>)
    /\ b.type = "ack" /\ b.w.coll = "postLikes"
    /\ queue' = WriteMutations(u, <<UserLikeWrite(u, b.w.op, b.w.n)>>)
    /\ UNCHANGED <<asked, screenVars>>

\* FeedVC's completion: the cell gets the new count, a like is announced to the
\* author.  (configure redraws the button from the cell's didLike.)
LikeCompletion(u, b) ==
    /\ Running(u, b, << >>)
    /\ b.type = "ack" /\ b.w.coll = "userLikes"
    /\ IF b.ok
       THEN /\ cell' = [cell EXCEPT ![u].likes = IF b.w.op = "set" THEN b.w.n + 1 ELSE b.w.n - 1]
            /\ queue' = WriteMutations(u, IF b.w.op = "set" /\ u # Author
                                          THEN <<NotificationWrite(u)>> ELSE << >>)
       ELSE UNCHANGED <<cell, queue>>
    /\ UNCHANGED <<asked, listed, list, shown>>

\* The completion of fetchFeedPosts: the list is replaced, which reloads the
\* screen, and user-likes is asked again.
Fetched(u, b) ==
    /\ Running(u, b, <<Reload>>)
    /\ b.type = "answer" /\ b.r = "fetch"
    /\ listed' = [listed EXCEPT ![u] = TRUE]
    /\ list' = [list EXCEPT ![u] = PostCopy(b.docs, FALSE)]
    /\ asked' = Ask(u, {"check"})
    /\ UNCHANGED <<queue, shown, cell>>

\* The completion of checkIfUserLikedPost; a post no longer listed is left.
Checked(u, b) ==
    /\ Running(u, b, IF listed[u] THEN <<Reload>> ELSE << >>)
    /\ b.type = "answer" /\ b.r = "check"
    /\ list' = IF listed[u] THEN [list EXCEPT ![u].didLike = b.docs] ELSE list
    /\ UNCHANGED <<queue, asked, listed, shown, cell>>

\* collectionView.reloadData.
ReloadData(u, b) ==
    /\ Running(u, b, << >>)
    /\ b.type = "reload"
    /\ shown' = [shown EXCEPT ![u] = listed[u]]
    /\ cell' = [cell EXCEPT ![u] = list[u]]
    /\ UNCHANGED <<queue, asked, listed, list>>

RunBlock(u) ==
    LET b == Head(mainq[u])
    IN  \/ PostLikeAcked(u, b)
        \/ LikeCompletion(u, b)
        \/ Fetched(u, b)
        \/ Checked(u, b)
        \/ ReloadData(u, b)

-----------------------------------------------------------------------------
Touched(u)  == DidTapLikeButton(u) \/ DetectRefresh(u)
Progress(u) == Commit(u) \/ (\E r \in Reads : Answer(u, r)) \/ RunBlock(u)
Failing(u)  == Reject(u) \/ (\E r \in Reads : FailToAnswer(u, r)) \/ Kill(u)

Next == \E u \in User : Touched(u) \/ Progress(u) \/ Failing(u)

Spec == Init /\ [][Next]_vars

-----------------------------------------------------------------------------
Ops == {"set", "delete"}
Copies == [likes : Nat, didLike : BOOLEAN]

\* The writes of u's device: no like counter is ever written below zero, since
\* unlikePost returns when its copy says zero.
WritesOf(u) ==
    {w \in [coll : {"likes", "postLikes", "userLikes", "notifications"}, op : Ops,
            key : {u}, n : Nat, then : {"chain", "cell", NoOne}] :
       w.op = "delete" => w.n > 0}

BlocksOf(u) ==
    [type : {"ack"}, w : WritesOf(u), ok : BOOLEAN]
    \union [type : {"answer"}, r : {"fetch"}, docs : Nat]
    \union [type : {"answer"}, r : {"check"}, docs : BOOLEAN]
    \union [type : {"reload"}]

\* Every variable has its type; in particular the counter, and every copy of
\* it, is never negative.
TypeOK ==
    /\ DOMAIN queue = User /\ \A u \in User : queue[u] \in Seq(WritesOf(u))
    /\ DOMAIN mainq = User /\ \A u \in User : mainq[u] \in Seq(BlocksOf(u))
    /\ asked \in [User -> [Reads -> Nat]]
    /\ likes \in Nat
    /\ postLikes \subseteq User /\ userLikes \subseteq User /\ notified \subseteq User
    /\ listed \in [User -> BOOLEAN] /\ shown \in [User -> BOOLEAN]
    /\ list \in [User -> Copies] /\ cell \in [User -> Copies]
    /\ touches \in 0..MaxTouches /\ faults \in 0..MaxFaults
    /\ torn \subseteq User /\ careless \in BOOLEAN

\* The user-likes writes of u's device that are not decided.
QueuedUserLikes(u) == {i \in DOMAIN queue[u] : queue[u][i].coll = "userLikes"}

\* likePost / unlikePost record a like under the post and under the user.  Once
\* the second write is neither waiting in a completion nor queued, the two
\* agree, unless the chain lost a write to a refusal or the death of the app.
LikeMirrored ==
    \A u \in User \ torn : LikeAcks(u) = {} /\ QueuedUserLikes(u) = {} =>
        (u \in postLikes <=> u \in userLikes)

\* The counter is written as a number, not incremented.  It still equals the
\* number of users under the post whenever no such write is queued, as long as
\* every tap was made from a cell that showed the current state and none of
\* those writes was refused: refreshes, late completions and restarts alone
\* never make it drift.
CounterExact ==
    ~careless /\ CounterSettled => likes = Cardinality(postLikes)

Idle(u) == queue[u] = << >> /\ mainq[u] = << >> /\ \A r \in Reads : asked[u][r] = 0

\* At rest, the heart of a shown post is full exactly when the user likes the
\* post: the "STATUS FOR LIKE OF POST" that FeedVC.swift line 164 names.
LikeButtonShowsTruth ==
    \A u \in User : shown[u] /\ Idle(u) => (cell[u].didLike <=> u \in userLikes)
=============================================================================
