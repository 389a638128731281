------------------------------ MODULE FeedScreen ------------------------------
(***************************************************************************)
(* The feed screen (FeedVC, FeedCell) of one user with several posts:      *)
(* fetching and refreshing the list, asking which posts are liked, the     *)
(* refresh control, and the cells, which UIKit lays out and uses again as  *)
(* the user scrolls.                                                       *)
(*                                                                         *)
(* fetchFeedPosts reads the feed, then every post of it on its own, and    *)
(* hands the list over once for each post that arrives; each call collects *)
(* into a list of its own, and calls may overlap.  Likes models what a tap *)
(* does to the documents of one post and of several users; here a tap      *)
(* matters for the cell it was made in, which may show another post when   *)
(* its completion runs.                                                    *)
(*                                                                         *)
(* UIKit counts the rows when the collection view is reloaded, and asks    *)
(* for a cell whenever a row comes into sight: then the list is indexed as *)
(* it is at that time.  An index the list does not have ends the program.  *)
(* The order of the list is left out: a row may be any post of it.         *)
(***************************************************************************)
EXTENDS Firestore, FiniteSets

CONSTANTS
    Viewer,        \* the user whose screen it is
    Post,          \* ids of posts
    Liked,         \* the posts the viewer liked before
    Refused,       \* posts whose document the backend may have refused to store
    Cell,          \* the reusable cells of the collection view
    MaxEvents,     \* bound: touches, changes of the feed and faults together
    MaxWaiting     \* bound: blocks of the main queue when another is posted to it

ASSUME ViewerAssumption == Viewer \in User /\ Liked \subseteq Post
ASSUME PostAssumption   == IsFiniteSet(Post) /\ Refused \subseteq Post
ASSUME FeedBounds       == MaxEvents \in Nat /\ MaxWaiting \in Nat \ {0}

VARIABLES
    feed,          \* documents of users/<Viewer>/user-feed
    userLikes,     \* documents of users/<Viewer>/user-likes
    absent,        \* posts that a feed may name and that have no document
    single,        \* FeedVC.post is set: the screen shows this post only
    fetches,       \* the calls of fetchFeedPosts: isRenewable, the feed each got
                   \* and the posts it has collected
    posts,         \* FeedVC.posts, or FeedVC.post: the posts with their didLike
    rows,          \* how many rows UIKit counted at the last reload
    cells,         \* cells on the screen with the post of their view model
    spinning,      \* the refresh control is refreshing
    trapped,       \* the list was indexed out of range: the program has ended
    events,        \* how much of the bound is used
    faults,        \* how many faults happened
    tapped,        \* history: posts whose heart was tapped
    reused         \* history: cells on the screen that were configured while a like
                   \* of another post tapped in them was in flight

backendVars == <<feed, userLikes, absent>>
screenVars  == <<single, fetches, posts, rows, cells, spinning, trapped>>
counters    == <<events, faults>>
history     == <<tapped, reused>>
vars        == <<sdkVars, backendVars, screenVars, counters, history>>

-----------------------------------------------------------------------------
Fetch == 1 .. MaxEvents + 1

FeedRead(k)    == <<"feed", k>>
PostRead(k, p) == <<"post", k, p>>
CheckRead(p)   == <<"check", p>>

FeedReads  == {FeedRead(k) : k \in Fetch}
PostReads  == {PostRead(k, p) : k \in Fetch, p \in Post}
CheckReads == {CheckRead(p) : p \in Post}
Reads      == FeedReads \union PostReads \union CheckReads

\* The two writes of likePost and unlikePost that are waited for.
LikeWrite(coll, op, p, c) ==
    [coll |-> coll, op |-> op, key |-> p, cell |-> c, then |-> "completion"]

NewFetch(isRenewable) == [isRenewable |-> isRenewable, docs |-> {}, got |-> {}]

Reload == [type |-> "reload"]

\* A view model; counts is the post its number of likes is of.
ViewModel(p, didLike) == [post |-> p, didLike |-> didLike, counts |-> p]

\* Reads that were asked for.
Outstanding == {r \in Reads : asked[Viewer][r] > 0}

\* The documents a read finds, in the latency-compensated view of the device.
Found(r) ==
    IF r \in FeedReads THEN feed
    ELSE IF r \in PostReads THEN {r[3]} \ absent
    ELSE {p \in {r[2]} : LocallyPresent(Viewer, "userLikes", p, userLikes)}

\* The cell and the post of every like in flight.
InFlight ==
    LET acks == {i \in DOMAIN mainq[Viewer] : mainq[Viewer][i].type = "ack"}
        ws   == {queue[Viewer][i] : i \in DOMAIN queue[Viewer]}
                  \union {mainq[Viewer][i].w : i \in acks}
    IN  {<<w.cell, w.key>> : w \in ws}

\* The list has changed and the collection view has not been told yet.
ReloadWaits == \E i \in DOMAIN mainq[Viewer] : mainq[Viewer][i].type = "reload"

\* Mutant: a row too many, as for a footer.
NumberOfItemsAndFooter == IF single THEN 1 ELSE Cardinality(DOMAIN posts) + 1

NumberOfItems == IF single THEN 1 ELSE Cardinality(DOMAIN posts)

-----------------------------------------------------------------------------
\* viewDidLoad: the feed is fetched, or the one post it was opened with checked.
Init ==
    /\ feed \in SUBSET Post /\ userLikes = Liked /\ absent \in SUBSET Refused
    /\ queue = [u \in User |-> << >>]
    /\ \/ /\ single = FALSE
          /\ fetches = <<NewFetch(FALSE)>>
          /\ posts = << >> /\ mainq = [u \in User |-> << >>]
          /\ asked = [u \in User |-> [r \in Reads |-> IF r = FeedRead(1) THEN 1 ELSE 0]]
       \/ /\ single = TRUE
          /\ fetches = << >> /\ mainq = [u \in User |-> <<Reload>>]
          /\ \E p \in Post \ absent :
                /\ posts = [q \in {p} |-> FALSE]
                /\ asked = [u \in User |-> [r \in Reads |-> IF r = CheckRead(p) THEN 1 ELSE 0]]
    /\ rows = NumberOfItems /\ cells = << >>
    /\ spinning = FALSE /\ trapped = FALSE
    /\ events = 0 /\ faults = 0
    /\ tapped = {} /\ reused = {}

-----------------------------------------------------------------------------
(***************************************************************************)
(* Touches.                                                                *)
(***************************************************************************)
Event == events < MaxEvents /\ events' = events + 1

\* Mutants: fetchPosts without its guard; the fetch is not marked as a refresh.
DetectRefreshUnguarded ==
    /\ posts' = << >>
    /\ mainq' = [mainq EXCEPT ![Viewer] = Append(@, Reload)]
    /\ fetches' = Append(fetches, NewFetch(TRUE))
    /\ asked' = Ask(Viewer, {FeedRead(Len(fetches) + 1)})
    /\ UNCHANGED <<queue, backendVars, single, rows, cells, trapped, faults, history>>
DetectRefreshUnmarked ==
    /\ posts' = IF single THEN posts ELSE << >>
    /\ mainq' = [mainq EXCEPT ![Viewer] = Append(@, Reload)]
    /\ IF single THEN UNCHANGED <<fetches, asked>>
       ELSE /\ fetches' = Append(fetches, NewFetch(FALSE))
            /\ asked' = Ask(Viewer, {FeedRead(Len(fetches) + 1)})
    /\ UNCHANGED <<queue, backendVars, single, rows, cells, trapped, faults, history>>

\* With a single post, fetchPosts returns at its guard.
DetectRefresh ==
    /\ posts' = IF single THEN posts ELSE << >>
    /\ mainq' = [mainq EXCEPT ![Viewer] = Append(@, Reload)]
    /\ IF single THEN UNCHANGED <<fetches, asked>>
       ELSE /\ fetches' = Append(fetches, NewFetch(TRUE))
            /\ asked' = Ask(Viewer, {FeedRead(Len(fetches) + 1)})
    /\ UNCHANGED <<queue, backendVars, single, rows, cells, trapped, faults, history>>

\* The refresh control fires when it is pulled and was at rest.
PullToRefresh ==
    /\ Event
    /\ ~spinning
    /\ spinning' = TRUE
    /\ DetectRefresh

\* The viewer has uploaded a post: the feed of the first tab is refreshed, whatever
\* its refresh control does.
ControllerDidFinishUploadingPost ==
    /\ Event
    /\ ~single
    /\ DetectRefresh
    /\ UNCHANGED spinning

\* FeedCell.didTapLikeButton and FeedVC.cell(_:didLike:).  unlikePost returns
\* without a write when the cell counts no likes.
DidTapLikeButton(c) ==
    /\ Event
    /\ c \in DOMAIN cells
    /\ tapped' = tapped \union {cells[c].post}
    /\ cells' = [cells EXCEPT ![c].didLike = ~@]
    /\ \/ queue' = WriteMutations(Viewer,
              <<LikeWrite("postLikes", IF cells[c].didLike THEN "delete" ELSE "set",
                          cells[c].post, c)>>)
       \/ cells[c].didLike /\ UNCHANGED queue
    /\ UNCHANGED <<asked, mainq, backendVars, single, fetches, posts, rows, spinning, trapped>>
    /\ UNCHANGED <<faults, reused>>

-----------------------------------------------------------------------------
(***************************************************************************)
(* UIKit lays the rows out.                                                *)
(***************************************************************************)

\* Cell c leaves the screen, to be used again.
ScrolledOut(c) ==
    /\ c \in DOMAIN cells
    /\ cells' = [d \in DOMAIN cells \ {c} |-> cells[d]]
    /\ reused' = reused \ {c}
    /\ UNCHANGED <<sdkVars, backendVars, single, fetches, posts, rows, spinning, trapped>>
    /\ UNCHANGED <<counters, tapped>>

\* Cell c is dequeued for a row that came into sight.  The rows on the screen are
\* of other posts, unless the list has changed since they were counted.
CellForItemAt(c) ==
    /\ c \in Cell \ DOMAIN cells
    /\ Cardinality(DOMAIN cells) < rows
    /\ \E p \in DOMAIN posts :
          /\ ReloadWaits \/ \A d \in DOMAIN cells : cells[d].post # p
          /\ cells' = [d \in DOMAIN cells \union {c} |->
                         IF d = c THEN ViewModel(p, posts[p]) ELSE cells[d]]
          /\ reused' = IF \E q \in Post \ {p} : <<c, q>> \in InFlight
                       THEN reused \union {c} ELSE reused
    /\ UNCHANGED <<sdkVars, backendVars, single, fetches, posts, rows, spinning, trapped>>
    /\ UNCHANGED <<counters, tapped>>

\* posts[indexPath.row], for a row that came into sight and the list does not have.
IndexOutOfRange ==
    /\ ~single
    /\ Cardinality(DOMAIN cells) < rows /\ Cardinality(DOMAIN posts) < rows
    /\ trapped' = TRUE
    /\ UNCHANGED <<sdkVars, backendVars, single, fetches, posts, rows, cells, spinning>>
    /\ UNCHANGED <<counters, history>>

-----------------------------------------------------------------------------
(***************************************************************************)
(* The backend, the other users and the SDK.                               *)
(***************************************************************************)

\* A followed user posts, or the viewer follows or leaves somebody.
FeedChanges(p) ==
    /\ Event
    /\ feed' = IF p \in feed THEN feed \ {p} ELSE feed \union {p}
    /\ UNCHANGED <<sdkVars, userLikes, absent, screenVars, faults, history>>

Answer(r) ==
    /\ Len(mainq[Viewer]) < MaxWaiting
    /\ Respond(Viewer, r, Found(r))
    /\ UNCHANGED <<backendVars, screenVars, counters, history>>

Commit ==
    /\ Len(mainq[Viewer]) < MaxWaiting
    /\ queue[Viewer] # << >>
    /\ LET w == Head(queue[Viewer])
       IN  /\ NotifyUser(Viewer, w, TRUE)
           /\ userLikes' = IF w.coll # "userLikes" THEN userLikes
                           ELSE IF w.op = "set" THEN userLikes \union {w.key}
                           ELSE userLikes \ {w.key}
    /\ UNCHANGED <<feed, absent, screenVars, counters, history>>

Fault == Event /\ faults' = faults + 1

FailToAnswer(r) ==
    /\ Fault
    /\ ReadFails(Viewer, r)
    /\ UNCHANGED <<backendVars, screenVars, history>>

Reject ==
    /\ Fault
    /\ queue[Viewer] # << >>
    /\ NotifyUser(Viewer, Head(queue[Viewer]), FALSE)
    /\ UNCHANGED <<backendVars, screenVars, history>>

-----------------------------------------------------------------------------
(***************************************************************************)
(* The main thread runs its oldest block b and posts bs.                   *)
(***************************************************************************)
Running(b, bs) ==
    /\ mainq[Viewer] # << >>
    /\ b = Head(mainq[Viewer])
    /\ mainq' = RunFirst(Viewer, bs)
    /\ UNCHANGED <<backendVars, single, trapped, counters>>

\* The feed has arrived: every post of it is read on its own.
FeedFetched(b) ==
    /\ Running(b, << >>)
    /\ b.type = "answer" /\ b.r \in FeedReads
    /\ fetches' = [fetches EXCEPT ![b.r[2]].docs = b.docs]
    /\ asked' = Ask(Viewer, {PostRead(b.r[2], p) : p \in b.docs})
    /\ UNCHANGED <<queue, posts, rows, cells, spinning, history>>

\* Mutants: the list is handed over before the post has joined it; only the new
\* post is checked.
PostFetchedTooEarly(b) ==
    /\ Running(b, <<Reload>>)
    /\ b.type = "answer" /\ b.r \in PostReads /\ b.docs # {}
    /\ LET k   == b.r[2]
           got == fetches[k].got \union {b.r[3]}
       IN  /\ fetches' = [fetches EXCEPT ![k].got = got]
           /\ posts' = [p \in fetches[k].got |-> FALSE]
           /\ asked' = Ask(Viewer, {CheckRead(p) : p \in fetches[k].got})
           /\ spinning' = (spinning /\ ~fetches[k].isRenewable)
    /\ UNCHANGED <<queue, rows, cells, history>>
PostFetchedChecksOne(b) ==
    /\ Running(b, <<Reload>>)
    /\ b.type = "answer" /\ b.r \in PostReads /\ b.docs # {}
    /\ LET k   == b.r[2]
           got == fetches[k].got \union {b.r[3]}
       IN  /\ fetches' = [fetches EXCEPT ![k].got = got]
           /\ posts' = [p \in got |-> FALSE]
           /\ asked' = Ask(Viewer, {CheckRead(b.r[3])})
           /\ spinning' = (spinning /\ ~fetches[k].isRenewable)
    /\ UNCHANGED <<queue, rows, cells, history>>

\* A post has arrived: it joins the list of its own call, which replaces the
\* list of the screen, and the likes of the whole list are checked again.
PostFetched(b) ==
    /\ Running(b, <<Reload>>)
    /\ b.type = "answer" /\ b.r \in PostReads /\ b.docs # {}
    /\ LET k   == b.r[2]
           got == fetches[k].got \union {b.r[3]}
       IN  /\ fetches' = [fetches EXCEPT ![k].got = got]
           /\ posts' = [p \in got |-> FALSE]
           /\ asked' = Ask(Viewer, {CheckRead(p) : p \in got})
           /\ spinning' = (spinning /\ ~fetches[k].isRenewable)
    /\ UNCHANGED <<queue, rows, cells, history>>

\* There is no such post: fetchPost returns at its guard and the list, the screen
\* and the refresh control stay as they are.
PostMissing(b) ==
    /\ Running(b, << >>)
    /\ b.type = "answer" /\ b.r \in PostReads /\ b.docs = {}
    /\ UNCHANGED <<queue, asked, fetches, posts, rows, cells, spinning, history>>

\* Mutant: the screen is not reloaded.
CheckedInSilence(b) ==
    /\ b.type = "answer" /\ b.r \in CheckReads
    /\ Running(b, << >>)
    /\ LET p == b.r[2]
       IN  posts' = IF p \in DOMAIN posts THEN [posts EXCEPT ![p] = b.docs # {}] ELSE posts
    /\ UNCHANGED <<queue, asked, fetches, rows, cells, spinning, history>>

\* The completion of checkIfUserLikedPost looks its post up by id again.
Checked(b) ==
    /\ b.type = "answer" /\ b.r \in CheckReads
    /\ LET p == b.r[2]
       IN  /\ Running(b, IF p \in DOMAIN posts THEN <<Reload>> ELSE << >>)
           /\ posts' = IF p \in DOMAIN posts THEN [posts EXCEPT ![p] = b.docs # {}] ELSE posts
    /\ UNCHANGED <<queue, asked, fetches, rows, cells, spinning, history>>

\* The closure in likePost and unlikePost, which ignores its error.
PostLikeAcked(b) ==
    /\ Running(b, << >>)
    /\ b.type = "ack" /\ b.w.coll = "postLikes"
    /\ queue' = WriteMutations(Viewer, <<LikeWrite("userLikes", b.w.op, b.w.key, b.w.cell)>>)
    /\ UNCHANGED <<asked, fetches, posts, rows, cells, spinning, history>>

\* FeedVC's completion writes the count of the tapped post into the tapped cell.
LikeCompletion(b) ==
    /\ Running(b, << >>)
    /\ b.type = "ack" /\ b.w.coll = "userLikes"
    /\ cells' = IF b.ok /\ b.w.cell \in DOMAIN cells
                THEN [cells EXCEPT ![b.w.cell].counts = b.w.key] ELSE cells
    /\ UNCHANGED <<queue, asked, fetches, posts, rows, spinning, history>>

\* Mutant: a reload brings the hearts on the screen up to date and nothing else.
ReloadDataOfHearts(b) ==
    /\ Running(b, << >>)
    /\ b.type = "reload"
    /\ rows' = NumberOfItems
    /\ cells' = [c \in {d \in DOMAIN cells : cells[d].post \in DOMAIN posts} |->
                   [cells[c] EXCEPT !.didLike = posts[cells[c].post]]]
    /\ reused' = {c \in DOMAIN cells' : \E p \in Post \ {cells[c].post} : <<c, p>> \in InFlight}
    /\ UNCHANGED <<queue, asked, fetches, posts, spinning, tapped>>

\* collectionView.reloadData: the rows are counted anew and all cells set free.
ReloadData(b) ==
    /\ Running(b, << >>)
    /\ b.type = "reload"
    /\ rows' = NumberOfItems
    /\ cells' = << >> /\ reused' = {}
    /\ UNCHANGED <<queue, asked, fetches, posts, spinning, tapped>>

RunBlock ==
    /\ mainq[Viewer] # << >>
    /\ LET b == Head(mainq[Viewer])
       IN  \/ FeedFetched(b) \/ PostFetched(b) \/ PostMissing(b) \/ Checked(b)
           \/ PostLikeAcked(b) \/ LikeCompletion(b) \/ ReloadData(b)

-----------------------------------------------------------------------------
Progress == ~trapped /\ (Commit \/ (\E r \in Outstanding : Answer(r)) \/ RunBlock)

Scrolled == (\E c \in Cell : ScrolledOut(c) \/ CellForItemAt(c)) \/ IndexOutOfRange

Touched == PullToRefresh \/ ControllerDidFinishUploadingPost \/ \E c \in Cell : DidTapLikeButton(c)

Next ==
    \/ Progress
    \/ ~trapped /\ (Scrolled \/ Touched)
    \/ ~trapped /\ \E p \in Post : FeedChanges(p)
    \/ ~trapped /\ (Reject \/ \E r \in Outstanding : FailToAnswer(r))

Spec == Init /\ [][Next]_vars /\ WF_vars(Progress)

-----------------------------------------------------------------------------
ViewModels == [post : Post, didLike : BOOLEAN, counts : Post]

\* Every variable of the screen has its type; a single post is never lost.
TypeOK ==
    /\ feed \subseteq Post /\ userLikes \subseteq Post /\ absent \subseteq Post
    /\ single \in BOOLEAN /\ spinning \in BOOLEAN /\ trapped \in BOOLEAN
    /\ fetches \in Seq([isRenewable : BOOLEAN, docs : SUBSET Post, got : SUBSET Post])
    /\ DOMAIN posts \subseteq Post /\ \A p \in DOMAIN posts : posts[p] \in BOOLEAN
    /\ rows \in Nat
    /\ DOMAIN cells \subseteq Cell /\ \A c \in DOMAIN cells : cells[c] \in ViewModels
    /\ asked \in [User -> [Reads -> Nat]]
    /\ tapped \subseteq Post /\ reused \subseteq DOMAIN cells
    /\ single => Cardinality(DOMAIN posts) = 1

AtRest == queue[Viewer] = << >> /\ mainq[Viewer] = << >> /\ Outstanding = {}

\* fetchFeedPosts of several refreshes may overlap, and each hands its list over
\* post by post.  When everything has arrived the screen still shows the list
\* of one of the calls, all of it that exists and nothing of another; which one is
\* not said.
ListIsOneFetch ==
    AtRest /\ ~single => \E k \in DOMAIN fetches :
        /\ DOMAIN posts = fetches[k].got
        /\ faults = 0 => fetches[k].got = fetches[k].docs \ absent

\* Each post that arrives resets the hearts of the whole list, and the checks of
\* every earlier list are still under way.  When everything has arrived, each
\* post nobody tapped has the right heart.
HeartsSettle ==
    AtRest /\ faults = 0 =>
        \A p \in DOMAIN posts \ tapped : posts[p] <=> p \in userLikes

\* FeedVC reloads the collection view in a block of its own, after the list has
\* changed, while cellForItemAt indexes the list as it is by then.  As long as no
\* such block waits, UIKit has counted the rows of the list as it is, and the cells
\* on the screen show posts of it, each at most once and with its heart as it is in
\* the list unless it was tapped.
ScreenFollowsList ==
    \/ ReloadWaits
    \/ /\ rows = Cardinality(DOMAIN posts)
       /\ \A c \in DOMAIN cells :
             /\ cells[c].post \in DOMAIN posts
             /\ cells[c].post \in tapped \/ cells[c].didLike = posts[cells[c].post]
             /\ \A d \in DOMAIN cells : cells[d].post = cells[c].post => d = c

\* A row may come into sight while a reload waits.  Then posts[indexPath.row] ends
\* the program if the list has got shorter.  The lists of one call of fetchFeedPosts
\* only grow, so this takes a second call, that is a refresh.
TrapsNeedRefresh == trapped => ~single /\ Len(fetches) > 1

\* The completion of a like writes its count into the cell that was tapped.  The
\* count a cell shows is of the post it shows, or of a post that was tapped in it
\* and whose like was in flight when the cell was configured for the other post; so
\* the mistake is gone when the cell is configured again after the completion.
CountsOwnPost ==
    \A c \in DOMAIN cells :
        \/ cells[c].counts = cells[c].post
        \/ c \in reused /\ cells[c].counts \in tapped

\* endRefreshing is called by the completion of a post only.  With a feed that is
\* never without a post that exists, and reads that do not fail, every pull to
\* refresh ends.
SpinnerStops ==
    [](~single /\ faults = 0 /\ feed \ absent # {} /\ ~trapped) => (spinning ~> ~spinning)
=============================================================================
