---------------------------- MODULE ProfileScreen ----------------------------
(***************************************************************************)
(* The profile screen (ProfileVC and its ProfileHeader) on top of the      *)
(* services of SocialGraph: here the follow button does what it shows.     *)
(*                                                                         *)
(* The screen keeps its own user.isFollowed; the header cell holds a copy  *)
(* of that user, taken whenever the collection view reloads, and hands its *)
(* copy to the button's handler.  The flag is written by two completions,  *)
(* the one of checkIfUserIsFollowed and the one of follow / unfollow, and  *)
(* only reads of the screen make it reload.                                *)
(*                                                                         *)
(* Each account has one ProfileVC for each other account, kept on a        *)
(* navigation stack and shown again and again; the buttons of the other    *)
(* screens (follow in a notification, share) are not used.                 *)
(***************************************************************************)
EXTENDS SocialGraph

CONSTANTS
    Viewer,        \* bound: the users who look at profiles
    MaxViews       \* bound: how often a profile is shown

ASSUME ViewAssumption == Viewer \subseteq User /\ MaxViews \in Nat /\ "profile" \in Screen

VARIABLES
    isFollowed,    \* isFollowed[u][v]: user.isFollowed of u's ProfileVC of v
    header,        \* header[u][v]: the isFollowed copied into its header cell
    appeared,      \* pairs <<u, v>>: u's ProfileVC of v has been shown
    views,         \* how often a profile was shown
    lost,          \* how many reads of a screen failed
    misled         \* history: pairs whose screen lost an answer to a fault

screenVars == <<isFollowed, header, appeared, views, lost, misled>>
allVars    == <<vars, screenVars>>

-----------------------------------------------------------------------------
(***************************************************************************)
(* The reads of a profile screen.  fetchUserStats is a chain of three      *)
(* queries that ends in one completion; what it and fetchUserPosts find is *)
(* shown, and decides nothing.                                             *)
(***************************************************************************)
ScreenReads == [kind : {"check", "stats", "posts"}, of : User]

CheckIfUserIsFollowed(v)  == Read("check", v)
FetchUserStats(v)         == Read("stats", v)
FetchUserProfilePosts(v)  == Read("posts", v)

\* snapshot?.exists of following/u/user-following/v, for a check.
FoundOnScreen(u, r) ==
    IF r.kind = "check" /\ LocallyPresent(u, "following", <<u, r.of>>, docs["following"])
    THEN {r.of} ELSE {}

\* The block DispatchQueue.main.async { self.collectionView.reloadData() }.
Reload(v) == [type |-> "reload", of |-> v]

-----------------------------------------------------------------------------
NothingShown == [v \in User |-> FALSE]

ScreenInit ==
    /\ SdkInit(Reads \union ScreenReads)
    /\ GraphInit
    /\ isFollowed = [u \in User |-> NothingShown]
    /\ header     = [u \in User |-> NothingShown]
    /\ appeared   = {}
    /\ views      = 0
    /\ lost       = 0
    /\ misled     = {}

-----------------------------------------------------------------------------
\* ProfileVC.viewWillAppear.  On the own profile the button only prints a line.
ViewWillAppear(u, v) ==
    /\ views < MaxViews
    /\ views' = views + 1
    /\ u \in Viewer /\ v # u
    /\ asked' = Ask(u, {FetchUserStats(v), FetchUserProfilePosts(v), CheckIfUserIsFollowed(v)})
    /\ appeared' = appeared \union {<<u, v>>}
    /\ UNCHANGED <<queue, mainq, graphVars, isFollowed, header, lost, misled>>

\* ProfileVC.header(_:editProfileButtonClicked:), with the header's user.
EditProfileButtonClicked(u, v) ==
    /\ <<u, v>> \in appeared
    /\ CallFollow(u, v, OpFor(~header[u][v]), "profile")
    /\ UNCHANGED screenVars

\* Mutants: the screen is not brought up to date; the feed is not.
FollowCompletionNoReload(u, b) ==
    /\ ProfileCompletion(u, b, {})
    /\ isFollowed' = [isFollowed EXCEPT ![u][b.w.key[2]] = (b.w.op = "set")]
    /\ UNCHANGED <<header, appeared, views, lost, misled>>

FollowCompletionNoFeed(u, b) ==
    /\ RunningAlone(u, b)
    /\ b.type = "ack" /\ b.w.coll = "followers"
    /\ asked' = Ask(u, {FetchUserStats(b.w.key[2])})
    /\ isFollowed' = [isFollowed EXCEPT ![u][b.w.key[2]] = (b.w.op = "set")]
    /\ UNCHANGED <<queue, header, appeared, views, lost, misled>>

\* ProfileVC's completion of follow / unfollow: fetchUserStats, not the handler,
\* makes the screen reload.
FollowCompletion(u, b) ==
    /\ ProfileCompletion(u, b, {FetchUserStats(b.w.key[2])})
    /\ isFollowed' = [isFollowed EXCEPT ![u][b.w.key[2]] = (b.w.op = "set")]
    /\ UNCHANGED <<header, appeared, views, lost, misled>>

\* ProfileVC's completions of checkIfUserIsFollowed, fetchUserStats and
\* fetchUserProfilePosts: the screen reloads in a block of its own.
ScreenAnswered(u, b) ==
    /\ Running(u, b)
    /\ b.type = "answer" /\ b.r \in ScreenReads
    /\ isFollowed' = IF b.r.kind = "check"
                     THEN [isFollowed EXCEPT ![u][b.r.of] = (b.docs # {})]
                     ELSE isFollowed
    /\ mainq' = RunFirst(u, <<Reload(b.r.of)>>)
    /\ UNCHANGED <<queue, asked, header, appeared, views, lost, misled>>

\* collectionView.reloadData: the header is configured from the screen's user.
ReloadData(u, b) ==
    /\ RunningAlone(u, b)
    /\ b.type = "reload"
    /\ header' = [header EXCEPT ![u][b.of] = isFollowed[u][b.of]]
    /\ UNCHANGED <<queue, asked, isFollowed, appeared, views, lost, misled>>

RunScreenBlock(u) ==
    LET b == Head(mainq[u])
    IN  \/ ServiceBlock(u, b) /\ UNCHANGED screenVars
        \/ FollowCompletion(u, b)
        \/ ScreenAnswered(u, b)
        \/ ReloadData(u, b)

-----------------------------------------------------------------------------
(***************************************************************************)
(* The backend and the SDK, for the screen.                                *)
(***************************************************************************)
CommitForScreen(u) == Commit(u) /\ UNCHANGED screenVars

AnswerScreen(u, r) ==
    /\ IF r \in ScreenReads THEN Respond(u, r, FoundOnScreen(u, r)) /\ UNCHANGED graphVars
                            ELSE Answer(u, r)
    /\ UNCHANGED screenVars

\* All faults together stay within the bound.
Faulty == faults + lost < MaxFaults

\* A refused `following` write was already shown by a check that saw it queued.
RejectOnScreen(u) ==
    /\ Faulty /\ Reject(u)
    /\ misled' = IF Head(queue[u]).coll = "following"
                 THEN misled \union {Head(queue[u]).key} ELSE misled
    /\ UNCHANGED <<isFollowed, header, appeared, views, lost>>

\* fetchUserStats goes on with `?? 0` when one of its queries fails, so it
\* always ends in an answer.
FailOnScreen(u, r) ==
    /\ r.kind # "stats"
    /\ Faulty
    /\ \/ r \in ScreenReads /\ ReadFails(u, r) /\ lost' = lost + 1 /\ UNCHANGED graphVars
       \/ r \in Reads /\ FailToAnswer(u, r) /\ UNCHANGED lost
    /\ misled' = IF r.kind = "check" THEN misled \union {<<u, r.of>>} ELSE misled
    /\ UNCHANGED <<isFollowed, header, appeared, views>>

\* The restarted app has new screens, none of them shown.
KillScreens(u) ==
    /\ Faulty /\ Kill(u)
    /\ isFollowed' = [isFollowed EXCEPT ![u] = NothingShown]
    /\ header'     = [header EXCEPT ![u] = NothingShown]
    /\ appeared'   = {e \in appeared : e[1] # u}
    /\ misled'     = {e \in misled : e[1] # u}
    /\ UNCHANGED <<views, lost>>

-----------------------------------------------------------------------------
ScreenTouched(u) ==
    \E v \in User : ViewWillAppear(u, v) \/ EditProfileButtonClicked(u, v)

ScreenProgress(u) ==
    \/ CommitForScreen(u)
    \/ \E r \in Reads \union ScreenReads : AnswerScreen(u, r)
    \/ RunScreenBlock(u)

ScreenFailing(u) ==
    \/ RejectOnScreen(u)
    \/ \E r \in Reads \union ScreenReads : FailOnScreen(u, r)
    \/ KillScreens(u)

ScreenNext == \E u \in User : ScreenTouched(u) \/ ScreenProgress(u) \/ ScreenFailing(u)

ScreenSpec == ScreenInit /\ [][ScreenNext]_allVars

-----------------------------------------------------------------------------
\* The writes and blocks of u's device: those of the services, follows and
\* unfollows called by this screen only, and the screen's own blocks.
ScreenWritesOf(u) ==
    {w \in WritesOf(u) : w.coll \in {"following", "followers"} => w.then \in {"profile", NoOne}}

ScreenBlocksOf(u) ==
    {b \in BlocksOf(u) : b.type = "ack" => b.w \in ScreenWritesOf(u)}
    \union [type : {"answer"}, r : ScreenReads, docs : SUBSET User]
    \union [type : {"reload"}, of : User]

\* Every variable of the services and of the screen has its type: a device
\* writes only its own half of the graph, for this screen alone, and keeps no
\* screen of its own account.
ScreenTypeOK ==
    /\ DOMAIN queue = User /\ \A u \in User : queue[u] \in Seq(ScreenWritesOf(u))
    /\ DOMAIN mainq = User /\ \A u \in User : mainq[u] \in Seq(ScreenBlocksOf(u))
    /\ asked \in [User -> [Reads \union ScreenReads -> Nat]]
    /\ \A u \in User, r \in ShareReads : asked[u][r] > 0 => Owner[r.of] = u
    /\ DOMAIN docs = Coll /\ \A c \in Coll : docs[c] \subseteq Key(c)
    /\ isFollowed \in [User -> [User -> BOOLEAN]] /\ header \in [User -> [User -> BOOLEAN]]
    /\ appeared \subseteq Pair /\ misled \subseteq User \X User

\* When the device is idle, the follow button of a screen that has appeared
\* shows what the database says: header, screen and `following` agree, unless a
\* check of the screen failed or the backend refused a write it showed.
ButtonShowsTruth ==
    \A e \in appeared \ misled : Idle(e[1]) =>
        /\ header[e[1]][e[2]] = isFollowed[e[1]][e[2]]
        /\ isFollowed[e[1]][e[2]] <=> Follows(e)

(***************************************************************************)
(* With its screen, the app still behaves as SocialGraph says: the screen  *)
(* only decides which button is tapped, and its own reads and blocks slip  *)
(* in between those of the services.                                       *)
(***************************************************************************)
IsServiceBlock(b) == b.type = "ack" \/ (b.type = "answer" /\ b.r \in Reads)

\* What the services see of a main queue m: the block at the n-th of the
\* positions of their blocks is the n-th they see.
ServiceAt(m)   == {i \in DOMAIN m : IsServiceBlock(m[i])}
Rank(S, i)     == Cardinality({j \in S : j <= i})
ServicePart(m) ==
    [n \in 1..Cardinality(ServiceAt(m)) |->
        m[CHOOSE i \in ServiceAt(m) : Rank(ServiceAt(m), i) = n]]

ServiceAsked == [u \in User |-> [r \in Reads |-> asked[u][r]]]
ServiceMainq == [u \in User |-> ServicePart(mainq[u])]

Services == INSTANCE SocialGraph WITH asked <- ServiceAsked, mainq <- ServiceMainq

\* ProfileVC uses the services as SocialGraph allows: every behaviour of the
\* screen is one of the services with the screen's reads and blocks left out.
ImplementsServices == Services!Spec
=============================================================================
