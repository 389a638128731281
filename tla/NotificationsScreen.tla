------------------------- MODULE NotificationsScreen -------------------------
(***************************************************************************)
(* The notifications screen (NotificationsVC, NotificationCell) of one     *)
(* user, and the progress HUD that it shares with every other screen.      *)
(*                                                                         *)
(* The screen lists notifications; one about a new follower has a button   *)
(* that follows back.  Whether the sender is followed already is asked for *)
(* each row after the list has arrived.  A tap shows the HUD, which keeps  *)
(* touches off the screen, writes the two halves of the follow, and the    *)
(* completion hides the HUD and toggles the button of the tapped cell.     *)
(* JGProgressHUD ignores `show` while it is visible or moving, and touches *)
(* may pass through it while it fades in or out.                           *)
(*                                                                         *)
(* UIKit counts the rows when the table is reloaded, and asks for a cell   *)
(* whenever a row comes into sight, in between too; there are as many      *)
(* cells as the screen shows, and they are used again.                     *)
(***************************************************************************)
EXTENDS Firestore, FiniteSets

CONSTANTS
    Viewer,        \* the user whose screen it is
    Note,          \* ids of notifications
    Sender,        \* Sender[n]: who caused it
    FollowNote,    \* the notifications of type .follow
    Known,         \* senders the viewer may follow already
    Cell,          \* the reusable cells of the table view
    MaxEvents,     \* bound: touches, new notifications and faults together
    MaxWaiting     \* bound: blocks of the main queue when another is posted to it

ASSUME NotesAssumption ==
    /\ Viewer \in User /\ Sender \in [Note -> User \ {Viewer}] /\ FollowNote \subseteq Note
    /\ Known \subseteq {Sender[n] : n \in Note}
    /\ IsFiniteSet(Note)
ASSUME NotesBounds == MaxEvents \in Nat /\ MaxWaiting \in Nat \ {0}

VARIABLES
    following,     \* users under following/<Viewer>
    stored,        \* documents of notifications/<Viewer>
    list,          \* NotificationsVC.notifications with their userIsFollowed
    rows,          \* how many rows UIKit counted at the last reload
    cells,         \* cells on the screen with the notification of their view model
    trapped,       \* the list was indexed out of range: the program has ended
    hud,           \* UIViewController.hud
    others,        \* requests of other screens that are to hide the HUD
    events,        \* how much of the bound is used
    unanswered,    \* history: how many reads that were to hide the HUD failed
    tapped,        \* history: notifications whose sender was tapped after their last check
    doubtful,      \* history: notifications whose button may be wrong, see ButtonShowsTruth
    refreshed      \* history: the list was emptied to refresh it

backendVars == <<following, stored>>
screenVars  == <<list, rows, cells, trapped>>
history     == <<unanswered, tapped, doubtful, refreshed>>
vars        == <<sdkVars, backendVars, screenVars, hud, others, events, history>>

-----------------------------------------------------------------------------
NotesRead    == <<"notes">>
OpenRead     == <<"open">>             \* fetchUser or fetchPost of a touched row
CheckRead(n) == <<"check", n>>
CheckReads   == {CheckRead(n) : n \in Note}
Reads        == {NotesRead, OpenRead} \union CheckReads

Outstanding == {r \in Reads : asked[Viewer][r] > 0}

\* The two writes of UserService.follow and unfollow.
FollowWrite(coll, op, uid, c) ==
    [coll |-> coll, op |-> op, key |-> uid, cell |-> c, then |-> "completion"]

Reload == [type |-> "reload"]

\* The other screens that show the HUD while they wait: SearchVC and CommentVC.
OtherScreen == {"search", "comment"}

ViewModel(n, isFollowed) == [note |-> n, userIsFollowed |-> isFollowed]

\* The documents a read finds, in the latency-compensated view of the device.
Found(r) ==
    IF r = NotesRead THEN stored
    ELSE IF r = OpenRead THEN {}
    ELSE {n \in {r[2]} : LocallyPresent(Viewer, "following", Sender[n], following)}

\* The writes of follows and unfollows that have not come to their completion.
InFlight ==
    LET acks == {i \in DOMAIN mainq[Viewer] : mainq[Viewer][i].type = "ack"}
    IN  {queue[Viewer][i] : i \in DOMAIN queue[Viewer]} \union {mainq[Viewer][i].w : i \in acks}

Pending(uid) == \E w \in InFlight : w.key = uid

NotesOf(uid) == {n \in Note : Sender[n] = uid}

\* The list has changed and the table has not been told yet.
ReloadWaits == \E i \in DOMAIN mainq[Viewer] : mainq[Viewer][i].type = "reload"

NumberOfRows == Cardinality(DOMAIN list)

-----------------------------------------------------------------------------
(***************************************************************************)
(* JGProgressHUD, as showLoader uses it.                                   *)
(***************************************************************************)
Hidden == [phase |-> "hidden", place |-> "none", dismiss |-> FALSE]

\* showInView does nothing unless the HUD is hidden and at rest.
Show(h, place) ==
    IF h.phase = "hidden" THEN [phase |-> "presenting", place |-> place, dismiss |-> FALSE] ELSE h

\* Mutant: a dismissal while the HUD is moving is forgotten.
DismissForgotten(h) ==
    IF h.phase = "shown" THEN [h EXCEPT !.phase = "dismissing"] ELSE h

\* dismissAnimated is put off while the HUD is moving.
Dismiss(h) ==
    IF h.phase \in {"presenting", "dismissing"} THEN [h EXCEPT !.dismiss = TRUE]
    ELSE IF h.phase = "shown" THEN [h EXCEPT !.phase = "dismissing"]
    ELSE h

\* Mutant: the HUD keeps its target view when it has been dismissed.
AnimationDidFinishKeepsView ==
    /\ hud.phase \in {"presenting", "dismissing"}
    /\ hud' = IF hud.phase = "dismissing" THEN [Hidden EXCEPT !.place = hud.place]
              ELSE [hud EXCEPT !.phase = IF hud.dismiss THEN "dismissing" ELSE "shown",
                               !.dismiss = FALSE]
    /\ UNCHANGED <<sdkVars, backendVars, screenVars, others, events, history>>

\* animationDidFinish: cleanUpAfterPresentation and cleanUpAfterDismissal.
AnimationDidFinish ==
    /\ hud.phase \in {"presenting", "dismissing"}
    /\ hud' = IF hud.phase = "dismissing" THEN Hidden
              ELSE [hud EXCEPT !.phase = IF hud.dismiss THEN "dismissing" ELSE "shown",
                               !.dismiss = FALSE]
    /\ UNCHANGED <<sdkVars, backendVars, screenVars, others, events, history>>

\* The HUD keeps touches off the notifications screen (interactionType is to block
\* all).  A view that is being animated takes none itself.
Blocked == hud.place = "here" /\ hud.phase = "shown"

-----------------------------------------------------------------------------
Init ==
    /\ stored \in SUBSET Note /\ following \in SUBSET Known
    /\ queue = [u \in User |-> << >>] /\ mainq = [u \in User |-> << >>]
    /\ asked = [u \in User |-> [r \in Reads |-> IF r = NotesRead THEN 1 ELSE 0]]
    /\ list = << >> /\ rows = NumberOfRows /\ cells = << >> /\ trapped = FALSE
    /\ hud = Hidden /\ others = [s \in OtherScreen |-> 0]
    /\ events = 0 /\ unanswered = 0 /\ tapped = {} /\ doubtful = {} /\ refreshed = FALSE

-----------------------------------------------------------------------------
(***************************************************************************)
(* Touches, and the other screens.                                         *)
(***************************************************************************)
Event == events < MaxEvents /\ events' = events + 1

\* Mutant: the list is emptied each time the screen appears.
ViewWillAppearEmpties ==
    /\ Event
    /\ list' = << >>
    /\ mainq' = [mainq EXCEPT ![Viewer] = Append(@, Reload)]
    /\ asked' = Ask(Viewer, {NotesRead})
    /\ UNCHANGED <<queue, backendVars, rows, cells, trapped, hud, others, history>>

\* The screen appears again, after another tab or a pushed screen.
ViewWillAppear ==
    /\ Event
    /\ asked' = Ask(Viewer, {NotesRead})
    /\ UNCHANGED <<queue, mainq, backendVars, screenVars, hud, others, history>>

\* Mutant: removeAll without the observer that reloads the table.
DetectRefreshInSilence ==
    /\ Event
    /\ ~Blocked
    /\ list' = << >> /\ refreshed' = TRUE
    /\ asked' = Ask(Viewer, {NotesRead})
    /\ UNCHANGED <<queue, mainq, backendVars, rows, cells, trapped, hud, others>>
    /\ UNCHANGED <<unanswered, tapped, doubtful>>

DetectRefresh ==
    /\ Event
    /\ ~Blocked
    /\ list' = << >> /\ refreshed' = TRUE
    /\ mainq' = [mainq EXCEPT ![Viewer] = Append(@, Reload)]
    /\ asked' = Ask(Viewer, {NotesRead})
    /\ UNCHANGED <<queue, backendVars, rows, cells, trapped, hud, others>>
    /\ UNCHANGED <<unanswered, tapped, doubtful>>

\* The button of cell c: cell(_:wantsToFollow:) or cell(_:wantsToUnfollow:).
FollowButtonClicked(c) ==
    /\ Event
    /\ ~Blocked
    /\ c \in DOMAIN cells /\ cells[c].note \in FollowNote
    /\ hud' = Show(hud, "here")
    /\ LET uid == Sender[cells[c].note]
       IN  /\ queue' = WriteMutations(Viewer,
                  <<FollowWrite("following", IF cells[c].userIsFollowed THEN "delete" ELSE "set",
                                uid, c)>>)
           /\ tapped' = tapped \union NotesOf(uid)
           /\ doubtful' = doubtful \union (IF Pending(uid) THEN NotesOf(uid)
                                          ELSE NotesOf(uid) \ {cells[c].note})
    /\ UNCHANGED <<asked, mainq, backendVars, screenVars, others, unanswered, refreshed>>

\* A row on the screen is selected: the user of that row of the list, as it is by
\* now, is fetched.
DidSelectRow ==
    /\ Event
    /\ ~Blocked
    /\ DOMAIN cells # {} /\ DOMAIN list # {}
    /\ hud' = Show(hud, "here")
    /\ asked' = Ask(Viewer, {OpenRead})
    /\ UNCHANGED <<queue, mainq, backendVars, screenVars, others, history>>

\* The picture in cell c is tapped: the post of its view model is fetched.
WantsToViewPost(c) ==
    /\ Event
    /\ ~Blocked
    /\ c \in DOMAIN cells /\ cells[c].note \notin FollowNote
    /\ hud' = Show(hud, "here")
    /\ asked' = Ask(Viewer, {OpenRead})
    /\ UNCHANGED <<queue, mainq, backendVars, screenVars, others, history>>

\* Screen s shows the HUD for a request of its own.
OtherScreenLoads(s) ==
    /\ Event
    /\ hud' = Show(hud, "elsewhere")
    /\ others' = [others EXCEPT ![s] = @ + 1]
    /\ UNCHANGED <<sdkVars, backendVars, screenVars, history>>

\* Its completion hides the HUD; CommentVC's ignores its error.
OtherScreenLoaded(s) ==
    /\ others[s] > 0
    /\ others' = [others EXCEPT ![s] = @ - 1]
    /\ hud' = Dismiss(hud)
    /\ UNCHANGED <<sdkVars, backendVars, screenVars, events, history>>

\* PostService.fetchPosts returns at its guard, and SearchVC's completion never runs.
SearchFails ==
    /\ Event
    /\ others["search"] > 0
    /\ others' = [others EXCEPT !["search"] = @ - 1]
    /\ unanswered' = unanswered + 1
    /\ UNCHANGED <<sdkVars, backendVars, screenVars, hud, tapped, doubtful, refreshed>>

\* UploadPostVC shows the HUD and hides it in one call, before the upload is done.
ShareButtonPressed ==
    /\ Event
    /\ hud' = Dismiss(Show(hud, "elsewhere"))
    /\ UNCHANGED <<sdkVars, backendVars, screenVars, others, history>>

-----------------------------------------------------------------------------
(***************************************************************************)
(* UIKit lays the rows out.                                                *)
(***************************************************************************)

\* Cell c leaves the screen, to be used again.
ScrolledOut(c) ==
    /\ c \in DOMAIN cells
    /\ cells' = [d \in DOMAIN cells \ {c} |-> cells[d]]
    /\ UNCHANGED <<sdkVars, backendVars, list, rows, trapped, hud, others, events, history>>

\* Cell c is dequeued for a row that came into sight, and shows it as it is in the
\* list.  The rows on the screen are other ones, unless the list has changed since
\* they were counted.
CellForRowAt(c) ==
    /\ c \in Cell \ DOMAIN cells
    /\ Cardinality(DOMAIN cells) < rows
    /\ \E n \in DOMAIN list :
          /\ ReloadWaits \/ \A d \in DOMAIN cells : cells[d].note # n
          /\ cells' = [d \in DOMAIN cells \union {c} |->
                         IF d = c THEN ViewModel(n, list[n]) ELSE cells[d]]
          /\ doubtful' = IF n \in tapped \/ \E w \in InFlight : w.cell = c
                         THEN doubtful \union {n} ELSE doubtful
    /\ UNCHANGED <<sdkVars, backendVars, list, rows, trapped, hud, others, events>>
    /\ UNCHANGED <<unanswered, tapped, refreshed>>

\* notifications[indexPath.row], for a row the list does not have any more: it came
\* into sight, or was selected.
IndexOutOfRange ==
    /\ Cardinality(DOMAIN list) < rows
    /\ Cardinality(DOMAIN cells) < rows \/ (DOMAIN cells # {} /\ ~Blocked)
    /\ trapped' = TRUE
    /\ UNCHANGED <<sdkVars, backendVars, list, rows, cells, hud, others, events, history>>

-----------------------------------------------------------------------------
(***************************************************************************)
(* The backend, the other users and the SDK.                               *)
(***************************************************************************)
NoteArrives(n) ==
    /\ Event
    /\ n \notin stored
    /\ stored' = stored \union {n}
    /\ UNCHANGED <<sdkVars, following, screenVars, hud, others, history>>

Answer(r) ==
    /\ Len(mainq[Viewer]) < MaxWaiting
    /\ Respond(Viewer, r, Found(r))
    /\ UNCHANGED <<backendVars, screenVars, hud, others, events, history>>

Commit ==
    /\ Len(mainq[Viewer]) < MaxWaiting
    /\ queue[Viewer] # << >>
    /\ LET w == Head(queue[Viewer])
       IN  /\ NotifyUser(Viewer, w, TRUE)
           /\ following' = IF w.coll # "following" THEN following
                           ELSE IF w.op = "set" THEN following \union {w.key}
                           ELSE following \ {w.key}
    /\ UNCHANGED <<stored, screenVars, hud, others, events, history>>

FailToAnswer(r) ==
    /\ Event
    /\ ReadFails(Viewer, r)
    /\ unanswered' = IF r = OpenRead THEN unanswered + 1 ELSE unanswered
    /\ doubtful' = doubtful \union {n \in Note : CheckRead(n) = r}
    /\ UNCHANGED <<backendVars, screenVars, hud, others, tapped, refreshed>>

Reject ==
    /\ Event
    /\ queue[Viewer] # << >>
    /\ NotifyUser(Viewer, Head(queue[Viewer]), FALSE)
    /\ doubtful' = doubtful \union NotesOf(Head(queue[Viewer]).key)
    /\ UNCHANGED <<backendVars, screenVars, hud, others, unanswered, tapped, refreshed>>

-----------------------------------------------------------------------------
(***************************************************************************)
(* The main thread runs its oldest block b and posts bs.                   *)
(***************************************************************************)
Running(b, bs) ==
    /\ b = Head(mainq[Viewer])
    /\ mainq' = RunFirst(Viewer, bs)
    /\ UNCHANGED <<backendVars, trapped, others, events, unanswered, refreshed>>

\* The completion of fetchNotifications: the senders of follows are checked.
NotesFetched(b) ==
    /\ Running(b, <<Reload>>)
    /\ b.type = "answer" /\ b.r = NotesRead
    /\ list' = [n \in b.docs |-> FALSE]
    /\ asked' = Ask(Viewer, {CheckRead(n) : n \in b.docs \intersect FollowNote})
    /\ UNCHANGED <<queue, rows, cells, hud, tapped, doubtful>>

\* The completion of checkIfUserIsFollowed looks its row up by id again.
Checked(b) ==
    /\ b.type = "answer" /\ b.r \in CheckReads
    /\ LET n == b.r[2]
       IN  /\ Running(b, IF n \in DOMAIN list THEN <<Reload>> ELSE << >>)
           /\ list' = IF n \in DOMAIN list THEN [list EXCEPT ![n] = b.docs # {}] ELSE list
           /\ LET settled == IF Pending(Sender[n]) THEN {} ELSE {n}
              IN  tapped' = tapped \ settled /\ doubtful' = doubtful \ settled
    /\ UNCHANGED <<queue, asked, rows, cells, hud>>

\* The completion of fetchUser or fetchPost pushes another screen.
Opened(b) ==
    /\ Running(b, << >>)
    /\ b.type = "answer" /\ b.r = OpenRead
    /\ hud' = Dismiss(hud)
    /\ UNCHANGED <<queue, asked, list, rows, cells, tapped, doubtful>>

\* The closure in follow and unfollow, which ignores its error.
FollowingAcked(b) ==
    /\ Running(b, << >>)
    /\ b.type = "ack" /\ b.w.coll = "following"
    /\ queue' = WriteMutations(Viewer, <<FollowWrite("followers", b.w.op, b.w.key, b.w.cell)>>)
    /\ UNCHANGED <<asked, list, rows, cells, hud, tapped, doubtful>>

\* Mutant: the completion only hides the HUD.
FollowCompletionOnlyHides(b) ==
    /\ Running(b, << >>)
    /\ b.type = "ack" /\ b.w.coll = "followers"
    /\ hud' = Dismiss(hud)
    /\ UNCHANGED <<queue, asked, list, rows, cells, tapped, doubtful>>

\* The screen's completion, which ignores its error as well.
FollowCompletion(b) ==
    /\ Running(b, << >>)
    /\ b.type = "ack" /\ b.w.coll = "followers"
    /\ hud' = Dismiss(hud)
    /\ cells' = IF b.w.cell \in DOMAIN cells
                THEN [cells EXCEPT ![b.w.cell].userIsFollowed = ~@] ELSE cells
    /\ UNCHANGED <<queue, asked, list, rows, tapped, doubtful>>

\* tableView.reloadData: the rows are counted anew and all cells set free.  What a
\* completion had made of a tapped button is lost.
ReloadData(b) ==
    /\ Running(b, << >>)
    /\ b.type = "reload"
    /\ rows' = NumberOfRows
    /\ cells' = << >>
    /\ doubtful' = doubtful \union tapped
    /\ UNCHANGED <<queue, asked, list, hud, tapped>>

RunBlock ==
    /\ mainq[Viewer] # << >>
    /\ LET b == Head(mainq[Viewer])
       IN  \/ NotesFetched(b) \/ Checked(b) \/ Opened(b)
           \/ FollowingAcked(b) \/ FollowCompletion(b) \/ ReloadData(b)

-----------------------------------------------------------------------------
Progress ==
    /\ ~trapped
    /\ \/ Commit \/ (\E r \in Outstanding : Answer(r)) \/ RunBlock
       \/ AnimationDidFinish \/ \E s \in OtherScreen : OtherScreenLoaded(s)

Scrolled == (\E c \in Cell : ScrolledOut(c) \/ CellForRowAt(c)) \/ IndexOutOfRange

Touched ==
    \/ ViewWillAppear \/ DetectRefresh \/ DidSelectRow
    \/ \E c \in Cell : FollowButtonClicked(c) \/ WantsToViewPost(c)

Elsewhere ==
    \/ \E s \in OtherScreen : OtherScreenLoads(s)
    \/ SearchFails \/ ShareButtonPressed
    \/ \E n \in Note : NoteArrives(n)

Next ==
    \/ Progress
    \/ ~trapped /\ (Scrolled \/ Touched \/ Elsewhere)
    \/ ~trapped /\ (Reject \/ \E r \in Outstanding : FailToAnswer(r))

Spec == Init /\ [][Next]_vars /\ WF_vars(Progress)

-----------------------------------------------------------------------------
\* Every variable of the screen and of the HUD has its type.
TypeOK ==
    /\ following \subseteq User \ {Viewer} /\ stored \subseteq Note
    /\ DOMAIN list \subseteq stored /\ \A n \in DOMAIN list : list[n] \in BOOLEAN
    /\ rows \in Nat /\ trapped \in BOOLEAN /\ DOMAIN cells \subseteq Cell
    /\ \A c \in DOMAIN cells : cells[c] \in [note : Note, userIsFollowed : BOOLEAN]
    /\ hud \in [phase : {"hidden", "presenting", "shown", "dismissing"},
                place : {"none", "here", "elsewhere"}, dismiss : BOOLEAN]
    /\ hud.phase = "hidden" <=> hud.place = "none"
    /\ asked \in [User -> [Reads -> Nat]] /\ others \in [OtherScreen -> Nat]
    /\ unanswered \in Nat /\ tapped \subseteq Note /\ doubtful \subseteq Note
    /\ refreshed \in BOOLEAN

AtRest == queue[Viewer] = << >> /\ mainq[Viewer] = << >> /\ Outstanding = {}

\* The completion toggles the button of the tapped cell instead of setting it, and
\* leaves the list as it was.  At rest a button shows whether the sender is
\* followed, except when since the last check of its row the sender was tapped
\* twice before a completion or in another row, the row was shown anew after a tap
\* (the table was reloaded, or it was scrolled out and back), the cell got it while
\* another row's tap in that cell was in flight, or a write or the check failed.
ButtonShowsTruth ==
    AtRest => \A c \in DOMAIN cells :
        LET n == cells[c].note
        IN  n \in FollowNote \ doubtful => (cells[c].userIsFollowed <=> Sender[n] \in following)

\* cellForRowAt and didSelectRowAt index the list as it is by then, and the table is
\* reloaded in a block of its own.  As long as none waits, UIKit has counted the
\* rows of the list as it is, and the cells on the screen show notifications of it,
\* each at most once.
RowsFollowList ==
    \/ ReloadWaits
    \/ /\ rows = NumberOfRows
       /\ \A c \in DOMAIN cells :
             /\ cells[c].note \in DOMAIN list
             /\ \A d \in DOMAIN cells : cells[d].note = cells[c].note => d = c

\* A row may come into sight, or be selected, while a reload waits; then
\* notifications[indexPath.row] ends the program if the list has got shorter.
\* Several calls of fetchNotifications may be under way, but notifications are
\* never removed, and so it takes detectRefresh, which empties the list.
TrapsNeedRefresh == trapped => refreshed

\* One HUD serves every screen, its shows may be ignored and its dismissals put
\* off.  Unless a read that was to hide it fails, of a touched row here or of the
\* posts on the search screen, it goes away each time.
HudGoesAway ==
    [](unanswered = 0 /\ ~trapped) => []<>(hud.phase = "hidden")
=============================================================================
