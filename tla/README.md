# A TLA+ model of InstagramClone

InstagramClone is an iOS client (Swift, UIKit) of a Firebase backend.  The app's
own code is `src/InstagramFirebaseWork/InstagramFirebaseWork` (47 Swift files,
about 3600 lines); everything under `Pods` is vendored.  There is no server code
and no test: all of the program's consistency rests on the order in which one
device's asynchronous calls, the main queue and the other devices interleave.
That is what this project models, together with the part of the vendored code
this rests on: the write path of the Firestore SDK and the HUD.  Paths below are
relative to the app's directory.

## 1. The system

### 1.1 Components

| component | state it keeps | operations | correctness |
|---|---|---|---|
| Firestore SDK (vendored) | per device: mutation queue on disk, outstanding reads, callbacks | setData, updateData, addDocument, delete, getDocument(s) | writes of one account are decided in order, once each, and sent by that account; reads see the device's own queued writes |
| `API/UserService` | `following/u/user-following/v`, `followers/v/user-followers/u` | follow, unfollow, checkIfUserIsFollowed, fetchUserStats, fetchUser(s) | the two documents of one fact agree |
| `API/PostService` | `posts`, `users/u/user-feed`, `likes` of a post, `post-likes`, `user-likes` | uploadPost, fetch..., likePost, unlikePost, two feed updates | a feed holds the posts of the users followed; the counter counts; both records of a like agree |
| `API/NotificationService` | `notifications/v/user-notifications` | uploadNotification, fetchNotifications | nobody is notified of an own action |
| `API/ImageUploader` | Storage | uploadImage | the completion runs once the URL is known, or never |
| `API/AuthService` | Firebase Auth, `users/u` | registerUser, login, resetPassword | an account has a user document |
| `API/CommentService` | `posts/p/comments` | uploadComment, fetchComments | comments come in the order of their time |
| `ProfileVC`, `ProfileHeader` | `user.isFollowed`, the header's copy of the user | viewWillAppear, the follow button, reload | the button shows the truth |
| `FeedVC`, `FeedCell` | `posts`, the post in each cell, the refresh control | fetch, refresh, like, comment, log out | the heart shows the truth; refreshing ends |
| `NotificationsVC`, `NotificationCell` | the notifications, each cell's `userIsFollowed` | fetch, follow, unfollow, open a post | each cell shows the truth; the loader ends |
| `UploadPostVC` | image, caption | share, cancel | one press, one post; at most 100 characters |
| `IFTabBarController` | `user`, five tabs | checkCurrentUser, fetchUser, authenticationComplete, upload finished | the tabs belong to the signed-in account |
| `CommentVC`, `SearchVC` | comments; users, filtered users, posts, mode | list, post, search | the rows shown are the rows tapped |
| `LoginVC`, `RegisterVC`, `ResetPasswordVC` | form fields | sign in, register, reset | the button is enabled only for a valid form |
| `UIViewController+Ext`, JGProgressHUD (vendored) | one HUD for all screens | showLoader, showMessage | what is shown is hidden again |

### 1.2 How they interact

Screens call the services' static functions and pass closures; the services call
the SDK.  A write joins the device's mutation queue at once; the backend decides
the queue in order; then the closure is posted to the main queue.  A read is
answered whenever the backend answers it, in any order.  Two services chain
calls: `follow`/`unfollow` issue their second write from the completion of the
first, `likePost`/`unlikePost` theirs from the completion of `post-likes`.
`uploadPost` starts its fan-out without waiting for the post.  Screens share no
state except through the database, the tab bar's `user` and the HUD.

### 1.3 What is hard

Every chain can be cut by the death of the app (the queue is on disk, the
closures are not) or by a refused write (most closures ignore their error).
Chains of one device overlap (double taps, two screens), chains of two devices
race (follow against share, like against like).  Screens keep copies (the
header's user, the cell's post) that late answers overwrite.  The list of hazards
in `PROJECT.json` gives each with its line.

## 2. Modules

| module | models | extends |
|---|---|---|
| `Firestore` | the SDK on every device: `queue`, `asked`, `mainq` and what may happen to them | |
| `SocialGraph` | UserService, the feed part of PostService, NotificationService and ImageUploader, the calls screens make of them | `Firestore` |
| `ProfileScreen` | ProfileVC and ProfileHeader on top of the services | `SocialGraph` |
| `Likes` | likePost, unlikePost, FeedVC and FeedCell for one post | `Firestore` |
| `FeedScreen` | FeedVC and FeedCell with several posts: fetches, checks, scrolling and cells, the refresh control | `Firestore` |
| `NotificationsScreen` | NotificationsVC, NotificationCell and the HUD the screens share | `Firestore` |
| `FirestoreContract` | the part of `Firestore` about writes, as a specification | `Firestore` |
| `WritePipeline` | the SDK's worker queue, mutation queues, write pipeline and write stream | |
| `Session` | AuthService, IFTabBarController's user and tabs, the login screens, log out, on one device | |
| `FirestoreProofs` | lemmas about queues, about what may happen to a device, and about two writes that mirror each other | `Firestore` |
| `SocialGraphProofs`, `LikesProofs`, `FeedScreenProofs`, `NotificationsScreenProofs` | theorems about the module of the name | that module, `FirestoreProofs` |
| `ProfileScreenProofs` | theorems about `ProfileScreen`, and that it implements `SocialGraph` | `ProfileScreen`, `SocialGraphProofs` |
| `SessionProofs` | theorems about `Session` | `Session` |
| `WritePipelineProofs` | theorems about `WritePipeline`, and that it implements `FirestoreContract` | `WritePipeline` |
| `MC...` | instances for TLC | |

**Firestore.**  A device is named by the account signed in on it.  `queue[u]` is
the sequence of undecided writes (`WriteMutations` appends, `NotifyUser` removes
the head and posts the completion, if somebody waits).  `asked[u][r]` counts the
outstanding reads; `Respond` posts an answer, `ReadFails` drops the read, since
every completion in the app returns at its first guard when the snapshot is nil.
`mainq[u]` is the main queue.  `Terminate` keeps the queue and forgets every
`then`: "Mutations restored from persistence won't have callbacks"
(`sync_engine.cc`).  A touch is handled between two blocks.

**SocialGraph.**  Both documents of a follow are keyed `<<u, v>>`.  One action per
step: `CallFollow` (the call a screen makes), `Commit`/`Reject` (the backend
decides the oldest write), `Answer`/`FailToAnswer`, `Kill`, and one per closure:
`FollowAcked` (the second write, issued whatever the error of the first),
`ProfileCompletion` (notification and feed query), `CellCompletion`,
`UploadCompletion`, `ImageUploaded` (addDocument, then the fan-out query),
`FeedAfterPost`, `FeedAfterFollowing` (one write for each document, in any order
of the snapshot).  `torn` and `refused` are history: they record which chains lost
a write and which posts were refused, and no action reads them.  Repeated
notifications of one pair are one key; `fetchUser(s)` change nothing here.

**ProfileScreen.**  Each account has one ProfileVC for every other account.  The
screen's `isFollowed` is written by the answer of `checkIfUserIsFollowed` and by
the completion of `follow`/`unfollow`; `header` is the copy the tapped cell holds,
refreshed by `reloadData`, which is a block of its own on the main queue.
`fetchUserStats` is one read that cannot fail (its queries fall back to 0).
`misled` is history: screens that lost a check, or showed a write the backend
then refused.  `ImplementsServices` maps the screen to `SocialGraph`: `ServiceAsked`
forgets the reads of the screen, and `ServicePart` the blocks of the screen, by counting
the service blocks up to each (`Rank`).  `SelectSeq` would give the same sequence, but
the prover cannot expand it.

**Likes.**  One post, any users.  `list[u]` is the post in `FeedVC.posts`,
`cell[u]` the copy in the tapped cell.  `DidTapLikeButton` toggles the cell and
queues the counter and `post-likes`; `PostLikeAcked` queues `user-likes`;
`LikeCompletion` sets the cell's count and notifies the author.  `Fetched` and
`Checked` are the completions of the two reads, `ReloadData` copies the list over
the cell.  `careless` is history: some tap was made from a copy that was not
current, or while such a write was queued, or one was refused.

**Session.**  One device on which accounts come and go, so it has a queue of its own
kind: `docq` holds the documents registerUser writes, each in the queue of the
account that was signed in when it was written, and only the queue of the account
signed in is sent.  `current` is `Auth.auth().currentUser`, `tabs` the tab bar's
`user`, `screen` what covers the tabs, `asked` counts the outstanding calls of Auth,
Storage and fetchUser.  Registration is `SignUpButtonClicked`, `ImageStored`,
`CreateUser` (which signs in), `RunCreated` (setData), `StoreDoc` and
`AuthenticationComplete`.  A failed `createUser` may have made the account all the
same.  `hurried` (a call of Auth made during another), `crossed` (fetches for two
accounts outstanding at once, or one that found nothing) and `torn` (accounts whose
document a fault has lost) are history.

**FeedScreen.**  One viewer.  `fetches` holds one record for each call of
`fetchFeedPosts`: its own accumulator, and whether it is a refresh.  `FeedFetched`
asks for each post; `PostFetched` is the completion FeedVC passes, which replaces
the list, asks all the checks again and ends refreshing; `PostMissing` is `fetchPost`
returning at its guard, for a post in `absent`: a feed may name one whose document the
backend refused (`SocialGraph` shows how).  `Checked` looks its post up by id.
`detectRefresh` has two callers: the refresh control (`PullToRefresh`, when it is at
rest) and the tab bar after an upload (`ControllerDidFinishUploadingPost`, whatever
the control does).

Every change of the list posts a block that reloads the collection view, later.
`ReloadData` is that block: UIKit counts the `rows` and sets all cells free.  Rows come
into sight and leave it at any time, in between too: `CellForItemAt` gives a free cell a
post of the list as it is by then, `ScrolledOut` frees a cell, and there may be any
number of cells.  If the list is shorter than the rows counted, `posts[indexPath.row]`
may be out of range: `IndexOutOfRange` sets `trapped`, and nothing happens after it.
The completion of a like goes to the cell that was tapped, whatever it shows by then;
`counts` is the post a cell's number of likes is of.  Order within the list is not
modelled, only which posts are in it: a row that comes into sight may be any post of
the list that is not on the screen, or any at all while a reload waits.  The likes
counter and the notification, which nobody on the screen waits for, are in `Likes`.

**NotificationsScreen.**  `list` maps the notifications to `userIsFollowed`; `rows`,
`cells`, `CellForRowAt`, `ScrolledOut`, `ReloadData` and `IndexOutOfRange` are as in
`FeedScreen`, and `IndexOutOfRange` is `didSelectRowAt` too, which indexes the list as
well.  A tap shows the HUD and starts the two writes of a follow; `FollowCompletion`
hides the HUD and toggles the cell.  `hud` is JGProgressHUD: hidden, presenting, shown,
dismissing, where `Show` is ignored unless it is hidden, and `Dismiss` is put off while
it moves.  It blocks touches while it is shown; while it fades UIKit may pass them on.
The other screens share it: `OtherScreenLoads` and `OtherScreenLoaded` are SearchVC and
CommentVC, `SearchFails` is `PostService.fetchPosts` returning at its guard, after which
SearchVC never hides the HUD, and `ShareButtonPressed` is UploadPostVC, which hides it
in the call that shows it.  `tapped`, `doubtful`, `unanswered` and `refreshed` are
history.

**WritePipeline.**  One device whose accounts sign in and out; one may also follow another
directly, as when a second log in replaces the first.  Every action is one
task of the SDK's worker queue, or something from outside that puts one there; the
methods of `Stream` and `RemoteStore` are operators on a record `stream` (state,
handshake, close count, pipeline, what is on the wire), composed as in the code.
`worker` holds the tasks that wait, `queue` the persisted batches, `callbacks` who
waits for them, `made` every write of the app with its author, `doc` the last write
the backend stored for each account.  `Close` empties the wire, and `GivenUp` says
that the backend took some prefix of it, so answers may be lost.
`FirestoreContract` is what the modules of the app use of `Firestore`; the
refinement maps each account's batches to its queue and `told` to the main queue.

Mutants, named in comments, stand before the definition they vary.

## 3. What the runs check

| run | bounds | result |
|---|---|---|
| `services` | 2 users, 1 post, 2 screens, 2 taps, 1 fault, fairness (207 000 states) | `TypeOK`, `MirrorAgreement`, `LastWriteWins`, `NoDanglingFeed`, `MirrorConverges` hold |
| `patient` | 3 users, 2 posts of 2 owners, profile screens, 4 taps, each made when all devices are at rest (56 000 states) | `FeedExact` holds |
| `race` | as `services`, 1 tap, no fault | `FeedExact` is violated |
| `notifications` | patient users, both screens, 2 taps | `FeedExact` is violated |
| `button` | 1 viewer, a profile shown once, 2 taps, 1 fault (1.3 million states) | `ScreenTypeOK`, `ButtonShowsTruth` hold |
| `refines` | 1 viewer, shown once, 1 tap, 2 faults (70 000 states) | `ImplementsServices` holds |
| `likes` | 2 users, 2 touches, 1 fault, every set of users who already like the post (2.2 million states) | `TypeOK`, `LikeMirrored`, `CounterExact` hold |
| `heart` | as `likes`, no fault | `LikeButtonShowsTruth` is violated |
| `session` | 2 accounts and 1 to be registered, 5 touches, 1 fault, fairness (159 000 states) | `TypeOK`, `LoginCovers`, `TabsMatchAccount`, `NoLostProfile`, `TabsArrive` hold |
| `pipeline` | 2 accounts, pipeline of 2, 3 writes of which the second may break a rule, 2 changes of account or token, 1 fault, fairness (434 000 states) | `TypeOK`, `PipelineIsQueueHead`, `AssertionsHold`, `SentByOwner`, `OwnQueue`, `LastWriteStored`, `ImplementsContract`, `Drained` hold |
| `feed` | 2 posts, one of which may have no document, 1 cell, 2 touches, changes of the feed or faults, scrolling without a bound, every first feed and the single-post mode, fairness (757 000 states) | `TypeOK`, `ListIsOneFetch`, `HeartsSettle`, `ScreenFollowsList`, `TrapsNeedRefresh`, `CountsOwnPost`, `SpinnerStops` hold |
| `hud` | 3 notifications of 2 senders, two of them follows, one sender may be followed already, 1 cell, 2 touches, arrivals or faults, scrolling without a bound, fairness (1.25 million states) | `TypeOK`, `ButtonShowsTruth`, `RowsFollowList`, `TrapsNeedRefresh`, `HudGoesAway` hold |

*The follow graph.*  `MirrorAgreement`: when no second write of a pair waits or is
queued, the two documents agree, unless the chain lost a write.  `LastWriteWins`:
among the second writes on their way, the last agrees with `following`; so a
double tap, or taps on two screens, cannot leave the halves crossed.
`MirrorConverges`: halves that disagree come to agree.

*The feed.*  `NoDanglingFeed`: a feed never names a post the backend has not
decided, whatever fails.  `FeedExact` says what the two feed updates are for; it
holds when users are patient and follow from profiles.  It fails in two ways that
are findings: a follow and a share that overlap on two devices miss each other
(`race`), and following from the notifications screen never updates the feed
(`notifications`).

*The screens.*  `ButtonShowsTruth` holds although a late check may overwrite what
a completion set: a check sees the device's own queued writes, and whatever
changed the flag is followed by a reload.  The heart of the feed has no such luck:
the tap changes only the cell, a late check only the list, and the reload copies
the list over the cell (`heart`).

*Likes.*  `CounterExact`: refreshes, late completions and restarts alone never make
the counter drift; it takes a tap from a stale copy (a double tap is one) or a
refused write.  `TypeOK` includes that no counter is ever written below zero.

*The session.*  `LoginCovers`: while nobody is signed in the login screen covers the
last user's tabs, if people wait for one call of Auth before they start another;
without that, the completion of the first dismisses the screen a log out has just
presented.  `TabsMatchAccount`: at rest, uncovered tabs are those of the account
signed in.  Its premises are what the code leaves open: log in, log out and log in
as another before the first `fetchUser` is answered, and the answers may be applied
in the wrong order.  `NoLostProfile`: an account lacks its document for good only
after a fault between `createUser` and the answer to `setData`.  `TabsArrive`: every
way of signing in ends in the account's tabs, however the buttons are pressed.

*The feed screen.*  `ListIsOneFetch`: overlapping refreshes alternate their partial
lists on the screen, but the list left at the end is all of one fetch; it need not
be the last one.  `HeartsSettle`: each list sets all hearts back and starts the
checks again, and the hearts come out right.  `ScreenFollowsList`: rows, cells and list
agree whenever no reload waits.  In between they need not, and a row that comes into
sight then is looked up in the new list.  `TrapsNeedRefresh`: this can end the program
only after a second call of `fetchFeedPosts`, that is a refresh; it does happen then,
when a user scrolls between `removeAll` and the reload.  `CountsOwnPost`: a cell that is
given to another post, by a reload or by scrolling, while a like tapped in it is in
flight gets the count of the tapped post; the next tap then writes the wrong count to
the other post.  The property says that this is the only way, and that the mistake goes
when the cell is configured again.  `SpinnerStops` needs a feed that is never without a
post that exists, no failed read and not the single-post mode: with any of these the
code never calls `endRefreshing`.

*The notifications screen and the HUD.*  `ButtonShowsTruth` lists in `doubtful` all
that can make a button wrong: overlapping taps (each completion toggles), two rows of
one sender, a reload between tap and completion, a reload after it, or scrolling the
row out and back (the tap never reaches the list, so the row is configured with the old
flag), a cell that was given another row while a tap in it was in flight, a failure.
Without these a button is right, and the next check repairs it.  `RowsFollowList` and
`TrapsNeedRefresh` are as on the feed.  Here the fetches of `viewWillAppear` may overlap
too, but notifications are never removed, so lists only grow until `detectRefresh`
empties the list; then a row that comes into sight, or is selected, before the reload
ends the program.  `HudGoesAway`: shows that are ignored and dismissals that are put off
never leave the HUD up, unless a read that was to hide it returns at its guard, of a
touched row or of the posts on the search screen: then no completion hides it.

*The write path.*  `ImplementsContract` is why the modules of the app may treat the
SDK as a queue that is decided in order: through broken streams, stale tokens,
changes of account and restarts.  `SentByOwner`: a write never goes out over a stream
opened for another account; this needs the restart of the stream at every change,
the close count, and the retry in `GetToken`.  `LastWriteStored`: resending does not
leave an older write on top (it may, until the newer one is resent).
`AssertionsHold` states what the `HARD_ASSERT`s of the write path need: each answer finds
its write at the head of the pipeline, each token a stream that waits for it.  `Drained`: what an
account that stays signed in has queued is decided in the end.

**Bounds.**  Two taps on one pair give every overlap of two chains; one fault cuts one
chain at any point.  Two users and a post suffice for a follow that races a share.
Three users and four taps let every pair follow, unfollow and follow again around each
share.  Five touches register an account, log out and log in as another, or log in twice
with a log out in between and two touches to spare.  Three writes and a pipeline of two
let the pipeline be full while one waits; two changes of account leave an account and
return to it.  `MayBreak` names the writes that may break a rule: the second has one
before and one after it, each queued, sent or answered when it is refused.  Two events
on either screen give two overlapping refreshes, a tap and a refresh, or a tap and a
fault; one cell for two or three rows makes every row that comes into sight take the
cell of another one.  Larger instances were checked apart from the runs, with the same
results: two cells on the feed (2.4 million states), three events with two notifications
(640 000), and writes of which any may break a rule (1.4 million).  `MaxTaps`,
`MaxViews`, `MaxTouches`, `MaxWrites`, `MayBreak`, `MaxSwitches`, `MaxEvents`,
`MaxWaiting` (how many blocks wait on the main queue when an answer joins them),
`MaxFaults` are the only bounds and stand in the guards; the passing runs use no
symmetry and no constraint.  Deadlock is not checked: with its taps used up, an app at
rest may stop.

**Fairness** (`FairSpec`): weak fairness of `Commit`, `RunBlock` and `Answer` on
every device.  The SDK resends the queue until it is decided and waits for the
backend when online, and the run loop runs what is queued on it.  Taps, refusals,
failures and deaths are not fair.  `Session` likewise: each answer, the documents the
backend stores, and `RunBlock`.  The other modules state weak fairness of `Progress`,
what runs by itself once started: answers, commits, blocks of the main queue,
animations, tasks of the worker queue, the backoff timer.

## 4. What is proved

The theorems hold for all values of the constants: any users, posts, owners,
notifications, cells, size of the pipeline and bounds.  They assume what the `ASSUME`s
of the modules say: the viewer is a user, owners and senders are users, a sender is not
the viewer, `User`, `Post` and `Note` are finite where something is counted or fanned
out, the posts of `Refused` are posts; nothing is assumed of `Cell`, so that there may
be fewer cells than rows; `Nobody` is no account, bounds are natural numbers.  Every
invariant and every refinement that the passing runs check is proved.  The proofs of
invariants have one shape: an inductive invariant, checked by TLC first, one lemma for
each action, and the property as a consequence.

**The follow graph** (`SocialGraphProofs`).
* `TypeCorrect`.  The type says more than shapes: a device queues only its own half of
  the graph, its own posts, and feed documents of its own account or of its own posts.
* `MirrorAgrees`, `LastWritesWin`.  `MirrorAgreement` and `LastWriteWins` are not
  inductive apart, their conjunction is (`MirrorInv`, stated for one pair by `MirrorAt`
  as a fact about one queue and one main queue).  There is one lemma in
  `FirestoreProofs` for each thing that may happen to the two sequences: a first write
  stored, a block appended, another block run, the second write issued, a write
  decided, a restart.
* `NoDangling`.  `NoDanglingFeed` needs `FeedInv`: in every queue the post named by a
  feed write is settled or ahead of it; a fan-out query that is outstanding, or
  answered, belongs to a post that is settled or queued on the same device; the answer
  of a post query names settled posts only.
* `FeedIsExact`: `Screen \subseteq {"profile"} => (PatientSpec => []FeedExact)`.  The
  hypothesis, and the patience and the lack of faults in `PatientSpec`, are what the code
  needs: with the notifications screen the formula is false
  (`notifications`), and without patience too (`race`).  `FeedExact` says nothing of a
  device at work, so it needs `PatientInv`: all devices are idle and everything is exact,
  or one device `a` works and the others are idle.  In the second case `a` is in one of
  the four stages of a follow (`Begun`, `FirstDone`, `SecondBegun`, `SecondDone`), where
  the two halves of the graph and the feeds are exact but for that pair, or it updates
  feeds (`Updating`): every queued write, outstanding read and waiting answer agrees with
  `following`, and each feed document that is wrong is `Covered`, by a queued write, or
  by a read that will name it or has named it.  When `a` comes to rest nothing covers
  anything, so everything is right.

**The profile screen** (`ProfileScreenProofs`, invariant `ScreenInv`).
* `ScreenTypeCorrect`: follows are called by this screen alone, and touch only the half
  of the graph of the account.
* `ButtonIsRight`.  A follow goes through four stages: first write queued, its ack on
  the main queue, second write queued, its ack on the main queue.  The device takes as
  true what its last queued first write says, or else the database (`Present`).
  `Stages`: in every stage, and in every answer of a check, what says otherwise is
  followed by something newer, later in its stage or in an earlier one.  `Flags`: the
  screen's `isFollowed` is right, or a chain or a check that will write it is under way.
  `Headers`: the header shows `isFollowed`, or a reload is on its way.  At rest the
  second alternatives are gone.  Pairs in `misled` are excepted: a refusal makes the
  device take back what it has said.
* `ScreenImplementsServices`: `ScreenSpec => ImplementsServices`.  The lemmas about
  `Rank` show that `ServicePart` of a sequence with a block appended, or its first
  removed, is the `ServicePart` before with that block appended or removed if it is one
  of the services, and the same if not.  With this, appearing, checks, statistics and
  reloads are stutters, a tap on the button is `CallFollow`, `FollowCompletion` is
  `ProfileCompletion` (with a read of the screen that is left out), and every decision,
  answer, death and service block is the step of that name.  Only `ScreenTypeOK` is needed.

**Likes** (`LikesProofs`, invariant `LikesInv`).
* `LikesTypeCorrect`: no counter is ever written below zero.
* `LikesAreMirrored`: the lemmas about `MirrorAt` again, with `post-likes` first and
  `user-likes` second.
* `CounterIsExact`: while nobody was careless one tap at most is on its way in the whole
  system, so the counter is in one of three states (`CountInv`): nothing that counts is
  queued and the counter is the number of users under the post; or both writes of the
  tap are queued and the counter written is the number there will be; or the counter is
  stored and the other write is still queued.

**The session** (`SessionProofs`, invariant `SessionInv`).
* `ProfilesAreWritten`: what is queued and posted is of accounts that exist (`Existing`),
  and an account without a document has one step of its registration left.
* `TabsAreCovered`: while people wait, at most one call or completion of Auth is under
  way and a login screen is on top of it (`Patient`).
* `TabsAreTheAccounts`: behind uncovered tabs each outstanding fetch is for the account
  signed in, and so is the last user that waits on the main queue (`Uncovered`).

**The write path** (`WritePipelineProofs`, invariant `PipelineInv`).
* `PipelineInv` is about a stream, the queue it serves and the tasks of the worker
  queue.  The pipeline is a prefix of the queue (`Serves`); answers on the wire are
  answers to its first writes (`Wire`); at most one request for a token, or
  token, is under way for the present close count (`Counted`); the accounts the waiting
  tasks will run under are known, and their writes and tokens are theirs (`UserInv`); an
  open stream has the token of the current user (`TokenInv`).  The operators of the
  stream are shown to keep this one by one, then the tasks that compose them.  From it
  follow `PipelineTypeCorrect`, `PipelineServesQueue`, `NoAssertionFails`,
  `WritesGoOutByOwner` and `WritesQueuedForOwner`.
* `LastWriteIsStored` adds `StoreInv`: a decided write is older than every queued one;
  what the backend holds is the last settled write, or one that is still in the queue
  and will be sent again; and the last acknowledgement on the wire is of what it holds.
* `PipelineImplementsContract`: `Spec => ImplementsContract`.  A task that decides the
  head of an account's queue is the contract's step, a task that makes, sends, retries,
  loses or resends is a stutter; `ToldInv` says what the app is told of was decided.

**The feed screen** (`FeedScreenProofs`, invariant `FeedScreenInv`).
* `ListIsOfOneFetch`: each call asks for its feed once (`FeedOnce`), what it has got is
  of its feed and the rest is absent or under way (`Fetching`, `PostAnswers`), and the
  list is always the accumulator of one call (`OneList`).
* `HeartsAreRight`: a heart nobody tapped is right or a check of it is under way, and
  checks under way are right (`Hearts`).
* `RowsAreTheList`: the invariant itself is inductive; every change of the list posts a
  reload, and a cell configured in between is set free by it.
* `NoTrapWithoutRefresh`: with one call of `fetchFeedPosts` the list has at least as many
  posts as rows were counted (`Counted`), since its accumulator only grows.
* `CountsAreOwn` rests on where likes in flight started (`Flights`): in the cell that
  still shows their post, or is off the screen, or is recorded in `reused`.

**The notifications screen** (`NotificationsScreenProofs`, invariant `NotesInv`).
* `ButtonsAreRight` has two arguments.  A row whose sender was not tapped since its last
  check has the value of a check (`UntappedRows`); a check tells the truth unless a write
  of `following` is queued, or was decided after the check was answered (`ChecksRight`),
  and both would have the row's sender tapped (`Tapping`).  A row that was tapped and is
  not in doubt has at most one write in flight (`Once`), and its cell shows the opposite
  of what that write does until the completion toggles it (`TappedRows`, `Turns`).  A
  completion that toggles a row of another sender finds it in doubt, or about to be
  reloaded (`Reuse`).  `CellForRowAt` is where both could break: a row shown anew after a
  tap, or in a cell with a tap in flight, is in doubt, and any other gets a value that is
  right or about to be checked.
* `NoTrapWithoutRefresh`: of two lists on their way the later one has all of the earlier
  (`ListsGrow`), and until a refresh the list has at least the rows that were counted
  (`RowsCovered`).
* `NotesTypeCorrect`, `RowsAreTheList`.

**Only model-checked.**  `MirrorConverges`, `TabsArrive`, `Drained`, `SpinnerStops` and
`HudGoesAway`: liveness under fairness is out of the prover's reach.  The three findings
are counterexamples of TLC.

## 5. Abstractions and what is not modelled

* One device per account, and no account switch outside `Session`.  Two devices of one account have
  two queues, and the order that `LastWriteWins` rests on is lost.
* Reads are answered from the backend, or fail.  An offline `getDocuments` answers
  from the cache; with an empty cache this is the failed read of the model, with a
  stale one it is not modelled.
* `ProfileScreen` and `Likes` follow one cell, and there `reloadData` configures it at
  once.  In `FeedScreen` and `NotificationsScreen` it sets the cells free, and UIKit asks
  for them at any time after it, as at its next layout pass.
* The order of the rows is left out of both, so which row a given index is in a changed
  list is any of them.
* Uploading an image and getting its URL are one read.  Reads of a refreshed feed
  do not matter to `SocialGraph` and are left out of it.
* `Session` leaves out the alerts, the fields of the forms and the loader; a screen
  is presented, pushed or dismissed at once.
* `FeedScreen` and `NotificationsScreen` leave out restarts: a screen keeps nothing.
* `WritePipeline`: what was on the wire of a closed stream is stored, or not, before
  anything of a new stream is; the backend's verdict on a write does not change; a
  permanent error is about the first write of the pipeline; the backend does not
  close a stream that is in use with OK.  Stream tokens and the state `Healthy`, which
  only tunes the backoff, are left out.  A write is lost if the process ends before
  the worker queue persists it; the app modules let it be persisted at once.
* The modules of the app assume that the app writes as one account; a chain of
  completions that goes on under another account is not modelled.
* Not modelled: comments (they need the SDK's listeners), search (lists that are read
  once and filtered; only its loader), the caption limit, the loader of the reset
  screen (shown before anybody is signed in, on a view that goes away), and of the SDK
  the watch stream, query execution, caches and garbage collection.  Layout, text and
  colours will not be.  Of the vendored code only what the app's correctness rests on
  is modelled; gRPC, BoringSSL, LevelDB, SDWebImage and the other pods are libraries
  without a part in it.

## 6. Plan

1. Account switches in `SocialGraph`: chains that read the current account late.
2. Listeners in `Firestore`, and comments on top of them.
3. An abstract specification of the follow graph (one set of pairs and a lagging
   copy) that `SocialGraph` implements without faults.
