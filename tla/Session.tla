------------------------------- MODULE Session -------------------------------
(***************************************************************************)
(* Who is signed in, and whose tabs are shown, on one device:              *)
(* AuthService, IFTabBarController, LoginVC, RegisterVC, ResetPasswordVC   *)
(* and FeedVC.logoutPressed.                                               *)
(*                                                                         *)
(* Firebase Auth keeps the account; the tab bar keeps a `user` it fetched  *)
(* and five tabs built for it, which stay until the next user arrives.     *)
(* Registering takes three calls (the image, the account, the account's    *)
(* document), and Auth signs the new account in at the second.             *)
(*                                                                         *)
(* Answers come in any order; completions run on the main queue.           *)
(***************************************************************************)
EXTENDS Naturals, Sequences, FiniteSets

CONSTANTS
    Account,       \* the e-mail addresses people type
    Registered,    \* those that are accounts, with a document, from the start
    MaxTouches,    \* bound: how often a button is pressed
    MaxFaults      \* bound: how many calls fail, writes are refused, apps die

Nobody == "nobody"

ASSUME AccountAssumption == Registered \subseteq Account /\ Nobody \notin Account
ASSUME SessionBounds     == {MaxTouches, MaxFaults} \subseteq Nat

VARIABLES
    current,       \* Auth.auth().currentUser, kept on disk
    created,       \* the accounts of Firebase Auth
    profiles,      \* accounts whose document is in `users`
    docq,          \* documents of accounts queued on the device
    asked,         \* asked[c]: how many calls c are outstanding
    mainq,         \* blocks waiting for the main thread
    tabs,          \* IFTabBarController.user, for whom the tabs were built
    screen,        \* what is on top of the tab bar: "tabs" when nothing is
    touches, faults,
    hurried,       \* history: a second call of Auth was made during a first
    crossed,       \* history: accounts were fetched while others were, or in vain
    torn           \* history: registrations that lost their document to a fault

backend  == <<created, profiles>>
device   == <<current, docq, asked, mainq>>
shown    == <<tabs, screen>>
counters == <<touches, faults>>
history  == <<hurried, crossed, torn>>
vars     == <<backend, device, shown, counters, history>>

-----------------------------------------------------------------------------
Calls    == [kind : {"signIn", "image", "create", "fetch", "reset"}, of : Account]
Call(kind, a) == [kind |-> kind, of |-> a]
AuthCalls == {c \in Calls : c.kind \in {"signIn", "image", "create"}}

\* The account signed in, as a set of at most one.
SignedInAs == {current} \ {Nobody}

Asking(cs)   == [c \in Calls |-> IF c \in cs THEN asked[c] + 1 ELSE asked[c]]
Returned(c)  == [asked EXCEPT ![c] = @ - 1]

\* Blocks of the main queue.
PresentLogin == [type |-> "present", of |-> Nobody]
Block(type, a) == [type |-> type, of |-> a]

\* A document of account a in the mutation queue of account `by`; registerUser
\* waits for it until the app dies.
Doc(a, by, waited) == [of |-> a, by |-> by, waited |-> waited]

\* IFTabBarController.viewDidLoad: the login screen, or the user.
ViewDidLoad(account) ==
    /\ asked' = [c \in Calls |-> IF c = Call("fetch", account) THEN 1 ELSE 0]
    /\ mainq' = IF account = Nobody THEN <<PresentLogin>> ELSE << >>

Init ==
    /\ created = Registered /\ profiles = Registered
    /\ current \in Registered \union {Nobody}
    /\ docq  = {}
    /\ asked = [c \in Calls |-> IF c = Call("fetch", current) THEN 1 ELSE 0]
    /\ mainq = IF current = Nobody THEN <<PresentLogin>> ELSE << >>
    /\ tabs = Nobody /\ screen = "tabs"
    /\ touches = 0 /\ faults = 0
    /\ hurried = FALSE /\ crossed = FALSE /\ torn = {}

-----------------------------------------------------------------------------
(***************************************************************************)
(* Touches.                                                                *)
(***************************************************************************)
Touch == touches < MaxTouches /\ touches' = touches + 1

\* Some call of Auth is under way, or its completion has not run.
AuthBusy ==
    \/ \E c \in AuthCalls : asked[c] > 0
    \/ \E i \in DOMAIN mainq : mainq[i].type \in {"complete", "created"}
    \/ \E d \in docq : d.waited

\* LoginVC.loginButtonPressed.
LoginButtonPressed(a) ==
    /\ screen = "login" /\ Touch
    /\ asked' = Asking({Call("signIn", a)})
    /\ hurried' = (hurried \/ AuthBusy)
    /\ UNCHANGED <<backend, current, docq, mainq, shown, faults, crossed, torn>>

\* RegisterVC.signUpButtonClicked: registerUser first uploads the image.
SignUpButtonClicked(a) ==
    /\ screen = "register" /\ Touch
    /\ asked' = Asking({Call("image", a)})
    /\ hurried' = (hurried \/ AuthBusy)
    /\ UNCHANGED <<backend, current, docq, mainq, shown, faults, crossed, torn>>

\* ResetPasswordVC.resetPasswordClicked.
ResetPasswordClicked(a) ==
    /\ screen = "reset" /\ Touch
    /\ asked' = Asking({Call("reset", a)})
    /\ UNCHANGED <<backend, current, docq, mainq, shown, faults, history>>

\* LoginVC.signUpClicked and forgotPasswordClicked; RegisterVC.loginClicked and
\* ResetPasswordVC.backButtonClicked.
Navigate ==
    /\ Touch
    /\ \/ screen = "login" /\ screen' \in {"register", "reset"}
       \/ screen \in {"register", "reset"} /\ screen' = "login"
    /\ UNCHANGED <<backend, device, tabs, faults, history>>

\* Mutant: logging out leaves the tabs uncovered.
LogoutSilently ==
    /\ screen = "tabs" /\ tabs # Nobody /\ Touch
    /\ current' = Nobody
    /\ UNCHANGED <<backend, docq, asked, mainq, shown, faults, history>>

\* FeedVC.logoutPressed; there is a feed once tabs have been built.
LogoutPressed ==
    /\ screen = "tabs" /\ tabs # Nobody /\ Touch
    /\ current' = Nobody
    /\ screen' = "login"
    /\ UNCHANGED <<backend, docq, asked, mainq, tabs, faults, history>>

-----------------------------------------------------------------------------
(***************************************************************************)
(* Answers.                                                                *)
(***************************************************************************)

\* Mutant: login's completion does not tell the delegate.
SignInUntold(a) ==
    /\ asked[Call("signIn", a)] > 0
    /\ asked' = Returned(Call("signIn", a))
    /\ current' = IF a \in created THEN a ELSE current
    /\ UNCHANGED <<backend, docq, mainq, shown, counters, history>>

\* Auth.signIn: the account is signed in before the completion runs.
SignIn(a) ==
    /\ asked[Call("signIn", a)] > 0
    /\ asked' = Returned(Call("signIn", a))
    /\ IF a \in created
       THEN current' = a /\ mainq' = Append(mainq, Block("complete", a))
       ELSE UNCHANGED <<current, mainq>>
    /\ UNCHANGED <<backend, docq, shown, counters, history>>

\* Mutant: the document is written along with the account, not after it.
ImageStoredWritesAtOnce(a) ==
    /\ asked[Call("image", a)] > 0
    /\ asked' = [Returned(Call("image", a)) EXCEPT ![Call("create", a)] = @ + 1]
    /\ docq' = docq \union {Doc(a, current, FALSE)}
    /\ UNCHANGED <<backend, current, mainq, shown, counters, history>>

\* The completion of ImageUploader.uploadImage in registerUser.
ImageStored(a) ==
    /\ asked[Call("image", a)] > 0
    /\ asked' = [Returned(Call("image", a)) EXCEPT ![Call("create", a)] = @ + 1]
    /\ UNCHANGED <<backend, current, docq, mainq, shown, counters, history>>

\* Auth.createUser: an address in use is an error, which registerUser prints
\* without telling its caller.
CreateUser(a) ==
    /\ asked[Call("create", a)] > 0
    /\ asked' = Returned(Call("create", a))
    /\ IF a \notin created
       THEN /\ created' = created \union {a}
            /\ current' = a
            /\ mainq' = Append(mainq, Block("created", a))
       ELSE UNCHANGED <<created, current, mainq>>
    /\ UNCHANGED <<profiles, docq, shown, counters, history>>

\* The backend stores an account's document; only the queue of the account that
\* is signed in is sent.
StoreDoc(d) ==
    /\ d.by = current
    /\ docq' = docq \ {d}
    /\ profiles' = profiles \union {d.of}
    /\ mainq' = IF d.waited THEN Append(mainq, Block("complete", d.of)) ELSE mainq
    /\ UNCHANGED <<created, current, asked, shown, counters, history>>

\* fetchUser: an account without a document is nobody's business, the completion
\* returns at its guard.
AnswerFetch(a) ==
    /\ asked[Call("fetch", a)] > 0
    /\ asked' = Returned(Call("fetch", a))
    /\ LET found == a \in profiles \/ \E d \in docq : d.of = a /\ d.by = current
       IN  /\ mainq'   = IF found THEN Append(mainq, Block("user", a)) ELSE mainq
           /\ crossed' = (crossed \/ ~found)
    /\ UNCHANGED <<backend, current, docq, shown, counters, hurried, torn>>

\* Auth.sendPasswordReset: controllerDidSendResetPasswordLink goes back to the
\* login screen it was opened from.
AnswerReset(a) ==
    /\ asked[Call("reset", a)] > 0
    /\ asked' = Returned(Call("reset", a))
    /\ screen' = "login"
    /\ UNCHANGED <<backend, current, docq, mainq, tabs, counters, history>>

-----------------------------------------------------------------------------
(***************************************************************************)
(* Faults.                                                                 *)
(***************************************************************************)
Fault == faults < MaxFaults /\ faults' = faults + 1

\* A call fails, at the service or on the way back: every completion prints its
\* error, or returns. An account made without the device hearing of it will not
\* have its document written.
FailCall(c) ==
    /\ Fault
    /\ asked[c] > 0
    /\ asked' = Returned(c)
    /\ crossed' = (crossed \/ c.kind = "fetch")
    /\ \E as \in SUBSET {a \in Account : c = Call("create", a)} :
          created' = created \union as /\ torn' = torn \union (as \ created)
    /\ UNCHANGED <<profiles, current, docq, mainq, shown, touches, hurried>>

\* The backend refuses an account's document.
RefuseDoc(d) ==
    /\ Fault
    /\ d.by = current
    /\ docq' = docq \ {d}
    /\ torn' = torn \union {d.of}
    /\ UNCHANGED <<backend, current, asked, mainq, shown, touches, hurried, crossed>>

\* Accounts whose document registerUser has yet to write.
ToBeWritten == {mainq[i].of : i \in {j \in DOMAIN mainq : mainq[j].type = "created"}}

\* The app dies and is opened again: the queue and the account are on disk.
Kill ==
    /\ Fault
    /\ ViewDidLoad(current)
    /\ docq' = {Doc(d.of, d.by, FALSE) : d \in docq}
    /\ \E as \in SUBSET {a \in Account : asked[Call("create", a)] > 0} :
          /\ created' = created \union as
          /\ torn' = torn \union (as \ created) \union ToBeWritten
    /\ tabs' = Nobody /\ screen' = "tabs"
    /\ UNCHANGED <<profiles, current, touches, hurried, crossed>>

-----------------------------------------------------------------------------
(***************************************************************************)
(* The main thread.                                                        *)
(***************************************************************************)
Running(type) == mainq # << >> /\ Head(mainq).type = type /\ mainq' = Tail(mainq)

\* checkCurrentUser, in its block.
RunPresentLogin ==
    /\ Running("present")
    /\ screen' = "login"
    /\ UNCHANGED <<backend, current, docq, asked, tabs, counters, history>>

\* Mutant: registerUser completes without writing the document.
CreatedWithoutDoc ==
    /\ Running("created")
    /\ UNCHANGED <<backend, current, docq, asked, shown, counters, history>>

\* registerUser, once the account exists: its document joins the queue of the
\* account that is signed in by now.
RunCreated ==
    /\ Running("created")
    /\ docq' = docq \union {Doc(Head(mainq).of, current, TRUE)}
    /\ UNCHANGED <<backend, current, asked, shown, counters, history>>

\* Mutant: the login screen is dismissed, the user not fetched.
DismissOnly ==
    /\ Running("complete")
    /\ screen' = "tabs"
    /\ UNCHANGED <<backend, current, docq, asked, tabs, counters, history>>

\* IFTabBarController.authenticationComplete: fetchUser, and the login screen is
\* dismissed. An answer to a reset finds the screens it would leave gone.
AuthenticationComplete ==
    /\ Running("complete")
    /\ asked' = [c \in Calls |-> IF c.kind = "reset" THEN 0
                                ELSE Asking({Call("fetch", a) : a \in SignedInAs})[c]]
    /\ crossed' = (crossed \/ \E c \in Calls : c.kind = "fetch" /\ c.of # current /\ asked[c] > 0)
    /\ screen' = "tabs"
    /\ UNCHANGED <<backend, current, docq, tabs, counters, hurried, torn>>

\* The completion of fetchUser: user.didSet builds the tabs.
RunUser ==
    /\ Running("user")
    /\ tabs' = Head(mainq).of
    /\ UNCHANGED <<backend, current, docq, asked, screen, counters, history>>

-----------------------------------------------------------------------------
Touched ==
    \/ \E a \in Account : \/ LoginButtonPressed(a)
                          \/ SignUpButtonClicked(a)
                          \/ ResetPasswordClicked(a)
    \/ Navigate
    \/ LogoutPressed

RunBlock == RunPresentLogin \/ RunCreated \/ AuthenticationComplete \/ RunUser

Progress ==
    \/ \E a \in Account : \/ SignIn(a) \/ ImageStored(a) \/ CreateUser(a)
                          \/ AnswerFetch(a) \/ AnswerReset(a)
    \/ \E d \in docq : StoreDoc(d)
    \/ RunBlock

Failing ==
    \/ \E c \in Calls : FailCall(c)
    \/ \E d \in docq : RefuseDoc(d)
    \/ Kill

Next == Touched \/ Progress \/ Failing

Spec == Init /\ [][Next]_vars

\* Every call is answered and the main thread runs its blocks. Nobody has to
\* press a button, and nothing has to fail.
FairSpec ==
    /\ Spec
    /\ \A a \in Account : /\ WF_vars(SignIn(a))      /\ WF_vars(ImageStored(a))
                          /\ WF_vars(CreateUser(a))  /\ WF_vars(AnswerFetch(a))
                          /\ WF_vars(AnswerReset(a))
    /\ WF_vars(\E d \in docq : StoreDoc(d))
    /\ WF_vars(RunBlock)

-----------------------------------------------------------------------------
(***************************************************************************)
(* Properties.                                                             *)
(***************************************************************************)
Docs   == [of : Account, by : Account \union {Nobody}, waited : BOOLEAN]
Blocks == [type : {"present", "complete", "created", "user"}, of : Account \union {Nobody}]

\* Nothing is under way on the device.
Resting == mainq = << >> /\ docq = {} /\ \A c \in Calls : asked[c] = 0

\* Types; and what is signed in, shown or stored under `users` is an account.
TypeOK ==
    /\ current \in created \union {Nobody} /\ tabs \in created \union {Nobody}
    /\ created \subseteq Account /\ profiles \subseteq created
    /\ docq \subseteq Docs /\ asked \in [Calls -> Nat] /\ mainq \in Seq(Blocks)
    /\ screen \in {"tabs", "login", "register", "reset"}
    /\ touches \in 0..MaxTouches /\ faults \in 0..MaxFaults
    /\ hurried \in BOOLEAN /\ crossed \in BOOLEAN /\ torn \subseteq Account

\* While nobody is signed in the login screens cover the tabs of the last user,
\* or are about to (checkCurrentUser, logoutPressed): provided that people let
\* login and registerUser finish before they start another, since the completion
\* of the first dismisses whatever login screen is shown by then.
LoginCovers ==
    ~hurried /\ current = Nobody =>
        screen # "tabs" \/ \E i \in DOMAIN mainq : mainq[i] = PresentLogin

\* When nothing covers the tabs and nothing is under way, they are those of the
\* account that is signed in: no fetchUser of an earlier session is left to
\* overwrite `user`. It needs that no two fetches were ever outstanding for
\* different accounts, for IFTabBarController.fetchUser assigns whatever answer
\* comes last, and that none came back empty, for the completion is then silent.
TabsMatchAccount ==
    ~hurried /\ ~crossed /\ Resting /\ screen = "tabs" => tabs = current

\* An account made by registerUser has its document, or will: it waits for the
\* main thread or in a queue. Only a fault between createUser and the backend's
\* answer to setData loses it, and nothing ever writes it again.
NoLostProfile ==
    \A a \in created \ (profiles \union torn) :
        \/ \E i \in DOMAIN mainq : mainq[i] = Block("created", a)
        \/ \E d \in docq : d.of = a

\* No call failed, and no two answers of fetchUser crossed.
Calm == ~crossed /\ faults = 0

\* Signing in or up leads to the account's tabs, however the buttons are pressed,
\* unless the account changes first, a call fails or answers of fetchUser cross:
\* each way in (login, registerUser, viewDidLoad) ends in fetchUser, and there
\* is a document by then.
TabsArrive ==
    \A a \in Account : (Calm /\ current = a) ~> (tabs = a \/ current # a \/ ~Calm)
=============================================================================
