---------------------------- MODULE SessionProofs ----------------------------
(***************************************************************************)
(* What Session promises, for any set of accounts and any bounds.          *)
(*                                                                         *)
(* The inductive invariant SessionInv says, besides the properties, what   *)
(* they rest on: documents and blocks are of accounts that exist; people   *)
(* who wait have at most one thing of Auth under way, and it keeps a login *)
(* screen on top; and behind uncovered tabs every fetch is for the account *)
(* signed in, the last of them to arrive included.                         *)
(***************************************************************************)
EXTENDS Session, TLAPS

-----------------------------------------------------------------------------
\* Documents, and the blocks that carry a new account or a user, are of
\* accounts that exist.
Existing ==
    /\ \A d \in docq : d.of \in created
    /\ \A i \in DOMAIN mainq : mainq[i].type \in {"created", "user"} => mainq[i].of \in created

\* A block of the main queue that belongs to a login or a registration.
Completing(b) == b.type \in {"complete", "created"}

\* Of login and registerUser, at most one thing is under way on the device: a
\* call, a block, or a document that is waited for.
OneAtATime ==
    /\ \A c, d \in AuthCalls : asked[c] > 0 /\ asked[d] > 0 => c = d
    /\ \A c \in AuthCalls : asked[c] <= 1
    /\ \A i, j \in DOMAIN mainq : Completing(mainq[i]) /\ Completing(mainq[j]) => i = j
    /\ \A d, e \in docq : d.waited /\ e.waited => d = e
    /\ \A c \in AuthCalls : asked[c] > 0 =>
          /\ \A i \in DOMAIN mainq : ~Completing(mainq[i])
          /\ \A d \in docq : ~d.waited
    /\ \A i \in DOMAIN mainq : Completing(mainq[i]) => \A d \in docq : ~d.waited

\* Once the account is signed in, or made, and until authenticationComplete
\* runs, it stays signed in.
SignedInMeanwhile ==
    /\ \A i \in DOMAIN mainq : Completing(mainq[i]) => current # Nobody
    /\ \A d \in docq : d.waited => current # Nobody

\* For people who let one of them finish before they start another.
Patient == ~hurried => OneAtATime /\ SignedInMeanwhile /\ (AuthBusy => screen # "tabs")

\* The tabs of the account signed in are built, or will be: by a fetch that is
\* out, or by the last answer in the main queue.
LastUserIs(a) ==
    \E i \in DOMAIN mainq :
        /\ mainq[i] = Block("user", a)
        /\ \A j \in DOMAIN mainq : j > i => mainq[j].type # "user"

TabsComing ==
    \/ asked[Call("fetch", current)] > 0
    \/ LastUserIs(current)
    \/ tabs = current /\ \A j \in DOMAIN mainq : mainq[j].type # "user"

\* Behind uncovered tabs, fetches are for the account signed in, if any.
Uncovered ==
    ~hurried /\ ~crossed /\ screen = "tabs" =>
        /\ \A c \in Calls : c.kind = "fetch" /\ c.of # current => asked[c] = 0
        /\ current # Nobody => TabsComing

SessionInv == TypeOK /\ Existing /\ NoLostProfile /\ Patient /\ LoginCovers /\ Uncovered

-----------------------------------------------------------------------------
(***************************************************************************)
(* Facts about sequences, calls and blocks.                                *)
(***************************************************************************)

\* The blocks of a main queue to which one is posted.
LEMMA Posted ==
    ASSUME NEW S, NEW s \in Seq(S), NEW b \in S
    PROVE  /\ Append(s, b) \in Seq(S)
           /\ DOMAIN s = 1..Len(s) /\ Len(s) \in Nat
           /\ DOMAIN Append(s, b) = 1..(Len(s) + 1)
           /\ \A i \in 1..Len(s) : Append(s, b)[i] = s[i]
           /\ Append(s, b)[Len(s) + 1] = b
OBVIOUS

\* The blocks of a main queue whose first has run.
LEMMA Ran ==
    ASSUME NEW S, NEW s \in Seq(S), s # << >>
    PROVE  /\ Tail(s) \in Seq(S)
           /\ Head(s) = s[1] /\ Head(s) \in S
           /\ DOMAIN s = 1..Len(s) /\ Len(s) \in Nat \ {0}
           /\ DOMAIN Tail(s) = 1..(Len(s) - 1)
           /\ \A i \in 1..(Len(s) - 1) : Tail(s)[i] = s[i + 1]
OBVIOUS

\* The block at index i of a queue is at i - 1 once the first has run.
LEMMA RanIndex ==
    ASSUME NEW S, NEW s \in Seq(S), s # << >>, NEW i \in DOMAIN s, i # 1
    PROVE  i - 1 \in DOMAIN Tail(s) /\ Tail(s)[i - 1] = s[i]
OBVIOUS

\* Calls of Auth and of fetchUser are calls, and different ones.
LEMMA CallFacts ==
    ASSUME NEW a \in Account
    PROVE  /\ Call("signIn", a) \in AuthCalls /\ Call("image", a) \in AuthCalls
           /\ Call("create", a) \in AuthCalls /\ AuthCalls \subseteq Calls
           /\ Call("fetch", a) \in Calls /\ Call("reset", a) \in Calls
           /\ \A k \in STRING : Call(k, a).kind = k /\ Call(k, a).of = a
           /\ \A c \in Calls : c = Call(c.kind, c.of) /\ c.of \in Account
           /\ \A c \in AuthCalls : c # Call("fetch", a) /\ c # Call("reset", a)
BY DEF Calls, AuthCalls, Call

\* What is asked of the services after one more call, and after an answer.
LEMMA AskedFacts ==
    ASSUME asked \in [Calls -> Nat]
    PROVE  /\ \A cs : Asking(cs) \in [Calls -> Nat]
           /\ \A cs : \A c \in Calls : Asking(cs)[c] = IF c \in cs THEN asked[c] + 1 ELSE asked[c]
           /\ \A c \in Calls : asked[c] > 0 =>
                 /\ Returned(c) \in [Calls -> Nat]
                 /\ \A d \in Calls : Returned(c)[d] = IF d = c THEN asked[c] - 1 ELSE asked[d]
BY DEF Asking, Returned

-----------------------------------------------------------------------------
(***************************************************************************)
(* Types, and the existence of what is named.                              *)
(***************************************************************************)

\* Init: the accounts there are from the start are accounts.
LEMMA InitTypes ==
    ASSUME Init
    PROVE  TypeOK /\ Existing
<1>1. current \in created \union {Nobody} /\ tabs \in created \union {Nobody}
      /\ created \subseteq Account /\ profiles \subseteq created
  BY AccountAssumption DEF Init
<1>2. asked \in [Calls -> Nat]
  BY DEF Init
<1>3. mainq \in Seq(Blocks) /\ \A i \in DOMAIN mainq : mainq[i].type = "present"
  <2>1. PresentLogin \in Blocks /\ PresentLogin.type = "present"
    BY DEF Blocks, PresentLogin
  <2>2. CASE mainq = <<PresentLogin>>
    BY <2>1, <2>2
  <2>3. CASE mainq = << >>
    BY <2>3
  <2> QED
    BY <2>2, <2>3 DEF Init
<1>4. docq = {} /\ screen = "tabs" /\ touches = 0 /\ faults = 0 /\ hurried = FALSE /\ crossed = FALSE
      /\ torn = {}
  BY DEF Init
<1> QED
  <2>1. touches \in 0..MaxTouches /\ faults \in 0..MaxFaults
    BY <1>4, SessionBounds
  <2> QED
    BY <1>1, <1>2, <1>3, <1>4, <2>1 DEF TypeOK, Existing

\* The bounds on touches and faults are kept.
LEMMA BoundsKept ==
    ASSUME TypeOK
    PROVE  (Touch => touches' \in 0..MaxTouches) /\ (Fault => faults' \in 0..MaxFaults)
BY SessionBounds DEF TypeOK, Touch, Fault

\* A block posted to the main queue keeps it well formed.
LEMMA PostedTypes ==
    ASSUME TypeOK, Existing, NEW b \in Blocks, NEW C,
           created \subseteq C, b.type \in {"created", "user"} => b.of \in C,
           mainq' = Append(mainq, b)
    PROVE  /\ mainq' \in Seq(Blocks)
           /\ \A i \in DOMAIN mainq' :
                 mainq'[i].type \in {"created", "user"} => mainq'[i].of \in C
<1>1. mainq \in Seq(Blocks)
  BY DEF TypeOK
<1>2. \A i \in DOMAIN mainq : mainq[i].type \in {"created", "user"} => mainq[i].of \in C
  BY DEF Existing
<1> QED
  BY <1>1, <1>2, Posted

\* So does the end of its first block.
LEMMA RanTypes ==
    ASSUME TypeOK, Existing, mainq # << >>, mainq' = Tail(mainq)
    PROVE  /\ mainq' \in Seq(Blocks) /\ mainq[1] \in Blocks /\ Head(mainq) = mainq[1]
           /\ mainq[1].type \in {"created", "user"} => mainq[1].of \in created
           /\ \A i \in DOMAIN mainq' :
                 mainq'[i].type \in {"created", "user"} => mainq'[i].of \in created
<1>1. mainq \in Seq(Blocks)
  BY DEF TypeOK
<1>2. \A i \in DOMAIN mainq : mainq[i].type \in {"created", "user"} => mainq[i].of \in created
  BY DEF Existing
<1> QED
  BY <1>1, <1>2, Ran

\* Every step keeps the types, and names accounts that exist.
LEMMA TypesKept ==
    ASSUME TypeOK, Existing, Next
    PROVE  TypeOK' /\ Existing'
<1>t. asked \in [Calls -> Nat] /\ mainq \in Seq(Blocks) /\ docq \subseteq Docs
  BY DEF TypeOK
<1>1. ASSUME NEW a \in Account, LoginButtonPressed(a) PROVE TypeOK' /\ Existing'
  <2>1. asked' \in [Calls -> Nat]
    BY <1>1, <1>t, AskedFacts DEF LoginButtonPressed
  <2>2. hurried' \in BOOLEAN
    BY <1>1 DEF LoginButtonPressed, TypeOK
  <2> QED
    BY <1>1, <2>1, <2>2, BoundsKept DEF LoginButtonPressed, backend, shown, TypeOK, Existing
<1>2. ASSUME NEW a \in Account, SignUpButtonClicked(a) PROVE TypeOK' /\ Existing'
  <2>1. asked' \in [Calls -> Nat]
    BY <1>2, <1>t, AskedFacts DEF SignUpButtonClicked
  <2>2. hurried' \in BOOLEAN
    BY <1>2 DEF SignUpButtonClicked, TypeOK
  <2> QED
    BY <1>2, <2>1, <2>2, BoundsKept DEF SignUpButtonClicked, backend, shown, TypeOK, Existing
<1>3. ASSUME NEW a \in Account, ResetPasswordClicked(a) PROVE TypeOK' /\ Existing'
  <2>1. asked' \in [Calls -> Nat]
    BY <1>3, <1>t, AskedFacts DEF ResetPasswordClicked
  <2> QED
    BY <1>3, <2>1, BoundsKept DEF ResetPasswordClicked, backend, shown, history, TypeOK, Existing
<1>4. CASE Navigate
  BY <1>4, BoundsKept DEF Navigate, backend, device, history, TypeOK, Existing
<1>5. CASE LogoutPressed
  BY <1>5, BoundsKept DEF LogoutPressed, backend, history, TypeOK, Existing
<1>6. ASSUME NEW a \in Account, SignIn(a) PROVE TypeOK' /\ Existing'
  <2>1. asked' \in [Calls -> Nat]
    BY <1>6, <1>t, AskedFacts, CallFacts DEF SignIn
  <2>2. CASE a \in created
    <3>1. mainq' = Append(mainq, Block("complete", a)) /\ Block("complete", a) \in Blocks
      BY <1>6, <2>2 DEF SignIn, Block, Blocks
    <3>2. /\ mainq' \in Seq(Blocks)
          /\ \A i \in DOMAIN mainq' :
                mainq'[i].type \in {"created", "user"} => mainq'[i].of \in created
      BY <3>1, PostedTypes DEF Block
    <3> QED
      BY <1>6, <2>1, <2>2, <3>2
      DEF SignIn, backend, shown, counters, history, TypeOK, Existing
  <2>3. CASE a \notin created
    BY <1>6, <2>1, <2>3 DEF SignIn, backend, shown, counters, history, TypeOK, Existing
  <2> QED
    BY <2>2, <2>3
<1>7. ASSUME NEW a \in Account, ImageStored(a) PROVE TypeOK' /\ Existing'
  <2>1. asked' \in [Calls -> Nat]
    BY <1>7, <1>t, AskedFacts, CallFacts DEF ImageStored
  <2> QED
    BY <1>7, <2>1 DEF ImageStored, backend, shown, counters, history, TypeOK, Existing
<1>8. ASSUME NEW a \in Account, CreateUser(a) PROVE TypeOK' /\ Existing'
  <2>1. asked' \in [Calls -> Nat]
    BY <1>8, <1>t, AskedFacts, CallFacts DEF CreateUser
  <2>2. CASE a \notin created
    <3>1. mainq' = Append(mainq, Block("created", a)) /\ Block("created", a) \in Blocks
      BY <1>8, <2>2 DEF CreateUser, Block, Blocks
    <3>2. created' = created \union {a} /\ current' = a
      BY <1>8, <2>2 DEF CreateUser
    <3>3. /\ mainq' \in Seq(Blocks)
          /\ \A i \in DOMAIN mainq' :
                mainq'[i].type \in {"created", "user"} => mainq'[i].of \in created'
      <4>1. created \subseteq created' /\ Block("created", a).of \in created'
        BY <3>2 DEF Block
      <4> QED
        BY <3>1, <4>1, PostedTypes
    <3> QED
      BY <1>8, <2>1, <2>2, <3>2, <3>3
      DEF CreateUser, shown, counters, history, TypeOK, Existing
  <2>3. CASE a \in created
    BY <1>8, <2>1, <2>3 DEF CreateUser, shown, counters, history, TypeOK, Existing
  <2> QED
    BY <2>2, <2>3
<1>9. ASSUME NEW a \in Account, AnswerFetch(a) PROVE TypeOK' /\ Existing'
  <2> DEFINE found == a \in profiles \/ \E d \in docq : d.of = a /\ d.by = current
  <2>1. asked' \in [Calls -> Nat]
    BY <1>9, <1>t, AskedFacts, CallFacts DEF AnswerFetch
  <2>2. UNCHANGED <<created, profiles, current, docq, tabs, screen, touches, faults, hurried, torn>>
        /\ crossed' = (crossed \/ ~found)
        /\ mainq' = IF found THEN Append(mainq, Block("user", a)) ELSE mainq
    BY <1>9 DEF AnswerFetch, backend, shown, counters
  <2>3. found => a \in created
    BY DEF TypeOK, Existing
  <2>4. /\ mainq' \in Seq(Blocks)
        /\ \A i \in DOMAIN mainq' :
              mainq'[i].type \in {"created", "user"} => mainq'[i].of \in created
    <3>1. CASE found
      <4>1. mainq' = Append(mainq, Block("user", a)) /\ Block("user", a) \in Blocks
            /\ Block("user", a).of = a
        BY <2>2, <3>1 DEF Block, Blocks
      <4> QED
        BY <2>3, <3>1, <4>1, PostedTypes
    <3>2. CASE ~found
      BY <2>2, <3>2, <1>t DEF Existing
    <3> QED
      BY <3>1, <3>2
  <2> QED
    BY <2>1, <2>2, <2>4 DEF TypeOK, Existing
<1>10. ASSUME NEW a \in Account, AnswerReset(a) PROVE TypeOK' /\ Existing'
  <2>1. asked' \in [Calls -> Nat]
    BY <1>10, <1>t, AskedFacts, CallFacts DEF AnswerReset
  <2> QED
    BY <1>10, <2>1 DEF AnswerReset, backend, counters, history, TypeOK, Existing
<1>11. ASSUME NEW d \in docq, StoreDoc(d) PROVE TypeOK' /\ Existing'
  <2>1. d.of \in created /\ d.of \in Account
    BY DEF TypeOK, Existing, Docs
  <2>2. /\ mainq' \in Seq(Blocks)
        /\ \A i \in DOMAIN mainq' :
              mainq'[i].type \in {"created", "user"} => mainq'[i].of \in created
    <3>1. CASE d.waited
      <4>1. mainq' = Append(mainq, Block("complete", d.of)) /\ Block("complete", d.of) \in Blocks
        BY <1>11, <2>1, <3>1 DEF StoreDoc, Block, Blocks
      <4> QED
        BY <4>1, PostedTypes DEF Block
    <3>2. CASE ~d.waited
      BY <1>11, <3>2, <1>t DEF StoreDoc, Existing
    <3> QED
      BY <3>1, <3>2
  <2> QED
    BY <1>11, <2>1, <2>2 DEF StoreDoc, shown, counters, history, TypeOK, Existing
<1>12. CASE RunPresentLogin
  BY <1>12, RanTypes
  DEF RunPresentLogin, Running, backend, counters, history, TypeOK, Existing
<1>13. CASE RunCreated
  <2>1. mainq # << >> /\ mainq' = Tail(mainq) /\ Head(mainq).type = "created"
    BY <1>13 DEF RunCreated, Running
  <2>2. Head(mainq).of \in created /\ Head(mainq).of \in Account
    BY <2>1, RanTypes DEF TypeOK
  <2>3. docq' \subseteq Docs /\ \A d \in docq' : d.of \in created
    <3>1. current \in Account \union {Nobody}
      BY DEF TypeOK
    <3>2. Doc(Head(mainq).of, current, TRUE) \in Docs /\ Doc(Head(mainq).of, current, TRUE).of \in created
      BY <2>2, <3>1 DEF Doc, Docs
    <3> QED
      BY <1>13, <1>t, <3>2 DEF RunCreated, Existing
  <2> QED
    BY <1>13, <2>1, <2>3, RanTypes
    DEF RunCreated, backend, shown, counters, history, TypeOK, Existing
<1>14. CASE AuthenticationComplete
  <2>1. asked' \in [Calls -> Nat]
    BY <1>14, <1>t, AskedFacts DEF AuthenticationComplete
  <2>2. mainq # << >> /\ mainq' = Tail(mainq)
    BY <1>14 DEF AuthenticationComplete, Running
  <2> QED
    BY <1>14, <2>1, <2>2, RanTypes
    DEF AuthenticationComplete, backend, counters, TypeOK, Existing
<1>15. CASE RunUser
  <2>1. mainq # << >> /\ mainq' = Tail(mainq) /\ Head(mainq).type = "user"
    BY <1>15 DEF RunUser, Running
  <2>2. Head(mainq).of \in created
    BY <2>1, RanTypes
  <2> QED
    BY <1>15, <2>1, <2>2, RanTypes DEF RunUser, backend, counters, history, TypeOK, Existing
<1>16. ASSUME NEW c \in Calls, FailCall(c) PROVE TypeOK' /\ Existing'
  <2>1. asked' \in [Calls -> Nat]
    BY <1>16, <1>t, AskedFacts DEF FailCall
  <2>2. crossed' \in BOOLEAN
    BY <1>16 DEF FailCall, TypeOK
  <2>3. PICK as \in SUBSET Account : created' = created \union as /\ torn' = torn \union (as \ created)
    BY <1>16 DEF FailCall
  <2> QED
    BY <1>16, <2>1, <2>2, <2>3, BoundsKept DEF FailCall, shown, TypeOK, Existing
<1>17. ASSUME NEW d \in docq, RefuseDoc(d) PROVE TypeOK' /\ Existing'
  <2>1. d.of \in Account
    BY DEF TypeOK, Docs
  <2> QED
    BY <1>17, <2>1, BoundsKept DEF RefuseDoc, backend, shown, TypeOK, Existing
<1>18. CASE Kill
  <2>1. asked' \in [Calls -> Nat]
    BY <1>18 DEF Kill, ViewDidLoad
  <2>2. mainq' \in Seq(Blocks) /\ \A i \in DOMAIN mainq' : mainq'[i].type = "present"
    <3>1. PresentLogin \in Blocks /\ PresentLogin.type = "present"
      BY DEF Blocks, PresentLogin
    <3>2. CASE mainq' = <<PresentLogin>>
      BY <3>1, <3>2
    <3>3. CASE mainq' = << >>
      BY <3>3
    <3> QED
      BY <1>18, <3>2, <3>3 DEF Kill, ViewDidLoad
  <2>3. docq' \subseteq Docs /\ \A d \in docq' : d.of \in created
    <3> SUFFICES ASSUME NEW e \in docq' PROVE e \in Docs /\ e.of \in created
      OBVIOUS
    <3>1. PICK d \in docq : e = Doc(d.of, d.by, FALSE)
      BY <1>18 DEF Kill
    <3>2. d \in Docs /\ d.of \in created
      BY DEF TypeOK, Existing
    <3> QED
      BY <3>1, <3>2 DEF Doc, Docs
  <2>4. ToBeWritten \subseteq Account
    BY DEF ToBeWritten, TypeOK, Existing
  <2>5. created \subseteq created' /\ created' \subseteq Account /\ torn' \subseteq Account
    BY <1>18, <2>4 DEF Kill, TypeOK
  <2>6. UNCHANGED <<profiles, current, touches, hurried, crossed>> /\ tabs' = Nobody
        /\ screen' = "tabs" /\ faults' \in 0..MaxFaults
    BY <1>18, BoundsKept DEF Kill
  <2> QED
    BY <2>1, <2>2, <2>3, <2>5, <2>6 DEF TypeOK, Existing
<1> QED
  BY <1>1, <1>2, <1>3, <1>4, <1>5, <1>6, <1>7, <1>8, <1>9, <1>10, <1>11, <1>12, <1>13, <1>14,
     <1>15, <1>16, <1>17, <1>18 DEF Next, Touched, Progress, RunBlock, Failing

-----------------------------------------------------------------------------
(***************************************************************************)
(* No profile is lost.                                                     *)
(***************************************************************************)

\* What is in the main queue, and the document of a that will be written.
Holds(b) == \E i \in DOMAIN mainq : mainq[i] = b
WillBeWritten(a) == Holds(Block("created", a)) \/ \E d \in docq : d.of = a

\* A block stays in the main queue until it is the first, and runs.
LEMMA HoldsKept ==
    ASSUME TypeOK, NEW b, Holds(b),
           \/ mainq' = mainq
           \/ \E n \in Blocks : mainq' = Append(mainq, n)
           \/ mainq # << >> /\ mainq' = Tail(mainq) /\ Head(mainq) # b
    PROVE  Holds(b)'
<1>1. PICK i \in DOMAIN mainq : mainq[i] = b
  BY DEF Holds
<1>2. mainq \in Seq(Blocks)
  BY DEF TypeOK
<1>3. CASE mainq' = mainq
  BY <1>1, <1>3 DEF Holds
<1>4. CASE \E n \in Blocks : mainq' = Append(mainq, n)
  <2>1. i \in DOMAIN mainq' /\ mainq'[i] = mainq[i]
    BY <1>2, <1>4, Posted
  <2> QED
    BY <1>1, <2>1 DEF Holds
<1>5. CASE mainq # << >> /\ mainq' = Tail(mainq) /\ Head(mainq) # b
  <2>1. i # 1
    BY <1>1, <1>2, <1>5, Ran
  <2>2. i - 1 \in DOMAIN mainq' /\ mainq'[i - 1] = b
    BY <1>1, <1>2, <1>5, <2>1, RanIndex
  <2> QED
    BY <2>2 DEF Holds
<1> QED
  BY <1>3, <1>4, <1>5

\* The block that was posted is in the queue.
LEMMA HoldsPosted ==
    ASSUME TypeOK, NEW b \in Blocks, mainq' = Append(mainq, b)
    PROVE  Holds(b)'
<1>1. mainq \in Seq(Blocks)
  BY DEF TypeOK
<1>2. Len(mainq) + 1 \in DOMAIN mainq' /\ mainq'[Len(mainq) + 1] = b
  BY <1>1, Posted
<1> QED
  BY <1>2 DEF Holds

\* A step that leaves the accounts, the documents and the registrations alone.
LEMMA LostUntouched ==
    ASSUME TypeOK, NoLostProfile, UNCHANGED created, profiles \subseteq profiles',
           torn \subseteq torn', docq \subseteq docq',
           \/ mainq' = mainq
           \/ \E n \in Blocks : mainq' = Append(mainq, n)
           \/ mainq # << >> /\ mainq' = Tail(mainq) /\ Head(mainq).type # "created"
    PROVE  NoLostProfile'
<1> SUFFICES ASSUME NEW a \in created \ (profiles \union torn)
             PROVE  WillBeWritten(a)'
  BY DEF NoLostProfile, WillBeWritten, Holds
<1>1. CASE Holds(Block("created", a))
  BY <1>1, HoldsKept DEF WillBeWritten, Block
<1>2. CASE \E d \in docq : d.of = a
  BY <1>2 DEF WillBeWritten
<1> QED
  BY <1>1, <1>2 DEF NoLostProfile, WillBeWritten, Holds

\* Every step keeps an account's document, or a way for it to be written.
LEMMA LostKept ==
    ASSUME TypeOK, Existing, NoLostProfile, Next
    PROVE  NoLostProfile'
<1>t. mainq \in Seq(Blocks) /\ docq \subseteq Docs /\ created \subseteq Account
  BY DEF TypeOK
<1>b. \A a \in Account : \A k \in {"created", "complete", "user"} : Block(k, a) \in Blocks
  BY DEF Block, Blocks
<1>1. ASSUME NEW a \in Account,
             LoginButtonPressed(a) \/ SignUpButtonClicked(a) \/ ResetPasswordClicked(a)
      PROVE  NoLostProfile'
  BY <1>1, LostUntouched
  DEF LoginButtonPressed, SignUpButtonClicked, ResetPasswordClicked, backend, history
<1>2. CASE Navigate \/ LogoutPressed
  BY <1>2, LostUntouched DEF Navigate, LogoutPressed, backend, device, history
<1>3. ASSUME NEW a \in Account, SignIn(a) \/ ImageStored(a) \/ AnswerFetch(a) \/ AnswerReset(a)
      PROVE  NoLostProfile'
  <2>1. UNCHANGED <<created, profiles, docq, torn>>
    BY <1>3 DEF SignIn, ImageStored, AnswerFetch, AnswerReset, backend, history
  <2>2. mainq' = mainq \/ \E n \in Blocks : mainq' = Append(mainq, n)
    BY <1>3, <1>b DEF SignIn, ImageStored, AnswerFetch, AnswerReset
  <2> QED
    BY <2>1, <2>2, LostUntouched
<1>4. ASSUME NEW a \in Account, CreateUser(a) PROVE NoLostProfile'
  <2>1. CASE a \in created
    BY <1>4, <2>1, LostUntouched DEF CreateUser, history
  <2>2. CASE a \notin created
    <3>1. /\ created' = created \union {a} /\ UNCHANGED <<profiles, docq, torn>>
          /\ mainq' = Append(mainq, Block("created", a))
      BY <1>4, <2>2 DEF CreateUser, history
    <3>2. WillBeWritten(a)'
      BY <3>1, <1>b, HoldsPosted DEF WillBeWritten
    <3>3. ASSUME NEW x \in created \ (profiles \union torn) PROVE WillBeWritten(x)'
      <4>1. CASE Holds(Block("created", x))
        BY <3>1, <4>1, <1>b, HoldsKept DEF WillBeWritten
      <4>2. CASE \E d \in docq : d.of = x
        BY <3>1, <4>2 DEF WillBeWritten
      <4> QED
        BY <4>1, <4>2 DEF NoLostProfile, WillBeWritten, Holds
    <3> QED
      BY <3>1, <3>2, <3>3 DEF NoLostProfile, WillBeWritten, Holds
  <2> QED
    BY <2>1, <2>2
<1>5. ASSUME NEW d \in docq, StoreDoc(d) \/ RefuseDoc(d) PROVE NoLostProfile'
  <2>1. /\ docq' = docq \ {d} /\ UNCHANGED created
        /\ profiles \union torn \union {d.of} \subseteq profiles' \union torn'
    BY <1>5 DEF StoreDoc, RefuseDoc, backend, history
  <2>2. d.of \in Account
    BY <1>t DEF Docs
  <2>3. mainq' = mainq \/ \E n \in Blocks : mainq' = Append(mainq, n)
    BY <1>5, <1>b, <2>2 DEF StoreDoc, RefuseDoc
  <2>4. ASSUME NEW x \in created \ (profiles' \union torn') PROVE WillBeWritten(x)'
    <3>1. x \in created \ (profiles \union torn) /\ x # d.of
      BY <2>1
    <3>2. CASE Holds(Block("created", x))
      BY <2>3, <3>2, HoldsKept DEF WillBeWritten
    <3>3. CASE \E e \in docq : e.of = x
      BY <2>1, <3>1, <3>3 DEF WillBeWritten
    <3> QED
      BY <3>1, <3>2, <3>3 DEF NoLostProfile, WillBeWritten, Holds
  <2> QED
    BY <2>1, <2>4 DEF NoLostProfile, WillBeWritten, Holds
<1>6. CASE RunPresentLogin \/ AuthenticationComplete \/ RunUser
  BY <1>6, LostUntouched
  DEF RunPresentLogin, AuthenticationComplete, RunUser, Running, backend, history
<1>7. CASE RunCreated
  <2>1. /\ mainq # << >> /\ mainq' = Tail(mainq) /\ UNCHANGED <<created, profiles, torn>>
        /\ docq' = docq \union {Doc(Head(mainq).of, current, TRUE)}
    BY <1>7 DEF RunCreated, Running, backend, history
  <2>2. ASSUME NEW x \in created \ (profiles \union torn) PROVE WillBeWritten(x)'
    <3>1. CASE Holds(Block("created", x)) /\ Head(mainq) # Block("created", x)
      BY <2>1, <3>1, HoldsKept DEF WillBeWritten
    <3>2. CASE Head(mainq) = Block("created", x)
      <4>1. Head(mainq).of = x
        BY <3>2 DEF Block
      <4>2. Doc(x, current, TRUE) \in docq' /\ Doc(x, current, TRUE).of = x
        BY <2>1, <4>1 DEF Doc
      <4> QED
        BY <4>2 DEF WillBeWritten
    <3>3. CASE \E d \in docq : d.of = x
      BY <2>1, <3>3 DEF WillBeWritten
    <3> QED
      BY <3>1, <3>2, <3>3 DEF NoLostProfile, WillBeWritten, Holds
  <2> QED
    BY <2>1, <2>2 DEF NoLostProfile, WillBeWritten, Holds
<1>8. ASSUME NEW c \in Calls, FailCall(c) PROVE NoLostProfile'
  <2>1. PICK as : created' = created \union as /\ torn' = torn \union (as \ created)
    BY <1>8 DEF FailCall
  <2>2. UNCHANGED <<profiles, docq, mainq>>
    BY <1>8 DEF FailCall
  <2> QED
    BY <2>1, <2>2 DEF NoLostProfile
<1>9. CASE Kill
  <2>1. PICK as : /\ created' = created \union as
                  /\ torn' = torn \union (as \ created) \union ToBeWritten
    BY <1>9 DEF Kill
  <2>2. UNCHANGED profiles /\ docq' = {Doc(d.of, d.by, FALSE) : d \in docq}
    BY <1>9 DEF Kill
  <2>3. ASSUME NEW x \in created' \ (profiles' \union torn') PROVE \E d \in docq' : d.of = x
    <3>1. x \in created \ (profiles \union torn) /\ x \notin ToBeWritten
      BY <2>1, <2>2
    <3>2. ~ Holds(Block("created", x))
      BY <3>1 DEF Holds, ToBeWritten, Block
    <3>3. PICK d \in docq : d.of = x
      BY <3>1, <3>2 DEF NoLostProfile, Holds
    <3>4. Doc(d.of, d.by, FALSE) \in docq' /\ Doc(d.of, d.by, FALSE).of = x
      BY <2>2, <3>3 DEF Doc
    <3> QED
      BY <3>4
  <2> QED
    BY <2>3 DEF NoLostProfile
<1> QED
  BY <1>1, <1>2, <1>3, <1>4, <1>5, <1>6, <1>7, <1>8, <1>9
  DEF Next, Touched, Progress, RunBlock, Failing

-----------------------------------------------------------------------------
(***************************************************************************)
(* People who wait have one thing of Auth under way.                       *)
(***************************************************************************)
\* Nothing forgets that people did not wait, or that fetches crossed.
LEMMA HistoryKept ==
    ASSUME Next
    PROVE  (hurried => hurried') /\ (crossed => crossed')
<1>1. ASSUME hurried PROVE hurried'
  BY <1>1 DEF Next, Touched, Progress, RunBlock, Failing, LoginButtonPressed, SignUpButtonClicked,
     ResetPasswordClicked, Navigate, LogoutPressed, SignIn, ImageStored, CreateUser,
     AnswerFetch, AnswerReset, StoreDoc, RunPresentLogin, RunCreated, AuthenticationComplete,
     RunUser, FailCall, RefuseDoc, Kill, history
<1>2. ASSUME crossed PROVE crossed'
  BY <1>2 DEF Next, Touched, Progress, RunBlock, Failing, LoginButtonPressed, SignUpButtonClicked,
     ResetPasswordClicked, Navigate, LogoutPressed, SignIn, ImageStored, CreateUser,
     AnswerFetch, AnswerReset, StoreDoc, RunPresentLogin, RunCreated, AuthenticationComplete,
     RunUser, FailCall, RefuseDoc, Kill, history
<1> QED
  BY <1>1, <1>2

OneUnderWay == OneAtATime /\ SignedInMeanwhile /\ (AuthBusy => screen # "tabs")

\* Whether Auth is busy, spelled out.
LEMMA BusyFacts ==
    /\ ~AuthBusy => /\ \A c \in AuthCalls : ~(asked[c] > 0)
                    /\ \A i \in DOMAIN mainq : ~Completing(mainq[i])
                    /\ \A d \in docq : ~d.waited
    /\ \A c \in AuthCalls : asked[c] > 0 => AuthBusy
    /\ \A i \in DOMAIN mainq : Completing(mainq[i]) => AuthBusy
    /\ \A d \in docq : d.waited => AuthBusy
BY DEF AuthBusy, Completing

\* A step that starts nothing of Auth, and keeps the account and the cover.
LEMMA NothingStarted ==
    ASSUME TypeOK, OneUnderWay, asked' \in [Calls -> Nat],
           \A c \in AuthCalls : asked'[c] <= asked[c],
           \A d \in docq' : d.waited => d \in docq,
           \/ mainq' = mainq
           \/ \E n \in Blocks : mainq' = Append(mainq, n) /\ ~Completing(n)
           \/ mainq # << >> /\ mainq' = Tail(mainq),
           UNCHANGED current, screen' = screen \/ screen' # "tabs"
    PROVE  OneUnderWay'
<1>t. mainq \in Seq(Blocks) /\ asked \in [Calls -> Nat] /\ AuthCalls \subseteq Calls
  BY DEF TypeOK, AuthCalls
<1>1. PICK k \in Nat : /\ \A i \in DOMAIN mainq' : Completing(mainq'[i]) =>
                             i + k \in DOMAIN mainq /\ mainq[i + k] = mainq'[i]
                       /\ \A i \in DOMAIN mainq' : i \in Nat
  <2>1. CASE mainq' = mainq
    <3>1. \A i \in DOMAIN mainq : i + 0 = i /\ i \in Nat
      BY <1>t
    <3> QED
      BY <2>1, <3>1
  <2>2. CASE \E n \in Blocks : mainq' = Append(mainq, n) /\ ~Completing(n)
    <3>1. PICK n \in Blocks : mainq' = Append(mainq, n) /\ ~Completing(n)
      BY <2>2
    <3>2. \A i \in DOMAIN mainq' : Completing(mainq'[i]) =>
              i + 0 \in DOMAIN mainq /\ mainq[i + 0] = mainq'[i]
      BY <1>t, <3>1, Posted
    <3>3. \A i \in DOMAIN mainq' : i \in Nat
      BY <1>t, <3>1, Posted
    <3> QED
      BY <3>2, <3>3
  <2>3. CASE mainq # << >> /\ mainq' = Tail(mainq)
    <3>1. \A i \in DOMAIN mainq' : i \in Nat /\ i + 1 \in DOMAIN mainq /\ mainq[i + 1] = mainq'[i]
      BY <1>t, <2>3, Ran
    <3> QED
      BY <3>1
  <2> QED
    BY <2>1, <2>2, <2>3
<1>2. \A c \in AuthCalls : asked'[c] \in Nat /\ asked[c] \in Nat /\ asked'[c] <= asked[c]
  BY <1>t
<1>3. OneAtATime'
  <2>1. \A i, j \in DOMAIN mainq' : Completing(mainq'[i]) /\ Completing(mainq'[j]) => i = j
    <3> SUFFICES ASSUME NEW i \in DOMAIN mainq', NEW j \in DOMAIN mainq',
                        Completing(mainq'[i]), Completing(mainq'[j])
                 PROVE  i = j
      OBVIOUS
    <3>1. i + k = j + k
      BY <1>1 DEF OneUnderWay, OneAtATime
    <3> QED
      BY <3>1, <1>1
  <2>2. \A c, d \in AuthCalls : asked'[c] > 0 /\ asked'[d] > 0 => c = d
    BY <1>2 DEF OneUnderWay, OneAtATime
  <2>3. \A c \in AuthCalls : asked'[c] <= 1
    BY <1>2 DEF OneUnderWay, OneAtATime
  <2>4. \A c \in AuthCalls : asked'[c] > 0 =>
            /\ \A i \in DOMAIN mainq' : ~Completing(mainq'[i])
            /\ \A d \in docq' : ~d.waited
    <3> SUFFICES ASSUME NEW c \in AuthCalls, asked'[c] > 0
                 PROVE  /\ \A i \in DOMAIN mainq' : ~Completing(mainq'[i])
                        /\ \A d \in docq' : ~d.waited
      OBVIOUS
    <3>1. asked[c] > 0
      BY <1>2
    <3> QED
      BY <1>1, <3>1 DEF OneUnderWay, OneAtATime
  <2>5. \A i \in DOMAIN mainq' : Completing(mainq'[i]) => \A d \in docq' : ~d.waited
    BY <1>1 DEF OneUnderWay, OneAtATime
  <2>6. \A d, e \in docq' : d.waited /\ e.waited => d = e
    BY DEF OneUnderWay, OneAtATime
  <2> QED
    BY <2>1, <2>2, <2>3, <2>4, <2>5, <2>6 DEF OneAtATime, Completing
<1>4. SignedInMeanwhile'
  <2>1. \A i \in DOMAIN mainq' : Completing(mainq'[i]) => current # Nobody
    BY <1>1 DEF OneUnderWay, SignedInMeanwhile
  <2>2. \A d \in docq' : d.waited => current # Nobody
    BY DEF OneUnderWay, SignedInMeanwhile
  <2> QED
    BY <2>1, <2>2 DEF SignedInMeanwhile, Completing
<1>5. AuthBusy' => screen' # "tabs"
  <2> SUFFICES ASSUME AuthBusy', screen' = screen PROVE screen # "tabs"
    OBVIOUS
  <2>1. AuthBusy
    <3>1. CASE \E c \in AuthCalls : asked'[c] > 0
      <4>1. PICK c \in AuthCalls : asked'[c] > 0
        BY <3>1
      <4>2. asked[c] > 0
        BY <4>1, <1>2
      <4> QED
        BY <4>2, BusyFacts
    <3>2. CASE \E i \in DOMAIN mainq' : Completing(mainq'[i])
      BY <3>2, <1>1, BusyFacts
    <3>3. CASE \E d \in docq' : d.waited
      BY <3>3, BusyFacts
    <3> QED
      BY <3>1, <3>2, <3>3 DEF AuthBusy, Completing
  <2> QED
    BY <2>1 DEF OneUnderWay
<1> QED
  BY <1>3, <1>4, <1>5 DEF OneUnderWay

\* The only thing under way is, at most, a call.
LEMMA OnlyACall ==
    ASSUME asked' \in [Calls -> Nat], NEW c \in AuthCalls, asked'[c] <= 1,
           \A d \in AuthCalls : d # c => asked'[d] = 0,
           \A i \in DOMAIN mainq' : ~Completing(mainq'[i]), \A d \in docq' : ~d.waited,
           screen' # "tabs"
    PROVE  OneUnderWay'
<1>1. \A d \in AuthCalls : asked'[d] > 0 => d = c
  OBVIOUS
<1>2. \A d \in AuthCalls : asked'[d] <= 1
  OBVIOUS
<1> QED
  BY <1>1, <1>2 DEF OneUnderWay, OneAtATime, SignedInMeanwhile, Completing

\* The only thing under way is, at most, a block at the end of the main queue.
LEMMA OnlyABlock ==
    ASSUME TypeOK, \A c \in AuthCalls : asked'[c] = 0, NEW b \in Blocks,
           mainq' = Append(mainq, b), \A i \in DOMAIN mainq : ~Completing(mainq[i]),
           \A d \in docq' : ~d.waited, current' # Nobody, screen' # "tabs"
    PROVE  OneUnderWay'
<1>1. mainq \in Seq(Blocks)
  BY DEF TypeOK
<1>2. \A i \in DOMAIN mainq' : Completing(mainq'[i]) => i = Len(mainq) + 1
  BY <1>1, Posted
<1>3. \A i, j \in DOMAIN mainq' : Completing(mainq'[i]) /\ Completing(mainq'[j]) => i = j
  BY <1>2
<1>4. \A c \in AuthCalls : asked'[c] <= 1 /\ ~(asked'[c] > 0)
  OBVIOUS
<1> QED
  BY <1>3, <1>4 DEF OneUnderWay, OneAtATime, SignedInMeanwhile, Completing

\* The only thing under way is, at most, a document.
LEMMA OnlyADoc ==
    ASSUME \A c \in AuthCalls : asked'[c] = 0, \A i \in DOMAIN mainq' : ~Completing(mainq'[i]),
           NEW d, \A e \in docq' : e.waited => e = d, current' # Nobody, screen' # "tabs"
    PROVE  OneUnderWay'
<1>1. \A c \in AuthCalls : asked'[c] <= 1 /\ ~(asked'[c] > 0)
  OBVIOUS
<1> QED
  BY <1>1 DEF OneUnderWay, OneAtATime, SignedInMeanwhile, Completing

\* Nothing is under way.
LEMMA NothingUnderWay ==
    ASSUME \A c \in AuthCalls : asked'[c] = 0, \A i \in DOMAIN mainq' : ~Completing(mainq'[i]),
           \A e \in docq' : ~e.waited
    PROVE  OneUnderWay'
<1>1. \A c \in AuthCalls : asked'[c] <= 1 /\ ~(asked'[c] > 0)
  OBVIOUS
<1> QED
  BY <1>1 DEF OneUnderWay, OneAtATime, SignedInMeanwhile, Completing, AuthBusy

\* The block that ends was the only thing under way.
LEMMA WasTheOnlyBlock ==
    ASSUME TypeOK, OneAtATime, mainq # << >>, mainq' = Tail(mainq), Completing(Head(mainq))
    PROVE  /\ \A c \in AuthCalls : asked[c] = 0
           /\ \A i \in DOMAIN mainq' : ~Completing(mainq'[i])
           /\ \A d \in docq : ~d.waited
           /\ 1 \in DOMAIN mainq /\ Head(mainq) = mainq[1]
<1>1. mainq \in Seq(Blocks) /\ asked \in [Calls -> Nat] /\ AuthCalls \subseteq Calls
  BY DEF TypeOK, AuthCalls
<1>2. 1 \in DOMAIN mainq /\ Head(mainq) = mainq[1]
  BY <1>1, Ran
<1>3. \A i \in DOMAIN mainq' : ~Completing(mainq'[i])
  <2> SUFFICES ASSUME NEW i \in DOMAIN mainq', Completing(mainq'[i]) PROVE FALSE
    OBVIOUS
  <2>1. i \in Nat /\ i # 0 /\ i + 1 \in DOMAIN mainq /\ mainq[i + 1] = mainq'[i]
    BY <1>1, Ran
  <2>2. i + 1 = 1
    BY <1>2, <2>1 DEF OneAtATime
  <2> QED
    BY <2>1, <2>2
<1>4. \A c \in AuthCalls : ~(asked[c] > 0) /\ asked[c] \in Nat
  BY <1>1, <1>2 DEF OneAtATime
<1> QED
  BY <1>2, <1>3, <1>4 DEF OneAtATime

\* The call that is answered was the only thing under way.
LEMMA WasTheOnlyCall ==
    ASSUME TypeOK, OneAtATime, NEW c \in AuthCalls, asked[c] > 0
    PROVE  /\ asked[c] = 1
           /\ \A d \in AuthCalls : d # c => asked[d] = 0
           /\ \A i \in DOMAIN mainq : ~Completing(mainq[i])
           /\ \A d \in docq : ~d.waited
<1>1. asked \in [Calls -> Nat] /\ AuthCalls \subseteq Calls
  BY DEF TypeOK, AuthCalls
<1>2. \A d \in AuthCalls : d # c => ~(asked[d] > 0) /\ asked[d] \in Nat
  BY <1>1 DEF OneAtATime
<1>3. asked[c] \in Nat /\ asked[c] <= 1
  BY <1>1 DEF OneAtATime
<1> QED
  BY <1>2, <1>3 DEF OneAtATime

\* Every step of people who wait keeps Auth at one thing.
LEMMA PatientKept ==
    ASSUME TypeOK, Existing, TypeOK', Patient, Next
    PROVE  Patient'
<1> SUFFICES ASSUME ~hurried' PROVE OneUnderWay'
  BY DEF Patient, OneUnderWay
<1>t. /\ mainq \in Seq(Blocks) /\ asked \in [Calls -> Nat] /\ docq \subseteq Docs
      /\ asked' \in [Calls -> Nat] /\ AuthCalls \subseteq Calls /\ Nobody \notin Account
      /\ \A c \in Calls : asked[c] <= asked[c]
  BY AccountAssumption DEF TypeOK, AuthCalls
<1>b. \A a \in Account : \A k \in {"created", "complete", "user"} :
          Block(k, a) \in Blocks /\ (Completing(Block(k, a)) <=> k # "user")
  BY DEF Block, Blocks, Completing
<1>h. ~hurried /\ OneUnderWay
  BY HistoryKept DEF Patient, OneUnderWay
<1>1. ASSUME NEW a \in Account, LoginButtonPressed(a) PROVE OneUnderWay'
  <2>1. ~AuthBusy /\ asked' = Asking({Call("signIn", a)}) /\ UNCHANGED <<docq, mainq, screen>>
        /\ screen = "login"
    BY <1>1 DEF LoginButtonPressed, shown
  <2>2. \A d \in AuthCalls : asked[d] = 0
    BY <1>t, <2>1, BusyFacts
  <2>3. Call("signIn", a) \in AuthCalls /\ asked'[Call("signIn", a)] <= 1
        /\ \A d \in AuthCalls : d # Call("signIn", a) => asked'[d] = 0
    BY <1>t, <2>1, <2>2, AskedFacts, CallFacts DEF Asking
  <2> QED
    BY <1>t, <2>1, <2>3, BusyFacts, OnlyACall
<1>2. ASSUME NEW a \in Account, SignUpButtonClicked(a) PROVE OneUnderWay'
  <2>1. ~AuthBusy /\ asked' = Asking({Call("image", a)}) /\ UNCHANGED <<docq, mainq, screen>>
        /\ screen = "register"
    BY <1>2 DEF SignUpButtonClicked, shown
  <2>2. \A d \in AuthCalls : asked[d] = 0
    BY <1>t, <2>1, BusyFacts
  <2>3. Call("image", a) \in AuthCalls /\ asked'[Call("image", a)] <= 1
        /\ \A d \in AuthCalls : d # Call("image", a) => asked'[d] = 0
    BY <1>t, <2>1, <2>2, AskedFacts, CallFacts DEF Asking
  <2> QED
    BY <1>t, <2>1, <2>3, BusyFacts, OnlyACall
<1>3. ASSUME NEW a \in Account, ResetPasswordClicked(a) PROVE OneUnderWay'
  <2>1. \A c \in AuthCalls : asked'[c] <= asked[c]
    <3>1. \A c \in AuthCalls : c # Call("reset", a) /\ c \in Calls
      BY CallFacts
    <3> QED
      BY <1>3, <1>t, <3>1 DEF ResetPasswordClicked, Asking
  <2> QED
    BY <1>3, <1>h, <1>t, <2>1, NothingStarted DEF ResetPasswordClicked, shown
<1>4. CASE Navigate
  BY <1>4, <1>h, <1>t, NothingStarted DEF Navigate, device
<1>5. CASE LogoutPressed
  <2>1. ~AuthBusy
    BY <1>5, <1>h DEF LogoutPressed, OneUnderWay
  <2>2. \A d \in AuthCalls : asked[d] = 0
    BY <1>t, <2>1, BusyFacts
  <2> QED
    BY <1>5, <2>1, <2>2, BusyFacts, NothingUnderWay DEF LogoutPressed
<1>6. ASSUME NEW a \in Account, SignIn(a) PROVE OneUnderWay'
  <2> DEFINE c == Call("signIn", a)
  <2>1. c \in AuthCalls /\ asked[c] > 0 /\ asked' = Returned(c) /\ UNCHANGED <<docq, screen>>
    BY <1>6, CallFacts DEF SignIn, shown
  <2>2. \A d \in AuthCalls : asked'[d] = 0
    BY <1>h, <1>t, <2>1, WasTheOnlyCall, AskedFacts DEF OneUnderWay
  <2>3. screen' # "tabs"
    BY <1>h, <2>1, BusyFacts DEF OneUnderWay
  <2>4. CASE a \in created
    <3>1. current' # Nobody /\ mainq' = Append(mainq, Block("complete", a))
      BY <1>6, <1>t, <2>4 DEF SignIn
    <3> QED
      BY <1>b, <1>h, <2>1, <2>2, <2>3, <3>1, WasTheOnlyCall, OnlyABlock DEF OneUnderWay
  <2>5. CASE a \notin created
    BY <1>6, <1>h, <2>1, <2>2, <2>5, WasTheOnlyCall, NothingUnderWay DEF SignIn, OneUnderWay
  <2> QED
    BY <2>4, <2>5
<1>7. ASSUME NEW a \in Account, ImageStored(a) PROVE OneUnderWay'
  <2> DEFINE c == Call("image", a)
             n == Call("create", a)
  <2>1. c \in AuthCalls /\ n \in AuthCalls /\ c # n /\ asked[c] > 0
        /\ asked' = [Returned(c) EXCEPT ![n] = @ + 1] /\ UNCHANGED <<docq, mainq, screen>>
    BY <1>7, CallFacts DEF ImageStored, shown, Call
  <2>2. asked[c] = 1 /\ (\A d \in AuthCalls : d # c => asked[d] = 0)
        /\ (\A i \in DOMAIN mainq : ~Completing(mainq[i])) /\ (\A d \in docq : ~d.waited)
    BY <1>h, <2>1, WasTheOnlyCall DEF OneUnderWay
  <2> HIDE DEF c, n
  <2>3. asked'[n] <= 1 /\ \A d \in AuthCalls : d # n => asked'[d] = 0
    BY <1>t, <2>1, <2>2 DEF Returned
  <2>4. screen' # "tabs"
    BY <1>h, <2>1, BusyFacts DEF OneUnderWay
  <2> QED
    BY <1>t, <2>1, <2>2, <2>3, <2>4, OnlyACall
<1>8. ASSUME NEW a \in Account, CreateUser(a) PROVE OneUnderWay'
  <2> DEFINE c == Call("create", a)
  <2>1. c \in AuthCalls /\ asked[c] > 0 /\ asked' = Returned(c) /\ UNCHANGED <<docq, screen>>
    BY <1>8, CallFacts DEF CreateUser, shown
  <2>2. \A d \in AuthCalls : asked'[d] = 0
    BY <1>h, <1>t, <2>1, WasTheOnlyCall, AskedFacts DEF OneUnderWay
  <2>3. screen' # "tabs"
    BY <1>h, <2>1, BusyFacts DEF OneUnderWay
  <2>4. CASE a \notin created
    <3>1. current' # Nobody /\ mainq' = Append(mainq, Block("created", a))
      BY <1>8, <1>t, <2>4 DEF CreateUser
    <3> QED
      BY <1>b, <1>h, <2>1, <2>2, <2>3, <3>1, WasTheOnlyCall, OnlyABlock DEF OneUnderWay
  <2>5. CASE a \in created
    BY <1>8, <1>h, <2>1, <2>2, <2>5, WasTheOnlyCall, NothingUnderWay DEF CreateUser, OneUnderWay
  <2> QED
    BY <2>4, <2>5
<1>9. ASSUME NEW a \in Account, AnswerFetch(a) \/ AnswerReset(a) PROVE OneUnderWay'
  <2>1. \A c \in AuthCalls : asked'[c] <= asked[c]
    <3>1. PICK c \in {Call("fetch", a), Call("reset", a)} : asked[c] > 0 /\ asked' = Returned(c)
      BY <1>9 DEF AnswerFetch, AnswerReset
    <3>2. c \in Calls
      BY CallFacts
    <3> QED
      BY <1>t, <3>1, <3>2, AskedFacts
  <2>2. mainq' = mainq \/ \E n \in Blocks : mainq' = Append(mainq, n) /\ ~Completing(n)
    BY <1>9, <1>b DEF AnswerFetch, AnswerReset
  <2>3. UNCHANGED <<current, docq>> /\ (screen' = screen \/ screen' # "tabs")
    BY <1>9 DEF AnswerFetch, AnswerReset, shown
  <2> QED
    BY <1>h, <1>t, <2>1, <2>2, <2>3, NothingStarted
<1>10. ASSUME NEW d \in docq, StoreDoc(d) PROVE OneUnderWay'
  <2>1. UNCHANGED <<asked, current, screen>> /\ docq' = docq \ {d} /\ d.of \in Account
    BY <1>10, <1>t DEF StoreDoc, shown, Docs
  <2>2. CASE d.waited
    <3>1. mainq' = Append(mainq, Block("complete", d.of))
      BY <1>10, <2>2 DEF StoreDoc
    <3>2. current' # Nobody /\ screen' # "tabs"
      BY <1>h, <2>1, <2>2, BusyFacts DEF OneUnderWay, SignedInMeanwhile
    <3>3. \A e \in docq' : ~e.waited
      BY <1>h, <2>1, <2>2 DEF OneUnderWay, OneAtATime
    <3>4. /\ \A c \in AuthCalls : ~(asked[c] > 0)
          /\ \A i \in DOMAIN mainq : ~Completing(mainq[i])
      BY <1>h, <2>2 DEF OneUnderWay, OneAtATime
    <3>5. \A c \in AuthCalls : asked'[c] = 0
      BY <1>t, <2>1, <3>4
    <3> QED
      BY <1>b, <2>1, <3>1, <3>2, <3>3, <3>4, <3>5, OnlyABlock
  <2>3. CASE ~d.waited
    BY <1>10, <1>h, <1>t, <2>1, <2>3, NothingStarted DEF StoreDoc
  <2> QED
    BY <2>2, <2>3
<1>11. CASE RunPresentLogin \/ RunUser
  BY <1>11, <1>h, <1>t, NothingStarted DEF RunPresentLogin, RunUser, Running
<1>12. CASE RunCreated
  <2> DEFINE d == Doc(Head(mainq).of, current, TRUE)
  <2>1. mainq # << >> /\ mainq' = Tail(mainq) /\ Completing(Head(mainq))
        /\ UNCHANGED <<asked, current, screen>> /\ docq' = docq \union {d}
    BY <1>12 DEF RunCreated, Running, shown, Completing
  <2> HIDE DEF d
  <2>2. /\ \A c \in AuthCalls : asked'[c] = 0
        /\ \A i \in DOMAIN mainq' : ~Completing(mainq'[i])
        /\ \A e \in docq : ~e.waited
        /\ 1 \in DOMAIN mainq /\ Head(mainq) = mainq[1]
    BY <1>h, <2>1, WasTheOnlyBlock DEF OneUnderWay
  <2>3. current' # Nobody /\ screen' # "tabs"
    BY <1>h, <2>1, <2>2, BusyFacts DEF OneUnderWay, SignedInMeanwhile
  <2> QED
    BY <2>1, <2>2, <2>3, OnlyADoc
<1>13. CASE AuthenticationComplete
  <2>1. mainq # << >> /\ mainq' = Tail(mainq) /\ Completing(Head(mainq)) /\ UNCHANGED docq
    BY <1>13 DEF AuthenticationComplete, Running, Completing
  <2>2. /\ \A c \in AuthCalls : asked[c] = 0
        /\ \A i \in DOMAIN mainq' : ~Completing(mainq'[i])
        /\ \A e \in docq : ~e.waited
    BY <1>h, <2>1, WasTheOnlyBlock DEF OneUnderWay
  <2>3. \A c \in AuthCalls : asked'[c] = 0
    BY <1>13, <1>t, <2>2 DEF AuthenticationComplete, Asking, SignedInAs, Call, AuthCalls
  <2> QED
    BY <2>1, <2>2, <2>3, NothingUnderWay
<1>14. ASSUME NEW c \in Calls, FailCall(c) PROVE OneUnderWay'
  <2>1. \A d \in AuthCalls : asked'[d] <= asked[d]
    BY <1>14, <1>t, AskedFacts DEF FailCall
  <2> QED
    BY <1>14, <1>h, <1>t, <2>1, NothingStarted DEF FailCall, shown
<1>15. ASSUME NEW d \in docq, RefuseDoc(d) PROVE OneUnderWay'
  BY <1>15, <1>h, <1>t, NothingStarted DEF RefuseDoc, shown
<1>16. CASE Kill
  <2>1. \A c \in AuthCalls : asked'[c] = 0
    BY <1>16, <1>t DEF Kill, ViewDidLoad, Call, AuthCalls
  <2>2. \A i \in DOMAIN mainq' : ~Completing(mainq'[i])
    <3>1. CASE mainq' = <<PresentLogin>>
      BY <3>1 DEF PresentLogin, Completing
    <3>2. CASE mainq' = << >>
      BY <3>2
    <3> QED
      BY <1>16, <3>1, <3>2 DEF Kill, ViewDidLoad
  <2>3. \A e \in docq' : ~e.waited
    BY <1>16 DEF Kill, Doc
  <2> QED
    BY <2>1, <2>2, <2>3, NothingUnderWay
<1> QED
  BY <1>1, <1>2, <1>3, <1>4, <1>5, <1>6, <1>7, <1>8, <1>9, <1>10, <1>11, <1>12, <1>13, <1>14,
     <1>15, <1>16 DEF Next, Touched, Progress, RunBlock, Failing

-----------------------------------------------------------------------------
(***************************************************************************)
(* Covers, and the tabs behind them.                                       *)
(***************************************************************************)

\* While nobody is signed in, every step keeps the login screens on top.
LEMMA CoversKept ==
    ASSUME TypeOK, Existing, Patient, LoginCovers, Next
    PROVE  LoginCovers'
<1> SUFFICES ASSUME ~hurried', current' = Nobody PROVE screen' # "tabs" \/ Holds(PresentLogin)'
  BY DEF LoginCovers, Holds
<1>t. mainq \in Seq(Blocks) /\ docq \subseteq Docs /\ Nobody \notin Account
  BY AccountAssumption DEF TypeOK
<1>b. \A a \in Account : \A k \in {"created", "complete", "user"} : Block(k, a) \in Blocks
  BY DEF Block, Blocks
<1>h. ~hurried /\ OneUnderWay /\ (current = Nobody => screen # "tabs" \/ Holds(PresentLogin))
  BY HistoryKept DEF Patient, OneUnderWay, LoginCovers, Holds
<1>1. ASSUME NEW a \in Account,
             LoginButtonPressed(a) \/ SignUpButtonClicked(a) \/ ResetPasswordClicked(a)
      PROVE  screen' # "tabs"
  BY <1>1 DEF LoginButtonPressed, SignUpButtonClicked, ResetPasswordClicked, shown
<1>2. CASE Navigate \/ LogoutPressed
  BY <1>2 DEF Navigate, LogoutPressed
<1>3. ASSUME NEW a \in Account,
             \/ SignIn(a) \/ ImageStored(a) \/ CreateUser(a) \/ AnswerFetch(a) \/ AnswerReset(a)
      PROVE  screen' # "tabs" \/ Holds(PresentLogin)'
  <2>1. current = Nobody
    BY <1>3, <1>t DEF SignIn, ImageStored, CreateUser, AnswerFetch, AnswerReset
  <2>2. screen' = screen \/ screen' # "tabs"
    BY <1>3 DEF SignIn, ImageStored, CreateUser, AnswerFetch, AnswerReset, shown
  <2>3. mainq' = mainq \/ \E n \in Blocks : mainq' = Append(mainq, n)
    BY <1>3, <1>b DEF SignIn, ImageStored, CreateUser, AnswerFetch, AnswerReset
  <2> QED
    BY <1>h, <2>1, <2>2, <2>3, HoldsKept
<1>4. ASSUME NEW d \in docq, StoreDoc(d) \/ RefuseDoc(d)
      PROVE  screen' # "tabs" \/ Holds(PresentLogin)'
  <2>1. current = Nobody /\ screen' = screen
    BY <1>4 DEF StoreDoc, RefuseDoc, shown
  <2>2. d.of \in Account
    BY <1>t DEF Docs
  <2>3. mainq' = mainq \/ \E n \in Blocks : mainq' = Append(mainq, n)
    BY <1>4, <1>b, <2>2 DEF StoreDoc, RefuseDoc
  <2> QED
    BY <1>h, <2>1, <2>3, HoldsKept
<1>5. CASE RunPresentLogin
  BY <1>5 DEF RunPresentLogin
<1>6. CASE RunCreated \/ RunUser
  <2>1. /\ current = Nobody /\ screen' = screen
        /\ mainq # << >> /\ mainq' = Tail(mainq) /\ Head(mainq).type # "present"
    BY <1>6 DEF RunCreated, RunUser, Running, shown
  <2>2. Head(mainq) # PresentLogin
    BY <2>1 DEF PresentLogin
  <2> QED
    BY <1>h, <2>1, <2>2, HoldsKept
<1>7. CASE AuthenticationComplete
  <2>1. current = Nobody /\ mainq # << >> /\ Completing(Head(mainq))
    BY <1>7 DEF AuthenticationComplete, Running, Completing
  <2>2. 1 \in DOMAIN mainq /\ Head(mainq) = mainq[1]
    BY <1>t, <2>1, Ran
  <2>3. current # Nobody
    BY <1>h, <2>1, <2>2 DEF OneUnderWay, SignedInMeanwhile
  <2> QED
    BY <2>1, <2>3
<1>8. ASSUME NEW c \in Calls, FailCall(c)
      PROVE  screen' # "tabs" \/ Holds(PresentLogin)'
  <2>1. UNCHANGED <<current, mainq, screen>>
    BY <1>8 DEF FailCall, shown
  <2> QED
    BY <1>h, <2>1, HoldsKept
<1>9. CASE Kill
  <2>1. mainq' = <<PresentLogin>>
    BY <1>9 DEF Kill, ViewDidLoad
  <2>2. 1 \in DOMAIN mainq' /\ mainq'[1] = PresentLogin
    BY <2>1
  <2> QED
    BY <2>2 DEF Holds
<1> QED
  BY <1>1, <1>2, <1>3, <1>4, <1>5, <1>6, <1>7, <1>8, <1>9
  DEF Next, Touched, Progress, RunBlock, Failing

\* The fetches behind uncovered tabs, as one statement.
Behind ==
    /\ \A c \in Calls : c.kind = "fetch" /\ c.of # current => asked[c] = 0
    /\ current # Nobody => TabsComing

\* A step that fetches nothing, answers no fetch and runs no answer.
LEMMA FetchesUntouched ==
    ASSUME TypeOK, Behind, UNCHANGED <<current, tabs>>,
           \A c \in Calls : c.kind = "fetch" => asked'[c] = asked[c],
           \/ mainq' = mainq
           \/ \E n \in Blocks : mainq' = Append(mainq, n) /\ n.type # "user"
           \/ mainq # << >> /\ mainq' = Tail(mainq) /\ Head(mainq).type # "user"
    PROVE  Behind'
<1>t. mainq \in Seq(Blocks) /\ current \in Account \union {Nobody}
  BY DEF TypeOK
<1>1. \A c \in Calls : c.kind = "fetch" /\ c.of # current' => asked'[c] = 0
  BY DEF Behind
<1>2. ASSUME current # Nobody PROVE TabsComing'
  <2>1. CASE asked[Call("fetch", current)] > 0
    <3>1. Call("fetch", current) \in Calls /\ Call("fetch", current).kind = "fetch"
      BY <1>t, <1>2 DEF Call, Calls
    <3> QED
      BY <2>1, <3>1 DEF TabsComing
  <2>2. CASE LastUserIs(current)
    <3>1. PICK i \in DOMAIN mainq : /\ mainq[i] = Block("user", current)
                                    /\ \A j \in DOMAIN mainq : j > i => mainq[j].type # "user"
      BY <2>2 DEF LastUserIs
    <3>2. CASE mainq' = mainq
      BY <3>1, <3>2 DEF LastUserIs, TabsComing
    <3>3. CASE \E n \in Blocks : mainq' = Append(mainq, n) /\ n.type # "user"
      <4>1. i \in DOMAIN mainq' /\ mainq'[i] = Block("user", current)
        BY <1>t, <3>1, <3>3, Posted
      <4>2. \A j \in DOMAIN mainq' : j > i => mainq'[j].type # "user"
        BY <1>t, <3>1, <3>3, Posted
      <4> QED
        BY <4>1, <4>2 DEF LastUserIs, TabsComing
    <3>4. CASE mainq # << >> /\ mainq' = Tail(mainq) /\ Head(mainq).type # "user"
      <4>1. i # 1
        BY <1>t, <3>1, <3>4, Ran DEF Block
      <4>2. i - 1 \in DOMAIN mainq' /\ mainq'[i - 1] = Block("user", current)
        BY <1>t, <3>1, <3>4, <4>1, RanIndex
      <4>3. \A j \in DOMAIN mainq' : j > i - 1 => mainq'[j].type # "user"
        <5> SUFFICES ASSUME NEW j \in DOMAIN mainq', j > i - 1 PROVE mainq'[j].type # "user"
          OBVIOUS
        <5>1. j + 1 \in DOMAIN mainq /\ mainq[j + 1] = mainq'[j] /\ j \in Nat /\ i \in Nat
          BY <1>t, <3>4, Ran
        <5>2. j + 1 > i
          BY <5>1
        <5> QED
          BY <3>1, <5>1, <5>2
      <4> QED
        BY <4>2, <4>3 DEF LastUserIs, TabsComing
    <3> QED
      BY <3>2, <3>3, <3>4
  <2>3. CASE tabs = current /\ \A j \in DOMAIN mainq : mainq[j].type # "user"
    <3>1. \A j \in DOMAIN mainq' : mainq'[j].type # "user"
      <4>1. CASE mainq' = mainq
        BY <2>3, <4>1
      <4>2. CASE \E n \in Blocks : mainq' = Append(mainq, n) /\ n.type # "user"
        BY <1>t, <2>3, <4>2, Posted
      <4>3. CASE mainq # << >> /\ mainq' = Tail(mainq)
        BY <1>t, <2>3, <4>3, Ran
      <4> QED
        BY <4>1, <4>2, <4>3
    <3> QED
      BY <2>3, <3>1 DEF TabsComing
  <2> QED
    BY <1>2, <2>1, <2>2, <2>3 DEF Behind, TabsComing
<1> QED
  BY <1>1, <1>2 DEF Behind

\* Every step keeps, behind uncovered tabs, the fetches in order.
LEMMA UncoveredKept ==
    ASSUME TypeOK, Existing, Patient, LoginCovers, Uncovered, TypeOK', Next
    PROVE  Uncovered'
<1> SUFFICES ASSUME ~hurried', ~crossed', screen' = "tabs" PROVE Behind'
  BY DEF Uncovered, Behind
<1>t. /\ mainq \in Seq(Blocks) /\ asked \in [Calls -> Nat] /\ docq \subseteq Docs
      /\ Nobody \notin Account /\ current \in Account \union {Nobody}
  BY AccountAssumption DEF TypeOK
<1>b. \A a \in Account : \A k \in {"created", "complete", "user"} :
          Block(k, a) \in Blocks /\ Block(k, a).type = k
  BY DEF Block, Blocks
<1>h. ~hurried /\ ~crossed /\ OneUnderWay /\ (screen = "tabs" => Behind)
  BY HistoryKept DEF Patient, OneUnderWay, Uncovered, Behind
<1>1. ASSUME NEW a \in Account,
             LoginButtonPressed(a) \/ SignUpButtonClicked(a) \/ ResetPasswordClicked(a)
      PROVE  Behind'
  BY <1>1 DEF LoginButtonPressed, SignUpButtonClicked, ResetPasswordClicked, shown
<1>2. CASE Navigate \/ LogoutPressed
  BY <1>2 DEF Navigate, LogoutPressed
<1>3. ASSUME NEW a \in Account, NEW k \in {"signIn", "image", "create"},
             asked[Call(k, a)] > 0, screen' = screen
      PROVE  FALSE
  <2>1. AuthBusy
    BY <1>3, CallFacts, BusyFacts
  <2> QED
    BY <1>3, <1>h, <2>1 DEF OneUnderWay
<1>4. ASSUME NEW a \in Account, SignIn(a) \/ ImageStored(a) \/ CreateUser(a) PROVE Behind'
  BY <1>3, <1>4 DEF SignIn, ImageStored, CreateUser, shown
<1>5. ASSUME NEW a \in Account, AnswerReset(a) PROVE Behind'
  BY <1>5 DEF AnswerReset
<1>6. ASSUME NEW a \in Account, AnswerFetch(a) PROVE Behind'
  <2>1. Call("fetch", a) \in Calls /\ Call("fetch", a).kind = "fetch" /\ Call("fetch", a).of = a
    BY DEF Calls, Call
  <2>2. /\ asked[Call("fetch", a)] > 0 /\ asked' = Returned(Call("fetch", a))
        /\ mainq' = Append(mainq, Block("user", a)) /\ UNCHANGED <<current, tabs, screen>>
    BY <1>6 DEF AnswerFetch, shown
  <2>3. Behind
    BY <1>h, <2>2
  <2>4. a = current
    BY <2>1, <2>2, <2>3, <1>t DEF Behind
  <2>5. \A c \in Calls : c.kind = "fetch" /\ c.of # current' => asked'[c] = 0
    BY <1>t, <2>1, <2>2, <2>3, <2>4, AskedFacts DEF Behind
  <2>6. Len(mainq) + 1 \in DOMAIN mainq' /\ mainq'[Len(mainq) + 1] = Block("user", a)
        /\ \A j \in DOMAIN mainq' : ~(j > Len(mainq) + 1)
    BY <1>t, <1>b, <2>2, Posted
  <2> QED
    BY <2>2, <2>4, <2>5, <2>6 DEF Behind, TabsComing, LastUserIs
<1>7. ASSUME NEW d \in docq, StoreDoc(d) \/ RefuseDoc(d) PROVE Behind'
  <2>1. UNCHANGED <<current, tabs, screen, asked>>
    BY <1>7 DEF StoreDoc, RefuseDoc, shown
  <2>2. d.of \in Account
    BY <1>t DEF Docs
  <2>3. mainq' = mainq \/ \E n \in Blocks : mainq' = Append(mainq, n) /\ n.type # "user"
    BY <1>7, <1>b, <2>2 DEF StoreDoc, RefuseDoc
  <2> QED
    BY <1>h, <2>1, <2>3, FetchesUntouched
<1>8. CASE RunPresentLogin
  BY <1>8 DEF RunPresentLogin
<1>9. CASE RunCreated
  BY <1>9, <1>h, FetchesUntouched DEF RunCreated, Running, shown
<1>10. CASE AuthenticationComplete
  <2>1. mainq # << >> /\ Completing(Head(mainq))
    BY <1>10 DEF AuthenticationComplete, Running, Completing
  <2>2. 1 \in DOMAIN mainq /\ Head(mainq) = mainq[1]
    BY <1>t, <2>1, Ran
  <2>3. current # Nobody
    BY <1>h, <2>1, <2>2 DEF OneUnderWay, SignedInMeanwhile
  <2>4. /\ \A c \in Calls : c.kind = "fetch" /\ c.of # current => ~(asked[c] > 0)
        /\ UNCHANGED current
        /\ asked' = [c \in Calls |-> IF c.kind = "reset" THEN 0
                                    ELSE Asking({Call("fetch", a) : a \in SignedInAs})[c]]
    BY <1>10 DEF AuthenticationComplete
  <2>5. \A c \in Calls : c \in {Call("fetch", a) : a \in SignedInAs} <=> c = Call("fetch", current)
    BY <2>3 DEF SignedInAs
  <2>6. \A c \in Calls : c.kind = "fetch" =>
            asked'[c] = IF c = Call("fetch", current) THEN asked[c] + 1 ELSE asked[c]
    BY <1>t, <2>4, <2>5, AskedFacts
  <2>7. Call("fetch", current) \in Calls /\ Call("fetch", current).kind = "fetch"
        /\ Call("fetch", current).of = current
    BY <1>t, <2>3 DEF Call, Calls
  <2>8. asked'[Call("fetch", current)] > 0
    BY <1>t, <2>6, <2>7
  <2>9. \A c \in Calls : c.kind = "fetch" /\ c.of # current => asked'[c] = 0
    BY <1>t, <2>4, <2>6, <2>7
  <2> QED
    BY <2>4, <2>8, <2>9 DEF Behind, TabsComing
<1>11. CASE RunUser
  <2>1. mainq # << >> /\ mainq' = Tail(mainq) /\ Head(mainq).type = "user"
        /\ tabs' = Head(mainq).of /\ UNCHANGED <<current, asked, screen>>
    BY <1>11 DEF RunUser, Running
  <2>2. Behind
    BY <1>h, <2>1
  <2>3. /\ 1 \in DOMAIN mainq /\ mainq[1] = Head(mainq)
        /\ \A j \in DOMAIN mainq' : j \in Nat \ {0} /\ j + 1 \in DOMAIN mainq /\ mainq[j + 1] = mainq'[j]
        /\ \A j \in DOMAIN mainq : j \in Nat \ {0}
    BY <1>t, <2>1, Ran
  <2>4. ASSUME LastUserIs(current) PROVE TabsComing'
    <3>1. PICK i \in DOMAIN mainq : /\ mainq[i] = Block("user", current)
                                    /\ \A j \in DOMAIN mainq : j > i => mainq[j].type # "user"
      BY <2>4 DEF LastUserIs
    <3>2. CASE i = 1
      <4>1. tabs' = current
        BY <2>1, <2>3, <3>1, <3>2 DEF Block
      <4>2. \A j \in DOMAIN mainq' : mainq'[j].type # "user"
        BY <2>3, <3>1, <3>2
      <4> QED
        BY <2>1, <4>1, <4>2 DEF TabsComing
    <3>3. CASE i # 1
      <4>1. i - 1 \in DOMAIN mainq' /\ mainq'[i - 1] = Block("user", current)
        BY <1>t, <2>1, <3>1, <3>3, RanIndex
      <4>2. \A j \in DOMAIN mainq' : j > i - 1 => mainq'[j].type # "user"
        BY <2>3, <3>1
      <4> QED
        BY <2>1, <4>1, <4>2 DEF TabsComing, LastUserIs
    <3> QED
      BY <3>2, <3>3
  <2>5. current # Nobody => TabsComing'
    BY <2>1, <2>2, <2>3, <2>4 DEF Behind, TabsComing
  <2> QED
    BY <2>1, <2>2, <2>5 DEF Behind
<1>12. ASSUME NEW c \in Calls, FailCall(c) PROVE Behind'
  <2>1. c.kind # "fetch" /\ asked[c] > 0 /\ asked' = Returned(c)
        /\ UNCHANGED <<current, mainq, tabs, screen>>
    BY <1>12 DEF FailCall, shown
  <2>2. \A d \in Calls : d.kind = "fetch" => asked'[d] = asked[d]
    BY <1>t, <2>1, AskedFacts
  <2> QED
    BY <1>h, <2>1, <2>2, FetchesUntouched
<1>13. CASE Kill
  <2>1. UNCHANGED current
        /\ asked' = [c \in Calls |-> IF c = Call("fetch", current) THEN 1 ELSE 0]
    BY <1>13 DEF Kill, ViewDidLoad
  <2>2. \A c \in Calls : c.kind = "fetch" /\ c.of # current => asked'[c] = 0
    BY <2>1 DEF Call
  <2>3. ASSUME current # Nobody PROVE asked'[Call("fetch", current)] > 0
    BY <1>t, <2>1, <2>3 DEF Call, Calls
  <2> QED
    BY <2>1, <2>2, <2>3 DEF Behind, TabsComing
<1> QED
  BY <1>1, <1>2, <1>4, <1>5, <1>6, <1>7, <1>8, <1>9, <1>10, <1>11, <1>12, <1>13
  DEF Next, Touched, Progress, RunBlock, Failing

-----------------------------------------------------------------------------
(***************************************************************************)
(* The theorems.                                                           *)
(***************************************************************************)

\* Init: nothing of Auth is under way, and the first fetch is for the account
\* that was left signed in.
LEMMA InitInv ==
    ASSUME Init
    PROVE  SessionInv
<1>1. TypeOK /\ Existing
  BY InitTypes
<1>2. NoLostProfile
  BY DEF Init, NoLostProfile
<1>3. \A i \in DOMAIN mainq : mainq[i] = PresentLogin
  <2>1. CASE mainq = <<PresentLogin>>
    BY <2>1
  <2>2. CASE mainq = << >>
    BY <2>2
  <2> QED
    BY <2>1, <2>2 DEF Init
<1>4. \A i \in DOMAIN mainq : ~Completing(mainq[i])
  BY <1>3 DEF PresentLogin, Completing
<1>5. \A c \in AuthCalls : asked[c] = 0
  BY DEF Init, Call, AuthCalls
<1>6. \A c \in AuthCalls : asked[c] <= 1 /\ ~(asked[c] > 0)
  BY <1>5
<1>7. docq = {} /\ screen = "tabs"
  BY DEF Init
<1>8. Patient
  BY <1>4, <1>6, <1>7
  DEF Patient, OneAtATime, SignedInMeanwhile, AuthBusy, Completing
<1>9. LoginCovers
  <2>1. ASSUME current = Nobody PROVE 1 \in DOMAIN mainq /\ mainq[1] = PresentLogin
    BY <2>1 DEF Init
  <2> QED
    BY <2>1 DEF LoginCovers
<1>10. Uncovered
  <2>1. asked = [c \in Calls |-> IF c = Call("fetch", current) THEN 1 ELSE 0]
    BY DEF Init
  <2>2. \A c \in Calls : c.kind = "fetch" /\ c.of # current => asked[c] = 0
    BY <2>1 DEF Call
  <2>3. ASSUME current # Nobody PROVE asked[Call("fetch", current)] > 0
    <3>1. current \in Account
      BY <1>1, <2>3 DEF TypeOK
    <3> QED
      BY <2>1, <3>1 DEF Call, Calls
  <2> QED
    BY <2>2, <2>3 DEF Uncovered, TabsComing
<1> QED
  BY <1>1, <1>2, <1>8, <1>9, <1>10 DEF SessionInv

\* Every step of Session keeps its inductive invariant.
LEMMA SessionStep ==
    ASSUME SessionInv, [Next]_vars
    PROVE  SessionInv'
<1>1. CASE Next
  BY <1>1, TypesKept, LostKept, PatientKept, CoversKept, UncoveredKept DEF SessionInv
<1>2. CASE UNCHANGED vars
  <2>1. UNCHANGED <<created, profiles, current, docq, asked, mainq, tabs, screen, touches, faults,
                    hurried, crossed, torn>>
    BY <1>2 DEF vars, backend, device, shown, counters, history
  <2> QED
    BY <2>1 DEF SessionInv, TypeOK, Existing, NoLostProfile, Patient, OneAtATime,
       SignedInMeanwhile, AuthBusy, Completing, LoginCovers, Uncovered, TabsComing, LastUserIs
<1> QED
  BY <1>1, <1>2

\* The inductive invariant of the session holds in every state.
THEOREM SessionInvariant == Spec => []SessionInv
<1>1. Init => SessionInv
  BY InitInv
<1>2. SessionInv /\ [Next]_vars => SessionInv'
  BY SessionStep
<1> QED
  BY <1>1, <1>2, PTL DEF Spec

\* Whoever is signed in, shown in the tabs or stored under `users` is an account
\* of Firebase Auth, at every step of AuthService and the tab bar.
THEOREM SessionTypeCorrect == Spec => []TypeOK
<1>1. SessionInv => TypeOK
  BY DEF SessionInv
<1> QED
  BY <1>1, SessionInvariant, PTL

\* registerUser never forgets an account's document: without a fault after
\* createUser it is stored, queued, or about to be queued.
THEOREM ProfilesAreWritten == Spec => []NoLostProfile
<1>1. SessionInv => NoLostProfile
  BY DEF SessionInv
<1> QED
  BY <1>1, SessionInvariant, PTL

\* People who wait for login and registerUser never see the tabs of the last
\* user uncovered while nobody is signed in (logoutPressed, checkCurrentUser).
THEOREM TabsAreCovered == Spec => []LoginCovers
<1>1. SessionInv => LoginCovers
  BY DEF SessionInv
<1> QED
  BY <1>1, SessionInvariant, PTL

\* When the device rests, uncovered tabs are those of the account signed in:
\* fetchUser of an earlier session never has the last word.
THEOREM TabsAreTheAccounts == Spec => []TabsMatchAccount
<1>1. SessionInv => TabsMatchAccount
  <2> SUFFICES ASSUME SessionInv, ~hurried, ~crossed, Resting, screen = "tabs"
               PROVE  tabs = current
    BY DEF TabsMatchAccount
  <2>1. mainq = << >> /\ \A c \in Calls : asked[c] = 0
    BY DEF Resting
  <2>2. current \in Account \union {Nobody}
    BY DEF SessionInv, TypeOK
  <2>3. current # Nobody
    BY <2>1 DEF SessionInv, LoginCovers
  <2>4. ~(asked[Call("fetch", current)] > 0)
    BY <2>1, <2>2, <2>3 DEF Call, Calls
  <2> QED
    BY <2>1, <2>3, <2>4 DEF SessionInv, Uncovered, TabsComing, LastUserIs
<1> QED
  BY <1>1, SessionInvariant, PTL
=============================================================================
