------------------------------ MODULE Firestore ------------------------------
(***************************************************************************)
(* What the app sees of the Firestore SDK on each device.  Every call the  *)
(* services under API/ make goes through it.                               *)
(*                                                                         *)
(*   - A write (setData, updateData, addDocument, delete) joins the        *)
(*     device's mutation queue at once; the backend decides the queue in   *)
(*     order, one write at a time (sync_engine.cc, remote_store.cc).       *)
(*   - A read (getDocument, getDocuments) is outstanding until it is       *)
(*     answered; reads are answered in any order, and independently of the *)
(*     writes that are still queued.                                       *)
(*   - Both kinds of completion are posted to the main queue, which runs   *)
(*     its blocks in order; a touch may be handled between any two.        *)
(*                                                                         *)
(* A device is named by the account signed in on it.  What a write does to *)
(* the database, and what a completion does, belong to the modules that    *)
(* extend this one.                                                        *)
(***************************************************************************)
EXTENDS Naturals, Sequences

CONSTANT User      \* the accounts, each signed in on one device

VARIABLES
    queue,         \* queue[u]: writes of u's device the backend has not decided
    asked,         \* asked[u][r]: how many reads r of u's device are outstanding
    mainq          \* mainq[u]: blocks waiting for the main thread of u's device

sdkVars == <<queue, asked, mainq>>

\* The `then` of a write nobody waits for.
NoOne == "nobody"

(***************************************************************************)
(* Blocks of the main queue.                                               *)
(***************************************************************************)
Acked(w, ok)      == [type |-> "ack", w |-> w, ok |-> ok]
Answered(r, docs) == [type |-> "answer", r |-> r, docs |-> docs]

SdkInit(Reads) ==
    /\ queue = [u \in User |-> << >>]
    /\ asked = [u \in User |-> [r \in Reads |-> 0]]
    /\ mainq = [u \in User |-> << >>]

(***************************************************************************)
(* What a handler running on the main thread of u's device may do.         *)
(***************************************************************************)

\* The mutation queue of u's device after the writes ws were issued in order.
WriteMutations(u, ws) == [queue EXCEPT ![u] = @ \o ws]

\* The outstanding reads of u's device after the reads rs were issued.
Ask(u, rs) ==
    [asked EXCEPT ![u] = [r \in DOMAIN @ |-> IF r \in rs THEN @[r] + 1 ELSE @[r]]]

\* The main queue of u's device after the running block was removed and the
\* blocks bs were posted by it (DispatchQueue.main.async).
RunFirst(u, bs) == [mainq EXCEPT ![u] = Tail(@) \o bs]

(***************************************************************************)
(* What the SDK does on its own.                                           *)
(***************************************************************************)

\* The backend has decided the oldest write w of u's device; whoever waits for
\* it is told on the main thread.  A refused write is dropped, not retried.
NotifyUser(u, w, ok) ==
    /\ queue' = [queue EXCEPT ![u] = Tail(@)]
    /\ mainq' = IF w.then = NoOne THEN mainq
                ELSE [mainq EXCEPT ![u] = Append(@, Acked(w, ok))]
    /\ UNCHANGED asked

\* Read r of u's device is answered with the documents ds.
Respond(u, r, ds) ==
    /\ asked[u][r] > 0
    /\ asked' = [asked EXCEPT ![u][r] = @ - 1]
    /\ mainq' = [mainq EXCEPT ![u] = Append(@, Answered(r, ds))]
    /\ UNCHANGED queue

\* Read r of u's device fails: the completion gets a nil snapshot and returns
\* at its first guard.
ReadFails(u, r) ==
    /\ asked[u][r] > 0
    /\ asked' = [asked EXCEPT ![u][r] = @ - 1]
    /\ UNCHANGED <<queue, mainq>>

\* The writes of a mutation queue after a restart.  The queue is on disk and
\* survives; the closures waiting for it do not.
Forgotten(ws) == [i \in DOMAIN ws |-> [ws[i] EXCEPT !.then = NoOne]]

\* The process of u's device is terminated and started again.
Terminate(u) ==
    /\ queue' = [queue EXCEPT ![u] = Forgotten(@)]
    /\ asked' = [asked EXCEPT ![u] = [r \in DOMAIN @ |-> 0]]
    /\ mainq' = [mainq EXCEPT ![u] = << >>]

\* Reads see the writes still queued on the same device (latency
\* compensation): the last queued write on a document decides, else the
\* backend's collection `stored` does.
LocallyPresent(u, coll, key, stored) ==
    LET own == {i \in DOMAIN queue[u] : queue[u][i].coll = coll /\ queue[u][i].key = key}
    IN  IF own = {} THEN key \in stored
        ELSE \E i \in own : queue[u][i].op = "set" /\ \A j \in own : j <= i
=============================================================================
