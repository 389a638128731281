---------------------------- MODULE WritePipeline ----------------------------
(***************************************************************************)
(* How the Firestore SDK carries the writes of the app to the backend: the *)
(* worker queue, the persisted mutation queue of each account, the write   *)
(* pipeline of RemoteStore and the state machine of the write stream, on   *)
(* one device on which accounts sign in and out.                           *)
(*                                                                         *)
(* Everything the SDK does runs on its worker queue, so every action is    *)
(* one task of that queue, taken whole.  The stream's methods are          *)
(* operators from a stream to the stream afterwards, named as in stream.cc *)
(* and remote_store.cc, and an action composes them as the code does.      *)
(***************************************************************************)
EXTENDS Naturals, Sequences, SequencesExt, FiniteSetsExt

CONSTANTS
    Account,            \* the accounts that use the device
    Unauthenticated,    \* the user nobody is signed in as
    FirstUser,          \* the users the first start of the app may find signed in
    kMaxPendingWrites,  \* how many writes may be in the pipeline (10 in the code)
    MaxWrites,          \* bound: writes the app makes
    MayBreak,           \* bound: which of them, by number, may break a rule
    MaxSwitches,        \* bound: sign-ins, sign-outs and token refreshes
    MaxFaults           \* bound: broken streams, network changes and restarts

ASSUME PipelineAssumption ==
    /\ Unauthenticated \notin Account
    /\ FirstUser \subseteq Account \union {Unauthenticated}
    /\ kMaxPendingWrites \in Nat \ {0}
    /\ MaxWrites \in Nat /\ MaxSwitches \in Nat /\ MaxFaults \in Nat

User == Account \union {Unauthenticated}

VARIABLES
    auth,            \* the user Firebase Auth has signed in
    made,            \* made[n]: who made the n-th write, and whether it breaks a rule
    worker,          \* tasks waiting for the worker queue
    current_user,    \* the user the SDK works for
    queue,           \* queue[u]: persisted batches of u, by batch id
    next_batch_id,   \* the id of the next batch
    callbacks,       \* callbacks[u]: batches somebody waits for, as <<id, n>>
    stream,          \* the write stream and its pipeline
    doc,             \* doc[u]: the last write the backend stored for u
    decided,         \* writes that have left their queue
    told,            \* told[u]: completions posted to the main thread for u
    switches, faults \* how much of the bounds is used

device  == <<current_user, queue, next_batch_id, callbacks, stream>>
outside == <<auth, made, doc, decided, told, switches, faults>>
vars    == <<worker, device, outside>>

Write == 1 .. MaxWrites

\* Tasks of the worker queue.
WriteTask(n)          == [type |-> "write", n |-> n]
CredentialTask(u)     == [type |-> "credential", user |-> u]
ResumeTask(c, t)      == [type |-> "resume", close_count |-> c, token |-> t]

\* What a token request that failed hands to the stream.
NoToken == "no token"

\* The message that opens the protocol of a write stream.
Handshake == [id |-> 0, n |-> 0]

(***************************************************************************)
(* The write stream: Stream and WriteStream, with RemoteStore's pipeline.  *)
(* `requests` are the close counts with a token request outstanding,       *)
(* `token` is whose token opened the stream, `sent` and `replies` are what *)
(* is on the wire.  State::Healthy only tunes the backoff; it is Open here.*)
(***************************************************************************)
NewStream ==
    [state |-> "Initial", handshake |-> FALSE, idle |-> FALSE, token |-> Unauthenticated,
     close_count |-> 0, requests |-> {}, pipeline |-> << >>, sent |-> << >>, replies |-> << >>]

IsOpen(s)    == s.state = "Open"
IsStarted(s) == s.state \in {"Starting", "Backoff", "Open"}

\* Stream::Write, of several messages: it also cancels the idle timer.
Sent(s, ms) ==
    IF ms = << >> THEN s ELSE [s EXCEPT !.sent = @ \o ms, !.idle = FALSE]

\* Stream::Start and RequestCredentials.
Start(s) ==
    IF s.state = "Error" THEN [s EXCEPT !.state = "Backoff"]
    ELSE [s EXCEPT !.state = "Starting", !.requests = @ \union {s.close_count}]

\* Start the stream if there is something to send and it is not started.
StartIfNeeded(s) ==
    IF s.pipeline = << >> \/ IsStarted(s) THEN s ELSE Start(s)

MarkIdle(s) == IF IsOpen(s) THEN [s EXCEPT !.idle = TRUE] ELSE s

\* Batches of q that follow the last one of the pipeline and still fit in it.
NextBatches(s, q) ==
    LET last == IF s.pipeline = << >> THEN 0 ELSE Last(s.pipeline).id
        from == {i \in DOMAIN q : q[i].id > last}
        rest == IF from = {} THEN << >> ELSE SubSeq(q, Min(from), Len(q))
    IN  SubSeq(rest, 1, Min({Len(rest), kMaxPendingWrites - Len(s.pipeline)}))

FillWritePipeline(s, q) ==
    LET new   == NextBatches(s, q)
        added == [s EXCEPT !.pipeline = @ \o new]
    IN  StartIfNeeded(
            IF added.pipeline = << >> THEN MarkIdle(s)
            ELSE IF IsOpen(s) /\ s.handshake THEN Sent(added, new) ELSE added)

\* Mutant: the close count is not raised, so an old token still counts.
CloseUncounted(s, state) ==
    [s EXCEPT !.state = state, !.handshake = FALSE, !.idle = FALSE,
              !.token = Unauthenticated, !.sent = << >>, !.replies = << >>]

\* Stream::Close, up to the call of the listener.  A graceful stop leaves the
\* stream Initial, an error leaves it in Error.
Close(s, state) ==
    [s EXCEPT !.state = state, !.handshake = FALSE, !.idle = FALSE, !.close_count = @ + 1,
              !.token = Unauthenticated, !.sent = << >>, !.replies = << >>]

\* Stream::Stop, which does nothing to a stream that is not started.
Stop(s) == IF IsStarted(s) THEN Close(s, "Initial") ELSE s

InhibitBackoff(s) == [s EXCEPT !.state = "Initial"]

\* Mutant: the pipeline is kept.
DisableNetworkKeepsPipeline(s) == Stop(s)

\* The stream is stopped and the pipeline emptied; the queue still has its writes.
DisableNetwork(s) == [Stop(s) EXCEPT !.pipeline = << >>]

\* Tear the stream down and fill a new pipeline from q.
RestartNetwork(s, q) == FillWritePipeline(InhibitBackoff(DisableNetwork(s)), q)

(***************************************************************************)
(* The backend.  It takes the messages of a stream in order; a write that  *)
(* breaks a rule ends the stream with a permanent error.                   *)
(***************************************************************************)
Refused == "refused" \in ToSet(stream.replies)

Bad(m) == m /= Handshake /\ made[m.n].bad

\* The database after the messages ms, which are in the order they were made,
\* were taken.
Stored(ms) ==
    LET of(u) == {m.n : m \in {x \in ToSet(ms) : x /= Handshake /\ made[x.n].by = u}}
    IN  [u \in User |-> IF of(u) = {} THEN doc[u] ELSE Max(of(u))]

\* The prefixes of what is on the wire that the backend may have taken when
\* the device gives the stream up.
MayHaveTaken ==
    IF Refused THEN {<< >>}
    ELSE {ms \in Prefixes(stream.sent) : \A i \in DOMAIN ms : ~Bad(ms[i])}

\* The stream is given up: the backend took some of what was on the wire.
GivenUp == \E ms \in MayHaveTaken : doc' = Stored(ms)

BackendReads ==
    /\ stream.sent /= << >> /\ ~Refused
    /\ LET m == Head(stream.sent)
           reply == IF m = Handshake THEN "handshake" ELSE IF Bad(m) THEN "refused" ELSE "ack"
       IN  /\ stream' = [stream EXCEPT !.sent = Tail(@), !.replies = Append(@, reply)]
           /\ doc' = IF reply = "ack" THEN Stored(<<m>>) ELSE doc
    /\ UNCHANGED <<worker, current_user, queue, next_batch_id, callbacks>>
    /\ UNCHANGED <<auth, made, decided, told, switches, faults>>

(***************************************************************************)
(* The app and Firebase Auth.                                              *)
(***************************************************************************)

\* A handler makes a write; bad is the verdict the backend will give on it.
AppWrites(bad) ==
    /\ auth \in Account /\ Len(made) < MaxWrites
    /\ bad => Len(made) + 1 \in MayBreak
    /\ made' = Append(made, [by |-> auth, bad |-> bad])
    /\ worker' = Append(worker, WriteTask(Len(made) + 1))
    /\ UNCHANGED device
    /\ UNCHANGED <<auth, doc, decided, told, switches, faults>>

\* Mutant: the change overtakes the tasks that are waiting.
AuthStateDidChangeOvertakes(u) ==
    /\ switches < MaxSwitches
    /\ u \in Account \/ auth \in Account
    /\ auth' = u
    /\ switches' = switches + 1
    /\ worker' = <<CredentialTask(u)>> \o worker
    /\ UNCHANGED device
    /\ UNCHANGED <<made, doc, decided, told, faults>>

\* Auth posts its notification: u signed in, from signed out or in place of another
\* account, signed out (u = Unauthenticated), or got a new token.  The listener
\* queues the change under the same lock.
AuthStateDidChange(u) ==
    /\ switches < MaxSwitches
    /\ u \in Account \/ auth \in Account
    /\ auth' = u
    /\ switches' = switches + 1
    /\ worker' = Append(worker, CredentialTask(u))
    /\ UNCHANGED device
    /\ UNCHANGED <<made, doc, decided, told, faults>>

\* A token request is answered.  GetToken asks again as long as the account
\* changes under it, so the token is of whoever is signed in now.
GetToken(c) ==
    /\ c \in stream.requests
    /\ stream' = [stream EXCEPT !.requests = @ \ {c}]
    /\ worker' = Append(worker, ResumeTask(c, auth))
    /\ UNCHANGED <<current_user, queue, next_batch_id, callbacks>>
    /\ UNCHANGED outside

\* A token request fails.
GetTokenFails(c) ==
    /\ c \in stream.requests /\ faults < MaxFaults
    /\ faults' = faults + 1
    /\ stream' = [stream EXCEPT !.requests = @ \ {c}]
    /\ worker' = Append(worker, ResumeTask(c, NoToken))
    /\ UNCHANGED <<current_user, queue, next_batch_id, callbacks>>
    /\ UNCHANGED <<auth, made, doc, decided, told, switches>>

(***************************************************************************)
(* Tasks of the worker queue.                                              *)
(***************************************************************************)
NextTask(type) == worker /= << >> /\ Head(worker).type = type /\ worker' = Tail(worker)

\* Mutant: the highest id in use instead of the one after it.
LastBatchIdFromDb ==
    Max({0} \union UNION {{b.id : b \in ToSet(queue[u])} : u \in User})

\* LoadNextBatchIdFromDb: the batches of every user count.
NextBatchIdFromDb ==
    1 + Max({0} \union UNION {{b.id : b \in ToSet(queue[u])} : u \in User})

\* SyncEngine::WriteMutations: persist the batch, remember who waits for it and
\* fill the pipeline.
RunWrite ==
    /\ NextTask("write")
    /\ LET batch == [id |-> next_batch_id, n |-> Head(worker).n]
           q     == Append(queue[current_user], batch)
       IN  /\ queue' = [queue EXCEPT ![current_user] = q]
           /\ callbacks' = [callbacks EXCEPT ![current_user] = @ \union {<<batch.id, batch.n>>}]
           /\ stream' = FillWritePipeline(stream, q)
    /\ next_batch_id' = next_batch_id + 1
    /\ UNCHANGED current_user
    /\ UNCHANGED outside

\* Mutant: a stream with nothing to send is left open.
RunCredentialKeepsIdleStream ==
    /\ NextTask("credential")
    /\ LET user == Head(worker).user
       IN  /\ current_user' = user
           /\ next_batch_id' = IF user = current_user THEN next_batch_id ELSE NextBatchIdFromDb
           /\ stream' = IF stream.pipeline = << >> THEN FillWritePipeline(stream, queue[user])
                        ELSE RestartNetwork(stream, queue[user])
    /\ GivenUp
    /\ UNCHANGED <<queue, callbacks>>
    /\ UNCHANGED <<auth, made, decided, told, switches, faults>>

\* SyncEngine::HandleCredentialChange: another user gets another mutation queue;
\* the streams are restarted even when the user is the same.
RunCredential ==
    /\ NextTask("credential")
    /\ LET user == Head(worker).user
       IN  /\ current_user' = user
           /\ next_batch_id' = IF user = current_user THEN next_batch_id ELSE NextBatchIdFromDb
           /\ stream' = RestartNetwork(stream, queue[user])
    /\ GivenUp
    /\ UNCHANGED <<queue, callbacks>>
    /\ UNCHANGED <<auth, made, decided, told, switches, faults>>

\* Mutant: a request that failed is ignored.
RunResumeIgnoresFailure ==
    /\ NextTask("resume")
    /\ LET task == Head(worker)
       IN  stream' = IF task.close_count /= stream.close_count \/ task.token = NoToken THEN stream
                     ELSE Sent([stream EXCEPT !.state = "Open", !.token = task.token],
                               <<Handshake>>)
    /\ UNCHANGED <<current_user, queue, next_batch_id, callbacks>>
    /\ UNCHANGED outside

\* The token has arrived on the worker queue.  Unless the stream was closed in
\* the meantime it opens and the handshake is sent; without a token it closes.
RunResume ==
    /\ NextTask("resume")
    /\ LET task == Head(worker)
       IN  stream' = IF task.close_count /= stream.close_count THEN stream
                     ELSE IF task.token = NoToken THEN StartIfNeeded(Close(stream, "Error"))
                     ELSE Sent([stream EXCEPT !.state = "Open", !.token = task.token],
                               <<Handshake>>)
    /\ UNCHANGED <<current_user, queue, next_batch_id, callbacks>>
    /\ UNCHANGED outside

(***************************************************************************)
(* What comes in from the stream.                                          *)
(***************************************************************************)
Reply(type) == stream.replies /= << >> /\ Head(stream.replies) = type

OnWriteStreamHandshakeComplete ==
    /\ Reply("handshake")
    /\ stream' = Sent([stream EXCEPT !.handshake = TRUE, !.replies = Tail(@)], stream.pipeline)
    /\ UNCHANGED <<worker, current_user, queue, next_batch_id, callbacks>>
    /\ UNCHANGED outside

\* RemoveMutationBatch: the row of the batch is erased.
Without(q, batch) == RemoveAt(q, CHOOSE i \in DOMAIN q : q[i].id = batch.id)

\* Mutant: only a success is told.
ResolveTellsSuccess(batch, ok) ==
    LET waiting == {c \in callbacks[current_user] : c[1] = batch.id /\ ok}
    IN  /\ queue' = [queue EXCEPT ![current_user] = Without(@, batch)]
        /\ callbacks' = [callbacks EXCEPT ![current_user] = @ \ waiting]
        /\ told' = [told EXCEPT ![current_user] =
                       @ \o SetToSeq({[n |-> c[2], ok |-> ok] : c \in waiting})]
        /\ decided' = decided \union {batch.n}
        /\ UNCHANGED <<current_user, next_batch_id>>
        /\ UNCHANGED <<worker, auth, made, switches, faults>>

\* The batch leaves the queue and whoever waits for it is told
\* (HandleSuccessfulWrite and HandleRejectedWrite of SyncEngine, NotifyUser).
Resolve(batch, ok) ==
    LET waiting == {c \in callbacks[current_user] : c[1] = batch.id}
    IN  /\ queue' = [queue EXCEPT ![current_user] = Without(@, batch)]
        /\ callbacks' = [callbacks EXCEPT ![current_user] = @ \ waiting]
        /\ told' = [told EXCEPT ![current_user] =
                       @ \o SetToSeq({[n |-> c[2], ok |-> ok] : c \in waiting})]
        /\ decided' = decided \union {batch.n}
        /\ UNCHANGED <<current_user, next_batch_id>>
        /\ UNCHANGED <<worker, auth, made, switches, faults>>

\* An acknowledgement is of the first batch of the pipeline.
OnWriteStreamMutationResult ==
    /\ Reply("ack")
    /\ Resolve(Head(stream.pipeline), TRUE)
    /\ stream' = FillWritePipeline([stream EXCEPT !.replies = Tail(@), !.pipeline = Tail(@)],
                                   queue'[current_user])
    /\ UNCHANGED doc

\* The stream ends with a permanent error: the first batch of the pipeline is
\* rejected, and the stream restarts without a delay if there is more to send.
HandleWriteError ==
    /\ Reply("refused")
    /\ Resolve(Head(stream.pipeline), FALSE)
    /\ LET popped == [stream EXCEPT !.pipeline = Tail(@)]
       IN  stream' = FillWritePipeline(InhibitBackoff(Close(popped, "Error")),
                                       queue'[current_user])
    /\ UNCHANGED doc

\* Mutant: any error after the handshake is taken for a permanent one.
OnWriteStreamCloseDropsWrite ==
    /\ faults < MaxFaults
    /\ stream.handshake /\ stream.pipeline /= << >>
    /\ Resolve(Head(stream.pipeline), FALSE)
    /\ LET popped == [stream EXCEPT !.pipeline = Tail(@)]
       IN  stream' = FillWritePipeline(InhibitBackoff(Close(popped, "Error")),
                                       queue'[current_user])
    /\ GivenUp

\* The stream ends with a transient error, or a permanent one in its handshake:
\* the writes stay in the pipeline and the stream backs off before it restarts.
OnWriteStreamClose ==
    /\ faults < MaxFaults
    /\ IsOpen(stream)
    /\ faults' = faults + 1
    /\ stream' = StartIfNeeded(Close(stream, "Error"))
    /\ GivenUp
    /\ UNCHANGED <<worker, current_user, queue, next_batch_id, callbacks>>
    /\ UNCHANGED <<auth, made, decided, told, switches>>

(***************************************************************************)
(* Timers, the network and the process.                                    *)
(***************************************************************************)
BackoffElapsed ==
    /\ stream.state = "Backoff"
    /\ stream' = Start([stream EXCEPT !.state = "Initial"])
    /\ UNCHANGED <<worker, current_user, queue, next_batch_id, callbacks>>
    /\ UNCHANGED outside

IdleTimeout ==
    /\ stream.idle
    /\ stream' = Stop(stream)
    /\ GivenUp
    /\ UNCHANGED <<worker, current_user, queue, next_batch_id, callbacks>>
    /\ UNCHANGED <<auth, made, decided, told, switches, faults>>

ConnectivityChanged ==
    /\ faults < MaxFaults
    /\ faults' = faults + 1
    /\ stream' = RestartNetwork(stream, queue[current_user])
    /\ GivenUp
    /\ UNCHANGED <<worker, current_user, queue, next_batch_id, callbacks>>
    /\ UNCHANGED <<auth, made, decided, told, switches>>

\* The process is terminated and started again: Initialize runs for the account
\* that is still signed in.  Only the mutation queues are on disk.
Restart ==
    /\ faults < MaxFaults
    /\ faults' = faults + 1
    /\ worker' = << >>
    /\ current_user' = auth
    /\ next_batch_id' = NextBatchIdFromDb
    /\ callbacks' = [u \in User |-> {}]
    /\ told' = [u \in User |-> << >>]
    /\ stream' = FillWritePipeline(NewStream, queue[auth])
    /\ GivenUp
    /\ UNCHANGED <<auth, made, queue, decided, switches>>

Init ==
    /\ auth \in FirstUser /\ current_user = auth
    /\ made = << >> /\ worker = << >>
    /\ queue = [u \in User |-> << >>] /\ callbacks = [u \in User |-> {}]
    /\ next_batch_id = 1
    /\ stream = NewStream
    /\ doc = [u \in User |-> 0] /\ decided = {} /\ told = [u \in User |-> << >>]
    /\ switches = 0 /\ faults = 0

\* What the device, Auth and the backend do on their own and keep doing.
Progress ==
    \/ BackendReads \/ OnWriteStreamHandshakeComplete \/ OnWriteStreamMutationResult
    \/ HandleWriteError \/ BackoffElapsed \/ RunWrite \/ RunCredential \/ RunResume
    \/ \E c \in stream.requests : GetToken(c)

Next ==
    \/ Progress
    \/ \E bad \in BOOLEAN : AppWrites(bad)
    \/ \E u \in User : AuthStateDidChange(u)
    \/ \E c \in stream.requests : GetTokenFails(c)
    \/ OnWriteStreamClose \/ IdleTimeout \/ ConnectivityChanged \/ Restart

Spec == Init /\ [][Next]_vars /\ WF_vars(Progress)

(***************************************************************************)
(* Properties.                                                             *)
(***************************************************************************)
Batch == [id : Nat \ {0}, n : Write]

Task ==
    [type : {"write"}, n : Write] \union [type : {"credential"}, user : User]
      \union [type : {"resume"}, close_count : Nat, token : User \union {NoToken}]

Stream ==
    [state : {"Initial", "Starting", "Open", "Error", "Backoff"},
     handshake : BOOLEAN, idle : BOOLEAN, token : User, close_count : Nat, requests : SUBSET Nat,
     pipeline : Seq(Batch), sent : Seq(Batch \union {Handshake}),
     replies : Seq({"handshake", "ack", "refused"})]

\* The state of the device is well formed.
TypeOK ==
    /\ auth \in User /\ current_user \in User
    /\ made \in Seq([by : Account, bad : BOOLEAN]) /\ Len(made) <= MaxWrites
    /\ worker \in Seq(Task)
    /\ queue \in [User -> Seq(Batch)] /\ next_batch_id \in Nat \ {0}
    /\ callbacks \in [User -> SUBSET ((Nat \ {0}) \X Write)]
    /\ stream \in Stream
    /\ doc \in [User -> {0} \union Write] /\ decided \subseteq Write
    /\ told \in [User -> Seq([n : Write, ok : BOOLEAN])]

\* RemoteStore::write_pipeline_ is always the beginning of the mutation queue of
\* the current user, at most kMaxPendingWrites long, and ids grow along the queue
\* of every user: so "the first write of the pipeline", which answers are matched
\* with, is the oldest write, over every restart, refill and change of account.
PipelineIsQueueHead ==
    /\ IsPrefix(stream.pipeline, queue[current_user])
    /\ Len(stream.pipeline) <= kMaxPendingWrites
    /\ \A u \in User : \A i, j \in DOMAIN queue[u] :
           i < j => queue[u][i].id < queue[u][j].id /\ queue[u][i].n < queue[u][j].n

\* The assertions of stream.cc and remote_store.cc that would end the process:
\* once the handshake is complete the answers that came in, then the messages
\* still on the wire, are those of the pipeline in its order, so an answer always
\* finds its write at the head; a token that is not stale always finds the stream
\* Starting, a stream is stopped for idleness only when it is not needed, and a
\* pipeline with something in it has a started stream.
AssertionsHold ==
    /\ stream.handshake =>
           /\ Len(stream.replies) <= Len(stream.pipeline)
           /\ stream.sent = SubSeq(stream.pipeline, Len(stream.replies) + 1, Len(stream.pipeline))
    /\ ~stream.handshake =>
           ToSet(stream.sent) \subseteq {Handshake} /\ ToSet(stream.replies) \subseteq {"handshake"}
    /\ \A t \in ToSet(worker) :
           t.type = "resume" /\ t.close_count = stream.close_count => stream.state = "Starting"
    /\ stream.idle => IsOpen(stream) /\ stream.pipeline = << >>
    /\ stream.pipeline /= << >> => IsStarted(stream)

\* A write reaches the backend only over a stream opened with the token of the
\* account that made it, however sign-ins and sign-outs fall between the making
\* of the write, the request of the token and the opening of the stream.
SentByOwner ==
    \A m \in ToSet(stream.sent) : m /= Handshake => made[m.n].by = stream.token

\* A write is queued for the account that was signed in when it was made, though
\* the worker queue runs it later, when another may already be signed in.
OwnQueue ==
    \A u \in User : \A b \in ToSet(queue[u]) : made[b.n].by = u

\* When nothing of an account is queued, the backend holds the last of its
\* writes that was not refused: retries after lost answers and broken streams
\* neither lose a write nor leave an older one on top.
LastWriteStored ==
    \A u \in User : queue[u] = << >> =>
        doc[u] = Max({0} \union {n \in decided : made[n].by = u /\ ~made[n].bad})

\* The write as the app knows it, with the closure that waits for it if the
\* process has not been restarted since.
AsWritten(u, b) ==
    [n |-> b.n, bad |-> made[b.n].bad,
     then |-> IF <<b.id, b.n>> \in callbacks[u] THEN "caller" ELSE "nobody"]

\* A completion posted to the main thread.
Completion(t) ==
    [type |-> "ack", ok |-> t.ok,
     w |-> [n |-> t.n, bad |-> made[t.n].bad, then |-> "caller"]]

Contract == INSTANCE FirestoreContract WITH
    User <- Account,
    Write <- [n : Write, bad : BOOLEAN, then : {"caller"}],
    queue <- [u \in Account |-> [i \in DOMAIN queue[u] |-> AsWritten(u, queue[u][i])]],
    asked <- [u \in Account |-> << >>],
    mainq <- [u \in Account |-> [i \in DOMAIN told[u] |->
                 Completion(told[u][i])]]

\* The pipeline gives the app what FirestoreContract promises: the writes of an
\* account are decided in order and once each, by the backend's own verdict, and
\* the completion of each is told unless the process ended in between.
ImplementsContract == Contract!Contract

\* If an account stays signed in, what it has queued is decided in the end.
Drained ==
    \A u \in Account : <>[](auth = u) => <>[](queue[u] = << >>)
=============================================================================
