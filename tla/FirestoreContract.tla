-------------------------- MODULE FirestoreContract --------------------------
(***************************************************************************)
(* What the modules of the app rely on when they write: the part of        *)
(* Firestore that is about writes, as a specification of its own.          *)
(* WritePipeline is shown to implement it.                                 *)
(*                                                                         *)
(* The accounts share one device here, so a restart forgets the closures   *)
(* of all of them; between restarts each account has a mutation queue of   *)
(* its own and the backend decides it in order, each write once.           *)
(***************************************************************************)
EXTENDS Firestore

CONSTANT Write     \* the writes that can be made: records with fields then, bad

ContractInit == SdkInit({})

\* The account u writes w.
MakeWrite(u, w) ==
    /\ queue' = WriteMutations(u, <<w>>)
    /\ UNCHANGED <<asked, mainq>>

\* The backend decides the oldest write of u by its own verdict on that write.
Decide(u) ==
    /\ queue[u] /= << >>
    /\ NotifyUser(u, Head(queue[u]), ~Head(queue[u]).bad)

\* The process is terminated and started again.
Restart ==
    /\ queue' = [u \in User |-> Forgotten(queue[u])]
    /\ mainq' = [u \in User |-> << >>]
    /\ UNCHANGED asked

ContractNext ==
    \/ \E u \in User : Decide(u) \/ \E w \in Write : MakeWrite(u, w)
    \/ Restart

Contract == ContractInit /\ [][ContractNext]_sdkVars
=============================================================================
