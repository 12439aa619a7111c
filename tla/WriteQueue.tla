----------------------------- MODULE WriteQueue -----------------------------
(***************************************************************************)
(* What Firestore promises the app about setData: every account has a      *)
(* queue of writes that survives the app, the server carries out the       *)
(* queue of the current account in order, a write leaves the queue when    *)
(* the server has confirmed or refused it, and the app is told at most     *)
(* once which of the two.  The promise is "at least once": before a write  *)
(* is confirmed the queue may be carried out again from its head, so that  *)
(* the document goes back to an older write for a while.                   *)
(*                                                                         *)
(* FirestoreWrites is shown to implement this module.  All writes of an    *)
(* account set one document: the case in which their order matters.        *)
(***************************************************************************)
EXTENDS Naturals, Sequences

CONSTANTS
    Users,       \* accounts, and the guest without one
    MaxWrites    \* bound: writes made

Writes == 1..MaxWrites
Outcomes == {"none", "ok", "error"}

VARIABLES
    user,        \* the account signed in
    by,          \* history: by[w] is the account that made write w
    queue,       \* per account: the writes not yet settled
    done,        \* how many of user's queue the server has carried out, this time round
    doc,         \* server: the write each account's document comes from, 0 if none
    outcome      \* what the app was told about each write

vars == <<user, by, queue, done, doc, outcome>>

TypeOK ==
    /\ user \in Users
    /\ by \in Seq(Users) /\ Len(by) <= MaxWrites
    /\ queue \in [Users -> Seq(Writes)]
    /\ done \in 0..Len(queue[user])
    /\ doc \in [Users -> 0..MaxWrites]
    /\ outcome \in [Writes -> Outcomes]

Init ==
    /\ user \in Users
    /\ by = <<>>
    /\ queue = [u \in Users |-> <<>>]
    /\ done = 0
    /\ doc = [u \in Users |-> 0]
    /\ outcome = [w \in Writes |-> "none"]

\* The app makes a write.
Add ==
    /\ Len(by) < MaxWrites
    /\ by' = Append(by, user)
    /\ queue' = [queue EXCEPT ![user] = Append(@, Len(by) + 1)]
    /\ UNCHANGED <<user, done, doc, outcome>>

\* The server carries out the next write.
Apply ==
    /\ done < Len(queue[user])
    /\ done' = done + 1
    /\ doc' = [doc EXCEPT ![user] = queue[user][done + 1]]
    /\ UNCHANGED <<user, by, queue, outcome>>

\* The app is told about write w, if it still waits and has not been told before.
Tell(w, s) ==
    \/ UNCHANGED outcome
    \/ outcome[w] = "none" /\ outcome' = [outcome EXCEPT ![w] = s]

\* The oldest write is confirmed.
Confirm ==
    /\ done > 0
    /\ queue' = [queue EXCEPT ![user] = Tail(@)]
    /\ done' = done - 1
    /\ Tell(Head(queue[user]), "ok")
    /\ UNCHANGED <<user, by, doc>>

\* The oldest write is refused; the ones behind it are carried out from there.
Reject ==
    /\ queue[user] # <<>>
    /\ queue' = [queue EXCEPT ![user] = Tail(@)]
    /\ done' = 0
    /\ Tell(Head(queue[user]), "error")
    /\ UNCHANGED <<user, by, doc>>

\* The queue is carried out again from its head.  The app may have been told that
\* the head is confirmed when it died before that was on disk.
Again ==
    /\ done' = 0
    /\ IF done > 0 THEN Tell(Head(queue[user]), "ok") ELSE UNCHANGED outcome
    /\ UNCHANGED <<user, by, queue, doc>>

\* Another account signs in; the queue of the old one waits for its return.
SwitchUser(u) ==
    /\ user' = u
    /\ done' = 0
    /\ UNCHANGED <<by, queue, doc, outcome>>

Next == Add \/ Apply \/ Confirm \/ Reject \/ Again \/ \E u \in Users : SwitchUser(u)

Spec == Init /\ [][Next]_vars
-----------------------------------------------------------------------------
\* A write the app was told is stored is never undone by an older one: the
\* document is at least as new, although unconfirmed writes are repeated.
StoredStays ==
    \A w \in 1..Len(by) : outcome[w] = "ok" => doc[by[w]] >= w
=============================================================================
