------------------------------ MODULE WeddingIDs ------------------------------
(***************************************************************************)
(* How an account gets the four-digit wedding ID its guests will type.     *)
(*                                                                         *)
(* After a successful sign-up the app calls createUser, which asks         *)
(* generateUniqueID for an ID and then stores it in the account's document *)
(* of the "Users" collection.  generateUniqueID draws a random ID, reads   *)
(* its document in the "UsedIDs" collection and, when there is none,       *)
(* writes one: a check and a reservation that are two separate requests to *)
(* the server, while other phones do the same.                             *)
(*                                                                         *)
(* Every step below is one completion handler (they all run on the phone's *)
(* main queue), together with the effect on the server of the request it   *)
(* completes.  Reading at the moment of the answer loses nothing: the      *)
(* handler's own write is a later step.  A write that is queued when the   *)
(* app dies is kept by Firestore's on-disk queue and still reaches the     *)
(* server, but nobody hears of it.                                         *)
(***************************************************************************)
EXTENDS Naturals, FiniteSets

CONSTANTS
    Users,   \* accounts; each signs up from a phone of its own
    IDs,     \* the IDs Int.random(in: 0..<10000) can give
    None     \* no ID

ASSUME NoneIsNoID == None \notin IDs

VARIABLES
    usedIDs,   \* server: documents of the "UsedIDs" collection
    userDoc,   \* server: weddingID field of each account's document in "Users"
    stage,     \* phone: how far createUser has come for this account
    randomID,  \* phone: the ID generateUniqueID drew last
    raced      \* history: pairs whose reservations of one ID overlapped

vars == <<usedIDs, userDoc, stage, randomID, raced>>

\* checking: read of UsedIDs is out; reserving: write of UsedIDs is out;
\* saving: write of Users is out; orphan...: that write, after the app died.
Stages == {"noAccount", "checking", "reserving", "saving", "done", "failed",
           "orphanReserve", "orphanSave"}

InProgress == {"checking", "reserving", "saving"}

TypeOK ==
    /\ usedIDs \subseteq IDs
    /\ userDoc \in [Users -> IDs \cup {None}]
    /\ stage \in [Users -> Stages]
    /\ randomID \in [Users -> IDs \cup {None}]
    /\ \A u \in Users : stage[u] # "noAccount" => randomID[u] \in IDs
    /\ raced \subseteq SUBSET Users

Init ==
    /\ usedIDs = {}
    /\ userDoc = [u \in Users |-> None]
    /\ stage = [u \in Users |-> "noAccount"]
    /\ randomID = [u \in Users |-> None]
    /\ raced = {}

-----------------------------------------------------------------------------
\* u's request is answered and createUser moves on to stage s.
MoveTo(u, s) == stage' = [stage EXCEPT ![u] = s]

\* signUp succeeded: createUser starts, generateUniqueID draws d and reads it.
CreateUser(u, d) ==
    /\ stage[u] = "noAccount"
    /\ MoveTo(u, "checking")
    /\ randomID' = [randomID EXCEPT ![u] = d]
    /\ UNCHANGED <<usedIDs, userDoc, raced>>

\* Fault: the result of the check is not looked at.
NotInUseUnchecked(i) == TRUE

NotInUse(i) == i \notin usedIDs

\* The other accounts whose reservation of u's ID is still on its way.
Rivals(u) == {v \in Users \ {u} : /\ stage[v] \in {"reserving", "orphanReserve"}
                                  /\ randomID[v] = randomID[u]}

\* The drawn ID has no document: write one.
CheckFree(u) ==
    /\ stage[u] = "checking"
    /\ NotInUse(randomID[u])
    /\ MoveTo(u, "reserving")
    /\ raced' = raced \cup {{u, v} : v \in Rivals(u)}
    /\ UNCHANGED <<usedIDs, userDoc, randomID>>

\* Fault: the second attempt asks for the same ID again.
RetrySameID(u, d) ==
    /\ stage[u] = "checking"
    /\ ~NotInUse(randomID[u])
    /\ UNCHANGED vars

\* The drawn ID is taken: generateUniqueID calls itself, drawing d.
Retry(u, d) ==
    /\ stage[u] = "checking"
    /\ ~NotInUse(randomID[u])
    /\ randomID' = [randomID EXCEPT ![u] = d]
    /\ UNCHANGED <<usedIDs, userDoc, stage, raced>>

\* The read fails (no network, no cached copy).
CheckError(u) ==
    /\ stage[u] = "checking"
    /\ MoveTo(u, "failed")
    /\ UNCHANGED <<usedIDs, userDoc, randomID, raced>>

\* The reservation is acknowledged: completion(randomID, nil), and createUser
\* writes the account's document.
ReserveAck(u) ==
    /\ stage[u] = "reserving"
    /\ usedIDs' = usedIDs \cup {randomID[u]}
    /\ MoveTo(u, "saving")
    /\ UNCHANGED <<userDoc, randomID, raced>>

\* Fault: the ID is returned although its reservation was refused.
ReserveErrorIgnored(u) ==
    /\ stage[u] = "reserving"
    /\ MoveTo(u, "saving")
    /\ UNCHANGED <<usedIDs, userDoc, randomID, raced>>

ReserveError(u) ==
    /\ stage[u] = "reserving"
    /\ MoveTo(u, "failed")
    /\ UNCHANGED <<usedIDs, userDoc, randomID, raced>>

\* Fault: the document is written from the initial  var weddingID = "".
SaveAckBlank(u) ==
    /\ stage[u] = "saving"
    /\ userDoc' = [userDoc EXCEPT ![u] = ""]
    /\ MoveTo(u, "done")
    /\ UNCHANGED <<usedIDs, randomID, raced>>

SaveAck(u) ==
    /\ stage[u] = "saving"
    /\ userDoc' = [userDoc EXCEPT ![u] = randomID[u]]
    /\ MoveTo(u, "done")
    /\ UNCHANGED <<usedIDs, randomID, raced>>

\* The reserved ID stays reserved: nothing gives it back.
SaveError(u) ==
    /\ stage[u] = "saving"
    /\ MoveTo(u, "failed")
    /\ UNCHANGED <<usedIDs, userDoc, randomID, raced>>

\* The app dies.  A pending read is forgotten, a queued write is not; no later
\* launch resumes createUser, which runs only right after a sign-up.
AfterCrash == [checking |-> "failed", reserving |-> "orphanReserve",
               saving |-> "orphanSave"]

Crash(u) ==
    /\ stage[u] \in InProgress
    /\ MoveTo(u, AfterCrash[stage[u]])
    /\ UNCHANGED <<usedIDs, userDoc, randomID, raced>>

OrphanReserve(u) ==
    /\ stage[u] = "orphanReserve"
    /\ usedIDs' = usedIDs \cup {randomID[u]}
    /\ MoveTo(u, "failed")
    /\ UNCHANGED <<userDoc, randomID, raced>>

OrphanSave(u) ==
    /\ stage[u] = "orphanSave"
    /\ userDoc' = [userDoc EXCEPT ![u] = randomID[u]]
    /\ MoveTo(u, "done")
    /\ UNCHANGED <<usedIDs, randomID, raced>>

OrphanRefused(u) ==
    /\ stage[u] \in {"orphanReserve", "orphanSave"}
    /\ MoveTo(u, "failed")
    /\ UNCHANGED <<usedIDs, userDoc, randomID, raced>>

Next ==
    \E u \in Users :
        \/ \E d \in IDs : CreateUser(u, d) \/ Retry(u, d)
        \/ CheckFree(u) \/ CheckError(u)
        \/ ReserveAck(u) \/ ReserveError(u)
        \/ SaveAck(u) \/ SaveError(u)
        \/ Crash(u)
        \/ OrphanReserve(u) \/ OrphanSave(u) \/ OrphanRefused(u)

Spec == Init /\ [][Next]_vars

(***************************************************************************)
(* Fairness.  Firestore answers every read, and every queued write once    *)
(* the phone is online.  The draws are uniform and independent, so a       *)
(* retry that is taken again and again while some ID is free draws a free  *)
(* one.  No read has to fail, and signing up and crashing are not forced.  *)
(***************************************************************************)
Fairness ==
    \A u \in Users :
        /\ WF_vars(CheckFree(u) \/ \E d \in IDs : Retry(u, d))
        /\ WF_vars(ReserveAck(u) \/ ReserveError(u))
        /\ WF_vars(SaveAck(u) \/ SaveError(u))
        /\ SF_vars(\E d \in IDs \ usedIDs : Retry(u, d))

FairSpec == Spec /\ Fairness
-----------------------------------------------------------------------------
\* An ID an account has stored has been reserved: createUser writes the
\* account's document only after the reservation was acknowledged, whatever
\* fails or crashes around it.
StoredIDsAreReserved ==
    \A u \in Users : userDoc[u] # None => userDoc[u] \in usedIDs

\* What the check in generateUniqueID achieves: two accounts share an ID only if
\* the second one's check was answered while the first one's reservation of that
\* very ID was still on its way to the server.
SharedOnlyByRace ==
    \A u, v \in Users :
        (u # v /\ userDoc[u] = userDoc[v] /\ userDoc[u] # None) => {u, v} \in raced

\* What the comment in generateUniqueID says ("The generated ID is unique"): no
\* two accounts have the same wedding ID.
GeneratedIDsAreUnique ==
    \A u, v \in Users :
        (u # v /\ userDoc[u] # None) => userDoc[u] # userDoc[v]

\* createUser comes to an end, by storing the document, reporting an error or
\* dying with the app, unless the IDs run out: then generateUniqueID has no exit.
ProvisioningEnds ==
    \A u \in Users :
        (stage[u] \in InProgress) ~> (stage[u] \notin InProgress \/ usedIDs = IDs)
=============================================================================
