--------------------------- MODULE WeddingIDsProofs ---------------------------
(***************************************************************************)
(* For any set of accounts and any set of IDs: the state keeps its type,   *)
(* stored IDs are reserved, and two accounts share an ID only by the race  *)
(* between check and reservation.                                          *)
(***************************************************************************)
EXTENDS WeddingIDs, TLAPS

\* Stages in which the account's ID has been reserved with an acknowledgement.
Reserved == {"saving", "done", "orphanSave"}

\* Stages from which the account may end up owning its ID.
Claiming == Reserved \cup {"reserving", "orphanReserve"}

\* A document exists exactly when createUser is done, with the ID drawn last.
DocFollowsStage ==
    \A u \in Users : userDoc[u] = IF stage[u] = "done" THEN randomID[u] ELSE None

\* From the acknowledgement on the ID stays in UsedIDs.
ReservedIsUsed ==
    \A u \in Users : stage[u] \in Reserved => randomID[u] \in usedIDs

\* Two claims of one ID were made in overlapping windows.
SharedClaimsRaced ==
    \A u, v \in Users :
        (u # v /\ stage[u] \in Claiming /\ stage[v] \in Claiming
               /\ randomID[u] = randomID[v]) => {u, v} \in raced

IInv == TypeOK /\ DocFollowsStage /\ ReservedIsUsed /\ SharedClaimsRaced

\* The initial state satisfies the inductive invariant.
LEMMA InitIInv == Init => IInv
  BY NoneIsNoID DEF Init, IInv, TypeOK, Stages, DocFollowsStage, ReservedIsUsed,
     SharedClaimsRaced, Reserved, Claiming

\* Every step of createUser, of any account, preserves it.
LEMMA NextIInv == IInv /\ [Next]_vars => IInv'
<1> SUFFICES ASSUME IInv, [Next]_vars PROVE IInv'
  OBVIOUS
<1> USE NoneIsNoID
<1> USE DEF IInv, TypeOK, Stages, DocFollowsStage, ReservedIsUsed, SharedClaimsRaced,
        Reserved, Claiming, MoveTo
<1>1. ASSUME NEW u \in Users, NEW d \in IDs, CreateUser(u, d)
      PROVE  IInv'
  BY <1>1 DEF CreateUser
<1>2. ASSUME NEW u \in Users, NEW d \in IDs, Retry(u, d)
      PROVE  IInv'
  BY <1>2 DEF Retry
<1>3. ASSUME NEW u \in Users, CheckFree(u)
      PROVE  IInv'
  <2>1. TypeOK' /\ DocFollowsStage' /\ ReservedIsUsed'
    BY <1>3 DEF CheckFree, Rivals
  <2>2. SharedClaimsRaced'
    \* A rival that already holds the ID would have made NotInUse false, so it
    \* is one of the accounts CheckFree adds to raced.
    <3>1. ASSUME NEW v \in Users \ {u}, stage[v] \in Claiming,
                 randomID[v] = randomID[u]
          PROVE  v \in Rivals(u)
      BY <1>3, <3>1 DEF CheckFree, NotInUse, Rivals
    <3>2. ASSUME NEW v \in Users \ {u}, stage[v] \in Claiming,
                 randomID[v] = randomID[u]
          PROVE  {u, v} \in raced' /\ {v, u} \in raced'
      <4>1. {u, v} = {v, u}
        OBVIOUS
      <4>2. {u, v} \in {{u, w} : w \in Rivals(u)}
        BY <3>1, <3>2
      <4> QED BY <4>1, <4>2, <1>3 DEF CheckFree
    <3>3. raced \subseteq raced'
      BY <1>3 DEF CheckFree
    <3> QED BY <1>3, <3>2, <3>3 DEF CheckFree
  <2> QED BY <2>1, <2>2
<1>4. ASSUME NEW u \in Users, ReserveAck(u) \/ OrphanReserve(u)
      PROVE  IInv'
  BY <1>4 DEF ReserveAck, OrphanReserve
<1>5. ASSUME NEW u \in Users, SaveAck(u) \/ OrphanSave(u)
      PROVE  IInv'
  BY <1>5 DEF SaveAck, OrphanSave
<1>6. ASSUME NEW u \in Users,
             CheckError(u) \/ ReserveError(u) \/ SaveError(u) \/ OrphanRefused(u)
      PROVE  IInv'
  BY <1>6 DEF CheckError, ReserveError, SaveError, OrphanRefused
<1>7. ASSUME NEW u \in Users, Crash(u)
      PROVE  IInv'
  BY <1>7 DEF Crash, InProgress, AfterCrash
<1>8. CASE UNCHANGED vars
  BY <1>8 DEF vars
<1> QED BY <1>1, <1>2, <1>3, <1>4, <1>5, <1>6, <1>7, <1>8 DEF Next

\* The inductive invariant holds throughout.
LEMMA AlwaysIInv == Spec => []IInv
  BY InitIInv, NextIInv, PTL DEF Spec

\* Type correctness of the provisioning state (createUser and generateUniqueID).
THEOREM TypeCorrect == Spec => []TypeOK
<1>1. IInv => TypeOK
  BY DEF IInv
<1> QED BY <1>1, AlwaysIInv, PTL

\* An ID stored in an account's document has been reserved in UsedIDs, whatever
\* requests of createUser fail and whenever the app dies.
THEOREM StoredReserved == Spec => []StoredIDsAreReserved
<1>1. IInv => StoredIDsAreReserved
  BY DEF IInv, DocFollowsStage, ReservedIsUsed, Reserved, StoredIDsAreReserved
<1> QED BY <1>1, AlwaysIInv, PTL

\* The check in generateUniqueID leaves exactly one way to a shared ID: the second
\* check answered while the first reservation was under way.
THEOREM SharedByRace == Spec => []SharedOnlyByRace
<1>1. IInv => SharedOnlyByRace
  BY DEF IInv, DocFollowsStage, SharedClaimsRaced, Claiming, Reserved, SharedOnlyByRace
<1> QED BY <1>1, AlwaysIInv, PTL
=============================================================================
