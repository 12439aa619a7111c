--------------------------- MODULE GuestEntryProofs ---------------------------
(***************************************************************************)
(* For any keys and any weddings, any length of the PIN and any number of  *)
(* queries and timers: the warning never outlives its timers, and the pad  *)
(* leads astray only when the PIN was changed during a query.  The last    *)
(* part is the type: as long as fewer than MaxPending queries and timers   *)
(* are out, a slot is free for one more.                                   *)
(***************************************************************************)
EXTENDS GuestEntry, FiniteSetTheorems, SequenceTheorems, TLAPS

\* As long as no edit has met a query, every query asks for the PIN on the pad.
UneditedQueriesAreCurrent ==
    ~edited => \A q \in queries : q.asked = pin

IInv ==
    /\ wipes \in Nat
    /\ WarningHasTimer
    /\ UneditedQueriesAreCurrent
    /\ AstrayOnlyAfterEdit

\* The pad after a launch satisfies the inductive invariant.
LEMMA InitIInv == Init => IInv
  BY DEF Init, IInv, WarningHasTimer, UneditedQueriesAreCurrent, AstrayOnlyAfterEdit

\* A wedding's PIN is not empty.
LEMMA WeddingPinNotEmpty == ASSUME NEW p \in Weddings PROVE p # <<>>
<1>1. p \in [1..4 -> Keys]
  BY WeddingsArePins DEF PinLength
<1>2. DOMAIN p = 1..4
  BY <1>1
<1>3. <<>> \in Seq(Keys) /\ Len(<<>>) = 0
  BY EmptySeq
<1>4. DOMAIN <<>> = 1..0
  BY <1>3, LenProperties
<1>5. 1 \in 1..4 /\ 1 \notin 1..0
  OBVIOUS
<1> QED BY <1>2, <1>4, <1>5

\* A change of the PIN keeps the invariant: it is recorded if a query is out, and
\* the query it sends asks for the new PIN.
LEMMA SetPinIInv ==
    ASSUME IInv, NEW p, SetPin(p), UNCHANGED <<wipes, pinWarning, home>>
    PROVE  IInv'
<1>1. UneditedQueriesAreCurrent'
  <2> SUFFICES ASSUME ~edited', NEW q \in queries'
               PROVE  q.asked = pin'
    BY DEF UneditedQueriesAreCurrent
  <2>1. queries = {} /\ pin' = p
    BY DEF SetPin
  <2> QED BY <2>1 DEF SetPin
<1>2. edited => edited'
  BY DEF SetPin
<1> QED BY <1>1, <1>2 DEF IInv, WarningHasTimer, AstrayOnlyAfterEdit, home

\* Every key, answer, timer and navigation preserves it.
LEMMA NextIInv == IInv /\ [Next]_vars => IInv'
<1> SUFFICES ASSUME IInv, [Next]_vars PROVE IInv'
  OBVIOUS
<1> USE DEF IInv, WarningHasTimer, UneditedQueriesAreCurrent, AstrayOnlyAfterEdit
<1>1. CASE PressDelete \/ \E k \in Keys : PressKey(k)
  BY <1>1, SetPinIInv DEF PressDelete, PressKey
<1>2. ASSUME NEW q \in queries, AnswerYes(q)
      PROVE  IInv'
  <2>1. q.asked \in Weddings /\ homePin' = pin /\ isOTPSuccessful'
    BY <1>2 DEF AnswerYes, IsWeddingExist, CorrectPINEntered
  <2>2. ~edited => pin \in Weddings /\ pin # <<>>
    BY <2>1, WeddingPinNotEmpty
  <2> QED BY <1>2, <2>1, <2>2 DEF AnswerYes, CorrectPINEntered, BuildHome
<1>3. ASSUME NEW q \in queries, AnswerNo(q)
      PROVE  IInv'
  BY <1>3 DEF AnswerNo, home
<1>4. CASE Wipe
  <2>1. wipes' \in Nat /\ ~pinWarning'
    BY <1>4 DEF Wipe
  <2>2. queries' = queries /\ pin' = <<>> /\ UNCHANGED home
    BY <1>4 DEF Wipe
  <2>3. edited' <=> (edited \/ (queries # {} /\ pin # <<>>))
    BY <1>4, Zenon DEF Wipe
  <2>4. UneditedQueriesAreCurrent'
    BY <2>2, <2>3
  <2>5. AstrayOnlyAfterEdit'
    BY <2>2, <2>3 DEF home
  <2> QED BY <2>1, <2>4, <2>5
<1>5. CASE Loaded \/ NotLoaded
  BY <1>5 DEF Loaded, NotLoaded, pad
<1>6. CASE Back
  <2>1. ~edited => homePin \in Weddings /\ homePin # <<>>
    BY <1>6, WeddingPinNotEmpty DEF Back
  <2> QED BY <1>6, <2>1 DEF Back, BuildHome, pad
<1>7. CASE Relaunch
  BY <1>7 DEF Relaunch
<1>8. CASE UNCHANGED vars
  BY <1>8 DEF vars, pad, home
<1> QED BY <1>1, <1>2, <1>3, <1>4, <1>5, <1>6, <1>7, <1>8 DEF Next

\* The inductive invariant holds throughout.
LEMMA AlwaysIInv == Spec => []IInv
  BY InitIInv, NextIInv, PTL DEF Spec

\* PinKeyboardAndField never shows "Incorrect PIN" without a timer that will take
\* it away, however many rejections overlap.
THEOREM WarningTimed == Spec => []WarningHasTimer
<1>1. IInv => WarningHasTimer
  BY DEF IInv
<1> QED BY <1>1, AlwaysIInv, PTL

\* If the PIN is left alone while the server is asked, OTPPage opens HomePage only
\* for a wedding and never asks Firestore for an empty path.
THEOREM AstrayByEdit == Spec => []AstrayOnlyAfterEdit
<1>1. IInv => AstrayOnlyAfterEdit
  BY DEF IInv
<1> QED BY <1>1, AlwaysIInv, PTL
-----------------------------------------------------------------------------
\* What keeps the type: queries and timers are within the bound together.
TypeInv ==
    /\ TypeOK
    /\ IsFiniteSet(queries)
    /\ Cardinality(queries) + wipes <= MaxPending

\* A PIN is a sequence of keys of limited length.
LEMMA PinIs ==
    ASSUME NEW p
    PROVE  p \in Pins <=> p \in Seq(Keys) /\ Len(p) <= MaxTyped
<1>1. ASSUME p \in Pins PROVE p \in Seq(Keys) /\ Len(p) <= MaxTyped
  <2>1. PICK n \in 0..MaxTyped : p \in [1..n -> Keys]
    BY <1>1 DEF Pins
  <2>2. p \in Seq(Keys)
    BY <2>1, SeqDef, BoundsAreNumbers
  <2>3. Len(p) = n
    BY <2>1, <2>2, LenProperties, BoundsAreNumbers
  <2> QED BY <2>1, <2>2, <2>3, BoundsAreNumbers
<1>2. ASSUME p \in Seq(Keys), Len(p) <= MaxTyped PROVE p \in Pins
  <2>1. Len(p) \in 0..MaxTyped /\ p \in [1..Len(p) -> Keys]
    BY <1>2, LenProperties, BoundsAreNumbers
  <2> QED BY <2>1 DEF Pins
<1> QED BY <1>1, <1>2

\* The pad may be empty.
LEMMA EmptyIsPin == <<>> \in Pins
<1> DEFINE e == <<>>
<1>1. e \in Seq(Keys) /\ Len(e) = 0
  BY EmptySeq
<1> HIDE DEF e
<1>2. Len(e) <= MaxTyped
  BY <1>1, BoundsAreNumbers
<1> QED BY <1>1, <1>2, PinIs DEF e

\* Below the bound a new query finds a slot that no other one has: otherwise the
\* queries would cover all slots and be as many.
LEMMA SlotIsFree ==
    ASSUME TypeInv, Pending < MaxPending
    PROVE  FreeSlots # {}
<1> SUFFICES ASSUME FreeSlots = {} PROVE FALSE
  OBVIOUS
<1> DEFINE slot == [q \in queries |-> q.slot]
<1>1. slot \in [queries -> 1..MaxPending]
  BY DEF TypeInv, TypeOK, Query
<1>2. \A s \in 1..MaxPending : \E q \in queries : slot[q] = s
  BY DEF FreeSlots
<1>3. slot \in Surjection(queries, 1..MaxPending)
  BY <1>1, <1>2 DEF Surjection
<1>4. Cardinality(1..MaxPending) <= Cardinality(queries)
  BY <1>3, FS_Surjection, Zenon DEF TypeInv
<1>5. Cardinality(1..MaxPending) = MaxPending
  BY FS_Interval, BoundsAreNumbers
<1>6. Cardinality(queries) \in Nat
  BY FS_CardinalityType DEF TypeInv
<1>7. wipes \in Nat
  BY BoundsAreNumbers DEF TypeInv, TypeOK
<1> QED BY <1>4, <1>5, <1>6, <1>7, BoundsAreNumbers DEF Pending

\* A change of the PIN keeps the type: its query takes a free slot.
LEMMA SetPinTypeInv ==
    ASSUME TypeInv, NEW p \in Pins, SetPin(p), UNCHANGED <<wipes, pinWarning, home>>
    PROVE  TypeInv'
<1>1. edited' \in BOOLEAN
  <2>1. edited' = (edited \/ queries # {})
    BY DEF SetPin
  <2> QED BY <2>1, Zenon DEF TypeInv, TypeOK
<1>2. /\ pin' \in Pins /\ wipes' \in 0..MaxPending /\ pinWarning' \in BOOLEAN
      /\ isOTPSuccessful' \in BOOLEAN /\ homePin' \in Pins \cup {LaunchPin}
      /\ fetching' \in BOOLEAN /\ wed' \in Weddings \cup {None} /\ crashed' \in BOOLEAN
  BY Zenon DEF TypeInv, TypeOK, SetPin, home
<1>3. /\ queries' \subseteq Query /\ IsFiniteSet(queries')
      /\ Cardinality(queries') + wipes' <= MaxPending
  <2>1. CASE Len(p) # PinLength
    BY <2>1 DEF SetPin, TypeInv, TypeOK
  <2>2. CASE Len(p) = PinLength
    <3> DEFINE s == CHOOSE x \in FreeSlots : TRUE
               q == [slot |-> s, asked |-> p]
    <3>1. Pending < MaxPending /\ queries' = queries \cup {q}
      BY <2>2 DEF SetPin
    <3>2. s \in 1..MaxPending
      <4>1. s \in FreeSlots
        BY <3>1, SlotIsFree
      <4> QED BY <4>1 DEF FreeSlots
    <3>3. p \in [1..PinLength -> Keys]
      BY <2>2, PinIs, LenProperties
    <3>4. q \in Query
      BY <3>2, <3>3 DEF Query
    <3>5. IsFiniteSet(queries') /\ Cardinality(queries') <= Cardinality(queries) + 1
      <4> HIDE DEF q
      <4>1. /\ IsFiniteSet(queries \cup {q})
            /\ Cardinality(queries \cup {q}) =
                 IF q \in queries THEN Cardinality(queries) ELSE Cardinality(queries) + 1
        BY FS_AddElement DEF TypeInv
      <4>2. Cardinality(queries) \in Nat
        BY FS_CardinalityType DEF TypeInv
      <4> QED BY <3>1, <4>1, <4>2
    <3>6. Cardinality(queries) \in Nat /\ Cardinality(queries') \in Nat
      BY <3>5, FS_CardinalityType DEF TypeInv
    <3>7. wipes' = wipes /\ wipes \in Nat
      BY BoundsAreNumbers DEF TypeInv, TypeOK
    <3>8. Cardinality(queries) + wipes < MaxPending
      BY <3>1 DEF Pending
    <3>9. queries' \subseteq Query
      BY <3>1, <3>4 DEF TypeInv, TypeOK
    <3>10. Cardinality(queries') + wipes' <= MaxPending
      BY <3>5, <3>6, <3>7, <3>8, BoundsAreNumbers
    <3> QED BY <3>5, <3>9, <3>10
  <2> QED BY <2>1, <2>2
<1> QED BY <1>1, <1>2, <1>3 DEF TypeInv, TypeOK

\* An answered query makes room for a timer.
LEMMA AnswerMakesRoom ==
    ASSUME TypeInv, NEW q \in queries, queries' = queries \ {q}
    PROVE  /\ queries' \subseteq Query /\ IsFiniteSet(queries')
           /\ wipes \in 0..MaxPending
           /\ wipes + 1 \in 0..MaxPending
           /\ Cardinality(queries') + wipes + 1 <= MaxPending
           /\ Cardinality(queries') + (wipes + 1) <= MaxPending
           /\ Cardinality(queries') + wipes <= MaxPending
<1>1. IsFiniteSet(queries') /\ Cardinality(queries') = Cardinality(queries) - 1
  <2>1. /\ IsFiniteSet(queries \ {q})
        /\ Cardinality(queries \ {q}) =
             IF q \in queries THEN Cardinality(queries) - 1 ELSE Cardinality(queries)
    BY FS_RemoveElement DEF TypeInv
  <2> QED BY <2>1
<1>2. Cardinality(queries) \in Nat /\ Cardinality(queries') \in Nat
  BY <1>1, FS_CardinalityType DEF TypeInv
<1>3. wipes \in 0..MaxPending /\ Cardinality(queries) + wipes <= MaxPending
  BY DEF TypeInv, TypeOK
<1>4. queries' \subseteq Query
  BY DEF TypeInv, TypeOK
<1> QED BY <1>1, <1>2, <1>3, <1>4, BoundsAreNumbers

\* The pad is empty after a launch, and nothing is out.
LEMMA InitTypeInv == Init => TypeInv
<1> SUFFICES ASSUME Init PROVE TypeInv
  OBVIOUS
<1>1. pin \in Pins
  BY EmptyIsPin DEF Init
<1>2. /\ pinWarning \in BOOLEAN /\ isOTPSuccessful \in BOOLEAN
      /\ homePin \in Pins \cup {LaunchPin} /\ fetching \in BOOLEAN
      /\ wed \in Weddings \cup {None} /\ crashed \in BOOLEAN /\ edited \in BOOLEAN
  BY Zenon DEF Init
<1>3. queries = {} /\ wipes = 0
  BY DEF Init
<1>4. IsFiniteSet(queries) /\ Cardinality(queries) = 0
  BY <1>3, FS_EmptySet
<1>5. wipes \in 0..MaxPending /\ Cardinality(queries) + wipes <= MaxPending
  BY <1>3, <1>4, BoundsAreNumbers
<1> QED BY <1>1, <1>2, <1>3, <1>4, <1>5 DEF TypeInv, TypeOK

\* A new HomePage starts without a wedding, and either reads one or has crashed.
LEMMA BuildHomeTypes ==
    ASSUME NEW p, BuildHome(p)
    PROVE  fetching' \in BOOLEAN /\ wed' \in Weddings \cup {None} /\ crashed' \in BOOLEAN
  BY Zenon DEF BuildHome

\* Every key, answer, timer and navigation keeps the type.
LEMMA NextTypeInv == TypeInv /\ [Next]_vars => TypeInv'
<1> SUFFICES ASSUME TypeInv, [Next]_vars PROVE TypeInv'
  OBVIOUS
<1>1. ASSUME NEW k \in Keys, PressKey(k) PROVE TypeInv'
  <2>1. pin \in Seq(Keys) /\ Len(pin) < MaxTyped /\ Len(pin) \in Nat
    BY <1>1, PinIs, LenProperties DEF PressKey, TypeInv, TypeOK
  <2>2. Append(pin, k) \in Seq(Keys) /\ Len(Append(pin, k)) = Len(pin) + 1
    BY <2>1, AppendProperties
  <2>3. Append(pin, k) \in Pins
    <3> DEFINE longer == Append(pin, k)
    <3>1. longer \in Seq(Keys) /\ Len(longer) = Len(pin) + 1
      BY <2>2
    <3> HIDE DEF longer
    <3>2. Len(longer) <= MaxTyped
      BY <2>1, <3>1, BoundsAreNumbers
    <3> QED BY <3>1, <3>2, PinIs DEF longer
  <2> QED BY <1>1, <2>3, SetPinTypeInv DEF PressKey
<1>2. ASSUME PressDelete PROVE TypeInv'
  <2>1. pin \in Seq(Keys) /\ Len(pin) <= MaxTyped /\ Len(pin) \in Nat /\ Len(pin) # 0
    <3>1. pin \in Seq(Keys) /\ Len(pin) <= MaxTyped /\ pin # <<>>
      BY <1>2, PinIs DEF PressDelete, TypeInv, TypeOK
    <3> QED BY <3>1, LenProperties, EmptySeq
  <2>2. \A i \in 1..(Len(pin) - 1) : pin[i] \in Keys
    BY <2>1, ElementOfSeq
  <2>3. /\ SubSeq(pin, 1, Len(pin) - 1) \in Seq(Keys)
        /\ Len(SubSeq(pin, 1, Len(pin) - 1)) <= Len(pin)
    BY <2>1, <2>2, SubSeqProperties
  <2>4. SubSeq(pin, 1, Len(pin) - 1) \in Pins
    <3> DEFINE shorter == SubSeq(pin, 1, Len(pin) - 1)
    <3>1. Len(shorter) \in Nat
      BY <2>3, LenProperties
    <3> HIDE DEF shorter
    <3>2. Len(shorter) <= MaxTyped
      BY <2>1, <2>3, <3>1, BoundsAreNumbers DEF shorter
    <3> QED BY <2>3, <3>2, PinIs DEF shorter
  <2> QED BY <1>2, <2>4, SetPinTypeInv DEF PressDelete
<1>3. ASSUME NEW q \in queries, AnswerYes(q) PROVE TypeInv'
  <2>1. queries' = queries \ {q} /\ CorrectPINEntered(pin)
    BY <1>3 DEF AnswerYes
  <2>2. /\ queries' \subseteq Query /\ IsFiniteSet(queries')
        /\ Cardinality(queries') + wipes <= MaxPending
    BY <2>1, AnswerMakesRoom
  <2>3. /\ pin' \in Pins /\ pinWarning' \in BOOLEAN /\ edited' \in BOOLEAN
        /\ wipes' = wipes /\ wipes' \in 0..MaxPending
    BY <1>3, Zenon DEF AnswerYes, TypeInv, TypeOK
  <2>4. isOTPSuccessful' \in BOOLEAN /\ homePin' \in Pins \cup {LaunchPin}
    BY <2>1, Zenon DEF CorrectPINEntered, TypeInv, TypeOK
  <2>5. fetching' \in BOOLEAN /\ wed' \in Weddings \cup {None} /\ crashed' \in BOOLEAN
    <3>1. CASE UNCHANGED <<fetching, wed, crashed>>
      BY <3>1, Zenon DEF TypeInv, TypeOK
    <3>2. CASE BuildHome(pin)
      BY <3>2, BuildHomeTypes
    <3> QED BY <2>1, <3>1, <3>2 DEF CorrectPINEntered
  <2> QED BY <2>2, <2>3, <2>4, <2>5 DEF TypeInv, TypeOK
<1>4. ASSUME NEW q \in queries, AnswerNo(q) PROVE TypeInv'
  <2>1. queries' = queries \ {q} /\ wipes' = wipes + 1
    BY <1>4 DEF AnswerNo
  <2>2. /\ queries' \subseteq Query /\ IsFiniteSet(queries')
        /\ wipes' \in 0..MaxPending
        /\ Cardinality(queries') + wipes' <= MaxPending
    BY <2>1, AnswerMakesRoom
  <2>3. /\ pin' \in Pins /\ pinWarning' \in BOOLEAN /\ edited' \in BOOLEAN
        /\ isOTPSuccessful' \in BOOLEAN /\ homePin' \in Pins \cup {LaunchPin}
        /\ fetching' \in BOOLEAN /\ wed' \in Weddings \cup {None} /\ crashed' \in BOOLEAN
    BY <1>4, Zenon DEF AnswerNo, home, TypeInv, TypeOK
  <2> QED BY <2>2, <2>3 DEF TypeInv, TypeOK
<1>5. ASSUME Wipe PROVE TypeInv'
  <2>1. pin' \in Pins
    BY <1>5, EmptyIsPin DEF Wipe
  <2>2. /\ pinWarning' \in BOOLEAN /\ edited' \in BOOLEAN
        /\ isOTPSuccessful' \in BOOLEAN /\ homePin' \in Pins \cup {LaunchPin}
        /\ fetching' \in BOOLEAN /\ wed' \in Weddings \cup {None} /\ crashed' \in BOOLEAN
    BY <1>5, Zenon DEF Wipe, home, TypeInv, TypeOK
  <2>3. /\ queries' \subseteq Query /\ IsFiniteSet(queries')
        /\ Cardinality(queries') = Cardinality(queries)
    BY <1>5 DEF Wipe, TypeInv, TypeOK
  <2>4. Cardinality(queries) \in Nat
    BY FS_CardinalityType DEF TypeInv
  <2>5. wipes' \in 0..MaxPending /\ Cardinality(queries') + wipes' <= MaxPending
    BY <1>5, <2>3, <2>4, BoundsAreNumbers DEF Wipe, TypeInv, TypeOK
  <2> QED BY <2>1, <2>2, <2>3, <2>5 DEF TypeInv, TypeOK
<1>6. ASSUME UNCHANGED pad, UNCHANGED edited,
             /\ isOTPSuccessful' \in BOOLEAN /\ homePin' \in Pins \cup {LaunchPin}
             /\ fetching' \in BOOLEAN /\ wed' \in Weddings \cup {None}
             /\ crashed' \in BOOLEAN
      PROVE  TypeInv'
  <2>1. pin' \in Pins /\ pinWarning' \in BOOLEAN /\ edited' \in BOOLEAN
    BY <1>6, Zenon DEF pad, TypeInv, TypeOK
  <2>2. /\ queries' \subseteq Query /\ IsFiniteSet(queries') /\ wipes' \in 0..MaxPending
        /\ Cardinality(queries') + wipes' <= MaxPending
    BY <1>6 DEF pad, TypeInv, TypeOK
  <2> QED BY <1>6, <2>1, <2>2 DEF TypeInv, TypeOK
<1>7. ASSUME Loaded \/ NotLoaded PROVE TypeInv'
  <2>1. UNCHANGED pad /\ UNCHANGED edited
    BY <1>7 DEF Loaded, NotLoaded
  <2>2. /\ isOTPSuccessful' \in BOOLEAN /\ homePin' \in Pins \cup {LaunchPin}
        /\ fetching' \in BOOLEAN /\ crashed' \in BOOLEAN
    BY <1>7, Zenon DEF Loaded, NotLoaded, TypeInv, TypeOK
  <2>3. wed' \in Weddings \cup {None}
    BY <1>7, Zenon DEF Loaded, NotLoaded, TypeInv, TypeOK
  <2> QED BY <1>6, <2>1, <2>2, <2>3
<1>8. ASSUME Back PROVE TypeInv'
  <2>1. UNCHANGED pad /\ UNCHANGED edited /\ BuildHome(homePin)
    BY <1>8 DEF Back
  <2>2. isOTPSuccessful' \in BOOLEAN /\ homePin' \in Pins \cup {LaunchPin}
    BY <1>8, Zenon DEF Back, TypeInv, TypeOK
  <2> QED BY <1>6, <2>1, <2>2, BuildHomeTypes
<1>9. ASSUME Relaunch PROVE TypeInv'
  <2>1. Init'
    BY <1>9 DEF Relaunch, Init
  <2> QED BY <2>1, InitTypeInv, PTL
<1>10. ASSUME UNCHANGED vars PROVE TypeInv'
  <2>1. UNCHANGED pad /\ UNCHANGED edited /\ UNCHANGED home
    BY <1>10 DEF vars
  <2>2. /\ isOTPSuccessful' \in BOOLEAN /\ homePin' \in Pins \cup {LaunchPin}
        /\ fetching' \in BOOLEAN /\ wed' \in Weddings \cup {None} /\ crashed' \in BOOLEAN
    BY <2>1, Zenon DEF home, TypeInv, TypeOK
  <2> QED BY <1>6, <2>1, <2>2
<1> QED BY <1>1, <1>2, <1>3, <1>4, <1>5, <1>7, <1>8, <1>9, <1>10 DEF Next

\* The PIN pad, OTPPage and HomePage keep their types, and a query always finds a slot
\* that no other query has: for any keys, any weddings and any bounds.
THEOREM TypeCorrect == Spec => []TypeOK
<1>1. TypeInv => TypeOK
  BY DEF TypeInv
<1>2. Spec => []TypeInv
  BY InitTypeInv, NextTypeInv, PTL DEF Spec
<1> QED BY <1>1, <1>2, PTL
=============================================================================
