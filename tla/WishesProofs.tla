----------------------------- MODULE WishesProofs -----------------------------
(***************************************************************************)
(* For any number of phones and any limit on the length of a wish: a phone *)
(* writes one wish, every wish fits, and StoryPage never loses a wish that *)
(* it shows.                                                               *)
(***************************************************************************)
EXTENDS Wishes, TLAPS

Pending == {"handed", "queued"}

\* A document that is in use is the one its author's UserDefaults names, and it
\* was written from a draft that could be submitted.
UsedIsMarked ==
    \A d \in DocIDs : write[d] # "unused" =>
        /\ author[d] \in Guests /\ guestID[author[d]] = d
        /\ text[d] \in 1..MaxWishLength

\* What the server has was in a queue, and what it acknowledged it has.
ServerIsWritten ==
    \A d \in DocIDs :
        /\ d \in server => write[d] \in {"queued", "acked"}
        /\ write[d] = "acked" => d \in server

\* A phone's cache holds documents of the server, its own acknowledged one too.
CacheIsServer ==
    \A g \in Guests :
        /\ cache[g] \subseteq server
        /\ \A d \in DocIDs : (author[d] = g /\ write[d] = "acked") => d \in cache[g]

\* StoryPage shows what the cache has and what the phone has written itself.
ShownIsKnown ==
    \A g \in Guests : wishes[g] # None =>
        \A d \in wishes[g] :
            d \in cache[g] \/ (author[d] = g /\ write[d] \in Pending \cup {"refused"})

IInv == TypeOK /\ UsedIsMarked /\ ServerIsWritten /\ CacheIsServer /\ ShownIsKnown

\* The empty guest book satisfies the inductive invariant.
LEMMA InitIInv == Init => IInv
  BY NoneIsNoDocument, LimitsAreNumbers
  DEF Init, IInv, TypeOK, Writes, Screens, UsedIsMarked, ServerIsWritten, CacheIsServer,
      ShownIsKnown

\* Every step of any page, phone or the server preserves it.
LEMMA NextIInv == IInv /\ [Next]_vars => IInv'
<1> SUFFICES ASSUME IInv, [Next]_vars PROVE IInv'
  OBVIOUS
<1> USE NoneIsNoDocument, LimitsAreNumbers
<1> USE DEF IInv, TypeOK, Writes, Screens, UsedIsMarked, ServerIsWritten, CacheIsServer,
        ShownIsKnown, Pending, Running, Goto, book
<1>1. ASSUME NEW g \in Guests, StoriesAppear(g)
      PROVE  IInv'
  BY <1>1 DEF StoriesAppear
<1>2. ASSUME NEW g \in Guests, AddWish(g)
      PROVE  IInv'
  BY <1>2 DEF AddWish
<1>3. ASSUME NEW g \in Guests, NEW n \in 0..(MaxWishLength + 1), Edit(g, n)
      PROVE  IInv'
  <2>1. Clip(n) \in 0..MaxWishLength
    BY DEF Clip
  <2> QED BY <1>3, <2>1 DEF Edit
<1>4. ASSUME NEW g \in Guests, NEW d \in DocIDs, Submit(g, d)
      PROVE  IInv'
  <2>1. TypeOK'
    BY <1>4 DEF Submit, UploadWish, CanSubmit
  <2>2. UsedIsMarked'
    BY <1>4 DEF Submit, UploadWish, CanSubmit
  <2>3. ServerIsWritten' /\ CacheIsServer' /\ ShownIsKnown'
    BY <1>4 DEF Submit, UploadWish
  <2> QED BY <2>1, <2>2, <2>3
<1>5. ASSUME NEW g \in Guests, NEW d \in DocIDs, Queue(g, d) \/ Refuse(g, d)
      PROVE  IInv'
  BY <1>5 DEF Queue, Refuse, Answered
<1>6. ASSUME NEW g \in Guests, NEW d \in DocIDs, Deliver(g, d)
      PROVE  IInv'
  BY <1>6 DEF Deliver
<1>7. ASSUME NEW g \in Guests, NEW d \in DocIDs, Ack(g, d)
      PROVE  IInv'
  BY <1>7 DEF Ack, Answered
<1>8. ASSUME NEW g \in Guests, GotWishes(g)
      PROVE  IInv'
  BY <1>8 DEF GotWishes, Show, Own
<1>9. ASSUME NEW g \in Guests, GotCachedWishes(g)
      PROVE  IInv'
  BY <1>9 DEF GotCachedWishes, Show, Own
<1>10. ASSUME NEW g \in Guests, GetWishesError(g)
       PROVE  IInv'
  BY <1>10 DEF GetWishesError
<1>11. ASSUME NEW g \in Guests, Kill(g)
       PROVE  IInv'
  BY <1>11 DEF Kill
<1>12. CASE UNCHANGED vars
  BY <1>12 DEF vars
<1> QED
  BY <1>1, <1>2, <1>3, <1>4, <1>5, <1>6, <1>7, <1>8, <1>9, <1>10, <1>11, <1>12
  DEF Next, TurnedAway

\* The inductive invariant holds throughout.
LEMMA AlwaysIInv == Spec => []IInv
  BY InitIInv, NextIInv, PTL DEF Spec

\* Type correctness of the guest book (WishPage, StoryPage and the wishes).
THEOREM TypeCorrect == Spec => []TypeOK
<1>1. IInv => TypeOK
  BY DEF IInv
<1> QED BY <1>1, AlwaysIInv, PTL

\* uploadWish runs at most once on a phone, over any number of kills and errors.
THEOREM OneWish == Spec => []OneWishPerPhone
<1>1. IInv => OneWishPerPhone
  BY DEF IInv, UsedIsMarked, OneWishPerPhone
<1> QED BY <1>1, AlwaysIInv, PTL

\* No wish on the server is empty or longer than WishPage's limit.
THEOREM AllFit == Spec => []WishesFit
<1>1. IInv => WishesFit
  BY DEF IInv, TypeOK, UsedIsMarked, ServerIsWritten, WishesFit
<1> QED BY <1>1, AlwaysIInv, PTL

\* Between two answers of getWishes, from the server or from the cache, StoryPage
\* loses at most a refused wish of the phone's own.
THEOREM ShownStay == Spec => ShownWishesStay
<1> DEFINE Stays(g) ==
      (wishes[g] # None /\ wishes'[g] # None) =>
          \A d \in wishes[g] \ wishes'[g] : author[d] = g /\ write'[d] = "refused"
<1>1. ASSUME IInv, Next, NEW g \in Guests
      PROVE  Stays(g)
  <2>1. PICK h \in Guests : \/ wishes'[g] = wishes[g]
                            \/ h = g /\ (GotWishes(g) \/ GotCachedWishes(g) \/ Kill(g))
    BY <1>1 DEF IInv, TypeOK, Next, StoriesAppear, AddWish, Edit, Submit, TurnedAway, Queue,
       Deliver, Ack, Refuse, GotWishes, GotCachedWishes, GetWishesError, Kill, Show, vars
  <2>2. CASE wishes'[g] = wishes[g]
    BY <2>2
  <2>3. CASE Kill(g)
    BY <2>3, <1>1 DEF Kill, IInv, TypeOK
  <2>4. CASE GotWishes(g) \/ GotCachedWishes(g)
    <3> SUFFICES ASSUME wishes[g] # None,
                        NEW d \in wishes[g], d \notin wishes'[g]
                 PROVE  author[d] = g /\ write'[d] = "refused"
      OBVIOUS
    <3>1. d \in DocIDs
      BY <1>1 DEF IInv, TypeOK
    <3>2. wishes'[g] = server \cup Own(g) \/ wishes'[g] = cache[g] \cup Own(g)
      BY <2>4, <1>1 DEF GotWishes, GotCachedWishes, Show, IInv, TypeOK
    <3>3. d \notin cache[g] /\ d \notin Own(g)
      BY <1>1, <3>2 DEF IInv, CacheIsServer
    <3>4. author[d] = g /\ write[d] = "refused"
      BY <1>1, <3>1, <3>3 DEF IInv, ShownIsKnown, Pending, Own
    <3> QED BY <3>4, <2>4 DEF GotWishes, GotCachedWishes, book
  <2> QED BY <2>1, <2>2, <2>3, <2>4
<1>2. ASSUME IInv, [Next]_vars
      PROVE  [\A g \in Guests : Stays(g)]_vars
  BY <1>1, <1>2
<1> QED BY <1>2, AlwaysIInv, PTL DEF Spec, ShownWishesStay
=============================================================================
