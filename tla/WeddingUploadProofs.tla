-------------------------- MODULE WeddingUploadProofs --------------------------
(***************************************************************************)
(* For any persons, photos and texts, and any number of saves: the state   *)
(* of the form, the uploads and the documents keeps its type, guests never *)
(* get a path without a file, the gallery keeps its order, no stored photo *)
(* is forgotten, and repeated writes undo a later save only for a while.   *)
(***************************************************************************)
EXTENDS WeddingUpload, WellFoundedInduction, TLAPS

\* A path is written only when its file is in Storage, where it stays.
QueuedLinksAreStored ==
    \A k \in 1..Len(outbox) : outbox[k].kind = "link" => outbox[k].file \in storage

IInv == TypeOK /\ QueuedLinksAreStored /\ NoDanglingLink

\* The form's photos are files of the save that takes them.
LEMMA FormFilesType ==
    ASSUME TypeOK, NEW n \in 1..MaxSaves
    PROVE  FormFiles(n) \subseteq File
<1>1. ASSUME NEW r \in Roles, image[r] # None
      PROVE  [slot |-> Person(r), save |-> n, image |-> image[r]] \in File
  BY <1>1 DEF TypeOK, File, Slots
<1>2. ASSUME NEW i \in 1..Len(gallery)
      PROVE  [slot |-> InGallery(i), save |-> n, image |-> gallery[i]] \in File
  BY <1>2, BoundsAreNumbers DEF TypeOK, File, Slots
<1> QED BY <1>1, <1>2 DEF FormFiles

\* Appending one write to the outbox keeps its type and the writes already there.
LEMMA AppendWrite ==
    ASSUME TypeOK, NEW w \in Write, outbox' = Append(outbox, w)
    PROVE  /\ outbox' \in Seq(Write)
           /\ Len(outbox') = Len(outbox) + 1
           /\ \A k \in 1..Len(outbox) : outbox'[k] = outbox[k]
           /\ outbox'[Len(outbox) + 1] = w
  BY DEF TypeOK

\* Taking off the oldest write shifts the others.
LEMMA TailWrite ==
    ASSUME TypeOK, outbox # <<>>, outbox' = Tail(outbox)
    PROVE  /\ outbox' \in Seq(Write)
           /\ Head(outbox) = outbox[1] /\ 1 \in 1..Len(outbox) /\ outbox[1] \in Write
           /\ Len(outbox') = Len(outbox) - 1
           /\ \A k \in 1..Len(outbox') : k + 1 \in 1..Len(outbox) /\ outbox'[k] = outbox[k + 1]
  BY DEF TypeOK

\* A set of numbers up to n has a largest one.
LEMMA HasLargest ==
    ASSUME NEW n \in Nat, NEW S \in SUBSET (1..n), S # {}
    PROVE  \E k \in S : \A j \in S : j <= k
<1> DEFINE T == {n - k : k \in S}
<1>1. T \subseteq Nat /\ T # {}
  <2>1. PICK k \in S : TRUE
    OBVIOUS
  <2>2. n - k \in T
    OBVIOUS
  <2>3. ASSUME NEW j \in S PROVE n - j \in Nat
    OBVIOUS
  <2> QED BY <2>2, <2>3
<1>2. \E x \in T : \A y \in T : ~(y < x)
  <2> DEFINE R == OpToRel(<, Nat)
  <2>1. IsWellFoundedOn(R, Nat)
    BY NatLessThanWellFounded
  <2>2. PICK x \in T : \A y \in T : ~(<<y, x>> \in R)
    <3> HIDE DEF R, T
    <3> QED BY <1>1, <2>1, WFMin
  <2>3. \A y \in T : ~(y < x)
    BY <1>1, <2>2 DEF OpToRel
  <2> QED BY <2>3
<1>3. PICK x \in T : \A y \in T : ~(y < x)
  BY <1>2
<1>4. PICK k \in S : x = n - k
  OBVIOUS
<1>5. ASSUME NEW j \in S PROVE j <= k
  <2>1. n - j \in T
    OBVIOUS
  <2> QED BY <1>3, <1>4, <2>1
<1> QED BY <1>5

\* LastAbout finds the last of the first n writes about a slot.
LEMMA LastAboutIs ==
    ASSUME TypeOK, NEW n \in 1..Len(outbox), NEW s \in Slots
    PROVE  LET k == LastAbout(s, n)
               About(j) == outbox[j].kind = "link" /\ outbox[j].file.slot = s
           IN  \/ k = 0 /\ \A j \in 1..n : ~About(j)
               \/ k \in 1..n /\ About(k) /\ \A j \in 1..n : About(j) => j <= k
<1> DEFINE ks == {k \in 1..n : outbox[k].kind = "link" /\ outbox[k].file.slot = s}
<1>1. CASE ks = {}
  BY <1>1 DEF LastAbout
<1>2. CASE ks # {}
  <2>1. n \in Nat /\ ks \in SUBSET (1..n)
    OBVIOUS
  <2>2. \E k \in ks : \A j \in ks : j <= k
    <3> HIDE DEF ks
    <3> QED BY <1>2, <2>1, HasLargest
  <2>3. LastAbout(s, n) = CHOOSE k \in ks : \A j \in ks : j <= k
    BY <1>2 DEF LastAbout
  <2>4. LastAbout(s, n) \in ks /\ \A j \in ks : j <= LastAbout(s, n)
    <3> HIDE DEF ks
    <3> QED BY <2>2, <2>3
  <2> QED BY <2>4
<1> QED BY <1>1, <1>2

\* LastAboutWedding finds a write of the wedding's document, if there is one.
LEMMA LastAboutWeddingIs ==
    ASSUME TypeOK, NEW n \in 1..Len(outbox)
    PROVE  \/ LastAboutWedding(n) = 0
           \/ LastAboutWedding(n) \in 1..n /\ outbox[LastAboutWedding(n)].kind = "wedding"
<1> DEFINE ks == {k \in 1..n : outbox[k].kind = "wedding"}
<1>1. CASE ks = {}
  BY <1>1 DEF LastAboutWedding
<1>2. CASE ks # {}
  <2>1. n \in Nat /\ ks \in SUBSET (1..n)
    OBVIOUS
  <2>2. \E k \in ks : \A j \in ks : j <= k
    <3> HIDE DEF ks
    <3> QED BY <1>2, <2>1, HasLargest
  <2>3. LastAboutWedding(n) = CHOOSE k \in ks : \A j \in ks : j <= k
    BY <1>2 DEF LastAboutWedding
  <2>4. LastAboutWedding(n) \in ks
    <3> HIDE DEF ks
    <3> QED BY <2>2, <2>3
  <2> QED BY <2>4
<1> QED BY <1>1, <1>2

\* Carrying out writes keeps the documents' types, and a slot's path stays or becomes
\* that of a queued write for the slot.
LEMMA CarryOutKeeps ==
    ASSUME TypeOK, NEW n \in 1..Len(outbox), CarryOut(n)
    PROVE  /\ wedding' \in {None} \cup Document
           /\ \/ wedding' = wedding
              \/ \E k \in 1..n : outbox[k].kind = "wedding" /\ wedding' = outbox[k].doc
           /\ links' \in [Slots -> {None} \cup File]
           /\ \A s \in Slots :
                 \/ /\ links'[s] = links[s]
                    /\ \A k \in 1..n : ~(outbox[k].kind = "link" /\ outbox[k].file.slot = s)
                 \/ \E k \in 1..n : /\ outbox[k].kind = "link" /\ outbox[k].file.slot = s
                                     /\ links'[s] = outbox[k].file
<1>1. \A k \in 1..n : outbox[k] \in Write
  BY DEF TypeOK
<1>2. /\ wedding' \in {None} \cup Document
      /\ \/ wedding' = wedding
         \/ \E k \in 1..n : outbox[k].kind = "wedding" /\ wedding' = outbox[k].doc
  <2>1. CASE LastAboutWedding(n) = 0
    BY <2>1 DEF CarryOut, TypeOK
  <2>2. CASE LastAboutWedding(n) \in 1..n /\ outbox[LastAboutWedding(n)].kind = "wedding"
    <3>1. wedding' = outbox[LastAboutWedding(n)].doc
      BY <2>2 DEF CarryOut
    <3> QED BY <1>1, <2>2, <3>1 DEF Write
  <2> QED BY <2>1, <2>2, LastAboutWeddingIs
<1>3. ASSUME NEW s \in Slots
      PROVE  \/ /\ links'[s] = links[s]
                /\ \A k \in 1..n : ~(outbox[k].kind = "link" /\ outbox[k].file.slot = s)
             \/ \E k \in 1..n : /\ outbox[k].kind = "link" /\ outbox[k].file.slot = s
                                 /\ links'[s] = outbox[k].file
  <2>1. CASE /\ LastAbout(s, n) = 0
             /\ \A k \in 1..n : ~(outbox[k].kind = "link" /\ outbox[k].file.slot = s)
    BY <2>1 DEF CarryOut
  <2>2. CASE LastAbout(s, n) \in 1..n /\ outbox[LastAbout(s, n)].kind = "link"
                /\ outbox[LastAbout(s, n)].file.slot = s
    <3>1. links'[s] = outbox[LastAbout(s, n)].file
      BY <2>2 DEF CarryOut
    <3> QED BY <2>2, <3>1
  <2> QED BY <2>1, <2>2, LastAboutIs
<1>4. ASSUME NEW s \in Slots PROVE links'[s] \in {None} \cup File
  BY <1>1, <1>3 DEF TypeOK, Write
<1>5. links' = [s \in Slots |-> links'[s]]
  BY DEF CarryOut
<1> QED BY <1>2, <1>3, <1>4, <1>5

\* The empty form satisfies the inductive invariant.
LEMMA InitIInv == Init => IInv
  BY NoneIsNoValue, BlankIsText, BoundsAreNumbers
  DEF Init, IInv, TypeOK, QueuedLinksAreStored, NoDanglingLink

\* Every step of the form, the uploads and the queue preserves it.
LEMMA NextIInv == IInv /\ [Next]_vars => IInv'
<1> SUFFICES ASSUME IInv, [Next]_vars PROVE IInv'
  OBVIOUS
<1> USE NoneIsNoValue, BlankIsText, BoundsAreNumbers
<1> USE DEF IInv
<1>0. TypeOK
  OBVIOUS
<1>1. ASSUME NEW t \in Texts, EditText(t)
      PROVE  IInv'
  BY <1>1 DEF EditText, TypeOK, QueuedLinksAreStored, NoDanglingLink, remote, histories
<1>2. ASSUME NEW p \in Photos, NEW r \in Roles, PickPhoto(r, p)
      PROVE  IInv'
  BY <1>2 DEF PickPhoto, TypeOK, QueuedLinksAreStored, NoDanglingLink, remote, histories
<1>3. ASSUME NEW p \in Photos, PickGallery(p)
      PROVE  IInv'
  BY <1>3 DEF PickGallery, TypeOK, QueuedLinksAreStored, NoDanglingLink, remote, histories
<1>4. CASE TapOnSave \/ NoWeddingID
  BY <1>4, SMTT(30) DEF TapOnSave, NoWeddingID, TypeOK, QueuedLinksAreStored, NoDanglingLink, remote, histories, form
<1>5. CASE GotWeddingID
  <2> DEFINE n == saves + 1
             w == [kind |-> "wedding", doc |-> [text |-> text, save |-> n]]
  <2>1. n \in 1..MaxSaves
    BY <1>5 DEF GotWeddingID, TypeOK
  <2>2. w \in Write
    BY <2>1 DEF TypeOK, Write, Document
  <2>3. outbox' = Append(outbox, w)
    BY <1>5 DEF GotWeddingID, UploadWedding
  <2>4. FormFiles(n) \subseteq File
    BY <1>0, <2>1, FormFilesType
  <2>5. SlotsOf(FormFiles(n)) \subseteq Slots
    BY <2>4 DEF SlotsOf, File
  <2>6. /\ outbox' \in Seq(Write)
        /\ Len(outbox') = Len(outbox) + 1
        /\ \A k \in 1..Len(outbox) : outbox'[k] = outbox[k]
        /\ outbox'[Len(outbox) + 1] = w
    BY <1>0, <2>2, <2>3, AppendWrite
  <2> HIDE DEF n
  <2>7. TypeOK'
    <3>1. putting' \subseteq File /\ overlapped' \subseteq Slots
      BY <1>5, <2>4, <2>5 DEF GotWeddingID, TypeOK, n
    <3>2. saves' \in 0..MaxSaves /\ opened' \in 0..saves' /\ waiting' \in 0..MaxWaiting
      BY <1>5 DEF GotWeddingID, TypeOK
    <3> QED BY <1>5, <2>6, <3>1, <3>2 DEF GotWeddingID, TypeOK, form, remote
  <2>8. QueuedLinksAreStored'
    <3>1. storage' = storage
      BY <1>5 DEF GotWeddingID, remote
    <3>2. ASSUME NEW k \in 1..Len(outbox'), outbox'[k].kind = "link"
          PROVE  k \in 1..Len(outbox)
      <4>1. Len(outbox) \in Nat
        BY DEF TypeOK
      <4>2. w.kind # "link"
        OBVIOUS
      <4> QED BY <2>6, <3>2, <4>1, <4>2
    <3> QED BY <2>6, <3>1, <3>2 DEF QueuedLinksAreStored
  <2>9. NoDanglingLink'
    BY <1>5 DEF GotWeddingID, NoDanglingLink, remote
  <2> QED BY <2>7, <2>8, <2>9
<1>6. ASSUME NEW f \in putting, PutDone(f)
      PROVE  IInv'
  <2> DEFINE w == [kind |-> "link", file |-> f]
  <2>1. f \in File /\ w \in Write
    BY DEF TypeOK, Write
  <2>2. outbox' = Append(outbox, w)
    BY <1>6 DEF PutDone
  <2>3. /\ outbox' \in Seq(Write)
        /\ Len(outbox') = Len(outbox) + 1
        /\ \A k \in 1..Len(outbox) : outbox'[k] = outbox[k]
        /\ outbox'[Len(outbox) + 1] = w
    BY <1>0, <2>1, <2>2, AppendWrite
  <2>4. TypeOK'
    BY <1>6, <2>1, <2>3 DEF PutDone, TypeOK, form, histories
  <2>5. QueuedLinksAreStored'
    BY <1>6, <2>3 DEF PutDone, QueuedLinksAreStored, TypeOK
  <2>6. NoDanglingLink'
    BY <1>6 DEF PutDone, NoDanglingLink
  <2> QED BY <2>4, <2>5, <2>6
<1>7. ASSUME NEW f \in putting, PutFailed(f)
      PROVE  IInv'
  BY <1>7 DEF PutFailed, TypeOK, QueuedLinksAreStored, NoDanglingLink, form, remote, histories
<1>8. CASE Send \/ Refused
  <2>1. outbox # <<>> /\ outbox' = Tail(outbox)
    BY <1>8 DEF Send, Refused
  <2>2. /\ outbox' \in Seq(Write)
        /\ Head(outbox) = outbox[1] /\ 1 \in 1..Len(outbox) /\ outbox[1] \in Write
        /\ Len(outbox') = Len(outbox) - 1
        /\ \A k \in 1..Len(outbox') : k + 1 \in 1..Len(outbox) /\ outbox'[k] = outbox[k + 1]
    BY <1>0, <2>1, TailWrite
  <2>3. storage' = storage
    BY <1>8 DEF Send, Refused, remote
  <2>4. QueuedLinksAreStored'
    BY <2>2, <2>3 DEF QueuedLinksAreStored
  <2>5. CASE Refused
    BY <2>2, <2>4, <2>5 DEF Refused, TypeOK, NoDanglingLink, form, remote
  <2>6. CASE Send
    <3>1. CarryOut(1)
      BY <2>6 DEF Send
    <3>2. /\ wedding' \in {None} \cup Document
          /\ links' \in [Slots -> {None} \cup File]
          /\ \A s \in Slots :
                \/ links'[s] = links[s]
                \/ \E k \in 1..1 : /\ outbox[k].kind = "link" /\ outbox[k].file.slot = s
                                    /\ links'[s] = outbox[k].file
      BY <1>0, <2>2, <3>1, CarryOutKeeps
    <3>3. TypeOK'
      BY <2>2, <2>6, <3>2 DEF Send, TypeOK, form, histories
    <3>4. NoDanglingLink'
      BY <2>2, <2>3, <3>2 DEF NoDanglingLink, QueuedLinksAreStored
    <3> QED BY <2>4, <3>3, <3>4
  <2> QED BY <1>8, <2>5, <2>6
<1>9. ASSUME NEW n \in 1..Len(outbox), SendUnconfirmed(n)
      PROVE  IInv'
  <2>1. CarryOut(n)
    BY <1>9 DEF SendUnconfirmed
  <2>2. /\ wedding' \in {None} \cup Document
        /\ links' \in [Slots -> {None} \cup File]
        /\ \A s \in Slots :
              \/ links'[s] = links[s]
              \/ \E k \in 1..n : /\ outbox[k].kind = "link" /\ outbox[k].file.slot = s
                                  /\ links'[s] = outbox[k].file
    BY <1>0, <2>1, CarryOutKeeps
  <2>3. \A k \in 1..n : k \in 1..Len(outbox)
    BY DEF TypeOK
  <2>4. NoDanglingLink'
    BY <1>9, <2>2, <2>3 DEF SendUnconfirmed, NoDanglingLink, QueuedLinksAreStored
  <2>5. TypeOK' /\ QueuedLinksAreStored'
    BY <1>9, <2>2 DEF SendUnconfirmed, TypeOK, QueuedLinksAreStored, form, histories
  <2> QED BY <2>4, <2>5
<1>10. CASE Kill
  BY <1>10 DEF Kill, TypeOK, QueuedLinksAreStored, NoDanglingLink, remote, histories
<1>11. CASE UNCHANGED vars
  BY <1>11 DEF vars, form, remote, histories, TypeOK, QueuedLinksAreStored, NoDanglingLink
<1> QED
  BY <1>1, <1>2, <1>3, <1>4, <1>5, <1>6, <1>7, <1>8, <1>9, <1>10, <1>11 DEF Next

\* The inductive invariant holds throughout.
LEMMA AlwaysIInv == Spec => []IInv
  BY InitIInv, NextIInv, PTL DEF Spec

\* Type correctness of the form, the uploads and the documents they write.
THEOREM TypeCorrect == Spec => []TypeOK
<1>1. IInv => TypeOK
  BY DEF IInv
<1> QED BY <1>1, AlwaysIInv, PTL

\* Every path uploadPhoto has published leads to a file in Storage, for the slot
\* it is published in, whatever uploads and writes fail and whenever the app dies.
THEOREM NoDangling == Spec => []NoDanglingLink
<1>1. IInv => NoDanglingLink
  BY DEF IInv
<1> QED BY <1>1, AlwaysIInv, PTL
-----------------------------------------------------------------------------
(***************************************************************************)
(* Order.  Unless two uploads for a slot overlapped, its files reach       *)
(* Storage and the queue in the order of their saves, and leave the queue  *)
(* from its head.  That is why repeating the queue undoes a later save     *)
(* only until its own write is repeated, and why no path is forgotten.     *)
(***************************************************************************)
Queued(f) == \E k \in 1..Len(outbox) : outbox[k] = [kind |-> "link", file |-> f]

QueuedDoc(d) == \E k \in 1..Len(outbox) : outbox[k] = [kind |-> "wedding", doc |-> d]

IsLink(k, s) == outbox[k].kind = "link" /\ outbox[k].file.slot = s

IsDoc(k) == outbox[k].kind = "wedding"

\* Every file is of a save so far; one of this session shows the picture in its place.
FilesAreOfForm ==
    \A f \in putting \cup storage :
        /\ f.save <= saves
        /\ f.save > opened =>
              \A i \in 1..MaxGallery :
                  f.slot = InGallery(i) => i <= Len(gallery) /\ f.image = gallery[i]

\* Without overlap a running upload is the only one for its slot, and the newest.
PuttingIsNewest ==
    \A f \in putting : f.slot \notin overlapped =>
        /\ \A g \in putting : g.slot = f.slot => g = f
        /\ \A g \in storage : g.slot = f.slot => g.save < f.save

LinksSorted ==
    \A j, k \in 1..Len(outbox) : \A s \in Slots \ overlapped :
        j < k /\ IsLink(j, s) /\ IsLink(k, s) => outbox[j].file.save < outbox[k].file.save

\* What repeating an older write undoes is repeated after it.
LinksRepeated ==
    \A k \in 1..Len(outbox) : \A s \in Slots \ overlapped :
        links[s] # None /\ IsLink(k, s) /\ outbox[k].file.save < links[s].save
            => Queued(links[s])

\* Files whose path has left the queue are older than those whose path is in it.
LeftFromHead ==
    \A f \in storage : \A k \in 1..Len(outbox) :
        f.slot \notin overlapped /\ f \notin refused /\ IsLink(k, f.slot) /\ ~Queued(f)
            => f.save < outbox[k].file.save

DocsSorted ==
    /\ \A k \in 1..Len(outbox) : IsDoc(k) => outbox[k].doc.save <= saves
    /\ wedding # None => wedding.save <= saves
    /\ \A j, k \in 1..Len(outbox) :
          j < k /\ IsDoc(j) /\ IsDoc(k) => outbox[j].doc.save < outbox[k].doc.save

DocsRepeated ==
    \A k \in 1..Len(outbox) :
        wedding # None /\ IsDoc(k) /\ outbox[k].doc.save < wedding.save => QueuedDoc(wedding)

Order ==
    /\ FilesAreOfForm /\ PuttingIsNewest
    /\ LinksSorted /\ LinksRepeated /\ LeftFromHead /\ PathsAreKept
    /\ DocsSorted /\ DocsRepeated

\* A queued path or document is determined by its file or contents.
LEMMA WriteIs ==
    ASSUME TypeOK, NEW k \in 1..Len(outbox)
    PROVE  /\ outbox[k].kind = "link" =>
                 outbox[k].file \in File /\ outbox[k] = [kind |-> "link", file |-> outbox[k].file]
           /\ outbox[k].kind = "wedding" =>
                 outbox[k].doc \in Document /\ outbox[k] = [kind |-> "wedding", doc |-> outbox[k].doc]
<1>1. outbox[k] \in Write
  BY DEF TypeOK
<1> QED BY <1>1 DEF Write

\* The files of one save: one for a slot, with the pictures of the form.
LEMMA FormFilesAre ==
    ASSUME TypeOK, NEW n \in 1..MaxSaves
    PROVE  /\ \A f \in FormFiles(n) :
                 /\ f.save = n
                 /\ \A i \in 1..MaxGallery :
                       f.slot = InGallery(i) => i <= Len(gallery) /\ f.image = gallery[i]
           /\ \A f, g \in FormFiles(n) : f.slot = g.slot => f = g
<1>1. \A r, q \in Roles : Person(r) = Person(q) => r = q
  BY DEF Person
<1>2. \A i, j : InGallery(i) = InGallery(j) => i = j
  BY DEF InGallery
<1>3. \A r \in Roles : \A i : Person(r) # InGallery(i)
  BY GalleryIsNoRole DEF Person, InGallery
<1> DEFINE P(r) == [slot |-> Person(r), save |-> n, image |-> image[r]]
           G(i) == [slot |-> InGallery(i), save |-> n, image |-> gallery[i]]
<1>4. \A f \in FormFiles(n) : (\E r \in Roles : f = P(r)) \/ (\E i \in 1..Len(gallery) : f = G(i))
  BY DEF FormFiles
<1>5. /\ \A r : P(r).slot = Person(r) /\ P(r).save = n
      /\ \A i : G(i).slot = InGallery(i) /\ G(i).save = n /\ G(i).image = gallery[i]
  OBVIOUS
<1> HIDE DEF P, G
<1>6. Len(gallery) \in Nat
  BY DEF TypeOK
<1>7. ASSUME NEW f \in FormFiles(n)
      PROVE  /\ f.save = n
             /\ \A i \in 1..MaxGallery :
                   f.slot = InGallery(i) => i <= Len(gallery) /\ f.image = gallery[i]
  BY <1>2, <1>3, <1>4, <1>5, <1>6
<1>8. ASSUME NEW f \in FormFiles(n), NEW g \in FormFiles(n), f.slot = g.slot
      PROVE  f = g
  <2>1. CASE \E r \in Roles : f = P(r)
    BY <1>1, <1>3, <1>4, <1>5, <1>8, <2>1
  <2>2. CASE \E i \in 1..Len(gallery) : f = G(i)
    BY <1>2, <1>3, <1>4, <1>5, <1>8, <2>2
  <2> QED BY <1>4, <2>1, <2>2
<1> QED BY <1>7, <1>8

\* A step that leaves queue, documents and histories alone keeps the order of the queue.
LEMMA SameQueue ==
    ASSUME Order, UNCHANGED <<outbox, storage, wedding, links, refused, overlapped, saves>>
    PROVE  (LinksSorted /\ LinksRepeated /\ LeftFromHead /\ PathsAreKept /\ DocsSorted /\ DocsRepeated)'
  BY DEF Order, LinksSorted, LinksRepeated, LeftFromHead, PathsAreKept, DocsSorted, DocsRepeated,
     Queued, QueuedDoc, IsLink, IsDoc, Age

\* The empty form and queue are in order.
LEMMA InitOrder == Init => Order
  BY BoundsAreNumbers DEF Init, Order, FilesAreOfForm, PuttingIsNewest, LinksSorted, LinksRepeated,
     LeftFromHead, PathsAreKept, DocsSorted, DocsRepeated

\* Picking, editing, failed uploads and kills keep the order.
LEMMA QuietStepOrder ==
    ASSUME IInv, Order,
           \/ \E t \in Texts : EditText(t)
           \/ \E p \in Photos : PickGallery(p) \/ \E r \in Roles : PickPhoto(r, p)
           \/ TapOnSave \/ NoWeddingID
           \/ \E f \in putting : PutFailed(f)
           \/ Kill \/ UNCHANGED vars
    PROVE  Order'
<1> USE DEF IInv
<1>1. UNCHANGED <<outbox, storage, wedding, links, refused, overlapped, saves>>
  BY DEF EditText, PickGallery, PickPhoto, TapOnSave, NoWeddingID, PutFailed, Kill, vars, form,
     remote, histories
<1>2. (LinksSorted /\ LinksRepeated /\ LeftFromHead /\ PathsAreKept /\ DocsSorted /\ DocsRepeated)'
  BY <1>1, SameQueue
<1>3. putting' \subseteq putting
  BY DEF EditText, PickGallery, PickPhoto, TapOnSave, NoWeddingID, PutFailed, Kill, vars
<1>4. PuttingIsNewest'
  BY <1>1, <1>3 DEF Order, PuttingIsNewest
<1>5. FilesAreOfForm'
  <2>1. CASE Kill
    <3>1. opened' = saves' /\ saves' = saves /\ saves \in Nat
      BY <2>1 DEF Kill, TypeOK
    <3>2. \A f \in putting' \cup storage' : f.save \in Nat /\ f.save <= saves'
      BY <1>1, <1>3, <3>1, BoundsAreNumbers DEF Order, FilesAreOfForm, TypeOK, File
    <3> QED BY <3>1, <3>2 DEF FilesAreOfForm
  <2>2. ASSUME NEW p \in Photos, PickGallery(p) PROVE FilesAreOfForm'
    <3>1. /\ Len(gallery) \in Nat /\ Len(gallery') = Len(gallery) + 1
          /\ \A i \in 1..Len(gallery) : gallery'[i] = gallery[i]
      BY <2>2 DEF PickGallery, TypeOK
    <3>2. opened' = opened
      BY <2>2 DEF PickGallery
    <3> QED BY <1>1, <1>3, <3>1, <3>2, BoundsAreNumbers DEF Order, FilesAreOfForm
  <2>3. CASE ~Kill /\ ~\E p \in Photos : PickGallery(p)
    <3>1. gallery' = gallery /\ opened' = opened
      BY <2>3 DEF EditText, PickPhoto, TapOnSave, NoWeddingID, PutFailed, vars, form
    <3> QED BY <1>1, <1>3, <3>1 DEF Order, FilesAreOfForm
  <2> QED BY <2>1, <2>2, <2>3
<1> QED BY <1>2, <1>4, <1>5 DEF Order

\* A save starts one upload for a slot, newer than all files there are.
LEMMA GotWeddingIDOrder ==
    ASSUME IInv, Order, GotWeddingID
    PROVE  Order'
<1> USE DEF IInv
<1> DEFINE n == saves + 1
           w == [kind |-> "wedding", doc |-> [text |-> text, save |-> n]]
<1>0. TypeOK
  OBVIOUS
<1>1. n \in 1..MaxSaves /\ saves \in Nat /\ opened \in Nat
  BY BoundsAreNumbers DEF GotWeddingID, TypeOK
<1>2. w \in Write /\ w.kind = "wedding" /\ w.doc.save = n
  BY <1>1 DEF TypeOK, Write, Document
<1>3. /\ Len(outbox') = Len(outbox) + 1 /\ Len(outbox) \in Nat
      /\ \A k \in 1..Len(outbox) : outbox'[k] = outbox[k]
      /\ outbox'[Len(outbox) + 1] = w
  <2>1. outbox' = Append(outbox, w)
    BY DEF GotWeddingID, UploadWedding
  <2>2. Len(outbox) \in Nat
    BY DEF TypeOK
  <2> QED BY <1>0, <1>2, <2>1, <2>2, AppendWrite
<1> DEFINE new == FormFiles(n)
<1>4. /\ \A f \in new :
            /\ f.save = n
            /\ \A i \in 1..MaxGallery :
                  f.slot = InGallery(i) => i <= Len(gallery) /\ f.image = gallery[i]
      /\ \A f, g \in new : f.slot = g.slot => f = g
  BY <1>0, <1>1, FormFilesAre
<1>5. /\ putting' = putting \cup new
      /\ overlapped' = overlapped \cup (SlotsOf(putting) \cap SlotsOf(new))
      /\ saves' = n
      /\ UNCHANGED <<gallery, opened, storage, wedding, links, refused>>
  BY DEF GotWeddingID, form, remote
<1>6. \A f \in putting \cup storage : f.save \in Nat /\ f.save <= saves
  BY BoundsAreNumbers DEF Order, FilesAreOfForm, TypeOK, File
<1>7. \A k \in 1..Len(outbox') : k = Len(outbox) + 1 \/ k \in 1..Len(outbox)
  BY <1>3
<1>8. \A k \in 1..Len(outbox) : k \in 1..Len(outbox')
  BY <1>3
<1> HIDE DEF n, w, new
<1>9. FilesAreOfForm'
  <2>1. \A f \in putting' \cup storage' : f \in putting \cup storage \/ f \in new
    BY <1>5
  <2>2. saves' = saves + 1
    BY <1>5 DEF n
  <2> QED BY <1>1, <1>4, <1>5, <1>6, <2>1, <2>2 DEF Order, FilesAreOfForm
<1>10. PuttingIsNewest'
  <2>1. \A f \in putting, g \in new : f.slot = g.slot => f.slot \in overlapped'
    BY <1>5 DEF SlotsOf
  <2>2. \A g \in storage : g.save < n
    BY <1>1, <1>6 DEF n
  <2> QED BY <1>4, <1>5, <2>1, <2>2 DEF Order, PuttingIsNewest
<1>11. \A k \in 1..Len(outbox') : \A s : IsLink(k, s)' => k \in 1..Len(outbox) /\ IsLink(k, s)
  BY <1>2, <1>3, <1>7 DEF IsLink
<1>12. \A f : Queued(f) <=> Queued(f)'
  <2>1. \A f : w # [kind |-> "link", file |-> f]
    BY <1>2
  <2> QED BY <1>3, <1>7, <1>8, <2>1 DEF Queued
<1>13. LinksSorted' /\ LinksRepeated' /\ LeftFromHead' /\ PathsAreKept'
  <2>1. overlapped \subseteq overlapped'
    BY <1>5
  <2>2. LinksSorted'
    BY <1>3, <1>11, <2>1 DEF Order, LinksSorted
  <2>3. LinksRepeated'
    BY <1>3, <1>5, <1>11, <1>12, <2>1 DEF Order, LinksRepeated
  <2>4. LeftFromHead'
    BY <1>3, <1>5, <1>11, <1>12, <2>1 DEF Order, LeftFromHead
  <2>5. PathsAreKept'
    BY <1>5, <1>12, <2>1 DEF Order, PathsAreKept, Queued, Age
  <2> QED BY <2>2, <2>3, <2>4, <2>5
<1>14. DocsSorted' /\ DocsRepeated'
  <2>1. \A k \in 1..Len(outbox) : IsDoc(k)' <=> IsDoc(k)
    BY <1>3 DEF IsDoc
  <2>2. \A k \in 1..Len(outbox) : IsDoc(k) => outbox[k].doc.save \in Nat /\ outbox[k].doc.save <= saves
    <3>1. \A k \in 1..Len(outbox) : IsDoc(k) => outbox[k].doc \in Document
      BY <1>0, WriteIs DEF IsDoc
    <3>2. \A d \in Document : d.save \in Nat
      BY BoundsAreNumbers DEF Document
    <3> QED BY <3>1, <3>2 DEF Order, DocsSorted
  <2>3. wedding # None => wedding.save \in Nat /\ wedding.save <= saves
    BY BoundsAreNumbers DEF Order, DocsSorted, TypeOK, Document
  <2>4. saves' = saves + 1 /\ n = saves + 1
    BY <1>5 DEF n
  <2>5. \A k \in 1..Len(outbox') : IsDoc(k)' => outbox'[k].doc.save <= saves'
    BY <1>1, <1>2, <1>3, <1>7, <2>1, <2>2, <2>4
  <2>6. ASSUME NEW j \in 1..Len(outbox'), NEW k \in 1..Len(outbox'),
               j < k, IsDoc(j)', IsDoc(k)'
        PROVE  outbox'[j].doc.save < outbox'[k].doc.save
    <3>1. j \in 1..Len(outbox)
      BY <1>3, <1>7, <2>6
    <3>2. CASE k = Len(outbox) + 1
      BY <1>1, <1>2, <1>3, <2>1, <2>2, <2>4, <2>6, <3>1, <3>2
    <3>3. CASE k \in 1..Len(outbox)
      BY <1>3, <2>1, <2>6, <3>1, <3>3 DEF Order, DocsSorted
    <3> QED BY <1>7, <3>2, <3>3
  <2>7. wedding' # None => wedding'.save <= saves'
    BY <1>1, <1>5, <2>3, <2>4
  <2>8. DocsSorted'
    BY <2>5, <2>6, <2>7 DEF DocsSorted
  <2>9. \A d : QueuedDoc(d) => QueuedDoc(d)'
    BY <1>3, <1>8 DEF QueuedDoc
  <2>10. ASSUME NEW k \in 1..Len(outbox'), wedding' # None, IsDoc(k)',
                outbox'[k].doc.save < wedding'.save
         PROVE  QueuedDoc(wedding)'
    <3>1. CASE k = Len(outbox) + 1
      BY <1>1, <1>2, <1>3, <1>5, <2>3, <2>4, <2>10, <3>1
    <3>2. CASE k \in 1..Len(outbox)
      BY <1>3, <1>5, <2>1, <2>9, <2>10, <3>2 DEF Order, DocsRepeated
    <3> QED BY <1>7, <3>1, <3>2
  <2>11. DocsRepeated'
    BY <2>10 DEF DocsRepeated
  <2> QED BY <2>8, <2>11
<1> QED BY <1>9, <1>10, <1>13, <1>14 DEF Order

\* A finished upload queues its path behind those of all earlier saves.
LEMMA PutDoneOrder ==
    ASSUME IInv, Order, NEW f \in putting, PutDone(f)
    PROVE  Order'
<1> USE DEF IInv
<1> DEFINE w == [kind |-> "link", file |-> f]
<1>0. TypeOK
  OBVIOUS
<1>1. f \in File /\ w \in Write /\ w.kind = "link" /\ w.file = f
  BY DEF TypeOK, Write
<1>2. /\ Len(outbox') = Len(outbox) + 1 /\ Len(outbox) \in Nat
      /\ \A k \in 1..Len(outbox) : outbox'[k] = outbox[k]
      /\ outbox'[Len(outbox) + 1] = w
  <2>1. outbox' = Append(outbox, w)
    BY DEF PutDone
  <2>2. Len(outbox) \in Nat
    BY DEF TypeOK
  <2> QED BY <1>0, <1>1, <2>1, <2>2, AppendWrite
<1>3. /\ putting' = putting \ {f} /\ storage' = storage \cup {f}
      /\ UNCHANGED <<gallery, saves, opened, wedding, links, refused, overlapped>>
  BY DEF PutDone, form, histories
<1>4. \A k \in 1..Len(outbox') : k = Len(outbox) + 1 \/ k \in 1..Len(outbox)
  BY <1>2
<1>5. \A k \in 1..Len(outbox) : k \in 1..Len(outbox')
  BY <1>2
<1>6. \A g : Queued(g) => Queued(g)'
  BY <1>2, <1>5 DEF Queued
<1>7. Queued(f)'
  <2>1. Len(outbox) + 1 \in 1..Len(outbox')
    BY <1>2
  <2> QED BY <1>2, <2>1 DEF Queued
<1>8. \A g \in storage : g.slot = f.slot /\ f.slot \notin overlapped => g.save < f.save
  BY DEF Order, PuttingIsNewest
<1>9. \A k \in 1..Len(outbox) : \A s : IsLink(k, s)' <=> IsLink(k, s)
  BY <1>2 DEF IsLink
<1>10. \A k, s : k = Len(outbox) + 1 /\ IsLink(k, s)' => s = f.slot
  BY <1>1, <1>2 DEF IsLink
<1>11. outbox'[Len(outbox) + 1].file = f
  BY <1>1, <1>2
<1>12. \A g \in storage \cup putting : g.save \in Nat
  BY BoundsAreNumbers DEF TypeOK, File
<1> HIDE DEF w
<1>13. FilesAreOfForm' /\ PuttingIsNewest'
  <2>1. FilesAreOfForm'
    BY <1>3 DEF Order, FilesAreOfForm
  <2>2. ASSUME NEW g \in putting', g.slot \notin overlapped'
        PROVE  /\ \A h \in putting' : h.slot = g.slot => h = g
               /\ \A h \in storage' : h.slot = g.slot => h.save < g.save
    BY <1>3, <2>2 DEF Order, PuttingIsNewest
  <2> QED BY <2>1, <2>2 DEF PuttingIsNewest
<1>14. LinksSorted'
  <2> SUFFICES ASSUME NEW j \in 1..Len(outbox'), NEW k \in 1..Len(outbox'),
                      NEW s \in Slots \ overlapped,
                      j < k, IsLink(j, s)', IsLink(k, s)'
               PROVE  outbox'[j].file.save < outbox'[k].file.save
    BY <1>3 DEF LinksSorted
  <2>1. j \in 1..Len(outbox)
    BY <1>2, <1>4
  <2>2. CASE k \in 1..Len(outbox)
    BY <1>2, <1>9, <2>1, <2>2 DEF Order, LinksSorted
  <2>3. CASE k = Len(outbox) + 1
    <3>1. s = f.slot /\ IsLink(j, s)
      BY <1>9, <1>10, <2>1, <2>3
    <3>2. outbox[j].file \in storage /\ outbox[j].file.slot = f.slot
      BY <2>1, <3>1 DEF IsLink, QueuedLinksAreStored
    <3>3. outbox[j].file.save < f.save
      BY <1>8, <3>1, <3>2
    <3> QED BY <1>2, <1>11, <2>1, <2>3, <3>3
  <2> QED BY <1>4, <2>2, <2>3
<1>15. LinksRepeated'
  <2> SUFFICES ASSUME NEW k \in 1..Len(outbox'), NEW s \in Slots \ overlapped,
                      links[s] # None, IsLink(k, s)',
                      outbox'[k].file.save < links[s].save
               PROVE  Queued(links[s])'
    BY <1>3 DEF LinksRepeated, Queued
  <2>1. CASE k \in 1..Len(outbox)
    <3>1. Queued(links[s])
      BY <1>2, <1>9, <2>1 DEF Order, LinksRepeated
    <3> QED BY <1>3, <1>6, <3>1
  <2>2. CASE k = Len(outbox) + 1
    <3>1. links[s] \in storage /\ links[s].slot = s
      BY DEF NoDanglingLink
    <3>2. s = f.slot /\ links[s].save < f.save /\ f.save < links[s].save
      BY <1>8, <1>10, <1>11, <2>2, <3>1
    <3> QED BY <1>12, <3>1, <3>2
  <2> QED BY <1>4, <2>1, <2>2
<1>16. LeftFromHead'
  <2> SUFFICES ASSUME NEW g \in storage', NEW k \in 1..Len(outbox'),
                      g.slot \notin overlapped, g \notin refused, IsLink(k, g.slot)', ~Queued(g)'
               PROVE  g.save < outbox'[k].file.save
    BY <1>3 DEF LeftFromHead
  <2>1. g \in storage /\ ~Queued(g)
    BY <1>3, <1>6, <1>7
  <2>2. CASE k \in 1..Len(outbox)
    BY <1>2, <1>9, <2>1, <2>2 DEF Order, LeftFromHead
  <2>3. CASE k = Len(outbox) + 1
    BY <1>8, <1>10, <1>11, <2>1, <2>3
  <2> QED BY <1>4, <2>2, <2>3
<1>17. PathsAreKept'
  BY <1>3, <1>6, <1>7 DEF Order, PathsAreKept, Queued, Age
<1>18. DocsSorted' /\ DocsRepeated'
  <2>1. \A k \in 1..Len(outbox') : IsDoc(k)' => k \in 1..Len(outbox) /\ IsDoc(k)
    BY <1>1, <1>2, <1>4 DEF IsDoc
  <2>2. \A d : QueuedDoc(d) => QueuedDoc(d)'
    BY <1>2, <1>5 DEF QueuedDoc
  <2>3. DocsSorted'
    BY <1>2, <1>3, <2>1 DEF Order, DocsSorted
  <2>4. DocsRepeated'
    BY <1>2, <1>3, <2>1, <2>2 DEF Order, DocsRepeated
  <2> QED BY <2>3, <2>4
<1> QED BY <1>13, <1>14, <1>15, <1>16, <1>17, <1>18 DEF Order

\* Carrying out or refusing the oldest write takes the oldest of its slot off the queue.
LEMMA TailOrder ==
    ASSUME IInv, Order, Send \/ Refused
    PROVE  Order'
<1>0. TypeOK /\ QueuedLinksAreStored /\ NoDanglingLink
  BY DEF IInv
<1>1. /\ 1 \in 1..Len(outbox) /\ Head(outbox) = outbox[1]
      /\ Len(outbox) \in Nat /\ Len(outbox') = Len(outbox) - 1
      /\ \A k \in 1..Len(outbox') : k + 1 \in 1..Len(outbox) /\ outbox'[k] = outbox[k + 1]
  <2>1. outbox # <<>> /\ outbox' = Tail(outbox)
    BY DEF Send, Refused
  <2>2. Len(outbox) \in Nat
    BY <1>0 DEF TypeOK
  <2> QED BY <1>0, <2>1, <2>2, TailWrite
<1>2. /\ UNCHANGED <<gallery, saves, opened, putting, storage, overlapped>>
      /\ refused \subseteq refused'
  BY DEF Send, Refused, form, remote, histories
<1>3. \A k \in 1..Len(outbox') : \A s : IsLink(k, s)' <=> IsLink(k + 1, s)
  BY <1>1 DEF IsLink
<1>4. \A k \in 1..Len(outbox') : IsDoc(k)' <=> IsDoc(k + 1)
  BY <1>1 DEF IsDoc
<1>5. \A k \in 1..Len(outbox) : k = 1 \/ (k - 1 \in 1..Len(outbox') /\ outbox'[k - 1] = outbox[k])
  BY <1>1
<1>6. \A g : Queued(g) => Queued(g)' \/ outbox[1] = [kind |-> "link", file |-> g]
  BY <1>5 DEF Queued
<1>7. \A d : QueuedDoc(d) => QueuedDoc(d)' \/ outbox[1] = [kind |-> "wedding", doc |-> d]
  BY <1>5 DEF QueuedDoc
<1>8. \A s \in Slots : \/ links'[s] = links[s] /\ (IsLink(1, s) => Refused)
                       \/ IsLink(1, s) /\ links'[s] = outbox[1].file
  <2>1. CASE Refused
    BY <2>1 DEF Refused, remote
  <2>2. CASE Send
    <3>1. CarryOut(1)
      BY <2>2 DEF Send
    <3>2. \A s \in Slots :
             \/ /\ links'[s] = links[s]
                /\ \A k \in 1..1 : ~(outbox[k].kind = "link" /\ outbox[k].file.slot = s)
             \/ \E k \in 1..1 : /\ outbox[k].kind = "link" /\ outbox[k].file.slot = s
                                 /\ links'[s] = outbox[k].file
      BY <1>0, <1>1, <3>1, CarryOutKeeps
    <3> QED BY <3>2 DEF IsLink
  <2> QED BY <2>1, <2>2
<1>9. wedding' = wedding \/ (IsDoc(1) /\ wedding' = outbox[1].doc)
  <2>1. CASE Refused
    BY <2>1 DEF Refused, remote
  <2>2. CASE Send
    <3>1. CarryOut(1)
      BY <2>2 DEF Send
    <3>2. \/ wedding' = wedding
          \/ \E k \in 1..1 : outbox[k].kind = "wedding" /\ wedding' = outbox[k].doc
      BY <1>0, <1>1, <3>1, CarryOutKeeps
    <3> QED BY <3>2 DEF IsDoc
  <2> QED BY <2>1, <2>2
<1>10. \A k \in 1..Len(outbox) : \A s : IsLink(k, s) => outbox[k].file.save \in Nat
  <2>1. \A k \in 1..Len(outbox) : \A s : IsLink(k, s) => outbox[k].file \in File
    BY <1>0, WriteIs DEF IsLink
  <2>2. \A f \in File : f.save \in Nat
    BY BoundsAreNumbers DEF File
  <2> QED BY <2>1, <2>2
<1>11. \A k \in 1..Len(outbox) : IsDoc(k) => outbox[k].doc.save \in Nat
  <2>1. \A k \in 1..Len(outbox) : IsDoc(k) => outbox[k].doc \in Document
    BY <1>0, WriteIs DEF IsDoc
  <2>2. \A d \in Document : d.save \in Nat
    BY BoundsAreNumbers DEF Document
  <2> QED BY <2>1, <2>2
<1>12. ASSUME NEW k \in 1..Len(outbox'), NEW s \in Slots \ overlapped, IsLink(1, s), IsLink(k, s)'
       PROVE  outbox[1].file.save < outbox'[k].file.save
  <2>1. LinksSorted /\ k + 1 \in 1..Len(outbox) /\ 1 < k + 1 /\ IsLink(k + 1, s)
    BY <1>1, <1>3, <1>12 DEF Order
  <2>2. outbox[1].file.save < outbox[k + 1].file.save
    BY <1>1, <1>12, <2>1 DEF LinksSorted
  <2> QED BY <1>1, <2>2
<1>13. FilesAreOfForm' /\ PuttingIsNewest'
  BY <1>2 DEF Order, FilesAreOfForm, PuttingIsNewest
<1>14. LinksSorted'
  <2> SUFFICES ASSUME NEW j \in 1..Len(outbox'), NEW k \in 1..Len(outbox'),
                      NEW s \in Slots \ overlapped,
                      j < k, IsLink(j, s)', IsLink(k, s)'
               PROVE  outbox'[j].file.save < outbox'[k].file.save
    BY <1>2 DEF LinksSorted
  <2>1. j + 1 < k + 1 /\ IsLink(j + 1, s) /\ IsLink(k + 1, s)
    BY <1>3
  <2>2. outbox[j + 1].file.save < outbox[k + 1].file.save
    BY <1>1, <2>1 DEF Order, LinksSorted
  <2> QED BY <1>1, <2>2
<1>15. LinksRepeated'
  <2> SUFFICES ASSUME NEW k \in 1..Len(outbox'), NEW s \in Slots \ overlapped,
                      links'[s] # None, IsLink(k, s)',
                      outbox'[k].file.save < links'[s].save
               PROVE  Queued(links[s])'
    BY <1>2 DEF LinksRepeated
  <2>0. k + 1 \in 1..Len(outbox) /\ IsLink(k + 1, s) /\ outbox'[k] = outbox[k + 1]
    BY <1>1, <1>3
  <2>1. CASE IsLink(1, s) /\ links'[s] = outbox[1].file
    <3>1. outbox[1].file.save < outbox'[k].file.save
      BY <1>12, <2>1
    <3> QED BY <1>1, <1>10, <2>0, <2>1, <3>1
  <2>2. CASE links'[s] = links[s]
    <3>1. LinksRepeated
      BY DEF Order
    <3>2. Queued(links[s])
      BY <2>0, <2>2, <3>1 DEF LinksRepeated
    <3>3. outbox[1] # [kind |-> "link", file |-> links[s]]
      <4> SUFFICES ASSUME outbox[1] = [kind |-> "link", file |-> links[s]] PROVE FALSE
        OBVIOUS
      <4>1. links[s].slot = s
        BY <1>0, <2>2 DEF NoDanglingLink
      <4>2. IsLink(1, s) /\ outbox[1].file = links[s]
        BY <4>1 DEF IsLink
      <4>3. outbox[1].file.save < outbox'[k].file.save
        BY <1>12, <4>2
      <4> QED BY <1>1, <1>10, <2>0, <2>2, <4>2, <4>3
    <3> QED BY <1>6, <2>2, <3>2, <3>3
  <2> QED BY <1>8, <2>1, <2>2
<1>16. LeftFromHead'
  <2> SUFFICES ASSUME NEW g \in storage, NEW k \in 1..Len(outbox'),
                      g.slot \notin overlapped, g \notin refused', IsLink(k, g.slot)', ~Queued(g)'
               PROVE  g.save < outbox'[k].file.save
    BY <1>2 DEF LeftFromHead
  <2>0. k + 1 \in 1..Len(outbox) /\ IsLink(k + 1, g.slot) /\ outbox'[k] = outbox[k + 1]
    BY <1>1, <1>3
  <2>1. CASE ~Queued(g)
    <3>1. LeftFromHead
      BY DEF Order
    <3>2. g \notin refused
      BY <1>2
    <3> QED BY <2>0, <2>1, <3>1, <3>2 DEF LeftFromHead
  <2>2. CASE outbox[1] = [kind |-> "link", file |-> g]
    <3>1. g.slot \in Slots \ overlapped
      BY <1>0 DEF TypeOK, File
    <3>2. IsLink(1, g.slot) /\ outbox[1].file = g
      BY <2>2 DEF IsLink
    <3> QED BY <1>12, <3>1, <3>2
  <2> QED BY <1>6, <2>1, <2>2
<1>17. PathsAreKept'
  <2> SUFFICES ASSUME NEW g \in storage, g.slot \notin overlapped, g \notin refused', ~Queued(g)'
               PROVE  Age(links[g.slot])' >= g.save
    BY <1>2 DEF PathsAreKept, Queued
  <2>0. g \in File /\ g.slot \in Slots /\ g.save \in Nat /\ g # None
    BY <1>0, NoneIsNoValue, BoundsAreNumbers DEF TypeOK, File
  <2>1. CASE outbox[1] = [kind |-> "link", file |-> g]
    <3>1. IsLink(1, g.slot) /\ outbox[1].file = g
      BY <2>1 DEF IsLink
    <3>2. ~Refused
      BY <1>1, <2>1 DEF Refused
    <3>3. links'[g.slot] = g
      BY <1>8, <2>0, <3>1, <3>2
    <3> QED BY <2>0, <3>3 DEF Age
  <2>2. CASE ~Queued(g)
    <3>1. LeftFromHead /\ PathsAreKept /\ g \notin refused
      BY <1>2 DEF Order
    <3>2. Age(links[g.slot]) >= g.save
      BY <2>2, <3>1 DEF PathsAreKept, Queued
    <3>3. CASE links'[g.slot] = links[g.slot]
      BY <3>2, <3>3 DEF Age
    <3>4. CASE IsLink(1, g.slot) /\ links'[g.slot] = outbox[1].file
      <4>1. g.save < outbox[1].file.save
        BY <1>1, <2>2, <3>1, <3>4 DEF LeftFromHead
      <4>2. outbox[1].file \in File
        BY <1>0, <1>1, <3>4, WriteIs DEF IsLink
      <4>3. outbox[1].file # None /\ outbox[1].file.save \in Nat
        BY <1>1, <1>10, <3>4, <4>2, NoneIsNoValue
      <4> QED BY <2>0, <3>4, <4>1, <4>3 DEF Age
    <3> QED BY <1>8, <2>0, <3>3, <3>4
  <2> QED BY <1>6, <2>1, <2>2
<1>18. DocsSorted' /\ DocsRepeated'
  <2>0. DocsSorted /\ DocsRepeated
    BY DEF Order
  <2>1. ASSUME NEW j \in 1..Len(outbox'), NEW k \in 1..Len(outbox'), j < k, IsDoc(j)', IsDoc(k)'
        PROVE  outbox'[j].doc.save < outbox'[k].doc.save
    <3>1. j + 1 < k + 1 /\ IsDoc(j + 1) /\ IsDoc(k + 1)
      BY <1>4, <2>1
    <3>2. outbox[j + 1].doc.save < outbox[k + 1].doc.save
      BY <1>1, <2>0, <3>1 DEF DocsSorted
    <3> QED BY <1>1, <3>2
  <2>2. \A k \in 1..Len(outbox') : IsDoc(k)' => outbox'[k].doc.save <= saves'
    BY <1>1, <1>2, <1>4, <2>0 DEF DocsSorted
  <2>3. wedding' # None => wedding'.save <= saves'
    BY <1>1, <1>2, <1>9, <2>0 DEF DocsSorted
  <2>4. DocsSorted'
    BY <2>1, <2>2, <2>3 DEF DocsSorted
  <2>5. ASSUME NEW k \in 1..Len(outbox'), IsDoc(1), IsDoc(k)'
        PROVE  outbox[1].doc.save < outbox'[k].doc.save
    <3>1. k + 1 \in 1..Len(outbox) /\ 1 < k + 1 /\ IsDoc(k + 1)
      BY <1>1, <1>4, <2>5
    <3>2. outbox[1].doc.save < outbox[k + 1].doc.save
      BY <1>1, <2>0, <2>5, <3>1 DEF DocsSorted
    <3> QED BY <1>1, <3>2
  <2>6. ASSUME NEW k \in 1..Len(outbox'), wedding' # None, IsDoc(k)',
               outbox'[k].doc.save < wedding'.save
        PROVE  QueuedDoc(wedding)'
    <3>0. k + 1 \in 1..Len(outbox) /\ IsDoc(k + 1) /\ outbox'[k] = outbox[k + 1]
      BY <1>1, <1>4, <2>6
    <3>1. CASE IsDoc(1) /\ wedding' = outbox[1].doc
      <4>1. outbox[1].doc.save < outbox'[k].doc.save
        BY <2>5, <2>6, <3>1
      <4> QED BY <1>1, <1>11, <2>6, <3>0, <3>1, <4>1
    <3>2. CASE wedding' = wedding
      <4>1. QueuedDoc(wedding)
        BY <2>0, <2>6, <3>0, <3>2 DEF DocsRepeated
      <4>2. outbox[1] # [kind |-> "wedding", doc |-> wedding]
        <5> SUFFICES ASSUME outbox[1] = [kind |-> "wedding", doc |-> wedding] PROVE FALSE
          OBVIOUS
        <5>1. IsDoc(1) /\ outbox[1].doc = wedding
          BY DEF IsDoc
        <5>2. outbox[1].doc.save < outbox'[k].doc.save
          BY <2>5, <2>6, <5>1
        <5> QED BY <1>1, <1>11, <2>6, <3>0, <3>2, <5>1, <5>2
      <4> QED BY <1>7, <3>2, <4>1, <4>2
    <3> QED BY <1>9, <3>1, <3>2
  <2>7. DocsRepeated'
    BY <2>6 DEF DocsRepeated
  <2> QED BY <2>4, <2>7
<1> QED BY <1>13, <1>14, <1>15, <1>16, <1>17, <1>18 DEF Order

\* Writes carried out without a confirmation stay queued, and so do the paths they set.
LEMMA SendUnconfirmedOrder ==
    ASSUME IInv, Order, NEW n \in 1..Len(outbox), SendUnconfirmed(n)
    PROVE  Order'
<1>0. TypeOK /\ NoDanglingLink
  BY DEF IInv
<1>1. /\ UNCHANGED <<gallery, saves, opened, putting, storage, outbox, refused, overlapped>>
      /\ CarryOut(n)
  BY DEF SendUnconfirmed, form, histories
<1>2. \A k \in 1..n : k \in 1..Len(outbox)
  BY <1>0 DEF TypeOK
<1>3. \A s \in Slots : \/ links'[s] = links[s]
                       \/ \E k \in 1..Len(outbox) : IsLink(k, s) /\ links'[s] = outbox[k].file
  <2>1. \A s \in Slots :
           \/ links'[s] = links[s]
           \/ \E k \in 1..n : /\ outbox[k].kind = "link" /\ outbox[k].file.slot = s
                               /\ links'[s] = outbox[k].file
    BY <1>0, <1>1, CarryOutKeeps
  <2> QED BY <1>2, <2>1 DEF IsLink
<1>4. \/ wedding' = wedding
      \/ \E k \in 1..Len(outbox) : IsDoc(k) /\ wedding' = outbox[k].doc
  <2>1. \/ wedding' = wedding
        \/ \E k \in 1..n : outbox[k].kind = "wedding" /\ wedding' = outbox[k].doc
    BY <1>0, <1>1, CarryOutKeeps
  <2> QED BY <1>2, <2>1 DEF IsDoc
<1>5. (FilesAreOfForm /\ PuttingIsNewest /\ LinksSorted /\ LeftFromHead)'
  BY <1>1 DEF Order, FilesAreOfForm, PuttingIsNewest, LinksSorted, LeftFromHead, IsLink, Queued
<1>6. LinksRepeated'
  <2> SUFFICES ASSUME NEW k \in 1..Len(outbox), NEW s \in Slots \ overlapped,
                      links'[s] # None, IsLink(k, s),
                      outbox[k].file.save < links'[s].save
               PROVE  Queued(links'[s])
    BY <1>1 DEF LinksRepeated, Queued, IsLink
  <2>1. CASE links'[s] = links[s]
    BY <2>1 DEF Order, LinksRepeated
  <2>2. ASSUME NEW j \in 1..Len(outbox), IsLink(j, s), links'[s] = outbox[j].file
        PROVE  Queued(links'[s])
    <3>1. outbox[j] = [kind |-> "link", file |-> outbox[j].file]
      BY <1>0, <2>2, WriteIs DEF IsLink
    <3> QED BY <2>2, <3>1 DEF Queued
  <2> QED BY <1>3, <2>1, <2>2
<1>7. PathsAreKept'
  <2> SUFFICES ASSUME NEW g \in storage, g.slot \notin overlapped, g \notin refused, ~Queued(g)
               PROVE  Age(links'[g.slot]) >= g.save
    BY <1>1 DEF PathsAreKept, Queued, Age
  <2>0. g.slot \in Slots /\ g.save \in Nat
    BY <1>0, BoundsAreNumbers DEF TypeOK, File
  <2>1. LeftFromHead /\ PathsAreKept
    BY DEF Order
  <2>2. CASE links'[g.slot] = links[g.slot]
    BY <2>1, <2>2 DEF PathsAreKept, Queued
  <2>3. ASSUME NEW k \in 1..Len(outbox), IsLink(k, g.slot), links'[g.slot] = outbox[k].file
        PROVE  Age(links'[g.slot]) >= g.save
    <3>1. g.save < outbox[k].file.save
      BY <2>1, <2>3 DEF LeftFromHead
    <3>2. outbox[k].file \in File
      BY <1>0, <2>3, WriteIs DEF IsLink
    <3>3. outbox[k].file # None /\ outbox[k].file.save \in Nat
      BY <3>2, NoneIsNoValue, BoundsAreNumbers DEF File
    <3> QED BY <2>0, <2>3, <3>1, <3>3 DEF Age
  <2> QED BY <1>3, <2>0, <2>2, <2>3
<1>8. DocsSorted' /\ DocsRepeated'
  <2>0. DocsSorted /\ DocsRepeated
    BY DEF Order
  <2>1. wedding' # None => wedding'.save <= saves
    BY <1>4, <2>0 DEF DocsSorted
  <2>2. DocsSorted'
    BY <1>1, <2>0, <2>1 DEF DocsSorted, IsDoc
  <2>3. ASSUME NEW k \in 1..Len(outbox), wedding' # None, IsDoc(k),
               outbox[k].doc.save < wedding'.save
        PROVE  QueuedDoc(wedding')
    <3>1. CASE wedding' = wedding
      BY <2>0, <2>3, <3>1 DEF DocsRepeated
    <3>2. ASSUME NEW j \in 1..Len(outbox), IsDoc(j), wedding' = outbox[j].doc
          PROVE  QueuedDoc(wedding')
      <4>1. outbox[j] = [kind |-> "wedding", doc |-> outbox[j].doc]
        BY <1>0, <3>2, WriteIs DEF IsDoc
      <4> QED BY <3>2, <4>1 DEF QueuedDoc
    <3> QED BY <1>4, <3>1, <3>2
  <2>4. DocsRepeated'
    BY <1>1, <2>3 DEF DocsRepeated, QueuedDoc, IsDoc
  <2> QED BY <2>2, <2>4
<1> QED BY <1>5, <1>6, <1>7, <1>8 DEF Order

\* Every step keeps the order.
LEMMA NextOrder == IInv /\ Order /\ [Next]_vars => Order'
  BY QuietStepOrder, GotWeddingIDOrder, PutDoneOrder, TailOrder, SendUnconfirmedOrder DEF Next

\* The order holds throughout.
LEMMA AlwaysOrder == Spec => [](IInv /\ Order)
  BY InitIInv, NextIInv, InitOrder, NextOrder, PTL DEF Spec

\* While the form is open, field photo<i> of the gallery holds the i-th photo picked,
\* for any number of saves, photos and repeated writes.
THEOREM GalleryOrdered == Spec => []GalleryInPickOrder
<1>1. IInv /\ Order => GalleryInPickOrder
  <2> SUFFICES ASSUME IInv, Order, NEW i \in 1..MaxGallery, Age(links[InGallery(i)]) > opened
               PROVE  i <= Len(gallery) /\ links[InGallery(i)].image = gallery[i]
    BY DEF GalleryInPickOrder
  <2>1. InGallery(i) \in Slots /\ opened \in Nat
    BY DEF Slots, IInv, TypeOK
  <2>2. links[InGallery(i)] # None /\ links[InGallery(i)].save > opened
    BY <2>1 DEF Age
  <2>3. links[InGallery(i)] \in storage /\ links[InGallery(i)].slot = InGallery(i)
    BY <2>1, <2>2 DEF IInv, NoDanglingLink
  <2> QED BY <2>2, <2>3 DEF Order, FilesAreOfForm
<1> QED BY <1>1, AlwaysOrder, PTL

\* A photo that has reached Storage is not forgotten, whenever the app dies and however
\* often the queue is repeated: its path is queued or published, or a later one is,
\* unless the server refused it or two uploads for its slot overlapped.
THEOREM PathsKept == Spec => []PathsAreKept
<1>1. IInv /\ Order => PathsAreKept
  BY DEF Order
<1> QED BY <1>1, AlwaysOrder, PTL

\* A later save is undone by an earlier one only while the later write is queued to be
\* carried out again, or where uploads overlapped.
THEOREM NothingBack == Spec => NothingGoesBack
<1>1. IInv /\ Order /\ [Next]_vars =>
        [/\ Age(wedding') < Age(wedding) =>
                \E k \in 1..Len(outbox') : outbox'[k] = [kind |-> "wedding", doc |-> wedding]
         /\ \A s \in Slots \ overlapped : Age(links'[s]) < Age(links[s]) =>
                \E k \in 1..Len(outbox') : outbox'[k] = [kind |-> "link", file |-> links[s]]]_vars
  <2> SUFFICES ASSUME IInv, Order, Next
               PROVE  /\ Age(wedding') < Age(wedding) =>
                             \E k \in 1..Len(outbox') : outbox'[k] = [kind |-> "wedding", doc |-> wedding]
                      /\ \A s \in Slots \ overlapped : Age(links'[s]) < Age(links[s]) =>
                             \E k \in 1..Len(outbox') : outbox'[k] = [kind |-> "link", file |-> links[s]]
    OBVIOUS
  <2>0. TypeOK /\ NoDanglingLink /\ LinksSorted /\ LinksRepeated /\ DocsSorted /\ DocsRepeated
    BY DEF IInv, Order
  <2>1. \A l \in {None} \cup File \cup Document : Age(l) \in Nat
    BY BoundsAreNumbers DEF Age, File, Document
  <2>2. wedding \in {None} \cup Document /\ \A s \in Slots : links[s] \in {None} \cup File
    BY <2>0 DEF TypeOK
  <2>3. CASE wedding' = wedding /\ links' = links
    BY <2>1, <2>2, <2>3
  <2>4. ASSUME NEW n \in 1..Len(outbox), CarryOut(n), Age(wedding') < Age(wedding)
        PROVE  QueuedDoc(wedding) /\ (n = 1 => outbox[1] # [kind |-> "wedding", doc |-> wedding])
    <3>1. wedding' # wedding /\ wedding' \in {None} \cup Document
      BY <2>0, <2>1, <2>2, <2>4, CarryOutKeeps
    <3>2. PICK k \in 1..n : IsDoc(k) /\ wedding' = outbox[k].doc
      BY <2>0, <2>4, <3>1, CarryOutKeeps DEF IsDoc
    <3>3. k \in 1..Len(outbox) /\ outbox[k].doc \in Document
      <4>1. k \in 1..Len(outbox)
        BY <2>0 DEF TypeOK
      <4> QED BY <2>0, <3>2, <4>1, WriteIs DEF IsDoc
    <3>4. wedding # None /\ outbox[k].doc # None
      BY <2>1, <2>4, <3>1, <3>3, NoneIsNoValue DEF Age
    <3>5. outbox[k].doc.save < wedding.save
      BY <2>4, <3>2, <3>4 DEF Age
    <3>6. QueuedDoc(wedding)
      BY <2>0, <3>2, <3>3, <3>4, <3>5 DEF DocsRepeated
    <3>7. ASSUME n = 1, outbox[1] = [kind |-> "wedding", doc |-> wedding] PROVE FALSE
      BY <3>1, <3>2, <3>7
    <3> QED BY <3>6, <3>7
  <2>5. ASSUME NEW n \in 1..Len(outbox), CarryOut(n), NEW s \in Slots \ overlapped,
               Age(links'[s]) < Age(links[s])
        PROVE  Queued(links[s]) /\ (n = 1 => outbox[1] # [kind |-> "link", file |-> links[s]])
    <3>1. links'[s] # links[s] /\ links'[s] \in {None} \cup File
      BY <2>0, <2>1, <2>2, <2>5, CarryOutKeeps
    <3>2. PICK k \in 1..n : IsLink(k, s) /\ links'[s] = outbox[k].file
      BY <2>0, <2>5, <3>1, CarryOutKeeps DEF IsLink
    <3>3. k \in 1..Len(outbox) /\ outbox[k].file \in File
      <4>1. k \in 1..Len(outbox)
        BY <2>0 DEF TypeOK
      <4> QED BY <2>0, <3>2, <4>1, WriteIs DEF IsLink
    <3>4. links[s] # None /\ outbox[k].file # None
      BY <2>1, <2>5, <3>1, <3>3, NoneIsNoValue DEF Age
    <3>5. outbox[k].file.save < links[s].save
      BY <2>5, <3>2, <3>4 DEF Age
    <3>6. Queued(links[s])
      BY <2>0, <3>2, <3>3, <3>4, <3>5 DEF LinksRepeated
    <3>7. ASSUME n = 1, outbox[1] = [kind |-> "link", file |-> links[s]] PROVE FALSE
      BY <3>1, <3>2, <3>7
    <3> QED BY <3>6, <3>7
  <2>6. ASSUME NEW n \in 1..Len(outbox), SendUnconfirmed(n)
        PROVE  /\ Age(wedding') < Age(wedding) =>
                      \E k \in 1..Len(outbox') : outbox'[k] = [kind |-> "wedding", doc |-> wedding]
               /\ \A s \in Slots \ overlapped : Age(links'[s]) < Age(links[s]) =>
                      \E k \in 1..Len(outbox') : outbox'[k] = [kind |-> "link", file |-> links[s]]
    <3>1. CarryOut(n) /\ outbox' = outbox
      BY <2>6 DEF SendUnconfirmed
    <3> QED BY <2>4, <2>5, <3>1 DEF Queued, QueuedDoc
  <2>7. ASSUME Send
        PROVE  /\ Age(wedding') < Age(wedding) =>
                      \E k \in 1..Len(outbox') : outbox'[k] = [kind |-> "wedding", doc |-> wedding]
               /\ \A s \in Slots \ overlapped : Age(links'[s]) < Age(links[s]) =>
                      \E k \in 1..Len(outbox') : outbox'[k] = [kind |-> "link", file |-> links[s]]
    <3>1. CarryOut(1) /\ outbox # <<>> /\ outbox' = Tail(outbox)
      BY <2>7 DEF Send
    <3>2. 1 \in 1..Len(outbox)
      BY <2>0, <3>1, TailWrite
    <3>3. \A k \in 1..Len(outbox) :
             k = 1 \/ (k - 1 \in 1..Len(outbox') /\ outbox'[k - 1] = outbox[k])
      <4>1. Len(outbox) \in Nat
        BY <2>0 DEF TypeOK
      <4> QED BY <2>0, <3>1, <4>1, TailWrite
    <3>4. ASSUME Age(wedding') < Age(wedding)
          PROVE  \E k \in 1..Len(outbox') : outbox'[k] = [kind |-> "wedding", doc |-> wedding]
      <4>1. QueuedDoc(wedding) /\ outbox[1] # [kind |-> "wedding", doc |-> wedding]
        BY <2>4, <3>1, <3>2, <3>4
      <4> QED BY <3>3, <4>1 DEF QueuedDoc
    <3>5. ASSUME NEW s \in Slots \ overlapped, Age(links'[s]) < Age(links[s])
          PROVE  \E k \in 1..Len(outbox') : outbox'[k] = [kind |-> "link", file |-> links[s]]
      <4>1. Queued(links[s]) /\ outbox[1] # [kind |-> "link", file |-> links[s]]
        BY <2>5, <3>1, <3>2, <3>5
      <4> QED BY <3>3, <4>1 DEF Queued
    <3> QED BY <3>4, <3>5
  <2>8. (wedding' = wedding /\ links' = links) \/ Send \/ \E n \in 1..Len(outbox) : SendUnconfirmed(n)
    BY DEF Next, EditText, PickGallery, PickPhoto, TapOnSave, GotWeddingID, NoWeddingID, PutDone,
       PutFailed, Refused, Kill, remote
  <2> QED BY <2>3, <2>6, <2>7, <2>8
<1> QED BY <1>1, AlwaysOrder, PTL DEF Spec, NothingGoesBack
=============================================================================
