---------------------------- MODULE WeddingUpload ----------------------------
(***************************************************************************)
(* FormScreen: a couple fills in the form about its wedding and saves it,  *)
(* as often as it likes.                                                   *)
(*                                                                         *)
(* Save asks for the wedding's ID and, when it arrives, takes the form as  *)
(* it is then: it writes the document in "Weddings" and uploads every      *)
(* photo to Storage.  The uploads run in parallel and end in any order;    *)
(* the handler of each writes the file's path into "Images" (one field per *)
(* person) or "Gallery" (one field per photo).  The form and the running   *)
(* uploads die with the app.                                               *)
(*                                                                         *)
(* The writes of a phone keep the promise of WriteQueue: they are carried  *)
(* out in order from a queue on disk, and those that are not confirmed may *)
(* be carried out again from the head of the queue.  (Confirmations that   *)
(* arrive later than the next write is carried out change nothing here.)   *)
(*                                                                         *)
(* One account and one phone: only they write the documents of their ID    *)
(* (see WeddingIDs for when two accounts have the same one).               *)
(***************************************************************************)
EXTENDS Integers, Sequences, FiniteSets

CONSTANTS
    Roles,       \* persons with a photo: groom and bride
    Photos,      \* pictures on the phone
    Texts,       \* contents of the form's text fields and dates
    Blank,       \* the contents of a form nobody has filled in
    MaxGallery,  \* bound: photos in the gallery
    MaxPhotos,   \* bound: photos in the form
    MaxSaves,    \* bound: saves that are carried out
    MaxWaiting,  \* bound: saves waiting for the wedding's ID
    None         \* no photo, no path, no document

ASSUME BlankIsText == Blank \in Texts
ASSUME BoundsAreNumbers == {MaxGallery, MaxPhotos, MaxSaves, MaxWaiting} \subseteq Nat
ASSUME GalleryIsNoRole == "gallery" \notin Roles

\* A field that holds a path: the person's photo, or photo i of the gallery.
Person(r) == <<r, 0>>
InGallery(i) == <<"gallery", i>>
Slots == {Person(r) : r \in Roles} \cup {InGallery(i) : i \in 1..MaxGallery}

\* The file an upload creates.  Its UUID makes every call of uploadPhoto a file
\* of its own, and the calls differ in the save they belong to or in the slot.
File == [slot : Slots, save : 1..MaxSaves, image : Photos]

Document == [text : Texts, save : 1..MaxSaves]

ASSUME NoneIsNoValue == None \notin Photos \cup File \cup Document

VARIABLES
    text,        \* form: the text fields
    image,       \* form: groomImage and brideImage
    gallery,     \* form: galleryImages
    waiting,     \* getWeddingIDFromUser calls without an answer
    saves,       \* history: saves carried out so far
    opened,      \* history: value of saves when the form was opened
    putting,     \* files whose putData has not ended
    storage,     \* Storage: files with a path that the app has got
    outbox,      \* WriteQueue: writes that are not settled
    wedding,     \* server: document in "Weddings"
    links,       \* server: fields of the documents in "Images" and "Gallery"
    refused,     \* history: files whose path the server refused
    overlapped   \* history: slots for which two uploads ran at the same time

form == <<text, image, gallery>>
remote == <<storage, wedding, links>>
histories == <<refused, overlapped>>
vars == <<form, waiting, saves, opened, putting, outbox, remote, histories>>

Write == [kind : {"wedding"}, doc : Document] \cup [kind : {"link"}, file : File]

TypeOK ==
    /\ text \in Texts
    /\ image \in [Roles -> Photos \cup {None}]
    /\ gallery \in Seq(Photos) /\ Len(gallery) <= MaxGallery
    /\ waiting \in 0..MaxWaiting
    /\ saves \in 0..MaxSaves
    /\ opened \in 0..saves
    /\ putting \subseteq File
    /\ storage \subseteq File
    /\ outbox \in Seq(Write)
    /\ wedding \in {None} \cup Document
    /\ links \in [Slots -> {None} \cup File]
    /\ refused \subseteq File
    /\ overlapped \subseteq Slots

Init ==
    /\ text = Blank /\ image = [r \in Roles |-> None] /\ gallery = <<>>
    /\ waiting = 0 /\ saves = 0 /\ opened = 0
    /\ putting = {} /\ storage = {} /\ outbox = <<>>
    /\ wedding = None /\ links = [s \in Slots |-> None]
    /\ refused = {} /\ overlapped = {}
-----------------------------------------------------------------------------
\* The bound on saves: the form is used as long as another one may follow.
MoreSaves == saves + waiting < MaxSaves

\* The bound on photos: another one fits into the form.
MorePhotos == Cardinality({r \in Roles : image[r] # None}) + Len(gallery) < MaxPhotos

\* The couple types, or changes a date.
EditText(t) ==
    /\ MoreSaves
    /\ text' = t
    /\ UNCHANGED <<image, gallery, waiting, saves, opened, putting, outbox, remote, histories>>

\* ImagePicker for one photo: it replaces the person's.
PickPhoto(r, p) ==
    /\ MoreSaves /\ (image[r] # None \/ MorePhotos)
    /\ image' = [image EXCEPT ![r] = p]
    /\ UNCHANGED <<text, gallery, waiting, saves, opened, putting, outbox, remote, histories>>

\* Fault: the photo picked last becomes the first one.
PickGalleryFirst(p) ==
    /\ MoreSaves /\ Len(gallery) < MaxGallery /\ MorePhotos
    /\ gallery' = <<p>> \o gallery
    /\ UNCHANGED <<text, image, waiting, saves, opened, putting, outbox, remote, histories>>

\* ImagePicker for the gallery: the photo is appended; nothing takes one away.
PickGallery(p) ==
    /\ MoreSaves /\ Len(gallery) < MaxGallery /\ MorePhotos
    /\ gallery' = Append(gallery, p)
    /\ UNCHANGED <<text, image, waiting, saves, opened, putting, outbox, remote, histories>>

\* tapOnSave: the wedding's ID is asked for.
TapOnSave ==
    /\ waiting < MaxWaiting /\ MoreSaves
    /\ waiting' = waiting + 1
    /\ UNCHANGED <<form, saves, opened, putting, outbox, remote, histories>>

\* Fault: a person without a photo is not left out.
FormFilesWithNil(n) ==
    {[slot |-> Person(r), save |-> n, image |-> image[r]] : r \in Roles}
    \cup {[slot |-> InGallery(i), save |-> n, image |-> gallery[i]] : i \in 1..Len(gallery)}

\* The photos of the form: uploadPhoto ignores a nil image, uploadGallery
\* numbers the photos from one.
FormFiles(n) ==
    {[slot |-> Person(r), save |-> n, image |-> image[r]] :
        r \in {x \in Roles : image[x] # None}}
    \cup {[slot |-> InGallery(i), save |-> n, image |-> gallery[i]] : i \in 1..Len(gallery)}

SlotsOf(fs) == {f.slot : f \in fs}

\* uploadWedding: save n of the form's text is queued.
UploadWedding(n) ==
    outbox' = Append(outbox, [kind |-> "wedding", doc |-> [text |-> text, save |-> n]])

\* The ID arrives: the document is written and all uploads are started.
GotWeddingID ==
    /\ waiting > 0
    /\ saves < MaxSaves
    /\ waiting' = waiting - 1
    /\ saves' = saves + 1
    /\ UploadWedding(saves + 1)
    /\ putting' = putting \cup FormFiles(saves + 1)
    /\ overlapped' = overlapped \cup (SlotsOf(putting) \cap SlotsOf(FormFiles(saves + 1)))
    /\ UNCHANGED <<form, opened, remote, refused>>

\* There is no ID, or the read failed: the error is reported, nothing is saved.
NoWeddingID ==
    /\ waiting > 0
    /\ waiting' = waiting - 1
    /\ UNCHANGED <<form, saves, opened, putting, outbox, remote, histories>>

\* putData succeeded: the path is written into its field.
PutDone(f) ==
    /\ putting' = putting \ {f}
    /\ storage' = storage \cup {f}
    /\ outbox' = Append(outbox, [kind |-> "link", file |-> f])
    /\ UNCHANGED <<form, waiting, saves, opened, wedding, links, histories>>

\* Fault: the path is written without looking at the error.
PutFailedIgnored(f) ==
    /\ putting' = putting \ {f}
    /\ outbox' = Append(outbox, [kind |-> "link", file |-> f])
    /\ UNCHANGED <<form, waiting, saves, opened, remote, histories>>

\* putData failed: nothing happens, the field keeps its old path.
PutFailed(f) ==
    /\ putting' = putting \ {f}
    /\ UNCHANGED <<form, waiting, saves, opened, outbox, remote, histories>>

\* The last of the first n writes that is about slot s, 0 if none is.
LastAbout(s, n) ==
    LET ks == {k \in 1..n : outbox[k].kind = "link" /\ outbox[k].file.slot = s}
    IN  IF ks = {} THEN 0 ELSE CHOOSE k \in ks : \A j \in ks : j <= k

LastAboutWedding(n) ==
    LET ks == {k \in 1..n : outbox[k].kind = "wedding"}
    IN  IF ks = {} THEN 0 ELSE CHOOSE k \in ks : \A j \in ks : j <= k

\* Fault: setData without merge replaces the whole document.
CarryOutWhole(n) ==
    /\ LET k == LastAboutWedding(n) IN wedding' = IF k = 0 THEN wedding ELSE outbox[k].doc
    /\ links' = [s \in Slots |->
                    LET k == LastAbout(s, n) IN
                    IF k # 0 THEN outbox[k].file
                    ELSE IF \E x \in Slots : LastAbout(x, n) # 0 /\ (x[2] = 0) = (s[2] = 0)
                         THEN None ELSE links[s]]

\* The server carries out the first n writes in order.  A document is set as a whole,
\* a path with merge: only the slot's own field changes.
CarryOut(n) ==
    /\ LET k == LastAboutWedding(n) IN wedding' = IF k = 0 THEN wedding ELSE outbox[k].doc
    /\ links' = [s \in Slots |->
                    LET k == LastAbout(s, n) IN IF k = 0 THEN links[s] ELSE outbox[k].file]

\* The oldest write is carried out and confirmed.
Send ==
    /\ outbox # <<>>
    /\ CarryOut(1)
    /\ outbox' = Tail(outbox)
    /\ UNCHANGED <<form, waiting, saves, opened, putting, storage, histories>>

\* Some writes are carried out and the answers are lost: they stay in the queue.
SendUnconfirmed(n) ==
    /\ CarryOut(n)
    /\ UNCHANGED <<form, waiting, saves, opened, putting, outbox, storage, histories>>

\* The oldest write is refused; its handler reports the error.
Refused ==
    /\ outbox # <<>>
    /\ outbox' = Tail(outbox)
    /\ refused' = refused \cup {f \in storage : Head(outbox) = [kind |-> "link", file |-> f]}
    /\ UNCHANGED <<form, waiting, saves, opened, putting, remote, overlapped>>

\* Fault: the queue is in memory only.
KillForgets ==
    /\ text' = Blank /\ image' = [r \in Roles |-> None] /\ gallery' = <<>>
    /\ waiting' = 0 /\ putting' = {} /\ opened' = saves /\ outbox' = <<>>
    /\ UNCHANGED <<saves, remote, histories>>

\* The app dies and the form is opened again, empty.  (A file that an upload leaves
\* in Storage now has a path nobody knows, and is left out.)
Kill ==
    /\ text' = Blank /\ image' = [r \in Roles |-> None] /\ gallery' = <<>>
    /\ waiting' = 0 /\ putting' = {} /\ opened' = saves
    /\ UNCHANGED <<saves, outbox, remote, histories>>

Next ==
    \/ \E t \in Texts : EditText(t)
    \/ \E p \in Photos : PickGallery(p) \/ \E r \in Roles : PickPhoto(r, p)
    \/ TapOnSave
    \/ GotWeddingID \/ NoWeddingID
    \/ \E f \in putting : PutDone(f) \/ PutFailed(f)
    \/ Send \/ Refused \/ \E n \in 1..Len(outbox) : SendUnconfirmed(n)
    \/ Kill

Spec == Init /\ [][Next]_vars
-----------------------------------------------------------------------------
\* The save a slot's path dates from.
Age(l) == IF l = None THEN 0 ELSE l.save

\* Guests never get a path without a file: uploadPhoto writes a path only after
\* its upload succeeded, and the path leads to a photo of that very slot.
NoDanglingLink ==
    \A s \in Slots : links[s] # None => links[s] \in storage /\ links[s].slot = s

\* While the form is open, field photo<i> holds the i-th photo picked, however
\* many saves there were and in whatever order their uploads ended.
GalleryInPickOrder ==
    \A i \in 1..MaxGallery :
        LET l == links[InGallery(i)] IN
        Age(l) > opened => i <= Len(gallery) /\ l.image = gallery[i]

\* A later save is undone by an earlier one only for a while: the document in
\* "Weddings" or a photo's path goes back only if the later write is not confirmed and
\* will be carried out again, or if two uploads for the slot ran at the same time, when
\* the one that ends last wins.  No write removes a path.
NothingGoesBack ==
    [][/\ Age(wedding') < Age(wedding) =>
              \E k \in 1..Len(outbox') : outbox'[k] = [kind |-> "wedding", doc |-> wedding]
       /\ \A s \in Slots \ overlapped : Age(links'[s]) < Age(links[s]) =>
              \E k \in 1..Len(outbox') : outbox'[k] = [kind |-> "link", file |-> links[s]]]_vars

\* A photo that has reached Storage is not forgotten, whenever the app dies: its path
\* is still queued, or guests get it or that of a later save, unless the server refused
\* the path or two uploads for its slot overlapped.
PathsAreKept ==
    \A f \in storage :
        \/ \E k \in 1..Len(outbox) : outbox[k] = [kind |-> "link", file |-> f]
        \/ Age(links[f.slot]) >= f.save
        \/ f \in refused \/ f.slot \in overlapped
=============================================================================
