# Verification of the wedding app

The app has two kinds of users.  A **couple** signs up, gets a four-digit
wedding ID, fills in a form and uploads photos.  **Guests** type the ID on a PIN
pad, see the wedding's pages and leave one wish.  Everything they share is in
Firebase: accounts (Auth), documents (Firestore) and pictures (Storage).  The
program's own code is about 2600 lines of Swift under `src/WeddApp/WeddApp`;
`src/WeddApp/Pods` is third-party.  Of that, the read and write paths of the
Firestore client are modelled too, because what the app may expect of its
documents is decided there.

The app's handlers run on the phone's main queue, Firestore's on a worker queue,
and every operation is a chain of requests whose answers arrive later, in an order
nobody controls, while the user goes on tapping, other phones do the same and
the app may be ended at any moment.  That is what the modules model.

## Inventory

| Component | State | Operations | Talks to | Correct when |
|---|---|---|---|---|
| ID provisioning (`createUser`, `generateUniqueID`) | `UsedIDs`, `Users` documents; the drawn ID | draw, check, retry, reserve, save | Firestore; started by sign-up | stored IDs are reserved, not shared, and the chain ends |
| Guest entry (`PinKeyboardAndField`, `OTPPage`, `HomePage`) | PIN, warning, navigation, loaded wedding | key, delete, answers, wipe timer, back | Firestore (`Weddings`), NotificationCenter | opens only weddings, never stuck, never crashes |
| Guest book (`WishPage`, `StoryPage`, `uploadWish`, `getWishes`) | UserDefaults mark, queued write, list of wishes | submit, list | Firestore (`Guests`) | one wish per phone, no wish lost, messages true |
| Form and uploads (`FormScreen`, `uploadWedding`, `uploadPhoto`, `uploadGallery`, `ImagePicker`) | form, running uploads, `Weddings`, `Images`, `Gallery` documents, Storage files | edit, pick, save | Firestore, Storage | no path without file, order kept, later saves win |
| Authentication screens | fields, overlay, alerts | sign up, sign in | Auth, then `createUser` | the account's document matches the account |
| Gallery page (`GalleryPage`, `retrieveGallery`, `retrieveImage`) | fetches, downloaded photos, the selected one | appear, fan-out, join, tap | Firestore, Storage | whole galleries, nothing lost, every fetch ends |
| Introduction page (`getImageOf`) | two downloaded photos, calls that are out | appear, answer, download | Firestore, Storage | photos stay, answers are true |
| Firestore writes (`SyncEngine`, `LocalStore`, `LevelDbMutationQueue`, `RemoteStore`, `WriteStream`) | mutation queue per account, callbacks, pipeline, stream | write, send, answer, refusal, restart, change of account | the server, over one stream | in order, none left out, the app is told about the right write |
| Firestore reads (`getDocument`, `EventManager`, `OnlineStateTracker`, `RemoteStore`, `WatchStream`) | listeners, view, cache, online state, stream, outstanding responses | listen, stop, snapshot, timeout, close | main queue, worker queue, the server | answered once, not from an older listen, never forgotten |
| Story circles | running timer | tap, appear, disappear | - | one timer, stopped on leaving |
| Model structs | - | `toDictionary`, reading back | Firestore | a saved wedding reads back |
| Messages, animations, Core Data template, multi-picker, test screen | none that matters | - | - | - |

Hard to test, and listed with their lines under `hazards` in `PROJECT.json`: a
check and a reservation that are two requests; a handler that reads state which
has changed since its request; overlapping timers; marks on disk that outrun
the writes they stand for; parallel uploads that end in any order; steps that
fail one by one without anybody noticing; messages that are repeated, overtaken
or about an earlier request; timers and credentials that arrive late.

## What is assumed of the outside

Two modules show what the vendored Firestore client does; the modules of the
app use the result, not the client itself (except `Introduction`, which runs on
top of the client's read path).

- A write (`setData`) keeps the promise of `WriteQueue`: it goes into an on-disk
  queue which survives the app, the queue is carried out in order, at least
  once, and the completion handler runs at most once, if the app still lives.
  `FirestoreWrites` is shown to implement `WriteQueue`.  `WeddingUpload` has all of
  it (repetition included); `WeddingIDs` and `Wishes` write each document once, where
  repeating `setData` changes nothing.
- A read (`getDocument`, `getDocuments`) is answered at most once, possibly with an
  error; `FirestoreReads` shows this for `getDocument`.  A query without a network is
  answered from the on-disk cache, and every query also shows the phone's own
  pending writes.
- The Firestore **server** handles the messages of a stream in order, drops those it has
  not handled when the stream ends, never ends a stream without an error while
  it is needed, answers every request to watch or unwatch, and sends a global
  snapshot only when the target is current.  Security rules do not change.
- **Storage** (`putData`, `getData`) works while the app runs and ends its tasks in any
  order; a download calls back exactly once, with data or an error.
- Handlers of one queue run one at a time.

## Modules

| Module | What it is |
|---|---|
| `WeddingIDs` | `createUser` and `generateUniqueID`, any number of accounts |
| `GuestEntry` | PIN pad, `OTPPage` and the loading of `HomePage`, one phone |
| `Wishes` | `WishPage` and `StoryPage`, any number of phones, one wedding |
| `WeddingUpload` | `FormScreen` with its uploads, one couple |
| `Gallery` | `GalleryPage` and `retrieveGallery`, one guest's phone |
| `WriteQueue` | what Firestore promises about `setData`: the abstract specification |
| `FirestoreWrites` | the write path of the Firestore client; implements `WriteQueue` |
| `FirestoreReads` | the read path of the Firestore client for one document |
| `Introduction` | `IntroductionPage` and `getImageOf`, composed with `FirestoreReads` |
| `WeddingIDsProofs`, `GuestEntryProofs`, `WishesProofs`, `WeddingUploadProofs`, `GalleryProofs`, `FirestoreWritesProofs`, `FirestoreReadsProofs`, `IntroductionProofs` | theorems about them |
| `MCWeddingIDs`, `MCGuestEntry`, `MCWishes`, `MCIntroduction` | instances for TLC: symmetry and the values of constants (the others need none) |

`Introduction` extends `FirestoreReads` (its two closures make the `getDocument`
calls and receive the answers) and `FirestoreWrites` instantiates `WriteQueue`.  The
pages of the app meet in the server's documents: `WeddingIDs` produces the ID
`WeddingUpload` writes under and `GuestEntry` asks for, `Gallery` and
`Introduction` read what `WeddingUpload` publishes.

A definition whose comment starts with *Fault:* is not part of a
specification.  It is a plausible mistake in the definition that follows it,
used to show that a property would notice.

**WeddingIDs.**  `stage[u]` is how far the chain of completion handlers has come
for account `u`: `checking` (the read of `UsedIDs` is out), `reserving` (the
write of `UsedIDs`), `saving` (the write of `Users`).  One action per
completion and outcome; `Retry` is the recursive call.  `Crash` drops a pending
read and turns a pending write into an orphan that still reaches the server.
`raced` is a history variable: the pairs of accounts whose windows between check
and reservation of one ID overlapped.

**GuestEntry.**  `queries` are the `isWeddingExist` calls without an answer,
`wipes` counts the 0.5 s blocks that have not run.  `AnswerYes` contains the
notification, its receipt by `OTPPage` and the new `HomePage` with its
`getWedding` call, which happen in one turn of the main queue; it reads the PIN as it
then is, like the code.  `AnswerNo` covers both "no document" and a failed
query, which `isWeddingExist` does not tell apart.  `crashed` is the exception
Firestore raises for an empty path.  `edited` is a history variable: the PIN
changed while a query was out.

**Wishes.**  `guestID[g]` is the UserDefaults entry, `write[d]` what has become of
the `setData` for document `d`.  `Submit` is all of `tapOnSubmit` and
`uploadWish` up to the return of `setData`: it sets the mark, hands over the
write and raises the alert.  `Queue`, `Deliver`, `Ack`, `Refuse` are Firestore and
its server.  `StoriesAppear` is `onAppear` of `StoryPage`, whichever way the
guest comes to it.  Text is reduced to its length, 0 standing for "a field is
empty".  A phone on which the app is deleted and installed again counts as a new phone.

**WeddingUpload.**  `GotWeddingID` is the whole handler in `tapOnSave`: the document
is queued and one upload per photo starts, each creating a file of its own.
`PutDone` queues the path.  `CarryOut(n)` is the effect of the first `n` queued
writes on the server, documents as a whole and paths with `setData(merge: true)`.
`Send` carries out and confirms the oldest write, `SendUnconfirmed(n)` carries out
some whose answers are lost, so that they are repeated later, `Refused` drops the
oldest.  The form's texts and dates are one value, as they are always saved
together.  `Kill` ends the app and opens the form again, empty; the queue stays.
`overlapped` and `refused` are history variables.  Without a signed-in account
`tapOnSave` does nothing, so the model starts from a signed-in one.

**Gallery.**  `fetch[f]` is one call of `retrieveGallery`: `asking` while the document
is read, `loading` while downloads run.  `group` is the DispatchGroup's count and
`got` the array the downloads append to, in the order in which they end.
`Retrieved` is the callback of `retrieveImage`, `Notify` the block that waits for
the group together with the page's completion handler.  A read that fails
ends the call without a callback, as in the code.  Meanwhile the couple goes on
publishing (`Publish`).  `Relaunch` is the end of the page and its state;
downloads that outlive it answer to nobody.  `shown` and `overlapped` are history
variables.

**FirestoreWrites.**  One action per handler of the worker queue.  `disk[u]` is the
mutation queue of account `u`, `pipeline` RemoteStore's `write_pipeline_`, `wire` and
`replies` the two directions of the write stream.  `stream` is `Stream::state_`
(Healthy counted as open), `tokens` the requests for credentials that are out: for
this start, or for one that `close_count_` has made obsolete.  `Fill` is the loop of
`FillWritePipeline`; every action that calls it in the code contains it, and so with
`NotifyUser`, the deletion on disk and the restart of the stream.  `ended` is the
permanent error with which the server has ended the stream; gRPC delivers it
after the answers, or at once if a message was written to the ended stream
(`late`).  `KillAcknowledging` is the app's end between `NotifyUser` and
`AcknowledgeBatch`.  `UserChange` and `Restart` recompute the next batch ID from the
disk, so IDs are used again.  All writes of an account set one document, the case in
which their order matters.  Refinement: the abstract queue is what is on disk,
and `done` is the number of answers to be read once the handshake is complete.

**FirestoreReads.**  `main` and `work` are what the worker queue has posted to the
main queue and the other way round.  `OnEvent` is a turn of the main queue:
`AsyncEventListener`, the muting and `ListenOnce`.  The other actions run on the
worker queue: adding and removing a listener with all that follows in
`SyncEngine` and `RemoteStore` (`FirstListener`, `JoinListeners`, `StopListening`), the
watch stream's life, the timer of `OnlineStateTracker`, and the three kinds of
message.  `outstanding` is `outstanding_responses_`, which decides whether a
snapshot counts.  A document is its version, 0 standing for "does not exist".
`floor` is a history variable: the version when the listen began.

**Introduction.**  `Appear` is `onAppear` with both calls of `getImageOf`, `GetImageOf` a
turn of the main queue together with the closure that receives the answer.  `image`
holds the visit a photo dates from.

## Runs

| Run | Shows |
|---|---|
| `ids` | `StoredIDsAreReserved`, `SharedOnlyByRace`, `ProvisioningEnds` (the retry loop ends unless IDs run out) |
| `ids_unique` | counterexample to `GeneratedIDsAreUnique` |
| `entry` | `WarningHasTimer`, `AstrayOnlyAfterEdit`, `CheckedPinIsSettled` |
| `entry_path` | counterexample to `DocumentPathNotEmpty` |
| `wishes` | `OneWishPerPhone`, `WishesFit`, `ShownWishesStay`, `QueuedWishIsSettled` |
| `wishes_turned_away` | counterexample to `TurnedAwayHasWish` |
| `upload` | `NoDanglingLink`, `GalleryInPickOrder`, `PathsAreKept`, `NothingGoesBack` |
| `gallery` | `WholeGallery`, `LoadedPhotosStay`, `FetchEnds` |
| `firestore_writes` | `NothingSkipped`, `AssertionsHold`, `CallbacksMatch`, `ErrorsAreRefusals`, `StoredStays`, and `Contract`: the write path implements `WriteQueue` |
| `firestore_writes_live` | `WritesAreSettled` |
| `introduction` | `AnsweredOnce`, `AnswersAreFresh`, `AssertionsHold`, `OutstandingIsExact`, `AnswerIsComing` of the read path, `PhotosStay` of the page |
| `reads_timer` | counterexample to `StateIsDecided` |

The passing runs also check each module's `TypeOK`, and each property has a
mutant of the code's model under `mutants` in `PROJECT.json` that violates it.

Each counterexample contradicts a sentence of the code, quoted under `findings`
in `PROJECT.json`:

1. *"The generated ID is unique"*: two phones draw the same free ID, both checks
   are answered before either reservation, both accounts get it.
2. *"Document path cannot be empty."*: a rejected PIN's timer empties the pad
   while the corrected PIN is being checked; its yes posts the empty PIN.
3. *"You have already sent a wish."*: said for good after a refused or lost write.
   (The alert "Your wish has been successfully sent." is raised before anything
   was sent, too.)
4. *"we transition to Offline rather than waiting indefinitely"*: the first read is
   answered by the timer while the stream is still starting; `StopListening` sets the
   state back to unknown without a timer, and as the stream counts as started
   the next read arms none.

The passing properties say how far the damage goes: shared IDs arise *only* from
that race, the pad leads astray *only* after an edit during a query, and the
early mark is what makes a second wish impossible.  In the gallery, loaded photos
can turn blank or disappear *only* when the page appeared again during a fetch.
A refusal is blamed on a write that was carried out *only* if a message hit a
stream the server had ended (`overtaken` in `FirestoreWrites`).

### Bounds

- `WeddingIDs`: three accounts and two IDs, so that a pair can race while a third
  has a reservation, and so that the IDs do run out.
- `GuestEntry`: two keys, five characters (one more than a PIN has) and two
  outstanding queries or timers: a late timer and a query, or two of a kind, are
  what it takes for them to overlap.
- `Wishes`: two phones and two documents, so that a phone could write twice; a limit
  of one character with drafts of up to two; one `getWishes` at a time (the
  theorems cover any number).
- `WeddingUpload`: two saves, which can overlap, of up to two photos: a person's and
  one of the gallery (two documents), or two of the gallery (two fields of one
  document), with two different pictures and two texts.
- `Gallery`: three paths, so that the document can change between two fetches, and
  two fetches, which can overlap.
- `FirestoreWrites`: a pipeline of two and three writes, so that one waits on disk
  while two are under way, and two accounts.  The liveness run has a pipeline of one
  and two writes.
- `Introduction`: two appearances, hence four calls, of which two or more overlap or
  use the target again; two versions of the document (absent and present); the main
  queue is at most two events behind when another round is posted.

### Fairness

Answers are fair, people are not.  Firestore answers every read and sends what is
queued, Storage ends every download (weak fairness), and the main queue runs every
due block.  Two places use
strong fairness: in `WeddingIDs` independent uniform draws eventually hit a free
ID if there is one; in `Wishes` a queued write that gets a session again and
again is eventually sent in one of them, and `QueuedWishIsSettled` only speaks of
guests who keep coming back.  Signing up, typing, saving, kills and failures are
never forced.  In `FirestoreWrites` the back-off timer runs out (weak fairness); that
credentials, handshake, server and client each get their turn is strong fairness,
as every connection may be lost and the app may die, but a write that is retried
for ever meets a connection that lasts: the delays of the back-off are bounded.  In
`FirestoreReads` fairness is that of the phone alone (both queues, timers and the
credentials' answer), since `StateIsDecided` is about a stream that neither succeeds nor fails.

Deadlock checking is off only for `WeddingIDs`, where all accounts may be done.

## Proofs

All theorems hold for arbitrary sets of accounts, IDs, keys, weddings, phones,
documents, photos, visits and arbitrary bounds; the assumptions are the named
`ASSUME`s (sentinels are not values, bounds are numbers, weddings have four-character
PINs, a page makes one call per person and visit).  With them, every invariant and
every action property that a passing run checks, and the refinement, are proved; TLC
finds out on a small instance whether a formula holds, the proof says that the
instance was not too small.

- `WeddingIDsProofs`: `TypeOK`, `StoredIDsAreReserved`, `SharedOnlyByRace`.  The
  inductive invariant adds that a document exists exactly in stage `done`, that
  from the acknowledgement on the ID is in `UsedIDs`, and that any two *claims*
  (not only stored IDs) of one ID have raced.  The key step is `CheckFree`: an
  account that holds the ID already would have made the check fail, so every
  other claimant is one whose reservation is still under way.
- `GuestEntryProofs`: `TypeOK`, `WarningHasTimer`, `AstrayOnlyAfterEdit`.  The invariant
  adds that, until an edit meets a query, every query asks for the PIN on the pad.
  For the type, that below the bound some slot is free (`SlotIsFree`): queries would
  have to cover all slots otherwise, and are fewer.
- `WishesProofs`: `TypeOK`, `OneWishPerPhone`, `WishesFit`, `ShownWishesStay`.  The
  invariant adds that a used document is the one its author's UserDefaults
  names, that server, acknowledgements and caches agree, and that `StoryPage`
  shows only cached documents and the phone's own.
- `WeddingUploadProofs`: `TypeOK`, `NoDanglingLink`, `GalleryInPickOrder`,
  `PathsAreKept`, `NothingGoesBack`.  For the first two the invariant adds that the
  files of all queued paths are in Storage.  The others need `Order`: unless uploads
  for a slot overlapped, a running upload is newer than every stored file of its slot
  (`PuttingIsNewest`), hence the queue is sorted by save (`LinksSorted`,
  `DocsSorted`), paths leave it from the oldest (`LeftFromHead`), and whatever a
  repetition undoes stands behind the write that undoes it (`LinksRepeated`,
  `DocsRepeated`).  The key step is a write that leaves the queue: it is the oldest of
  its slot, so what remains is newer than all that have left.
- `GalleryProofs`: `TypeOK`, `WholeGallery`, `LoadedPhotosStay`.  The invariant adds
  that the group counts exactly the downloads that are running and that every
  other path has its entry in `got` (so an empty group means a whole gallery), and
  that without overlap there is one fetch at a time and none beside photos.  It
  needs the document to be finite.

- `FirestoreWritesProofs`: `TypeOK`, `NothingSkipped`, `AssertionsHold`,
  `CallbacksMatch`, `ErrorsAreRefusals`, `StoredStays`, and `Contract`, the refinement of
  `WriteQueue`.  The client keeps a write in four places: on disk, in the pipeline, on
  the wire and, once handled, as an answer.  The invariant says how they correspond:
  queues on disk are sorted by ID and by write (`DiskInv`), the pipeline is the head
  of the current account's queue (`NothingSkipped`), answers and wire together are
  the pipeline, one by one, unless the server has ended the stream at the first that
  is missing (`InStep`), and the account's document is the last write answered
  (`ServerInv`).  Hence "the first write of the pipeline", which is all that the
  handlers of answers and errors know, is the right one.  For the refinement every
  action is a step of `WriteQueue` or leaves its variables alone: an answer that is
  read takes the oldest write off the queue, one that the server gives raises
  `done`, and everything that drops the connection sets `done` back to none, which is
  where the abstract queue may repeat itself.
- `FirestoreReadsProofs`: `ReadsSafe`, the conjunction of what the read path promises.
  The invariant has a part on the calls (`CallInv`: a listener is added for a call
  nothing was done for, removed for one that is answered, and an unanswered call is
  in a queue, listened for, or has an event under way), one on the connection
  (`ConnInv`: the last request on the wire is about the listen there is, and the count of
  outstanding responses is exact, so a snapshot that counts has no
  response behind it that belongs to an earlier listen), one on what must be coming (`ComingInv`) and one
  on how old it may be (`FreshInv`).  It is proved for any mixture of calls: a step of
  the app is the making of any sequence of calls (`Asking`), of which `GetDocument` is the
  one with a single call.
- `IntroductionProofs`: `IntroductionTypeOK`, the five properties of the read path in
  the composed system, and `PhotosStay`.  A page that appears makes two calls, which is
  an `Asking`; all else it does leaves the read path alone or is a step of it.  So the
  invariant of the read path carries over, and `PageInv` adds that, unless visits have
  overlapped, only calls of the last one are out, and none for a photo that is shown.

The loop over the listeners (`Only`) is a recursive function.  That its result
holds exactly the members that pass is proved by taking the shortest prefix of which it
fails (`Least`, from the well-foundedness of the numbers), as induction theorems that
take an operator cannot be used by the provers.

Only model-checked: the liveness properties (`ProvisioningEnds`,
`CheckedPinIsSettled`, `QueuedWishIsSettled`, `FetchEnds`, `WritesAreSettled`), because
fairness and `ENABLED` are out of the prover's reach; and the four counterexamples, which
are TLC's by nature.

## Not modelled, and the plan

What is left to do: queries over collections (`getWishes` and `isWeddingExist` go
through the same read path, without `ListenOnce`'s rule about absence), and with them
pending writes in views, so that `Wishes` could run on top of the client as
`Introduction` does.

Left out:

- The authentication screens.  No page of the app shows `AuthenticationView`
  (only its preview does), and their requests go to Firebase Auth one at a time.
- Story circles, animations and drawing; the messages printed for developers; the
  unused Core Data template; the multi-image picker and `TestScreen` that no page
  shows; the field-by-field copying of `toDictionary` and `getWedding`.
- Of the Firestore client: transactions, bundles, aggregate queries, limbo
  resolution, existence filters, deletions, garbage collection, pending writes in
  views, and disabling the network, which the app never does.  Queries over
  collections share the path of `FirestoreReads` but not `ListenOnce`'s rule about absence.
- The other pods (gRPC, BoringSSL, abseil, leveldb, nanopb, the generated protocol
  code and the rest of Firebase): nearly a million lines of libraries of which the
  app's correctness uses only what is assumed above.
