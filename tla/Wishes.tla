-------------------------------- MODULE Wishes --------------------------------
(***************************************************************************)
(* The guest book of one wedding: guests write a wish on WishPage and read *)
(* everybody's wishes on StoryPage.                                        *)
(*                                                                         *)
(* A phone may write one wish: UserDefaults remembers the document it      *)
(* chose.  The page says "sent" as soon as the write has been handed to    *)
(* Firestore, which first puts it into its on-disk queue, later sends it,  *)
(* possibly more than once, and much later hears from the server.  The     *)
(* app may be killed anywhere in between.                                  *)
(*                                                                         *)
(* UserDefaults and Firestore's queue and cache survive the app; the       *)
(* pages' state does not.  The key in UserDefaults contains the wedding's  *)
(* ID, so that weddings do not interfere and one is enough.                *)
(***************************************************************************)
EXTENDS Naturals, FiniteSets

CONSTANTS
    Guests,         \* phones
    DocIDs,         \* automatic document IDs; their number bounds the wishes
    MaxWishLength,  \* characters of a wish (150 in the app)
    MaxGets,        \* bound: getWishes calls of a phone outstanding together
    None            \* nothing

ASSUME NoneIsNoDocument == None \notin DocIDs
ASSUME LimitsAreNumbers == MaxWishLength \in Nat \ {0} /\ MaxGets \in Nat \ {0}

VARIABLES
    guestID,  \* phone: UserDefaults "guestID-<wedding>", kept on disk
    write,    \* phone: what has become of setData for this document
    author,   \* history: the phone that chose this document ID
    text,     \* the length of the document's wish
    server,   \* documents the server has
    cache,    \* phone: server documents in Firestore's on-disk cache
    screen,   \* phone: what is on top; "closed" when the app is not running
    draft,    \* WishPage: length typed, 0 also while the name is missing
    getting,  \* phone: number of getWishes calls without an answer
    wishes    \* StoryPage.wishes

book == <<guestID, write, author, text, server, cache>>
vars == <<book, screen, draft, getting, wishes>>

\* handed: setData was called; queued: it is in the on-disk queue; acked and
\* refused: the server answered; lost: the app died before it was on disk.
Writes == {"unused", "handed", "queued", "acked", "refused", "lost"}

Screens == {"closed", "stories", "wish", "alert"}

TypeOK ==
    /\ guestID \in [Guests -> DocIDs \cup {None}]
    /\ write \in [DocIDs -> Writes]
    /\ author \in [DocIDs -> Guests \cup {None}]
    /\ text \in [DocIDs -> 0..MaxWishLength]
    /\ server \subseteq DocIDs
    /\ cache \in [Guests -> SUBSET DocIDs]
    /\ screen \in [Guests -> Screens]
    /\ draft \in [Guests -> 0..MaxWishLength]
    /\ getting \in [Guests -> 0..MaxGets]
    /\ wishes \in [Guests -> {None} \cup SUBSET DocIDs]

Init ==
    /\ guestID = [g \in Guests |-> None]
    /\ write = [d \in DocIDs |-> "unused"]
    /\ author = [d \in DocIDs |-> None]
    /\ text = [d \in DocIDs |-> 0]
    /\ server = {}
    /\ cache = [g \in Guests |-> {}]
    /\ screen = [g \in Guests |-> "closed"]
    /\ draft = [g \in Guests |-> 0]
    /\ getting = [g \in Guests |-> 0]
    /\ wishes = [g \in Guests |-> None]

Running(g) == screen[g] # "closed"

Goto(g, s) == screen' = [screen EXCEPT ![g] = s]

-----------------------------------------------------------------------------
\* StoryPage appears: after a launch, from another tab, on the way back from
\* WishPage or when its alert is dismissed.  onAppear calls getWishes.
StoriesAppear(g) ==
    /\ getting[g] < MaxGets
    /\ Goto(g, "stories")
    /\ getting' = [getting EXCEPT ![g] = @ + 1]
    /\ UNCHANGED <<book, draft, wishes>>

\* The button on StoryPage opens an empty WishPage.
AddWish(g) ==
    /\ screen[g] = "stories"
    /\ Goto(g, "wish")
    /\ draft' = [draft EXCEPT ![g] = 0]
    /\ UNCHANGED <<book, getting, wishes>>

\* Fault: one character too many is let through.
ClipOneMore(n) == IF n > MaxWishLength + 1 THEN MaxWishLength ELSE n

\* onChange cuts the text after every edit.
Clip(n) == IF n > MaxWishLength THEN MaxWishLength ELSE n

\* The guest types, pastes or deletes: the draft would be n characters long.
Edit(g, n) ==
    /\ screen[g] = "wish"
    /\ draft' = [draft EXCEPT ![g] = Clip(n)]
    /\ UNCHANGED <<book, screen, getting, wishes>>

\* Fault: the button is enabled although a field is empty.
CanSubmitEmpty(g) == screen[g] = "wish"

\* The Submit button is on screen and enabled.
CanSubmit(g) == screen[g] = "wish" /\ draft[g] > 0

\* Fault: the phone remembers its wish only when the server has it.
UploadWishUnmarked(g, d) ==
    /\ write[d] = "unused"
    /\ write' = [write EXCEPT ![d] = "handed"]
    /\ author' = [author EXCEPT ![d] = g]
    /\ text' = [text EXCEPT ![d] = draft[g]]
    /\ UNCHANGED guestID

\* uploadWish chooses a document ID, remembers it and hands the write to Firestore.
UploadWish(g, d) ==
    /\ write[d] = "unused"
    /\ guestID' = [guestID EXCEPT ![g] = d]
    /\ write' = [write EXCEPT ![d] = "handed"]
    /\ author' = [author EXCEPT ![d] = g]
    /\ text' = [text EXCEPT ![d] = draft[g]]

\* tapOnSubmit on a phone without a wish: the alert follows at once.
Submit(g, d) ==
    /\ CanSubmit(g)
    /\ guestID[g] = None
    /\ UploadWish(g, d)
    /\ Goto(g, "alert")
    /\ UNCHANGED <<server, cache, draft, getting, wishes>>

\* tapOnSubmit on a phone with a wish: "You have already sent a wish."
TurnedAway(g) ==
    /\ CanSubmit(g)
    /\ guestID[g] # None
    /\ UNCHANGED vars

-----------------------------------------------------------------------------
\* Firestore on the author's phone: a write is put on disk, sent, answered.
Answered(d, w) == write' = [write EXCEPT ![d] = w]

Queue(g, d) ==
    /\ Running(g) /\ author[d] = g /\ write[d] = "handed"
    /\ Answered(d, "queued")
    /\ UNCHANGED <<guestID, author, text, server, cache, screen, draft, getting, wishes>>

\* Sent again after a lost answer, the write meets its own document.
Deliver(g, d) ==
    /\ Running(g) /\ author[d] = g /\ write[d] = "queued"
    /\ server' = server \cup {d}
    /\ UNCHANGED <<guestID, write, author, text, cache, screen, draft, getting, wishes>>

\* The phone hears of it, and its cache keeps the document.
Ack(g, d) ==
    /\ Running(g) /\ author[d] = g /\ write[d] = "queued"
    /\ d \in server
    /\ Answered(d, "acked")
    /\ cache' = [cache EXCEPT ![g] = @ \cup {d}]
    /\ UNCHANGED <<guestID, author, text, server, screen, draft, getting, wishes>>

\* Fault: the error handler of uploadWish hands the write over again.
RefuseRetried(g, d) ==
    /\ Running(g) /\ author[d] = g /\ write[d] = "queued"
    /\ d \notin server
    /\ Answered(d, "handed")
    /\ UNCHANGED <<guestID, author, text, server, cache, screen, draft, getting, wishes>>

\* The server refuses; uploadWish reports the error and does nothing more.
Refuse(g, d) ==
    /\ Running(g) /\ author[d] = g /\ write[d] = "queued"
    /\ d \notin server
    /\ Answered(d, "refused")
    /\ UNCHANGED <<guestID, author, text, server, cache, screen, draft, getting, wishes>>

\* Documents of g whose write is pending: its own queries show them.
Own(g) == {d \in DocIDs : author[d] = g /\ write[d] \in {"handed", "queued"}}

\* One getWishes is answered with the documents ds.
Show(g, ds) ==
    /\ getting[g] > 0
    /\ getting' = [getting EXCEPT ![g] = @ - 1]
    /\ wishes' = [wishes EXCEPT ![g] = ds]

\* getWishes is answered by the server.
GotWishes(g) ==
    /\ Running(g)
    /\ Show(g, server \cup Own(g))
    /\ cache' = [cache EXCEPT ![g] = server]
    /\ UNCHANGED <<guestID, write, author, text, server, screen, draft>>

\* The phone is offline and getWishes is answered from the cache.
GotCachedWishes(g) ==
    /\ Running(g)
    /\ Show(g, cache[g] \cup Own(g))
    /\ UNCHANGED <<book, screen, draft>>

\* Fault: StoryPage takes the empty list that comes with an error.
GetWishesErrorShown(g) ==
    /\ Running(g)
    /\ Show(g, {})
    /\ UNCHANGED <<book, screen, draft>>

\* getWishes fails: StoryPage keeps what it has.
GetWishesError(g) ==
    /\ Running(g)
    /\ getting[g] > 0
    /\ getting' = [getting EXCEPT ![g] = @ - 1]
    /\ UNCHANGED <<book, screen, draft, wishes>>

\* The app is killed: a write not yet on disk is gone.
Kill(g) ==
    /\ Running(g)
    /\ write' = [d \in DocIDs |-> IF author[d] = g /\ write[d] = "handed"
                                  THEN "lost" ELSE write[d]]
    /\ Goto(g, "closed")
    /\ draft' = [draft EXCEPT ![g] = 0]
    /\ getting' = [getting EXCEPT ![g] = 0]
    /\ wishes' = [wishes EXCEPT ![g] = None]
    /\ UNCHANGED <<guestID, author, text, server, cache>>

Next ==
    \E g \in Guests :
        \/ StoriesAppear(g) \/ AddWish(g)
        \/ \E n \in 0..(MaxWishLength + 1) : Edit(g, n)
        \/ \E d \in DocIDs : \/ Submit(g, d)
                             \/ Queue(g, d) \/ Deliver(g, d) \/ Ack(g, d) \/ Refuse(g, d)
        \/ TurnedAway(g)
        \/ GotWishes(g) \/ GotCachedWishes(g) \/ GetWishesError(g)
        \/ Kill(g)

Spec == Init /\ [][Next]_vars

(***************************************************************************)
(* Fairness.  Firestore sends what is queued whenever the app runs long    *)
(* enough with a network, and the server answers.  A phone that is killed  *)
(* again and again gets its chance in one of the sessions, hence strong    *)
(* fairness.  What guests do is not forced.                                *)
(***************************************************************************)
Fairness ==
    \A g \in Guests :
        /\ SF_vars(\E d \in DocIDs : Deliver(g, d) \/ Refuse(g, d))
        /\ SF_vars(\E d \in DocIDs : Ack(g, d))

FairSpec == Spec /\ Fairness
-----------------------------------------------------------------------------
\* A phone calls uploadWish at most once for a wedding, over all its sessions,
\* kills and failures: UserDefaults is set before anything can go wrong.
OneWishPerPhone ==
    \A d, e \in DocIDs :
        (write[d] # "unused" /\ write[e] # "unused" /\ author[d] = author[e]) => d = e

\* Every wish on the server is neither empty nor longer than WishPage allows,
\* whatever was typed or pasted before Submit.
WishesFit == \A d \in server : text[d] \in 1..MaxWishLength

\* StoryPage never loses a wish it shows, although answers from the server, from
\* the cache and errors alternate: only a refused wish of the guest's own goes.
ShownWishesStay ==
    [][\A g \in Guests :
          (wishes[g] # None /\ wishes'[g] # None) =>
              \A d \in wishes[g] \ wishes'[g] : author[d] = g /\ write'[d] = "refused"]_vars

\* A queued wish is settled: over however many kills, if the guest keeps coming
\* back to the app the server at last stores or refuses it.
QueuedWishIsSettled ==
    \A g \in Guests :
        LET Is(ws) == guestID[g] # None /\ write[guestID[g]] \in ws IN
        []<>Running(g) => (Is({"queued"}) ~> Is({"acked", "refused"}))

\* What tapOnSubmit says to whom it turns away ("You have already sent a wish."):
\* the wish is on the server, or at least still on its way there.
TurnedAwayHasWish ==
    \A g \in Guests :
        (screen[g] = "wish" /\ guestID[g] # None) => guestID[g] \in server \cup Own(g)
=============================================================================
