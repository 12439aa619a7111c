------------------------------ MODULE GuestEntry ------------------------------
(***************************************************************************)
(* The guest's way in: the PIN pad (PinKeyboardAndField), the page that    *)
(* hosts it (OTPPage) and the wedding page it leads to (HomePage with its  *)
(* ViewModel).                                                             *)
(*                                                                         *)
(* Every change of the PIN that leaves four characters sends a query       *)
(* "does this wedding exist?".  The guest can go on typing while it is     *)
(* out, answers come in any order, and the handler of the answer looks at  *)
(* the PIN as it is then, not at the PIN it asked about.  A wrong PIN is   *)
(* wiped by a timer half a second after the answer, whatever the guest has *)
(* typed since.                                                            *)
(*                                                                         *)
(* Everything runs on the phone's main queue, so a step is one handler: a  *)
(* key, an answer, a timer, or a navigation, with the view update that     *)
(* follows it.  Nothing of this survives the app.                          *)
(***************************************************************************)
EXTENDS Naturals, Sequences, FiniteSets

CONSTANTS
    Keys,        \* keys that append a character (digits and the heart)
    Weddings,    \* PINs that have a document in "Weddings"
    MaxTyped,    \* bound: longest PIN typed (the pad has no limit)
    MaxPending,  \* bound: queries and wipe timers outstanding together
    None         \* no wedding loaded

PinLength == 4

Pins == UNION {[1..n -> Keys] : n \in 0..MaxTyped}

ASSUME WeddingsArePins == Weddings \subseteq [1..PinLength -> Keys]
ASSUME BoundsAreNumbers == MaxTyped \in Nat /\ MaxPending \in Nat \ {0}
ASSUME NoneIsNoPin == None \notin Weddings

VARIABLES
    pin,              \* PinKeyboardAndField.pin
    queries,          \* isWeddingExist calls without an answer yet
    wipes,            \* number of asyncAfter(0.5 s) blocks not yet run
    pinWarning,       \* "Incorrect PIN" is on screen
    isOTPSuccessful,  \* OTPPage: HomePage is pushed
    homePin,          \* OTPPage.pin, the id of HomePage's ViewModel
    fetching,         \* that ViewModel's getWedding is out
    wed,              \* that ViewModel's wed
    crashed,          \* the app has been stopped by an uncaught exception
    edited            \* history: the PIN changed while a query was out

pad == <<pin, queries, wipes, pinWarning>>
home == <<isOTPSuccessful, homePin, fetching, wed, crashed>>
vars == <<pad, home, edited>>

Query == [slot : 1..MaxPending, asked : [1..PinLength -> Keys]]

\* OTPPage starts with pin = "0" and builds HomePage for it at once.
LaunchPin == <<"0">>

TypeOK ==
    /\ pin \in Pins
    /\ queries \subseteq Query
    /\ wipes \in 0..MaxPending
    /\ pinWarning \in BOOLEAN
    /\ isOTPSuccessful \in BOOLEAN
    /\ homePin \in Pins \cup {LaunchPin}
    /\ fetching \in BOOLEAN
    /\ wed \in Weddings \cup {None}
    /\ crashed \in BOOLEAN
    /\ edited \in BOOLEAN

Init ==
    /\ pin = <<>> /\ queries = {} /\ wipes = 0 /\ pinWarning = FALSE
    /\ isOTPSuccessful = FALSE /\ homePin = LaunchPin
    /\ fetching = TRUE /\ wed = None /\ crashed = FALSE
    /\ edited = FALSE
-----------------------------------------------------------------------------
\* The pad can be tapped: it is on screen and the app is alive.
PadVisible == ~crashed /\ ~isOTPSuccessful

FreeSlots == {s \in 1..MaxPending : \A q \in queries : q.slot # s}

Pending == Cardinality(queries) + wipes

\* Fault: a PIN that has grown too long is looked up as well.
SetPinOrLonger(p) ==
    /\ pin' = p
    /\ edited' = (edited \/ queries # {})
    /\ IF Len(p) >= PinLength
       THEN /\ Pending < MaxPending
            /\ LET s == CHOOSE x \in FreeSlots : TRUE IN
               queries' = queries \cup {[slot |-> s, asked |-> p]}
       ELSE UNCHANGED queries

\* The PIN becomes p; onChange sends a query when p has four characters.
SetPin(p) ==
    /\ pin' = p
    /\ edited' = (edited \/ queries # {})
    /\ IF Len(p) = PinLength
       THEN /\ Pending < MaxPending
            /\ LET s == CHOOSE x \in FreeSlots : TRUE IN
               queries' = queries \cup {[slot |-> s, asked |-> p]}
       ELSE UNCHANGED queries

PressKey(k) ==
    /\ PadVisible
    /\ Len(pin) < MaxTyped
    /\ SetPin(Append(pin, k))
    /\ UNCHANGED <<wipes, pinWarning, home>>

\* dropLast of an empty string changes nothing, and onChange stays silent.
PressDelete ==
    /\ PadVisible
    /\ pin # <<>>
    /\ SetPin(SubSeq(pin, 1, Len(pin) - 1))
    /\ UNCHANGED <<wipes, pinWarning, home>>

\* OTPPage's body runs again: HomePage is built anew for p, with a new ViewModel
\* whose getWedding asks for document p; an empty path raises an exception.
BuildHome(p) ==
    /\ crashed' = (p = <<>>)
    /\ fetching' = (p # <<>>)
    /\ wed' = None

\* OTPPage receives the notification with PIN p and opens HomePage for it.  Its body
\* runs again only if its state has changed.
CorrectPINEntered(p) ==
    /\ isOTPSuccessful' = TRUE
    /\ homePin' = p
    /\ IF isOTPSuccessful /\ homePin = p
       THEN UNCHANGED <<fetching, wed, crashed>>
       ELSE BuildHome(p)

\* Fault: the answer is taken for a yes whatever the server said.
IsWeddingExistIgnored(p) == TRUE

IsWeddingExist(p) == p \in Weddings

\* The wedding exists: the pad posts its present PIN, and OTPPage receives it.
AnswerYes(q) ==
    /\ ~crashed
    /\ IsWeddingExist(q.asked)
    /\ queries' = queries \ {q}
    /\ CorrectPINEntered(pin)
    /\ UNCHANGED <<pin, wipes, pinWarning, edited>>

\* Fault: the timer is started only while the rejected PIN is still displayed.
AnswerNoIfSame(q) ==
    /\ ~crashed
    /\ queries' = queries \ {q}
    /\ pinWarning' = TRUE
    /\ wipes' = IF pin = q.asked THEN wipes + 1 ELSE wipes
    /\ UNCHANGED <<pin, home, edited>>

\* There is no such wedding, or the query failed: isWeddingExist says false.
AnswerNo(q) ==
    /\ ~crashed
    /\ queries' = queries \ {q}
    /\ pinWarning' = TRUE
    /\ wipes' = wipes + 1
    /\ UNCHANGED <<pin, home, edited>>

\* Fault: the timer takes the warning away but leaves the PIN.
WipeWarningOnly ==
    /\ ~crashed
    /\ wipes > 0
    /\ wipes' = wipes - 1
    /\ pinWarning' = FALSE
    /\ UNCHANGED <<pin, queries, home, edited>>

\* The timer empties the pad.
Wipe ==
    /\ ~crashed
    /\ wipes > 0
    /\ wipes' = wipes - 1
    /\ pinWarning' = FALSE
    /\ pin' = <<>>
    /\ edited' = (edited \/ (queries # {} /\ pin # <<>>))
    /\ UNCHANGED <<queries, home>>

\* getWedding's document arrives.
Loaded ==
    /\ ~crashed /\ fetching
    /\ homePin \in Weddings
    /\ fetching' = FALSE
    /\ wed' = homePin
    /\ UNCHANGED <<pad, isOTPSuccessful, homePin, crashed, edited>>

\* There is no such wedding, or the read failed: the spinner stays.
NotLoaded ==
    /\ ~crashed /\ fetching
    /\ fetching' = FALSE
    /\ UNCHANGED <<pad, isOTPSuccessful, homePin, wed, crashed, edited>>

\* The guest leaves the spinner; OTPPage's body runs again with the same pin.
Back ==
    /\ ~crashed /\ isOTPSuccessful
    /\ wed = None
    /\ isOTPSuccessful' = FALSE
    /\ BuildHome(homePin)
    /\ UNCHANGED <<pad, homePin, edited>>

\* The app is closed, or has crashed, and is started again.
Relaunch ==
    /\ pin' = <<>> /\ queries' = {} /\ wipes' = 0 /\ pinWarning' = FALSE
    /\ isOTPSuccessful' = FALSE /\ homePin' = LaunchPin
    /\ fetching' = TRUE /\ wed' = None /\ crashed' = FALSE
    /\ edited' = FALSE

Next ==
    \/ \E k \in Keys : PressKey(k)
    \/ PressDelete
    \/ \E q \in queries : AnswerYes(q) \/ AnswerNo(q)
    \/ Wipe
    \/ Loaded \/ NotLoaded
    \/ Back
    \/ Relaunch

Spec == Init /\ [][Next]_vars

(***************************************************************************)
(* Fairness.  Firestore answers every read (when offline with an error),   *)
(* and the main queue runs every block whose delay is over.  What the      *)
(* guest does is not forced.                                               *)
(***************************************************************************)
Fairness ==
    /\ \A s \in 1..MaxPending :
          WF_vars(\E q \in queries : q.slot = s /\ (AnswerYes(q) \/ AnswerNo(q)))
    /\ WF_vars(Wipe)

FairSpec == Spec /\ Fairness
-----------------------------------------------------------------------------
\* "Incorrect PIN" never stays for good: whenever it is displayed, a timer that
\* takes it away is running, also when several rejections and timers overlap.
WarningHasTimer == pinWarning => wipes > 0

\* The pad leads astray (to a page for a PIN that no wedding has, or to the
\* exception for an empty path) only if the PIN was changed, by the guest or by
\* the pad's own timer, between a query and its answer.
AstrayOnlyAfterEdit ==
    (crashed \/ (isOTPSuccessful /\ homePin \notin Weddings)) => edited

\* A PIN that is being checked is settled: it opens a page or leaves the pad, by the
\* guest's hand or by the timer's.  (A PIN of four characters cannot become
\* another one without being shorter or longer in between.)
CheckedPinIsSettled ==
    (Len(pin) = PinLength /\ \E q \in queries : q.asked = pin)
        ~> (Len(pin) # PinLength \/ isOTPSuccessful \/ crashed)

\* Firestore's demand on its callers ("Document path cannot be empty."): the app
\* never asks for the document of an empty PIN.
DocumentPathNotEmpty == ~crashed
=============================================================================
