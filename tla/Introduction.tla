----------------------------- MODULE Introduction -----------------------------
(***************************************************************************)
(* IntroductionPage on a guest's phone: the photos of groom and bride.     *)
(*                                                                         *)
(* When the page appears without either photo it calls getImageOf for      *)
(* both.  Each call reads the wedding's document in "Images" through       *)
(* FirestoreReads, on its own although it is the same document, and then   *)
(* downloads the file the document names.  The page can be left and appear *)
(* again while calls are out, and then asks again; answers and downloads   *)
(* run on the main queue, in the order in which they end.                  *)
(***************************************************************************)
EXTENDS FirestoreReads

CONSTANTS
    MaxVisits    \* bound: appearances that ask

Persons == {"groom", "bride"}

ASSUME CallsAreOfVisits == MaxVisits \in Nat /\ Calls = Persons \X (1..MaxVisits)

VARIABLES
    image,       \* groomImage and brideImage: 0 if nil, else the visit they are from
    loading,     \* calls whose download is running
    visits,      \* appearances that have asked
    overlapped   \* history: one of them asked while an earlier call was out

page == <<image, loading, visits, overlapped>>
introduction == <<vars, page>>

IntroductionTypeOK ==
    /\ TypeOK
    /\ image \in [Persons -> 0..MaxVisits]
    /\ loading \subseteq Calls
    /\ visits \in 0..MaxVisits
    /\ overlapped \in BOOLEAN

\* A call that has not come to its end: not answered, or downloading.
Out(c) == c \in asked /\ (answers[c] = <<>> \/ c \in loading)

IntroductionInit ==
    /\ Init
    /\ image = [p \in Persons |-> 0] /\ loading = {}
    /\ visits = 0 /\ overlapped = FALSE

\* Fault: the page asks if either photo is missing.
AppearIfEither ==
    /\ visits < MaxVisits
    /\ \E p \in Persons : image[p] = 0
    /\ visits' = visits + 1
    /\ overlapped' = (overlapped \/ \E c \in Calls : Out(c))
    /\ work' = work \o <<<<"add", <<"groom", visits'>>>>, <<"add", <<"bride", visits'>>>>>>
    /\ asked' = asked \cup (Persons \X {visits'})
    /\ UNCHANGED <<main, muted, answers, local, status, remote, connection,
                   server, allowed, floor, image, loading>>

\* onAppear: both are asked for, if neither is there.
Appear ==
    /\ visits < MaxVisits
    /\ \A p \in Persons : image[p] = 0
    /\ visits' = visits + 1
    /\ overlapped' = (overlapped \/ \E c \in Calls : Out(c))
    /\ work' = work \o <<<<"add", <<"groom", visits'>>>>, <<"add", <<"bride", visits'>>>>>>
    /\ asked' = asked \cup (Persons \X {visits'})
    /\ UNCHANGED <<main, muted, answers, local, status, remote, connection,
                   server, allowed, floor, image, loading>>

\* The next event on the main queue, and what getImageOf's closure does with the
\* answer: a document starts the download, a missing one calls back without photo
\* and without error, an error is reported.
GetImageOf ==
    /\ OnEvent
    /\ LET e == Head(main)
           kind == IF e.call \in muted THEN "none" ELSE AnswerTo(e).kind
       IN  /\ loading' = IF kind = "document" THEN loading \cup {e.call} ELSE loading
           /\ image' = IF kind = "absent" THEN [image EXCEPT ![e.call[1]] = 0] ELSE image
    /\ UNCHANGED <<visits, overlapped>>

\* retrieveImage has the photo.
Retrieved(c) ==
    /\ c \in loading
    /\ loading' = loading \ {c}
    /\ image' = [image EXCEPT ![c[1]] = c[2]]
    /\ UNCHANGED <<vars, visits, overlapped>>

\* retrieveImage fails: getImageOf does not call back.
RetrieveFailed(c) ==
    /\ c \in loading
    /\ loading' = loading \ {c}
    /\ UNCHANGED <<vars, image, visits, overlapped>>

IntroductionNext ==
    \/ Appear \/ GetImageOf
    \/ \E c \in Calls : Retrieved(c) \/ RetrieveFailed(c)
    \/ Background /\ UNCHANGED page

IntroductionSpec == IntroductionInit /\ [][IntroductionNext]_introduction

-----------------------------------------------------------------------------
\* A photo that is shown is taken away or fetched again only if the page had asked
\* again while an earlier call was out: then the one whose download ends last stays.
PhotosStay ==
    [][\A p \in Persons : image[p] # 0 /\ image'[p] # image[p] => overlapped]_introduction
=============================================================================
