-------------------------- MODULE IntroductionProofs --------------------------
(***************************************************************************)
(* IntroductionPage and the read path under it are correct for any number  *)
(* of visits.                                                              *)
(*                                                                         *)
(* A page that appears makes two calls at once, which is a step of the     *)
(* read path; so its invariant holds here too.  The page's own invariant   *)
(* says which calls can still be out.                                      *)
(***************************************************************************)
EXTENDS Introduction, FirestoreReadsProofs

\* The calls made are those of the visits; one that is downloading has been answered;
\* unless visits have overlapped, only the calls of the last one are out, and none
\* for a photo that is there.
PageInv ==
    /\ image \in [Persons -> 0..MaxVisits]
    /\ loading \subseteq Calls
    /\ visits \in 0..MaxVisits
    /\ overlapped \in BOOLEAN
    /\ asked = Persons \X (1..visits)
    /\ \A c \in loading : c \in asked /\ answers[c] # <<>>
    /\ ~overlapped => \A c \in Calls : Out(c) => c[2] = visits /\ image[c[1]] = 0

\* The inductive invariant.
PageIInv == IInv /\ PageInv

-----------------------------------------------------------------------------
(***************************************************************************)
(* Steps of the page are steps of the read path.                           *)
(***************************************************************************)

\* A page that appears makes two calls nobody has made.
LEMMA AppearAsks ==
    ASSUME PageIInv, Appear
    PROVE  \E new \in Seq(Calls) : Asking(new)
<1> DEFINE v == visits + 1
           g == <<"groom", v>>
           b == <<"bride", v>>
           new == <<g, b>>
<1>1. /\ visits < MaxVisits /\ visits' = v
      /\ work' = work \o << <<"add", <<"groom", visits'>>>>, <<"add", <<"bride", visits'>>>> >>
      /\ asked' = asked \cup (Persons \X {visits'})
      /\ UNCHANGED <<main, muted, answers, local, status, remote, connection, server, allowed, floor>>
  BY DEF Appear
<1>2. visits \in Nat /\ MaxVisits \in Nat /\ asked = Persons \X (1..visits) /\ Calls = Persons \X (1..MaxVisits)
  BY CallsAreOfVisits DEF PageIInv, PageInv
<1>3. v \in 1..MaxVisits /\ v \notin 1..visits
  BY <1>1, <1>2
<1>4. work' = work \o << <<"add", g>>, <<"add", b>> >> /\ asked' = asked \cup (Persons \X {v})
  BY <1>1
<1> HIDE DEF v
<1>5. g \in Calls /\ b \in Calls /\ g # b /\ g \notin asked /\ b \notin asked /\ Persons \X {v} = {g, b}
  BY <1>2, <1>3 DEF Persons
<1> HIDE DEF g, b
<1>6. /\ new \in Seq(Calls) /\ Len(new) = 2 /\ new[1] = g /\ new[2] = b /\ \A i \in 1..2 : i = 1 \/ i = 2
  BY <1>5
<1>7. Range(new) = {g, b}
  <2>1. \A x : x \in Range(new) <=> \E i \in 1..Len(new) : new[i] = x
    BY <1>6, MemberIs
  <2>2. 1 \in 1..2 /\ 2 \in 1..2
    OBVIOUS
  <2>3. \A x : x \in Range(new) <=> x = g \/ x = b
    BY <1>6, <2>1, <2>2
  <2> QED BY <2>3
<1>8. [i \in 1..2 |-> <<"add", new[i]>>] = << <<"add", g>>, <<"add", b>> >>
  OBVIOUS
<1> HIDE DEF new
<1> QED BY <1>1, <1>4, <1>5, <1>6, <1>7, <1>8 DEF Asking

\* So is every step of the page.
LEMMA PageStep ==
    ASSUME PageIInv, [IntroductionNext]_introduction
    PROVE  Step
BY AppearAsks DEF IntroductionNext, introduction, Step, GetImageOf, Retrieved, RetrieveFailed

-----------------------------------------------------------------------------
(***************************************************************************)
(* The page.                                                               *)
(***************************************************************************)

\* Calls go on having been asked and, once answered, having been answered; a step of
\* the client or the server asks and answers nothing.
LEMMA BackgroundIs ==
    ASSUME Background
    PROVE  UNCHANGED <<asked, answers>>
BY DEF Background, AddQueryListener, RemoveQueryListener, ResumeStartWithCredentials, CredentialsFail,
   BackoffElapsed, OnlineStateTimeout, IdleTimeout, OnStreamLost, OnWatchStreamClose, RestartNetwork,
   OnTargetResponse, RaiseWatchSnapshot, ProcessTargetError, ServerWatch, ServerUnwatch, ServerSnapshot,
   ServerChange, queues

\* The event that is handled: a call that is muted has been answered and stays so;
\* another one has not, and is now.
LEMMA HandledIs ==
    ASSUME PageIInv, OnEvent, NEW c, c = Head(main).call
    PROVE  /\ c \in Calls /\ c \in asked /\ c[1] \in Persons
           /\ asked' = asked /\ answers'[c] # <<>>
           /\ \A x \in Calls \ {c} : answers'[x] = answers[x]
           /\ c \notin muted => answers[c] = <<>>
           /\ c \in muted => answers' = answers
<1>1. TypeOK /\ CallInv /\ main # <<>> /\ asked' = asked
  BY DEF PageIInv, IInv, OnEvent
<1>2. /\ Head(main) = main[1] /\ 1 \in 1..Len(main) /\ c \in Calls /\ AnswerTo(Head(main)) \in Answer
  BY <1>1, EventIs
<1>3. HasEvent(c)
  BY <1>2 DEF HasEvent
<1>4. c \in asked /\ c[1] \in Persons
  <2>1. c \in asked
    BY <1>1, <1>2, <1>3 DEF CallInv, WorkInv, Untouched
  <2> QED BY <1>2, <2>1, CallsAreOfVisits
<1>5. CASE c \in muted
  <2>1. answers' = answers
    BY <1>5 DEF OnEvent
  <2>2. answers[c] # <<>>
    BY <1>1, <1>2, <1>5 DEF CallInv, AnswerInv
  <2> QED BY <1>1, <1>2, <1>4, <1>5, <2>1, <2>2
<1>6. CASE c \notin muted
  <2>1. answers[c] = <<>>
    BY <1>1, <1>2, <1>3, <1>6 DEF CallInv, AnswerInv
  <2> DEFINE a == AnswerTo(Head(main))
  <2>2. answers' = [answers EXCEPT ![c] = Append(answers[c], a)]
    BY <1>6 DEF OnEvent
  <2> HIDE DEF a
  <2>3. answers \in [Calls -> Seq(Answer)] /\ answers[c] \in Seq(Answer) /\ a \in Answer
    BY <1>1, <1>2 DEF TypeOK, a
  <2>4. Append(answers[c], a) # <<>>
    BY <2>3, AppendIs
  <2>5. answers'[c] # <<>> /\ \A x \in Calls \ {c} : answers'[x] = answers[x]
    BY <1>2, <2>2, <2>3, <2>4
  <2> QED BY <1>1, <1>2, <1>4, <1>6, <2>1, <2>5
<1> QED BY <1>5, <1>6

\* A step keeps the page's invariant.
LEMMA StepPage ==
    ASSUME PageIInv, [IntroductionNext]_introduction
    PROVE  PageInv'
<1>0. /\ image \in [Persons -> 0..MaxVisits] /\ loading \subseteq Calls /\ visits \in 0..MaxVisits
      /\ overlapped \in BOOLEAN /\ asked = Persons \X (1..visits)
      /\ \A c \in loading : c \in asked /\ answers[c] # <<>>
      /\ ~overlapped => \A c \in Calls : Out(c) => c[2] = visits /\ image[c[1]] = 0
  BY DEF PageIInv, PageInv
<1>1. MaxVisits \in Nat /\ Calls = Persons \X (1..MaxVisits)
  BY CallsAreOfVisits
<1>2. CASE UNCHANGED <<page, asked, answers>>
  BY <1>0, <1>2 DEF PageInv, page, Out
<1>3. CASE Appear
  <2>1. /\ visits < MaxVisits /\ visits' = visits + 1 /\ overlapped' = (overlapped \/ \E c \in Calls : Out(c))
        /\ asked' = asked \cup (Persons \X {visits'}) /\ UNCHANGED <<answers, image, loading>>
        /\ \A p \in Persons : image[p] = 0
    BY <1>3 DEF Appear
  <2>2. visits' \in 0..MaxVisits /\ 1..visits' = 1..visits \cup {visits'}
    BY <1>0, <1>1, <2>1
  <2>3. asked' = Persons \X (1..visits')
    BY <1>0, <2>1, <2>2
  <2>4. overlapped' \in BOOLEAN
    BY <2>1, Zenon
  <2>5. ASSUME ~overlapped', NEW c \in Calls, Out(c)' PROVE c[2] = visits' /\ image'[c[1]] = 0
    <3>1. ~Out(c)
      BY <2>1, <2>5, Zenon
    <3>2. c \in Persons \X {visits'}
      BY <1>0, <2>1, <2>5, <3>1 DEF Out
    <3> QED BY <2>1, <3>2
  <2> QED BY <1>0, <2>1, <2>2, <2>3, <2>4, <2>5 DEF PageInv
<1>4. CASE GetImageOf
  <2>1. PICK c : c = Head(main).call
    OBVIOUS
  <2>2. OnEvent /\ UNCHANGED <<visits, overlapped>>
    BY <1>4 DEF GetImageOf
  <2>3. /\ c \in Calls /\ c \in asked /\ c[1] \in Persons
        /\ asked' = asked /\ answers'[c] # <<>>
        /\ \A x \in Calls \ {c} : answers'[x] = answers[x]
        /\ c \notin muted => answers[c] = <<>>
        /\ c \in muted => answers' = answers
    BY <2>1, <2>2, HandledIs
  <2> DEFINE kind == IF c \in muted THEN "none" ELSE AnswerTo(Head(main)).kind
  <2>4. /\ loading' = IF kind = "document" THEN loading \cup {c} ELSE loading
        /\ image' = IF kind = "absent" THEN [image EXCEPT ![c[1]] = 0] ELSE image
    BY <1>4, <2>1 DEF GetImageOf
  <2>5. c \in muted => kind = "none"
    OBVIOUS
  <2> HIDE DEF kind
  <2>6. \A x \in Calls : Out(x)' => Out(x)
    BY <1>0, <2>3, <2>4, <2>5 DEF Out
  <2>7. image' \in [Persons -> 0..MaxVisits] /\ \A p \in Persons : image[p] = 0 => image'[p] = 0
    BY <1>0, <1>1, <2>3, <2>4
  <2>8. loading' \subseteq Calls /\ \A x \in loading' : x \in asked' /\ answers'[x] # <<>>
    BY <1>0, <2>3, <2>4
  <2>9. \A x \in Calls : x[1] \in Persons
    BY <1>1
  <2> QED BY <1>0, <2>2, <2>3, <2>6, <2>7, <2>8, <2>9 DEF PageInv
<1>5. ASSUME NEW c \in Calls, Retrieved(c) \/ RetrieveFailed(c) PROVE PageInv'
  <2>1. /\ c \in loading /\ loading' = loading \ {c} /\ UNCHANGED <<asked, answers, visits, overlapped>>
        /\ image' \in {image, [image EXCEPT ![c[1]] = c[2]]}
    BY <1>5 DEF Retrieved, RetrieveFailed, vars, queues
  <2>2. Out(c) /\ c[1] \in Persons /\ c[2] \in 0..MaxVisits
    BY <1>0, <1>1, <2>1 DEF Out
  <2>3. image' \in [Persons -> 0..MaxVisits] /\ \A p \in Persons : p # c[1] => image'[p] = image[p]
    BY <1>0, <2>1, <2>2
  <2>4. ASSUME ~overlapped, NEW x \in Calls, Out(x)' PROVE x[2] = visits /\ image'[x[1]] = 0
    <3>1. Out(x) /\ x # c
      BY <1>0, <2>1, <2>4 DEF Out
    <3>2. x[2] = visits /\ image[x[1]] = 0 /\ c[2] = visits
      BY <1>0, <2>2, <2>4, <3>1
    <3>3. x[1] # c[1] /\ x[1] \in Persons
      BY <1>1, <3>1, <3>2
    <3> QED BY <2>3, <3>2, <3>3
  <2> QED BY <1>0, <2>1, <2>3, <2>4 DEF PageInv
<1>6. CASE Background /\ UNCHANGED page
  BY <1>2, <1>6, BackgroundIs
<1>7. CASE UNCHANGED introduction
  BY <1>2, <1>7 DEF introduction, vars, queues
<1> QED BY <1>3, <1>4, <1>5, <1>6, <1>7 DEF IntroductionNext

\* The invariant of the page and of the read path holds.
LEMMA PageIInvAlways == IntroductionSpec => []PageIInv
<1>1. IntroductionInit => PageIInv
  <2> SUFFICES ASSUME IntroductionInit PROVE PageIInv
    OBVIOUS
  <2>1. IInv
    BY InitIInv DEF IntroductionInit
  <2>2. /\ image = [p \in Persons |-> 0] /\ loading = {} /\ visits = 0 /\ overlapped = FALSE /\ asked = {}
        /\ \A c \in Calls : ~Out(c)
    BY DEF IntroductionInit, Init, Out
  <2>3. overlapped \in BOOLEAN
    BY <2>2, Zenon
  <2>4. MaxVisits \in Nat /\ 1..0 = {}
    BY CallsAreOfVisits
  <2> QED BY <2>1, <2>2, <2>3, <2>4 DEF PageIInv, PageInv
<1>2. PageIInv /\ [IntroductionNext]_introduction => PageIInv'
  BY PageStep, StepIInv, StepPage DEF PageIInv
<1> QED BY <1>1, <1>2, PTL DEF IntroductionSpec

-----------------------------------------------------------------------------
(***************************************************************************)
(* What the page and the read path promise.                                *)
(***************************************************************************)

\* The variables of the page and of the client keep their types.
THEOREM TypeCorrect == IntroductionSpec => []IntroductionTypeOK
<1>1. PageIInv => IntroductionTypeOK
  BY Zenon DEF PageIInv, IInv, PageInv, IntroductionTypeOK
<1> QED BY <1>1, PageIInvAlways, PTL

\* A callback of getDocument is called at most once, although its listener may be told
\* more before the worker queue has removed it.
THEOREM CallsAnsweredOnce == IntroductionSpec => []AnsweredOnce
<1>1. PageIInv => AnsweredOnce
  BY IInvIsSafe DEF PageIInv, ReadsAreSafe
<1> QED BY <1>1, PageIInvAlways, PTL

\* Absence is reported only of a document that did not exist when the listen began that
\* the call shares: RaiseWatchSnapshot does not take for an answer what the server sent
\* for an earlier listen.
THEOREM AbsenceIsFresh == IntroductionSpec => []AnswersAreFresh
<1>1. PageIInv => AnswersAreFresh
  BY IInvIsSafe DEF PageIInv, ReadsAreSafe
<1> QED BY <1>1, PageIInvAlways, PTL

\* No HARD_ASSERT of OnlineStateTracker and of the stream's idle timer fails.
THEOREM AssertionsAlwaysHold == IntroductionSpec => []AssertionsHold
<1>1. PageIInv => AssertionsHold
  BY IInvIsSafe DEF PageIInv, ReadsAreSafe
<1> QED BY <1>1, PageIInvAlways, PTL

\* outstanding_responses_ is the number of requests on the connection that are not
\* answered, whatever sequence of listens and removals came before.
THEOREM ResponsesAreCounted == IntroductionSpec => []OutstandingIsExact
<1>1. PageIInv => OutstandingIsExact
  BY IInvIsSafe DEF PageIInv, ReadsAreSafe
<1> QED BY <1>1, PageIInvAlways, PTL

\* A call of getDocument without an answer is in one of the queues, or listens to a
\* stream that is being started or on which an answer is coming.
THEOREM NoCallIsForgotten == IntroductionSpec => []AnswerIsComing
<1>1. PageIInv => AnswerIsComing
  BY IInvIsSafe DEF PageIInv, ReadsAreSafe
<1> QED BY <1>1, PageIInvAlways, PTL

\* onAppear takes away or fetches again a photo that is shown only if the page has asked
\* twice at the same time.
THEOREM PhotosAlwaysStay == IntroductionSpec => PhotosStay
<1>1. ASSUME PageIInv, [IntroductionNext]_introduction
      PROVE  [\A p \in Persons : image[p] # 0 /\ image'[p] # image[p] => overlapped]_introduction
  <2> SUFFICES ASSUME NEW p \in Persons, image[p] # 0, image'[p] # image[p], ~overlapped PROVE FALSE
    OBVIOUS
  <2>0. /\ image \in [Persons -> 0..MaxVisits] /\ loading \subseteq Calls
        /\ \A c \in loading : c \in asked
        /\ \A c \in Calls : Out(c) => image[c[1]] = 0
    BY <1>1 DEF PageIInv, PageInv
  <2>1. CASE Appear
    BY <2>1 DEF Appear
  <2>2. CASE GetImageOf
    <3>1. PICK c : c = Head(main).call
      OBVIOUS
    <3>2. OnEvent
      BY <2>2 DEF GetImageOf
    <3>3. c \in Calls /\ c \in asked /\ c[1] \in Persons /\ (c \notin muted => answers[c] = <<>>)
      BY <1>1, <3>1, <3>2, HandledIs
    <3>4. c \notin muted /\ image' = [image EXCEPT ![c[1]] = 0]
      BY <2>2, <3>1 DEF GetImageOf
    <3>5. c[1] = p
      BY <2>0, <3>3, <3>4
    <3>6. Out(c)
      BY <3>3, <3>4 DEF Out
    <3> QED BY <2>0, <3>3, <3>5, <3>6
  <2>3. ASSUME NEW c \in Calls, Retrieved(c) \/ RetrieveFailed(c) PROVE FALSE
    <3>1. c \in loading /\ image' \in {image, [image EXCEPT ![c[1]] = c[2]]}
      BY <2>3 DEF Retrieved, RetrieveFailed
    <3>2. Out(c) /\ image[c[1]] = 0
      BY <2>0, <3>1 DEF Out
    <3>3. c[1] = p
      BY <2>0, <3>1
    <3> QED BY <3>2, <3>3
  <2>4. CASE UNCHANGED image
    BY <2>4
  <2> QED BY <1>1, <2>1, <2>2, <2>3, <2>4 DEF IntroductionNext, introduction, page
<1> QED BY <1>1, PageIInvAlways, PTL DEF IntroductionSpec, PhotosStay
=============================================================================
