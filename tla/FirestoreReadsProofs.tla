------------------------ MODULE FirestoreReadsProofs ------------------------
(***************************************************************************)
(* The read path is correct for any calls, any versions of the document    *)
(* and any length of the main queue.                                       *)
(*                                                                         *)
(* The parts of the inductive invariant rest on one another: what each     *)
(* call goes through from its listener to its answer (CallInv), how the    *)
(* connection and the count of outstanding responses correspond (ConnInv), *)
(* that an answer is under way to whoever waits for one (ComingInv), how   *)
(* old the document may be that is under way to a listener (FreshInv), and *)
(* the state of the online-state tracker, which is AssertionsHold itself.  *)
(***************************************************************************)
EXTENDS FirestoreReads, FiniteSetTheorems, SequenceTheorems, WellFoundedInduction, TLAPS

\* An event is under way to call c.
HasEvent(c) == \E i \in 1..Len(main) : main[i].call = c

\* Nothing has been done yet for call c.
Untouched(c) ==
    /\ c \notin Range(listeners) /\ c \notin raised
    /\ c \notin muted /\ answers[c] = <<>>
    /\ ~HasEvent(c)

\* A listener is added once, for a call nothing has been done for; it is removed for
\* a call that has been answered.
WorkInv ==
    /\ \A i \in 1..Len(work) : work[i][1] = "add" =>
          /\ work[i][2] \in asked /\ Untouched(work[i][2])
          /\ \A j \in 1..Len(work) : work[j] = work[i] => j = i
    /\ \A i \in 1..Len(work) : work[i][1] = "remove" => answers[work[i][2]] # <<>>
    /\ \A c \in Calls : c \notin asked => Untouched(c)

\* Listeners are different calls, and none is told anything after an error.
ListenersInv ==
    /\ \A i, j \in 1..Len(listeners) : listeners[i] = listeners[j] => i = j
    /\ \A i \in 1..Len(main) : main[i].kind = "error" =>
          /\ main[i].call \notin Range(listeners)
          /\ \A j \in 1..Len(main) : j > i => main[j].call # main[i].call

\* A call is answered at most once: then it is muted, or nothing more comes.  One that
\* has not been answered is to be added, has an event coming, or listens.
AnswerInv ==
    \A c \in Calls :
        /\ Len(answers[c]) <= 1
        /\ c \in muted => answers[c] # <<>>
        /\ answers[c] # <<>> /\ c \notin muted => ~HasEvent(c) /\ c \notin Range(listeners)
        /\ c \in raised => answers[c] # <<>> \/ HasEvent(c)
        /\ c \in asked /\ answers[c] = <<>> =>
              <<"add", c>> \in Range(work) \/ HasEvent(c) \/ c \in Range(listeners)

\* What calls go through.
CallInv == WorkInv /\ ListenersInv /\ AnswerInv

\* No request, response or snapshot without an open stream; the last request on the
\* wire is about the listen there is; and the server's target is or will be there.
ConnInv ==
    /\ Listening => IsStarted(stream)
    /\ stream # "open" =>
          wire = <<>> /\ replies = <<>> /\ target = "none" /\ outstanding = 0
    /\ Listening /\ wire # <<>> => wire[Len(wire)] = "watch"
    /\ allowed => \A i \in 1..Len(replies) : replies[i] # Rejected
    /\ ~allowed => target = "none" /\ \A i \in 1..Len(replies) : replies[i].type # "snapshot"
    /\ OutstandingIsExact

\* No response follows position i of the replies.
LastFrom(i) == \A j \in 1..Len(replies) : j > i => replies[j] \notin {Added, Removed}

\* On an open stream without unanswered requests, a view that is not in sync gets its
\* snapshot, and a client that is not online gets a message.
ComingInv ==
    /\ Listening /\ view.synced => \A i \in 1..Len(listeners) : listeners[i] \in raised
    /\ Listening /\ stream = "open" /\ wire = <<>> =>
          /\ ~allowed => \E i \in 1..Len(replies) : replies[i] = Rejected
          /\ allowed => target # "none"
          /\ allowed /\ target = "current" /\ (~view.synced \/ online # "online") =>
                \E i \in 1..Len(replies) : replies[i].type = "snapshot" /\ LastFrom(i)

\* Listeners share the version their listen began with, and nothing that is told or
\* will be told them as the server's is older.
FreshInv ==
    /\ \A c \in Calls : floor[c] <= server
    /\ \A i, j \in 1..Len(listeners) : floor[listeners[i]] = floor[listeners[j]]
    /\ \A i \in 1..Len(listeners) :
          /\ view.synced => view.version >= floor[listeners[i]]
          /\ wire = <<>> =>
                \A k \in 1..Len(replies) : replies[k].type = "snapshot" /\ LastFrom(k) =>
                    replies[k].version >= floor[listeners[i]]
    /\ \A i \in 1..Len(main) : main[i].kind = "server" => main[i].version >= floor[main[i].call]
    /\ AnswersAreFresh

\* The inductive invariant.
IInv == TypeOK /\ AssertionsHold /\ CallInv /\ ConnInv /\ ComingInv /\ FreshInv
-----------------------------------------------------------------------------

(***************************************************************************)
(* The operators.                                                          *)
(***************************************************************************)

\* A set of natural numbers that is not empty has a least one: what stands in for
\* induction below.
LEMMA Least ==
    ASSUME NEW T, T \subseteq Nat, T # {}
    PROVE  \E m \in T : \A n \in T : m <= n
<1> DEFINE R == OpToRel(<, Nat)
<1>1. IsWellFoundedOn(R, Nat)
  BY NatLessThanWellFounded, Zenon
<1>2. R = {ss \in Nat \X Nat : ss[1] < ss[2]}
  BY DEF OpToRel
<1> HIDE DEF R
<1>3. PICK m \in T : \A n \in T : <<n, m>> \notin R
  BY <1>1, WFMin
<1>4. \A n \in T : ~(n < m)
  BY <1>2, <1>3
<1> QED BY <1>4

\* What Only selects: by induction on the length of the sequence, first that there is a
\* function as its definition asks for, then what that function's values are.
LEMMA OnlyIs ==
    ASSUME NEW X, NEW s \in Seq(X), NEW S
    PROVE  /\ Only(s, S) \in Seq(X)
           /\ \A x : x \in Range(Only(s, S)) <=> x \in Range(s) /\ x \in S
<1> DEFINE n == Len(s)
           Extend(q, i) == IF s[i] \in S THEN Append(q, s[i]) ELSE q
           Is(q, i) == /\ q \in Seq(X)
                       /\ \A x : (\E j \in 1..Len(q) : q[j] = x) <=> (\E j \in 1..i : s[j] = x /\ x \in S)
           Builds(g, k) == /\ g[0] = <<>>
                           /\ \A i \in 1..k : g[i] = Extend(g[i - 1], i)
           Good(k) == \E g : g = [i \in 0..k |-> g[i]] /\ Builds(g, k)
           Bad == {k \in 0..n : ~Good(k)}
<1>1. n \in Nat
  OBVIOUS
<1>2. Is(<<>>, 0)
  BY EmptySeq
<1>3. ASSUME NEW k \in 1..n, NEW q, Is(q, k - 1) PROVE Is(Extend(q, k), k)
  <2> DEFINE v == Extend(q, k)
  <2>1. q \in Seq(X) /\ s[k] \in X /\ k \in Nat
    BY <1>1, <1>3, ElementOfSeq
  <2>2. /\ v \in Seq(X)
        /\ s[k] \in S => /\ Len(v) = Len(q) + 1
                         /\ \A j \in 1..Len(q) : v[j] = q[j]
                         /\ v[Len(q) + 1] = s[k]
        /\ s[k] \notin S => v = q
    BY <2>1, AppendProperties
  <2> HIDE DEF v
  <2>3. ASSUME NEW x
        PROVE  (\E j \in 1..Len(v) : v[j] = x) <=> (\E j \in 1..k : s[j] = x /\ x \in S)
    <3>1. (\E j \in 1..Len(q) : q[j] = x) <=> (\E j \in 1..(k - 1) : s[j] = x /\ x \in S)
      BY <1>3
    <3>2. (\A j \in 1..k : j \in 1..(k - 1) \/ j = k) /\ (\A j \in 1..(k - 1) : j \in 1..k) /\ k \in 1..k
      BY <2>1
    <3>3. CASE s[k] \notin S
      BY <2>2, <3>1, <3>2, <3>3
    <3>4. CASE s[k] \in S
      <4>1. Len(q) \in Nat /\ Len(v) = Len(q) + 1
        BY <2>1, <2>2, <3>4
      <4>2. /\ \A j \in 1..Len(v) : j \in 1..Len(q) \/ j = Len(q) + 1
            /\ \A j \in 1..Len(q) : j \in 1..Len(v)
            /\ Len(q) + 1 \in 1..Len(v)
        BY ONLY <4>1
      <4> QED BY <2>2, <3>1, <3>2, <3>4, <4>2
    <3> QED BY <3>3, <3>4
  <2> QED BY <2>2, <2>3 DEF v
<1> HIDE DEF Is, Extend
<1>4. Good(0)
  <2> DEFINE g == [i \in 0..0 |-> <<>>]
  <2>1. g[0] = <<>> /\ (\A i \in 0..0 : i = 0) /\ ~(\E i \in 1..0 : TRUE)
    OBVIOUS
  <2>2. g = [i \in 0..0 |-> g[i]]
    OBVIOUS
  <2> HIDE DEF g
  <2>3. Builds(g, 0)
    BY <2>1
  <2> QED BY <2>2, <2>3
<1>5. ASSUME NEW k \in 1..n, Good(k - 1) PROVE Good(k)
  <2>1. PICK h : Builds(h, k - 1)
    BY <1>5
  <2> DEFINE v == Extend(h[k - 1], k)
             g == [i \in 0..k |-> IF i = k THEN v ELSE h[i]]
  <2>2. k - 1 \in 0..(k - 1) /\ k \in Nat \ {0}
    BY <1>1
  <2>4. g[k] = v /\ \A i \in 0..(k - 1) : g[i] = h[i]
    BY <2>2
  <2>5. g = [i \in 0..k |-> g[i]]
    OBVIOUS
  <2> HIDE DEF g
  <2>6. /\ \A i \in 0..k : i = k \/ i \in 0..(k - 1)
        /\ \A i \in 1..k : i = k \/ i \in 1..(k - 1)
        /\ \A i \in 1..k : i - 1 \in 0..(k - 1)
        /\ 0 \in 0..(k - 1)
    BY ONLY <2>2
  <2>7. Builds(g, k)
    <3>1. g[0] = <<>>
      BY <2>1, <2>4, <2>6
    <3>2. ASSUME NEW i \in 1..k PROVE g[i] = Extend(g[i - 1], i)
      <4>1. g[i - 1] = h[i - 1]
        BY <2>4, <2>6
      <4>2. CASE i = k
        BY <2>4, <4>1, <4>2
      <4>3. CASE i \in 1..(k - 1)
        BY <2>1, <2>4, <2>6, <4>1, <4>3
      <4> QED BY <2>6, <4>2, <4>3
    <3> QED BY <3>1, <3>2
  <2> QED BY <2>5, <2>7
<1> HIDE DEF Good
<1>6. Good(n)
  <2> SUFFICES ASSUME ~Good(n) PROVE FALSE
    OBVIOUS
  <2>1. n \in Bad /\ Bad \subseteq Nat
    BY <1>1
  <2>2. PICK m \in Bad : \A k \in Bad : m <= k
    BY <2>1, Least
  <2>3. m \in 0..n /\ ~Good(m)
    OBVIOUS
  <2>4. m \in 1..n /\ m - 1 \in 0..n /\ ~(m <= m - 1)
    BY <1>1, <1>4, <2>3
  <2>5. Good(m - 1)
    BY <2>2, <2>4
  <2> QED BY <1>5, <2>3, <2>4, <2>5
<1>7. PICK g : g = [i \in 0..n |-> g[i]] /\ Builds(g, n)
  BY <1>6 DEF Good
<1> DEFINE Body(f, i) == IF i = 0 THEN <<>> ELSE IF s[i] \in S THEN Append(f[i - 1], s[i]) ELSE f[i - 1]
           F == CHOOSE f : f = [i \in 0..n |-> Body(f, i)]
<1>8. g = [i \in 0..n |-> Body(g, i)]
  <2>1. \A i \in 0..n : i = 0 \/ i \in 1..n
    BY <1>1
  <2>2. \A i \in 0..n : g[i] = Body(g, i)
    BY <1>7, <2>1 DEF Extend
  <2> HIDE DEF Body
  <2> QED BY <1>7, <2>2
<1>9. F = [i \in 0..n |-> Body(F, i)]
  BY <1>8
<1>10. Only(s, S) = F[n]
  BY DEF Only
<1> HIDE DEF F
<1>11. F[0] = <<>> /\ \A i \in 1..n : F[i] = Extend(F[i - 1], i)
  <2>1. 0 \in 0..n /\ \A i \in 1..n : i \in 0..n /\ i # 0
    BY <1>1
  <2>2. \A i \in 0..n : F[i] = Body(F, i)
    BY <1>9
  <2> QED BY <2>1, <2>2 DEF Extend
<1>12. Is(F[n], n)
  <2> DEFINE B == {k \in 0..n : ~Is(F[k], k)}
  <2> SUFFICES ASSUME ~Is(F[n], n) PROVE FALSE
    OBVIOUS
  <2>1. n \in B /\ B \subseteq Nat
    BY <1>1
  <2>2. PICK m \in B : \A k \in B : m <= k
    BY <2>1, Least
  <2>3. m \in 0..n /\ ~Is(F[m], m)
    OBVIOUS
  <2>4. m \in 1..n /\ m - 1 \in 0..n /\ ~(m <= m - 1)
    BY <1>1, <1>2, <1>11, <2>3
  <2>5. Is(F[m - 1], m - 1)
    BY <2>2, <2>4
  <2> QED BY <1>3, <1>11, <2>3, <2>4, <2>5
<1>13. Only(s, S) \in Seq(X)
  BY <1>10, <1>12 DEF Is
<1>14. \A q \in Seq(X) : Range(q) = {q[i] : i \in 1..Len(q)}
  BY RangeEquality
<1>15. ASSUME NEW x PROVE x \in Range(Only(s, S)) <=> x \in Range(s) /\ x \in S
  <2>1. (\E j \in 1..Len(F[n]) : F[n][j] = x) <=> (\E j \in 1..n : s[j] = x /\ x \in S)
    BY <1>12 DEF Is
  <2>2. x \in Range(Only(s, S)) <=> (\E j \in 1..Len(F[n]) : F[n][j] = x)
    BY <1>10, <1>13, <1>14
  <2>3. x \in Range(s) <=> (\E j \in 1..n : s[j] = x)
    BY <1>14
  <2> QED BY <2>1, <2>2, <2>3
<1> QED BY <1>13, <1>15

\* The members of a sequence.
LEMMA MemberIs ==
    ASSUME NEW X, NEW s \in Seq(X)
    PROVE  /\ Len(s) \in Nat
           /\ \A i \in 1..Len(s) : s[i] \in X /\ s[i] \in Range(s)
           /\ \A x : x \in Range(s) <=> \E i \in 1..Len(s) : s[i] = x
           /\ s = <<>> <=> Len(s) = 0
           /\ s = <<>> => Range(s) = {}
<1>0. Len(s) \in Nat
  OBVIOUS
<1>1. Range(s) = {s[i] : i \in 1..Len(s)}
  BY RangeEquality
<1>2. \A i \in 1..Len(s) : s[i] \in X
  BY ElementOfSeq
<1>3. s = <<>> <=> Len(s) = 0
  BY EmptySeq
<1>4. s = <<>> => Range(s) = {}
  BY <1>1, <1>3
<1> QED BY <1>0, <1>1, <1>2, <1>3, <1>4

\* The members of a sequence with one more behind.
LEMMA AppendIs ==
    ASSUME NEW X, NEW s \in Seq(X), NEW x \in X
    PROVE  /\ Append(s, x) \in Seq(X) /\ Len(Append(s, x)) = Len(s) + 1 /\ Append(s, x) # <<>>
           /\ \A i \in 1..Len(s) : i \in 1..Len(Append(s, x)) /\ Append(s, x)[i] = s[i]
           /\ Len(s) + 1 \in 1..Len(Append(s, x)) /\ Append(s, x)[Len(s) + 1] = x
           /\ \A i \in 1..Len(Append(s, x)) : i \in 1..Len(s) \/ i = Len(s) + 1
<1> DEFINE a == Append(s, x)
<1>1. /\ a \in Seq(X) /\ Len(a) = Len(s) + 1 /\ a # <<>> /\ Len(s) \in Nat
      /\ \A i \in 1..Len(s) : a[i] = s[i]
      /\ a[Len(s) + 1] = x
  BY AppendProperties
<1> HIDE DEF a
<1>2. /\ \A i \in 1..Len(s) : i \in 1..Len(a)
      /\ Len(s) + 1 \in 1..Len(a)
      /\ \A i \in 1..Len(a) : i \in 1..Len(s) \/ i = Len(s) + 1
  BY <1>1
<1> QED BY <1>1, <1>2 DEF a

\* The members of a sequence without the first.
LEMMA TailIs ==
    ASSUME NEW X, NEW s \in Seq(X), s # <<>>
    PROVE  /\ Tail(s) \in Seq(X) /\ Len(Tail(s)) = Len(s) - 1
           /\ 1 \in 1..Len(s) /\ Head(s) = s[1] /\ Head(s) \in X
           /\ \A i \in 1..Len(Tail(s)) : i + 1 \in 1..Len(s) /\ i + 1 > 1 /\ Tail(s)[i] = s[i + 1]
           /\ \A i \in 1..Len(s) : i = 1 \/ (i - 1 \in 1..Len(Tail(s)) /\ Tail(s)[i - 1] = s[i])
<1> DEFINE t == Tail(s)
<1>1. /\ t \in Seq(X) /\ Len(t) = Len(s) - 1 /\ Head(s) \in X
      /\ \A i \in 1..Len(t) : t[i] = s[i + 1]
  BY HeadTailProperties
<1>2. Len(s) \in Nat \ {0} /\ Head(s) = s[1]
  BY EmptySeq
<1> HIDE DEF t
<1>3. Len(t) = Len(s) - 1
  BY <1>1
<1>4. /\ 1 \in 1..Len(s)
      /\ \A i \in 1..Len(t) : i + 1 \in 1..Len(s) /\ i + 1 > 1
      /\ \A i \in 1..Len(s) : i = 1 \/ (i - 1 \in 1..Len(t) /\ (i - 1) + 1 = i)
  BY ONLY <1>2, <1>3
<1>5. \A i \in 1..Len(s) : i = 1 \/ (i - 1 \in 1..Len(t) /\ t[i - 1] = s[i])
  BY <1>1, <1>4
<1> QED BY <1>1, <1>2, <1>4, <1>5 DEF t

\* The members of two sequences together.
LEMMA ConcatIs ==
    ASSUME NEW X, NEW s \in Seq(X), NEW t \in Seq(X)
    PROVE  /\ s \o t \in Seq(X) /\ Len(s \o t) = Len(s) + Len(t)
           /\ \A i \in 1..Len(s) : i \in 1..Len(s \o t) /\ (s \o t)[i] = s[i]
           /\ \A i \in 1..Len(t) : Len(s) + i \in 1..Len(s \o t) /\ (s \o t)[Len(s) + i] = t[i]
           /\ \A i \in 1..Len(s \o t) :
                 \/ i \in 1..Len(s)
                 \/ i - Len(s) \in 1..Len(t) /\ i > Len(s) /\ (s \o t)[i] = t[i - Len(s)]
<1> DEFINE z == s \o t
<1>1. /\ z \in Seq(X) /\ Len(z) = Len(s) + Len(t)
      /\ \A i \in 1..(Len(s) + Len(t)) : z[i] = IF i <= Len(s) THEN s[i] ELSE t[i - Len(s)]
  BY ConcatProperties
<1>2. Len(s) \in Nat /\ Len(t) \in Nat /\ Len(z) = Len(s) + Len(t)
  BY <1>1
<1> HIDE DEF z
<1>3. \A i \in 1..Len(s) : i \in 1..Len(z) /\ i <= Len(s)
  BY ONLY <1>2
<1>4. \A i \in 1..Len(t) : Len(s) + i \in 1..Len(z) /\ ~(Len(s) + i <= Len(s)) /\ (Len(s) + i) - Len(s) = i
  BY ONLY <1>2
<1>5. \A i \in 1..Len(z) : i \in 1..Len(s) \/ (i - Len(s) \in 1..Len(t) /\ i > Len(s) /\ ~(i <= Len(s)))
  BY ONLY <1>2
<1> QED BY <1>1, <1>3, <1>4, <1>5 DEF z

\* The events posted to the main queue for the listeners cs.
LEMMA EventsIs ==
    ASSUME NEW cs \in Seq(Calls), NEW kind \in {"server", "cache", "error"}, NEW v \in Versions
    PROVE  /\ Events(cs, kind, v) \in Seq(Event) /\ Len(Events(cs, kind, v)) = Len(cs)
           /\ \A i \in 1..Len(cs) :
                 Events(cs, kind, v)[i] = [call |-> cs[i], kind |-> kind, version |-> v]
<1> DEFINE e == [i \in 1..Len(cs) |-> [call |-> cs[i], kind |-> kind, version |-> v]]
<1>1. Len(cs) \in Nat /\ \A i \in 1..Len(cs) : cs[i] \in Calls
  BY MemberIs
<1>2. e \in [1..Len(cs) -> Event]
  BY <1>1 DEF Event
<1> HIDE DEF e
<1>3. e \in Seq(Event)
  BY <1>1, <1>2, SeqDef
<1>4. Len(e) = Len(cs)
  BY <1>1, <1>2, <1>3, LenProperties
<1> QED BY <1>3, <1>4 DEF Events, e

\* Erase takes a listener out of different ones.
LEMMA EraseIs ==
    ASSUME NEW X, NEW s \in Seq(X), NEW c, \A i, j \in 1..Len(s) : s[i] = s[j] => i = j
    PROVE  /\ Erase(s, c) \in Seq(X)
           /\ \A x : x \in Range(Erase(s, c)) <=> x \in Range(s) /\ x # c
           /\ \A i, j \in 1..Len(Erase(s, c)) : Erase(s, c)[i] = Erase(s, c)[j] => i = j
           /\ \A i \in 1..Len(Erase(s, c)) : \E j \in 1..Len(s) : Erase(s, c)[i] = s[j]
<1> DEFINE n == Len(s)
<1>0. n \in Nat /\ (\A x : x \in Range(s) <=> \E i \in 1..n : s[i] = x) /\ \A i \in 1..n : s[i] \in X
  BY MemberIs
<1>1. CASE c \notin Range(s)
  <2>1. Erase(s, c) = s
    BY <1>1 DEF Erase
  <2> QED BY <1>0, <1>1, <2>1
<1>2. CASE c \in Range(s)
  <2> DEFINE i == CHOOSE j \in 1..n : s[j] = c
             a == SubSeq(s, 1, i - 1)
             b == SubSeq(s, i + 1, n)
             z == a \o b
  <2>1. i \in 1..n /\ s[i] = c
    BY <1>0, <1>2
  <2>2. Erase(s, c) = z
    BY <1>2 DEF Erase
  <2> HIDE DEF i
  <2>3. a \in Seq(X) /\ Len(a) = i - 1 /\ \A k \in 1..(i - 1) : a[k] = s[k]
    <3>1. \A k \in 1..(i - 1) : s[k] \in X
      BY <1>0, <2>1
    <3>2. 1 \in Int /\ i - 1 \in Int
      BY <1>0, <2>1
    <3>3. /\ a \in Seq(X) /\ Len(a) = (IF 1 <= i - 1 THEN (i - 1) - 1 + 1 ELSE 0)
          /\ \A k \in 1..((i - 1) - 1 + 1) : a[k] = s[1 + k - 1]
      BY <3>1, <3>2, SubSeqProperties
    <3> HIDE DEF a
    <3> QED BY <1>0, <2>1, <3>3
  <2>4. b \in Seq(X) /\ Len(b) = n - i /\ \A k \in 1..(n - i) : b[k] = s[i + k]
    <3>1. \A k \in (i + 1)..n : s[k] \in X
      BY <1>0, <2>1
    <3>2. i + 1 \in Int /\ n \in Int
      BY <1>0, <2>1
    <3>3. /\ b \in Seq(X) /\ Len(b) = (IF i + 1 <= n THEN n - (i + 1) + 1 ELSE 0)
          /\ \A k \in 1..(n - (i + 1) + 1) : b[k] = s[(i + 1) + k - 1]
      BY <3>1, <3>2, SubSeqProperties
    <3> HIDE DEF b
    <3> QED BY <1>0, <2>1, <3>3
  <2> HIDE DEF a, b
  <2>5. /\ z \in Seq(X) /\ Len(z) = Len(a) + Len(b)
        /\ \A k \in 1..(Len(a) + Len(b)) : z[k] = IF k <= Len(a) THEN a[k] ELSE b[k - Len(a)]
    <3>1. a \in Seq(X) /\ b \in Seq(X)
      BY <2>3, <2>4
    <3> QED BY ONLY <3>1, ConcatProperties, Zenon
  <2> HIDE DEF z
  <2> DEFINE at(k) == IF k < i THEN k ELSE k + 1
  <2>6. Len(z) = n - 1
    BY <1>0, <2>1, <2>3, <2>4, <2>5
  <2>7. ASSUME NEW k \in 1..(n - 1) PROVE at(k) \in 1..n /\ at(k) # i /\ z[k] = s[at(k)]
    <3>1. at(k) \in 1..n /\ at(k) # i
      BY <1>0, <2>1
    <3>2. CASE k < i
      <4>1. k \in 1..(i - 1) /\ k <= Len(a) /\ k \in 1..(Len(a) + Len(b))
        BY <1>0, <2>1, <2>3, <2>4, <3>2
      <4> QED BY <2>3, <2>5, <3>1, <3>2, <4>1
    <3>3. CASE ~(k < i)
      <4>1. ~(k <= Len(a)) /\ k \in 1..(Len(a) + Len(b)) /\ k - Len(a) \in 1..(n - i) /\ i + (k - Len(a)) = k + 1
        BY <1>0, <2>1, <2>3, <2>4, <3>3
      <4>2. z[k] = b[k - Len(a)]
        BY <2>5, <4>1
      <4>3. b[k - Len(a)] = s[i + (k - Len(a))]
        BY <2>4, <4>1
      <4> QED BY <3>1, <3>3, <4>1, <4>2, <4>3
    <3> QED BY <3>2, <3>3
  <2>8. ASSUME NEW j \in 1..n, j # i PROVE \E k \in 1..(n - 1) : z[k] = s[j]
    <3> DEFINE k == IF j < i THEN j ELSE j - 1
    <3>1. k \in 1..(n - 1) /\ at(k) = j
      BY <1>0, <2>1, <2>8
    <3> QED BY <2>7, <3>1
  <2>9. ASSUME NEW k \in 1..(n - 1), NEW l \in 1..(n - 1), z[k] = z[l] PROVE k = l
    <3>1. at(k) = at(l)
      BY <2>7, <2>9
    <3> QED BY <1>0, <2>1, <3>1
  <2> HIDE DEF at
  <2>10. \A x : x \in Range(z) <=> \E k \in 1..(n - 1) : z[k] = x
    BY <2>5, <2>6, MemberIs
  <2>11. ASSUME NEW x PROVE x \in Range(z) <=> x \in Range(s) /\ x # c
    <3>1. ASSUME x \in Range(z) PROVE x \in Range(s) /\ x # c
      <4>1. PICK k \in 1..(n - 1) : z[k] = x
        BY <2>10, <3>1
      <4>2. at(k) \in 1..n /\ at(k) # i /\ s[at(k)] = x
        BY <2>7, <4>1
      <4> QED BY <1>0, <2>1, <4>2
    <3>2. ASSUME x \in Range(s), x # c PROVE x \in Range(z)
      <4>1. PICK j \in 1..n : s[j] = x
        BY <1>0, <3>2
      <4> QED BY <2>1, <2>8, <2>10, <3>2, <4>1
    <3> QED BY <3>1, <3>2
  <2> QED BY <2>2, <2>5, <2>6, <2>7, <2>9, <2>11
<1> QED BY <1>1, <1>2

\* The responses in a sequence of replies are finitely many; none means no reply is one.
LEMMA ResponsesAre ==
    ASSUME NEW X, NEW rs \in Seq(X)
    PROVE  /\ IsFiniteSet(Responses(rs)) /\ Cardinality(Responses(rs)) \in Nat
           /\ Cardinality(Responses(rs)) = 0 =>
                 \A i \in 1..Len(rs) : rs[i] \notin {Added, Removed}
<1>1. IsFiniteSet(1..Len(rs)) /\ Responses(rs) \subseteq 1..Len(rs)
  <2>1. Len(rs) \in Nat
    OBVIOUS
  <2> QED BY <2>1, FS_Interval DEF Responses
<1>2. IsFiniteSet(Responses(rs))
  BY <1>1, FS_Subset
<1>3. Cardinality(Responses(rs)) \in Nat
  BY <1>2, FS_CardinalityType
<1>4. Cardinality(Responses(rs)) = 0 => Responses(rs) = {}
  BY <1>2, FS_EmptySet
<1> QED BY <1>2, <1>3, <1>4 DEF Responses

\* A response sent is one more to come.
LEMMA ResponsesAppend ==
    ASSUME NEW X, NEW rs \in Seq(X), NEW r \in X
    PROVE  Cardinality(Responses(Append(rs, r))) =
              Cardinality(Responses(rs)) + (IF r \in {Added, Removed} THEN 1 ELSE 0)
<1> DEFINE a == Append(rs, r)
           n == Len(rs)
<1>1. /\ \A i \in 1..n : i \in 1..Len(a) /\ a[i] = rs[i]
      /\ n + 1 \in 1..Len(a) /\ a[n + 1] = r
      /\ \A i \in 1..Len(a) : i \in 1..n \/ i = n + 1
      /\ n \in Nat
  BY AppendIs
<1> HIDE DEF a
<1>2. IsFiniteSet(Responses(rs)) /\ Cardinality(Responses(rs)) \in Nat
  BY ResponsesAre
<1>3. n + 1 \notin Responses(rs)
  BY <1>1 DEF Responses
<1>4. CASE r \in {Added, Removed}
  <2>1. Responses(a) = Responses(rs) \cup {n + 1}
    BY <1>1, <1>4 DEF Responses
  <2>2. Cardinality(Responses(rs) \cup {n + 1}) = Cardinality(Responses(rs)) + 1
    BY <1>2, <1>3, FS_AddElement
  <2> QED BY <1>4, <2>1, <2>2 DEF a
<1>5. CASE r \notin {Added, Removed}
  <2>1. Responses(a) = Responses(rs)
    BY <1>1, <1>5 DEF Responses
  <2> QED BY <1>2, <1>5, <2>1 DEF a
<1> QED BY <1>4, <1>5

\* A response read is one less to come.
LEMMA ResponsesTail ==
    ASSUME NEW X, NEW rs \in Seq(X), rs # <<>>
    PROVE  Cardinality(Responses(rs)) =
              Cardinality(Responses(Tail(rs))) + (IF Head(rs) \in {Added, Removed} THEN 1 ELSE 0)
<1> DEFINE t == Tail(rs)
           A == Responses(t)
           B == Responses(rs) \ {1}
           f == [i \in A |-> i + 1]
<1>1. /\ t \in Seq(X) /\ 1 \in 1..Len(rs) /\ Head(rs) = rs[1]
      /\ \A i \in 1..Len(t) : i + 1 \in 1..Len(rs) /\ i + 1 > 1 /\ t[i] = rs[i + 1]
      /\ \A i \in 1..Len(rs) : i = 1 \/ (i - 1 \in 1..Len(t) /\ t[i - 1] = rs[i])
  BY TailIs
<1> HIDE DEF t
<1>2. IsFiniteSet(A) /\ IsFiniteSet(Responses(rs)) /\ Cardinality(Responses(rs)) \in Nat
  BY <1>1, ResponsesAre
<1>3. \A i \in A : i \in 1..Len(t) /\ i + 1 \in B
  BY <1>1 DEF Responses
<1>4. \A j \in B : j - 1 \in A /\ (j - 1) + 1 = j
  <2>1. \A j \in B : j \in 1..Len(rs) /\ j # 1 /\ rs[j] \in {Added, Removed}
    BY DEF Responses
  <2>2. \A j \in B : j - 1 \in 1..Len(t) /\ t[j - 1] = rs[j]
    BY <1>1, <2>1
  <2> QED BY <2>1, <2>2 DEF Responses
<1>5. f \in Bijection(A, B)
  <2>1. f \in [A -> B]
    BY <1>3
  <2>2. \A i, j \in A : f[i] = f[j] => i = j
    BY <1>3
  <2>3. \A j \in B : \E i \in A : f[i] = j
    BY <1>4
  <2> QED BY <2>1, <2>2, <2>3 DEF Bijection, Injection, Surjection, IsInjective
<1>6. Cardinality(A) = Cardinality(B)
  BY <1>2, <1>5, FS_Bijection DEF ExistsBijection
<1>7. CASE Head(rs) \in {Added, Removed}
  <2>1. 1 \in Responses(rs)
    BY <1>1, <1>7 DEF Responses
  <2>2. Cardinality(B) = Cardinality(Responses(rs)) - 1
    BY <1>2, <2>1, FS_RemoveElement
  <2> QED BY <1>2, <1>6, <1>7, <2>2 DEF t
<1>8. CASE Head(rs) \notin {Added, Removed}
  <2>1. B = Responses(rs)
    BY <1>1, <1>8 DEF Responses
  <2>2. Cardinality(Responses(rs)) = Cardinality(Responses(Tail(rs)))
    BY <1>6, <2>1 DEF t
  <2> QED BY <1>2, <1>8, <2>2
<1> QED BY <1>7, <1>8

-----------------------------------------------------------------------------
(***************************************************************************)
(* A step of the client, the server or the app.                            *)
(***************************************************************************)

\* Calls are made: one by GetDocument, several at once by a page that appears.
Asking(new) ==
    /\ \A i, j \in 1..Len(new) : new[i] = new[j] => i = j
    /\ \A i \in 1..Len(new) : new[i] \notin asked
    /\ asked' = asked \cup Range(new)
    /\ work' = work \o [i \in 1..Len(new) |-> <<"add", new[i]>>]
    /\ UNCHANGED <<main, muted, answers, local, status, remote, connection,
                   server, allowed, floor>>

\* What can happen to the read path, whoever uses it.
Step == (\E new \in Seq(Calls) : Asking(new)) \/ OnEvent \/ Background \/ UNCHANGED vars

\* A step of the stream's state and the online-state tracker keeps the assertions.
LEMMA StepAssertions ==
    ASSUME TypeOK, AssertionsHold, Step
    PROVE  AssertionsHold'
<1>0. /\ timer \in BOOLEAN /\ failures \in BOOLEAN /\ idle \in BOOLEAN
      /\ stream \in {"initial", "starting", "open", "error", "backoff"}
      /\ online \in {"unknown", "online", "offline"}
  BY DEF TypeOK
<1>1. CASE UNCHANGED <<status, stream, idle, listeners>>
  BY <1>1 DEF AssertionsHold, status, Listening
<1>2. CASE AddQueryListener
  <2>1. CASE \E c \in Calls : JoinListeners(c)
    BY <2>1 DEF JoinListeners, AssertionsHold, status, remote, Listening
  <2>2. CASE \E c \in Calls : FirstListener(c)
    <3>1. ~Listening /\ Listen
      BY <2>2 DEF FirstListener
    <3>2. CASE ~IsStarted(stream)
      <4>1. StartWatchStream(stream, online, failures, timer) /\ idle' = idle
        BY <3>1, <3>2 DEF Listen
      <4>2. ~idle /\ ~timer
        BY <3>2 DEF AssertionsHold, IsStarted
      <4>3. IsStarted(stream') /\ failures' = failures /\ timer' = (~failures \/ timer)
            /\ online' = IF failures THEN online ELSE "unknown"
        BY <4>1 DEF StartWatchStream, IsStarted
      <4>4. timer' => ~failures
        BY <4>2, <4>3
      <4> QED BY <4>1, <4>2, <4>3, <4>4 DEF AssertionsHold
    <3>3. CASE IsStarted(stream)
      <4>1. UNCHANGED <<stream, status>> /\ (idle' => stream # "open" /\ idle)
        BY <3>1, <3>3 DEF Listen
      <4> QED BY <4>1 DEF AssertionsHold, status
    <3> QED BY <3>2, <3>3
  <2>3. Head(work)[2] \in Calls
    <3>1. work # <<>> /\ work \in Seq({"add", "remove"} \X Calls)
      BY <1>2 DEF AddQueryListener, TypeOK
    <3>2. Head(work) \in {"add", "remove"} \X Calls
      BY <3>1, TailIs
    <3> QED BY <3>2
  <2> QED BY <1>2, <2>1, <2>2, <2>3 DEF AddQueryListener
<1>3. CASE RemoveQueryListener
  <2> DEFINE rest == Erase(listeners, Head(work)[2])
  <2>1. listeners' = rest /\ stream' = stream
        /\ IF Listening /\ rest = <<>> THEN StopListening ELSE UNCHANGED <<status, outstanding, wire, idle>>
    BY <1>3 DEF RemoveQueryListener
  <2> HIDE DEF rest
  <2>2. ~Listening => rest = <<>>
    <3>1. ASSUME listeners = <<>> PROVE Erase(listeners, Head(work)[2]) = <<>>
      BY <3>1 DEF Erase, Range
    <3> QED BY <3>1 DEF Listening, rest
  <2>3. CASE Listening /\ rest = <<>>
    BY <2>1, <2>3 DEF StopListening, UpdateState, AssertionsHold, status, Listening
  <2>4. CASE ~(Listening /\ rest = <<>>)
    BY <2>1, <2>2, <2>4 DEF AssertionsHold, status, Listening
  <2> QED BY <2>3, <2>4
<1>4. CASE ResumeStartWithCredentials \/ BackoffElapsed
  BY <1>4 DEF ResumeStartWithCredentials, BackoffElapsed, AssertionsHold, status, local, Listening, IsStarted
<1>5. CASE CredentialsFail \/ OnStreamLost
  <2>1. OnWatchStreamClose /\ ~idle'
    BY <1>5 DEF CredentialsFail, OnStreamLost, OnWatchStreamClose, CloseStream
  <2>2. CASE ~Listening
    BY <2>1, <2>2 DEF OnWatchStreamClose, UpdateState, AssertionsHold
  <2>3. CASE Listening /\ online = "online"
    <3>1. ~failures /\ StartWatchStream("error", "unknown", failures, timer)
      BY <2>1, <2>3 DEF OnWatchStreamClose, AssertionsHold
    <3> QED BY <2>1, <3>1 DEF StartWatchStream, AssertionsHold, IsStarted
  <2>4. CASE Listening /\ online # "online"
    BY <2>1, <2>4 DEF OnWatchStreamClose, BroadcastOffline, AssertionsHold
  <2> QED BY <2>2, <2>3, <2>4
<1>6. CASE OnlineStateTimeout
  BY <1>6 DEF OnlineStateTimeout, BroadcastOffline, AssertionsHold, remote, Listening
<1>7. CASE IdleTimeout
  BY <1>7 DEF IdleTimeout, UpdateState, CloseStream, AssertionsHold
<1>8. CASE RestartNetwork
  BY <1>8 DEF RestartNetwork, UpdateState, CloseStream, StartWatchStream, AssertionsHold, IsStarted
<1>9. CASE OnTargetResponse \/ RaiseWatchSnapshot \/ ProcessTargetError
  BY <1>9 DEF OnTargetResponse, RaiseWatchSnapshot, ProcessTargetError, UpdateState, AssertionsHold,
              remote, local, Listening
<1>10. CASE \/ \E new \in Seq(Calls) : Asking(new)
            \/ OnEvent \/ UNCHANGED vars
            \/ ServerWatch \/ ServerUnwatch \/ ServerSnapshot \/ ServerChange
  BY <1>1, <1>10 DEF Asking, OnEvent, ServerWatch, ServerUnwatch, ServerSnapshot, ServerChange,
                     vars, local, remote
<1> QED
  BY <1>2, <1>3, <1>4, <1>5, <1>6, <1>7, <1>8, <1>9, <1>10 DEF Step, Background

\* A worker step that posts events to listeners, one of which may have just been added.
\* What is posted as the server's is not older than the listen.
Raises ==
    \E told \in Seq(Calls), kind \in {"server", "cache"}, v \in Versions :
        /\ main' = main \o Events(told, kind, v)
        /\ raised' = raised \cup Range(told)
        /\ \A c \in Range(told) : c \in Range(listeners')
        /\ kind = "server" => \A c \in Range(told) : v >= floor'[c]
        /\ UNCHANGED <<asked, muted, answers>>
        /\ \/ UNCHANGED <<work, listeners, floor>>
           \/ /\ work # <<>> /\ Head(work)[1] = "add"
              /\ work' = Tail(work)
              /\ listeners' = Append(listeners, Head(work)[2])
              /\ \E n \in Versions : floor' = [floor EXCEPT ![Head(work)[2]] = n]

\* Posting to no listener leaves the main queue alone.
LEMMA PostNone ==
    ASSUME TypeOK, NEW kind, NEW v
    PROVE  /\ <<>> \in Seq(Calls) /\ Range(<<>>) = {}
           /\ main \o Events(<<>>, kind, v) = main
<1>1. <<>> \in Seq(Calls)
  BY EmptySeq
<1>2. Range(<<>>) = {}
  BY <1>1, MemberIs
<1>3. Len(<<>>) = 0
  OBVIOUS
<1>4. Events(<<>>, kind, v) = [i \in 1..0 |-> [call |-> <<>>[i], kind |-> kind, version |-> v]]
  BY <1>3 DEF Events
<1>5. Events(<<>>, kind, v) = <<>>
  BY <1>4
<1>6. main \in Seq(Event)
  BY DEF TypeOK
<1> QED BY <1>1, <1>2, <1>5, <1>6, ConcatEmptySeq

\* Posting to one listener.
LEMMA PostOne ==
    ASSUME NEW c \in Calls
    PROVE  <<c>> \in Seq(Calls) /\ Range(<<c>>) = {c}
<1>1. <<c>> \in Seq(Calls) /\ Len(<<c>>) = 1 /\ <<c>>[1] = c
  OBVIOUS
<1>2. \A x : x \in Range(<<c>>) <=> \E i \in 1..Len(<<c>>) : <<c>>[i] = x
  BY <1>1, MemberIs
<1>3. \A i \in 1..1 : i = 1
  OBVIOUS
<1>4. \A x : x \in Range(<<c>>) <=> x = c
  BY <1>1, <1>2, <1>3
<1> QED BY <1>1, <1>4

\* The next job of the worker queue.
LEMMA WorkIs ==
    ASSUME TypeOK, work # <<>>
    PROVE  /\ Head(work) = work[1] /\ Head(work)[2] \in Calls
           /\ work[1] = <<Head(work)[1], Head(work)[2]>>
           /\ Tail(work) \in Seq({"add", "remove"} \X Calls) /\ Len(Tail(work)) = Len(work) - 1
           /\ 1 \in 1..Len(work)
           /\ \A i \in 1..Len(Tail(work)) : i + 1 \in 1..Len(work) /\ i + 1 > 1 /\ Tail(work)[i] = work[i + 1]
           /\ \A i \in 1..Len(work) : i = 1 \/ (i - 1 \in 1..Len(Tail(work)) /\ Tail(work)[i - 1] = work[i])
<1>1. work \in Seq({"add", "remove"} \X Calls)
  BY DEF TypeOK
<1>2. Head(work) \in {"add", "remove"} \X Calls /\ Head(work) = work[1]
  BY <1>1, TailIs
<1>3. Head(work)[2] \in Calls /\ Head(work) = <<Head(work)[1], Head(work)[2]>>
  BY <1>2
<1> QED BY <1>1, <1>2, <1>3, TailIs

\* BroadcastOffline tells some listeners what is in the cache.
LEMMA BroadcastIs ==
    ASSUME TypeOK, BroadcastOffline, UNCHANGED <<work, asked, muted, answers, listeners, floor>>
    PROVE  Raises
<1>1. view.version \in Versions /\ listeners \in Seq(Calls)
  BY DEF TypeOK
<1>2. CASE online = "offline"
  <2>1. main' = main /\ raised' = raised
    BY <1>2 DEF BroadcastOffline
  <2>2. main' = main \o Events(<<>>, "cache", view.version) /\ raised' = raised \cup Range(<<>>)
    BY <2>1, PostNone
  <2> QED BY <1>1, <2>2, PostNone DEF Raises
<1>3. CASE online # "offline"
  <2> DEFINE S == {c \in Calls : view.synced \/ c \notin raised}
             told == Only(listeners, S)
  <2>1. main' = main \o Events(told, "cache", view.version) /\ raised' = raised \cup Range(told)
    BY <1>3 DEF BroadcastOffline
  <2> HIDE DEF S
  <2>2. told \in Seq(Calls) /\ \A c \in Range(told) : c \in Range(listeners)
    BY <1>1, OnlyIs
  <2> HIDE DEF told
  <2> QED BY <1>1, <2>1, <2>2 DEF Raises
<1> QED BY <1>2, <1>3

\* A snapshot that is read while the target is active comes after all responses, on a
\* connection with nothing on the wire.
LEMMA ActiveIs ==
    ASSUME TypeOK, ConnInv, replies # <<>>, replies[1].type = "snapshot", IsActiveTarget
    PROVE  /\ allowed /\ stream = "open" /\ wire = <<>>
           /\ \A i \in 1..Len(replies) : replies[i] \notin {Added, Removed}
           /\ LastFrom(1)
<1>1. replies \in Seq(Reply) /\ wire \in Seq({"watch", "unwatch"}) /\ 1 \in 1..Len(replies)
  BY TailIs DEF TypeOK
<1>2. allowed /\ stream = "open"
  BY <1>1 DEF ConnInv
<1>3. outstanding = Len(wire) + Cardinality(Responses(replies)) /\ outstanding = 0
  BY <1>2 DEF ConnInv, OutstandingIsExact, IsActiveTarget
<1>4. Len(wire) \in Nat /\ Cardinality(Responses(replies)) \in Nat
  BY <1>1, ResponsesAre
<1>5. Len(wire) = 0 /\ Cardinality(Responses(replies)) = 0
  BY ONLY <1>3, <1>4
<1>6. wire = <<>>
  BY <1>1, <1>5, EmptySeq
<1>7. \A i \in 1..Len(replies) : replies[i] \notin {Added, Removed}
  BY <1>1, <1>5, ResponsesAre
<1> QED BY <1>2, <1>6, <1>7 DEF LastFrom

\* The replies are records of these types.
LEMMA ReplyIs ==
    ASSUME TypeOK, replies # <<>>
    PROVE  /\ replies \in Seq(Reply) /\ Head(replies) = replies[1] /\ 1 \in 1..Len(replies)
           /\ Head(replies) \in Reply
           /\ Head(replies).type = "snapshot" => /\ Head(replies).version \in Versions
                                                 /\ Head(replies) \notin {Added, Removed, Rejected}
           /\ Head(replies) \in {Added, Removed, Rejected} \/ Head(replies).type = "snapshot"
<1>1. replies \in Seq(Reply) /\ Head(replies) = replies[1] /\ 1 \in 1..Len(replies) /\ Head(replies) \in Reply
  BY TailIs DEF TypeOK
<1>2. 0 \in Versions
  BY BoundsAreNumbers DEF Versions
<1>3. \A r \in Reply : /\ r.type = "snapshot" => r.version \in Versions /\ r \notin {Added, Removed, Rejected}
                       /\ r \in {Added, Removed, Rejected} \/ r.type = "snapshot"
  BY <1>2 DEF Reply, Added, Removed, Rejected, Snapshot
<1> QED BY <1>1, <1>3

\* The worker steps that post events.
LEMMA RaisesIs ==
    ASSUME IInv, AddQueryListener \/ CredentialsFail \/ OnStreamLost \/ OnlineStateTimeout \/ RaiseWatchSnapshot
    PROVE  Raises
<1>0. TypeOK /\ ConnInv /\ FreshInv
  BY DEF IInv
<1>1. /\ listeners \in Seq(Calls) /\ view.version \in Versions /\ cache \in Versions /\ server \in Versions
      /\ floor \in [Calls -> Versions] /\ Versions \subseteq Nat
  BY <1>0, BoundsAreNumbers DEF TypeOK, Versions
<1>2. CASE AddQueryListener
  <2> DEFINE c == Head(work)[2]
  <2>1. work # <<>> /\ Head(work)[1] = "add" /\ work' = Tail(work) /\ UNCHANGED <<asked, muted, answers>>
    BY <1>2 DEF AddQueryListener
  <2>2. c \in Calls
    BY <1>0, <2>1, WorkIs
  <2> HIDE DEF c
  <2>3. CASE JoinListeners(c)
    <3> DEFINE told == IF view.synced \/ online = "offline" THEN <<c>> ELSE <<>>
               kind == IF view.synced THEN "server" ELSE "cache"
    <3>1. /\ listeners # <<>> /\ listeners' = Append(listeners, c)
          /\ main' = main \o Events(told, kind, view.version)
          /\ raised' = raised \cup Range(told)
          /\ floor' = [floor EXCEPT ![c] = floor[Head(listeners)]]
      BY <2>3 DEF JoinListeners, Listening
    <3>2. told \in Seq(Calls) /\ kind \in {"server", "cache"} /\ \A x \in Range(told) : x = c
      BY <1>0, <2>2, PostNone, PostOne
    <3>3. kind = "server" => view.synced
      OBVIOUS
    <3> HIDE DEF told, kind
    <3>4. Head(listeners) = listeners[1] /\ 1 \in 1..Len(listeners) /\ Head(listeners) \in Calls
      BY <1>1, <3>1, TailIs
    <3>5. floor[Head(listeners)] \in Versions /\ floor'[c] = floor[Head(listeners)]
      BY <1>1, <2>2, <3>1, <3>4
    <3>6. view.synced => view.version >= floor'[c]
      BY <1>0, <3>4, <3>5 DEF FreshInv
    <3>7. c \in Range(listeners')
      <4>1. listeners' \in Seq(Calls) /\ Len(listeners) + 1 \in 1..Len(listeners') /\ listeners'[Len(listeners) + 1] = c
        BY <1>1, <2>2, <3>1, AppendIs
      <4> QED BY <4>1, MemberIs
    <3> QED BY <1>1, <2>1, <3>1, <3>2, <3>3, <3>5, <3>6, <3>7 DEF Raises, c
  <2>4. CASE FirstListener(c)
    <3> DEFINE told == IF online = "offline" THEN <<c>> ELSE <<>>
    <3>1. /\ listeners = <<>> /\ listeners' = <<c>>
          /\ main' = main \o Events(told, "cache", cache)
          /\ raised' = raised \cup Range(told)
          /\ floor' = [floor EXCEPT ![c] = server]
      BY <2>4 DEF FirstListener, Listening
    <3>2. told \in Seq(Calls) /\ \A x \in Range(told) : x = c
      BY <1>0, <2>2, PostNone, PostOne
    <3> HIDE DEF told
    <3>3. listeners' = Append(listeners, c) /\ c \in Range(listeners')
      BY <2>2, <3>1, PostOne
    <3> QED BY <1>1, <2>1, <3>1, <3>2, <3>3 DEF Raises, c
  <2> QED BY <1>2, <2>3, <2>4 DEF AddQueryListener, c
<1>3. CASE CredentialsFail \/ OnStreamLost
  <2>1. OnWatchStreamClose /\ UNCHANGED <<work, asked, muted, answers, listeners, floor>>
    BY <1>3 DEF CredentialsFail, OnStreamLost, OnWatchStreamClose
  <2>2. CASE UNCHANGED <<main, raised>>
    BY <1>0, <1>1, <2>1, <2>2, PostNone DEF Raises
  <2>3. CASE BroadcastOffline
    BY <1>0, <2>1, <2>3, BroadcastIs
  <2> QED BY <2>1, <2>2, <2>3 DEF OnWatchStreamClose
<1>4. CASE OnlineStateTimeout
  BY <1>0, <1>4, BroadcastIs DEF OnlineStateTimeout
<1>5. CASE RaiseWatchSnapshot
  <2> DEFINE v == Larger(Head(replies).version, cache)
  <2>1. /\ replies # <<>> /\ Head(replies).type = "snapshot"
        /\ UNCHANGED <<work, asked, muted, answers, listeners, floor>>
    BY <1>5 DEF RaiseWatchSnapshot
  <2>2. CASE UNCHANGED <<main, raised>>
    BY <1>0, <1>1, <2>1, <2>2, PostNone DEF Raises
  <2>3. CASE IsActiveTarget /\ OnViewSnapshots(v)
    <3>1. Head(replies).version \in Versions /\ Head(replies) = replies[1] /\ 1 \in 1..Len(replies)
      BY <1>0, <2>1, ReplyIs
    <3>2. v \in Versions /\ v >= replies[1].version
      <4>1. replies[1].version \in Versions /\ replies[1].version \in Nat /\ cache \in Nat
        BY <1>1, <3>1
      <4>2. v = IF replies[1].version >= cache THEN replies[1].version ELSE cache
        BY <3>1 DEF Larger
      <4> QED BY <1>1, <4>1, <4>2
    <3>3. main' = main \o Events(listeners, "server", v) /\ raised' = raised \cup Range(listeners)
      BY <2>3 DEF OnViewSnapshots
    <3> HIDE DEF v
    <3>4. wire = <<>> /\ LastFrom(1)
      BY <1>0, <2>1, <2>3, <3>1, ActiveIs
    <3>5. \A i \in 1..Len(listeners) : replies[1].version >= floor[listeners[i]]
      BY <1>0, <2>1, <3>1, <3>4 DEF FreshInv
    <3>6. \A c \in Range(listeners) : v >= floor[c]
      <4>1. \A c \in Range(listeners) : c \in Calls /\ replies[1].version >= floor[c]
        BY <1>1, <3>5, MemberIs
      <4>2. \A c \in Calls : floor[c] \in Nat
        BY <1>1
      <4>3. v \in Nat /\ replies[1].version \in Nat
        BY <1>1, <3>1, <3>2
      <4> QED BY <3>2, <4>1, <4>2, <4>3
    <3> QED BY <1>1, <2>1, <3>2, <3>3, <3>6 DEF Raises
  <2> QED BY <1>5, <2>2, <2>3 DEF RaiseWatchSnapshot
<1> QED BY <1>2, <1>3, <1>4, <1>5

\* The variables the calls go through have their types.
CallType ==
    /\ main \in Seq(Event)
    /\ work \in Seq({"add", "remove"} \X Calls)
    /\ asked \subseteq Calls /\ muted \subseteq Calls
    /\ answers \in [Calls -> Seq(Answer)]
    /\ listeners \in Seq(Calls)
    /\ raised \subseteq Calls
    /\ floor \in [Calls -> Versions]

\* The other variables have theirs.
ClientType ==
    /\ view \in [version : Versions, synced : BOOLEAN]
    /\ cache \in Versions
    /\ online \in {"unknown", "online", "offline"}
    /\ stream \in {"initial", "starting", "open", "error", "backoff"}
    /\ wire \in Seq({"watch", "unwatch"})
    /\ replies \in Seq(Reply)
    /\ target \in {"none", "stale", "current"}
    /\ server \in Versions

\* The flags are kept apart: they are all that is Boolean.
FlagType == timer \in BOOLEAN /\ failures \in BOOLEAN /\ idle \in BOOLEAN /\ allowed \in BOOLEAN

\* A step keeps the types of the flags.
LEMMA StepFlagType ==
    ASSUME FlagType, Step
    PROVE  FlagType'
<1>1. CASE UNCHANGED <<status, idle, allowed>>
  BY <1>1, Zenon DEF FlagType, status
<1>2. ASSUME NEW s, NEW o, NEW f, NEW q, f \in BOOLEAN, q \in BOOLEAN, StartWatchStream(s, o, f, q)
      PROVE  timer' \in BOOLEAN /\ failures' \in BOOLEAN
  <2>1. failures' = f /\ timer' = (~f \/ q)
    BY <1>2, Zenon DEF StartWatchStream
  <2> QED BY <1>2, <2>1, Zenon
<1>3. CASE AddQueryListener
  <2>1. JoinListeners(Head(work)[2]) \/ Listen
    BY <1>3, Zenon DEF AddQueryListener, FirstListener
  <2>2. allowed' = allowed
    BY <1>3, Zenon DEF AddQueryListener
  <2>3. CASE UNCHANGED <<status, remote>>
    BY <1>1, <2>2, <2>3, Zenon DEF remote
  <2>4. CASE StartWatchStream(stream, online, failures, timer) /\ idle' = idle
    BY <1>2, <2>2, <2>4, Zenon DEF FlagType
  <2>5. CASE UNCHANGED status /\ (idle' = FALSE \/ idle' = idle)
    BY <2>2, <2>5, Zenon DEF FlagType, status
  <2> QED BY <2>1, <2>3, <2>4, <2>5, Zenon DEF JoinListeners, Listen
<1>4. CASE RemoveQueryListener
  BY <1>4, Zenon DEF RemoveQueryListener, StopListening, UpdateState, FlagType, status
<1>5. CASE CredentialsFail \/ OnStreamLost
  <2>1. OnWatchStreamClose /\ allowed' = allowed /\ idle' = FALSE
    BY <1>5, Zenon DEF CredentialsFail, OnStreamLost, OnWatchStreamClose, CloseStream
  <2>2. CASE (timer' = FALSE /\ failures' = TRUE) \/ UpdateState("unknown")
    BY <2>1, <2>2, Zenon DEF UpdateState, FlagType
  <2>3. CASE StartWatchStream("error", "unknown", failures, timer)
    BY <1>2, <2>1, <2>3, Zenon DEF FlagType
  <2> QED BY <2>1, <2>2, <2>3, Zenon DEF OnWatchStreamClose
<1>6. CASE OnlineStateTimeout
  BY <1>6, Zenon DEF OnlineStateTimeout, remote, FlagType
<1>7. CASE IdleTimeout
  BY <1>7, Zenon DEF IdleTimeout, CloseStream, UpdateState, FlagType
<1>8. CASE RestartNetwork
  <2>1. allowed' = allowed /\ idle' = FALSE
    BY <1>8, Zenon DEF RestartNetwork, CloseStream
  <2>2. CASE UpdateState("unknown")
    BY <2>1, <2>2, Zenon DEF UpdateState, FlagType
  <2>3. CASE StartWatchStream("initial", "unknown", FALSE, FALSE)
    BY <1>2, <2>1, <2>3, Zenon DEF FlagType
  <2> QED BY <1>8, <2>2, <2>3, Zenon DEF RestartNetwork
<1>9. CASE OnTargetResponse \/ RaiseWatchSnapshot \/ ProcessTargetError
  BY <1>9, Zenon DEF OnTargetResponse, RaiseWatchSnapshot, ProcessTargetError, UpdateState, remote, FlagType
<1>10. CASE \/ ResumeStartWithCredentials \/ BackoffElapsed
            \/ ServerWatch \/ ServerUnwatch \/ ServerSnapshot \/ ServerChange
            \/ (\E new \in Seq(Calls) : Asking(new)) \/ OnEvent \/ UNCHANGED vars
  BY <1>1, <1>10, Zenon DEF ResumeStartWithCredentials, BackoffElapsed, ServerWatch, ServerUnwatch,
                            ServerSnapshot, ServerChange, Asking, OnEvent, vars, remote
<1> QED
  BY <1>3, <1>4, <1>5, <1>6, <1>7, <1>8, <1>9, <1>10 DEF Step, Background

\* The count of outstanding responses changes by one or is reset.
LEMMA StepCount ==
    ASSUME outstanding \in Int, Step
    PROVE  outstanding' \in Int
<1>1. outstanding' \in {0, outstanding, outstanding + 1, outstanding - 1}
  BY DEF Step, Background, vars, remote, Asking, OnEvent, AddQueryListener, JoinListeners, FirstListener,
     Listen, RemoveQueryListener, StopListening, ResumeStartWithCredentials, CredentialsFail, OnStreamLost,
     OnWatchStreamClose, CloseStream, BackoffElapsed, OnlineStateTimeout, IdleTimeout, RestartNetwork,
     OnTargetResponse, RaiseWatchSnapshot, ProcessTargetError, ServerWatch, ServerUnwatch, ServerSnapshot,
     ServerChange
<1> QED BY <1>1

\* A step keeps the types of the client's and the server's state.
LEMMA StepClientType ==
    ASSUME TypeOK, Step
    PROVE  ClientType'
<1>0. ClientType /\ Versions \subseteq Nat /\ 0 \in Versions
  BY BoundsAreNumbers DEF TypeOK, ClientType, Versions
<1>1. /\ Added \in Reply /\ Removed \in Reply /\ Rejected \in Reply
      /\ \A v \in Versions : Snapshot(v) \in Reply
  BY DEF Reply
<1>2. CASE UNCHANGED <<view, cache, status, remote, connection, server, allowed>>
  BY <1>0, <1>2 DEF ClientType, status, remote, connection
<1>3. wire' = <<>> => wire' \in Seq({"watch", "unwatch"})
  BY EmptySeq
<1>4. replies' = <<>> => replies' \in Seq(Reply)
  BY EmptySeq
<1>5. \A x \in {"watch", "unwatch"} : wire' = Append(wire, x) => wire' \in Seq({"watch", "unwatch"})
  BY <1>0, AppendIs DEF ClientType
<1>6. wire # <<>> => Tail(wire) \in Seq({"watch", "unwatch"})
  BY <1>0, TailIs DEF ClientType
<1>7. replies # <<>> => Tail(replies) \in Seq(Reply)
  BY <1>0, TailIs DEF ClientType
<1>8. \A r \in Reply : Append(replies, r) \in Seq(Reply)
  BY <1>0, AppendIs DEF ClientType
<1>9. CASE AddQueryListener
  <2>1. UNCHANGED <<cache, replies, target, server, allowed>>
    BY <1>9 DEF AddQueryListener
  <2>2. CASE \E c \in Calls : JoinListeners(c)
    BY <1>0, <2>1, <2>2 DEF JoinListeners, ClientType, status, remote
  <2>3. CASE \E c \in Calls : FirstListener(c)
    <3>1. Listen /\ view' = [version |-> cache, synced |-> FALSE]
      BY <2>3 DEF FirstListener
    <3>2. view' \in [version : Versions, synced : BOOLEAN]
      BY <1>0, <3>1 DEF ClientType
    <3>3. CASE ~IsStarted(stream)
      BY <1>0, <2>1, <3>1, <3>2, <3>3 DEF Listen, StartWatchStream, ClientType
    <3>4. CASE IsStarted(stream)
      <4>1. wire' \in Seq({"watch", "unwatch"}) /\ UNCHANGED <<stream, status>>
        BY <1>0, <1>5, <3>1, <3>4 DEF Listen, ClientType
      <4> QED BY <1>0, <2>1, <3>2, <4>1 DEF ClientType, status
    <3> QED BY <3>3, <3>4
  <2>4. Head(work)[2] \in Calls
    BY <1>9, WorkIs DEF AddQueryListener
  <2> QED BY <1>9, <2>2, <2>3, <2>4 DEF AddQueryListener
<1>10. CASE RemoveQueryListener
  <2>1. UNCHANGED <<view, cache, stream, replies, target, server, allowed>>
    BY <1>10 DEF RemoveQueryListener
  <2>2. CASE StopListening
    BY <1>0, <1>5, <2>1, <2>2 DEF StopListening, UpdateState, ClientType, status
  <2>3. CASE UNCHANGED <<status, outstanding, wire, idle>>
    BY <1>0, <2>1, <2>3 DEF ClientType, status
  <2> QED BY <1>10, <2>2, <2>3 DEF RemoveQueryListener
<1>11. CASE ResumeStartWithCredentials
  <2>1. <<"watch">> \in Seq({"watch", "unwatch"})
    OBVIOUS
  <2> QED BY <1>0, <1>11, <2>1 DEF ResumeStartWithCredentials, ClientType, local, status
<1>12. ASSUME BroadcastOffline PROVE online' = "offline" /\ view' \in [version : Versions, synced : BOOLEAN]
  BY <1>0, <1>12 DEF BroadcastOffline, ClientType
<1>13. CASE CredentialsFail \/ OnStreamLost
  <2>1. OnWatchStreamClose
    BY <1>13 DEF CredentialsFail, OnStreamLost
  <2>2. CASE ~Listening
    BY <1>0, <1>3, <1>4, <2>1, <2>2 DEF OnWatchStreamClose, CloseStream, UpdateState, ClientType
  <2>3. CASE Listening /\ online = "online"
    BY <1>0, <1>3, <1>4, <2>1, <2>3 DEF OnWatchStreamClose, CloseStream, StartWatchStream, ClientType
  <2>4. CASE Listening /\ online # "online"
    <3>1. BroadcastOffline
      BY <2>1, <2>4 DEF OnWatchStreamClose
    <3>2. online' = "offline" /\ view' \in [version : Versions, synced : BOOLEAN]
      BY <1>12, <3>1
    <3> QED BY <1>0, <1>3, <1>4, <2>1, <2>4, <3>2 DEF OnWatchStreamClose, CloseStream, ClientType
  <2> QED BY <2>2, <2>3, <2>4
<1>14. CASE BackoffElapsed
  BY <1>0, <1>14 DEF BackoffElapsed, ClientType, local, status, connection
<1>15. CASE OnlineStateTimeout
  <2>1. online' = "offline" /\ view' \in [version : Versions, synced : BOOLEAN]
    BY <1>12, <1>15 DEF OnlineStateTimeout
  <2> QED BY <1>0, <1>15, <2>1 DEF OnlineStateTimeout, ClientType, remote, connection
<1>16. CASE IdleTimeout
  BY <1>0, <1>3, <1>4, <1>16 DEF IdleTimeout, CloseStream, UpdateState, ClientType, local
<1>17. CASE RestartNetwork
  BY <1>0, <1>3, <1>4, <1>17 DEF RestartNetwork, CloseStream, UpdateState, StartWatchStream, ClientType, local
<1>18. CASE OnTargetResponse
  BY <1>0, <1>7, <1>18 DEF OnTargetResponse, UpdateState, ClientType, local
<1>19. CASE ProcessTargetError
  BY <1>0, <1>7, <1>19 DEF ProcessTargetError, UpdateState, ClientType
<1>20. CASE RaiseWatchSnapshot
  <2> DEFINE v == Larger(Head(replies).version, cache)
  <2>1. v \in Versions
    <3>1. Head(replies).version \in Versions
      BY <1>20, ReplyIs DEF RaiseWatchSnapshot
    <3> QED BY <1>0, <3>1 DEF Larger, ClientType
  <2>2. /\ cache' = cache \/ cache' = v
        /\ view' = view \/ view' = [version |-> v, synced |-> TRUE]
    BY <1>20 DEF RaiseWatchSnapshot, OnViewSnapshots
  <2> HIDE DEF v
  <2>3. cache' \in Versions /\ view' \in [version : Versions, synced : BOOLEAN]
    <3>1. [version |-> v, synced |-> TRUE] \in [version : Versions, synced : BOOLEAN]
      BY <2>1
    <3> QED BY <1>0, <2>1, <2>2, <3>1, Zenon DEF ClientType
  <2>4. online' = "online" /\ replies' \in Seq(Reply) /\ UNCHANGED <<remote, wire, target, server>>
    BY <1>7, <1>20 DEF RaiseWatchSnapshot, UpdateState
  <2> QED BY <1>0, <2>3, <2>4 DEF ClientType, remote
<1>21. CASE ServerWatch \/ ServerUnwatch
  <2>1. \E r \in Reply : replies' = Append(replies, r)
    BY <1>1, <1>21 DEF ServerWatch, ServerUnwatch
  <2>2. replies' \in Seq(Reply)
    BY <1>8, <2>1
  <2> QED BY <1>0, <1>6, <1>21, <2>2 DEF ServerWatch, ServerUnwatch, ClientType, local, status, remote
<1>22. CASE ServerSnapshot
  <2>1. Snapshot(server) \in Reply
    BY <1>0, <1>1 DEF ClientType
  <2> QED BY <1>0, <1>8, <1>22, <2>1 DEF ServerSnapshot, ClientType, local, status, remote
<1>23. CASE ServerChange
  <2>1. server + 1 \in Versions
    BY <1>0, <1>23, BoundsAreNumbers DEF ServerChange, ClientType, Versions
  <2> QED BY <1>0, <1>23, <2>1 DEF ServerChange, ClientType, local, status, remote
<1>24. CASE (\E new \in Seq(Calls) : Asking(new)) \/ OnEvent \/ UNCHANGED vars
  BY <1>2, <1>24 DEF Asking, OnEvent, vars, local
<1> QED
  BY <1>9, <1>10, <1>11, <1>13, <1>14, <1>15, <1>16, <1>17, <1>18, <1>19, <1>20, <1>21, <1>22, <1>23, <1>24
  DEF Step, Background

-----------------------------------------------------------------------------
(***************************************************************************)
(* What each call goes through.                                            *)
(***************************************************************************)

\* The main queue m is the queue main followed by an event for each of told.
Posted(m, told, kind, v) ==
    /\ m \in Seq(Event)
    /\ \A i \in 1..Len(main) : i \in 1..Len(m) /\ m[i] = main[i]
    /\ \A i \in 1..Len(m) :
          \/ i \in 1..Len(main)
          \/ m[i].call \in Range(told) /\ m[i].kind = kind /\ m[i].version = v
    /\ \A i \in 1..Len(m) :
          \/ i \in 1..Len(main)
          \/ \E k \in 1..Len(told) : i = Len(main) + k /\ m[i].call = told[k]
    /\ \A c \in Calls : (\E i \in 1..Len(m) : m[i].call = c) <=> HasEvent(c) \/ c \in Range(told)

\* Posting events to the listeners told puts them behind what is under way.
LEMMA PostIs ==
    ASSUME TypeOK, NEW told \in Seq(Calls), NEW kind \in {"server", "cache", "error"}, NEW v \in Versions,
           main' = main \o Events(told, kind, v)
    PROVE  Posted(main', told, kind, v)
<1> DEFINE es == Events(told, kind, v)
<1>1. main \in Seq(Event)
  BY DEF TypeOK
<1>2. /\ es \in Seq(Event) /\ Len(es) = Len(told)
      /\ \A i \in 1..Len(told) : es[i] = [call |-> told[i], kind |-> kind, version |-> v]
  BY EventsIs
<1> HIDE DEF es
<1>3. /\ main' \in Seq(Event)
      /\ \A i \in 1..Len(main) : i \in 1..Len(main') /\ main'[i] = main[i]
      /\ \A i \in 1..Len(es) : Len(main) + i \in 1..Len(main') /\ main'[Len(main) + i] = es[i]
      /\ \A i \in 1..Len(main') :
            \/ i \in 1..Len(main)
            \/ i - Len(main) \in 1..Len(es) /\ i > Len(main) /\ main'[i] = es[i - Len(main)]
  BY <1>1, <1>2, ConcatIs DEF es
<1>4. \A x : x \in Range(told) <=> \E i \in 1..Len(told) : told[i] = x
  BY MemberIs
<1>5. \A i \in 1..Len(main') :
         \/ i \in 1..Len(main)
         \/ \E k \in 1..Len(told) : /\ i = Len(main) + k /\ main'[i].call = told[k]
                                     /\ main'[i].kind = kind /\ main'[i].version = v
  <2> SUFFICES ASSUME NEW i \in 1..Len(main'), i \notin 1..Len(main)
               PROVE  \E k \in 1..Len(told) :
                         i = Len(main) + k /\ main'[i].call = told[k] /\ main'[i].kind = kind /\ main'[i].version = v
    OBVIOUS
  <2> DEFINE k == i - Len(main)
  <2>1. k \in 1..Len(told) /\ main'[i] = es[k] /\ i = Len(main) + k
    BY <1>1, <1>2, <1>3
  <2> HIDE DEF k
  <2>2. main'[i] = [call |-> told[k], kind |-> kind, version |-> v]
    BY <1>2, <2>1
  <2>3. main'[i].call = told[k] /\ main'[i].kind = kind /\ main'[i].version = v
    BY <2>2
  <2> QED BY <2>1, <2>3
<1>7. \A i \in 1..Len(main') :
         \/ i \in 1..Len(main)
         \/ \E k \in 1..Len(told) : i = Len(main) + k /\ main'[i].call = told[k]
  BY <1>5
<1>8. \A i \in 1..Len(main') :
         \/ i \in 1..Len(main)
         \/ main'[i].call \in Range(told) /\ main'[i].kind = kind /\ main'[i].version = v
  BY <1>4, <1>5
<1>6. ASSUME NEW c \in Calls PROVE HasEvent(c)' <=> HasEvent(c) \/ c \in Range(told)
  <2>1. ASSUME HasEvent(c)' PROVE HasEvent(c) \/ c \in Range(told)
    BY <1>3, <1>8, <2>1 DEF HasEvent
  <2>2. ASSUME HasEvent(c) PROVE HasEvent(c)'
    BY <1>3, <2>2 DEF HasEvent
  <2>3. ASSUME c \in Range(told) PROVE HasEvent(c)'
    <3>1. PICK i \in 1..Len(told) : told[i] = c
      BY <1>4, <2>3
    <3>2. Len(main) + i \in 1..Len(main') /\ main'[Len(main) + i] = es[i]
      BY <1>2, <1>3
    <3>3. es[i] = [call |-> c, kind |-> kind, version |-> v]
      BY <1>2, <3>1
    <3>4. main'[Len(main) + i].call = c
      BY <3>2, <3>3
    <3> QED BY <3>2, <3>4 DEF HasEvent
  <2> QED BY <2>1, <2>2, <2>3
<1> QED BY <1>3, <1>6, <1>7, <1>8 DEF Posted, HasEvent

\* A listener that is added is of a call that was asked and that nothing was done for.
LEMMA AddIs ==
    ASSUME TypeOK, CallInv, work # <<>>, Head(work)[1] = "add"
    PROVE  /\ work[1] = <<"add", Head(work)[2]>> /\ Head(work)[2] \in Calls
           /\ Head(work)[2] \in asked /\ Untouched(Head(work)[2])
           /\ \A i \in 1..Len(Tail(work)) : Tail(work)[i] # work[1]
<1>1. /\ Head(work) = work[1] /\ work[1] = <<Head(work)[1], Head(work)[2]>> /\ Head(work)[2] \in Calls
      /\ 1 \in 1..Len(work) /\ work[1][1] = "add" /\ work[1][2] = Head(work)[2]
      /\ \A i \in 1..Len(Tail(work)) : i + 1 \in 1..Len(work) /\ i + 1 > 1 /\ Tail(work)[i] = work[i + 1]
  BY WorkIs
<1>2. /\ work[1][2] \in asked /\ Untouched(work[1][2])
      /\ \A j \in 1..Len(work) : work[j] = work[1] => j = 1
  BY <1>1 DEF CallInv, WorkInv
<1>3. ASSUME NEW i \in 1..Len(Tail(work)), Tail(work)[i] = work[1] PROVE FALSE
  <2>1. work[i + 1] = work[1] /\ i + 1 \in 1..Len(work) /\ i + 1 > 1
    BY <1>1, <1>3
  <2>2. i + 1 = 1
    BY <1>2, <2>1
  <2> QED BY <2>1, <2>2
<1> QED BY <1>1, <1>2, <1>3

\* What the worker's steps that post events do to the queues and the listeners.
LEMMA RaisesWork ==
    ASSUME TypeOK, CallInv,
           \/ UNCHANGED <<work, listeners, floor>>
           \/ /\ work # <<>> /\ Head(work)[1] = "add"
              /\ work' = Tail(work)
              /\ listeners' = Append(listeners, Head(work)[2])
              /\ \E n \in Versions : floor' = [floor EXCEPT ![Head(work)[2]] = n]
    PROVE  /\ work' \in Seq({"add", "remove"} \X Calls) /\ listeners' \in Seq(Calls)
           /\ floor' \in [Calls -> Versions]
           /\ \A x : x \in Range(listeners) => x \in Range(listeners')
           /\ \A x : x \in Range(listeners') =>
                 \/ x \in Range(listeners)
                 \/ x \in asked /\ Untouched(x) /\ \A i \in 1..Len(work') : work'[i] # <<"add", x>>
           /\ \A x : <<"add", x>> \in Range(work) => <<"add", x>> \in Range(work') \/ x \in Range(listeners')
           /\ \E d \in {0, 1} : \A i \in 1..Len(work') : i + d \in 1..Len(work) /\ work'[i] = work[i + d]
           /\ \A i, j \in 1..Len(listeners') : listeners'[i] = listeners'[j] => i = j
           /\ \A x \in Calls : floor'[x] = floor[x] \/ Untouched(x)
<1>1. /\ work \in Seq({"add", "remove"} \X Calls) /\ listeners \in Seq(Calls) /\ floor \in [Calls -> Versions]
      /\ Len(work) \in Nat /\ Len(listeners) \in Nat
  BY DEF TypeOK
<1>2. \A i, j \in 1..Len(listeners) : listeners[i] = listeners[j] => i = j
  BY DEF CallInv, ListenersInv
<1>3. CASE UNCHANGED <<work, listeners, floor>>
  <2>1. \A i \in 1..Len(work') : i + 0 \in 1..Len(work) /\ work'[i] = work[i + 0]
    BY <1>1, <1>3
  <2> QED BY <1>1, <1>2, <1>3, <2>1
<1>4. CASE /\ work # <<>> /\ Head(work)[1] = "add"
           /\ work' = Tail(work)
           /\ listeners' = Append(listeners, Head(work)[2])
           /\ \E n \in Versions : floor' = [floor EXCEPT ![Head(work)[2]] = n]
  <2> DEFINE c == Head(work)[2]
  <2>1. /\ work[1] = <<"add", c>> /\ c \in Calls /\ c \in asked /\ Untouched(c)
        /\ \A i \in 1..Len(work') : work'[i] # work[1]
    BY <1>4, AddIs, SMTT(30)
  <2>2. /\ work' \in Seq({"add", "remove"} \X Calls)
        /\ \A i \in 1..Len(work') : i + 1 \in 1..Len(work) /\ work'[i] = work[i + 1]
        /\ \A i \in 1..Len(work) : i = 1 \/ (i - 1 \in 1..Len(work') /\ work'[i - 1] = work[i])
    BY <1>4, WorkIs
  <2>3. listeners' = Append(listeners, c) /\ \E n \in Versions : floor' = [floor EXCEPT ![c] = n]
    BY <1>4
  <2> HIDE DEF c
  <2>4. /\ listeners' \in Seq(Calls)
        /\ \A i \in 1..Len(listeners) : i \in 1..Len(listeners') /\ listeners'[i] = listeners[i]
        /\ Len(listeners) + 1 \in 1..Len(listeners') /\ listeners'[Len(listeners) + 1] = c
        /\ \A i \in 1..Len(listeners') : i \in 1..Len(listeners) \/ i = Len(listeners) + 1
    BY <1>1, <2>1, <2>3, AppendIs
  <2>5. /\ \A x : x \in Range(listeners) <=> \E i \in 1..Len(listeners) : listeners[i] = x
        /\ \A x : x \in Range(listeners') <=> \E i \in 1..Len(listeners') : listeners'[i] = x
        /\ \A x : x \in Range(work) <=> \E i \in 1..Len(work) : work[i] = x
        /\ \A x : x \in Range(work') <=> \E i \in 1..Len(work') : work'[i] = x
    <3>1. /\ \A x : x \in Range(listeners) <=> \E i \in 1..Len(listeners) : listeners[i] = x
          /\ \A x : x \in Range(work) <=> \E i \in 1..Len(work) : work[i] = x
      BY <1>1, MemberIs
    <3>2. \A x : x \in Range(listeners') <=> \E i \in 1..Len(listeners') : listeners'[i] = x
      BY <2>4, MemberIs
    <3>3. \A x : x \in Range(work') <=> \E i \in 1..Len(work') : work'[i] = x
      BY <2>2, MemberIs
    <3> QED BY <3>1, <3>2, <3>3, Zenon
  <2>6. \A x : x \in Range(listeners') <=> x \in Range(listeners) \/ x = c
    BY <2>4, <2>5, SMTT(30)
  <2>7. \A x : <<"add", x>> \in Range(work) => <<"add", x>> \in Range(work') \/ x = c
    <3> SUFFICES ASSUME NEW x, <<"add", x>> \in Range(work), x # c PROVE <<"add", x>> \in Range(work')
      OBVIOUS
    <3>1. PICK i \in 1..Len(work) : work[i] = <<"add", x>>
      BY <2>5
    <3>2. i # 1
      BY <2>1, <3>1
    <3> QED BY <2>2, <2>5, <3>1, <3>2
  <2>8. c \notin Range(listeners)
    BY <2>1 DEF Untouched
  <2>9. \A i \in 1..Len(listeners) : listeners[i] # c
    BY <2>5, <2>8
  <2>10. \A i, j \in 1..Len(listeners') : listeners'[i] = listeners'[j] => i = j
    BY <1>2, <2>4, <2>9
  <2>11. floor' \in [Calls -> Versions] /\ \A x \in Calls : floor'[x] = floor[x] \/ Untouched(x)
    BY <1>1, <2>1, <2>3
  <2> QED BY <2>1, <2>2, <2>4, <2>6, <2>7, <2>10, <2>11
<1> QED BY <1>3, <1>4

\* Every event posted as the server's is not older than its call's listen.
EventsFresh ==
    \A i \in 1..Len(main) : main[i].kind = "server" => main[i].version >= floor[main[i].call]

\* Events are posted.
LEMMA RaisesKeeps ==
    ASSUME TypeOK, CallInv, EventsFresh, Raises
    PROVE  CallType' /\ CallInv' /\ EventsFresh'
<1>1. PICK told \in Seq(Calls), kind \in {"server", "cache"}, v \in Versions :
        /\ main' = main \o Events(told, kind, v)
        /\ raised' = raised \cup Range(told)
        /\ \A c \in Range(told) : c \in Range(listeners')
        /\ kind = "server" => \A c \in Range(told) : v >= floor'[c]
        /\ UNCHANGED <<asked, muted, answers>>
        /\ \/ UNCHANGED <<work, listeners, floor>>
           \/ /\ work # <<>> /\ Head(work)[1] = "add"
              /\ work' = Tail(work)
              /\ listeners' = Append(listeners, Head(work)[2])
              /\ \E n \in Versions : floor' = [floor EXCEPT ![Head(work)[2]] = n]
  BY DEF Raises
<1>2. /\ work' \in Seq({"add", "remove"} \X Calls) /\ listeners' \in Seq(Calls)
      /\ floor' \in [Calls -> Versions]
      /\ \A x : x \in Range(listeners) => x \in Range(listeners')
      /\ \A x : x \in Range(listeners') =>
            \/ x \in Range(listeners)
            \/ x \in asked /\ Untouched(x) /\ \A i \in 1..Len(work') : work'[i] # <<"add", x>>
      /\ \A x : <<"add", x>> \in Range(work) => <<"add", x>> \in Range(work') \/ x \in Range(listeners')
      /\ \E d \in {0, 1} : \A i \in 1..Len(work') : i + d \in 1..Len(work) /\ work'[i] = work[i + d]
      /\ \A i, j \in 1..Len(listeners') : listeners'[i] = listeners'[j] => i = j
      /\ \A x \in Calls : floor'[x] = floor[x] \/ Untouched(x)
  BY <1>1, RaisesWork
<1>3. kind \in {"server", "cache", "error"} /\ kind # "error"
  OBVIOUS
<1>4. /\ main' \in Seq(Event)
      /\ \A i \in 1..Len(main) : i \in 1..Len(main') /\ main'[i] = main[i]
      /\ \A i \in 1..Len(main') : \/ i \in 1..Len(main)
                                  \/ main'[i].call \in Range(told) /\ main'[i].kind = kind /\ main'[i].version = v
      /\ \A c \in Calls : HasEvent(c)' <=> HasEvent(c) \/ c \in Range(told)
  <2>1. main' = main \o Events(told, kind, v)
    BY <1>1
  <2>2. Posted(main', told, kind, v)
    BY <1>3, <2>1, PostIs
  <2> QED BY <2>2 DEF Posted, HasEvent
<1>5. \A c \in Range(told) : c \in Calls
  BY MemberIs
<1>6. \A i \in 1..Len(main) : main[i] \in Event /\ main[i].call \in Calls
  <2>1. main \in Seq(Event)
    BY DEF TypeOK
  <2>2. \A i \in 1..Len(main) : main[i] \in Event
    BY <2>1, MemberIs
  <2> QED BY <2>2 DEF Event
<1>7. ASSUME NEW x \in Calls, Untouched(x), x \notin Range(listeners') PROVE Untouched(x)'
  <2>1. x \notin Range(told) /\ x \notin raised'
    BY <1>1, <1>7 DEF Untouched
  <2>2. ~HasEvent(x)'
    BY <1>4, <1>7, <2>1 DEF Untouched
  <2> QED BY <1>1, <1>7, <2>1, <2>2 DEF Untouched
<1>8. CallType'
  <2>1. asked' = asked /\ muted' = muted /\ answers' = answers /\ raised' \subseteq Calls
    BY <1>1, <1>5 DEF TypeOK
  <2> QED BY <1>2, <1>4, <2>1 DEF TypeOK, CallType
<1>9. WorkInv'
  <2>1. PICK d \in {0, 1} : \A i \in 1..Len(work') : i + d \in 1..Len(work) /\ work'[i] = work[i + d]
    BY <1>2
  <2>2. ASSUME NEW i \in 1..Len(work'), work'[i][1] = "add"
        PROVE  /\ work'[i][2] \in asked' /\ (Untouched(work[i][2]))'
               /\ \A j \in 1..Len(work') : work'[j] = work'[i] => j = i
    <3>0. PICK x : x = work'[i][2]
      OBVIOUS
    <3>1. i + d \in 1..Len(work) /\ work'[i] = work[i + d]
      BY <2>1
    <3>2. /\ x \in asked /\ Untouched(x)
          /\ \A j \in 1..Len(work) : work[j] = work[i + d] => j = i + d
      BY <2>2, <3>0, <3>1 DEF CallInv, WorkInv
    <3>3. \A j \in 1..Len(work') : work'[j] = work'[i] => j = i
      BY <2>1, <3>1, <3>2
    <3>4. work'[i] \in {"add", "remove"} \X Calls
      BY <1>2, MemberIs
    <3>5. work'[i] = <<"add", x>> /\ x \in Calls
      BY <2>2, <3>0, <3>4
    <3>6. x \notin Range(listeners')
      BY <1>2, <3>2, <3>5 DEF Untouched
    <3>7. Untouched(x)'
      BY <1>7, <3>2, <3>5, <3>6
    <3>8. (Untouched(work[i][2]))'
      BY <3>0, <3>7 DEF Untouched, HasEvent
    <3> QED BY <1>1, <3>0, <3>2, <3>3, <3>8
  <2>3. ASSUME NEW i \in 1..Len(work'), work'[i][1] = "remove" PROVE answers'[work'[i][2]] # <<>>
    BY <1>1, <2>1, <2>3 DEF CallInv, WorkInv
  <2>4. ASSUME NEW c \in Calls, c \notin asked' PROVE Untouched(c)'
    <3>1. c \notin asked /\ Untouched(c)
      BY <1>1, <2>4 DEF CallInv, WorkInv
    <3>2. c \notin Range(listeners')
      BY <1>2, <3>1 DEF Untouched
    <3> QED BY <1>7, <3>1, <3>2
  <2> QED BY <2>2, <2>3, <2>4 DEF WorkInv
<1>10. ListenersInv'
  <2>1. ASSUME NEW i \in 1..Len(main'), main'[i].kind = "error"
        PROVE  /\ main'[i].call \notin Range(listeners')
               /\ \A j \in 1..Len(main') : j > i => main'[j].call # main'[i].call
    <3>1. i \in 1..Len(main) /\ main'[i] = main[i] /\ main[i].call \in Calls
      BY <1>3, <1>4, <1>6, <2>1
    <3>2. /\ main[i].call \notin Range(listeners)
          /\ \A j \in 1..Len(main) : j > i => main[j].call # main[i].call
      BY <2>1, <3>1 DEF CallInv, ListenersInv
    <3>3. HasEvent(main[i].call)
      BY <3>1 DEF HasEvent
    <3>4. main[i].call \notin Range(listeners')
      BY <1>2, <3>2, <3>3 DEF Untouched
    <3>5. ASSUME NEW j \in 1..Len(main'), j > i PROVE main'[j].call # main'[i].call
      BY <1>1, <1>4, <3>1, <3>2, <3>4, <3>5
    <3> QED BY <3>1, <3>4, <3>5
  <2> QED BY <1>2, <2>1 DEF ListenersInv
<1>11. AnswerInv'
  <2> SUFFICES ASSUME NEW c \in Calls
      PROVE /\ Len(answers'[c]) <= 1
            /\ c \in muted' => answers'[c] # <<>>
            /\ answers'[c] # <<>> /\ c \notin muted' => ~HasEvent(c)' /\ c \notin Range(listeners')
            /\ c \in raised' => answers'[c] # <<>> \/ HasEvent(c)'
            /\ c \in asked' /\ answers'[c] = <<>> =>
                  <<"add", c>> \in Range(work') \/ HasEvent(c)' \/ c \in Range(listeners')
    BY DEF AnswerInv
  <2>1. /\ Len(answers[c]) <= 1
        /\ c \in muted => answers[c] # <<>>
        /\ answers[c] # <<>> /\ c \notin muted => ~HasEvent(c) /\ c \notin Range(listeners)
        /\ c \in raised => answers[c] # <<>> \/ HasEvent(c)
        /\ c \in asked /\ answers[c] = <<>> =>
              <<"add", c>> \in Range(work) \/ HasEvent(c) \/ c \in Range(listeners)
    BY DEF CallInv, AnswerInv
  <2>2. UNCHANGED <<asked, muted, answers>>
    BY <1>1
  <2>3. answers[c] # <<>> /\ c \notin Range(listeners) => c \notin Range(listeners')
    BY <1>2 DEF Untouched
  <2>4. c \in Range(told) => c \in Range(listeners')
    BY <1>1
  <2>5. answers[c] # <<>> /\ c \notin muted => ~HasEvent(c)' /\ c \notin Range(listeners')
    BY <1>4, <2>1, <2>3, <2>4
  <2>6. c \in raised' => answers[c] # <<>> \/ HasEvent(c)'
    BY <1>1, <1>4, <2>1
  <2>7. c \in asked /\ answers[c] = <<>> =>
           <<"add", c>> \in Range(work') \/ HasEvent(c)' \/ c \in Range(listeners')
    BY <1>2, <1>4, <2>1
  <2> QED BY <2>1, <2>2, <2>5, <2>6, <2>7
<1>12. EventsFresh'
  <2> SUFFICES ASSUME NEW i \in 1..Len(main'), main'[i].kind = "server"
               PROVE  main'[i].version >= floor'[main'[i].call]
    BY DEF EventsFresh
  <2>1. CASE i \in 1..Len(main)
    <3>1. main'[i] = main[i] /\ main[i].call \in Calls /\ HasEvent(main[i].call)
      BY <1>4, <1>6, <2>1 DEF HasEvent
    <3>2. floor'[main[i].call] = floor[main[i].call]
      BY <1>2, <3>1 DEF Untouched
    <3> QED BY <2>1, <3>1, <3>2 DEF EventsFresh
  <2>2. CASE i \notin 1..Len(main)
    BY <1>1, <1>4, <2>2
  <2> QED BY <2>1, <2>2
<1> QED BY <1>8, <1>9, <1>10, <1>11, <1>12 DEF CallInv

\* A listener is removed, of a call that has been answered.
LEMMA RemoveKeeps ==
    ASSUME TypeOK, CallInv, EventsFresh, RemoveQueryListener
    PROVE  CallType' /\ CallInv' /\ EventsFresh'
<1> DEFINE c == Head(work)[2]
<1>1. /\ work # <<>> /\ Head(work)[1] = "remove" /\ work' = Tail(work) /\ listeners' = Erase(listeners, c)
      /\ UNCHANGED <<main, asked, muted, answers, raised, floor>>
  BY DEF RemoveQueryListener
<1>2. /\ work[1] = <<"remove", c>> /\ c \in Calls /\ 1 \in 1..Len(work)
      /\ work' \in Seq({"add", "remove"} \X Calls)
      /\ \A i \in 1..Len(work') : i + 1 \in 1..Len(work) /\ i + 1 > 1 /\ work'[i] = work[i + 1]
      /\ \A i \in 1..Len(work) : i = 1 \/ (i - 1 \in 1..Len(work') /\ work'[i - 1] = work[i])
  BY <1>1, WorkIs
<1> HIDE DEF c
<1>3. answers[c] # <<>>
  BY <1>2 DEF CallInv, WorkInv
<1>4. /\ listeners \in Seq(Calls) /\ work \in Seq({"add", "remove"} \X Calls)
      /\ \A i, j \in 1..Len(listeners) : listeners[i] = listeners[j] => i = j
  BY DEF TypeOK, CallInv, ListenersInv
<1>5. /\ listeners' \in Seq(Calls)
      /\ \A x : x \in Range(listeners') <=> x \in Range(listeners) /\ x # c
      /\ \A i, j \in 1..Len(listeners') : listeners'[i] = listeners'[j] => i = j
  BY <1>1, <1>4, EraseIs
<1>6. \A x : <<"add", x>> \in Range(work) => <<"add", x>> \in Range(work')
  <2>1. /\ \A x : x \in Range(work) <=> \E i \in 1..Len(work) : work[i] = x
        /\ \A x : x \in Range(work') <=> \E i \in 1..Len(work') : work'[i] = x
    BY <1>2, <1>4, MemberIs
  <2> SUFFICES ASSUME NEW x, <<"add", x>> \in Range(work) PROVE <<"add", x>> \in Range(work')
    OBVIOUS
  <2>2. PICK i \in 1..Len(work) : work[i] = <<"add", x>>
    BY <2>1
  <2>3. i # 1
    BY <1>2, <2>2
  <2> QED BY <1>2, <2>1, <2>2, <2>3
<1>7. \A x \in Calls : HasEvent(x)' <=> HasEvent(x)
  BY <1>1 DEF HasEvent
<1>8. \A x \in Calls : Untouched(x) => Untouched(x)'
  BY <1>1, <1>5, <1>7 DEF Untouched
<1>9. CallType'
  BY <1>1, <1>2, <1>5 DEF TypeOK, CallType
<1>10. WorkInv'
  <2>1. ASSUME NEW i \in 1..Len(work'), work'[i][1] = "add"
        PROVE  /\ work'[i][2] \in asked' /\ (Untouched(work[i][2]))'
               /\ \A j \in 1..Len(work') : work'[j] = work'[i] => j = i
    <3>0. PICK x : x = work'[i][2]
      OBVIOUS
    <3>1. i + 1 \in 1..Len(work) /\ work'[i] = work[i + 1]
      BY <1>2
    <3>2. /\ x \in asked /\ Untouched(x)
          /\ \A j \in 1..Len(work) : work[j] = work[i + 1] => j = i + 1
      BY <2>1, <3>0, <3>1 DEF CallInv, WorkInv
    <3>3. \A j \in 1..Len(work') : work'[j] = work'[i] => j = i
      BY <1>2, <3>1, <3>2
    <3>4. x \in Calls
      BY <3>2 DEF TypeOK
    <3>5. Untouched(x)'
      BY <1>8, <3>2, <3>4
    <3>6. (Untouched(work[i][2]))'
      BY <3>0, <3>5 DEF Untouched, HasEvent
    <3> QED BY <1>1, <3>0, <3>2, <3>3, <3>6
  <2>2. ASSUME NEW i \in 1..Len(work'), work'[i][1] = "remove" PROVE answers'[work'[i][2]] # <<>>
    BY <1>1, <1>2, <2>2 DEF CallInv, WorkInv
  <2>3. ASSUME NEW x \in Calls, x \notin asked' PROVE Untouched(x)'
    BY <1>1, <1>8, <2>3 DEF CallInv, WorkInv
  <2> QED BY <2>1, <2>2, <2>3 DEF WorkInv
<1>11. ListenersInv'
  BY <1>1, <1>5 DEF CallInv, ListenersInv
<1>12. AnswerInv'
  <2> SUFFICES ASSUME NEW x \in Calls
      PROVE /\ Len(answers'[x]) <= 1
            /\ x \in muted' => answers'[x] # <<>>
            /\ answers'[x] # <<>> /\ x \notin muted' => ~HasEvent(x)' /\ x \notin Range(listeners')
            /\ x \in raised' => answers'[x] # <<>> \/ HasEvent(x)'
            /\ x \in asked' /\ answers'[x] = <<>> =>
                  <<"add", x>> \in Range(work') \/ HasEvent(x)' \/ x \in Range(listeners')
    BY DEF AnswerInv
  <2>1. /\ Len(answers[x]) <= 1
        /\ x \in muted => answers[x] # <<>>
        /\ answers[x] # <<>> /\ x \notin muted => ~HasEvent(x) /\ x \notin Range(listeners)
        /\ x \in raised => answers[x] # <<>> \/ HasEvent(x)
        /\ x \in asked /\ answers[x] = <<>> =>
              <<"add", x>> \in Range(work) \/ HasEvent(x) \/ x \in Range(listeners)
    BY DEF CallInv, AnswerInv
  <2> QED BY <1>1, <1>3, <1>5, <1>6, <1>7, <2>1
<1> QED BY <1>1, <1>9, <1>10, <1>11, <1>12 DEF CallInv, EventsFresh

\* Every listener is told of an error and removed.
LEMMA ErrorKeeps ==
    ASSUME TypeOK, CallInv, EventsFresh, ProcessTargetError
    PROVE  CallType' /\ CallInv' /\ EventsFresh'
<1>1. /\ main' = main \o Events(listeners, "error", 0) /\ listeners' = <<>>
      /\ UNCHANGED <<work, asked, muted, answers, raised, floor>>
  BY DEF ProcessTargetError
<1>2. /\ listeners \in Seq(Calls) /\ 0 \in Versions /\ main \in Seq(Event)
      /\ \A i, j \in 1..Len(listeners) : listeners[i] = listeners[j] => i = j
  BY BoundsAreNumbers DEF TypeOK, CallInv, ListenersInv, Versions
<1>3. Posted(main', listeners, "error", 0)
  BY <1>1, <1>2, PostIs
<1>4. /\ main' \in Seq(Event)
      /\ \A i \in 1..Len(main) : i \in 1..Len(main') /\ main'[i] = main[i]
      /\ \A i \in 1..Len(main') :
            \/ i \in 1..Len(main)
            \/ main'[i].call \in Range(listeners) /\ main'[i].kind = "error"
      /\ \A i \in 1..Len(main') :
            \/ i \in 1..Len(main)
            \/ \E k \in 1..Len(listeners) : i = Len(main) + k /\ main'[i].call = listeners[k]
      /\ \A c \in Calls : HasEvent(c)' <=> HasEvent(c) \/ c \in Range(listeners)
  BY <1>3 DEF Posted, HasEvent
<1>5. listeners' \in Seq(Calls) /\ Range(listeners') = {}
  BY <1>1, EmptySeq, MemberIs
<1>6. \A x \in Calls : Untouched(x) => Untouched(x)'
  BY <1>1, <1>4, <1>5 DEF Untouched
<1>7. \A i \in 1..Len(main) : main[i].call \in Calls /\ HasEvent(main[i].call)
  <2>1. \A i \in 1..Len(main) : main[i] \in Event
    BY <1>2, MemberIs
  <2> QED BY <2>1 DEF Event, HasEvent
<1>8. CallType'
  BY <1>1, <1>4, <1>5 DEF TypeOK, CallType
<1>9. WorkInv'
  <2>1. \A i \in 1..Len(work) : work[i] \in {"add", "remove"} \X Calls
    BY MemberIs DEF TypeOK
  <2>2. ASSUME NEW i \in 1..Len(work'), work'[i][1] = "add"
        PROVE  /\ work'[i][2] \in asked' /\ (Untouched(work[i][2]))'
               /\ \A j \in 1..Len(work') : work'[j] = work'[i] => j = i
    <3>0. PICK x : x = work[i][2]
      OBVIOUS
    <3>1. /\ x \in Calls /\ x \in asked /\ Untouched(x)
          /\ \A j \in 1..Len(work) : work[j] = work[i] => j = i
      BY <1>1, <2>1, <2>2, <3>0 DEF CallInv, WorkInv
    <3>2. Untouched(x)'
      BY <1>6, <3>1
    <3>3. (Untouched(work[i][2]))'
      BY <1>1, <3>0, <3>2 DEF Untouched, HasEvent
    <3> QED BY <1>1, <3>0, <3>1, <3>3
  <2>3. ASSUME NEW x \in Calls, x \notin asked' PROVE Untouched(x)'
    BY <1>1, <1>6, <2>3 DEF CallInv, WorkInv
  <2> QED BY <1>1, <2>2, <2>3 DEF CallInv, WorkInv
<1>10. ListenersInv'
  <2>1. ASSUME NEW i \in 1..Len(main'), NEW j \in 1..Len(main'), main'[i].kind = "error", j > i,
               main'[j].call = main'[i].call
        PROVE  FALSE
    <3>1. CASE i \in 1..Len(main) /\ j \in 1..Len(main)
      BY <1>4, <2>1, <3>1 DEF CallInv, ListenersInv
    <3>2. CASE i \in 1..Len(main) /\ j \notin 1..Len(main)
      <4>1. main[i].call \notin Range(listeners) /\ main'[i] = main[i]
        BY <1>4, <2>1, <3>2 DEF CallInv, ListenersInv
      <4> QED BY <1>4, <2>1, <3>2, <4>1
    <3>3. CASE i \notin 1..Len(main)
      <4>1. j \notin 1..Len(main)
        BY <1>2, <2>1, <3>3
      <4>2. PICK k \in 1..Len(listeners) : i = Len(main) + k /\ main'[i].call = listeners[k]
        BY <1>4, <3>3
      <4>3. PICK l \in 1..Len(listeners) : j = Len(main) + l /\ main'[j].call = listeners[l]
        BY <1>4, <4>1
      <4>4. k = l
        BY <1>2, <2>1, <4>2, <4>3
      <4> QED BY <2>1, <4>2, <4>3, <4>4
    <3> QED BY <3>1, <3>2, <3>3
  <2>2. \A i, j \in 1..Len(listeners') : listeners'[i] = listeners'[j] => i = j
    BY <1>1
  <2> QED BY <1>5, <2>1, <2>2 DEF ListenersInv
<1>11. AnswerInv'
  <2> SUFFICES ASSUME NEW x \in Calls
      PROVE /\ Len(answers'[x]) <= 1
            /\ x \in muted' => answers'[x] # <<>>
            /\ answers'[x] # <<>> /\ x \notin muted' => ~HasEvent(x)' /\ x \notin Range(listeners')
            /\ x \in raised' => answers'[x] # <<>> \/ HasEvent(x)'
            /\ x \in asked' /\ answers'[x] = <<>> =>
                  <<"add", x>> \in Range(work') \/ HasEvent(x)' \/ x \in Range(listeners')
    BY DEF AnswerInv
  <2>1. /\ Len(answers[x]) <= 1
        /\ x \in muted => answers[x] # <<>>
        /\ answers[x] # <<>> /\ x \notin muted => ~HasEvent(x) /\ x \notin Range(listeners)
        /\ x \in raised => answers[x] # <<>> \/ HasEvent(x)
        /\ x \in asked /\ answers[x] = <<>> =>
              <<"add", x>> \in Range(work) \/ HasEvent(x) \/ x \in Range(listeners)
    BY DEF CallInv, AnswerInv
  <2> QED BY <1>1, <1>4, <1>5, <2>1
<1>12. EventsFresh'
  BY <1>1, <1>4 DEF EventsFresh
<1> QED BY <1>8, <1>9, <1>10, <1>11, <1>12 DEF CallInv

\* The next event: what is known of it, of the queue behind it, and of its answer.
LEMMA EventIs ==
    ASSUME TypeOK, main # <<>>
    PROVE  /\ Head(main) = main[1] /\ 1 \in 1..Len(main)
           /\ main[1].call \in Calls /\ main[1].version \in Versions
           /\ AnswerTo(Head(main)) \in Answer
           /\ Tail(main) \in Seq(Event)
           /\ \A i \in 1..Len(Tail(main)) : i + 1 \in 1..Len(main) /\ i + 1 > 1 /\ Tail(main)[i] = main[i + 1]
           /\ \A i \in 1..Len(main) : i = 1 \/ (i - 1 \in 1..Len(Tail(main)) /\ Tail(main)[i - 1] = main[i])
<1>1. main \in Seq(Event)
  BY DEF TypeOK
<1>2. /\ Head(main) = main[1] /\ 1 \in 1..Len(main) /\ Head(main) \in Event
      /\ Tail(main) \in Seq(Event)
      /\ \A i \in 1..Len(Tail(main)) : i + 1 \in 1..Len(main) /\ i + 1 > 1 /\ Tail(main)[i] = main[i + 1]
      /\ \A i \in 1..Len(main) : i = 1 \/ (i - 1 \in 1..Len(Tail(main)) /\ Tail(main)[i - 1] = main[i])
  BY <1>1, TailIs
<1>3. \A e \in Event : e.call \in Calls /\ e.version \in Versions /\ AnswerTo(e) \in Answer
  BY DEF Event, AnswerTo, Answer
<1> QED BY <1>2, <1>3

\* An event is handled.
LEMMA OnEventKeeps ==
    ASSUME TypeOK, CallInv, EventsFresh, OnEvent
    PROVE  CallType' /\ CallInv' /\ EventsFresh'
<1>1. PICK c : c = main[1].call
  OBVIOUS
<1>2. main # <<>> /\ main' = Tail(main) /\ UNCHANGED <<asked, listeners, raised, floor>>
  BY DEF OnEvent, local
<1>3. /\ Head(main) = main[1] /\ 1 \in 1..Len(main) /\ c \in Calls
      /\ AnswerTo(Head(main)) \in Answer /\ main' \in Seq(Event)
      /\ \A i \in 1..Len(main') : i + 1 \in 1..Len(main) /\ i + 1 > 1 /\ main'[i] = main[i + 1]
      /\ \A i \in 1..Len(main) : i = 1 \/ (i - 1 \in 1..Len(main') /\ main'[i - 1] = main[i])
  BY <1>1, <1>2, EventIs
<1>4. HasEvent(c) /\ \A x : (HasEvent(x)' => HasEvent(x)) /\ (HasEvent(x) => HasEvent(x)' \/ x = c)
  <2>1. HasEvent(c)
    BY <1>1, <1>3 DEF HasEvent
  <2>2. ASSUME NEW x, HasEvent(x)' PROVE HasEvent(x)
    <3>1. PICK i \in 1..Len(main') : main'[i].call = x
      BY <2>2 DEF HasEvent
    <3> QED BY <1>3, <3>1 DEF HasEvent
  <2>3. ASSUME NEW x, HasEvent(x), x # c PROVE HasEvent(x)'
    <3>1. PICK i \in 1..Len(main) : main[i].call = x
      BY <2>3 DEF HasEvent
    <3>2. i # 1
      BY <1>1, <2>3, <3>1
    <3> QED BY <1>3, <3>1, <3>2 DEF HasEvent
  <2> QED BY <2>1, <2>2, <2>3
<1>5. /\ work \in Seq({"add", "remove"} \X Calls) /\ muted \subseteq Calls
      /\ answers \in [Calls -> Seq(Answer)]
  BY DEF TypeOK
<1>6. /\ \A x \in Calls \ {c} : answers'[x] = answers[x] /\ (x \in muted' <=> x \in muted)
      /\ \/ UNCHANGED work
         \/ work' = Append(work, <<"remove", c>>)
      /\ work' \in Seq({"add", "remove"} \X Calls) /\ muted' \subseteq Calls
      /\ answers' \in [Calls -> Seq(Answer)]
      /\ Len(answers'[c]) <= 1 /\ answers'[c] # <<>>
      /\ c \in muted' \/ (~HasEvent(c)' /\ c \notin Range(listeners))
  <2>1. CASE c \in muted
    <3>1. UNCHANGED <<work, muted, answers>>
      BY <1>1, <1>3, <2>1 DEF OnEvent
    <3>2. Len(answers[c]) <= 1 /\ answers[c] # <<>>
      BY <1>3, <2>1 DEF CallInv, AnswerInv
    <3> QED BY <1>5, <2>1, <3>1, <3>2
  <2>2. CASE c \notin muted
    <3> DEFINE a == AnswerTo(Head(main))
    <3>1. /\ answers' = [answers EXCEPT ![c] = Append(answers[c], a)]
          /\ IF main[1].kind = "error" THEN UNCHANGED <<work, muted>> ELSE Remove(c)
      BY <1>1, <1>3, <2>2 DEF OnEvent
    <3>2. a \in Answer
      BY <1>3
    <3> HIDE DEF a
    <3>3. answers[c] = <<>>
      BY <1>3, <1>4, <2>2 DEF CallInv, AnswerInv
    <3>4. /\ answers' \in [Calls -> Seq(Answer)] /\ \A x \in Calls \ {c} : answers'[x] = answers[x]
          /\ answers'[c] = Append(answers[c], a)
      <4>1. Append(answers[c], a) \in Seq(Answer)
        BY <1>3, <1>5, <3>2, AppendIs
      <4> QED BY <1>3, <1>5, <3>1, <4>1
    <3>5. Len(answers'[c]) <= 1 /\ answers'[c] # <<>>
      <4>1. <<>> \in Seq(Answer) /\ Len(<<>>) = 0
        BY EmptySeq
      <4>2. Len(Append(<<>>, a)) = Len(<<>>) + 1 /\ Append(<<>>, a) # <<>>
        BY <3>2, <4>1, AppendIs
      <4> QED BY <3>3, <3>4, <4>1, <4>2
    <3>6. CASE main[1].kind = "error"
      <4>1. c \notin Range(listeners) /\ \A j \in 1..Len(main) : j > 1 => main[j].call # c
        BY <1>1, <1>3, <3>6 DEF CallInv, ListenersInv
      <4>2. ~HasEvent(c)'
        BY <1>3, <4>1, ZenonT(40) DEF HasEvent
      <4> QED BY <1>5, <3>1, <3>4, <3>5, <3>6, <4>1, <4>2
    <3>7. CASE main[1].kind # "error"
      <4>1. work' = Append(work, <<"remove", c>>) /\ muted' = muted \cup {c}
        BY <3>1, <3>7 DEF Remove
      <4>2. work' \in Seq({"add", "remove"} \X Calls)
        BY <1>3, <1>5, <4>1, AppendIs
      <4> QED BY <1>3, <1>5, <3>4, <3>5, <4>1, <4>2
    <3> QED BY <3>6, <3>7
  <2> QED BY <2>1, <2>2
<1>7. \A x \in Calls : Untouched(x) => x # c /\ Untouched(x)'
  BY <1>2, <1>4, <1>6 DEF Untouched
<1>8. CallType'
  BY <1>2, <1>3, <1>6 DEF TypeOK, CallType
<1>9. /\ \A i \in 1..Len(work) : i \in 1..Len(work') /\ work'[i] = work[i]
      /\ \A i \in 1..Len(work') : i \in 1..Len(work) \/ work'[i] = <<"remove", c>>
      /\ \A x : x \in Range(work) => x \in Range(work')
  <2>1. CASE UNCHANGED work
    BY <2>1
  <2>2. CASE work' = Append(work, <<"remove", c>>)
    <3>1. /\ \A i \in 1..Len(work) : i \in 1..Len(work') /\ work'[i] = work[i]
          /\ work'[Len(work) + 1] = <<"remove", c>>
          /\ \A i \in 1..Len(work') : i \in 1..Len(work) \/ i = Len(work) + 1
      BY <1>3, <1>5, <2>2, AppendIs
    <3>2. /\ \A x : x \in Range(work) <=> \E i \in 1..Len(work) : work[i] = x
          /\ \A x : x \in Range(work') <=> \E i \in 1..Len(work') : work'[i] = x
      BY <1>5, <1>6, MemberIs
    <3>3. \A i \in 1..Len(work') : i \in 1..Len(work) \/ work'[i] = <<"remove", c>>
      BY <3>1
    <3>4. \A x : x \in Range(work) => x \in Range(work')
      BY <3>1, <3>2
    <3> QED BY <3>1, <3>3, <3>4
  <2> QED BY <1>6, <2>1, <2>2
<1>10. WorkInv'
  <2>1. \A i \in 1..Len(work) : work[i] \in {"add", "remove"} \X Calls
    BY <1>5, MemberIs
  <2>2. ASSUME NEW i \in 1..Len(work'), work'[i][1] = "add"
        PROVE  /\ work'[i][2] \in asked' /\ (Untouched(work[i][2]))'
               /\ \A j \in 1..Len(work') : work'[j] = work'[i] => j = i
    <3>0. PICK x : x = work'[i][2]
      OBVIOUS
    <3>1. i \in 1..Len(work) /\ work'[i] = work[i]
      BY <1>9, <2>2
    <3>2. /\ x \in Calls /\ x \in asked /\ Untouched(x)
          /\ \A j \in 1..Len(work) : work[j] = work[i] => j = i
      BY <2>1, <2>2, <3>0, <3>1 DEF CallInv, WorkInv
    <3>3. ASSUME NEW j \in 1..Len(work'), work'[j] = work'[i] PROVE j = i
      <4>1. work'[j] # <<"remove", c>>
        BY <2>2, <3>3
      <4> QED BY <1>9, <3>1, <3>2, <3>3, <4>1
    <3>4. Untouched(x)'
      BY <1>7, <3>2
    <3>5. (Untouched(work[i][2]))'
      BY <3>0, <3>4 DEF Untouched, HasEvent
    <3> QED BY <1>2, <3>0, <3>2, <3>3, <3>5
  <2>3. ASSUME NEW i \in 1..Len(work'), work'[i][1] = "remove" PROVE answers'[work'[i][2]] # <<>>
    <3>1. CASE i \in 1..Len(work)
      <4>1. work'[i] = work[i] /\ work[i][2] \in Calls /\ answers[work[i][2]] # <<>>
        BY <1>9, <2>1, <2>3, <3>1 DEF CallInv, WorkInv
      <4> QED BY <1>6, <4>1
    <3>2. CASE i \notin 1..Len(work)
      BY <1>6, <1>9, <3>2
    <3> QED BY <3>1, <3>2
  <2>4. ASSUME NEW x \in Calls, x \notin asked' PROVE Untouched(x)'
    BY <1>2, <1>7, <2>4 DEF CallInv, WorkInv
  <2> QED BY <2>2, <2>3, <2>4 DEF WorkInv
<1>11. ListenersInv'
  <2>1. ASSUME NEW i \in 1..Len(main'), main'[i].kind = "error"
        PROVE  /\ main'[i].call \notin Range(listeners')
               /\ \A j \in 1..Len(main') : j > i => main'[j].call # main'[i].call
    <3>1. /\ i + 1 \in 1..Len(main) /\ main'[i] = main[i + 1]
          /\ \A j \in 1..Len(main') : j > i => j + 1 \in 1..Len(main) /\ j + 1 > i + 1 /\ main'[j] = main[j + 1]
      BY <1>3, SMTT(30)
    <3>2. /\ main[i + 1].call \notin Range(listeners)
          /\ \A j \in 1..Len(main) : j > i + 1 => main[j].call # main[i + 1].call
      BY <2>1, <3>1 DEF CallInv, ListenersInv
    <3> QED BY <1>2, <3>1, <3>2
  <2> QED BY <1>2, <2>1 DEF CallInv, ListenersInv
<1>12. AnswerInv'
  <2> SUFFICES ASSUME NEW x \in Calls
      PROVE /\ Len(answers'[x]) <= 1
            /\ x \in muted' => answers'[x] # <<>>
            /\ answers'[x] # <<>> /\ x \notin muted' => ~HasEvent(x)' /\ x \notin Range(listeners')
            /\ x \in raised' => answers'[x] # <<>> \/ HasEvent(x)'
            /\ x \in asked' /\ answers'[x] = <<>> =>
                  <<"add", x>> \in Range(work') \/ HasEvent(x)' \/ x \in Range(listeners')
    BY DEF AnswerInv
  <2>1. /\ Len(answers[x]) <= 1
        /\ x \in muted => answers[x] # <<>>
        /\ answers[x] # <<>> /\ x \notin muted => ~HasEvent(x) /\ x \notin Range(listeners)
        /\ x \in raised => answers[x] # <<>> \/ HasEvent(x)
        /\ x \in asked /\ answers[x] = <<>> =>
              <<"add", x>> \in Range(work) \/ HasEvent(x) \/ x \in Range(listeners)
    BY DEF CallInv, AnswerInv
  <2>2. CASE x = c
    BY <1>2, <1>6, <2>2
  <2>3. CASE x # c
    BY <1>2, <1>4, <1>6, <1>9, <2>1, <2>3
  <2> QED BY <2>2, <2>3
<1>13. EventsFresh'
  BY <1>2, <1>3 DEF EventsFresh
<1> QED BY <1>8, <1>10, <1>11, <1>12, <1>13 DEF CallInv

\* Calls are made.
LEMMA AskingKeeps ==
    ASSUME TypeOK, CallInv, EventsFresh, NEW new \in Seq(Calls), Asking(new)
    PROVE  CallType' /\ CallInv' /\ EventsFresh'
<1> DEFINE adds == [i \in 1..Len(new) |-> <<"add", new[i]>>]
           W == {"add", "remove"} \X Calls
<1>1. /\ \A i, j \in 1..Len(new) : new[i] = new[j] => i = j
      /\ \A i \in 1..Len(new) : new[i] \notin asked
      /\ asked' = asked \cup Range(new) /\ work' = work \o adds
      /\ UNCHANGED <<main, muted, answers, listeners, raised, floor>>
  BY DEF Asking, local
<1>2. /\ work \in Seq(W) /\ Len(new) \in Nat /\ \A i \in 1..Len(new) : new[i] \in Calls
      /\ \A x : x \in Range(new) <=> \E i \in 1..Len(new) : new[i] = x
  BY MemberIs DEF TypeOK
<1>3. adds \in Seq(W) /\ Len(adds) = Len(new) /\ \A i \in 1..Len(new) : adds[i] = <<"add", new[i]>>
  <2>1. adds \in [1..Len(new) -> W]
    BY <1>2
  <2>2. adds \in Seq(W)
    BY <1>2, <2>1, SeqDef
  <2>3. Len(adds) = Len(new)
    BY <1>2, <2>1, <2>2, LenProperties
  <2> QED BY <2>2, <2>3
<1> HIDE DEF adds
<1>4. /\ work' \in Seq(W)
      /\ \A i \in 1..Len(work) : i \in 1..Len(work') /\ work'[i] = work[i]
      /\ \A i \in 1..Len(adds) : Len(work) + i \in 1..Len(work') /\ work'[Len(work) + i] = adds[i]
      /\ \A i \in 1..Len(work') :
            \/ i \in 1..Len(work)
            \/ i - Len(work) \in 1..Len(adds) /\ i > Len(work) /\ work'[i] = adds[i - Len(work)]
  BY <1>1, <1>2, <1>3, ConcatIs
<1>5. /\ \A x : x \in Range(work) <=> \E i \in 1..Len(work) : work[i] = x
      /\ \A x : x \in Range(work') <=> \E i \in 1..Len(work') : work'[i] = x
      /\ \A i \in 1..Len(work) : work[i] \in W
      /\ Len(work) \in Nat
  BY <1>2, <1>4, MemberIs
<1>6. ASSUME NEW i \in 1..Len(work'), i \notin 1..Len(work)
      PROVE  \E k \in 1..Len(new) : i = Len(work) + k /\ work'[i] = <<"add", new[k]>>
  <2> DEFINE k == i - Len(work)
  <2>1. k \in 1..Len(new) /\ i = Len(work) + k /\ work'[i] = adds[k]
    BY <1>3, <1>4, <1>5, <1>6
  <2> QED BY <1>3, <2>1
<1>7. \A x : Untouched(x) => Untouched(x)'
  BY <1>1 DEF Untouched, HasEvent
<1>8. CallType'
  <2>0. asked \subseteq Calls /\ asked' = asked \cup Range(new)
    BY <1>1 DEF TypeOK
  <2>1. asked' \subseteq Calls
    BY <1>2, <2>0
  <2>2. work' \in Seq({"add", "remove"} \X Calls)
    BY <1>4
  <2>3. UNCHANGED <<main, muted, answers, listeners, raised, floor>>
    BY <1>1
  <2> QED BY <2>1, <2>2, <2>3 DEF TypeOK, CallType
<1>9. WorkInv'
  <2>1. ASSUME NEW i \in 1..Len(work'), work'[i][1] = "add"
        PROVE  /\ work'[i][2] \in asked' /\ (Untouched(work[i][2]))'
               /\ \A j \in 1..Len(work') : work'[j] = work'[i] => j = i
    <3>0. PICK x : x = work'[i][2]
      OBVIOUS
    <3>1. CASE i \in 1..Len(work)
      <4>1. work'[i] = work[i]
        BY <1>4, <3>1
      <4>2. /\ x \in asked /\ Untouched(x)
            /\ \A j \in 1..Len(work) : work[j] = work[i] => j = i
        BY <2>1, <3>0, <3>1, <4>1 DEF CallInv, WorkInv
      <4>3. ASSUME NEW j \in 1..Len(work'), work'[j] = work'[i] PROVE j = i
        <5>1. CASE j \in 1..Len(work)
          BY <1>4, <4>1, <4>2, <4>3, <5>1
        <5>2. CASE j \notin 1..Len(work)
          <6>1. PICK k \in 1..Len(new) : work'[j] = <<"add", new[k]>>
            BY <1>6, <5>2
          <6>2. x = new[k]
            BY <3>0, <4>3, <6>1
          <6> QED BY <1>1, <4>2, <6>2
        <5> QED BY <5>1, <5>2
      <4>4. Untouched(x)'
        BY <1>7, <4>2
      <4> QED BY <1>1, <3>0, <4>2, <4>3, <4>4 DEF Untouched, HasEvent
    <3>2. CASE i \notin 1..Len(work)
      <4>1. PICK k \in 1..Len(new) : i = Len(work) + k /\ work'[i] = <<"add", new[k]>>
        BY <1>6, <3>2
      <4>2. x = new[k] /\ x \in Calls /\ x \notin asked /\ x \in asked'
        BY <1>1, <1>2, <3>0, <4>1
      <4>3. Untouched(x)'
        BY <1>7, <4>2 DEF CallInv, WorkInv
      <4>4. ASSUME NEW j \in 1..Len(work'), work'[j] = work'[i] PROVE j = i
        <5>1. CASE j \in 1..Len(work)
          <6>1. work[j] = <<"add", x>>
            BY <1>4, <4>1, <4>2, <4>4, <5>1
          <6>2. x \in asked
            BY <5>1, <6>1 DEF CallInv, WorkInv
          <6> QED BY <4>2, <6>2
        <5>2. CASE j \notin 1..Len(work)
          <6>1. PICK l \in 1..Len(new) : j = Len(work) + l /\ work'[j] = <<"add", new[l]>>
            BY <1>6, <5>2
          <6>2. new[l] = new[k]
            BY <4>1, <4>4, <6>1
          <6> QED BY <1>1, <4>1, <6>1, <6>2
        <5> QED BY <5>1, <5>2
      <4> QED BY <3>0, <4>2, <4>3, <4>4 DEF Untouched, HasEvent
    <3> QED BY <3>1, <3>2
  <2>2. ASSUME NEW i \in 1..Len(work'), work'[i][1] = "remove" PROVE answers'[work'[i][2]] # <<>>
    <3>1. i \in 1..Len(work)
      <4> SUFFICES ASSUME i \notin 1..Len(work) PROVE FALSE
        OBVIOUS
      <4>1. PICK k \in 1..Len(new) : work'[i] = <<"add", new[k]>>
        BY <1>6
      <4> QED BY <2>2, <4>1
    <3> QED BY <1>1, <1>4, <2>2, <3>1 DEF CallInv, WorkInv
  <2>3. ASSUME NEW x \in Calls, x \notin asked' PROVE Untouched(x)'
    BY <1>1, <1>7, <2>3 DEF CallInv, WorkInv
  <2> QED BY <2>1, <2>2, <2>3 DEF WorkInv
<1>10. ListenersInv'
  BY <1>1 DEF CallInv, ListenersInv
<1>11. AnswerInv'
  <2> SUFFICES ASSUME NEW x \in Calls
      PROVE /\ Len(answers'[x]) <= 1
            /\ x \in muted' => answers'[x] # <<>>
            /\ answers'[x] # <<>> /\ x \notin muted' => ~HasEvent(x)' /\ x \notin Range(listeners')
            /\ x \in raised' => answers'[x] # <<>> \/ HasEvent(x)'
            /\ x \in asked' /\ answers'[x] = <<>> =>
                  <<"add", x>> \in Range(work') \/ HasEvent(x)' \/ x \in Range(listeners')
    BY DEF AnswerInv
  <2>1. /\ Len(answers[x]) <= 1
        /\ x \in muted => answers[x] # <<>>
        /\ answers[x] # <<>> /\ x \notin muted => ~HasEvent(x) /\ x \notin Range(listeners)
        /\ x \in raised => answers[x] # <<>> \/ HasEvent(x)
        /\ x \in asked /\ answers[x] = <<>> =>
              <<"add", x>> \in Range(work) \/ HasEvent(x) \/ x \in Range(listeners)
    BY DEF CallInv, AnswerInv
  <2>2. x \in asked' => x \in asked \/ <<"add", x>> \in Range(work')
    <3> SUFFICES ASSUME x \in Range(new) PROVE <<"add", x>> \in Range(work')
      BY <1>1
    <3>1. PICK k \in 1..Len(new) : new[k] = x
      BY <1>2
    <3>2. Len(work) + k \in 1..Len(work') /\ work'[Len(work) + k] = <<"add", x>>
      BY <1>3, <1>4, <3>1
    <3> QED BY <1>5, <3>2
  <2>3. <<"add", x>> \in Range(work) => <<"add", x>> \in Range(work')
    BY <1>4, <1>5
  <2>4. HasEvent(x)' <=> HasEvent(x)
    BY <1>1 DEF HasEvent
  <2> QED BY <1>1, <2>1, <2>2, <2>3, <2>4
<1>12. EventsFresh'
  BY <1>1 DEF EventsFresh
<1> QED BY <1>8, <1>9, <1>10, <1>11, <1>12 DEF CallInv

\* A step keeps what each call goes through.
LEMMA StepCalls ==
    ASSUME IInv, Step
    PROVE  TypeOK' /\ CallInv' /\ EventsFresh'
<1>0. TypeOK /\ CallInv /\ EventsFresh
  BY DEF IInv, FreshInv, EventsFresh
<1>1. ClientType' /\ FlagType' /\ outstanding' \in Int
  BY <1>0, StepClientType, StepFlagType, StepCount DEF TypeOK, FlagType
<1>2. CallType' /\ CallInv' /\ EventsFresh'
  <2>1. CASE UNCHANGED <<queues, listeners, raised, floor>>
    <3>1. CallType'
      BY <1>0, <2>1 DEF TypeOK, CallType, queues
    <3>2. \A c : (HasEvent(c)' <=> HasEvent(c)) /\ (Untouched(c)' <=> Untouched(c))
      BY <2>1 DEF HasEvent, Untouched, queues
    <3>3. \A i : (Untouched(work[i][2]))' <=> Untouched(work[i][2])
      BY <2>1 DEF HasEvent, Untouched, queues
    <3>4. WorkInv'
      BY <1>0, <2>1, <3>2, <3>3 DEF CallInv, WorkInv, queues
    <3>5. ListenersInv' /\ EventsFresh'
      BY <1>0, <2>1 DEF CallInv, ListenersInv, EventsFresh, queues
    <3>6. AnswerInv'
      BY <1>0, <2>1, <3>2 DEF CallInv, AnswerInv, queues
    <3> QED BY <3>1, <3>4, <3>5, <3>6 DEF CallInv
  <2>2. CASE \E new \in Seq(Calls) : Asking(new)
    BY <1>0, <2>2, AskingKeeps
  <2>3. CASE OnEvent
    BY <1>0, <2>3, OnEventKeeps
  <2>4. CASE AddQueryListener \/ CredentialsFail \/ OnStreamLost \/ OnlineStateTimeout \/ RaiseWatchSnapshot
    BY <1>0, <2>4, RaisesIs, RaisesKeeps
  <2>5. CASE RemoveQueryListener
    BY <1>0, <2>5, RemoveKeeps
  <2>6. CASE ProcessTargetError
    BY <1>0, <2>6, ErrorKeeps
  <2>7. CASE \/ ResumeStartWithCredentials \/ BackoffElapsed \/ IdleTimeout \/ RestartNetwork
             \/ OnTargetResponse \/ ServerWatch \/ ServerUnwatch \/ ServerSnapshot \/ ServerChange
             \/ UNCHANGED vars
    BY <2>1, <2>7 DEF ResumeStartWithCredentials, BackoffElapsed, IdleTimeout, RestartNetwork,
                      OnTargetResponse, ServerWatch, ServerUnwatch, ServerSnapshot, ServerChange, vars, local
  <2> QED BY <2>2, <2>3, <2>4, <2>5, <2>6, <2>7 DEF Step, Background
<1>3. TypeOK'
  <2>1. timer' \in BOOLEAN /\ failures' \in BOOLEAN /\ idle' \in BOOLEAN /\ allowed' \in BOOLEAN
    BY <1>1, Zenon DEF FlagType
  <2> QED BY <1>1, <1>2, <2>1, Zenon DEF TypeOK, CallType, ClientType
<1> QED BY <1>2, <1>3

-----------------------------------------------------------------------------
(***************************************************************************)
(* The connection.                                                         *)
(***************************************************************************)

\* A request is written behind the others; the server reads the first.
LEMMA WireIs ==
    ASSUME wire \in Seq({"watch", "unwatch"})
    PROVE  /\ Len(wire) \in Nat /\ (wire = <<>> <=> Len(wire) = 0)
           /\ \A x \in {"watch", "unwatch"} :
                 /\ Append(wire, x) # <<>> /\ Len(Append(wire, x)) = Len(wire) + 1
                 /\ Append(wire, x)[Len(wire) + 1] = x
           /\ wire # <<>> => /\ Len(Tail(wire)) = Len(wire) - 1
                             /\ Tail(wire) # <<>> => Tail(wire)[Len(Tail(wire))] = wire[Len(wire)]
                             /\ Tail(wire) = <<>> => Len(wire) = 1
<1>1. Len(wire) \in Nat /\ (wire = <<>> <=> Len(wire) = 0)
  BY EmptySeq
<1>2. ASSUME NEW x \in {"watch", "unwatch"}
      PROVE  /\ Append(wire, x) # <<>> /\ Len(Append(wire, x)) = Len(wire) + 1
             /\ Append(wire, x)[Len(wire) + 1] = x
  BY AppendProperties
<1>3. ASSUME wire # <<>>
      PROVE  /\ Len(Tail(wire)) = Len(wire) - 1
             /\ Tail(wire) # <<>> => Tail(wire)[Len(Tail(wire))] = wire[Len(wire)]
             /\ Tail(wire) = <<>> => Len(wire) = 1
  <2>1. PICK t : t = Tail(wire)
    OBVIOUS
  <2>2. /\ t \in Seq({"watch", "unwatch"}) /\ Len(t) = Len(wire) - 1
        /\ \A i \in 1..Len(t) : t[i] = wire[i + 1]
    BY <1>3, <2>1, TailIs
  <2>3. Len(t) \in Nat /\ (t = <<>> <=> Len(t) = 0)
    BY <2>2, EmptySeq
  <2>4. t # <<>> => Len(t) \in 1..Len(t) /\ Len(t) + 1 = Len(wire)
    BY <1>1, <2>2, <2>3
  <2>5. t # <<>> => t[Len(t)] = wire[Len(wire)]
    BY <2>2, <2>4
  <2>6. t = <<>> => Len(wire) = 1
    BY <1>1, <2>2, <2>3
  <2> QED BY <2>1, <2>2, <2>5, <2>6
<1> QED BY <1>1, <1>2, <1>3

\* A step keeps the connection's invariant.
LEMMA StepConn ==
    ASSUME IInv, Step
    PROVE  ConnInv'
<1>0. TypeOK /\ ConnInv
  BY DEF IInv
<1>1. /\ wire \in Seq({"watch", "unwatch"}) /\ replies \in Seq(Reply) /\ outstanding \in Int
      /\ Len(wire) \in Nat /\ Cardinality(Responses(replies)) \in Nat
      /\ listeners \in Seq(Calls)
  BY <1>0, ResponsesAre DEF TypeOK
<1>2. Len(<<>>) = 0 /\ Cardinality(Responses(<<>>)) = 0
  <2>1. Responses(<<>>) = {}
    BY DEF Responses
  <2> QED BY <2>1, FS_EmptySet
<1>3. /\ Added # Removed /\ Added # Rejected /\ Removed # Rejected
      /\ Added.type # "snapshot" /\ Removed.type # "snapshot" /\ Rejected.type # "snapshot"
      /\ Added \in Reply /\ Removed \in Reply /\ Rejected \in Reply
      /\ \A v \in Versions : /\ Snapshot(v) \notin {Added, Removed, Rejected}
                             /\ Snapshot(v) \in Reply /\ Snapshot(v).type = "snapshot" /\ Snapshot(v).version = v
  BY DEF Added, Removed, Rejected, Snapshot, Reply
<1>4. CASE UNCHANGED <<listeners, stream, outstanding, wire, replies, target, allowed>>
  BY <1>0, <1>4 DEF ConnInv, OutstandingIsExact, Listening
<1>5. CASE Listening /\ UNCHANGED <<stream, outstanding, wire, replies, target, allowed>>
  BY <1>0, <1>5 DEF ConnInv, OutstandingIsExact, Listening
<1>6. CASE AddQueryListener
  <2>1. UNCHANGED <<replies, target, allowed>>
    BY <1>6 DEF AddQueryListener
  <2>2. CASE JoinListeners(Head(work)[2])
    BY <1>5, <2>1, <2>2 DEF JoinListeners, remote
  <2>3. CASE FirstListener(Head(work)[2])
    <3>1. Listen /\ ~Listening
      BY <2>3 DEF FirstListener
    <3>2. CASE ~IsStarted(stream)
      <4>1. /\ UNCHANGED <<outstanding, wire>> /\ IsStarted(stream') /\ stream' # "open" /\ stream # "open"
        BY <3>1, <3>2 DEF Listen, StartWatchStream, IsStarted
      <4> QED BY <1>0, <2>1, <4>1 DEF ConnInv, OutstandingIsExact
    <3>3. CASE IsStarted(stream) /\ stream # "open"
      <4>1. UNCHANGED <<outstanding, wire, stream>>
        BY <3>1, <3>3 DEF Listen
      <4> QED BY <1>0, <2>1, <3>3, <4>1 DEF ConnInv, OutstandingIsExact
    <3>4. CASE stream = "open"
      <4>1. outstanding' = outstanding + 1 /\ wire' = Append(wire, "watch") /\ stream' = stream
        BY <3>1, <3>4 DEF Listen, IsStarted
      <4>2. Len(wire') = Len(wire) + 1 /\ wire'[Len(wire')] = "watch"
        BY <1>1, <4>1, WireIs
      <4>3. OutstandingIsExact'
        BY <1>0, <1>1, <2>1, <3>4, <4>1, <4>2 DEF ConnInv, OutstandingIsExact
      <4>4. IsStarted(stream')
        BY <3>4, <4>1 DEF IsStarted
      <4> QED BY <1>0, <2>1, <3>4, <4>1, <4>2, <4>3, <4>4 DEF ConnInv
    <3> QED BY <3>2, <3>3, <3>4
  <2> QED BY <1>6, <2>2, <2>3 DEF AddQueryListener
<1>7. CASE RemoveQueryListener
  <2>1. UNCHANGED <<stream, replies, target, allowed>> /\ listeners' = Erase(listeners, Head(work)[2])
    BY <1>7 DEF RemoveQueryListener
  <2>2. CASE Listening /\ listeners' = <<>> /\ stream = "open"
    <3>1. outstanding' = outstanding + 1 /\ wire' = Append(wire, "unwatch")
      BY <1>7, <2>2 DEF RemoveQueryListener, StopListening
    <3>2. Len(wire') = Len(wire) + 1
      BY <1>1, <3>1, WireIs
    <3>3. OutstandingIsExact'
      BY <1>0, <1>1, <2>1, <2>2, <3>1, <3>2 DEF ConnInv, OutstandingIsExact
    <3> QED BY <1>0, <2>1, <2>2, <3>1, <3>3 DEF ConnInv, Listening
  <2>3. CASE ~(Listening /\ listeners' = <<>> /\ stream = "open")
    <3>1. UNCHANGED <<outstanding, wire>>
      BY <1>7, <2>3 DEF RemoveQueryListener, StopListening
    <3>2. Listening' => Listening
      <4>1. ASSUME listeners = <<>> PROVE Erase(listeners, Head(work)[2]) = <<>>
        BY <4>1 DEF Erase, Range
      <4> QED BY <2>1, <4>1 DEF Listening
    <3> QED BY <1>0, <2>1, <3>1, <3>2 DEF ConnInv, OutstandingIsExact
  <2> QED BY <2>2, <2>3
<1>8. CASE ResumeStartWithCredentials
  <2>1. /\ stream = "starting" /\ stream' = "open" /\ UNCHANGED <<listeners, replies, target, allowed>>
        /\ wire = <<>> /\ replies = <<>> /\ target = "none" /\ outstanding = 0
    BY <1>0, <1>8 DEF ResumeStartWithCredentials, local, ConnInv
  <2>2. CASE Listening
    <3>1. wire' = <<"watch">> /\ outstanding' = outstanding + 1
      BY <1>8, <2>2 DEF ResumeStartWithCredentials
    <3>2. Len(wire') = 1 /\ wire'[1] = "watch"
      BY <3>1
    <3>3. OutstandingIsExact'
      BY <1>2, <2>1, <3>1, <3>2 DEF OutstandingIsExact
    <3> QED BY <1>0, <2>1, <3>2, <3>3 DEF ConnInv, IsStarted
  <2>3. CASE ~Listening
    <3>1. UNCHANGED <<wire, outstanding>>
      BY <1>8, <2>3 DEF ResumeStartWithCredentials
    <3>2. OutstandingIsExact'
      BY <1>2, <2>1, <3>1 DEF OutstandingIsExact
    <3> QED BY <1>0, <2>1, <3>1, <3>2 DEF ConnInv, IsStarted
  <2> QED BY <2>2, <2>3
<1>9. CASE /\ CloseStream /\ stream' # "open" /\ allowed' = allowed
           /\ Listening' => IsStarted(stream')
  <2>1. wire' = <<>> /\ replies' = <<>> /\ target' = "none" /\ outstanding' = 0
    BY <1>9 DEF CloseStream
  <2>2. \A i \in 1..Len(replies') : FALSE
    BY <2>1
  <2> QED BY <1>9, <2>1, <2>2 DEF ConnInv, OutstandingIsExact
<1>10. CASE CredentialsFail \/ OnStreamLost
  <2>1. OnWatchStreamClose
    BY <1>10 DEF CredentialsFail, OnStreamLost
  <2>2. CloseStream /\ allowed' = allowed /\ listeners' = listeners
    BY <2>1 DEF OnWatchStreamClose
  <2>3. stream' \in {"error", "backoff"} /\ (Listening => stream' = "backoff")
    BY <2>1 DEF OnWatchStreamClose, StartWatchStream
  <2> QED BY <1>9, <2>2, <2>3 DEF IsStarted, Listening
<1>11. CASE BackoffElapsed
  BY <1>0, <1>11 DEF BackoffElapsed, ConnInv, OutstandingIsExact, connection, local, Listening, IsStarted
<1>12. CASE IdleTimeout
  <2>1. ~Listening
    BY <1>12 DEF IdleTimeout, IInv, AssertionsHold
  <2> QED BY <1>9, <1>12, <2>1 DEF IdleTimeout, local, Listening
<1>13. CASE RestartNetwork
  <2>1. CloseStream /\ UNCHANGED <<listeners, allowed>>
    BY <1>13 DEF RestartNetwork, local
  <2>2. stream' \in {"initial", "starting"} /\ (Listening => stream' = "starting")
    BY <1>13 DEF RestartNetwork, StartWatchStream
  <2> QED BY <1>9, <2>1, <2>2 DEF IsStarted, Listening
<1>14. ASSUME replies # <<>>
       PROVE  /\ stream = "open" /\ Head(replies) = replies[1] /\ 1 \in 1..Len(replies)
              /\ \A i \in 1..Len(Tail(replies)) : i + 1 \in 1..Len(replies) /\ Tail(replies)[i] = replies[i + 1]
              /\ Cardinality(Responses(replies)) =
                    Cardinality(Responses(Tail(replies))) + (IF Head(replies) \in {Added, Removed} THEN 1 ELSE 0)
              /\ Cardinality(Responses(Tail(replies))) \in Nat
  <2>1. /\ Tail(replies) \in Seq(Reply) /\ Head(replies) = replies[1] /\ 1 \in 1..Len(replies)
        /\ \A i \in 1..Len(Tail(replies)) : i + 1 \in 1..Len(replies) /\ Tail(replies)[i] = replies[i + 1]
    BY <1>1, <1>14, TailIs
  <2>2. stream = "open"
    BY <1>0, <1>14 DEF ConnInv
  <2>3. Cardinality(Responses(replies)) =
           Cardinality(Responses(Tail(replies))) + (IF Head(replies) \in {Added, Removed} THEN 1 ELSE 0)
    BY <1>1, <1>14, ResponsesTail
  <2>4. Cardinality(Responses(Tail(replies))) \in Nat
    BY <2>1, ResponsesAre
  <2> QED BY <2>1, <2>2, <2>3, <2>4
<1>15. CASE OnTargetResponse
  <2>1. /\ replies # <<>> /\ Head(replies) \in {Added, Removed} /\ replies' = Tail(replies)
        /\ outstanding' = outstanding - 1 /\ UNCHANGED <<listeners, stream, wire, target, allowed>>
    BY <1>15 DEF OnTargetResponse, local
  <2>2. OutstandingIsExact'
    BY <1>0, <1>1, <1>14, <2>1 DEF ConnInv, OutstandingIsExact
  <2>3. \A i \in 1..Len(replies') : \E k \in 1..Len(replies) : replies'[i] = replies[k]
    BY <1>14, <2>1
  <2>4. stream = "open"
    BY <1>14, <2>1
  <2> QED BY <1>0, <2>1, <2>2, <2>3, <2>4 DEF ConnInv, Listening
<1>16. CASE RaiseWatchSnapshot
  <2>1. /\ replies # <<>> /\ Head(replies).type = "snapshot" /\ replies' = Tail(replies)
        /\ UNCHANGED <<listeners, stream, outstanding, wire, target, allowed>>
    BY <1>16 DEF RaiseWatchSnapshot, remote
  <2>2. Head(replies) \notin {Added, Removed}
    BY <1>3, <2>1
  <2>3. OutstandingIsExact'
    BY <1>0, <1>1, <1>14, <2>1, <2>2 DEF ConnInv, OutstandingIsExact
  <2>4. \A i \in 1..Len(replies') : \E k \in 1..Len(replies) : replies'[i] = replies[k]
    BY <1>14, <2>1
  <2>5. stream = "open"
    BY <1>14, <2>1
  <2> QED BY <1>0, <2>1, <2>3, <2>4, <2>5 DEF ConnInv, Listening
<1>17. CASE ProcessTargetError
  <2>1. /\ replies # <<>> /\ Head(replies) = Rejected /\ replies' = Tail(replies) /\ listeners' = <<>>
        /\ UNCHANGED <<stream, wire, target, allowed>>
    BY <1>17 DEF ProcessTargetError
  <2>2. stream = "open" /\ ~allowed
    BY <1>0, <1>14, <2>1 DEF ConnInv
  <2>3. \A i \in 1..Len(replies') : \E k \in 1..Len(replies) : replies'[i] = replies[k]
    BY <1>14, <2>1
  <2> QED BY <1>0, <2>1, <2>2, <2>3 DEF ConnInv, OutstandingIsExact, Listening
<1>18. ASSUME NEW r \in Reply
       PROVE  /\ \A i \in 1..Len(Append(replies, r)) :
                    \/ Append(replies, r)[i] = r
                    \/ \E k \in 1..Len(replies) : Append(replies, r)[i] = replies[k]
              /\ Cardinality(Responses(Append(replies, r))) =
                    Cardinality(Responses(replies)) + (IF r \in {Added, Removed} THEN 1 ELSE 0)
  <2>1. /\ \A i \in 1..Len(replies) : i \in 1..Len(Append(replies, r)) /\ Append(replies, r)[i] = replies[i]
        /\ Append(replies, r)[Len(replies) + 1] = r
        /\ \A i \in 1..Len(Append(replies, r)) : i \in 1..Len(replies) \/ i = Len(replies) + 1
    BY <1>1, AppendIs
  <2>2. \A i \in 1..Len(Append(replies, r)) :
           \/ Append(replies, r)[i] = r
           \/ \E k \in 1..Len(replies) : Append(replies, r)[i] = replies[k]
    BY <2>1
  <2> QED BY <1>1, <2>2, ResponsesAppend
<1>19. CASE ServerWatch
  <2>1. PICK r \in Reply : r = IF allowed THEN Added ELSE Rejected
    BY <1>3
  <2>2. /\ wire # <<>> /\ wire' = Tail(wire) /\ replies' = Append(replies, r)
        /\ target' = IF allowed THEN "stale" ELSE "none"
        /\ UNCHANGED <<listeners, stream, outstanding, allowed>>
    BY <1>19, <2>1 DEF ServerWatch, local, remote
  <2>3. stream = "open"
    BY <1>0, <2>2 DEF ConnInv
  <2>4. allowed => Cardinality(Responses(replies')) = Cardinality(Responses(replies)) + 1
    BY <1>18, <2>1, <2>2
  <2>5. /\ Len(wire') = Len(wire) - 1
        /\ wire' # <<>> => wire'[Len(wire')] = wire[Len(wire)]
    BY <1>1, <2>2, WireIs
  <2>6. OutstandingIsExact'
    BY <1>0, <1>1, <2>2, <2>3, <2>4, <2>5 DEF ConnInv, OutstandingIsExact
  <2>7. \A i \in 1..Len(replies') : replies'[i] = r \/ \E k \in 1..Len(replies) : replies'[i] = replies[k]
    BY <1>18, <2>2
  <2>8. allowed => \A i \in 1..Len(replies') : replies'[i] # Rejected
    BY <1>0, <1>3, <2>1, <2>7 DEF ConnInv
  <2>9. ~allowed => \A i \in 1..Len(replies') : replies'[i].type # "snapshot"
    BY <1>0, <1>3, <2>1, <2>7 DEF ConnInv
  <2> QED BY <1>0, <2>2, <2>3, <2>5, <2>6, <2>8, <2>9 DEF ConnInv, Listening
<1>20. CASE ServerUnwatch
  <2>1. /\ wire # <<>> /\ wire' = Tail(wire) /\ replies' = Append(replies, Removed) /\ target' = "none"
        /\ UNCHANGED <<listeners, stream, outstanding, allowed>>
    BY <1>20 DEF ServerUnwatch, local, remote
  <2>2. stream = "open"
    BY <1>0, <2>1 DEF ConnInv
  <2>3. Cardinality(Responses(replies')) = Cardinality(Responses(replies)) + 1
    BY <1>3, <1>18, <2>1
  <2>4. /\ Len(wire') = Len(wire) - 1
        /\ wire' # <<>> => wire'[Len(wire')] = wire[Len(wire)]
    BY <1>1, <2>1, WireIs
  <2>5. OutstandingIsExact'
    BY <1>0, <1>1, <2>1, <2>2, <2>3, <2>4 DEF ConnInv, OutstandingIsExact
  <2>6. \A i \in 1..Len(replies') : replies'[i] = Removed \/ \E k \in 1..Len(replies) : replies'[i] = replies[k]
    BY <1>3, <1>18, <2>1
  <2>7. allowed => \A i \in 1..Len(replies') : replies'[i] # Rejected
    BY <1>0, <1>3, <2>6 DEF ConnInv
  <2>8. ~allowed => \A i \in 1..Len(replies') : replies'[i].type # "snapshot"
    BY <1>0, <1>3, <2>6 DEF ConnInv
  <2> QED BY <1>0, <2>1, <2>2, <2>4, <2>5, <2>7, <2>8 DEF ConnInv, Listening
<1>21. CASE ServerSnapshot
  <2>1. PICK r \in Reply : r = Snapshot(server) /\ r \notin {Added, Removed, Rejected}
    BY <1>0, <1>3 DEF TypeOK
  <2>2. /\ target = "stale" /\ replies' = Append(replies, r) /\ target' = "current"
        /\ UNCHANGED <<listeners, stream, outstanding, wire, allowed>>
    BY <1>21, <2>1 DEF ServerSnapshot, local, remote
  <2>3. stream = "open" /\ allowed
    BY <1>0, <2>2 DEF ConnInv
  <2>4. Cardinality(Responses(replies')) = Cardinality(Responses(replies))
    BY <1>1, <1>18, <2>1, <2>2
  <2>5. OutstandingIsExact'
    BY <1>0, <1>1, <2>2, <2>3, <2>4 DEF ConnInv, OutstandingIsExact
  <2>6. \A i \in 1..Len(replies') : replies'[i] = r \/ \E k \in 1..Len(replies) : replies'[i] = replies[k]
    BY <1>18, <2>2
  <2>7. \A i \in 1..Len(replies') : replies'[i] # Rejected
    BY <1>0, <2>1, <2>3, <2>6 DEF ConnInv
  <2> QED BY <1>0, <2>2, <2>3, <2>5, <2>7 DEF ConnInv, Listening
<1>22. CASE ServerChange
  <2>1. /\ UNCHANGED <<listeners, stream, outstanding, wire, replies, allowed>>
        /\ target' = target \/ (target = "current" /\ target' = "stale")
    BY <1>22 DEF ServerChange, local, remote
  <2> QED BY <1>0, <2>1 DEF ConnInv, OutstandingIsExact, Listening
<1>23. CASE (\E new \in Seq(Calls) : Asking(new)) \/ OnEvent \/ OnlineStateTimeout \/ UNCHANGED vars
  BY <1>4, <1>23 DEF Asking, OnEvent, OnlineStateTimeout, vars, local, remote, connection
<1> QED
  BY <1>6, <1>7, <1>8, <1>10, <1>11, <1>12, <1>13, <1>15, <1>16, <1>17, <1>19, <1>20, <1>21, <1>22, <1>23
  DEF Step, Background

\* Reading an answer shifts the others.
LEMMA ReadIs ==
    ASSUME TypeOK, replies # <<>>, replies' = Tail(replies)
    PROVE  /\ Head(replies) = replies[1] /\ 1 \in 1..Len(replies)
           /\ \A i \in 1..Len(replies') : i + 1 \in 1..Len(replies) /\ replies'[i] = replies[i + 1]
           /\ \A i \in 1..Len(replies) : i = 1 \/ (i - 1 \in 1..Len(replies') /\ replies'[i - 1] = replies[i])
           /\ \A i \in 1..Len(replies') : LastFrom(i)' <=> LastFrom(i + 1)
           /\ \A i \in 1..Len(replies) : i # 1 /\ LastFrom(i) => LastFrom(i - 1)'
<1>1. /\ Head(replies) = replies[1] /\ 1 \in 1..Len(replies) /\ replies \in Seq(Reply)
      /\ \A i \in 1..Len(replies') : i + 1 \in 1..Len(replies) /\ replies'[i] = replies[i + 1]
      /\ \A i \in 1..Len(replies) : i = 1 \/ (i - 1 \in 1..Len(replies') /\ replies'[i - 1] = replies[i])
      /\ Len(replies') \in Nat
  BY TailIs DEF TypeOK
<1>2. ASSUME NEW i \in 1..Len(replies'), LastFrom(i)' PROVE LastFrom(i + 1)
  <2> SUFFICES ASSUME NEW j \in 1..Len(replies), j > i + 1 PROVE replies[j] \notin {Added, Removed}
    BY DEF LastFrom
  <2>1. j # 1 /\ j - 1 > i
    BY <1>1
  <2> QED BY <1>1, <1>2, <2>1 DEF LastFrom
<1>3. ASSUME NEW i \in 1..Len(replies'), LastFrom(i + 1) PROVE LastFrom(i)'
  <2> SUFFICES ASSUME NEW j \in 1..Len(replies'), j > i PROVE replies'[j] \notin {Added, Removed}
    BY DEF LastFrom
  <2>1. j + 1 > i + 1
    BY <1>1
  <2> QED BY <1>1, <1>3, <2>1 DEF LastFrom
<1>4. ASSUME NEW i \in 1..Len(replies), i # 1, LastFrom(i) PROVE LastFrom(i - 1)'
  <2>1. i - 1 \in 1..Len(replies') /\ (i - 1) + 1 = i
    BY <1>1, <1>4
  <2> QED BY <1>3, <1>4, <2>1
<1> QED BY <1>1, <1>2, <1>3, <1>4

\* An answer is written behind the others.
LEMMA WrittenIs ==
    ASSUME TypeOK, NEW r \in Reply, replies' = Append(replies, r)
    PROVE  /\ Len(replies) + 1 \in 1..Len(replies') /\ replies'[Len(replies) + 1] = r
           /\ \A i \in 1..Len(replies) : i \in 1..Len(replies') /\ replies'[i] = replies[i]
           /\ \A i \in 1..Len(replies') : i \in 1..Len(replies) \/ i = Len(replies) + 1
           /\ \A n : n = Len(replies) + 1 => LastFrom(n)'
           /\ \A i \in 1..Len(replies) : LastFrom(i)' <=> LastFrom(i) /\ r \notin {Added, Removed}
<1>1. /\ Len(replies) + 1 \in 1..Len(replies') /\ replies'[Len(replies) + 1] = r
      /\ \A i \in 1..Len(replies) : i \in 1..Len(replies') /\ replies'[i] = replies[i]
      /\ \A i \in 1..Len(replies') : i \in 1..Len(replies) \/ i = Len(replies) + 1
      /\ Len(replies) \in Nat
  BY AppendIs DEF TypeOK
<1>2. ASSUME NEW n, n = Len(replies) + 1 PROVE LastFrom(n)'
  <2>1. \A j \in 1..Len(replies') : ~(j > n)
    BY <1>1, <1>2
  <2> QED BY <2>1 DEF LastFrom
<1>3. ASSUME NEW i \in 1..Len(replies) PROVE LastFrom(i)' <=> LastFrom(i) /\ r \notin {Added, Removed}
  <2>1. Len(replies) + 1 > i
    BY <1>1
  <2>2. ASSUME LastFrom(i)' PROVE LastFrom(i) /\ r \notin {Added, Removed}
    BY <1>1, <2>1, <2>2 DEF LastFrom
  <2>3. ASSUME LastFrom(i), r \notin {Added, Removed} PROVE LastFrom(i)'
    BY <1>1, <2>3 DEF LastFrom
  <2> QED BY <2>2, <2>3
<1> QED BY <1>1, <1>2, <1>3

\* A step keeps what is coming to the listeners.
LEMMA StepComing ==
    ASSUME IInv, Step
    PROVE  ComingInv'
<1>0. TypeOK /\ ConnInv /\ ComingInv /\ CallInv /\ AssertionsHold
  BY DEF IInv
<1>1. /\ wire \in Seq({"watch", "unwatch"}) /\ replies \in Seq(Reply) /\ outstanding \in Int
      /\ Len(wire) \in Nat /\ listeners \in Seq(Calls) /\ view \in [version : Versions, synced : BOOLEAN]
  BY <1>0, WireIs DEF TypeOK
<1>2. /\ Added # Rejected /\ Removed # Rejected
      /\ Added.type # "snapshot" /\ Removed.type # "snapshot" /\ Rejected.type # "snapshot"
      /\ Added \in Reply /\ Removed \in Reply /\ Rejected \in Reply
      /\ \A v \in Versions : /\ Snapshot(v) \notin {Added, Removed}
                             /\ Snapshot(v) \in Reply /\ Snapshot(v).type = "snapshot"
  BY DEF Added, Removed, Rejected, Snapshot, Reply
<1> DEFINE C1 == Listening /\ view.synced => \A i \in 1..Len(listeners) : listeners[i] \in raised
           C2 == Listening /\ stream = "open" /\ wire = <<>> =>
                    /\ ~allowed => \E i \in 1..Len(replies) : replies[i] = Rejected
                    /\ allowed => target # "none"
                    /\ allowed /\ target = "current" /\ (~view.synced \/ online # "online") =>
                          \E i \in 1..Len(replies) : replies[i].type = "snapshot" /\ LastFrom(i)
<1>3. C1 /\ C2
  BY <1>0 DEF ComingInv
<1>4. SUFFICES C1' /\ C2'
  BY DEF ComingInv
<1>5. CASE UNCHANGED <<listeners, view, raised, online, stream, wire, replies, target, allowed>>
  BY <1>3, <1>5 DEF Listening, LastFrom
<1>6. ASSUME UNCHANGED <<listeners, view, raised>> PROVE C1'
  BY <1>3, <1>6 DEF Listening
<1>7. ASSUME stream' # "open" \/ wire' # <<>> PROVE C2'
  BY <1>7
<1>8. CASE AddQueryListener
  <2> DEFINE c == Head(work)[2]
  <2>1. /\ work # <<>> /\ UNCHANGED <<replies, target, allowed>>
        /\ JoinListeners(c) \/ FirstListener(c)
    BY <1>8 DEF AddQueryListener
  <2>2. c \in Calls
    BY <1>0, <2>1, WorkIs
  <2> HIDE DEF c
  <2>3. CASE JoinListeners(c)
    <3>1. /\ Listening /\ listeners' = Append(listeners, c)
          /\ view' = view /\ online' = online /\ wire' = wire /\ stream' = stream
          /\ raised' = raised \cup Range(IF view.synced \/ online = "offline" THEN <<c>> ELSE <<>>)
      BY <2>3 DEF JoinListeners, status, remote
    <3>2. C1'
      <4> SUFFICES ASSUME view.synced, NEW i \in 1..Len(listeners') PROVE listeners'[i] \in raised'
        BY <3>1
      <4>1. c \in raised'
        BY <2>2, <3>1, PostOne
      <4>2. /\ \A k \in 1..Len(listeners) : listeners'[k] = listeners[k]
            /\ listeners'[Len(listeners) + 1] = c
            /\ \A k \in 1..Len(listeners') : k \in 1..Len(listeners) \/ k = Len(listeners) + 1
        BY <1>1, <2>2, <3>1, AppendIs
      <4> QED BY <1>3, <3>1, <4>1, <4>2
    <3>3. C2'
      BY <1>3, <2>1, <3>1 DEF LastFrom
    <3> QED BY <3>2, <3>3
  <2>4. CASE FirstListener(c)
    <3>1. Listen /\ view' = [version |-> cache, synced |-> FALSE]
      BY <2>4 DEF FirstListener
    <3>2. C1'
      BY <3>1
    <3>3. stream' # "open" \/ wire' # <<>>
      <4>1. CASE ~IsStarted(stream)
        BY <3>1, <4>1 DEF Listen, StartWatchStream
      <4>2. CASE IsStarted(stream) /\ stream = "open"
        <5>1. wire' = Append(wire, "watch")
          BY <3>1, <4>2 DEF Listen
        <5> QED BY <1>1, <5>1, WireIs
      <4>3. CASE IsStarted(stream) /\ stream # "open"
        BY <3>1, <4>3 DEF Listen
      <4> QED BY <4>1, <4>2, <4>3
    <3> QED BY <1>7, <3>2, <3>3
  <2> QED BY <2>1, <2>3, <2>4
<1>9. CASE RemoveQueryListener
  <2> DEFINE c == Head(work)[2]
  <2>1. /\ listeners' = Erase(listeners, c)
        /\ UNCHANGED <<raised, view, stream, replies, target, allowed>>
        /\ Listening /\ listeners' # <<>> => UNCHANGED <<status, wire>>
    BY <1>9 DEF RemoveQueryListener
  <2> HIDE DEF c
  <2>2. CASE listeners' = <<>>
    BY <2>2 DEF Listening
  <2>3. CASE listeners' # <<>>
    <3>1. Listening
      <4>1. ASSUME listeners = <<>> PROVE Erase(listeners, c) = <<>>
        BY <4>1 DEF Erase, Range
      <4> QED BY <2>1, <2>3, <4>1 DEF Listening
    <3>2. \A i \in 1..Len(listeners') : \E j \in 1..Len(listeners) : listeners'[i] = listeners[j]
      <4>1. \A i, j \in 1..Len(listeners) : listeners[i] = listeners[j] => i = j
        BY <1>0 DEF CallInv, ListenersInv
      <4> QED BY <1>1, <2>1, <4>1, EraseIs
    <3>3. C1'
      BY <1>3, <2>1, <3>1, <3>2
    <3>4. C2'
      BY <1>3, <2>1, <2>3, <3>1 DEF LastFrom, status
    <3> QED BY <3>3, <3>4
  <2> QED BY <2>2, <2>3
<1>10. CASE ResumeStartWithCredentials
  <2>1. UNCHANGED <<listeners, view, raised>> /\ (Listening => wire' = <<"watch">>)
    BY <1>10 DEF ResumeStartWithCredentials, local
  <2>2. <<"watch">> # <<>>
    OBVIOUS
  <2> QED BY <1>6, <1>7, <2>1, <2>2 DEF Listening
<1>11. ASSUME BroadcastOffline, listeners' = listeners
       PROVE  C1' /\ (view'.synced => view.synced)
  <2>1. CASE online = "offline"
    BY <1>3, <1>11, <2>1 DEF BroadcastOffline, Listening
  <2>2. CASE online # "offline"
    <3>1. view' = [view EXCEPT !.synced = FALSE]
      BY <1>11, <2>2 DEF BroadcastOffline
    <3>2. ~view'.synced
      BY <1>1, <3>1
    <3> QED BY <3>2
  <2> QED BY <2>1, <2>2
<1>12. CASE CredentialsFail \/ OnStreamLost
  <2>1. OnWatchStreamClose
    BY <1>12 DEF CredentialsFail, OnStreamLost
  <2>2. stream' # "open" /\ listeners' = listeners /\ (UNCHANGED <<raised, view>> \/ BroadcastOffline)
    BY <2>1 DEF OnWatchStreamClose, StartWatchStream
  <2> QED BY <1>6, <1>7, <1>11, <2>2
<1>13. CASE BackoffElapsed \/ IdleTimeout \/ RestartNetwork
  <2>1. UNCHANGED <<listeners, view, raised>> /\ stream' # "open"
    BY <1>13 DEF BackoffElapsed, IdleTimeout, RestartNetwork, StartWatchStream, local
  <2> QED BY <1>6, <1>7, <2>1
<1>14. CASE OnlineStateTimeout
  <2>1. timer /\ BroadcastOffline /\ UNCHANGED <<listeners, remote, connection, allowed>>
    BY <1>14 DEF OnlineStateTimeout
  <2>2. online # "online"
    BY <1>0, <2>1 DEF AssertionsHold
  <2>3. C1'
    BY <1>11, <2>1
  <2>4. C2'
    BY <1>3, <2>1, <2>2 DEF remote, connection, Listening, LastFrom
  <2> QED BY <2>3, <2>4
<1>15. CASE OnTargetResponse
  <2>1. /\ replies # <<>> /\ Head(replies) \in {Added, Removed} /\ replies' = Tail(replies)
        /\ UNCHANGED <<listeners, view, raised, stream, wire, target, allowed>> /\ online' = "online"
    BY <1>15 DEF OnTargetResponse, local, UpdateState
  <2>2. /\ Head(replies) = replies[1] /\ 1 \in 1..Len(replies)
        /\ \A i \in 1..Len(replies) : i = 1 \/ (i - 1 \in 1..Len(replies') /\ replies'[i - 1] = replies[i])
        /\ \A i \in 1..Len(replies) : i # 1 /\ LastFrom(i) => LastFrom(i - 1)'
    BY <1>0, <2>1, ReadIs
  <2>3. C1'
    BY <1>6, <2>1
  <2>4. C2'
    <3> SUFFICES ASSUME Listening, stream = "open", wire = <<>>
                 PROVE  /\ ~allowed => \E i \in 1..Len(replies') : replies'[i] = Rejected
                        /\ allowed => target # "none"
                        /\ allowed /\ target = "current" /\ ~view.synced =>
                              \E i \in 1..Len(replies') : replies'[i].type = "snapshot" /\ LastFrom(i)'
      BY <2>1 DEF Listening
    <3>1. ASSUME ~allowed PROVE \E i \in 1..Len(replies') : replies'[i] = Rejected
      <4>1. PICK i \in 1..Len(replies) : replies[i] = Rejected
        BY <1>3, <3>1
      <4>2. i # 1
        BY <1>2, <2>1, <2>2, <4>1
      <4> QED BY <2>2, <4>1, <4>2
    <3>2. ASSUME allowed, target = "current", ~view.synced
          PROVE  \E i \in 1..Len(replies') : replies'[i].type = "snapshot" /\ LastFrom(i)'
      <4>1. PICK i \in 1..Len(replies) : replies[i].type = "snapshot" /\ LastFrom(i)
        BY <1>3, <3>2
      <4>2. i # 1
        BY <1>2, <2>1, <2>2, <4>1
      <4> QED BY <2>2, <4>1, <4>2
    <3> QED BY <1>3, <3>1, <3>2
  <2> QED BY <2>3, <2>4
<1>16. CASE RaiseWatchSnapshot
  <2> DEFINE v == Larger(Head(replies).version, cache)
  <2>1. /\ replies # <<>> /\ Head(replies).type = "snapshot" /\ replies' = Tail(replies)
        /\ UNCHANGED <<listeners, stream, wire, target, allowed>> /\ online' = "online"
    BY <1>16 DEF RaiseWatchSnapshot, remote, UpdateState
  <2>2. /\ Head(replies) = replies[1] /\ 1 \in 1..Len(replies)
        /\ \A i \in 1..Len(replies) : i = 1 \/ (i - 1 \in 1..Len(replies') /\ replies'[i - 1] = replies[i])
        /\ \A i \in 1..Len(replies) : i # 1 /\ LastFrom(i) => LastFrom(i - 1)'
    BY <1>0, <2>1, ReadIs
  <2>3. allowed
    BY <1>0, <2>1, <2>2 DEF ConnInv
  <2>4. CASE IsActiveTarget
    <3>1. \/ view = [version |-> v, synced |-> TRUE] /\ UNCHANGED <<raised, view>>
          \/ OnViewSnapshots(v)
      BY <1>16, <2>4 DEF RaiseWatchSnapshot
    <3> HIDE DEF v
    <3>2. view'.synced
      BY <3>1 DEF OnViewSnapshots
    <3>3. C1'
      <4>1. CASE UNCHANGED <<raised, view>>
        BY <1>6, <2>1, <4>1
      <4>2. CASE OnViewSnapshots(v)
        <5>1. \A i \in 1..Len(listeners) : listeners[i] \in raised'
          BY <1>1, <4>2, MemberIs DEF OnViewSnapshots
        <5> QED BY <2>1, <5>1
      <4> QED BY <3>1, <4>1, <4>2
    <3>4. C2'
      BY <1>3, <2>1, <2>3, <3>2 DEF Listening
    <3> QED BY <3>3, <3>4
  <2>5. CASE ~IsActiveTarget
    <3>1. UNCHANGED <<raised, view>>
      BY <1>16, <2>5 DEF RaiseWatchSnapshot
    <3>2. C1'
      BY <1>6, <2>1, <3>1
    <3>3. C2'
      <4> SUFFICES ASSUME Listening, stream = "open", wire = <<>>
                   PROVE  /\ allowed => target # "none"
                          /\ allowed /\ target = "current" /\ ~view.synced =>
                              \E i \in 1..Len(replies') : replies'[i].type = "snapshot" /\ LastFrom(i)'
        BY <2>1, <2>3, <3>1 DEF Listening
      <4>1. ASSUME allowed, target = "current", ~view.synced
            PROVE  \E i \in 1..Len(replies') : replies'[i].type = "snapshot" /\ LastFrom(i)'
        <5>1. PICK i \in 1..Len(replies) : replies[i].type = "snapshot" /\ LastFrom(i)
          BY <1>3, <4>1
        <5>2. outstanding = Len(wire) + Cardinality(Responses(replies)) /\ outstanding # 0
          BY <1>0, <2>3, <2>5 DEF ConnInv, OutstandingIsExact, IsActiveTarget
        <5>3. Responses(replies) # {}
          <6>1. Len(wire) = 0
            OBVIOUS
          <6>2. Cardinality(Responses(replies)) # 0
            BY <5>2, <6>1
          <6> QED BY <6>2, FS_EmptySet
        <5>4. PICK j \in 1..Len(replies) : replies[j] \in {Added, Removed}
          BY <5>3 DEF Responses
        <5>5. j # 1 /\ ~(j > i)
          BY <1>2, <2>1, <2>2, <5>1, <5>4 DEF LastFrom
        <5>6. i # 1
          BY <1>1, <5>5
        <5> QED BY <2>2, <5>1, <5>6
      <4> QED BY <1>3, <4>1
    <3> QED BY <3>2, <3>3
  <2> QED BY <2>4, <2>5
<1>17. CASE ProcessTargetError
  BY <1>17 DEF ProcessTargetError, Listening
<1>18. CASE ServerWatch
  <2>1. /\ UNCHANGED <<listeners, view, raised, online, stream, allowed>>
        /\ IF allowed THEN target' = "stale" ELSE replies' = Append(replies, Rejected)
    BY <1>18 DEF ServerWatch, local, remote, status
  <2>2. ~allowed => \E i \in 1..Len(replies') : replies'[i] = Rejected
    <3> SUFFICES ASSUME replies' = Append(replies, Rejected)
                 PROVE  \E i \in 1..Len(replies') : replies'[i] = Rejected
      BY <2>1
    <3> QED BY <1>0, <1>2, WrittenIs
  <2> QED BY <1>6, <2>1, <2>2
<1>19. CASE ServerUnwatch
  <2>1. /\ UNCHANGED <<listeners, view, raised>> /\ wire # <<>> /\ Head(wire) = "unwatch" /\ wire' = Tail(wire)
    BY <1>19 DEF ServerUnwatch, local
  <2>2. Listening => wire' # <<>>
    <3>1. Listening => wire[Len(wire)] = "watch"
      BY <1>0, <2>1 DEF ConnInv
    <3>2. wire' = <<>> => Len(wire) = 1
      BY <1>1, <2>1, WireIs
    <3>3. Head(wire) = wire[1]
      OBVIOUS
    <3> QED BY <2>1, <3>1, <3>2, <3>3
  <2> QED BY <1>6, <1>7, <2>1, <2>2 DEF Listening
<1>20. CASE ServerSnapshot
  <2>1. /\ UNCHANGED <<listeners, view, raised>> /\ allowed' = allowed /\ target' = "current" /\ target # "none"
        /\ replies' = Append(replies, Snapshot(server))
    BY <1>20 DEF ServerSnapshot, local
  <2>2. allowed
    BY <1>0, <2>1 DEF ConnInv
  <2>3. PICK n : n = Len(replies) + 1
    OBVIOUS
  <2>4. server \in Versions
    BY <1>0 DEF TypeOK
  <2>5. n \in 1..Len(replies') /\ replies'[n] = Snapshot(server) /\ LastFrom(n)'
    BY <1>0, <1>2, <2>1, <2>3, <2>4, WrittenIs
  <2>6. \E i \in 1..Len(replies') : replies'[i].type = "snapshot" /\ LastFrom(i)'
    BY <1>2, <2>4, <2>5
  <2> QED BY <1>6, <2>1, <2>2, <2>6
<1>21. CASE ServerChange
  <2>1. /\ UNCHANGED <<listeners, view, raised, online, stream, wire, replies, allowed>>
        /\ target' = IF target = "current" THEN "stale" ELSE target
    BY <1>21 DEF ServerChange, local, remote, status
  <2> QED BY <1>3, <2>1 DEF Listening, LastFrom
<1>22. CASE (\E new \in Seq(Calls) : Asking(new)) \/ OnEvent \/ UNCHANGED vars
  BY <1>5, <1>22 DEF Asking, OnEvent, vars, local, remote, status, connection
<1> QED
  BY <1>8, <1>9, <1>10, <1>12, <1>13, <1>14, <1>15, <1>16, <1>17, <1>18, <1>19, <1>20, <1>21, <1>22
  DEF Step, Background

-----------------------------------------------------------------------------
(***************************************************************************)
(* How old an answer may be.                                               *)
(***************************************************************************)

\* A call's listen begins no earlier than the document has the version it is to show,
\* and an answer once given stays as new as it was.
LEMMA StepAnswers ==
    ASSUME IInv, Step
    PROVE  AnswersAreFresh' /\ \A c \in Calls : floor'[c] <= server'
<1>0. TypeOK /\ CallInv /\ FreshInv
  BY DEF IInv
<1>1. /\ Versions \subseteq Nat /\ floor \in [Calls -> Versions] /\ server \in Versions
      /\ answers \in [Calls -> Seq(Answer)] /\ listeners \in Seq(Calls)
  BY <1>0, BoundsAreNumbers DEF TypeOK, Versions
<1>2. CASE UNCHANGED <<answers, floor>> /\ server' \in {server, server + 1}
  <2>1. \A c \in Calls : floor'[c] <= server'
    <3>1. \A c \in Calls : floor[c] <= server /\ floor[c] \in Nat
      BY <1>0, <1>1 DEF FreshInv
    <3>2. server \in Nat
      BY <1>1
    <3> QED BY <1>2, <3>1, <3>2
  <2>2. AnswersAreFresh'
    BY <1>0, <1>2 DEF FreshInv, AnswersAreFresh
  <2> QED BY <2>1, <2>2
<1>3. CASE OnEvent
  <2>1. PICK c : c = main[1].call
    OBVIOUS
  <2>2. main # <<>> /\ UNCHANGED <<floor, server>>
    BY <1>3 DEF OnEvent
  <2>3. Head(main) = main[1] /\ 1 \in 1..Len(main) /\ c \in Calls /\ main[1].version \in Versions
        /\ AnswerTo(Head(main)) \in Answer
    BY <1>0, <2>1, <2>2, EventIs
  <2>4. CASE c \in muted
    BY <1>2, <1>3, <2>1, <2>2, <2>3, <2>4 DEF OnEvent
  <2>5. CASE c \notin muted
    <3> DEFINE a == AnswerTo(Head(main))
    <3>1. answers' = [answers EXCEPT ![c] = Append(answers[c], a)]
      BY <1>3, <2>1, <2>3, <2>5 DEF OnEvent
    <3>2. a.kind = "absent" => floor[c] = 0
      <4> SUFFICES ASSUME a.kind = "absent" PROVE floor[c] = 0
        OBVIOUS
      <4>1. main[1].kind # "error" /\ main[1].kind # "cache" /\ ~(main[1].version > 0)
        BY <2>3 DEF AnswerTo
      <4>2. main[1].kind \in {"server", "cache", "error"}
        <5>1. main[1] \in Event
          BY <1>0, <2>3, MemberIs DEF TypeOK
        <5> QED BY <5>1 DEF Event
      <4>3. main[1].version >= floor[c]
        BY <1>0, <2>1, <2>3, <4>1, <4>2 DEF FreshInv
      <4>4. main[1].version \in Nat /\ floor[c] \in Nat
        BY <1>1, <2>3
      <4> QED BY <4>1, <4>3, <4>4
    <3>3. a \in Answer
      BY <2>3
    <3> HIDE DEF a
    <3>4. ASSUME NEW x \in Calls, NEW i \in 1..Len(answers'[x]), answers'[x][i].kind = "absent"
          PROVE  floor'[x] = 0
      <4>1. CASE x # c
        BY <1>0, <1>1, <2>2, <2>3, <3>1, <3>4, <4>1 DEF FreshInv, AnswersAreFresh
      <4>2. CASE x = c
        <5>1. answers'[c] = Append(answers[c], a)
          BY <1>1, <2>3, <3>1
        <5>2. answers[c] \in Seq(Answer)
          BY <1>1, <2>3
        <5>3. (i \in 1..Len(answers[c]) /\ answers'[c][i] = answers[c][i]) \/ answers'[c][i] = a
          BY <3>3, <3>4, <4>2, <5>1, <5>2, AppendIs
        <5>4. CASE i \in 1..Len(answers[c]) /\ answers'[c][i] = answers[c][i]
          BY <1>0, <2>2, <2>3, <3>4, <4>2, <5>4 DEF FreshInv, AnswersAreFresh
        <5>5. CASE answers'[c][i] = a
          BY <2>2, <3>2, <3>4, <4>2, <5>5
        <5> QED BY <5>3, <5>4, <5>5
      <4> QED BY <4>1, <4>2
    <3>5. AnswersAreFresh'
      BY <3>4 DEF AnswersAreFresh
    <3> QED BY <1>0, <2>2, <3>5 DEF FreshInv
  <2> QED BY <2>4, <2>5
<1>4. CASE AddQueryListener
  <2> DEFINE c == Head(work)[2]
  <2>1. /\ work # <<>> /\ Head(work)[1] = "add" /\ UNCHANGED <<answers, server>>
        /\ JoinListeners(c) \/ FirstListener(c)
    BY <1>4 DEF AddQueryListener
  <2>2. c \in Calls /\ Untouched(c)
    BY <1>0, <2>1, AddIs
  <2> HIDE DEF c
  <2>3. \E n \in Versions : n <= server /\ floor' = [floor EXCEPT ![c] = n]
    <3>1. CASE JoinListeners(c)
      <4>1. listeners # <<>> /\ floor' = [floor EXCEPT ![c] = floor[Head(listeners)]]
        BY <3>1 DEF JoinListeners, Listening
      <4>2. Head(listeners) \in Calls
        BY <1>1, <4>1, TailIs
      <4> QED BY <1>0, <1>1, <4>1, <4>2 DEF FreshInv
    <3>2. CASE FirstListener(c)
      <4>1. floor' = [floor EXCEPT ![c] = server] /\ server \in Nat
        BY <1>1, <3>2 DEF FirstListener
      <4>2. server <= server
        BY <4>1
      <4> QED BY <1>1, <4>1, <4>2
    <3> QED BY <2>1, <3>1, <3>2
  <2>4. \A x \in Calls : floor'[x] <= server'
    BY <1>0, <1>1, <2>1, <2>2, <2>3 DEF FreshInv
  <2>5. \A x \in Calls : x # c => floor'[x] = floor[x]
    BY <1>1, <2>3
  <2>6. answers[c] = <<>>
    BY <2>2 DEF Untouched
  <2>7. AnswersAreFresh'
    <3> SUFFICES ASSUME NEW x \in Calls, NEW i \in 1..Len(answers[x]), answers[x][i].kind = "absent"
                 PROVE  floor'[x] = 0
      BY <2>1 DEF AnswersAreFresh
    <3>1. x # c
      BY <2>6
    <3> QED BY <1>0, <2>5, <3>1 DEF FreshInv, AnswersAreFresh
  <2> QED BY <2>4, <2>7
<1>5. CASE \/ RemoveQueryListener \/ ResumeStartWithCredentials \/ CredentialsFail \/ BackoffElapsed
           \/ OnlineStateTimeout \/ IdleTimeout \/ OnStreamLost \/ RestartNetwork
           \/ OnTargetResponse \/ RaiseWatchSnapshot \/ ProcessTargetError
           \/ ServerWatch \/ ServerUnwatch \/ ServerSnapshot \/ ServerChange
           \/ (\E new \in Seq(Calls) : Asking(new)) \/ UNCHANGED vars
  BY <1>2, <1>5 DEF RemoveQueryListener, ResumeStartWithCredentials, CredentialsFail, BackoffElapsed,
     OnlineStateTimeout, IdleTimeout, OnStreamLost, OnWatchStreamClose, RestartNetwork, OnTargetResponse,
     RaiseWatchSnapshot, ProcessTargetError, ServerWatch, ServerUnwatch, ServerSnapshot, ServerChange,
     Asking, vars, queues
<1> QED BY <1>3, <1>4, <1>5 DEF Step, Background

\* Nothing that is in the view or on the connection, and taken for an answer to the
\* present listen, is older than version n.
NotOlder(n) ==
    /\ view.synced => view.version >= n
    /\ wire = <<>> =>
          \A k \in 1..Len(replies) : replies[k].type = "snapshot" /\ LastFrom(k) => replies[k].version >= n

\* A step other than an addition makes nothing older come to the listeners.
LEMMA StepNotOlder ==
    ASSUME IInv, Step, ~AddQueryListener, NEW n \in Nat, n <= server, NotOlder(n)
    PROVE  NotOlder(n)'
<1>0. TypeOK /\ ConnInv
  BY DEF IInv
<1>1. /\ wire \in Seq({"watch", "unwatch"}) /\ view \in [version : Versions, synced : BOOLEAN]
      /\ server \in Nat /\ cache \in Nat /\ server \in Versions
  <2>1. server \in Versions /\ cache \in Versions /\ Versions \subseteq Nat
    BY <1>0, BoundsAreNumbers DEF TypeOK, Versions
  <2> QED BY <1>0, <2>1 DEF TypeOK
<1>2. /\ Added \in Reply /\ Removed \in Reply /\ Rejected \in Reply
      /\ Added.type # "snapshot" /\ Removed.type # "snapshot" /\ Rejected.type # "snapshot"
      /\ \A v \in Versions : Snapshot(v) \in Reply /\ Snapshot(v).version = v
  BY DEF Added, Removed, Rejected, Snapshot, Reply
<1> DEFINE V == view.synced => view.version >= n
           R == wire = <<>> =>
                  \A k \in 1..Len(replies) : replies[k].type = "snapshot" /\ LastFrom(k) => replies[k].version >= n
<1>3. V /\ R
  BY DEF NotOlder
<1>4. SUFFICES V' /\ R'
  BY DEF NotOlder
<1>5. ASSUME view' = view PROVE V'
  BY <1>3, <1>5
<1>6. ASSUME UNCHANGED <<wire, replies>> PROVE R'
  BY <1>3, <1>6 DEF LastFrom
<1>7. ASSUME replies' = <<>> PROVE R'
  BY <1>7
<1>8. ASSUME BroadcastOffline PROVE V'
  <2>1. CASE online = "offline"
    BY <1>5, <1>8, <2>1 DEF BroadcastOffline
  <2>2. CASE online # "offline"
    <3>1. view' = [view EXCEPT !.synced = FALSE]
      BY <1>8, <2>2 DEF BroadcastOffline
    <3>2. ~view'.synced
      BY <1>1, <3>1
    <3> QED BY <3>2
  <2> QED BY <2>1, <2>2
<1>9. CASE RemoveQueryListener \/ ResumeStartWithCredentials
  <2>1. view' = view /\ replies' = replies /\ (wire' = wire \/ wire' = Append(wire, "unwatch") \/ wire' = <<"watch">>)
    BY <1>9 DEF RemoveQueryListener, StopListening, ResumeStartWithCredentials, local
  <2>2. wire' = wire \/ wire' # <<>>
    <3>1. Append(wire, "unwatch") # <<>> /\ <<"watch">> # <<>>
      BY <1>1, WireIs
    <3> QED BY <2>1, <3>1
  <2>3. R'
    BY <1>6, <2>1, <2>2
  <2> QED BY <1>5, <2>1, <2>3
<1>10. CASE CredentialsFail \/ OnStreamLost
  <2>1. OnWatchStreamClose
    BY <1>10 DEF CredentialsFail, OnStreamLost
  <2>2. replies' = <<>> /\ (view' = view \/ BroadcastOffline)
    BY <2>1 DEF OnWatchStreamClose, CloseStream
  <2> QED BY <1>5, <1>7, <1>8, <2>2
<1>11. CASE IdleTimeout \/ RestartNetwork
  BY <1>5, <1>7, <1>11 DEF IdleTimeout, RestartNetwork, CloseStream, local
<1>12. CASE OnlineStateTimeout
  BY <1>6, <1>8, <1>12 DEF OnlineStateTimeout, connection
<1>13. ASSUME replies # <<>>, replies' = Tail(replies), wire' = wire PROVE R'
  <2> SUFFICES ASSUME wire = <<>>, NEW k \in 1..Len(replies'), replies'[k].type = "snapshot", LastFrom(k)'
               PROVE  replies'[k].version >= n
    BY <1>13
  <2>1. k + 1 \in 1..Len(replies) /\ replies'[k] = replies[k + 1] /\ LastFrom(k + 1)
    BY <1>0, <1>13, ReadIs
  <2> QED BY <1>3, <2>1
<1>14. CASE OnTargetResponse \/ ProcessTargetError
  BY <1>5, <1>13, <1>14 DEF OnTargetResponse, ProcessTargetError, local
<1>15. CASE RaiseWatchSnapshot
  <2> DEFINE v == Larger(Head(replies).version, cache)
  <2>1. replies # <<>> /\ Head(replies).type = "snapshot" /\ replies' = Tail(replies) /\ wire' = wire
    BY <1>15 DEF RaiseWatchSnapshot
  <2>2. R'
    BY <1>13, <2>1
  <2>3. CASE view' = view
    BY <1>5, <2>2, <2>3
  <2>4. CASE IsActiveTarget /\ OnViewSnapshots(v)
    <3>1. Head(replies) = replies[1] /\ 1 \in 1..Len(replies) /\ Head(replies).version \in Nat
      <4>1. Head(replies).version \in Versions /\ Versions \subseteq Nat
        BY <1>0, <2>1, ReplyIs, BoundsAreNumbers DEF Versions
      <4> QED BY <1>0, <2>1, <4>1, ReplyIs
    <3>2. wire = <<>> /\ LastFrom(1)
      BY <1>0, <2>1, <2>4, <3>1, ActiveIs
    <3>3. replies[1].version >= n
      BY <1>3, <2>1, <3>1, <3>2
    <3>4. v >= n
      <4>1. v = IF replies[1].version >= cache THEN replies[1].version ELSE cache
        BY <3>1 DEF Larger
      <4>2. replies[1].version \in Nat
        BY <3>1
      <4> QED BY <1>1, <3>3, <4>1, <4>2
    <3>5. view' = [version |-> v, synced |-> TRUE]
      BY <2>4 DEF OnViewSnapshots
    <3> HIDE DEF v
    <3> QED BY <2>2, <3>4, <3>5
  <2> QED BY <1>15, <2>3, <2>4 DEF RaiseWatchSnapshot
<1>16. CASE ServerWatch \/ ServerUnwatch
  <2>1. view' = view /\ \E r \in {Added, Removed, Rejected} : replies' = Append(replies, r) /\ (r = Rejected => ~allowed)
    <3>1. CASE ServerWatch /\ allowed
      <4>1. view' = view /\ replies' = Append(replies, Added) /\ Added # Rejected
        BY <3>1 DEF ServerWatch, local, Added, Rejected
      <4> QED BY <3>1, <4>1
    <3>2. CASE ServerWatch /\ ~allowed
      <4>1. view' = view /\ replies' = Append(replies, Rejected)
        BY <3>2 DEF ServerWatch, local
      <4> QED BY <3>2, <4>1
    <3>3. CASE ServerUnwatch
      <4>1. view' = view /\ replies' = Append(replies, Removed) /\ Removed # Rejected
        BY <3>3 DEF ServerUnwatch, local, Removed, Rejected
      <4> QED BY <4>1
    <3> QED BY <1>16, <3>1, <3>2, <3>3
  <2>2. PICK r \in {Added, Removed, Rejected} : replies' = Append(replies, r) /\ (r = Rejected => ~allowed)
    BY <2>1
  <2>3. \A k \in 1..Len(replies') : ~(replies'[k].type = "snapshot" /\ LastFrom(k)')
    <3> SUFFICES ASSUME NEW k \in 1..Len(replies'), replies'[k].type = "snapshot", LastFrom(k)' PROVE FALSE
      OBVIOUS
    <3>1. /\ replies'[Len(replies) + 1] = r
          /\ \A i \in 1..Len(replies) : replies'[i] = replies[i]
          /\ k \in 1..Len(replies) \/ k = Len(replies) + 1
          /\ \A i \in 1..Len(replies) : LastFrom(i)' <=> LastFrom(i) /\ r \notin {Added, Removed}
      BY <1>0, <1>2, <2>2, WrittenIs
    <3>2. k \in 1..Len(replies) /\ r = Rejected
      BY <1>2, <3>1
    <3>3. ~allowed /\ replies[k].type = "snapshot"
      BY <2>2, <3>1, <3>2
    <3> QED BY <1>0, <3>2, <3>3 DEF ConnInv
  <2> QED BY <1>5, <2>1, <2>3
<1>17. CASE ServerSnapshot
  <2>1. view' = view /\ wire' = wire /\ replies' = Append(replies, Snapshot(server))
    BY <1>17 DEF ServerSnapshot, local
  <2>2. PICK r \in Reply : r = Snapshot(server) /\ r.version = server
    BY <1>1, <1>2
  <2>3. /\ replies'[Len(replies) + 1] = r
        /\ \A i \in 1..Len(replies) : replies'[i] = replies[i]
        /\ \A k \in 1..Len(replies') : k \in 1..Len(replies) \/ k = Len(replies) + 1
        /\ \A i \in 1..Len(replies) : LastFrom(i)' <=> LastFrom(i) /\ r \notin {Added, Removed}
    BY <1>0, <2>1, <2>2, WrittenIs
  <2>4. server >= n
    BY <1>1
  <2>5. R'
    <3> SUFFICES ASSUME wire = <<>>, NEW k \in 1..Len(replies'), replies'[k].type = "snapshot", LastFrom(k)'
                 PROVE  replies'[k].version >= n
      BY <2>1
    <3>1. CASE k \in 1..Len(replies)
      BY <1>3, <2>3, <3>1
    <3>2. CASE k = Len(replies) + 1
      BY <2>2, <2>3, <2>4, <3>2
    <3> QED BY <2>3, <3>1, <3>2
  <2> QED BY <1>5, <2>1, <2>5
<1>18. CASE \/ BackoffElapsed \/ ServerChange
            \/ (\E new \in Seq(Calls) : Asking(new)) \/ OnEvent \/ UNCHANGED vars
  BY <1>5, <1>6, <1>18 DEF BackoffElapsed, ServerChange, Asking, OnEvent, vars, local, connection
<1> QED
  BY <1>9, <1>10, <1>11, <1>12, <1>14, <1>15, <1>16, <1>17, <1>18 DEF Step, Background

\* A step keeps how old an answer may be.
LEMMA StepFresh ==
    ASSUME IInv, Step, EventsFresh'
    PROVE  FreshInv'
<1>0. TypeOK /\ CallInv /\ FreshInv /\ ConnInv
  BY DEF IInv
<1>1. /\ Versions \subseteq Nat /\ floor \in [Calls -> Versions] /\ server \in Versions /\ cache \in Versions
      /\ listeners \in Seq(Calls) /\ \A i \in 1..Len(listeners) : listeners[i] \in Calls
      /\ Len(listeners) \in Nat
  <2>1. listeners \in Seq(Calls) /\ floor \in [Calls -> Versions] /\ server \in Versions /\ cache \in Versions
    BY <1>0 DEF TypeOK
  <2> QED BY <2>1, MemberIs, BoundsAreNumbers DEF Versions
<1>2. AnswersAreFresh' /\ \A c \in Calls : floor'[c] <= server'
  BY StepAnswers
<1> DEFINE Shared == \A i, j \in 1..Len(listeners) : floor[listeners[i]] = floor[listeners[j]]
           Fresh == \A i \in 1..Len(listeners) : NotOlder(floor[listeners[i]])
<1>3. Shared /\ Fresh
  BY <1>0 DEF FreshInv, NotOlder
<1>4. SUFFICES Shared' /\ Fresh'
  BY <1>2 DEF FreshInv, NotOlder, EventsFresh
<1>5. CASE AddQueryListener
  <2> DEFINE c == Head(work)[2]
  <2>1. /\ work # <<>> /\ Head(work)[1] = "add" /\ replies' = replies
        /\ JoinListeners(c) \/ FirstListener(c)
    BY <1>5 DEF AddQueryListener
  <2>2. c \in Calls /\ Untouched(c)
    BY <1>0, <2>1, AddIs
  <2> HIDE DEF c
  <2>3. CASE JoinListeners(c)
    <3>1. /\ listeners # <<>> /\ listeners' = Append(listeners, c)
          /\ floor' = [floor EXCEPT ![c] = floor[Head(listeners)]]
          /\ UNCHANGED <<view, wire>>
      BY <2>3 DEF JoinListeners, Listening
    <3>2. Head(listeners) = listeners[1] /\ 1 \in 1..Len(listeners)
      BY <1>1, <3>1, TailIs
    <3>3. /\ \A i \in 1..Len(listeners) : listeners'[i] = listeners[i]
          /\ listeners'[Len(listeners) + 1] = c
          /\ \A i \in 1..Len(listeners') : i \in 1..Len(listeners) \/ i = Len(listeners) + 1
      BY <1>1, <2>2, <3>1, AppendIs
    <3>4. \A i \in 1..Len(listeners) : listeners[i] # c
      BY <1>1, <2>2, MemberIs DEF Untouched
    <3>5. \A i \in 1..Len(listeners') :
             \E k \in 1..Len(listeners) : floor'[listeners'[i]] = floor[listeners[k]]
      <4> SUFFICES ASSUME NEW i \in 1..Len(listeners')
                   PROVE  \E k \in 1..Len(listeners) : floor'[listeners'[i]] = floor[listeners[k]]
        OBVIOUS
      <4>1. CASE i \in 1..Len(listeners)
        BY <1>1, <3>1, <3>3, <3>4, <4>1
      <4>2. CASE i = Len(listeners) + 1
        <5>1. floor'[c] = floor[listeners[1]]
          BY <1>1, <2>2, <3>1, <3>2
        <5> QED BY <3>2, <3>3, <4>2, <5>1
      <4> QED BY <3>3, <4>1, <4>2
    <3>6. Shared'
      BY <1>3, <3>5
    <3>7. ASSUME NEW n, NotOlder(n) PROVE NotOlder(n)'
      BY <2>1, <3>1, <3>7 DEF NotOlder, LastFrom
    <3>8. Fresh'
      <4> SUFFICES ASSUME NEW i \in 1..Len(listeners') PROVE (NotOlder(floor[listeners[i]]))'
        OBVIOUS
      <4>1. PICK n : n = floor'[listeners'[i]]
        OBVIOUS
      <4>2. NotOlder(n)'
        <5>1. NotOlder(n)
          BY <1>3, <3>5, <4>1
        <5> QED BY <3>7, <5>1
      <4> QED BY <4>1, <4>2 DEF NotOlder, LastFrom
    <3> QED BY <3>6, <3>8
  <2>4. CASE FirstListener(c)
    <3>1. /\ listeners' = <<c>> /\ view' = [version |-> cache, synced |-> FALSE] /\ Listen
      BY <2>4 DEF FirstListener
    <3>2. wire' # <<>> \/ replies' = <<>>
      <4>1. CASE stream = "open"
        <5>1. wire' = Append(wire, "watch") /\ wire \in Seq({"watch", "unwatch"})
          BY <1>0, <3>1, <4>1 DEF Listen, IsStarted, TypeOK
        <5> QED BY <5>1, WireIs
      <4>2. CASE stream # "open"
        BY <1>0, <2>1, <4>2 DEF ConnInv
      <4> QED BY <4>1, <4>2
    <3>3. \A i \in 1..Len(listeners') : i = 1
      BY <3>1
    <3>4. Shared'
      BY <3>3
    <3>5. Fresh'
      BY <3>1, <3>2 DEF NotOlder
    <3> QED BY <3>4, <3>5
  <2> QED BY <2>1, <2>3, <2>4
<1>6. CASE ~AddQueryListener
  <2>1. floor' = floor /\ \A i \in 1..Len(listeners') : \E j \in 1..Len(listeners) : listeners'[i] = listeners[j]
    <3>1. CASE UNCHANGED <<floor, listeners>>
      BY <3>1
    <3>2. CASE RemoveQueryListener
      <4>1. floor' = floor /\ listeners' = Erase(listeners, Head(work)[2])
        BY <3>2 DEF RemoveQueryListener
      <4>2. \A i, j \in 1..Len(listeners) : listeners[i] = listeners[j] => i = j
        BY <1>0 DEF CallInv, ListenersInv
      <4> QED BY <1>1, <4>1, <4>2, EraseIs
    <3>3. CASE ProcessTargetError
      BY <3>3 DEF ProcessTargetError
    <3>4. CASE (\E new \in Seq(Calls) : Asking(new)) \/ OnEvent \/ UNCHANGED vars
      BY <3>1, <3>4, Zenon DEF Asking, OnEvent, vars, local
    <3>5. CASE ResumeStartWithCredentials \/ CredentialsFail \/ BackoffElapsed \/ IdleTimeout
      BY <3>1, <3>5, Zenon DEF ResumeStartWithCredentials, CredentialsFail, BackoffElapsed, IdleTimeout,
         OnWatchStreamClose, local
    <3>6. CASE OnlineStateTimeout \/ OnStreamLost \/ RestartNetwork
      BY <3>1, <3>6, Zenon DEF OnlineStateTimeout, OnStreamLost, OnWatchStreamClose, RestartNetwork, local
    <3>7. CASE OnTargetResponse \/ RaiseWatchSnapshot
      BY <3>1, <3>7, Zenon DEF OnTargetResponse, RaiseWatchSnapshot, local
    <3>8. CASE ServerWatch \/ ServerUnwatch \/ ServerSnapshot \/ ServerChange
      BY <3>1, <3>8, Zenon DEF ServerWatch, ServerUnwatch, ServerSnapshot, ServerChange, local
    <3> QED BY <1>6, <3>2, <3>3, <3>4, <3>5, <3>6, <3>7, <3>8, Zenon DEF Step, Background
  <2>2. Shared'
    BY <1>3, <2>1, SMTT(30)
  <2>3. Fresh'
    <3> SUFFICES ASSUME NEW i \in 1..Len(listeners') PROVE (NotOlder(floor[listeners[i]]))'
      OBVIOUS
    <3>1. PICK n : n = floor'[listeners'[i]]
      OBVIOUS
    <3>2. PICK j \in 1..Len(listeners) : listeners'[i] = listeners[j]
      BY <2>1
    <3>3. n = floor[listeners[j]] /\ NotOlder(n)
      BY <1>3, <2>1, <3>1, <3>2
    <3>4. n \in Nat /\ n <= server
      BY <1>0, <1>1, <3>3 DEF FreshInv
    <3>5. NotOlder(n)'
      BY <1>6, <3>3, <3>4, StepNotOlder
    <3> QED BY <3>1, <3>5 DEF NotOlder, LastFrom
  <2> QED BY <2>2, <2>3
<1> QED BY <1>5, <1>6

-----------------------------------------------------------------------------
(***************************************************************************)
(* The read path.                                                          *)
(***************************************************************************)

\* The invariant holds at the start.
LEMMA InitIInv ==
    ASSUME Init
    PROVE  IInv
<1>1. /\ <<>> \in Seq(Event) /\ <<>> \in Seq({"add", "remove"} \X Calls) /\ <<>> \in Seq(Answer)
      /\ <<>> \in Seq(Calls) /\ <<>> \in Seq({"watch", "unwatch"}) /\ <<>> \in Seq(Reply)
      /\ Len(<<>>) = 0 /\ Range(<<>>) = {}
  BY EmptySeq, PostNone, MemberIs
<1>2. 0 \in Versions /\ Versions \subseteq Nat /\ \A n \in Versions : 0..n \subseteq Versions
  BY BoundsAreNumbers DEF Versions
<1>3. cache \in Versions /\ server \in Versions /\ server \in Nat
  BY <1>2 DEF Init
<1>4. FlagType
  BY Zenon DEF Init, FlagType
<1>5. ClientType /\ outstanding \in Int
  <2>1. [version |-> 0, synced |-> FALSE] \in [version : Versions, synced : BOOLEAN]
    BY <1>2
  <2> QED BY <1>1, <1>3, <2>1 DEF Init, ClientType
<1>6. CallType
  BY <1>1, <1>2 DEF Init, CallType
<1>7. TypeOK
  <2>1. timer \in BOOLEAN /\ failures \in BOOLEAN /\ idle \in BOOLEAN /\ allowed \in BOOLEAN
    BY <1>4, Zenon DEF FlagType
  <2> QED BY <1>5, <1>6, <2>1, Zenon DEF TypeOK, CallType, ClientType
<1>8. AssertionsHold
  BY DEF Init, AssertionsHold
<1>9. CallInv
  <2>1. \A i \in 1..0 : FALSE
    OBVIOUS
  <2>2. \A c \in Calls : Untouched(c) /\ ~HasEvent(c) /\ answers[c] = <<>>
    BY <1>1, <2>1 DEF Init, Untouched, HasEvent
  <2>3. WorkInv
    BY <1>1, <2>1, <2>2 DEF Init, WorkInv
  <2>4. ListenersInv
    BY <1>1, <2>1 DEF Init, ListenersInv
  <2>5. AnswerInv
    BY <1>1, <2>2 DEF Init, AnswerInv
  <2> QED BY <2>3, <2>4, <2>5 DEF CallInv
<1>10. ConnInv
  <2>1. \A i \in 1..0 : FALSE
    OBVIOUS
  <2> QED BY <1>1, <2>1 DEF Init, ConnInv, Listening, OutstandingIsExact
<1>11. ComingInv
  BY DEF Init, ComingInv, Listening
<1>12. FreshInv
  <2>1. \A i \in 1..0 : FALSE
    OBVIOUS
  <2>2. \A c \in Calls : floor[c] = 0 /\ answers[c] = <<>>
    BY DEF Init
  <2>3. AnswersAreFresh
    BY <1>1, <2>1, <2>2 DEF AnswersAreFresh
  <2>4. \A c \in Calls : floor[c] <= server
    BY <1>3, <2>2
  <2>5. listeners = <<>> /\ main = <<>>
    BY DEF Init
  <2> QED BY <1>1, <2>1, <2>3, <2>4, <2>5 DEF FreshInv
<1> QED BY <1>7, <1>8, <1>9, <1>10, <1>11, <1>12 DEF IInv

\* Every step keeps it.
LEMMA StepIInv ==
    ASSUME IInv, Step
    PROVE  IInv'
<1>1. TypeOK' /\ CallInv' /\ EventsFresh'
  BY StepCalls
<1>2. AssertionsHold'
  BY StepAssertions DEF IInv
<1> QED BY <1>1, <1>2, StepConn, StepComing, StepFresh DEF IInv

\* GetDocument makes one call.
LEMMA GetDocumentAsks ==
    ASSUME NEW c \in Calls, TypeOK, GetDocument(c)
    PROVE  Asking(<<c>>)
<1>1. /\ c \notin asked /\ asked' = asked \cup {c} /\ work' = Append(work, <<"add", c>>)
      /\ UNCHANGED <<main, muted, answers, local, status, remote, connection, server, allowed, floor>>
  BY DEF GetDocument
<1>2. Range(<<c>>) = {c} /\ Len(<<c>>) = 1 /\ <<c>>[1] = c /\ \A i \in 1..1 : i = 1
  BY PostOne
<1>3. [i \in 1..1 |-> <<"add", <<c>>[i]>>] = << <<"add", c>> >>
  <2>1. \A i \in 1..1 : <<"add", <<c>>[i]>> = <<"add", c>>
    BY <1>2
  <2> QED BY <2>1
<1>4. work' = work \o << <<"add", c>> >>
  <2>1. work \in Seq({"add", "remove"} \X Calls) /\ <<"add", c>> \in {"add", "remove"} \X Calls
    BY DEF TypeOK
  <2> QED BY <1>1, <2>1, AppendIsConcat
<1> QED BY <1>1, <1>2, <1>3, <1>4 DEF Asking

\* What the invariant says of answers that are to come.
LEMMA ComingIs ==
    ASSUME IInv
    PROVE  AnswerIsComing
<1> SUFFICES ASSUME NEW c \in asked, answers[c] = <<>>, <<"add", c>> \notin Range(work), ~HasEvent(c)
             PROVE  /\ c \in Range(listeners)
                    /\ \/ stream \in {"starting", "backoff"}
                       \/ /\ stream = "open"
                          /\ \/ wire # <<>> /\ wire[Len(wire)] = "watch"
                             \/ target = "stale" \/ SnapshotArrives
                             \/ Rejected \in Range(replies)
  BY DEF AnswerIsComing, HasEvent
<1>1. TypeOK /\ CallInv /\ ConnInv /\ ComingInv
  BY DEF IInv
<1>2. c \in Calls /\ c \in Range(listeners) /\ c \notin raised
  BY <1>1 DEF TypeOK, CallInv, AnswerInv
<1>3. PICK k \in 1..Len(listeners) : listeners[k] = c
  BY <1>1, <1>2, MemberIs DEF TypeOK
<1>4. Listening /\ IsStarted(stream)
  <2>1. listeners # <<>>
    BY <1>3
  <2> QED BY <1>1, <2>1 DEF ConnInv, Listening
<1>5. ASSUME stream = "open", wire = <<>>
      PROVE  target = "stale" \/ SnapshotArrives \/ Rejected \in Range(replies)
  <2>1. CASE ~allowed
    <3>1. PICK i \in 1..Len(replies) : replies[i] = Rejected
      BY <1>1, <1>4, <1>5, <2>1 DEF ComingInv
    <3>2. Rejected \in Range(replies)
      BY <1>1, <3>1, MemberIs DEF TypeOK
    <3> QED BY <3>2
  <2>2. CASE allowed /\ target = "current"
    <3>1. ~view.synced
      BY <1>1, <1>2, <1>3, <1>4 DEF ComingInv
    <3>2. PICK i \in 1..Len(replies) : replies[i].type = "snapshot" /\ LastFrom(i)
      BY <1>1, <1>4, <1>5, <2>2, <3>1 DEF ComingInv
    <3>3. Len(replies) \in Nat
      BY <1>1 DEF TypeOK
    <3>4. \A j \in (i + 1)..Len(replies) : j \in 1..Len(replies) /\ j > i
      BY <3>3
    <3> QED BY <3>2, <3>4 DEF SnapshotArrives, LastFrom
  <2>3. CASE allowed /\ target # "current"
    BY <1>1, <1>4, <1>5, <2>3 DEF ComingInv, TypeOK
  <2> QED BY <2>1, <2>2, <2>3
<1>6. wire # <<>> => wire[Len(wire)] = "watch"
  BY <1>1, <1>4 DEF ConnInv
<1> QED BY <1>2, <1>4, <1>5, <1>6 DEF IsStarted

\* The safety properties of the read path.
ReadsAreSafe ==
    TypeOK /\ AnsweredOnce /\ AnswersAreFresh /\ AssertionsHold /\ OutstandingIsExact /\ AnswerIsComing

\* The invariant implies them.
LEMMA IInvIsSafe ==
    ASSUME IInv
    PROVE  ReadsAreSafe
<1>1. TypeOK /\ AssertionsHold /\ OutstandingIsExact /\ AnswersAreFresh
  BY DEF IInv, ConnInv, FreshInv
<1>2. AnsweredOnce
  BY DEF IInv, CallInv, AnswerInv, AnsweredOnce
<1> QED BY <1>1, <1>2, ComingIs DEF ReadsAreSafe

\* The read path is safe, whichever calls of getDocument the app makes and when: no
\* callback is called twice, absence is never reported of a document that existed when
\* the listen began, HARD_ASSERTs hold, responses are counted exactly, and no call is
\* forgotten.
THEOREM ReadsSafe == Spec => []ReadsAreSafe
<1>1. ASSUME IInv, [Next]_vars PROVE IInv'
  <2>1. ASSUME NEW c \in Calls, GetDocument(c) PROVE Step
    <3>1. Asking(<<c>>)
      BY <1>1, <2>1, GetDocumentAsks DEF IInv
    <3>2. <<c>> \in Seq(Calls)
      BY PostOne
    <3> QED BY <3>1, <3>2 DEF Step
  <2>2. Step
    BY <1>1, <2>1 DEF Next, Step
  <2> QED BY <1>1, <2>2, StepIInv
<1>2. Init => IInv
  BY InitIInv
<1>3. IInv => ReadsAreSafe
  BY IInvIsSafe
<1> QED BY <1>1, <1>2, <1>3, PTL DEF Spec
=============================================================================
