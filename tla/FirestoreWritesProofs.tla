------------------------ MODULE FirestoreWritesProofs ------------------------
(***************************************************************************)
(* The write path is correct for any accounts, any limit on pending writes *)
(* and any number of writes.                                               *)
(*                                                                         *)
(* The inductive invariant says how the four copies of a write, on disk,   *)
(* in the pipeline, on the wire and as an answer, correspond: the pipeline *)
(* is the head of the queue, and answers and wire together are the         *)
(* pipeline.  That is what makes "the first write of the pipeline" the     *)
(* right one for an answer or a refusal.                                   *)
(***************************************************************************)
EXTENDS FirestoreWrites, FiniteSetTheorems, SequenceTheorems, TLAPS

\* p is the head of q.
IsHead(p, q) == Len(p) <= Len(q) /\ \A i \in 1..Len(p) : p[i] = q[i]

\* IDs and writes grow along a queue.
Sorted(q) ==
    \A i, j \in 1..Len(q) : i < j => q[i].id < q[j].id /\ q[i].write < q[j].write

\* The two halves of TypeOK: what handlers keep on disk, at the server and as history,
\* and what a connection is made of.
DataType ==
    /\ user \in Users
    /\ disk \in [Users -> Seq(Batch)]
    /\ nextId \in 1..(MaxWrites + 1)
    /\ callbacks \subseteq Callback
    /\ doc \in [Users -> {0} \cup Writes]
    /\ by \in Seq(Users) /\ Len(by) <= MaxWrites
    /\ outcome \in [Writes -> Outcomes]
    /\ refused \subseteq Writes
    /\ overtaken \subseteq Writes

\* The pipeline and the stream.
RemoteType ==
    /\ pipeline \in Seq(Batch) /\ Len(pipeline) <= MaxPending
    /\ stream \in States
    /\ handshake \in BOOLEAN /\ idle \in BOOLEAN
    /\ tokens \subseteq {"current", "old"}
    /\ wire \in Seq({Handshake} \cup Writes)
    /\ replies \in Seq({Handshake} \cup Writes)
    /\ ended \in {0} \cup Writes
    /\ late \in BOOLEAN

\* Every queue is sorted, and holds writes of its account with IDs given so far.
DiskInv ==
    /\ nextId <= Len(by) + 1
    /\ \A u \in Users :
          /\ Sorted(disk[u])
          /\ \A i \in 1..Len(disk[u]) :
                /\ disk[u][i].id < nextId
                /\ disk[u][i].write <= Len(by)
                /\ by[disk[u][i].write] = u

\* The app is told only about writes it has made, and what is left on disk when it was
\* told that a write is stored is not older than that write.
ToldInv ==
    \A w \in Writes : outcome[w] # "none" =>
        /\ w <= Len(by)
        /\ outcome[w] = "ok" =>
              \A i \in 1..Len(disk[by[w]]) : disk[by[w]][i].write >= w

\* Only an open stream has a connection, and before the handshake only the handshake
\* is on it.
StreamInv ==
    /\ "current" \in tokens => stream = "starting"
    /\ stream # "open" => /\ wire = <<>> /\ replies = <<>> /\ ended = 0
                          /\ ~handshake /\ ~idle /\ ~late
    /\ stream = "open" /\ ~handshake =>
          /\ ended = 0 /\ ~idle /\ ~late
          /\ \/ wire = <<Handshake>> /\ replies = <<>>
             \/ wire = <<>> /\ replies = <<Handshake>>
    /\ idle => pipeline = <<>>
    /\ late => ended # 0

\* Answers rs and wire ws together are the writes of pipeline p, up to the write e
\* that was refused.
AreInStep(rs, ws, e, p) ==
    /\ Len(rs) + Len(ws) <= Len(p)
    /\ \A i \in 1..Len(rs) : rs[i] = p[i].write
    /\ \A i \in 1..Len(ws) : ws[i] = p[Len(rs) + i].write
    /\ e = 0 => Len(rs) + Len(ws) = Len(p)
    /\ e # 0 => ws = <<>> /\ Len(rs) < Len(p) /\ e = p[Len(rs) + 1].write

\* The connection and the pipeline are in step once the handshake is complete.
InStep == handshake => AreInStep(replies, wire, ended, pipeline)

\* The server has carried out what it has answered, and refused what it has ended for.
ServerInv ==
    /\ handshake /\ replies # <<>> => doc[user] = replies[Len(replies)]
    /\ ended # 0 => ended \in refused

\* What holds of queues, callbacks and the server's documents.
DataInv ==
    DataType /\ DiskInv /\ CallbacksMatch /\ ErrorsAreRefusals /\ ToldInv /\ StoredStays

\* What holds of the pipeline and its connection.
RemoteInv ==
    RemoteType /\ NothingSkipped /\ StreamInv /\ InStep /\ ServerInv

\* The inductive invariant.
IInv == DataInv /\ RemoteInv
-----------------------------------------------------------------------------
(***************************************************************************)
(* The operators on queues.                                                *)
(***************************************************************************)

\* A queue holds batches.
LEMMA BatchesOf ==
    ASSUME NEW q \in Seq(Batch), NEW i \in 1..Len(q)
    PROVE  /\ q[i] \in Batch /\ q[i].id \in Writes /\ q[i].write \in Writes
           /\ q[i].id \in Nat /\ q[i].write \in Nat
<1>1. q[i] \in Batch
  BY ElementOfSeq
<1>2. Writes \subseteq Nat
  BY BoundsAreNumbers DEF Writes
<1>3. q[i].id \in Writes /\ q[i].write \in Writes
  BY <1>1 DEF Batch
<1> QED BY <1>1, <1>2, <1>3

\* Up to the ID of the n-th batch of a sorted queue there are n batches.
LEMMA UpToIs ==
    ASSUME NEW q \in Seq(Batch), Sorted(q), NEW n \in 1..Len(q)
    PROVE  UpTo(q, q[n].id) = n
<1>1. \A i \in 1..Len(q) : q[i].id \in Nat
  BY BatchesOf
<1>2. {i \in 1..Len(q) : q[i].id <= q[n].id} = 1..n
  <2>1. \A i \in 1..n : i \in 1..Len(q) /\ (i = n \/ q[i].id < q[n].id)
    BY DEF Sorted
  <2>2. \A i \in 1..Len(q) : i > n => q[n].id < q[i].id
    BY DEF Sorted
  <2> QED BY <1>1, <2>1, <2>2
<1>3. n \in Nat
  OBVIOUS
<1>4. Cardinality(1..n) = n
  BY <1>3, FS_Interval
<1> QED BY <1>2, <1>4 DEF UpTo

\* The head of a queue, topped up, is again the head of the queue.
LEMMA FillIs ==
    ASSUME NEW q \in Seq(Batch), Sorted(q), NEW p \in Seq(Batch), IsHead(p, q), Len(p) <= MaxPending
    PROVE  /\ Fill(q, p) \in Seq(Batch)
           /\ Len(Fill(q, p)) <= MaxPending
           /\ Len(p) <= Len(Fill(q, p))
           /\ IsHead(Fill(q, p), q)
           /\ q # <<>> => Fill(q, p) # <<>>
<1> DEFINE k == IF p = <<>> THEN 0 ELSE UpTo(q, p[Len(p)].id)
           n == Smaller(k + (MaxPending - Len(p)), Len(q))
           s == SubSeq(q, k + 1, n)
<1>1. Len(p) \in Nat /\ Len(q) \in Nat /\ MaxPending \in Nat \ {0}
  BY BoundsAreNumbers
<1>2. k = Len(p)
  <2>1. CASE p = <<>>
    BY <2>1
  <2>2. CASE p # <<>>
    <3>1. Len(p) \in 1..Len(q) /\ p[Len(p)] = q[Len(p)]
      BY <1>1, <2>2 DEF IsHead
    <3> QED BY <2>2, <3>1, UpToIs
  <2> QED BY <2>1, <2>2
<1> HIDE DEF k
<1>3. /\ n \in Nat /\ Len(p) <= n /\ n <= Len(q) /\ n <= MaxPending
      /\ Len(q) # 0 => n # 0
  BY <1>1, <1>2 DEF Smaller, IsHead
<1> HIDE DEF n
<1>4. /\ s \in Seq(Batch) /\ Len(s) = n - Len(p)
      /\ \A i \in 1..(n - Len(p)) : s[i] = q[Len(p) + i]
  <2>1. \A i \in (k + 1)..n : q[i] \in Batch
    BY <1>1, <1>2, <1>3
  <2>2. k + 1 \in Int /\ n \in Int
    BY <1>1, <1>2, <1>3
  <2>3. /\ s \in Seq(Batch) /\ Len(s) = (IF k + 1 <= n THEN n - (k + 1) + 1 ELSE 0)
        /\ \A i \in 1..(n - (k + 1) + 1) : s[i] = q[(k + 1) + i - 1]
    BY <2>1, <2>2, SubSeqProperties
  <2> QED BY <1>1, <1>2, <1>3, <2>3
<1> HIDE DEF s
<1>5. Fill(q, p) = p \o s
  BY DEF Fill, k, n, s
<1>6. /\ p \o s \in Seq(Batch) /\ Len(p \o s) = Len(p) + Len(s)
      /\ \A i \in 1..(Len(p) + Len(s)) : (p \o s)[i] = IF i <= Len(p) THEN p[i] ELSE s[i - Len(p)]
  BY <1>4, ConcatProperties
<1>7. Len(p \o s) = n
  BY <1>1, <1>3, <1>4, <1>6
<1>8. ASSUME NEW i \in 1..n PROVE (p \o s)[i] = q[i]
  <2>1. CASE i <= Len(p)
    BY <1>1, <1>3, <1>4, <1>6, <2>1 DEF IsHead
  <2>2. CASE i > Len(p)
    <3>1. i - Len(p) \in 1..(n - Len(p)) /\ Len(p) + (i - Len(p)) = i
      BY <1>1, <1>3, <2>2
    <3> QED BY <1>1, <1>3, <1>4, <1>6, <2>2, <3>1
  <2>3. i <= Len(p) \/ i > Len(p)
    BY <1>1, <1>3
  <2> QED BY <2>1, <2>2, <2>3
<1>9. q # <<>> => Len(q) # 0
  BY EmptySeq
<1>10. p \o s = <<>> => n = 0
  BY <1>7, EmptySeq
<1> QED BY <1>3, <1>5, <1>6, <1>7, <1>8, <1>9, <1>10 DEF IsHead

\* What FillWritePipeline adds to the pipeline.
LEMMA NewIs ==
    ASSUME NEW f \in Seq(Batch), NEW n \in 0..Len(f)
    PROVE  LET new == SubSeq(f, n + 1, Len(f)) IN
           /\ new \in Seq(Batch) /\ Len(new) = Len(f) - n
           /\ \A i \in 1..(Len(f) - n) : new[i] = f[n + i]
<1> DEFINE new == SubSeq(f, n + 1, Len(f))
<1>1. Len(f) \in Nat
  OBVIOUS
<1>2. \A i \in (n + 1)..Len(f) : f[i] \in Batch
  BY <1>1
<1>3. /\ new \in Seq(Batch) /\ Len(new) = (IF n + 1 <= Len(f) THEN Len(f) - (n + 1) + 1 ELSE 0)
      /\ \A i \in 1..(Len(f) - (n + 1) + 1) : new[i] = f[(n + 1) + i - 1]
  BY <1>1, <1>2, SubSeqProperties
<1> HIDE DEF new
<1>4. Len(new) = Len(f) - n
  BY <1>1, <1>3
<1>5. \A i \in 1..(Len(f) - n) : new[i] = f[n + i]
  BY <1>1, <1>3
<1> QED BY <1>3, <1>4, <1>5 DEF new

\* Deleting the oldest batch.
LEMMA WithoutIs ==
    ASSUME NEW q \in Seq(Batch), Sorted(q), q # <<>>
    PROVE  Without(q, q[1].id) = Tail(q)
<1>1. Len(q) \in Nat /\ 1 \in 1..Len(q)
  BY EmptySeq
<1>2. \A j \in 1..Len(q) : q[j].id = q[1].id => j = 1
  <2>1. \A j \in 1..Len(q) : q[j].id \in Nat
    BY BatchesOf
  <2> QED BY <1>1, <2>1 DEF Sorted
<1>3. (CHOOSE j \in 1..Len(q) : q[j].id = q[1].id) = 1
  BY <1>1, <1>2
<1>4. Without(q, q[1].id) = SubSeq(q, 1, 0) \o SubSeq(q, 2, Len(q))
  <2>1. Without(q, q[1].id) = SubSeq(q, 1, 1 - 1) \o SubSeq(q, 1 + 1, Len(q))
    BY <1>3, Zenon DEF Without
  <2>2. 1 - 1 = 0 /\ 1 + 1 = 2
    OBVIOUS
  <2> QED BY <2>1, <2>2, Zenon
<1>5. SubSeq(q, 1, 0) = <<>>
  BY SubSeqEmpty
<1>6. SubSeq(q, 2, Len(q)) = Tail(q) /\ Tail(q) \in Seq(Batch)
  BY TailIsSubSeq, HeadTailProperties
<1> QED BY <1>4, <1>5, <1>6, ConcatEmptySeq

\* A sorted queue stays sorted without its head.
LEMMA SortedTail ==
    ASSUME NEW q \in Seq(Batch), Sorted(q), q # <<>>
    PROVE  Sorted(Tail(q))
<1>1. /\ Len(Tail(q)) = Len(q) - 1 /\ Len(q) \in Nat
      /\ \A i \in 1..Len(Tail(q)) : Tail(q)[i] = q[i + 1] /\ i + 1 \in 1..Len(q)
  BY HeadTailProperties
<1> QED BY <1>1 DEF Sorted

\* A sorted queue stays sorted with a newer batch behind it.
LEMMA SortedAppend ==
    ASSUME NEW q \in Seq(Batch), Sorted(q), NEW b \in Batch,
           \A i \in 1..Len(q) : q[i].id < b.id /\ q[i].write < b.write
    PROVE  Sorted(Append(q, b))
<1>1. /\ Len(Append(q, b)) = Len(q) + 1 /\ Len(q) \in Nat
      /\ \A i \in 1..Len(q) : Append(q, b)[i] = q[i]
      /\ Append(q, b)[Len(q) + 1] = b
  BY AppendProperties
<1> DEFINE a == Append(q, b)
<1> HIDE DEF a
<1>2. /\ Len(a) = Len(q) + 1 /\ \A i \in 1..Len(q) : a[i] = q[i]
      /\ a[Len(q) + 1] = b
  BY <1>1 DEF a
<1>3. \A i \in 1..Len(a) : i \in 1..Len(q) \/ i = Len(q) + 1
  BY <1>1, <1>2
<1>4. ASSUME NEW i \in 1..Len(a), NEW j \in 1..Len(a), i < j
      PROVE  a[i].id < a[j].id /\ a[i].write < a[j].write
  <2>1. i \in 1..Len(q)
    BY <1>1, <1>2, <1>4
  <2>2. CASE j \in 1..Len(q)
    BY <1>2, <1>4, <2>1, <2>2 DEF Sorted
  <2>3. CASE j = Len(q) + 1
    BY <1>2, <2>1, <2>3
  <2> QED BY <1>3, <2>2, <2>3
<1> QED BY <1>4 DEF Sorted, a

\* The writes of a queue.
LEMMA WritesOfIs ==
    ASSUME NEW q \in Seq(Batch)
    PROVE  /\ WritesOf(q) \in Seq(Writes) /\ Len(WritesOf(q)) = Len(q)
           /\ \A i \in 1..Len(q) : WritesOf(q)[i] = q[i].write
<1>1. Len(q) \in Nat /\ \A i \in 1..Len(q) : q[i].write \in Writes
  BY BatchesOf
<1>2. WritesOf(q) \in [1..Len(q) -> Writes]
  BY <1>1 DEF WritesOf
<1>3. WritesOf(q) \in Seq(Writes)
  BY <1>1, <1>2, SeqDef
<1>4. DOMAIN WritesOf(q) = 1..Len(q) /\ DOMAIN WritesOf(q) = 1..Len(WritesOf(q))
  BY <1>2, <1>3, LenProperties
<1> QED BY <1>1, <1>3, <1>4 DEF WritesOf

-----------------------------------------------------------------------------
(***************************************************************************)
(* The connection.                                                         *)
(***************************************************************************)

\* Appending what the pipeline was topped up with to the wire keeps them in step.
LEMMA FillKeepsStep ==
    ASSUME NEW rs \in Seq({Handshake} \cup Writes), NEW ws \in Seq({Handshake} \cup Writes),
           NEW p \in Seq(Batch), NEW f \in Seq(Batch), IsHead(p, f),
           AreInStep(rs, ws, 0, p)
    PROVE  AreInStep(rs, ws \o WritesOf(SubSeq(f, Len(p) + 1, Len(f))), 0, f)
<1> DEFINE new == SubSeq(f, Len(p) + 1, Len(f))
           w == WritesOf(new)
           x == ws \o w
<1>1. Len(p) \in Nat /\ Len(f) \in Nat /\ Len(rs) \in Nat /\ Len(ws) \in Nat /\ Len(p) \in 0..Len(f)
  BY DEF IsHead
<1>2. /\ new \in Seq(Batch) /\ Len(new) = Len(f) - Len(p)
      /\ \A i \in 1..(Len(f) - Len(p)) : new[i] = f[Len(p) + i]
  BY <1>1, NewIs
<1> HIDE DEF new
<1>3. w \in Seq(Writes) /\ Len(w) = Len(new) /\ \A i \in 1..Len(new) : w[i] = new[i].write
  BY <1>2, WritesOfIs
<1>4. w \in Seq({Handshake} \cup Writes)
  BY <1>3, SeqMonotonic
<1> HIDE DEF w
<1>5. /\ Len(x) = Len(ws) + Len(w)
      /\ \A i \in 1..(Len(ws) + Len(w)) : x[i] = IF i <= Len(ws) THEN ws[i] ELSE w[i - Len(ws)]
  BY <1>4, ConcatProperties
<1> HIDE DEF x
<1>6. Len(rs) + Len(ws) = Len(p) /\ Len(rs) + Len(x) = Len(f)
  <2>1. Len(rs) + Len(ws) = Len(p)
    BY DEF AreInStep
  <2>2. Len(w) = Len(f) - Len(p)
    BY <1>2, <1>3
  <2>3. Len(x) = Len(ws) + (Len(f) - Len(p))
    BY <1>5, <2>2
  <2>4. Len(rs) + (Len(ws) + (Len(f) - Len(p))) = Len(f)
    <3> DEFINE m == Len(rs)
               n == Len(ws)
               k == Len(p)
               l == Len(f)
    <3>1. m \in Nat /\ n \in Nat /\ k \in Nat /\ l \in Nat /\ m + n = k
      BY <1>1, <2>1
    <3> HIDE DEF m, n, k, l
    <3>2. m + (n + (l - k)) = l
      BY ONLY <3>1
    <3> QED BY <3>2, Zenon DEF m, n, k, l
  <2> QED BY <2>1, <2>3, <2>4, Zenon
<1>7. ASSUME NEW i \in 1..Len(rs) PROVE rs[i] = f[i].write
  <2>1. i \in 1..Len(p)
    BY <1>1, <1>6
  <2> QED BY <2>1 DEF AreInStep, IsHead
<1>8. ASSUME NEW i \in 1..Len(x) PROVE x[i] = f[Len(rs) + i].write
  <2>1. i \in 1..(Len(ws) + Len(w)) /\ i \in Nat
    BY <1>1, <1>2, <1>3, <1>5
  <2>2. CASE i <= Len(ws)
    <3>1. i \in 1..Len(ws) /\ Len(rs) + i \in 1..Len(p)
      BY <1>1, <1>6, <2>1, <2>2
    <3>2. x[i] = ws[i] /\ ws[i] = p[Len(rs) + i].write
      BY <1>5, <2>1, <2>2, <3>1 DEF AreInStep
    <3> QED BY <3>1, <3>2 DEF IsHead
  <2>3. CASE ~(i <= Len(ws))
    <3>1. i - Len(ws) \in 1..Len(new) /\ Len(p) + (i - Len(ws)) = Len(rs) + i
      <4>1. i <= Len(ws) + (Len(f) - Len(p)) /\ Len(new) = Len(f) - Len(p)
        BY <1>2, <1>3, <2>1
      <4>2. Len(rs) + Len(ws) = Len(p)
        BY <1>6
      <4>3. i - Len(ws) \in 1..(Len(f) - Len(p))
        BY <1>1, <2>1, <2>3, <4>1
      <4>4. Len(p) + (i - Len(ws)) = Len(rs) + i
        <5> DEFINE m == Len(rs)
                   n == Len(ws)
                   k == Len(p)
        <5>1. m \in Nat /\ n \in Nat /\ k \in Nat /\ i \in Nat /\ m + n = k
          BY <1>1, <2>1, <4>2
        <5> HIDE DEF m, n, k
        <5>2. k + (i - n) = m + i
          BY ONLY <5>1
        <5> QED BY <5>2, Zenon DEF m, n, k
      <4> QED BY <4>1, <4>3, <4>4
    <3>2. x[i] = w[i - Len(ws)]
      BY <1>5, <2>1, <2>3
    <3>3. w[i - Len(ws)] = f[Len(p) + (i - Len(ws))].write
      BY <1>2, <1>3, <3>1
    <3> QED BY <3>1, <3>2, <3>3
  <2> QED BY <2>2, <2>3
<1> QED BY <1>1, <1>6, <1>7, <1>8 DEF AreInStep, x, w, new

\* After a refusal nothing is sent, and a longer pipeline changes nothing.
LEMMA EndedKeepsStep ==
    ASSUME NEW rs \in Seq({Handshake} \cup Writes), NEW ws, NEW e, e # 0,
           NEW p \in Seq(Batch), NEW f \in Seq(Batch), IsHead(p, f),
           AreInStep(rs, ws, e, p)
    PROVE  AreInStep(rs, ws, e, f)
<1>1. ws = <<>> /\ Len(ws) = 0 /\ Len(rs) < Len(p) /\ Len(p) <= Len(f)
  BY DEF AreInStep, IsHead
<1>2. Len(rs) \in Nat /\ Len(p) \in Nat /\ Len(f) \in Nat
  OBVIOUS
<1>3. \A i \in 1..Len(rs) : i \in 1..Len(p)
  BY <1>1, <1>2
<1>4. Len(rs) + 1 \in 1..Len(p)
  BY <1>1, <1>2
<1>5. \A i \in 1..Len(p) : f[i] = p[i]
  BY DEF IsHead
<1>6. \A i \in 1..Len(rs) : rs[i] = f[i].write
  BY <1>3, <1>5 DEF AreInStep
<1>7. e = f[Len(rs) + 1].write
  BY <1>4, <1>5 DEF AreInStep
<1> QED BY <1>1, <1>2, <1>6, <1>7, SMTT(30) DEF AreInStep

\* An answer is read: it was the one about the first write of the pipeline.
LEMMA PopKeepsStep ==
    ASSUME NEW rs \in Seq({Handshake} \cup Writes), NEW ws \in Seq({Handshake} \cup Writes), NEW e,
           NEW p \in Seq(Batch), rs # <<>>, AreInStep(rs, ws, e, p)
    PROVE  AreInStep(Tail(rs), ws, e, Tail(p)) /\ p # <<>> /\ rs[1] = p[1].write
<1>1. Len(rs) \in Nat /\ Len(p) \in Nat /\ Len(ws) \in Nat /\ Len(rs) # 0
  BY EmptySeq
<1>2. Len(p) # 0 /\ p # <<>> /\ 1 \in 1..Len(rs)
  BY <1>1, EmptySeq DEF AreInStep
<1>3. /\ Len(Tail(rs)) = Len(rs) - 1
      /\ \A i \in 1..Len(Tail(rs)) : Tail(rs)[i] = rs[i + 1]
      /\ Len(Tail(p)) = Len(p) - 1
      /\ \A i \in 1..Len(Tail(p)) : Tail(p)[i] = p[i + 1]
  BY <1>2, HeadTailProperties
<1> DEFINE r == Tail(rs)
           t == Tail(p)
<1>4. /\ Len(r) = Len(rs) - 1 /\ \A i \in 1..Len(r) : r[i] = rs[i + 1]
      /\ Len(t) = Len(p) - 1 /\ \A i \in 1..Len(t) : t[i] = p[i + 1]
  BY <1>3
<1> HIDE DEF r, t
<1>5. Len(r) + Len(ws) <= Len(t) /\ (e = 0 => Len(r) + Len(ws) = Len(t))
  BY <1>1, <1>4 DEF AreInStep
<1>6. ASSUME NEW i \in 1..Len(r) PROVE r[i] = t[i].write
  <2>1. i + 1 \in 1..Len(rs) /\ i \in 1..Len(t)
    BY <1>1, <1>4, <1>5
  <2> QED BY <1>4, <2>1 DEF AreInStep
<1>7. ASSUME NEW i \in 1..Len(ws) PROVE ws[i] = t[Len(r) + i].write
  <2>1. Len(r) + i \in 1..Len(t) /\ (Len(r) + i) + 1 = Len(rs) + i
    BY <1>1, <1>4, <1>5
  <2>2. t[Len(r) + i] = p[(Len(r) + i) + 1]
    BY <1>4, <2>1
  <2> QED BY <2>1, <2>2 DEF AreInStep
<1>8. ASSUME e # 0 PROVE ws = <<>> /\ Len(r) < Len(t) /\ e = t[Len(r) + 1].write
  <2>1. ws = <<>> /\ Len(rs) < Len(p) /\ e = p[Len(rs) + 1].write
    BY <1>8 DEF AreInStep
  <2>2. Len(r) + 1 \in 1..Len(t) /\ (Len(r) + 1) + 1 = Len(rs) + 1 /\ Len(r) < Len(t)
    BY <1>1, <1>4, <2>1
  <2>3. t[Len(r) + 1] = p[(Len(r) + 1) + 1]
    BY <1>4, <2>2
  <2> QED BY <2>1, <2>2, <2>3
<1>9. rs[1] = p[1].write
  BY <1>2 DEF AreInStep
<1> QED BY <1>2, <1>5, <1>6, <1>7, <1>8, <1>9 DEF AreInStep, r, t

\* Starting a stream does not open it, and asks for credentials at most once.
LEMMA StartIs ==
    ASSUME NEW s \in States, NEW p, NEW ts \in SUBSET {"current", "old"},
           "current" \in ts => s = "starting", StartIfNeeded(s, p, ts)
    PROVE  /\ stream' \in States /\ tokens' \subseteq {"current", "old"}
           /\ "current" \in tokens' => stream' = "starting"
           /\ stream' = "open" <=> s = "open"
  BY DEF StartIfNeeded, States, IsStarted

\* A closed stream has no connection.
LEMMA ClosedIs ==
    ASSUME CloseStream, stream' \in States, stream' # "open",
           tokens' \subseteq {"current", "old"}, "current" \in tokens' => stream' = "starting",
           pipeline' \in Seq(Batch), Len(pipeline') <= MaxPending
    PROVE  (RemoteType /\ StreamInv /\ InStep /\ ServerInv)'
<1>1. /\ handshake' \in BOOLEAN /\ idle' \in BOOLEAN /\ late' \in BOOLEAN
      /\ ~handshake' /\ ~idle' /\ ~late'
  BY DEF CloseStream
<1>2. wire' = <<>> /\ replies' = <<>> /\ ended' = 0
  BY DEF CloseStream
<1>3. <<>> \in Seq({Handshake} \cup Writes)
  BY EmptySeq
<1> QED BY <1>1, <1>2, <1>3 DEF RemoteType, StreamInv, InStep, ServerInv

\* RestartNetwork fills the pipeline from the queue of the account.
LEMMA RestartIs ==
    ASSUME NEW q \in Seq(Batch), Sorted(q), q = disk'[user'],
           NEW ts \in SUBSET {"old"}, RestartNetwork(q, ts)
    PROVE  RemoteInv'
<1>1. <<>> \in Seq(Batch) /\ Len(<<>>) = 0
  BY EmptySeq
<1>2. IsHead(<<>>, q) /\ Len(<<>>) <= MaxPending
  <2>1. Len(q) \in Nat /\ MaxPending \in Nat
    BY BoundsAreNumbers
  <2> QED BY <1>1, <2>1 DEF IsHead
<1>3. Fill(q, <<>>) \in Seq(Batch) /\ Len(Fill(q, <<>>)) <= MaxPending /\ IsHead(Fill(q, <<>>), q)
  BY <1>1, <1>2, FillIs
<1>4. CloseStream /\ pipeline' = Fill(q, <<>>) /\ StartIfNeeded("initial", Fill(q, <<>>), ts)
  BY DEF RestartNetwork
<1>5. /\ stream' \in States /\ tokens' \subseteq {"current", "old"}
      /\ "current" \in tokens' => stream' = "starting"
      /\ stream' # "open"
  <2>1. "initial" \in States /\ ts \in SUBSET {"current", "old"} /\ "current" \notin ts
    BY DEF States
  <2> QED BY <1>4, <2>1, StartIs
<1>6. (RemoteType /\ StreamInv /\ InStep /\ ServerInv)'
  BY <1>3, <1>4, <1>5, ClosedIs
<1>7. NothingSkipped'
  BY <1>3, <1>4 DEF NothingSkipped, IsHead
<1> QED BY <1>6, <1>7 DEF RemoteInv

\* FillWritePipeline, on whatever stream, with queue q and what is left of the pipeline.
LEMMA FillPipelineIs ==
    ASSUME RemoteType, StreamInv,
           NEW q \in Seq(Batch), Sorted(q), q = disk'[user'],
           NEW p \in Seq(Batch), IsHead(p, q), Len(p) <= MaxPending,
           FillWritePipeline(q, p),
           handshake \in BOOLEAN, idle => p = <<>>, ~handshake => q # <<>>,
           replies' \in Seq({Handshake} \cup Writes),
           ~handshake => replies' = replies,
           handshake => AreInStep(replies', wire, ended, p),
           handshake /\ replies' # <<>> => doc'[user'] = replies'[Len(replies')],
           ended # 0 => ended \in refused'
    PROVE  RemoteInv'
<1> DEFINE f == Fill(q, p)
           new == SubSeq(f, Len(p) + 1, Len(f))
           sends == stream = "open" /\ handshake /\ new # <<>>
<1>1. f \in Seq(Batch) /\ Len(f) <= MaxPending /\ Len(p) <= Len(f) /\ IsHead(f, q)
      /\ (q # <<>> => f # <<>>)
  BY FillIs
<1>2. /\ pipeline' = f
      /\ wire' = IF sends /\ ended = 0 THEN wire \o WritesOf(new) ELSE wire
      /\ late' = (late \/ (sends /\ ended # 0))
      /\ idle' = ((idle /\ ~sends) \/ (f = <<>> /\ stream = "open"))
      /\ StartIfNeeded(stream, f, tokens)
      /\ handshake' = handshake /\ ended' = ended
  BY DEF FillWritePipeline
<1> HIDE DEF f
<1>3. Len(p) \in Nat /\ Len(f) \in Nat /\ Len(q) \in Nat /\ Len(p) \in 0..Len(f)
  BY <1>1
<1>4. new \in Seq(Batch) /\ Len(new) = Len(f) - Len(p)
  BY <1>1, <1>3, NewIs
<1>5. WritesOf(new) \in Seq({Handshake} \cup Writes)
  BY <1>4, WritesOfIs, SeqMonotonic
<1>6. IsHead(p, f)
  BY <1>1, <1>3 DEF IsHead
<1>7. new = <<>> => f = p
  <2> SUFFICES ASSUME new = <<>> PROVE f = p
    OBVIOUS
  <2>1. Len(new) = 0
    BY EmptySeq
  <2>2. Len(f) = Len(p)
    BY ONLY <1>3, <1>4, <2>1
  <2> QED BY <1>1, <1>6, <2>2, SeqEqual DEF IsHead
<1> HIDE DEF new
<1>8. /\ stream' \in States /\ tokens' \subseteq {"current", "old"}
      /\ "current" \in tokens' => stream' = "starting"
      /\ stream' = "open" <=> stream = "open"
  BY <1>2, StartIs DEF RemoteType, StreamInv
<1>9. wire \in Seq({Handshake} \cup Writes) /\ wire \o WritesOf(new) \in Seq({Handshake} \cup Writes)
  BY <1>5, ConcatProperties DEF RemoteType
<1>10. late' \in BOOLEAN /\ idle' \in BOOLEAN /\ handshake' \in BOOLEAN
  BY <1>2, Zenon
<1>11. RemoteType'
  BY <1>1, <1>2, <1>8, <1>9, <1>10 DEF RemoteType
<1>12. NothingSkipped'
  BY <1>1, <1>2 DEF NothingSkipped, IsHead
<1>13. late' => ended' # 0
  BY <1>2, Zenon DEF StreamInv
<1>14. idle' => pipeline' = <<>> /\ stream' = "open" /\ handshake'
  <2>1. CASE idle /\ ~sends
    <3>1. stream = "open" /\ handshake
      BY <2>1 DEF StreamInv
    <3>2. new = <<>>
      BY <2>1, <3>1
    <3> QED BY <1>2, <1>7, <1>8, <2>1, <3>1, <3>2
  <2>2. CASE f = <<>> /\ stream = "open"
    <3>1. q = <<>>
      BY <1>1, <2>2
    <3> QED BY <1>2, <1>8, <2>2, <3>1
  <2> QED BY <1>2, <2>1, <2>2, Zenon
<1>15. stream' # "open" => /\ wire' = <<>> /\ replies' = <<>> /\ ended' = 0
                           /\ ~handshake' /\ ~late'
  <2> SUFFICES ASSUME stream' # "open"
               PROVE  wire' = <<>> /\ replies' = <<>> /\ ended' = 0 /\ ~handshake' /\ ~late'
    OBVIOUS
  <2>1. stream # "open"
    BY <1>8
  <2>2. wire = <<>> /\ replies = <<>> /\ ended = 0 /\ ~handshake /\ ~late
    BY <2>1 DEF StreamInv
  <2>3. ~sends
    BY <2>1
  <2>4. wire' = wire /\ ~late'
    BY <1>2, <2>2, <2>3, Zenon
  <2> QED BY <1>2, <2>2, <2>4
<1>16. stream' = "open" /\ ~handshake' =>
          /\ ended' = 0 /\ ~late'
          /\ \/ wire' = <<Handshake>> /\ replies' = <<>>
             \/ wire' = <<>> /\ replies' = <<Handshake>>
  <2> SUFFICES ASSUME stream' = "open", ~handshake'
               PROVE  /\ ended' = 0 /\ ~late'
                      /\ \/ wire' = <<Handshake>> /\ replies' = <<>>
                         \/ wire' = <<>> /\ replies' = <<Handshake>>
    OBVIOUS
  <2>1. stream = "open" /\ ~handshake
    BY <1>2, <1>8
  <2>2. /\ ended = 0 /\ ~late
        /\ \/ wire = <<Handshake>> /\ replies = <<>>
           \/ wire = <<>> /\ replies = <<Handshake>>
    BY <2>1 DEF StreamInv
  <2>3. ~sends
    BY <2>1
  <2>4. wire' = wire /\ ~late'
    BY <1>2, <2>2, <2>3, Zenon
  <2> QED BY <1>1, <1>2, <2>1, <2>2, <2>4
<1>17. StreamInv'
  BY <1>8, <1>13, <1>14, <1>15, <1>16 DEF StreamInv
<1>18. InStep'
  <2> SUFFICES ASSUME handshake' PROVE AreInStep(replies', wire', ended', pipeline')
    BY DEF InStep
  <2>1. handshake /\ stream = "open"
    BY <1>2 DEF StreamInv
  <2>2. AreInStep(replies', wire, ended, p)
    BY <2>1
  <2>3. CASE ended # 0
    BY <1>1, <1>2, <1>6, <2>2, <2>3, EndedKeepsStep
  <2>4. CASE ended = 0 /\ sends
    BY <1>1, <1>2, <1>6, <1>9, <2>2, <2>4, FillKeepsStep DEF new
  <2>5. CASE ended = 0 /\ ~sends
    BY <1>2, <1>7, <2>1, <2>2, <2>5
  <2> QED BY <2>3, <2>4, <2>5
<1>19. ServerInv'
  BY <1>2 DEF ServerInv
<1> QED BY <1>11, <1>12, <1>17, <1>18, <1>19 DEF RemoteInv

-----------------------------------------------------------------------------
(***************************************************************************)
(* What handlers do to the disk and tell the app.                          *)
(***************************************************************************)

\* The empty queues satisfy the inductive invariant.
LEMMA InitIInv == Init => IInv
<1> SUFFICES ASSUME Init PROVE IInv
  OBVIOUS
<1>1. <<>> \in Seq(Batch) /\ <<>> \in Seq(Users) /\ <<>> \in Seq({Handshake} \cup Writes) /\ Len(<<>>) = 0
  BY EmptySeq
<1>2. \A u \in Users : disk[u] = <<>>
  BY DEF Init
<1>3. DataType
  BY <1>1, BoundsAreNumbers DEF Init, DataType, Outcomes
<1>4. DiskInv
  BY <1>1, <1>2, BoundsAreNumbers DEF Init, DiskInv, Sorted
<1>5. CallbacksMatch /\ ErrorsAreRefusals /\ ToldInv /\ StoredStays
  BY <1>1 DEF Init, CallbacksMatch, ErrorsAreRefusals, ToldInv, StoredStays, WQ!StoredStays
<1>6. RemoteType
  <2>1. handshake \in BOOLEAN /\ idle \in BOOLEAN /\ late \in BOOLEAN
    BY DEF Init
  <2> QED BY <1>1, <2>1, BoundsAreNumbers DEF Init, RemoteType, States
<1>7. NothingSkipped /\ StreamInv /\ InStep /\ ServerInv
  BY <1>1, <1>2 DEF Init, NothingSkipped, StreamInv, InStep, ServerInv
<1> QED BY <1>3, <1>4, <1>5, <1>6, <1>7 DEF IInv, DataInv, RemoteInv

\* A step of the connection alone leaves the data as it is.
LEMMA SameData ==
    ASSUME DataInv, UNCHANGED <<local, doc, history>>
    PROVE  DataInv'
<1>1. UNCHANGED <<user, disk, nextId, callbacks, doc, by, outcome, refused, overtaken>>
  BY DEF local, history
<1> QED BY <1>1 DEF DataInv, DataType, DiskInv, CallbacksMatch, ErrorsAreRefusals, ToldInv,
        StoredStays, WQ!StoredStays

\* The first batch of a pipeline is the first of the account's queue.
LEMMA FirstIs ==
    ASSUME IInv, pipeline # <<>>
    PROVE  /\ disk[user] \in Seq(Batch) /\ Sorted(disk[user]) /\ disk[user] # <<>>
           /\ 1 \in 1..Len(pipeline) /\ 1 \in 1..Len(disk[user])
           /\ Head(pipeline) = disk[user][1] /\ pipeline[1] = disk[user][1]
           /\ Head(pipeline) \in Batch
           /\ Without(disk[user], Head(pipeline).id) = Tail(disk[user])
           /\ Tail(disk[user]) \in Seq(Batch) /\ Sorted(Tail(disk[user]))
           /\ IsHead(Tail(pipeline), Tail(disk[user]))
           /\ Tail(pipeline) \in Seq(Batch) /\ Len(Tail(pipeline)) <= MaxPending
<1>1. disk[user] \in Seq(Batch) /\ Sorted(disk[user]) /\ pipeline \in Seq(Batch)
  BY DEF IInv, DataInv, DataType, DiskInv, RemoteInv, RemoteType
<1>2. Len(pipeline) \in Nat \ {0} /\ Len(pipeline) <= Len(disk[user]) /\ Len(disk[user]) \in Nat
  BY <1>1, EmptySeq DEF IInv, RemoteInv, NothingSkipped
<1>3. 1 \in 1..Len(pipeline) /\ 1 \in 1..Len(disk[user]) /\ disk[user] # <<>>
  BY <1>2, EmptySeq
<1>4. \A i \in 1..Len(pipeline) : pipeline[i] = disk[user][i]
  BY DEF IInv, RemoteInv, NothingSkipped
<1>5. Head(pipeline) = pipeline[1]
  BY <1>1
<1>6. disk[user][1] \in Batch
  BY <1>1, <1>3, BatchesOf
<1>7. Without(disk[user], disk[user][1].id) = Tail(disk[user])
  BY <1>1, <1>3, WithoutIs
<1>8. Tail(disk[user]) \in Seq(Batch) /\ Sorted(Tail(disk[user]))
  BY <1>1, <1>3, SortedTail, HeadTailProperties
<1>9. /\ Tail(pipeline) \in Seq(Batch) /\ Len(Tail(pipeline)) = Len(pipeline) - 1
      /\ \A i \in 1..Len(Tail(pipeline)) : Tail(pipeline)[i] = pipeline[i + 1]
      /\ Len(Tail(disk[user])) = Len(disk[user]) - 1
      /\ \A i \in 1..Len(Tail(disk[user])) : Tail(disk[user])[i] = disk[user][i + 1]
  BY <1>1, <1>3, HeadTailProperties
<1>10. Len(Tail(pipeline)) <= MaxPending
  <2>1. Len(pipeline) <= MaxPending /\ MaxPending \in Nat
    BY BoundsAreNumbers DEF IInv, RemoteInv, RemoteType
  <2> QED BY ONLY <1>2, <1>9, <2>1
<1>11. IsHead(Tail(pipeline), Tail(disk[user]))
  <2> DEFINE t == Tail(pipeline)
             d == Tail(disk[user])
  <2>1. /\ Len(t) = Len(pipeline) - 1 /\ \A i \in 1..Len(t) : t[i] = pipeline[i + 1]
        /\ Len(d) = Len(disk[user]) - 1 /\ \A i \in 1..Len(d) : d[i] = disk[user][i + 1]
    BY <1>9
  <2> HIDE DEF t, d
  <2>2. Len(t) <= Len(d)
    BY ONLY <1>2, <2>1
  <2>3. \A i \in 1..Len(t) : i \in 1..Len(d) /\ i + 1 \in 1..Len(pipeline)
    BY ONLY <1>2, <2>1
  <2>4. \A i \in 1..Len(t) : t[i] = d[i]
    BY <1>4, <2>1, <2>3
  <2> QED BY <2>2, <2>4 DEF IsHead, t, d
<1> QED BY <1>1, <1>3, <1>4, <1>5, <1>6, <1>7, <1>8, <1>9, <1>10, <1>11

\* A callback kept under the ID of the first batch is the one made for its write.
LEMMA CallbackIs ==
    ASSUME IInv, pipeline # <<>>, NEW c \in callbacks, c.user = user, c.id = Head(pipeline).id
    PROVE  c.write = Head(pipeline).write /\ outcome[c.write] = "none"
<1> DEFINE b == Head(pipeline)
<1>1. /\ disk[user] \in Seq(Batch) /\ Sorted(disk[user]) /\ 1 \in 1..Len(disk[user])
      /\ b = disk[user][1]
  BY FirstIs
<1>2. PICK i \in 1..Len(disk[user]) : disk[user][i] = [id |-> c.id, write |-> c.write]
  BY DEF IInv, DataInv, CallbacksMatch
<1> HIDE DEF b
<1>3. disk[user][i].id = disk[user][1].id /\ disk[user][i].write = c.write
  BY <1>1, <1>2 DEF b
<1>4. i = 1
  <2>1. disk[user][1].id \in Nat /\ Len(disk[user]) \in Nat
    BY <1>1, BatchesOf
  <2> QED BY <1>1, <1>3, <2>1 DEF Sorted
<1>5. outcome[c.write] = "none"
  BY DEF IInv, DataInv, CallbacksMatch
<1> QED BY <1>1, <1>3, <1>4, <1>5 DEF b

\* NotifyUser tells the app about the first batch's own write, and only if it waits.
LEMMA NotifyIs ==
    ASSUME IInv, pipeline # <<>>, NEW s \in {"ok", "error"}, NotifyUser(Head(pipeline), s)
    PROVE  /\ callbacks' \subseteq callbacks
           /\ \A c \in callbacks' : ~(c.user = user /\ c.id = Head(pipeline).id)
           /\ outcome' \in [Writes -> Outcomes]
           /\ \A w \in Writes : outcome'[w] # outcome[w] =>
                 w = Head(pipeline).write /\ outcome[w] = "none" /\ outcome'[w] = s
<1> DEFINE b == Head(pipeline)
           found == {c \in callbacks : c.user = user /\ c.id = b.id}
<1>2. ASSUME NEW c \in found PROVE c.write = b.write /\ outcome[c.write] = "none"
  BY CallbackIs
<1> HIDE DEF b
<1>3. /\ callbacks' = callbacks \ found
      /\ outcome' = [w \in Writes |-> IF \E c \in found : c.write = w THEN s ELSE outcome[w]]
  BY DEF NotifyUser, b
<1> HIDE DEF found
<1>4. \A w \in Writes : outcome[w] \in Outcomes
  BY DEF IInv, DataInv, DataType
<1>5. s \in Outcomes
  BY DEF Outcomes
<1>6. outcome' \in [Writes -> Outcomes]
  BY <1>3, <1>4, <1>5
<1>7. \A w \in Writes : outcome'[w] # outcome[w] =>
         w = b.write /\ outcome[w] = "none" /\ outcome'[w] = s
  BY <1>2, <1>3
<1>8. \A c \in callbacks' : ~(c.user = user /\ c.id = b.id)
  BY <1>3 DEF found
<1> QED BY <1>3, <1>6, <1>7, <1>8 DEF b

\* The oldest batch of the account is deleted and the app told how it ended.
LEMMA PopData ==
    ASSUME IInv, pipeline # <<>>, NEW s \in {"ok", "error"}, NotifyUser(Head(pipeline), s),
           disk' = [disk EXCEPT ![user] = Without(disk[user], Head(pipeline).id)],
           UNCHANGED <<user, nextId, doc, by, refused>>,
           overtaken \subseteq overtaken', overtaken' \subseteq Writes,
           s = "ok" => doc[user] >= Head(pipeline).write,
           s = "error" => Head(pipeline).write \in refused \cup overtaken'
    PROVE  DataInv' /\ disk'[user'] = Tail(disk[user])
<1> DEFINE q == disk[user]
           t == Tail(q)
           b == Head(pipeline)
<1>0. DataType /\ DiskInv /\ CallbacksMatch /\ ErrorsAreRefusals /\ ToldInv /\ StoredStays
  BY DEF IInv, DataInv
<1>1. /\ q \in Seq(Batch) /\ Sorted(q) /\ 1 \in 1..Len(q) /\ q # <<>> /\ b = q[1] /\ b \in Batch
      /\ t \in Seq(Batch) /\ Sorted(t)
      /\ Without(disk[user], b.id) = t
  BY FirstIs
<1>2. /\ Len(t) = Len(q) - 1 /\ Len(q) \in Nat
      /\ \A i \in 1..Len(t) : t[i] = q[i + 1]
  BY <1>1, HeadTailProperties
<1>3. \A i \in 1..Len(t) : i + 1 \in 1..Len(q)
  BY ONLY <1>2
<1>4. \A i \in 1..Len(q) : i = 1 \/ (i - 1 \in 1..Len(t) /\ t[i - 1] = q[i])
  <2>1. \A i \in 1..Len(q) : i = 1 \/ (i - 1 \in 1..Len(t) /\ (i - 1) + 1 = i)
    BY ONLY <1>2
  <2> QED BY <1>2, <2>1
<1> HIDE DEF b, t
<1>5. disk' = [disk EXCEPT ![user] = t] /\ user \in Users /\ disk \in [Users -> Seq(Batch)]
  BY <1>0, <1>1 DEF DataType, b
<1>6. disk'[user] = t /\ \A u \in Users : u # user => disk'[u] = disk[u]
  BY <1>5
<1>7. /\ callbacks' \subseteq callbacks
      /\ \A c \in callbacks' : ~(c.user = user /\ c.id = b.id)
      /\ outcome' \in [Writes -> Outcomes]
      /\ \A w \in Writes : outcome'[w] # outcome[w] =>
            w = b.write /\ outcome[w] = "none" /\ outcome'[w] = s
  BY NotifyIs DEF b
<1>8. disk' \in [Users -> Seq(Batch)]
  BY <1>1, <1>5
<1>9. DataType'
  BY <1>0, <1>7, <1>8 DEF DataType
<1>10. \A u \in Users : \A i \in 1..Len(disk'[u]) :
          \E j \in 1..Len(disk[u]) : disk'[u][i] = disk[u][j]
  <2>1. \A i \in 1..Len(t) : \E j \in 1..Len(q) : t[i] = q[j]
    BY <1>2, <1>3
  <2> QED BY <1>6, <2>1
<1>11. DiskInv'
  <2>1. \A u \in Users : Sorted(disk'[u])
    BY <1>0, <1>1, <1>6 DEF DiskInv
  <2>2. nextId' <= Len(by') + 1
    BY <1>0 DEF DiskInv
  <2>3. ASSUME NEW u \in Users, NEW i \in 1..Len(disk'[u])
        PROVE  disk'[u][i].id < nextId /\ disk'[u][i].write <= Len(by) /\ by[disk'[u][i].write] = u
    <3>1. PICK j \in 1..Len(disk[u]) : disk'[u][i] = disk[u][j]
      BY <1>10
    <3> QED BY <1>0, <3>1 DEF DiskInv
  <2> QED BY <2>1, <2>2, <2>3 DEF DiskInv
<1>12. b.write \in Writes /\ b.write \in Nat /\ by[b.write] = user /\ b.write <= Len(by)
  <2>1. b.write \in Writes
    BY <1>1 DEF Batch
  <2>2. Writes \subseteq Nat
    BY BoundsAreNumbers DEF Writes
  <2> QED BY <1>0, <1>1, <1>5, <2>1, <2>2 DEF DiskInv
<1>13. CallbacksMatch'
  <2> SUFFICES ASSUME NEW c \in callbacks'
               PROVE  /\ outcome'[c.write] = "none"
                      /\ \E i \in 1..Len(disk'[c.user]) :
                            disk'[c.user][i] = [id |-> c.id, write |-> c.write]
    BY DEF CallbacksMatch
  <2>1. c \in callbacks /\ c.user \in Users /\ c.write \in Writes
    BY <1>0, <1>7 DEF DataType, Callback
  <2>2. PICK i \in 1..Len(disk[c.user]) : disk[c.user][i] = [id |-> c.id, write |-> c.write]
    BY <1>0, <2>1 DEF CallbacksMatch
  <2>3. disk[c.user][i].id = c.id /\ disk[c.user][i].write = c.write
    BY <2>2
  <2>4. c.user = user => i # 1
    BY <1>1, <1>7, <2>3
  <2>5. c.write # b.write
    <3>1. CASE c.user = user
      <4>1. q[1].write \in Nat /\ q[1].write < q[i].write
        BY <1>1, <1>12, <2>2, <2>4, <3>1 DEF Sorted
      <4> QED BY <1>1, <1>12, <2>3, <3>1, <4>1
    <3>2. CASE c.user # user
      BY <1>0, <1>12, <2>1, <2>3, <3>2 DEF DiskInv
    <3> QED BY <3>1, <3>2
  <2>6. outcome'[c.write] = "none"
    BY <1>0, <1>7, <2>1, <2>5 DEF CallbacksMatch
  <2>7. \E j \in 1..Len(disk'[c.user]) : disk'[c.user][j] = disk[c.user][i]
    <3>1. CASE c.user = user
      BY <1>4, <1>6, <2>4, <3>1
    <3>2. CASE c.user # user
      BY <1>6, <2>1, <3>2
    <3> QED BY <3>1, <3>2
  <2> QED BY <2>2, <2>6, <2>7
<1>14. ErrorsAreRefusals'
  BY <1>0, <1>7 DEF ErrorsAreRefusals, b
<1>15. ToldInv'
  <2> SUFFICES ASSUME NEW w \in Writes, outcome'[w] # "none"
               PROVE  /\ w <= Len(by)
                      /\ outcome'[w] = "ok" =>
                            \A i \in 1..Len(disk'[by[w]]) : disk'[by[w]][i].write >= w
    BY DEF ToldInv
  <2>1. CASE outcome'[w] = outcome[w]
    <3>1. w <= Len(by) /\ by[w] \in Users
      <4>1. w <= Len(by)
        BY <1>0, <2>1 DEF ToldInv
      <4>2. w \in 1..Len(by) /\ by \in Seq(Users)
        BY <1>0, <4>1, BoundsAreNumbers DEF Writes, DataType
      <4> QED BY <4>1, <4>2, ElementOfSeq
    <3> QED BY <1>0, <1>10, <2>1, <3>1 DEF ToldInv
  <2>2. CASE w = b.write
    <3>1. \A i \in 1..Len(t) : t[i].write >= b.write
      <4>1. \A i \in 1..Len(t) : q[1].write < q[i + 1].write
        <5>1. \A i \in 1..Len(t) : 1 < i + 1
          <6> DEFINE n == Len(t)
          <6>1. n \in Nat
            BY <1>2
          <6> HIDE DEF n
          <6>2. \A i \in 1..n : 1 < i + 1
            BY ONLY <6>1
          <6> QED BY <6>2 DEF n
        <5> QED BY <1>1, <1>3, <5>1 DEF Sorted
      <4>2. \A i \in 1..Len(t) : q[i + 1].write \in Nat
        BY <1>1, <1>3, BatchesOf
      <4>3. \A i \in 1..Len(t) : t[i].write = q[i + 1].write
        BY <1>2
      <4>4. b.write \in Nat /\ b.write = q[1].write
        BY <1>1, <1>12
      <4> QED BY <4>1, <4>2, <4>3, <4>4, SMTT(30)
    <3> QED BY <1>6, <1>12, <2>2, <3>1
  <2> QED BY <1>7, <2>1, <2>2
<1>16. StoredStays'
  <2> SUFFICES ASSUME NEW w \in 1..Len(by), outcome'[w] = "ok"
               PROVE  doc[by[w]] >= w
    BY DEF StoredStays, WQ!StoredStays
  <2>1. w \in Writes
    BY <1>0, BoundsAreNumbers DEF DataType, Writes
  <2>2. CASE outcome'[w] = outcome[w]
    BY <1>0, <2>2 DEF StoredStays, WQ!StoredStays
  <2>3. CASE w = b.write /\ s = "ok"
    BY <1>12, <2>3 DEF b
  <2> QED BY <1>7, <2>1, <2>2, <2>3
<1> QED BY <1>6, <1>9, <1>11, <1>13, <1>14, <1>15, <1>16 DEF DataInv, t

-----------------------------------------------------------------------------
(***************************************************************************)
(* Every handler preserves the inductive invariant.                        *)
(***************************************************************************)

\* A new write gets the highest ID and number, behind all that are queued.
LEMMA WriteMutationsIInv ==
    ASSUME IInv, WriteMutations
    PROVE  IInv'
<1> DEFINE n == Len(by) + 1
           b == [id |-> nextId, write |-> n]
           q == disk[user]
           a == Append(q, b)
           c0 == [user |-> user, id |-> nextId, write |-> n]
<1>0. /\ DataType /\ DiskInv /\ CallbacksMatch /\ ErrorsAreRefusals /\ ToldInv /\ StoredStays
      /\ RemoteType /\ NothingSkipped /\ StreamInv /\ InStep /\ ServerInv
  BY DEF IInv, DataInv, RemoteInv
<1>1. /\ by' = Append(by, user) /\ disk' = [disk EXCEPT ![user] = a]
      /\ callbacks' = callbacks \cup {c0}
      /\ FillWritePipeline(a, pipeline)
      /\ nextId' = nextId + 1
      /\ UNCHANGED <<user, replies, doc, outcome, refused, overtaken>>
      /\ Len(by) < MaxWrites
  BY DEF WriteMutations
<1>2. Len(by) \in Nat /\ n \in Writes /\ nextId \in Nat /\ nextId \in Writes /\ nextId + 1 \in 1..(MaxWrites + 1)
      /\ Writes \subseteq Nat /\ MaxWrites \in Nat
  <2>1. Len(by) \in Nat /\ Len(by) < MaxWrites /\ nextId \in 1..(MaxWrites + 1) /\ nextId <= Len(by) + 1
    BY <1>0, <1>1 DEF DataType, DiskInv
  <2>2. MaxWrites \in Nat
    BY BoundsAreNumbers
  <2> QED BY ONLY <2>1, <2>2 DEF Writes
<1>3. b \in Batch /\ b.id = nextId /\ b.write = n /\ user \in Users /\ q \in Seq(Batch) /\ Sorted(q)
  BY <1>0, <1>2 DEF Batch, DataType, DiskInv
<1>4. /\ a \in Seq(Batch) /\ Len(a) = Len(q) + 1 /\ Len(q) \in Nat /\ a # <<>>
      /\ \A i \in 1..Len(q) : a[i] = q[i]
      /\ a[Len(q) + 1] = b
  BY <1>3, AppendProperties
<1>5. /\ by' \in Seq(Users) /\ Len(by') = n
      /\ \A w \in 1..Len(by) : by'[w] = by[w]
      /\ by'[n] = user
  BY <1>0, <1>1, <1>3, AppendProperties DEF DataType
<1>6. \A i \in 1..Len(q) : q[i].id < b.id /\ q[i].write < b.write
  <2>1. \A i \in 1..Len(q) : q[i].id < nextId /\ q[i].write <= Len(by) /\ q[i].write \in Nat
    BY <1>0, <1>3, BatchesOf DEF DiskInv
  <2> QED BY <1>2, <1>3, <2>1
<1>7. Sorted(a)
  BY <1>3, <1>6, SortedAppend
<1> HIDE DEF a, b, n
<1>8. disk'[user] = a /\ \A u \in Users : u # user => disk'[u] = disk[u]
  BY <1>0, <1>1 DEF DataType
<1>9. \A i \in 1..Len(a) : i \in 1..Len(q) \/ i = Len(q) + 1
  BY ONLY <1>4
<1>10. \A i \in 1..Len(q) : i \in 1..Len(a)
  BY ONLY <1>4
<1>11. Len(q) + 1 \in 1..Len(a)
  BY ONLY <1>4
<1>12. \A u \in Users : \A i \in 1..Len(disk'[u]) :
          \/ i \in 1..Len(disk[u]) /\ disk'[u][i] = disk[u][i]
          \/ u = user /\ disk'[u][i] = b
  BY <1>4, <1>8, <1>9
<1>13. DataType'
  <2>1. c0 \in Callback
    BY <1>2, <1>3 DEF Callback
  <2>2. Len(by') <= MaxWrites
    BY <1>1, <1>2, <1>5 DEF n
  <2>3. disk' \in [Users -> Seq(Batch)]
    BY <1>0, <1>1, <1>4 DEF DataType
  <2>4. callbacks' \subseteq Callback
    BY <1>0, <1>1, <2>1 DEF DataType
  <2> QED BY <1>0, <1>1, <1>2, <1>5, <2>2, <2>3, <2>4 DEF DataType
<1>14. DiskInv'
  <2>1. nextId' <= Len(by') + 1
    <3>1. nextId <= Len(by) + 1
      BY <1>0 DEF DiskInv
    <3> QED BY <1>1, <1>2, <1>5, <3>1 DEF n
  <2>2. ASSUME NEW u \in Users, NEW i \in 1..Len(disk'[u])
        PROVE  /\ disk'[u][i].id < nextId' /\ disk'[u][i].write <= Len(by')
               /\ by'[disk'[u][i].write] = u
    <3>1. CASE i \in 1..Len(disk[u]) /\ disk'[u][i] = disk[u][i]
      <4>1. disk[u][i].id < nextId /\ disk[u][i].write <= Len(by) /\ by[disk[u][i].write] = u
        BY <1>0, <3>1 DEF DiskInv
      <4>2. disk[u][i].id \in Nat /\ disk[u][i].write \in Writes
        BY <1>0, <3>1, BatchesOf DEF DataType
      <4>3. disk[u][i].write \in 1..Len(by)
        BY <1>2, <4>1, <4>2 DEF Writes
      <4>4. disk'[u][i].id < nextId' /\ disk'[u][i].write <= Len(by')
        BY <1>1, <1>2, <1>5, <3>1, <4>1, <4>2, <4>3, SMTT(30) DEF n
      <4> QED BY <1>5, <3>1, <4>1, <4>3, <4>4
    <3>2. CASE u = user /\ disk'[u][i] = b
      BY <1>1, <1>2, <1>3, <1>5, <3>2, SMTT(30) DEF n
    <3> QED BY <1>12, <3>1, <3>2
  <2>3. \A u \in Users : Sorted(disk'[u])
    BY <1>0, <1>7, <1>8 DEF DiskInv
  <2> QED BY <2>1, <2>2, <2>3 DEF DiskInv
<1>15. outcome[n] = "none"
  <2>1. ~(n <= Len(by))
    BY <1>2 DEF n
  <2> QED BY <1>0, <1>2, <2>1 DEF ToldInv
<1>16. CallbacksMatch'
  <2> SUFFICES ASSUME NEW c \in callbacks'
               PROVE  /\ outcome[c.write] = "none"
                      /\ \E i \in 1..Len(disk'[c.user]) :
                            disk'[c.user][i] = [id |-> c.id, write |-> c.write]
    BY <1>1 DEF CallbacksMatch
  <2>1. CASE c \in callbacks
    <3>1. c.user \in Users
      BY <1>0, <2>1 DEF DataType, Callback
    <3>2. PICK i \in 1..Len(disk[c.user]) : disk[c.user][i] = [id |-> c.id, write |-> c.write]
      BY <1>0, <2>1 DEF CallbacksMatch
    <3>3. i \in 1..Len(disk'[c.user]) /\ disk'[c.user][i] = disk[c.user][i]
      BY <1>4, <1>8, <1>10, <3>1, <3>2
    <3>4. outcome[c.write] = "none"
      BY <1>0, <2>1 DEF CallbacksMatch
    <3> QED BY <3>2, <3>3, <3>4
  <2>2. CASE c = c0
    <3>1. c.user = user /\ c.id = nextId /\ c.write = n
      BY <2>2
    <3>2. b = [id |-> c.id, write |-> c.write]
      BY <3>1 DEF b
    <3> QED BY <1>4, <1>8, <1>11, <1>15, <3>1, <3>2
  <2> QED BY <1>1, <2>1, <2>2
<1>17. ErrorsAreRefusals'
  BY <1>0, <1>1 DEF ErrorsAreRefusals
<1>18. \A w \in Writes : outcome[w] # "none" => w \in 1..Len(by) /\ by'[w] = by[w]
  <2>1. \A w \in Writes : outcome[w] # "none" => w \in 1..Len(by)
    BY <1>0, <1>2 DEF ToldInv, Writes
  <2> QED BY <1>5, <2>1
<1>19. ToldInv'
  <2> SUFFICES ASSUME NEW w \in Writes, outcome[w] # "none"
               PROVE  /\ w <= Len(by')
                      /\ outcome[w] = "ok" =>
                            \A i \in 1..Len(disk'[by[w]]) : disk'[by[w]][i].write >= w
    BY <1>1, <1>18 DEF ToldInv
  <2>1. w \in 1..Len(by) /\ w <= n
    BY <1>2, <1>18 DEF n
  <2>2. by[w] \in Users
    BY <1>0, <2>1, ElementOfSeq DEF DataType
  <2>3. ASSUME outcome[w] = "ok", NEW i \in 1..Len(disk'[by[w]])
        PROVE  disk'[by[w]][i].write >= w
    <3>1. CASE i \in 1..Len(disk[by[w]]) /\ disk'[by[w]][i] = disk[by[w]][i]
      BY <1>0, <2>3, <3>1 DEF ToldInv
    <3>2. CASE disk'[by[w]][i] = b
      BY <1>2, <1>3, <2>1, <3>2
    <3> QED BY <1>12, <2>2, <3>1, <3>2
  <2> QED BY <1>5, <2>1, <2>3
<1>20. StoredStays'
  <2> SUFFICES ASSUME NEW w \in 1..Len(by'), outcome[w] = "ok"
               PROVE  doc[by'[w]] >= w
    BY <1>1 DEF StoredStays, WQ!StoredStays
  <2>1. w \in Writes
    BY <1>2, <1>5 DEF Writes
  <2> QED BY <1>0, <1>18, <2>1 DEF StoredStays, WQ!StoredStays
<1>21. IsHead(pipeline, a)
  <2>1. Len(pipeline) <= Len(a)
    <3>1. Len(pipeline) <= Len(q) /\ Len(pipeline) \in Nat
      BY <1>0 DEF NothingSkipped, RemoteType
    <3> QED BY ONLY <1>4, <3>1
  <2>2. \A i \in 1..Len(pipeline) : i \in 1..Len(q) /\ pipeline[i] = q[i]
    BY <1>0, <1>4 DEF NothingSkipped, RemoteType
  <2> QED BY <1>4, <2>1, <2>2 DEF IsHead
<1>22. RemoteInv'
  <2>1. /\ pipeline \in Seq(Batch) /\ Len(pipeline) <= MaxPending
        /\ replies' \in Seq({Handshake} \cup Writes)
    BY <1>0, <1>1 DEF RemoteType
  <2>2. handshake \in BOOLEAN
    BY <1>0 DEF RemoteType
  <2>3. idle => pipeline = <<>>
    BY <1>0 DEF StreamInv
  <2>4. handshake => AreInStep(replies', wire, ended, pipeline)
    BY <1>0, <1>1 DEF InStep
  <2>5. /\ handshake /\ replies' # <<>> => doc'[user'] = replies'[Len(replies')]
        /\ ended # 0 => ended \in refused'
    BY <1>0, <1>1 DEF ServerInv
  <2>6. a = disk'[user']
    BY <1>1, <1>8
  <2> QED BY <1>0, <1>1, <1>4, <1>7, <1>21, <2>1, <2>2, <2>3, <2>4, <2>5, <2>6, FillPipelineIs
<1> QED
  BY <1>13, <1>14, <1>16, <1>17, <1>19, <1>20, <1>22 DEF IInv, DataInv

\* While an answer is out, the document is at least as new as the first write of the
\* pipeline.
LEMMA AnswerIs ==
    ASSUME IInv, replies # <<>>, handshake
    PROVE  /\ pipeline # <<>>
           /\ doc[user] >= Head(pipeline).write
<1>0. RemoteType /\ NothingSkipped /\ InStep /\ ServerInv
  BY DEF IInv, RemoteInv
<1>1. /\ replies \in Seq({Handshake} \cup Writes) /\ wire \in Seq({Handshake} \cup Writes)
      /\ pipeline \in Seq(Batch) /\ AreInStep(replies, wire, ended, pipeline)
  BY <1>0 DEF RemoteType, InStep
<1>2. pipeline # <<>>
  BY <1>1, PopKeepsStep
<1> DEFINE b == Head(pipeline)
<1>3. /\ disk[user] \in Seq(Batch) /\ Sorted(disk[user]) /\ b = disk[user][1]
      /\ 1 \in 1..Len(disk[user])
  BY <1>2, FirstIs
<1> HIDE DEF b
<1>4. doc[user] >= b.write
  <2>1. doc[user] = replies[Len(replies)]
    BY <1>0 DEF ServerInv
  <2>2. Len(replies) \in Nat \ {0} /\ Len(pipeline) \in Nat /\ Len(disk[user]) \in Nat
    BY <1>1, <1>3, EmptySeq
  <2>3. Len(replies) <= Len(pipeline) /\ Len(pipeline) <= Len(disk[user])
    <3>1. Len(replies) + Len(wire) <= Len(pipeline) /\ Len(wire) \in Nat
      BY <1>1 DEF AreInStep
    <3>2. Len(replies) <= Len(pipeline)
      BY ONLY <2>2, <3>1
    <3> QED BY <1>0, <3>2 DEF NothingSkipped
  <2>4. /\ Len(replies) \in 1..Len(replies) /\ Len(replies) \in 1..Len(pipeline)
        /\ Len(replies) \in 1..Len(disk[user])
    BY ONLY <2>2, <2>3
  <2>5. doc[user] = disk[user][Len(replies)].write
    <3>1. replies[Len(replies)] = pipeline[Len(replies)].write
      BY <1>1, <2>4 DEF AreInStep
    <3>2. pipeline[Len(replies)] = disk[user][Len(replies)]
      BY <1>0, <2>4 DEF NothingSkipped
    <3> QED BY <2>1, <3>1, <3>2
  <2>6. disk[user][Len(replies)].write \in Nat /\ b.write \in Nat
    BY <1>3, <2>4, BatchesOf
  <2>7. CASE Len(replies) = 1
    BY <1>3, <2>5, <2>6, <2>7
  <2>8. CASE 1 < Len(replies)
    <3>1. b.write < disk[user][Len(replies)].write
      BY <1>3, <2>4, <2>8 DEF Sorted
    <3> QED BY <2>5, <2>6, <3>1
  <2>9. Len(replies) = 1 \/ 1 < Len(replies)
    <3>1. \A n \in Nat \ {0} : n = 1 \/ 1 < n
      OBVIOUS
    <3> QED BY ONLY <2>2, <3>1, Zenon
  <2> QED BY <2>7, <2>8, <2>9
<1> QED BY <1>2, <1>4 DEF b

\* An answer: it is about the first write of the pipeline, which the server has stored.
LEMMA MutationResultIInv ==
    ASSUME IInv, OnWriteStreamMutationResult
    PROVE  IInv' /\ disk'[user'] = Tail(disk[user])
<1>0. /\ RemoteType /\ NothingSkipped /\ StreamInv /\ InStep /\ ServerInv
  BY DEF IInv, RemoteInv
<1> DEFINE b == Head(pipeline)
           q == Without(disk[user], b.id)
           p == Tail(pipeline)
<1>1. /\ replies # <<>> /\ handshake /\ replies' = Tail(replies)
      /\ NotifyUser(b, "ok") /\ disk' = [disk EXCEPT ![user] = q]
      /\ FillWritePipeline(q, p)
      /\ UNCHANGED <<user, nextId, doc, by, refused, overtaken>>
  BY DEF OnWriteStreamMutationResult
<1>2. /\ replies \in Seq({Handshake} \cup Writes) /\ wire \in Seq({Handshake} \cup Writes)
      /\ pipeline \in Seq(Batch) /\ AreInStep(replies, wire, ended, pipeline)
  BY <1>0, <1>1 DEF RemoteType, InStep
<1>3. AreInStep(Tail(replies), wire, ended, Tail(pipeline)) /\ pipeline # <<>> /\ replies[1] = pipeline[1].write
  BY <1>1, <1>2, PopKeepsStep
<1>4. /\ disk[user] \in Seq(Batch) /\ Sorted(disk[user]) /\ b = disk[user][1] /\ b = pipeline[1] /\ b \in Batch
      /\ q = Tail(disk[user]) /\ q \in Seq(Batch) /\ Sorted(q)
      /\ p \in Seq(Batch) /\ IsHead(p, q) /\ Len(p) <= MaxPending
  BY <1>3, FirstIs
<1>5. /\ Tail(replies) \in Seq({Handshake} \cup Writes) /\ Len(Tail(replies)) = Len(replies) - 1
      /\ \A i \in 1..Len(Tail(replies)) : Tail(replies)[i] = replies[i + 1]
      /\ Len(replies) \in Nat \ {0}
  BY <1>1, <1>2, HeadTailProperties, EmptySeq
<1>6. doc[user] >= b.write
  BY <1>1, AnswerIs
<1> HIDE DEF b, q, p
<1>7. DataInv' /\ disk'[user'] = Tail(disk[user])
  <2>1. overtaken' \subseteq Writes /\ overtaken \subseteq overtaken'
    BY <1>1 DEF IInv, DataInv, DataType
  <2> QED BY <1>1, <1>3, <1>6, <2>1, PopData DEF b, q
<1>8. handshake /\ replies' # <<>> => doc'[user'] = replies'[Len(replies')]
  <2> SUFFICES ASSUME replies' # <<>> PROVE doc[user] = replies'[Len(replies')]
    BY <1>1
  <2>1. Len(Tail(replies)) \in Nat \ {0}
    BY <1>1, <1>5, EmptySeq
  <2>2. Len(Tail(replies)) \in 1..Len(Tail(replies)) /\ Len(Tail(replies)) + 1 = Len(replies)
    BY ONLY <1>5, <2>1
  <2>3. Tail(replies)[Len(Tail(replies))] = replies[Len(replies)]
    BY <1>5, <2>2
  <2> QED BY <1>0, <1>1, <2>3 DEF ServerInv
<1>9. RemoteInv'
  <2>1. idle => p = <<>>
    BY <1>0, <1>3 DEF StreamInv
  <2>2. handshake \in BOOLEAN
    BY <1>0 DEF RemoteType
  <2>3. ended # 0 => ended \in refused'
    BY <1>0, <1>1 DEF ServerInv
  <2>4. q = disk'[user']
    BY <1>4, <1>7
  <2>5. replies' \in Seq({Handshake} \cup Writes) /\ AreInStep(replies', wire, ended, p)
    BY <1>1, <1>3, <1>5 DEF p
  <2> QED BY <1>0, <1>1, <1>4, <1>8, <2>1, <2>2, <2>3, <2>4, <2>5, FillPipelineIs
<1> QED BY <1>7, <1>9 DEF IInv

\* A refusal is blamed on the first write of the pipeline: the refused one, or one
\* whose answer it has overtaken.
LEMMA HandleWriteErrorIInv ==
    ASSUME IInv, HandleWriteError
    PROVE  IInv' /\ disk'[user'] = Tail(disk[user]) /\ handshake /\ pipeline # <<>>
<1>0. /\ RemoteType /\ NothingSkipped /\ StreamInv /\ InStep /\ ServerInv
  BY DEF IInv, RemoteInv
<1> DEFINE b == Head(pipeline)
           q == Without(disk[user], b.id)
           p == Tail(pipeline)
           f == Fill(q, p)
<1>1. /\ ended # 0 /\ CloseStream
      /\ NotifyUser(b, "error") /\ disk' = [disk EXCEPT ![user] = q]
      /\ pipeline' = f /\ StartIfNeeded("initial", f, Invalidated(tokens))
      /\ overtaken' = overtaken \cup {replies[i] : i \in 1..Len(replies)}
      /\ UNCHANGED <<user, nextId, doc, by, refused>>
  BY DEF HandleWriteError
<1>2. handshake
  BY <1>0, <1>1 DEF StreamInv
<1>3. /\ replies \in Seq({Handshake} \cup Writes) /\ pipeline \in Seq(Batch)
      /\ AreInStep(replies, wire, ended, pipeline)
  BY <1>0, <1>2 DEF RemoteType, InStep
<1>4. Len(replies) \in Nat /\ Len(pipeline) \in Nat /\ Len(replies) < Len(pipeline)
  BY <1>1, <1>3 DEF AreInStep
<1>5. pipeline # <<>>
  BY <1>4, EmptySeq
<1>6. /\ disk[user] \in Seq(Batch) /\ b = pipeline[1] /\ b \in Batch
      /\ q = Tail(disk[user]) /\ q \in Seq(Batch) /\ Sorted(q)
      /\ p \in Seq(Batch) /\ IsHead(p, q) /\ Len(p) <= MaxPending
  BY <1>5, FirstIs
<1>7. \A i \in 1..Len(replies) : replies[i] \in Writes
  <2>1. \A i \in 1..Len(replies) : i \in 1..Len(pipeline)
    BY ONLY <1>4
  <2>2. \A i \in 1..Len(replies) : replies[i] = pipeline[i].write
    BY <1>3 DEF AreInStep
  <2> QED BY <1>3, <2>1, <2>2, BatchesOf
<1>8. b.write \in refused \cup overtaken'
  <2>1. CASE Len(replies) = 0
    <3>1. ended = pipeline[Len(replies) + 1].write
      BY <1>1, <1>3 DEF AreInStep
    <3>2. Len(replies) + 1 = 1
      BY <2>1
    <3>3. ended = b.write
      BY <1>6, <3>1, <3>2
    <3> QED BY <1>0, <1>1, <3>3 DEF ServerInv
  <2>2. CASE Len(replies) # 0
    <3>1. 1 \in 1..Len(replies)
      BY ONLY <1>4, <2>2
    <3>2. replies[1] = b.write
      BY <1>3, <1>6, <3>1 DEF AreInStep
    <3> QED BY <1>1, <3>1, <3>2
  <2> QED BY <2>1, <2>2
<1> HIDE DEF b, q, p
<1>9. DataInv' /\ disk'[user'] = Tail(disk[user])
  <2>1. overtaken' \subseteq Writes /\ overtaken \subseteq overtaken'
    BY <1>1, <1>7 DEF IInv, DataInv, DataType
  <2> QED BY <1>1, <1>5, <1>8, <2>1, PopData DEF b, q
<1>10. f \in Seq(Batch) /\ Len(f) <= MaxPending /\ IsHead(f, q)
  BY <1>6, FillIs
<1>11. /\ stream' \in States /\ tokens' \subseteq {"current", "old"}
       /\ "current" \in tokens' => stream' = "starting"
       /\ stream' # "open"
  <2>1. "initial" \in States /\ Invalidated(tokens) \in SUBSET {"current", "old"}
        /\ "current" \notin Invalidated(tokens)
    BY DEF States, Invalidated
  <2> QED BY <1>1, <2>1, StartIs
<1>12. (RemoteType /\ StreamInv /\ InStep /\ ServerInv)'
  BY <1>1, <1>10, <1>11, ClosedIs
<1>13. NothingSkipped'
  BY <1>1, <1>6, <1>9, <1>10 DEF NothingSkipped, IsHead
<1> QED BY <1>2, <1>5, <1>9, <1>12, <1>13 DEF IInv, RemoteInv

\* Losing the connection, or stopping an idle one, leaves pipeline and disk alone.
LEMMA CloseIInv ==
    ASSUME IInv, CredentialsFail \/ OnStreamLost \/ IdleTimeout
    PROVE  IInv'
<1>0. /\ RemoteType /\ NothingSkipped
  BY DEF IInv, RemoteInv
<1>1. CloseStream /\ pipeline' = pipeline /\ UNCHANGED <<local, doc, history>>
  BY DEF CredentialsFail, OnStreamLost, IdleTimeout, CloseWithError
<1>2. /\ stream' \in States /\ tokens' \subseteq {"current", "old"}
      /\ "current" \in tokens' => stream' = "starting"
      /\ stream' # "open"
  <2>1. CASE CredentialsFail \/ OnStreamLost
    <3>1. PICK ts \in SUBSET {"current", "old"} : "current" \notin ts /\ StartIfNeeded("error", pipeline, ts)
      BY <1>0, <2>1 DEF CredentialsFail, OnStreamLost, CloseWithError, Invalidated, RemoteType
    <3>2. "error" \in States
      BY DEF States
    <3> QED BY <3>1, <3>2, StartIs
  <2>2. CASE IdleTimeout
    BY <2>2 DEF IdleTimeout, Invalidated, States
  <2> QED BY <2>1, <2>2
<1>3. (RemoteType /\ StreamInv /\ InStep /\ ServerInv)'
  BY <1>0, <1>1, <1>2, ClosedIs DEF RemoteType
<1>4. NothingSkipped'
  BY <1>0, <1>1 DEF NothingSkipped, local
<1>5. DataInv'
  BY <1>1, SameData DEF IInv
<1> QED BY <1>3, <1>4, <1>5 DEF IInv, RemoteInv

\* IDs given after a change of account or a restart are higher than all on disk, and
\* not higher than before.
LEMMA NextIdIs ==
    ASSUME DataType, DiskInv, NEW n \in 1..(MaxWrites + 1), IsNextId(n, disk)
    PROVE  /\ n <= Len(by) + 1
           /\ \A u \in Users : \A i \in 1..Len(disk[u]) : disk[u][i].id < n
<1>1. Len(by) \in Nat /\ nextId \in Nat /\ nextId <= Len(by) + 1 /\ n \in Nat
  BY BoundsAreNumbers DEF DataType, DiskInv
<1>2. CASE n = 1
  BY <1>1, <1>2 DEF IsNextId
<1>3. CASE \E u \in Users : \E i \in 1..Len(disk[u]) : disk[u][i].id = n - 1
  <2>1. n - 1 < nextId
    BY <1>3 DEF DiskInv
  <2>2. n <= Len(by) + 1
    BY ONLY <1>1, <2>1
  <2> QED BY <2>2 DEF IsNextId
<1> QED BY <1>2, <1>3 DEF IsNextId

\* The network is restarted, for the same account or another one, in the same run of
\* the app or the next: the pipeline is filled again from the disk.
LEMMA RestartIInv ==
    ASSUME IInv, ConnectivityChange \/ (\E u \in Users : UserChange(u)) \/ Kill
    PROVE  IInv'
<1>0. DataType /\ DiskInv /\ CallbacksMatch /\ ErrorsAreRefusals /\ ToldInv /\ StoredStays
  BY DEF IInv, DataInv
<1>1. user' \in Users /\ UNCHANGED <<disk, doc, by, outcome, refused, overtaken>>
  BY <1>0 DEF ConnectivityChange, UserChange, Kill, Restart, local, history, DataType
<1>2. PICK ts \in SUBSET {"old"} : RestartNetwork(disk[user'], ts)
  BY DEF ConnectivityChange, UserChange, Kill, Restart, Invalidated, local
<1>3. RemoteInv'
  BY <1>0, <1>1, <1>2, RestartIs DEF DataType, DiskInv
<1>4. callbacks' \subseteq callbacks
  BY DEF ConnectivityChange, UserChange, Kill, Restart, local
<1>5. /\ nextId' \in 1..(MaxWrites + 1) /\ nextId' <= Len(by) + 1
      /\ \A u \in Users : \A i \in 1..Len(disk[u]) : disk[u][i].id < nextId'
  <2>1. CASE ConnectivityChange
    BY <1>0, <2>1 DEF ConnectivityChange, local, DataType, DiskInv
  <2>2. CASE ~ConnectivityChange
    <3>1. PICK n \in 1..(MaxWrites + 1) : IsNextId(n, disk) /\ nextId' = n
      BY <2>2 DEF UserChange, Kill, Restart
    <3> QED BY <1>0, <3>1, NextIdIs
  <2> QED BY <2>1, <2>2
<1>6. DataType' /\ DiskInv'
  BY <1>0, <1>1, <1>4, <1>5 DEF DataType, DiskInv
<1>7. CallbacksMatch' /\ ErrorsAreRefusals' /\ ToldInv' /\ StoredStays'
  BY <1>0, <1>1, <1>4 DEF CallbacksMatch, ErrorsAreRefusals, ToldInv, StoredStays, WQ!StoredStays
<1> QED BY <1>3, <1>6, <1>7 DEF IInv, DataInv

\* The app dies after a callback and before the batch is deleted: what the app was told
\* is true, although the write is sent again.
LEMMA KillAcknowledgingIInv ==
    ASSUME IInv, KillAcknowledging
    PROVE  IInv'
<1>0. DataType /\ DiskInv /\ CallbacksMatch /\ ErrorsAreRefusals /\ ToldInv /\ StoredStays
  BY DEF IInv, DataInv
<1> DEFINE b == Head(pipeline)
<1>1. /\ replies # <<>> /\ handshake /\ callbacks' = {}
      /\ RestartNetwork(disk[user], {})
      /\ UNCHANGED <<user, disk, doc, by, refused, overtaken>>
  BY DEF KillAcknowledging, Restart
<1>2. pipeline # <<>> /\ doc[user] >= b.write
  BY <1>1, AnswerIs
<1>3. /\ disk[user] \in Seq(Batch) /\ Sorted(disk[user]) /\ b = disk[user][1]
      /\ 1 \in 1..Len(disk[user]) /\ b \in Batch
  BY <1>2, FirstIs
<1>4. outcome' = [outcome EXCEPT ![b.write] = "ok"]
  BY <1>2, CallbackIs DEF KillAcknowledging
<1> HIDE DEF b
<1>5. user \in Users /\ b.write \in Writes /\ b.write \in Nat /\ by[b.write] = user /\ b.write <= Len(by)
  BY <1>0, <1>3, BatchesOf DEF DataType, DiskInv
<1>6. outcome'[b.write] = "ok" /\ \A w \in Writes : w # b.write => outcome'[w] = outcome[w]
  BY <1>0, <1>4, <1>5 DEF DataType
<1>7. RemoteInv'
  BY <1>1, <1>3, RestartIs
<1>8. DataType' /\ DiskInv'
  <2>1. PICK n \in 1..(MaxWrites + 1) : IsNextId(n, disk) /\ nextId' = n
    BY DEF KillAcknowledging, Restart
  <2>2. /\ nextId' \in 1..(MaxWrites + 1) /\ nextId' <= Len(by) + 1
        /\ \A u \in Users : \A i \in 1..Len(disk[u]) : disk[u][i].id < nextId'
    BY <1>0, <2>1, NextIdIs
  <2>3. outcome' \in [Writes -> Outcomes]
    BY <1>0, <1>4 DEF DataType, Outcomes
  <2> QED BY <1>0, <1>1, <2>2, <2>3 DEF DataType, DiskInv
<1>9. CallbacksMatch' /\ ErrorsAreRefusals'
  BY <1>0, <1>1, <1>6 DEF CallbacksMatch, ErrorsAreRefusals
<1>10. ToldInv'
  <2>1. \A i \in 1..Len(disk[user]) : disk[user][i].write >= b.write
    <3>1. \A i \in 1..Len(disk[user]) : disk[user][i].write \in Nat /\ i \in Nat
      BY <1>3, BatchesOf
    <3>2. \A i \in 1..Len(disk[user]) : i = 1 \/ 1 < i
      BY <1>3
    <3> QED BY <1>3, <1>5, <3>1, <3>2 DEF Sorted
  <2>2. ASSUME NEW w \in Writes, outcome'[w] # "none"
        PROVE  /\ w <= Len(by)
               /\ outcome'[w] = "ok" =>
                     \A i \in 1..Len(disk[by[w]]) : disk[by[w]][i].write >= w
    <3>1. CASE w = b.write
      BY <1>5, <2>1, <3>1
    <3>2. CASE w # b.write
      BY <1>0, <1>6, <2>2, <3>2 DEF ToldInv
    <3> QED BY <3>1, <3>2
  <2> QED BY <1>1, <2>2 DEF ToldInv
<1>11. StoredStays'
  <2> SUFFICES ASSUME NEW w \in 1..Len(by), outcome'[w] = "ok"
               PROVE  doc[by[w]] >= w
    BY <1>1 DEF StoredStays, WQ!StoredStays
  <2>1. w \in Writes
    BY <1>0, BoundsAreNumbers DEF DataType, Writes
  <2>2. CASE w = b.write
    BY <1>2, <1>5, <2>2 DEF b
  <2>3. CASE w # b.write
    BY <1>0, <1>6, <2>1, <2>3 DEF StoredStays, WQ!StoredStays
  <2> QED BY <2>2, <2>3
<1> QED BY <1>7, <1>8, <1>9, <1>10, <1>11 DEF IInv, DataInv

\* Credentials open the stream, are ignored, or are asked for when back-off is over.
LEMMA StartingIInv ==
    ASSUME IInv, ResumeStartWithCredentials \/ StaleCredentials \/ BackoffElapsed
    PROVE  IInv'
<1>0. /\ RemoteType /\ NothingSkipped /\ StreamInv /\ InStep /\ ServerInv
  BY DEF IInv, RemoteInv
<1>1. UNCHANGED <<local, pipeline, handshake, replies, ended, late, doc, history>>
  BY DEF ResumeStartWithCredentials, StaleCredentials, BackoffElapsed, connection
<1>2. DataInv' /\ NothingSkipped' /\ user' = user /\ refused' = refused
  BY <1>0, <1>1, SameData DEF IInv, NothingSkipped, local, history
<1>3. <<Handshake>> \in Seq({Handshake} \cup Writes)
  OBVIOUS
<1>4. stream' \in States /\ tokens' \subseteq {"current", "old"}
  BY <1>0 DEF RemoteType, States, ResumeStartWithCredentials, StaleCredentials, BackoffElapsed
<1>5. idle' \in BOOLEAN /\ wire' \in Seq({Handshake} \cup Writes)
  <2>1. idle \in BOOLEAN
    BY <1>0 DEF RemoteType
  <2>2. idle' \in BOOLEAN
    BY <2>1 DEF ResumeStartWithCredentials, StaleCredentials, BackoffElapsed
  <2> QED BY <1>0, <1>3, <2>2
          DEF RemoteType, ResumeStartWithCredentials, StaleCredentials, BackoffElapsed, connection
<1>6. RemoteType'
  BY <1>0, <1>1, <1>4, <1>5 DEF RemoteType
<1>7. StreamInv' /\ InStep' /\ ServerInv'
  <2>1. CASE ResumeStartWithCredentials
    BY <1>0, <1>1, <1>2, <2>1 DEF ResumeStartWithCredentials, StreamInv, InStep, ServerInv
  <2>2. CASE StaleCredentials
    BY <1>0, <1>1, <1>2, <2>2 DEF StaleCredentials, StreamInv, InStep, ServerInv, connection
  <2>3. CASE BackoffElapsed
    BY <1>0, <1>1, <1>2, <2>3 DEF BackoffElapsed, StreamInv, InStep, ServerInv, connection
  <2> QED BY <2>1, <2>2, <2>3
<1> QED BY <1>2, <1>6, <1>7 DEF IInv, RemoteInv

\* The handshake is answered: the whole pipeline goes on the wire.
LEMMA HandshakeCompleteIInv ==
    ASSUME IInv, OnWriteStreamHandshakeComplete
    PROVE  IInv'
<1>0. /\ RemoteType /\ NothingSkipped /\ StreamInv /\ InStep /\ ServerInv
  BY DEF IInv, RemoteInv
<1> DEFINE w == WritesOf(pipeline)
<1>1. /\ replies # <<>> /\ ~handshake /\ replies' = Tail(replies) /\ handshake' = TRUE
      /\ wire' = wire \o w /\ idle' = (idle /\ pipeline = <<>>)
      /\ UNCHANGED <<local, pipeline, stream, tokens, ended, late, doc, history>>
  BY DEF OnWriteStreamHandshakeComplete
<1>2. /\ stream = "open" /\ ended = 0 /\ ~late /\ ~idle
      /\ wire = <<>> /\ replies = <<Handshake>>
  BY <1>0, <1>1 DEF StreamInv
<1>3. pipeline \in Seq(Batch) /\ Len(pipeline) \in Nat
  BY <1>0 DEF RemoteType
<1>4. w \in Seq(Writes) /\ Len(w) = Len(pipeline) /\ \A i \in 1..Len(pipeline) : w[i] = pipeline[i].write
  BY <1>3, WritesOfIs
<1>5. w \in Seq({Handshake} \cup Writes)
  BY <1>4, SeqMonotonic
<1> HIDE DEF w
<1>6. wire' = w
  BY <1>1, <1>2, <1>4, ConcatEmptySeq
<1>7. replies' = <<>> /\ replies' \in Seq({Handshake} \cup Writes) /\ Len(replies') = 0
  BY <1>1, <1>2
<1>8. handshake' \in BOOLEAN /\ idle' \in BOOLEAN /\ ~idle' /\ handshake'
  BY <1>1, <1>2, Zenon
<1>9. RemoteType'
  BY <1>0, <1>1, <1>5, <1>6, <1>7, <1>8 DEF RemoteType
<1>10. NothingSkipped'
  BY <1>0, <1>1 DEF NothingSkipped, local
<1>11. StreamInv'
  BY <1>0, <1>1, <1>2, <1>8 DEF StreamInv
<1>12. InStep'
  <2>1. \A i \in 1..Len(w) : w[i] = pipeline[0 + i].write
    BY <1>3, <1>4
  <2>2. AreInStep(<<>>, w, 0, pipeline)
    BY <1>3, <1>4, <2>1 DEF AreInStep
  <2> QED BY <1>1, <1>2, <1>6, <1>7, <2>2 DEF InStep
<1>13. ServerInv'
  BY <1>1, <1>2, <1>7 DEF ServerInv
<1>14. DataInv'
  BY <1>1, SameData DEF IInv
<1> QED BY <1>9, <1>10, <1>11, <1>12, <1>13, <1>14 DEF IInv, RemoteInv

\* The server answers the handshake, which is alone on its connection.
LEMMA ServerHandshakeIInv ==
    ASSUME IInv, ServerHandshake
    PROVE  IInv' /\ ~handshake
<1>0. /\ RemoteType /\ NothingSkipped /\ StreamInv /\ InStep /\ ServerInv
  BY DEF IInv, RemoteInv
<1>1. /\ wire # <<>> /\ Head(wire) = Handshake /\ wire' = Tail(wire)
      /\ replies' = Append(replies, Handshake)
      /\ UNCHANGED <<local, pipeline, stream, handshake, idle, tokens, ended, late, doc, history>>
  BY DEF ServerHandshake, remote
<1>2. wire \in Seq({Handshake} \cup Writes) /\ Len(wire) \in Nat \ {0} /\ 1 \in 1..Len(wire)
  BY <1>0, <1>1, EmptySeq DEF RemoteType
<1>3. ~handshake
  <2> SUFFICES ASSUME handshake PROVE FALSE
    OBVIOUS
  <2>1. pipeline \in Seq(Batch) /\ replies \in Seq({Handshake} \cup Writes)
        /\ Len(pipeline) \in Nat /\ Len(replies) \in Nat /\ AreInStep(replies, wire, ended, pipeline)
    BY <1>0 DEF RemoteType, InStep
  <2>2. Len(replies) + Len(wire) <= Len(pipeline) /\ wire[1] = pipeline[Len(replies) + 1].write
    BY <1>2, <2>1 DEF AreInStep
  <2>3. Len(replies) + 1 \in 1..Len(pipeline)
    BY ONLY <1>2, <2>1, <2>2
  <2>4. wire[1] \in Writes
    BY <2>1, <2>2, <2>3, BatchesOf
  <2>5. wire[1] = Handshake
    BY <1>1, <1>2
  <2> QED BY <2>4, <2>5 DEF Handshake, Writes
<1>4. stream = "open" /\ wire = <<Handshake>> /\ replies = <<>>
  BY <1>0, <1>1, <1>3 DEF StreamInv
<1>5. wire' = <<>> /\ replies' = <<Handshake>>
  BY <1>1, <1>4
<1>6. <<>> \in Seq({Handshake} \cup Writes) /\ <<Handshake>> \in Seq({Handshake} \cup Writes)
  OBVIOUS
<1>7. handshake' \in BOOLEAN /\ idle' \in BOOLEAN /\ late' \in BOOLEAN
  BY <1>0, <1>1 DEF RemoteType
<1>8. RemoteType'
  BY <1>0, <1>1, <1>5, <1>6, <1>7 DEF RemoteType
<1>9. NothingSkipped' /\ StreamInv' /\ InStep' /\ ServerInv'
  BY <1>0, <1>1, <1>3, <1>4, <1>5 DEF NothingSkipped, StreamInv, InStep, ServerInv, local, history
<1>10. DataInv'
  BY <1>1, SameData DEF IInv
<1> QED BY <1>3, <1>8, <1>9, <1>10 DEF IInv, RemoteInv

\* The message the server handles next is the write behind the answered ones, in the
\* pipeline as on disk.
LEMMA WireIs ==
    ASSUME IInv, wire # <<>>, Head(wire) # Handshake
    PROVE  /\ handshake /\ stream = "open" /\ ended = 0 /\ ~late
           /\ Head(wire) = wire[1] /\ Head(wire) \in Writes
           /\ Len(replies) + 1 \in 1..Len(pipeline) /\ Len(replies) + 1 \in 1..Len(disk[user])
           /\ Head(wire) = pipeline[Len(replies) + 1].write
           /\ Head(wire) = disk[user][Len(replies) + 1].write
<1>0. /\ RemoteType /\ NothingSkipped /\ StreamInv /\ InStep
  BY DEF IInv, RemoteInv
<1>1. wire \in Seq({Handshake} \cup Writes) /\ Len(wire) \in Nat \ {0} /\ 1 \in 1..Len(wire)
      /\ Head(wire) = wire[1]
  BY <1>0, EmptySeq DEF RemoteType
<1>2. stream = "open" /\ handshake
  <2>1. stream = "open"
    BY <1>0 DEF StreamInv
  <2>2. Head(<<Handshake>>) = Handshake
    OBVIOUS
  <2> QED BY <1>0, <2>1, <2>2 DEF StreamInv
<1>3. /\ pipeline \in Seq(Batch) /\ replies \in Seq({Handshake} \cup Writes)
      /\ Len(pipeline) \in Nat /\ Len(replies) \in Nat /\ AreInStep(replies, wire, ended, pipeline)
  BY <1>0, <1>2 DEF RemoteType, InStep
<1>4. /\ Len(replies) + Len(wire) <= Len(pipeline) /\ wire[1] = pipeline[Len(replies) + 1].write
      /\ ended = 0
  BY <1>1, <1>3 DEF AreInStep
<1>5. disk[user] \in Seq(Batch) /\ Len(disk[user]) \in Nat /\ Len(pipeline) <= Len(disk[user])
  BY <1>0 DEF IInv, DataInv, DataType, NothingSkipped
<1>6. Len(replies) + 1 \in 1..Len(pipeline) /\ Len(replies) + 1 \in 1..Len(disk[user])
  <2>1. Len(replies) + 1 <= Len(pipeline)
    BY ONLY <1>1, <1>3, <1>4
  <2> QED BY ONLY <1>3, <1>5, <2>1
<1>7. wire[1] \in Writes
  BY <1>3, <1>4, <1>6, BatchesOf
<1>8. pipeline[Len(replies) + 1] = disk[user][Len(replies) + 1]
  BY <1>0, <1>6 DEF NothingSkipped
<1>9. ~late
  BY <1>0, <1>4 DEF StreamInv
<1> QED BY <1>1, <1>2, <1>4, <1>6, <1>7, <1>8, <1>9

\* A write carried out moves from the wire to the answers.
LEMMA ApplyKeepsStep ==
    ASSUME NEW rs \in Seq({Handshake} \cup Writes), NEW ws \in Seq({Handshake} \cup Writes),
           NEW p \in Seq(Batch), ws # <<>>, AreInStep(rs, ws, 0, p)
    PROVE  AreInStep(Append(rs, Head(ws)), Tail(ws), 0, p)
<1> DEFINE r == Append(rs, Head(ws))
           t == Tail(ws)
<1>1. Len(rs) \in Nat /\ Len(ws) \in Nat \ {0} /\ Len(p) \in Nat /\ 1 \in 1..Len(ws)
  BY EmptySeq
<1>2. Head(ws) = ws[1] /\ Head(ws) \in {Handshake} \cup Writes
  BY HeadTailProperties
<1>3. /\ Len(r) = Len(rs) + 1 /\ \A i \in 1..Len(rs) : r[i] = rs[i]
      /\ r[Len(rs) + 1] = ws[1]
  BY <1>2, AppendProperties
<1>4. Len(t) = Len(ws) - 1 /\ \A i \in 1..Len(t) : t[i] = ws[i + 1]
  BY HeadTailProperties
<1> HIDE DEF r, t
<1>5. Len(rs) + Len(ws) = Len(p) /\ \A i \in 1..Len(ws) : ws[i] = p[Len(rs) + i].write
  BY DEF AreInStep
<1>6. Len(r) + Len(t) = Len(p)
  <2> DEFINE m == Len(rs)
             n == Len(ws)
             k == Len(p)
  <2>1. Len(r) = m + 1 /\ Len(t) = n - 1 /\ m + n = k
    BY <1>3, <1>4, <1>5
  <2>2. m \in Nat /\ n \in Nat /\ k \in Nat
    BY <1>1
  <2> HIDE DEF m, n, k
  <2>3. (m + 1) + (n - 1) = k
    BY ONLY <2>1, <2>2
  <2>4. Len(r) + Len(t) = k
    BY <2>1, <2>3, Zenon
  <2> QED BY <2>4 DEF k
<1>7. ASSUME NEW i \in 1..Len(r) PROVE r[i] = p[i].write
  <2>1. CASE i \in 1..Len(rs)
    BY <1>3, <2>1 DEF AreInStep
  <2>2. CASE i = Len(rs) + 1
    BY <1>1, <1>3, <1>5, <2>2
  <2>3. i \in 1..Len(rs) \/ i = Len(rs) + 1
    BY ONLY <1>1, <1>3, i \in 1..Len(r)
  <2> QED BY <2>1, <2>2, <2>3
<1>8. ASSUME NEW i \in 1..Len(t) PROVE t[i] = p[Len(r) + i].write
  <2>1. i + 1 \in 1..Len(ws) /\ Len(rs) + (i + 1) = Len(r) + i
    BY ONLY <1>1, <1>3, <1>4, i \in 1..Len(t)
  <2>2. t[i] = p[Len(rs) + (i + 1)].write
    BY <1>4, <1>5, <2>1
  <2> QED BY <2>1, <2>2
<1>9. Len(r) + Len(t) <= Len(p)
  BY ONLY <1>1, <1>6
<1> QED BY <1>6, <1>7, <1>8, <1>9 DEF AreInStep, r, t

\* The server carries out a write: no write it confirmed before is undone, since
\* everything still on disk is newer.
LEMMA ServerApplyIInv ==
    ASSUME IInv, ServerApply
    PROVE  IInv'
<1>0. /\ DataType /\ DiskInv /\ CallbacksMatch /\ ErrorsAreRefusals /\ ToldInv /\ StoredStays
      /\ RemoteType /\ NothingSkipped /\ StreamInv /\ InStep /\ ServerInv
  BY DEF IInv, DataInv, RemoteInv
<1> DEFINE h == Head(wire)
           k == Len(replies) + 1
<1>1. /\ wire # <<>> /\ h # Handshake /\ wire' = Tail(wire)
      /\ doc' = [doc EXCEPT ![user] = h] /\ replies' = Append(replies, h)
      /\ UNCHANGED <<local, remote, ended, late, history>>
  BY DEF ServerApply
<1>2. /\ handshake /\ stream = "open" /\ ended = 0 /\ ~late
      /\ h \in Writes /\ k \in 1..Len(disk[user])
      /\ h = disk[user][k].write
  BY <1>1, WireIs
<1>3. AreInStep(replies', wire', 0, pipeline)
  BY <1>0, <1>1, <1>2, ApplyKeepsStep DEF RemoteType, InStep
<1> HIDE DEF h, k
<1>4. /\ wire' \in Seq({Handshake} \cup Writes) /\ replies' \in Seq({Handshake} \cup Writes)
      /\ replies' # <<>> /\ replies'[Len(replies')] = h
  <2>1. wire \in Seq({Handshake} \cup Writes) /\ replies \in Seq({Handshake} \cup Writes)
    BY <1>0 DEF RemoteType
  <2>2. wire' \in Seq({Handshake} \cup Writes)
    BY <1>1, <2>1, HeadTailProperties
  <2>3. /\ replies' \in Seq({Handshake} \cup Writes) /\ Len(replies') = Len(replies) + 1
        /\ replies'[Len(replies) + 1] = h
    BY <1>1, <1>2, <2>1, AppendProperties
  <2>4. Len(replies) + 1 # 0
    BY <2>1
  <2> QED BY <2>2, <2>3, <2>4, EmptySeq
<1>5. UNCHANGED <<user, disk, nextId, callbacks, by, outcome, refused, overtaken,
                  pipeline, stream, handshake, idle, tokens, ended, late>>
  BY <1>1 DEF local, remote, history
<1>6. RemoteType'
  <2>1. handshake' \in BOOLEAN /\ idle' \in BOOLEAN /\ late' \in BOOLEAN
    BY <1>0, <1>5 DEF RemoteType
  <2> QED BY <1>0, <1>4, <1>5, <2>1 DEF RemoteType
<1>7. doc' \in [Users -> {0} \cup Writes] /\ doc'[user] = h /\ \A u \in Users : u # user => doc'[u] = doc[u]
  BY <1>0, <1>1, <1>2 DEF DataType
<1>8. NothingSkipped' /\ StreamInv' /\ InStep' /\ ServerInv'
  <2>1. NothingSkipped' /\ StreamInv'
    BY <1>0, <1>2, <1>5 DEF NothingSkipped, StreamInv
  <2>2. InStep' /\ ServerInv'
    BY <1>2, <1>3, <1>4, <1>5, <1>7 DEF InStep, ServerInv
  <2> QED BY <2>1, <2>2
<1>9. DataType' /\ DiskInv' /\ CallbacksMatch' /\ ErrorsAreRefusals' /\ ToldInv'
  BY <1>0, <1>5, <1>7 DEF DataType, DiskInv, CallbacksMatch, ErrorsAreRefusals, ToldInv
<1>10. StoredStays'
  <2> SUFFICES ASSUME NEW w \in 1..Len(by), outcome[w] = "ok"
               PROVE  doc'[by[w]] >= w
    BY <1>5 DEF StoredStays, WQ!StoredStays
  <2>1. w \in Writes /\ by[w] \in Users
    BY <1>0, BoundsAreNumbers, ElementOfSeq DEF DataType, Writes
  <2>2. CASE by[w] = user
    <3>1. disk[user][k].write >= w
      BY <1>0, <1>2, <2>1, <2>2 DEF ToldInv
    <3> QED BY <1>2, <1>7, <2>2, <3>1
  <2>3. CASE by[w] # user
    BY <1>0, <1>7, <2>1, <2>3 DEF StoredStays, WQ!StoredStays
  <2> QED BY <2>2, <2>3
<1> QED BY <1>6, <1>8, <1>9, <1>10 DEF IInv, DataInv, RemoteInv

\* The server refuses the next write and drops what is behind it.
LEMMA ServerRefuseIInv ==
    ASSUME IInv, ServerRefuse
    PROVE  IInv'
<1>0. /\ DataType /\ DiskInv /\ CallbacksMatch /\ ErrorsAreRefusals /\ ToldInv /\ StoredStays
      /\ RemoteType /\ NothingSkipped /\ StreamInv /\ InStep /\ ServerInv
  BY DEF IInv, DataInv, RemoteInv
<1> DEFINE h == Head(wire)
<1>1. /\ wire # <<>> /\ h # Handshake /\ wire' = <<>>
      /\ ended' = h /\ refused' = refused \cup {h}
      /\ UNCHANGED <<local, remote, replies, late, doc, by, outcome, overtaken>>
  BY DEF ServerRefuse
<1>2. /\ handshake /\ stream = "open" /\ ended = 0 /\ ~late
      /\ h \in Writes /\ Len(replies) + 1 \in 1..Len(pipeline)
      /\ h = pipeline[Len(replies) + 1].write
  BY <1>1, WireIs
<1> HIDE DEF h
<1>3. h # 0
  BY <1>1 DEF Handshake
<1>4. UNCHANGED <<user, disk, nextId, callbacks, by, outcome, doc, overtaken,
                  pipeline, stream, handshake, idle, tokens, replies, late>>
  BY <1>1 DEF local, remote
<1>5. AreInStep(replies, <<>>, h, pipeline)
  <2>1. Len(replies) \in Nat /\ Len(pipeline) \in Nat
    BY <1>0 DEF RemoteType
  <2>2. Len(<<>>) = 0 /\ Len(replies) + 0 <= Len(pipeline) /\ Len(replies) < Len(pipeline)
    BY <1>2, <2>1
  <2>3. \A i \in 1..Len(replies) : replies[i] = pipeline[i].write
    BY <1>0, <1>2 DEF InStep, AreInStep
  <2> QED BY <1>2, <1>3, <2>2, <2>3 DEF AreInStep
<1>6. RemoteType'
  <2>1. handshake' \in BOOLEAN /\ idle' \in BOOLEAN /\ late' \in BOOLEAN
    BY <1>0, <1>4 DEF RemoteType
  <2>2. <<>> \in Seq({Handshake} \cup Writes)
    BY EmptySeq
  <2> QED BY <1>0, <1>1, <1>2, <1>4, <2>1, <2>2 DEF RemoteType
<1>7. NothingSkipped' /\ StreamInv' /\ InStep' /\ ServerInv'
  <2>1. NothingSkipped' /\ StreamInv'
    BY <1>0, <1>2, <1>4 DEF NothingSkipped, StreamInv
  <2>2. InStep' /\ ServerInv'
    BY <1>0, <1>1, <1>4, <1>5 DEF InStep, ServerInv
  <2> QED BY <2>1, <2>2
<1>8. DataInv'
  BY <1>0, <1>1, <1>2, <1>4, ZenonT(40) DEF DataInv, DataType, DiskInv, CallbacksMatch, ErrorsAreRefusals, ToldInv,
     StoredStays, WQ!StoredStays
<1> QED BY <1>6, <1>7, <1>8 DEF IInv, RemoteInv

\* The inductive step.
LEMMA NextIInv == IInv /\ [Next]_vars => IInv'
<1> SUFFICES ASSUME IInv, [Next]_vars PROVE IInv'
  OBVIOUS
<1>1. CASE UNCHANGED vars
  <2>1. UNCHANGED <<local, remote, connection, doc, history>>
    BY <1>1 DEF vars
  <2>2. DataInv'
    BY <2>1, SameData DEF IInv
  <2>3. UNCHANGED <<user, disk, doc, refused, pipeline, stream, handshake, idle, tokens,
                    wire, replies, ended, late>>
    BY <2>1 DEF local, remote, connection, history
  <2>4. RemoteInv'
    BY <2>3 DEF IInv, RemoteInv, RemoteType, NothingSkipped, StreamInv, InStep, ServerInv
  <2> QED BY <2>2, <2>4 DEF IInv
<1>2. CASE WriteMutations
  BY <1>2, WriteMutationsIInv
<1>3. CASE ResumeStartWithCredentials \/ StaleCredentials \/ BackoffElapsed
  BY <1>3, StartingIInv
<1>4. CASE CredentialsFail \/ OnStreamLost \/ IdleTimeout
  BY <1>4, CloseIInv
<1>5. CASE OnWriteStreamHandshakeComplete
  BY <1>5, HandshakeCompleteIInv
<1>6. CASE OnWriteStreamMutationResult
  BY <1>6, MutationResultIInv
<1>7. CASE HandleWriteError
  BY <1>7, HandleWriteErrorIInv
<1>8. CASE ConnectivityChange \/ (\E u \in Users : UserChange(u)) \/ Kill
  BY <1>8, RestartIInv
<1>9. CASE KillAcknowledging
  BY <1>9, KillAcknowledgingIInv
<1>10. CASE ServerHandshake
  BY <1>10, ServerHandshakeIInv
<1>11. CASE ServerApply
  BY <1>11, ServerApplyIInv
<1>12. CASE ServerRefuse
  BY <1>12, ServerRefuseIInv
<1> QED
  BY <1>1, <1>2, <1>3, <1>4, <1>5, <1>6, <1>7, <1>8, <1>9, <1>10, <1>11, <1>12 DEF Next

\* The inductive invariant holds in every reachable state.
LEMMA AlwaysIInv == Spec => []IInv
  BY InitIInv, NextIInv, PTL DEF Spec

-----------------------------------------------------------------------------
(***************************************************************************)
(* Safety.                                                                 *)
(***************************************************************************)

\* Type correctness: in particular the pipeline never holds more than MaxPending writes.
THEOREM TypeCorrect == Spec => []TypeOK
<1>1. IInv => TypeOK
  BY DEF IInv, DataInv, RemoteInv, DataType, RemoteType, TypeOK
<1> QED BY <1>1, AlwaysIInv, PTL

\* The pipeline is always the head of the current account's queue on disk: filling it
\* by "the next batch after this ID", after any restart, account or answer, leaves no
\* write out and sends none twice on one stream.
THEOREM NothingIsSkipped == Spec => []NothingSkipped
<1>1. IInv => NothingSkipped
  BY DEF IInv, RemoteInv
<1> QED BY <1>1, AlwaysIInv, PTL

\* No HARD_ASSERT of RemoteStore and WriteStream fails, whatever the order in which
\* credentials, answers, refusals, timers and restarts arrive.
THEOREM AssertionsAlwaysHold == Spec => []AssertionsHold
<1>1. ASSUME IInv PROVE AssertionsHold
  <2>0. RemoteType /\ StreamInv /\ InStep
    BY <1>1 DEF IInv, RemoteInv
  <2>1. "current" \in tokens => stream = "starting" /\ ~handshake
    BY <2>0 DEF StreamInv
  <2>2. replies # <<>> /\ handshake => pipeline # <<>>
    BY <1>1, AnswerIs
  <2>3. ASSUME ended # 0 PROVE handshake /\ pipeline # <<>>
    <3>1. handshake
      BY <2>0, <2>3 DEF StreamInv
    <3>2. Len(replies) < Len(pipeline) /\ Len(replies) \in Nat
      BY <2>0, <2>3, <3>1 DEF InStep, AreInStep, RemoteType
    <3> QED BY <3>1, <3>2
  <2>4. idle => stream = "open" /\ pipeline = <<>>
    BY <2>0 DEF StreamInv
  <2> QED BY <2>1, <2>2, <2>3, <2>4 DEF AssertionsHold
<1> QED BY <1>1, AlwaysIInv, PTL

\* A callback that waits belongs to the batch it is kept under, although batch IDs are
\* given again after a restart or a change of account.
THEOREM CallbacksAlwaysMatch == Spec => []CallbacksMatch
<1>1. IInv => CallbacksMatch
  BY DEF IInv, DataInv
<1> QED BY <1>1, AlwaysIInv, PTL

\* The app is told "error" only about a write the server has refused, or one whose
\* answer a refusal has overtaken.
THEOREM ErrorsAreAlwaysRefusals == Spec => []ErrorsAreRefusals
<1>1. IInv => ErrorsAreRefusals
  BY DEF IInv, DataInv
<1> QED BY <1>1, AlwaysIInv, PTL

\* A write the app was told is stored is never undone by sending an older one again,
\* not even after dying between the callback and the deletion of the batch.
THEOREM StoredAlwaysStays == Spec => []StoredStays
<1>1. IInv => StoredStays
  BY DEF IInv, DataInv
<1> QED BY <1>1, AlwaysIInv, PTL

-----------------------------------------------------------------------------
(***************************************************************************)
(* FirestoreWrites implements WriteQueue.                                  *)
(***************************************************************************)

\* The refinement mapping: the writes on disk, and how many of the current account's
\* the server has answered.
Queue == [u \in Users |-> WritesOf(disk[u])]
Done == IF handshake THEN Len(replies) ELSE 0

\* The writes of a queue without its head.
LEMMA WritesOfTail ==
    ASSUME NEW q \in Seq(Batch), q # <<>>
    PROVE  /\ WritesOf(Tail(q)) = Tail(WritesOf(q))
           /\ WritesOf(q) # <<>> /\ Head(WritesOf(q)) = q[1].write
<1> DEFINE w == WritesOf(q)
           t == Tail(q)
           v == WritesOf(t)
           z == Tail(w)
<1>1. w \in Seq(Writes) /\ Len(w) = Len(q) /\ \A i \in 1..Len(q) : w[i] = q[i].write
  BY WritesOfIs
<1>2. Len(q) \in Nat \ {0} /\ 1 \in 1..Len(q)
  BY EmptySeq
<1>3. t \in Seq(Batch) /\ Len(t) = Len(q) - 1 /\ \A i \in 1..Len(t) : t[i] = q[i + 1]
  BY HeadTailProperties
<1>4. v \in Seq(Writes) /\ Len(v) = Len(t) /\ \A i \in 1..Len(t) : v[i] = t[i].write
  BY <1>3, WritesOfIs
<1> HIDE DEF w, t, v
<1>5. w # <<>> /\ Head(w) = w[1]
  BY <1>1, <1>2, EmptySeq
<1>6. z \in Seq(Writes) /\ Len(z) = Len(w) - 1 /\ \A i \in 1..Len(z) : z[i] = w[i + 1]
  BY <1>1, <1>5, HeadTailProperties
<1> HIDE DEF z
<1>7. Len(v) = Len(z)
  BY <1>1, <1>3, <1>4, <1>6
<1>8. \A i \in 1..Len(v) : i \in 1..Len(t) /\ i \in 1..Len(z) /\ i + 1 \in 1..Len(q)
  <2>1. Len(v) = Len(q) - 1 /\ Len(t) = Len(q) - 1 /\ Len(z) = Len(q) - 1
    BY <1>1, <1>3, <1>4, <1>6
  <2> QED BY ONLY <1>2, <2>1
<1>9. \A i \in 1..Len(v) : v[i] = z[i]
  BY <1>1, <1>3, <1>4, <1>6, <1>8
<1>10. v = z
  BY <1>4, <1>6, <1>7, <1>9, SeqEqual
<1> QED BY <1>1, <1>2, <1>5, <1>10 DEF w, t, v, z

\* The writes of a queue with a batch behind it.
LEMMA WritesOfAppend ==
    ASSUME NEW q \in Seq(Batch), NEW b \in Batch
    PROVE  WritesOf(Append(q, b)) = Append(WritesOf(q), b.write)
<1> DEFINE w == WritesOf(q)
           a == Append(q, b)
           v == WritesOf(a)
           z == Append(w, b.write)
<1>1. w \in Seq(Writes) /\ Len(w) = Len(q) /\ \A i \in 1..Len(q) : w[i] = q[i].write
  BY WritesOfIs
<1>2. Len(q) \in Nat /\ b.write \in Writes
  BY DEF Batch
<1>3. /\ a \in Seq(Batch) /\ Len(a) = Len(q) + 1 /\ \A i \in 1..Len(q) : a[i] = q[i]
      /\ a[Len(q) + 1] = b
  BY AppendProperties
<1>4. v \in Seq(Writes) /\ Len(v) = Len(a) /\ \A i \in 1..Len(a) : v[i] = a[i].write
  BY <1>3, WritesOfIs
<1> HIDE DEF w, a, v
<1>5. /\ z \in Seq(Writes) /\ Len(z) = Len(w) + 1 /\ \A i \in 1..Len(w) : z[i] = w[i]
      /\ z[Len(w) + 1] = b.write
  BY <1>1, <1>2, AppendProperties
<1> HIDE DEF z
<1>6. Len(v) = Len(z)
  BY <1>1, <1>3, <1>4, <1>5
<1>7. ASSUME NEW i \in 1..Len(v) PROVE v[i] = z[i]
  <2>1. Len(v) = Len(q) + 1 /\ Len(a) = Len(q) + 1
    BY <1>3, <1>4
  <2>2. i \in 1..Len(a) /\ (i \in 1..Len(q) \/ i = Len(q) + 1)
    BY ONLY <1>2, <2>1, i \in 1..Len(v)
  <2>3. CASE i \in 1..Len(q)
    BY <1>1, <1>3, <1>4, <1>5, <2>2, <2>3
  <2>4. CASE i = Len(q) + 1
    BY <1>1, <1>3, <1>4, <1>5, <2>2, <2>4
  <2> QED BY <2>2, <2>3, <2>4
<1>8. v = z
  BY <1>4, <1>5, <1>6, <1>7, SeqEqual
<1> QED BY <1>8 DEF w, a, v, z

\* Changing one account's queue on disk changes that account's queue of writes.
LEMMA QueueIs ==
    ASSUME DataType, NEW q, disk' = [disk EXCEPT ![user] = q]
    PROVE  Queue' = [Queue EXCEPT ![user] = WritesOf(q)]
<1>1. user \in Users /\ disk \in [Users -> Seq(Batch)]
  BY DEF DataType
<1>2. disk'[user] = q /\ \A u \in Users : u # user => disk'[u] = disk[u]
  BY <1>1
<1>3. Queue' = [u \in Users |-> WritesOf(disk'[u])]
  BY DEF Queue, WritesOf
<1> QED BY <1>1, <1>2, <1>3 DEF Queue

\* NotifyUser is Tell: at most once, and about the write at the head of the queue.
LEMMA NotifyIsTell ==
    ASSUME IInv, pipeline # <<>>, NEW s \in {"ok", "error"}, NotifyUser(Head(pipeline), s)
    PROVE  WQ!Tell(Head(pipeline).write, s)
<1> DEFINE b == Head(pipeline)
<1>1. /\ outcome' \in [Writes -> Outcomes] /\ outcome \in [Writes -> Outcomes]
      /\ \A w \in Writes : outcome'[w] # outcome[w] =>
            w = b.write /\ outcome[w] = "none" /\ outcome'[w] = s
  BY NotifyIs DEF IInv, DataInv, DataType
<1> HIDE DEF b
<1>2. CASE \A w \in Writes : outcome'[w] = outcome[w]
  <2>1. outcome' = outcome
    BY <1>1, <1>2
  <2> QED BY <2>1 DEF WQ!Tell
<1>3. CASE \E w \in Writes : outcome'[w] # outcome[w]
  <2>1. b.write \in Writes /\ outcome[b.write] = "none" /\ outcome'[b.write] = s
    BY <1>1, <1>3
  <2>2. outcome' = [outcome EXCEPT ![b.write] = s]
    BY <1>1, <2>1
  <2> QED BY <2>1, <2>2 DEF WQ!Tell, b
<1> QED BY <1>2, <1>3

\* The abstract variables of the head of a queue that is not empty.
LEMMA HeadIs ==
    ASSUME IInv, pipeline # <<>>
    PROVE  /\ user \in Users
           /\ Queue[user] = WritesOf(disk[user]) /\ Queue[user] # <<>>
           /\ Head(Queue[user]) = Head(pipeline).write
           /\ WritesOf(Tail(disk[user])) = Tail(Queue[user])
<1>1. user \in Users
  BY DEF IInv, DataInv, DataType
<1>2. Queue[user] = WritesOf(disk[user])
  BY <1>1 DEF Queue
<1>3. disk[user] \in Seq(Batch) /\ disk[user] # <<>> /\ Head(pipeline) = disk[user][1]
  BY FirstIs
<1> QED BY <1>1, <1>2, <1>3, WritesOfTail

\* Making a write is Add.
LEMMA WriteMutationsIsAdd ==
    ASSUME IInv, WriteMutations
    PROVE  WQ!Add
<1> DEFINE b == [id |-> nextId, write |-> Len(by) + 1]
           q == disk[user]
<1>1. /\ Len(by) < MaxWrites /\ by' = Append(by, user)
      /\ disk' = [disk EXCEPT ![user] = Append(q, b)]
      /\ UNCHANGED <<user, replies, doc, outcome>> /\ handshake' = handshake
  BY DEF WriteMutations, FillWritePipeline
<1>2. DataType /\ user \in Users /\ q \in Seq(Batch)
  BY DEF IInv, DataInv, DataType
<1>3. b \in Batch /\ b.write = Len(by) + 1
  <2>1. Len(by) \in Nat /\ nextId \in 1..(MaxWrites + 1) /\ nextId <= Len(by) + 1
    BY DEF IInv, DataInv, DataType, DiskInv
  <2>2. Len(by) + 1 \in Writes /\ nextId \in Writes
    BY ONLY <1>1, <2>1, BoundsAreNumbers DEF Writes
  <2> QED BY <2>2 DEF Batch
<1> HIDE DEF b
<1>4. Queue' = [Queue EXCEPT ![user] = WritesOf(Append(q, b))]
  BY <1>1, <1>2, QueueIs
<1>5. WritesOf(Append(q, b)) = Append(WritesOf(q), Len(by) + 1)
  BY <1>2, <1>3, WritesOfAppend
<1>6. Queue' = [Queue EXCEPT ![user] = Append(Queue[user], Len(by) + 1)]
  BY <1>2, <1>4, <1>5 DEF Queue
<1>7. Done' = Done
  BY <1>1 DEF Done
<1> QED BY <1>1, <1>6, <1>7 DEF WQ!Add, Queue, Done

\* An answer is Confirm.
LEMMA MutationResultIsConfirm ==
    ASSUME IInv, OnWriteStreamMutationResult
    PROVE  WQ!Confirm
<1> DEFINE b == Head(pipeline)
           q == Without(disk[user], b.id)
<1>1. /\ replies # <<>> /\ handshake /\ replies' = Tail(replies)
      /\ NotifyUser(b, "ok") /\ disk' = [disk EXCEPT ![user] = q]
      /\ UNCHANGED <<user, doc, by>> /\ handshake' = handshake
  BY DEF OnWriteStreamMutationResult, FillWritePipeline
<1>2. pipeline # <<>> /\ DataType /\ replies \in Seq({Handshake} \cup Writes)
  BY <1>1, AnswerIs DEF IInv, DataInv, RemoteInv, RemoteType
<1>3. WQ!Tell(b.write, "ok")
  BY <1>1, <1>2, NotifyIsTell
<1>4. user \in Users /\ Head(Queue[user]) = b.write /\ WritesOf(Tail(disk[user])) = Tail(Queue[user])
  BY <1>2, HeadIs
<1>5. q = Tail(disk[user])
  BY <1>2, FirstIs
<1> HIDE DEF b, q
<1>6. Queue' = [Queue EXCEPT ![user] = Tail(Queue[user])]
  BY <1>1, <1>2, <1>4, <1>5, QueueIs
<1>7. Done > 0 /\ Done' = Done - 1
  <2>1. Len(replies) \in Nat \ {0} /\ Len(replies') = Len(replies) - 1
    BY <1>1, <1>2, HeadTailProperties, EmptySeq
  <2> QED BY <1>1, <2>1 DEF Done
<1>8. WQ!Tell(Head(Queue[user]), "ok")
  BY <1>3, <1>4
<1> QED BY <1>1, <1>6, <1>7, <1>8 DEF WQ!Confirm, Queue, Done

\* A permanent error is Reject.
LEMMA HandleWriteErrorIsReject ==
    ASSUME IInv, HandleWriteError
    PROVE  WQ!Reject
<1> DEFINE b == Head(pipeline)
           q == Without(disk[user], b.id)
<1>1. /\ NotifyUser(b, "error") /\ disk' = [disk EXCEPT ![user] = q]
      /\ UNCHANGED <<user, doc, by>> /\ handshake' = FALSE
  BY DEF HandleWriteError, CloseStream
<1>2. pipeline # <<>> /\ DataType
  BY HandleWriteErrorIInv DEF IInv, DataInv
<1>3. WQ!Tell(b.write, "error")
  BY <1>1, <1>2, NotifyIsTell
<1>4. /\ user \in Users /\ Head(Queue[user]) = b.write /\ Queue[user] # <<>>
      /\ WritesOf(Tail(disk[user])) = Tail(Queue[user])
  BY <1>2, HeadIs
<1>5. q = Tail(disk[user])
  BY <1>2, FirstIs
<1> HIDE DEF b, q
<1>6. Queue' = [Queue EXCEPT ![user] = Tail(Queue[user])]
  BY <1>1, <1>2, <1>4, <1>5, QueueIs
<1>7. Done' = 0
  BY <1>1 DEF Done
<1>8. WQ!Tell(Head(Queue[user]), "error")
  BY <1>3, <1>4
<1> QED BY <1>1, <1>4, <1>6, <1>7, <1>8 DEF WQ!Reject, Queue, Done

\* Losing or stopping the stream, restarting the network and dying are Again.
LEMMA CloseIsAgain ==
    ASSUME IInv,
           \/ CredentialsFail \/ OnStreamLost \/ IdleTimeout
           \/ ConnectivityChange \/ Kill \/ KillAcknowledging
    PROVE  WQ!Again
<1>1. CloseStream
  BY DEF CredentialsFail, OnStreamLost, IdleTimeout, ConnectivityChange, Kill, KillAcknowledging,
         CloseWithError, RestartNetwork, Restart
<1>2. UNCHANGED <<user, disk, doc, by>>
  BY DEF CredentialsFail, OnStreamLost, IdleTimeout, ConnectivityChange, Kill, KillAcknowledging,
         Restart, local, history
<1>3. Done' = 0 /\ Queue' = Queue
  BY <1>1, <1>2 DEF CloseStream, Done, Queue
<1>4. IF Done > 0 THEN WQ!Tell(Head(Queue[user]), "ok") ELSE UNCHANGED outcome
  <2>1. CASE ~KillAcknowledging
    <3>1. UNCHANGED outcome
      BY <2>1 DEF CredentialsFail, OnStreamLost, IdleTimeout, ConnectivityChange, Kill, history
    <3> QED BY <3>1 DEF WQ!Tell
  <2>2. CASE KillAcknowledging
    <3>1. replies # <<>> /\ handshake
      BY <2>2 DEF KillAcknowledging
    <3>2. PICK c \in callbacks : /\ c.user = user /\ c.id = Head(pipeline).id
                                 /\ outcome' = [outcome EXCEPT ![c.write] = "ok"]
      BY <2>2 DEF KillAcknowledging
    <3>3. pipeline # <<>>
      BY <3>1, AnswerIs
    <3>4. c.write = Head(pipeline).write /\ outcome[c.write] = "none"
      BY <3>2, <3>3, CallbackIs
    <3>5. Head(Queue[user]) = c.write
      BY <3>3, <3>4, HeadIs
    <3>6. WQ!Tell(Head(Queue[user]), "ok")
      BY <3>2, <3>4, <3>5 DEF WQ!Tell
    <3>7. Done > 0
      <4>1. Len(replies) \in Nat \ {0}
        BY <3>1, EmptySeq DEF IInv, RemoteInv, RemoteType
      <4> QED BY <3>1, <4>1 DEF Done
    <3> QED BY <3>6, <3>7
  <2> QED BY <2>1, <2>2
<1> QED BY <1>2, <1>3, <1>4 DEF WQ!Again, Queue, Done

\* Another account is SwitchUser.
LEMMA UserChangeIsSwitchUser ==
    ASSUME NEW u \in Users, UserChange(u)
    PROVE  WQ!SwitchUser(u)
<1>1. user' = u /\ UNCHANGED <<disk, doc, by, outcome>> /\ handshake' = FALSE
  BY DEF UserChange, RestartNetwork, CloseStream, history
<1>2. Done' = 0 /\ Queue' = Queue
  BY <1>1 DEF Done, Queue
<1> QED BY <1>1, <1>2 DEF WQ!SwitchUser, Queue, Done

\* The server's carrying out a write is Apply.
LEMMA ServerApplyIsApply ==
    ASSUME IInv, ServerApply
    PROVE  WQ!Apply
<1> DEFINE h == Head(wire)
           k == Len(replies) + 1
<1>1. /\ wire # <<>> /\ h # Handshake
      /\ doc' = [doc EXCEPT ![user] = h] /\ replies' = Append(replies, h)
      /\ UNCHANGED <<user, disk, by, outcome, handshake>>
  BY DEF ServerApply, local, remote, history
<1>2. /\ handshake /\ h \in Writes /\ k \in 1..Len(disk[user]) /\ h = disk[user][k].write
  BY <1>1, WireIs
<1>3. user \in Users /\ disk[user] \in Seq(Batch) /\ replies \in Seq({Handshake} \cup Writes)
  BY DEF IInv, DataInv, DataType, RemoteInv, RemoteType
<1>4. Queue[user] = WritesOf(disk[user]) /\ Len(Queue[user]) = Len(disk[user]) /\ Queue[user][k] = h
  BY <1>2, <1>3, WritesOfIs DEF Queue
<1> HIDE DEF h
<1>5. Len(replies') = Len(replies) + 1 /\ Len(replies) \in Nat
  BY <1>1, <1>2, <1>3, AppendProperties
<1>6. Done = Len(replies) /\ Done' = Done + 1
  BY <1>1, <1>2, <1>5 DEF Done
<1>7. Done < Len(Queue[user]) /\ Queue[user][Done + 1] = h
  <2>1. Len(replies) < Len(disk[user])
    BY <1>2, <1>3, <1>5
  <2> QED BY <1>4, <1>6, <2>1
<1>8. Queue' = Queue
  BY <1>1 DEF Queue
<1> QED BY <1>1, <1>6, <1>7, <1>8 DEF WQ!Apply, Queue, Done

\* Every other step is invisible.
LEMMA OthersStutter ==
    ASSUME IInv,
           \/ ResumeStartWithCredentials \/ StaleCredentials \/ BackoffElapsed
           \/ OnWriteStreamHandshakeComplete \/ ServerHandshake \/ ServerRefuse
           \/ UNCHANGED vars
    PROVE  UNCHANGED WQ!vars
<1>1. UNCHANGED <<user, by, disk, doc, outcome>>
  BY DEF ResumeStartWithCredentials, StaleCredentials, BackoffElapsed, OnWriteStreamHandshakeComplete,
         ServerHandshake, ServerRefuse, vars, local, history
<1>2. Done' = Done
  <2>1. CASE handshake' = handshake /\ replies' = replies
    BY <2>1 DEF Done
  <2>2. CASE OnWriteStreamHandshakeComplete
    <3>1. replies # <<>> /\ ~handshake /\ replies' = Tail(replies) /\ handshake'
      BY <2>2 DEF OnWriteStreamHandshakeComplete
    <3>2. replies = <<Handshake>>
      BY <3>1 DEF IInv, RemoteInv, StreamInv
    <3>3. Len(replies') = 0
      BY <3>1, <3>2
    <3> QED BY <3>1, <3>3 DEF Done
  <2>3. CASE ServerHandshake
    <3>1. handshake' = handshake /\ ~handshake
      BY <2>3, ServerHandshakeIInv DEF ServerHandshake, remote
    <3> QED BY <3>1 DEF Done
  <2> QED
    BY <2>1, <2>2, <2>3 DEF ResumeStartWithCredentials, StaleCredentials, BackoffElapsed,
       ServerRefuse, vars, remote, connection
<1>3. Queue' = Queue
  BY <1>1 DEF Queue
<1> QED BY <1>1, <1>2, <1>3 DEF WQ!vars, Queue, Done

\* The write path implements the abstract queue: writes of an account are carried out
\* in order and none is left out, one is confirmed or refused only at the head of the
\* queue, and the app is told at most once about each.
THEOREM ImplementsWriteQueue == Spec => Contract
<1>1. Init => WQ!Init
  <2> SUFFICES ASSUME Init PROVE WQ!Init
    OBVIOUS
  <2>1. Queue = [u \in Users |-> <<>>]
    BY DEF Init, Queue, WritesOf
  <2>2. Done = 0
    BY DEF Init, Done
  <2> QED BY <2>1, <2>2 DEF Init, WQ!Init, Queue, Done, Writes, WQ!Writes
<1>2. IInv /\ [Next]_vars => [WQ!Next]_(WQ!vars)
  <2> SUFFICES ASSUME IInv, [Next]_vars PROVE WQ!Next \/ UNCHANGED WQ!vars
    OBVIOUS
  <2>1. CASE WriteMutations
    BY <2>1, WriteMutationsIsAdd DEF WQ!Next
  <2>2. CASE OnWriteStreamMutationResult
    BY <2>2, MutationResultIsConfirm DEF WQ!Next
  <2>3. CASE HandleWriteError
    BY <2>3, HandleWriteErrorIsReject DEF WQ!Next
  <2>4. CASE \/ CredentialsFail \/ OnStreamLost \/ IdleTimeout
             \/ ConnectivityChange \/ Kill \/ KillAcknowledging
    BY <2>4, CloseIsAgain DEF WQ!Next
  <2>5. CASE \E u \in Users : UserChange(u)
    BY <2>5, UserChangeIsSwitchUser DEF WQ!Next
  <2>6. CASE ServerApply
    BY <2>6, ServerApplyIsApply DEF WQ!Next
  <2>7. CASE \/ ResumeStartWithCredentials \/ StaleCredentials \/ BackoffElapsed
             \/ OnWriteStreamHandshakeComplete \/ ServerHandshake \/ ServerRefuse
             \/ UNCHANGED vars
    BY <2>7, OthersStutter
  <2> QED BY <2>1, <2>2, <2>3, <2>4, <2>5, <2>6, <2>7 DEF Next
<1> QED BY <1>1, <1>2, AlwaysIInv, PTL DEF Spec, Contract, WQ!Spec
=============================================================================
