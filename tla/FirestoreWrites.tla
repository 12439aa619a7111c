--------------------------- MODULE FirestoreWrites ---------------------------
(***************************************************************************)
(* The write path of the Firestore client that every setData of the app    *)
(* goes through: SyncEngine, LocalStore and its mutation queue on disk,    *)
(* RemoteStore's write pipeline, and the write stream with its             *)
(* credentials, handshake, back-off and idle timer.                        *)
(*                                                                         *)
(* Everything runs on one worker queue, so a handler is one action.        *)
(* Between handlers the app makes writes, another account signs in, the    *)
(* network changes, credentials arrive late, the connection is lost, the   *)
(* server refuses a write, the app dies.                                   *)
(*                                                                         *)
(* The pipeline is sent without waiting for answers, and an answer only    *)
(* says "the next one": which write it is about follows from the order     *)
(* alone.  The server is external: it handles the messages of a stream in  *)
(* order and drops those it has not handled when the stream ends.          *)
(***************************************************************************)
EXTENDS Naturals, Sequences, FiniteSets

CONSTANTS
    Users,       \* accounts, and the guest without one
    MaxPending,  \* kMaxPendingWrites
    MaxWrites    \* bound: writes made

ASSUME BoundsAreNumbers == MaxPending \in Nat \ {0} /\ MaxWrites \in Nat

Writes == 1..MaxWrites
Outcomes == {"none", "ok", "error"}

\* A batch of mutations: the app's setData makes one of a single mutation.
\* Batch IDs are used again, writes are numbered by the model.
Batch == [id : Writes, write : Writes]

\* StatusCallback in mutation_callbacks_[user][id]; write is the one it was made for.
Callback == [user : Users, id : Writes, write : Writes]

\* The first message of a stream and its answer.
Handshake == 0

VARIABLES
    \* on disk
    user,        \* current_user_, also kept by Firebase Auth
    disk,        \* mutation queue of each account
    \* SyncEngine and LocalStore
    nextId,      \* next_batch_id_
    callbacks,   \* mutation_callbacks_
    \* RemoteStore and WriteStream
    pipeline,    \* write_pipeline_
    stream,      \* state_, with Healthy counted as open
    handshake,   \* handshake_complete_
    idle,        \* idleness_timer_ is scheduled
    tokens,      \* credential requests: for this start, or for an older close_count_
    \* the connection and the server
    wire,        \* messages the server has not handled
    replies,     \* answers the client has not read
    ended,       \* the write whose refusal has ended the stream, 0 if none
    late,        \* a message was written to a stream that had ended
    doc,         \* the write each account's document comes from, 0 if none
    \* history
    by,          \* the account that made each write
    outcome,     \* what the app was told about each write
    refused,     \* writes the server has refused
    overtaken    \* writes whose answer was dropped with an ended stream

local == <<user, disk, nextId, callbacks>>
remote == <<pipeline, stream, handshake, idle, tokens>>
connection == <<wire, replies, ended, late>>
history == <<by, outcome, refused, overtaken>>
vars == <<local, remote, connection, doc, history>>

States == {"initial", "starting", "open", "error", "backoff"}

TypeOK ==
    /\ user \in Users
    /\ disk \in [Users -> Seq(Batch)]
    /\ nextId \in 1..(MaxWrites + 1)
    /\ callbacks \subseteq Callback
    /\ pipeline \in Seq(Batch) /\ Len(pipeline) <= MaxPending
    /\ stream \in States
    /\ handshake \in BOOLEAN /\ idle \in BOOLEAN
    /\ tokens \subseteq {"current", "old"}
    /\ wire \in Seq({Handshake} \cup Writes)
    /\ replies \in Seq({Handshake} \cup Writes)
    /\ ended \in {0} \cup Writes
    /\ late \in BOOLEAN
    /\ doc \in [Users -> {0} \cup Writes]
    /\ by \in Seq(Users) /\ Len(by) <= MaxWrites
    /\ outcome \in [Writes -> Outcomes]
    /\ refused \subseteq Writes
    /\ overtaken \subseteq Writes
-----------------------------------------------------------------------------
(***************************************************************************)
(* The mutation queue.                                                     *)
(***************************************************************************)

\* LoadNextBatchIdFromDb: one more than the highest ID any account has on disk.
IsNextId(n, d) ==
    /\ \A u \in Users : \A i \in 1..Len(d[u]) : d[u][i].id < n
    /\ n = 1 \/ \E u \in Users : \E i \in 1..Len(d[u]) : d[u][i].id = n - 1

\* RemoveMutationBatch: the batch with this ID is deleted.
Without(q, id) ==
    LET i == CHOOSE j \in 1..Len(q) : q[j].id = id
    IN  SubSeq(q, 1, i - 1) \o SubSeq(q, i + 1, Len(q))

\* NextMutationBatchAfterBatchId, repeated: how many of q have an ID up to id.
UpTo(q, id) == Cardinality({i \in 1..Len(q) : q[i].id <= id})

Smaller(m, n) == IF m <= n THEN m ELSE n

\* Fault: the limit on pending writes is not looked at.
FillUnlimited(q, p) ==
    LET k == IF p = <<>> THEN 0 ELSE UpTo(q, p[Len(p)].id)
    IN  p \o SubSeq(q, k + 1, Len(q))

\* FillWritePipeline's loop: pipeline p is topped up with the batches of q that
\* follow its last one, while CanAddToWritePipeline.
Fill(q, p) ==
    LET k == IF p = <<>> THEN 0 ELSE UpTo(q, p[Len(p)].id)
    IN  p \o SubSeq(q, k + 1, Smaller(k + (MaxPending - Len(p)), Len(q)))

WritesOf(p) == [i \in 1..Len(p) |-> p[i].write]
-----------------------------------------------------------------------------
(***************************************************************************)
(* The write stream.                                                       *)
(***************************************************************************)
IsStarted(s) == s \in {"starting", "backoff", "open"}

\* Credential requests that are out when close_count_ is incremented.
Invalidated(ts) == IF ts = {} THEN {} ELSE {"old"}

\* Fault: a stream that has failed is not started again.
StartUnlessError(s, p, ts) ==
    LET start == s = "initial" /\ p # <<>> IN
    /\ stream' = IF start THEN "starting" ELSE s
    /\ tokens' = IF start THEN ts \cup {"current"} ELSE ts

\* StartWriteStream if ShouldStartWriteStream: from "error" it backs off first,
\* from "initial" it asks for credentials.  s is the stream's state, p the pipeline.
StartIfNeeded(s, p, ts) ==
    LET start == ~IsStarted(s) /\ p # <<>> IN
    /\ stream' = IF ~start THEN s ELSE IF s = "error" THEN "backoff" ELSE "starting"
    /\ tokens' = IF start /\ s = "initial" THEN ts \cup {"current"} ELSE ts

\* Fault: the old connection is not dropped, its answers are still read.
CloseKeepsReplies ==
    /\ handshake' = FALSE /\ idle' = FALSE
    /\ wire' = <<>> /\ UNCHANGED replies /\ ended' = 0 /\ late' = FALSE

\* Close, for both kinds of stop: the timer is cancelled, the connection dropped
\* and, after the delegate has been told, the handshake forgotten.
CloseStream ==
    /\ handshake' = FALSE /\ idle' = FALSE
    /\ wire' = <<>> /\ replies' = <<>> /\ ended' = 0 /\ late' = FALSE

\* Fault: sending does not cancel the idle timer.
FillKeepsTimer(q, p) ==
    LET f == Fill(q, p)
        new == SubSeq(f, Len(p) + 1, Len(f))
        sends == stream = "open" /\ handshake /\ new # <<>>
    IN
    /\ pipeline' = f
    /\ wire' = IF sends /\ ended = 0 THEN wire \o WritesOf(new) ELSE wire
    /\ late' = (late \/ (sends /\ ended # 0))
    /\ idle' = (idle \/ (f = <<>> /\ stream = "open"))
    /\ StartIfNeeded(stream, f, tokens)
    /\ UNCHANGED <<handshake, ended>>

\* FillWritePipeline on a stream that is left as it is: batches are sent if the
\* handshake is complete, and an empty pipeline arms the idle timer.
FillWritePipeline(q, p) ==
    LET f == Fill(q, p)
        new == SubSeq(f, Len(p) + 1, Len(f))
        sends == stream = "open" /\ handshake /\ new # <<>>
    IN
    /\ pipeline' = f
    /\ wire' = IF sends /\ ended = 0 THEN wire \o WritesOf(new) ELSE wire
    /\ late' = (late \/ (sends /\ ended # 0))
    /\ idle' = ((idle /\ ~sends) \/ (f = <<>> /\ stream = "open"))
    /\ StartIfNeeded(stream, f, tokens)
    /\ UNCHANGED <<handshake, ended>>

\* Fault: the pipeline is not cleared.
RestartKeepsPipeline(q, ts) ==
    /\ CloseStream
    /\ pipeline' = Fill(q, pipeline)
    /\ StartIfNeeded("initial", Fill(q, pipeline), ts)

\* RestartNetwork: the streams are stopped, the pipeline is cleared and filled
\* again, back-off is inhibited.
RestartNetwork(q, ts) ==
    /\ CloseStream
    /\ pipeline' = Fill(q, <<>>)
    /\ StartIfNeeded("initial", Fill(q, <<>>), ts)

\* A stop with an error that is not about a write: the pipeline stays.
CloseWithError(ts) ==
    /\ CloseStream
    /\ UNCHANGED pipeline
    /\ StartIfNeeded("error", pipeline, ts)

\* Fault: the callback is called and not erased.
NotifyUserKeeps(b, s) ==
    LET found == {c \in callbacks : c.user = user /\ c.id = b.id} IN
    /\ UNCHANGED callbacks
    /\ outcome' = [w \in Writes |-> IF \E c \in found : c.write = w THEN s ELSE outcome[w]]

\* NotifyUser: the callback kept under the current account and the batch's ID,
\* if there is one, is called and erased.
NotifyUser(b, s) ==
    LET found == {c \in callbacks : c.user = user /\ c.id = b.id} IN
    /\ callbacks' = callbacks \ found
    /\ outcome' = [w \in Writes |-> IF \E c \in found : c.write = w THEN s ELSE outcome[w]]
-----------------------------------------------------------------------------
Init ==
    /\ user \in Users
    /\ disk = [u \in Users |-> <<>>]
    /\ nextId = 1 /\ callbacks = {}
    /\ pipeline = <<>> /\ stream = "initial" /\ handshake = FALSE /\ idle = FALSE
    /\ tokens = {}
    /\ wire = <<>> /\ replies = <<>> /\ ended = 0 /\ late = FALSE
    /\ doc = [u \in Users |-> 0]
    /\ by = <<>> /\ outcome = [w \in Writes |-> "none"]
    /\ refused = {} /\ overtaken = {}

\* SyncEngine::WriteMutations: on disk, callback remembered, pipeline filled.
WriteMutations ==
    /\ Len(by) < MaxWrites
    /\ by' = Append(by, user)
    /\ LET b == [id |-> nextId, write |-> Len(by) + 1]
           q == Append(disk[user], b)
       IN  /\ disk' = [disk EXCEPT ![user] = q]
           /\ callbacks' = callbacks \cup {[user |-> user, id |-> b.id, write |-> b.write]}
           /\ FillWritePipeline(q, pipeline)
    /\ nextId' = nextId + 1
    /\ UNCHANGED <<user, replies, doc, outcome, refused, overtaken>>

\* Credentials arrive for this start: the call is created, the stream is open and
\* the handshake is sent.
ResumeStartWithCredentials ==
    /\ "current" \in tokens
    /\ tokens' = tokens \ {"current"}
    /\ stream' = "open"
    /\ wire' = <<Handshake>>
    /\ idle' = FALSE
    /\ UNCHANGED <<local, pipeline, handshake, replies, ended, late, doc, history>>

\* There are none: the stream ends before a call exists.
CredentialsFail ==
    /\ "current" \in tokens
    /\ CloseWithError(tokens \ {"current"})
    /\ UNCHANGED <<local, doc, history>>

\* Credentials for a stream that has been closed meanwhile are ignored.
StaleCredentials ==
    /\ "old" \in tokens
    /\ tokens' = tokens \ {"old"}
    /\ UNCHANGED <<local, pipeline, stream, handshake, idle, connection, doc, history>>

\* The back-off is over: Start from the initial state.
BackoffElapsed ==
    /\ stream = "backoff"
    /\ stream' = "starting"
    /\ tokens' = tokens \cup {"current"}
    /\ UNCHANGED <<local, pipeline, handshake, idle, connection, doc, history>>

\* Fault: the first write is taken to have been received before.
HandshakeSkipsFirst ==
    /\ replies # <<>> /\ ~handshake
    /\ replies' = Tail(replies)
    /\ handshake' = TRUE
    /\ wire' = wire \o Tail(WritesOf(pipeline))
    /\ idle' = (idle /\ pipeline = <<>>)
    /\ UNCHANGED <<local, pipeline, stream, tokens, ended, late, doc, history>>

\* The first answer completes the handshake; the whole pipeline is sent.
OnWriteStreamHandshakeComplete ==
    /\ replies # <<>> /\ ~handshake
    /\ replies' = Tail(replies)
    /\ handshake' = TRUE
    /\ wire' = wire \o WritesOf(pipeline)
    /\ idle' = (idle /\ pipeline = <<>>)
    /\ UNCHANGED <<local, pipeline, stream, tokens, ended, late, doc, history>>

\* Every other answer is about the first write of the pipeline.  Its callback is
\* called, it is deleted from disk, and the pipeline is topped up.
OnWriteStreamMutationResult ==
    /\ replies # <<>> /\ handshake
    /\ replies' = Tail(replies)
    /\ LET b == Head(pipeline)
           q == Without(disk[user], b.id)
       IN  /\ NotifyUser(b, "ok")
           /\ disk' = [disk EXCEPT ![user] = q]
           /\ FillWritePipeline(q, Tail(pipeline))
    /\ UNCHANGED <<user, nextId, doc, by, refused, overtaken>>

\* Fault: every error is taken to be permanent.
StreamLostRejects ==
    /\ stream = "open" /\ handshake /\ pipeline # <<>>
    /\ CloseStream
    /\ LET b == Head(pipeline)
           q == Without(disk[user], b.id)
           f == Fill(q, Tail(pipeline))
       IN  /\ disk' = [disk EXCEPT ![user] = q]
           /\ NotifyUser(b, "error")
           /\ pipeline' = f
           /\ StartIfNeeded("initial", f, Invalidated(tokens))
    /\ UNCHANGED <<user, nextId, doc, by, refused, overtaken>>

\* The connection is lost, or the server ends the stream with an error that is not
\* permanent, or before the handshake: everything unanswered is sent again later.
OnStreamLost ==
    /\ stream = "open"
    /\ CloseWithError(Invalidated(tokens))
    /\ UNCHANGED <<local, doc, history>>

\* HandleWriteError: a permanent error is about the first write of the pipeline.
\* gRPC delivers it after the answers, or as soon as a message hits the ended stream.
HandleWriteError ==
    /\ ended # 0
    /\ replies = <<>> \/ late
    /\ CloseStream
    /\ LET b == Head(pipeline)
           q == Without(disk[user], b.id)
           f == Fill(q, Tail(pipeline))
       IN  /\ disk' = [disk EXCEPT ![user] = q]
           /\ NotifyUser(b, "error")
           /\ pipeline' = f
           /\ StartIfNeeded("initial", f, Invalidated(tokens))
    /\ overtaken' = overtaken \cup {replies[i] : i \in 1..Len(replies)}
    /\ UNCHANGED <<user, nextId, doc, by, refused>>

\* The idle timer stops the stream.
IdleTimeout ==
    /\ idle
    /\ CloseStream
    /\ stream' = "initial"
    /\ tokens' = Invalidated(tokens)
    /\ UNCHANGED <<local, pipeline, doc, history>>

\* The network has changed, or the same account has new credentials.
ConnectivityChange ==
    /\ RestartNetwork(disk[user], Invalidated(tokens))
    /\ UNCHANGED <<local, doc, history>>

\* HandleCredentialChange: another account; its queue is swapped in.
UserChange(u) ==
    /\ u # user
    /\ user' = u
    /\ \E n \in 1..(MaxWrites + 1) : IsNextId(n, disk) /\ nextId' = n
    /\ RestartNetwork(disk[u], Invalidated(tokens))
    /\ UNCHANGED <<disk, callbacks, doc, history>>

\* The app starts again: only the disk is left, and the network is enabled.
Restart ==
    /\ \E n \in 1..(MaxWrites + 1) : IsNextId(n, disk) /\ nextId' = n
    /\ callbacks' = {}
    /\ RestartNetwork(disk[user], {})
    /\ UNCHANGED <<user, disk, doc, by, refused, overtaken>>

\* The app dies.
Kill == Restart /\ UNCHANGED outcome

\* HandleSuccessfulWrite calls back before AcknowledgeBatch: the app can die with
\* the callback called and the batch still on disk.
KillAcknowledging ==
    /\ replies # <<>> /\ handshake
    /\ \E c \in callbacks : /\ c.user = user /\ c.id = Head(pipeline).id
                            /\ outcome' = [outcome EXCEPT ![c.write] = "ok"]
    /\ Restart
-----------------------------------------------------------------------------
\* The server answers the handshake.
ServerHandshake ==
    /\ wire # <<>> /\ Head(wire) = Handshake
    /\ wire' = Tail(wire)
    /\ replies' = Append(replies, Handshake)
    /\ UNCHANGED <<local, remote, ended, late, doc, history>>

\* The server carries out a write and confirms it.
ServerApply ==
    /\ wire # <<>> /\ Head(wire) # Handshake
    /\ wire' = Tail(wire)
    /\ doc' = [doc EXCEPT ![user] = Head(wire)]
    /\ replies' = Append(replies, Head(wire))
    /\ UNCHANGED <<local, remote, ended, late, history>>

\* The server refuses a write and ends the stream.
ServerRefuse ==
    /\ wire # <<>> /\ Head(wire) # Handshake
    /\ ended' = Head(wire)
    /\ refused' = refused \cup {Head(wire)}
    /\ wire' = <<>>
    /\ UNCHANGED <<local, remote, replies, late, doc, by, outcome, overtaken>>

Next ==
    \/ WriteMutations
    \/ ResumeStartWithCredentials \/ CredentialsFail \/ StaleCredentials
    \/ BackoffElapsed \/ IdleTimeout
    \/ OnWriteStreamHandshakeComplete \/ OnWriteStreamMutationResult
    \/ OnStreamLost \/ HandleWriteError
    \/ ConnectivityChange \/ \E u \in Users : UserChange(u)
    \/ Kill \/ KillAcknowledging
    \/ ServerHandshake \/ ServerApply \/ ServerRefuse

Spec == Init /\ [][Next]_vars

(***************************************************************************)
(* Fairness.  Back-off ends, credentials arrive, the server works, and the *)
(* client reads: not in every connection, since each may be lost and the   *)
(* app may die, but not never either.                                      *)
(***************************************************************************)
Fairness ==
    /\ WF_vars(BackoffElapsed)
    /\ SF_vars(ResumeStartWithCredentials)
    /\ SF_vars(ServerHandshake)
    /\ SF_vars(OnWriteStreamHandshakeComplete)
    /\ SF_vars(ServerApply \/ ServerRefuse)
    /\ SF_vars(OnWriteStreamMutationResult \/ HandleWriteError)

FairSpec == Spec /\ Fairness
-----------------------------------------------------------------------------
\* The pipeline is the head of the current account's queue.
NothingSkipped ==
    /\ Len(pipeline) <= Len(disk[user])
    /\ \A i \in 1..Len(pipeline) : pipeline[i] = disk[user][i]

\* Whenever a handler can run, its HARD_ASSERTs hold: credentials find the stream
\* starting and without a handshake, an answer or a refusal finds a write to be
\* about, and the idle timer finds nothing to send.  That the write is on disk,
\* which RemoveMutationBatch asserts, is NothingSkipped.
AssertionsHold ==
    /\ "current" \in tokens => stream = "starting" /\ ~handshake
    /\ replies # <<>> /\ handshake => pipeline # <<>>
    /\ ended # 0 => handshake /\ pipeline # <<>>
    /\ idle => stream = "open" /\ pipeline = <<>>

\* A callback that waits is found under the ID of the batch it was made for, and
\* of no other, although IDs are used again after a restart or another account:
\* the app is told about each write itself.
CallbacksMatch ==
    \A c \in callbacks :
        /\ outcome[c.write] = "none"
        /\ \E i \in 1..Len(disk[c.user]) :
               disk[c.user][i] = [id |-> c.id, write |-> c.write]

\* HandleWriteError blames the first write of the pipeline.  The server has refused
\* that very write, unless a message hit the ended stream and the refusal of a
\* later write overtook the answer to this one.
ErrorsAreRefusals ==
    \A w \in Writes : outcome[w] = "error" => w \in refused \cup overtaken

\* FirestoreWrites implements WriteQueue: the queue is what is on disk, and the
\* server has carried out as many of it as there are answers to read.
WQ == INSTANCE WriteQueue WITH
          queue <- [u \in Users |-> WritesOf(disk[u])],
          done <- IF handshake THEN Len(replies) ELSE 0

\* The write path keeps the promise of WriteQueue: writes are carried out in order
\* and none is left out, confirmed ones are not repeated, the app is told once.
Contract == WQ!Spec

\* A write the app was told is stored is never undone by sending an older one again.
StoredStays == WQ!StoredStays

\* A write waits on the phone, under whichever account.
Queued(w) == \E u \in Users : \E i \in 1..Len(disk[u]) : disk[u][i].write = w

\* Every queued write is confirmed or refused, or its account signs out: lost
\* connections, refused writes ahead of it, idle stops and restarts of the app do
\* not leave the pipeline stuck.
WritesAreSettled ==
    \A w \in Writes : Queued(w) ~> ~Queued(w) \/ user # by[w]
=============================================================================
