---------------------------- MODULE FirestoreReads ----------------------------
(***************************************************************************)
(* The read path of the Firestore client: several getDocument calls for    *)
(* one document.                                                           *)
(*                                                                         *)
(* getDocument listens, waits for the first event and stops listening.     *)
(* Two threads work on it: callbacks run on the main queue, EventManager,  *)
(* SyncEngine, RemoteStore and the watch stream on the worker queue.  Each *)
(* sends the other messages, so an event may still be under way to a call  *)
(* that has been answered, and a listener is removed some time after its   *)
(* event.  Calls that overlap share one listen, and later calls use the    *)
(* same target ID again, over a connection on which messages about the     *)
(* earlier listen are still arriving.                                      *)
(*                                                                         *)
(* The server is external.  It handles requests in order and sends a       *)
(* global snapshot only when the target is current, so that document,      *)
(* CURRENT and snapshot version are one message.                           *)
(***************************************************************************)
EXTENDS Integers, Sequences, FiniteSets, Functions

CONSTANTS
    Calls,       \* getDocument calls
    MaxVersion,  \* bound: versions of the document; 0 is "does not exist"
    MaxEvents    \* bound: the main queue is never further behind

ASSUME BoundsAreNumbers == MaxVersion \in Nat /\ MaxEvents \in Nat \ {0}

Versions == 0..MaxVersion

\* What a listener is told: a view snapshot that is in sync with the server or is
\* from_cache, or an error.
Event == [call : Calls, kind : {"server", "cache", "error"}, version : Versions]

\* What the app is told.
Answer == [kind : {"document", "absent", "offline", "denied"}, version : Versions]

\* Answers of the watch stream.
Added == [type |-> "added", version |-> 0]
Removed == [type |-> "removed", version |-> 0]
Rejected == [type |-> "rejected", version |-> 0]
Snapshot(v) == [type |-> "snapshot", version |-> v]
Reply == {Added, Removed, Rejected} \cup {Snapshot(v) : v \in Versions}

VARIABLES
    \* the two queues
    main,         \* events posted to the main queue
    work,         \* listeners to be added or removed, posted to the worker queue
    \* main queue: ListenOnce
    asked,        \* calls made
    muted,        \* calls whose AsyncEventListener is muted
    answers,      \* what each call has been answered
    \* worker queue: EventManager, QueryListener, SyncEngine, LocalStore
    listeners,    \* listeners of the query; the target is listened to unless empty
    raised,       \* raised_initial_event_
    view,         \* the view and its last snapshot
    cache,        \* version in the cache on disk
    \* OnlineStateTracker
    online,       \* state_
    timer,        \* online_state_timer_ is set
    failures,     \* watch_stream_failures_ is not 0
    \* RemoteStore and WatchStream
    stream,       \* state_, with Healthy counted as open
    idle,         \* idleness_timer_ is scheduled
    outstanding,  \* outstanding_responses_ of the target
    \* the connection and the server
    wire,         \* requests the server has not handled
    replies,      \* answers the client has not read
    target,       \* the target on this stream: not there, to be brought up to date, or current
    server,       \* the document
    allowed,      \* the rules let the client read it
    \* history
    floor         \* version of the document when a call's listen began

queues == <<main, work, asked, muted, answers>>
local == <<listeners, raised, view, cache>>
status == <<online, timer, failures>>
remote == <<stream, idle, outstanding>>
connection == <<wire, replies, target>>
vars == <<queues, local, status, remote, connection, server, allowed, floor>>

\* outstanding_responses_ is bounded by the requests on the connection.
TypeOK ==
    /\ main \in Seq(Event)
    /\ work \in Seq({"add", "remove"} \X Calls)
    /\ asked \subseteq Calls /\ muted \subseteq Calls
    /\ answers \in [Calls -> Seq(Answer)]
    /\ listeners \in Seq(Calls)
    /\ raised \subseteq Calls
    /\ view \in [version : Versions, synced : BOOLEAN]
    /\ cache \in Versions
    /\ online \in {"unknown", "online", "offline"}
    /\ timer \in BOOLEAN /\ failures \in BOOLEAN
    /\ stream \in {"initial", "starting", "open", "error", "backoff"}
    /\ idle \in BOOLEAN
    /\ outstanding \in Int
    /\ wire \in Seq({"watch", "unwatch"})
    /\ replies \in Seq(Reply)
    /\ target \in {"none", "stale", "current"}
    /\ server \in Versions
    /\ allowed \in BOOLEAN
    /\ floor \in [Calls -> Versions]

\* The bound on the main queue.
Room == Len(main) < MaxEvents

Listening == listeners # <<>>
IsStarted(s) == s \in {"starting", "backoff", "open"}

Init ==
    /\ main = <<>> /\ work = <<>> /\ asked = {} /\ muted = {}
    /\ answers = [c \in Calls |-> <<>>]
    /\ listeners = <<>> /\ raised = {}
    /\ view = [version |-> 0, synced |-> FALSE]
    /\ online = "unknown" /\ timer = FALSE /\ failures = FALSE
    /\ stream = "initial" /\ idle = FALSE /\ outstanding = 0
    /\ wire = <<>> /\ replies = <<>> /\ target = "none"
    /\ server \in Versions /\ cache \in 0..server
    /\ allowed \in BOOLEAN
    /\ floor = [c \in Calls |-> 0]
-----------------------------------------------------------------------------
(***************************************************************************)
(* EventManager and OnlineStateTracker.                                    *)
(***************************************************************************)

\* AsyncEventListener::OnEvent for the listeners cs, in their order.
Events(cs, kind, v) ==
    [i \in 1..Len(cs) |-> [call |-> cs[i], kind |-> kind, version |-> v]]

\* The members of s that are in S, in the order of s.
Only(s, S) ==
    LET kept[i \in 0..Len(s)] ==
            IF i = 0 THEN <<>>
            ELSE IF s[i] \in S THEN Append(kept[i - 1], s[i]) ELSE kept[i - 1]
    IN  kept[Len(s)]

\* QueryListenersInfo::Erase: listener c is taken out, if it is there.
Erase(s, c) ==
    LET i == CHOOSE j \in 1..Len(s) : s[j] = c IN
    IF c \in Range(s) THEN SubSeq(s, 1, i - 1) \o SubSeq(s, i + 1, Len(s)) ELSE s

\* OnViewSnapshots: every listener is told of a snapshot in sync.
OnViewSnapshots(v) ==
    /\ main' = main \o Events(listeners, "server", v)
    /\ raised' = raised \cup Range(listeners)
    /\ view' = [version |-> v, synced |-> TRUE]

\* SetAndBroadcast(Offline): a view that was in sync is from cache now, and who has
\* waited for the first event is not kept waiting.
BroadcastOffline ==
    LET told == Only(listeners, {c \in Calls : view.synced \/ c \notin raised}) IN
    /\ online' = "offline"
    /\ IF online = "offline"
       THEN UNCHANGED <<main, raised, view>>
       ELSE /\ main' = main \o Events(told, "cache", view.version)
            /\ raised' = raised \cup Range(told)
            /\ view' = [view EXCEPT !.synced = FALSE]

\* Fault: the timer is not cancelled.
UpdateStateKeepsTimer(s) ==
    /\ online' = s /\ UNCHANGED timer /\ failures' = FALSE

\* UpdateState to Unknown or Online.
UpdateState(s) ==
    /\ online' = s /\ timer' = FALSE /\ failures' = FALSE

\* StartWatchStream from stream state s, with back-off after an error; then
\* HandleWatchStreamStart: with failures f nothing changes, else timer t is armed.
StartWatchStream(s, o, f, t) ==
    /\ stream' = IF s = "error" THEN "backoff" ELSE "starting"
    /\ failures' = f
    /\ online' = IF f THEN o ELSE "unknown"
    /\ timer' = (~f \/ t)

\* Close: the connection is dropped and with it the WatchChangeAggregator, which the
\* next StartWatchStream makes anew.
CloseStream ==
    /\ idle' = FALSE /\ outstanding' = 0
    /\ wire' = <<>> /\ replies' = <<>> /\ target' = "none"
-----------------------------------------------------------------------------
(***************************************************************************)
(* The app and the main queue.                                             *)
(***************************************************************************)

\* GetDocument: the listener is created and its addition posted.
GetDocument(c) ==
    /\ c \notin asked
    /\ asked' = asked \cup {c}
    /\ work' = Append(work, <<"add", c>>)
    /\ UNCHANGED <<main, muted, answers, local, status, remote, connection,
                   server, allowed, floor>>

\* Fault: what the listener was told is passed on as it is.
AnswerUnchanged(e) == [kind |-> e.kind, version |-> e.version]

\* What ListenOnce makes of an event: absence is reported only from the server.
AnswerTo(e) ==
    [kind |-> IF e.kind = "error" THEN "denied"
              ELSE IF e.version > 0 THEN "document"
              ELSE IF e.kind = "cache" THEN "offline" ELSE "absent",
     version |-> e.version]

\* Fault: the listener is removed without being muted.
RemoveUnmuted(c) ==
    /\ work' = Append(work, <<"remove", c>>)
    /\ UNCHANGED muted

\* Remove: the listener is muted at once, its removal posted to the worker queue.
Remove(c) ==
    /\ work' = Append(work, <<"remove", c>>)
    /\ muted' = muted \cup {c}

\* The next event of the main queue.  Unless muted, ListenOnce removes the listener
\* and answers the call; an error has removed the listener already.
OnEvent ==
    /\ main # <<>>
    /\ main' = Tail(main)
    /\ LET e == Head(main) IN
       IF e.call \in muted
       THEN UNCHANGED <<work, muted, answers>>
       ELSE /\ answers' = [answers EXCEPT ![e.call] = Append(@, AnswerTo(e))]
            /\ IF e.kind = "error" THEN UNCHANGED <<work, muted>> ELSE Remove(e.call)
    /\ UNCHANGED <<asked, local, status, remote, connection, server, allowed, floor>>
-----------------------------------------------------------------------------
(***************************************************************************)
(* The worker queue.                                                       *)
(***************************************************************************)

\* AddQueryListener for a query others listen to: the snapshot there is may answer it.
JoinListeners(c) ==
    LET told == IF view.synced \/ online = "offline" THEN <<c>> ELSE <<>>
        kind == IF view.synced THEN "server" ELSE "cache"
    IN
    /\ Listening
    /\ listeners' = Append(listeners, c)
    /\ main' = main \o Events(told, kind, view.version)
    /\ raised' = raised \cup Range(told)
    /\ floor' = [floor EXCEPT ![c] = floor[Head(listeners)]]
    /\ UNCHANGED <<view, status, remote, wire>>

\* Fault: the response to a listen is not waited for.
ListenUncounted ==
    IF ~IsStarted(stream)
    THEN /\ StartWatchStream(stream, online, failures, timer)
         /\ UNCHANGED <<idle, outstanding, wire>>
    ELSE /\ IF stream = "open"
            THEN wire' = Append(wire, "watch") /\ idle' = FALSE
            ELSE UNCHANGED <<wire, idle>>
         /\ UNCHANGED <<stream, status, outstanding>>

\* RemoteStore::Listen: start the stream, or send the request on an open one.
Listen ==
    IF ~IsStarted(stream)
    THEN /\ StartWatchStream(stream, online, failures, timer)
         /\ UNCHANGED <<idle, outstanding, wire>>
    ELSE /\ IF stream = "open"
            THEN /\ outstanding' = outstanding + 1
                 /\ wire' = Append(wire, "watch")
                 /\ idle' = FALSE
            ELSE UNCHANGED <<outstanding, wire, idle>>
         /\ UNCHANGED <<stream, status>>

\* AddQueryListener for the first listener: a view of what is cached, told at once
\* only when offline, and a listen.
FirstListener(c) ==
    LET told == IF online = "offline" THEN <<c>> ELSE <<>> IN
    /\ ~Listening
    /\ listeners' = <<c>>
    /\ view' = [version |-> cache, synced |-> FALSE]
    /\ main' = main \o Events(told, "cache", cache)
    /\ raised' = raised \cup Range(told)
    /\ floor' = [floor EXCEPT ![c] = server]
    /\ Listen

\* The next addition.
AddQueryListener ==
    /\ work # <<>> /\ Head(work)[1] = "add"
    /\ work' = Tail(work)
    /\ JoinListeners(Head(work)[2]) \/ FirstListener(Head(work)[2])
    /\ UNCHANGED <<asked, muted, answers, cache, replies, target, server, allowed>>

\* StopListening: on an open stream the target is removed and the idle timer armed.
StopListening ==
    IF stream = "open"
    THEN /\ outstanding' = outstanding + 1
         /\ wire' = Append(wire, "unwatch")
         /\ idle' = TRUE
         /\ UNCHANGED status
    ELSE UpdateState("unknown") /\ UNCHANGED <<outstanding, wire, idle>>

\* The next removal; the last listener stops the listen, one that an error has
\* removed already stops nothing.
RemoveQueryListener ==
    /\ work # <<>> /\ Head(work)[1] = "remove"
    /\ work' = Tail(work)
    /\ LET rest == Erase(listeners, Head(work)[2]) IN
       /\ listeners' = rest
       /\ IF Listening /\ rest = <<>>
          THEN StopListening
          ELSE UNCHANGED <<status, outstanding, wire, idle>>
    /\ UNCHANGED <<main, asked, muted, answers, raised, view, cache, stream,
                   replies, target, server, allowed, floor>>

\* Credentials arrive for this start: the stream is open, the listen is sent.
ResumeStartWithCredentials ==
    /\ stream = "starting"
    /\ stream' = "open"
    /\ IF Listening
       THEN wire' = <<"watch">> /\ outstanding' = outstanding + 1
       ELSE UNCHANGED <<wire, outstanding>>
    /\ UNCHANGED <<queues, local, status, idle, replies, target, server, allowed, floor>>

\* Fault: the stream is not started again.
CloseWithoutRestart ==
    /\ Room
    /\ CloseStream
    /\ stream' = "error"
    /\ IF Listening /\ online # "online"
       THEN BroadcastOffline /\ failures' = TRUE /\ timer' = FALSE
       ELSE UpdateState("unknown") /\ UNCHANGED <<main, raised, view>>
    /\ UNCHANGED <<work, asked, muted, answers, listeners, cache, server, allowed, floor>>

\* A close with an error, then OnWatchStreamClose: without listens the state is
\* unknown; from Online it is unknown until the timer decides; else it is offline
\* at once.
OnWatchStreamClose ==
    /\ Room
    /\ CloseStream
    /\ IF ~Listening
       THEN /\ UpdateState("unknown") /\ stream' = "error"
            /\ UNCHANGED <<main, raised, view>>
       ELSE IF online = "online"
       THEN /\ StartWatchStream("error", "unknown", failures, timer)
            /\ UNCHANGED <<main, raised, view>>
       ELSE /\ BroadcastOffline
            /\ failures' = TRUE /\ timer' = FALSE
            /\ stream' = "backoff"
    /\ UNCHANGED <<work, asked, muted, answers, listeners, cache, server, allowed, floor>>

\* There are no credentials.
CredentialsFail ==
    stream = "starting" /\ OnWatchStreamClose

\* The back-off is over: Start from the initial state.
BackoffElapsed ==
    /\ stream = "backoff"
    /\ stream' = "starting"
    /\ UNCHANGED <<queues, local, status, idle, outstanding, connection, server,
                   allowed, floor>>

\* The connection fails.
OnStreamLost ==
    stream = "open" /\ OnWatchStreamClose

\* kOnlineStateTimeout has passed without an answer.
OnlineStateTimeout ==
    /\ timer /\ Room
    /\ timer' = FALSE
    /\ BroadcastOffline
    /\ UNCHANGED <<work, asked, muted, answers, listeners, cache, failures, remote,
                   connection, server, allowed, floor>>

\* The idle timer stops the stream.
IdleTimeout ==
    /\ idle
    /\ CloseStream
    /\ UpdateState("unknown")
    /\ stream' = "initial"
    /\ UNCHANGED <<queues, local, server, allowed, floor>>

\* RestartNetwork, when the network or the credentials have changed.
RestartNetwork ==
    /\ CloseStream
    /\ IF Listening
       THEN StartWatchStream("initial", "unknown", FALSE, FALSE)
       ELSE /\ UpdateState("unknown")
            /\ stream' = "initial"
    /\ UNCHANGED <<queues, local, server, allowed, floor>>
-----------------------------------------------------------------------------
(***************************************************************************)
(* OnWatchStreamChange.  A message shows that the client is online.  It is *)
(* about the target, but maybe about an earlier listen of it.              *)
(***************************************************************************)

\* HandleTargetChange: a request has been answered.
OnTargetResponse ==
    /\ replies # <<>> /\ Head(replies) \in {Added, Removed}
    /\ replies' = Tail(replies)
    /\ outstanding' = outstanding - 1
    /\ UpdateState("online")
    /\ UNCHANGED <<queues, local, stream, idle, wire, target, server,
                   allowed, floor>>

\* Fault: answers that are still outstanding are not waited for.
ActiveAtOnce == Listening

\* TargetDataForActiveTarget: listened to, and every request has been answered.
IsActiveTarget == Listening /\ outstanding = 0

Larger(m, n) == IF m >= n THEN m ELSE n

\* The document, CURRENT and a global snapshot: cache and view are brought up to
\* date, unless the target is not active.
RaiseWatchSnapshot ==
    /\ replies # <<>> /\ Head(replies).type = "snapshot" /\ Room
    /\ replies' = Tail(replies)
    /\ UpdateState("online")
    /\ LET v == Larger(Head(replies).version, cache) IN
       IF ~IsActiveTarget
       THEN UNCHANGED <<main, raised, view, cache>>
       ELSE /\ cache' = v
            /\ IF view = [version |-> v, synced |-> TRUE]
               THEN UNCHANGED <<main, raised, view>>
               ELSE OnViewSnapshots(v)
    /\ UNCHANGED <<work, asked, muted, answers, listeners, remote, wire, target, server,
                   allowed, floor>>

\* ProcessTargetError: every listener is told and removed, unless there are none.
ProcessTargetError ==
    /\ replies # <<>> /\ Head(replies) = Rejected
    /\ replies' = Tail(replies)
    /\ UpdateState("online")
    /\ main' = main \o Events(listeners, "error", 0)
    /\ listeners' = <<>>
    /\ outstanding' = IF Listening THEN 0 ELSE outstanding
    /\ UNCHANGED <<work, asked, muted, answers, raised, view, cache, stream, idle,
                   wire, target, server, allowed, floor>>
-----------------------------------------------------------------------------
(***************************************************************************)
(* The server.                                                             *)
(***************************************************************************)
ServerWatch ==
    /\ wire # <<>> /\ Head(wire) = "watch"
    /\ wire' = Tail(wire)
    /\ replies' = Append(replies, IF allowed THEN Added ELSE Rejected)
    /\ target' = IF allowed THEN "stale" ELSE "none"
    /\ UNCHANGED <<queues, local, status, remote, server, allowed, floor>>

ServerUnwatch ==
    /\ wire # <<>> /\ Head(wire) = "unwatch"
    /\ wire' = Tail(wire)
    /\ replies' = Append(replies, Removed)
    /\ target' = "none"
    /\ UNCHANGED <<queues, local, status, remote, server, allowed, floor>>

ServerSnapshot ==
    /\ target = "stale"
    /\ replies' = Append(replies, Snapshot(server))
    /\ target' = "current"
    /\ UNCHANGED <<queues, local, status, remote, wire, server, allowed, floor>>

\* Another phone writes the document.
ServerChange ==
    /\ server < MaxVersion
    /\ server' = server + 1
    /\ target' = IF target = "current" THEN "stale" ELSE target
    /\ UNCHANGED <<queues, local, status, remote, wire, replies, allowed, floor>>

\* What goes on beside the app's main queue.
Background ==
    \/ AddQueryListener \/ RemoveQueryListener
    \/ ResumeStartWithCredentials \/ CredentialsFail
    \/ BackoffElapsed \/ OnlineStateTimeout \/ IdleTimeout
    \/ OnStreamLost \/ RestartNetwork
    \/ OnTargetResponse \/ RaiseWatchSnapshot \/ ProcessTargetError
    \/ ServerWatch \/ ServerUnwatch \/ ServerSnapshot \/ ServerChange

Next == (\E c \in Calls : GetDocument(c)) \/ OnEvent \/ Background

Spec == Init /\ [][Next]_vars

(***************************************************************************)
(* Fairness of the phone itself: both queues are worked off, timers run    *)
(* out, credentials arrive or do not.                                      *)
(***************************************************************************)
LocalFairness ==
    /\ WF_vars(OnEvent)
    /\ WF_vars(AddQueryListener \/ RemoveQueryListener)
    /\ WF_vars(BackoffElapsed)
    /\ SF_vars(OnlineStateTimeout)
    /\ SF_vars(ResumeStartWithCredentials \/ CredentialsFail)

LocalFairSpec == Spec /\ LocalFairness
-----------------------------------------------------------------------------
\* A getDocument callback is called at most once, although events go on being
\* posted until the worker queue has removed the listener.
AnsweredOnce == \A c \in Calls : Len(answers[c]) <= 1

\* An answer from the server is not older than the document was when the listen
\* that answers it began: snapshots that the server sent for an earlier listen of
\* the same target are not taken for answers.  So absence is reported only of a
\* document that did not exist then.
AnswersAreFresh ==
    \A c \in Calls : \A i \in 1..Len(answers[c]) :
        answers[c][i].kind = "absent" => floor[c] = 0

\* Whenever a handler can run, its HARD_ASSERTs hold: the timer finds the state
\* unknown, is not armed twice, and is not set once the client is online; the idle
\* timer finds no listen.
AssertionsHold ==
    /\ timer => online = "unknown" /\ IsStarted(stream)
    /\ online = "online" => ~failures
    /\ idle => stream = "open" /\ ~Listening

\* Where in rs the responses to requests are.
Responses(rs) == {i \in 1..Len(rs) : rs[i] \in {Added, Removed}}

\* outstanding_responses_ counts exactly the requests without a response, over any
\* sequence of listens and removals on one connection: a count too high would make
\* the client deaf to the target for good, one too low makes it hear old snapshots.
\* (A rejection resets the count, and rules that reject once reject again.)
OutstandingIsExact ==
    stream = "open" /\ allowed => outstanding = Len(wire) + Cardinality(Responses(replies))

\* The last response on the connection is followed by a snapshot.
SnapshotArrives ==
    \E i \in 1..Len(replies) :
        /\ replies[i].type = "snapshot"
        /\ \A j \in (i + 1)..Len(replies) : replies[j] \notin {Added, Removed}

\* A call that is not answered is never forgotten: it waits in one of the two queues,
\* or it listens, to a stream that is being started or on which its answer is coming.
AnswerIsComing ==
    \A c \in asked : answers[c] = <<>> =>
        \/ <<"add", c>> \in Range(work)
        \/ \E i \in 1..Len(main) : main[i].call = c
        \/ /\ c \in Range(listeners)
           /\ \/ stream \in {"starting", "backoff"}
              \/ /\ stream = "open"
                 /\ \/ wire # <<>> /\ wire[Len(wire)] = "watch"
                    \/ target = "stale" \/ SnapshotArrives
                    \/ Rejected \in Range(replies)

\* As the comment at kOnlineStateTimeout has it: while a document is listened to, the
\* state does not stay unknown, even if the stream neither succeeds nor fails.
StateIsDecided == Listening /\ online = "unknown" ~> online # "unknown" \/ ~Listening
=============================================================================
