----------------------------- MODULE HttpThread -----------------------------
(***************************************************************************)
(* The HTTP client thread (networking/http_thread.rs) and the requests it  *)
(* runs (networking/common/https.zig).                                     *)
(*                                                                         *)
(* Client threads hand requests, aborts, body writes and body drains to    *)
(* one HTTP thread through queues, and wake its event loop.  The HTTP      *)
(* thread alternates drain_events, one phase per queue, with a tick of the *)
(* event loop, in which it sleeps until it is woken or a socket has news.  *)
(* At most MaxRequests requests are in flight; the others are deferred.    *)
(*                                                                         *)
(* Each request has one client thread.  A batch of several tasks handed to *)
(* schedule is several requests whose clients push and then wake.          *)
(***************************************************************************)
EXTENDS Naturals, Sequences, FiniteSets

CONSTANTS
    Reqs,         \* the requests (AsyncHTTP objects, by async_http_id)
    MaxRequests,  \* max_simultaneous_requests
    MaxWrites,    \* bound: body writes a client schedules per request
    MaxDrains     \* bound: response body drains scheduled per request

\* loadEnv (https.zig) refuses a limit of zero.
ASSUME MaxRequestsAssumption == MaxRequests \in Nat \ {0}
ASSUME BoundsAssumption == MaxWrites \in Nat /\ MaxDrains \in Nat
ASSUME ReqsAssumption == IsFiniteSet(Reqs)

VARIABLES
    \* the HTTP thread
    pc,               \* phase of process_events / drain_events
    hasAwoken,        \* has_awoken
    wakeup,           \* a wakeup of the uws loop is pending
    polled,           \* the current tick has dispatched a socket event
    deferred,         \* deferred_tasks
    hasPendingAbort,  \* has_pending_queued_abort
    active,           \* active_requests_count
    seen,             \* the copy drain_events decides on, 0 outside its tail
    batch,            \* what the phase took from its queue and has not handled
    writeBatch,       \* the same for queued_writes
    where,            \* how the HTTP thread finds a request that was started
    \* shared with the client threads
    queuedTasks, queuedShutdowns, queuedWrites, queuedDrains,
    aborted,          \* signals.aborted
    state,            \* AsyncHTTP.state
    \* the client threads
    cpc,              \* what the client still has to do in the current call
    writes, drains,   \* calls made so far
    endSent,          \* the client has scheduled the End of the request body
    ended             \* stream.ended, as the HTTP thread sees it

threadVars == <<pc, hasAwoken, polled, deferred, hasPendingAbort, active, seen,
                batch, writeBatch, where, ended>>
queueVars  == <<queuedTasks, queuedShutdowns, queuedWrites, queuedDrains>>
clientVars == <<cpc, writes, drains, endSent, aborted>>
vars == <<threadVars, wakeup, queueVars, clientVars, state>>

Phases == {"boot", "bodies", "writes", "shutdowns", "tail", "deferred",
           "queue", "tick"}
States == {"pending", "scheduled", "sending", "success", "fail"}
Done   == {"success", "fail"}

\* Entries of the abort tracker: a socket tagged with a client ("h1"; "shut"
\* when it is closed or shut down), with an HTTP/2 session ("h2"), or with
\* neither, the request being over ("stale").
Tracked == {"h1", "shut", "h2", "stale"}
\* A started request that is not tracked is still connecting, waits for an
\* HTTP/2 connection or is an HTTP/3 stream.
Places == Tracked \cup {"none", "conn", "h2wait", "h3"}

\* Started, and its final callback has not run: counted by active.  state does
\* not tell, since every successful progress report already sets it.
InFlight(r) == where[r] \in Places \ {"none", "stale"}

WriteMessage == [req : Reqs, kind : {"Data", "End"}]

Elems(s) == {s[i] : i \in DOMAIN s}

Init ==
    /\ pc = "boot" /\ hasAwoken = FALSE /\ wakeup = FALSE /\ polled = FALSE
    /\ deferred = <<>> /\ hasPendingAbort = FALSE /\ active = 0 /\ seen = 0
    /\ batch = <<>> /\ writeBatch = <<>>
    /\ where = [r \in Reqs |-> "none"]
    /\ queuedTasks = <<>> /\ queuedShutdowns = <<>>
    /\ queuedWrites = <<>> /\ queuedDrains = <<>>
    /\ aborted = [r \in Reqs |-> FALSE]
    /\ state = [r \in Reqs |-> "pending"]
    /\ cpc = [r \in Reqs |-> "idle"]
    /\ writes = [r \in Reqs |-> 0] /\ drains = [r \in Reqs |-> 0]
    /\ endSent = [r \in Reqs |-> FALSE] /\ ended = [r \in Reqs |-> FALSE]

-----------------------------------------------------------------------------
(* Client threads: every call pushes under the queue's lock, then wakes.   *)

Schedule(r) ==
    /\ cpc[r] = "idle" /\ state[r] = "pending"
    /\ state' = [state EXCEPT ![r] = "scheduled"]
    /\ queuedTasks' = Append(queuedTasks, r)
    /\ cpc' = [cpc EXCEPT ![r] = "wake"]
    /\ UNCHANGED <<threadVars, wakeup, queuedShutdowns, queuedWrites,
                   queuedDrains, writes, drains, endSent, aborted>>

\* The caller raises the abort signal, then calls schedule_shutdown.
Abort(r) ==
    /\ cpc[r] = "idle" /\ state[r] # "pending" /\ ~aborted[r]
    /\ aborted' = [aborted EXCEPT ![r] = TRUE]
    /\ cpc' = [cpc EXCEPT ![r] = "abort"]
    /\ UNCHANGED <<threadVars, wakeup, queueVars, writes, drains, endSent, state>>

ScheduleShutdown(r) ==
    /\ cpc[r] = "abort"
    /\ queuedShutdowns' = Append(queuedShutdowns, r)
    /\ cpc' = [cpc EXCEPT ![r] = "wake"]
    /\ UNCHANGED <<threadVars, wakeup, queuedTasks, queuedWrites, queuedDrains,
                   writes, drains, endSent, aborted, state>>

\* A client writes nothing after the End of its body.
ScheduleRequestWrite(r, kind) ==
    /\ cpc[r] = "idle" /\ state[r] # "pending"
    /\ ~endSent[r] /\ writes[r] < MaxWrites
    /\ queuedWrites' = Append(queuedWrites, [req |-> r, kind |-> kind])
    /\ writes' = [writes EXCEPT ![r] = @ + 1]
    /\ endSent' = [endSent EXCEPT ![r] = (kind = "End")]
    /\ cpc' = [cpc EXCEPT ![r] = "wake"]
    /\ UNCHANGED <<threadVars, wakeup, queuedTasks, queuedShutdowns,
                   queuedDrains, drains, aborted, state>>

ScheduleResponseBodyDrain(r) ==
    /\ cpc[r] = "idle" /\ state[r] # "pending" /\ drains[r] < MaxDrains
    /\ queuedDrains' = Append(queuedDrains, r)
    /\ drains' = [drains EXCEPT ![r] = @ + 1]
    /\ cpc' = [cpc EXCEPT ![r] = "wake"]
    /\ UNCHANGED <<threadVars, wakeup, queuedTasks, queuedShutdowns,
                   queuedWrites, writes, endSent, aborted, state>>

\* Mutant: the store of has_awoken is never seen.
WakeupUnseen(r) ==
    /\ cpc[r] = "wake"
    /\ cpc' = [cpc EXCEPT ![r] = "idle"]
    /\ UNCHANGED <<threadVars, wakeup, queueVars, writes, drains, endSent, aborted, state>>

Wakeup(r) ==
    /\ cpc[r] = "wake"
    /\ cpc' = [cpc EXCEPT ![r] = "idle"]
    /\ wakeup' = (wakeup \/ hasAwoken)
    /\ UNCHANGED <<threadVars, queueVars, writes, drains, endSent, aborted, state>>

Client(r) ==
    \/ Schedule(r)
    \/ Abort(r)
    \/ ScheduleShutdown(r)
    \/ \E kind \in {"Data", "End"} : ScheduleRequestWrite(r, kind)
    \/ ScheduleResponseBodyDrain(r)
    \/ Wakeup(r)

-----------------------------------------------------------------------------
(* The HTTP thread.  The callbacks of a request run on it, out of a tick   *)
(* or out of a call drain_events makes into the request's client.          *)

\* on_start, up to the loop of process_events.
OnStart ==
    /\ pc = "boot"
    /\ hasAwoken' = TRUE
    /\ pc' = "bodies"
    /\ UNCHANGED <<wakeup, polled, deferred, hasPendingAbort, active, seen, batch,
                   writeBatch, where, ended, queueVars, clientVars, state>>

\* The end of onAsyncHTTPCallback: wake the loop when there is a request to
\* start and a slot to start it in.
CallbackWakeup(tasks, count) ==
    wakeup' = (wakeup \/ ((tasks # <<>> \/ deferred # <<>>) /\ count < MaxRequests))

\* onAsyncHTTPCallback of a request in flight, without has_more.
OnAsyncHTTPCallback(r, result, place) ==
    /\ state' = [state EXCEPT ![r] = result]
    /\ where' = [where EXCEPT ![r] = place]
    /\ active' = active - 1
    /\ CallbackWakeup(queuedTasks, active - 1)

\* What the client of a request in flight reports before a call into it
\* returns: nothing, part of the response (has_more), or the end.
Report(r) ==
    \/ UNCHANGED <<state, where, active, wakeup>>
    \/ /\ state' = [state EXCEPT ![r] = "success"]
       /\ CallbackWakeup(queuedTasks, active)
       /\ UNCHANGED <<where, active>>
    \/ \E result \in Done, place \in {"none", "stale"} :
          OnAsyncHTTPCallback(r, result, place)

\* start_queued_task: count the request and start its client, which finishes
\* it at once when it was aborted or cannot connect; tasks is the queue it was
\* taken from.
StartQueuedTask(r, tasks) ==
    \/ /\ state' = [state EXCEPT ![r] = "fail"]
       /\ CallbackWakeup(tasks, active)
       /\ UNCHANGED <<where, active>>
    \/ /\ ~aborted[r]
       /\ \E place \in {"conn", "h1", "h2", "h2wait", "h3"} :
             where' = [where EXCEPT ![r] = place]
       /\ state' = [state EXCEPT ![r] = "sending"]
       /\ active' = active + 1
       /\ UNCHANGED wakeup

\* drain_queued_http_response_body_drains: the client, or the stream of a
\* session, is asked for what it holds of the response and may report it, the
\* end included; a request that is not tracked is skipped.
TakeDrains ==
    /\ pc = "bodies" /\ batch = <<>>
    /\ batch' = queuedDrains
    /\ queuedDrains' = <<>>
    /\ pc' = IF queuedDrains = <<>> THEN "writes" ELSE "bodies"
    /\ UNCHANGED <<hasAwoken, wakeup, polled, deferred, hasPendingAbort, active, seen,
                   writeBatch, where, ended, queuedTasks, queuedShutdowns,
                   queuedWrites, clientVars, state>>

HandleDrain ==
    /\ pc = "bodies" /\ batch # <<>>
    /\ batch' = Tail(batch)
    /\ LET r == Head(batch)
       IN  IF where[r] \in {"h1", "shut", "h2"}
           THEN Report(r)
           ELSE UNCHANGED <<state, where, active, wakeup>>
    /\ UNCHANGED <<pc, hasAwoken, polled, deferred, hasPendingAbort, seen,
                   writeBatch, ended, queueVars, clientVars>>

TakeWrites ==
    /\ pc = "writes" /\ writeBatch = <<>>
    /\ writeBatch' = queuedWrites
    /\ queuedWrites' = <<>>
    /\ pc' = IF queuedWrites = <<>> THEN "shutdowns" ELSE "writes"
    /\ UNCHANGED <<hasAwoken, wakeup, polled, deferred, hasPendingAbort, active, seen,
                   batch, where, ended, queuedTasks, queuedShutdowns,
                   queuedDrains, clientVars, state>>

\* A write reaches the stream of a client, a session or an HTTP/3 stream, which
\* is flushed; one for a request that is not connected, or whose socket is
\* shut, is dropped.
HandleWrite ==
    /\ pc = "writes" /\ writeBatch # <<>>
    /\ writeBatch' = Tail(writeBatch)
    /\ LET w == Head(writeBatch)
       IN  IF where[w.req] \in {"h1", "h2", "h3"}
           THEN /\ ended' = [ended EXCEPT ![w.req] = (w.kind = "End")]
                /\ Report(w.req)
           ELSE UNCHANGED <<ended, state, where, active, wakeup>>
    /\ UNCHANGED <<pc, hasAwoken, polled, deferred, hasPendingAbort, seen, batch,
                   queueVars, clientVars>>

TakeShutdowns ==
    /\ pc = "shutdowns" /\ batch = <<>>
    /\ batch' = queuedShutdowns
    /\ queuedShutdowns' = <<>>
    /\ pc' = IF queuedShutdowns = <<>> THEN "tail" ELSE "shutdowns"
    /\ UNCHANGED <<hasAwoken, wakeup, polled, deferred, hasPendingAbort, active, seen,
                   writeBatch, where, ended, queuedTasks, queuedWrites,
                   queuedDrains, clientVars, state>>

\* One shutdown message: a request in flight fails now; a stale socket is
\* closed and forgotten; otherwise the request is looked for in the queues.
\* abort_pending_h2_waiter finds a request that waits for an HTTP/2 connection
\* unless its custom TLS context was evicted from the cache meanwhile.
HandleShutdown ==
    /\ pc = "shutdowns" /\ batch # <<>>
    /\ batch' = Tail(batch)
    /\ LET r == Head(batch)
       IN  \/ /\ where[r] \in {"h1", "shut", "h2", "h2wait", "h3"}
              /\ OnAsyncHTTPCallback(r, "fail", "none")
              /\ UNCHANGED hasPendingAbort
           \/ /\ where[r] = "stale"
              /\ where' = [where EXCEPT ![r] = "none"]
              /\ UNCHANGED <<state, active, wakeup, hasPendingAbort>>
           \/ /\ where[r] \in {"none", "conn", "h2wait"}
              /\ hasPendingAbort' = TRUE
              /\ UNCHANGED <<state, active, wakeup, where>>
    /\ UNCHANGED <<pc, hasAwoken, polled, deferred, seen, writeBatch, ended,
                   queueVars, clientVars>>

\* Mutant: at the limit there is nothing to do.
StartTailAtLimit ==
    /\ pc = "tail"
    /\ hasPendingAbort' = FALSE
    /\ IF active >= MaxRequests
       THEN /\ pc' = "tick"
            /\ UNCHANGED <<batch, deferred, seen>>
       ELSE /\ pc' = "deferred"
            /\ seen' = active
            /\ batch' = deferred
            /\ deferred' = <<>>
    /\ UNCHANGED <<hasAwoken, wakeup, polled, active, writeBatch, where, ended,
                   queueVars, clientVars, state>>

\* The rest of drain_events: nothing to do at the limit, unless an aborted
\* request may be waiting; otherwise go through the deferred requests.  It
\* decides on a copy of active_requests_count, read here and again after each
\* request it starts.
StartTail ==
    /\ pc = "tail"
    /\ hasPendingAbort' = FALSE
    /\ IF active >= MaxRequests /\ ~hasPendingAbort
       THEN /\ pc' = "tick"
            /\ UNCHANGED <<batch, deferred, seen>>
       ELSE /\ pc' = "deferred"
            /\ seen' = active
            /\ batch' = deferred
            /\ deferred' = <<>>
    /\ UNCHANGED <<hasAwoken, wakeup, polled, active, writeBatch, where, ended,
                   queueVars, clientVars, state>>

MayStart(r) == aborted[r] \/ seen < MaxRequests

\* Mutant: what cannot start yet is put in front.
HandleDeferredFront ==
    /\ pc = "deferred" /\ batch # <<>>
    /\ batch' = Tail(batch)
    /\ LET r == Head(batch)
       IN  IF MayStart(r)
           THEN StartQueuedTask(r, queuedTasks) /\ seen' = active' /\ UNCHANGED deferred
           ELSE /\ deferred' = <<r>> \o deferred
                /\ UNCHANGED <<state, where, active, seen, wakeup>>
    /\ UNCHANGED <<pc, hasAwoken, polled, hasPendingAbort, writeBatch, ended,
                   queueVars, clientVars>>

HandleDeferred ==
    /\ pc = "deferred" /\ batch # <<>>
    /\ batch' = Tail(batch)
    /\ LET r == Head(batch)
       IN  IF MayStart(r)
           THEN StartQueuedTask(r, queuedTasks) /\ seen' = active' /\ UNCHANGED deferred
           ELSE /\ deferred' = Append(deferred, r)
                /\ UNCHANGED <<state, where, active, seen, wakeup>>
    /\ UNCHANGED <<pc, hasAwoken, polled, hasPendingAbort, writeBatch, ended,
                   queueVars, clientVars>>

EndDeferred ==
    /\ pc = "deferred" /\ batch = <<>>
    /\ pc' = "queue"
    /\ UNCHANGED <<hasAwoken, wakeup, polled, deferred, hasPendingAbort, active, seen,
                   batch, writeBatch, where, ended, queueVars, clientVars, state>>

\* Mutant: a request popped at the limit is forgotten.
PopQueuedTaskDropped ==
    /\ pc = "queue" /\ queuedTasks # <<>>
    /\ queuedTasks' = Tail(queuedTasks)
    /\ LET r == Head(queuedTasks)
       IN  IF MayStart(r)
           THEN StartQueuedTask(r, Tail(queuedTasks)) /\ seen' = active'
           ELSE UNCHANGED <<state, where, active, seen, wakeup>>
    /\ UNCHANGED <<pc, hasAwoken, polled, deferred, hasPendingAbort, batch,
                   writeBatch, ended, queuedShutdowns, queuedWrites,
                   queuedDrains, clientVars>>

\* Mutant: the copy is not read again after a request was started.
PopQueuedTaskStale ==
    /\ pc = "queue" /\ queuedTasks # <<>>
    /\ queuedTasks' = Tail(queuedTasks)
    /\ LET r == Head(queuedTasks)
       IN  IF MayStart(r)
           THEN StartQueuedTask(r, Tail(queuedTasks)) /\ UNCHANGED <<deferred, seen>>
           ELSE /\ deferred' = Append(deferred, r)
                /\ UNCHANGED <<state, where, active, seen, wakeup>>
    /\ UNCHANGED <<pc, hasAwoken, polled, hasPendingAbort, batch, writeBatch,
                   ended, queuedShutdowns, queuedWrites, queuedDrains, clientVars>>

PopQueuedTask ==
    /\ pc = "queue" /\ queuedTasks # <<>>
    /\ queuedTasks' = Tail(queuedTasks)
    /\ LET r == Head(queuedTasks)
       IN  IF MayStart(r)
           THEN StartQueuedTask(r, Tail(queuedTasks)) /\ seen' = active' /\ UNCHANGED deferred
           ELSE /\ deferred' = Append(deferred, r)
                /\ UNCHANGED <<state, where, active, seen, wakeup>>
    /\ UNCHANGED <<pc, hasAwoken, polled, hasPendingAbort, batch, writeBatch,
                   ended, queuedShutdowns, queuedWrites, queuedDrains, clientVars>>

EndQueue ==
    /\ pc = "queue" /\ queuedTasks = <<>>
    /\ pc' = "tick"
    /\ seen' = 0
    /\ UNCHANGED <<hasAwoken, wakeup, polled, deferred, hasPendingAbort, active,
                   batch, writeBatch, where, ended, queueVars, clientVars, state>>

\* The tick returns once it was woken or dispatched an event.
EndTick ==
    /\ pc = "tick" /\ (wakeup \/ polled)
    /\ pc' = "bodies"
    /\ wakeup' = FALSE /\ polled' = FALSE
    /\ UNCHANGED <<hasAwoken, deferred, hasPendingAbort, active, seen, batch,
                   writeBatch, where, ended, queueVars, clientVars, state>>

Thread ==
    \/ OnStart
    \/ TakeDrains    \/ HandleDrain
    \/ TakeWrites    \/ HandleWrite
    \/ TakeShutdowns \/ HandleShutdown
    \/ StartTail     \/ HandleDeferred \/ EndDeferred
    \/ PopQueuedTask \/ EndQueue
    \/ EndTick

-----------------------------------------------------------------------------
(* Events of the network, dispatched by the tick.                          *)

\* The response is complete or the connection is lost; the tracker may keep
\* the socket for a while.
Complete(r) ==
    /\ pc = "tick" /\ InFlight(r)
    /\ \E result \in Done, place \in {"none", "stale"} :
          OnAsyncHTTPCallback(r, result, place)
    /\ polled' = TRUE
    /\ UNCHANGED <<pc, hasAwoken, deferred, hasPendingAbort, seen, batch,
                   writeBatch, ended, queueVars, clientVars>>

\* onAsyncHTTPCallback with has_more: part of the response arrived.
Progress(r) ==
    /\ pc = "tick" /\ InFlight(r)
    /\ state' = [state EXCEPT ![r] = "success"]
    /\ CallbackWakeup(queuedTasks, active)
    /\ polled' = TRUE
    /\ UNCHANGED <<pc, hasAwoken, deferred, hasPendingAbort, active, seen, batch,
                   writeBatch, where, ended, queueVars, clientVars>>

\* A socket is open; the HTTP/2 connection a request waits for is up; a socket
\* is shut down, or forgotten by the tracker once its request is over.
Moved == {<<"conn", "h1">>, <<"conn", "h2">>, <<"h2wait", "h2">>,
          <<"h2wait", "h1">>, <<"h1", "shut">>, <<"stale", "none">>}

SocketMoves(r) ==
    /\ pc = "tick"
    /\ \E m \in Moved : where[r] = m[1] /\ where' = [where EXCEPT ![r] = m[2]]
    /\ polled' = TRUE
    /\ UNCHANGED <<pc, hasAwoken, wakeup, deferred, hasPendingAbort, active, seen,
                   batch, writeBatch, ended, queueVars, clientVars, state>>

Network(r) == Complete(r) \/ Progress(r) \/ SocketMoves(r)

Next == Thread \/ \E r \in Reqs : Client(r) \/ Network(r)

\* The HTTP thread and a client inside a call keep running.  Nothing is
\* promised of the network.
Fairness ==
    /\ WF_vars(Thread)
    /\ \A r \in Reqs : WF_vars(ScheduleShutdown(r) \/ Wakeup(r))

Spec == Init /\ [][Next]_vars /\ Fairness

\* Every request in flight ends, by an answer or by the idle timeout that
\* on_start configures.  The network acts during the ticks only, hence the
\* strong fairness.
Answering == \A r \in Reqs : SF_vars(Complete(r))
-----------------------------------------------------------------------------
(* Properties.                                                             *)

TypeOK ==
    /\ pc \in Phases
    /\ hasAwoken \in BOOLEAN /\ wakeup \in BOOLEAN /\ polled \in BOOLEAN
    /\ hasPendingAbort \in BOOLEAN
    /\ active \in Nat /\ seen \in Nat
    /\ deferred \in Seq(Reqs) /\ batch \in Seq(Reqs)
    /\ queuedTasks \in Seq(Reqs) /\ queuedShutdowns \in Seq(Reqs)
    /\ queuedDrains \in Seq(Reqs)
    /\ queuedWrites \in Seq(WriteMessage) /\ writeBatch \in Seq(WriteMessage)
    /\ where \in [Reqs -> Places]
    /\ state \in [Reqs -> States]
    /\ cpc \in [Reqs -> {"idle", "abort", "wake"}]
    /\ writes \in [Reqs -> 0..MaxWrites] /\ drains \in [Reqs -> 0..MaxDrains]
    /\ aborted \in [Reqs -> BOOLEAN]
    /\ endSent \in [Reqs -> BOOLEAN] /\ ended \in [Reqs -> BOOLEAN]

\* active_requests_count is the number of requests in flight and stays within
\* max_simultaneous_requests, although aborted requests are started above the
\* limit and onAsyncHTTPCallback asserts that the count is positive.
ActiveIsInFlight ==
    active = Cardinality({r \in Reqs : InFlight(r)}) /\ active <= MaxRequests

\* While drain_events decides whom to start, its copy of the count is right.
CopyIsRight == pc \in {"deferred", "queue"} => seen = active

\* The count and its copy are right, and the variables keep their types.
Counted == TypeOK /\ ActiveIsInFlight /\ CopyIsRight

\* The event loop is asleep, and no client is about to wake it.
Asleep == pc = "tick" /\ ~wakeup /\ ~polled /\ \A r \in Reqs : cpc[r] = "idle"

\* No wakeup is lost: when the loop sleeps no message is left in a queue, a
\* request waits only for want of a slot, and no waiting request is aborted.
\* This is what has_awoken and has_pending_queued_abort are for.  The wakeup at
\* the end of onAsyncHTTPCallback is not needed for it: the callback runs inside
\* a tick, which returns after it, or before drain_events looks at the queues.
NoLostWakeup ==
    Asleep =>
        /\ queuedShutdowns = <<>> /\ queuedWrites = <<>> /\ queuedDrains = <<>>
        /\ queuedTasks # <<>> \/ deferred # <<>> => active >= MaxRequests
        /\ \A r \in Reqs : ~(state[r] = "scheduled" /\ aborted[r])

\* Something will end the sleep of the event loop.
Waking == wakeup \/ polled \/ \E r \in Reqs : cpc[r] = "wake"

\* Why no wakeup is lost: a message in a queue is announced, or the thread has
\* yet to look into that queue before it sleeps; a request that could start is
\* announced, or the thread is on its way to it.
QueuesAnnounced ==
    /\ hasAwoken = (pc # "boot")
    /\ queuedDrains # <<>> => Waking \/ pc \in {"boot", "bodies"}
    /\ queuedWrites # <<>> => Waking \/ pc \in {"boot", "bodies", "writes"}
    /\ queuedShutdowns # <<>> =>
          Waking \/ pc \in {"boot", "bodies", "writes", "shutdowns"}
    /\ queuedTasks # <<>> => Waking \/ pc # "tick" \/ active >= MaxRequests
    /\ deferred # <<>> =>
          \/ Waking
          \/ pc \in {"boot", "bodies", "writes", "shutdowns", "tail"}
          \/ active >= MaxRequests

\* The requests drain_events took from deferred_tasks and has not handled.
Taken == IF pc = "deferred" THEN batch ELSE <<>>

\* An aborted request that waits is about to be noticed: its shutdown message
\* is on its way, was turned into has_pending_queued_abort, or the thread is
\* going through the requests that wait.
AbortsNoticed ==
    /\ hasPendingAbort => pc \in {"shutdowns", "tail"}
    /\ \A r \in Reqs : aborted[r] => state[r] # "pending"
    /\ \A r \in Reqs : state[r] = "scheduled" /\ aborted[r] =>
          \/ cpc[r] = "abort"
          \/ r \in Elems(queuedShutdowns)
          \/ pc = "shutdowns" /\ r \in Elems(batch)
          \/ hasPendingAbort
          \/ r \in Elems(Taken)
          \/ pc \in {"deferred", "queue"} /\ r \in Elems(queuedTasks)

NoDuplicates(s) == \A i, j \in DOMAIN s : s[i] = s[j] => i = j

\* Nothing that waits is lost or there twice, and nothing that waits has a
\* socket: the scheduled requests are those of the two queues and of what
\* drain_events took.
WaitersAccounted ==
    /\ Elems(deferred) \cup Elems(Taken) \cup Elems(queuedTasks)
          = {r \in Reqs : state[r] = "scheduled"}
    /\ NoDuplicates(deferred) /\ NoDuplicates(Taken) /\ NoDuplicates(queuedTasks)
    /\ Elems(deferred) \cap Elems(Taken) = {}
    /\ Elems(deferred) \cap Elems(queuedTasks) = {}
    /\ Elems(Taken) \cap Elems(queuedTasks) = {}
    /\ \A r \in Reqs : state[r] \in {"pending", "scheduled"} => where[r] = "none"

\* The requests waiting to be started, in the order they will be.
WaitLine == deferred \o Taken \o queuedTasks

\* A request as its client sees it.
StatusOf(r) ==
    IF state[r] = "pending" THEN "idle"
    ELSE IF state[r] = "scheduled" THEN "waiting"
    ELSE IF InFlight(r) THEN "running" ELSE "done"

Status == [r \in Reqs |-> StatusOf(r)]

\* The two queues, what drain_events took from one of them, the limit and the
\* aborts amount to a single line: deferring keeps the order of arrival, nobody
\* overtakes, and an aborted request that waits never runs.
Queue == INSTANCE RequestQueue WITH line <- WaitLine, status <- Status
ImplementsRequestQueue == Queue!Spec

Finished(r) == state[r] \in Done /\ ~InFlight(r)

\* A request that is aborted while it waits fails, even if every request in
\* flight hangs and the limit is never free again.
AbortedWaiterEnds ==
    \A r \in Reqs : (state[r] = "scheduled" /\ aborted[r]) ~> Finished(r)

\* When the requests in flight end, every scheduled request is done at last.
ScheduledIsServed ==
    Answering => \A r \in Reqs : (state[r] = "scheduled") ~> Finished(r)
=============================================================================
