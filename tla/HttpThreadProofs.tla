-------------------------- MODULE HttpThreadProofs --------------------------
(***************************************************************************)
(* Proofs about HttpThread for any finite set of requests, any limit and   *)
(* any number of writes and drains: its invariants and action properties,  *)
(* and that it implements RequestQueue.                                    *)
(***************************************************************************)
EXTENDS HttpThread, FiniteSetTheorems, SequenceTheorems, TLAPS

(* Queues as sequences. *)

\* Pushing adds the element and nothing else.
LEMMA AppendElems ==
    ASSUME NEW S, NEW s \in Seq(S), NEW e \in S
    PROVE  /\ Append(s, e) \in Seq(S)
           /\ Append(s, e) # <<>>
           /\ Elems(Append(s, e)) = Elems(s) \cup {e}
           /\ NoDuplicates(s) /\ e \notin Elems(s) => NoDuplicates(Append(s, e))
<1>1. /\ Append(s, e) \in Seq(S)
      /\ Len(Append(s, e)) = Len(s) + 1
      /\ DOMAIN Append(s, e) = 1..(Len(s) + 1)
      /\ DOMAIN s = 1..Len(s)
      /\ Len(s) \in Nat
      /\ \A i \in 1..Len(s) : Append(s, e)[i] = s[i]
      /\ Append(s, e)[Len(s) + 1] = e
  OBVIOUS
<1>2. Append(s, e) # <<>>
  BY <1>1
<1>3. Elems(Append(s, e)) = Elems(s) \cup {e}
  <2>1. ASSUME NEW x \in Elems(Append(s, e))
        PROVE  x \in Elems(s) \cup {e}
    BY <1>1 DEF Elems
  <2>2. ASSUME NEW x \in Elems(s) \cup {e}
        PROVE  x \in Elems(Append(s, e))
    BY <1>1 DEF Elems
  <2> QED BY <2>1, <2>2
<1>4. NoDuplicates(s) /\ e \notin Elems(s) => NoDuplicates(Append(s, e))
  BY <1>1 DEF Elems, NoDuplicates
<1> QED BY <1>1, <1>2, <1>3, <1>4

\* Popping removes the head and, when it is there once, nothing else.
LEMMA TailElems ==
    ASSUME NEW S, NEW s \in Seq(S), s # <<>>
    PROVE  /\ Tail(s) \in Seq(S)
           /\ Head(s) \in S
           /\ Head(s) \in Elems(s)
           /\ Elems(s) = {Head(s)} \cup Elems(Tail(s))
           /\ NoDuplicates(s) => /\ NoDuplicates(Tail(s))
                                 /\ Head(s) \notin Elems(Tail(s))
<1>1. /\ Tail(s) \in Seq(S)
      /\ Len(s) \in Nat /\ Len(s) >= 1
      /\ DOMAIN s = 1..Len(s)
      /\ DOMAIN Tail(s) = 1..(Len(s) - 1)
      /\ \A i \in 1..(Len(s) - 1) : Tail(s)[i] = s[i + 1]
      /\ Head(s) = s[1]
  OBVIOUS
<1>2. Head(s) \in S /\ Head(s) \in Elems(s)
  BY <1>1 DEF Elems
<1>3. Elems(s) = {Head(s)} \cup Elems(Tail(s))
  <2>1. ASSUME NEW i \in DOMAIN s
        PROVE  s[i] \in {Head(s)} \cup Elems(Tail(s))
    <3>1. CASE i = 1
      BY <3>1, <1>1
    <3>2. CASE i # 1
      <4>1. i - 1 \in DOMAIN Tail(s) /\ Tail(s)[i - 1] = s[i]
        BY <3>2, <1>1
      <4> QED BY <4>1 DEF Elems
    <3> QED BY <3>1, <3>2
  <2>2. ASSUME NEW i \in DOMAIN Tail(s)
        PROVE  Tail(s)[i] \in Elems(s)
    BY <1>1 DEF Elems
  <2> QED BY <1>2, <2>1, <2>2 DEF Elems
<1>4. NoDuplicates(s) => NoDuplicates(Tail(s)) /\ Head(s) \notin Elems(Tail(s))
  BY <1>1 DEF Elems, NoDuplicates
<1> QED BY <1>1, <1>2, <1>3, <1>4

\* A queue that was taken is empty.
LEMMA EmptyQueue ==
    ASSUME NEW S
    PROVE  <<>> \in Seq(S) /\ Elems(<<>>) = {} /\ NoDuplicates(<<>>)
  BY DEF Elems, NoDuplicates

-----------------------------------------------------------------------------
(* The count of requests in flight. *)

CountInv == TypeOK /\ ActiveIsInFlight /\ CopyIsRight /\ WaitersAccounted

\* The final callback of a request in flight counts it off.
LEMMA CallbackCounts ==
    ASSUME TypeOK, ActiveIsInFlight, NEW r \in Reqs, InFlight(r),
           NEW result \in Done, NEW place \in {"none", "stale"},
           OnAsyncHTTPCallback(r, result, place)
    PROVE  /\ active' \in Nat /\ ActiveIsInFlight'
           /\ active' < MaxRequests
           /\ wakeup' \in BOOLEAN /\ (wakeup => wakeup')
           /\ where' \in [Reqs -> Places] /\ state' \in [Reqs -> States]
           /\ \A q \in Reqs \ {r} : state'[q] = state[q] /\ where'[q] = where[q]
           /\ state'[r] \in Done
<1> DEFINE F == {q \in Reqs : InFlight(q)}
<1>1. IsFiniteSet(F) /\ r \in F /\ Cardinality(F) = active
  BY ReqsAssumption, FS_Subset DEF ActiveIsInFlight
<1>2. IsFiniteSet(F \ {r}) /\ Cardinality(F \ {r}) = active - 1
  BY <1>1, FS_RemoveElement
<1>3. active - 1 \in Nat
  BY <1>2, FS_CardinalityType
<1>4. where' \in [Reqs -> Places] /\ state' \in [Reqs -> States]
  BY DEF OnAsyncHTTPCallback, TypeOK, Places, Tracked, States, Done
<1>5. /\ \A q \in Reqs \ {r} : state'[q] = state[q] /\ where'[q] = where[q]
      /\ state'[r] \in Done /\ where'[r] = place
  BY DEF OnAsyncHTTPCallback, TypeOK
<1>6. F' = F \ {r}
  BY <1>5 DEF InFlight
<1>7. active' = active - 1 /\ wakeup' \in BOOLEAN /\ (wakeup => wakeup')
  BY DEF OnAsyncHTTPCallback, CallbackWakeup, TypeOK
<1>8. active' <= MaxRequests /\ active' < MaxRequests
  BY <1>3, <1>7, MaxRequestsAssumption DEF ActiveIsInFlight, TypeOK
<1>9. ActiveIsInFlight'
  BY <1>2, <1>6, <1>7, <1>8 DEF ActiveIsInFlight
<1> QED BY <1>3, <1>4, <1>5, <1>7, <1>8, <1>9

\* What the client of a request in flight reports out of a call into it counts
\* the request off or leaves it counted, and concerns no other request.
LEMMA ReportCounts ==
    ASSUME TypeOK, ActiveIsInFlight, NEW r \in Reqs, InFlight(r), Report(r)
    PROVE  /\ active' \in Nat /\ ActiveIsInFlight'
           /\ wakeup' \in BOOLEAN /\ (wakeup => wakeup')
           /\ where' \in [Reqs -> Places] /\ state' \in [Reqs -> States]
           /\ \A q \in Reqs \ {r} : state'[q] = state[q] /\ where'[q] = where[q]
           /\ (state'[r] = state[r] /\ where'[r] = where[r]) \/ state'[r] \in Done
<1>1. CASE UNCHANGED <<state, where, active, wakeup>>
  <2>1. ActiveIsInFlight'
    BY <1>1 DEF ActiveIsInFlight, InFlight
  <2> QED BY <1>1, <2>1 DEF TypeOK
<1>2. CASE /\ state' = [state EXCEPT ![r] = "success"]
           /\ CallbackWakeup(queuedTasks, active)
           /\ UNCHANGED <<where, active>>
  <2>1. ActiveIsInFlight'
    BY <1>2 DEF ActiveIsInFlight, InFlight
  <2>2. wakeup' \in BOOLEAN /\ (wakeup => wakeup')
    BY <1>2 DEF CallbackWakeup, TypeOK
  <2> QED BY <1>2, <2>1, <2>2 DEF TypeOK, States, Done
<1>3. ASSUME NEW result \in Done, NEW place \in {"none", "stale"},
             OnAsyncHTTPCallback(r, result, place)
      PROVE  /\ active' \in Nat /\ ActiveIsInFlight'
             /\ wakeup' \in BOOLEAN /\ (wakeup => wakeup')
             /\ where' \in [Reqs -> Places] /\ state' \in [Reqs -> States]
             /\ \A q \in Reqs \ {r} : state'[q] = state[q] /\ where'[q] = where[q]
             /\ state'[r] \in Done
  BY <1>3, CallbackCounts
<1> QED BY <1>1, <1>2, <1>3 DEF Report

\* A drain or a write lets the client of a request in flight report, or does
\* nothing to the requests.
LEMMA BodyReports ==
    ASSUME TypeOK, HandleDrain \/ HandleWrite
    PROVE  \/ UNCHANGED <<state, where, active, wakeup>>
           \/ \E r \in Reqs : InFlight(r) /\ Report(r)
<1>1. CASE HandleDrain
  <2>1. Head(batch) \in Reqs
    BY <1>1, TailElems DEF HandleDrain, TypeOK
  <2> QED BY <1>1, <2>1 DEF HandleDrain, InFlight, Places, Tracked
<1>2. CASE HandleWrite
  <2>1. Head(writeBatch) \in WriteMessage
    BY <1>2, TailElems DEF HandleWrite, TypeOK
  <2>2. Head(writeBatch).req \in Reqs
    BY <2>1 DEF WriteMessage
  <2> QED BY <1>2, <2>2 DEF HandleWrite, InFlight, Places, Tracked
<1> QED BY <1>1, <1>2

\* Hence it keeps the count, and no request that waits is concerned.
LEMMA BodyCounts ==
    ASSUME CountInv, HandleDrain \/ HandleWrite
    PROVE  /\ active' \in Nat /\ ActiveIsInFlight'
           /\ wakeup' \in BOOLEAN /\ (wakeup => wakeup')
           /\ where' \in [Reqs -> Places] /\ state' \in [Reqs -> States]
           /\ \A q \in Reqs : \/ state'[q] = state[q] /\ where'[q] = where[q]
                             \/ /\ state[q] \notin {"pending", "scheduled"}
                                /\ state'[q] \in Done
<1> USE DEF CountInv
<1>1. CASE UNCHANGED <<state, where, active, wakeup>>
  <2>1. ActiveIsInFlight'
    BY <1>1 DEF ActiveIsInFlight, InFlight
  <2> QED BY <1>1, <2>1 DEF TypeOK
<1>2. ASSUME NEW r \in Reqs, InFlight(r), Report(r)
      PROVE  /\ active' \in Nat /\ ActiveIsInFlight'
             /\ wakeup' \in BOOLEAN /\ (wakeup => wakeup')
             /\ where' \in [Reqs -> Places] /\ state' \in [Reqs -> States]
             /\ \A q \in Reqs : \/ state'[q] = state[q] /\ where'[q] = where[q]
                               \/ /\ state[q] \notin {"pending", "scheduled"}
                                  /\ state'[q] \in Done
  <2>1. state[r] \notin {"pending", "scheduled"}
    BY <1>2 DEF InFlight, WaitersAccounted
  <2> QED BY <1>2, <2>1, ReportCounts
<1> QED BY <1>1, <1>2, BodyReports

\* Starting a waiting request counts it, within the limit, unless it ends at
\* once.
LEMMA StartCounts ==
    ASSUME TypeOK, ActiveIsInFlight, NEW r \in Reqs, NEW tasks,
           where[r] = "none", seen = active, MayStart(r), StartQueuedTask(r, tasks)
    PROVE  /\ active' \in Nat /\ ActiveIsInFlight' /\ active' >= active
           /\ wakeup' \in BOOLEAN /\ (wakeup => wakeup')
           /\ where' \in [Reqs -> Places] /\ state' \in [Reqs -> States]
           /\ \A q \in Reqs \ {r} : state'[q] = state[q] /\ where'[q] = where[q]
           /\ state'[r] \in {"fail", "sending"}
<1> DEFINE F == {q \in Reqs : InFlight(q)}
<1>1. IsFiniteSet(F) /\ r \notin F /\ Cardinality(F) = active
  BY ReqsAssumption, FS_Subset DEF ActiveIsInFlight, InFlight
<1>2. CASE /\ state' = [state EXCEPT ![r] = "fail"]
           /\ CallbackWakeup(tasks, active)
           /\ UNCHANGED <<where, active>>
  <2>1. F' = F
    BY <1>2 DEF InFlight
  <2>2. ActiveIsInFlight'
    BY <1>2, <2>1 DEF ActiveIsInFlight
  <2>3. wakeup' \in BOOLEAN /\ (wakeup => wakeup')
    BY <1>2 DEF CallbackWakeup, TypeOK
  <2> QED BY <1>2, <2>2, <2>3 DEF TypeOK, States
<1>3. CASE /\ ~aborted[r]
           /\ \E place \in {"conn", "h1", "h2", "h2wait", "h3"} :
                 where' = [where EXCEPT ![r] = place]
           /\ state' = [state EXCEPT ![r] = "sending"]
           /\ active' = active + 1
           /\ UNCHANGED wakeup
  <2>1. Cardinality(F \cup {r}) = active + 1
    BY <1>1, FS_AddElement
  <2>2. PICK place \in {"conn", "h1", "h2", "h2wait", "h3"} :
               where' = [where EXCEPT ![r] = place]
    BY <1>3
  <2>3. /\ where' \in [Reqs -> Places] /\ where'[r] = place
        /\ \A q \in Reqs \ {r} : where'[q] = where[q]
    BY <2>2 DEF TypeOK, Places, Tracked
  <2>4. F' = F \cup {r}
    BY <2>3 DEF InFlight, Places, Tracked
  <2>5. active < MaxRequests
    BY <1>3 DEF MayStart
  <2>6. active' \in Nat /\ active' <= MaxRequests /\ active' >= active
    BY <1>3, <2>5, MaxRequestsAssumption DEF TypeOK
  <2>7. ActiveIsInFlight'
    BY <1>3, <2>1, <2>4, <2>6 DEF ActiveIsInFlight
  <2> QED BY <1>3, <2>3, <2>6, <2>7 DEF TypeOK, States
<1> QED BY <1>2, <1>3 DEF StartQueuedTask

\* A step that moves no request into or out of flight keeps the count.
LEMMA CountKept ==
    ASSUME ActiveIsInFlight, active' = active,
           \A q \in Reqs : InFlight(q)' <=> InFlight(q)
    PROVE  ActiveIsInFlight'
<1>1. {q \in Reqs : InFlight(q)}' = {q \in Reqs : InFlight(q)}
  OBVIOUS
<1> QED BY <1>1 DEF ActiveIsInFlight

-----------------------------------------------------------------------------
(* Type correctness, step by step. *)

\* No step leaves the types; the count and the accounting of the requests are
\* what keeps active_requests_count from going below zero.
LEMMA TypeStep ==
    ASSUME CountInv, [Next]_vars
    PROVE  TypeOK'
<1> USE DEF CountInv
<1>1. CASE OnStart
  BY <1>1 DEF TypeOK, OnStart, queueVars, clientVars, Phases
<1>2. CASE TakeDrains
  BY <1>2, EmptyQueue DEF TypeOK, TakeDrains, clientVars, Phases
<1>3. CASE HandleDrain
  <2>1. Tail(batch) \in Seq(Reqs)
    BY <1>3, TailElems DEF TypeOK, HandleDrain
  <2>2. /\ active' \in Nat /\ wakeup' \in BOOLEAN
        /\ where' \in [Reqs -> Places] /\ state' \in [Reqs -> States]
    BY <1>3, BodyCounts
  <2> QED BY <1>3, <2>1, <2>2 DEF TypeOK, HandleDrain, queueVars, clientVars
<1>4. CASE TakeWrites
  BY <1>4, EmptyQueue DEF TypeOK, TakeWrites, clientVars, Phases
<1>5. CASE HandleWrite
  <2>1. Tail(writeBatch) \in Seq(WriteMessage)
    BY <1>5, TailElems DEF TypeOK, HandleWrite
  <2>2. /\ active' \in Nat /\ wakeup' \in BOOLEAN
        /\ where' \in [Reqs -> Places] /\ state' \in [Reqs -> States]
    BY <1>5, BodyCounts
  <2>3. ended' \in [Reqs -> BOOLEAN]
    BY <1>5 DEF TypeOK, HandleWrite
  <2> QED BY <1>5, <2>1, <2>2, <2>3 DEF TypeOK, HandleWrite, queueVars, clientVars
<1>6. CASE TakeShutdowns
  BY <1>6, EmptyQueue DEF TypeOK, TakeShutdowns, clientVars, Phases
<1>7. CASE StartTail
  BY <1>7, EmptyQueue DEF TypeOK, StartTail, queueVars, clientVars, Phases
<1>8. CASE EndDeferred
  BY <1>8 DEF TypeOK, EndDeferred, queueVars, clientVars, Phases
<1>9. CASE EndQueue
  BY <1>9 DEF TypeOK, EndQueue, queueVars, clientVars, Phases
<1>10. CASE EndTick
  BY <1>10 DEF TypeOK, EndTick, queueVars, clientVars, Phases
<1>11. CASE HandleShutdown
  <2>1. Tail(batch) \in Seq(Reqs) /\ Head(batch) \in Reqs
    BY <1>11, TailElems DEF TypeOK, HandleShutdown
  <2>2. CASE /\ where[Head(batch)] \in {"h1", "shut", "h2", "h2wait", "h3"}
             /\ OnAsyncHTTPCallback(Head(batch), "fail", "none")
    BY <1>11, <2>1, <2>2, CallbackCounts
       DEF HandleShutdown, TypeOK, InFlight, Places, Tracked, Done, queueVars, clientVars
  <2>3. CASE where[Head(batch)] = "stale"
    BY <1>11, <2>1, <2>3 DEF HandleShutdown, TypeOK, Places, queueVars, clientVars
  <2>4. CASE hasPendingAbort' = TRUE /\ UNCHANGED <<state, active, wakeup, where>>
    BY <1>11, <2>1, <2>4 DEF HandleShutdown, TypeOK, queueVars, clientVars
  <2> QED BY <1>11, <2>2, <2>3, <2>4 DEF HandleShutdown
<1>12. CASE HandleDeferred
  <2>1. /\ Tail(batch) \in Seq(Reqs) /\ Head(batch) \in Reqs
        /\ Append(deferred, Head(batch)) \in Seq(Reqs)
    BY <1>12, TailElems, AppendElems DEF TypeOK, HandleDeferred
  <2>2. where[Head(batch)] = "none" /\ seen = active
    BY <1>12, TailElems DEF HandleDeferred, WaitersAccounted, CopyIsRight, Taken, TypeOK
  <2>3. CASE MayStart(Head(batch))
    BY <1>12, <2>1, <2>2, <2>3, StartCounts DEF HandleDeferred, TypeOK, queueVars, clientVars
  <2>4. CASE ~MayStart(Head(batch))
    BY <1>12, <2>1, <2>4 DEF HandleDeferred, TypeOK, queueVars, clientVars
  <2> QED BY <2>3, <2>4
<1>13. CASE PopQueuedTask
  <2>1. /\ Tail(queuedTasks) \in Seq(Reqs) /\ Head(queuedTasks) \in Reqs
        /\ Append(deferred, Head(queuedTasks)) \in Seq(Reqs)
    BY <1>13, TailElems, AppendElems DEF TypeOK, PopQueuedTask
  <2>2. where[Head(queuedTasks)] = "none" /\ seen = active
    BY <1>13, TailElems DEF PopQueuedTask, WaitersAccounted, CopyIsRight, TypeOK
  <2>3. CASE MayStart(Head(queuedTasks))
    BY <1>13, <2>1, <2>2, <2>3, StartCounts DEF PopQueuedTask, TypeOK, clientVars
  <2>4. CASE ~MayStart(Head(queuedTasks))
    BY <1>13, <2>1, <2>4 DEF PopQueuedTask, TypeOK, clientVars
  <2> QED BY <2>3, <2>4
<1>14. ASSUME NEW r \in Reqs, Client(r)
      PROVE  TypeOK'
  <2>1. CASE Schedule(r)
    BY <2>1, AppendElems DEF TypeOK, Schedule, threadVars, States
  <2>2. CASE Abort(r)
    BY <2>2 DEF TypeOK, Abort, threadVars, queueVars
  <2>3. CASE ScheduleShutdown(r)
    BY <2>3, AppendElems DEF TypeOK, ScheduleShutdown, threadVars
  <2>4. CASE ScheduleResponseBodyDrain(r)
    <3>1. queuedDrains' \in Seq(Reqs)
      BY <2>4, AppendElems DEF TypeOK, ScheduleResponseBodyDrain
    <3>2. drains' \in [Reqs -> 0..MaxDrains]
      BY <2>4, BoundsAssumption DEF TypeOK, ScheduleResponseBodyDrain
    <3> QED BY <2>4, <3>1, <3>2 DEF TypeOK, ScheduleResponseBodyDrain, threadVars
  <2>5. CASE Wakeup(r)
    BY <2>5 DEF TypeOK, Wakeup, threadVars, queueVars
  <2>6. ASSUME NEW kind \in {"Data", "End"}, ScheduleRequestWrite(r, kind)
        PROVE  TypeOK'
    <3>1. /\ [req |-> r, kind |-> kind] \in WriteMessage
          /\ queuedWrites' \in Seq(WriteMessage)
      BY <2>6, AppendElems DEF WriteMessage, TypeOK, ScheduleRequestWrite
    <3>2. writes' \in [Reqs -> 0..MaxWrites] /\ endSent' \in [Reqs -> BOOLEAN]
      BY <2>6, BoundsAssumption DEF TypeOK, ScheduleRequestWrite
    <3> QED BY <2>6, <3>1, <3>2 DEF TypeOK, ScheduleRequestWrite, threadVars
  <2> QED BY <1>14, <2>1, <2>2, <2>3, <2>4, <2>5, <2>6 DEF Client
<1>15. ASSUME NEW r \in Reqs, Network(r)
      PROVE  TypeOK'
  <2>1. CASE Complete(r)
    BY <2>1, CallbackCounts DEF Complete, TypeOK, queueVars, clientVars
  <2>2. CASE Progress(r)
    BY <2>2 DEF Progress, CallbackWakeup, TypeOK, States, queueVars, clientVars
  <2>3. CASE SocketMoves(r)
    BY <2>3 DEF SocketMoves, Moved, Places, Tracked, TypeOK, queueVars, clientVars
  <2> QED BY <1>15, <2>1, <2>2, <2>3 DEF Network
<1>16. CASE UNCHANGED vars
  BY <1>16 DEF TypeOK, vars, threadVars, queueVars, clientVars
<1> QED BY <1>1, <1>2, <1>3, <1>4, <1>5, <1>6, <1>7, <1>8, <1>9, <1>10, <1>11, <1>12, <1>13, <1>14, <1>15, <1>16 DEF Next, Thread

-----------------------------------------------------------------------------
(* The count, step by step. *)

\* No step disturbs the count: requests start and end one by one, and the
\* places a request moves between in between are all in flight.
LEMMA CountStep ==
    ASSUME CountInv, [Next]_vars
    PROVE  ActiveIsInFlight'
<1> USE DEF CountInv
<1>1. ASSUME UNCHANGED <<active, where>>
      PROVE  ActiveIsInFlight'
  BY <1>1, CountKept DEF InFlight
<1>2. CASE OnStart \/ TakeDrains \/ TakeWrites \/ TakeShutdowns \/ StartTail
           \/ EndDeferred \/ EndQueue \/ EndTick
  BY <1>1, <1>2 DEF OnStart, TakeDrains, TakeWrites, TakeShutdowns, StartTail,
       EndDeferred, EndQueue, EndTick
<1>9. CASE HandleDrain \/ HandleWrite
  BY <1>9, BodyCounts
<1>3. CASE HandleShutdown
  <2>1. Head(batch) \in Reqs
    BY <1>3, TailElems DEF TypeOK, HandleShutdown
  <2>2. CASE /\ where[Head(batch)] \in {"h1", "shut", "h2", "h2wait", "h3"}
             /\ OnAsyncHTTPCallback(Head(batch), "fail", "none")
    BY <2>1, <2>2, CallbackCounts DEF InFlight, Places, Tracked, Done
  <2>3. CASE where[Head(batch)] = "stale"
    <3>1. /\ active' = active
          /\ where' = [where EXCEPT ![Head(batch)] = "none"]
      BY <1>3, <2>3 DEF HandleShutdown
    <3> QED BY <3>1, <2>1, <2>3, CountKept DEF TypeOK, InFlight
  <2>4. CASE UNCHANGED <<active, where>>
    BY <1>1, <2>4
  <2> QED BY <1>3, <2>2, <2>3, <2>4 DEF HandleShutdown
<1>4. CASE HandleDeferred
  <2>1. Head(batch) \in Reqs /\ where[Head(batch)] = "none" /\ seen = active
    BY <1>4, TailElems DEF HandleDeferred, WaitersAccounted, CopyIsRight, Taken, TypeOK
  <2> QED BY <1>1, <1>4, <2>1, StartCounts DEF HandleDeferred
<1>5. CASE PopQueuedTask
  <2>1. Head(queuedTasks) \in Reqs /\ where[Head(queuedTasks)] = "none" /\ seen = active
    BY <1>5, TailElems DEF PopQueuedTask, WaitersAccounted, CopyIsRight, TypeOK
  <2> QED BY <1>1, <1>5, <2>1, StartCounts DEF PopQueuedTask
<1>6. ASSUME NEW r \in Reqs, Client(r)
      PROVE  ActiveIsInFlight'
  BY <1>1, <1>6 DEF Client, Schedule, Abort, ScheduleShutdown,
       ScheduleRequestWrite, ScheduleResponseBodyDrain, Wakeup, threadVars
<1>7. ASSUME NEW r \in Reqs, Network(r)
      PROVE  ActiveIsInFlight'
  <2>1. CASE Complete(r)
    BY <2>1, CallbackCounts DEF Complete
  <2>2. CASE Progress(r)
    BY <1>1, <2>2 DEF Progress
  <2>3. CASE SocketMoves(r)
    BY <2>3, CountKept DEF SocketMoves, Moved, InFlight, Places, Tracked, TypeOK
  <2> QED BY <1>7, <2>1, <2>2, <2>3 DEF Network
<1>8. CASE UNCHANGED vars
  BY <1>1, <1>8 DEF vars, threadVars
<1> QED BY <1>2, <1>3, <1>4, <1>5, <1>6, <1>7, <1>8, <1>9 DEF Next, Thread

\* Nor does one leave drain_events with an outdated copy of the count: it is
\* read again whenever a request was started, and the requests that end do so
\* before the copy is made.
LEMMA CopyStep ==
    ASSUME CountInv, [Next]_vars
    PROVE  CopyIsRight'
<1> USE DEF CountInv, CopyIsRight
<1>1. CASE OnStart \/ TakeDrains \/ HandleDrain \/ TakeWrites \/ HandleWrite
           \/ TakeShutdowns \/ HandleShutdown
  BY <1>1 DEF OnStart, TakeDrains, HandleDrain, TakeWrites, HandleWrite,
              TakeShutdowns, HandleShutdown
<1>2. CASE StartTail \/ EndDeferred \/ EndQueue \/ EndTick
  BY <1>2 DEF StartTail, EndDeferred, EndQueue, EndTick
<1>3. CASE HandleDeferred
  BY <1>3 DEF HandleDeferred
<1>4. CASE PopQueuedTask
  BY <1>4 DEF PopQueuedTask
<1>5. ASSUME NEW r \in Reqs, Client(r) \/ Network(r)
      PROVE  CopyIsRight'
  BY <1>5 DEF Client, Schedule, Abort, ScheduleShutdown, ScheduleRequestWrite,
              ScheduleResponseBodyDrain, Wakeup, threadVars, Network, Complete,
              Progress, SocketMoves
<1>6. CASE UNCHANGED vars
  BY <1>6 DEF vars, threadVars
<1> QED BY <1>1, <1>2, <1>3, <1>4, <1>5, <1>6 DEF Next, Thread

-----------------------------------------------------------------------------
(* The requests that wait. *)

\* No step loses or duplicates a request that waits.
LEMMA WaitersStep ==
    ASSUME CountInv, [Next]_vars
    PROVE  WaitersAccounted'
<1> USE DEF CountInv
\* The steps that leave the line alone; the batch of another phase is not in it.
<1>1. ASSUME UNCHANGED <<deferred, queuedTasks, Taken>>,
             \A q \in Reqs : state'[q] = "scheduled" <=> state[q] = "scheduled",
             \A q \in Reqs : state'[q] \in {"pending", "scheduled"} => where'[q] = "none"
      PROVE  WaitersAccounted'
  BY <1>1 DEF WaitersAccounted
<1>2. CASE OnStart \/ TakeDrains \/ TakeWrites \/ TakeShutdowns \/ EndQueue \/ EndTick
  <2>1. UNCHANGED <<deferred, queuedTasks, Taken, state, where>>
    BY <1>2 DEF OnStart, TakeDrains, TakeWrites, TakeShutdowns, EndQueue,
         EndTick, Taken, queueVars
  <2> QED BY <1>1, <2>1 DEF WaitersAccounted
<1>11. CASE HandleDrain \/ HandleWrite
  <2>1. UNCHANGED <<deferred, queuedTasks, Taken>>
    BY <1>11 DEF HandleDrain, HandleWrite, Taken, queueVars
  <2>2. \A q \in Reqs : \/ state'[q] = state[q] /\ where'[q] = where[q]
                       \/ /\ state[q] \notin {"pending", "scheduled"}
                          /\ state'[q] \in Done
    BY <1>11, BodyCounts
  <2> QED BY <1>1, <2>1, <2>2 DEF WaitersAccounted, Done
<1>3. CASE EndDeferred
  <2>1. UNCHANGED <<deferred, queuedTasks, Taken, state, where>>
    BY <1>3 DEF EndDeferred, Taken, queueVars
  <2> QED BY <1>1, <2>1 DEF WaitersAccounted
<1>4. CASE HandleShutdown
  <2>1. Head(batch) \in Reqs
    BY <1>4, TailElems DEF TypeOK, HandleShutdown
  <2>2. UNCHANGED <<deferred, queuedTasks, Taken>>
    BY <1>4 DEF HandleShutdown, Taken, queueVars
  <2>3. CASE /\ where[Head(batch)] \in {"h1", "shut", "h2", "h2wait", "h3"}
             /\ OnAsyncHTTPCallback(Head(batch), "fail", "none")
    <3>1. /\ \A q \in Reqs \ {Head(batch)} : state'[q] = state[q] /\ where'[q] = where[q]
          /\ state'[Head(batch)] \in Done
      BY <2>1, <2>3, CallbackCounts DEF InFlight, Places, Tracked, Done
    <3>2. state[Head(batch)] \notin {"pending", "scheduled"}
      BY <2>1, <2>3 DEF WaitersAccounted
    <3> QED BY <1>1, <2>2, <3>1, <3>2 DEF WaitersAccounted, Done
  <2>4. CASE where[Head(batch)] = "stale"
    <3>1. state' = state /\ where' = [where EXCEPT ![Head(batch)] = "none"]
      BY <1>4, <2>4 DEF HandleShutdown
    <3> QED BY <1>1, <2>2, <3>1 DEF WaitersAccounted, TypeOK
  <2>5. CASE UNCHANGED <<state, where>>
    BY <1>1, <2>2, <2>5 DEF WaitersAccounted
  <2> QED BY <1>4, <2>3, <2>4, <2>5 DEF HandleShutdown
<1>5. CASE StartTail
  <2>1. CASE pc' = "tick"
    BY <1>1, <1>5, <2>1 DEF StartTail, WaitersAccounted, Taken, queueVars
  <2>2. CASE pc' = "deferred"
    <3>1. /\ Taken = <<>> /\ Taken' = deferred /\ deferred' = <<>>
          /\ UNCHANGED <<queuedTasks, state, where>>
      BY <1>5, <2>2 DEF StartTail, Taken, queueVars
    <3> QED BY <3>1, EmptyQueue DEF WaitersAccounted
  <2> QED BY <1>5, <2>1, <2>2 DEF StartTail
<1>6. CASE HandleDeferred
  <2> DEFINE r == Head(batch)
  <2>1. /\ r \in Reqs /\ Taken = batch /\ Taken' = Tail(batch)
        /\ queuedTasks' = queuedTasks
        /\ Elems(batch) = {r} \cup Elems(Tail(batch))
        /\ NoDuplicates(Tail(batch)) /\ r \notin Elems(Tail(batch))
    BY <1>6, TailElems DEF HandleDeferred, WaitersAccounted, Taken, TypeOK, queueVars
  <2>2. state[r] = "scheduled" /\ where[r] = "none" /\ seen = active
    BY <1>6, <2>1 DEF HandleDeferred, CopyIsRight, WaitersAccounted
  <2>3. CASE MayStart(r)
    <3>1. /\ deferred' = deferred /\ StartQueuedTask(r, queuedTasks)
      BY <1>6, <2>3 DEF HandleDeferred
    <3>2. /\ \A q \in Reqs \ {r} : state'[q] = state[q] /\ where'[q] = where[q]
          /\ state'[r] \in {"fail", "sending"}
      BY <2>1, <2>2, <2>3, <3>1, StartCounts
    <3>3. {q \in Reqs : state'[q] = "scheduled"} = {q \in Reqs : state[q] = "scheduled"} \ {r}
      BY <3>2
    <3> QED BY <2>1, <3>1, <3>2, <3>3 DEF WaitersAccounted
  <2>4. CASE ~MayStart(r)
    <3>1. deferred' = Append(deferred, r) /\ UNCHANGED <<state, where>>
      BY <1>6, <2>4 DEF HandleDeferred
    <3>2. /\ Elems(deferred') = Elems(deferred) \cup {r}
          /\ NoDuplicates(deferred')
      BY <2>1, <3>1, AppendElems DEF WaitersAccounted, TypeOK
    <3> QED BY <2>1, <3>1, <3>2 DEF WaitersAccounted
  <2> QED BY <2>3, <2>4
<1>7. CASE PopQueuedTask
  <2> DEFINE r == Head(queuedTasks)
  <2>1. /\ r \in Reqs /\ Taken = <<>> /\ Taken' = <<>>
        /\ queuedTasks' = Tail(queuedTasks)
        /\ Elems(queuedTasks) = {r} \cup Elems(Tail(queuedTasks))
        /\ NoDuplicates(Tail(queuedTasks)) /\ r \notin Elems(Tail(queuedTasks))
    BY <1>7, TailElems DEF PopQueuedTask, WaitersAccounted, Taken, TypeOK
  <2>2. state[r] = "scheduled" /\ where[r] = "none" /\ seen = active
    BY <1>7, <2>1 DEF PopQueuedTask, CopyIsRight, WaitersAccounted
  <2>3. CASE MayStart(r)
    <3>1. /\ deferred' = deferred /\ StartQueuedTask(r, Tail(queuedTasks))
      BY <1>7, <2>3 DEF PopQueuedTask
    <3>2. /\ \A q \in Reqs \ {r} : state'[q] = state[q] /\ where'[q] = where[q]
          /\ state'[r] \in {"fail", "sending"}
      BY <2>1, <2>2, <2>3, <3>1, StartCounts
    <3>3. {q \in Reqs : state'[q] = "scheduled"} = {q \in Reqs : state[q] = "scheduled"} \ {r}
      BY <3>2
    <3> QED BY <2>1, <3>1, <3>2, <3>3 DEF WaitersAccounted
  <2>4. CASE ~MayStart(r)
    <3>1. deferred' = Append(deferred, r) /\ UNCHANGED <<state, where>>
      BY <1>7, <2>4 DEF PopQueuedTask
    <3>2. /\ Elems(deferred') = Elems(deferred) \cup {r}
          /\ NoDuplicates(deferred')
      BY <2>1, <3>1, AppendElems DEF WaitersAccounted, TypeOK
    <3> QED BY <2>1, <3>1, <3>2 DEF WaitersAccounted
  <2> QED BY <2>3, <2>4
<1>8. ASSUME NEW r \in Reqs, Client(r)
      PROVE  WaitersAccounted'
  <2>1. CASE Schedule(r)
    <3>1. /\ state[r] = "pending" /\ state' = [state EXCEPT ![r] = "scheduled"]
          /\ queuedTasks' = Append(queuedTasks, r)
          /\ UNCHANGED <<deferred, Taken, where>>
      BY <2>1 DEF Schedule, Taken, threadVars
    <3>2. r \notin Elems(deferred) \cup Elems(Taken) \cup Elems(queuedTasks)
      BY <3>1 DEF WaitersAccounted
    <3>3. /\ Elems(queuedTasks') = Elems(queuedTasks) \cup {r}
          /\ NoDuplicates(queuedTasks')
      BY <3>1, <3>2, AppendElems DEF WaitersAccounted, TypeOK
    <3>4. /\ {q \in Reqs : state'[q] = "scheduled"} = {q \in Reqs : state[q] = "scheduled"} \cup {r}
          /\ \A q \in Reqs : state'[q] \in {"pending", "scheduled"} => where'[q] = "none"
      BY <3>1 DEF WaitersAccounted, TypeOK
    <3> QED BY <3>1, <3>2, <3>3, <3>4 DEF WaitersAccounted
  <2>2. CASE ~Schedule(r)
    <3>1. UNCHANGED <<deferred, queuedTasks, Taken, state, where>>
      BY <1>8, <2>2 DEF Client, Abort, ScheduleShutdown, ScheduleRequestWrite,
           ScheduleResponseBodyDrain, Wakeup, threadVars, queueVars, Taken
    <3> QED BY <1>1, <3>1 DEF WaitersAccounted
  <2> QED BY <2>1, <2>2
<1>9. ASSUME NEW r \in Reqs, Network(r)
      PROVE  WaitersAccounted'
  <2>1. UNCHANGED <<deferred, queuedTasks, Taken>>
    BY <1>9 DEF Network, Complete, Progress, SocketMoves, Taken, queueVars
  <2>2. CASE Complete(r)
    <3>1. PICK result \in Done, place \in {"none", "stale"} :
                 OnAsyncHTTPCallback(r, result, place)
      BY <2>2 DEF Complete
    <3>2. /\ \A q \in Reqs \ {r} : state'[q] = state[q] /\ where'[q] = where[q]
          /\ state'[r] \in Done
      BY <2>2, <3>1, CallbackCounts DEF Complete
    <3>3. state[r] \notin {"pending", "scheduled"}
      BY <2>2 DEF Complete, InFlight, WaitersAccounted
    <3> QED BY <1>1, <2>1, <3>2, <3>3 DEF WaitersAccounted, Done
  <2>3. CASE Progress(r)
    <3>1. state[r] \notin {"pending", "scheduled"}
      BY <2>3 DEF Progress, InFlight, WaitersAccounted
    <3>2. state' = [state EXCEPT ![r] = "success"] /\ where' = where
      BY <2>3 DEF Progress
    <3> QED BY <1>1, <2>1, <3>1, <3>2 DEF WaitersAccounted, TypeOK
  <2>4. CASE SocketMoves(r)
    <3>1. state' = state /\ where[r] # "none"
          /\ \A q \in Reqs \ {r} : where'[q] = where[q]
      BY <2>4 DEF SocketMoves, Moved, TypeOK
    <3> QED BY <1>1, <2>1, <3>1 DEF WaitersAccounted
  <2> QED BY <1>9, <2>2, <2>3, <2>4 DEF Network
<1>10. CASE UNCHANGED vars
  <2>1. UNCHANGED <<deferred, queuedTasks, Taken, state, where>>
    BY <1>10 DEF vars, threadVars, queueVars, Taken
  <2> QED BY <1>1, <2>1 DEF WaitersAccounted
<1> QED
  BY <1>2, <1>3, <1>4, <1>5, <1>6, <1>7, <1>8, <1>9, <1>10, <1>11 DEF Next, Thread

-----------------------------------------------------------------------------
(* The wakeups. *)

\* No step leaves a message or a request that could start unannounced.
LEMMA AnnouncedStep ==
    ASSUME CountInv, QueuesAnnounced, [Next]_vars
    PROVE  QueuesAnnounced'
<1> USE DEF CountInv
<1>1. active \in Nat /\ MaxRequests \in Nat
  BY MaxRequestsAssumption DEF TypeOK
<1>2. CASE OnStart \/ TakeDrains \/ TakeWrites \/ TakeShutdowns
  BY <1>2 DEF OnStart, TakeDrains, TakeWrites, TakeShutdowns, QueuesAnnounced,
       Waking, queueVars, clientVars
<1>10. CASE HandleDrain \/ HandleWrite
  <2>1. /\ pc \in {"bodies", "writes"}
        /\ UNCHANGED <<pc, hasAwoken, polled, deferred, queueVars, cpc>>
    BY <1>10 DEF HandleDrain, HandleWrite, clientVars
  <2>2. wakeup => wakeup'
    BY <1>10, BodyCounts
  <2> QED BY <2>1, <2>2 DEF QueuesAnnounced, Waking, queueVars
<1>3. CASE EndDeferred \/ EndQueue \/ EndTick \/ StartTail
  BY <1>1, <1>3 DEF EndDeferred, EndQueue, EndTick, StartTail, QueuesAnnounced,
       Waking, queueVars, clientVars
<1>4. CASE HandleShutdown
  <2>1. /\ pc = "shutdowns" /\ (wakeup => wakeup')
        /\ UNCHANGED <<pc, hasAwoken, polled, deferred, queueVars, cpc>>
    BY <1>4 DEF HandleShutdown, OnAsyncHTTPCallback, CallbackWakeup, clientVars, TypeOK
  <2> QED BY <2>1 DEF QueuesAnnounced, Waking, queueVars
<1>5. CASE HandleDeferred
  <2> DEFINE r == Head(batch)
  <2>1. /\ pc = "deferred" /\ UNCHANGED <<pc, hasAwoken, polled, queueVars, cpc>>
    BY <1>5 DEF HandleDeferred, clientVars
  <2>2. r \in Reqs /\ where[r] = "none" /\ seen = active
    BY <1>5, TailElems DEF HandleDeferred, WaitersAccounted, CopyIsRight, Taken, TypeOK
  <2>3. CASE MayStart(r)
    <3>1. deferred' = deferred /\ StartQueuedTask(r, queuedTasks)
      BY <1>5, <2>3 DEF HandleDeferred
    <3>2. (wakeup => wakeup') /\ active' >= active /\ active' \in Nat
      BY <2>2, <2>3, <3>1, StartCounts
    <3> QED BY <1>1, <2>1, <3>1, <3>2 DEF QueuesAnnounced, Waking, queueVars
  <2>4. CASE ~MayStart(r)
    <3>1. UNCHANGED <<active, wakeup>> /\ active >= MaxRequests
      BY <1>1, <1>5, <2>2, <2>4 DEF HandleDeferred, MayStart
    <3> QED BY <2>1, <3>1 DEF QueuesAnnounced, Waking, queueVars
  <2> QED BY <2>3, <2>4
<1>6. CASE PopQueuedTask
  <2> DEFINE r == Head(queuedTasks)
  <2>1. /\ pc = "queue"
        /\ UNCHANGED <<pc, hasAwoken, polled, queuedShutdowns, queuedWrites,
                       queuedDrains, cpc>>
    BY <1>6 DEF PopQueuedTask, clientVars
  <2>2. r \in Reqs /\ where[r] = "none" /\ seen = active
    BY <1>6, TailElems DEF PopQueuedTask, WaitersAccounted, CopyIsRight, TypeOK
  <2>3. CASE MayStart(r)
    <3>1. deferred' = deferred /\ StartQueuedTask(r, Tail(queuedTasks))
      BY <1>6, <2>3 DEF PopQueuedTask
    <3>2. (wakeup => wakeup') /\ active' >= active /\ active' \in Nat
      BY <2>2, <2>3, <3>1, StartCounts
    <3> QED BY <1>1, <2>1, <3>1, <3>2 DEF QueuesAnnounced, Waking
  <2>4. CASE ~MayStart(r)
    <3>1. UNCHANGED <<active, wakeup>> /\ active >= MaxRequests
      BY <1>1, <1>6, <2>2, <2>4 DEF PopQueuedTask, MayStart
    <3> QED BY <2>1, <3>1 DEF QueuesAnnounced, Waking
  <2> QED BY <2>3, <2>4
<1>7. ASSUME NEW r \in Reqs, Client(r)
      PROVE  QueuesAnnounced'
  <2>1. UNCHANGED threadVars /\ (wakeup => wakeup')
    BY <1>7 DEF Client, Schedule, Abort, ScheduleShutdown, ScheduleRequestWrite,
         ScheduleResponseBodyDrain, Wakeup, TypeOK
  <2>2. CASE Abort(r)
    <3>1. UNCHANGED queueVars /\ \A q \in Reqs : cpc[q] = "wake" => cpc'[q] = "wake"
      BY <2>2 DEF Abort, TypeOK
    <3> QED BY <2>1, <3>1 DEF QueuesAnnounced, Waking, threadVars, queueVars
  <2>3. CASE Wakeup(r)
    <3>1. UNCHANGED queueVars /\ (pc # "boot" => wakeup')
      BY <2>3 DEF Wakeup, QueuesAnnounced
    <3> QED BY <2>1, <3>1 DEF QueuesAnnounced, Waking, threadVars, queueVars
  <2>4. CASE ~Abort(r) /\ ~Wakeup(r)
    <3>1. cpc'[r] = "wake"
      BY <1>7, <2>4 DEF Client, Schedule, ScheduleShutdown, ScheduleRequestWrite,
           ScheduleResponseBodyDrain, TypeOK
    <3> QED BY <2>1, <3>1 DEF QueuesAnnounced, Waking, threadVars
  <2> QED BY <2>2, <2>3, <2>4
\* An event of the network ends the tick.
<1>8. ASSUME NEW r \in Reqs, Network(r)
      PROVE  QueuesAnnounced'
  <2>1. pc = "tick" /\ polled' /\ UNCHANGED <<pc, hasAwoken>>
    BY <1>8 DEF Network, Complete, Progress, SocketMoves
  <2> QED BY <2>1 DEF QueuesAnnounced, Waking
<1>9. CASE UNCHANGED vars
  BY <1>9 DEF vars, threadVars, queueVars, clientVars, QueuesAnnounced, Waking
<1> QED BY <1>2, <1>3, <1>4, <1>5, <1>6, <1>7, <1>8, <1>9, <1>10 DEF Next, Thread

-----------------------------------------------------------------------------
(* The aborts. *)

\* No step forgets a request that was aborted while it waited.
LEMMA AbortsStep ==
    ASSUME CountInv, AbortsNoticed, [Next]_vars
    PROVE  AbortsNoticed'
<1> USE DEF CountInv
<1>1. CASE OnStart \/ TakeDrains \/ TakeWrites \/ EndTick
  BY <1>1 DEF OnStart, TakeDrains, TakeWrites, EndTick, AbortsNoticed, Taken,
       Elems, queueVars, clientVars
<1>11. CASE HandleDrain \/ HandleWrite
  <2>1. /\ pc \in {"bodies", "writes"} /\ pc' = pc
        /\ UNCHANGED <<hasPendingAbort, queuedTasks, queuedShutdowns, cpc, aborted>>
    BY <1>11 DEF HandleDrain, HandleWrite, queueVars, clientVars
  <2>2. \A q \in Reqs : state'[q] \in {"pending", "scheduled"} => state'[q] = state[q]
    BY <1>11, BodyCounts DEF Done
  <2> QED BY <2>1, <2>2, EmptyQueue DEF AbortsNoticed, Taken
<1>2. CASE EndDeferred \/ EndQueue
  BY <1>2, EmptyQueue DEF EndDeferred, EndQueue, AbortsNoticed, Taken, queueVars, clientVars
<1>3. CASE TakeShutdowns
  BY <1>3, EmptyQueue DEF TakeShutdowns, AbortsNoticed, Taken, clientVars
<1>4. CASE HandleShutdown
  <2> DEFINE r == Head(batch)
  <2>1. r \in Reqs /\ Elems(batch) = {r} \cup Elems(batch')
    BY <1>4, TailElems DEF HandleShutdown, TypeOK
  <2>2. /\ pc = "shutdowns" /\ pc' = pc
        /\ UNCHANGED <<queuedTasks, queuedShutdowns, cpc, aborted>>
    BY <1>4 DEF HandleShutdown, queueVars, clientVars
  <2>3. CASE /\ where[r] \in {"h1", "shut", "h2", "h2wait", "h3"}
             /\ OnAsyncHTTPCallback(r, "fail", "none") /\ UNCHANGED hasPendingAbort
    <3>1. /\ \A q \in Reqs \ {r} : state'[q] = state[q]
          /\ state'[r] \in Done
      BY <2>1, <2>3, CallbackCounts DEF InFlight, Places, Tracked, Done
    <3> QED BY <2>1, <2>2, <2>3, <3>1 DEF AbortsNoticed, Taken, Done
  <2>4. CASE /\ where[r] = "stale"
             /\ UNCHANGED <<state, hasPendingAbort>>
    <3>1. state[r] # "scheduled"
      BY <2>1, <2>4 DEF WaitersAccounted
    <3> QED BY <2>1, <2>2, <2>4, <3>1 DEF AbortsNoticed, Taken
  <2>5. CASE hasPendingAbort' /\ UNCHANGED state
    BY <2>2, <2>5 DEF AbortsNoticed
  <2> QED BY <1>4, <2>3, <2>4, <2>5 DEF HandleShutdown
<1>5. CASE StartTail
  <2>1. /\ pc = "tail" /\ hasPendingAbort' = FALSE
        /\ UNCHANGED <<queuedTasks, queuedShutdowns, cpc, aborted, state>>
    BY <1>5 DEF StartTail, queueVars, clientVars
  <2>2. CASE hasPendingAbort
    <3>1. Taken = <<>> /\ pc' = "deferred" /\ Taken' = deferred
      BY <1>5, <2>2 DEF StartTail, Taken
    <3>2. \A q \in Reqs : state[q] = "scheduled" =>
                q \in Elems(deferred) \cup Elems(queuedTasks)
      BY <3>1, EmptyQueue DEF WaitersAccounted
    <3> QED BY <2>1, <3>1, <3>2 DEF AbortsNoticed
  <2>3. CASE ~hasPendingAbort
    BY <2>1, <2>3, EmptyQueue DEF AbortsNoticed, Taken
  <2> QED BY <2>2, <2>3
<1>6. CASE HandleDeferred
  <2> DEFINE r == Head(batch)
  <2>1. /\ r \in Reqs /\ Taken = batch /\ Taken' = batch'
        /\ Elems(batch) = {r} \cup Elems(batch')
    BY <1>6, TailElems DEF HandleDeferred, Taken, TypeOK
  <2>2. where[r] = "none" /\ seen = active
    BY <1>6, <2>1 DEF HandleDeferred, CopyIsRight, WaitersAccounted
  <2>3. /\ pc = "deferred"
        /\ UNCHANGED <<pc, hasPendingAbort, queuedTasks, queuedShutdowns, cpc, aborted>>
    BY <1>6 DEF HandleDeferred, queueVars, clientVars
  <2>4. CASE MayStart(r)
    <3>1. StartQueuedTask(r, queuedTasks)
      BY <1>6, <2>4 DEF HandleDeferred
    <3>2. /\ \A q \in Reqs \ {r} : state'[q] = state[q]
          /\ state'[r] \in {"fail", "sending"}
      BY <2>1, <2>2, <2>4, <3>1, StartCounts
    <3> QED BY <2>1, <2>3, <3>2 DEF AbortsNoticed
  <2>5. CASE ~MayStart(r)
    <3>1. state' = state /\ ~aborted[r]
      BY <1>6, <2>5 DEF HandleDeferred, MayStart
    <3> QED BY <2>1, <2>3, <3>1 DEF AbortsNoticed
  <2> QED BY <2>4, <2>5
<1>7. CASE PopQueuedTask
  <2> DEFINE r == Head(queuedTasks)
  <2>1. /\ r \in Reqs /\ r \in Elems(queuedTasks)
        /\ Elems(queuedTasks) = {r} \cup Elems(queuedTasks')
    BY <1>7, TailElems DEF PopQueuedTask, TypeOK
  <2>2. where[r] = "none" /\ seen = active
    BY <1>7, <2>1 DEF PopQueuedTask, CopyIsRight, WaitersAccounted
  <2>3. /\ pc = "queue" /\ Taken = <<>> /\ Taken' = <<>>
        /\ UNCHANGED <<pc, hasPendingAbort, queuedShutdowns, cpc, aborted>>
    BY <1>7 DEF PopQueuedTask, Taken, clientVars
  <2>4. CASE MayStart(r)
    <3>1. StartQueuedTask(r, Tail(queuedTasks))
      BY <1>7, <2>4 DEF PopQueuedTask
    <3>2. /\ \A q \in Reqs \ {r} : state'[q] = state[q]
          /\ state'[r] \in {"fail", "sending"}
      BY <2>1, <2>2, <2>4, <3>1, StartCounts
    <3> QED BY <2>1, <2>3, <3>2 DEF AbortsNoticed
  <2>5. CASE ~MayStart(r)
    <3>1. state' = state /\ ~aborted[r]
      BY <1>7, <2>5 DEF PopQueuedTask, MayStart
    <3> QED BY <2>1, <2>3, <3>1 DEF AbortsNoticed
  <2> QED BY <2>4, <2>5
<1>8. ASSUME NEW r \in Reqs, Client(r)
      PROVE  AbortsNoticed'
  <2>1. UNCHANGED <<pc, batch, hasPendingAbort, Taken>>
    BY <1>8 DEF Client, Schedule, Abort, ScheduleShutdown, ScheduleRequestWrite,
         ScheduleResponseBodyDrain, Wakeup, threadVars, Taken
  <2>2. CASE Schedule(r)
    <3>1. /\ Elems(queuedTasks') = Elems(queuedTasks) \cup {r}
          /\ queuedShutdowns' = queuedShutdowns /\ aborted' = aborted
          /\ state[r] = "pending"
          /\ \A q \in Reqs \ {r} : cpc'[q] = cpc[q] /\ state'[q] = state[q]
      BY <2>2, AppendElems DEF Schedule, TypeOK
    <3>2. ~aborted[r]
      BY <3>1 DEF AbortsNoticed
    <3> QED BY <2>1, <3>1, <3>2 DEF AbortsNoticed
  <2>3. CASE Abort(r)
    <3>1. /\ cpc'[r] = "abort" /\ state[r] # "pending"
          /\ UNCHANGED <<queuedTasks, queuedShutdowns, state>>
          /\ \A q \in Reqs \ {r} : cpc'[q] = cpc[q] /\ aborted'[q] = aborted[q]
      BY <2>3 DEF Abort, TypeOK, queueVars
    <3> QED BY <2>1, <3>1 DEF AbortsNoticed
  <2>4. CASE ScheduleShutdown(r)
    <3>1. /\ Elems(queuedShutdowns') = Elems(queuedShutdowns) \cup {r}
          /\ UNCHANGED <<queuedTasks, state, aborted>>
          /\ \A q \in Reqs \ {r} : cpc'[q] = cpc[q]
      BY <2>4, AppendElems DEF ScheduleShutdown, TypeOK
    <3> QED BY <2>1, <3>1 DEF AbortsNoticed
  <2>5. CASE \/ \E kind \in {"Data", "End"} : ScheduleRequestWrite(r, kind)
             \/ ScheduleResponseBodyDrain(r) \/ Wakeup(r)
    <3>1. /\ UNCHANGED <<queuedTasks, queuedShutdowns, state, aborted>>
          /\ cpc[r] # "abort" /\ \A q \in Reqs \ {r} : cpc'[q] = cpc[q]
      BY <2>5 DEF ScheduleRequestWrite, ScheduleResponseBodyDrain, Wakeup, TypeOK, queueVars
    <3> QED BY <2>1, <3>1 DEF AbortsNoticed
  <2> QED BY <1>8, <2>2, <2>3, <2>4, <2>5 DEF Client
<1>9. ASSUME NEW r \in Reqs, Network(r)
      PROVE  AbortsNoticed'
  <2>1. UNCHANGED <<pc, batch, hasPendingAbort, Taken, queuedTasks, queuedShutdowns,
                    cpc, aborted>>
    BY <1>9 DEF Network, Complete, Progress, SocketMoves, Taken, queueVars, clientVars
  <2>2. \A q \in Reqs : state'[q] \in {"pending", "scheduled"} => state'[q] = state[q]
    <3>1. CASE Complete(r)
      BY <3>1, CallbackCounts DEF Complete, Done
    <3>2. CASE Progress(r) \/ SocketMoves(r)
      BY <3>2 DEF Progress, SocketMoves, TypeOK
    <3> QED BY <1>9, <3>1, <3>2 DEF Network
  <2> QED BY <2>1, <2>2 DEF AbortsNoticed
<1>10. CASE UNCHANGED vars
  BY <1>10 DEF vars, threadVars, queueVars, clientVars, AbortsNoticed, Taken
<1> QED
  BY <1>1, <1>2, <1>3, <1>4, <1>5, <1>6, <1>7, <1>8, <1>9, <1>10, <1>11 DEF Next, Thread

-----------------------------------------------------------------------------
(* The theorems. *)

\* The inductive invariant: the types, the count of requests in flight, the
\* accounting of those that wait, and why nothing is forgotten.
IndInv == CountInv /\ QueuesAnnounced /\ AbortsNoticed

\* The invariant holds before the thread has started.
LEMMA InitHolds == Init => IndInv
<1> SUFFICES ASSUME Init PROVE IndInv
  OBVIOUS
<1> USE DEF Init
<1>1. TypeOK
  <2>1. <<>> \in Seq(Reqs) /\ <<>> \in Seq(WriteMessage)
    BY EmptyQueue
  <2>2. 0 \in 0..MaxWrites /\ 0 \in 0..MaxDrains
    BY BoundsAssumption
  <2> QED BY <2>1, <2>2 DEF TypeOK, Phases, Places, Tracked, States
<1>2. ActiveIsInFlight
  <2>1. {r \in Reqs : InFlight(r)} = {}
    BY DEF InFlight
  <2>2. Cardinality({r \in Reqs : InFlight(r)}) = 0
    BY <2>1, FS_EmptySet
  <2>3. 0 <= MaxRequests
    BY MaxRequestsAssumption
  <2> QED BY <2>2, <2>3 DEF ActiveIsInFlight
<1>3. WaitersAccounted /\ CopyIsRight
  BY EmptyQueue DEF WaitersAccounted, Taken, CopyIsRight
<1>4. QueuesAnnounced /\ AbortsNoticed
  BY DEF QueuesAnnounced, AbortsNoticed
<1> QED BY <1>1, <1>2, <1>3, <1>4 DEF IndInv, CountInv

\* Every step keeps the invariant.
LEMMA StepKeeps == IndInv /\ [Next]_vars => IndInv'
  BY TypeStep, CountStep, CopyStep, WaitersStep, AnnouncedStep, AbortsStep DEF IndInv, CountInv

\* The invariant holds in every state of every behaviour.
THEOREM Invariance == Spec => []IndInv
  BY InitHolds, StepKeeps, PTL DEF Spec

\* active_requests_count is the number of requests in flight, never exceeds
\* max_simultaneous_requests and never goes below zero, and the copy of it that
\* drain_events decides on is right.
THEOREM CountCorrect == Spec => []Counted
<1>1. IndInv => Counted
  BY DEF IndInv, CountInv, Counted
<1> QED BY <1>1, Invariance, PTL

\* No request that waits is lost or queued twice.
THEOREM WaitersCorrect == Spec => []WaitersAccounted
<1>1. IndInv => WaitersAccounted
  BY DEF IndInv, CountInv
<1> QED BY <1>1, Invariance, PTL

\* Every message that a client has left in a queue is announced, or in a queue
\* that drain_events looks into before it sleeps.
THEOREM AnnouncedCorrect == Spec => []QueuesAnnounced
<1>1. IndInv => QueuesAnnounced
  BY DEF IndInv
<1> QED BY <1>1, Invariance, PTL

\* Whenever the event loop sleeps and no client is about to wake it, there is
\* nothing it could do.
THEOREM WakeupsCorrect == Spec => []NoLostWakeup
<1>1. IndInv => NoLostWakeup
  <2> SUFFICES ASSUME IndInv, Asleep
               PROVE  /\ queuedShutdowns = <<>> /\ queuedWrites = <<>> /\ queuedDrains = <<>>
                      /\ queuedTasks # <<>> \/ deferred # <<>> => active >= MaxRequests
                      /\ \A r \in Reqs : ~(state[r] = "scheduled" /\ aborted[r])
    BY DEF NoLostWakeup
  <2>1. ~Waking /\ pc = "tick"
    BY DEF Asleep, Waking
  <2>2. /\ queuedShutdowns = <<>> /\ queuedWrites = <<>> /\ queuedDrains = <<>>
        /\ queuedTasks # <<>> \/ deferred # <<>> => active >= MaxRequests
    BY <2>1 DEF IndInv, QueuesAnnounced
  <2>3. \A r \in Reqs : ~(state[r] = "scheduled" /\ aborted[r])
    BY <2>1, <2>2, EmptyQueue DEF Asleep, IndInv, AbortsNoticed, Taken
  <2> QED BY <2>2, <2>3
<1> QED BY <1>1, Invariance, PTL

-----------------------------------------------------------------------------
(* HttpThread implements RequestQueue. *)


\* Arithmetic for the case in which the second queue has one element.
LEMMA LastOne == \A n \in Nat : n >= 1 /\ n - 1 <= 0 => n - 1 = 0
  OBVIOUS

(* Queues that follow each other. *)

\* A sequence without its i-th element.
Without(l, i) == SubSeq(l, 1, i - 1) \o SubSeq(l, i + 1, Len(l))

\* Taking the head of the second queue takes one element out of the line the
\* two form, the one behind the first queue.
LEMMA TakeBehind ==
    ASSUME NEW S, NEW s \in Seq(S), NEW t \in Seq(S), t # <<>>
    PROVE  LET l == s \o t
               i == Len(s) + 1
           IN  /\ i \in DOMAIN l
               /\ l[i] = Head(t)
               /\ SubSeq(l, 1, i - 1) \o SubSeq(l, i + 1, Len(l)) = s \o Tail(t)
<1> DEFINE l == s \o t
           i == Len(s) + 1
<1>0. Len(t) \in Nat /\ Len(t) >= 1
  OBVIOUS
<1>1. Len(s) \in Nat /\ Len(t) \in Nat /\ Len(t) >= 1 /\ Head(t) = t[1]
  OBVIOUS
<1>2. /\ l \in Seq(S) /\ Len(l) = Len(s) + Len(t) /\ DOMAIN l = 1..Len(l)
      /\ \A j \in 1..Len(l) : l[j] = IF j <= Len(s) THEN s[j] ELSE t[j - Len(s)]
      /\ \A j \in 1..Len(l) : l[j] \in S
  BY ConcatProperties
<1>3. i \in DOMAIN l /\ l[i] = Head(t)
  BY <1>1, <1>2
<1>4. SubSeq(l, 1, i - 1) = s
  <2>1. /\ SubSeq(l, 1, i - 1) \in Seq(S)
        /\ Len(SubSeq(l, 1, i - 1)) = Len(s)
        /\ \A j \in 1..Len(s) : SubSeq(l, 1, i - 1)[j] = l[j]
    BY <1>1, <1>2, SubSeqProperties
  <2>2. \A j \in 1..Len(s) : l[j] = s[j]
    BY <1>1, <1>2
  <2> HIDE DEF l, i
  <2> QED BY <2>1, <2>2, SeqEqual
<1>5. SubSeq(l, i + 1, Len(l)) = Tail(t)
  <2>1. /\ Tail(t) \in Seq(S) /\ Len(Tail(t)) = Len(t) - 1
        /\ \A j \in 1..(Len(t) - 1) : Tail(t)[j] = t[j + 1]
    BY HeadTailProperties
  <2>2. /\ SubSeq(l, i + 1, Len(l)) \in Seq(S)
        /\ Len(SubSeq(l, i + 1, Len(l))) = Len(t) - 1
        /\ \A j \in 1..(Len(t) - 1) : SubSeq(l, i + 1, Len(l))[j] = l[i + j]
    <3>1. /\ i + 1 \in Int /\ Len(l) \in Int /\ Len(l) - (i + 1) + 1 = Len(t) - 1
          /\ \A j \in (i + 1)..Len(l) : l[j] \in S
          /\ i + 1 <= Len(l) <=> Len(t) > 1
          /\ \A j \in 1..(Len(t) - 1) : (i + 1) + j - 1 = i + j
      BY <1>1, <1>2
    <3> HIDE DEF l, i
    <3>2. /\ SubSeq(l, i + 1, Len(l)) \in Seq(S)
          /\ Len(SubSeq(l, i + 1, Len(l)))
                = IF i + 1 <= Len(l) THEN Len(l) - (i + 1) + 1 ELSE 0
          /\ \A j \in 1..(Len(l) - (i + 1) + 1) :
                SubSeq(l, i + 1, Len(l))[j] = l[(i + 1) + j - 1]
      BY <3>1, SubSeqProperties
    <3>3. Len(SubSeq(l, i + 1, Len(l))) = Len(t) - 1
      <4>1. CASE i + 1 <= Len(l)
        BY <3>1, <3>2, <4>1
      <4>2. CASE ~(i + 1 <= Len(l))
        <5>1. Len(SubSeq(l, i + 1, Len(l))) = 0
          BY <3>2, <4>2
        <5>2. Len(t) - 1 <= 0
          BY <1>1, <3>1, <4>2
        <5>3. Len(t) - 1 = 0
          BY <1>0, <5>2, LastOne, Zenon
        <5> QED BY <5>1, <5>3
      <4> QED BY <4>1, <4>2
    <3>4. \A j \in 1..(Len(t) - 1) : SubSeq(l, i + 1, Len(l))[j] = l[i + j]
      BY <3>1, <3>2
    <3> QED BY <3>2, <3>3, <3>4
  <2>3. \A j \in 1..(Len(t) - 1) : l[i + j] = t[j + 1]
    BY <1>1, <1>2
  <2> HIDE DEF l, i
  <2> QED BY <2>1, <2>2, <2>3, SeqEqual
<1> QED BY <1>3, <1>4, <1>5

\* The same inside a line of three queues.
LEMMA TakeSecond ==
    ASSUME NEW S, NEW s \in Seq(S), NEW t \in Seq(S), NEW u \in Seq(S), t # <<>>
    PROVE  /\ Len(s) + 1 \in DOMAIN (s \o t \o u)
           /\ (s \o t \o u)[Len(s) + 1] = Head(t)
           /\ Without(s \o t \o u, Len(s) + 1) = s \o Tail(t) \o u
<1>1. t \o u \in Seq(S) /\ t \o u # <<>> /\ Tail(t) \in Seq(S)
  BY ConcatProperties, ConcatEqualIffEmpty, HeadTailProperties
<1>2. Head(t \o u) = Head(t) /\ Tail(t \o u) = Tail(t) \o u
  <2>1. t \o u = (<<>> \o t) \o u /\ <<>> \in Seq(S) /\ Len(<<>>) = 0
    BY ConcatEmptySeq
  <2>2. /\ Len(t) >= 1 /\ Len(t) \in Nat /\ Len(u) \in Nat
        /\ Len(t \o u) = Len(t) + Len(u)
        /\ \A j \in 1..(Len(t) + Len(u)) :
              (t \o u)[j] = IF j <= Len(t) THEN t[j] ELSE u[j - Len(t)]
    BY ConcatProperties
  <2>3. Head(t \o u) = Head(t)
    BY <2>2, <1>1
  <2>4. /\ Tail(t \o u) \in Seq(S) /\ Len(Tail(t \o u)) = Len(t) + Len(u) - 1
        /\ \A j \in 1..(Len(t) + Len(u) - 1) : Tail(t \o u)[j] = (t \o u)[j + 1]
    BY <1>1, <2>2, HeadTailProperties
  <2>5. /\ Tail(t) \o u \in Seq(S) /\ Len(Tail(t) \o u) = Len(t) + Len(u) - 1
        /\ Len(Tail(t)) = Len(t) - 1
        /\ \A j \in 1..(Len(t) - 1) : Tail(t)[j] = t[j + 1]
        /\ \A j \in 1..(Len(t) + Len(u) - 1) :
              (Tail(t) \o u)[j] = IF j <= Len(t) - 1 THEN Tail(t)[j] ELSE u[j - (Len(t) - 1)]
    BY <1>1, <2>2, HeadTailProperties, ConcatProperties
  <2>6. \A j \in 1..(Len(t) + Len(u) - 1) : Tail(t \o u)[j] = (Tail(t) \o u)[j]
    BY <2>2, <2>4, <2>5
  <2>7. Tail(t \o u) = Tail(t) \o u
    BY <2>4, <2>5, <2>6, SeqEqual
  <2> QED BY <2>3, <2>7
<1>3. s \o t \o u = s \o (t \o u)
  BY ConcatAssociative
<1>4. s \o Tail(t) \o u = s \o (Tail(t) \o u)
  BY <1>1, ConcatAssociative
<1> DEFINE tu == t \o u
<1>5. tu \in Seq(S) /\ tu # <<>> /\ Head(tu) = Head(t) /\ Tail(tu) = Tail(t) \o u
  BY <1>1, <1>2
<1> HIDE DEF tu
<1>6. LET l == s \o tu
          i == Len(s) + 1
      IN  /\ i \in DOMAIN l
          /\ l[i] = Head(tu)
          /\ SubSeq(l, 1, i - 1) \o SubSeq(l, i + 1, Len(l)) = s \o Tail(tu)
  BY <1>5, TakeBehind
<1> QED BY <1>3, <1>4, <1>5, <1>6 DEF tu, Without

\* Moving the head of the second queue to the end of the first one leaves the
\* line as it is.
LEMMA MoveUp ==
    ASSUME NEW S, NEW s \in Seq(S), NEW t \in Seq(S), t # <<>>
    PROVE  Append(s, Head(t)) \o Tail(t) = s \o t
<1>1. Head(t) \in S /\ Tail(t) \in Seq(S) /\ <<Head(t)>> \in Seq(S)
  BY HeadTailProperties
<1>2. Append(s, Head(t)) = s \o <<Head(t)>>
  BY <1>1, AppendIsConcat
<1>3. <<Head(t)>> \o Tail(t) = t
  <2>1. /\ Len(t) \in Nat /\ Len(t) >= 1 /\ Head(t) = t[1]
        /\ Len(Tail(t)) = Len(t) - 1
        /\ \A j \in 1..(Len(t) - 1) : Tail(t)[j] = t[j + 1]
    BY HeadTailProperties
  <2>2. Len(<<Head(t)>>) = 1 /\ <<Head(t)>>[1] = Head(t)
    OBVIOUS
  <2> DEFINE h == <<Head(t)>>
             c == h \o Tail(t)
  <2>3. /\ c \in Seq(S) /\ Len(c) = Len(h) + Len(Tail(t))
        /\ \A j \in 1..(Len(h) + Len(Tail(t))) :
              c[j] = IF j <= Len(h) THEN h[j] ELSE Tail(t)[j - Len(h)]
    BY <1>1, ConcatProperties
  <2> HIDE DEF c
  <2>4. Len(c) = Len(t)
    BY <2>1, <2>2, <2>3
  <2>5. \A j \in 1..Len(c) : c[j] = t[j]
    <3> SUFFICES ASSUME NEW j \in 1..Len(t) PROVE c[j] = t[j]
      BY <2>4
    <3>1. CASE j = 1
      BY <2>1, <2>2, <2>3, <3>1
    <3>2. CASE j # 1
      <4>1. j - 1 \in 1..(Len(t) - 1) /\ (j - 1) + 1 = j /\ ~(j <= 1)
        BY <2>1, <3>2
      <4>2. c[j] = Tail(t)[j - 1]
        BY <2>1, <2>2, <2>3, <4>1
      <4> QED BY <2>1, <4>1, <4>2
    <3> QED BY <3>1, <3>2
  <2>6. c = t
    BY <2>3, <2>4, <2>5, SeqEqual
  <2> QED BY <2>6 DEF c
<1>4. (s \o <<Head(t)>>) \o Tail(t) = s \o (<<Head(t)>> \o Tail(t))
  BY <1>1, ConcatAssociative
<1> QED BY <1>2, <1>3, <1>4
-----------------------------------------------------------------------------
(* The invariant the refinement needs besides IndInv.                      *)

\* While drain_events goes through the requests that wait it has deferred one
\* only because the limit is reached: nothing ends before the next tick.
DeferredAtLimit ==
    pc \in {"deferred", "queue"} /\ deferred # <<>> => active >= MaxRequests

\* Only the network and the messages take requests out of flight, and all of
\* them come before the deferred requests are taken.
LEMMA DeferredStep ==
    ASSUME IndInv, DeferredAtLimit, [Next]_vars
    PROVE  DeferredAtLimit'
<1> USE DEF DeferredAtLimit
<1>1. TypeOK /\ ActiveIsInFlight /\ CopyIsRight /\ WaitersAccounted
  BY DEF IndInv, CountInv
<1>2. active \in Nat /\ MaxRequests \in Nat
  BY <1>1, MaxRequestsAssumption DEF TypeOK
<1>3. CASE OnStart \/ TakeDrains \/ HandleDrain \/ TakeWrites \/ HandleWrite
           \/ TakeShutdowns \/ HandleShutdown
  BY <1>3 DEF OnStart, TakeDrains, HandleDrain, TakeWrites, HandleWrite,
              TakeShutdowns, HandleShutdown
<1>4. CASE StartTail \/ EndDeferred \/ EndQueue \/ EndTick
  BY <1>4 DEF StartTail, EndDeferred, EndQueue, EndTick
<1>5. CASE HandleDeferred
  <2> DEFINE r == Head(batch)
  <2>1. r \in Reqs /\ r \in Elems(Taken)
    BY <1>1, <1>5, TailElems DEF HandleDeferred, TypeOK, Taken
  <2>2. where[r] = "none" /\ seen = active
    BY <1>1, <1>5, <2>1 DEF HandleDeferred, CopyIsRight, WaitersAccounted
  <2>3. CASE MayStart(r) /\ StartQueuedTask(r, queuedTasks) /\ UNCHANGED deferred
    <3>1. active' >= active /\ active' \in Nat
      BY <1>1, <2>1, <2>2, <2>3, StartCounts
    <3> QED BY <1>2, <1>5, <2>3, <3>1 DEF HandleDeferred
  <2>4. CASE ~MayStart(r) /\ UNCHANGED <<state, where, active, wakeup>>
    BY <1>2, <2>2, <2>4 DEF MayStart
  <2> QED BY <1>5, <2>3, <2>4 DEF HandleDeferred
<1>6. CASE PopQueuedTask
  <2> DEFINE r == Head(queuedTasks)
  <2>1. r \in Reqs /\ r \in Elems(queuedTasks)
    BY <1>1, <1>6, TailElems DEF PopQueuedTask, TypeOK
  <2>2. where[r] = "none" /\ seen = active
    BY <1>1, <1>6, <2>1 DEF PopQueuedTask, CopyIsRight, WaitersAccounted
  <2>3. CASE MayStart(r) /\ StartQueuedTask(r, Tail(queuedTasks)) /\ UNCHANGED deferred
    <3>1. active' >= active /\ active' \in Nat
      BY <1>1, <2>1, <2>2, <2>3, StartCounts
    <3> QED BY <1>2, <1>6, <2>3, <3>1 DEF PopQueuedTask
  <2>4. CASE ~MayStart(r) /\ UNCHANGED <<state, where, active, wakeup>>
    BY <1>2, <2>2, <2>4 DEF MayStart
  <2> QED BY <1>6, <2>3, <2>4 DEF PopQueuedTask
<1>7. ASSUME NEW r \in Reqs, Client(r) \/ Network(r)
      PROVE  DeferredAtLimit'
  BY <1>7 DEF Client, Schedule, Abort, ScheduleShutdown, ScheduleRequestWrite,
              ScheduleResponseBodyDrain, Wakeup, threadVars, Network, Complete,
              Progress, SocketMoves
<1>8. CASE UNCHANGED vars
  BY <1>8 DEF vars, threadVars
<1> QED BY <1>3, <1>4, <1>5, <1>6, <1>7, <1>8 DEF Next, Thread

\* The invariant of the refinement.
RefInv == IndInv /\ DeferredAtLimit

\* It holds in every state of every behaviour.
LEMMA RefInvariance == Spec => []RefInv
<1>1. Init => RefInv
  BY InitHolds DEF Init, RefInv, DeferredAtLimit
<1>2. RefInv /\ [Next]_vars => RefInv'
  BY StepKeeps, DeferredStep DEF RefInv
<1> QED BY <1>1, <1>2, PTL DEF Spec
-----------------------------------------------------------------------------
(* The mapping.                                                            *)

\* Before the thread starts nobody waits.
LEMMA InitMaps == Init => Queue!Init
<1> SUFFICES ASSUME Init PROVE Queue!Init
  OBVIOUS
<1>1. WaitLine = <<>>
  <2>1. <<>> \in Seq(Reqs) /\ <<>> \o <<>> = <<>>
    BY ConcatEmptySeq
  <2> QED BY <2>1 DEF Init, WaitLine, Taken
<1>2. Status = [r \in Reqs |-> "idle"]
  BY DEF Init, Status, StatusOf
<1> QED BY <1>1, <1>2 DEF Init, Queue!Init

\* The instance counts as this module does.
LEMMA SameCardinality == \A S : Queue!Cardinality(S) = Cardinality(S)
  BY Zenon DEF Cardinality, Queue!Cardinality

\* The requests that run are those that are counted.
LEMMA RunningCounted ==
    ASSUME IndInv
    PROVE  Cardinality(Queue!Running) = active
<1>1. \A r \in Reqs : Status[r] = "running" <=> InFlight(r)
  BY DEF Status, StatusOf, IndInv, CountInv, WaitersAccounted, InFlight
<1>2. Queue!Running = {r \in Reqs : InFlight(r)}
  BY <1>1 DEF Queue!Running
<1> QED BY <1>2 DEF IndInv, CountInv, ActiveIsInFlight

\* A step that concerns one request changes the status of that one only.
LEMMA StatusStep ==
    ASSUME NEW r \in Reqs,
           \A q \in Reqs \ {r} : state'[q] = state[q] /\ where'[q] = where[q]
    PROVE  Status' = [Status EXCEPT ![r] = StatusOf(r)']
<1>1. \A q \in Reqs \ {r} : StatusOf(q)' = StatusOf(q)
  BY DEF StatusOf, InFlight
<1> QED BY <1>1 DEF Status

\* Starting a request takes it out of the line in its turn, or because it was
\* aborted.
LEMMA StartMaps ==
    ASSUME IndInv, NEW r \in Reqs, NEW tasks, NEW i,
           WaitLine[i] = r, state[r] = "scheduled", seen = active, MayStart(r),
           StartQueuedTask(r, tasks), UNCHANGED aborted, Queue!Leaves(i),
           active < MaxRequests => i = 1
    PROVE  Queue!Run(i) \/ Queue!FailAtOnce(i)
<1>1. TypeOK /\ ActiveIsInFlight /\ where[r] = "none"
  BY DEF IndInv, CountInv, WaitersAccounted
<1>2. \A q \in Reqs \ {r} : state'[q] = state[q] /\ where'[q] = where[q]
  BY <1>1, StartCounts
<1>3. Status' = [Status EXCEPT ![r] = StatusOf(r)']
  BY <1>2, StatusStep
<1>4. active < MaxRequests => Queue!Turn(i)
  BY RunningCounted, SameCardinality DEF Queue!Turn
<1>5. CASE state' = [state EXCEPT ![r] = "fail"] /\ UNCHANGED <<where, active>>
  <2>1. StatusOf(r)' = "done"
    BY <1>1, <1>5 DEF StatusOf, InFlight, TypeOK
  <2>2. Queue!Turn(i) \/ aborted[r]
    BY <1>4 DEF MayStart
  <2> QED BY <1>3, <2>1, <2>2 DEF Queue!FailAtOnce
<1>6. CASE /\ ~aborted[r]
           /\ \E place \in {"conn", "h1", "h2", "h2wait", "h3"} :
                 where' = [where EXCEPT ![r] = place]
           /\ state' = [state EXCEPT ![r] = "sending"]
  <2>1. StatusOf(r)' = "running"
    BY <1>1, <1>6 DEF StatusOf, InFlight, TypeOK, Places, Tracked
  <2>2. Queue!Turn(i)
    BY <1>4, <1>6 DEF MayStart
  <2> QED BY <1>3, <1>6, <2>1, <2>2 DEF Queue!Run
<1> QED BY <1>5, <1>6 DEF StartQueuedTask

\* The final callback of a request in flight finishes it.
LEMMA CallbackMaps ==
    ASSUME IndInv, NEW r \in Reqs, InFlight(r), NEW result \in Done,
           NEW place \in {"none", "stale"}, OnAsyncHTTPCallback(r, result, place),
           UNCHANGED <<WaitLine, aborted>>
    PROVE  Queue!Finish(r)
<1>1. TypeOK /\ ActiveIsInFlight
  BY DEF IndInv, CountInv
<1>2. \A q \in Reqs \ {r} : state'[q] = state[q] /\ where'[q] = where[q]
  BY <1>1, CallbackCounts
<1>3. Status[r] = "running"
  BY DEF Status, StatusOf, IndInv, CountInv, WaitersAccounted, InFlight
<1>4. StatusOf(r)' = "done"
  BY <1>1 DEF OnAsyncHTTPCallback, StatusOf, InFlight, TypeOK, Done
<1>5. Status' = [Status EXCEPT ![r] = StatusOf(r)']
  BY <1>2, StatusStep
<1> QED BY <1>3, <1>4, <1>5 DEF Queue!Finish

\* What a request in flight reports finishes it, or shows only to its client.
LEMMA ReportMaps ==
    ASSUME IndInv, NEW r \in Reqs, InFlight(r), Report(r), UNCHANGED <<WaitLine, aborted>>
    PROVE  [Queue!Next]_(Queue!vars)
<1>1. TypeOK
  BY DEF IndInv, CountInv
<1>2. CASE \E result \in Done, place \in {"none", "stale"} :
                 OnAsyncHTTPCallback(r, result, place)
  <2>1. Queue!Finish(r)
    BY <1>2, CallbackMaps
  <2> QED BY <2>1 DEF Queue!Next
<1>3. CASE /\ UNCHANGED where
           /\ state' = state \/ state' = [state EXCEPT ![r] = "success"]
  <2>1. state[r] \notin {"pending", "scheduled"}
    BY DEF IndInv, CountInv, WaitersAccounted, InFlight
  <2>2. \A q \in Reqs : StatusOf(q)' = StatusOf(q)
    BY <1>1, <1>3, <2>1 DEF StatusOf, InFlight, TypeOK
  <2>3. UNCHANGED Status
    BY <2>2 DEF Status
  <2> QED BY <2>3 DEF Queue!vars
<1> QED BY <1>2, <1>3 DEF Report

\* A step that starts, ends and moves no request is invisible.
LEMMA Stutter ==
    ASSUME UNCHANGED <<state, where, aborted, WaitLine>>
    PROVE  UNCHANGED Queue!vars
  BY DEF Queue!vars, Status, StatusOf, InFlight

\* The calls of the clients.
LEMMA ClientMaps ==
    ASSUME RefInv, NEW r \in Reqs, Client(r)
    PROVE  [Queue!Next]_(Queue!vars)
<1>1. TypeOK /\ where[r] \in Places
  BY DEF RefInv, IndInv, CountInv, TypeOK
<1>2. CASE Schedule(r)
  <2>1. /\ state' = [state EXCEPT ![r] = "scheduled"] /\ state[r] = "pending"
        /\ queuedTasks' = Append(queuedTasks, r)
        /\ UNCHANGED <<where, aborted, deferred, Taken>>
    BY <1>2 DEF Schedule, threadVars, Taken
  <2>2. WaitLine' = Append(WaitLine, r)
    <3>1. Taken \in Seq(Reqs) /\ deferred \in Seq(Reqs) /\ queuedTasks \in Seq(Reqs)
      <4>1. <<>> \in Seq(Reqs)
        OBVIOUS
      <4> QED BY <1>1, <4>1 DEF TypeOK, Taken
    <3> DEFINE head == deferred \o Taken
    <3>2. head \in Seq(Reqs) /\ <<r>> \in Seq(Reqs) /\ head \o queuedTasks \in Seq(Reqs)
      BY <3>1, ConcatProperties
    <3>3. WaitLine = head \o queuedTasks /\ WaitLine' = head \o Append(queuedTasks, r)
      BY <2>1 DEF WaitLine
    <3> HIDE DEF head
    <3>4. Append(queuedTasks, r) = queuedTasks \o <<r>>
      BY <3>1, AppendIsConcat
    <3>5. Append(head \o queuedTasks, r) = (head \o queuedTasks) \o <<r>>
      BY <3>2, AppendIsConcat
    <3>6. (head \o queuedTasks) \o <<r>> = head \o (queuedTasks \o <<r>>)
      BY <3>1, <3>2, ConcatAssociative
    <3> QED BY <3>3, <3>4, <3>5, <3>6
  <2>3. Status' = [Status EXCEPT ![r] = StatusOf(r)']
    BY <1>1, <2>1, StatusStep DEF TypeOK
  <2>4. Status[r] = "idle" /\ StatusOf(r)' = "waiting"
    BY <1>1, <2>1 DEF Status, StatusOf, TypeOK
  <2>5. Queue!Submit(r)
    BY <2>1, <2>2, <2>3, <2>4 DEF Queue!Submit
  <2> QED BY <2>5 DEF Queue!Next
<1>3. CASE Abort(r)
  <2>1. Status[r] # "idle"
    BY <1>3 DEF Abort, Status, StatusOf
  <2>2. UNCHANGED <<WaitLine, Status>>
    BY <1>3 DEF Abort, threadVars, queueVars, WaitLine, Taken, Status, StatusOf, InFlight
  <2>3. Queue!GiveUp(r)
    BY <1>3, <2>1, <2>2 DEF Abort, Queue!GiveUp
  <2> QED BY <2>3 DEF Queue!Next
<1>4. CASE \/ ScheduleShutdown(r)
           \/ \E kind \in {"Data", "End"} : ScheduleRequestWrite(r, kind)
           \/ ScheduleResponseBodyDrain(r)
           \/ Wakeup(r)
  <2>1. UNCHANGED <<state, where, aborted, WaitLine>>
    BY <1>4 DEF ScheduleShutdown, ScheduleRequestWrite, ScheduleResponseBodyDrain,
                Wakeup, threadVars, queueVars, WaitLine, Taken
  <2> QED BY <2>1, Stutter
<1> QED BY <1>2, <1>3, <1>4 DEF Client

\* The events of the network.
LEMMA NetworkMaps ==
    ASSUME RefInv, NEW r \in Reqs, Network(r)
    PROVE  [Queue!Next]_(Queue!vars)
<1>1. TypeOK
  BY DEF RefInv, IndInv, CountInv
<1>2. CASE Complete(r)
  <2>1. UNCHANGED <<WaitLine, aborted>>
    BY <1>2 DEF Complete, queueVars, clientVars, WaitLine, Taken
  <2>2. Queue!Finish(r)
    BY <1>2, <2>1, CallbackMaps DEF Complete, RefInv
  <2> QED BY <2>2 DEF Queue!Next
<1>3. CASE Progress(r)
  <2>1. UNCHANGED <<WaitLine, aborted>> /\ InFlight(r) /\ Report(r)
    BY <1>3 DEF Progress, Report, queueVars, clientVars, WaitLine, Taken
  <2> QED BY <2>1, ReportMaps DEF RefInv
<1>4. CASE SocketMoves(r)
  <2>1. UNCHANGED <<WaitLine, aborted, state>>
    BY <1>4 DEF SocketMoves, queueVars, clientVars, WaitLine, Taken
  <2>2. PICK m \in Moved : where[r] = m[1] /\ where' = [where EXCEPT ![r] = m[2]]
    BY <1>4 DEF SocketMoves
  <2>3. \A q \in Reqs : InFlight(q)' = InFlight(q)
    BY <1>1, <2>2 DEF Moved, InFlight, TypeOK, Places, Tracked
  <2>4. UNCHANGED Status
    BY <2>1, <2>3 DEF Status, StatusOf
  <2> QED BY <2>1, <2>4 DEF Queue!vars
<1> QED BY <1>2, <1>3, <1>4 DEF Network

\* drain_events when it starts no request.
LEMMA QuietMaps ==
    ASSUME RefInv,
           \/ OnStart \/ TakeDrains \/ HandleDrain \/ TakeWrites \/ HandleWrite
           \/ TakeShutdowns \/ HandleShutdown \/ StartTail \/ EndDeferred
           \/ EndQueue \/ EndTick
    PROVE  [Queue!Next]_(Queue!vars)
<1>1. TypeOK
  BY DEF RefInv, IndInv, CountInv
<1>2. <<>> \in Seq(Reqs) /\ deferred \in Seq(Reqs) /\ queuedTasks \in Seq(Reqs)
  BY <1>1 DEF TypeOK
<1>3. CASE OnStart \/ TakeDrains \/ TakeWrites \/ TakeShutdowns \/ EndDeferred
           \/ EndQueue \/ EndTick
  <2>1. UNCHANGED <<state, where, aborted, deferred, queuedTasks, Taken>>
    BY <1>3 DEF OnStart, TakeDrains, TakeWrites, TakeShutdowns, EndDeferred,
                EndQueue, EndTick, queueVars, clientVars, Taken
  <2> QED BY <2>1, Stutter DEF WaitLine
<1>6. CASE HandleDrain \/ HandleWrite
  <2>1. UNCHANGED <<aborted, WaitLine>>
    BY <1>6 DEF HandleDrain, HandleWrite, queueVars, clientVars, WaitLine, Taken
  <2>2. CASE UNCHANGED <<state, where>>
    BY <2>1, <2>2, Stutter
  <2>3. CASE \E r \in Reqs : InFlight(r) /\ Report(r)
    BY <2>1, <2>3, ReportMaps DEF RefInv
  <2> QED BY <1>1, <1>6, <2>2, <2>3, BodyReports
<1>4. CASE StartTail
  <2>1. UNCHANGED <<state, where, aborted, queuedTasks>> /\ Taken = <<>>
    BY <1>4 DEF StartTail, queueVars, clientVars, Taken
  <2>2. \/ UNCHANGED <<deferred, Taken>>
        \/ deferred' = <<>> /\ Taken' = deferred
    BY <1>4 DEF StartTail, Taken
  <2>3. deferred \o <<>> = deferred /\ <<>> \o deferred = deferred
    BY <1>2, ConcatEmptySeq
  <2>4. UNCHANGED WaitLine
    BY <2>1, <2>2, <2>3 DEF WaitLine
  <2> QED BY <2>1, <2>4, Stutter
<1>5. CASE HandleShutdown
  <2> DEFINE r == Head(batch)
  <2>1. r \in Reqs
    BY <1>1, <1>5 DEF HandleShutdown, TypeOK
  <2>2. UNCHANGED <<aborted, WaitLine>>
    BY <1>5 DEF HandleShutdown, queueVars, clientVars, WaitLine, Taken
  <2>3. CASE InFlight(r) /\ OnAsyncHTTPCallback(r, "fail", "none")
    <3>1. Queue!Finish(r)
      BY <2>1, <2>2, <2>3, CallbackMaps DEF RefInv, Done
    <3> QED BY <2>1, <3>1 DEF Queue!Next
  <2>4. CASE where[r] = "stale" /\ where' = [where EXCEPT ![r] = "none"] /\ UNCHANGED state
    <3>1. \A q \in Reqs : StatusOf(q)' = StatusOf(q)
      BY <1>1, <2>1, <2>4 DEF StatusOf, InFlight, TypeOK
    <3>2. UNCHANGED Status
      BY <3>1 DEF Status
    <3> QED BY <2>2, <3>2 DEF Queue!vars
  <2>5. CASE UNCHANGED <<state, where>>
    BY <2>2, <2>5, Stutter
  <2> QED BY <1>5, <2>1, <2>3, <2>4, <2>5 DEF HandleShutdown, InFlight, Places, Tracked
<1> QED BY <1>3, <1>4, <1>5, <1>6

\* drain_events going through what it took from deferred_tasks: while there is
\* a free slot nothing was deferred again, so the request is the first in line.
LEMMA DeferredMaps ==
    ASSUME RefInv, HandleDeferred
    PROVE  [Queue!Next]_(Queue!vars)
<1> DEFINE r == Head(batch)
           i == Len(deferred) + 1
<1>1. TypeOK /\ IndInv /\ DeferredAtLimit /\ active \in Nat /\ MaxRequests \in Nat
  BY MaxRequestsAssumption DEF RefInv, IndInv, CountInv, TypeOK
<1>2. /\ deferred \in Seq(Reqs) /\ batch \in Seq(Reqs) /\ queuedTasks \in Seq(Reqs)
      /\ batch # <<>> /\ r \in Reqs /\ r \in Elems(batch) /\ Tail(batch) \in Seq(Reqs)
  BY <1>1, TailElems DEF HandleDeferred, TypeOK
<1>3. /\ pc = "deferred" /\ batch' = Tail(batch) /\ Taken = batch /\ Taken' = Tail(batch)
      /\ UNCHANGED <<aborted, queuedTasks>>
  BY DEF HandleDeferred, Taken, queueVars, clientVars
<1>4. state[r] = "scheduled" /\ seen = active
  BY <1>1, <1>2, <1>3 DEF IndInv, CountInv, CopyIsRight, WaitersAccounted
<1>5. CASE MayStart(r) /\ StartQueuedTask(r, queuedTasks) /\ UNCHANGED deferred
  <2>1. /\ i \in DOMAIN WaitLine /\ WaitLine[i] = r
        /\ Without(WaitLine, i) = deferred \o Tail(batch) \o queuedTasks
    <3>1. WaitLine = deferred \o batch \o queuedTasks
      BY <1>3 DEF WaitLine
    <3>2. /\ deferred \in Seq(Reqs) /\ batch \in Seq(Reqs) /\ batch # <<>>
          /\ queuedTasks \in Seq(Reqs)
      BY <1>2
    <3>3. /\ Len(deferred) + 1 \in DOMAIN (deferred \o batch \o queuedTasks)
          /\ (deferred \o batch \o queuedTasks)[Len(deferred) + 1] = Head(batch)
          /\ Without(deferred \o batch \o queuedTasks, Len(deferred) + 1)
                = deferred \o Tail(batch) \o queuedTasks
      <4>1. \A s, t, u \in Seq(Reqs) : t # <<>> =>
               /\ Len(s) + 1 \in DOMAIN (s \o t \o u)
               /\ (s \o t \o u)[Len(s) + 1] = Head(t)
               /\ Without(s \o t \o u, Len(s) + 1) = s \o Tail(t) \o u
        BY TakeSecond
      <4> QED BY <3>2, <4>1, Zenon
    <3> QED BY <3>1, <3>3
  <2>2. Queue!Leaves(i)
    BY <1>3, <1>5, <2>1 DEF Queue!Leaves, WaitLine, Without
  <2>3. active < MaxRequests => i = 1
    BY <1>1, <1>3 DEF DeferredAtLimit
  <2> HIDE DEF i, r
  <2>4. Queue!Run(i) \/ Queue!FailAtOnce(i)
    BY <1>1, <1>2, <1>3, <1>4, <1>5, <2>1, <2>2, <2>3, StartMaps
  <2> QED BY <2>1, <2>4 DEF Queue!Next
<1>6. CASE deferred' = Append(deferred, r) /\ UNCHANGED <<state, where>>
  <2>1. Append(deferred, r) \o Tail(batch) = deferred \o batch
    BY <1>2, MoveUp
  <2>2. UNCHANGED WaitLine
    BY <1>3, <1>6, <2>1 DEF WaitLine
  <2> QED BY <1>3, <1>6, <2>2, Stutter
<1> QED BY <1>5, <1>6 DEF HandleDeferred

\* The same for the requests that arrived since.
LEMMA QueueMaps ==
    ASSUME RefInv, PopQueuedTask
    PROVE  [Queue!Next]_(Queue!vars)
<1> DEFINE r == Head(queuedTasks)
           i == Len(deferred) + 1
<1>1. TypeOK /\ IndInv /\ DeferredAtLimit /\ active \in Nat /\ MaxRequests \in Nat
  BY MaxRequestsAssumption DEF RefInv, IndInv, CountInv, TypeOK
<1>2. /\ deferred \in Seq(Reqs) /\ queuedTasks \in Seq(Reqs) /\ queuedTasks # <<>>
      /\ r \in Reqs /\ r \in Elems(queuedTasks) /\ Tail(queuedTasks) \in Seq(Reqs)
  BY <1>1, TailElems DEF PopQueuedTask, TypeOK
<1>3. /\ pc = "queue" /\ queuedTasks' = Tail(queuedTasks)
      /\ Taken = <<>> /\ Taken' = <<>> /\ UNCHANGED aborted
  BY DEF PopQueuedTask, Taken, clientVars
<1>4. state[r] = "scheduled" /\ seen = active
  BY <1>1, <1>2, <1>3 DEF IndInv, CountInv, CopyIsRight, WaitersAccounted
<1>5. deferred \o <<>> = deferred
  BY <1>2, ConcatEmptySeq
<1>6. WaitLine = deferred \o queuedTasks
  BY <1>3, <1>5 DEF WaitLine
<1>7. CASE MayStart(r) /\ StartQueuedTask(r, Tail(queuedTasks)) /\ UNCHANGED deferred
  <2>1. WaitLine' = deferred \o Tail(queuedTasks)
    BY <1>3, <1>5, <1>7 DEF WaitLine
  <2>2. /\ i \in DOMAIN WaitLine /\ WaitLine[i] = r
        /\ SubSeq(WaitLine, 1, i - 1) \o SubSeq(WaitLine, i + 1, Len(WaitLine))
              = deferred \o Tail(queuedTasks)
    BY <1>2, <1>6, TakeBehind
  <2>3. Queue!Leaves(i)
    BY <2>1, <2>2 DEF Queue!Leaves
  <2>4. active < MaxRequests => i = 1
    BY <1>1, <1>3 DEF DeferredAtLimit
  <2> HIDE DEF i, r
  <2>5. Queue!Run(i) \/ Queue!FailAtOnce(i)
    BY <1>1, <1>2, <1>3, <1>4, <1>7, <2>2, <2>3, <2>4, StartMaps
  <2> QED BY <2>2, <2>5 DEF Queue!Next
<1>8. CASE deferred' = Append(deferred, r) /\ UNCHANGED <<state, where>>
  <2>1. Append(deferred, r) \o Tail(queuedTasks) = deferred \o queuedTasks
    BY <1>2, MoveUp
  <2>2. Append(deferred, r) \in Seq(Reqs)
    BY <1>2
  <2>3. Append(deferred, r) \o <<>> = Append(deferred, r)
    BY <2>2, ConcatEmptySeq
  <2>4. UNCHANGED WaitLine
    BY <1>3, <1>6, <1>8, <2>1, <2>3 DEF WaitLine
  <2> QED BY <1>3, <1>8, <2>4, Stutter
<1> QED BY <1>7, <1>8 DEF PopQueuedTask

\* Every step of the thread, a client or the network is a step of the line of
\* requests, or none.
LEMMA StepMaps == RefInv /\ [Next]_vars => [Queue!Next]_(Queue!vars)
<1>1. CASE RefInv /\ UNCHANGED vars
  BY <1>1, Stutter DEF vars, threadVars, queueVars, clientVars, WaitLine, Taken
<1> QED
  BY <1>1, ClientMaps, NetworkMaps, QuietMaps, DeferredMaps, QueueMaps DEF Next, Thread

\* HttpThread implements RequestQueue: the queues of the clients, the requests
\* drain_events defers because max_simultaneous_requests are in flight and those
\* it starts early because they were aborted amount to one line of requests that
\* nobody overtakes (schedule, drain_events, start_queued_task and
\* onAsyncHTTPCallback together).
THEOREM RefinementCorrect == Spec => ImplementsRequestQueue
<1>1. RefInv /\ [Next]_vars => [Queue!Next]_(Queue!vars)
  BY StepMaps
<1> QED BY <1>1, InitMaps, RefInvariance, PTL DEF Spec, ImplementsRequestQueue, Queue!Spec
=============================================================================
