---------------------------- MODULE AlertSockets ----------------------------
(***************************************************************************)
(* Alert sockets (networking/lib/alertsock.c): a file descriptor that      *)
(* threads write to in order to wake the thread that reads it.  An eventfd,*)
(* a pipe or a pair of sockets, whichever can be had.                      *)
(*                                                                         *)
(* The threads that use them are not part of the repository: a worker      *)
(* leaves its work and alerts, the reader drains and then takes all the    *)
(* work there is.  The rest of the process opens files as it likes.        *)
(***************************************************************************)
EXTENDS Naturals, FiniteSets, FiniteSetsExt

CONSTANTS
    Workers,     \* threads that alert
    Methods,     \* what the flags of alert_sockets_create leave to be tried
    Capacity,    \* what the pipe, socket or counter can hold
    Chunk,       \* what one read of pipe_drain or sock_drain takes
    MaxFds,      \* bound: file descriptors of the process
    Unset

ASSUME CapacityAssumption == Capacity \in Nat \ {0} /\ Chunk \in Nat \ {0}
ASSUME FdsAssumption == MaxFds \in Nat

VARIABLES
    stage,     \* of alert_sockets_create and alert_sockets_close
    method,    \* what is being tried or is in use
    tried,     \* what was tried before
    readFd,    \* socks_out->read_fd
    writeFd,   \* socks_out->write_fd
    own,       \* open file descriptors of the alert sockets
    foreign,   \* open file descriptors of the rest of the process
    level,     \* what is there to be read
    work,      \* workers whose work waits to be taken
    alerting,  \* workers that have left work and are about to alert
    reader     \* "waits", "drains" or "takes"

fdVars == <<stage, method, tried, readFd, writeFd, own, foreign>>
alertVars == <<fdVars, level, work, alerting, reader>>

\* In the order in which they are tried.
Order == [eventfd2 |-> 1, eventfd |-> 2, pipe2 |-> 3, pipe |-> 4, socketpair |-> 5]
AllMethods == DOMAIN Order

ASSUME MethodsAssumption == Methods \subseteq AllMethods

\* Those that set O_NONBLOCK and O_CLOEXEC as they open.
Atomic == {"eventfd2", "pipe2"}
Eventfds == {"eventfd2", "eventfd"}

FreeFds == (1 .. MaxFds) \ (own \cup foreign)

AlertInit ==
    /\ stage = "start" /\ method = Unset /\ tried = {}
    /\ readFd = Unset /\ writeFd = Unset /\ own = {} /\ foreign = {}
    /\ level = 0 /\ work = {} /\ alerting = {} /\ reader = "waits"

-----------------------------------------------------------------------------
(* alert_sockets_create *)

Untried == {m \in Methods \ tried : \A n \in Methods \ tried : Order[m] <= Order[n]}

\* A method that cannot be had: the next one is tried, or none is left.
OpenFails ==
    /\ stage = "start"
    /\ IF Untried = {} THEN stage' = "failed" /\ UNCHANGED tried
       ELSE tried' = tried \cup Untried /\ UNCHANGED stage
    /\ UNCHANGED <<method, readFd, writeFd, own, foreign, level, work, alerting, reader>>

\* The system gives the lowest free numbers.
Opens ==
    /\ stage = "start"
    /\ \E m \in Untried :
          /\ Cardinality(FreeFds) >= (IF m \in Eventfds THEN 1 ELSE 2)
          /\ LET first  == Min(FreeFds)
                 second == IF m \in Eventfds THEN first ELSE Min(FreeFds \ {first})
             IN  readFd' = first /\ writeFd' = second /\ own' = {first, second}
          /\ method' = m
          /\ stage' = IF m \in Atomic THEN "open" ELSE "configure"
    /\ UNCHANGED <<tried, foreign, level, work, alerting, reader>>

\* Mutant: only the read end is closed.
ConfigureFailsHalf == own' = own \ {readFd}

\* Both ends are closed.
ConfigureFails == own' = {}

\* F_SETFD and O_NONBLOCK one by one; should that fail, no other is tried.
Configure ==
    /\ stage = "configure"
    /\ \/ stage' = "open" /\ UNCHANGED <<readFd, writeFd, own>>
       \/ stage' = "failed" /\ ConfigureFails /\ readFd' = Unset /\ writeFd' = Unset
    /\ UNCHANGED <<method, tried, foreign, level, work, alerting, reader>>

-----------------------------------------------------------------------------
(* Alerting and draining *)

\* A worker has something for the reader; it has to be taken before the worker
\* can leave more (external).
Post(w) ==
    /\ stage = "open" /\ w \notin work \cup alerting
    /\ work' = work \cup {w} /\ alerting' = alerting \cup {w}
    /\ UNCHANGED <<fdVars, level, reader>>

\* Mutant: a full pipe is emptied to make room.
AlertedFull == IF level < Capacity THEN level + 1 ELSE 0

\* eventfd_alert, pipe_alert and sock_alert: EAGAIN means that it is full, and
\* then the reader will be woken anyway.
Alerted == IF level < Capacity THEN level + 1 ELSE level

Alert(w) ==
    /\ stage = "open" /\ w \in alerting
    /\ level' = Alerted
    /\ alerting' = alerting \ {w}
    /\ UNCHANGED <<fdVars, work, reader>>

\* The reader is woken (external).
Wake ==
    /\ stage = "open" /\ reader = "waits" /\ level > 0
    /\ reader' = "drains"
    /\ UNCHANGED <<fdVars, level, work, alerting>>

\* An eventfd is reset by one read; the others are read until EAGAIN.
Drained == reader' = IF method \in Eventfds \/ level = 0 THEN "takes" ELSE "drains"

Drain ==
    /\ stage = "open" /\ reader = "drains"
    /\ level' = IF method \in Eventfds \/ level <= Chunk THEN 0 ELSE level - Chunk
    /\ Drained
    /\ UNCHANGED <<fdVars, work, alerting>>

\* The reader takes all the work (external).
Take ==
    /\ stage = "open" /\ reader = "takes"
    /\ work' = {} /\ reader' = "waits"
    /\ UNCHANGED <<fdVars, level, alerting>>

-----------------------------------------------------------------------------
(* alert_sockets_close, when the threads are done with them *)

CloseRead ==
    /\ stage = "open" /\ work = {} /\ alerting = {} /\ reader = "waits"
    /\ own' = own \ {readFd}
    /\ stage' = "closing"
    /\ UNCHANGED <<method, tried, readFd, writeFd, foreign, level, work, alerting, reader>>

\* Mutant: the second end is closed even if it is the first.
CloseWriteAlways == own' = own \ {writeFd} /\ foreign' = foreign \ {writeFd}

\* An eventfd has one descriptor only.
CloseWrite ==
    IF writeFd # readFd THEN own' = own \ {writeFd} /\ foreign' = foreign \ {writeFd}
    ELSE UNCHANGED <<own, foreign>>

Close ==
    /\ stage = "closing"
    /\ CloseWrite
    /\ readFd' = Unset /\ writeFd' = Unset
    /\ stage' = "closed"
    /\ UNCHANGED <<method, tried, level, work, alerting, reader>>

\* Another thread opens a file (external).
OpenForeign ==
    /\ FreeFds # {}
    /\ foreign' = foreign \cup {Min(FreeFds)}
    /\ UNCHANGED <<stage, method, tried, readFd, writeFd, own, level, work, alerting, reader>>

AlertNext ==
    \/ OpenFails \/ Opens \/ Configure \/ CloseRead \/ Close \/ OpenForeign
    \/ \E w \in Workers : Post(w) \/ Alert(w)
    \/ Wake \/ Drain \/ Take

\* Every thread keeps running.
AlertFairness ==
    /\ \A w \in Workers : WF_alertVars(Alert(w))
    /\ WF_alertVars(Wake) /\ WF_alertVars(Drain) /\ WF_alertVars(Take)

AlertSpec == AlertInit /\ [][AlertNext]_alertVars /\ AlertFairness

-----------------------------------------------------------------------------

AlertTypeOK ==
    /\ stage \in {"start", "configure", "open", "closing", "closed", "failed"}
    /\ method \in AllMethods \cup {Unset} /\ tried \subseteq Methods
    /\ {readFd, writeFd} \subseteq 1 .. MaxFds \cup {Unset}
    /\ own \cap foreign = {} /\ level \in 0 .. Capacity
    /\ work \subseteq Workers /\ alerting \subseteq Workers
    /\ reader \in {"waits", "drains", "takes"}

\* No descriptor is left open by a failure or after closing, whichever method
\* was in use.
NoLeak == AlertTypeOK /\ (stage \in {"start", "closed", "failed"} => own = {})

\* Closing never closes a descriptor that has been given to somebody else.
ForeignUntouched == [][foreign \subseteq foreign']_alertVars

\* No alert is lost: work is taken at last, also when its alert comes while the
\* reader drains or finds the pipe full, although draining reads on for as long
\* as there is something to read.
WorkTaken == \A w \in Workers : (w \in work) ~> (w \notin work)

=============================================================================
