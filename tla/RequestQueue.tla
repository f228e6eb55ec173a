---------------------------- MODULE RequestQueue ----------------------------
(***************************************************************************)
(* What the HTTP thread promises its clients, whatever threads, queues and *)
(* wakeups it is made of: requests stand in one line, at most MaxRequests  *)
(* of them run, and only an aborted request may leave the line before its  *)
(* turn, to fail without ever having run.  HttpThread implements it.       *)
(***************************************************************************)
EXTENDS Naturals, Sequences, FiniteSets

CONSTANTS Reqs, MaxRequests

VARIABLES
    line,      \* the requests that wait, first come first
    status,    \* of each request: idle, waiting, running or done
    aborted    \* the requests whose client gave up

vars == <<line, status, aborted>>

Running == {r \in Reqs : status[r] = "running"}

Init ==
    /\ line = <<>>
    /\ status = [r \in Reqs |-> "idle"]
    /\ aborted = [r \in Reqs |-> FALSE]

Submit(r) ==
    /\ status[r] = "idle"
    /\ status' = [status EXCEPT ![r] = "waiting"]
    /\ line' = Append(line, r)
    /\ UNCHANGED aborted

\* A client may give up at any time after it submitted, as often too late.
GiveUp(r) ==
    /\ status[r] # "idle"
    /\ aborted' = [aborted EXCEPT ![r] = TRUE]
    /\ UNCHANGED <<line, status>>

Leaves(i) == line' = SubSeq(line, 1, i - 1) \o SubSeq(line, i + 1, Len(line))

\* Its turn: the first in line, and a slot is free.
Turn(i) == i = 1 /\ Cardinality(Running) < MaxRequests

Run(i) ==
    /\ Turn(i) /\ ~aborted[line[i]]
    /\ Leaves(i)
    /\ status' = [status EXCEPT ![line[i]] = "running"]
    /\ UNCHANGED aborted

\* A request fails without having run when it cannot connect, or was aborted.
FailAtOnce(i) ==
    /\ Turn(i) \/ aborted[line[i]]
    /\ Leaves(i)
    /\ status' = [status EXCEPT ![line[i]] = "done"]
    /\ UNCHANGED aborted

Finish(r) ==
    /\ status[r] = "running"
    /\ status' = [status EXCEPT ![r] = "done"]
    /\ UNCHANGED <<line, aborted>>

Next ==
    \/ \E r \in Reqs : Submit(r) \/ GiveUp(r) \/ Finish(r)
    \/ \E i \in DOMAIN line : Run(i) \/ FailAtOnce(i)

Spec == Init /\ [][Next]_vars

=============================================================================
