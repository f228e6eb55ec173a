---------------------------- MODULE MCHttpThread ----------------------------
(* Small instances of HttpThread.  The requests are interchangeable. *)
EXTENDS HttpThread, TLC

ReqSymmetry == Permutations(Reqs)

\* Bound: a body is written while its request is alone, and one response body is
\* drained beside at most one other request, so that the messages of bodies and
\* the competition of three requests for the slot are not multiplied.
BodiesAlone ==
    \A r \in Reqs :
        /\ writes[r] > 0 => \A s \in Reqs \ {r} : state[s] = "pending"
        /\ drains[r] > 0 =>
              /\ \A s \in Reqs \ {r} : drains[s] = 0
              /\ Cardinality({s \in Reqs : state[s] # "pending"}) <= 2

\* Bound: of three requests one is not aborted.
SomeoneStays == \E r \in Reqs : ~aborted[r]

Bounds == BodiesAlone /\ (Cardinality(Reqs) < 3 \/ SomeoneStays)
=============================================================================
