----------------------------- MODULE ProxyTunnel -----------------------------
(***************************************************************************)
(* A TLS tunnel through an HTTP proxy (networking/prox_tunnel.rs): its     *)
(* reference count, its write buffer, and what the clients that use it one *)
(* after the other know of its handshake.                                  *)
(*                                                                         *)
(* Everything runs on the HTTP thread, but calls nest: the client calls    *)
(* the tunnel, the tunnel its TLS wrapper, the wrapper the callbacks, and  *)
(* a callback may make the client let go of the tunnel.  stack holds the   *)
(* calls in progress, each with the reference its ScopedRef holds.  The    *)
(* HTTPClient, the connection pool and the TLS wrapper are external.       *)
(***************************************************************************)
EXTENDS Naturals, Sequences, FiniteSets, Functions

CONSTANTS
    Clients,   \* the HTTPClients that use the tunnel
    Strict,    \* those with flags.reject_unauthorized
    NoClient,
    MaxBytes   \* bound: chunks of encrypted data during the life of the tunnel

ASSUME ClientsAssumption == Strict \subseteq Clients /\ NoClient \notin Clients
ASSUME MaxBytesAssumption == MaxBytes \in Nat

VARIABLES
    stack,        \* the calls in progress, innermost last
    refs,         \* ref_count
    derefs,       \* times the tunnel is in queued_threadlocal_proxy_derefs
    life,         \* "none", "live" or "freed"
    owner,        \* the client whose proxy_tunnel it is
    ctx,          \* wrapper.handlers.ctx, the client the callbacks are given
    pooled,       \* the connection pool holds it
    socket,       \* socket is not Socket::None
    closed,       \* the wrapper has called on_close
    handshake,    \* the verdict of the TLS handshake: "none", or how it ended
    tunnelErr,    \* did_have_handshaking_error of the tunnel
    established,  \* established_with_reject_unauthorized
    clientErr,    \* flags.did_have_handshaking_error of each client
    stage,        \* what each client is doing
    sent,         \* the clients that have sent a request through the tunnel
    buffer,       \* write_buffer
    wire,         \* what the socket has accepted, of all clients
    produced,     \* history: chunks the TLS session has encrypted
    lost          \* history: the chunks that went with a buffer adopt reset

refVars    == <<refs, derefs, life, owner, ctx, pooled>>
verifyVars == <<handshake, tunnelErr, established, clientErr, sent>>
dataVars   == <<buffer, wire, produced, lost>>
vars == <<stack, refVars, socket, closed, verifyVars, stage, dataVars>>

\* A call made on the tunnel by the client, and callbacks of the wrapper.
\* start and close hold no reference of their own.  "onClosed" is on_close
\* once it has told the client.
Guarded == {"receive", "onWritable", "onOpen", "onData", "onHandshake"}
Frames  == Guarded \cup {"start", "close", "onClose", "onClosed"}

\* How the handshake ended: with a good certificate for this host, for another
\* host, with an error the peer's certificate has, or not at all.
Verdicts == {"good", "wrongHost", "certError", "failed"}

Top == IF stack = <<>> THEN "idle" ELSE stack[Len(stack)]
Held(frame) == IF frame \in Guarded THEN 1 ELSE 0

Init ==
    /\ stack = <<>> /\ refs = 0 /\ derefs = 0 /\ life = "none"
    /\ owner = NoClient /\ ctx = NoClient /\ pooled = FALSE /\ socket = FALSE /\ closed = FALSE
    /\ handshake = "none" /\ tunnelErr = FALSE /\ established = FALSE
    /\ clientErr = [c \in Clients |-> FALSE]
    /\ stage = [c \in Clients |-> "new"]
    /\ sent = {}
    /\ buffer = <<>> /\ wire = <<>> /\ produced = 0 /\ lost = {}

\* The last reference gone, the tunnel is dropped.
Deref(n) ==
    /\ refs' = refs - n
    /\ life' = IF refs = n THEN "freed" ELSE life

\* detach_and_deref, by the client that has taken the tunnel from itself.
LetGo ==
    /\ owner' = NoClient /\ socket' = FALSE
    /\ Deref(1)

\* What a callback of the wrapper looks for: the client it is given still has
\* the tunnel.  After detach_owner ctx names the client that had it.
Attached == owner # NoClient /\ ctx = owner

-----------------------------------------------------------------------------
(* Calls of the client. *)

\* start: the wrapper cannot be made, or it is started with the client as the
\* context of its callbacks.
Start(c) ==
    /\ Top = "idle" /\ life = "none" /\ stage[c] = "new"
    /\ \/ /\ life' = "freed"
          /\ stage' = [stage EXCEPT ![c] = "fail"]
          /\ UNCHANGED <<stack, refs, owner, ctx, socket>>
       \/ /\ life' = "live" /\ refs' = 1 /\ owner' = c /\ ctx' = c /\ socket' = TRUE
          /\ stage' = [stage EXCEPT ![c] = "connecting"]
          /\ stack' = <<"start">>
    /\ UNCHANGED <<derefs, pooled, closed, verifyVars, dataVars>>

Receive ==
    /\ Top = "idle" /\ owner # NoClient
    /\ stack' = <<"receive">>
    /\ refs' = refs + 1
    /\ UNCHANGED <<derefs, life, owner, ctx, pooled, socket, closed, verifyVars,
                   stage, dataVars>>

\* on_writable hands the buffer to the socket, which takes some of it.
OnWritable ==
    /\ Top = "idle" /\ owner # NoClient
    /\ stack' = <<"onWritable">>
    /\ refs' = refs + 1
    /\ \E n \in 0..Len(buffer) :
          /\ wire' = wire \o SubSeq(buffer, 1, n)
          /\ buffer' = SubSeq(buffer, n + 1, Len(buffer))
    /\ UNCHANGED <<derefs, life, owner, ctx, pooled, socket, closed, verifyVars,
                   stage, produced, lost>>

\* close: the wrapper is shut down, and reports it.
Close ==
    /\ Top = "idle" /\ owner # NoClient /\ ~closed
    /\ stack' = <<"close">>
    /\ UNCHANGED <<refVars, socket, closed, verifyVars, stage, dataVars>>

\* The client gives up (a timeout, an abort): it takes the tunnel from itself
\* first, so that on_close finds it detached, then detach_and_deref.
Abandon ==
    /\ Top = "idle" /\ owner # NoClient
    /\ stage' = [stage EXCEPT ![owner] = "fail"]
    /\ LetGo /\ closed' = TRUE
    /\ UNCHANGED <<stack, derefs, ctx, pooled, verifyVars, dataVars>>

\* write, the request of a client whose turn it is.  A wrapper that was shut
\* down while the tunnel was pooled answers ConnectionClosed, which fails the
\* client.
Write ==
    /\ Top = "idle" /\ owner # NoClient /\ stage[owner] = "headers"
    /\ IF closed
       THEN /\ stage' = [stage EXCEPT ![owner] = "fail"]
            /\ LetGo
            /\ UNCHANGED sent
       ELSE /\ sent' = sent \cup {owner}
            /\ UNCHANGED <<stage, owner, socket, refs, life>>
    /\ UNCHANGED <<stack, derefs, ctx, pooled, closed, handshake, tunnelErr,
                   established, clientErr, dataVars>>

\* Mutant: the client is not told of the error.
AdoptUninformed(c) ==
    /\ Top = "idle" /\ pooled /\ stage[c] = "new"
    /\ c \in Strict => established /\ ~tunnelErr
    /\ pooled' = FALSE /\ owner' = c /\ ctx' = c /\ socket' = TRUE
    /\ buffer' = <<>> /\ lost' = lost \cup Range(buffer)
    /\ stage' = [stage EXCEPT ![c] = "headers"]
    /\ UNCHANGED <<stack, refs, derefs, life, closed, verifyVars, wire, produced>>

\* Mutant: the callbacks are still given the client that had the tunnel before.
AdoptUnheard(c) ==
    /\ Top = "idle" /\ pooled /\ stage[c] = "new"
    /\ c \in Strict => established /\ ~tunnelErr
    /\ pooled' = FALSE /\ owner' = c /\ socket' = TRUE
    /\ buffer' = <<>> /\ lost' = lost \cup Range(buffer)
    /\ clientErr' = [clientErr EXCEPT ![c] = tunnelErr]
    /\ stage' = [stage EXCEPT ![c] = "headers"]
    /\ UNCHANGED <<stack, refs, derefs, life, ctx, closed, handshake, tunnelErr,
                   established, sent, wire, produced>>

\* adopt, from the pool, which offers a tunnel that was not verified to no
\* client that asks for it.  The pool's reference becomes the client's, and
\* what the buffer still held is dropped, though the TLS session goes on.
Adopt(c) ==
    /\ Top = "idle" /\ pooled /\ stage[c] = "new"
    /\ c \in Strict => established /\ ~tunnelErr
    /\ pooled' = FALSE /\ owner' = c /\ ctx' = c /\ socket' = TRUE
    /\ buffer' = <<>> /\ lost' = lost \cup Range(buffer)
    /\ clientErr' = [clientErr EXCEPT ![c] = tunnelErr]
    /\ stage' = [stage EXCEPT ![c] = "headers"]
    /\ UNCHANGED <<stack, refs, derefs, life, closed, handshake, tunnelErr,
                   established, sent, wire, produced>>

\* The pool lets go of the tunnel.
PoolDrops ==
    /\ Top = "idle" /\ pooled
    /\ pooled' = FALSE
    /\ Deref(1)
    /\ UNCHANGED <<stack, derefs, owner, ctx, socket, closed, verifyVars, stage, dataVars>>

\* drain_events: the references on_close left behind.
DrainProxyDerefs ==
    /\ Top = "idle" /\ derefs > 0
    /\ derefs' = 0
    /\ Deref(derefs)
    /\ UNCHANGED <<stack, owner, ctx, pooled, socket, closed, verifyVars, stage, dataVars>>

-----------------------------------------------------------------------------
(* Callbacks of the wrapper.  Each looks the tunnel up in the client it is *)
(* given and does nothing when that client has none.                       *)

\* A callback and, when it calls close_raw, the shutdown of the wrapper.
Enter(frame, closes) ==
    stack' = Append(stack, frame) \o (IF closes THEN <<"close">> ELSE <<>>)

OnOpen ==
    /\ Top = "start" /\ Attached /\ stage[owner] = "connecting"
    /\ stage' = [stage EXCEPT ![owner] = "handshake"]
    /\ Enter("onOpen", FALSE)
    /\ refs' = refs + 1
    /\ UNCHANGED <<derefs, life, owner, ctx, pooled, socket, closed, verifyVars, dataVars>>

\* on_handshake closes the tunnel when the handshake failed, or the client
\* wants a verified certificate and it has an error.
Rejects(c, verdict) == verdict = "failed" \/ (c \in Strict /\ verdict = "certError")

\* check_server_identity refuses the host, and fails the client itself.
WrongIdentity(c, verdict) == c \in Strict /\ verdict = "wrongHost" /\ socket

\* start only sends the first message, so a handshake can fail there but not
\* succeed.
OnHandshake ==
    /\ Top \in {"start", "receive"} /\ Attached /\ ~closed
    /\ stage[owner] = "handshake"
    /\ \E verdict \in Verdicts :
          /\ Top = "start" => verdict = "failed"
          /\ handshake' = verdict
          /\ clientErr' = IF verdict = "failed" THEN clientErr
                          ELSE [clientErr EXCEPT ![owner] = (verdict = "certError")]
          /\ Enter("onHandshake", Rejects(owner, verdict))
          /\ IF ~Rejects(owner, verdict) /\ WrongIdentity(owner, verdict)
             THEN /\ stage' = [stage EXCEPT ![owner] = "fail"]
                  /\ owner' = NoClient /\ socket' = FALSE /\ closed' = TRUE
                  /\ UNCHANGED <<refs, sent>>
             ELSE /\ stage' = [stage EXCEPT ![owner] = "headers"]
                  /\ refs' = refs + 1
                  /\ sent' = IF Rejects(owner, verdict) \/ ~socket THEN sent
                             ELSE sent \cup {owner}
                  /\ UNCHANGED <<owner, socket, closed>>
    /\ UNCHANGED <<derefs, life, ctx, pooled, tunnelErr, established, dataVars>>

\* Mutant: any tunnel that worked counts as verified.
DetachOwnerTrusting ==
    /\ tunnelErr' = clientErr[owner]
    /\ established' = TRUE

\* detach_owner, when the response is complete and the tunnel is kept.
DetachOwner ==
    /\ tunnelErr' = clientErr[owner]
    /\ established' = (established \/ owner \in Strict)

\* on_data: more of the headers or the body.
OnData ==
    /\ Top = "receive" /\ Attached /\ ~closed
    /\ stage[owner] \in {"headers", "body"}
    /\ stage' = [stage EXCEPT ![owner] = "body"]
    /\ Enter("onData", FALSE)
    /\ refs' = refs + 1
    /\ UNCHANGED <<derefs, life, owner, ctx, pooled, socket, closed, verifyVars, dataVars>>

\* on_data: the body is complete and progress_update ends the request.  The
\* pool takes the tunnel with the client's reference, whatever it still has to
\* send, or it is let go; either way the guard of on_data keeps it until the
\* callback returns.
OnDataComplete ==
    /\ Top = "receive" /\ Attached /\ ~closed /\ stage[owner] = "body"
    /\ stage' = [stage EXCEPT ![owner] = "done"]
    /\ owner' = NoClient /\ socket' = FALSE
    /\ Enter("onData", FALSE)
    /\ \/ /\ pooled' = TRUE
          /\ refs' = refs + 1
          /\ DetachOwner
          /\ UNCHANGED closed
       \/ /\ closed' = TRUE
          /\ UNCHANGED <<refs, pooled, tunnelErr, established>>
    /\ UNCHANGED <<derefs, life, ctx, handshake, clientErr, sent, dataVars>>

\* on_data: a malformed body, or data in a stage that expects none.
OnDataBad ==
    /\ Top = "receive" /\ Attached /\ ~closed
    /\ stage[owner] # "headers"
    /\ Enter("onData", TRUE)
    /\ refs' = refs + 1
    /\ UNCHANGED <<derefs, life, owner, ctx, pooled, socket, closed, verifyVars,
                   stage, dataVars>>

\* Mutant: no reference is taken for the time of the callback.
OnCloseUnreferenced ==
    /\ Top \in {"start", "receive", "close"} /\ ~closed
    /\ closed' = TRUE
    /\ IF Attached THEN Enter("onClose", FALSE) ELSE UNCHANGED stack
    /\ UNCHANGED <<refVars, socket, verifyVars, stage, dataVars>>

\* on_close, up to the reference it takes for itself.
OnClose ==
    /\ Top \in {"start", "receive", "close"} /\ ~closed
    /\ closed' = TRUE
    /\ IF Attached
       THEN Enter("onClose", FALSE) /\ refs' = refs + 1
       ELSE UNCHANGED <<stack, refs>>
    /\ UNCHANGED <<derefs, life, owner, ctx, pooled, socket, verifyVars, stage, dataVars>>

\* The rest of on_close: a body that ends with the connection is complete, and
\* progress_update ends the request; anything else fails.  Either makes the
\* client let go of the tunnel.  Only the second takes the socket from the
\* tunnel itself; without one neither finds anything to tell.  The reference of
\* on_close is left to drain_events.
OnCloseTells ==
    /\ Top = "onClose"
    /\ stack' = [stack EXCEPT ![Len(stack)] = "onClosed"]
    /\ derefs' = derefs + 1
    /\ IF socket /\ owner # NoClient
       THEN /\ \/ stage[owner] = "body" /\ stage' = [stage EXCEPT ![owner] = "done"]
               \/ stage' = [stage EXCEPT ![owner] = "fail"]
            /\ LetGo
       ELSE /\ \/ owner # NoClient /\ stage[owner] = "body" /\ UNCHANGED socket
               \/ socket' = FALSE
            /\ UNCHANGED <<stage, owner, refs, life>>
    /\ UNCHANGED <<ctx, pooled, closed, verifyVars, dataVars>>

\* Mutant: what the socket did not take goes in front of the buffer.
WriteEncryptedDirect ==
    /\ Top \in {"idle", "start", "receive", "onWritable", "onHandshake", "close"}
    /\ Attached
    /\ \E k \in 1..2 :
          /\ produced + k <= MaxBytes
          /\ produced' = produced + k
          /\ LET data == [i \in 1..k |-> produced + i]
             IN  \E n \in 0..k :
                    /\ wire' = wire \o SubSeq(data, 1, n)
                    /\ buffer' = buffer \o SubSeq(data, n + 1, k)
    /\ UNCHANGED <<stack, refVars, socket, closed, verifyVars, stage, lost>>

\* write_encrypted: behind what is buffered already, or to the socket, which
\* takes n of the k chunks.
WriteEncrypted ==
    /\ Top \in {"idle", "start", "receive", "onWritable", "onHandshake", "close"}
    /\ Attached
    /\ \E k \in 1..2 :
          /\ produced + k <= MaxBytes
          /\ produced' = produced + k
          /\ LET data == [i \in 1..k |-> produced + i]
             IN  IF buffer # <<>>
                 THEN buffer' = buffer \o data /\ UNCHANGED wire
                 ELSE \E n \in 0..(IF socket THEN k ELSE 0) :
                         /\ wire' = wire \o SubSeq(data, 1, n)
                         /\ buffer' = SubSeq(data, n + 1, k)
    /\ UNCHANGED <<stack, refVars, socket, closed, verifyVars, stage, lost>>

\* Mutant: a callback returns without dropping its guard.
ReturnLeaks ==
    /\ stack # <<>> /\ Top # "onClose" /\ (Top = "close" => closed)
    /\ stack' = SubSeq(stack, 1, Len(stack) - 1)
    /\ Deref(IF Top = "onData" THEN 0 ELSE Held(Top))
    /\ UNCHANGED <<derefs, owner, ctx, pooled, socket, closed, verifyVars, stage, dataVars>>

\* The innermost call returns and drops its guard.
Return ==
    /\ stack # <<>> /\ Top # "onClose" /\ (Top = "close" => closed)
    /\ stack' = SubSeq(stack, 1, Len(stack) - 1)
    /\ Deref(Held(Top))
    /\ UNCHANGED <<derefs, owner, ctx, pooled, socket, closed, verifyVars, stage, dataVars>>

Next ==
    \/ \E c \in Clients : Start(c) \/ Adopt(c)
    \/ Receive \/ OnWritable \/ Close \/ Abandon \/ Write \/ PoolDrops
    \/ OnOpen \/ OnHandshake \/ OnData \/ OnDataComplete \/ OnDataBad
    \/ OnClose \/ OnCloseTells \/ WriteEncrypted \/ Return
    \/ DrainProxyDerefs

\* Calls return, and the HTTP thread gets to drain_events: schedule_proxy_deref
\* wakes it.
Fairness ==
    /\ WF_vars(OnClose \/ OnCloseTells \/ Return)
    /\ SF_vars(DrainProxyDerefs)

Spec == Init /\ [][Next]_vars /\ Fairness

-----------------------------------------------------------------------------
(* Properties. *)

TypeOK ==
    /\ stack \in Seq(Frames)
    /\ refs \in Nat /\ derefs \in Nat /\ life \in {"none", "live", "freed"}
    /\ owner \in Clients \cup {NoClient} /\ ctx \in Clients \cup {NoClient}
    /\ pooled \in BOOLEAN /\ socket \in BOOLEAN /\ closed \in BOOLEAN
    /\ handshake \in Verdicts \cup {"none"}
    /\ tunnelErr \in BOOLEAN /\ established \in BOOLEAN
    /\ clientErr \in [Clients -> BOOLEAN]
    /\ stage \in [Clients -> {"new", "connecting", "handshake", "headers",
                              "body", "done", "fail"}]
    /\ sent \subseteq Clients
    /\ buffer \in Seq(Nat) /\ wire \in Seq(Nat)
    /\ produced \in 0..MaxBytes /\ lost \subseteq 1..produced

GuardsHeld ==
    Cardinality({i \in DOMAIN stack : stack[i] \in Guarded \cup {"onClose"}})

\* ref_count is the number of those who hold the tunnel: a client, the pool,
\* the calls in progress, and the references on_close left to drain_events.
RefsMatch ==
    refs = (IF owner = NoClient THEN 0 ELSE 1) + (IF pooled THEN 1 ELSE 0)
             + GuardsHeld + derefs

\* The tunnel is not freed under a call that is in progress, the calls that
\* hold no reference of their own (start, close) included: this is what the
\* reference that on_close leaves to drain_events is for.
NoUseAfterFree == stack # <<>> => life = "live"

\* A client that rejects unauthorized certificates never sends a request
\* through a tunnel whose handshake showed another host or an error, be the
\* tunnel its own or a pooled one.
StrictVerified == \A c \in sent \cap Strict : handshake = "good"

\* What a client is told of the handshake is what happened, through any
\* number of detach_owner and adopt.
ErrorFlagFollows ==
    owner # NoClient /\ handshake \in {"good", "wrongHost", "certError"} =>
        clientErr[owner] = (handshake = "certError")

\* The tunnel's books are in order: every reference is somebody's, and every
\* client knows how its handshake went.
Bookkeeping == TypeOK /\ RefsMatch /\ ErrorFlagFollows

\* Encrypted data reaches the socket in the order in which the TLS session
\* produced it, over all the clients of the tunnel, and none is lost but what
\* the reset of adopt drops.  (It does drop it: the session goes on, so the
\* peer meets a gap.)
WireOrder ==
    LET stream == wire \o buffer
    IN  /\ \A i, j \in DOMAIN stream : i < j => stream[i] < stream[j]
        /\ Range(stream) = (1..produced) \ lost

\* Once on_close is through, no client waits for an answer from the tunnel: it
\* has been failed or has its complete response.  That takes the callbacks to
\* be given the client that has the tunnel now.  on_close is given the one that
\* had it when it has just been pooled, and says nothing: so the only client a
\* closed tunnel can have adopted it afterwards and has yet to write, which
\* will fail.
CloseReachesClient ==
    closed /\ owner # NoClient =>
        \/ \E i \in DOMAIN stack : stack[i] = "onClose"
        \/ stage[owner] = "headers" /\ owner \notin sent

\* A tunnel that nobody uses and the pool does not keep is freed at last.
Reclaimed == (life = "live" /\ owner = NoClient /\ ~pooled) ~> (life = "freed")
=============================================================================
