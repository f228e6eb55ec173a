--------------------------- MODULE SslContextCache ---------------------------
(***************************************************************************)
(* The cache of custom TLS contexts of the HTTP thread                     *)
(* (networking/http_thread.rs).  A client with its own TLS configuration   *)
(* connects through a context made for it, cached under the ADDRESS of the *)
(* configuration object.  Contexts are reference counted: the cache holds  *)
(* one reference, each client that uses the context another.               *)
(*                                                                         *)
(* connect runs on the HTTP thread; its sweep over the cache is modelled   *)
(* step by step, because it removes while it iterates.                     *)
(***************************************************************************)
EXTENDS Naturals, Sequences, FiniteSets

CONSTANTS
    Clients,    \* HTTPClients
    Configs,    \* contents of TLS configurations
    Addrs,      \* addresses of configuration objects
    MaxSize,    \* SSL_CONTEXT_CACHE_MAX_SIZE
    TTL,        \* SSL_CONTEXT_CACHE_TTL_NS
    MaxTime,    \* bound: the clock
    MaxCtx,     \* bound: contexts made
    None

ASSUME SizesAssumption == MaxSize \in Nat \ {0} /\ TTL \in Nat
ASSUME CacheBoundsAssumption == MaxTime \in Nat /\ MaxCtx \in Nat
ASSUME ClientsAssumption == IsFiniteSet(Clients)
ASSUME NoneAssumption == None \notin Configs \cup Addrs \cup Clients

Ctxs == 1..MaxCtx

VARIABLES
    now,      \* the timer
    object,   \* the configuration at each address, None when it is free
    cache,    \* custom_ssl_context_map, in the order of its values()
    made,     \* contexts made so far
    madeFor,  \* the configuration each context was initialised with
    refs,     \* ref_count of each context
    freed,    \* the contexts whose last reference was dropped
    tls,      \* tls_props: the address of each client's configuration
    ctx,      \* custom_ssl_ctx of each client, 0 when it has none
    caller,   \* the client in connect, None when there is none
    i,        \* the index of the sweep
    started   \* the time the sweep has read

vars == <<now, object, cache, made, madeFor, refs, freed, tls, ctx, caller, i, started>>

Entry == [addr : Addrs, ctx : Ctxs, lastUsed : 0..MaxTime]

Init ==
    /\ now = 0 /\ object = [a \in Addrs |-> None]
    /\ cache = <<>> /\ made = 0
    /\ madeFor = [x \in Ctxs |-> None]
    /\ refs = [x \in Ctxs |-> 0] /\ freed = {}
    /\ tls = [c \in Clients |-> None] /\ ctx = [c \in Clients |-> 0]
    /\ caller = None /\ i = 0 /\ started = 0

Tick ==
    /\ now < MaxTime
    /\ now' = now + 1
    /\ UNCHANGED <<object, cache, made, madeFor, refs, freed, tls, ctx, caller, i, started>>

\* Mutant: an entry does not keep its configuration alive.
CollectClients(entries, clients) ==
    [a \in Addrs |-> IF \E c \in Clients : clients[c] = a THEN object[a] ELSE None]

\* SharedPtr: a configuration object lives while a client or an entry of the
\* cache refers to it (config_ref); afterwards its address is free.
Collect(entries, clients) ==
    [a \in Addrs |->
        IF \/ \E k \in DOMAIN entries : entries[k].addr = a
           \/ \E c \in Clients : clients[c] = a
        THEN object[a] ELSE None]

\* A client is given a configuration, new or shared with another client.
Configure(c, a, config) ==
    /\ tls[c] = None
    /\ object[a] \in {None, config}
    /\ object' = [object EXCEPT ![a] = config]
    /\ tls' = [tls EXCEPT ![c] = a]
    /\ UNCHANGED <<now, cache, made, madeFor, refs, freed, ctx, caller, i, started>>

\* connect of a client that requires a custom context.
Connect(c) ==
    /\ caller = None /\ tls[c] # None /\ ctx[c] = 0
    /\ caller' = c /\ i' = 1 /\ started' = now
    /\ UNCHANGED <<now, object, cache, made, madeFor, refs, freed, tls, ctx>>

\* ArrayHashMap.swap_remove_at: the last entry takes the place.
SwapRemove(s, k) ==
    [n \in 1..(Len(s) - 1) |-> IF n = k THEN s[Len(s)] ELSE s[n]]

\* SslContextCacheEntry.release
Release(x, counts) ==
    /\ refs' = [counts EXCEPT ![x] = @ - 1]
    /\ freed' = IF counts[x] = 1 THEN freed \cup {x} ELSE freed

\* Mutant: the index moves on after a removal.
SweepSkipping ==
    /\ caller # None /\ i <= Len(cache)
    /\ i' = i + 1
    /\ IF started - cache[i].lastUsed > TTL
       THEN /\ cache' = SwapRemove(cache, i)
            /\ Release(cache[i].ctx, refs)
            /\ object' = Collect(cache', tls)
       ELSE UNCHANGED <<cache, refs, freed, object>>
    /\ UNCHANGED <<now, made, madeFor, tls, ctx, caller, started>>

\* One round of evict_stale_ssl_contexts.
Sweep ==
    /\ caller # None /\ i <= Len(cache)
    /\ IF started - cache[i].lastUsed > TTL
       THEN /\ cache' = SwapRemove(cache, i)
            /\ Release(cache[i].ctx, refs)
            /\ object' = Collect(cache', tls)
            /\ UNCHANGED i
       ELSE /\ i' = i + 1
            /\ UNCHANGED <<cache, refs, freed, object>>
    /\ UNCHANGED <<now, made, madeFor, tls, ctx, caller, started>>

Swept == caller # None /\ i > Len(cache)
Found(a) == {k \in DOMAIN cache : cache[k].addr = a}

\* The cache has a context: the client shares it.
Hit ==
    /\ Swept
    /\ \E k \in Found(tls[caller]) :
          /\ cache' = [cache EXCEPT ![k].lastUsed = now]
          /\ ctx' = [ctx EXCEPT ![caller] = cache[k].ctx]
          /\ refs' = [refs EXCEPT ![cache[k].ctx] = @ + 1]
    /\ caller' = None /\ i' = 0
    /\ UNCHANGED <<now, object, made, madeFor, freed, tls, started>>

\* The context cannot be initialised: connect fails.
InitFails ==
    /\ Swept /\ Found(tls[caller]) = {}
    /\ caller' = None /\ i' = 0
    /\ UNCHANGED <<now, object, cache, made, madeFor, refs, freed, tls, ctx, started>>

\* The index evict_oldest_ssl_context finds: the first of the oldest.
Oldest(s) ==
    CHOOSE k \in DOMAIN s :
        \A m \in DOMAIN s :
            s[k].lastUsed < s[m].lastUsed \/ (s[k].lastUsed = s[m].lastUsed /\ k <= m)

\* Mutant: the size is checked before the put.
MissCheckedEarly ==
    /\ Swept /\ Found(tls[caller]) = {} /\ made < MaxCtx
    /\ LET x       == made + 1
           entry   == [addr |-> tls[caller], ctx |-> x, lastUsed |-> now]
           entries == Append(cache, entry)
           old     == entries[Oldest(entries)].ctx
           full    == Len(cache) > MaxSize
       IN  /\ made' = x
           /\ madeFor' = [madeFor EXCEPT ![x] = object[tls[caller]]]
           /\ cache' = IF full THEN SwapRemove(entries, Oldest(entries)) ELSE entries
           /\ object' = Collect(cache', tls)
           /\ ctx' = [ctx EXCEPT ![caller] = x]
           /\ refs' = [y \in Ctxs |->
                          (IF y = x THEN 2 ELSE refs[y]) - (IF full /\ y = old THEN 1 ELSE 0)]
           /\ freed' = IF full /\ (old = x \/ refs[old] = 1) THEN freed \cup {old} ELSE freed
    /\ caller' = None /\ i' = 0
    /\ UNCHANGED <<now, tls, started>>

\* A context is made and put, the oldest is evicted when there are too many,
\* and only then does the client take its reference.
Miss ==
    /\ Swept /\ Found(tls[caller]) = {} /\ made < MaxCtx
    /\ LET x       == made + 1
           entry   == [addr |-> tls[caller], ctx |-> x, lastUsed |-> now]
           entries == Append(cache, entry)
           old     == entries[Oldest(entries)].ctx
           full    == Len(entries) > MaxSize
       IN  /\ made' = x
           /\ madeFor' = [madeFor EXCEPT ![x] = object[tls[caller]]]
           /\ cache' = IF full THEN SwapRemove(entries, Oldest(entries)) ELSE entries
           /\ object' = Collect(cache', tls)
           /\ ctx' = [ctx EXCEPT ![caller] = x]
           /\ refs' = [y \in Ctxs |->
                          (IF y = x THEN 2 ELSE refs[y]) - (IF full /\ y = old THEN 1 ELSE 0)]
           /\ freed' = IF full /\ (old = x \/ refs[old] = 1) THEN freed \cup {old} ELSE freed
    /\ caller' = None /\ i' = 0
    /\ UNCHANGED <<now, tls, started>>

\* The client is done, on the HTTP thread: it drops its context and its configuration.
Finish(c) ==
    /\ caller = None /\ tls[c] # None
    /\ tls' = [tls EXCEPT ![c] = None]
    /\ object' = Collect(cache, tls')
    /\ ctx' = [ctx EXCEPT ![c] = 0]
    /\ IF ctx[c] = 0 THEN UNCHANGED <<refs, freed>> ELSE Release(ctx[c], refs)
    /\ UNCHANGED <<now, cache, made, madeFor, caller, i, started>>

Next ==
    \/ Tick
    \/ \E c \in Clients :
          \/ \E a \in Addrs, config \in Configs : Configure(c, a, config)
          \/ Connect(c)
          \/ Finish(c)
    \/ Sweep \/ Hit \/ InitFails \/ Miss

Spec == Init /\ [][Next]_vars

-----------------------------------------------------------------------------
(* Properties. *)

TypeOK ==
    /\ now \in 0..MaxTime
    /\ object \in [Addrs -> Configs \cup {None}]
    /\ cache \in Seq(Entry)
    /\ made \in 0..MaxCtx
    /\ madeFor \in [Ctxs -> Configs \cup {None}]
    /\ refs \in [Ctxs -> Nat] /\ freed \subseteq Ctxs
    /\ tls \in [Clients -> Addrs \cup {None}]
    /\ ctx \in [Clients -> 0..MaxCtx]
    /\ caller \in Clients \cup {None}
    /\ i \in Nat /\ started \in 0..MaxTime

\* The cache never holds more than SSL_CONTEXT_CACHE_MAX_SIZE contexts, nor
\* two for the same address.
CacheBounded ==
    /\ Len(cache) <= MaxSize
    /\ \A k, m \in DOMAIN cache : cache[k].addr = cache[m].addr => k = m

\* ref_count of a context is one for the cache and one for each client.
CtxRefsMatch ==
    \A x \in Ctxs :
        refs[x] = Cardinality({k \in DOMAIN cache : cache[k].ctx = x})
                    + Cardinality({c \in Clients : ctx[c] = x})

\* No context is freed while the cache or a client may still use it; in
\* particular the context just made is never the one evicted for it.
NoFreedContext ==
    /\ \A c \in Clients : ctx[c] \notin freed
    /\ \A k \in DOMAIN cache : cache[k].ctx \notin freed

\* The cache keeps its books through both evictions and the map's swaps.
Bookkeeping == TypeOK /\ CacheBounded /\ CtxRefsMatch /\ NoFreedContext

\* A client connects through a context made for its own configuration.  The
\* key is an address: it stays valid because the entry's config_ref keeps the
\* configuration alive, so the address cannot be given to another one.
RightConfiguration ==
    \A c \in Clients : ctx[c] # 0 => madeFor[ctx[c]] = object[tls[c]]

\* A context that was idle for longer than the time to live when connect read
\* the clock is never handed to a client, whatever the sweep removed before it.
NoStaleHit ==
    [][\A c \in Clients :
          ctx'[c] # ctx[c] /\ ctx'[c] # 0 =>
              \A k \in DOMAIN cache : cache[k].ctx = ctx'[c] => started - cache[k].lastUsed <= TTL]_vars
=============================================================================
