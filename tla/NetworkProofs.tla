--------------------------- MODULE NetworkProofs ---------------------------
(***************************************************************************)
(* Proofs about SslContextCache, for any clients, configurations and       *)
(* addresses, any size of the cache, time to live and clock, and about     *)
(* NetErrorAutoReloader, for any navigations, addresses and errors and any *)
(* number of delays.                                                       *)
(***************************************************************************)
EXTENDS SslContextCache, NetErrorAutoReloader, FiniteSetTheorems, SequenceTheorems,
        WellFoundedInduction, TLAPS

-----------------------------------------------------------------------------
(* SslContextCache.                                                        *)

Has(entries, x) == \E k \in DOMAIN entries : entries[k].ctx = x
Users(clients, x) == {c \in Clients : clients[c] = x}

\* Entries of the cache: each context and each address once, made for the
\* configuration that is at its address, and used in the past.
WellFormed(entries, objects, mades, n, time) ==
    /\ entries \in Seq(Entry)
    /\ \A k \in DOMAIN entries :
          /\ entries[k].ctx <= n
          /\ entries[k].lastUsed <= time
          /\ objects[entries[k].addr] # None
          /\ mades[entries[k].ctx] = objects[entries[k].addr]
    /\ \A k, m \in DOMAIN entries :
          entries[k].ctx = entries[m].ctx \/ entries[k].addr = entries[m].addr => k = m

ClientsValid ==
    \A c \in Clients :
        /\ tls[c] # None => object[tls[c]] # None
        /\ ctx[c] # 0 => ctx[c] <= made /\ tls[c] # None /\ madeFor[ctx[c]] = object[tls[c]]

\* References, with one for the cache at most.
RefsCounted ==
    \A x \in Ctxs :
        /\ refs[x] = (IF Has(cache, x) THEN 1 ELSE 0) + Cardinality(Users(ctx, x))
        /\ x \in freed => refs[x] = 0 /\ x <= made

\* What the sweep has passed is not stale.
SweepValid ==
    caller # None =>
        /\ tls[caller] # None /\ ctx[caller] = 0 /\ i >= 1 /\ started <= now
        /\ \A k \in DOMAIN cache : k < i => started - cache[k].lastUsed <= TTL

Inv ==
    /\ TypeOK
    /\ Len(cache) <= MaxSize
    /\ WellFormed(cache, object, madeFor, made, now)
    /\ ClientsValid
    /\ RefsCounted
    /\ SweepValid

-----------------------------------------------------------------------------
(* Entries that are removed.                                               *)

\* What an entry of the cache is.
LEMMA EntryTypes ==
    ASSUME NEW s \in Seq(Entry), NEW k \in DOMAIN s
    PROVE  /\ s[k] \in Entry /\ k \in Nat /\ k >= 1
           /\ s[k].addr \in Addrs
           /\ s[k].ctx \in Ctxs /\ s[k].ctx \in Nat /\ s[k].ctx # 0
           /\ s[k].lastUsed \in 0..MaxTime /\ s[k].lastUsed \in Nat
<1>1. s[k] \in Entry /\ k \in Nat /\ k >= 1
  OBVIOUS
<1>2. /\ s[k].addr \in Addrs
      /\ s[k].ctx \in Ctxs
      /\ s[k].lastUsed \in 0..MaxTime
  BY <1>1 DEF Entry
<1> QED BY <1>1, <1>2, CacheBoundsAssumption DEF Ctxs

\* swap_remove: the last entry takes the place of the one removed.
LEMMA SwapRemoveFacts ==
    ASSUME NEW S, NEW s \in Seq(S), NEW k \in DOMAIN s,
           NEW r, r = SwapRemove(s, k)
    PROVE  /\ r \in Seq(S) /\ Len(r) = Len(s) - 1 /\ DOMAIN r = 1..(Len(s) - 1)
           /\ \A n \in DOMAIN r : /\ n # k => n \in DOMAIN s /\ r[n] = s[n]
                                  /\ n = k => Len(s) \in DOMAIN s /\ r[n] = s[Len(s)] /\ Len(s) # k
           /\ \A m \in DOMAIN s \ {k} : \E n \in DOMAIN r : r[n] = s[m]
<1>1. Len(s) \in Nat /\ DOMAIN s = 1..Len(s) /\ k \in 1..Len(s)
      /\ \A n \in 1..Len(s) : s[n] \in S
  OBVIOUS
<1>2. DOMAIN r = 1..(Len(s) - 1)
      /\ \A n \in 1..(Len(s) - 1) : r[n] = IF n = k THEN s[Len(s)] ELSE s[n]
  BY DEF SwapRemove
<1>3. r \in [1..(Len(s) - 1) -> S] /\ Len(s) - 1 \in Nat
  BY <1>1, <1>2 DEF SwapRemove
<1>4. r \in Seq(S) /\ Len(r) = Len(s) - 1
  BY <1>3, SeqDef
<1>5. ASSUME NEW n \in DOMAIN r
      PROVE  /\ n # k => n \in DOMAIN s /\ r[n] = s[n]
             /\ n = k => Len(s) \in DOMAIN s /\ r[n] = s[Len(s)] /\ Len(s) # k
  BY <1>1, <1>2
<1>6. ASSUME NEW m \in DOMAIN s \ {k}
      PROVE  \E n \in DOMAIN r : r[n] = s[m]
  <2>1. CASE m = Len(s)
    <3>1. k \in DOMAIN r /\ r[k] = s[m]
      BY <1>1, <1>2, <2>1
    <3> QED BY <3>1
  <2>2. CASE m # Len(s)
    <3>1. m \in DOMAIN r /\ r[m] = s[m]
      BY <1>1, <1>2, <2>2
    <3> QED BY <3>1
  <2> QED BY <2>1, <2>2
<1> QED BY <1>2, <1>4, <1>5, <1>6

\* Removing an entry leaves the others as they were; a configuration that is
\* collected belongs to none of them, nor to a client.
LEMMA RemovalKeeps ==
    ASSUME NEW s, NEW mades, NEW n, NEW time, WellFormed(s, object, mades, n, time),
           object \in [Addrs -> Configs \cup {None}],
           NEW clients, NEW k \in DOMAIN s, NEW r, r = SwapRemove(s, k)
    PROVE  /\ WellFormed(r, Collect(r, clients), mades, n, time)
           /\ Len(r) = Len(s) - 1
           /\ \A x : Has(r, x) <=> Has(s, x) /\ x # s[k].ctx
           /\ Has(s, s[k].ctx)
           /\ \A m \in DOMAIN r : m < k => m \in DOMAIN s /\ r[m] = s[m]
<1>0. s \in Seq(Entry)
  BY DEF WellFormed
<1>1. /\ r \in Seq(Entry) /\ Len(r) = Len(s) - 1 /\ DOMAIN r = 1..(Len(s) - 1)
      /\ \A m \in DOMAIN r : /\ m # k => m \in DOMAIN s /\ r[m] = s[m]
                             /\ m = k => Len(s) \in DOMAIN s /\ r[m] = s[Len(s)] /\ Len(s) # k
      /\ \A m \in DOMAIN s \ {k} : \E l \in DOMAIN r : r[l] = s[m]
  BY <1>0, SwapRemoveFacts
<1>2. Len(s) \in Nat /\ DOMAIN s = 1..Len(s) /\ Len(s) \notin DOMAIN r
  BY <1>0, <1>1
<1>3. \A m \in DOMAIN r : /\ r[m] \in Entry
                          /\ \E l \in DOMAIN s \ {k} : r[m] = s[l]
  BY <1>1
<1>4. \A m \in DOMAIN r : Collect(r, clients)[r[m].addr] = object[r[m].addr]
  BY <1>3 DEF Collect, Entry
<1>5. \A m \in DOMAIN r :
          /\ r[m].ctx <= n
          /\ r[m].lastUsed <= time
          /\ Collect(r, clients)[r[m].addr] # None
          /\ mades[r[m].ctx] = Collect(r, clients)[r[m].addr]
  BY <1>3, <1>4 DEF WellFormed
<1>6. ASSUME NEW m \in DOMAIN r, NEW l \in DOMAIN r,
             r[m].ctx = r[l].ctx \/ r[m].addr = r[l].addr
      PROVE  m = l
  BY <1>1, <1>2, <1>6 DEF WellFormed
<1>7. WellFormed(r, Collect(r, clients), mades, n, time)
  BY <1>1, <1>5, <1>6 DEF WellFormed
<1>8. ASSUME NEW x
      PROVE  Has(r, x) <=> Has(s, x) /\ x # s[k].ctx
  <2>1. ASSUME Has(r, x) PROVE Has(s, x) /\ x # s[k].ctx
    BY <1>3, <2>1 DEF Has, WellFormed
  <2>2. ASSUME Has(s, x), x # s[k].ctx PROVE Has(r, x)
    BY <1>1, <2>2 DEF Has
  <2> QED BY <2>1, <2>2
<1>9. \A m \in DOMAIN r : m < k => m \in DOMAIN s /\ r[m] = s[m]
  BY <1>1, <1>2
<1> QED BY <1>1, <1>7, <1>8, <1>9 DEF Has

\* Some numbers have a least one.
LEMMA LeastOf ==
    ASSUME NEW S, S \subseteq Nat, S # {}
    PROVE  \E x \in S : \A y \in S : x <= y
<1> DEFINE R == OpToRel(<, Nat)
<1>1. IsWellFoundedOn(R, Nat)
  BY NatLessThanWellFounded
<1>2. \A x, y \in Nat : x < y => <<x, y>> \in R
  BY DEF OpToRel
<1> HIDE DEF R
<1>3. PICK x \in S : \A y \in S : <<y, x>> \notin R
  BY <1>1, WFMin
<1>4. ASSUME NEW y \in S PROVE x <= y
  <2>1. x \in Nat /\ y \in Nat
    OBVIOUS
  <2>2. ~(y < x)
    BY <1>2, <1>3, <2>1
  <2> QED BY <2>1, <2>2
<1> QED BY <1>4

\* The loop of evict_oldest_ssl_context finds the first of the oldest.
LEMMA OldestFound ==
    ASSUME NEW s \in Seq(Entry), s # <<>>
    PROVE  /\ Oldest(s) \in DOMAIN s
           /\ \A m \in DOMAIN s :
                 \/ s[Oldest(s)].lastUsed < s[m].lastUsed
                 \/ s[Oldest(s)].lastUsed = s[m].lastUsed /\ Oldest(s) <= m
<1> DEFINE V == {s[k].lastUsed : k \in DOMAIN s}
<1>1. /\ \A k \in DOMAIN s : s[k].lastUsed \in Nat /\ k \in Nat
      /\ 1 \in DOMAIN s
  <2>1. 1 \in DOMAIN s
    OBVIOUS
  <2> QED BY <2>1, EntryTypes
<1>2. V \subseteq Nat /\ V # {}
  BY <1>1
<1>3. PICK v \in V : \A w \in V : v <= w
  BY <1>2, LeastOf
<1> DEFINE K == {k \in DOMAIN s : s[k].lastUsed = v}
<1>4. K \subseteq Nat /\ K # {}
  BY <1>1, <1>3
<1>5. PICK k \in K : \A m \in K : k <= m
  BY <1>4, LeastOf
<1>6. ASSUME NEW m \in DOMAIN s
      PROVE  s[k].lastUsed < s[m].lastUsed \/ (s[k].lastUsed = s[m].lastUsed /\ k <= m)
  <2>1. s[k].lastUsed = v /\ v \in Nat /\ s[m].lastUsed \in Nat /\ v <= s[m].lastUsed
    BY <1>1, <1>2, <1>3, <1>5
  <2>2. s[m].lastUsed = v => k <= m
    BY <1>5
  <2> QED BY <2>1, <2>2
<1>7. \E l \in DOMAIN s : \A m \in DOMAIN s :
          s[l].lastUsed < s[m].lastUsed \/ (s[l].lastUsed = s[m].lastUsed /\ l <= m)
  BY <1>5, <1>6
<1> QED BY <1>7 DEF Oldest

-----------------------------------------------------------------------------
(* Clients that take and drop contexts.                                    *)

\* The clients of a context can be counted.
LEMMA UsersCounted ==
    ASSUME ctx \in [Clients -> 0..MaxCtx], NEW x
    PROVE  IsFiniteSet(Users(ctx, x)) /\ Cardinality(Users(ctx, x)) \in Nat
  BY ClientsAssumption, FS_Subset, FS_CardinalityType DEF Users

\* A client changes its context.
LEMMA UsersChange ==
    ASSUME ctx \in [Clients -> 0..MaxCtx], NEW c \in Clients, NEW y \in 0..MaxCtx,
           y # ctx[c], ctx' = [ctx EXCEPT ![c] = y]
    PROVE  /\ Cardinality(Users(ctx', y)) = Cardinality(Users(ctx, y)) + 1
           /\ Cardinality(Users(ctx', ctx[c])) = Cardinality(Users(ctx, ctx[c])) - 1
           /\ \A x : x # y /\ x # ctx[c] => Users(ctx', x) = Users(ctx, x)
           /\ \A x : Cardinality(Users(ctx', x)) \in Nat
<1>1. /\ Users(ctx', y) = Users(ctx, y) \cup {c} /\ c \notin Users(ctx, y)
      /\ Users(ctx', ctx[c]) = Users(ctx, ctx[c]) \ {c} /\ c \in Users(ctx, ctx[c])
      /\ \A x : x # y /\ x # ctx[c] => Users(ctx', x) = Users(ctx, x)
  BY DEF Users
<1>2. IsFiniteSet(Users(ctx, y)) /\ IsFiniteSet(Users(ctx, ctx[c]))
  BY UsersCounted
<1>3. Cardinality(Users(ctx', y)) = Cardinality(Users(ctx, y)) + 1
  BY <1>1, <1>2, FS_AddElement
<1>4. Cardinality(Users(ctx', ctx[c])) = Cardinality(Users(ctx, ctx[c])) - 1
  BY <1>1, <1>2, FS_RemoveElement
<1>5. \A x : Cardinality(Users(ctx', x)) \in Nat
  BY ClientsAssumption, FS_Subset, FS_CardinalityType DEF Users
<1> QED BY <1>1, <1>3, <1>4, <1>5

-----------------------------------------------------------------------------
(* The steps.                                                              *)

\* At first the cache is empty.
LEMMA InitHolds == Init => Inv
<1> SUFFICES ASSUME Init PROVE Inv
  OBVIOUS
<1>1. TypeOK
  BY CacheBoundsAssumption DEF Init, TypeOK
<1>2. Len(cache) <= MaxSize /\ WellFormed(cache, object, madeFor, made, now)
  BY SizesAssumption DEF Init, WellFormed
<1>3. \A x \in Ctxs : Users(ctx, x) = {} /\ ~Has(cache, x)
  BY CacheBoundsAssumption DEF Init, Users, Has, Ctxs
<1>4. RefsCounted
  <2> SUFFICES ASSUME NEW x \in Ctxs
               PROVE  /\ refs[x] = (IF Has(cache, x) THEN 1 ELSE 0) + Cardinality(Users(ctx, x))
                      /\ x \notin freed
    BY DEF RefsCounted
  <2>1. Cardinality(Users(ctx, x)) = 0 /\ ~Has(cache, x)
    BY <1>3, FS_EmptySet
  <2>2. refs[x] = 0 /\ x \notin freed
    BY DEF Init
  <2> QED BY <2>1, <2>2
<1>5. ClientsValid /\ SweepValid
  BY DEF Init, ClientsValid, SweepValid
<1> QED BY <1>1, <1>2, <1>4, <1>5 DEF Inv

\* Time passes.
LEMMA TickKeeps == ASSUME Inv, Tick PROVE Inv'
<1>0. now \in Nat /\ \A k \in DOMAIN cache : cache[k].lastUsed \in Nat
  BY EntryTypes, CacheBoundsAssumption DEF Inv, TypeOK
<1>1. TypeOK'
  BY CacheBoundsAssumption DEF Inv, Tick, TypeOK
<1>2. WellFormed(cache, object, madeFor, made, now)'
  BY <1>0 DEF Inv, Tick, WellFormed
<1>3. ClientsValid' /\ RefsCounted'
  BY DEF Inv, Tick, ClientsValid, RefsCounted
<1>4. SweepValid'
  <2>1. started \in Nat
    BY CacheBoundsAssumption DEF Inv, TypeOK
  <2> QED BY <1>0, <2>1 DEF Inv, Tick, SweepValid
<1> QED BY <1>1, <1>2, <1>3, <1>4 DEF Inv, Tick

\* A client is given a configuration.
LEMMA ConfigureKeeps ==
    ASSUME Inv, NEW c \in Clients, NEW a \in Addrs, NEW config \in Configs,
           Configure(c, a, config)
    PROVE  Inv'
<1>1. TypeOK'
  BY DEF Inv, Configure, TypeOK
<1>2. config # None
  BY NoneAssumption
<1>3. \A b \in Addrs : object[b] # None => object'[b] = object[b]
  BY <1>2 DEF Inv, TypeOK, Configure
<1>4. \A k \in DOMAIN cache : cache[k].addr \in Addrs
  BY EntryTypes DEF Inv, TypeOK
<1>5. WellFormed(cache, object, madeFor, made, now)'
  BY <1>3, <1>4 DEF Inv, Configure, WellFormed
<1>6. ClientsValid'
  BY <1>2, <1>3 DEF Inv, TypeOK, Configure, ClientsValid
<1>7. RefsCounted'
  BY DEF Inv, Configure, RefsCounted
<1>8. SweepValid'
  BY NoneAssumption DEF Inv, TypeOK, Configure, SweepValid
<1> QED BY <1>1, <1>5, <1>6, <1>7, <1>8 DEF Inv, Configure

\* connect: the look-up begins.
LEMMA ConnectKeeps == ASSUME Inv, NEW c \in Clients, Connect(c) PROVE Inv'
<1>1. TypeOK'
  BY CacheBoundsAssumption DEF Inv, Connect, TypeOK
<1>2. SweepValid'
  <2>1. \A k \in DOMAIN cache : k >= 1 /\ k \in Nat
    BY DEF Inv, TypeOK
  <2>2. now \in Nat
    BY CacheBoundsAssumption DEF Inv, TypeOK
  <2> QED BY <2>1, <2>2 DEF Inv, TypeOK, Connect, SweepValid
<1> QED BY <1>1, <1>2 DEF Inv, Connect, WellFormed, ClientsValid, RefsCounted

\* A reference is dropped that was counted.
LEMMA ReleaseKeeps ==
    ASSUME Inv, NEW x \in Ctxs, Release(x, refs),
           NEW entries, NEW clients,
           \A y \in Ctxs \ {x} : /\ Has(entries, y) <=> Has(cache, y)
                                 /\ Users(clients, y) = Users(ctx, y),
           (IF Has(entries, x) THEN 1 ELSE 0) + Cardinality(Users(clients, x)) = refs[x] - 1,
           Cardinality(Users(clients, x)) \in Nat, x <= made
    PROVE  /\ refs' \in [Ctxs -> Nat] /\ freed' \subseteq Ctxs
           /\ \A y \in Ctxs :
                 /\ refs'[y] = (IF Has(entries, y) THEN 1 ELSE 0) + Cardinality(Users(clients, y))
                 /\ y \in freed' => refs'[y] = 0 /\ y <= made
<1>1. refs \in [Ctxs -> Nat] /\ freed \subseteq Ctxs
  BY DEF Inv, TypeOK
<1>2. refs[x] - 1 \in Nat
  BY <1>1
<1>3. refs' = [refs EXCEPT ![x] = refs[x] - 1]
      /\ freed' = IF refs[x] = 1 THEN freed \cup {x} ELSE freed
  BY DEF Release
<1>4. refs'[x] = refs[x] - 1 /\ \A y \in Ctxs \ {x} : refs'[y] = refs[y]
  BY <1>1, <1>3
<1>5. refs' \in [Ctxs -> Nat] /\ freed' \subseteq Ctxs
  BY <1>1, <1>2, <1>3
<1>6. ASSUME NEW y \in Ctxs \ {x}
      PROVE  /\ refs'[y] = (IF Has(entries, y) THEN 1 ELSE 0) + Cardinality(Users(clients, y))
             /\ y \in freed' => refs'[y] = 0 /\ y <= made
  BY <1>3, <1>4 DEF Inv, RefsCounted
<1>7. x \in freed' => refs'[x] = 0
  <2>1. x \in freed => refs[x] = 0
    BY DEF Inv, RefsCounted
  <2> QED BY <1>2, <1>3, <1>4, <2>1
<1> QED BY <1>4, <1>5, <1>6, <1>7

\* Collecting configurations takes none away from an entry or a client.
LEMMA CollectKeeps ==
    ASSUME NEW s, NEW mades, NEW n, NEW time, WellFormed(s, object, mades, n, time),
           object \in [Addrs -> Configs \cup {None}], NEW clients
    PROVE  /\ WellFormed(s, Collect(s, clients), mades, n, time)
           /\ Collect(s, clients) \in [Addrs -> Configs \cup {None}]
<1>0. s \in Seq(Entry)
  BY DEF WellFormed
<1>1. \A k \in DOMAIN s : s[k].addr \in Addrs
  BY <1>0, EntryTypes
<1>2. \A k \in DOMAIN s : Collect(s, clients)[s[k].addr] = object[s[k].addr]
  BY <1>1 DEF Collect
<1>3. Collect(s, clients) \in [Addrs -> Configs \cup {None}]
  BY DEF Collect
<1> QED BY <1>2, <1>3 DEF WellFormed

\* A stale entry is removed.
LEMMA RemoveStaleKeeps ==
    ASSUME Inv, caller # None, i \in DOMAIN cache,
           cache' = SwapRemove(cache, i), Release(cache[i].ctx, refs),
           object' = Collect(cache', tls),
           UNCHANGED <<i, now, made, madeFor, tls, ctx, caller, started>>
    PROVE  Inv'
<1>0. TypeOK /\ WellFormed(cache, object, madeFor, made, now)
  BY DEF Inv
<1> DEFINE x == cache[i].ctx
<1>1. /\ WellFormed(cache', object', madeFor, made, now)
      /\ Len(cache') = Len(cache) - 1
      /\ \A y : Has(cache', y) <=> Has(cache, y) /\ y # x
      /\ Has(cache, x)
      /\ \A m \in DOMAIN cache' : m < i => m \in DOMAIN cache /\ cache'[m] = cache[m]
  <2>1. object \in [Addrs -> Configs \cup {None}]
    BY <1>0 DEF TypeOK
  <2>2. /\ WellFormed(cache', Collect(cache', tls), madeFor, made, now)
        /\ Len(cache') = Len(cache) - 1
        /\ \A y : Has(cache', y) <=> Has(cache, y) /\ y # cache[i].ctx
        /\ Has(cache, cache[i].ctx)
        /\ \A m \in DOMAIN cache' : m < i => m \in DOMAIN cache /\ cache'[m] = cache[m]
    BY <1>0, <2>1, RemovalKeeps
  <2> QED BY <2>2
<1>2. x \in Ctxs /\ x <= made
  BY <1>0, EntryTypes DEF TypeOK, WellFormed
<1>3. /\ Cardinality(Users(ctx, x)) \in Nat
      /\ refs[x] = 1 + Cardinality(Users(ctx, x))
  BY <1>0, <1>1, <1>2, UsersCounted DEF Inv, TypeOK, RefsCounted
<1>4. /\ \A y \in Ctxs \ {x} : Has(cache', y) <=> Has(cache, y)
      /\ (IF Has(cache', x) THEN 1 ELSE 0) + Cardinality(Users(ctx, x)) = refs[x] - 1
  BY <1>1, <1>3
<1>5. /\ refs' \in [Ctxs -> Nat] /\ freed' \subseteq Ctxs
      /\ \A y \in Ctxs :
            /\ refs'[y] = (IF Has(cache', y) THEN 1 ELSE 0) + Cardinality(Users(ctx, y))
            /\ y \in freed' => refs'[y] = 0 /\ y <= made
  <2> HIDE DEF x
  <2>1. Release(x, refs)
    BY DEF x
  <2> QED BY <1>2, <1>3, <1>4, <2>1, ReleaseKeeps
<1>6. RefsCounted'
  BY <1>5 DEF RefsCounted
<1>7. object' \in [Addrs -> Configs \cup {None}] /\ cache' \in Seq(Entry)
  BY <1>0, <1>1 DEF Collect, TypeOK, WellFormed
<1>8. TypeOK'
  BY <1>0, <1>5, <1>7 DEF TypeOK
<1>9. ClientsValid'
  <2>1. \A c \in Clients : tls[c] # None => object'[tls[c]] = object[tls[c]]
    BY <1>0 DEF TypeOK, Collect
  <2> QED BY <2>1 DEF Inv, ClientsValid
<1>10. SweepValid'
  BY <1>1 DEF Inv, SweepValid
<1>11. Len(cache') <= MaxSize
  BY <1>0, <1>1, SizesAssumption DEF Inv, TypeOK
<1> QED BY <1>1, <1>6, <1>8, <1>9, <1>10, <1>11 DEF Inv

\* One step of the sweep for stale entries.
LEMMA SweepKeeps == ASSUME Inv, Sweep PROVE Inv'
<1>0. /\ i \in DOMAIN cache /\ caller # None
      /\ i \in Nat /\ Len(cache) \in Nat
      /\ \A k \in DOMAIN cache : k \in Nat /\ cache[k].lastUsed \in Nat
      /\ started \in Nat
  BY EntryTypes, CacheBoundsAssumption DEF Inv, TypeOK, SweepValid, Sweep
<1>1. CASE started - cache[i].lastUsed > TTL
  BY <1>0, <1>1, RemoveStaleKeeps DEF Sweep
<1>2. CASE ~(started - cache[i].lastUsed > TTL)
  <2>1. TypeOK'
    BY <1>0, <1>2 DEF Inv, TypeOK, Sweep
  <2>2. started - cache[i].lastUsed <= TTL
    BY <1>0, <1>2, SizesAssumption
  <2>3. SweepValid'
    BY <1>0, <1>2, <2>2 DEF Inv, SweepValid, Sweep
  <2> QED BY <1>2, <2>1, <2>3 DEF Inv, WellFormed, ClientsValid, RefsCounted, Sweep
<1> QED BY <1>1, <1>2

\* The context cannot be made.
LEMMA InitFailsKeeps == ASSUME Inv, InitFails PROVE Inv'
<1>1. TypeOK'
  BY DEF Inv, TypeOK, InitFails
<1> QED BY <1>1 DEF Inv, WellFormed, ClientsValid, RefsCounted, SweepValid, InitFails

\* The client shares a context of the cache, which is made the newest.
LEMMA HitKeeps == ASSUME Inv, Hit PROVE Inv'
<1>0. TypeOK /\ WellFormed(cache, object, madeFor, made, now)
  BY DEF Inv
<1> PICK k \in Found(tls[caller]) :
        /\ cache' = [cache EXCEPT ![k].lastUsed = now]
        /\ ctx' = [ctx EXCEPT ![caller] = cache[k].ctx]
        /\ refs' = [refs EXCEPT ![cache[k].ctx] = @ + 1]
  BY DEF Hit
<1> DEFINE x == cache[k].ctx
<1>1. /\ k \in DOMAIN cache /\ cache[k].addr = tls[caller]
      /\ caller \in Clients /\ ctx[caller] = 0 /\ tls[caller] # None
  BY <1>0 DEF Found, Hit, Swept, Inv, SweepValid, TypeOK
<1>2. /\ cache[k] \in Entry /\ x \in Ctxs /\ x # 0 /\ x \in 0..MaxCtx /\ x <= made
      /\ now \in Nat
  <2>1. cache[k] \in Entry /\ x \in Ctxs /\ x # 0 /\ x \in Nat
    BY <1>0, <1>1, EntryTypes DEF TypeOK
  <2>2. x <= made /\ now \in Nat /\ x \in 0..MaxCtx
    BY <1>0, <1>1, <2>1, CacheBoundsAssumption DEF WellFormed, TypeOK, Ctxs
  <2> QED BY <2>1, <2>2
<1>3. /\ DOMAIN cache' = DOMAIN cache
      /\ \A m \in DOMAIN cache :
            /\ cache'[m].addr = cache[m].addr /\ cache'[m].ctx = cache[m].ctx
            /\ cache'[m].lastUsed = cache[m].lastUsed \/ cache'[m].lastUsed = now
      /\ cache' \in Seq(Entry) /\ Len(cache') = Len(cache)
  <2> DEFINE e == [cache[k] EXCEPT !.lastUsed = now]
  <2>1. /\ e \in Entry /\ e.addr = cache[k].addr /\ e.ctx = cache[k].ctx
        /\ e.lastUsed = now
    BY <1>0, <1>2 DEF Entry, TypeOK
  <2>2. cache' = [cache EXCEPT ![k] = e] /\ cache \in Seq(Entry)
    BY <1>0, <1>1 DEF TypeOK
  <2> HIDE DEF e
  <2>3. cache' \in Seq(Entry) /\ Len(cache') = Len(cache) /\ DOMAIN cache' = DOMAIN cache
    BY <1>1, <2>1, <2>2, ExceptSeq
  <2>4. \A m \in DOMAIN cache : cache'[m] = IF m = k THEN e ELSE cache[m]
    BY <1>1, <2>2
  <2> QED BY <2>1, <2>3, <2>4
<1>4. WellFormed(cache', object', madeFor', made', now')
  <2>1. UNCHANGED <<object, madeFor, made, now>>
    BY DEF Hit
  <2> QED BY <1>0, <1>2, <1>3, <2>1 DEF WellFormed
<1>5. \A y : Has(cache', y) <=> Has(cache, y)
  BY <1>3 DEF Has
<1>6. /\ Cardinality(Users(ctx', x)) = Cardinality(Users(ctx, x)) + 1
      /\ \A y \in Ctxs \ {x} : Users(ctx', y) = Users(ctx, y)
  <2>1. /\ ctx \in [Clients -> 0..MaxCtx] /\ ctx' = [ctx EXCEPT ![caller] = x]
        /\ x # ctx[caller]
    BY <1>0, <1>1, <1>2 DEF TypeOK
  <2>2. \A y \in Ctxs : y # 0
    BY CacheBoundsAssumption DEF Ctxs
  <2>3. caller \in Clients /\ x \in 0..MaxCtx
    BY <1>1, <1>2
  <2> HIDE DEF x
  <2>4. /\ Cardinality(Users(ctx', x)) = Cardinality(Users(ctx, x)) + 1
        /\ \A y : y # x /\ y # ctx[caller] => Users(ctx', y) = Users(ctx, y)
    BY <2>1, <2>3, UsersChange
  <2> QED BY <1>1, <2>2, <2>4
<1>7. refs' \in [Ctxs -> Nat] /\ RefsCounted'
  <2>1. /\ refs'[x] = refs[x] + 1 /\ refs[x] \in Nat
        /\ \A y \in Ctxs \ {x} : refs'[y] = refs[y]
        /\ refs' \in [Ctxs -> Nat]
    BY <1>0, <1>2 DEF TypeOK
  <2>2. Has(cache, x) /\ Cardinality(Users(ctx, x)) \in Nat
    BY <1>0, <1>1, UsersCounted DEF Has, TypeOK
  <2>3. x \notin freed
    <3>1. refs[x] = 1 + Cardinality(Users(ctx, x)) /\ (x \in freed => refs[x] = 0)
      BY <1>2, <2>2 DEF Inv, RefsCounted
    <3> QED BY <2>2, <3>1
  <2>4. freed' = freed /\ made' = made
    BY DEF Hit
  <2>5. refs'[x] = (IF Has(cache', x) THEN 1 ELSE 0) + Cardinality(Users(ctx', x))
    <3>1. refs[x] = 1 + Cardinality(Users(ctx, x))
      BY <1>2, <2>2 DEF Inv, RefsCounted
    <3>2. Has(cache', x)
      BY <1>5, <2>2
    <3>3. refs'[x] = 1 + Cardinality(Users(ctx', x))
      BY <1>6, <2>1, <2>2, <3>1
    <3> QED BY <3>2, <3>3
  <2>6. \A y \in Ctxs \ {x} :
            /\ refs'[y] = (IF Has(cache', y) THEN 1 ELSE 0) + Cardinality(Users(ctx', y))
            /\ y \in freed' => refs'[y] = 0 /\ y <= made'
    BY <1>5, <1>6, <2>1, <2>4 DEF Inv, RefsCounted
  <2> QED BY <2>1, <2>3, <2>4, <2>5, <2>6 DEF RefsCounted
<1>8. TypeOK'
  BY <1>0, <1>1, <1>2, <1>3, <1>7 DEF TypeOK, Hit
<1>9. ClientsValid'
  <2>1. madeFor[x] = object[tls[caller]]
    BY <1>0, <1>1 DEF WellFormed
  <2>2. \A c \in Clients : ctx'[c] = IF c = caller THEN x ELSE ctx[c]
    BY <1>0, <1>1 DEF TypeOK
  <2> QED BY <1>1, <1>2, <2>1, <2>2 DEF Hit, Inv, ClientsValid
<1>10. SweepValid' /\ Len(cache') <= MaxSize
  BY <1>3 DEF Hit, SweepValid, Inv
<1> QED BY <1>4, <1>7, <1>8, <1>9, <1>10 DEF Inv

\* A client leaves.
LEMMA FinishKeeps == ASSUME Inv, NEW c \in Clients, Finish(c) PROVE Inv'
<1>0. TypeOK /\ WellFormed(cache, object, madeFor, made, now)
  BY DEF Inv
<1>1. /\ tls' \in [Clients -> Addrs \cup {None}]
      /\ \A d \in Clients : tls'[d] = IF d = c THEN None ELSE tls[d]
      /\ ctx' \in [Clients -> 0..MaxCtx]
      /\ \A d \in Clients : ctx'[d] = IF d = c THEN 0 ELSE ctx[d]
  BY <1>0, CacheBoundsAssumption DEF Finish, TypeOK
<1>2. WellFormed(cache, object', madeFor, made, now) /\ object' \in [Addrs -> Configs \cup {None}]
  <2>1. object \in [Addrs -> Configs \cup {None}]
    BY <1>0 DEF TypeOK
  <2>2. /\ WellFormed(cache, Collect(cache, tls'), madeFor, made, now)
        /\ Collect(cache, tls') \in [Addrs -> Configs \cup {None}]
    BY <1>0, <2>1, CollectKeeps
  <2> QED BY <2>2 DEF Finish
<1>3. UNCHANGED <<now, cache, made, madeFor, caller, i, started>>
  BY DEF Finish
<1>4. ClientsValid'
  <2>1. \A d \in Clients : tls'[d] # None => object'[tls'[d]] = object[tls[d]] /\ tls'[d] = tls[d]
    BY <1>0, <1>1 DEF Finish, Collect, TypeOK
  <2> QED BY <1>1, <1>3, <2>1 DEF Inv, ClientsValid
<1>5. refs' \in [Ctxs -> Nat] /\ freed' \subseteq Ctxs /\ RefsCounted'
  <2>1. CASE ctx[c] = 0
    <3>1. ctx' = ctx
      BY <1>0, <2>1 DEF Finish, TypeOK
    <3>2. UNCHANGED <<refs, freed>>
      BY <2>1 DEF Finish
    <3>3. RefsCounted'
      BY <1>3, <3>1, <3>2 DEF Inv, RefsCounted
    <3> QED BY <1>0, <3>2, <3>3 DEF TypeOK
  <2>2. CASE ctx[c] # 0
    <3> DEFINE x == ctx[c]
    <3>1. x \in Ctxs /\ x <= made /\ Release(x, refs) /\ 0 \in 0..MaxCtx
      BY <1>0, <2>2, CacheBoundsAssumption DEF Finish, TypeOK, Ctxs, Inv, ClientsValid
    <3>2. ctx \in [Clients -> 0..MaxCtx] /\ ctx' = [ctx EXCEPT ![c] = 0]
      BY <1>0 DEF Finish, TypeOK
    <3>3. /\ Cardinality(Users(ctx', x)) = Cardinality(Users(ctx, x)) - 1
          /\ Cardinality(Users(ctx', x)) \in Nat
          /\ \A y \in Ctxs \ {x} : Users(ctx', y) = Users(ctx, y)
      <4>1. \A y \in Ctxs : y # 0
        BY CacheBoundsAssumption DEF Ctxs
      <4> QED BY <2>2, <3>1, <3>2, <4>1, UsersChange
    <3>4. /\ Cardinality(Users(ctx, x)) \in Nat
          /\ refs[x] = (IF Has(cache, x) THEN 1 ELSE 0) + Cardinality(Users(ctx, x))
      BY <3>1, <3>2, UsersCounted DEF Inv, RefsCounted
    <3>5. (IF Has(cache, x) THEN 1 ELSE 0) + Cardinality(Users(ctx', x)) = refs[x] - 1
      BY <3>3, <3>4
    <3> HIDE DEF x
    <3>6. /\ refs' \in [Ctxs -> Nat] /\ freed' \subseteq Ctxs
          /\ \A y \in Ctxs :
                /\ refs'[y] = (IF Has(cache, y) THEN 1 ELSE 0) + Cardinality(Users(ctx', y))
                /\ y \in freed' => refs'[y] = 0 /\ y <= made
      BY <3>1, <3>3, <3>5, ReleaseKeeps
    <3> QED BY <1>3, <3>6 DEF RefsCounted
  <2> QED BY <2>1, <2>2
<1>6. TypeOK'
  BY <1>0, <1>1, <1>2, <1>3, <1>5 DEF TypeOK
<1>7. SweepValid'
  BY <1>3 DEF Finish, SweepValid
<1> QED BY <1>2, <1>3, <1>4, <1>5, <1>6, <1>7 DEF Inv

\* The cache with the context just made at its end.
LEMMA AppendKeeps ==
    ASSUME Inv, NEW entry \in Entry, object[entry.addr] # None,
           \A k \in DOMAIN cache : cache[k].addr # entry.addr,
           entry.ctx = made + 1, entry.lastUsed = now,
           madeFor' = [madeFor EXCEPT ![made + 1] = object[entry.addr]],
           NEW entries, entries = Append(cache, entry)
    PROVE  /\ WellFormed(entries, object, madeFor', made + 1, now)
           /\ Len(entries) = Len(cache) + 1
           /\ \A x : Has(entries, x) <=> Has(cache, x) \/ x = made + 1
           /\ ~Has(cache, made + 1)
           /\ \A k \in DOMAIN cache : k \in DOMAIN entries /\ entries[k] = cache[k]
           /\ entries[Len(cache) + 1] = entry
<1>0. TypeOK /\ WellFormed(cache, object, madeFor, made, now)
  BY DEF Inv
<1>1. /\ cache \in Seq(Entry) /\ made \in Nat /\ now \in Nat
      /\ made + 1 \in Ctxs /\ Len(cache) \in Nat
      /\ madeFor \in [Ctxs -> Configs \cup {None}]
  BY <1>0, CacheBoundsAssumption DEF TypeOK, Entry
<1>2. /\ entries \in Seq(Entry) /\ Len(entries) = Len(cache) + 1
      /\ DOMAIN entries = DOMAIN cache \cup {Len(cache) + 1}
      /\ \A k \in DOMAIN cache : entries[k] = cache[k]
      /\ entries[Len(cache) + 1] = entry
      /\ Len(cache) + 1 \notin DOMAIN cache
  BY <1>1, AppendProperties
<1>3. \A k \in DOMAIN cache : /\ cache[k].ctx \in Ctxs /\ cache[k].ctx \in Nat
                              /\ cache[k].ctx <= made /\ cache[k].ctx # made + 1
  BY <1>0, <1>1, EntryTypes DEF WellFormed
<1>4. /\ madeFor'[made + 1] = object[entry.addr]
      /\ \A k \in DOMAIN cache : madeFor'[cache[k].ctx] = madeFor[cache[k].ctx]
  BY <1>1, <1>3
<1>5. ASSUME NEW k \in DOMAIN entries
      PROVE  /\ entries[k].ctx <= made + 1
             /\ entries[k].lastUsed <= now
             /\ object[entries[k].addr] # None
             /\ madeFor'[entries[k].ctx] = object[entries[k].addr]
  <2>1. CASE k \in DOMAIN cache
    BY <1>0, <1>1, <1>2, <1>3, <1>4, <2>1 DEF WellFormed
  <2>2. CASE k = Len(cache) + 1
    BY <1>1, <1>2, <1>4, <2>2
  <2> QED BY <1>2, <2>1, <2>2
<1>6. \A k, m \in DOMAIN entries :
          entries[k].ctx = entries[m].ctx \/ entries[k].addr = entries[m].addr => k = m
  BY <1>0, <1>2, <1>3 DEF WellFormed
<1>7. WellFormed(entries, object, madeFor', made + 1, now)
  BY <1>2, <1>5, <1>6 DEF WellFormed
<1>8. \A x : Has(entries, x) <=> Has(cache, x) \/ x = made + 1
  BY <1>2 DEF Has
<1>9. ~Has(cache, made + 1)
  BY <1>3 DEF Has
<1> QED BY <1>2, <1>7, <1>8, <1>9

\* The context is made and cached, an entry evicted for it when the cache is full.
LEMMA MissKeeps == ASSUME Inv, Miss PROVE Inv'
<1>0. TypeOK /\ WellFormed(cache, object, madeFor, made, now)
  BY DEF Inv
<1> DEFINE x       == made + 1
           entry   == [addr |-> tls[caller], ctx |-> x, lastUsed |-> now]
           entries == Append(cache, entry)
           k       == Oldest(entries)
           old     == entries[k].ctx
           full    == Len(entries) > MaxSize
<1>1. /\ caller \in Clients /\ tls[caller] \in Addrs /\ ctx[caller] = 0
      /\ object[tls[caller]] # None /\ tls[caller] # None
      /\ \A m \in DOMAIN cache : cache[m].addr # tls[caller]
  BY <1>0 DEF Miss, Swept, Found, Inv, SweepValid, ClientsValid, TypeOK
<1>2. /\ made \in Nat /\ made < MaxCtx /\ x \in Ctxs /\ x \in 0..MaxCtx /\ x # 0
      /\ now \in 0..MaxTime /\ now \in Nat /\ Len(cache) \in Nat /\ cache \in Seq(Entry)
  BY <1>0, CacheBoundsAssumption DEF Miss, TypeOK, Ctxs
<1>3. /\ made' = x
      /\ madeFor' = [madeFor EXCEPT ![x] = object[tls[caller]]]
      /\ cache' = IF full THEN SwapRemove(entries, k) ELSE entries
      /\ object' = Collect(cache', tls)
      /\ ctx' = [ctx EXCEPT ![caller] = x]
      /\ refs' = [y \in Ctxs |->
                     (IF y = x THEN 2 ELSE refs[y]) - (IF full /\ y = old THEN 1 ELSE 0)]
      /\ freed' = IF full /\ (old = x \/ refs[old] = 1) THEN freed \cup {old} ELSE freed
      /\ caller' = None /\ i' = 0
      /\ UNCHANGED <<now, tls, started>>
  BY DEF Miss
<1>4. /\ entry \in Entry /\ entry.addr = tls[caller] /\ entry.ctx = made + 1
      /\ entry.lastUsed = now
  BY <1>1, <1>2 DEF Entry
<1>5. /\ WellFormed(entries, object, madeFor', x, now)
      /\ Len(entries) = Len(cache) + 1
      /\ \A y : Has(entries, y) <=> Has(cache, y) \/ y = x
      /\ ~Has(cache, x)
      /\ \A m \in DOMAIN cache : m \in DOMAIN entries /\ entries[m] = cache[m]
      /\ entries[Len(cache) + 1] = entry
  <2>1. madeFor' = [madeFor EXCEPT ![made + 1] = object[entry.addr]]
    BY <1>3
  <2>2. /\ object[entry.addr] # None
        /\ \A m \in DOMAIN cache : cache[m].addr # entry.addr
    BY <1>1
  <2> HIDE DEF entry
  <2> QED BY <1>4, <2>1, <2>2, AppendKeeps
<1> HIDE DEF entry
\* The context just made is never the one evicted for it.
<1>6. ASSUME full
      PROVE  k \in DOMAIN entries /\ old # x /\ old \in Ctxs /\ Has(cache, old)
  <2>1. entries \in Seq(Entry) /\ entries # <<>>
    BY <1>2, <1>5 DEF WellFormed
  <2>2. /\ k \in DOMAIN entries
        /\ \A m \in DOMAIN entries :
              \/ entries[k].lastUsed < entries[m].lastUsed
              \/ entries[k].lastUsed = entries[m].lastUsed /\ k <= m
    BY <2>1, OldestFound
  <2> HIDE DEF entries, k
  <2>3. 1 \in DOMAIN cache
    BY <1>2, <1>5, <1>6, SizesAssumption
  <2>4. cache[1].lastUsed \in Nat /\ cache[1].lastUsed <= now
    BY <1>0, <1>2, <2>3, EntryTypes DEF WellFormed
  <2>5. k # Len(cache) + 1
    <3>1. SUFFICES ASSUME k = Len(cache) + 1 PROVE FALSE
      OBVIOUS
    <3>2. entries[k].lastUsed = now /\ entries[1].lastUsed = cache[1].lastUsed
      BY <1>4, <1>5, <2>3, <3>1
    <3>3. 1 \in DOMAIN entries /\ k > 1
      BY <1>2, <1>5, <2>3, <3>1
    <3>4. now < cache[1].lastUsed \/ k <= 1
      BY <2>2, <3>2, <3>3
    <3>5. k \in Nat
      BY <1>2, <3>1
    <3> QED BY <1>2, <2>4, <3>3, <3>4, <3>5
  <2>6. k \in DOMAIN cache
    BY <1>2, <1>5, <2>1, <2>2, <2>5
  <2>7. old = cache[k].ctx /\ old \in Ctxs
    BY <1>2, <1>5, <2>6, EntryTypes
  <2>8. Has(cache, old)
    BY <2>6, <2>7 DEF Has
  <2> QED BY <1>5, <2>2, <2>7, <2>8
<1>7. /\ WellFormed(cache', object', madeFor', x, now)
      /\ object' \in [Addrs -> Configs \cup {None}]
      /\ Len(cache') <= MaxSize
      /\ \A y : Has(cache', y) <=> (Has(cache, y) \/ y = x) /\ ~(full /\ y = old)
  <2>0. object \in [Addrs -> Configs \cup {None}]
    BY <1>0 DEF TypeOK
  <2> HIDE DEF entries
  <2>1. CASE full
    <3>1. cache' = SwapRemove(entries, k) /\ k \in DOMAIN entries
      BY <1>3, <1>6, <2>1
    <3> HIDE DEF k, x
    <3>0. WellFormed(entries, object, madeFor', x, now)
      BY <1>5
    <3>2. /\ WellFormed(cache', Collect(cache', tls), madeFor', x, now)
          /\ Len(cache') = Len(entries) - 1
          /\ \A y : Has(cache', y) <=> Has(entries, y) /\ y # entries[k].ctx
      BY <2>0, <3>1, <3>0, RemovalKeeps
    <3>3. object' = Collect(cache', tls)
      BY <1>3
    <3>4. Len(cache') <= MaxSize
      BY <1>2, <1>5, <3>2 DEF Inv
    <3>5. Collect(cache', tls) \in [Addrs -> Configs \cup {None}]
      BY <2>0 DEF Collect
    <3> QED BY <1>5, <2>1, <3>2, <3>3, <3>4, <3>5
  <2>2. CASE ~full
    <3>1. cache' = entries /\ object' = Collect(entries, tls)
      BY <1>3, <2>2
    <3>2. /\ WellFormed(entries, Collect(entries, tls), madeFor', x, now)
          /\ Collect(entries, tls) \in [Addrs -> Configs \cup {None}]
      BY <1>5, <2>0, CollectKeeps
    <3>3. Len(entries) <= MaxSize
      BY <1>2, <1>5, <2>2, SizesAssumption
    <3> QED BY <1>5, <2>2, <3>1, <3>2, <3>3
  <2> QED BY <2>1, <2>2
<1> HIDE DEF entries, k, full
<1>8. /\ Cardinality(Users(ctx', x)) = 1
      /\ \A y \in Ctxs \ {x} : Users(ctx', y) = Users(ctx, y)
  <2>1. /\ ctx \in [Clients -> 0..MaxCtx] /\ ctx' = [ctx EXCEPT ![caller] = x]
        /\ x # ctx[caller]
    BY <1>0, <1>1, <1>2, <1>3 DEF TypeOK
  <2>2. \A y \in Ctxs : y # 0
    BY CacheBoundsAssumption DEF Ctxs
  <2>3. Users(ctx, x) = {}
    <3>1. \A c \in Clients : ctx[c] # x
      BY <1>0, <1>2 DEF Inv, ClientsValid, TypeOK
    <3> QED BY <3>1 DEF Users
  <2>4. Cardinality(Users(ctx, x)) = 0
    BY <2>3, FS_EmptySet
  <2> HIDE DEF x
  <2>5. /\ Cardinality(Users(ctx', x)) = Cardinality(Users(ctx, x)) + 1
        /\ \A y : y # x /\ y # ctx[caller] => Users(ctx', y) = Users(ctx, y)
    BY <1>1, <1>2, <2>1, UsersChange
  <2> QED BY <1>1, <2>2, <2>4, <2>5
<1>9. refs' \in [Ctxs -> Nat] /\ freed' \subseteq Ctxs /\ RefsCounted'
  <2>0. /\ refs \in [Ctxs -> Nat] /\ freed \subseteq Ctxs
        /\ \A y \in Ctxs : Cardinality(Users(ctx, y)) \in Nat
    BY <1>0, UsersCounted DEF TypeOK
  <2>1. /\ refs'[x] = 2 /\ Has(cache', x) /\ x \notin freed'
    <3>1. refs'[x] = 2 /\ Has(cache', x)
      BY <1>2, <1>3, <1>6, <1>7
    <3>2. x \notin freed
      BY <1>2 DEF Inv, RefsCounted
    <3> QED BY <1>3, <1>6, <3>1, <3>2
  <2>2. ASSUME NEW y \in Ctxs, y # x
        PROVE  /\ refs'[y] \in Nat
               /\ refs'[y] = (IF Has(cache', y) THEN 1 ELSE 0) + Cardinality(Users(ctx', y))
               /\ y \in freed' => refs'[y] = 0 /\ y <= made'
    <3>0. /\ refs[y] = (IF Has(cache, y) THEN 1 ELSE 0) + Cardinality(Users(ctx, y))
          /\ y \in freed => refs[y] = 0 /\ y <= made
          /\ refs[y] \in Nat /\ y \in Nat
      BY <2>0, CacheBoundsAssumption DEF Inv, RefsCounted, Ctxs
    <3>1. Users(ctx', y) = Users(ctx, y)
      BY <1>8, <2>2
    <3>2. CASE full /\ y = old
      <4>1. Has(cache, y) /\ ~Has(cache', y) /\ refs'[y] = refs[y] - 1
        BY <1>3, <1>6, <1>7, <2>2, <3>2
      <4>2. refs[y] = 1 + Cardinality(Users(ctx, y))
        BY <3>0, <4>1
      <4>3. y <= made
        BY <1>0, <4>1 DEF Has, WellFormed
      <4>4. y \in freed' => refs[y] = 1
        BY <1>3, <1>6, <2>0, <2>2, <3>0, <3>2, <4>2
      <4> QED BY <1>2, <1>3, <2>0, <3>0, <3>1, <4>1, <4>2, <4>3, <4>4
    <3>3. CASE ~(full /\ y = old)
      <4>1. (Has(cache', y) <=> Has(cache, y)) /\ refs'[y] = refs[y] - 0
        BY <1>3, <1>7, <2>2, <3>3
      <4>2. y \in freed' => y \in freed
        BY <1>3, <3>3
      <4> QED BY <1>2, <1>3, <3>0, <3>1, <4>1, <4>2
    <3> QED BY <3>2, <3>3
  <2>3. refs' \in [Ctxs -> Nat]
    BY <1>3, <2>1, <2>2
  <2>4. freed' \subseteq Ctxs
    BY <1>3, <1>6, <2>0
  <2>5. RefsCounted'
    BY <1>8, <2>1, <2>2 DEF RefsCounted
  <2> QED BY <2>3, <2>4, <2>5
<1>10. madeFor' \in [Ctxs -> Configs \cup {None}]
  BY <1>0, <1>1, <1>3 DEF TypeOK
<1>11. TypeOK'
  BY <1>0, <1>2, <1>3, <1>7, <1>9, <1>10 DEF TypeOK, WellFormed
<1>12. ClientsValid'
  <2>1. \A c \in Clients : tls[c] # None => object'[tls[c]] = object[tls[c]]
    BY <1>0, <1>3 DEF TypeOK, Collect
  <2>2. /\ madeFor'[x] = object[tls[caller]]
        /\ \A y \in Ctxs : y # x => madeFor'[y] = madeFor[y]
    BY <1>0, <1>2, <1>3 DEF TypeOK
  <2>3. /\ \A c \in Clients : ctx'[c] = IF c = caller THEN x ELSE ctx[c]
        /\ \A c \in Clients : ctx[c] # 0 => ctx[c] \in Ctxs /\ ctx[c] <= made /\ ctx[c] \in Nat
    BY <1>0, <1>1, <1>3, CacheBoundsAssumption DEF TypeOK, Ctxs, Inv, ClientsValid
  <2> QED BY <1>1, <1>2, <1>3, <2>1, <2>2, <2>3 DEF Inv, ClientsValid
<1>13. SweepValid'
  BY <1>3 DEF SweepValid
<1> QED BY <1>3, <1>7, <1>9, <1>11, <1>12, <1>13 DEF Inv

\* Every step keeps the invariant.
LEMMA StepKeeps == Inv /\ [Next]_vars => Inv'
<1> SUFFICES ASSUME Inv, [Next]_vars PROVE Inv'
  OBVIOUS
<1>1. CASE UNCHANGED vars
  BY <1>1 DEF vars, Inv, TypeOK, WellFormed, ClientsValid, RefsCounted, SweepValid
<1> QED BY <1>1, TickKeeps, ConfigureKeeps, ConnectKeeps, FinishKeeps, SweepKeeps, HitKeeps,
           InitFailsKeeps, MissKeeps DEF Next

\* The inductive invariant holds in every state of the cache.
LEMMA Invariance == Spec => []Inv
  BY InitHolds, StepKeeps, PTL DEF Spec

\* Both evictions and the map's swaps keep the cache's books: it is bounded, an
\* address is in it once, every reference is counted, and nothing in use is freed.
THEOREM BooksCorrect == Spec => []Bookkeeping
<1>1. Inv => Bookkeeping
  <2> SUFFICES ASSUME Inv PROVE Bookkeeping
    OBVIOUS
  <2>0. /\ cache \in Seq(Entry) /\ ctx \in [Clients -> 0..MaxCtx]
    BY DEF Inv, TypeOK
  <2>1. CacheBounded
    BY DEF Inv, WellFormed, CacheBounded
  <2>2. CtxRefsMatch
    <3> SUFFICES ASSUME NEW x \in Ctxs
                 PROVE  Cardinality({k \in DOMAIN cache : cache[k].ctx = x})
                           = IF Has(cache, x) THEN 1 ELSE 0
      BY DEF Inv, RefsCounted, CtxRefsMatch, Users
    <3> DEFINE K == {k \in DOMAIN cache : cache[k].ctx = x}
    <3>1. CASE Has(cache, x)
      <4>1. PICK k \in DOMAIN cache : cache[k].ctx = x
        BY <3>1 DEF Has
      <4>2. K = {k}
        BY <4>1 DEF Inv, WellFormed
      <4> QED BY <3>1, <4>2, FS_Singleton
    <3>2. CASE ~Has(cache, x)
      <4>1. K = {}
        BY <3>2 DEF Has
      <4> QED BY <3>2, <4>1, FS_EmptySet
    <3> QED BY <3>1, <3>2
  <2>3. NoFreedContext
    <3>0. \A x \in freed : x \in Ctxs /\ x # 0
      BY CacheBoundsAssumption DEF Inv, TypeOK, Ctxs
    <3>1. ASSUME NEW c \in Clients PROVE ctx[c] \notin freed
      <4> SUFFICES ASSUME ctx[c] \in freed PROVE FALSE
        OBVIOUS
      <4> DEFINE x == ctx[c]
      <4>1. IsFiniteSet(Users(ctx, x)) /\ Cardinality(Users(ctx, x)) \in Nat
        BY <2>0, UsersCounted
      <4>2. Cardinality(Users(ctx, x)) # 0
        BY <4>1, FS_EmptySet DEF Users
      <4>3. x \in Ctxs /\ refs[x] = 0
        BY <3>0 DEF Inv, RefsCounted
      <4>4. refs[x] = (IF Has(cache, x) THEN 1 ELSE 0) + Cardinality(Users(ctx, x))
        BY <4>3 DEF Inv, RefsCounted
      <4> QED BY <4>1, <4>2, <4>3, <4>4
    <3>2. ASSUME NEW k \in DOMAIN cache PROVE cache[k].ctx \notin freed
      <4> SUFFICES ASSUME cache[k].ctx \in freed PROVE FALSE
        OBVIOUS
      <4> DEFINE x == cache[k].ctx
      <4>1. Cardinality(Users(ctx, x)) \in Nat
        BY <2>0, UsersCounted
      <4>2. Has(cache, x) /\ x \in Ctxs /\ refs[x] = 0
        BY <3>0 DEF Has, Inv, RefsCounted
      <4>3. refs[x] = 1 + Cardinality(Users(ctx, x))
        BY <4>2 DEF Inv, RefsCounted
      <4> QED BY <4>1, <4>2, <4>3
    <3> QED BY <3>1, <3>2 DEF NoFreedContext
  <2> QED BY <2>1, <2>2, <2>3 DEF Inv, Bookkeeping
<1> QED BY Invariance, <1>1, PTL

\* The address of a configuration identifies it for as long as a context made
\* for it can be found under that address.
THEOREM ConfigurationCorrect == Spec => []RightConfiguration
<1>1. Inv => RightConfiguration
  BY DEF Inv, ClientsValid, RightConfiguration
<1> QED BY Invariance, <1>1, PTL

\* evict_stale_ssl_contexts, which removes while it iterates, passes no stale
\* context.
THEOREM StaleNeverHit == Spec => NoStaleHit
<1> DEFINE A == \A c \in Clients :
                   ctx'[c] # ctx[c] /\ ctx'[c] # 0 =>
                       \A k \in DOMAIN cache :
                           cache[k].ctx = ctx'[c] => started - cache[k].lastUsed <= TTL
<1>1. ASSUME Inv, Next PROVE A
  <2>1. CASE Hit
    <3>1. \A k \in DOMAIN cache : k < i
      BY <1>1, <2>1 DEF Hit, Swept, Inv, TypeOK
    <3>2. \A k \in DOMAIN cache : started - cache[k].lastUsed <= TTL
      BY <1>1, <2>1, <3>1 DEF Hit, Swept, Inv, SweepValid
    <3> QED BY <3>2
  <2>2. CASE Miss
    <3>1. \A k \in DOMAIN cache : cache[k].ctx <= made
      BY <1>1 DEF Inv, WellFormed
    <3>2. \A c \in Clients : ctx'[c] = ctx[c] \/ ctx'[c] = made + 1
      BY <1>1, <2>2 DEF Miss, Inv, TypeOK
    <3>3. made \in Nat /\ \A k \in DOMAIN cache : cache[k].ctx \in Nat
      BY <1>1, EntryTypes, CacheBoundsAssumption DEF Inv, TypeOK
    <3> QED BY <3>1, <3>2, <3>3
  <2>3. ASSUME NEW c \in Clients, Finish(c) PROVE A
    BY <1>1, <2>3 DEF Finish, Inv, TypeOK
  <2>4. CASE UNCHANGED ctx
    BY <2>4
  <2> QED BY <1>1, <2>1, <2>2, <2>3, <2>4 DEF Next, Tick, Configure, Connect, Sweep, InitFails
<1>2. Inv /\ [Next]_vars => [A]_vars
  BY <1>1
<1> QED BY Invariance, <1>2, PTL DEF Spec, NoStaleHit

-----------------------------------------------------------------------------
(* NetErrorAutoReloader.                                                   *)

\* A navigation in flight has an address, a failed one its error; the throttle
\* is given only to navigations the reloader saw start.
NavsWellFormed ==
    \A h \in Handles :
        /\ InFlight(h) => nav[h].url \in Urls
        /\ nav[h].phase = "failed" => nav[h].error \in Errors
        /\ nav[h].throttle => h \in pending

\* The inductive invariant.
ReloaderInv == TimerOnlyWhenUseful /\ NoForgottenPage /\ NavsWellFormed

\* There is a first delay.
LEMMA ZeroDelay == 0 \in 0 .. LastDelay
  BY DelayAssumption

\* The initial states satisfy the invariant.
LEMMA ReloaderInitHolds == ReloaderInit => ReloaderInv
<1> SUFFICES ASSUME ReloaderInit PROVE ReloaderInv
  OBVIOUS
<1> PICK g \in Handles, u \in Urls :
        nav = [k \in Handles |->
                  IF k = g THEN [Idle EXCEPT !.phase = "started", !.url = u] ELSE Idle]
  BY DEF ReloaderInit
<1>1. \A h \in Handles : /\ nav[h] \in Navs
                         /\ InFlight(h) => nav[h].url \in Urls
                         /\ nav[h].phase # "failed" /\ ~nav[h].throttle
  BY DEF Idle, Navs, InFlight
<1>2. nav \in [Handles -> Navs] /\ NavsWellFormed
  BY <1>1 DEF NavsWellFormed
<1>3. ReloaderTypeOK
  BY <1>2, ZeroDelay DEF ReloaderInit, ReloaderTypeOK
<1> QED BY <1>2, <1>3 DEF ReloaderInit, ReloaderInv, TimerOnlyWhenUseful, NoForgottenPage

\* A visibility or connection change; the other of the two stays.
LEMMA ChangedKeeps ==
    ASSUME ReloaderInv, NEW on \in BOOLEAN,
           online' \in BOOLEAN, visible' \in BOOLEAN,
           Changed(online', visible', on),
           \/ on = visible' /\ UNCHANGED online
           \/ on = online' /\ UNCHANGED visible
    PROVE  ReloaderInv'
<1> USE DEF ReloaderInv, TimerOnlyWhenUseful, ReloaderTypeOK, Changed
<1>1. ReloaderTypeOK'
  OBVIOUS
<1>2. TimerOnlyWhenUseful' /\ NoForgottenPage'
  BY <1>1 DEF Resumes, ScheduleNextAutoReload, NoForgottenPage
<1>3. NavsWellFormed'
  BY DEF NavsWellFormed, InFlight
<1> QED BY <1>1, <1>2, <1>3

\* A navigation starts: the timer stops and something is pending.
LEMMA NavigationStartKeeps ==
    ASSUME ReloaderInv, NEW h \in Handles, NEW u \in Urls, NEW reload \in BOOLEAN,
           DidStartNavigation(h, u, reload), reloading' \in BOOLEAN
    PROVE  ReloaderInv'
<1> USE DEF ReloaderInv, TimerOnlyWhenUseful, ReloaderTypeOK, DidStartNavigation
<1> DEFINE n == [phase |-> "started", url |-> u, reload |-> reload,
                 throttle |-> MaybeCreateAndAdd(u), error |-> NoValue]
<1>1. nav' = [nav EXCEPT ![h] = n] /\ n.phase = "started" /\ n.url = u
  OBVIOUS
<1>2. n \in Navs
  BY DEF Navs, MaybeCreateAndAdd
<1> HIDE DEF n
<1>3. ReloaderTypeOK'
  BY <1>1, <1>2
<1>4. NavsWellFormed'
  BY <1>1 DEF NavsWellFormed, InFlight
<1>5. TimerOnlyWhenUseful' /\ NoForgottenPage'
  BY <1>3 DEF NoForgottenPage
<1> QED BY <1>4, <1>5

\* A navigation ends: what is said of navigations and their types stays true.
LEMMA NavigationFinished ==
    ASSUME ReloaderTypeOK, NavsWellFormed, NEW h \in Handles, Finished(h)
    PROVE  /\ nav' \in [Handles -> Navs] /\ pending' \subseteq Handles
           /\ suppressed' \subseteq pending' /\ NavsWellFormed'
           /\ UNCHANGED <<online, visible, reloading>>
<1>1. nav' = [nav EXCEPT ![h] = Idle] /\ Idle.phase = "idle" /\ ~Idle.throttle
  BY DEF Finished, Idle
<1>2. Idle \in Navs
  BY DEF Idle, Navs
<1>3. NavsWellFormed'
  BY <1>1 DEF Finished, NavsWellFormed, InFlight, ReloaderTypeOK
<1> QED BY <1>1, <1>2, <1>3 DEF Finished, ReloaderTypeOK

\* A navigation finishes: uncommitted, well, or with an error.
LEMMA NavigationFinishKeeps ==
    ASSUME ReloaderInv, NEW h \in Handles, Finishes(h)
    PROVE  ReloaderInv'
<1>0. /\ ReloaderTypeOK /\ NavsWellFormed
      /\ Finished(h)
  BY DEF ReloaderInv, TimerOnlyWhenUseful, Finishes, FinishUncommitted, FinishGood, FinishError
<1>1. /\ nav' \in [Handles -> Navs] /\ pending' \subseteq Handles
      /\ suppressed' \subseteq pending' /\ NavsWellFormed'
      /\ UNCHANGED <<online, visible, reloading>>
  BY <1>0, NavigationFinished
<1>2. CASE FinishUncommitted(h)
  <2>1. ReloaderTypeOK'
    BY <1>0, <1>1, <1>2 DEF FinishUncommitted, ReloaderTypeOK
  <2>2. TimerOnlyWhenUseful'
    BY <1>1, <1>2, <2>1 DEF FinishUncommitted, ReloaderInv, TimerOnlyWhenUseful, Finished,
                            ScheduleNextAutoReload
  <2>3. NoForgottenPage'
    BY <1>0, <1>1, <1>2 DEF FinishUncommitted, NoForgottenPage, Reschedules,
                            ScheduleNextAutoReload, ReloaderTypeOK
  <2> QED BY <1>1, <2>2, <2>3 DEF ReloaderInv
<1>3. CASE FinishGood(h)
  BY <1>0, <1>1, <1>3, ZeroDelay
     DEF FinishGood, Reset, ReloaderInv, ReloaderTypeOK, TimerOnlyWhenUseful, NoForgottenPage
<1>4. CASE FinishError(h)
  <2> DEFINE shown == [url |-> nav[h].url, error |-> nav[h].error]
  <2>1. shown \in Pages
    BY <1>0, <1>4 DEF FinishError, NavsWellFormed, InFlight, Pages
  <2>2. shown # NoValue
    BY <2>1, NoValueAssumption DEF Pages
  <2>3. page' \in Pages /\ page' # NoValue /\ count' \in 0 .. LastDelay /\ inProgress' \in BOOLEAN
    BY <1>0, <1>4, <2>1, <2>2, ZeroDelay DEF FinishError, ReloaderTypeOK
  <2>4. /\ timer' \in {"none", "running", "fired"} /\ abandoned' = FALSE
        /\ timer' = "running" /\ timer # "running" => pending' = {} /\ online /\ visible
        /\ timer = "running" => pending' = {} /\ online /\ visible
        /\ pending' = {} /\ online /\ visible => timer' = "running"
    BY <1>0, <1>4 DEF FinishError, ScheduleNextAutoReload, ReloaderTypeOK, ReloaderInv,
                      TimerOnlyWhenUseful, Finished
  <2>5. ReloaderTypeOK'
    BY <1>0, <1>1, <2>3, <2>4 DEF ReloaderTypeOK
  <2> QED BY <1>1, <2>3, <2>4, <2>5 DEF ReloaderInv, TimerOnlyWhenUseful, NoForgottenPage
<1> QED BY <1>2, <1>3, <1>4 DEF Finishes

\* Every step keeps the invariant.
LEMMA ReloaderStepKeeps == ReloaderInv /\ [ReloaderNext]_reloaderVars => ReloaderInv'
<1> SUFFICES ASSUME ReloaderInv, [ReloaderNext]_reloaderVars PROVE ReloaderInv'
  OBVIOUS
<1>0. ReloaderTypeOK
  BY DEF ReloaderInv, TimerOnlyWhenUseful
<1>1. ASSUME NEW h \in Handles, StartReload(h) \/ StartOther(h)
      PROVE  ReloaderInv'
  <2>1. reloading' \in BOOLEAN
    BY <1>0, <1>1 DEF StartReload, StartOther, ReloaderTypeOK
  <2>2. \E u \in Urls, reload \in BOOLEAN : DidStartNavigation(h, u, reload)
    BY <1>1 DEF StartReload, StartOther
  <2> QED BY <2>1, <2>2, NavigationStartKeeps
<1>2. ASSUME NEW h \in Handles, Redirect(h)
      PROVE  ReloaderInv'
  <2> PICK u \in Urls : nav' = [nav EXCEPT ![h].url = u]
    BY <1>2 DEF Redirect
  <2>1. nav[h] \in Navs /\ nav'[h] = [nav[h] EXCEPT !.url = u]
    BY <1>0 DEF ReloaderTypeOK
  <2>2. /\ nav'[h] \in Navs /\ nav'[h].phase = nav[h].phase /\ nav'[h].url = u
        /\ nav'[h].error = nav[h].error /\ nav'[h].throttle = nav[h].throttle
    BY <2>1 DEF Navs
  <2>3. \A k \in Handles \ {h} : nav'[k] = nav[k]
    BY <1>0 DEF ReloaderTypeOK
  <2>4. ReloaderTypeOK'
    BY <1>0, <1>2, <2>2, <2>3 DEF Redirect, ReloaderTypeOK
  <2>5. NavsWellFormed'
    BY <1>2, <2>2, <2>3 DEF Redirect, ReloaderInv, NavsWellFormed, InFlight
  <2> QED BY <1>2, <2>4, <2>5 DEF Redirect, ReloaderInv, TimerOnlyWhenUseful, NoForgottenPage
<1>3. ASSUME NEW h \in Handles, WillFailRequest(h)
      PROVE  ReloaderInv'
  <2> PICK e \in Errors :
        LET hide == nav[h].throttle /\ ShouldSuppressErrorPage(h, e)
        IN  /\ nav' = [nav EXCEPT ![h].phase = IF hide THEN "cancelled" ELSE "failed",
                                  ![h].error = e]
            /\ suppressed' = IF hide THEN suppressed \cup {h} ELSE suppressed
    BY <1>3 DEF WillFailRequest
  <2>1. PICK f \in {"cancelled", "failed"} :
             nav' = [nav EXCEPT ![h] = [@ EXCEPT !.phase = f, !.error = e]]
    OBVIOUS
  <2>2. nav[h] \in Navs /\ nav'[h] = [nav[h] EXCEPT !.phase = f, !.error = e]
    BY <1>0, <2>1 DEF ReloaderTypeOK
  <2>3. /\ nav'[h] \in Navs /\ nav'[h].phase = f /\ nav'[h].url = nav[h].url
        /\ nav'[h].error = e /\ nav'[h].throttle = nav[h].throttle
    <3> DEFINE k == [nav[h] EXCEPT !.phase = f]
    <3>1. /\ k \in Navs /\ k.phase = f
          /\ k.url = nav[h].url /\ k.throttle = nav[h].throttle
      BY <2>2 DEF Navs
    <3>2. nav'[h] = [k EXCEPT !.error = e]
      BY <2>2
    <3> DEFINE m == nav'[h]
    <3>3. k \in Navs /\ m = [k EXCEPT !.error = e]
      BY <3>1, <3>2
    <3> HIDE DEF k, m
    <3>4. /\ m \in Navs /\ m.phase = k.phase /\ m.url = k.url
          /\ m.error = e /\ m.throttle = k.throttle
      BY <3>3 DEF Navs
    <3> QED BY <3>1, <3>4 DEF m
  <2>4. \A k \in Handles \ {h} : nav'[k] = nav[k]
    BY <1>0, <2>1 DEF ReloaderTypeOK
  <2>5. NavsWellFormed'
    BY <1>3, <2>3, <2>4 DEF WillFailRequest, ReloaderInv, NavsWellFormed, InFlight
  <2>6. suppressed' \subseteq pending'
    BY <1>0, <1>3 DEF WillFailRequest, ReloaderTypeOK, ReloaderInv, NavsWellFormed
  <2>7. ReloaderTypeOK'
    BY <1>0, <1>3, <2>1, <2>3, <2>4, <2>6 DEF WillFailRequest, ReloaderTypeOK
  <2> QED BY <1>3, <2>5, <2>7 DEF WillFailRequest, ReloaderInv, TimerOnlyWhenUseful, NoForgottenPage
<1>4. CASE ReloadMainFrame
  <2>1. ReloaderTypeOK'
    BY <1>0, <1>4, DelayAssumption DEF ReloadMainFrame, Grow, ReloaderTypeOK
  <2> QED BY <1>4, <2>1 DEF ReloadMainFrame, ReloaderInv, TimerOnlyWhenUseful, NoForgottenPage,
                            NavsWellFormed, InFlight
<1>5. CASE NavigationStopped
  BY <1>0, <1>5, ZeroDelay
     DEF NavigationStopped, Reset, ReloaderInv, ReloaderTypeOK, TimerOnlyWhenUseful,
         NoForgottenPage, NavsWellFormed, InFlight
<1>6. CASE OnVisibilityChanged
  BY <1>0, <1>6, ChangedKeeps DEF OnVisibilityChanged, ReloaderTypeOK
<1>7. CASE OnConnectionChanged
  BY <1>0, <1>7, ChangedKeeps DEF OnConnectionChanged, ReloaderTypeOK
<1>8. CASE UNCHANGED reloaderVars
  BY <1>8 DEF reloaderVars, ReloaderInv, ReloaderTypeOK, TimerOnlyWhenUseful, NoForgottenPage,
              NavsWellFormed, InFlight
<1> QED BY <1>1, <1>2, <1>3, <1>4, <1>5, <1>6, <1>7, <1>8, NavigationFinishKeeps DEF ReloaderNext

\* The inductive invariant holds in every state of the reloader.
LEMMA ReloaderInvariance == ReloaderSpec => []ReloaderInv
  BY ReloaderInitHolds, ReloaderStepKeeps, PTL DEF ReloaderSpec

\* ReloadMainFrame's assertions hold: the timer runs only for an error page that
\* is visible, with the network up and no navigation pending.
THEOREM TimerCorrect == ReloaderSpec => []TimerOnlyWhenUseful
<1>1. ReloaderInv => TimerOnlyWhenUseful
  BY DEF ReloaderInv
<1> QED BY ReloaderInvariance, <1>1, PTL

\* No order of navigations, failures, timers, and changes of visibility and
\* connection leaves an error page without a reload to come.
THEOREM PageNotForgotten == ReloaderSpec => []NoForgottenPage
<1>1. ReloaderInv => NoForgottenPage
  BY DEF ReloaderInv
<1> QED BY ReloaderInvariance, <1>1, PTL
=============================================================================
