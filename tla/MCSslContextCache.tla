------------------------- MODULE MCSslContextCache -------------------------
(* A small instance of SslContextCache.  Clients, configurations and         *)
(* addresses are interchangeable.                                            *)
EXTENDS SslContextCache, TLC

CacheSymmetry == Permutations(Clients) \cup Permutations(Configs) \cup Permutations(Addrs)
=============================================================================
