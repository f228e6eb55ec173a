------------------------------ MODULE InetAddr ------------------------------
(***************************************************************************)
(* Addresses as texts (networking/add.c).                                  *)
(*                                                                         *)
(* An IPv4 address is four octets, an IPv6 address eight words.  A text is *)
(* a sequence of tokens, each a run of hexadecimal digits or a separator.  *)
(***************************************************************************)
EXTENDS Integers, Sequences, SequencesExt

Colon == <<16>>
Dot == <<17>>

Is(s, i, token) == i \in DOMAIN s /\ s[i] = token
IsRun(s, i) == i \in DOMAIN s /\ s[i] \notin {Colon, Dot}

\* The number that digits stand for.
Value(digits, base) ==
    LET value[k \in 0..Len(digits)] ==
            IF k = 0 THEN 0 ELSE value[k - 1] * base + digits[k]
    IN  value[Len(digits)]

\* A number as %x and %d print it.
Printed(n, base) ==
    LET k == CHOOSE k \in 1..5 : n < base ^ k /\ (k = 1 \/ n >= base ^ (k - 1))
    IN  [j \in 1..k |-> (n \div base ^ (k - j)) % base]

\* The characters of a text, each digit and separator being one.
TextLen(s) == Len(FlattenSeq(s))

NULL == <<"null">>

-----------------------------------------------------------------------------
(* IPv4.                                                                   *)

\* A dotted quad from a place of a text to its end, as tor_sscanf reads it: up
\* to three decimal digits each, and nothing behind.
IsQuad(s, i) ==
    /\ Len(s) = i + 6
    /\ \A k \in {i, i + 2, i + 4, i + 6} :
          /\ IsRun(s, k) /\ Len(s[k]) <= 3
          /\ \A j \in DOMAIN s[k] : s[k][j] < 10
          /\ Value(s[k], 10) <= 255
    /\ \A k \in {i + 1, i + 3, i + 5} : Is(s, k, Dot)

Octets(s, i) == [k \in 1..4 |-> Value(s[i + 2 * (k - 1)], 10)]

\* tor_inet_aton: a leading zero would make an octet octal elsewhere.
Aton(s) ==
    IF IsQuad(s, 1) /\ ~\E k \in DOMAIN s : Len(s[k]) > 1 /\ s[k][1] = 0
    THEN Octets(s, 1) ELSE NULL

Quad(o) == <<Printed(o[1], 10), Dot, Printed(o[2], 10), Dot,
             Printed(o[3], 10), Dot, Printed(o[4], 10)>>

Buffered(text, len) == IF TextLen(text) + 1 > len THEN NULL ELSE text

\* tor_inet_ntoa into a buffer of len characters.
Ntoa(octets, len) == Buffered(Quad(octets), len)

-----------------------------------------------------------------------------
(* IPv6.                                                                   *)

\* Addresses printed with a dotted quad: mapped and compatible ones.
HasQuad(w) ==
    /\ \A i \in 1..5 : w[i] = 0
    /\ (w[6] = 0 /\ w[7] # 0 /\ w[8] # 0) \/ w[6] = 65535

WordOctets(w) == <<w[7] \div 256, w[7] % 256, w[8] \div 256, w[8] % 256>>

\* The gaps, as places and lengths, that are as long as they can be.
Gaps(w) ==
    {g \in (1..8) \X (1..8) :
        /\ g[1] + g[2] <= 9
        /\ \A i \in g[1]..(g[1] + g[2] - 1) : w[i] = 0
        /\ g[1] = 1 \/ w[g[1] - 1] # 0
        /\ g[1] + g[2] = 9 \/ w[g[1] + g[2]] # 0}

\* The gap that "::" stands for: the first of the longest, if it is not just
\* one word.
LongestGap(w) ==
    IF \E g \in Gaps(w) : g[2] > 1
    THEN CHOOSE g \in Gaps(w) :
            \A h \in Gaps(w) : g[2] > h[2] \/ (g[2] = h[2] /\ g[1] <= h[1])
    ELSE <<0, 0>>

\* The loop that prints words and colons.
Words(w) ==
    LET gap == LongestGap(w)
        piece(i) ==
            IF i = gap[1] THEN IF i = 1 THEN <<Colon, Colon>> ELSE <<Colon>>
            ELSE IF i > gap[1] /\ i < gap[1] + gap[2] THEN <<>>
            ELSE IF i = 8 THEN <<Printed(w[i], 16)>>
            ELSE <<Printed(w[i], 16), Colon>>
    IN  FlattenSeq([i \in 1..8 |-> piece(i)])

\* tor_inet_ntop for AF_INET6.
Ntop(w, len) ==
    Buffered(IF ~HasQuad(w) THEN Words(w)
             ELSE IF w[6] = 0 THEN <<Colon, Colon>> \o Quad(WordOctets(w))
             ELSE <<Colon, Colon, Printed(w[6], 16), Colon>> \o Quad(WordOctets(w)),
             len)

\* One turn of the loop of tor_inet_pton, which reads the tokens before eow:
\* src is the next token, words those read, gap how many were before "::".
Turn(s, eow, st) ==
    LET n == Len(st.words)
    IN  IF n > 7 THEN [st EXCEPT !.ok = FALSE]
        ELSE CASE IsRun(s, st.src) /\ Len(s[st.src]) <= 4 ->
                [st EXCEPT !.words = Append(@, Value(s[st.src], 16)),
                           !.ok = st.src + 1 = eow \/ Is(s, st.src + 1, Colon),
                           !.src = @ + 2]
          [] Is(s, st.src, Colon) /\ n > 0 /\ st.gap = -1 ->
                [st EXCEPT !.gap = n, !.src = @ + 1]
          [] /\ Is(s, st.src, Colon) /\ n = 0 /\ st.gap = -1
             /\ st.src + 1 < eow /\ Is(s, st.src + 1, Colon) ->
                [st EXCEPT !.gap = n, !.src = @ + 2]
          [] OTHER -> [st EXCEPT !.ok = FALSE]

ReadWords(s, eow) ==
    LET read[k \in 0..Len(s)] ==
            IF k = 0 THEN [ok |-> TRUE, src |-> 1, words |-> <<>>, gap |-> -1]
            ELSE LET st == read[k - 1]
                 IN  IF st.ok /\ st.src < eow THEN Turn(s, eow, st) ELSE st
    IN  read[Len(s)]

\* Mutant: the words behind the gap are moved to the end of all eight.
FilledToEnd(words, gap, quad) ==
    LET zeros == [k \in 1..(8 - Len(words) - Len(quad)) |-> 0]
    IN  IF gap = -1 THEN words \o quad
        ELSE SubSeq(words, 1, gap) \o zeros \o quad \o SubSeq(words, gap + 1, Len(words))

\* The words of an address: the gap is filled up to eight words.
Filled(words, gap, quad) ==
    LET zeros == [k \in 1..(8 - Len(words) - Len(quad)) |-> 0]
    IN  IF gap = -1 THEN words \o quad
        ELSE SubSeq(words, 1, gap) \o zeros \o SubSeq(words, gap + 1, Len(words)) \o quad

\* tor_inet_pton for AF_INET6.
Pton(s) ==
    LET dots == {i \in DOMAIN s : s[i] = Dot}
        dot  == CHOOSE i \in dots : \A j \in dots : i <= j
        eow  == IF dots = {} THEN Len(s) + 1 ELSE dot - 1
        st   == ReadWords(s, eow)
        quad == IF dots = {} THEN <<>>
                ELSE LET o == Octets(s, eow)
                     IN  <<o[1] * 256 + o[2], o[3] * 256 + o[4]>>
        set  == Len(st.words) + Len(quad)
    IN  IF \/ TextLen(s) > 2 /\ Is(s, Len(s), Colon) /\ ~Is(s, Len(s) - 1, Colon)
           \/ dots # {} /\ ~(Is(s, dot - 2, Colon) /\ IsQuad(s, dot - 1))
        THEN NULL
        ELSE IF ~st.ok \/ set > 8 \/ (set = 8) # (st.gap = -1) THEN NULL
        ELSE Filled(st.words, st.gap, quad)
=============================================================================
