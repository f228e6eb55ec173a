------------------------------- MODULE TorLib -------------------------------
(***************************************************************************)
(* The calls of one process into Tor's library code: versions and lists of *)
(* protocols (TorVersions), and addresses (InetAddr).                      *)
(***************************************************************************)
EXTENDS TorVersions, InetAddr

CONSTANTS
    WordValues,   \* words an IPv6 address is made of
    OctetRuns,    \* runs of digits an IPv4 text is made of
    BufferSizes   \* lengths of the buffers for texts, some of them too short

\* A word is a uint16_t, four hexadecimal digits; a digit is hexadecimal at most;
\* the length of a buffer is a size_t.
ASSUME WordsAssumption == \A word \in WordValues : word \in Nat /\ word < 16 ^ 4
ASSUME RunsAssumption == \A run \in OctetRuns : run \in Seq(0..15) /\ run # <<>>
ASSUME BufferSizesAssumption == BufferSizes \subseteq Nat

\* An IPv6 text as a writer makes it: words, "::" or nothing, words, and a
\* dotted quad or nothing; possibly with a mistake.
Forms == [left : 0..9, gap : BOOLEAN, right : 0..9, quad : BOOLEAN,
          mistake : {"none", "leading", "trailing", "colons", "long"}]

\* The words of a form are all different, so that a misplaced one shows.
Word(i) == 273 * i

Separated(runs) ==
    FlattenSeq([i \in DOMAIN runs |-> IF i = 1 THEN <<runs[i]>> ELSE <<Colon, runs[i]>>])

\* The text of a form.
Written(form) ==
    LET words(first, n) == [i \in 1..n |-> Printed(Word(first + i), 16)]
        left  == words(0, form.left)
        tail  == IF form.quad THEN Quad(<<1, 2, 3, 4>>) ELSE <<>>
        right == words(form.left, form.right)
        back  == Separated(right)
                    \o (IF form.right > 0 /\ form.quad THEN <<Colon>> ELSE <<>>) \o tail
        front == IF form.mistake = "long" /\ left # <<>>
                 THEN Separated([left EXCEPT ![1] = <<0, 0, 0, 0>> \o @])
                 ELSE Separated(left)
        middle == IF form.gap
                  THEN IF form.mistake = "colons" THEN <<Colon, Colon, Colon>>
                       ELSE <<Colon, Colon>>
                  ELSE IF front # <<>> /\ back # <<>> THEN <<Colon>> ELSE <<>>
    IN  (IF form.mistake = "leading" THEN <<Colon>> ELSE <<>>)
            \o front \o middle \o back
            \o (IF form.mistake = "trailing" THEN <<Colon>> ELSE <<>>)

\* Forms whose mistake is one; without a gap all words are on the left.
Meaningful(form) ==
    /\ ~form.gap => form.right = 0 /\ form.mistake # "colons"
    /\ form.mistake = "long" => form.left > 0
    /\ form.left + form.right <= 9
    /\ form.mistake \in {"leading", "trailing"} => form.left + form.right > 0
    /\ form.mistake = "leading" => form.left > 0
    /\ form.mistake = "trailing" => form.right > 0 \/ (~form.gap /\ ~form.quad)

InetNtop(w, len) ==
    /\ last' = [call |-> "ntop", addr |-> w, len |-> len, out |-> Ntop(w, len)]
    /\ UNCHANGED protover_summary_map

InetPton(form) ==
    /\ last' = [call |-> "pton", form |-> form, out |-> Pton(Written(form))]
    /\ UNCHANGED protover_summary_map

InetAton(runs) ==
    /\ LET s == <<runs[1], Dot, runs[2], Dot, runs[3], Dot, runs[4]>>
       IN  last' = [call |-> "aton", text |-> s, out |-> Aton(s)]
    /\ UNCHANGED protover_summary_map

LibNext ==
    \/ VersionsNext
    \/ /\ NewProcess
       /\ \/ \E w \in [1..8 -> WordValues], len \in BufferSizes : InetNtop(w, len)
          \/ \E form \in Forms : Meaningful(form) /\ InetPton(form)
          \/ \E runs \in [1..4 -> OctetRuns] : InetAton(runs)

LibSpec == VersionsInit /\ [][LibNext]_versionVars
-----------------------------------------------------------------------------

\* The address a form stands for: eight words, of which "::" stands for one or
\* more (RFC 4291).
Denoted(form) ==
    LET quad == IF form.quad THEN <<258, 772>> ELSE <<>>
        zeros == 8 - form.left - form.right - Len(quad)
    IN  IF form.mistake # "none" \/ (form.gap # (zeros > 0)) \/ zeros < 0 THEN NULL
        ELSE [i \in 1..form.left |-> Word(i)]
                \o [i \in 1..zeros |-> 0]
                \o [i \in 1..form.right |-> Word(form.left + i)] \o quad

\* What tor_inet_ntop prints tor_inet_pton reads back, and no run of zero words is
\* longer than the one it leaves out: each of the words that are left takes a
\* number and a colon, unless it shows a dotted quad.  It prints nothing only if
\* the text does not fit.  tor_inet_pton reads the eight words of a text and
\* refuses every other; tor_inet_aton accepts exactly what tor_inet_ntoa prints.
AddressesRead ==
    /\ last.call = "ntop" =>
          IF last.out = NULL THEN TextLen(Ntop(last.addr, 40)) >= last.len
          ELSE /\ Pton(last.out) = last.addr
               /\ \A g \in Gaps(last.addr) :
                     g[2] \in 2..7 =>
                        HasQuad(last.addr) \/ Len(last.out) <= 2 * (8 - g[2]) + 1
    /\ last.call = "pton" => last.out = Denoted(last.form)
    /\ last.call = "aton" =>
          /\ (last.out # NULL) =
                \A k \in {1, 3, 5, 7} : \E n \in 0..255 : last.text[k] = Printed(n, 10)
          /\ last.out # NULL => Ntoa(last.out, 16) = last.text
=============================================================================
