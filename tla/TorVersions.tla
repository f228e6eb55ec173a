---------------------------- MODULE TorVersions ----------------------------
(***************************************************************************)
(* Versions of Tor and what relays support (networking/lib/version.c).     *)
(*                                                                         *)
(* A version is parsed from a text, compared field by field, looked up in  *)
(* the list of recommended versions and sorted.  What a relay supports is  *)
(* summarised from its list of protocols; the summaries are kept in a map  *)
(* of bounded size, and some are corrected by the relay's version.         *)
(*                                                                         *)
(* A text is a sequence of tokens: a digit run, a separator, a status tag, *)
(* a blank, or a revision in parentheses.                                  *)
(***************************************************************************)
EXTENDS Integers, Sequences, FiniteSets, SequencesExt

CONSTANTS
    IntMax,        \* INT32_MAX; an unsigned has twice as many values as 0 .. IntMax
    DigitRuns,     \* digit runs and their values
    StatusTags,    \* status tags and their rank under strcmp, after truncation
    SvnRevisions,  \* "(r" revisions and what strtol makes of them
    GitTags,       \* well-formed "(git-" revisions: <<length, rank of the bytes>>
    BadGitTags,    \* "(git-" revisions that are not closed, odd, long or no digits
    TmpTokens,     \* bound: longest version that tmp[128] holds, in tokens
    MaxSummaries,  \* MAX_PROTOVER_SUMMARY_MAP_LEN
    Texts,         \* the texts that occur in version lists, in strcmp's order
    MaxList,       \* bound: entries of a version list
    Announced,     \* platform lines of relays (<<>>: none) and the version each
                   \* announces, <<>> if it announces none
    Protocols,     \* lists of protocols a relay may announce, each a set
    Releases,      \* for the properties: the versions, oldest first, each a set
                   \* of texts that name it
    Series         \* for the properties: the series of each release

ASSUME WidthAssumption == IntMax \in Nat \ {0, 1} /\ MaxSummaries \in Nat \ {0}

\* Ranks and lengths fit into an int; a digit run or a revision may not.
ASSUME TokensAssumption ==
    /\ \A d \in DOMAIN DigitRuns : DigitRuns[d] \in Nat
    /\ \A d \in DOMAIN StatusTags : StatusTags[d] \in 0 .. IntMax
    /\ \A d \in DOMAIN SvnRevisions : SvnRevisions[d] \in Int
    /\ \A d \in DOMAIN GitTags : GitTags[d] \in (0 .. IntMax) \X (0 .. IntMax)
ASSUME ListsAssumption == Texts \in Seq(Seq(STRING)) /\ MaxList \in Nat

VARIABLES
    protover_summary_map,
    last             \* the last call and its result

versionVars == <<protover_summary_map, last>>

\* The int with the low bits of x.
Wrap(x) == ((x + IntMax + 1) % (2 * (IntMax + 1))) - (IntMax + 1)

-----------------------------------------------------------------------------
(* Parsing.                                                                *)

\* The token at a place of a text; "" is the terminating zero.
At(s, i) == IF i <= Len(s) THEN s[i] ELSE ""

\* tor_parse_uint64 refuses what is above INT32_MAX.
IsNumber(s, i) == At(s, i) \in DOMAIN DigitRuns /\ DigitRuns[At(s, i)] <= IntMax

Number(s, i) == DigitRuns[At(s, i)]

\* version_status_t of the release series, in the order of the enumeration.
VER_PRE == 0
VER_RC == 1
VER_RELEASE == 2

Fail == [ok |-> FALSE]

\* The part behind the numbers: the status tag, up to a blank, then a revision.
\* Anything else behind the blank is ignored.
ParseStatusTag(v, s, i) ==
    LET start  == IF At(s, i) \in {"-", "."} THEN i + 1 ELSE i
        tagged == At(s, start) \in DOMAIN StatusTags
        eos    == IF tagged THEN start + 1 ELSE start
        rev    == IF At(s, eos) = " " THEN At(s, eos + 1) ELSE ""
        w      == [v EXCEPT !.status_tag = IF tagged THEN StatusTags[At(s, start)] ELSE 0]
    IN  IF rev \in BadGitTags THEN Fail
        ELSE IF rev \in DOMAIN SvnRevisions
             THEN [w EXCEPT !.svn_revision = Wrap(SvnRevisions[rev])]
        ELSE IF rev \in DOMAIN GitTags THEN [w EXCEPT !.git_tag = GitTags[rev]]
        ELSE w

\* tor_version_parse.  The branches for pre and rc lack the braces that their
\* layout shows, and are read with them.
Parse(text) ==
    LET s  == IF At(text, 1) \in {"Tor ", "tor "} THEN Tail(text) ELSE text
        v2 == [ok |-> TRUE, major |-> Number(s, 1), minor |-> Number(s, 3),
               micro |-> 0, status |-> VER_RELEASE, patchlevel |-> 0,
               status_tag |-> 0, svn_revision |-> 0, git_tag |-> <<0, 0>>]
        v3 == [v2 EXCEPT !.micro = Number(s, 5)]
        v4 == [v3 EXCEPT !.patchlevel = Number(s, 7),
                         !.status = CASE s[6] = "pre" -> VER_PRE
                                      [] s[6] = "rc"  -> VER_RC
                                      [] OTHER -> VER_RELEASE]
    IN  IF ~(IsNumber(s, 1) /\ At(s, 2) = "." /\ IsNumber(s, 3)) THEN Fail
        ELSE IF At(s, 4) = ""  THEN v2
        ELSE IF At(s, 4) = "-" THEN ParseStatusTag(v2, s, 4)
        ELSE IF ~(At(s, 4) = "." /\ IsNumber(s, 5)) THEN Fail
        ELSE IF At(s, 6) = ""  THEN v3
        ELSE IF At(s, 6) = "-" THEN ParseStatusTag(v3, s, 6)
        ELSE IF At(s, 6) \in {".", "pre", "rc"} /\ IsNumber(s, 7)
             THEN ParseStatusTag(v4, s, 8)
        ELSE Fail

\* tor_version_parse_platform, not strict: the version is the second word, and
\* the third if that is a revision.
ParsePlatform(platform) ==
    LET rest  == Tail(platform)
        blank == CHOOSE i \in 1..(Len(rest) + 1) :
                    At(rest, i) \in {" ", ""} /\ \A j \in 1..(i - 1) : rest[j] # " "
        isRev == At(rest, blank + 1) \in
                    DOMAIN SvnRevisions \cup DOMAIN GitTags \cup BadGitTags
        tmp   == SubSeq(rest, 1, IF isRev THEN blank + 1 ELSE blank - 1)
    IN  IF rest = <<>> \/ Len(tmp) >= TmpTokens THEN Fail ELSE Parse(tmp)

-----------------------------------------------------------------------------
(* Comparing.                                                              *)

\* The fields in the order in which tor_version_compare looks at them.
Fields(v) == <<v.major, v.minor, v.micro, v.status, v.patchlevel, v.status_tag,
               v.svn_revision, v.git_tag[1], v.git_tag[2]>>

\* Mutant: the fields are compared as the ints they are.
CompareSigned(a, b) ==
    LET diff == [k \in 1..9 |-> Fields(a)[k] - Fields(b)[k]]
        k == CHOOSE k \in 1..9 :
                (diff[k] # 0 \/ k = 9) /\ \A j \in 1..(k - 1) : diff[j] = 0
    IN  diff[k]

\* tor_version_compare: the first difference, of unsigned values, as an int.
Compare(a, b) ==
    LET diff == [k \in 1..9 |-> Wrap(Fields(a)[k] - Fields(b)[k])]
        k == CHOOSE k \in 1..9 :
                (diff[k] # 0 \/ k = 9) /\ \A j \in 1..(k - 1) : diff[j] = 0
    IN  diff[k]

SameSeries(a, b) == a.major = b.major /\ a.minor = b.minor /\ a.micro = b.micro

\* tor_version_as_new_as: a relay whose version is not understood is new.
AsNewAs(platform, cutoff) ==
    LET c == Parse(cutoff)
        v == ParsePlatform(platform)
    IN  c.ok /\ (At(platform, 1) # "Tor " \/ ~v.ok \/ Compare(v, c) >= 0)

\* The loop of tor_version_is_obsolete skips a "Tor " that Parse would skip too,
\* and so reads an entry that has it twice.
Stripped(t) == IF At(t, 1) = "Tor " THEN Tail(t) ELSE t
Entries(list) == [i \in DOMAIN list |-> Stripped(list[i])]

\* What that loop finds before it returns or ends.
Others(list) ==
    {Parse(Entries(list)[i]) : i \in {j \in DOMAIN list : Parse(Entries(list)[j]).ok}}

\* Mutant: a newer version of another series hides that ours is the newest.
StatusOfMineSeriesless(mine, list) ==
    LET others == Others(list)
        newer  == {o \in others : Compare(mine, o) < 0}
        older  == {o \in others : Compare(mine, o) > 0}
    IN  IF list = <<>> THEN "VS_EMPTY"
        ELSE IF \E o \in others : Compare(mine, o) = 0 THEN "VS_RECOMMENDED"
        ELSE IF newer # {} /\ older = {} THEN "VS_OLD"
        ELSE IF older # {} /\ newer = {} THEN "VS_NEW"
        ELSE "VS_UNRECOMMENDED"

\* tor_version_is_obsolete.
StatusOfMine(mine, list) ==
    LET others == Others(list)
        same   == {o \in others : SameSeries(mine, o)}
        newer  == {o \in others : Compare(mine, o) < 0}
        older  == {o \in others : Compare(mine, o) > 0}
    IN  IF list = <<>> THEN "VS_EMPTY"
        ELSE IF \E o \in others : Compare(mine, o) = 0 THEN "VS_RECOMMENDED"
        ELSE IF same # {} /\ newer # {} /\ same \cap newer = {} THEN "VS_NEW_IN_SERIES"
        ELSE IF newer # {} /\ older = {} THEN "VS_OLD"
        ELSE IF older # {} /\ newer = {} THEN "VS_NEW"
        ELSE "VS_UNRECOMMENDED"

\* The rank strcmp gives a text that is no version; the texts are given in the
\* order of strcmp.
TextRank(t) == CHOOSE i \in DOMAIN Texts : Texts[i] = t

\* compare_tor_version_str_ptr_: versions before anything else.
CompareTexts(s, t) ==
    LET a == Parse(s)
        b == Parse(t)
    IN  IF a.ok /\ b.ok THEN Compare(a, b)
        ELSE IF a.ok THEN -1
        ELSE IF b.ok THEN 1
        ELSE TextRank(s) - TextRank(t)

\* smartlist_sort: a permutation in order, any of those that tell equal entries
\* apart.
Sorted(list) ==
    {p \in {[i \in DOMAIN list |-> list[f[i]]] :
               f \in {g \in [DOMAIN list -> DOMAIN list] :
                         \A i, j \in DOMAIN list : g[i] = g[j] => i = j}} :
        \A i \in 1..(Len(list) - 1) : CompareTexts(p[i], p[i + 1]) <= 0}

\* smartlist_uniq: an entry equal to the one before it goes.
Uniq(list) ==
    LET keep == {i \in DOMAIN list : i = 1 \/ CompareTexts(list[i - 1], list[i]) # 0}
    IN  [k \in 1..Cardinality(keep) |->
            list[CHOOSE i \in keep : Cardinality({j \in keep : j <= i}) = k]]

-----------------------------------------------------------------------------
(* What a relay supports.                                                  *)

\* Each flag and the sets of protocols any of which gives it.  A protocol is
\* named by the constant for its version; LINKAUTH_LATER is a later version.
Requires == [
    supports_ed25519_link_handshake_compat |-> {{"LINKAUTH_ED25519"}},
    supports_ed25519_link_handshake_any |-> {{"LINKAUTH_ED25519"}, {"LINKAUTH_LATER"}},
    supports_extend2_cells |-> {{"RELAY_EXTEND2"}},
    supports_accepting_ipv6_extends |-> {{"RELAY_ACCEPT_IPV6"}, {"RELAY_EXTEND_IPV6"}},
    supports_initiating_ipv6_extends |-> {{"RELAY_EXTEND_IPV6"}},
    supports_canonical_ipv6_conns |-> {{"RELAY_CANONICAL_IPV6"}},
    supports_ed25519_hs_intro |-> {{"HS_INTRO_V3"}},
    supports_establish_intro_dos_extension |-> {{"HS_INTRO_DOS"}},
    supports_v3_rendezvous_point |-> {{"HS_RENDEZVOUS_POINT_V3"}},
    supports_v3_hsdir |-> {{"HSDIR_V3"}},
    supports_hs_setup_padding |-> {{"HS_SETUP_PADDING"}},
    supports_congestion_control |-> {{"FLOWCTRL_CC", "RELAY_NTOR_V3"}},
    supports_conflux |-> {{"FLOWCTRL_CC", "CONFLUX_V1"}},
    supports_ntor_v3 |-> {{"RELAY_NTOR_V3"}},
    supports_cgo |-> {{"FLOWCTRL_CC", "RELAY_NEGOTIATE_SUBPROTO", "RELAY_CRYPT_CGO"}}]

Flags == DOMAIN Requires \cup {"protocols_known"}

NoFlags == [f \in Flags |-> FALSE]

\* The summary of a list of protocols.
Computed(protocols) ==
    [f \in Flags |-> f = "protocols_known"
                     \/ \E needed \in Requires[f] : needed \subseteq protocols]

\* The map after memoize_protover_summary, flushed when it is full even if the
\* list is in it.
Memoized(protocols) ==
    LET map == IF Cardinality(DOMAIN protover_summary_map) >= MaxSummaries
               THEN <<>> ELSE protover_summary_map
    IN  [p \in DOMAIN map \cup {protocols} |->
            IF p \in DOMAIN map THEN map[p] ELSE Computed(p)]

\* The versions at which a correction ends.
FirstExtend2 == <<"0", ".", "2", ".", "4", ".", "8", "-", "alpha">>
FirstHSDirV3 == <<"0", ".", "3", ".", "0", ".", "8">>

\* The corrections by version: an old Tor that lists no protocols, and one that
\* lists HSDir=2 without supporting it.
Corrected(out, version) ==
    IF At(version, 1) # "Tor " THEN out
    ELSE IF ~out.protocols_known
         THEN [out EXCEPT !.protocols_known = TRUE,
                          !.supports_extend2_cells =
                             AsNewAs(version, FirstExtend2)]
    ELSE IF AsNewAs(version, FirstHSDirV3) THEN out
    ELSE [out EXCEPT !.supports_v3_hsdir = FALSE]
-----------------------------------------------------------------------------
(* The calls.                                                              *)

VersionsInit == protover_summary_map = <<>> /\ last = [call |-> "none"]

\* Mutant: the correction is kept in the map.
SummarizeProtoverFlagsShared(protocols, version) ==
    LET map == IF protocols = {} THEN protover_summary_map ELSE Memoized(protocols)
        out == Corrected(IF protocols = {} THEN NoFlags ELSE map[protocols], version)
    IN  /\ protover_summary_map' =
              [p \in DOMAIN map |-> IF p = protocols THEN out ELSE map[p]]
        /\ last' = [call |-> "summarize", protocols |-> protocols,
                    version |-> version, out |-> out]

SummarizeProtoverFlags(protocols, version) ==
    LET map == IF protocols = {} THEN protover_summary_map ELSE Memoized(protocols)
        out == Corrected(IF protocols = {} THEN NoFlags ELSE map[protocols], version)
    IN  /\ protover_summary_map' = map
        /\ last' = [call |-> "summarize", protocols |-> protocols,
                    version |-> version, out |-> out]

ProtoverSummaryCacheFreeAll ==
    /\ protover_summary_map' = <<>>
    /\ last' = [call |-> "free"]

\* The own version is one that can be parsed.
TorVersionIsObsolete(mine, list) ==
    /\ Parse(mine).ok
    /\ last' = [call |-> "is_obsolete", mine |-> mine, list |-> list,
                out |-> StatusOfMine(Parse(mine), list)]
    /\ UNCHANGED protover_summary_map

SortVersionList(list, remove_duplicates) ==
    /\ \E p \in Sorted(list) :
          last' = [call |-> "sort", list |-> list, remove_duplicates |-> remove_duplicates,
                   out |-> IF remove_duplicates THEN Uniq(p) ELSE p]
    /\ UNCHANGED protover_summary_map

Lists == UNION {[1..n -> {Texts[i] : i \in DOMAIN Texts}] : n \in 0..MaxList}

\* Bound: what only computes is called in a new process; it reads no state.
NewProcess == last.call = "none"

VersionsNext ==
    \/ \E protocols \in Protocols, version \in DOMAIN Announced :
          SummarizeProtoverFlags(protocols, version)
    \/ ProtoverSummaryCacheFreeAll
    \/ /\ NewProcess
       /\ \/ \E i \in DOMAIN Texts, list \in Lists : TorVersionIsObsolete(Texts[i], list)
          \/ \E list \in Lists, remove_duplicates \in BOOLEAN :
                SortVersionList(list, remove_duplicates)

VersionsSpec == VersionsInit /\ [][VersionsNext]_versionVars
-----------------------------------------------------------------------------
(* Properties.                                                             *)

\* The subversion revision as it is written; Parse casts it to an int.
Revision(t) ==
    LET places == {i \in DOMAIN t : t[i] \in DOMAIN SvnRevisions}
    IN  IF places = {} THEN 0 ELSE SvnRevisions[t[CHOOSE i \in places : TRUE]]

\* A version with the revision that is written.
Meant(t) == IF Parse(t).ok THEN [Parse(t) EXCEPT !.svn_revision = Revision(t)] ELSE Fail

\* What comes first in the order of versions: the first field that differs
\* decides.
Precedes(a, b) ==
    \E k \in 1..9 : Fields(a)[k] < Fields(b)[k] /\ \A j \in 1..(k - 1) : Fields(a)[j] = Fields(b)[j]

IsRelease(t) == \E k \in DOMAIN Releases : t \in Releases[k]
Place(t) == CHOOSE k \in DOMAIN Releases : t \in Releases[k]

\* The places of the releases in a list.
Places(list) == {Place(list[i]) : i \in {j \in DOMAIN list : IsRelease(list[j])}}

\* Releases and Series describe the texts: they are the texts that can be parsed,
\* with the versions in their order.
ASSUME ReleasesAssumption ==
    /\ Releases \in Seq(SUBSET Seq(STRING))
    /\ \A i \in DOMAIN Texts : \A t \in {Texts[i], Stripped(Texts[i])} :
          IsRelease(t) <=> Parse(t).ok
    /\ \A k, l \in DOMAIN Releases : \A s \in Releases[k], t \in Releases[l] :
          LET v == Meant(s)
              w == Meant(t)
          IN  /\ v.ok /\ w.ok
              /\ Parse(s).svn_revision = Wrap(v.svn_revision)
              /\ k < l => Precedes(v, w)
              /\ k = l => Fields(v) = Fields(w)
              /\ SameSeries(v, w) <=> Series[k] = Series[l]

\* Two subversion revisions of one version are less than half the range of an
\* unsigned apart, as written.  Nothing in the code sees to that.
RevisionsNear ==
    \A k, l \in DOMAIN Releases : \A s \in Releases[k], t \in Releases[l] :
        (\A j \in 1 .. 6 : Fields(Meant(s))[j] = Fields(Meant(t))[j]) =>
            Revision(s) - Revision(t) \in -IntMax .. IntMax

\* Announced describes the platform lines, and the corrections end at releases.
ASSUME AnnouncedAssumption ==
    /\ IsRelease(FirstExtend2) /\ IsRelease(FirstHSDirV3)
    /\ \A line \in DOMAIN Announced :
          IF Announced[line] = <<>> THEN At(line, 1) = "Tor " => ~ParsePlatform(line).ok
          ELSE IsRelease(Announced[line]) /\ ParsePlatform(line) = Parse(Announced[line])

\* tor_version_is_obsolete judges a version by where it stands among the
\* recommended releases, whatever the order of the list, its duplicates, its
\* spellings and the entries that are no versions; a revision that is written
\* larger than an int holds is still later than those before it.
RecommendedStatus ==
    last.call = "is_obsolete" =>
        LET m      == Place(last.mine)
            listed == Places(Entries(last.list))
            series == {k \in listed : Series[k] = Series[m]}
        IN  last.out =
              CASE last.list = <<>> -> "VS_EMPTY"
                [] m \in listed -> "VS_RECOMMENDED"
                [] listed # {} /\ (\A k \in listed : k < m) -> "VS_NEW"
                [] listed # {} /\ (\A k \in listed : k > m) -> "VS_OLD"
                [] series # {} /\ (\A k \in series : k < m)
                   /\ (\E k \in listed : k > m) -> "VS_NEW_IN_SERIES"
                [] OTHER -> "VS_UNRECOMMENDED"

InOrder(once, i, j) == IF once THEN i < j ELSE i <= j

\* sort_version_list lists the releases oldest first and behind them the entries
\* that are no versions: each once if duplicates are removed, else as many as
\* there were.
ListsSorted ==
    last.call = "sort" =>
        LET out == last.out
            once == last.remove_duplicates
        IN  /\ once \/ Len(out) = Len(last.list)
            /\ Places(out) = Places(last.list)
            /\ {out[i] : i \in DOMAIN out} \subseteq {last.list[i] : i \in DOMAIN last.list}
            /\ \A i \in DOMAIN last.list :
                  IsRelease(last.list[i]) \/ \E j \in DOMAIN out : out[j] = last.list[i]
            /\ \A i, j \in DOMAIN out : i < j =>
                  \/ IsRelease(out[i]) /\ ~IsRelease(out[j])
                  \/ IsRelease(out[i]) /\ IsRelease(out[j]) /\ InOrder(once, Place(out[i]), Place(out[j]))
                  \/ /\ ~IsRelease(out[i]) /\ ~IsRelease(out[j])
                     /\ InOrder(once, TextRank(out[i]), TextRank(out[j]))

OlderThan(version, release) ==
    Announced[version] # <<>> /\ Place(Announced[version]) < Place(release)

\* A summary depends on the relay's protocols and version only, never on which
\* relays were summarised before, on the map having been flushed, or on the
\* corrections made for a relay with the same protocols; and the map stays
\* within its bound.
SummariesRight ==
    /\ Cardinality(DOMAIN protover_summary_map) <= MaxSummaries
    /\ last.call = "summarize" =>
          LET supported == last.protocols
              isTor     == At(last.version, 1) = "Tor "
          IN  last.out =
                [Computed(supported) EXCEPT
                    !.protocols_known = supported # {} \/ isTor,
                    !.supports_extend2_cells =
                        IF supported = {}
                        THEN isTor /\ ~OlderThan(last.version, FirstExtend2)
                        ELSE "RELAY_EXTEND2" \in supported,
                    !.supports_v3_hsdir =
                        /\ "HSDIR_V3" \in supported
                        /\ ~(isTor /\ OlderThan(last.version, FirstHSDirV3))]
=============================================================================
