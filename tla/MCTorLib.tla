------------------------------ MODULE MCTorLib ------------------------------
(* Small instances of TorLib: texts around the versions the code names. *)
EXTENDS TorLib, TLC

MCDigitRuns == "0" :> 0 @@ "2" :> 2 @@ "3" :> 3 @@ "4" :> 4 @@ "7" :> 7
               @@ "8" :> 8 @@ "16" :> 16

MCStatusTags == "alpha" :> 1 @@ "dev" :> 2
\* The last is one more than an int holds.
MCSvnRevisions == "(r2)" :> 2 @@ "(r15)" :> 15 @@ "(r16)" :> 16
MCGitTags == "(git-ab)" :> <<1, 1>> @@ "(git-abcd)" :> <<2, 1>>
MCBadGitTags == {"(git-abc)", "(git-"}

Extend2 == <<"0", ".", "2", ".", "4", ".", "8", "-", "alpha">>
Extend2Before == <<"0", ".", "2", ".", "4", ".", "7", "-", "alpha">>
HsDir == <<"0", ".", "3", ".", "0", ".", "8">>
HsDirBefore == <<"0", ".", "3", ".", "0", "rc", "8">>
Short == <<"0", ".", "3">>
Svn(v, r) == v \o <<" ", r>>
Late == <<"0", ".", "3", ".", "8", "-", "alpha">>
TooBig == <<"0", ".", "16", ".", "0">>

\* In the order of strcmp.
MCTexts == <<Extend2Before, Extend2, Svn(Extend2, "(git-abc)"), Svn(Extend2, "(r2)"),
             TooBig, HsDir, <<"0", ".", "3", ".", "0", "pre", "8">>, HsDirBefore,
             Svn(Late, "(r15)"), Svn(Late, "(r16)"),
             <<"Tor ", "0", ".", "3">>, <<"Tor ", "Tor ">> \o HsDir, <<"tor ">> \o HsDir>>

\* Extend2Before is read as 0.2.4.7-alpha; the series 0.3.0 begins with the
\* pre-releases, and 0.3 is 0.3.0.0.
MCReleases == << {Extend2Before}, {Extend2}, {Svn(Extend2, "(r2)")},
                 {<<"0", ".", "3", ".", "0", "pre", "8">>}, {HsDirBefore},
                 {<<"Tor ", "0", ".", "3">>, <<"0", ".", "3">>},
                 {HsDir, <<"tor ">> \o HsDir, <<"Tor ">> \o HsDir},
                 {Svn(Late, "(r15)")}, {Svn(Late, "(r16)")} >>
MCSeries == <<"0.2.4", "0.2.4", "0.2.4", "0.3.0", "0.3.0", "0.3.0", "0.3.0", "0.3.8", "0.3.8">>

Tor(version) == <<"Tor ">> \o version \o <<" ", "on Linux">>
MCAnnounced ==
    <<>> :> <<>> @@ <<"Other 1">> :> <<>>
    @@ Tor(Extend2Before) :> Extend2Before
    @@ Tor(Svn(Extend2, "(r2)")) :> Svn(Extend2, "(r2)")
    @@ Tor(HsDirBefore) :> HsDirBefore @@ Tor(HsDir) :> HsDir
    @@ Tor(Svn(Extend2Before, "(git-")) :> <<>>

MCProtocols == {{}, {"HSDIR_V3"}, {"HSDIR_V3", "RELAY_EXTEND2", "LINKAUTH_LATER"},
                {"FLOWCTRL_CC", "RELAY_NTOR_V3", "CONFLUX_V1"}}

\* The theorems' hypothesis on the revisions holds of these texts.
ASSUME RevisionsNearHere == RevisionsNear

MCWordValues == {0, 1, 65535}
MCOctetRuns == {<<0>>, <<9>>, <<2, 5, 5>>, <<2, 5, 6>>, <<0, 1>>, <<1, 0, 0, 0>>, <<10>>}
=============================================================================
