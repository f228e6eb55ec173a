----------------------- MODULE MCExternalMountPoints -----------------------
(* Names that come back as the first component of a path and names that do  *)
(* not, and paths whose texts are ordered in the awkward ways: "-" sorts     *)
(* before the separator, so "/a-/" comes between "/a" and "/a/".             *)
EXTENDS ExternalMountPoints, TLC

MCNames ==
    { <<>>,                                     \* no name
      <<Letter>>,                               \* "a"
      <<Letter, Slash, Dash>>,                  \* "a/-"
      <<Dot, Dot>> }                            \* ".."

MCPaths ==
    { <<>>,                                     \* no path
      <<Slash>>,                                \* "/"
      <<Slash, Letter>>,                        \* "/a"
      <<Slash, Letter, Slash>>,                 \* "/a/"
      <<Slash, Letter, Dash>>,                  \* "/a-"
      <<Slash, Letter, Slash, Dash>>,           \* "/a/-"
      <<Slash, Letter, Slash, Letter>>,         \* "/a/a"
      <<Slash, Dot, Dot, Slash, Letter>>,       \* "/../a"
      <<Letter>> }                              \* "a"

=============================================================================
