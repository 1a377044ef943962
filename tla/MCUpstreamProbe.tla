--------------------------- MODULE MCUpstreamProbe ----------------------------
(* Small instances of UpstreamProbe for TLC.                               *)
EXTENDS UpstreamProbe, TLC

CONSTANTS a, b

ChecksTwo == {a, b}
SymTwo    == Permutations(ChecksTwo)

=============================================================================
