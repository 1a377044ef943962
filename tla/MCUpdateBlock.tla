---------------------------- MODULE MCUpdateBlock -----------------------------
(* A small instance of UpdateBlock for TLC: three blocks, or three items.  *)
EXTENDS UpdateBlock, TLC

CONSTANTS a, b, p

CallsTwo == {a, b}
AllTexts == {p} \cup ((CallsTwo \cup {None}) \X (1..MaxParts))
TheDoc   == [k \in 1..3 |-> [id |-> k, level |-> 0, text |-> p]]
SymTwo   == Permutations(CallsTwo)

=============================================================================
