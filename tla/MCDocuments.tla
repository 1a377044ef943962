----------------------------- MODULE MCDocuments ------------------------------
(* A small instance of Documents for TLC: one document at first.           *)
EXTENDS Documents, TLC

CONSTANTS a, b, f, g, t, u

CallsTwo   == {a, b}
FoldersTwo == {f, g}
TitlesTwo  == {t, u}
InOne      == (f :> f) @@ (g :> f)
WantedTwo  == {<<f, t>>, <<g, t>>}
OneDoc     == {[id |-> 1, path |-> <<f, t>>, body |-> None]}
Sym        == Permutations(CallsTwo)

=============================================================================
