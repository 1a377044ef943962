------------------------------- MODULE MCTracing --------------------------------
(* A small instance of Tracing for TLC.                                    *)
EXTENDS Tracing, TLC

CONSTANTS a, b, c, x, y, k, l

CallsThree  == {a, b, c}
ContextsTwo == {x, y}
KidsTwo     == {k, l}
Sym == Permutations(CallsThree) \cup Permutations(ContextsTwo) \cup Permutations(KidsTwo)

=============================================================================
