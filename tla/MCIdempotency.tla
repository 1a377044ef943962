---------------------------- MODULE MCIdempotency ----------------------------
(* Small instances of Idempotency for TLC.                                 *)
EXTENDS Idempotency, TLC

CONSTANTS t1, t2, kGood, kOther, kLong, kSpace, kEmpty, r1, r2, r3, r4

(* The name of a tool is half of the cache key. *)
ToolsOne == {t1}
ToolsTwo == {t1, t2}

KeysTwo   == {kGood, kOther}
KeysEdges == {kGood, kOther, kLong, kSpace, kEmpty}

(* 128 is the longest key accepted.  kSpace has a legal length and a       *)
(* character outside _KEY_RE.                                              *)
LenEdges == (kGood :> 128) @@ (kOther :> 128) @@ (kLong :> 129) @@ (kSpace :> 8) @@ (kEmpty :> 0)
LenTwo   == [k \in KeysTwo |-> LenEdges[k]]
MatchEdges == {kGood, kOther, kLong}

ReqThree == {r1, r2, r3}
ReqFour  == {r1, r2, r3, r4}

Sym == Permutations(ReqFour) \cup Permutations(ToolsTwo) \cup Permutations(KeysTwo)

=============================================================================
