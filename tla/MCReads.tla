------------------------------- MODULE MCReads --------------------------------
(* A small instance of Reads for TLC: a document with a heading            *)
(* and a block that holds another heading and an empty block.              *)
EXTENDS Reads, TLC

CONSTANTS doc, h, g, q, r

FourBlocks   == {h, g, q, r}
KindOf       == (h :> "h") @@ (g :> "h") @@ (q :> "b") @@ (r :> "b")
KidsOf       == (doc :> <<h, q>>) @@ (q :> <<g, r>>) @@ (r :> << >>)
DefaultDepth == {2}

=============================================================================
