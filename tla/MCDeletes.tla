------------------------------ MODULE MCDeletes ------------------------------
(* Small instances of Deletes for TLC: a block in a document in a notebook. *)
EXTENDS Deletes, TLC

CONSTANTS a, b, block, doc, book, k

CallsOne    == {a}
CallsTwo    == {a, b}
AllTargets  == {block, doc, book}
KindOf      == (block :> "block") @@ (doc :> "doc") @@ (book :> "notebook")
ContentsOf  == (block :> {block}) @@ (doc :> {block, doc}) @@ (book :> {block, doc, book})
KeysOne     == {k}
AllFaults   == {"error", "raw"}
SymTwo      == Permutations(CallsTwo)

=============================================================================
