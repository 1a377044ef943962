------------------------------ MODULE UpdateBlock -------------------------------
(***************************************************************************)
(* update_block of mcp_siyuan/tools/write.py on one document, and beside   *)
(* it insert_block, append_block and move_block.  The kernel's updateBlock *)
(* keeps the first block of what it is sent (the first item of a list sent *)
(* to an item), so update_block sends the rest one by one, each anchored   *)
(* at the block before it, while other calls and clients change the        *)
(* document.  A request and its answer are one step.                       *)
(*                                                                         *)
(* The data of update_block are parts 1, 2, ...: the items of markdown     *)
(* that is one list, the blocks of any other.  The first of several blocks *)
(* may itself be a list of several items, of which an item takes only the  *)
(* first: the tool looks for items only where the list is all there is.    *)
(* The other tools are one request each, on the document or its blocks.    *)
(* What Sections has too is named for the update here: EditingProofs       *)
(* extends both.                                                           *)
(***************************************************************************)
EXTENDS Document

CONSTANTS
    MaxParts,   \* bound: the most parts of a call's data
    Root        \* the id of the document

(* Blocks, blocks of which the first is a list of several items, one list  *)
(* of several items, or no markdown.                                       *)
Shapes == {"blocks", "mixed", "list", "dom"}

(* What a client can ask for of blocks with these ids, and with `top`, the *)
(* places in the document itself.  What goes into a list is an item; items *)
(* that leave their list are left out.                                     *)
ArgsOn(ids, top) ==
         {u \in [tool : {"update_block"}, target : ids \cup {Root}, shape : Shapes, parts : 1..MaxParts] :
              u.shape \in {"mixed", "list"} => u.parts > 1}
    \cup [tool : {"insert_block"}, target : ids, where : {"after", "before"}]
    \cup [tool : {"insert_block", "append_block"}, target : top, where : {"child"}]
    \cup [tool : {"move_block"}, target : ids, anchor : ids \cup top \cup {None}]

ASSUME PartsAssumption ==
    /\ MaxParts \in Nat \ {0}
    /\ (Calls \cup {None}) \X (1..MaxParts) \subseteq Texts
    /\ Root \notin Nat /\ None \notin Nat \cup {Root} \cup Calls \cup ArgsOn(Nat, {Root})

VARIABLES
    items,      \* the body is the items of one list
    inserted,   \* inserted[c]: the ids c has inserted
    (* History, read by properties only. *)
    taken,      \* taken[c]: the parts of c's data the kernel took
    cut,        \* the calls whose first part the kernel cut to its first item
    wiped,      \* ids removed by other clients or with a whole body
    moved       \* ids that move_block has moved

updateVars == <<doc, items, next, edits, pc, call, inserted, result, taken, cut, wiped, moved>>

UpdateRequests == {"dom", "info", "whole", "first", "rest", "insert", "move"}
UpdateResults  == {"none", "ok", "unsure", "partial", "failed"}

UpdateTypeOK ==
    /\ doc \in Seq(Block) /\ Distinct(doc) /\ items \in BOOLEAN
    /\ next \in Nat /\ edits \in 0..Edits
    /\ pc \in [Calls -> {"idle", "done"} \cup UpdateRequests]
    /\ call \in [Calls -> ArgsOn(Nat, {Root}) \cup {None}]
    /\ inserted \in [Calls -> Seq(Nat)]
    /\ result \in [Calls -> UpdateResults]
    /\ taken \in [Calls -> Seq(1..MaxParts)]
    /\ cut \subseteq Calls /\ wiped \subseteq Nat /\ moved \subseteq Nat

-----------------------------------------------------------------------------
Target(c) == call[c].target
Parts(c)  == call[c].parts

(* previousID of the next insertion. *)
Previous(c) == Last(<<Target(c)>> \o inserted[c])

(* The kernel, as the tool relies on it                                    *)

NewBlock(c, k, id) == [id |-> id, level |-> 0, text |-> <<c, k>>]

NotWritten == UNCHANGED <<doc, items, next, taken, cut, wiped, moved>>

Takes(c, parts) == taken' = [taken EXCEPT ![c] = @ \o parts]

(* The first part for an item is a list of several items.                  *)
IsCut(c) ==
    /\ items
    /\ \/ call[c].shape = "mixed"
       \/ call[c].shape = "list" /\ pc[c] = "whole"

(* updateBlock on a block keeps the first part, on an item one item of it. *)
Updates(c) ==
    /\ Target(c) \in Ids(doc)
    /\ doc' = [doc EXCEPT ![Place(doc, Target(c))].text = <<c, 1>>]
    /\ Takes(c, <<1>>)
    /\ cut' = cut \cup {d \in {c} : IsCut(d)}
    /\ UNCHANGED <<items, next, wiped, moved>>

(* On the document it replaces the body; a list is one block there.        *)
ReplacesBody(c) ==
    LET n == IF call[c].shape = "list" THEN 1 ELSE Parts(c)
    IN  /\ Target(c) = Root
        /\ doc' = [k \in 1..n |-> NewBlock(c, k, next + k - 1)]
        /\ next' = next + n
        /\ items' = FALSE
        /\ wiped' = wiped \cup Ids(doc)
        /\ Takes(c, [k \in 1..n |-> k])
        /\ UNCHANGED <<cut, moved>>

Inserts(c) ==
    LET k == Len(inserted[c]) + 2
    IN  /\ Previous(c) \in Ids(doc)
        /\ doc' = InsertAfter(doc, Previous(c), <<NewBlock(c, k, next)>>)
        /\ next' = next + 1
        /\ Takes(c, <<k>>)
        /\ UNCHANGED <<items, cut, wiped, moved>>

(* insertBlock at one side of a block, or at an end of the document: which *)
(* end a parentID alone means is the kernel's.                             *)
Adds(c) ==
    LET new    == NewBlock(c, 1, next)
        before == Place(doc, Target(c)) - 1
    IN  /\ \/ /\ Target(c) \in Ids(doc) /\ call[c].where = "after"
              /\ doc' = InsertAfter(doc, Target(c), <<new>>)
           \/ /\ Target(c) \in Ids(doc) /\ call[c].where = "before"
              /\ doc' = InsertAt(doc, before + 1, new)
           \/ call[c].where = "child" /\ doc' = Append(doc, new)
           \/ call[c].tool = "insert_block" /\ call[c].where = "child" /\ doc' = <<new>> \o doc
        /\ next' = next + 1
        /\ Takes(c, <<1>>)
        /\ UNCHANGED <<items, cut, wiped, moved>>

(* moveBlock to behind a block, or to the start of the document.           *)
Moves(c) ==
    LET rest == Without(doc, Target(c))
        it   == doc[Place(doc, Target(c))]
    IN  /\ Target(c) \in Ids(doc)
        /\ \/ call[c].anchor \in Ids(rest) /\ doc' = InsertAfter(rest, call[c].anchor, <<it>>)
           \/ call[c].anchor = Root /\ doc' = <<it>> \o rest
        /\ moved' = moved \cup {Target(c)}
        /\ UNCHANGED <<items, next, taken, cut, wiped>>

-----------------------------------------------------------------------------
(* The tools                                                               *)

FirstRequest(a) ==
    CASE a.tool \in {"insert_block", "append_block"} -> "insert"
      [] a.tool = "move_block"                       -> "move"
      [] OTHER -> IF a.parts = 1 \/ a.shape = "dom" THEN "whole"
                  ELSE IF a.shape = "list" THEN "dom" ELSE "info"

(* A move to nowhere is refused at once.  A list before other blocks is a  *)
(* block as any other, but for an item.                                    *)
BeginUpdate(c) ==
    /\ pc[c] = "idle"
    /\ \E a \in ArgsOn(Ids(doc), IF items THEN {} ELSE {Root}) :
          /\ a.tool = "update_block" => (a.shape = "mixed" => items)
          /\ call' = [call EXCEPT ![c] = a]
          /\ IF a.tool = "move_block" /\ a.anchor = None THEN End(c, "failed")
             ELSE Goto(c, FirstRequest(a))
    /\ NotWritten /\ UNCHANGED <<edits, inserted>>

(* Mutants of IsListItem: a kernel that cannot say means no; the tool      *)
(* reports what it does not know.                                          *)
IsListItemOrNot(c) ==
    /\ pc[c] = "dom"
    /\ \/ Target(c) \in Ids(doc) /\ items /\ Goto(c, "first")
       \/ Goto(c, "whole")
    /\ NotWritten /\ UNCHANGED <<edits, call, inserted>>

IsListItemUnknown(c) ==
    /\ pc[c] = "dom"
    /\ End(c, "unknown")
    /\ NotWritten /\ UNCHANGED <<edits, call, inserted>>

(* _is_list_item: getBlockDOM, and nothing is written unless it answers.   *)
IsListItem(c) ==
    /\ pc[c] = "dom"
    /\ \/ Target(c) \in Ids(doc) /\ Goto(c, IF items THEN "first" ELSE "whole")
       \/ Target(c) = Root /\ Goto(c, "whole")
       \/ End(c, "unsure")
    /\ NotWritten /\ UNCHANGED <<edits, call, inserted>>

(* getBlockInfo: is it the document?                                       *)
IsRoot(c) ==
    /\ pc[c] = "info"
    /\ \/ Target(c) = Root /\ Goto(c, "whole")
       \/ Target(c) \in Ids(doc) /\ Goto(c, "first")
       \/ Target(c) \notin Ids(doc) \cup {Root} /\ End(c, "failed")
    /\ NotWritten /\ UNCHANGED <<edits, call, inserted>>

(* The data fit one request.                                               *)
UpdateWhole(c) ==
    /\ pc[c] = "whole"
    /\ \/ (Updates(c) \/ ReplacesBody(c)) /\ End(c, "ok")
       \/ Target(c) \notin Ids(doc) \cup {Root} /\ NotWritten /\ End(c, "failed")
    /\ UNCHANGED <<edits, call, inserted>>

(* Mutant of UpdateFirst: the block is replaced by a new one. *)
UpdateFirstAfresh(c) ==
    /\ pc[c] = "first" /\ Target(c) \in Ids(doc)
    /\ doc' = [doc EXCEPT ![Place(doc, Target(c))] = NewBlock(c, 1, next)]
    /\ next' = next + 1
    /\ inserted' = [inserted EXCEPT ![c] = <<next>>]
    /\ Takes(c, <<1>>) /\ Goto(c, "rest")
    /\ UNCHANGED <<items, edits, call, cut, wiped, moved>>

UpdateFirst(c) ==
    /\ pc[c] = "first"
    /\ \/ Updates(c) /\ Goto(c, "rest")
       \/ Target(c) \notin Ids(doc) /\ NotWritten /\ End(c, "failed")
    /\ UNCHANGED <<edits, call, inserted>>

(* Mutant of InsertNext: every insertion is anchored at the target. *)
InsertNextToTarget(c) ==
    /\ pc[c] = "rest" /\ Target(c) \in Ids(doc)
    /\ LET k == Len(inserted[c]) + 2
       IN  /\ doc' = InsertAfter(doc, Target(c), <<NewBlock(c, k, next)>>)
           /\ Takes(c, <<k>>)
           /\ IF k = Parts(c) THEN End(c, "ok") ELSE Goto(c, "rest")
    /\ inserted' = [inserted EXCEPT ![c] = Append(@, next)]
    /\ next' = next + 1
    /\ UNCHANGED <<items, edits, call, cut, wiped, moved>>

(* One insertion: the answer has the new block's id, or lacks it and the   *)
(* tool gives up with a count, or the anchor is gone.                      *)
InsertNext(c) ==
    /\ pc[c] = "rest"
    /\ \/ /\ Inserts(c)
          /\ inserted' = [inserted EXCEPT ![c] = Append(@, next)]
          /\ IF Len(inserted[c]) + 2 = Parts(c) THEN End(c, "ok") ELSE Goto(c, "rest")
       \/ (Inserts(c) \/ NotWritten) /\ End(c, "partial") /\ UNCHANGED inserted
       \/ Previous(c) \notin Ids(doc) /\ NotWritten /\ End(c, "failed") /\ UNCHANGED inserted
    /\ UNCHANGED <<edits, call>>

(* insert_block and append_block: the id in the answer is not used.        *)
InsertOne(c) ==
    /\ pc[c] = "insert"
    /\ \/ Adds(c) /\ End(c, "ok")
       \/ Target(c) \notin Ids(doc) \cup {Root} /\ NotWritten /\ End(c, "failed")
    /\ UNCHANGED <<edits, call, inserted>>

(* move_block; a block cannot go behind itself or one that is gone.        *)
MoveOne(c) ==
    /\ pc[c] = "move"
    /\ \/ Moves(c) /\ End(c, "ok")
       \/ /\ Target(c) \notin Ids(doc) \/ call[c].anchor \notin (Ids(doc) \cup {Root}) \ {Target(c)}
          /\ NotWritten /\ End(c, "failed")
    /\ UNCHANGED <<edits, call, inserted>>

(* A request raises or the call is cancelled there, with effect or without.*)
FailUpdate(c) ==
    /\ pc[c] \in UpdateRequests
    /\ \/ NotWritten
       \/ pc[c] = "whole" /\ (Updates(c) \/ ReplacesBody(c))
       \/ pc[c] = "first" /\ Updates(c)
       \/ pc[c] = "rest" /\ Inserts(c)
       \/ pc[c] = "insert" /\ Adds(c)
       \/ pc[c] = "move" /\ Moves(c)
    /\ End(c, "failed")
    /\ UNCHANGED <<edits, call, inserted>>

(* Another client puts a block somewhere, or takes one away.               *)
BlockElsewhere ==
    /\ edits > 0 /\ edits' = edits - 1
    /\ \E id \in Ids(doc) :
          \/ /\ doc' = InsertAfter(doc, id, <<NewBlock(None, 1, next)>>)
             /\ next' = next + 1 /\ UNCHANGED wiped
          \/ doc' = Without(doc, id) /\ wiped' = wiped \cup {id} /\ UNCHANGED next
    /\ UNCHANGED <<items, pc, call, inserted, result, taken, cut, moved>>

UpdateInit ==
    /\ InitDocument
    /\ items \in BOOLEAN
    /\ inserted = [c \in Calls |-> << >>]
    /\ taken = [c \in Calls |-> << >>]
    /\ cut = {} /\ wiped = {} /\ moved = {}

UpdateNext ==
    \/ \E c \in Calls :
          \/ BeginUpdate(c) \/ IsListItem(c) \/ IsRoot(c) \/ UpdateWhole(c) \/ UpdateFirst(c)
          \/ InsertNext(c) \/ InsertOne(c) \/ MoveOne(c) \/ FailUpdate(c)
    \/ BlockElsewhere

UpdateSpec == UpdateInit /\ [][UpdateNext]_updateVars

-----------------------------------------------------------------------------
(* Properties                                                              *)

(* The blocks that update_block has written follow its target in the order *)
(* of its data, others updating the same block, a block inserted a moment  *)
(* ago or the document, and blocks coming, going and moving in between,    *)
(* unless they are moved themselves.                                       *)
OrderIsKept ==
    \A c \in Calls : call[c] # None /\ call[c].tool = "update_block" /\ call[c].target # Root =>
        LET chain == <<Target(c)>> \o inserted[c]
        IN  ToSet(chain) \cap moved = {} =>
                \A i, j \in DOMAIN chain :
                    i < j /\ {chain[i], chain[j]} \subseteq Ids(doc) => Before(doc, chain[i], chain[j])

Updated == {call[c].target : c \in {d \in Calls : call[d] # None /\ call[d].tool = "update_block"}}

(* Every other block of the document stays, in its order unless it is      *)
(* moved, and with its text unless it is a target of update_block,         *)
(* whichever requests fail: no tool costs a block it was not aimed at.     *)
RestIsKept ==
    LET old  == Ids(Doc0) \ wiped
        same == old \ Updated
    IN  /\ Ids(doc) \cap Ids(Doc0) = old
        /\ \A i, j \in DOMAIN Doc0 :
              i < j /\ {Doc0[i].id, Doc0[j].id} \subseteq old \ moved => Before(doc, Doc0[i].id, Doc0[j].id)
        /\ \A b \in ToSet(doc) : b.id \in same => b \in ToSet(Doc0)

(* What the kernel makes of c's data: the items of a list are parts of     *)
(* their own only beside other items.                                      *)
Whole(c) ==
    IF call[c].shape = "list" /\ ~(Target(c) # Root /\ items) THEN <<1>>
    ELSE [k \in 1..Parts(c) |-> k]

AnswersRight(c) ==
    result'[c] # result[c] /\ call[c] # None /\ call[c].tool = "update_block" /\ call[c].shape # "dom"
    => /\ result'[c] = "ok" => taken'[c] = Whole(c) /\ (c \in cut' => call[c].shape = "mixed")
       /\ result'[c] = "partial" => Len(taken'[c]) - 1 - Len(inserted'[c]) \in {0, 1}

(* An update_block that returns ok has had every part of its markdown      *)
(* taken by the kernel, once and in order, and whole unless the first of   *)
(* several blocks is a list: nothing else is lost to the first-block rule  *)
(* of updateBlock.  One that gives up for want of an id has counted right, *)
(* but for the block whose id it did not get.                              *)
OkIsWhole == [][\A c \in Calls : AnswersRight(c)]_updateVars

=============================================================================
