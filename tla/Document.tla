------------------------------- MODULE Document --------------------------------
(***************************************************************************)
(* A SiYuan document as the tools of mcp_siyuan/tools/write.py use it: a   *)
(* sequence of top-level blocks, where headings are leaves beside the      *)
(* blocks they title.  The operators are what the kernel's block requests  *)
(* read or change; the variables are what calls of any tool on one         *)
(* document have, to which Sections and UpdateBlock add their own.         *)
(***************************************************************************)
EXTENDS Naturals, Sequences, SequencesExt

CONSTANTS
    Texts,      \* contents of headings, and of other blocks
    Calls,      \* invocations of the tools
    Doc0,       \* the document at first
    Edits,      \* bound: blocks another client adds or changes
    None

(* level is 1 to 6 for a heading and 0 for any other block.                *)
Block == [id : Nat, level : 0..6, text : Texts]

IsHeading(b) == b.level > 0
Ids(d)       == {b.id : b \in ToSet(d)}
Headings(d)  == {b \in ToSet(d) : IsHeading(b)}
Place(d, id) == CHOOSE i \in DOMAIN d : d[i].id = id

(* getChildBlocks on a heading: the blocks up to the next heading of the   *)
(* same or a higher rank; nothing for an id that is not there.             *)
Section(d, id) ==
    IF id \notin Ids(d) THEN << >>
    ELSE LET at    == Place(d, id)
             stops == {i \in at + 1 .. Len(d) : d[i].level \in 1 .. d[at].level}
             end   == IF stops = {} THEN Len(d) ELSE Min(stops) - 1
         IN  SubSeq(d, at + 1, end)

(* insertBlock with previousID.                                            *)
InsertAfter(d, id, blocks) ==
    LET at == Place(d, id)
    IN  SubSeq(d, 1, at) \o blocks \o SubSeq(d, at + 1, Len(d))

(* deleteBlock: a heading goes without its section.                        *)
Without(d, id) == IF id \in Ids(d) THEN RemoveAt(d, Place(d, id)) ELSE d

(* Ids are the kernel's, and no two blocks have the same.                  *)
Distinct(d) == \A i, j \in DOMAIN d : d[i].id = d[j].id => i = j

(* The block x stands before the block y.                                  *)
Before(d, x, y) == \E i \in DOMAIN d : d[i].id = x /\ \E j \in DOMAIN d : i < j /\ d[j].id = y

-----------------------------------------------------------------------------
ASSUME DocAssumption == Doc0 \in Seq(Block) /\ Distinct(Doc0) /\ Edits \in Nat

VARIABLES
    doc,        \* the document in the kernel
    next,       \* the next block id
    edits,      \* edits left to the other client
    pc,         \* pc[c]: the request c makes next
    call,       \* call[c]: the arguments of c
    result      \* result[c]: what the tool returned

Goto(c, request) ==
    /\ pc' = [pc EXCEPT ![c] = request]
    /\ UNCHANGED result

End(c, r) ==
    /\ pc' = [pc EXCEPT ![c] = "done"]
    /\ result' = [result EXCEPT ![c] = r]

InitDocument ==
    /\ doc = Doc0
    /\ next = 1 + Max({0} \cup Ids(Doc0))
    /\ edits = Edits
    /\ pc = [c \in Calls |-> "idle"]
    /\ call = [c \in Calls |-> None]
    /\ result = [c \in Calls |-> "none"]

=============================================================================
