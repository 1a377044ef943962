--------------------------------- MODULE Reads ----------------------------------
(***************************************************************************)
(* The reading tools of mcp_siyuan/tools/read.py and smart.py that put     *)
(* their answer together from several kernel requests: get_block,          *)
(* get_block_children, get_document_outline, get_doc_summary and           *)
(* search_with_context.  One document in the kernel is a tree of blocks,   *)
(* which other clients edit between any two requests; the SQL index is     *)
(* what the tree was at some earlier moment.  A request and its answer are *)
(* one step.                                                               *)
(*                                                                         *)
(* These tools keep nothing and change nothing, so calls do not affect     *)
(* each other and one call is enough.  Left out are ids refused for their  *)
(* characters, and documents with more headings than the SQL LIMIT 200 of  *)
(* the outline.  Headings have one rank.                                   *)
(***************************************************************************)
EXTENDS Naturals, Sequences, SequencesExt, FiniteSets

CONSTANTS
    Root,       \* the document's id
    Blocks,     \* the ids of its blocks
    Kind,       \* Kind[b]: "h" a heading, "p" a leaf, "b" a block with children
    Kids0,      \* Kids0[x]: the children of x at first, in document order
    Depths,     \* depths a caller asks for, 1..5 in the code
    Limit,      \* headings an outline may have
    FirstN,     \* first_n_blocks
    Around,     \* context_blocks
    MaxHits,    \* limit of search_with_context
    Edits,      \* bound: edits of other clients
    Blank,      \* the contents of an empty block
    None

Ids        == Blocks \cup {Root}
Headings   == {b \in Blocks : Kind[b] = "h"}
Containers == {x \in Ids : x = Root \/ Kind[x] = "b"}

(* blocks.sort: a weight of the block's type, not its position.            *)
Weight(x) == IF x = Root THEN 0 ELSE IF Kind[x] = "h" THEN 5 ELSE IF Kind[x] = "p" THEN 10 ELSE 20

ASSUME BlocksAssumption ==
    /\ IsFiniteSet(Blocks) /\ Root \notin Blocks /\ None \notin Ids
    /\ Blank # None /\ {Blank, None} \cap Nat = {}
    /\ Kind \in [Blocks -> {"h", "p", "b"}]
ASSUME TreeAssumption ==
    /\ Kids0 \in [Containers -> Seq(Blocks)]
    /\ \A x \in Containers : IsInjective(Kids0[x])
ASSUME BoundAssumption ==
    /\ Depths \subseteq 1..5 /\ Edits \in Nat /\ {Limit, FirstN, MaxHits} \subseteq Nat \ {0}
    /\ Around \in Nat

VARIABLES
    kids,       \* kids[x]: the children of x in the kernel's tree
    text,       \* text[x]: which contents x has, None if it is gone
    rows,       \* rows[x]: the row of x in the SQL index, or None
    edits,      \* edits left to other clients
    pc,         \* the request the call makes next
    call,       \* the call's arguments, None before it begins
    block,      \* get_block's parts so far: a row, and the kernel's text
    listing,    \* listing[p]: the children of the node that path p leads to
    pending,    \* paths whose children are being asked for
    outline,    \* headings of get_document_outline so far
    summary,    \* get_doc_summary's parts so far
    hits,       \* the blocks search_with_context found, with their contexts
    outcome,    \* how the call ended: "ok", "not_found" or "failed"
    (* History, read by properties only. *)
    past,       \* what the kernel has been since the call began
    broken      \* a request broke and the tool went on

kernel == <<kids, text, rows, edits>>
parts  == <<block, listing, pending, outline, summary, hits>>
vars   == <<kernel, pc, call, parts, outcome, past, broken>>

Tools     == {"get_block", "get_block_children", "get_document_outline",
              "get_doc_summary", "search_with_context"}
Requests  == {"row", "markdown", "info", "children", "direct", "headings",
              "header", "count", "first", "search", "siblings"}
NoBlock   == [row |-> None, markdown |-> None]
NoSummary == [count |-> 0, first |-> << >>]

-----------------------------------------------------------------------------
(* The kernel                                                              *)

InTree == {x \in Ids : text[x] # None}

(* getChildBlocks: of a heading its section, nothing for a leaf or for an  *)
(* id that is not there.                                                   *)
Section(tree, h) ==
    LET x    == CHOOSE x \in Containers : h \in ToSet(tree[x])
        at   == CHOOSE i \in DOMAIN tree[x] : tree[x][i] = h
        ends == {i \in DOMAIN tree[x] : i > at /\ tree[x][i] \in Headings}
    IN  SubSeq(tree[x], at + 1, IF ends = {} THEN Len(tree[x]) ELSE Min(ends) - 1)

Children(tree, x) ==
    IF x \in Containers THEN tree[x]
    ELSE IF x \in Headings /\ \E y \in Containers : x \in ToSet(tree[y]) THEN Section(tree, x)
    ELSE << >>

(* parent_id in the index: the heading a block stands below, else what     *)
(* holds it.                                                               *)
IndexParent(b) ==
    LET x     == CHOOSE x \in Containers : b \in ToSet(kids[x])
        at    == CHOOSE i \in DOMAIN kids[x] : kids[x][i] = b
        above == {i \in 1 .. at - 1 : kids[x][i] \in Headings}
    IN  IF b \in Headings \/ above = {} THEN x ELSE kids[x][Max(above)]

RowOf(x) ==
    IF x \notin InTree THEN None
    ELSE [parent |-> IF x = Root THEN None ELSE IndexParent(x), text |-> text[x]]

Indexed      == {x \in Ids : rows[x] # None}
RowsBelow(p) == {x \in Indexed : rows[x].parent = p}

(* ORDER BY sort: rows of one weight come in any order.                    *)
Sorted(S) ==
    {s \in SetToSeqs(S) : \A i, j \in DOMAIN s : i < j => Weight(s[i]) <= Weight(s[j])}

Precedes(s, b, c) == \E i, j \in DOMAIN s : i < j /\ s[i] = b /\ s[j] = c

Now == [kids |-> kids, text |-> text, rows |-> rows]

-----------------------------------------------------------------------------
Goto(request) == pc' = request /\ UNCHANGED outcome

End(o) == pc' = "done" /\ outcome' = o

Reading == pc \in Requests

(* A request on behalf of the call; `part` is what it leaves alone.        *)
Ask(request, part) ==
    /\ pc = request
    /\ UNCHANGED <<kernel, call, past, part>>

-----------------------------------------------------------------------------
(* The tools                                                               *)

First(tool) ==
    CASE tool \in {"get_block", "get_block_children"} -> "row"
      [] tool = "get_document_outline"                -> "direct"
      [] tool = "get_doc_summary"                     -> "header"
      [] tool = "search_with_context"                 -> "search"

Begin ==
    /\ pc = "idle"
    /\ \E tool \in Tools, id \in Ids, depth \in Depths \cup {None} :
          /\ depth # None <=> tool = "get_block_children"
          /\ tool \notin {"get_block", "get_block_children"} => id = Root
          /\ call' = [tool |-> tool, id |-> id, depth |-> depth]
          /\ Goto(First(tool))
    /\ past' = {Now}
    /\ UNCHANGED <<kernel, parts, broken>>

(* get_block, 1: what the index has.                                       *)
GetRow ==
    /\ Ask("row", <<listing, pending, outline, summary, hits, broken>>)
    /\ block' = [block EXCEPT !.row = rows[call.id]]
    /\ Goto("markdown")

(* get_block has what it needs; get_block_children goes on.                *)
HasBlock ==
    IF call.tool = "get_block" THEN End("ok") /\ UNCHANGED pending
    ELSE Goto("children") /\ pending' = {<<call.id>>}

(* Mutant of GetMarkdown: the index's text, where there is a row, saves    *)
(* the request.                                                            *)
GetMarkdownOnce ==
    /\ Ask("markdown", <<listing, outline, summary, hits, broken>>)
    /\ block' = [block EXCEPT !.markdown = IF block.row # None THEN block.row.text
                                                               ELSE text[call.id]]
    /\ IF block'.markdown \notin {None, Blank} THEN HasBlock
       ELSE End("not_found") /\ UNCHANGED pending

(* get_block, 2: the kernel's text.  A SiYuanError counts as no text, and  *)
(* so does an empty block.  The markdown of the answer is the row's when   *)
(* the kernel gave none.                                                   *)
GetMarkdown ==
    /\ Ask("markdown", <<listing, outline, summary, hits>>)
    /\ \E kd \in {text[call.id], None} :
          LET given == kd \notin {None, Blank}
          IN  /\ broken' = (kd # text[call.id])
              /\ IF ~given /\ block.row = None
                 THEN End("not_found") /\ UNCHANGED <<block, pending>>
                 ELSE /\ block' = [block EXCEPT !.markdown = IF given THEN kd ELSE block.row.text]
                      /\ IF block.row # None THEN HasBlock
                         ELSE Goto("info") /\ UNCHANGED pending

(* get_block, 3: not indexed yet; a SiYuanError leaves only fields empty.  *)
GetInfo ==
    /\ Ask("info", <<block, listing, outline, summary, hits, broken>>)
    /\ HasBlock

(* Mutant of ListChildren: headings have children too. *)
ListAllChildren ==
    /\ Ask("children", <<block, outline, summary, hits, broken>>)
    /\ \E p \in pending :
          LET found == Children(kids, Last(p))
              below == IF Len(p) < call.depth THEN ToSet(found) ELSE {}
          IN  /\ listing' = [q \in DOMAIN listing \cup {p} |-> IF q = p THEN found ELSE listing[q]]
              /\ pending' = (pending \ {p}) \cup {Append(p, b) : b \in below}
    /\ IF pending' = {} THEN End("ok") ELSE Goto("children")

(* get_block_children: a task per node, level by level, in any order.      *)
ListChildren ==
    /\ Ask("children", <<block, outline, summary, hits, broken>>)
    /\ \E p \in pending :
          LET found == Children(kids, Last(p))
              below == IF Len(p) < call.depth THEN ToSet(found) \cap Containers ELSE {}
          IN  /\ listing' = [q \in DOMAIN listing \cup {p} |-> IF q = p THEN found ELSE listing[q]]
              /\ pending' = (pending \ {p}) \cup {Append(p, b) : b \in below}
    /\ IF pending' = {} THEN End("ok") ELSE Goto("children")

(* The one order of the headings in s that s has them in.                  *)
HeadingsIn(s) ==
    {u \in SetToSeqs(ToSet(s) \cap Headings) :
        \A b, c \in Headings : Precedes(u, b, c) => Precedes(s, b, c)}

(* get_document_outline, 1: the document's own headings, in order.         *)
ListDirect ==
    /\ Ask("direct", <<block, listing, pending, summary, hits, broken>>)
    /\ outline' \in HeadingsIn(Children(kids, call.id))
    /\ Goto("headings")

(* Mutant of QueryHeadings: what is already listed is not left out. *)
QueryAllHeadings ==
    /\ Ask("headings", <<block, listing, pending, summary, hits, broken>>)
    /\ \E more \in SetToSeqs(Indexed \cap Headings) :
          outline' = SubSeq(outline \o more, 1, Min({Limit, Len(outline \o more)}))
    /\ End("ok")

(* get_document_outline, 2: headings only the index knows of, in any order *)
(* behind the others; the first Limit are returned.                        *)
QueryHeadings ==
    /\ Ask("headings", <<block, listing, pending, summary, hits, broken>>)
    /\ \E more \in SetToSeqs((Indexed \cap Headings) \ ToSet(outline)) :
          outline' = SubSeq(outline \o more, 1, Min({Limit, Len(outline \o more)}))
    /\ End("ok")

(* get_doc_summary, 1: the document's row.                                 *)
FindDocument ==
    /\ Ask("header", <<parts, broken>>)
    /\ IF call.id \in Indexed THEN Goto("count") ELSE End("not_found")

(* Mutant of CountChildren: every block of the document is counted. *)
CountBlocks ==
    /\ Ask("count", <<block, listing, pending, outline, hits, broken>>)
    /\ summary' = [summary EXCEPT !.count = Cardinality(Indexed \ {call.id})]
    /\ Goto("first")

(* get_doc_summary, 2.                                                     *)
CountChildren ==
    /\ Ask("count", <<block, listing, pending, outline, hits, broken>>)
    /\ summary' = [summary EXCEPT !.count = Cardinality(RowsBelow(call.id))]
    /\ Goto("first")

(* get_doc_summary, 3.                                                     *)
FirstBlocks ==
    /\ Ask("first", <<block, listing, pending, outline, hits, broken>>)
    /\ \E s \in Sorted(RowsBelow(call.id)) :
          summary' = [summary EXCEPT !.first = SubSeq(s, 1, Min({FirstN, Len(s)}))]
    /\ End("ok")

(* search_with_context, 1: the hits, blocks the index has.                 *)
Search ==
    /\ Ask("search", <<block, listing, pending, outline, summary, broken>>)
    /\ \E s \in SeqOf(Indexed, MaxHits) :
          /\ IsInjective(s)
          /\ hits' = [k \in DOMAIN s |-> [id |-> s[k], asked |-> FALSE, context |-> << >>]]
    /\ IF hits' = << >> \/ Around = 0 THEN End("ok") ELSE Goto("siblings")

Unasked == {k \in DOMAIN hits : ~hits[k].asked}

(* siblings[start:end] around place i; nothing if the hit is not there.    *)
WindowShort(s, i) == SubSeq(s, Max({1, i - Around}), Min({Len(s), i + Around - 1}))
Window(s, i)      == SubSeq(s, Max({1, i - Around}), Min({Len(s), i + Around}))

(* search_with_context, 2: the siblings of one hit after the other.        *)
QuerySiblings ==
    /\ Ask("siblings", <<block, listing, pending, outline, summary, broken>>)
    /\ LET k  == Min(Unasked)
           id == hits[k].id
       IN  \/ /\ id \in Indexed
              /\ \E s \in Sorted(RowsBelow(rows[id].parent)) :
                    LET i == CHOOSE i \in DOMAIN s : s[i] = id
                    IN  hits' = [hits EXCEPT ![k] = [id |-> id, asked |-> TRUE, context |-> Window(s, i)]]
           \/ id \notin Indexed /\ hits' = [hits EXCEPT ![k].asked = TRUE]
    /\ IF Cardinality(Unasked) = 1 THEN End("ok") ELSE Goto("siblings")

(* A request raises, and nothing is left of the answer: of a group of      *)
(* tasks, that is the end of all of them.                                  *)
Fail ==
    /\ Reading
    /\ End("failed")
    /\ block' = NoBlock /\ listing' = << >> /\ pending' = {}
    /\ outline' = << >> /\ summary' = NoSummary /\ hits' = << >>
    /\ past' = {} /\ broken' = FALSE
    /\ UNCHANGED <<kernel, call>>

-----------------------------------------------------------------------------
(* Environment                                                             *)

(* History: the kernel has changed.                                        *)
Changes ==
    /\ past' = IF Reading THEN past \cup {Now'} ELSE past
    /\ UNCHANGED <<pc, call, parts, outcome, broken>>

Edit == pc # "done" /\ edits > 0 /\ edits' = edits - 1

Rewrite(x) ==
    /\ Edit /\ x \in InTree
    /\ \E new \in {Edits + 1 - edits, Blank} : text' = [text EXCEPT ![x] = new]
    /\ text' # text
    /\ UNCHANGED <<kids, rows>>
    /\ Changes

(* x and what it holds.                                                    *)
Subtree(x) ==
    LET in[n \in 0..Cardinality(Containers)] ==
            IF n = 0 THEN {x}
            ELSE in[n-1] \cup UNION {ToSet(kids[y]) : y \in in[n-1] \cap Containers}
    IN  in[Cardinality(Containers)]

Discard(x) ==
    /\ Edit /\ x \in InTree
    /\ LET gone == Subtree(x)
       IN  /\ text' = [y \in Ids |-> IF y \in gone THEN None ELSE text[y]]
           /\ kids' = [y \in Containers |-> IF y \in gone THEN << >> ELSE RemoveFirst(kids[y], x)]
    /\ UNCHANGED rows
    /\ Changes

(* b goes to place i among the children of x.                              *)
MoveTo(b, x, i) ==
    /\ Edit /\ {b, x} \subseteq InTree /\ x \notin Subtree(b)
    /\ LET rest == [y \in Containers |-> RemoveFirst(kids[y], b)]
       IN  /\ i <= Len(rest[x]) + 1
           /\ kids' = [rest EXCEPT ![x] = InsertAt(@, i, b)]
           /\ kids' # kids
    /\ UNCHANGED <<text, rows>>
    /\ Changes

(* The kernel's index catches up with its tree.                            *)
Reindex ==
    /\ pc # "done"
    /\ rows' = [x \in Ids |-> RowOf(x)]
    /\ UNCHANGED <<kids, text, edits>>
    /\ Changes

(* The document was made a while ago, or a moment ago.                     *)
Init ==
    /\ kids = Kids0
    /\ text = [x \in Ids |-> 0]
    /\ rows \in {[x \in Ids |-> RowOf(x)], [x \in Ids |-> None]}
    /\ edits = Edits
    /\ pc = "idle" /\ call = None
    /\ block = NoBlock
    /\ listing = << >> /\ pending = {}
    /\ outline = << >>
    /\ summary = NoSummary
    /\ hits = << >>
    /\ outcome = "none"
    /\ past = {}
    /\ broken = FALSE

Next ==
    \/ Begin
    \/ GetRow \/ GetMarkdown \/ GetInfo \/ ListChildren
    \/ ListDirect \/ QueryHeadings
    \/ FindDocument \/ CountChildren \/ FirstBlocks
    \/ Search \/ QuerySiblings
    \/ Fail
    \/ \E x \in Ids : Rewrite(x) \/ Discard(x)
    \/ \E b \in Blocks, x \in Containers : \E i \in 1..Cardinality(Blocks) : MoveTo(b, x, i)
    \/ Reindex

Spec == Init /\ [][Next]_vars

-----------------------------------------------------------------------------
(* Properties                                                              *)
(*                                                                         *)
(* There is no snapshot of the kernel a whole answer shows.  What can be   *)
(* asked is that a tool's answer has everything that held from its first   *)
(* request to its last, and nothing that never held.                       *)

Ok(tool) == call # None /\ call.tool = tool /\ outcome = "ok"
IsSet(s) == IsInjective(s)

(* What was below p in the index, always and at some moment.               *)
StayedBelow(p) == {b \in Ids : \A s \in past : s.rows[b] # None /\ s.rows[b].parent = p}
WasBelow(p)    == {b \in Ids : \E s \in past : s.rows[b] # None /\ s.rows[b].parent = p}
IndexIsStill   == \A s, t \in past : s.rows = t.rows

(* get_block, also as the first part of get_block_children: "not found" is *)
(* said only of a block that the index lacked and that had no text in the  *)
(* kernel at some moment, or after a broken request; the markdown is the   *)
(* kernel's, however far the index is behind, unless the kernel had none   *)
(* or the request broke, and then the index's (read.py:129).               *)
BlockIsRegular ==
    LET NoText == broken \/ \E s \in past : s.text[call.id] \in {None, Blank}
    IN  /\ outcome = "not_found" /\ call.tool # "get_doc_summary" =>
              NoText /\ \E s \in past : s.rows[call.id] = None
        /\ Ok("get_block") =>
              \/ \E s \in past : s.text[call.id] = block.markdown
              \/ /\ NoText
                 /\ \E s \in past : s.rows[call.id] # None /\ s.rows[call.id].text = block.markdown

(* get_block_children: whatever is edited while its tasks run, each node   *)
(* of the tree lists every block that stayed in it, once and in document   *)
(* order, and no block that never was in it; exactly the nodes that can    *)
(* have children are expanded, down to the depth (smart.py:242).           *)
TreeIsRegular ==
    Ok("get_block_children") =>
        /\ <<call.id>> \in DOMAIN listing
        /\ \A p \in DOMAIN listing :
              LET In(s) == ToSet(Children(s.kids, Last(p)))
              IN  /\ Len(p) = 1 \/ Last(p) \in ToSet(listing[Front(p)])
                  /\ IsSet(listing[p])
                  /\ \A b \in Blocks :
                        /\ (\A s \in past : b \in In(s)) => b \in ToSet(listing[p])
                        /\ b \in ToSet(listing[p]) =>
                              /\ \E s \in past : b \in In(s)
                              /\ Append(p, b) \in DOMAIN listing <=> b \in Containers /\ Len(p) < call.depth
                  /\ \A b, c \in Blocks :
                        (\A s \in past : Precedes(Children(s.kids, Last(p)), b, c))
                            => Precedes(listing[p], b, c)

(* get_document_outline: no heading twice, though the tree and the index   *)
(* are asked at different moments; the document's own headings in order    *)
(* and before the others; none that stayed is missing unless the limit     *)
(* cuts it off (smart.py:428).                                             *)
OutlineIsRegular ==
    Ok("get_document_outline") =>
        LET Own(s) == ToSet(s.kids[call.id]) \cap Headings
            stayed == {b \in Headings : \A s \in past : b \in Own(s)}
            was    == {b \in Headings : \E s \in past : b \in Own(s)}
            listed == ToSet(outline)
        IN  /\ IsSet(outline) /\ Len(outline) <= Limit
            /\ \A b \in listed \ was : \E s \in past : s.rows[b] # None
            /\ \A b \in Headings \ listed :
                  b \in stayed \/ (\A s \in past : s.rows[b] # None) => Len(outline) = Limit
            /\ \A b \in stayed, c \in listed \ was : Precedes(outline, b, c)
            /\ \A b \in stayed, c \in listed :
                  (\A s \in past : Precedes(s.kids[call.id], b, c)) => Precedes(outline, b, c)

(* get_doc_summary: the count and the first blocks are about the same      *)
(* children, and agree if the index did not change between the requests    *)
(* (smart.py:575).                                                         *)
SummaryIsRegular ==
    Ok("get_doc_summary") =>
        LET first == summary.first
        IN  /\ summary.count \in Cardinality(StayedBelow(call.id)) .. Cardinality(WasBelow(call.id))
            /\ IsSet(first) /\ ToSet(first) \subseteq WasBelow(call.id)
            /\ Len(first) < FirstN => StayedBelow(call.id) \subseteq ToSet(first)
            /\ IndexIsStill => Len(first) = Min({FirstN, summary.count})

(* search_with_context: a hit stands among blocks below the same parent,   *)
(* with no more than Around on either side, and with all of them if both   *)
(* sides are short; it lacks a context only if the index lost it           *)
(* (smart.py:288).                                                         *)
ContextIsRegular ==
    Ok("search_with_context") =>
        \A k \in DOMAIN hits :
            LET id == hits[k].id
                s  == hits[k].context
            IN  \/ s = << >> /\ (Around = 0 \/ \E t \in past : t.rows[id] = None)
                \/ /\ IsSet(s)
                   /\ \E i \in DOMAIN s, t \in past :
                        LET all == {b \in Ids : t.rows[b] # None /\ t.rows[b].parent = t.rows[id].parent}
                        IN  /\ s[i] = id /\ t.rows[id] # None
                            /\ i - 1 <= Around /\ Len(s) - i <= Around
                            /\ ToSet(s) \subseteq all
                            /\ Around \in {i - 1, Len(s) - i} \/ ToSet(s) = all

=============================================================================
