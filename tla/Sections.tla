------------------------------- MODULE Sections --------------------------------
(***************************************************************************)
(* The section tools of mcp_siyuan/tools/write.py: upsert_section and      *)
(* append_to_section, with _find_section, on one document.  Calls          *)
(* interleave at their kernel requests, the SQL index lags behind the      *)
(* kernel's tree, requests fail with or without effect, and another client *)
(* edits headings.  A request and its answer are one step.                 *)
(*                                                                         *)
(* Each call is one run of _call(): with_idempotency around it is          *)
(* Idempotency's matter, the repetition of a request KernelClient's.       *)
(***************************************************************************)
EXTENDS Document

CONSTANTS
    Names,      \* heading texts callers ask for
    Canon,      \* Canon[t]: t in lower case with its white space collapsed
    Sizes,      \* numbers of blocks in the callers' markdown
    NewLevel    \* heading_level

Bodies == Calls \X (1..2)
Args   == [tool : {"upsert", "append"}, name : Names, size : Sizes]

ASSUME TextsAssumption == Names \cup Bodies \subseteq Texts
ASSUME CanonAssumption == DOMAIN Canon = Texts
ASSUME SizesAssumption == Sizes \subseteq 0..2 /\ NewLevel \in 1..6
ASSUME NoneAssumption == None \notin Nat \cup Args

VARIABLES
    rows,       \* the headings as the SQL index knows them
    heading,    \* heading[c]: the id _find_section settled on
    todo,       \* todo[c]: the blocks c still deletes, last first
    anchor,     \* anchor[c]: previousID of the insertion
    (* History, read by properties only. *)
    clash,      \* calls at work while two of them shared blocks
    botched     \* calls with a deletion that failed

vars == <<doc, next, rows, edits, pc, call, heading, todo, anchor, result, clash, botched>>

Requests == {"query", "children", "section", "delete", "insert", "append"}
Results  == {"none", "replaced", "created", "appended", "rejected", "failed"}

TypeOK ==
    /\ doc \in Seq(Block) /\ Distinct(doc) /\ next \in Nat /\ edits \in 0..Edits
    /\ rows \subseteq Block
    /\ pc \in [Calls -> {"idle", "done"} \cup Requests]
    /\ call \in [Calls -> Args \cup {None}]
    /\ heading \in [Calls -> Nat \cup {None}]
    /\ todo \in [Calls -> Seq(Nat)]
    /\ anchor \in [Calls -> Nat \cup {None}]
    /\ result \in [Calls -> Results]
    /\ clash \subseteq Calls /\ botched \subseteq Calls

-----------------------------------------------------------------------------
Matching(blocks, name) == {b \in blocks : IsHeading(b) /\ Canon[b.text] = Canon[name]}

(* The caller's markdown, as the blocks the kernel makes of it from id i.  *)
Body(c, i) == [k \in 1..call[c].size |-> [id |-> i + k - 1, level |-> 0, text |-> <<c, k>>]]

Working(c) == pc[c] \in Requests

(* The section of h reaches to the end, and so would hold a new one.       *)
Encloses(h) ==
    /\ h.level < NewLevel
    /\ \A i \in DOMAIN doc : i > Place(doc, h.id) => doc[i].level \notin 1 .. h.level

(* The section of m is within that of n, or would be if it were created.   *)
Within(m, n) ==
    \E h \in Matching(ToSet(doc), n) :
        \/ Matching(ToSet(doc), m) = {} /\ Encloses(h)
        \/ \E g \in Matching(ToSet(doc), m) : g \in ToSet(Section(doc, h.id))

Shares(m, n) == Canon[m] = Canon[n] \/ Within(m, n) \/ Within(n, m)

Begin(c) ==
    /\ pc[c] = "idle"
    /\ \E a \in Args :
          /\ call' = [call EXCEPT ![c] = a]
          /\ LET others == {d \in Calls : Working(d)}
                 rivals == {d \in others : Shares(call[d].name, a.name)}
             IN  clash' = clash \cup IF rivals \cup (clash \cap others) = {} THEN {}
                                     ELSE others \cup {c}
    /\ Goto(c, "query")
    /\ UNCHANGED <<doc, next, rows, edits, heading, todo, anchor, botched>>

-----------------------------------------------------------------------------
(* _find_section                                                           *)

(* One match is the section, several are refused.                          *)
Settle(c, found) ==
    \/ \E b \in found :
          /\ found = {b}
          /\ heading' = [heading EXCEPT ![c] = b.id]
          /\ Goto(c, "section")
    \/ /\ \E b, o \in found : b # o
       /\ End(c, "rejected")
       /\ UNCHANGED heading

(* Mutant of QueryHeadings: a miss of the index is final. *)
QueryHeadingsOnly(c) ==
    /\ pc[c] = "query"
    /\ LET found == Matching(rows, call[c].name)
       IN  \/ Settle(c, found)
           \/ /\ found = {} /\ UNCHANGED heading
              /\ IF call[c].tool = "upsert" THEN Goto(c, "append") ELSE End(c, "rejected")
    /\ UNCHANGED <<doc, next, rows, edits, call, todo, anchor, clash, botched>>

(* First the SQL index is asked; a miss is not proof.                      *)
QueryHeadings(c) ==
    /\ pc[c] = "query"
    /\ LET found == Matching(rows, call[c].name)
       IN  \/ Settle(c, found)
           \/ found = {} /\ Goto(c, "children") /\ UNCHANGED heading
    /\ UNCHANGED <<doc, next, rows, edits, call, todo, anchor, clash, botched>>

(* Then the kernel.  A miss there creates the section, or is an error.     *)
QueryChildren(c) ==
    /\ pc[c] = "children"
    /\ LET found == Matching(ToSet(doc), call[c].name)
       IN  \/ Settle(c, found)
           \/ /\ found = {} /\ UNCHANGED heading
              /\ IF call[c].tool = "upsert" THEN Goto(c, "append") ELSE End(c, "rejected")
    /\ UNCHANGED <<doc, next, rows, edits, call, todo, anchor, clash, botched>>

(* What upsert_section does once `rest` is all that is left to delete.     *)
Delete(c, rest) ==
    /\ todo' = [todo EXCEPT ![c] = rest]
    /\ IF rest # << >> THEN Goto(c, "delete")
       ELSE IF call[c].size > 0 THEN Goto(c, "insert")
       ELSE End(c, "replaced")

(* Mutants of ReadSection: the heading is deleted with its section; the    *)
(* anchor of append_to_section is the heading.                             *)
ReadSectionAndHeading(c) ==
    /\ pc[c] = "section" /\ call[c].tool = "upsert"
    /\ LET kids == [k \in DOMAIN Section(doc, heading[c]) |-> Section(doc, heading[c])[k].id]
       IN  Delete(c, Reverse(<<heading[c]>> \o kids))
    /\ anchor' = [anchor EXCEPT ![c] = heading[c]]
    /\ UNCHANGED <<doc, next, rows, edits, call, heading, clash, botched>>

ReadSectionFirst(c) ==
    /\ pc[c] = "section" /\ call[c].tool = "append"
    /\ anchor' = [anchor EXCEPT ![c] = heading[c]]
    /\ Goto(c, "insert")
    /\ UNCHANGED <<doc, next, rows, edits, call, heading, todo, clash, botched>>

(* getChildBlocks(heading): the blocks to delete, or the block to append   *)
(* after.  They are not read again.                                        *)
ReadSection(c) ==
    /\ pc[c] = "section"
    /\ LET section == Section(doc, heading[c])
           kids    == [k \in DOMAIN section |-> section[k].id]
       IN  \/ /\ call[c].tool = "upsert"
              /\ Delete(c, Reverse(kids))
              /\ anchor' = [anchor EXCEPT ![c] = heading[c]]
           \/ /\ call[c].tool = "append"
              /\ anchor' = [anchor EXCEPT ![c] = Last(<<heading[c]>> \o kids)]
              /\ Goto(c, "insert") /\ UNCHANGED todo
    /\ UNCHANGED <<doc, next, rows, edits, call, heading, clash, botched>>

-----------------------------------------------------------------------------
(* The writes                                                              *)

Removal(c) == doc' = Without(doc, Head(todo[c])) /\ UNCHANGED next

Insertion(c) ==
    /\ anchor[c] \in Ids(doc)
    /\ doc' = InsertAfter(doc, anchor[c], Body(c, next))
    /\ next' = next + call[c].size

Creation(c) ==
    /\ doc' = doc \o <<[id |-> next, level |-> NewLevel, text |-> call[c].name]>>
                  \o Body(c, next + 1)
    /\ next' = next + 1 + call[c].size

Spared == UNCHANGED <<doc, next>>

(* One deletion.  Whether it worked or not the next one follows.           *)
DeleteBlock(c) ==
    /\ pc[c] = "delete"
    /\ \/ Removal(c) /\ UNCHANGED botched
       \/ Spared /\ botched' = botched \cup {c}
    /\ Delete(c, Tail(todo[c]))
    /\ UNCHANGED <<rows, edits, call, heading, anchor, clash>>

InsertBlock(c) ==
    /\ pc[c] = "insert"
    /\ \/ Insertion(c) /\ End(c, IF call[c].tool = "upsert" THEN "replaced" ELSE "appended")
       \/ anchor[c] \notin Ids(doc) /\ Spared /\ End(c, "failed")
    /\ UNCHANGED <<rows, edits, call, heading, todo, anchor, clash, botched>>

(* Mutant of AppendSection: `action` is the tool's name. *)
AppendSectionByName(c) ==
    /\ pc[c] = "append"
    /\ Creation(c)
    /\ End(c, call[c].tool)
    /\ UNCHANGED <<rows, edits, call, heading, todo, anchor, clash, botched>>

AppendSection(c) ==
    /\ pc[c] = "append"
    /\ Creation(c)
    /\ End(c, "created")
    /\ UNCHANGED <<rows, edits, call, heading, todo, anchor, clash, botched>>

(* A request raises or the call is cancelled there: an exception leaves    *)
(* the tool, with the request's effect or without.  What a deletion raises *)
(* is swallowed (DeleteBlock), a cancellation is not.                      *)
Fail(c) ==
    /\ Working(c)
    /\ \/ Spared
       \/ pc[c] = "delete" /\ Removal(c)
       \/ pc[c] = "insert" /\ Insertion(c)
       \/ pc[c] = "append" /\ Creation(c)
    /\ End(c, "failed")
    /\ UNCHANGED <<rows, edits, call, heading, todo, anchor, clash, botched>>

-----------------------------------------------------------------------------
(* Environment                                                             *)

Reindex ==
    /\ rows' = Headings(doc)
    /\ UNCHANGED <<doc, next, edits, pc, call, heading, todo, anchor, result, clash, botched>>

(* Another client gives a heading another text, or adds one at the end.    *)
EditElsewhere ==
    /\ edits > 0
    /\ edits' = edits - 1
    /\ \E t \in Names :
          \/ \E i \in DOMAIN doc :
                IsHeading(doc[i]) /\ doc' = [doc EXCEPT ![i].text = t] /\ UNCHANGED next
          \/ /\ doc' = Append(doc, [id |-> next, level |-> NewLevel, text |-> t])
             /\ next' = next + 1
    /\ UNCHANGED <<rows, pc, call, heading, todo, anchor, result, clash, botched>>

Init ==
    /\ InitDocument
    /\ rows \in {Headings(Doc0), {}}
    /\ heading = [c \in Calls |-> None]
    /\ todo = [c \in Calls |-> << >>]
    /\ anchor = [c \in Calls |-> None]
    /\ clash = {} /\ botched = {}

Next ==
    \/ \E c \in Calls :
          \/ Begin(c) \/ QueryHeadings(c) \/ QueryChildren(c) \/ ReadSection(c)
          \/ DeleteBlock(c) \/ InsertBlock(c) \/ AppendSection(c) \/ Fail(c)
    \/ Reindex
    \/ EditElsewhere

Spec == Init /\ [][Next]_vars

-----------------------------------------------------------------------------
(* Properties                                                              *)

Singular(d) == \A b, o \in Headings(d) : Canon[b.text] = Canon[o.text] => b = o

(* No two calls with one name have clashed.                                *)
OneByOne == \A c, d \in clash : Canon[call[c].name] = Canon[call[d].name] => c = d

(* Unless two calls on it run at once, or another client edits a heading,  *)
(* no section comes to exist twice, though the index lags and requests     *)
(* fail halfway: the next call finds what an earlier one made.             *)
(* (write.py:659: "Ask the kernel before the caller appends a duplicate    *)
(* section.")                                                              *)
NoDuplicateSection == edits = Edits /\ OneByOne /\ Singular(Doc0) => Singular(doc)

(* What may go of Doc0: the sections calls have settled on.                *)
Lost == UNION {Ids(Section(Doc0, heading[c])) : c \in {d \in Calls : heading[d] # None}}

(* Everything else in the document, the sections' own headings included,   *)
(* stays where it is and in its order, whatever fails, however calls are   *)
(* interleaved and whatever headings are edited meanwhile.                 *)
FrameIsKept ==
    LET frame == Ids(Doc0) \ Lost
    IN  /\ frame \subseteq Ids(doc)
        /\ \A i, j \in DOMAIN Doc0 :
              i < j /\ {Doc0[i].id, Doc0[j].id} \subseteq frame => Before(doc, Doc0[i].id, Doc0[j].id)

TextsOf(blocks) == [k \in DOMAIN blocks |-> blocks[k].text]
Markdown(c)     == [k \in 1..call[c].size |-> <<c, k>>]

(* c returns r now, no two calls having shared blocks while it was at      *)
(* work, no deletion of its own having failed, and no other client having  *)
(* edited a heading.                                                       *)
Reports(c, r) ==
    /\ result[c] # r /\ result'[c] = r
    /\ c \notin clash' \cup botched' /\ edits' = Edits

(* What the section of c holds when c returns: after a replacement exactly *)
(* the caller's blocks, after an append the old ones and then the caller's,*)
(* other calls rewriting the sections around it all the while.             *)
SectionIsExact ==
    [][\A c \in Calls :
        /\ Reports(c, "replaced") => TextsOf(Section(doc, heading[c])') = Markdown(c)
        /\ Reports(c, "appended") => TextsOf(Section(doc, heading[c])')
                                       = TextsOf(Section(doc, heading[c])) \o Markdown(c)
        /\ Reports(c, "created")  => \E h \in Matching(ToSet(doc'), call[c].name) :
                                       TextsOf(Section(doc', h.id)) = Markdown(c)
      ]_vars

=============================================================================
