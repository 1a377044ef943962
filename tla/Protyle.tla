-------------------------------- MODULE Protyle ---------------------------------
(***************************************************************************)
(* ProtyleConverter of mcp_siyuan/tools/export.py: a stack machine that    *)
(* turns the kernel's editor HTML, event by event, into the HTML of the    *)
(* exported PDF.  The input is any document whose elements nest, one tag,  *)
(* text or empty element at a time.                                        *)
(*                                                                         *)
(* An element is the branch of handle_starttag it takes; every branch that *)
(* writes a tag of its own is a member of Tags.                            *)
(***************************************************************************)
EXTENDS Integers, Sequences

CONSTANTS
    Tags,       \* what visible elements become: p, li, strong, code-block...
    MaxEvents   \* bound: events of the input

(* Editor chrome and links to the outline are left out with their contents;*)
(* a wrapper only passes its contents on; an hr has no end tag.            *)
Skipping == {"chrome", "outline"}
Silent   == {"wrapper", "void"}
Elements == Skipping \cup {"wrapper", "hr"} \cup Tags
(* Elements without contents, and mostly without an end tag: img and br,   *)
(* and those handle_starttag does not know (input, col, ...).              *)
Empty    == {"image", "void"}
Texts    == {"text", "reference"}

ASSUME TagsAssumption ==
    /\ Tags \cap ({"wrapper", "hr"} \cup Skipping \cup Empty) = {}
    /\ MaxEvents \in Nat

VARIABLES
    open,       \* the elements open in the input
    events,     \* events of the input so far
    conv,       \* the converter: out, skip_depth, tag_stack
    (* History, read by properties only. *)
    clean,      \* what the output should be
    upset       \* an empty element left skip_depth or tag_stack wrong

vars == <<open, events, conv, clean, upset>>

Marks == ({"open", "close"} \X (Elements \cup Empty)) \cup ({"data"} \X (Texts \cup {"markup"}))

Converters == [out : Seq(Marks), skip_depth : Nat, tag_stack : Seq(Elements \cup Empty)]

TypeOK ==
    /\ open \in Seq(Elements) /\ events \in 0..MaxEvents
    /\ conv \in Converters
    /\ clean \in Seq(Marks) /\ upset \in BOOLEAN

-----------------------------------------------------------------------------
(* The converter                                                           *)

Opening(e) == IF e \in Silent THEN << >> ELSE <<<<"open", e>>>>
Closing(e) == IF e \in Silent \cup {"hr"} THEN << >> ELSE <<<<"close", e>>>>

Converter(out, depth, stack) == [out |-> out, skip_depth |-> depth, tag_stack |-> stack]

(* An image is not pushed: it is written with its end.                     *)
Push(s, e) ==
    Converter(s.out \o Opening(e), 0, IF e = "image" THEN s.tag_stack ELSE Append(s.tag_stack, e))

(* Mutant of HandleStart: inside chrome, start tags are passed over. *)
HandleStartUncounted(s, e) ==
    IF s.skip_depth > 0 THEN s
    ELSE IF e \in Skipping THEN Converter(s.out, 1, s.tag_stack)
    ELSE Push(s, e)

HandleStart(s, e) ==
    IF e \in Skipping \/ s.skip_depth > 0 THEN Converter(s.out, s.skip_depth + 1, s.tag_stack)
    ELSE Push(s, e)

Pop(s) ==
    LET last == s.tag_stack[Len(s.tag_stack)]
    IN  Converter(s.out \o Closing(last), 0, SubSeq(s.tag_stack, 1, Len(s.tag_stack) - 1))

(* An end tag closes the innermost element, whatever its name.             *)
HandleEnd(s) ==
    IF s.skip_depth > 0 THEN Converter(s.out, s.skip_depth - 1, s.tag_stack)
    ELSE IF s.tag_stack = << >> THEN s
    ELSE Pop(s)

(* HTMLParser has decoded character references (convert_charrefs), and     *)
(* what they stood for is written as it is.                                *)
Decoded(t) == IF t = "reference" THEN "markup" ELSE t

HandleData(s, t) ==
    IF s.skip_depth > 0 THEN s
    ELSE Converter(s.out \o <<<<"data", Decoded(t)>>>>, 0, s.tag_stack)

-----------------------------------------------------------------------------
(* The input, and what should come of it                                   *)

Hidden(elements) == \E k \in DOMAIN elements : elements[k] \in Skipping

Shown(marks, where) == IF Hidden(where) THEN clean ELSE clean \o marks

StartTag(e) ==
    /\ open' = Append(open, e)
    /\ conv' = HandleStart(conv, e)
    /\ clean' = Shown(Opening(e), open')
    /\ UNCHANGED upset

EndTag ==
    /\ open # << >>
    /\ open' = SubSeq(open, 1, Len(open) - 1)
    /\ conv' = HandleEnd(conv)
    /\ clean' = Shown(Closing(open[Len(open)]), open)
    /\ UNCHANGED upset

(* <img ...> is a start tag to the parser, <img .../> a start and an end.  *)
(* upset: the one leaves skip_depth or tag_stack too deep, the other pops  *)
(* the element around it.                                                  *)
EmptyElement(e, slash) ==
    /\ conv' = IF slash THEN HandleEnd(HandleStart(conv, e)) ELSE HandleStart(conv, e)
    /\ clean' = Shown(Opening(e), open)
    /\ upset' = (upset \/ (slash <=> e = "image" /\ ~Hidden(open)))
    /\ UNCHANGED open

Data(t) ==
    /\ conv' = HandleData(conv, t)
    /\ clean' = Shown(<<<<"data", t>>>>, open)
    /\ UNCHANGED <<open, upset>>

Init ==
    /\ open = << >> /\ events = 0
    /\ conv = Converter(<< >>, 0, << >>)
    /\ clean = << >> /\ upset = FALSE

Next ==
    /\ events < MaxEvents /\ events' = events + 1
    /\ \/ \E e \in Elements : StartTag(e)
       \/ EndTag
       \/ \E e \in Empty, slash \in BOOLEAN : EmptyElement(e, slash)
       \/ \E t \in Texts : Data(t)

Spec == Init /\ [][Next]_vars

-----------------------------------------------------------------------------
(* Properties                                                              *)

Written(marks) ==
    [k \in DOMAIN marks |-> IF marks[k][1] = "data" THEN <<"data", Decoded(marks[k][2])>> ELSE marks[k]]

(* The output has the tags of the visible elements, all of them, in their  *)
(* order and properly nested, each text among them as the parser decoded   *)
(* it, and nothing of what is in the chrome, however deep it nests; as long*)
(* as no empty element has upset the stack: inputs with an image in chrome,*)
(* <br/> or <img/> outside, or an unknown element without end tag are not  *)
(* spoken of.                                                              *)
OutputIsExact == ~upset => conv.out = Written(clean)

=============================================================================
