----------------------------- MODULE ProtyleProofs ------------------------------
(***************************************************************************)
(* The converter writes the visible tags and texts of every input, of any  *)
(* length and depth, in which no empty element upsets it.                  *)
(*                                                                         *)
(* The inductive invariant is how tag_stack and skip_depth share the open  *)
(* elements between them: the stack has those outside the outermost        *)
(* skipped element, skip_depth counts that one and those within.           *)
(***************************************************************************)
EXTENDS Protyle, TLAPS

(* How a converter s and the elements o open in its input correspond.      *)
Shares(o, s) ==
    LET depth == Len(o) - s.skip_depth
    IN  /\ s.skip_depth <= Len(o)
        /\ s.tag_stack = SubSeq(o, 1, depth)
        /\ \A k \in 1..depth : o[k] \notin Skipping
        /\ s.skip_depth > 0 => o[depth + 1] \in Skipping

Nested == ~upset => Shares(open, conv)

IInv ==
    /\ TypeOK
    /\ Nested
    /\ OutputIsExact

-----------------------------------------------------------------------------
(* Operators                                                               *)

LEMMA OpeningType == \A e \in Elements \cup Empty : Opening(e) \in Seq(Marks)
BY DEF Opening, Marks

LEMMA ClosingType == \A e \in Elements \cup Empty : Closing(e) \in Seq(Marks)
BY DEF Closing, Marks

Renders(out, marks) == out = Written(marks)

(* The texts of a sequence are those of its pieces.                        *)
LEMMA WrittenConcat ==
    ASSUME NEW a \in Seq(Marks), NEW b \in Seq(Marks)
    PROVE  Written(a \o b) = Written(a) \o Written(b)
<1> DEFINE R(m) == IF m[1] = "data" THEN <<"data", Decoded(m[2])>> ELSE m
<1>0. /\ DOMAIN a = 1..Len(a)
      /\ DOMAIN b = 1..Len(b)
      /\ DOMAIN (a \o b) = 1..Len(a \o b)
  <2>1. a \o b \in Seq(Marks)
    OBVIOUS
  <2> QED
    BY <2>1
<1>1. /\ Written(a) = [k \in 1..Len(a) |-> R(a[k])]
      /\ Written(b) = [k \in 1..Len(b) |-> R(b[k])]
      /\ Written(a \o b) = [k \in 1..Len(a \o b) |-> R((a \o b)[k])]
  BY <1>0, Zenon DEF Written
<1> HIDE DEF R
<1>2. /\ Written(a) = [k \in 1..Len(a) |-> R(a[k])] /\ Len(a) \in Nat
      /\ Written(b) = [k \in 1..Len(b) |-> R(b[k])] /\ Len(b) \in Nat
      /\ Len(a \o b) = Len(a) + Len(b)
  BY <1>1
<1> DEFINE S == {R(m) : m \in Marks}
<1>3. Written(a) \in Seq(S) /\ Written(b) \in Seq(S)
  BY <1>2
<1>4. Len(Written(a)) = Len(a) /\ Len(Written(b)) = Len(b)
  BY <1>2
<1> HIDE DEF S
<1>5. Written(a) \o Written(b) = [k \in 1..Len(a) + Len(b) |->
          IF k <= Len(a) THEN Written(a)[k] ELSE Written(b)[k - Len(a)]]
  BY <1>2, <1>3, <1>4
<1>6. ASSUME NEW k \in 1..Len(a) + Len(b)
      PROVE  R((a \o b)[k]) = IF k <= Len(a) THEN Written(a)[k] ELSE Written(b)[k - Len(a)]
  BY <1>2
<1> QED
  BY <1>1, <1>2, <1>5, <1>6

(* What is open is hidden when, and only when, elements are being skipped. *)
LEMMA HiddenIff ==
    ASSUME NEW o \in Seq(Elements), NEW s \in Converters, Shares(o, s)
    PROVE  Hidden(o) <=> s.skip_depth > 0
<1>1. Len(o) \in Nat /\ s.skip_depth \in Nat /\ DOMAIN o = 1..Len(o)
  BY DEF Converters
<1> QED
  BY <1>1 DEF Shares, Hidden

-----------------------------------------------------------------------------
(* Steps                                                                   *)

LEMMA PushType ==
    ASSUME NEW s \in Converters, NEW e \in Elements \cup Empty
    PROVE  Push(s, e) \in Converters
BY OpeningType DEF Push, Converter, Converters

LEMMA StartType ==
    ASSUME NEW s \in Converters, NEW e \in Elements \cup Empty
    PROVE  HandleStart(s, e) \in Converters
BY PushType DEF HandleStart, Converter, Converters

LEMMA EndType ==
    ASSUME NEW s \in Converters
    PROVE  HandleEnd(s) \in Converters
<1>1. ASSUME s.tag_stack # << >>
      PROVE  Pop(s) \in Converters
  <2>1. Len(s.tag_stack) \in Nat \ {0} /\ s.tag_stack[Len(s.tag_stack)] \in Elements \cup Empty
    BY <1>1 DEF Converters
  <2>2. SubSeq(s.tag_stack, 1, Len(s.tag_stack) - 1) \in Seq(Elements \cup Empty)
    BY <2>1 DEF Converters
  <2> QED
    BY <2>1, <2>2, ClosingType DEF Pop, Converter, Converters
<1> QED
  BY <1>1 DEF HandleEnd, Converter, Converters

LEMMA DataType ==
    ASSUME NEW s \in Converters, NEW t \in Texts
    PROVE  HandleData(s, t) \in Converters
BY DEF Converter, Converters, HandleData, Decoded, Texts, Marks

LEMMA ShownType ==
    ASSUME TypeOK, NEW marks \in Seq(Marks), NEW where
    PROVE  Shown(marks, where) \in Seq(Marks)
BY DEF TypeOK, Shown

LEMMA TypeStep == TypeOK /\ [Next]_vars => TypeOK'
<1> SUFFICES ASSUME TypeOK, [Next]_vars PROVE TypeOK'
  OBVIOUS
<1>0. conv \in Converters /\ open \in Seq(Elements) /\ events \in Nat /\ upset \in BOOLEAN
  BY DEF TypeOK
<1>1. CASE Next
  <2>1. events' \in 0..MaxEvents
    BY <1>0, <1>1, TagsAssumption DEF Next, TypeOK
  <2>2. CASE \E e \in Elements : StartTag(e)
    <3>1. PICK e \in Elements : StartTag(e)
      BY <2>2
    <3>2. conv' \in Converters /\ clean' \in Seq(Marks) /\ open' \in Seq(Elements) /\ upset' = upset
      BY <1>0, <3>1, StartType, OpeningType, ShownType DEF StartTag
    <3> QED
      BY <1>0, <2>1, <3>2 DEF TypeOK
  <2>3. CASE EndTag
    <3>1. Len(open) \in Nat \ {0} /\ open[Len(open)] \in Elements
      BY <1>0, <2>3 DEF EndTag
    <3>2. conv' \in Converters /\ clean' \in Seq(Marks) /\ open' \in Seq(Elements) /\ upset' = upset
      BY <1>0, <2>3, <3>1, EndType, ClosingType, ShownType DEF EndTag
    <3> QED
      BY <1>0, <2>1, <3>2 DEF TypeOK
  <2>4. CASE \E e \in Empty, slash \in BOOLEAN : EmptyElement(e, slash)
    <3>1. PICK e \in Empty, slash \in BOOLEAN : EmptyElement(e, slash)
      BY <2>4
    <3>2. HandleStart(conv, e) \in Converters
      BY <1>0, StartType
    <3>3. conv' \in Converters
      BY <3>1, <3>2, EndType DEF EmptyElement
    <3>4. clean' \in Seq(Marks)
      BY <3>1, OpeningType, ShownType DEF EmptyElement
    <3>5. open' = open /\ upset' \in BOOLEAN
      BY <3>1 DEF EmptyElement
    <3> QED
      BY <1>0, <2>1, <3>3, <3>4, <3>5 DEF TypeOK
  <2>5. CASE \E t \in Texts : Data(t)
    <3>1. PICK t \in Texts : Data(t)
      BY <2>5
    <3>2. <<<<"data", t>>>> \in Seq(Marks)
      BY DEF Marks
    <3>3. conv' \in Converters /\ clean' \in Seq(Marks) /\ open' = open /\ upset' = upset
      BY <1>0, <3>1, <3>2, DataType, ShownType DEF Data
    <3> QED
      BY <1>0, <2>1, <3>3 DEF TypeOK
  <2> QED
    BY <1>1, <2>2, <2>3, <2>4, <2>5 DEF Next
<1>2. CASE UNCHANGED vars
  BY <1>2 DEF vars, TypeOK
<1> QED
  BY <1>1, <1>2

-----------------------------------------------------------------------------
(* How each step shares the open elements                                  *)

LEMMA PrefixOf ==
    ASSUME NEW S, NEW o \in Seq(S), NEW n \in 0..Len(o)
    PROVE  /\ SubSeq(o, 1, n) \in Seq(S) /\ Len(SubSeq(o, 1, n)) = n
           /\ \A k \in 1..n : SubSeq(o, 1, n)[k] = o[k]
           /\ \A m \in 0..n : SubSeq(SubSeq(o, 1, n), 1, m) = SubSeq(o, 1, m)
<1>1. /\ SubSeq(o, 1, n) \in Seq(S) /\ Len(SubSeq(o, 1, n)) = n
      /\ \A k \in 1..n : SubSeq(o, 1, n)[k] = o[k]
  OBVIOUS
<1>2. ASSUME NEW m \in 0..n
      PROVE  SubSeq(SubSeq(o, 1, n), 1, m) = SubSeq(o, 1, m)
  OBVIOUS
<1> QED
  BY <1>1, <1>2

LEMMA AppendTo ==
    ASSUME NEW S, NEW o \in Seq(S), NEW e \in S
    PROVE  /\ Append(o, e) \in Seq(S) /\ Len(Append(o, e)) = Len(o) + 1
           /\ \A k \in 1..Len(o) : Append(o, e)[k] = o[k]
           /\ Append(o, e)[Len(o) + 1] = e
           /\ \A m \in 0..Len(o) : SubSeq(Append(o, e), 1, m) = SubSeq(o, 1, m)
           /\ SubSeq(Append(o, e), 1, Len(o) + 1) = Append(o, e)
<1>1. /\ Append(o, e) \in Seq(S) /\ Len(Append(o, e)) = Len(o) + 1
      /\ \A k \in 1..Len(o) : Append(o, e)[k] = o[k]
      /\ Append(o, e)[Len(o) + 1] = e
  OBVIOUS
<1>2. ASSUME NEW m \in 0..Len(o)
      PROVE  SubSeq(Append(o, e), 1, m) = SubSeq(o, 1, m)
  OBVIOUS
<1>3. SubSeq(Append(o, e), 1, Len(o) + 1) = Append(o, e)
  OBVIOUS
<1> QED
  BY <1>1, <1>2, <1>3

LEMMA StartShares ==
    ASSUME NEW o \in Seq(Elements), NEW s \in Converters, Shares(o, s), NEW e \in Elements
    PROVE  /\ Shares(Append(o, e), HandleStart(s, e))
           /\ HandleStart(s, e).out = IF Hidden(Append(o, e)) THEN s.out ELSE s.out \o Opening(e)
<1> DEFINE r == HandleStart(s, e)
           p == Append(o, e)
<1>1. /\ Len(o) \in Nat /\ s.skip_depth \in Nat /\ s.skip_depth <= Len(o)
      /\ s.tag_stack = SubSeq(o, 1, Len(o) - s.skip_depth)
      /\ \A k \in 1..Len(o) - s.skip_depth : o[k] \notin Skipping
      /\ s.skip_depth > 0 => o[Len(o) - s.skip_depth + 1] \in Skipping
  BY DEF Converters, Shares
<1>2. /\ p \in Seq(Elements) /\ Len(p) = Len(o) + 1 /\ p[Len(o) + 1] = e
      /\ \A k \in 1..Len(o) : p[k] = o[k]
      /\ \A m \in 0..Len(o) : SubSeq(p, 1, m) = SubSeq(o, 1, m)
      /\ SubSeq(p, 1, Len(o) + 1) = p
  BY AppendTo
<1>3. r \in Converters
  BY StartType
<1>4. Shares(p, r) => (Hidden(p) <=> r.skip_depth > 0)
  BY <1>2, <1>3, HiddenIff
<1>5. CASE e \in Skipping \/ s.skip_depth > 0
  <2>1. r.skip_depth = s.skip_depth + 1 /\ r.tag_stack = s.tag_stack /\ r.out = s.out
    BY <1>5 DEF HandleStart, Converter
  <2> HIDE DEF r, p
  <2>4. Len(p) - r.skip_depth = Len(o) - s.skip_depth /\ Len(o) - s.skip_depth \in 0..Len(o)
    <3>1. /\ Len(o) \in Nat /\ s.skip_depth \in Nat /\ s.skip_depth <= Len(o)
          /\ Len(p) = Len(o) + 1 /\ r.skip_depth = s.skip_depth + 1
      BY <1>1, <1>2, <2>1
    <3> QED
      BY ONLY <3>1
  <2>5. r.skip_depth <= Len(p) /\ r.tag_stack = SubSeq(p, 1, Len(p) - r.skip_depth)
    BY <1>1, <1>2, <2>1, <2>4
  <2>6. \A k \in 1..Len(p) - r.skip_depth : p[k] \notin Skipping
    BY <1>1, <1>2, <2>4
  <2>7. p[Len(p) - r.skip_depth + 1] \in Skipping
    BY <1>1, <1>2, <1>5, <2>4
  <2>2. Shares(p, r)
    BY <2>5, <2>6, <2>7 DEF Shares
  <2>3. r.out = IF Hidden(p) THEN s.out ELSE s.out \o Opening(e)
    BY <1>1, <1>4, <2>1, <2>2
  <2> QED
    BY <2>2, <2>3 DEF r, p
<1>6. CASE e \notin Skipping /\ s.skip_depth = 0
  <2>1. e # "image"
    BY TagsAssumption DEF Elements, Empty, Skipping
  <2>2. /\ r.skip_depth = 0 /\ r.tag_stack = Append(s.tag_stack, e)
        /\ r.out = s.out \o Opening(e)
    BY <1>6, <2>1 DEF HandleStart, Push, Converter
  <2>3. r.tag_stack = p
    BY <1>1, <1>6, <2>2
  <2> HIDE DEF r, p
  <2>4. Shares(p, r)
    BY <1>1, <1>2, <1>6, <2>2, <2>3 DEF Shares
  <2>5. r.out = IF Hidden(p) THEN s.out ELSE s.out \o Opening(e)
    BY <1>4, <2>2, <2>4
  <2> QED
    BY <2>4, <2>5 DEF r, p
<1> QED
  BY <1>1, <1>5, <1>6

LEMMA EndShares ==
    ASSUME NEW o \in Seq(Elements), NEW s \in Converters, Shares(o, s), o # << >>
    PROVE  /\ Shares(SubSeq(o, 1, Len(o) - 1), HandleEnd(s))
           /\ HandleEnd(s).out = IF Hidden(o) THEN s.out ELSE s.out \o Closing(o[Len(o)])
<1> DEFINE r == HandleEnd(s)
           p == SubSeq(o, 1, Len(o) - 1)
<1>1. /\ Len(o) \in Nat \ {0} /\ s.skip_depth \in Nat /\ s.skip_depth <= Len(o)
      /\ s.tag_stack = SubSeq(o, 1, Len(o) - s.skip_depth)
      /\ \A k \in 1..Len(o) - s.skip_depth : o[k] \notin Skipping
      /\ s.skip_depth > 0 => o[Len(o) - s.skip_depth + 1] \in Skipping
  BY DEF Converters, Shares
<1>2. /\ p \in Seq(Elements) /\ Len(p) = Len(o) - 1
      /\ \A k \in 1..Len(o) - 1 : p[k] = o[k]
      /\ \A m \in 0..Len(o) - 1 : SubSeq(p, 1, m) = SubSeq(o, 1, m)
  <2>1. Len(o) - 1 \in 0..Len(o)
    BY <1>1
  <2> QED
    BY <1>1, <2>1, PrefixOf
<1>3. Hidden(o) <=> s.skip_depth > 0
  BY HiddenIff
<1>4. CASE s.skip_depth > 0
  <2>1. r.skip_depth = s.skip_depth - 1 /\ r.tag_stack = s.tag_stack /\ r.out = s.out
    BY <1>4 DEF HandleEnd, Converter
  <2> HIDE DEF r, p
  <2>4. Len(p) - r.skip_depth = Len(o) - s.skip_depth /\ Len(o) - s.skip_depth \in 0..Len(o) - 1
    BY <1>1, <1>2, <1>4, <2>1
  <2>5. r.skip_depth <= Len(p) /\ r.tag_stack = SubSeq(p, 1, Len(p) - r.skip_depth)
    BY <1>1, <1>2, <1>4, <2>1, <2>4
  <2>6. \A k \in 1..Len(p) - r.skip_depth : p[k] \notin Skipping
    BY <1>1, <1>2, <2>4
  <2>7. r.skip_depth > 0 => p[Len(p) - r.skip_depth + 1] \in Skipping
    BY <1>1, <1>2, <1>4, <2>1, <2>4
  <2>2. Shares(p, r)
    BY <2>5, <2>6, <2>7 DEF Shares
  <2> QED
    BY <1>3, <1>4, <2>1, <2>2 DEF r, p
<1>5. CASE s.skip_depth = 0
  <2>1. s.tag_stack = o
    BY <1>1, <1>5
  <2>2. r = Converter(s.out \o Closing(o[Len(o)]), 0, p)
    BY <1>5, <2>1 DEF HandleEnd, Pop
  <2> HIDE DEF r, p
  <2>3. r.skip_depth = 0 /\ r.tag_stack = p /\ r.out = s.out \o Closing(o[Len(o)])
    BY <2>2 DEF Converter
  <2>4. SubSeq(p, 1, Len(p)) = p
    BY <1>2
  <2>5. Shares(p, r)
    BY <1>1, <1>2, <1>5, <2>3, <2>4 DEF Shares
  <2>6. ~Hidden(o)
    BY <1>3, <1>5
  <2> QED
    BY <2>3, <2>5, <2>6 DEF r, p
<1> QED
  BY <1>1, <1>4, <1>5

(* An element without contents that does not upset the converter leaves it *)
(* as it was, but for what the element itself shows.                       *)
LEMMA EmptyShares ==
    ASSUME NEW o \in Seq(Elements), NEW s \in Converters, Shares(o, s),
           NEW e \in Empty, NEW slash \in BOOLEAN,
           ~(slash <=> e = "image" /\ ~Hidden(o)),
           NEW t, t = IF slash THEN HandleEnd(HandleStart(s, e)) ELSE HandleStart(s, e)
    PROVE  /\ Shares(o, t)
           /\ t.out = IF Hidden(o) THEN s.out ELSE s.out \o Opening(e)
<1>1. Hidden(o) <=> s.skip_depth > 0
  BY HiddenIff
<1>2. s.skip_depth \in Nat /\ s.out \in Seq(Marks) /\ s.tag_stack \in Seq(Elements \cup Empty)
  BY DEF Converters
<1>3. e \notin Skipping /\ e \in {"image", "void"}
  BY DEF Empty, Skipping
<1>4. CASE Hidden(o)
  <2>1. HandleStart(s, e) = Converter(s.out, s.skip_depth + 1, s.tag_stack)
    BY <1>1, <1>4 DEF HandleStart
  <2>2. t = Converter(s.out, s.skip_depth, s.tag_stack)
    BY <1>2, <1>4, <2>1 DEF HandleEnd, Converter
  <2> QED
    BY <1>4, <2>2 DEF Shares, Converter
<1>5. CASE ~Hidden(o) /\ e = "image"
  <2>1. t = Converter(s.out \o Opening(e), 0, s.tag_stack)
    BY <1>1, <1>2, <1>3, <1>5 DEF HandleStart, Push
  <2>2. /\ t.out = s.out \o Opening(e)
        /\ t.skip_depth = s.skip_depth
        /\ t.tag_stack = s.tag_stack
    BY <1>1, <1>2, <1>5, <2>1 DEF Converter
  <2>3. Shares(o, t)
    BY <2>2 DEF Shares
  <2> QED
    BY <1>5, <2>2, <2>3
<1>6. CASE ~Hidden(o) /\ e = "void"
  <2>1. Opening(e) = << >> /\ Closing(e) = << >>
    BY <1>6 DEF Opening, Closing, Silent
  <2>2. HandleStart(s, e) = Converter(s.out, 0, Append(s.tag_stack, e))
    <3>1. HandleStart(s, e) = Push(s, e)
      BY <1>1, <1>2, <1>3, <1>6 DEF HandleStart
    <3>2. Push(s, e) = Converter(s.out \o Opening(e), 0, Append(s.tag_stack, e))
      BY <1>6 DEF Push
    <3>3. s.out \o Opening(e) = s.out
      BY <1>2, <2>1
    <3> QED
      BY <3>1, <3>2, <3>3
  <2>3. /\ Append(s.tag_stack, e) # << >>
        /\ Len(Append(s.tag_stack, e)) = Len(s.tag_stack) + 1
        /\ Append(s.tag_stack, e)[Len(s.tag_stack) + 1] = e
        /\ SubSeq(Append(s.tag_stack, e), 1, Len(s.tag_stack)) = s.tag_stack
    BY <1>2
  <2> DEFINE u == HandleStart(s, e)
  <2>4. u.out = s.out /\ u.skip_depth = 0 /\ u.tag_stack = Append(s.tag_stack, e)
    BY <2>2 DEF Converter
  <2>5. HandleEnd(u) = Pop(u)
    BY <2>3, <2>4 DEF HandleEnd
  <2>6. Len(u.tag_stack) = Len(s.tag_stack) + 1 /\ Len(s.tag_stack) + 1 - 1 = Len(s.tag_stack)
    BY <1>2, <2>3, <2>4
  <2> HIDE DEF u
  <2>7. Pop(u) = Converter(s.out \o << >>, 0, s.tag_stack)
    <3>1. u.tag_stack[Len(u.tag_stack)] = e
      BY <2>3, <2>4, <2>6
    <3>2. SubSeq(u.tag_stack, 1, Len(u.tag_stack) - 1) = s.tag_stack
      BY <2>3, <2>4, <2>6
    <3> QED
      BY <2>1, <2>4, <3>1, <3>2 DEF Pop
  <2>8. s.out \o << >> = s.out
    BY <1>2
  <2>9. t = Converter(s.out, 0, s.tag_stack)
    BY <1>6, <2>5, <2>7, <2>8 DEF u
  <2> QED
    BY <1>1, <1>2, <1>6, <2>1, <2>8, <2>9 DEF Shares, Converter
<1> QED
  BY <1>3, <1>4, <1>5, <1>6

-----------------------------------------------------------------------------
(* The invariant                                                           *)

(* What is written to the output and should be is the same still.          *)
LEMMA Extend ==
    ASSUME NEW a \in Seq(Marks), NEW b \in Seq(Marks), Renders(a, b),
           NEW m \in Seq(Marks), NEW n \in Seq(Marks), Renders(m, n)
    PROVE  Renders(a \o m, b \o n)
BY WrittenConcat, Zenon DEF Renders

(* Tags are written as they are, texts as they were decoded.               *)
LEMMA TagMark ==
    ASSUME NEW e \in Elements \cup Empty
    PROVE  Renders(Opening(e), Opening(e)) /\ Renders(Closing(e), Closing(e))
<1>1. \A m \in Marks : m[1] # "data" => Written(<<m>>) = <<m>>
  BY DEF Written
<1>2. Written(<< >>) = << >>
  BY DEF Written
<1>3. <<"open", e>> \in Marks /\ <<"close", e>> \in Marks
  BY DEF Marks
<1> QED
  BY <1>1, <1>2, <1>3 DEF Opening, Closing, Renders

LEMMA DataMark ==
    ASSUME NEW t \in Texts
    PROVE  /\ <<<<"data", t>>>> \in Seq(Marks) /\ <<<<"data", Decoded(t)>>>> \in Seq(Marks)
           /\ Renders(<<<<"data", Decoded(t)>>>>, <<<<"data", t>>>>)
<1>1. <<"data", t>> \in Marks /\ <<"data", Decoded(t)>> \in Marks
  BY DEF Marks, Decoded
<1>2. \A m \in Marks : m[1] = "data" => Written(<<m>>) = <<<<"data", Decoded(m[2])>>>>
  BY DEF Written
<1> QED
  BY <1>1, <1>2 DEF Renders

LEMMA InvStep == IInv /\ [Next]_vars => IInv'
<1> SUFFICES ASSUME IInv, [Next]_vars PROVE IInv'
  OBVIOUS
<1>1. TypeOK'
  BY TypeStep DEF IInv
<1>2. /\ conv \in Converters /\ open \in Seq(Elements) /\ upset \in BOOLEAN
      /\ conv.out \in Seq(Marks) /\ clean \in Seq(Marks)
  BY DEF IInv, TypeOK, Converters
<1>3. ~upset => Shares(open, conv) /\ Renders(conv.out, clean)
  BY DEF IInv, Nested, OutputIsExact, Renders
<1>4. ASSUME ~upset'
      PROVE  Shares(open', conv') /\ Renders(conv'.out, clean')
  <2>1. CASE UNCHANGED vars
    BY <1>3, <1>4, <2>1 DEF vars
  <2>2. ASSUME NEW e \in Elements, StartTag(e)
        PROVE  Shares(open', conv') /\ Renders(conv'.out, clean')
    <3>1. Shares(open, conv) /\ Renders(conv.out, clean)
      BY <1>3, <1>4, <2>2 DEF StartTag
    <3>2. /\ Shares(open', conv')
          /\ conv'.out = IF Hidden(open') THEN conv.out ELSE conv.out \o Opening(e)
          /\ clean' = IF Hidden(open') THEN clean ELSE clean \o Opening(e)
      BY <1>2, <2>2, <3>1, StartShares DEF StartTag, Shown
    <3>3. Renders(conv.out \o Opening(e), clean \o Opening(e))
      BY <1>2, <3>1, Extend, OpeningType, TagMark
    <3> QED
      BY <3>1, <3>2, <3>3
  <2>3. ASSUME EndTag
        PROVE  Shares(open', conv') /\ Renders(conv'.out, clean')
    <3>1. Shares(open, conv) /\ Renders(conv.out, clean)
      BY <1>3, <1>4, <2>3 DEF EndTag
    <3> DEFINE e == open[Len(open)]
    <3>2. e \in Elements
      BY <1>2, <2>3 DEF EndTag
    <3>3. /\ Shares(open', conv')
          /\ conv'.out = IF Hidden(open) THEN conv.out ELSE conv.out \o Closing(e)
          /\ clean' = IF Hidden(open) THEN clean ELSE clean \o Closing(e)
      BY <1>2, <2>3, <3>1, EndShares DEF EndTag, Shown
    <3>4. Renders(conv.out \o Closing(e), clean \o Closing(e))
      BY <1>2, <3>1, <3>2, Extend, ClosingType, TagMark
    <3> QED
      BY <3>1, <3>3, <3>4
  <2>4. ASSUME NEW e \in Empty, NEW slash \in BOOLEAN, EmptyElement(e, slash)
        PROVE  Shares(open', conv') /\ Renders(conv'.out, clean')
    <3>1. /\ ~upset /\ ~(slash <=> e = "image" /\ ~Hidden(open))
          /\ Shares(open, conv) /\ Renders(conv.out, clean)
      BY <1>2, <1>3, <1>4, <2>4 DEF EmptyElement
    <3>2. /\ Shares(open, conv')
          /\ conv'.out = IF Hidden(open) THEN conv.out ELSE conv.out \o Opening(e)
      BY <1>2, <2>4, <3>1, EmptyShares DEF EmptyElement
    <3>3. /\ open' = open
          /\ clean' = IF Hidden(open) THEN clean ELSE clean \o Opening(e)
      BY <2>4 DEF EmptyElement, Shown
    <3>4. Renders(conv.out \o Opening(e), clean \o Opening(e))
      BY <1>2, <3>1, Extend, OpeningType, TagMark
    <3> QED
      BY <3>1, <3>2, <3>3, <3>4
  <2>5. ASSUME NEW t \in Texts, Data(t)
        PROVE  Shares(open', conv') /\ Renders(conv'.out, clean')
    <3>1. Shares(open, conv) /\ Renders(conv.out, clean)
      BY <1>3, <1>4, <2>5 DEF Data
    <3>2. Hidden(open) <=> conv.skip_depth > 0
      BY <1>2, <3>1, HiddenIff
    <3>3. CASE Hidden(open)
      BY <2>5, <3>1, <3>2, <3>3 DEF Data, Shown, HandleData
    <3>4. CASE ~Hidden(open)
      <4>1. /\ conv.skip_depth = 0 /\ open' = open
            /\ clean' = clean \o <<<<"data", t>>>>
            /\ conv' = Converter(conv.out \o <<<<"data", Decoded(t)>>>>, 0, conv.tag_stack)
        BY <1>2, <2>5, <3>2, <3>4 DEF Data, Shown, HandleData, Converters
      <4>3. conv'.skip_depth = conv.skip_depth /\ conv'.tag_stack = conv.tag_stack
        BY <4>1 DEF Converter
      <4>4. Shares(open', conv')
        BY <3>1, <4>1, <4>3 DEF Shares
      <4>5. conv'.out = conv.out \o <<<<"data", Decoded(t)>>>>
        BY <4>1 DEF Converter
      <4> DEFINE m == <<<<"data", Decoded(t)>>>>
                 n == <<<<"data", t>>>>
      <4>6. m \in Seq(Marks) /\ n \in Seq(Marks) /\ Renders(m, n)
        BY DataMark
      <4> HIDE DEF m, n
      <4>7. Renders(conv.out \o m, clean \o n)
        BY <1>2, <3>1, <4>6, Extend
      <4> QED
        BY <4>1, <4>4, <4>5, <4>7 DEF m, n
    <3> QED
      BY <3>3, <3>4
  <2> QED
    BY <2>1, <2>2, <2>3, <2>4, <2>5 DEF Next
<1> QED
  BY <1>1, <1>4 DEF IInv, Nested, OutputIsExact, Renders

LEMMA InvInit == Init => IInv
<1> SUFFICES ASSUME Init PROVE IInv
  OBVIOUS
<1>1. /\ conv.out = << >> /\ conv.skip_depth = 0 /\ conv.tag_stack = << >>
      /\ open = << >> /\ clean = << >> /\ events = 0 /\ upset = FALSE
  BY DEF Init, Converter
<1>2. conv \in Converters
  BY DEF Init, Converter, Converters
<1>3. TypeOK
  <2>1. events \in 0..MaxEvents
    BY <1>1, TagsAssumption
  <2>3. upset \in BOOLEAN
    BY <1>1, Zenon
  <2>2. open \in Seq(Elements) /\ clean \in Seq(Marks)
    BY <1>1
  <2> QED
    BY <1>2, <2>1, <2>2, <2>3 DEF TypeOK
<1>4. Shares(open, conv)
  BY <1>1 DEF Shares
<1>5. OutputIsExact
  <2>1. conv.out = << >> /\ clean = << >>
    BY <1>1
  <2>2. Written(<< >>) = << >>
    BY DEF Written
  <2> QED
    BY <2>1, <2>2 DEF OutputIsExact
<1> QED
  BY <1>3, <1>4, <1>5 DEF IInv, Nested

(* Nothing the converter is fed takes skip_depth below zero or puts a tag  *)
(* on the stack that it does not know.                                     *)
THEOREM TypeCorrect == Spec => []TypeOK
<1>1. Init => TypeOK
  BY InvInit DEF IInv
<1> QED
  BY <1>1, TypeStep, PTL DEF Spec

(* In inputs of every length and depth by which no empty element upsets the*)
(* stack, the output is the visible tags and texts in their order, the     *)
(* texts as the parser decoded them, and nothing of the chrome.            *)
THEOREM Exact == Spec => []OutputIsExact
<1>1. IInv => OutputIsExact
  BY DEF IInv
<1> QED
  BY <1>1, InvInit, InvStep, PTL DEF Spec

=============================================================================
