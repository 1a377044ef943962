---------------------------- MODULE DocumentsProofs -----------------------------
(***************************************************************************)
(* Proofs about Documents, for any number of calls, folders, notebooks,    *)
(* titles and documents, batches of any length, and any removals.          *)
(***************************************************************************)
EXTENDS Documents, SequenceTheorems, FiniteSetTheorems, TLAPS

Args == ArgsOn(Nat)

(* The reports so far, each at its place, fit what was done.               *)
Tallies(c) ==
    /\ \A e \in wrote[c] : e[2] \in 1..Len(reports[c])
    /\ \A k \in 1..Len(reports[c]) \ lost[c] :
          reports[c][k] = "ok" <=> \E e \in wrote[c] : e[2] = k

Unreported(c) == reports[c] = << >> /\ lost[c] = {}

(* What a call's next request says of its arguments and its writes.        *)
Shape(c) ==
    /\ pc[c] # "idle" => call[c] \in Args
    /\ pc[c] # "done" => result[c] = "none"
    /\ pc[c] \in {"idle", "lookup", "create", "update", "move", "rename", "notebooks", "daily"}
         => wrote[c] = {} /\ Unreported(c)
    /\ pc[c] \in {"lookup", "update"} => call[c].tool = "get_or_create_doc"
    /\ pc[c] = "create" => call[c].tool \in {"create_document", "get_or_create_doc"}
    /\ pc[c] \in {"move", "title"} => call[c].tool = "move_doc"
    /\ pc[c] = "title" => wrote[c] = {<<"move", 1>>} /\ call[c].title # None
    /\ pc[c] = "rename" => call[c].tool = "rename_doc"
    /\ pc[c] \in {"notebooks", "daily"} => call[c].tool \in {"daily_note", "capture_task"}
    /\ pc[c] = "daily" => call[c].notebook # None
    /\ pc[c] = "append" => call[c].tool = "capture_task" /\ wrote[c] \subseteq {<<"create", 1>>}
    /\ pc[c] = "item" => /\ call[c].tool \in {"bulk_create_documents", "bulk_set_attrs"}
                         /\ Len(reports[c]) < Len(Items(c))
                         /\ Tallies(c)

IInv ==
    /\ TypeOK
    /\ call \in [Calls -> Args \cup {None}]
    /\ \A c \in Calls : Shape(c)
    /\ ReportIsExact

(* The part of the state that calls share.                                 *)
KernelOK ==
    /\ docs \subseteq Doc /\ \A d, e \in docs : d.id = e.id => d = e
    /\ next \in Nat /\ \A i \in IdsOf(docs) : i < next

-----------------------------------------------------------------------------
(* Arguments                                                               *)

LEMMA ArgsGrow == ASSUME NEW ids \in SUBSET Nat PROVE ArgsOn(ids) \subseteq Args
BY DEF Args, ArgsOn, Batch

LEMMA ArgsOfTool ==
    ASSUME NEW a \in Args
    PROVE  /\ a.tool \in Tools
           /\ a.tool \in {"create_document", "get_or_create_doc"} => a.path \in Wanted
           /\ a.tool = "move_doc" => a.to \in Folders /\ a.title \in Titles \cup {None}
           /\ a.tool = "rename_doc" => a.title \in Titles
           /\ a.tool = "bulk_create_documents" => a.paths \in Batch(Wanted)
           /\ a.tool = "bulk_set_attrs" => a.blocks \in Batch(Nat)
           /\ a.tool \in {"daily_note", "capture_task"}
                => a \in [tool : {"daily_note", "capture_task"}, notebook : Notebooks \cup {None}]
BY DEF Args, ArgsOn, Tools

LEMMA BatchIsSeq ==
    ASSUME NEW S, NEW items \in Batch(S)
    PROVE  /\ items \in Seq(S \cup {None})
           /\ Len(items) \in 0..MaxItems /\ DOMAIN items = 1..Len(items)
<1>1. CASE items = << >>
  BY <1>1, BoundAssumption
<1>2. CASE items \in [1..MaxItems -> S \cup {None}]
  <2>1. items \in Seq(S \cup {None})
    BY <1>2, BoundAssumption, SeqDef
  <2>2. DOMAIN items = 1..MaxItems /\ DOMAIN items = 1..Len(items) /\ Len(items) \in Nat
    BY <1>2, <2>1, LenProperties
  <2> QED
    BY <2>1, <2>2, BoundAssumption
<1> QED
  BY <1>1, <1>2 DEF Batch

LEMMA InitIInv == Init => IInv
<1> SUFFICES ASSUME Init PROVE IInv
  OBVIOUS
<1>1. Cardinality(Docs0) \in Nat
  BY DocsAssumption, FS_CardinalityType
<1>2. docs = Docs0 /\ next = Cardinality(Docs0) + 1 /\ rows = RowsOf(Docs0)
  BY DEF Init
<1>3. KernelOK
  BY <1>1, <1>2, DocsAssumption DEF KernelOK, IdsOf
<1>4. rows \subseteq Nat \X Paths
  BY <1>2, DocsAssumption DEF RowsOf, Doc
<1>5. TypeOK
  BY <1>3, <1>4, BoundAssumption DEF Init, TypeOK, KernelOK, Results
<1>6. \A c \in Calls : Shape(c) /\ Exact(c)
  BY DEF Init, Shape, Unreported, Exact
<1> QED
  BY <1>5, <1>6 DEF IInv, Init, ReportIsExact

-----------------------------------------------------------------------------
(* The kernel                                                              *)

(* What the request at hand is for.                                        *)
Verb(c) ==
    CASE pc[c] \in {"create", "daily"} -> "create"
      [] pc[c] \in {"title", "rename"} -> "rename"
      [] pc[c] = "item" -> IF call[c].tool = "bulk_set_attrs" THEN "attrs" ELSE "create"
      [] pc[c] \in {"update", "move", "append"} -> pc[c]
Place(c) == IF pc[c] = "item" THEN Item(c) ELSE 1

LEMMA CreatesEffect ==
    ASSUME KernelOK, NEW c \in Calls, NEW path \in Paths, NEW place, Creates(c, path, place)
    PROVE  KernelOK' /\ wrote' = [wrote EXCEPT ![c] = @ \cup {<<"create", place>>}]
<1> DEFINE new == [id |-> next, path |-> path, body |-> c]
<1>1. docs' = docs \cup {new} /\ next' = next + 1
  BY DEF Creates
<1>2. new \in Doc /\ new.id = next /\ next \in Nat
  BY DEF KernelOK, Doc
<1>3. \A d \in docs : d.id < next /\ d.id \in Nat
  BY DEF KernelOK, IdsOf, Doc
<1> HIDE DEF new
<1>4. KernelOK'
  BY <1>1, <1>2, <1>3 DEF KernelOK, IdsOf
<1> QED
  BY <1>4 DEF Creates, Wrote

LEMMA ChangesEffect ==
    ASSUME KernelOK, NEW c \in Calls, NEW ids, NEW f, NEW effect, Changes(c, ids, f, effect),
           \A d \in docs : f[d] \in Doc /\ f[d].id = d.id
    PROVE  KernelOK' /\ wrote' = [wrote EXCEPT ![c] = @ \cup {effect}]
<1> DEFINE g(d) == IF d.id \in ids THEN f[d] ELSE d
<1>1. docs' = {g(d) : d \in docs} /\ next' = next
  BY DEF Changes
<1>2. \A d \in docs : g(d) \in Doc /\ g(d).id = d.id
  BY DEF KernelOK
<1> HIDE DEF g
<1>3. KernelOK'
  BY <1>1, <1>2 DEF KernelOK, IdsOf
<1> QED
  BY <1>3 DEF Changes, Wrote

LEMMA PathChanges ==
    ASSUME NEW d \in Doc, NEW f \in Folders, NEW t \in Titles
    PROVE  /\ [d EXCEPT !.path[1] = f] \in Doc /\ [d EXCEPT !.path[1] = f].id = d.id
           /\ [d EXCEPT !.path[2] = t] \in Doc /\ [d EXCEPT !.path[2] = t].id = d.id
<1>1. PICK g \in Folders, u \in Titles : d.path = <<g, u>>
  BY DEF Doc, Paths
<1>2. [d.path EXCEPT ![1] = f] = <<f, u>> /\ [d.path EXCEPT ![2] = t] = <<g, t>>
  BY <1>1
<1>3. /\ [d EXCEPT !.path[1] = f] = [d EXCEPT !.path = [d.path EXCEPT ![1] = f]]
      /\ [d EXCEPT !.path[2] = t] = [d EXCEPT !.path = [d.path EXCEPT ![2] = t]]
  BY DEF Doc
<1>4. ASSUME NEW p \in Paths PROVE [d EXCEPT !.path = p] \in Doc /\ [d EXCEPT !.path = p].id = d.id
  BY DEF Doc
<1> QED
  BY <1>1, <1>2, <1>3, <1>4 DEF Paths

LEMMA AppliesEffect ==
    ASSUME IInv, NEW c \in Calls, Applies(c)
    PROVE  /\ KernelOK'
           /\ wrote' = [wrote EXCEPT ![c] = @ \cup {<<Verb(c), Place(c)>>}]
           /\ pc[c] = "item" => Items(c)[Item(c)] # None
<1>1. /\ KernelOK /\ Shape(c) /\ call[c] \in Args
  BY DEF IInv, TypeOK, KernelOK, Shape, Applies
<1>2. CASE pc[c] = "create" /\ Creates(c, call[c].path, 1)
  <2>1. call[c].path \in Paths
    BY <1>1, <1>2, ArgsOfTool, BoundAssumption DEF Shape
  <2> QED
    BY <1>1, <1>2, <2>1, CreatesEffect DEF Verb, Place
<1>3. CASE pc[c] = "daily" /\ Creates(c, NotePath(c), 1)
  <2>1. NotePath(c) \in Paths
    <3>1. call[c].notebook \in Notebooks
      BY <1>1, <1>3, ArgsOfTool DEF Shape
    <3> QED
      BY <3>1, NotebookAssumption DEF NotePath, Paths, Notebooks
  <2> QED
    BY <1>1, <1>3, <2>1, CreatesEffect DEF Verb, Place
<1>4. CASE /\ pc[c] = "update"
           /\ Changes(c, {block[c]}, [d \in docs |-> [d EXCEPT !.body = c]], <<"update", 1>>)
  <2> DEFINE f == [d \in docs |-> [d EXCEPT !.body = c]]
  <2>1. Changes(c, {block[c]}, f, <<"update", 1>>)
    BY <1>4
  <2>2. \A d \in docs : f[d] \in Doc /\ f[d].id = d.id
    BY <1>1 DEF KernelOK, Doc
  <2> HIDE DEF f
  <2>3. KernelOK' /\ wrote' = [wrote EXCEPT ![c] = @ \cup {<<"update", 1>>}]
    BY <1>1, <2>1, <2>2, ChangesEffect
  <2> QED
    BY <1>4, <2>3 DEF Verb, Place
<1>5. CASE /\ pc[c] = "move"
           /\ Changes(c, call[c].from, [d \in docs |-> [d EXCEPT !.path[1] = call[c].to]], <<"move", 1>>)
  <2> DEFINE f == [d \in docs |-> [d EXCEPT !.path[1] = call[c].to]]
  <2>1. Changes(c, call[c].from, f, <<"move", 1>>)
    BY <1>5
  <2>2. \A d \in docs : f[d] \in Doc /\ f[d].id = d.id
    <3>1. call[c].to \in Folders
      BY <1>1, <1>5, ArgsOfTool DEF Shape
    <3>2. PICK t : t \in Titles
      BY NotebookAssumption
    <3> QED
      BY <1>1, <3>1, <3>2, PathChanges DEF KernelOK
  <2> HIDE DEF f
  <2>3. KernelOK' /\ wrote' = [wrote EXCEPT ![c] = @ \cup {<<"move", 1>>}]
    BY <1>1, <2>1, <2>2, ChangesEffect
  <2> QED
    BY <1>5, <2>3 DEF Verb, Place
<1>6. CASE pc[c] \in {"title", "rename"} /\ Retitles(c)
  <2> DEFINE f == [d \in docs |-> [d EXCEPT !.path[2] = call[c].title]]
  <2>1. Changes(c, call[c].from, f, <<"rename", 1>>)
    BY <1>6 DEF Retitles
  <2>2. \A d \in docs : f[d] \in Doc /\ f[d].id = d.id
    <3>1. call[c].title \in Titles
      BY <1>1, <1>6, ArgsOfTool DEF Shape
    <3>2. ASSUME NEW d \in docs PROVE d \in Doc /\ \E g : g \in Folders
      BY <1>1 DEF KernelOK, Doc, Paths
    <3> QED
      BY <3>1, <3>2, PathChanges
  <2> HIDE DEF f
  <2>3. KernelOK' /\ wrote' = [wrote EXCEPT ![c] = @ \cup {<<"rename", 1>>}]
    BY <1>1, <2>1, <2>2, ChangesEffect
  <2> QED
    BY <1>6, <2>3 DEF Verb, Place
<1>7. CASE pc[c] = "append" /\ Changes(c, {block[c]}, [d \in docs |-> d], <<"append", 1>>)
  <2> DEFINE f == [d \in docs |-> d]
  <2>1. Changes(c, {block[c]}, f, <<"append", 1>>)
    BY <1>7
  <2>2. \A d \in docs : f[d] \in Doc /\ f[d].id = d.id
    BY <1>1 DEF KernelOK
  <2> HIDE DEF f
  <2>3. KernelOK' /\ wrote' = [wrote EXCEPT ![c] = @ \cup {<<"append", 1>>}]
    BY <1>1, <2>1, <2>2, ChangesEffect
  <2> QED
    BY <1>7, <2>3 DEF Verb, Place
<1>8. CASE /\ pc[c] = "item" /\ Items(c)[Item(c)] # None /\ call[c].tool = "bulk_create_documents"
           /\ Creates(c, Items(c)[Item(c)], Item(c))
  <2>1. Items(c) \in Batch(Wanted) /\ Items(c) = call[c].paths
    BY <1>1, <1>8, ArgsOfTool DEF Items, ItemsOf
  <2>2. Item(c) \in 1..Len(Items(c))
    <3>1. Len(reports[c]) \in Nat /\ Len(reports[c]) < Len(Items(c))
      BY <1>1, <1>8, LenProperties DEF Shape, IInv, TypeOK
    <3> QED
      BY <2>1, <3>1, BatchIsSeq DEF Item
  <2>3. Items(c)[Item(c)] \in Paths
    <3>1. Items(c) \in Seq(Wanted \cup {None})
      BY <2>1, BatchIsSeq
    <3>2. Items(c)[Item(c)] \in Wanted \cup {None}
      BY <2>2, <3>1, ElementOfSeq
    <3> QED
      BY <1>8, <3>2, BoundAssumption
  <2> QED
    BY <1>1, <1>8, <2>3, CreatesEffect DEF Verb, Place
<1>9. CASE /\ pc[c] = "item" /\ Items(c)[Item(c)] # None /\ call[c].tool = "bulk_set_attrs"
           /\ Changes(c, {Items(c)[Item(c)]}, [d \in docs |-> d], <<"attrs", Item(c)>>)
  <2> DEFINE f == [d \in docs |-> d]
  <2>1. Changes(c, {Items(c)[Item(c)]}, f, <<"attrs", Item(c)>>)
    BY <1>9
  <2>2. \A d \in docs : f[d] \in Doc /\ f[d].id = d.id
    BY <1>1 DEF KernelOK
  <2> HIDE DEF f
  <2>3. KernelOK' /\ wrote' = [wrote EXCEPT ![c] = @ \cup {<<"attrs", Item(c)>>}]
    BY <1>1, <2>1, <2>2, ChangesEffect
  <2> QED
    BY <1>9, <2>3 DEF Verb, Place
<1> QED
  BY <1>2, <1>3, <1>4, <1>5, <1>6, <1>7, <1>8, <1>9 DEF Applies

(* A request is served, or spares the kernel, and c has written w.         *)
Served(c, w) == KernelOK' /\ w \in SUBSET (Effects \X Nat) /\ wrote' = [wrote EXCEPT ![c] = w]

LEMMA RequestEffect ==
    ASSUME IInv, NEW c \in Calls
    PROVE  /\ Applies(c) => Served(c, wrote[c] \cup {<<Verb(c), Place(c)>>})
           /\ Spares \/ Refuses(c) => Served(c, wrote[c])
<1>1. KernelOK /\ TypeOK
  BY DEF IInv, TypeOK, KernelOK
<1>2. ASSUME Spares PROVE Served(c, wrote[c])
  BY <1>1, <1>2 DEF Spares, Served, KernelOK, IdsOf, TypeOK
<1>3. ASSUME Applies(c) PROVE Served(c, wrote[c] \cup {<<Verb(c), Place(c)>>})
  <2>1. Verb(c) \in Effects
    BY <1>3 DEF Applies, Verb, Effects
  <2>2. Place(c) \in Nat
    <3>1. Len(reports[c]) \in Nat
      BY <1>1, LenProperties DEF TypeOK
    <3> QED
      BY <3>1 DEF Place, Item
  <2>3. wrote[c] \in SUBSET (Effects \X Nat)
    BY <1>1 DEF TypeOK
  <2> QED
    BY <1>3, <2>1, <2>2, <2>3, AppliesEffect DEF Served
<1> QED
  BY <1>2, <1>3 DEF Refuses

-----------------------------------------------------------------------------
(* Steps of a call                                                         *)

TypedCalls ==
    /\ pc \in [Calls -> {"idle", "done"} \cup Requests]
    /\ call \in [Calls -> Args \cup {None}]
    /\ block \in [Calls -> Nat \cup {None}]
    /\ reports \in [Calls -> Seq({"ok", "error"})]
    /\ result \in [Calls -> Results]
    /\ wrote \in [Calls -> SUBSET (Effects \X Nat)]
    /\ lost \in [Calls -> SUBSET (1..MaxItems)]
    /\ disturbed \subseteq Calls

OthersStay(c) ==
    \A d \in Calls \ {c} :
        /\ pc'[d] = pc[d] /\ call'[d] = call[d] /\ result'[d] = result[d]
        /\ reports'[d] = reports[d] /\ wrote'[d] = wrote[d] /\ lost'[d] = lost[d]

LEMMA OwnStep ==
    ASSUME IInv, NEW c \in Calls, KernelOK', UNCHANGED <<closed, rows, removals>>,
           TypedCalls', OthersStay(c), Shape(c)', Exact(c)'
    PROVE  IInv'
<1>1. TypeOK'
  <2>1. \A d \in Calls : call'[d] = None \/ call'[d].tool \in Tools
    BY ArgsOfTool DEF TypedCalls
  <2> QED
    BY <2>1 DEF IInv, TypeOK, KernelOK, TypedCalls
<1>2. ASSUME NEW d \in Calls \ {c} PROVE Shape(d)' /\ Exact(d)'
  <2>1. Shape(d) /\ Exact(d)
    BY DEF IInv, ReportIsExact
  <2>2. Items(d)' = Items(d)
    BY DEF OthersStay, Items, ItemsOf
  <2> QED
    BY <2>1, <2>2 DEF OthersStay, Shape, Exact, Unreported, Tallies
<1> QED
  BY <1>1, <1>2 DEF IInv, TypedCalls, ReportIsExact

LEMMA Known ==
    ASSUME IInv
    PROVE  TypedCalls /\ KernelOK /\ \A c \in Calls : Shape(c)
BY DEF IInv, TypeOK, TypedCalls, KernelOK

LEMMA FirstIsRequest ==
    ASSUME NEW a \in Args
    PROVE  /\ First(a) \in {"create", "lookup", "move", "rename", "notebooks", "daily", "item"}
           /\ First(a) = "create" => a.tool = "create_document"
           /\ First(a) = "lookup" => a.tool = "get_or_create_doc"
           /\ First(a) = "move" => a.tool = "move_doc"
           /\ First(a) = "rename" => a.tool = "rename_doc"
           /\ First(a) \in {"notebooks", "daily"} => a.tool \in {"daily_note", "capture_task"}
           /\ First(a) = "daily" => a.notebook # None
           /\ First(a) = "item" => a.tool \in {"bulk_create_documents", "bulk_set_attrs"}
<1>1. a.tool \in Tools
  BY ArgsOfTool
<1> QED
  BY <1>1 DEF First, Tools

LEMMA BeginStep ==
    ASSUME IInv, NEW c \in Calls, Begin(c)
    PROVE  IInv'
<1>1. TypedCalls /\ KernelOK /\ Shape(c) /\ pc[c] = "idle"
  BY Known DEF Begin
<1>2. PICK a \in ArgsOn(IdsOf(docs)) :
        /\ call' = [call EXCEPT ![c] = a]
        /\ IF a.tool = "move_doc" /\ a.title # None /\ Cardinality(a.from) # 1
           THEN End(c, "rejected")
           ELSE IF First(a) = "item" /\ ItemsOf(a) = << >> THEN End(c, "batch")
           ELSE Goto(c, First(a))
  BY DEF Begin
<1>3. a \in Args
  BY <1>1, ArgsGrow DEF KernelOK, IdsOf, Doc
<1>4. /\ UNCHANGED <<closed, rows, removals, docs, next, block, reports, wrote, lost>>
      /\ disturbed' \subseteq Calls
  BY <1>1 DEF Begin, kernel, Disturbs, TypedCalls
<1>5. KernelOK'
  BY <1>1, <1>4 DEF KernelOK, IdsOf
<1>6. /\ call'[c] = a /\ wrote'[c] = {} /\ reports'[c] = << >> /\ lost'[c] = {}
  BY <1>1, <1>2, <1>4 DEF TypedCalls, Shape, Unreported
<1>7. CASE End(c, "rejected") \/ (ItemsOf(a) = << >> /\ End(c, "batch"))
  <2>1. TypedCalls' /\ OthersStay(c)
    BY <1>1, <1>2, <1>3, <1>4, <1>7 DEF TypedCalls, OthersStay, End, Results
  <2>2. pc'[c] = "done" /\ result'[c] \in {"rejected", "batch"}
        /\ (result'[c] = "batch" => ItemsOf(a) = << >>)
    BY <1>1, <1>7 DEF TypedCalls, End
  <2>3. Shape(c)'
    BY <1>3, <1>6, <2>2 DEF Shape
  <2>4. Exact(c)'
    BY <1>6, <2>2 DEF Exact, Items
  <2> QED
    BY <1>4, <1>5, <2>1, <2>3, <2>4, OwnStep
<1>8. CASE Goto(c, First(a)) /\ ~(First(a) = "item" /\ ItemsOf(a) = << >>)
  <2>1. TypedCalls' /\ OthersStay(c)
    BY <1>1, <1>2, <1>3, <1>4, <1>8, FirstIsRequest DEF TypedCalls, OthersStay, Goto, Requests
  <2>2. pc'[c] = First(a) /\ result'[c] = "none"
    BY <1>1, <1>8 DEF TypedCalls, Goto, Shape
  <2>3. Exact(c)'
    BY <2>2 DEF Exact
  <2>4. First(a) = "item" => Len(reports'[c]) < Len(Items(c)') /\ Tallies(c)'
    <3> SUFFICES ASSUME First(a) = "item" PROVE 0 < Len(ItemsOf(a)) /\ Tallies(c)'
      BY <1>6 DEF Items
    <3>1. PICK S : ItemsOf(a) \in Batch(S)
      BY <1>3, ArgsOfTool, FirstIsRequest DEF ItemsOf
    <3>2. Len(ItemsOf(a)) # 0 /\ Len(ItemsOf(a)) \in Nat
      BY <1>8, <3>1, BatchIsSeq, EmptySeq
    <3> QED
      BY <1>6, <3>2 DEF Tallies
  <2>5. Shape(c)'
    BY <1>3, <1>6, <2>2, <2>4, FirstIsRequest DEF Shape, Unreported
  <2> QED
    BY <1>4, <1>5, <2>1, <2>3, <2>5, OwnStep
<1> QED
  BY <1>2, <1>7, <1>8

LEMMA LookupStep ==
    ASSUME IInv, NEW c \in Calls, Lookup(c) \/ ListNotebooks(c)
    PROVE  IInv'
<1>1. TypedCalls /\ KernelOK /\ Shape(c) /\ call[c] \in Args
  BY Known DEF Lookup, ListNotebooks, Shape
<1>2. /\ UNCHANGED <<closed, rows, removals, docs, next, reports, wrote, lost, disturbed>>
      /\ KernelOK'
  BY <1>1 DEF Lookup, ListNotebooks, kernel, KernelOK, IdsOf
<1>3. CASE Lookup(c)
  <2>1. UNCHANGED call /\ block' \in [Calls -> Nat \cup {None}]
    BY <1>1, <1>3 DEF Lookup, TypedCalls, IInv, TypeOK
  <2>2. TypedCalls' /\ OthersStay(c)
    BY <1>1, <1>2, <1>3, <2>1 DEF Lookup, TypedCalls, OthersStay, End, Goto, Results, Requests
  <2>3. /\ pc[c] = "lookup"
        /\ \/ pc'[c] \in {"update", "create"} /\ result'[c] = result[c]
           \/ pc'[c] = "done" /\ result'[c] = "found"
    BY <1>1, <1>3 DEF Lookup, TypedCalls, End, Goto
  <2>4. Shape(c)' /\ Exact(c)'
    BY <1>1, <1>2, <2>1, <2>3 DEF Shape, Exact, Unreported
  <2> QED
    BY <1>2, <2>2, <2>4, OwnStep
<1>4. CASE ListNotebooks(c) /\ End(c, "failed") /\ UNCHANGED call
  <2>1. TypedCalls' /\ OthersStay(c)
    BY <1>1, <1>2, <1>4 DEF ListNotebooks, TypedCalls, OthersStay, End, Results
  <2>2. pc'[c] = "done" /\ result'[c] = "failed"
    BY <1>1, <1>4 DEF TypedCalls, End
  <2>3. Shape(c)' /\ Exact(c)'
    BY <1>1, <1>4, <2>2 DEF Shape, Exact
  <2> QED
    BY <1>2, <2>1, <2>3, OwnStep
<1>5. ASSUME NEW n \in Notebooks, call' = [call EXCEPT ![c].notebook = n], Goto(c, "daily"),
             ListNotebooks(c)
      PROVE  IInv'
  <2>1. pc[c] = "notebooks" /\ UNCHANGED block
    BY <1>5 DEF ListNotebooks
  <2>2. call[c] \in [tool : {"daily_note", "capture_task"}, notebook : Notebooks \cup {None}]
    BY <1>1, <2>1, ArgsOfTool DEF Shape
  <2>3. call'[c] = [call[c] EXCEPT !.notebook = n]
    BY <1>1, <1>5 DEF TypedCalls
  <2>4. /\ call'[c] \in [tool : {"daily_note", "capture_task"}, notebook : Notebooks \cup {None}]
        /\ call'[c].notebook = n
    BY <2>2, <2>3
  <2>5. call'[c] \in Args
    BY <2>4 DEF Args, ArgsOn
  <2>6. call' \in [Calls -> Args \cup {None}] /\ \A d \in Calls \ {c} : call'[d] = call[d]
    BY <1>1, <1>5, <2>5 DEF TypedCalls
  <2>7. TypedCalls' /\ OthersStay(c)
    BY <1>1, <1>2, <1>5, <2>1, <2>6 DEF TypedCalls, OthersStay, Goto, Requests
  <2>8. pc'[c] = "daily" /\ result'[c] = result[c]
    BY <1>1, <1>5 DEF TypedCalls, Goto
  <2>9. n # None
    BY NoneAssumption, NotebookAssumption DEF Notebooks
  <2>10. Shape(c)' /\ Exact(c)'
    BY <1>1, <1>2, <2>1, <2>4, <2>5, <2>8, <2>9 DEF Shape, Exact, Unreported
  <2> QED
    BY <1>2, <2>7, <2>10, OwnStep
<1> QED
  BY <1>3, <1>4, <1>5 DEF ListNotebooks

(* A request is served and c goes on at p, with result r.                  *)
Turns(c, w, p, r) ==
    /\ Served(c, w) /\ UNCHANGED <<closed, rows, removals, call, disturbed>>
    /\ pc' = [pc EXCEPT ![c] = p] /\ p \in {"done"} \cup Requests
    /\ result' = [result EXCEPT ![c] = r] /\ r \in Results

LEMMA TurnStep ==
    ASSUME IInv, NEW c \in Calls, NEW w, NEW p, NEW r, Turns(c, w, p, r),
           block' \in [Calls -> Nat \cup {None}],
           reports' \in [Calls -> Seq({"ok", "error"})],
           lost' \in [Calls -> SUBSET (1..MaxItems)],
           \A d \in Calls \ {c} : reports'[d] = reports[d] /\ lost'[d] = lost[d],
           pc'[c] = p /\ result'[c] = r /\ wrote'[c] = w => Shape(c)' /\ Exact(c)'
    PROVE  IInv'
<1>1. TypedCalls
  BY Known
<1>2. TypedCalls' /\ OthersStay(c)
  BY <1>1 DEF TypedCalls, OthersStay, Turns, Served
<1>3. pc'[c] = p /\ result'[c] = r /\ wrote'[c] = w
  BY <1>1 DEF TypedCalls, Turns, Served
<1> QED
  BY <1>2, <1>3, OwnStep DEF Turns, Served

(* The same for a call that is not in a batch: it reports nothing.         *)
LEMMA PlainStep ==
    ASSUME IInv, NEW c \in Calls, NEW w, NEW p, NEW r, Turns(c, w, p, r),
           UNCHANGED <<reports, lost>>, block' \in [Calls -> Nat \cup {None}],
           pc'[c] = p /\ result'[c] = r /\ wrote'[c] = w => Shape(c)' /\ Exact(c)'
    PROVE  IInv'
<1>1. TypedCalls
  BY Known
<1> QED
  BY <1>1, TurnStep DEF TypedCalls

(* A call that fails or is cancelled has nothing to answer for.            *)
LEMMA StopStep ==
    ASSUME IInv, NEW c \in Calls, Working(c), Applies(c) \/ Spares \/ Refuses(c),
           NEW r \in {"failed", "cancelled"}, End(c, r),
           UNCHANGED <<closed, rows, removals, call, block, reports, lost, disturbed>>
    PROVE  IInv'
<1>1. PICK w : Served(c, w)
  BY RequestEffect
<1>2. Turns(c, w, "done", r)
  BY <1>1 DEF Turns, End, Results
<1>3. TypedCalls /\ call[c] \in Args
  BY Known DEF Shape, Working, Requests
<1>4. pc'[c] = "done" /\ result'[c] = r => Shape(c)' /\ Exact(c)'
  BY <1>3 DEF Shape, Exact
<1> QED
  BY <1>2, <1>3, <1>4, PlainStep DEF TypedCalls

LEMMA FinishStep ==
    ASSUME IInv, NEW c \in Calls, Finish(c)
    PROVE  IInv'
<1>1. /\ TypedCalls /\ Shape(c) /\ call[c] \in Args
      /\ UNCHANGED <<closed, rows, removals, call, block, reports, lost, disturbed>>
  BY Known DEF Finish, Shape
<1>2. CASE Refuses(c) /\ End(c, "failed") /\ pc[c] \in {"create", "update", "rename", "append"}
  BY <1>1, <1>2, StopStep DEF Working, Requests
<1>3. ASSUME Applies(c), NEW r, End(c, r),
             <<pc[c], r>> \in {<<"create", "created">>, <<"update", "updated">>, <<"rename", "ok">>,
                               <<"append", "captured">>}
      PROVE  IInv'
  <2> DEFINE w == wrote[c] \cup {<<Verb(c), Place(c)>>}
  <2>1. pc[c] \in {"create", "update", "rename", "append"} /\ r \in Results
    BY <1>3 DEF Results
  <2>2. Turns(c, w, "done", r)
    BY <1>1, <1>3, <2>1, RequestEffect DEF Turns, End
  <2>3. Place(c) = 1 /\ <<pc[c], Verb(c)>> \in {<<"create", "create">>, <<"update", "update">>,
                                               <<"rename", "rename">>, <<"append", "append">>}
    BY <2>1 DEF Place, Verb
  <2>4. /\ r = "created" => w = {<<"create", 1>>}
        /\ r = "updated" => w = {<<"update", 1>>}
        /\ r = "captured" => <<"append", 1>> \in w /\ w \subseteq {<<"create", 1>>, <<"append", 1>>}
        /\ r = "ok" => call[c].tool = "rename_doc"
    BY <1>1, <1>3, <2>3 DEF Shape
  <2> HIDE DEF w
  <2>5. r \in {"created", "updated", "ok", "captured"}
    BY <1>3
  <2>6. pc'[c] = "done" /\ result'[c] = r /\ wrote'[c] = w => Shape(c)' /\ Exact(c)'
    BY <1>1, <2>4, <2>5 DEF Shape, Exact
  <2> QED
    BY <1>1, <2>2, <2>6, PlainStep DEF TypedCalls
<1> QED
  BY <1>2, <1>3 DEF Finish

LEMMA MoveStep ==
    ASSUME IInv, NEW c \in Calls, Move(c)
    PROVE  IInv'
<1>1. /\ TypedCalls /\ Shape(c) /\ call[c] \in Args /\ pc[c] = "move"
      /\ UNCHANGED <<closed, rows, removals, call, block, reports, lost, disturbed>>
  BY Known DEF Move, Shape
<1>2. CASE Refuses(c) /\ End(c, "failed")
  BY <1>1, <1>2, StopStep DEF Working, Requests
<1>3. CASE Applies(c) /\ (IF call[c].title = None THEN End(c, "ok") ELSE Goto(c, "title"))
  <2>1. Served(c, {<<"move", 1>>})
    <3>1. wrote[c] \cup {<<Verb(c), Place(c)>>} = {<<"move", 1>>}
      BY <1>1 DEF Shape, Verb, Place
    <3> QED
      BY <1>3, <3>1, RequestEffect
  <2>2. CASE call[c].title = None
    <3>1. Turns(c, {<<"move", 1>>}, "done", "ok")
      BY <1>1, <1>3, <2>1, <2>2 DEF Turns, End, Results
    <3>2. pc'[c] = "done" /\ result'[c] = "ok" /\ wrote'[c] = {<<"move", 1>>} => Shape(c)' /\ Exact(c)'
      BY <1>1, <2>2 DEF Shape, Exact
    <3> QED
      BY <1>1, <3>1, <3>2, PlainStep DEF TypedCalls
  <2>3. CASE call[c].title # None
    <3>1. result' = [result EXCEPT ![c] = "none"]
      BY <1>1, <1>3, <2>3 DEF Goto, TypedCalls, Shape
    <3>2. Turns(c, {<<"move", 1>>}, "title", "none")
      BY <1>1, <1>3, <2>1, <2>3, <3>1 DEF Turns, Goto, Results, Requests
    <3>3. pc'[c] = "title" /\ result'[c] = "none" /\ wrote'[c] = {<<"move", 1>>} => Shape(c)' /\ Exact(c)'
      BY <1>1, <2>3 DEF Shape, Exact
    <3> QED
      BY <1>1, <3>2, <3>3, PlainStep DEF TypedCalls
  <2> QED
    BY <2>2, <2>3
<1> QED
  BY <1>2, <1>3 DEF Move

LEMMA RetitleStep ==
    ASSUME IInv, NEW c \in Calls, Retitle(c)
    PROVE  IInv'
<1>1. /\ TypedCalls /\ Shape(c) /\ call[c] \in Args /\ pc[c] = "title"
      /\ UNCHANGED <<closed, rows, removals, call, block, reports, lost, disturbed>>
  BY Known DEF Retitle, Shape
<1>2. wrote[c] = {<<"move", 1>>} /\ call[c].title # None /\ call[c].tool = "move_doc"
  BY <1>1 DEF Shape
<1>3. wrote[c] \cup {<<Verb(c), Place(c)>>} = {<<"move", 1>>, <<"rename", 1>>}
  BY <1>1, <1>2 DEF Verb, Place
<1>4. ASSUME Applies(c), End(c, "ok") PROVE IInv'
  <2>1. Turns(c, {<<"move", 1>>, <<"rename", 1>>}, "done", "ok")
    BY <1>1, <1>3, <1>4, RequestEffect DEF Turns, End, Results
  <2>2. pc'[c] = "done" /\ result'[c] = "ok" /\ wrote'[c] = {<<"move", 1>>, <<"rename", 1>>}
          => Shape(c)' /\ Exact(c)'
    BY <1>1, <1>2 DEF Shape, Exact
  <2> QED
    BY <1>1, <2>1, <2>2, PlainStep DEF TypedCalls
<1>5. ASSUME Applies(c) \/ Spares, End(c, "warned") PROVE IInv'
  <2>1. PICK w : Served(c, w) /\ <<"move", 1>> \in w
    BY <1>2, <1>3, <1>5, RequestEffect
  <2>2. Turns(c, w, "done", "warned")
    BY <1>1, <1>5, <2>1 DEF Turns, End, Results
  <2>3. pc'[c] = "done" /\ result'[c] = "warned" /\ wrote'[c] = w => Shape(c)' /\ Exact(c)'
    BY <1>1, <2>1 DEF Shape, Exact
  <2> QED
    BY <1>1, <2>2, <2>3, PlainStep DEF TypedCalls
<1> QED
  BY <1>4, <1>5 DEF Retitle

LEMMA DailyStep ==
    ASSUME IInv, NEW c \in Calls, OpenDailyNote(c)
    PROVE  IInv'
<1>1. /\ TypedCalls /\ KernelOK /\ Shape(c) /\ call[c] \in Args /\ pc[c] = "daily"
      /\ UNCHANGED <<closed, rows, removals, call, reports, lost, disturbed>>
  BY Known DEF OpenDailyNote, Shape
<1>2. CASE Refuses(c) /\ End(c, "failed") /\ UNCHANGED block
  BY <1>1, <1>2, StopStep DEF Working, Requests
<1>3. CASE /\ \/ Applies(c) /\ block' = [block EXCEPT ![c] = next]
              \/ Spares /\ \E d \in Notes(c) : block' = [block EXCEPT ![c] = d.id]
           /\ IF call[c].tool = "daily_note" THEN End(c, "opened") ELSE Goto(c, "append")
  <2>1. PICK w : Served(c, w) /\ w \subseteq {<<"create", 1>>}
    <3>1. wrote[c] = {} /\ Verb(c) = "create" /\ Place(c) = 1
      BY <1>1 DEF Shape, Verb, Place
    <3> QED
      BY <1>3, <3>1, RequestEffect
  <2>2. block' \in [Calls -> Nat \cup {None}]
    <3>1. next \in Nat /\ \A d \in Notes(c) : d.id \in Nat
      BY <1>1 DEF KernelOK, Notes, At, Doc
    <3> QED
      BY <1>1, <1>3, <3>1 DEF TypedCalls
  <2>3. CASE End(c, "opened")
    <3>1. Turns(c, w, "done", "opened")
      BY <1>1, <2>1, <2>3 DEF Turns, End, Results
    <3>2. pc'[c] = "done" /\ result'[c] = "opened" /\ wrote'[c] = w => Shape(c)' /\ Exact(c)'
      BY <1>1, <2>1 DEF Shape, Exact
    <3> QED
      BY <1>1, <2>2, <3>1, <3>2, PlainStep
  <2>4. CASE Goto(c, "append") /\ call[c].tool # "daily_note"
    <3>1. result' = [result EXCEPT ![c] = "none"]
      BY <1>1, <2>4 DEF Goto, TypedCalls, Shape
    <3>2. Turns(c, w, "append", "none")
      BY <1>1, <2>1, <2>4, <3>1 DEF Turns, Goto, Results, Requests
    <3>3. pc'[c] = "append" /\ result'[c] = "none" /\ wrote'[c] = w => Shape(c)' /\ Exact(c)'
      BY <1>1, <2>1, <2>4 DEF Shape, Exact
    <3> QED
      BY <1>1, <2>2, <3>2, <3>3, PlainStep
  <2> QED
    BY <1>3, <2>3, <2>4
<1> QED
  BY <1>2, <1>3 DEF OpenDailyNote

(* The next report, at its place, tallies with what was done for its item. *)
LEMMA NextTally ==
    ASSUME NEW c \in Calls, TypedCalls, Tallies(c), NEW r \in {"ok", "error"}, NEW v, NEW w,
           reports' = [reports EXCEPT ![c] = Append(@, r)], wrote'[c] = w,
           w \in {wrote[c], wrote[c] \cup {<<v, Item(c)>>}},
           \/ lost'[c] = lost[c] /\ (r = "ok" <=> w # wrote[c])
           \/ lost'[c] = lost[c] \cup {Item(c)}
    PROVE  Tallies(c)' /\ reports'[c] \in Seq({"ok", "error"})
           /\ Len(reports'[c]) = Item(c) /\ Len(reports[c]) \in Nat
<1>1. reports[c] \in Seq({"ok", "error"}) /\ reports'[c] = Append(reports[c], r)
  BY DEF TypedCalls
<1>2. /\ Len(reports[c]) \in Nat /\ Item(c) = Len(reports[c]) + 1
      /\ reports'[c] \in Seq({"ok", "error"}) /\ Len(reports'[c]) = Item(c)
      /\ \A k \in 1..Len(reports[c]) : reports'[c][k] = reports[c][k]
      /\ reports'[c][Item(c)] = r
  BY <1>1, AppendProperties, LenProperties DEF Item
<1>3. \A e \in wrote[c] : e[2] \in 1..Len(reports[c])
  BY DEF Tallies
<1>4. ASSUME NEW e \in w PROVE e[2] \in 1..Item(c)
  BY <1>2, <1>3
<1>5. ASSUME NEW k \in 1..Item(c) \ lost'[c]
      PROVE  reports'[c][k] = "ok" <=> \E e \in w : e[2] = k
  <2>1. CASE k = Item(c)
    <3>1. ~ \E e \in wrote[c] : e[2] = k
      BY <1>2, <1>3, <2>1
    <3>2. lost'[c] = lost[c] /\ (r = "ok" <=> w # wrote[c])
      BY <1>5, <2>1
    <3>3. <<v, Item(c)>>[2] = k
      BY <2>1
    <3> QED
      BY <1>2, <2>1, <3>1, <3>2, <3>3
  <2>2. CASE k # Item(c)
    <3>1. k \in 1..Len(reports[c]) \ lost[c]
      BY <1>2, <2>2
    <3>2. reports[c][k] = "ok" <=> \E e \in wrote[c] : e[2] = k
      BY <3>1 DEF Tallies
    <3>3. (\E e \in w : e[2] = k) <=> \E e \in wrote[c] : e[2] = k
      BY <2>2
    <3> QED
      BY <1>2, <3>1, <3>2, <3>3
  <2> QED
    BY <2>1, <2>2
<1> QED
  BY <1>2, <1>4, <1>5 DEF Tallies

LEMMA BulkStep ==
    ASSUME IInv, NEW c \in Calls, BulkItem(c)
    PROVE  IInv'
<1>1. /\ TypedCalls /\ Shape(c) /\ call[c] \in Args /\ pc[c] = "item"
      /\ UNCHANGED <<closed, rows, removals, call, block, disturbed>>
  BY Known DEF BulkItem, Shape
<1>2. /\ Tallies(c) /\ Len(reports[c]) < Len(Items(c)) /\ Place(c) = Item(c)
      /\ call[c].tool \in {"bulk_create_documents", "bulk_set_attrs"}
  BY <1>1 DEF Shape, Place
<1>3. /\ Len(Items(c)) \in 0..MaxItems /\ DOMAIN Items(c) = 1..Len(Items(c))
      /\ Len(reports[c]) \in Nat
  <2>1. PICK S : Items(c) \in Batch(S)
    BY <1>1, <1>2, ArgsOfTool DEF Items, ItemsOf
  <2> QED
    BY <1>1, <2>1, BatchIsSeq, LenProperties DEF TypedCalls
<1>4. Item(c) \in 1..MaxItems /\ Item(c) <= Len(Items(c))
  BY <1>2, <1>3, BoundAssumption DEF Item
<1>5. ASSUME NEW w, Served(c, w), w \in {wrote[c], wrote[c] \cup {<<Verb(c), Item(c)>>}},
             NEW r \in {"ok", "error"}, Report(c, r),
             \/ UNCHANGED lost /\ (r = "ok" <=> w # wrote[c])
             \/ lost' = [lost EXCEPT ![c] = @ \cup {Item(c)}]
      PROVE  IInv'
  <2>1. wrote'[c] = w /\ reports' = [reports EXCEPT ![c] = Append(@, r)]
    BY <1>1, <1>5 DEF Served, Report, TypedCalls
  <2>2. /\ lost' \in [Calls -> SUBSET (1..MaxItems)]
        /\ \A d \in Calls \ {c} : lost'[d] = lost[d]
        /\ \/ lost'[c] = lost[c] /\ (r = "ok" <=> w # wrote[c])
           \/ lost'[c] = lost[c] \cup {Item(c)}
    BY <1>1, <1>4, <1>5 DEF TypedCalls
  <2>3. /\ Tallies(c)' /\ reports'[c] \in Seq({"ok", "error"})
        /\ Len(reports'[c]) = Item(c)
    BY <1>1, <1>2, <1>5, <2>1, <2>2, NextTally
  <2>4. /\ reports' \in [Calls -> Seq({"ok", "error"})]
        /\ \A d \in Calls \ {c} : reports'[d] = reports[d]
    BY <1>1, <2>1, <2>3 DEF TypedCalls
  <2>5. block' \in [Calls -> Nat \cup {None}] /\ Items(c)' = Items(c) /\ call'[c] = call[c]
    BY <1>1 DEF TypedCalls, Items
  <2>6. CASE Item(c) = Len(Items(c))
    <3>1. Turns(c, w, "done", "batch")
      BY <1>1, <1>5, <2>6 DEF Turns, Report, End, Results
    <3>2. pc'[c] = "done" /\ result'[c] = "batch" => Exact(c)'
      BY <1>3, <2>3, <2>5, <2>6 DEF Exact, Tallies
    <3>3. pc'[c] = "done" /\ result'[c] = "batch" => Shape(c)'
      BY <1>1, <2>5 DEF Shape
    <3> QED
      BY <2>2, <2>4, <2>5, <3>1, <3>2, <3>3, TurnStep
  <2>7. CASE Item(c) # Len(Items(c))
    <3>1. result' = [result EXCEPT ![c] = "none"]
      BY <1>1, <1>5, <2>7 DEF Report, Goto, TypedCalls, Shape
    <3>2. Turns(c, w, "item", "none")
      BY <1>1, <1>5, <2>7, <3>1 DEF Turns, Report, Goto, Results, Requests, TypedCalls
    <3>3. Item(c) < Len(Items(c))
      BY <1>3, <1>4, <2>7, BoundAssumption
    <3>4. pc'[c] = "item" /\ result'[c] = "none" => Shape(c)' /\ Exact(c)'
      BY <1>1, <1>2, <2>3, <2>5, <3>3 DEF Shape, Exact
    <3> QED
      BY <2>2, <2>4, <2>5, <3>2, <3>4, TurnStep
  <2> QED
    BY <2>6, <2>7
<1>6. \A e \in wrote[c] : e[2] # Item(c)
  BY <1>2, <1>3 DEF Tallies, Item
<1>7. wrote[c] # wrote[c] \cup {<<Verb(c), Item(c)>>}
  <2>1. <<Verb(c), Item(c)>>[2] = Item(c)
    OBVIOUS
  <2> QED
    BY <1>6, <2>1
<1>8. /\ Applies(c) => Served(c, wrote[c] \cup {<<Verb(c), Item(c)>>})
      /\ Spares \/ Refuses(c) => Served(c, wrote[c])
  BY <1>2, RequestEffect
<1> QED
  BY <1>5, <1>7, <1>8 DEF BulkItem

-----------------------------------------------------------------------------
(* The environment, and all steps together                                 *)

LEMMA EnvironmentStep ==
    ASSUME IInv, Reindex \/ RemovedElsewhere
    PROVE  IInv'
<1>1. TypedCalls /\ KernelOK /\ closed \subseteq Notebooks /\ removals \in 0..Removals
      /\ rows \subseteq Nat \X Paths /\ \A c \in Calls : Shape(c) /\ Exact(c)
  BY Known DEF IInv, TypeOK, ReportIsExact
<1>2. /\ UNCHANGED <<next, pc, call, block, reports, result, wrote, lost>>
      /\ docs' \subseteq docs
  BY DEF Reindex, RemovedElsewhere, own
<1>3. KernelOK'
  BY <1>1, <1>2 DEF KernelOK, IdsOf
<1>4. closed' \subseteq Notebooks /\ removals' \in 0..Removals /\ disturbed' \subseteq Calls
  BY <1>1, BoundAssumption DEF Reindex, RemovedElsewhere, TypedCalls
<1>5. rows' \subseteq Nat \X Paths
  <2>1. RowsOf(docs) \subseteq Nat \X Paths
    BY <1>1 DEF KernelOK, RowsOf, Doc
  <2> QED
    BY <1>1, <2>1 DEF Reindex, RemovedElsewhere
<1>6. TypedCalls'
  BY <1>1, <1>2, <1>4 DEF TypedCalls
<1>7. TypeOK'
  <2>1. \A d \in Calls : call'[d] = None \/ call'[d].tool \in Tools
    BY <1>6, ArgsOfTool DEF TypedCalls
  <2> QED
    BY <1>3, <1>4, <1>5, <1>6, <2>1 DEF TypeOK, KernelOK, TypedCalls
<1>8. ASSUME NEW c \in Calls PROVE Shape(c)' /\ Exact(c)'
  <2>1. Items(c)' = Items(c)
    BY <1>2 DEF Items
  <2> QED
    BY <1>1, <1>2, <2>1 DEF Shape, Exact, Unreported, Tallies
<1> QED
  BY <1>6, <1>7, <1>8 DEF IInv, TypedCalls, ReportIsExact

LEMMA NextIInv == IInv /\ [Next]_vars => IInv'
<1> SUFFICES ASSUME IInv, [Next]_vars PROVE IInv'
  OBVIOUS
<1>1. ASSUME NEW c \in Calls, Fail(c) \/ Cancel(c) PROVE IInv'
  BY <1>1, StopStep DEF Fail, Cancel, Working
<1>2. CASE UNCHANGED vars
  BY <1>2 DEF vars, IInv, TypeOK, IdsOf, Shape, Unreported, Tallies, Items, ItemsOf,
              ReportIsExact, Exact
<1> QED
  BY <1>1, <1>2, BeginStep, LookupStep, FinishStep, MoveStep, RetitleStep, DailyStep, BulkStep,
     EnvironmentStep DEF Next

LEMMA Invariance == Spec => []IInv
BY InitIInv, NextIInv, PTL DEF Spec

(* Every variable of Documents keeps its type: the kernel's documents have *)
(* distinct ids below the next one, whatever calls create, move, rename,   *)
(* remove and index them and in whatever order.                            *)
THEOREM TypeCorrect == Spec => []TypeOK
<1>1. IInv => TypeOK
  BY DEF IInv
<1> QED
  BY <1>1, Invariance, PTL

(* The answers of create_document, get_or_create_doc, move_doc,            *)
(* rename_doc, the batches, daily_note and capture_task say what the       *)
(* kernel did, with any number of calls, items, lost requests and removals *)
(* by another client.                                                      *)
THEOREM ReportCorrect == Spec => []ReportIsExact
<1>1. IInv => ReportIsExact
  BY DEF IInv
<1> QED
  BY <1>1, Invariance, PTL

-----------------------------------------------------------------------------
(* get_or_create_doc by a call that is alone                               *)

(* What c, which no other call and no other client disturbed, can rely on: *)
(* nobody else is at work; while it asks the index the index is current;   *)
(* once it knows that its path has no document, or which, that stays so.   *)
Settled(c) ==
    Working(c) =>
        /\ \A d \in Calls \ {c} : ~Working(d)
        /\ pc[c] = "lookup" => rows = RowsOf(docs)
        /\ pc[c] = "create" /\ call[c].tool = "get_or_create_doc" => At(docs, call[c].path) = {}
        /\ pc[c] = "update" => block[c] \in IdsOf(At(docs, call[c].path))

UpsertInv == IInv /\ \A c \in Calls \ disturbed : Settled(c)

StepOf(c) ==
    \/ Begin(c) \/ Lookup(c) \/ Finish(c) \/ Move(c) \/ Retitle(c)
    \/ ListNotebooks(c) \/ OpenDailyNote(c) \/ BulkItem(c) \/ Fail(c) \/ Cancel(c)

(* A call that is at work, or begins, takes a step; the others wait.       *)
LEMMA OneSteps ==
    ASSUME IInv, NEW c \in Calls, StepOf(c)
    PROVE  /\ Begin(c) \/ (Working(c) /\ UNCHANGED disturbed)
           /\ \A d \in Calls \ {c} : pc'[d] = pc[d] /\ result'[d] = result[d]
<1>1. TypedCalls
  BY Known
<1>2. Begin(c) \/ (Working(c) /\ UNCHANGED disturbed)
  <2>1. Lookup(c) \/ Finish(c) \/ Move(c) \/ Retitle(c) => Working(c) /\ UNCHANGED disturbed
    BY DEF Lookup, Finish, Move, Retitle, Working, Requests
  <2>2. ListNotebooks(c) \/ OpenDailyNote(c) \/ BulkItem(c) => Working(c) /\ UNCHANGED disturbed
    BY DEF ListNotebooks, OpenDailyNote, BulkItem, Working, Requests
  <2>3. Fail(c) \/ Cancel(c) => Working(c) /\ UNCHANGED disturbed
    BY DEF Fail, Cancel, Working
  <2> QED
    BY <2>1, <2>2, <2>3 DEF StepOf
<1>3. \A d \in Calls \ {c} : pc'[d] = pc[d] /\ result'[d] = result[d]
  <2>1. \A x : Goto(c, x) => \A d \in Calls \ {c} : pc'[d] = pc[d] /\ result'[d] = result[d]
    BY <1>1 DEF Goto, TypedCalls
  <2>2. \A x : End(c, x) => \A d \in Calls \ {c} : pc'[d] = pc[d] /\ result'[d] = result[d]
    BY <1>1 DEF End, TypedCalls
  <2>3. \E x : Goto(c, x) \/ End(c, x)
    BY DEF StepOf, Begin, Lookup, Finish, Move, Retitle, ListNotebooks, OpenDailyNote, BulkItem,
           Report, Fail, Cancel
  <2> QED
    BY <2>1, <2>2, <2>3
<1> QED
  BY <1>2, <1>3

(* While c is at work and undisturbed, no other call takes a step.         *)
LEMMA OthersWait ==
    ASSUME UpsertInv, NEW c \in Calls, c \notin disturbed', Working(c),
           NEW d \in Calls, StepOf(d)
    PROVE  d = c
<1> SUFFICES ASSUME d # c PROVE FALSE
  OBVIOUS
<1>1. Begin(d) \/ (Working(d) /\ UNCHANGED disturbed)
  BY OneSteps DEF UpsertInv
<1>2. CASE Begin(d)
  BY <1>2 DEF Begin, Disturbs
<1>3. CASE Working(d) /\ UNCHANGED disturbed
  BY <1>3 DEF UpsertInv, Settled
<1> QED
  BY <1>1, <1>2, <1>3

(* What the index answers when it is current.                              *)
LEMMA CurrentIndex ==
    ASSUME NEW path, NEW hits, hits = {r \in RowsOf(docs) : r[2] = path}
    PROVE  /\ hits = {} => At(docs, path) = {}
           /\ \A r \in hits : r[1] \in IdsOf(At(docs, path))
<1>1. \A d \in docs : <<d.id, d.path>> \in RowsOf(docs)
  BY DEF RowsOf
<1>2. ASSUME NEW r \in hits PROVE r[1] \in IdsOf(At(docs, path))
  BY DEF RowsOf, IdsOf, At
<1>3. ASSUME NEW d \in At(docs, path) PROVE <<d.id, d.path>> \in hits
  <2>1. d \in docs /\ d.path = path /\ <<d.id, d.path>>[2] = path
    BY DEF At
  <2> QED
    BY <1>1, <2>1
<1> QED
  BY <1>2, <1>3

LEMMA SettledStays ==
    ASSUME UpsertInv, [Next]_vars
    PROVE  UpsertInv'
<1>1. IInv /\ IInv' /\ TypedCalls
  BY NextIInv, Known DEF UpsertInv
<1> SUFFICES ASSUME NEW c \in Calls, c \notin disturbed', Working(c)' PROVE Settled(c)'
  BY <1>1 DEF UpsertInv, Settled
<1>2. CASE UNCHANGED vars
  BY <1>2 DEF vars, UpsertInv, Settled, Working
<1>3. CASE Reindex
  <2>1. UNCHANGED <<docs, pc, call, block, disturbed>> /\ rows' = RowsOf(docs)
    BY <1>3 DEF Reindex, own
  <2> QED
    BY <2>1 DEF UpsertInv, Settled, Working
<1>4. ~ RemovedElsewhere
  BY DEF RemovedElsewhere, Working
<1>5. ASSUME NEW d \in Calls, StepOf(d) PROVE Settled(c)'
  <2>1. d = c
    <3>1. d # c => pc'[c] = pc[c]
      BY <1>1, <1>5, OneSteps
    <3> QED
      BY <1>5, <3>1, OthersWait DEF Working
  <2>2. \A e \in Calls \ {c} : ~Working(e)'
    <3>1. \A e \in Calls \ {c} : ~Working(e)
      <4>1. CASE Begin(c)
        BY <4>1 DEF Begin, Disturbs
      <4>2. CASE Working(c) /\ UNCHANGED disturbed
        BY <4>2 DEF UpsertInv, Settled
      <4> QED
        BY <1>1, <1>5, <2>1, <4>1, <4>2, OneSteps
    <3> QED
      BY <1>1, <1>5, <2>1, <3>1, OneSteps DEF Working
  <2>3. CASE Begin(c)
    <3>1. PICK a \in ArgsOn(IdsOf(docs)) :
            /\ call' = [call EXCEPT ![c] = a]
            /\ \/ \E r : End(c, r)
               \/ Goto(c, First(a))
      BY <2>3 DEF Begin
    <3>2. a \in Args /\ UNCHANGED <<docs, rows>>
      <4>1. IdsOf(docs) \subseteq Nat
        BY <1>1 DEF IInv, TypeOK, IdsOf, Doc
      <4> QED
        BY <2>3, <4>1, ArgsGrow DEF Begin, kernel
    <3>3. call'[c] = a /\ pc'[c] = First(a)
      BY <1>1, <3>1 DEF TypedCalls, End, Goto, Working, Requests
    <3>4. rows = RowsOf(docs)
      BY <2>3 DEF Begin, Disturbs
    <3>5. /\ pc'[c] # "update"
          /\ pc'[c] = "create" => call'[c].tool # "get_or_create_doc"
      BY <3>2, <3>3, FirstIsRequest
    <3> QED
      BY <2>2, <3>2, <3>4, <3>5 DEF Settled
  <2>4. CASE Lookup(c)
    <3> DEFINE hits == {r \in rows : r[2] = call[c].path}
    <3>1. /\ UNCHANGED <<docs, rows, call>> /\ rows = RowsOf(docs)
          /\ \/ (\E r \in hits : block' = [block EXCEPT ![c] = r[1]]) /\ pc'[c] = "update"
             \/ hits = {} /\ pc'[c] = "create"
      BY <1>1, <2>4 DEF Lookup, kernel, Goto, End, TypedCalls, Working, Requests, UpsertInv, Settled
    <3>2. /\ hits = {} => At(docs, call[c].path) = {}
          /\ \A r \in hits : r[1] \in IdsOf(At(docs, call[c].path))
      BY <3>1, CurrentIndex
    <3> HIDE DEF hits
    <3>3. pc'[c] = "update" => block'[c] \in IdsOf(At(docs, call[c].path))
      BY <1>1, <3>1, <3>2 DEF TypedCalls
    <3>4. pc'[c] = "create" => At(docs, call[c].path) = {}
      BY <3>1, <3>2
    <3>5. pc'[c] # "lookup"
      BY <3>1
    <3> QED
      BY <2>2, <3>1, <3>3, <3>4, <3>5 DEF Settled
  <2>5. CASE \/ Finish(c) \/ Move(c) \/ Retitle(c) \/ ListNotebooks(c) \/ OpenDailyNote(c)
             \/ BulkItem(c) \/ Fail(c) \/ Cancel(c)
    <3>1. pc'[c] \in {"done", "title", "daily", "append", "item"}
      BY <1>1, <2>5 DEF Finish, Move, Retitle, ListNotebooks, OpenDailyNote, BulkItem, Report, Fail,
                       Cancel, Goto, End, TypedCalls
    <3> QED
      BY <2>2, <3>1 DEF Settled
  <2> QED
    BY <1>5, <2>1, <2>3, <2>4, <2>5 DEF StepOf
<1> QED
  BY <1>2, <1>3, <1>4, <1>5 DEF Next, StepOf

(* A document made where there was none is the only one there.             *)
LEMMA OnlyOne ==
    ASSUME NEW path, At(docs, path) = {}, NEW new, new.path = path, docs' = docs \cup {new}
    PROVE  Cardinality(At(docs', path)) = 1
<1>1. At(docs', path) = {new}
  BY DEF At
<1> QED
  BY <1>1, FS_Singleton

LEMMA UpsertStep ==
    ASSUME UpsertInv, [Next]_vars, NEW c \in Calls, c \notin disturbed'
    PROVE  UpsertIsRight(c)
<1>1. IInv /\ TypedCalls
  BY Known DEF UpsertInv
<1> SUFFICES ASSUME result'[c] # result[c], call[c] # None, call[c].tool = "get_or_create_doc",
                    result'[c] \in {"created", "found", "updated"}
             PROVE  /\ result'[c] = "created" => Cardinality(At(docs', call[c].path)) = 1
                    /\ result'[c] \in {"found", "updated"}
                         => block'[c] \in IdsOf(At(docs', call[c].path))
  BY DEF UpsertIsRight
<1>2. StepOf(c)
  <2>1. ~ UNCHANGED vars /\ ~ Reindex /\ ~ RemovedElsewhere
    BY DEF vars, Reindex, RemovedElsewhere, own
  <2>2. PICK d \in Calls : StepOf(d)
    BY <2>1 DEF Next, StepOf
  <2>3. d = c
    BY <1>1, <2>2, OneSteps
  <2> QED
    BY <2>2, <2>3
<1>3. \A r : End(c, r) => r = result'[c]
  BY <1>1 DEF End, TypedCalls
<1>4. \A x : ~Goto(c, x)
  BY DEF Goto
<1>5. \/ Lookup(c) /\ End(c, "found")
      \/ Finish(c) /\ pc[c] = "create" /\ Applies(c) /\ End(c, "created")
      \/ Finish(c) /\ pc[c] = "update" /\ Applies(c) /\ End(c, "updated")
  BY <1>2, <1>3, <1>4 DEF StepOf, Begin, Lookup, Finish, Move, Retitle, ListNotebooks, OpenDailyNote,
                          BulkItem, Report, Fail, Cancel
<1>6. Settled(c) /\ Working(c)
  <2>1. UNCHANGED disturbed /\ Working(c)
    BY <1>5 DEF Lookup, Finish, Working, Requests
  <2> QED
    BY <2>1 DEF UpsertInv
<1>7. CASE Lookup(c) /\ End(c, "found")
  <2> DEFINE hits == {r \in rows : r[2] = call[c].path}
  <2>1. /\ UNCHANGED docs /\ rows = RowsOf(docs)
        /\ \E r \in hits : block' = [block EXCEPT ![c] = r[1]]
    BY <1>4, <1>6, <1>7 DEF Lookup, kernel, Settled
  <2>2. \A r \in hits : r[1] \in IdsOf(At(docs, call[c].path))
    BY <2>1, CurrentIndex
  <2> HIDE DEF hits
  <2>3. block'[c] \in IdsOf(At(docs, call[c].path))
    BY <1>1, <2>1, <2>2 DEF TypedCalls
  <2>4. result'[c] = "found"
    BY <1>3, <1>7
  <2> QED
    BY <2>1, <2>3, <2>4
<1>8. CASE pc[c] = "create" /\ Applies(c) /\ End(c, "created")
  <2>1. result'[c] = "created" /\ At(docs, call[c].path) = {}
    BY <1>3, <1>6, <1>8 DEF Settled
  <2>2. Creates(c, call[c].path, 1)
    BY <1>8 DEF Applies
  <2>3. Cardinality(At(docs', call[c].path)) = 1
    <3> DEFINE new == [id |-> next, path |-> call[c].path, body |-> c]
    <3>1. docs' = docs \cup {new} /\ new.path = call[c].path
      BY <2>2 DEF Creates
    <3> HIDE DEF new
    <3> QED
      BY <2>1, <3>1, OnlyOne
  <2> QED
    BY <2>1, <2>3
<1>9. CASE pc[c] = "update" /\ Applies(c) /\ End(c, "updated") /\ Finish(c)
  <2>1. /\ result'[c] = "updated" /\ UNCHANGED block
        /\ block[c] \in IdsOf(At(docs, call[c].path))
    BY <1>3, <1>6, <1>9 DEF Settled, Finish
  <2> DEFINE f == [d \in docs |-> [d EXCEPT !.body = c]]
  <2>2. docs' = {IF d.id \in {block[c]} THEN f[d] ELSE d : d \in docs}
    BY <1>9 DEF Applies, Changes
  <2>3. PICK d \in docs : d.id = block[c] /\ d.path = call[c].path
    BY <2>1 DEF IdsOf, At
  <2>4. f[d].id = d.id /\ f[d].path = d.path
    BY <1>1, <2>3 DEF IInv, TypeOK, Doc
  <2> HIDE DEF f
  <2>5. f[d] \in At(docs', call[c].path)
    BY <2>2, <2>3, <2>4 DEF At
  <2> QED
    BY <2>1, <2>3, <2>4, <2>5 DEF IdsOf
<1> QED
  BY <1>5, <1>7, <1>8, <1>9

(* get_or_create_doc by a call that no other call overlaps and no other    *)
(* client disturbs, begun when the index was current: a document it        *)
(* creates is the only one at its path, and one it finds or updates is     *)
(* there, with any number of calls and lost requests before it.            *)
THEOREM UpsertCorrect == Spec => UpsertIsIdempotent
<1>1. Init => UpsertInv
  <2>1. Init => \A c \in Calls : Settled(c)
    BY DEF Init, Settled, Working, Requests
  <2> QED
    BY <2>1, InitIInv DEF UpsertInv
<1>2. UpsertInv /\ [Next]_vars => UpsertInv'
  BY SettledStays
<1>3. UpsertInv /\ [Next]_vars => [\A c \in Calls \ disturbed' : UpsertIsRight(c)]_vars
  BY UpsertStep
<1> QED
  BY <1>1, <1>2, <1>3, PTL DEF Spec, UpsertIsIdempotent

=============================================================================
