------------------------------- MODULE Documents --------------------------------
(***************************************************************************)
(* The tools of mcp_siyuan/tools/write.py that create, place and name      *)
(* documents: create_document, get_or_create_doc, move_doc, rename_doc,    *)
(* daily_note, and the batches bulk_create_documents and bulk_set_attrs;   *)
(* and capture_task of smart.py, which adds to the daily note.  Calls      *)
(* interleave at their kernel requests, the SQL index lags, requests fail  *)
(* with or without effect, and another client removes documents or closes  *)
(* a notebook.  A request and its answer are one step.                     *)
(*                                                                         *)
(* A path is a parent and a title; documents below a moved one are left    *)
(* out, as are paths and batches the tools refuse for their form.  Each    *)
(* call is one run of _call(), see Idempotency for the cache.              *)
(***************************************************************************)
EXTENDS Naturals, Sequences, SequencesExt, FiniteSets

CONSTANTS
    Calls,      \* invocations of the tools
    Folders,    \* notebooks and parent documents
    Notebook,   \* Notebook[f]: the notebook that f is or is in
    Titles,
    Today,      \* the title of the daily note
    Wanted,     \* paths that callers ask for
    Docs0,      \* the documents at first
    MaxItems,   \* bound: the items of a batch, at most _BULK_MAX in the code
    Removals,   \* bound: documents another client removes, notebooks it closes
    None

Paths     == Folders \X Titles
Notebooks == {Notebook[f] : f \in Folders}
Doc       == [id : Nat, path : Paths, body : Calls \cup {None}]

ASSUME DocsAssumption ==
    /\ Docs0 \in SUBSET Doc /\ IsFiniteSet(Docs0)
    /\ {d.id : d \in Docs0} = 1..Cardinality(Docs0)
    /\ \A d, e \in Docs0 : d.id = e.id => d = e
ASSUME NotebookAssumption ==
    /\ Notebook \in [Folders -> Folders] /\ Today \in Titles
    /\ \A n \in Notebooks : Notebook[n] = n
ASSUME BoundAssumption == MaxItems \in Nat /\ Removals \in Nat /\ Wanted \subseteq Paths
ASSUME NoneAssumption  == None \notin Calls \cup Folders \cup Paths \cup Titles \cup Nat

VARIABLES
    docs,       \* the documents in the kernel's open notebooks
    closed,     \* the notebooks that are closed
    rows,       \* <<id, path>> of the documents the SQL index has
    next,       \* the next id
    removals,   \* removals and closings left to the other client
    pc,         \* pc[c]: the request c makes next
    call,       \* call[c]: the arguments of c
    block,      \* block[c]: the document c looked up or opened
    reports,    \* reports[c]: the results of a batch so far
    result,     \* result[c]: what the tool returned
    (* History, read by properties only. *)
    wrote,      \* wrote[c]: what the kernel did for c
    lost,       \* lost[c]: items of c whose request broke
    disturbed   \* calls not alone, or begun when the index was behind

kernel == <<docs, closed, rows, next, removals>>
own    == <<call, block, reports, result>>
vars   == <<docs, closed, rows, next, removals, pc, call, block, reports, result, wrote, lost,
            disturbed>>

Tools    == {"create_document", "get_or_create_doc", "move_doc", "rename_doc",
             "bulk_create_documents", "bulk_set_attrs", "daily_note", "capture_task"}
Requests == {"lookup", "update", "create", "move", "title", "rename", "item",
             "notebooks", "daily", "append"}
Results  == {"none", "found", "updated", "created", "ok", "warned", "batch", "opened", "captured",
             "rejected", "failed", "cancelled"}
Effects  == {"create", "update", "rename", "move", "append", "attrs"}
Batch(items) == {<< >>} \cup [1..MaxItems -> items \cup {None}]

(* What a client can ask for while the documents have these ids; None is   *)
(* an item that lacks a field.                                             *)
ArgsOn(ids) ==
         [tool : {"create_document"}, path : Wanted]
    \cup [tool : {"get_or_create_doc"}, path : Wanted, update : BOOLEAN]
    \cup [tool : {"move_doc"}, from : SUBSET ids \ {{}}, to : Folders, title : Titles \cup {None}]
    \cup [tool : {"rename_doc"}, from : {{i} : i \in ids}, title : Titles]
    \cup [tool : {"bulk_create_documents"}, paths : Batch(Wanted)]
    \cup [tool : {"bulk_set_attrs"}, blocks : Batch(ids)]
    \cup [tool : {"daily_note", "capture_task"}, notebook : Notebooks \cup {None}]

IdsOf(ds) == {d.id : d \in ds}
RowsOf(ds) == {<<d.id, d.path>> : d \in ds}
At(ds, path) == {d \in ds : d.path = path}

TypeOK ==
    /\ docs \subseteq Doc /\ \A d, e \in docs : d.id = e.id => d = e
    /\ closed \subseteq Notebooks
    /\ rows \subseteq Nat \X Paths
    /\ next \in Nat /\ \A i \in IdsOf(docs) : i < next
    /\ removals \in 0..Removals
    /\ pc \in [Calls -> {"idle", "done"} \cup Requests]
    /\ \A c \in Calls : call[c] = None \/ call[c].tool \in Tools
    /\ block \in [Calls -> Nat \cup {None}]
    /\ reports \in [Calls -> Seq({"ok", "error"})]
    /\ result \in [Calls -> Results]
    /\ wrote \in [Calls -> SUBSET (Effects \X Nat)]
    /\ lost \in [Calls -> SUBSET (1..MaxItems)]
    /\ disturbed \subseteq Calls

-----------------------------------------------------------------------------
Goto(c, request) == pc' = [pc EXCEPT ![c] = request] /\ UNCHANGED result

End(c, r) ==
    /\ pc' = [pc EXCEPT ![c] = "done"]
    /\ result' = [result EXCEPT ![c] = r]

Working(c) == pc[c] \in Requests

(* What the kernel does on a request of c.  `place` names what is written: *)
(* the item of a batch, or 1.                                              *)
Wrote(c, effect) == wrote' = [wrote EXCEPT ![c] = @ \cup {effect}]
Spares == UNCHANGED <<docs, next, wrote>>

IsOpen(f) == Notebook[f] \notin closed

Creates(c, path, place) ==
    /\ IsOpen(path[1])
    /\ docs' = docs \cup {[id |-> next, path |-> path, body |-> c]}
    /\ next' = next + 1
    /\ Wrote(c, <<"create", place>>)

(* f[d] is what becomes of d, for the documents with these ids.            *)
Changes(c, ids, f, effect) ==
    /\ ids \subseteq IdsOf(docs)
    /\ docs' = {IF d.id \in ids THEN f[d] ELSE d : d \in docs}
    /\ Wrote(c, effect)
    /\ UNCHANGED next

Retitles(c) ==
    Changes(c, call[c].from, [d \in docs |-> [d EXCEPT !.path[2] = call[c].title]], <<"rename", 1>>)

NotePath(c) == <<call[c].notebook, Today>>
Notes(c)    == At(docs, NotePath(c))

Item(c)  == Len(reports[c]) + 1
ItemsOf(a) == IF a.tool = "bulk_set_attrs" THEN a.blocks ELSE a.paths
Items(c) == ItemsOf(call[c])

(* The request c is about to make takes effect.                            *)
Applies(c) ==
    \/ pc[c] = "create" /\ Creates(c, call[c].path, 1)
    \/ /\ pc[c] = "update"
       /\ Changes(c, {block[c]}, [d \in docs |-> [d EXCEPT !.body = c]], <<"update", 1>>)
    \/ /\ pc[c] = "move"
       /\ IsOpen(call[c].to)
       /\ Changes(c, call[c].from, [d \in docs |-> [d EXCEPT !.path[1] = call[c].to]], <<"move", 1>>)
    \/ pc[c] = "daily" /\ Notes(c) = {} /\ Creates(c, NotePath(c), 1)
    \/ pc[c] = "append" /\ Changes(c, {block[c]}, [d \in docs |-> d], <<"append", 1>>)
    \/ pc[c] \in {"title", "rename"} /\ Retitles(c)
    \/ /\ pc[c] = "item" /\ Items(c)[Item(c)] # None
       /\ \/ /\ call[c].tool = "bulk_create_documents"
             /\ Creates(c, Items(c)[Item(c)], Item(c))
          \/ /\ call[c].tool = "bulk_set_attrs"
             /\ Changes(c, {Items(c)[Item(c)]}, [d \in docs |-> d], <<"attrs", Item(c)>>)

(* The kernel refuses: a document it is asked to change is not there, or   *)
(* the notebook is closed.                                                 *)
Refuses(c) ==
    /\ Spares
    /\ \/ pc[c] = "create" /\ ~IsOpen(call[c].path[1])
       \/ pc[c] = "daily" /\ ~IsOpen(call[c].notebook)
       \/ pc[c] \in {"update", "append"} /\ block[c] \notin IdsOf(docs)
       \/ pc[c] = "move" /\ ~IsOpen(call[c].to)
       \/ pc[c] \in {"move", "title", "rename"} /\ ~(call[c].from \subseteq IdsOf(docs))
       \/ pc[c] = "item" /\ call[c].tool = "bulk_set_attrs" /\ Items(c)[Item(c)] \notin IdsOf(docs)
       \/ /\ pc[c] = "item" /\ call[c].tool = "bulk_create_documents"
          /\ Items(c)[Item(c)] # None /\ ~IsOpen(Items(c)[Item(c)][1])

-----------------------------------------------------------------------------
(* The tools                                                               *)

First(a) ==
    CASE a.tool = "create_document"   -> "create"
      [] a.tool = "get_or_create_doc" -> "lookup"
      [] a.tool = "move_doc"          -> "move"
      [] a.tool = "rename_doc"        -> "rename"
      [] a.tool \in {"daily_note", "capture_task"}
                                      -> IF a.notebook = None THEN "notebooks" ELSE "daily"
      [] OTHER                        -> "item"

(* History: c begins. *)
Disturbs(c) ==
    LET others == {d \in Calls \ {c} : Working(d)}
    IN  disturbed' = disturbed \cup others
                       \cup (IF others # {} \/ rows # RowsOf(docs) THEN {c} ELSE {})

(* A title for several documents, and a batch of none, are answered at     *)
(* once: with an error and with an empty list.                             *)
Begin(c) ==
    /\ pc[c] = "idle"
    /\ \E a \in ArgsOn(IdsOf(docs)) :
          /\ call' = [call EXCEPT ![c] = a]
          /\ IF a.tool = "move_doc" /\ a.title # None /\ Cardinality(a.from) # 1
             THEN End(c, "rejected")
             ELSE IF First(a) = "item" /\ ItemsOf(a) = << >> THEN End(c, "batch")
             ELSE Goto(c, First(a))
    /\ Disturbs(c)
    /\ UNCHANGED <<kernel, block, reports, wrote, lost>>

(* Mutant of Lookup: the notebook is not part of the query. *)
LookupAnywhere(c) ==
    /\ pc[c] = "lookup"
    /\ LET hits == {r \in rows : r[2][2] = call[c].path[2]}
       IN  \/ /\ \E r \in hits : block' = [block EXCEPT ![c] = r[1]]
              /\ IF call[c].update THEN Goto(c, "update") ELSE End(c, "found")
           \/ hits = {} /\ Goto(c, "create") /\ UNCHANGED block
    /\ UNCHANGED <<kernel, call, reports, wrote, lost, disturbed>>

(* get_or_create_doc asks the index for one document with the path.        *)
Lookup(c) ==
    /\ pc[c] = "lookup"
    /\ LET hits == {r \in rows : r[2] = call[c].path}
       IN  \/ /\ \E r \in hits : block' = [block EXCEPT ![c] = r[1]]
              /\ IF call[c].update THEN Goto(c, "update") ELSE End(c, "found")
           \/ hits = {} /\ Goto(c, "create") /\ UNCHANGED block
    /\ UNCHANGED <<kernel, call, reports, wrote, lost, disturbed>>

(* The last request of create_document, get_or_create_doc, rename_doc and  *)
(* capture_task.                                                           *)
Finish(c) ==
    /\ \/ pc[c] = "create" /\ Applies(c) /\ End(c, "created")
       \/ pc[c] = "update" /\ Applies(c) /\ End(c, "updated")
       \/ pc[c] = "rename" /\ Applies(c) /\ End(c, "ok")
       \/ pc[c] = "append" /\ Applies(c) /\ End(c, "captured")
       \/ pc[c] \in {"create", "update", "rename", "append"} /\ Refuses(c) /\ End(c, "failed")
    /\ UNCHANGED <<closed, rows, removals, call, block, reports, lost, disturbed>>

Move(c) ==
    /\ pc[c] = "move"
    /\ \/ Applies(c) /\ (IF call[c].title = None THEN End(c, "ok") ELSE Goto(c, "title"))
       \/ Refuses(c) /\ End(c, "failed")
    /\ UNCHANGED <<closed, rows, removals, call, block, reports, lost, disturbed>>

(* Mutant of Retitle: nobody hears of a title that was not given. *)
RetitleQuietly(c) ==
    /\ pc[c] = "title"
    /\ (Applies(c) \/ Spares) /\ End(c, "ok")
    /\ UNCHANGED <<closed, rows, removals, call, block, reports, lost, disturbed>>

(* move_doc's second request is best effort: whatever is raised, the move  *)
(* stands and the result has a warning.                                    *)
Retitle(c) ==
    /\ pc[c] = "title"
    /\ \/ Applies(c) /\ End(c, "ok")
       \/ (Applies(c) \/ Spares) /\ End(c, "warned")
    /\ UNCHANGED <<closed, rows, removals, call, block, reports, lost, disturbed>>

(* lsNotebooks: the first open one, unless there is none.                  *)
ListNotebooks(c) ==
    /\ pc[c] = "notebooks"
    /\ \/ /\ \E n \in Notebooks \ closed : call' = [call EXCEPT ![c].notebook = n]
          /\ Goto(c, "daily")
       \/ Notebooks \subseteq closed /\ End(c, "failed") /\ UNCHANGED call
    /\ UNCHANGED <<kernel, block, reports, wrote, lost, disturbed>>

(* createDailyNote: today's note of the notebook, made unless it is there; *)
(* for capture_task the task is to be added to it.                         *)
OpenDailyNote(c) ==
    /\ pc[c] = "daily"
    /\ \/ /\ \/ Applies(c) /\ block' = [block EXCEPT ![c] = next]
             \/ Spares /\ \E d \in Notes(c) : block' = [block EXCEPT ![c] = d.id]
          /\ IF call[c].tool = "daily_note" THEN End(c, "opened") ELSE Goto(c, "append")
       \/ Refuses(c) /\ End(c, "failed") /\ UNCHANGED block
    /\ UNCHANGED <<closed, rows, removals, call, reports, lost, disturbed>>

(* The next item of a batch has outcome r.                                 *)
Report(c, r) ==
    /\ reports' = [reports EXCEPT ![c] = Append(@, r)]
    /\ IF Item(c) = Len(Items(c)) THEN End(c, "batch") ELSE Goto(c, "item")

(* One item: refused without a request, done, refused by the kernel, or    *)
(* its request breaks with a SiYuanError, with effect or without.          *)
BulkItem(c) ==
    /\ pc[c] = "item"
    /\ \/ Applies(c) /\ Report(c, "ok") /\ UNCHANGED lost
       \/ Refuses(c) /\ Report(c, "error") /\ UNCHANGED lost
       \/ Items(c)[Item(c)] = None /\ Spares /\ Report(c, "error") /\ UNCHANGED lost
       \/ /\ Items(c)[Item(c)] # None /\ (Applies(c) \/ Spares)
          /\ Report(c, "error")
          /\ lost' = [lost EXCEPT ![c] = @ \cup {Item(c)}]
    /\ UNCHANGED <<closed, rows, removals, call, block, disturbed>>

(* A request raises and the tool lets it pass: any exception, in a batch   *)
(* those that are neither SiYuanError nor ValueError (an HTTPStatusError), *)
(* and none for the title of a moved document.                             *)
Fail(c) ==
    /\ pc[c] \in Requests \ {"title"}
    /\ pc[c] = "item" => Items(c)[Item(c)] # None
    /\ Applies(c) \/ Spares
    /\ End(c, "failed")
    /\ UNCHANGED <<closed, rows, removals, call, block, reports, lost, disturbed>>

(* The client goes away while a request is under way.                      *)
Cancel(c) ==
    /\ Working(c)
    /\ pc[c] = "item" => Items(c)[Item(c)] # None
    /\ Applies(c) \/ Spares
    /\ End(c, "cancelled")
    /\ UNCHANGED <<closed, rows, removals, call, block, reports, lost, disturbed>>

-----------------------------------------------------------------------------
(* Environment                                                             *)

Reindex ==
    /\ rows' = RowsOf(docs)
    /\ UNCHANGED <<docs, closed, next, removals, pc, own, wrote, lost, disturbed>>

(* Another client removes a document, or closes a notebook; moves and      *)
(* renames of others are like those of a second call.                      *)
RemovedElsewhere ==
    /\ removals > 0 /\ removals' = removals - 1
    /\ \/ \E d \in docs : docs' = docs \ {d} /\ UNCHANGED closed
       \/ \E n \in Notebooks \ closed :
             /\ closed' = closed \cup {n}
             /\ docs' = {d \in docs : Notebook[d.path[1]] # n}
    /\ disturbed' = disturbed \cup {c \in Calls : Working(c)}
    /\ UNCHANGED <<rows, next, pc, own, wrote, lost>>

Init ==
    /\ docs = Docs0 /\ rows = RowsOf(Docs0) /\ closed = {}
    /\ next = Cardinality(Docs0) + 1
    /\ removals = Removals
    /\ pc = [c \in Calls |-> "idle"]
    /\ call = [c \in Calls |-> None]
    /\ block = [c \in Calls |-> None]
    /\ reports = [c \in Calls |-> << >>]
    /\ result = [c \in Calls |-> "none"]
    /\ wrote = [c \in Calls |-> {}]
    /\ lost = [c \in Calls |-> {}]
    /\ disturbed = {}

Next ==
    \/ \E c \in Calls :
          \/ Begin(c) \/ Lookup(c) \/ Finish(c) \/ Move(c) \/ Retitle(c)
          \/ ListNotebooks(c) \/ OpenDailyNote(c) \/ BulkItem(c) \/ Fail(c) \/ Cancel(c)
    \/ Reindex
    \/ RemovedElsewhere

Spec == Init /\ [][Next]_vars

-----------------------------------------------------------------------------
(* Properties                                                              *)

(* c, a get_or_create_doc, ends: what it answers is true of its path.      *)
UpsertIsRight(c) ==
    result'[c] # result[c] /\ call[c] # None /\ call[c].tool = "get_or_create_doc" =>
        /\ result'[c] = "created" => Cardinality(At(docs', call[c].path)) = 1
        /\ result'[c] \in {"found", "updated"} => block'[c] \in IdsOf(At(docs', call[c].path))

(* get_or_create_doc, by a call that is alone and begins with a current    *)
(* index: what it creates is the only document at its path, what it finds  *)
(* or updates is a document there; whatever failed before it, a retry      *)
(* after a lost answer included.                                           *)
UpsertIsIdempotent == [][\A c \in Calls \ disturbed' : UpsertIsRight(c)]_vars

(* What the results of a call say.                                         *)
Exact(c) ==
    /\ result[c] \in {"found", "rejected"} => wrote[c] = {}
    /\ result[c] = "created" => wrote[c] = {<<"create", 1>>}
    /\ result[c] = "updated" => wrote[c] = {<<"update", 1>>}
    /\ result[c] = "opened" => wrote[c] \subseteq {<<"create", 1>>}
    /\ result[c] = "captured"
         => <<"append", 1>> \in wrote[c] /\ wrote[c] \subseteq {<<"create", 1>>, <<"append", 1>>}
    /\ result[c] \in {"ok", "warned"} /\ call[c].tool = "move_doc"
         => /\ <<"move", 1>> \in wrote[c]
            /\ result[c] = "ok" => (<<"rename", 1>> \in wrote[c] <=> call[c].title # None)
    /\ result[c] = "batch" =>
         /\ Len(reports[c]) = Len(Items(c))
         /\ \A k \in DOMAIN Items(c) \ lost[c] :
               reports[c][k] = "ok" <=> \E e \in wrote[c] : e[2] = k

(* The results say what was done.  An item of a batch is reported at its   *)
(* own place, and "ok" exactly if it was done, unless its request broke;   *)
(* a moved document without a warning has its title; a captured task is in *)
(* the note; a lookup that finds writes nothing.                           *)
ReportIsExact == \A c \in Calls : Exact(c)

=============================================================================
