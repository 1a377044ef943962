------------------------------ MODULE Deletes --------------------------------
(***************************************************************************)
(* The destructive tools of mcp_siyuan/tools/write.py: the confirmation    *)
(* gate, delete_block, delete_doc and remove_notebook, with the replay     *)
(* cache around the first two, a kernel whose SQL index may lag behind its *)
(* tree, and other editors of the workspace.                               *)
(*                                                                         *)
(* The cache appears as ReplayCache promises it (Idempotency implements    *)
(* that): a memory of answers that may be forgotten at any time.  A kernel *)
(* request and its answer are one step: the kernel acts and the tool goes  *)
(* on to its next await.  Ids are never used twice, and an in-app undo of  *)
(* a deletion is left out.                                                 *)
(***************************************************************************)
CONSTANTS
    Calls,      \* invocations of the three tools
    Targets,    \* ids of blocks, documents and notebooks
    Kind,       \* Kind[t]: "block", "doc" or "notebook"
    Contents,   \* Contents[t]: what disappears with t, t included
    Keys,       \* valid idempotency keys
    Faults,     \* "error": a kernel request raises SiYuanError though the
                \*   kernel gave no verdict; "raw": it raises anything else
    Lagging,    \* the index may be behind the tree when a call reads it
    None

Tools  == {"delete_block", "delete_doc", "remove_notebook"}
Kinds  == {"block", "doc", "notebook"}

ASSUME KindAssumption   == Kind \in [Targets -> Kinds]
ASSUME ContentsAssumption ==
    /\ Contents \in [Targets -> SUBSET Targets]
    /\ \A t \in Targets : t \in Contents[t]
    /\ \A t, u \in Targets : u \in Contents[t] => Contents[u] \subseteq Contents[t]
ASSUME FaultsAssumption == Faults \subseteq {"error", "raw"} /\ Lagging \in BOOLEAN

VARIABLES
    born,       \* ids in use so far
    present,    \* targets in the kernel's tree
    rows,       \* targets with a row in the SQL index
    memo,       \* memo[tool, key]: the cached answer and the call that gave it
    pc,         \* pc[c]: the await c is suspended at
    call,       \* call[c]: the arguments of c
    answer,     \* answer[c]: what the tool returned, or is about to
    (* History, read by properties only. *)
    reply,      \* reply[c]: what came of the elicitation
    broken,     \* calls with a kernel request that failed without a verdict
    misled,     \* calls to which a lagging index denied a document
    unseen,     \* <<c, t>>: block t of c's target came after c's count, or
                \*   was missed by it
    removed     \* <<c, what went>>: removals requested by calls

kernel == <<born, present, rows>>
vars   == <<born, present, rows, memo, pc, call, answer, reply, broken, misled, unseen, removed>>

Replies == {"none", "unavailable", "accept", "accept_null", "accept_false",
            "decline", "cancel"}
Answers == {"none", "deleted", "already_absent", "cancelled", "rejected", "failed"}
Requests == {"delete", "info", "type", "row", "children", "remove"}
Args    == [tool : Tools, target : Targets, key : Keys \cup {None}, require_empty : BOOLEAN]
CacheIds == {"delete_block", "delete_doc"} \X Keys

ASSUME NoneAssumption == None \notin Args \cup Keys

TypeOK ==
    /\ born \subseteq Targets /\ present \subseteq born /\ rows \subseteq born
    /\ memo \in [CacheIds -> [answer : Answers, by : Calls] \cup {None}]
    /\ pc \in [Calls -> {"idle", "confirm", "return", "done"} \cup Requests]
    /\ call \in [Calls -> Args \cup {None}]
    /\ answer \in [Calls -> Answers]
    /\ reply \in [Calls -> Replies]
    /\ broken \subseteq Calls /\ misled \subseteq Calls /\ unseen \subseteq Calls \X Targets
    /\ removed \subseteq Calls \X SUBSET Targets

-----------------------------------------------------------------------------
Target(c)    == call[c].target
CacheId(c)   == <<call[c].tool, call[c].key>>
Cacheable(c) == call[c].key # None
Parents(t)   == {u \in Targets \ {t} : t \in Contents[u]}
Inside(t)    == Contents[t] \ {t}

(* The blocks of a document, but for empty paragraphs; a document below it *)
(* has its own.                                                            *)
Own(t) ==
    {u \in Inside(t) : Kind[u] = "block" /\ \A v \in Inside(t) : Kind[v] = "doc" => u \notin Contents[v]}

Goto(c, place) == pc' = [pc EXCEPT ![c] = place] /\ UNCHANGED answer

(* _call() is over with answer a; with_idempotency goes on from here.      *)
Conclude(c, a) ==
    /\ pc' = [pc EXCEPT ![c] = "return"]
    /\ answer' = [answer EXCEPT ![c] = a]

(* The tool ends with answer a, or raises: nothing is cached.              *)
End(c, a) ==
    /\ pc' = [pc EXCEPT ![c] = "done"]
    /\ answer' = [answer EXCEPT ![c] = a]

(* The request at hand raises SiYuanError without a verdict of the kernel  *)
(* on the target: unreachable, or its answer lost.                         *)
Breaks(c) == "error" \in Faults /\ broken' = broken \cup {c}

(* The index follows the tree at once, or some time later (Reindex).       *)
Index == IF Lagging THEN UNCHANGED rows ELSE rows' = present'

Delete(t) ==
    /\ t \in present
    /\ present' = present \ Contents[t]
    /\ Index
    /\ UNCHANGED born

(* c's request takes the target out of the tree, with its contents.        *)
Removes(c) ==
    /\ Delete(Target(c))
    /\ removed' = removed \cup {<<c, Contents[Target(c)] \cap present>>}

Spares == UNCHANGED <<kernel, removed>>

-----------------------------------------------------------------------------
(* Mutant of Proceeds: the answer's value is not looked at. *)
ProceedsUnlessRefused(r) == r \in {"unavailable", "accept", "accept_null", "accept_false"}

(* _confirm_destructive: who may proceed.  An elicitation that raises, is  *)
(* not supported or gets no answer in 5 s lets the operation through.      *)
Proceeds(r) == r \in {"unavailable", "accept", "accept_null"}

Begin(c) ==
    /\ pc[c] = "idle"
    /\ \E a \in Args :
          /\ a.target \in born
          /\ a.tool # "delete_doc" => ~a.require_empty
          /\ a.tool = "remove_notebook" <=> Kind[a.target] = "notebook"
          /\ a.tool = "remove_notebook" => a.key = None
          /\ call' = [call EXCEPT ![c] = a]
    /\ pc' = [pc EXCEPT ![c] = "confirm"]
    /\ UNCHANGED <<kernel, memo, answer, reply, broken, misled, unseen, removed>>

(* Mutant of Abort: the confirmation runs inside with_idempotency. *)
AbortAndStore(c) ==
    /\ pc[c] = "confirm"
    /\ \E r \in Replies \ {"none"} : ~Proceeds(r) /\ reply' = [reply EXCEPT ![c] = r]
    /\ Conclude(c, "cancelled")
    /\ UNCHANGED <<kernel, memo, call, broken, misled, unseen, removed>>

(* The user declines: a "cancelled" result, neither cached nor replayed.   *)
Abort(c) ==
    /\ pc[c] = "confirm"
    /\ \E r \in Replies \ {"none"} : ~Proceeds(r) /\ reply' = [reply EXCEPT ![c] = r]
    /\ End(c, "cancelled")
    /\ UNCHANGED <<kernel, memo, call, broken, misled, unseen, removed>>

(* Let through: a live cache entry answers, otherwise the first request is *)
(* made.  The lookup comes after the confirmation.                         *)
Proceed(c) ==
    /\ pc[c] = "confirm"
    /\ \E r \in Replies : Proceeds(r) /\ reply' = [reply EXCEPT ![c] = r]
    /\ IF Cacheable(c) /\ memo[CacheId(c)] # None
       THEN End(c, memo[CacheId(c)].answer)
       ELSE Goto(c, IF call[c].tool = "delete_doc" THEN "info" ELSE "delete")
    /\ UNCHANGED <<kernel, memo, call, broken, misled, unseen, removed>>

(* delete_block: /api/block/deleteBlock.  Every SiYuanError counts as      *)
(* "already absent".  On a document the kernel answers 0 and does nothing. *)
DeleteBlock(c) ==
    /\ pc[c] = "delete" /\ call[c].tool = "delete_block"
    /\ LET deletes == Kind[Target(c)] = "block" /\ Removes(c)
       IN  \/ deletes /\ Conclude(c, "deleted") /\ UNCHANGED broken
           \/ /\ Target(c) \in present /\ Kind[Target(c)] # "block"
              /\ Spares /\ Conclude(c, "deleted") /\ UNCHANGED broken
           \/ /\ Target(c) \notin present
              /\ Spares /\ Conclude(c, "already_absent") /\ UNCHANGED broken
           \/ Breaks(c) /\ (Spares \/ deletes) /\ Conclude(c, "already_absent")
    /\ UNCHANGED <<memo, call, reply, misled, unseen>>

(* remove_notebook: no cache, and every error propagates.                  *)
RemoveNotebook(c) ==
    /\ pc[c] = "delete" /\ call[c].tool = "remove_notebook"
    /\ \/ Removes(c) /\ End(c, "deleted") /\ UNCHANGED broken
       \/ Target(c) \notin present /\ Spares /\ End(c, "failed") /\ UNCHANGED broken
       \/ Breaks(c) /\ (Spares \/ Removes(c)) /\ End(c, "failed")
    /\ UNCHANGED <<memo, call, reply, misled, unseen>>

(* delete_doc, 1: getBlockInfo.  A SiYuanError or an empty answer counts   *)
(* as absent.  The answer may lack the type.                               *)
GetBlockInfo(c) ==
    /\ pc[c] = "info"
    /\ \/ /\ Target(c) \in present
          /\ \/ Kind[Target(c)] # "doc" /\ Goto(c, "type")
             \/ Goto(c, "row")
          /\ UNCHANGED broken
       \/ Target(c) \notin present /\ Conclude(c, "already_absent") /\ UNCHANGED broken
       \/ Breaks(c) /\ Conclude(c, "already_absent")
    /\ Spares /\ UNCHANGED <<memo, call, reply, misled, unseen>>

(* The kernel called it something else: ask the index, and refuse.         *)
CheckType(c) ==
    /\ pc[c] = "type"
    /\ \/ Target(c) \in rows /\ End(c, "rejected") /\ UNCHANGED broken
       \/ Target(c) \notin rows /\ Goto(c, "row") /\ UNCHANGED broken
       \/ Breaks(c) /\ End(c, "failed")
    /\ Spares /\ UNCHANGED <<memo, call, reply, misled, unseen>>

AfterRow(c) == IF call[c].require_empty THEN "children" ELSE "remove"

(* Mutant of FindRow: the type is not part of the query. *)
FindAnyRow(c) ==
    /\ pc[c] = "row"
    /\ Target(c) \in rows /\ Goto(c, AfterRow(c))
    /\ Spares /\ UNCHANGED <<broken, memo, call, reply, misled, unseen>>

(* delete_doc, 2: the index must know a document of that id.               *)
FindRow(c) ==
    /\ pc[c] = "row"
    /\ LET exists == Target(c) \in present /\ Kind[Target(c)] = "doc"
           found  == Target(c) \in rows /\ Kind[Target(c)] = "doc"
       IN  \/ found /\ Goto(c, AfterRow(c)) /\ UNCHANGED <<broken, misled>>
           \/ /\ ~found /\ Conclude(c, "already_absent") /\ UNCHANGED broken
              /\ misled' = IF exists THEN misled \cup {c} ELSE misled
           \/ Breaks(c) /\ End(c, "failed") /\ UNCHANGED misled
    /\ Spares /\ UNCHANGED <<memo, call, reply, unseen>>

(* Mutant of CountChildren: the answer is not looked at. *)
CountInVain(c) ==
    /\ pc[c] = "children"
    /\ Goto(c, "remove")
    /\ Spares /\ UNCHANGED <<broken, memo, call, reply, misled, unseen>>

(* delete_doc, 3: require_empty, as far as the index knows.                *)
CountChildren(c) ==
    /\ pc[c] = "children"
    /\ LET found == Own(Target(c)) \cap rows # {}
       IN  \/ found /\ End(c, "rejected") /\ UNCHANGED <<broken, unseen>>
           \/ /\ ~found /\ Goto(c, "remove") /\ UNCHANGED broken
              /\ unseen' = unseen \cup ({c} \X (Own(Target(c)) \cap present))
           \/ Breaks(c) /\ End(c, "failed") /\ UNCHANGED unseen
    /\ Spares /\ UNCHANGED <<memo, call, reply, misled>>

(* delete_doc, 4: removeDocByID.  A SiYuanError is logged and ignored.     *)
RemoveDoc(c) ==
    /\ pc[c] = "remove"
    /\ \/ Removes(c) /\ UNCHANGED broken
       \/ Target(c) \notin present /\ Spares /\ UNCHANGED broken
       \/ Breaks(c) /\ (Spares \/ Removes(c))
    /\ Conclude(c, "deleted")
    /\ UNCHANGED <<memo, call, reply, misled, unseen>>

Writes(c) ==
    \/ pc[c] = "remove"
    \/ pc[c] = "delete" /\ Kind[Target(c)] # "doc"

(* Mutant of RaiseRaw: delete_block and delete_doc catch every exception.  *)
RaiseNothing(c) ==
    /\ "raw" \in Faults
    /\ pc[c] \in Requests
    /\ Spares
    /\ Conclude(c, "already_absent")
    /\ UNCHANGED <<memo, call, reply, broken, misled, unseen>>

(* Anything but a SiYuanError (an HTTPStatusError, a cancellation) leaves  *)
(* the tool at any await, with a write done or not.                        *)
RaiseRaw(c) ==
    /\ "raw" \in Faults
    /\ pc[c] \in {"confirm"} \cup Requests
    /\ Spares \/ (Writes(c) /\ Removes(c))
    /\ End(c, "failed")
    /\ UNCHANGED <<memo, call, reply, broken, misled, unseen>>

(* with_idempotency stores what _call() returned, and the tool returns.    *)
Return(c) ==
    /\ pc[c] = "return"
    /\ End(c, answer[c])
    /\ memo' = IF Cacheable(c)
               THEN [memo EXCEPT ![CacheId(c)] = [answer |-> answer[c], by |-> c]]
               ELSE memo
    /\ UNCHANGED <<kernel, call, reply, broken, misled, unseen, removed>>

-----------------------------------------------------------------------------
(* Environment                                                             *)

(* The cache forgets: expiry, eviction, restart.                           *)
Forget(i) ==
    /\ memo[i] # None
    /\ memo' = [memo EXCEPT ![i] = None]
    /\ UNCHANGED <<kernel, pc, call, answer, reply, broken, misled, unseen, removed>>

(* Another client removes a target.                                        *)
RemovedElsewhere(t) ==
    /\ Delete(t)
    /\ UNCHANGED <<memo, pc, call, answer, reply, broken, misled, unseen, removed>>

(* A target comes into being, in parents that are there.                   *)
Created(t) ==
    /\ t \notin born
    /\ Parents(t) \subseteq present
    /\ born' = born \cup {t}
    /\ present' = present \cup {t}
    /\ Index
    /\ unseen' = unseen \cup {<<c, t>> : c \in {d \in Calls : pc[d] = "remove" /\ t \in Own(Target(d))}}
    /\ UNCHANGED <<memo, pc, call, answer, reply, broken, misled, removed>>

(* The kernel's index catches up with its tree.                            *)
Reindex ==
    /\ Lagging
    /\ rows' = present
    /\ UNCHANGED <<born, present, memo, pc, call, answer, reply, broken, misled, unseen, removed>>

Init ==
    /\ born = {} /\ present = {} /\ rows = {}
    /\ memo = [i \in CacheIds |-> None]
    /\ pc = [c \in Calls |-> "idle"]
    /\ call = [c \in Calls |-> None]
    /\ answer = [c \in Calls |-> "none"]
    /\ reply = [c \in Calls |-> "none"]
    /\ broken = {} /\ misled = {} /\ unseen = {}
    /\ removed = {}

ToolStep(c) ==
    \/ Begin(c) \/ Abort(c) \/ Proceed(c)
    \/ DeleteBlock(c) \/ RemoveNotebook(c)
    \/ GetBlockInfo(c) \/ CheckType(c) \/ FindRow(c) \/ CountChildren(c) \/ RemoveDoc(c)
    \/ RaiseRaw(c) \/ Return(c)

Next ==
    \/ \E c \in Calls : ToolStep(c)
    \/ \E i \in CacheIds : Forget(i)
    \/ \E t \in Targets : RemovedElsewhere(t) \/ Created(t)
    \/ Reindex

Spec == Init /\ [][Next]_vars

-----------------------------------------------------------------------------
(* Properties                                                              *)

(* Whatever fails and however calls are interleaved, nothing is removed by *)
(* a call whose user answered "no" (decline, cancel, or false), or was not *)
(* asked although asking was possible.                                     *)
RemovalHasConsent ==
    \A x \in removed : reply[x[1]] \in {"unavailable", "accept", "accept_null"}

(* A refusal is not remembered: a call with the same key whose user agrees *)
(* this time is not answered "cancelled".                                  *)
RefusalIsForgotten ==
    \A c \in Calls :
        answer[c] = "cancelled" => reply[c] \in {"accept_false", "decline", "cancel"}

(* The target is of the kind the tool is for.                              *)
Matches(c) ==
    <<call[c].tool, Kind[Target(c)]>> \in
        {<<"delete_block", "block">>, <<"delete_doc", "doc">>, <<"remove_notebook", "notebook">>}

(* A call removes targets of the kind its tool is for: delete_doc removes  *)
(* documents only, even when getBlockInfo leaves out the type and the      *)
(* index is behind; delete_block never removes a document.                 *)
ToolMatchesKind == \A x \in removed : Matches(x[1])

(* The right tool for the target, and a key, if any, that no call uses for *)
(* another target.                                                         *)
WellUsed(c) ==
    /\ Matches(c)
    /\ Cacheable(c) => \A d \in Calls :
          call[d] # None /\ CacheId(d) = CacheId(c) => Target(d) = Target(c)

(* A tool that reports success, from its own work or replayed, leaves its  *)
(* target gone, others deleting it, its container or its contents at the   *)
(* same time or not; only a request that fails without a verdict, or an    *)
(* index that lags, can make it report what is not so.                     *)
AnsweredIsGone ==
    \A c \in Calls :
        /\ answer[c] \in {"deleted", "already_absent"} /\ WellUsed(c)
        /\ broken = {} /\ misled = {}
        => Target(c) \notin present

(* require_empty costs no block that the index had when the call asked,    *)
(* whichever requests fail and whoever else writes and deletes: what goes  *)
(* of the document was not indexed then, or came later (write.py:1005).    *)
EmptyIsChecked ==
    \A x \in removed :
        call[x[1]].require_empty => {x[1]} \X (x[2] \cap Own(Target(x[1]))) \subseteq unseen

(* cache.py:58: "Store a *successful* tool result. Failures must NOT be    *)
(* cached."                                                                *)
FailuresAreNotCached == \A i \in CacheIds : memo[i] # None => memo[i].by \notin broken

=============================================================================
