----------------------------- MODULE DeletesProofs -----------------------------
(***************************************************************************)
(* Proofs about Deletes, for any number of calls, any targets nested in    *)
(* each other in any way, any keys and every set of faults, with an index  *)
(* that lags or not.                                                       *)
(***************************************************************************)
EXTENDS Deletes, TLAPS

Success == {"deleted", "already_absent"}

(* What a call's place in its tool says of its arguments and its user.     *)
Shape(c) ==
    /\ IF pc[c] = "idle" THEN call[c] = None
       ELSE /\ call[c] \in Args /\ Target(c) \in born
            /\ call[c].tool = "remove_notebook" <=> Kind[Target(c)] = "notebook"
            /\ call[c].tool = "remove_notebook" => call[c].key = None
    /\ pc[c] \in {"idle", "confirm"} => reply[c] = "none" /\ answer[c] = "none"
    /\ pc[c] \in Requests => Proceeds(reply[c]) /\ answer[c] = "none"
    /\ pc[c] = "return" =>
          Proceeds(reply[c]) /\ answer[c] \in Success /\ call[c].tool # "remove_notebook"
    /\ pc[c] = "delete" => call[c].tool \in {"delete_block", "remove_notebook"}
    /\ pc[c] \in Requests \ {"delete"} => call[c].tool = "delete_doc"
    /\ pc[c] \in {"children", "remove"} => Kind[Target(c)] = "doc"

(* The cache answers with what a finished call under the same tool and key *)
(* answered, and that was a success.                                       *)
Memory ==
    \A i \in CacheIds : memo[i] # None =>
        LET d == memo[i].by
        IN  /\ d \in Calls /\ pc[d] = "done"
            /\ Cacheable(d) /\ CacheId(d) = i
            /\ answer[d] = memo[i].answer /\ answer[d] \in Success

(* Who removed something was let through, and used the right tool.         *)
Removers ==
    \A x \in removed :
        /\ pc[x[1]] \notin {"idle", "confirm"}
        /\ Proceeds(reply[x[1]])
        /\ Matches(x[1])

IInv ==
    /\ TypeOK /\ Memory /\ Removers
    /\ \A c \in Calls : Shape(c)
    /\ RefusalIsForgotten
    /\ AnsweredIsGone

-----------------------------------------------------------------------------
(* Steps of the tools                                                      *)

LEMMA InitIInv == Init => IInv
BY DEF Init, IInv, TypeOK, Answers, Replies, Memory, Removers, Shape, Requests,
       RefusalIsForgotten, AnsweredIsGone

(* What the answer a of a call that ends its work means for its target.    *)
Tells(c, a) ==
    a \in Success /\ Matches(c) /\ broken' = {} /\ misled' = {} => Target(c) \notin present'

(* Where a call that waits for a request may go.                           *)
GoesOn(c, p, a) ==
    \/ /\ a = "none" /\ p \in {"type", "row", "children", "remove"}
       /\ call[c].tool = "delete_doc"
       /\ p \in {"children", "remove"} => Kind[Target(c)] = "doc"
    \/ p = "return" /\ a \in Success /\ call[c].tool # "remove_notebook"
    \/ p = "done" /\ a \in {"deleted", "rejected", "failed"}

LEMMA RemovesEffect ==
    ASSUME IInv, NEW c \in Calls, pc[c] # "idle", Removes(c)
    PROVE  /\ born' = born /\ rows' \subseteq born
           /\ present' \subseteq present /\ Target(c) \notin present'
           /\ removed' \subseteq Calls \X SUBSET Targets
           /\ \A x \in removed' : x \in removed \/ x[1] = c
<1>1. Target(c) \in Targets
  BY DEF IInv, Shape, Args, Target
<1> QED
  BY <1>1, ContentsAssumption DEF IInv, TypeOK, Removes, Delete, Index

(* A call waits for a request; what is asked for is done or not, and the   *)
(* call goes on at p, with answer a.                                       *)
Works(c, p, a) ==
    /\ pc[c] \in Requests
    /\ Spares \/ (Removes(c) /\ Matches(c))
    /\ pc' = [pc EXCEPT ![c] = p] /\ answer' = [answer EXCEPT ![c] = a]
    /\ GoesOn(c, p, a) /\ Tells(c, a)
    /\ broken' \in {broken, broken \cup {c}} /\ misled' \in {misled, misled \cup {c}}
    /\ unseen' \in {unseen, unseen \cup ({c} \X (Own(Target(c)) \cap present))}
    /\ UNCHANGED <<memo, call, reply>>

LEMMA WorkStep ==
    ASSUME IInv, NEW c \in Calls, NEW p, NEW a, Works(c, p, a)
    PROVE  IInv'
<1> USE DEF Works
<1>1. /\ born' = born /\ rows' \subseteq born /\ present' \subseteq present
      /\ removed' \subseteq Calls \X SUBSET Targets
      /\ \A x \in removed' : x \in removed \/ (x[1] = c /\ Matches(c))
  <2>1. CASE Spares
    BY <2>1 DEF Spares, kernel, IInv, TypeOK
  <2>2. CASE Removes(c) /\ Matches(c)
    BY <2>2, RemovesEffect DEF Requests
  <2> QED
    BY <2>1, <2>2
<1>2. p \in {"return", "done"} \cup Requests /\ a \in Answers
  BY DEF GoesOn, Requests, Success, Answers
<1>3. TypeOK'
  BY <1>1, <1>2 DEF IInv, TypeOK
<1>4. \A d \in Calls : d # c => pc'[d] = pc[d] /\ answer'[d] = answer[d]
  BY DEF IInv, TypeOK
<1>5. pc'[c] = p /\ answer'[c] = a
  BY DEF IInv, TypeOK
<1>6. \A d \in Calls : Shape(d)'
  <2> SUFFICES ASSUME NEW d \in Calls PROVE Shape(d)'
    OBVIOUS
  <2>1. CASE d # c
    BY <2>1, <1>1, <1>4 DEF IInv, Shape, Target, Proceeds
  <2>2. CASE d = c
    <3>1. call[c] \in Args /\ Target(c) \in born /\ Proceeds(reply[c])
          /\ (call[c].tool = "remove_notebook" <=> Kind[Target(c)] = "notebook")
          /\ (call[c].tool = "remove_notebook" => call[c].key = None)
      BY DEF IInv, Shape, Requests
    <3> QED
      BY <2>2, <3>1, <1>1, <1>5 DEF GoesOn, Shape, Target, Proceeds, Requests, Success
  <2> QED
    BY <2>1, <2>2
<1>7. Memory'
  BY <1>4 DEF IInv, Memory, Cacheable, CacheId, Requests
<1>8. Removers'
  <2> SUFFICES ASSUME NEW x \in removed'
               PROVE  pc'[x[1]] \notin {"idle", "confirm"} /\ Proceeds(reply[x[1]]) /\ Matches(x[1])
    BY DEF Removers, Proceeds, Matches, Target
  <2>1. x[1] \in Calls
    BY <1>1
  <2>2. CASE x[1] = c
    BY <1>2, <1>1, <1>5, <2>2 DEF IInv, Removers, Shape, Requests, TypeOK
  <2>3. CASE x[1] # c
    BY <1>1, <1>4, <2>1, <2>3 DEF IInv, Removers
  <2> QED
    BY <2>2, <2>3
<1>9. RefusalIsForgotten'
  BY <1>4, <1>5 DEF IInv, RefusalIsForgotten, GoesOn, Success
<1>10. AnsweredIsGone'
  <2> SUFFICES ASSUME NEW d \in Calls, answer'[d] \in Success, WellUsed(d)',
                      broken' = {}, misled' = {}
               PROVE  Target(d)' \notin present'
    BY DEF AnsweredIsGone, Success
  <2>1. WellUsed(d) /\ Target(d)' = Target(d)
    BY DEF WellUsed, Matches, Target, Cacheable, CacheId
  <2>2. CASE d = c
    BY <1>5, <2>1, <2>2 DEF Tells, WellUsed
  <2>3. CASE d # c
    BY <1>1, <1>4, <2>1, <2>3 DEF IInv, AnsweredIsGone, Success
  <2> QED
    BY <2>2, <2>3
<1> QED
  BY <1>3, <1>6, <1>7, <1>8, <1>9, <1>10 DEF IInv

(* The steps that wait for a request.                                      *)
LEMMA RequestStep ==
    ASSUME IInv, NEW c \in Calls,
           \/ DeleteBlock(c) \/ RemoveNotebook(c) \/ GetBlockInfo(c) \/ CheckType(c)
           \/ FindRow(c) \/ CountChildren(c) \/ RemoveDoc(c)
           \/ RaiseRaw(c) /\ pc[c] # "confirm"
    PROVE  IInv'
<1>1. /\ pc \in [Calls -> {"idle", "confirm", "return", "done"} \cup Requests]
      /\ answer \in [Calls -> Answers]
      /\ Shape(c)
  BY DEF IInv, TypeOK
<1> USE DEF Works, Goto, Conclude, End, Breaks, GoesOn, Tells, Success, Requests, Matches
<1>2. ASSUME pc[c] \in Requests, UNCHANGED answer PROVE answer' = [answer EXCEPT ![c] = "none"]
  BY <1>1, <1>2 DEF Shape
<1>3. ASSUME pc[c] \in Requests, Removes(c) PROVE Target(c) \notin present'
  BY <1>3, RemovesEffect
<1>4. CASE DeleteBlock(c)
  <2>1. pc[c] = "delete" /\ call[c].tool = "delete_block" /\ UNCHANGED <<memo, call, reply, misled, unseen>>
    BY <1>4 DEF DeleteBlock
  <2>2. CASE Kind[Target(c)] = "block" /\ Removes(c) /\ Conclude(c, "deleted") /\ UNCHANGED broken
    <3>1. Works(c, "return", "deleted")
      BY <1>3, <2>1, <2>2
    <3> QED
      BY <3>1, WorkStep
  <2>3. CASE Kind[Target(c)] # "block" /\ Spares /\ Conclude(c, "deleted") /\ UNCHANGED broken
    <3>1. Works(c, "return", "deleted")
      BY <2>1, <2>3
    <3> QED
      BY <3>1, WorkStep
  <2>4. CASE Target(c) \notin present /\ Spares /\ Conclude(c, "already_absent") /\ UNCHANGED broken
    <3>1. Works(c, "return", "already_absent")
      BY <2>1, <2>4 DEF Spares, kernel
    <3> QED
      BY <3>1, WorkStep
  <2>5. CASE /\ Spares \/ (Kind[Target(c)] = "block" /\ Removes(c))
             /\ Conclude(c, "already_absent") /\ Breaks(c)
    <3>1. Works(c, "return", "already_absent")
      BY <2>1, <2>5
    <3> QED
      BY <3>1, WorkStep
  <2> QED
    BY <1>4, <2>2, <2>3, <2>4, <2>5 DEF DeleteBlock
<1>5. CASE RemoveNotebook(c)
  <2>1. /\ pc[c] = "delete" /\ call[c].tool = "remove_notebook" /\ Matches(c)
        /\ UNCHANGED <<memo, call, reply, misled, unseen>>
    BY <1>1, <1>5 DEF RemoveNotebook, Shape
  <2>2. CASE Removes(c) /\ End(c, "deleted") /\ UNCHANGED broken
    <3>1. Works(c, "done", "deleted")
      BY <1>3, <2>1, <2>2
    <3> QED
      BY <3>1, WorkStep
  <2>3. CASE /\ Spares \/ Removes(c)
             /\ End(c, "failed") /\ broken' \in {broken, broken \cup {c}}
    <3>1. Works(c, "done", "failed")
      BY <2>1, <2>3
    <3> QED
      BY <3>1, WorkStep
  <2> QED
    BY <1>5, <2>2, <2>3 DEF RemoveNotebook
<1>6. CASE GetBlockInfo(c)
  <2>1. /\ pc[c] = "info" /\ call[c].tool = "delete_doc" /\ Spares
        /\ UNCHANGED <<memo, call, reply, misled, unseen>>
    BY <1>1, <1>6 DEF GetBlockInfo, Shape
  <2>2. CASE Goto(c, "type") /\ UNCHANGED broken
    <3>1. Works(c, "type", "none")
      BY <1>2, <2>1, <2>2
    <3> QED
      BY <3>1, WorkStep
  <2>3. CASE Goto(c, "row") /\ UNCHANGED broken
    <3>1. Works(c, "row", "none")
      BY <1>2, <2>1, <2>3
    <3> QED
      BY <3>1, WorkStep
  <2>4. CASE /\ (Target(c) \notin present /\ UNCHANGED broken) \/ Breaks(c)
             /\ Conclude(c, "already_absent")
    <3>1. Works(c, "return", "already_absent")
      BY <2>1, <2>4 DEF Spares, kernel
    <3> QED
      BY <3>1, WorkStep
  <2> QED
    BY <1>6, <2>2, <2>3, <2>4 DEF GetBlockInfo
<1>7. CASE CheckType(c)
  <2>1. /\ pc[c] = "type" /\ call[c].tool = "delete_doc" /\ Spares
        /\ UNCHANGED <<memo, call, reply, misled, unseen>>
    BY <1>1, <1>7 DEF CheckType, Shape
  <2>2. CASE Goto(c, "row") /\ UNCHANGED broken
    <3>1. Works(c, "row", "none")
      BY <1>2, <2>1, <2>2
    <3> QED
      BY <3>1, WorkStep
  <2>3. CASE End(c, "rejected") /\ UNCHANGED broken
    <3>1. Works(c, "done", "rejected")
      BY <2>1, <2>3
    <3> QED
      BY <3>1, WorkStep
  <2>4. CASE End(c, "failed") /\ Breaks(c)
    <3>1. Works(c, "done", "failed")
      BY <2>1, <2>4
    <3> QED
      BY <3>1, WorkStep
  <2> QED
    BY <1>7, <2>2, <2>3, <2>4 DEF CheckType
<1>8. CASE FindRow(c)
  <2>1. /\ pc[c] = "row" /\ call[c].tool = "delete_doc" /\ Spares
        /\ UNCHANGED <<memo, call, reply, unseen>>
    BY <1>1, <1>8 DEF FindRow, Shape
  <2>2. CASE Kind[Target(c)] = "doc" /\ Goto(c, AfterRow(c)) /\ UNCHANGED <<broken, misled>>
    <3>1. Works(c, AfterRow(c), "none")
      BY <1>2, <2>1, <2>2 DEF AfterRow
    <3> QED
      BY <3>1, WorkStep
  <2>3. CASE /\ Conclude(c, "already_absent") /\ UNCHANGED broken
             /\ misled' = IF Target(c) \in present /\ Kind[Target(c)] = "doc"
                          THEN misled \cup {c} ELSE misled
    <3>1. Works(c, "return", "already_absent")
      BY <2>1, <2>3 DEF Spares, kernel
    <3> QED
      BY <3>1, WorkStep
  <2>4. CASE End(c, "failed") /\ Breaks(c) /\ UNCHANGED misled
    <3>1. Works(c, "done", "failed")
      BY <2>1, <2>4
    <3> QED
      BY <3>1, WorkStep
  <2> QED
    BY <1>8, <2>2, <2>3, <2>4 DEF FindRow
<1>9. CASE CountChildren(c)
  <2>1. /\ pc[c] = "children" /\ call[c].tool = "delete_doc" /\ Kind[Target(c)] = "doc" /\ Spares
        /\ UNCHANGED <<memo, call, reply, misled>>
        /\ unseen' \in {unseen, unseen \cup ({c} \X (Own(Target(c)) \cap present))}
    BY <1>1, <1>9 DEF CountChildren, Shape
  <2>2. CASE Goto(c, "remove") /\ UNCHANGED broken
    <3>1. Works(c, "remove", "none")
      BY <1>2, <2>1, <2>2
    <3> QED
      BY <3>1, WorkStep
  <2>3. CASE End(c, "rejected") /\ UNCHANGED broken
    <3>1. Works(c, "done", "rejected")
      BY <2>1, <2>3
    <3> QED
      BY <3>1, WorkStep
  <2>4. CASE End(c, "failed") /\ Breaks(c)
    <3>1. Works(c, "done", "failed")
      BY <2>1, <2>4
    <3> QED
      BY <3>1, WorkStep
  <2> QED
    BY <1>9, <2>2, <2>3, <2>4 DEF CountChildren
<1>10. CASE RemoveDoc(c)
  <2>1. /\ pc[c] = "remove" /\ call[c].tool = "delete_doc" /\ Kind[Target(c)] = "doc"
        /\ Conclude(c, "deleted") /\ UNCHANGED <<memo, call, reply, misled, unseen>>
    BY <1>1, <1>10 DEF RemoveDoc, Shape
  <2>2. \/ Removes(c) /\ UNCHANGED broken
        \/ Target(c) \notin present /\ Spares /\ UNCHANGED broken
        \/ (Spares \/ Removes(c)) /\ Breaks(c)
    BY <1>10 DEF RemoveDoc
  <2>3. Works(c, "return", "deleted")
    BY <1>3, <2>1, <2>2 DEF Spares, kernel
  <2> QED
    BY <2>3, WorkStep
<1>11. CASE RaiseRaw(c) /\ pc[c] # "confirm"
  <2>1. /\ pc[c] \in Requests /\ End(c, "failed") /\ UNCHANGED <<memo, call, reply, broken, misled, unseen>>
    BY <1>11 DEF RaiseRaw
  <2>2. call[c] \in Args /\ Target(c) \in Targets
    BY <1>1, <2>1 DEF Shape, Args, Target
  <2>3. Writes(c) => Matches(c)
    BY <1>1, <2>1, <2>2, KindAssumption DEF Writes, Shape, Kinds, Target, Args, Tools
  <2>4. Works(c, "done", "failed")
    BY <1>11, <2>1, <2>3 DEF RaiseRaw
  <2> QED
    BY <2>4, WorkStep
<1> QED
  BY <1>4, <1>5, <1>6, <1>7, <1>8, <1>9, <1>10, <1>11

LEMMA BeginStep ==
    ASSUME IInv, NEW c \in Calls, Begin(c)
    PROVE  IInv'
<1>1. PICK a \in Args :
        /\ a.target \in born
        /\ a.tool = "remove_notebook" <=> Kind[a.target] = "notebook"
        /\ a.tool = "remove_notebook" => a.key = None
        /\ call' = [call EXCEPT ![c] = a]
  BY DEF Begin
<1>2. /\ pc[c] = "idle" /\ pc' = [pc EXCEPT ![c] = "confirm"]
      /\ UNCHANGED <<kernel, memo, answer, reply, broken, misled, unseen, removed>>
  BY DEF Begin
<1>3. TypeOK /\ TypeOK'
  BY <1>1, <1>2 DEF IInv, TypeOK, kernel
<1>4. /\ call[c] = None /\ call'[c] = a /\ pc'[c] = "confirm"
      /\ reply[c] = "none" /\ answer[c] = "none"
      /\ \A d \in Calls \ {c} : call'[d] = call[d] /\ pc'[d] = pc[d]
  BY <1>1, <1>2, <1>3 DEF IInv, TypeOK, Shape
<1>5. \A d \in Calls : Shape(d)'
  <2> SUFFICES ASSUME NEW d \in Calls PROVE Shape(d)'
    OBVIOUS
  <2>1. CASE d = c
    BY <1>1, <1>2, <1>4, <2>1 DEF Shape, Target, kernel, Requests
  <2>2. CASE d # c
    BY <1>2, <1>4, <2>2 DEF IInv, Shape, Target, kernel, Proceeds
  <2> QED
    BY <2>1, <2>2
<1>6. Memory'
  BY <1>2, <1>4 DEF IInv, Memory, Cacheable, CacheId
<1>7. Removers'
  <2> SUFFICES ASSUME NEW x \in removed
               PROVE  pc'[x[1]] \notin {"idle", "confirm"} /\ Proceeds(reply[x[1]]) /\ Matches(x[1])'
    BY <1>2 DEF Removers, Proceeds
  <2>1. x[1] \in Calls /\ x[1] # c
    BY <1>2, <1>3 DEF IInv, Removers, TypeOK
  <2> QED
    BY <2>1, <1>4 DEF IInv, Removers, Matches, Target
<1>8. AnsweredIsGone'
  <2> SUFFICES ASSUME NEW d \in Calls, answer[d] \in Success, WellUsed(d)', broken = {}, misled = {}
               PROVE  Target(d)' \notin present
    BY <1>2 DEF AnsweredIsGone, Success, kernel
  <2>1. d # c
    BY <1>4 DEF Success
  <2>2. WellUsed(d) /\ Target(d)' = Target(d)
    BY <2>1, <1>4 DEF WellUsed, Matches, Target, Cacheable, CacheId
  <2> QED
    BY <2>2 DEF IInv, AnsweredIsGone, Success
<1> QED
  BY <1>2, <1>3, <1>5, <1>6, <1>7, <1>8 DEF IInv, RefusalIsForgotten

(* A call decides or returns: it goes on at p, with answer a and reply r.  *)
Turns(c, p, a, r) ==
    /\ pc[c] \in {"confirm", "return"} /\ p \in {"done", "info", "delete"}
    /\ a \in Answers /\ r \in Replies
    /\ pc[c] = "return" => r = reply[c]
    /\ pc' = [pc EXCEPT ![c] = p] /\ answer' = [answer EXCEPT ![c] = a]
    /\ reply' = [reply EXCEPT ![c] = r]
    /\ UNCHANGED <<kernel, call, broken, misled, unseen, removed>>
    /\ p \in Requests => /\ Proceeds(r) /\ a = "none"
                         /\ p = "info" <=> call[c].tool = "delete_doc"
    /\ a = "cancelled" => r \in {"accept_false", "decline", "cancel"}
    /\ a \in Success /\ WellUsed(c) /\ broken = {} /\ misled = {} => Target(c) \notin present

LEMMA TurnStep ==
    ASSUME IInv, NEW c \in Calls, NEW p, NEW a, NEW r, Turns(c, p, a, r), Memory',
           memo' \in [CacheIds -> [answer : Answers, by : Calls] \cup {None}]
    PROVE  IInv'
<1>1. TypeOK /\ TypeOK'
  BY DEF IInv, TypeOK, Turns, kernel, Requests
<1>2. /\ pc'[c] = p /\ answer'[c] = a /\ reply'[c] = r
      /\ \A d \in Calls \ {c} : pc'[d] = pc[d] /\ answer'[d] = answer[d] /\ reply'[d] = reply[d]
      /\ UNCHANGED <<kernel, call, broken, misled, unseen, removed>>
  BY <1>1 DEF TypeOK, Turns
<1>3. \A d \in Calls : Shape(d)'
  <2> SUFFICES ASSUME NEW d \in Calls PROVE Shape(d)'
    OBVIOUS
  <2>1. CASE d = c
    <3>1. call[c] \in Args /\ Target(c) \in born
          /\ (call[c].tool = "remove_notebook" <=> Kind[Target(c)] = "notebook")
          /\ (call[c].tool = "remove_notebook" => call[c].key = None)
      BY DEF IInv, Shape, Turns
    <3> QED
      BY <1>2, <2>1, <3>1 DEF Shape, Turns, Target, Proceeds, kernel, Requests, Args, Tools
  <2>2. CASE d # c
    BY <1>2, <2>2 DEF IInv, Shape, Target, kernel, Proceeds
  <2> QED
    BY <2>1, <2>2
<1>4. Removers'
  <2> SUFFICES ASSUME NEW x \in removed
               PROVE  pc'[x[1]] \notin {"idle", "confirm"} /\ Proceeds(reply'[x[1]]) /\ Matches(x[1])
    BY <1>2 DEF Removers, Proceeds, Matches, Target
  <2>1. x[1] \in Calls
    BY <1>1 DEF TypeOK
  <2>2. pc[x[1]] \notin {"idle", "confirm"} /\ Proceeds(reply[x[1]]) /\ Matches(x[1])
    BY DEF IInv, Removers
  <2> QED
    BY <1>2, <2>1, <2>2 DEF Turns
<1>5. RefusalIsForgotten'
  BY <1>2 DEF IInv, RefusalIsForgotten, Turns
<1>6. AnsweredIsGone'
  <2> SUFFICES ASSUME NEW d \in Calls, answer'[d] \in Success, WellUsed(d), broken = {}, misled = {}
               PROVE  Target(d) \notin present
    BY <1>2 DEF AnsweredIsGone, Success, kernel, WellUsed, Matches, Target, Cacheable, CacheId
  <2>1. CASE d = c
    BY <1>2, <2>1 DEF Turns
  <2>2. CASE d # c
    BY <1>2, <2>2 DEF IInv, AnsweredIsGone, Success
  <2> QED
    BY <2>1, <2>2
<1> QED
  BY <1>1, <1>3, <1>4, <1>5, <1>6 DEF IInv

(* An entry's call is over: what another call does leaves it as it is.     *)
LEMMA MemoryStays ==
    ASSUME Memory, NEW c \in Calls, NEW p, NEW a, pc[c] # "done", UNCHANGED <<memo, call>>,
           pc' = [pc EXCEPT ![c] = p], answer' = [answer EXCEPT ![c] = a], TypeOK
    PROVE  Memory'
BY DEF Memory, Cacheable, CacheId, TypeOK

LEMMA ConfirmStep ==
    ASSUME IInv, NEW c \in Calls, pc[c] = "confirm", Abort(c) \/ Proceed(c) \/ RaiseRaw(c)
    PROVE  IInv'
<1>1. /\ TypeOK /\ Memory /\ Shape(c) /\ call[c] \in Args
      /\ reply[c] = "none" /\ answer[c] = "none"
      /\ UNCHANGED <<memo, call, kernel, broken, misled, unseen, removed>>
  BY DEF IInv, Shape, Abort, Proceed, RaiseRaw, Spares, Writes, kernel
<1>2. memo' \in [CacheIds -> [answer : Answers, by : Calls] \cup {None}]
  BY <1>1 DEF TypeOK
<1>3. ASSUME NEW p, NEW a, NEW r, Turns(c, p, a, r) PROVE IInv'
  BY <1>1, <1>2, <1>3, TurnStep, MemoryStays DEF Turns
<1>4. CASE Abort(c)
  <2>1. PICK r \in Replies \ {"none"} : ~Proceeds(r) /\ reply' = [reply EXCEPT ![c] = r]
    BY <1>4 DEF Abort
  <2>2. Turns(c, "done", "cancelled", r)
    BY <1>1, <1>4, <2>1 DEF Abort, End, Turns, Proceeds, Replies, Answers, Success, Requests
  <2> QED
    BY <1>3, <2>2
<1>5. CASE RaiseRaw(c)
  <2>1. reply' = [reply EXCEPT ![c] = "none"]
    BY <1>1, <1>5 DEF RaiseRaw, TypeOK
  <2>2. Turns(c, "done", "failed", "none")
    BY <1>1, <1>5, <2>1 DEF RaiseRaw, End, Turns, Replies, Answers, Success, Requests
  <2> QED
    BY <1>3, <2>2
<1>6. CASE Proceed(c)
  <2>1. PICK r \in Replies : Proceeds(r) /\ reply' = [reply EXCEPT ![c] = r]
    BY <1>6 DEF Proceed
  <2>2. CASE Cacheable(c) /\ memo[CacheId(c)] # None
    <3>1. End(c, memo[CacheId(c)].answer)
      BY <1>6, <2>2 DEF Proceed
    <3>2. CacheId(c) \in CacheIds
      <4>1. call[c].tool \in {"delete_block", "delete_doc"} /\ call[c].key \in Keys
        BY <1>1, <2>2 DEF Cacheable, Args, Tools, Shape
      <4> QED
        BY <4>1 DEF CacheId, CacheIds
    <3>3. PICK d \in Calls :
            /\ pc[d] = "done" /\ Cacheable(d) /\ CacheId(d) = CacheId(c)
            /\ answer[d] = memo[CacheId(c)].answer /\ answer[d] \in Success
      BY <1>1, <2>2, <3>2 DEF Memory
    <3>4. call[d] # None
      BY <3>3, NoneAssumption DEF IInv, Shape
    <3>5. ASSUME WellUsed(c), broken = {}, misled = {} PROVE Target(c) \notin present
      <4>1. Target(d) = Target(c)
        BY <2>2, <3>3, <3>4, <3>5 DEF WellUsed
      <4>2. WellUsed(d)
        BY <2>2, <3>3, <3>5, <4>1 DEF WellUsed, Matches, CacheId
      <4> QED
        BY <3>3, <3>5, <4>1, <4>2 DEF IInv, AnsweredIsGone, Success
    <3>6. Turns(c, "done", answer[d], r)
      BY <1>1, <2>1, <3>1, <3>3, <3>5 DEF End, Turns, Answers, Success, Requests
    <3> QED
      BY <1>3, <3>6
  <2>3. CASE ~(Cacheable(c) /\ memo[CacheId(c)] # None)
    <3> DEFINE first == IF call[c].tool = "delete_doc" THEN "info" ELSE "delete"
    <3>1. pc' = [pc EXCEPT ![c] = first] /\ answer' = [answer EXCEPT ![c] = "none"]
      BY <1>1, <1>6, <2>3 DEF Proceed, Goto, TypeOK
    <3>2. Turns(c, first, "none", r)
      BY <1>1, <2>1, <3>1 DEF Turns, Answers, Success, Requests
    <3> QED
      BY <1>3, <3>2
  <2> QED
    BY <2>2, <2>3
<1> QED
  BY <1>4, <1>5, <1>6

LEMMA ReturnStep ==
    ASSUME IInv, NEW c \in Calls, Return(c)
    PROVE  IInv'
<1>1. /\ TypeOK /\ Memory /\ Shape(c) /\ pc[c] = "return" /\ End(c, answer[c])
      /\ UNCHANGED <<kernel, call, reply, broken, misled, unseen, removed>>
  BY DEF IInv, Return
<1>2. /\ call[c] \in Args /\ answer[c] \in Success
      /\ call[c].tool \in {"delete_block", "delete_doc"}
  BY <1>1 DEF Shape, Args, Tools
<1>3. Cacheable(c) => CacheId(c) \in CacheIds
  BY <1>2 DEF Cacheable, CacheId, CacheIds, Args
<1>4. /\ pc'[c] = "done" /\ answer' = answer
      /\ \A d \in Calls \ {c} : pc'[d] = pc[d]
  BY <1>1 DEF End, TypeOK
<1>5. Memory' /\ memo' \in [CacheIds -> [answer : Answers, by : Calls] \cup {None}]
  <2>1. CASE ~Cacheable(c)
    <3>1. memo' = memo
      BY <2>1 DEF Return
    <3> QED
      BY <1>1, <1>4, <3>1 DEF Memory, Cacheable, CacheId, TypeOK
  <2>2. CASE Cacheable(c)
    <3>1. memo' = [memo EXCEPT ![CacheId(c)] = [answer |-> answer[c], by |-> c]]
      BY <2>2 DEF Return
    <3>2. memo' \in [CacheIds -> [answer : Answers, by : Calls] \cup {None}]
      BY <1>1, <3>1 DEF TypeOK
    <3>3. ASSUME NEW i \in CacheIds, memo'[i] # None
          PROVE  LET d == memo'[i].by
                 IN  /\ d \in Calls /\ pc'[d] = "done"
                     /\ Cacheable(d) /\ CacheId(d) = i
                     /\ answer[d] = memo'[i].answer /\ answer[d] \in Success
      <4>1. CASE i = CacheId(c)
        BY <1>1, <1>2, <1>3, <1>4, <2>2, <3>1, <4>1 DEF TypeOK
      <4>2. CASE i # CacheId(c)
        BY <1>1, <1>4, <3>1, <3>3, <4>2 DEF TypeOK, Memory
      <4> QED
        BY <4>1, <4>2
    <3> QED
      BY <1>1, <1>4, <3>2, <3>3 DEF Memory, Cacheable, CacheId
  <2> QED
    BY <2>1, <2>2
<1>6. Turns(c, "done", answer[c], reply[c])
  <2>1. answer[c] \in Answers /\ reply[c] \in Replies /\ reply' = [reply EXCEPT ![c] = reply[c]]
    BY <1>1 DEF TypeOK
  <2> QED
    BY <1>1, <1>2, <2>1 DEF IInv, AnsweredIsGone, Turns, End, Success, Requests
<1> QED
  BY <1>5, <1>6, TurnStep

-----------------------------------------------------------------------------
(* Steps of the surroundings: nothing that is gone comes back.             *)
LEMMA OutsideStep ==
    ASSUME IInv,
           \/ \E i \in CacheIds : Forget(i)
           \/ \E t \in Targets : RemovedElsewhere(t) \/ Created(t)
           \/ Reindex
    PROVE  IInv'
<1> DEFINE outside ==
      /\ UNCHANGED <<pc, call, answer, reply, broken, misled, removed>>
      /\ born \subseteq born' /\ born' \subseteq Targets
      /\ present' \subseteq present \cup (born' \ born) /\ present' \subseteq born'
      /\ rows' \subseteq born' /\ unseen' \subseteq Calls \X Targets
      /\ memo' \in [CacheIds -> [answer : Answers, by : Calls] \cup {None}]
      /\ \A i \in CacheIds : memo'[i] # None => memo'[i] = memo[i]
<1>1. outside
  <2>1. CASE \E i \in CacheIds : Forget(i)
    BY <2>1 DEF IInv, TypeOK, Forget, kernel
  <2>2. CASE Reindex
    BY <2>2 DEF IInv, TypeOK, Reindex
  <2>3. ASSUME NEW t \in Targets, RemovedElsewhere(t) \/ Created(t) PROVE outside
    BY <2>3 DEF IInv, TypeOK, RemovedElsewhere, Created, Delete, Index
  <2> QED
    BY <2>1, <2>2, <2>3
<1>2. TypeOK'
  BY <1>1 DEF IInv, TypeOK
<1>3. \A d \in Calls : Shape(d)'
  BY <1>1 DEF IInv, Shape, Target, Proceeds
<1>4. Memory' /\ Removers' /\ RefusalIsForgotten'
  BY <1>1 DEF IInv, Memory, Cacheable, CacheId, Removers, Proceeds, Matches, Target, RefusalIsForgotten
<1>5. AnsweredIsGone'
  <2> SUFFICES ASSUME NEW d \in Calls, answer[d] \in Success, WellUsed(d), broken = {}, misled = {}
               PROVE  Target(d) \notin present'
    BY <1>1 DEF AnsweredIsGone, Success, WellUsed, Matches, Target, Cacheable, CacheId
  <2>1. Target(d) \in born /\ Target(d) \notin present
    BY DEF IInv, AnsweredIsGone, Shape, Success
  <2> QED
    BY <1>1, <2>1
<1> QED
  BY <1>2, <1>3, <1>4, <1>5 DEF IInv

LEMMA NextIInv == IInv /\ [Next]_vars => IInv'
<1> SUFFICES ASSUME IInv, [Next]_vars PROVE IInv'
  OBVIOUS
<1>1. ASSUME NEW c \in Calls, ToolStep(c) PROVE IInv'
  BY <1>1, BeginStep, RequestStep, ConfirmStep, ReturnStep DEF ToolStep, Abort, Proceed
<1>2. CASE UNCHANGED vars
  <2> USE <1>2 DEF vars, Target, Proceeds, Matches, Cacheable, CacheId
  <2>1. TypeOK' /\ Removers' /\ RefusalIsForgotten'
    BY DEF IInv, TypeOK, Removers, RefusalIsForgotten
  <2>2. Memory' /\ AnsweredIsGone'
    BY DEF IInv, Memory, AnsweredIsGone, WellUsed
  <2>3. \A d \in Calls : Shape(d)'
    BY DEF IInv, Shape
  <2> QED
    BY <2>1, <2>2, <2>3 DEF IInv
<1> QED
  BY <1>1, <1>2, OutsideStep DEF Next

LEMMA Invariance == Spec => []IInv
BY InitIInv, NextIInv, PTL DEF Spec

-----------------------------------------------------------------------------
(* require_empty.  A call that is past the count knows what it missed.     *)
Emptied ==
    /\ EmptyIsChecked
    /\ \A c \in Calls : pc[c] # "idle" /\ call[c].require_empty =>
          /\ call[c].tool = "delete_doc"
          /\ pc[c] = "remove" => {c} \X (Own(Target(c)) \cap present) \subseteq unseen

(* What a step of c, once begun, does to the document it is to find empty. *)
Careful(c) ==
    /\ pc[c] # "idle"
    /\ UNCHANGED call /\ present' \subseteq present /\ unseen \subseteq unseen'
    /\ \/ UNCHANGED removed
       \/ /\ pc[c] = "remove" \/ call[c].tool # "delete_doc"
          /\ removed' = removed \cup {<<c, Contents[Target(c)] \cap present>>}
    /\ \A d \in Calls : pc'[d] # "idle" => pc[d] # "idle"
    /\ \A d \in Calls : pc'[d] = "remove" /\ pc[d] # "remove" /\ call[d].require_empty =>
          {d} \X (Own(Target(d)) \cap present) \subseteq unseen'

LEMMA CarefulStep ==
    ASSUME IInv, Emptied, NEW c \in Calls, Careful(c)
    PROVE  Emptied'
<1> USE DEF Careful
<1>1. \A d \in Calls : Target(d)' = Target(d) /\ Own(Target(d))' = Own(Target(d))
  BY DEF Target, Own, Inside
<1>2. EmptyIsChecked'
  <2> SUFFICES ASSUME NEW x \in removed', call[x[1]].require_empty
               PROVE  {x[1]} \X (x[2] \cap Own(Target(x[1]))) \subseteq unseen'
    BY DEF EmptyIsChecked, Target, Own, Inside
  <2>1. CASE x \in removed
    BY <2>1 DEF Emptied, EmptyIsChecked
  <2>2. CASE x \notin removed
    <3>1. x = <<c, Contents[Target(c)] \cap present>> /\ (pc[c] = "remove" \/ call[c].tool # "delete_doc")
      BY <2>2
    <3>2. {c} \X (Own(Target(c)) \cap present) \subseteq unseen
      BY <3>1 DEF Emptied
    <3> QED
      BY <3>1, <3>2
  <2> QED
    BY <2>1, <2>2
<1>3. ASSUME NEW d \in Calls, pc'[d] # "idle", call[d].require_empty
      PROVE  /\ call[d].tool = "delete_doc"
             /\ pc'[d] = "remove" => {d} \X (Own(Target(d)) \cap present') \subseteq unseen'
  <2>1. call[d].tool = "delete_doc"
    BY <1>3 DEF Emptied
  <2>2. pc'[d] = "remove" => {d} \X (Own(Target(d)) \cap present) \subseteq unseen'
    BY <1>3 DEF Emptied
  <2> QED
    BY <2>1, <2>2
<1> QED
  BY <1>1, <1>2, <1>3 DEF Emptied

LEMMA EmptiedStep ==
    ASSUME IInv, Emptied, NEW c \in Calls, ToolStep(c)
    PROVE  Emptied'
<1>1. TypeOK /\ Shape(c)
  BY DEF IInv
<1>2. CASE Begin(c)
  <2>1. PICK a \in Args : (a.tool # "delete_doc" => ~a.require_empty) /\ call' = [call EXCEPT ![c] = a]
    BY <1>2 DEF Begin
  <2>2. /\ pc[c] = "idle" /\ pc' = [pc EXCEPT ![c] = "confirm"]
        /\ UNCHANGED <<present, unseen, removed>>
    BY <1>2 DEF Begin, kernel
  <2>3. /\ call'[c] = a /\ pc'[c] = "confirm"
        /\ \A d \in Calls \ {c} : call'[d] = call[d] /\ pc'[d] = pc[d]
    BY <1>1, <2>1, <2>2 DEF TypeOK
  <2>4. \A x \in removed : x[1] \in Calls \ {c}
    BY <1>1, <2>2 DEF IInv, Removers, TypeOK
  <2>5. EmptyIsChecked'
    BY <2>2, <2>3, <2>4 DEF Emptied, EmptyIsChecked, Target, Own, Inside
  <2> QED
    BY <2>1, <2>2, <2>3, <2>5 DEF Emptied, Target, Own, Inside
<1>3. CASE Abort(c) \/ Proceed(c) \/ Return(c)
  <2>1. Careful(c)
    BY <1>1, <1>3 DEF Careful, Abort, Proceed, Return, Goto, End, kernel, TypeOK
  <2> QED
    BY <2>1, CarefulStep
<1>4. CASE \/ DeleteBlock(c) \/ RemoveNotebook(c) \/ GetBlockInfo(c) \/ CheckType(c)
           \/ FindRow(c) \/ CountChildren(c) \/ RemoveDoc(c) \/ RaiseRaw(c)
  <2>1. Spares \/ Removes(c) => present' \subseteq present
    BY DEF Spares, kernel, Removes, Delete
  <2>2. pc[c] \in {"confirm"} \cup Requests
    BY <1>4 DEF DeleteBlock, RemoveNotebook, GetBlockInfo, CheckType, FindRow,
                CountChildren, RemoveDoc, RaiseRaw, Requests
  <2>3. pc[c] = "delete" => call[c].tool # "delete_doc"
    BY <1>1 DEF Shape
  <2>4. CASE DeleteBlock(c) \/ RemoveNotebook(c) \/ RemoveDoc(c) \/ RaiseRaw(c)
    <3>1. /\ UNCHANGED call /\ UNCHANGED unseen
          /\ Spares \/ (Removes(c) /\ (pc[c] = "remove" \/ call[c].tool # "delete_doc"))
      BY <2>3, <2>4 DEF DeleteBlock, RemoveNotebook, RemoveDoc, RaiseRaw, Writes
    <3>2. pc' = [pc EXCEPT ![c] = "return"] \/ pc' = [pc EXCEPT ![c] = "done"]
      BY <2>4 DEF DeleteBlock, RemoveNotebook, RemoveDoc, RaiseRaw, Conclude, End
    <3>3. Careful(c)
      BY <1>1, <2>1, <2>2, <3>1, <3>2 DEF Careful, Spares, Removes, TypeOK, Requests
    <3> QED
      BY <3>3, CarefulStep
  <2>5. CASE GetBlockInfo(c) \/ CheckType(c) \/ FindRow(c)
    <3>1. UNCHANGED <<call, unseen>> /\ Spares
      BY <2>5 DEF GetBlockInfo, CheckType, FindRow
    <3>2. PICK p : pc' = [pc EXCEPT ![c] = p] /\ p # "idle" /\ (p = "remove" => ~call[c].require_empty)
      BY <2>5 DEF GetBlockInfo, CheckType, FindRow, Goto, Conclude, End, AfterRow
    <3>3. Careful(c)
      BY <1>1, <2>1, <2>2, <3>1, <3>2 DEF Careful, Spares, TypeOK, Requests
    <3> QED
      BY <3>3, CarefulStep
  <2>6. CASE CountChildren(c)
    <3>1. UNCHANGED call /\ Spares
      BY <2>6 DEF CountChildren
    <3>2. \/ pc' = [pc EXCEPT ![c] = "done"] /\ UNCHANGED unseen
          \/ /\ pc' = [pc EXCEPT ![c] = "remove"]
             /\ unseen' = unseen \cup ({c} \X (Own(Target(c)) \cap present))
      BY <2>6 DEF CountChildren, Goto, End
    <3>3. Careful(c)
      BY <1>1, <2>1, <2>2, <3>1, <3>2 DEF Careful, Spares, TypeOK, Requests
    <3> QED
      BY <3>3, CarefulStep
  <2> QED
    BY <1>4, <2>4, <2>5, <2>6
<1> QED
  BY <1>2, <1>3, <1>4 DEF ToolStep

(* What comes while a call removes its document is counted as unseen.      *)
LEMMA EmptiedOutside ==
    ASSUME IInv, Emptied,
           \/ \E i \in CacheIds : Forget(i)
           \/ \E t \in Targets : RemovedElsewhere(t) \/ Created(t)
           \/ Reindex \/ UNCHANGED vars
    PROVE  Emptied'
<1>1. UNCHANGED <<pc, call, removed>> /\ unseen \subseteq unseen'
  BY DEF Forget, RemovedElsewhere, Created, Reindex, vars
<1>2. \A d \in Calls : Target(d)' = Target(d) /\ Own(Target(d))' = Own(Target(d))
  BY <1>1 DEF Target, Own, Inside
<1>3. EmptyIsChecked'
  BY <1>1 DEF Emptied, EmptyIsChecked, Target, Own, Inside
<1>4. ASSUME NEW d \in Calls, pc[d] = "remove", NEW u \in Own(Target(d)) \cap present', u \notin present
      PROVE  <<d, u>> \in unseen'
  BY <1>4 DEF Forget, RemovedElsewhere, Created, Reindex, vars, kernel, Delete
<1> QED
  BY <1>1, <1>2, <1>3, <1>4 DEF Emptied

LEMMA EmptiedInvariance == Spec => []Emptied
<1>1. Init => Emptied
  BY DEF Init, Emptied, EmptyIsChecked
<1>2. IInv /\ Emptied /\ [Next]_vars => Emptied'
  BY EmptiedStep, EmptiedOutside DEF Next
<1> QED
  BY <1>1, <1>2, Invariance, PTL DEF Spec

-----------------------------------------------------------------------------
(* Theorems                                                                *)

(* Type correctness.                                                       *)
THEOREM TypeCorrect == Spec => []TypeOK
BY Invariance, PTL DEF IInv

(* No call removes anything when its user said no, or was not asked though *)
(* asking was possible, in whatever order calls and failures come.         *)
THEOREM ConsentCorrect == Spec => []RemovalHasConsent
<1>1. IInv => RemovalHasConsent
  BY DEF IInv, Removers, RemovalHasConsent, Proceeds
<1> QED
  BY <1>1, Invariance, PTL

(* No call is answered "cancelled" from an earlier call's refusal.         *)
THEOREM RefusalCorrect == Spec => []RefusalIsForgotten
BY Invariance, PTL DEF IInv

(* delete_block removes blocks only, delete_doc documents only, however    *)
(* little getBlockInfo and a lagging index tell.                           *)
THEOREM KindCorrect == Spec => []ToolMatchesKind
<1>1. IInv => ToolMatchesKind
  BY DEF IInv, Removers, ToolMatchesKind
<1> QED
  BY <1>1, Invariance, PTL

(* A reported or replayed success means that the target is gone, as long   *)
(* as every request got a verdict and the index did not mislead.           *)
THEOREM GoneCorrect == Spec => []AnsweredIsGone
BY Invariance, PTL DEF IInv

(* With require_empty, delete_doc takes away only blocks of the document   *)
(* that the index missed when it counted them, or that came after it.      *)
THEOREM EmptyCorrect == Spec => []EmptyIsChecked
BY EmptiedInvariance, PTL DEF Emptied

=============================================================================
