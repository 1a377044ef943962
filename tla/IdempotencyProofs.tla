-------------------------- MODULE IdempotencyProofs --------------------------
(***************************************************************************)
(* Proofs about Idempotency, for every set of tools, keys and calls, every *)
(* capacity and every TTL.                                                 *)
(***************************************************************************)
EXTENDS Idempotency, FiniteSetTheorems, TLAPS

(* What is recorded as the newest answer stored for an id is the answer of *)
(* a call under that id that returned.                                     *)
LastReturned ==
    \A i \in Ids : last[i] # None =>
        status[last[i]] = "returned" /\ idOf[last[i]] = i

(* The eviction order compares any two cached ids, and an id is behind     *)
(* another only because it was used since.                                 *)
Ordered ==
    /\ \A i, j \in Cached : i # j => <<i, j>> \in older \/ <<j, i>> \in older
    /\ \A i, j \in Ids : <<i, j>> \in older => j \in usedSince[i]

(* A call has no key before it starts, no answer before it ends, and one if *)
(* it replayed.                                                            *)
Answers ==
    \A r \in Requests :
        /\ status[r] \in {"idle"} \cup InCall => result[r] = None
        /\ status[r] = "hit" => result[r] # None
        /\ status[r] = "idle" => idOf[r] = None

(* The inductive invariant.                                                *)
IInv ==
    /\ TypeOK
    /\ LastReturned
    /\ CacheIsGenuine
    /\ ReplayIsGenuine
    /\ Answers
    /\ Ordered
    /\ Bounded
    /\ FreshIsCached

-----------------------------------------------------------------------------
(* Lemmas about the cache operators                                        *)

(* Ids is finite, so its subsets have a cardinality.                       *)
LEMMA SubsetsFinite ==
    \A S \in SUBSET Ids : IsFiniteSet(S) /\ Cardinality(S) \in Nat
BY IdsAssumption, FS_Subset, FS_CardinalityType

(* Replacing one element of a finite set by a new one keeps its size.      *)
LEMMA SwapElement ==
    ASSUME NEW S, IsFiniteSet(S), NEW v \in S, NEW x, x \notin S
    PROVE  Cardinality((S \ {v}) \cup {x}) = Cardinality(S)
<1> DEFINE T == S \ {v}
<1>1. Cardinality(S) \in Nat
  BY FS_CardinalityType
<1>2. IsFiniteSet(T) /\ Cardinality(T) = Cardinality(S) - 1
  BY FS_RemoveElement
<1>3. x \notin T
  OBVIOUS
<1> HIDE DEF T
<1>4. Cardinality(T \cup {x}) = Cardinality(T) + 1
  BY <1>2, <1>3, FS_AddElement
<1>5. Cardinality(T \cup {x}) = Cardinality(S)
  BY <1>1, <1>2, <1>4
<1> QED
  BY <1>5 DEF T

(* Storing the answer of r under i, with what is kept and evicted named.   *)
PutTo(i, r, kept, out) ==
    /\ kept = {j \in Ids : Live(j)}
    /\ kept \subseteq Cached
    /\ out \subseteq kept
    /\ out \in Evictions(i, kept)
    /\ cache' = [j \in Ids |->
                   IF j = i THEN [value |-> r, expires |-> now + TTL]
                   ELSE IF j \in kept \ out THEN cache[j] ELSE None]
    /\ older' = MoveToEnd(i, (kept \ out) \cup {i})
    /\ last' = [last EXCEPT ![i] = r]
    /\ usedSince' = [j \in Ids |-> IF j = i THEN {} ELSE usedSince[j] \cup {i}]

(* A store leaves the live ids minus at most one evicted id, plus its own. *)
LEMMA PutEffect ==
    ASSUME TypeOK, NEW i \in Ids, NEW r \in Requests, Put(i, r)
    PROVE  \E kept, out \in SUBSET Ids : PutTo(i, r, kept, out)
<1> DEFINE kept == {j \in Ids : Live(j)}
<1>1. PICK out \in Evictions(i, kept) :
          /\ cache' = [j \in Ids |->
                         IF j = i THEN [value |-> r, expires |-> now + TTL]
                         ELSE IF j \in kept \ out THEN cache[j] ELSE None]
          /\ older' = MoveToEnd(i, (kept \ out) \cup {i})
          /\ last' = [last EXCEPT ![i] = r]
          /\ NoteUse(i)
  BY DEF Put
<1>2. kept \in SUBSET Ids /\ kept \subseteq Cached
  BY DEF Cached, Live
<1>3. out \subseteq kept
  BY DEF Evictions
<1> HIDE DEF kept
<1>4. QED
  BY <1>1, <1>2, <1>3 DEF NoteUse, PutTo, kept

(* An id is evicted only when MaxSize others, the one being stored among   *)
(* them, were used since it last was.                                      *)
LEMMA EvictedWasStale ==
    ASSUME Ordered, TypeOK, NEW i \in Ids,
           NEW kept \in SUBSET Cached, NEW out \in Evictions(i, kept),
           NEW v \in out
    PROVE  Cardinality(usedSince[v] \cup {i}) >= MaxSize
<1>1. i \notin kept /\ ~(Cardinality(kept) < MaxSize) /\ v \in kept /\ IsFirst(v, kept)
  BY DEF Evictions
<1>2. kept \in SUBSET Ids
  BY DEF Cached
<1>3. IsFiniteSet(kept) /\ Cardinality(kept) \in Nat
  BY <1>2, SubsetsFinite
<1>4. \A j \in kept \ {v} : j \in usedSince[v]
  <2> TAKE j \in kept \ {v}
  <2>1. <<j, v>> \notin older
    BY <1>1 DEF IsFirst
  <2>2. <<v, j>> \in older
    BY <1>1, <2>1 DEF Ordered
  <2> QED
    BY <1>1, <1>2, <2>2 DEF Ordered
<1>5. Cardinality((kept \ {v}) \cup {i}) = Cardinality(kept)
  BY <1>1, <1>3, SwapElement
<1>6. (kept \ {v}) \cup {i} \in SUBSET (usedSince[v] \cup {i})
  BY <1>4
<1>7. usedSince[v] \cup {i} \in SUBSET Ids
  BY <1>1, <1>2 DEF TypeOK
<1>8. IsFiniteSet(usedSince[v] \cup {i}) /\ Cardinality(usedSince[v] \cup {i}) \in Nat
  BY <1>7, SubsetsFinite
<1>9. Cardinality((kept \ {v}) \cup {i}) <= Cardinality(usedSince[v] \cup {i})
  BY <1>6, <1>8, FS_Subset
<1> QED
  BY <1>1, <1>3, <1>5, <1>8, <1>9, SizeAssumption

(* A store keeps the cache within maxsize.                                 *)
LEMMA StoreFits ==
    ASSUME Bounded, NEW i \in Ids, NEW kept \in SUBSET Cached,
           NEW out \in Evictions(i, kept)
    PROVE  Cardinality((kept \ out) \cup {i}) <= MaxSize
<1>1. kept \in SUBSET Ids /\ Cached \in SUBSET Ids
  BY DEF Cached
<1>2. /\ IsFiniteSet(kept) /\ Cardinality(kept) \in Nat
      /\ IsFiniteSet(Cached) /\ Cardinality(Cached) \in Nat
  BY <1>1, SubsetsFinite
<1>3. Cardinality(kept) <= MaxSize
  BY <1>2, FS_Subset, SizeAssumption DEF Bounded
<1>4. CASE i \in kept
  <2>1. (kept \ out) \cup {i} = kept
    BY <1>4 DEF Evictions
  <2> QED
    BY <1>3, <2>1
<1>5. CASE i \notin kept /\ Cardinality(kept) < MaxSize
  <2>1. (kept \ out) \cup {i} = kept \cup {i}
    BY <1>5 DEF Evictions
  <2>2. Cardinality(kept \cup {i}) = Cardinality(kept) + 1
    BY <1>2, <1>5, FS_AddElement
  <2> QED
    BY <1>2, <1>5, <2>1, <2>2, SizeAssumption
<1>6. CASE i \notin kept /\ ~(Cardinality(kept) < MaxSize)
  <2>1. PICK v \in kept : out = {v}
    BY <1>6 DEF Evictions
  <2>2. Cardinality((kept \ {v}) \cup {i}) = Cardinality(kept)
    BY <1>2, <1>6, SwapElement
  <2> QED
    BY <1>3, <2>1, <2>2
<1> QED
  BY <1>4, <1>5, <1>6

-----------------------------------------------------------------------------
(* Type correctness                                                        *)

LEMMA InitTypeOK == Init => TypeOK
BY TimeAssumption DEF Init, TypeOK, InCall, Final

LEMMA NextTypeOK == TypeOK /\ [Next]_vars => TypeOK'
<1> SUFFICES ASSUME TypeOK, [Next]_vars PROVE TypeOK'
  OBVIOUS
<1> USE DEF TypeOK, InCall, Final
<1>1. ASSUME NEW r \in Requests, CallWithoutKey(r) PROVE TypeOK'
  BY <1>1 DEF CallWithoutKey, histVars
<1>2. ASSUME NEW r \in Requests, NEW k \in Keys, RejectKey(r, k) PROVE TypeOK'
  BY <1>2 DEF RejectKey, histVars
<1>3. ASSUME NEW r \in Requests, NEW t \in Tools, NEW k \in Keys, Hit(r, t, k)
      PROVE  TypeOK'
  <2> DEFINE i == <<t, k>>
  <2>1. i \in Ids
    BY DEF Ids
  <2>2. cache[i] \in Entry
    BY <1>3, <2>1 DEF Hit, Live
  <2>3. cache[i].value \in Requests
    BY <2>2 DEF Entry
  <2>4. older' \subseteq Ids \X Ids
    BY <1>3, <2>1 DEF Hit, MoveToEnd, Cached
  <2>5. usedSince' \in [Ids -> SUBSET Ids]
    BY <1>3, <2>1 DEF Hit, NoteUse
  <2> HIDE DEF i
  <2> QED
    BY <1>3, <2>1, <2>3, <2>4, <2>5 DEF Hit, i
<1>4. ASSUME NEW r \in Requests, NEW t \in Tools, NEW k \in Keys, Miss(r, t, k)
      PROVE  TypeOK'
  BY <1>4 DEF Miss, Ids, histVars
<1>5. ASSUME NEW r \in Requests, KernelApplies(r) PROVE TypeOK'
  BY <1>5 DEF KernelApplies, histVars
<1>6. ASSUME NEW r \in Requests, Return(r) PROVE TypeOK'
  <2>1. CASE idOf[r] = None
    BY <1>6, <2>1 DEF Return
  <2>2. CASE idOf[r] # None
    <3> DEFINE i == idOf[r]
    <3>1. i \in Ids /\ Put(i, r)
      BY <1>6, <2>2 DEF Return
    <3>2. PICK kept, out \in SUBSET Ids : PutTo(i, r, kept, out)
      BY <3>1, PutEffect
    <3>3. [value |-> r, expires |-> now + TTL] \in Entry
      BY TimeAssumption DEF Entry
    <3> HIDE DEF i
    <3>4. cache' \in [Ids -> Entry \cup {None}]
      BY <3>2, <3>3 DEF PutTo
    <3>5. older' \subseteq Ids \X Ids
      BY <3>1, <3>2 DEF MoveToEnd, PutTo
    <3>6. last' \in [Ids -> Requests \cup {None}] /\ usedSince' \in [Ids -> SUBSET Ids]
      BY <3>1, <3>2 DEF PutTo
    <3> QED
      BY <1>6, <3>4, <3>5, <3>6 DEF Return
  <2> QED
    BY <2>1, <2>2
<1>7. ASSUME NEW r \in Requests, Raise(r) PROVE TypeOK'
  BY <1>7 DEF Raise, histVars
<1>8. CASE Tick
  BY <1>8, TimeAssumption DEF Tick, histVars
<1>9. CASE Restart
  BY <1>9 DEF Restart
<1>10. CASE UNCHANGED vars
  BY <1>10 DEF vars
<1> QED
  BY <1>1, <1>2, <1>3, <1>4, <1>5, <1>6, <1>7, <1>8, <1>9, <1>10
  DEF Next, CallStep

(* Every reachable state is well typed.                                    *)
THEOREM TypeCorrect == Spec => []TypeOK
<1>1. Init => TypeOK
  BY InitTypeOK
<1>2. TypeOK /\ [Next]_vars => TypeOK'
  BY NextTypeOK
<1> QED
  BY <1>1, <1>2, PTL DEF Spec

-----------------------------------------------------------------------------
(* The inductive invariant is preserved, action by action                  *)

(* A step of an unanswered call that touches neither the cache nor the     *)
(* clock, and neither answers the call nor replays to it.                  *)
LEMMA QuietStep ==
    ASSUME IInv, TypeOK', NEW r \in Requests,
           UNCHANGED <<now, cache, older, result, histVars>>,
           status[r] \in {"idle"} \cup InCall,
           status'[r] \notin {"idle", "returned", "hit"},
           \A q \in Requests \ {r} : status'[q] = status[q] /\ idOf'[q] = idOf[q]
    PROVE  IInv'
<1> USE DEF histVars
<1>1. status[r] # "returned"
  BY DEF InCall
<1>2. LastReturned'
  BY <1>1 DEF IInv, LastReturned, TypeOK
<1>3. CacheIsGenuine'
  <2> SUFFICES ASSUME NEW i \in Cached'
               PROVE  LET q == cache[i].value
                      IN  /\ q = last[i]
                          /\ status'[q] = "returned"
                          /\ idOf'[q] = i
                          /\ cache[i].expires = ended[q] + TTL
    BY DEF CacheIsGenuine
  <2>1. i \in Cached
    BY DEF Cached
  <2>2. cache[i].value \in Requests
    BY <2>1 DEF IInv, TypeOK, Cached, Entry
  <2> QED
    BY <1>1, <2>1, <2>2 DEF IInv, CacheIsGenuine
<1>4. ReplayIsGenuine'
  <2> SUFFICES ASSUME NEW q \in Requests, status'[q] = "hit"
               PROVE  status'[result[q]] = "returned" /\ idOf'[result[q]] = idOf'[q]
    BY DEF ReplayIsGenuine
  <2>1. q # r /\ status[q] = "hit"
    OBVIOUS
  <2>2. status[result[q]] = "returned" /\ idOf[result[q]] = idOf[q]
    BY <2>1 DEF IInv, ReplayIsGenuine
  <2>3. result[q] \in Requests
    BY <2>1 DEF IInv, TypeOK, Answers
  <2> QED
    BY <1>1, <2>1, <2>2, <2>3
<1>5. Answers'
  BY DEF IInv, Answers
<1>6. Ordered' /\ Bounded' /\ FreshIsCached'
  BY DEF IInv, Ordered, Bounded, FreshIsCached, Fresh, Live, Cached
<1> QED
  BY <1>2, <1>3, <1>4, <1>5, <1>6 DEF IInv

(* Hit: the entry replayed is genuine, and only the order changes.         *)
LEMMA HitStep ==
    ASSUME IInv, TypeOK', NEW r \in Requests, NEW t \in Tools, NEW k \in Keys,
           Hit(r, t, k)
    PROVE  IInv'
<1> DEFINE i == <<t, k>>
<1>1. i \in Ids
  BY DEF Ids
<1>2. /\ status[r] = "idle" /\ Live(i)
      /\ status' = [status EXCEPT ![r] = "hit"]
      /\ idOf' = [idOf EXCEPT ![r] = i]
      /\ result' = [result EXCEPT ![r] = cache[i].value]
      /\ older' = MoveToEnd(i, Cached)
      /\ usedSince' = [j \in Ids |-> IF j = i THEN {} ELSE usedSince[j] \cup {i}]
      /\ UNCHANGED <<now, cache, ended, last>>
  BY DEF Hit, NoteUse
<1> HIDE DEF i
<1>3. i \in Cached /\ cache[i].value \in Requests
  BY <1>1, <1>2 DEF IInv, TypeOK, Live, Cached, Entry
<1>4. status[cache[i].value] = "returned" /\ idOf[cache[i].value] = i
  BY <1>3 DEF IInv, CacheIsGenuine
<1>5. LastReturned'
  BY <1>2 DEF IInv, LastReturned, TypeOK
<1>6. CacheIsGenuine'
  <2> SUFFICES ASSUME NEW j \in Cached
               PROVE  LET q == cache[j].value
                      IN  /\ q = last[j]
                          /\ status'[q] = "returned"
                          /\ idOf'[q] = j
                          /\ cache[j].expires = ended[q] + TTL
    BY <1>2 DEF CacheIsGenuine, Cached
  <2>1. cache[j].value \in Requests
    BY DEF IInv, TypeOK, Cached, Entry
  <2> QED
    BY <1>2, <2>1 DEF IInv, CacheIsGenuine, TypeOK
<1>7. ReplayIsGenuine'
  <2> SUFFICES ASSUME NEW q \in Requests, status'[q] = "hit"
               PROVE  status'[result'[q]] = "returned" /\ idOf'[result'[q]] = idOf'[q]
    BY DEF ReplayIsGenuine
  <2>1. CASE q = r
    BY <1>2, <1>3, <1>4, <2>1 DEF IInv, TypeOK
  <2>2. CASE q # r
    <3>1. result[q] \in Requests /\ status[result[q]] = "returned"
          /\ idOf[result[q]] = idOf[q]
      BY <1>2, <2>2 DEF IInv, TypeOK, Answers, ReplayIsGenuine
    <3> QED
      BY <1>2, <2>2, <3>1 DEF IInv, TypeOK
  <2> QED
    BY <2>1, <2>2
<1>8. Answers'
  BY <1>2, <1>3, NoneAssumption DEF IInv, TypeOK, Answers, InCall
<1>9. Ordered'
  <2>1. Cached' = Cached
    BY <1>2 DEF Cached
  <2>2. \A j1, j2 \in Cached : j1 # j2 => <<j1, j2>> \in older' \/ <<j2, j1>> \in older'
    BY <1>2 DEF IInv, Ordered, MoveToEnd
  <2>3. ASSUME NEW j1 \in Ids, NEW j2 \in Ids, <<j1, j2>> \in older'
        PROVE  j2 \in usedSince'[j1]
    BY <1>2, <2>3 DEF IInv, Ordered, MoveToEnd, TypeOK
  <2> QED
    BY <2>1, <2>2, <2>3 DEF Ordered
<1>10. Bounded'
  BY <1>2 DEF IInv, Bounded, Cached
<1>11. FreshIsCached'
  <2> SUFFICES ASSUME NEW j \in Ids, Fresh(j)' PROVE Live(j)'
    BY DEF FreshIsCached
  <2>1. CASE j = i
    BY <1>2, <2>1 DEF Live
  <2>2. CASE j # i
    <3>1. usedSince[j] \in SUBSET usedSince'[j] /\ usedSince'[j] \in SUBSET Ids
      BY <1>2, <2>2 DEF TypeOK
    <3>2. /\ IsFiniteSet(usedSince'[j]) /\ Cardinality(usedSince'[j]) \in Nat
          /\ Cardinality(usedSince[j]) \in Nat
      BY <3>1, SubsetsFinite DEF IInv, TypeOK
    <3>3. Cardinality(usedSince[j]) <= Cardinality(usedSince'[j])
      BY <3>1, <3>2, FS_Subset
    <3>4. Fresh(j)
      BY <1>2, <3>2, <3>3, SizeAssumption DEF Fresh
    <3> QED
      BY <1>2, <3>4 DEF IInv, FreshIsCached, Live
  <2> QED
    BY <2>1, <2>2
<1> QED
  BY <1>5, <1>6, <1>7, <1>8, <1>9, <1>10, <1>11 DEF IInv

(* Return without a key: nothing but the call itself changes.             *)
LEMMA ReturnUnkeyedStep ==
    ASSUME IInv, TypeOK', NEW r \in Requests, Return(r), idOf[r] = None
    PROVE  IInv'
<1>1. /\ status[r] = "applied"
      /\ status' = [status EXCEPT ![r] = "returned"]
      /\ result' = [result EXCEPT ![r] = r]
      /\ ended' = [ended EXCEPT ![r] = now]
      /\ UNCHANGED <<now, idOf, cache, older, last, usedSince>>
  BY DEF Return
<1>2. LastReturned'
  BY <1>1 DEF IInv, LastReturned, TypeOK
<1>3. CacheIsGenuine'
  <2> SUFFICES ASSUME NEW j \in Cached
               PROVE  LET q == cache[j].value
                      IN  /\ q = last[j]
                          /\ status'[q] = "returned"
                          /\ idOf[q] = j
                          /\ cache[j].expires = ended'[q] + TTL
    BY <1>1 DEF CacheIsGenuine, Cached
  <2>1. cache[j].value \in Requests /\ cache[j].value # r
    BY <1>1 DEF IInv, TypeOK, Cached, Entry, CacheIsGenuine
  <2> QED
    BY <1>1, <2>1 DEF IInv, CacheIsGenuine, TypeOK
<1>4. ReplayIsGenuine' /\ Answers'
  BY <1>1, NoneAssumption DEF IInv, TypeOK, ReplayIsGenuine, Answers, InCall
<1>5. Ordered' /\ Bounded'
  BY <1>1 DEF IInv, Ordered, Bounded, Cached
<1>6. FreshIsCached'
  <2> SUFFICES ASSUME NEW j \in Ids, Fresh(j)' PROVE Live(j)'
    BY DEF FreshIsCached
  <2>1. last[j] \in Requests /\ last[j] # r
    BY <1>1 DEF IInv, TypeOK, Fresh, LastReturned
  <2>2. Fresh(j)
    BY <1>1, <2>1 DEF IInv, TypeOK, Fresh
  <2> QED
    BY <1>1, <2>2 DEF IInv, FreshIsCached, Live
<1> QED
  BY <1>2, <1>3, <1>4, <1>5, <1>6 DEF IInv

(* Return with a key: the result is stored, at the price of at most one    *)
(* eviction.                                                               *)
LEMMA ReturnKeyedStep ==
    ASSUME IInv, TypeOK', NEW r \in Requests, Return(r), idOf[r] # None
    PROVE  IInv'
<1> DEFINE i == idOf[r]
<1>1. /\ status[r] = "applied" /\ i \in Ids
      /\ status' = [status EXCEPT ![r] = "returned"]
      /\ result' = [result EXCEPT ![r] = r]
      /\ ended' = [ended EXCEPT ![r] = now]
      /\ Put(i, r)
      /\ UNCHANGED <<now, idOf>>
  BY DEF Return, IInv, TypeOK
<1> HIDE DEF i
<1>2. PICK kept, out \in SUBSET Ids : PutTo(i, r, kept, out)
  BY <1>1, PutEffect DEF IInv
<1> USE DEF PutTo
<1>3. [value |-> r, expires |-> now + TTL] \in Entry
  BY TimeAssumption DEF Entry, IInv, TypeOK
<1>4. Cached' = (kept \ out) \cup {i}
  BY <1>1, <1>2, <1>3, NoneAssumption DEF Cached, Entry
<1>5. \A j \in Cached : cache[j].value \in Requests \ {r}
  BY <1>1 DEF IInv, TypeOK, Cached, Entry, CacheIsGenuine
<1>6. LastReturned'
  BY <1>1, <1>2 DEF IInv, LastReturned, TypeOK, i
<1>7. CacheIsGenuine'
  <2> SUFFICES ASSUME NEW j \in Cached'
               PROVE  LET q == cache'[j].value
                      IN  /\ q = last'[j]
                          /\ status'[q] = "returned"
                          /\ idOf'[q] = j
                          /\ cache'[j].expires = ended'[q] + TTL
    BY DEF CacheIsGenuine
  <2>1. CASE j = i
    BY <1>1, <1>2, <2>1 DEF IInv, TypeOK, i
  <2>2. CASE j # i
    <3>1. j \in kept \ out /\ j \in Cached /\ cache'[j] = cache[j] /\ last'[j] = last[j]
      BY <1>1, <1>2, <1>4, <2>2 DEF IInv, TypeOK
    <3> QED
      BY <1>1, <1>5, <3>1 DEF IInv, CacheIsGenuine, TypeOK
  <2> QED
    BY <2>1, <2>2
<1>8. ReplayIsGenuine' /\ Answers'
  BY <1>1, NoneAssumption DEF IInv, TypeOK, ReplayIsGenuine, Answers, InCall
<1>9. Ordered'
  <2>1. ASSUME NEW j1 \in Cached', NEW j2 \in Cached', j1 # j2
        PROVE  <<j1, j2>> \in older' \/ <<j2, j1>> \in older'
    BY <1>2, <1>4, <2>1 DEF IInv, Ordered, MoveToEnd
  <2>2. ASSUME NEW j1 \in Ids, NEW j2 \in Ids, <<j1, j2>> \in older'
        PROVE  j2 \in usedSince'[j1]
    BY <1>1, <1>2, <2>2 DEF IInv, Ordered, MoveToEnd, TypeOK
  <2> QED
    BY <2>1, <2>2 DEF Ordered
<1>10. Bounded'
  BY <1>1, <1>2, <1>4, StoreFits DEF IInv, Bounded
<1>11. FreshIsCached'
  <2> SUFFICES ASSUME NEW j \in Ids, Fresh(j)' PROVE Live(j)'
    BY DEF FreshIsCached
  <2>1. CASE j = i
    BY <1>1, <1>2, <1>3, <2>1, NoneAssumption, TimeAssumption
    DEF Live, IInv, TypeOK, Entry
  <2>2. CASE j # i
    <3>1. last'[j] = last[j] /\ usedSince'[j] = usedSince[j] \cup {i}
      BY <1>1, <1>2, <2>2 DEF IInv, TypeOK
    <3>2. last[j] \in Requests /\ last[j] # r /\ ended'[last[j]] = ended[last[j]]
      BY <1>1, <3>1 DEF IInv, TypeOK, Fresh, LastReturned
    <3>3. usedSince[j] \in SUBSET usedSince'[j] /\ usedSince'[j] \in SUBSET Ids
      BY <3>1 DEF TypeOK
    <3>4. /\ IsFiniteSet(usedSince'[j]) /\ Cardinality(usedSince'[j]) \in Nat
          /\ Cardinality(usedSince[j]) \in Nat
      BY <3>3, SubsetsFinite DEF IInv, TypeOK
    <3>5. Cardinality(usedSince[j]) <= Cardinality(usedSince'[j])
      BY <3>3, <3>4, FS_Subset
    <3>6. Cardinality(usedSince'[j]) < MaxSize
      BY DEF Fresh
    <3>7. Fresh(j)
      BY <1>1, <3>1, <3>2, <3>4, <3>5, <3>6, SizeAssumption DEF Fresh
    <3>8. Live(j)
      BY <3>7 DEF IInv, FreshIsCached
    <3>9. j \in kept
      BY <1>2, <3>8
    <3>10. j \notin out
      <4> SUFFICES ASSUME j \in out PROVE FALSE
        OBVIOUS
      <4>1. Cardinality(usedSince[j] \cup {i}) >= MaxSize
        BY <1>1, <1>2, EvictedWasStale DEF IInv
      <4> QED
        BY <3>1, <3>4, <3>6, <4>1, SizeAssumption
    <3> QED
      BY <1>1, <1>2, <2>2, <3>8, <3>9, <3>10 DEF Live
  <2> QED
    BY <2>1, <2>2
<1> QED
  BY <1>6, <1>7, <1>8, <1>9, <1>10, <1>11 DEF IInv

(* Tick: entries may stop being live, but so do the answers they hold stop *)
(* being fresh.                                                            *)
LEMMA TickStep ==
    ASSUME IInv, Tick PROVE IInv'
<1>1. TypeOK'
  BY NextTypeOK DEF IInv, Next
<1>2. /\ now' = now + 1
      /\ UNCHANGED <<cache, older, status, idOf, result, ended, last, usedSince>>
  BY DEF Tick, histVars
<1>3. LastReturned' /\ CacheIsGenuine' /\ ReplayIsGenuine' /\ Answers' /\ Ordered' /\ Bounded'
  BY <1>2 DEF IInv, LastReturned, CacheIsGenuine, ReplayIsGenuine, Answers,
              Ordered, Bounded, Cached
<1>4. FreshIsCached'
  <2> SUFFICES ASSUME NEW j \in Ids, Fresh(j)' PROVE Live(j)'
    BY DEF FreshIsCached
  <2>1. Fresh(j)
    <3>1. last[j] \in Requests /\ now + 1 < ended[last[j]] + TTL
      BY <1>2 DEF IInv, TypeOK, Fresh
    <3>2. now < ended[last[j]] + TTL
      BY <3>1, TimeAssumption DEF IInv, TypeOK
    <3> QED
      BY <1>2, <3>2 DEF Fresh
  <2>2. j \in Cached
    BY <2>1 DEF IInv, FreshIsCached, Live, Cached
  <2>3. cache[j].expires = ended[last[j]] + TTL
    BY <2>2 DEF IInv, CacheIsGenuine
  <2> QED
    BY <1>2, <2>2, <2>3 DEF Live, Fresh, Cached
<1> QED
  BY <1>1, <1>3, <1>4 DEF IInv

(* Restart: the cache is empty, and no answer is fresh any more.           *)
LEMMA RestartStep ==
    ASSUME IInv, Restart PROVE IInv'
<1>1. TypeOK'
  BY NextTypeOK DEF IInv, Next
<1>2. /\ cache' = [i \in Ids |-> None] /\ older' = {}
      /\ status' = [r \in Requests |->
                       IF status[r] \in InCall THEN "failed" ELSE status[r]]
      /\ last' = [i \in Ids |-> None]
      /\ UNCHANGED <<now, idOf, result, ended>>
  BY DEF Restart
<1>3. Cached' = {}
  BY <1>2 DEF Cached
<1>4. LastReturned' /\ CacheIsGenuine' /\ Ordered' /\ FreshIsCached'
  BY <1>2, <1>3 DEF LastReturned, CacheIsGenuine, Ordered, FreshIsCached, Fresh
<1>5. Bounded'
  BY <1>3, FS_EmptySet, SizeAssumption DEF Bounded
<1>6. ReplayIsGenuine'
  <2> SUFFICES ASSUME NEW q \in Requests, status'[q] = "hit"
               PROVE  status'[result'[q]] = "returned" /\ idOf'[result'[q]] = idOf'[q]
    BY DEF ReplayIsGenuine
  <2>1. status[q] = "hit"
    BY <1>2
  <2>2. result[q] \in Requests /\ status[result[q]] = "returned"
        /\ idOf[result[q]] = idOf[q]
    BY <2>1 DEF IInv, TypeOK, Answers, ReplayIsGenuine
  <2> QED
    BY <1>2, <2>2 DEF InCall
<1>7. Answers'
  BY <1>2 DEF IInv, Answers, InCall
<1> QED
  BY <1>1, <1>4, <1>5, <1>6, <1>7 DEF IInv

LEMMA NextIInv == IInv /\ [Next]_vars => IInv'
<1> SUFFICES ASSUME IInv, [Next]_vars PROVE IInv'
  OBVIOUS
<1>0. TypeOK'
  BY NextTypeOK DEF IInv
<1>1. ASSUME NEW r \in Requests, CallWithoutKey(r) PROVE IInv'
  BY <1>0, <1>1, QuietStep DEF CallWithoutKey, IInv, TypeOK
<1>2. ASSUME NEW r \in Requests, NEW k \in Keys, RejectKey(r, k) PROVE IInv'
  BY <1>0, <1>2, QuietStep DEF RejectKey, IInv, TypeOK
<1>3. ASSUME NEW r \in Requests, NEW t \in Tools, NEW k \in Keys, Hit(r, t, k)
      PROVE  IInv'
  BY <1>0, <1>3, HitStep
<1>4. ASSUME NEW r \in Requests, NEW t \in Tools, NEW k \in Keys, Miss(r, t, k)
      PROVE  IInv'
  BY <1>0, <1>4, QuietStep DEF Miss, IInv, TypeOK
<1>5. ASSUME NEW r \in Requests, KernelApplies(r) PROVE IInv'
  BY <1>0, <1>5, QuietStep DEF KernelApplies, InCall, IInv, TypeOK
<1>6. ASSUME NEW r \in Requests, Return(r) PROVE IInv'
  BY <1>0, <1>6, ReturnUnkeyedStep, ReturnKeyedStep
<1>7. ASSUME NEW r \in Requests, Raise(r) PROVE IInv'
  BY <1>0, <1>7, QuietStep DEF Raise, InCall, IInv, TypeOK
<1>8. CASE Tick
  BY <1>8, TickStep
<1>9. CASE Restart
  BY <1>9, RestartStep
<1>10. CASE UNCHANGED vars
  BY <1>10 DEF vars, IInv, TypeOK, LastReturned, CacheIsGenuine, ReplayIsGenuine,
               Answers, Ordered, Bounded, FreshIsCached, Fresh, Live, Cached
<1> QED
  BY <1>1, <1>2, <1>3, <1>4, <1>5, <1>6, <1>7, <1>8, <1>9, <1>10
  DEF Next, CallStep

LEMMA InitIInv == Init => IInv
<1> SUFFICES ASSUME Init PROVE IInv
  OBVIOUS
<1>1. Cached = {}
  BY DEF Init, Cached
<1>2. Bounded
  BY <1>1, FS_EmptySet, SizeAssumption DEF Bounded
<1> QED
  BY <1>1, <1>2, InitTypeOK DEF Init, IInv, LastReturned, CacheIsGenuine,
     ReplayIsGenuine, Answers, Ordered, FreshIsCached, Fresh, InCall

-----------------------------------------------------------------------------
(* Theorems                                                                *)

THEOREM Invariance == Spec => []IInv
<1>1. Init => IInv
  BY InitIInv
<1>2. IInv /\ [Next]_vars => IInv'
  BY NextIInv
<1> QED
  BY <1>1, <1>2, PTL DEF Spec

(* What is cached for a tool and key is what the newest call that was      *)
(* stored for them returned, with the expiry of that return.               *)
THEOREM CacheCorrect == Spec => []CacheIsGenuine
<1>1. IInv => CacheIsGenuine
  BY DEF IInv
<1> QED
  BY <1>1, Invariance, PTL

(* The cache only ever replays what a call under the same tool and key     *)
(* really returned.                                                        *)
THEOREM ReplayCorrect == Spec => []ReplayIsGenuine
<1>1. IInv => ReplayIsGenuine
  BY DEF IInv
<1> QED
  BY <1>1, Invariance, PTL

(* The working-set guarantee: within its TTL an answer survives in the     *)
(* cache until MaxSize other ids have been used.                           *)
THEOREM WorkingSet == Spec => []FreshIsCached
<1>1. IInv => FreshIsCached
  BY DEF IInv
<1> QED
  BY <1>1, Invariance, PTL

(* The cache never outgrows maxsize.                                       *)
THEOREM Capacity == Spec => []Bounded
<1>1. IInv => Bounded
  BY DEF IInv
<1> QED
  BY <1>1, Invariance, PTL

(* A retry under the key of a fresh answer is replayed, with that answer.  *)
LEMMA FreshRetryStep ==
    ASSUME IInv, [Next]_vars, NEW r \in Requests,
           status[r] = "idle", idOf'[r] # None, Fresh(idOf'[r])
    PROVE  status'[r] = "hit" /\ result'[r] = last[idOf'[r]]
<1>1. idOf[r] = None
  BY DEF IInv, Answers
<1>2. idOf'[r] \in Ids
  BY NextTypeOK DEF IInv, TypeOK
<1>3. Live(idOf'[r]) /\ idOf'[r] \in Cached
  BY <1>2 DEF IInv, FreshIsCached, Live, Cached
<1>4. CASE \E t \in Tools, k \in Keys : Hit(r, t, k)
  <2>1. status'[r] = "hit" /\ result'[r] = cache[idOf'[r]].value
    BY <1>4 DEF Hit, IInv, TypeOK
  <2> QED
    BY <1>3, <2>1 DEF IInv, CacheIsGenuine
<1>5. CASE \E t \in Tools, k \in Keys : Miss(r, t, k)
  BY <1>3, <1>5 DEF Miss, IInv, TypeOK
<1>6. CASE \E q \in Requests \ {r}, t \in Tools, k \in Keys : Hit(q, t, k) \/ Miss(q, t, k)
  BY <1>1, <1>6 DEF Hit, Miss, IInv, TypeOK
<1>7. CASE idOf' = idOf
  BY <1>1, <1>7
<1>8. ASSUME NEW q \in Requests,
             \/ CallWithoutKey(q) \/ KernelApplies(q) \/ Return(q) \/ Raise(q)
             \/ \E k \in Keys : RejectKey(q, k)
      PROVE  idOf' = idOf
  BY <1>8 DEF CallWithoutKey, KernelApplies, Return, Raise, RejectKey
<1>9. Tick \/ Restart \/ UNCHANGED vars => idOf' = idOf
  BY DEF Tick, Restart, vars
<1> QED
  BY <1>4, <1>5, <1>6, <1>7, <1>8, <1>9 DEF Next, CallStep

(* Within its TTL and working set, a retried write never reaches the       *)
(* kernel a second time.                                                   *)
THEOREM RetryReplayed == Spec => FreshRetryIsReplayed
<1>1. IInv /\ [Next]_vars => [\A r \in Requests : RetryReplays(r)]_vars
  BY FreshRetryStep DEF RetryReplays
<1> QED
  BY <1>1, Invariance, PTL DEF Spec, FreshRetryIsReplayed

-----------------------------------------------------------------------------
(* Refinement                                                              *)

(* What an unchanged cache remembers at an unchanged time.                 *)
LEMMA SameMemo == UNCHANGED <<now, cache>> => Memo' = Memo
BY DEF Memo, Live

(* A store keeps the memory of every id it does not drop.                  *)
LEMMA StoreRefines ==
    ASSUME IInv, NEW r \in Requests, Return(r), idOf[r] # None
    PROVE  Abstract!PerformAndStore(r, idOf[r])
<1> DEFINE i == idOf[r]
<1>1. /\ status[r] = "applied" /\ i \in Ids /\ Put(i, r) /\ now' = now
      /\ result' = [result EXCEPT ![r] = r]
  BY DEF Return, IInv, TypeOK
<1>2. result[r] = None
  BY <1>1 DEF IInv, Answers, InCall
<1> HIDE DEF i
<1>3. PICK kept, out \in SUBSET Ids : PutTo(i, r, kept, out)
  BY <1>1, PutEffect DEF IInv
<1> USE DEF PutTo
<1> DEFINE gone == {j \in Ids \ (kept \ out) : Memo[j] # None}
<1>4. [value |-> r, expires |-> now + TTL] # None
  BY TimeAssumption, NoneAssumption DEF IInv, TypeOK
<1>5. ASSUME NEW j \in Ids
      PROVE  Memo'[j] = IF j = i THEN r ELSE IF j \in gone THEN None ELSE Memo[j]
  <2>1. CASE j = i
    <3>1. Live(j)'
      BY <1>1, <1>3, <1>4, <2>1, TimeAssumption DEF Live, IInv, TypeOK
    <3> QED
      BY <1>3, <2>1, <3>1 DEF Memo
  <2>2. CASE j # i /\ j \notin kept \ out
    <3>1. Memo'[j] = None
      BY <1>3, <2>2 DEF Memo, Live
    <3> QED
      BY <2>2, <3>1
  <2>3. CASE j # i /\ j \in kept \ out
    <3>1. cache'[j] = cache[j] /\ Live(j)
      BY <1>3, <2>3
    <3>2. Live(j)'
      BY <1>1, <3>1 DEF Live
    <3> QED
      BY <2>3, <3>1, <3>2 DEF Memo
  <2> QED
    BY <2>1, <2>2, <2>3
<1>6. Memo' = [[j \in Ids |-> IF j \in gone THEN None ELSE Memo[j]] EXCEPT ![i] = r]
  BY <1>1, <1>5 DEF Memo
<1>7. gone \in SUBSET Abstract!Remembered
  BY DEF Abstract!Remembered
<1> HIDE DEF gone
<1> QED
  BY <1>1, <1>2, <1>6, <1>7 DEF Abstract!PerformAndStore, Abstract!Without, i

LEMMA StepRefines ==
    ASSUME IInv, [Next]_vars
    PROVE  [Abstract!Next]_(Abstract!absVars)
<1> USE DEF Abstract!absVars
<1>1. ASSUME UNCHANGED <<now, cache, result>>
      PROVE  UNCHANGED Abstract!absVars
  BY <1>1, SameMemo
<1>2. ASSUME NEW r \in Requests,
             \/ CallWithoutKey(r) \/ KernelApplies(r) \/ Raise(r)
             \/ \E k \in Keys : RejectKey(r, k)
             \/ \E t \in Tools, k \in Keys : Miss(r, t, k)
      PROVE  UNCHANGED <<now, cache, result>>
  BY <1>2 DEF CallWithoutKey, KernelApplies, Raise, RejectKey, Miss
<1>3. ASSUME NEW r \in Requests, NEW t \in Tools, NEW k \in Keys, Hit(r, t, k)
      PROVE  Abstract!Replay(r, <<t, k>>)
  <2> DEFINE i == <<t, k>>
  <2>1. i \in Ids
    BY DEF Ids
  <2> HIDE DEF i
  <2>2. Live(i) /\ UNCHANGED <<now, cache>> /\ result[r] = None
        /\ result' = [result EXCEPT ![r] = cache[i].value]
    BY <1>3 DEF Hit, IInv, Answers, i
  <2>3. Memo[i] = cache[i].value /\ Memo[i] \in Requests
    BY <2>1, <2>2 DEF Memo, Live, IInv, TypeOK, Entry
  <2> QED
    BY <2>2, <2>3, SameMemo, NoneAssumption DEF Abstract!Replay, i
<1>4. ASSUME NEW r \in Requests, Return(r), idOf[r] = None
      PROVE  Abstract!Perform(r)
  <2>1. result[r] = None /\ UNCHANGED <<now, cache>>
        /\ result' = [result EXCEPT ![r] = r]
    BY <1>4 DEF Return, IInv, Answers, InCall
  <2> QED
    BY <2>1, SameMemo DEF Abstract!Perform
<1>5. ASSUME NEW r \in Requests, Return(r), idOf[r] # None
      PROVE  idOf[r] \in Ids /\ Abstract!PerformAndStore(r, idOf[r])
  BY <1>5, StoreRefines DEF IInv, TypeOK
<1>6. ASSUME Tick \/ Restart PROVE Abstract!Forget
  <2> DEFINE gone == {j \in Ids : ~Live(j)' /\ Memo[j] # None}
  <2>1. result' = result
    BY <1>6 DEF Tick, Restart
  <2>2. \A j \in Ids : Live(j)' => Live(j) /\ cache'[j] = cache[j]
    <3>1. CASE Tick
      BY <3>1, TimeAssumption DEF Tick, Live, IInv, TypeOK, Entry
    <3>2. CASE Restart
      BY <3>2 DEF Restart, Live
    <3> QED
      BY <1>6, <3>1, <3>2
  <2>3. Memo' = [j \in Ids |-> IF j \in gone THEN None ELSE Memo[j]]
    BY <2>2 DEF Memo
  <2>4. gone \in SUBSET Abstract!Remembered
    BY DEF Abstract!Remembered
  <2> HIDE DEF gone
  <2> QED
    BY <2>1, <2>3, <2>4 DEF Abstract!Forget, Abstract!Without
<1> QED
  BY <1>1, <1>2, <1>3, <1>4, <1>5, <1>6
  DEF Next, CallStep, vars, Abstract!Next, Ids

(* The cache with its clock, capacity and recency order implements the     *)
(* replay promise: an answer is the call's own work, or what is remembered *)
(* for the same tool and key.                                              *)
THEOREM Refinement == Spec => ImplementsReplayCache
<1>1. Init => Abstract!Init
  BY DEF Init, Abstract!Init, Memo, Live
<1>2. IInv /\ [Next]_vars => [Abstract!Next]_(Abstract!absVars)
  BY StepRefines
<1> QED
  BY <1>1, <1>2, Invariance, PTL DEF Spec, ImplementsReplayCache, Abstract!Spec

=============================================================================
