----------------------------- MODULE Idempotency -----------------------------
(***************************************************************************)
(* The in-process replay cache of the write tools                          *)
(* (mcp_siyuan/idempotency/cache.py): with_idempotency around a tool's     *)
(* kernel work, over a cachetools TTLCache that the whole process shares.  *)
(*                                                                         *)
(* The tools are asyncio coroutines, so a step of a call is what it does   *)
(* between two awaits: the lookup runs up to `await call()`, the store     *)
(* runs when call() returns, and any other call may run in between.        *)
(***************************************************************************)
EXTENDS Naturals, FiniteSets

CONSTANTS
    Tools,      \* tool names
    Keys,       \* strings a client passes as idempotency_key
    KeyLen,     \* KeyLen[k]: the length of k
    Matches,    \* the keys that match _KEY_RE
    Requests,   \* tool calls; a call also names the kernel work it performs
    MaxSize,    \* TTLCache(maxsize = ...), 1024 in the code
    TTL,        \* SIYUAN_IDEMPOTENCY_TTL_SECONDS, at least 1
    MaxTime,    \* bound: the clock stops here
    None

Ids == Tools \X Keys

ASSUME SizeAssumption == MaxSize \in Nat \ {0}
ASSUME TimeAssumption == TTL \in Nat \ {0} /\ MaxTime \in Nat
ASSUME IdsAssumption  == IsFiniteSet(Ids) /\ KeyLen \in [Keys -> Nat]
ASSUME NoneAssumption == None \notin Requests /\ None \notin Ids
                         /\ None \notin [value : Requests, expires : Nat]

VARIABLES
    now,        \* time.monotonic(), in ticks
    cache,      \* cache[i]: the entry stored for i, or None
    older,      \* <<i, j>>: i is nearer than j to the eviction end
    status,     \* status[r]: where call r is
    idOf,       \* idOf[r]: the cache key of r, None without one
    result,     \* result[r]: the call whose work the answer to r reports
    (* History, read by properties only. *)
    ended,      \* ended[r]: when call() returned for r
    last,       \* last[i]: the newest call this process stored for i
    usedSince   \* usedSince[i]: ids stored or hit since i last was

sysVars  == <<now, cache, older, status, idOf, result>>
histVars == <<ended, last, usedSince>>
vars     == <<now, cache, older, status, idOf, result, ended, last, usedSince>>

Entry  == [value : Requests, expires : Nat]
InCall == {"calling", "applied"}
Final  == {"returned", "hit", "failed", "rejected"}

TypeOK ==
    /\ now \in 0..MaxTime
    /\ cache \in [Ids -> Entry \cup {None}]
    /\ older \subseteq Ids \X Ids
    /\ status \in [Requests -> {"idle"} \cup InCall \cup Final]
    /\ idOf \in [Requests -> Ids \cup {None}]
    /\ result \in [Requests -> Requests \cup {None}]
    /\ ended \in [Requests -> 0..MaxTime]
    /\ last \in [Ids -> Requests \cup {None}]
    /\ usedSince \in [Ids -> SUBSET Ids]

-----------------------------------------------------------------------------
(* cachetools.TTLCache, as cache.py uses it.                               *)

Cached == {i \in Ids : cache[i] # None}

(* Mutant of Live: the entry dies a tick early. *)
LiveShorter(i) == cache[i] # None /\ now + 1 < cache[i].expires

(* `key in cache`: present, and its time has not come. *)
Live(i) == cache[i] # None /\ now < cache[i].expires

(* The order once the ids outside kept are gone and i is moved to the end. *)
MoveToEnd(i, kept) ==
    {p \in older : p[1] \in kept \ {i} /\ p[2] \in kept \ {i}}
        \cup {<<j, i>> : j \in kept \ {i}}

(* popitem() takes the first id of the order. *)
IsFirst(v, kept) == v \in kept /\ \A j \in kept : <<j, v>> \notin older

(* Mutant of Evictions: makes room one entry too late. *)
EvictionsLate(i, kept) ==
    IF i \in kept \/ Cardinality(kept) <= MaxSize
    THEN {{}}
    ELSE {{v} : v \in {u \in kept : IsFirst(u, kept)}}

(* The sets of ids that storing i among `kept` may push out. *)
Evictions(i, kept) ==
    IF i \in kept \/ Cardinality(kept) < MaxSize
    THEN {{}}
    ELSE {{v} : v \in {u \in kept : IsFirst(u, kept)}}

(* History: i was stored or hit. *)
NoteUse(i) ==
    usedSince' = [j \in Ids |-> IF j = i THEN {} ELSE usedSince[j] \cup {i}]

(* put(): drop what has expired, make room, store, move to the end. *)
Put(i, r) ==
    LET kept == {j \in Ids : Live(j)}
    IN  \E out \in Evictions(i, kept) :
            /\ cache' = [j \in Ids |->
                           IF j = i THEN [value |-> r, expires |-> now + TTL]
                           ELSE IF j \in kept \ out THEN cache[j] ELSE None]
            /\ older' = MoveToEnd(i, (kept \ out) \cup {i})
            /\ last' = [last EXCEPT ![i] = r]
            /\ NoteUse(i)

-----------------------------------------------------------------------------
(* with_idempotency                                                        *)

(* validate_key *)
ValidKey(k) == KeyLen[k] > 0 /\ KeyLen[k] <= 128 /\ k \in Matches

(* idempotency_key is None: straight to call(). *)
CallWithoutKey(r) ==
    /\ status[r] = "idle"
    /\ status' = [status EXCEPT ![r] = "calling"]
    /\ UNCHANGED <<now, cache, older, idOf, result, histVars>>

(* validate_key raises: neither the cache nor the kernel is reached. *)
RejectKey(r, k) ==
    /\ status[r] = "idle"
    /\ ~ValidKey(k)
    /\ status' = [status EXCEPT ![r] = "rejected"]
    /\ UNCHANGED <<now, cache, older, idOf, result, histVars>>

(* What the mutants of Hit share with it. *)
HitOnly(r, i) ==
    /\ status' = [status EXCEPT ![r] = "hit"]
    /\ idOf' = [idOf EXCEPT ![r] = i]
    /\ UNCHANGED <<now, cache, ended, last>>

(* Mutant of Hit: a hit does not make the entry recent (FIFO eviction). *)
HitLeavesOrder(r, t, k) ==
    /\ status[r] = "idle" /\ ValidKey(k) /\ Live(<<t, k>>)
    /\ result' = [result EXCEPT ![r] = cache[<<t, k>>].value]
    /\ UNCHANGED older
    /\ NoteUse(<<t, k>>)
    /\ HitOnly(r, <<t, k>>)

(* Mutant of Hit: the lookup forgets the tool's half of the cache key. *)
HitOfAnyTool(r, t, k) ==
    \E u \in Tools :
        /\ status[r] = "idle" /\ ValidKey(k) /\ Live(<<u, k>>)
        /\ result' = [result EXCEPT ![r] = cache[<<u, k>>].value]
        /\ older' = MoveToEnd(<<u, k>>, Cached)
        /\ NoteUse(<<u, k>>)
        /\ HitOnly(r, <<t, k>>)

(* Mutant of Hit: expiry is not tested on lookup. *)
HitIgnoresExpiry(r, t, k) ==
    /\ status[r] = "idle" /\ ValidKey(k) /\ <<t, k>> \in Cached
    /\ result' = [result EXCEPT ![r] = cache[<<t, k>>].value]
    /\ older' = MoveToEnd(<<t, k>>, Cached)
    /\ NoteUse(<<t, k>>)
    /\ HitOnly(r, <<t, k>>)

(* get() finds a live entry, which also makes it the most recent one. *)
Hit(r, t, k) ==
    LET i == <<t, k>>
    IN  /\ status[r] = "idle"
        /\ ValidKey(k)
        /\ Live(i)
        /\ status' = [status EXCEPT ![r] = "hit"]
        /\ idOf' = [idOf EXCEPT ![r] = i]
        /\ result' = [result EXCEPT ![r] = cache[i].value]
        /\ older' = MoveToEnd(i, Cached)
        /\ NoteUse(i)
        /\ UNCHANGED <<now, cache, ended, last>>

(* get() returns MISS and the call awaits call(). *)
Miss(r, t, k) ==
    /\ status[r] = "idle"
    /\ ValidKey(k)
    /\ ~Live(<<t, k>>)
    /\ status' = [status EXCEPT ![r] = "calling"]
    /\ idOf' = [idOf EXCEPT ![r] = <<t, k>>]
    /\ UNCHANGED <<now, cache, older, result, histVars>>

(* The kernel performs the write; its response is still on the way. *)
KernelApplies(r) ==
    /\ status[r] = "calling"
    /\ status' = [status EXCEPT ![r] = "applied"]
    /\ UNCHANGED <<now, cache, older, idOf, result, histVars>>

(* call() returns: the result is stored if there is a key, then returned. *)
Return(r) ==
    /\ status[r] = "applied"
    /\ status' = [status EXCEPT ![r] = "returned"]
    /\ result' = [result EXCEPT ![r] = r]
    /\ ended' = [ended EXCEPT ![r] = now]
    /\ IF idOf[r] = None
       THEN UNCHANGED <<cache, older, last, usedSince>>
       ELSE Put(idOf[r], r)
    /\ UNCHANGED <<now, idOf>>

(* Mutant of Raise: stores in a finally clause, so failures too. *)
RaiseAndStore(r) ==
    /\ status[r] \in InCall
    /\ status' = [status EXCEPT ![r] = "failed"]
    /\ ended' = [ended EXCEPT ![r] = now]
    /\ IF idOf[r] = None
       THEN UNCHANGED <<cache, older, last, usedSince>>
       ELSE Put(idOf[r], r)
    /\ UNCHANGED <<now, idOf, result>>

(* call() raises, or the call is cancelled, with the write done or not:    *)
(* put() is skipped.                                                       *)
Raise(r) ==
    /\ status[r] \in InCall
    /\ status' = [status EXCEPT ![r] = "failed"]
    /\ UNCHANGED <<now, cache, older, idOf, result, histVars>>

-----------------------------------------------------------------------------
(* Environment                                                             *)

Tick ==
    /\ now < MaxTime
    /\ now' = now + 1
    /\ UNCHANGED <<cache, older, status, idOf, result, histVars>>

(* The process restarts: _cache is a module global, so it starts empty,    *)
(* and the calls in flight are gone.                                       *)
Restart ==
    /\ cache' = [i \in Ids |-> None]
    /\ older' = {}
    /\ status' = [r \in Requests |->
                    IF status[r] \in InCall THEN "failed" ELSE status[r]]
    /\ last' = [i \in Ids |-> None]
    /\ usedSince' = [i \in Ids |-> {}]
    /\ UNCHANGED <<now, idOf, result, ended>>

-----------------------------------------------------------------------------
Init ==
    /\ now = 0
    /\ cache = [i \in Ids |-> None]
    /\ older = {}
    /\ status = [r \in Requests |-> "idle"]
    /\ idOf = [r \in Requests |-> None]
    /\ result = [r \in Requests |-> None]
    /\ ended = [r \in Requests |-> 0]
    /\ last = [i \in Ids |-> None]
    /\ usedSince = [i \in Ids |-> {}]

CallStep(r) ==
    \/ CallWithoutKey(r)
    \/ \E k \in Keys : RejectKey(r, k)
    \/ \E t \in Tools, k \in Keys : Hit(r, t, k) \/ Miss(r, t, k)
    \/ KernelApplies(r)
    \/ Return(r)
    \/ Raise(r)

Next == (\E r \in Requests : CallStep(r)) \/ Tick \/ Restart

Spec == Init /\ [][Next]_vars

-----------------------------------------------------------------------------
(* Properties                                                              *)

(* What is cached for an id is the answer of the newest call that was      *)
(* stored for that very id, a call that returned (put is skipped on every  *)
(* exception), and it expires TTL after that call returned: not after the  *)
(* lookup, nor after a later hit.                                          *)
CacheIsGenuine ==
    \A i \in Cached :
        LET q == cache[i].value
        IN  /\ q = last[i]
            /\ status[q] = "returned"
            /\ idOf[q] = i
            /\ cache[i].expires = ended[q] + TTL

(* A replayed answer reports work really done, under the same tool and key *)
(* by a call that ran call() itself, never that of a failed call.          *)
ReplayIsGenuine ==
    \A r \in Requests :
        status[r] = "hit" =>
            /\ status[result[r]] = "returned"
            /\ idOf[result[r]] = idOf[r]

(* The cache never outgrows maxsize. *)
Bounded == Cardinality(Cached) <= MaxSize

(* Stored for i less than TTL ago, with fewer than MaxSize other ids       *)
(* stored or hit since.                                                    *)
Fresh(i) ==
    /\ last[i] # None
    /\ now < ended[last[i]] + TTL
    /\ Cardinality(usedSince[i]) < MaxSize

(* The working-set guarantee of the cache: a fresh answer is there to be   *)
(* replayed, whatever was evicted, expired or stored again meanwhile.      *)
FreshIsCached == \A i \in Ids : Fresh(i) => Live(i)

(* A retry with the key of a fresh answer does not reach the kernel, and   *)
(* is answered with that very answer.                                      *)
RetryReplays(r) ==
    LET i == idOf'[r]
    IN  status[r] = "idle" /\ i # None /\ Fresh(i)
            => status'[r] = "hit" /\ result'[r] = last[i]

FreshRetryIsReplayed == [][\A r \in Requests : RetryReplays(r)]_vars

(* The promise to clients, without clock, capacity or order. *)
Memo == [i \in Ids |-> IF Live(i) THEN cache[i].value ELSE None]
Abstract == INSTANCE ReplayCache WITH memo <- Memo, answer <- result
ImplementsReplayCache == Abstract!Spec

(* README.md's runbook: a key keeps an accidental client-side retry from   *)
(* creating duplicates. Read as: within one process (OneProcess) and while *)
(* nothing has had time to expire, no two calls with one id both write.    *)
SuccessfulWrites(i) == {r \in Requests : idOf[r] = i /\ status[r] = "returned"}
RetryNeverDuplicates ==
    \A i \in Ids : now < TTL => Cardinality(SuccessfulWrites(i)) <= 1

OneProcess == Init /\ [][(\E r \in Requests : CallStep(r)) \/ Tick]_vars

=============================================================================
