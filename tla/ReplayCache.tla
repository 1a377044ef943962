----------------------------- MODULE ReplayCache -----------------------------
(***************************************************************************)
(* What the idempotency layer promises to the client of a write tool, with *)
(* no clock, no capacity and no recency order: an answer reports either    *)
(* the kernel work the call itself performed, or work remembered for the   *)
(* same (tool, key); what is remembered may be forgotten at any time.      *)
(* Idempotency.tla is shown to implement this.                             *)
(***************************************************************************)
CONSTANTS
    Ids,        \* the cache keys: a tool name paired with an idempotency key
    Requests,   \* tool calls; a call also names the kernel work it performs
    None        \* nothing remembered, no answer yet

VARIABLES
    memo,       \* memo[i]: the call whose answer is replayed for i
    answer      \* answer[r]: the call whose work the answer to r reports

absVars == <<memo, answer>>

Remembered == {i \in Ids : memo[i] # None}

(* What is remembered once the ids in gone are forgotten. *)
Without(gone) == [i \in Ids |-> IF i \in gone THEN None ELSE memo[i]]

Init ==
    /\ memo = [i \in Ids |-> None]
    /\ answer = [r \in Requests |-> None]

(* The call did its work without a key: nothing is remembered. *)
Perform(r) ==
    /\ answer[r] = None
    /\ answer' = [answer EXCEPT ![r] = r]
    /\ UNCHANGED memo

(* The call did its work under i: i is remembered, others may be dropped. *)
PerformAndStore(r, i) ==
    /\ answer[r] = None
    /\ answer' = [answer EXCEPT ![r] = r]
    /\ \E gone \in SUBSET Remembered : memo' = [Without(gone) EXCEPT ![i] = r]

Replay(r, i) ==
    /\ answer[r] = None
    /\ memo[i] # None
    /\ answer' = [answer EXCEPT ![r] = memo[i]]
    /\ UNCHANGED memo

Forget ==
    /\ \E gone \in SUBSET Remembered : memo' = Without(gone)
    /\ UNCHANGED answer

Next ==
    \/ \E r \in Requests : Perform(r)
    \/ \E r \in Requests, i \in Ids : PerformAndStore(r, i) \/ Replay(r, i)
    \/ Forget

Spec == Init /\ [][Next]_absVars

=============================================================================
