-------------------------------- MODULE Tracing ---------------------------------
(***************************************************************************)
(* traced_tool (mcp_siyuan/observability/tracing.py) around the tools: the *)
(* context variables of context.py, which client.py writes, the ring       *)
(* buffer of diag_buffer.py, and what an error tells the client.           *)
(*                                                                         *)
(* A call runs in a context.  Calls that overlap have contexts of their    *)
(* own; one that comes later may find a context as another left it.  The   *)
(* tasks of a group (get_block_children) run in copies.  A kernel request  *)
(* and its answer are one step.                                            *)
(***************************************************************************)
EXTENDS Naturals, Sequences, SequencesExt

CONSTANTS
    Calls,      \* invocations of tools; each is its own request_id
    Contexts,   \* contexts of the tasks that handle requests
    Kids,       \* the tasks of a group
    BufferSize, \* SIYUAN_DIAG_BUFFER_SIZE
    None

ASSUME SizeAssumption == BufferSize \in Nat
ASSUME NoneAssumption == None \notin Calls \cup Contexts \cup Kids

VARIABLES
    context,    \* context[x]: request_id and kernel_status in x
    runsIn,     \* runsIn[c]: the context of c
    pc,         \* pc[c]: idle, running, group (awaiting its tasks), done
    kids,       \* kids[c][k]: a task of c's group
    payload,    \* payload[c]: what c's client sees of its error
    buffer,     \* the ring buffer
    (* History, read by properties only. *)
    log,        \* every record, the oldest first
    lines,      \* lines[c]: request ids on the log lines of c
    last        \* last[c]: the last status the client set for c's own task

calls == <<payload, buffer, log>>
vars  == <<context, runsIn, pc, kids, payload, buffer, log, lines, last>>

(* How client.py ends a request, or an attempt at one: http_5xx is 502, 503*)
(* or 504, http another bad status; no_answer is unreachable and           *)
(* transport_error.                                                        *)
Failures  == {"code", "http", "http_5xx", "no_answer"}
Transient == {"http_5xx", "no_answer"}
Statuses  == Failures \cup {"zero", None}
(* What a tool raises: a SiYuanError, retryable or not, an HTTPStatusError,*)
(* an error of its own, pydantic's, the cancellation, a task group's.      *)
Raises == {"kernel_error", "retryable_error", "http_error", "tool_error",
           "validation_error", "cancelled", "group"}

ASSUME RaisesAssumption == None \notin Raises

Vars   == [request_id : Calls \cup {None}, kernel_status : Statuses]
(* A task has a copy of its parent's variables, and the client sets the    *)
(* status in the copy.                                                     *)
Tasks  == [state : {"none", "running", "ended", "failed"},
           request_id : Calls \cup {None}, kernel_status : Statuses]
Marks  == [request_id : Calls \cup {None}, retryable : BOOLEAN]
Record == [request_id : Calls, kernel_status : Statuses,
           outcome : {"success", "error", "validation_error"}]

TypeOK ==
    /\ context \in [Contexts -> Vars]
    /\ runsIn \in [Calls -> Contexts \cup {None}]
    /\ pc \in [Calls -> {"idle", "running", "group", "done"}]
    /\ kids \in [Calls -> [Kids -> Tasks]]
    /\ payload \in [Calls -> Marks \cup {None}]
    /\ buffer \in Seq(Record) /\ log \in Seq(Record)
    /\ lines \in [Calls -> SUBSET (Calls \cup {None})]
    /\ last \in [Calls -> Statuses]

-----------------------------------------------------------------------------
Here(c) == context[runsIn[c]]

(* A line of c is written by a task with this id in its context.           *)
Writes(c, id) == lines' = [lines EXCEPT ![c] = @ \cup {id}]

ErrorFor(failure) ==
    CASE failure = "code"                 -> "kernel_error"
      [] failure \in {"http", "http_5xx"} -> "http_error"
      [] OTHER                            -> "retryable_error"

Outcome(exc) ==
    CASE exc = None               -> "success"
      [] exc = "validation_error" -> "validation_error"
      [] OTHER                    -> "error"

(* Mutant of Mark: an error with any bad status is marked. *)
MarkHttp(c, exc) ==
    [request_id |-> IF exc \in {"group", "validation_error"} THEN None ELSE c,
     retryable  |-> exc \in {"retryable_error", "http_error"}]

(* The mark goes to args, which the text of a group or of a pydantic error *)
(* does not come from; a group has no `retryable` either.                  *)
Mark(c, exc) ==
    [request_id |-> IF exc \in {"group", "validation_error"} THEN None ELSE c,
     retryable  |-> exc = "retryable_error"]

(* Mutant of Capacity: the setting as it is. *)
CapacityOf(size) == size

Capacity(size) == IF size > 1 THEN size ELSE 1

(* deque(maxlen).append                                                    *)
Appended(q, r) ==
    LET all == Append(q, r)
    IN  SubSeq(all, Len(all) - Capacity(BufferSize) + 1, Len(all))

Push(r) ==
    /\ log' = Append(log, r)
    /\ buffer' = IF Len(buffer) < Capacity(BufferSize) THEN Append(buffer, r) ELSE Appended(buffer, r)

(* The tool returns or raises; `status` is what its own context has then.  *)
Conclude(c, exc, status) ==
    /\ pc' = [pc EXCEPT ![c] = "done"]
    /\ payload' = [payload EXCEPT ![c] = IF exc = None THEN None ELSE Mark(c, exc)]
    /\ Push([request_id |-> c, kernel_status |-> status, outcome |-> Outcome(exc)])

(* Mutants of Start: a variable is left as it was. *)
StartKeepsStatus(c) ==
    /\ pc[c] = "idle"
    /\ \E x \in Contexts :
          /\ \A d \in Calls : runsIn[d] = x => pc[d] = "done"
          /\ runsIn' = [runsIn EXCEPT ![c] = x]
          /\ context' = [context EXCEPT ![x].request_id = c]
          /\ Writes(c, context'[x].request_id)
    /\ pc' = [pc EXCEPT ![c] = "running"]
    /\ UNCHANGED <<kids, calls, last>>

StartKeepsId(c) ==
    /\ pc[c] = "idle"
    /\ \E x \in Contexts :
          /\ \A d \in Calls : runsIn[d] = x => pc[d] = "done"
          /\ runsIn' = [runsIn EXCEPT ![c] = x]
          /\ context' = [context EXCEPT ![x].kernel_status = None]
          /\ Writes(c, context'[x].request_id)
    /\ pc' = [pc EXCEPT ![c] = "running"]
    /\ UNCHANGED <<kids, calls, last>>

Start(c) ==
    /\ pc[c] = "idle"
    /\ \E x \in Contexts :
          /\ \A d \in Calls : runsIn[d] = x => pc[d] = "done"
          /\ runsIn' = [runsIn EXCEPT ![c] = x]
          /\ context' = [context EXCEPT ![x] = [request_id |-> c, kernel_status |-> None]]
          /\ Writes(c, context'[x].request_id)
    /\ pc' = [pc EXCEPT ![c] = "running"]
    /\ UNCHANGED <<kids, calls, last>>

(* The client sets the status in the task that awaits it: after an answer, *)
(* or after an attempt that is repeated, which is logged.  A tool may go   *)
(* on after an error, as the destructive ones do.                          *)
Request(c) ==
    /\ pc[c] = "running"
    /\ \E s \in Failures \cup {"zero"} :
          /\ context' = [context EXCEPT ![runsIn[c]].kernel_status = s]
          /\ last' = [last EXCEPT ![c] = s]
          /\ \/ Writes(c, Here(c).request_id) /\ UNCHANGED <<pc, calls>>
             \/ s \in Failures /\ Conclude(c, ErrorFor(s), s) /\ Writes(c, Here(c).request_id)
    /\ UNCHANGED <<runsIn, kids>>

(* The tool's body ends by itself, or the client goes away.                *)
End(c) ==
    /\ pc[c] = "running"
    /\ \E exc \in {None, "tool_error", "validation_error", "cancelled"} :
          Conclude(c, exc, Here(c).kernel_status)
    /\ Writes(c, Here(c).request_id)
    /\ UNCHANGED <<context, runsIn, kids, last>>

NoTask == [state |-> "none", request_id |-> None, kernel_status |-> None]

Running(c) == {k \in Kids : kids[c][k].state = "running"}
Failed(c)  == {k \in Kids : kids[c][k].state = "failed"}

(* get_block_children, once the kernel has listed the children, starts a   *)
(* task for each container among them.                                     *)
Fork(c) ==
    /\ pc[c] = "running" /\ Here(c).kernel_status = "zero"
    /\ \E started \in SUBSET Kids \ {{}} :
          kids' = [kids EXCEPT ![c] =
                     [k \in Kids |-> IF k \in started
                                     THEN [state |-> "running", request_id |-> Here(c).request_id,
                                           kernel_status |-> Here(c).kernel_status]
                                     ELSE NoTask]]
    /\ pc' = [pc EXCEPT ![c] = "group"]
    /\ UNCHANGED <<context, runsIn, calls, lines, last>>

(* A task's request: it has its answer, or is over its last attempt.       *)
KidRequest(c, k) ==
    /\ pc[c] = "group" /\ k \in Running(c)
    /\ \E s \in Failures \cup {"zero"} :
          kids' = [kids EXCEPT ![c][k] =
                     [state |-> IF s = "zero" THEN "ended" ELSE "failed",
                      request_id |-> kids[c][k].request_id, kernel_status |-> s]]
    /\ Writes(c, kids[c][k].request_id)
    /\ UNCHANGED <<context, runsIn, pc, calls, last>>

(* The failure of one task cancels the others of the group.                *)
KidCancelled(c, k) ==
    /\ pc[c] = "group" /\ k \in Running(c) /\ Failed(c) # {}
    /\ kids' = [kids EXCEPT ![c][k].state = "ended"]
    /\ UNCHANGED <<context, runsIn, pc, calls, lines, last>>

(* All tasks are over, or the client goes away and all are cancelled: the  *)
(* group raises what its tasks raised, or the tool returns its children.   *)
Join(c) ==
    /\ pc[c] = "group"
    /\ \/ Running(c) = {} /\ Conclude(c, IF Failed(c) # {} THEN "group" ELSE None, Here(c).kernel_status)
       \/ Failed(c) = {} /\ Conclude(c, "cancelled", Here(c).kernel_status)
    /\ kids' = [kids EXCEPT ![c] = [k \in Kids |-> NoTask]]
    /\ Writes(c, Here(c).request_id)
    /\ UNCHANGED <<context, runsIn, last>>

Init ==
    /\ context = [x \in Contexts |-> [request_id |-> None, kernel_status |-> None]]
    /\ runsIn = [c \in Calls |-> None]
    /\ pc = [c \in Calls |-> "idle"]
    /\ kids = [c \in Calls |-> [k \in Kids |-> NoTask]]
    /\ payload = [c \in Calls |-> None]
    /\ buffer = << >> /\ log = << >>
    /\ lines = [c \in Calls |-> {}]
    /\ last = [c \in Calls |-> None]

Next ==
    \E c \in Calls :
       \/ Start(c) \/ Request(c) \/ End(c) \/ Fork(c) \/ Join(c)
       \/ \E k \in Kids : KidRequest(c, k) \/ KidCancelled(c, k)

Spec == Init /\ [][Next]_vars

-----------------------------------------------------------------------------
(* Properties                                                              *)

(* Every log line of a call carries its own request id, those of a group's *)
(* tasks too, whatever ran before in its context or runs beside it.        *)
LinesAreOwn == \A c \in Calls : lines[c] \subseteq {c}

(* The record of a call has the last kernel status that its own task got,  *)
(* None if it asked nothing: not one that an earlier call left, nor one of *)
(* a call beside it.  The statuses of a group's tasks are not in it.       *)
StatusIsOwn ==
    \A r \in ToSet(log) : r.kernel_status = last[r.request_id]

(* The buffer has the latest records, as many as it holds and at least one,*)
(* in the order in which the calls ended; a call has a record once it has  *)
(* ended, and only one.                                                    *)
BufferIsRecent ==
    LET n == IF BufferSize = 0 THEN 1 ELSE BufferSize
    IN  /\ buffer = SubSeq(log, IF Len(log) > n THEN Len(log) - n + 1 ELSE 1, Len(log))
        /\ \A i, j \in DOMAIN log : log[i].request_id = log[j].request_id => i = j
        /\ \A c \in Calls : pc[c] = "done" <=> \E r \in ToSet(log) : r.request_id = c

(* A request id in an error leads to the record of a call that failed, and *)
(* [retryable] only to one whose last request got no answer or a 502, 503  *)
(* or 504.                                                                 *)
ErrorLeadsToRecord ==
    \A c \in Calls : payload[c] # None =>
        \E r \in ToSet(log) :
            /\ r.request_id = c /\ r.outcome # "success"
            /\ payload[c].request_id \in {c, None}
            /\ payload[c].retryable => r.kernel_status \in Transient

=============================================================================
