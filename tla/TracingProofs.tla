----------------------------- MODULE TracingProofs ------------------------------
(***************************************************************************)
(* What traced_tool records is each call's own, for any number of calls,   *)
(* contexts, tasks and any size of the buffer.                             *)
(*                                                                         *)
(* The inductive invariant: a call that is under way has a context of its  *)
(* own, which holds its id and its last status (Owns), and the log has one *)
(* record of each call that has ended (Recorded).                          *)
(***************************************************************************)
EXTENDS Tracing, TLAPS

Active(c) == pc[c] \in {"running", "group"}

(* Nobody else writes to the context of a call that is under way, and the  *)
(* tasks of its group have its id.                                         *)
Owns ==
    /\ \A c \in Calls : Active(c) =>
          /\ runsIn[c] \in Contexts
          /\ context[runsIn[c]].request_id = c
          /\ context[runsIn[c]].kernel_status = last[c]
    /\ \A c \in Calls : pc[c] = "idle" => last[c] = None
    /\ \A c \in Calls, k \in Kids :
          kids[c][k].state = "running" => kids[c][k].request_id = c

Recorded ==
    /\ \A i, j \in DOMAIN log : log[i].request_id = log[j].request_id => i = j
    /\ \A c \in Calls : pc[c] = "done" <=> \E i \in DOMAIN log : log[i].request_id = c
    /\ \A i \in DOMAIN log : log[i].kernel_status = last[log[i].request_id]

(* What BufferIsRecent says of the buffer, place by place.                 *)
Recent ==
    /\ Len(buffer) = IF Len(log) > Capacity(BufferSize) THEN Capacity(BufferSize) ELSE Len(log)
    /\ \A i \in 1..Len(buffer) : buffer[i] = log[Len(log) - Len(buffer) + i]

IInv == TypeOK /\ Owns /\ Recorded /\ LinesAreOwn /\ Recent /\ ErrorLeadsToRecord

-----------------------------------------------------------------------------
(* How a call ends                                                         *)

(* The record of an ended call is added to those of the calls before it.   *)
LEMMA PushRecent ==
    ASSUME TypeOK, Recent, NEW r \in Record, Push(r)
    PROVE  /\ log' = Append(log, r)
           /\ log' \in Seq(Record) /\ buffer' \in Seq(Record)
           /\ Recent'
<1>1. log \in Seq(Record) /\ buffer \in Seq(Record) /\ Capacity(BufferSize) \in Nat \ {0}
  BY SizeAssumption DEF TypeOK, Capacity
<1>2. log' = Append(log, r) /\ log' \in Seq(Record) /\ Len(log') = Len(log) + 1
  BY <1>1 DEF Push
<1> DEFINE n == Capacity(BufferSize)
<1> HIDE DEF n
<1>3. CASE Len(buffer) < Capacity(BufferSize)
  <2>1. buffer' = Append(buffer, r) /\ buffer' \in Seq(Record) /\ Len(buffer') = Len(buffer) + 1
    BY <1>1, <1>3 DEF Push
  <2>2. Len(log) = Len(buffer)
    BY <1>1, <1>3 DEF Recent
  <2> QED
    BY <1>1, <1>2, <1>3, <2>1, <2>2 DEF Recent
<1>4. CASE ~(Len(buffer) < Capacity(BufferSize))
  <2> DEFINE all == Append(buffer, r)
  <2>1. Len(buffer) = Capacity(BufferSize) /\ Len(log) >= Len(buffer)
    BY <1>1, <1>4 DEF Recent
  <2>2. all \in Seq(Record) /\ Len(all) = Len(buffer) + 1
    BY <1>1
  <2>3. buffer' = SubSeq(all, 2, Len(all))
    <3>1. buffer' = SubSeq(all, Len(all) - Capacity(BufferSize) + 1, Len(all))
      BY <1>4 DEF Push, Appended
    <3>2. Len(all) - Capacity(BufferSize) + 1 = 2
      BY <1>1, <2>1, <2>2
    <3> QED
      BY <3>1, <3>2
  <2>4. /\ buffer' \in Seq(Record) /\ Len(buffer') = Len(buffer)
        /\ \A i \in 1..Len(buffer) : buffer'[i] = all[i + 1]
    BY <1>1, <2>1, <2>2, <2>3
  <2>5. \A i \in 1..Len(buffer) : all[i + 1] = IF i = Len(buffer) THEN r ELSE buffer[i + 1]
    BY <1>1
  <2>6. \A i \in 1..Len(buffer) :
           log'[Len(log) + 1 - Len(buffer) + i] =
              IF i = Len(buffer) THEN r ELSE log[Len(log) - Len(buffer) + (i + 1)]
    BY <1>1, <1>2, <2>1
  <2>7. Capacity(BufferSize)' = Capacity(BufferSize)
    BY DEF Capacity
  <2>8. \A i \in 1..Len(buffer') : buffer'[i] = log'[Len(log') - Len(buffer') + i]
    <3> HIDE DEF all
    <3> SUFFICES ASSUME NEW i \in 1..Len(buffer) PROVE buffer'[i] = log'[Len(log) + 1 - Len(buffer) + i]
      <4>1. Len(log') = Len(log) + 1 /\ Len(buffer') = Len(buffer)
        BY <1>2, <2>4
      <4> QED
        BY <4>1
    <3>1. buffer'[i] = IF i = Len(buffer) THEN r ELSE buffer[i + 1]
      BY <2>4, <2>5
    <3>2. i # Len(buffer) => buffer[i + 1] = log[Len(log) - Len(buffer) + (i + 1)]
      <4>1. i # Len(buffer) => i + 1 \in 1..Len(buffer)
        BY <1>1
      <4> QED
        BY <4>1 DEF Recent
    <3> QED
      BY <2>6, <3>1, <3>2
  <2>9. Len(buffer') = IF Len(log') > Capacity(BufferSize) THEN Capacity(BufferSize) ELSE Len(log')
    BY <1>1, <1>2, <2>1, <2>4
  <2> QED
    BY <1>2, <2>4, <2>7, <2>8, <2>9 DEF Recent
<1> QED
  BY <1>2, <1>3, <1>4

LEMMA LogOfCalls ==
    ASSUME TypeOK
    PROVE  \A i \in DOMAIN log : log[i].request_id \in Calls
<1>1. log \in Seq(Record)
  BY DEF TypeOK
<1>2. \A i \in DOMAIN log : log[i] \in Record
  BY <1>1
<1> QED
  BY <1>2 DEF Record

(* A call that is under way ends with what its context holds.              *)
LEMMA ConcludeStep ==
    ASSUME IInv, NEW c \in Calls, Active(c),
           NEW exc \in Raises \cup {None}, NEW status \in Statuses,
           Conclude(c, exc, status), last' \in [Calls -> Statuses],
           last'[c] = status, \A d \in Calls \ {c} : last'[d] = last[d],
           exc = "retryable_error" => status = "no_answer"
    PROVE  /\ log' \in Seq(Record) /\ buffer' \in Seq(Record)
           /\ payload' \in [Calls -> Marks \cup {None}]
           /\ pc' = [pc EXCEPT ![c] = "done"]
           /\ Recorded' /\ Recent' /\ ErrorLeadsToRecord'
<1> DEFINE r == [request_id |-> c, kernel_status |-> status, outcome |-> Outcome(exc)]
<1>1. r \in Record /\ Push(r)
  BY DEF Record, Outcome, Conclude
<1>2. /\ log' = Append(log, r)
      /\ log' \in Seq(Record) /\ buffer' \in Seq(Record)
      /\ Recent'
  BY <1>1, PushRecent DEF IInv
<1>3. log \in Seq(Record) /\ pc \in [Calls -> {"idle", "running", "group", "done"}]
      /\ payload \in [Calls -> Marks \cup {None}]
  BY DEF IInv, TypeOK
<1>4. /\ pc' = [pc EXCEPT ![c] = "done"]
      /\ payload' = [payload EXCEPT ![c] = IF exc = None THEN None ELSE Mark(c, exc)]
  BY DEF Conclude
<1>5. Mark(c, exc) \in Marks
  BY DEF Mark, Marks
<1>6. payload' \in [Calls -> Marks \cup {None}]
  BY <1>3, <1>4, <1>5
<1> HIDE DEF r
<1>7. /\ DOMAIN log = 1..Len(log) /\ DOMAIN log' = 1..(Len(log) + 1)
      /\ \A i \in 1..Len(log) : log'[i] = log[i]
      /\ log'[Len(log) + 1] = r /\ Len(log) \in Nat
      /\ \A i \in 1..Len(log) : log[i].request_id \in Calls
  <2>1. Len(log') = Len(log) + 1 /\ Len(log) \in Nat
    BY <1>1, <1>2, <1>3
  <2>2. DOMAIN log = 1..Len(log) /\ DOMAIN log' = 1..(Len(log) + 1)
    BY <1>2, <1>3, <2>1
  <2>3. \A i \in 1..Len(log) : log'[i] = log[i]
    BY <1>1, <1>2, <1>3
  <2>4. log'[Len(log) + 1] = r
    BY <1>1, <1>2, <1>3
  <2> QED
    BY <2>1, <2>2, <2>3, <2>4, LogOfCalls DEF IInv
<1>8. r.request_id = c /\ r.kernel_status = status /\ r.outcome = Outcome(exc)
  BY DEF r
<1>9. \A i \in 1..Len(log) : log[i].request_id # c
  BY <1>7 DEF IInv, Recorded, Active
<1>10. Recorded'
  <2>1. \A i, j \in DOMAIN log' : log'[i].request_id = log'[j].request_id => i = j
    BY <1>7, <1>8, <1>9 DEF IInv, Recorded
  <2>2. ASSUME NEW d \in Calls
        PROVE  pc'[d] = "done" <=> \E i \in DOMAIN log' : log'[i].request_id = d
    <3>1. CASE d = c
      BY <1>3, <1>4, <1>7, <1>8, <3>1
    <3>2. CASE d # c
      <4>1. pc'[d] = pc[d]
        BY <1>3, <1>4, <3>2
      <4>2. (\E i \in DOMAIN log' : log'[i].request_id = d) <=> \E i \in DOMAIN log : log[i].request_id = d
        BY <1>7, <1>8, <3>2
      <4> QED
        BY <4>1, <4>2 DEF IInv, Recorded
    <3> QED
      BY <3>1, <3>2
  <2>3. \A i \in DOMAIN log' : log'[i].kernel_status = last'[log'[i].request_id]
    BY <1>7, <1>8, <1>9 DEF IInv, Recorded
  <2> QED
    BY <2>1, <2>2, <2>3 DEF Recorded
<1>11. ErrorLeadsToRecord'
  <2> SUFFICES ASSUME NEW d \in Calls, payload'[d] # None
               PROVE  \E q \in ToSet(log') :
                        /\ q.request_id = d /\ q.outcome # "success"
                        /\ payload'[d].request_id \in {d, None}
                        /\ payload'[d].retryable => q.kernel_status \in Transient
    BY DEF ErrorLeadsToRecord
  <2>1. ToSet(log') = {log'[i] : i \in 1..(Len(log) + 1)} /\ ToSet(log) = {log[i] : i \in 1..Len(log)}
    BY <1>7 DEF ToSet
  <2>2. CASE d = c
    <3>1. exc # None /\ payload'[c] = Mark(c, exc)
      BY <1>3, <1>4, <2>2
    <3>2. /\ Mark(c, exc).request_id \in {c, None}
          /\ Mark(c, exc).retryable => status \in Transient
      BY DEF Mark, Transient
    <3>3. r.outcome # "success"
      BY <1>8, <3>1 DEF Outcome
    <3>4. r \in ToSet(log')
      BY <1>7, <2>1
    <3> QED
      BY <1>8, <2>2, <3>1, <3>2, <3>3, <3>4
  <2>3. CASE d # c
    <3>1. payload'[d] = payload[d]
      BY <1>3, <1>4, <2>3
    <3>2. ToSet(log) \subseteq ToSet(log')
      BY <1>7, <2>1
    <3> QED
      BY <3>1, <3>2 DEF IInv, ErrorLeadsToRecord
  <2> QED
    BY <2>2, <2>3
<1> QED
  BY <1>2, <1>4, <1>6, <1>10, <1>11

(* What no step of a call under way but its last one disturbs.             *)
LEMMA KeepsRecords ==
    ASSUME IInv, UNCHANGED calls, pc' \in [Calls -> {"idle", "running", "group", "done"}],
           NEW c \in Calls, pc[c] # "done", pc'[c] # "done",
           \A d \in Calls \ {c} : pc'[d] = pc[d] /\ last'[d] = last[d]
    PROVE  Recorded' /\ Recent' /\ ErrorLeadsToRecord'
<1>1. log' = log /\ buffer' = buffer /\ payload' = payload
  BY DEF calls
<1>2. \A i \in DOMAIN log : log[i].request_id \in Calls
  BY LogOfCalls DEF IInv
<1>3. \A i \in DOMAIN log : log[i].request_id # c
  BY DEF IInv, Recorded
<1>4. Recorded'
  BY <1>1, <1>2, <1>3 DEF IInv, Recorded
<1>5. Recent' /\ ErrorLeadsToRecord'
  BY <1>1 DEF IInv, Recent, ErrorLeadsToRecord, Capacity
<1> QED
  BY <1>4, <1>5

-----------------------------------------------------------------------------
(* Steps                                                                   *)

LEMMA Initially == Init => IInv
<1> SUFFICES ASSUME Init PROVE IInv
  OBVIOUS
<1>1. TypeOK
  BY DEF Init, TypeOK, Vars, Statuses, Tasks, NoTask
<1>2. Owns
  BY DEF Init, Owns, Active, NoTask
<1>3. Recorded /\ LinesAreOwn /\ ErrorLeadsToRecord
  BY DEF Init, Recorded, LinesAreOwn, ErrorLeadsToRecord
<1>4. Recent
  BY SizeAssumption DEF Init, Recent, Capacity
<1> QED
  BY <1>1, <1>2, <1>3, <1>4 DEF IInv

(* No two calls that are under way have one context.                       *)
LEMMA Apart ==
    ASSUME IInv, NEW c \in Calls, NEW d \in Calls, Active(c), Active(d), runsIn[c] = runsIn[d]
    PROVE  c = d
BY DEF IInv, Owns

LEMMA StartStep ==
    ASSUME IInv, NEW c \in Calls, Start(c)
    PROVE  IInv'
<1>1. PICK x \in Contexts :
          /\ \A d \in Calls : runsIn[d] = x => pc[d] = "done"
          /\ runsIn' = [runsIn EXCEPT ![c] = x]
          /\ context' = [context EXCEPT ![x] = [request_id |-> c, kernel_status |-> None]]
          /\ Writes(c, context'[x].request_id)
  BY DEF Start
<1>2. pc[c] = "idle" /\ pc' = [pc EXCEPT ![c] = "running"] /\ UNCHANGED <<kids, calls, last>>
  BY DEF Start
<1>3. TypeOK
  BY DEF IInv
<1>4. context'[x].request_id = c /\ context'[x].kernel_status = None
  BY <1>1, <1>3 DEF TypeOK
<1>5. TypeOK'
  <2>1. context' \in [Contexts -> Vars] /\ runsIn' \in [Calls -> Contexts \cup {None}]
    BY <1>1, <1>3 DEF TypeOK, Vars, Statuses
  <2>2. lines' \in [Calls -> SUBSET (Calls \cup {None})]
    BY <1>1, <1>3, <1>4 DEF TypeOK, Writes
  <2> QED
    BY <1>2, <1>3, <2>1, <2>2 DEF TypeOK, calls
<1>6. Owns'
  <2>1. last[c] = None
    BY <1>2 DEF IInv, Owns
  <2>2. ASSUME NEW d \in Calls, Active(d)'
        PROVE  /\ runsIn'[d] \in Contexts
               /\ context'[runsIn'[d]].request_id = d
               /\ context'[runsIn'[d]].kernel_status = last'[d]
    <3>1. CASE d = c
      BY <1>1, <1>2, <1>3, <1>4, <2>1, <3>1 DEF TypeOK
    <3>2. CASE d # c
      <4>1. Active(d) /\ runsIn'[d] = runsIn[d]
        BY <1>1, <1>2, <1>3, <2>2, <3>2 DEF Active, TypeOK
      <4>2. runsIn[d] # x
        BY <1>1, <4>1 DEF Active
      <4> QED
        BY <1>1, <1>2, <1>3, <4>1, <4>2 DEF IInv, Owns, TypeOK
    <3> QED
      BY <3>1, <3>2
  <2> QED
    BY <1>2, <1>3, <2>2 DEF IInv, Owns, TypeOK
<1>7. LinesAreOwn'
  BY <1>1, <1>3, <1>4 DEF IInv, LinesAreOwn, Writes, TypeOK
<1>8. Recorded' /\ Recent' /\ ErrorLeadsToRecord'
  <2>1. pc'[c] # "done" /\ \A d \in Calls \ {c} : pc'[d] = pc[d] /\ last'[d] = last[d]
    BY <1>2, <1>3 DEF TypeOK
  <2> QED
    BY <1>2, <1>5, <2>1, KeepsRecords DEF TypeOK
<1> QED
  BY <1>5, <1>6, <1>7, <1>8 DEF IInv

(* A call that is under way: its own context changes, its id stays.        *)
LEMMA OwnsStep ==
    ASSUME IInv, NEW c \in Calls, Active(c), TypeOK',
           runsIn' = runsIn, kids' = kids,
           \A d \in Calls : pc'[d] = pc[d] \/ (d = c /\ pc'[d] # "idle"),
           NEW status \in Statuses,
           context' = [context EXCEPT ![runsIn[c]].kernel_status = status],
           last' = [last EXCEPT ![c] = status]
    PROVE  Owns'
<1>1. TypeOK
  BY DEF IInv
<1>2. ASSUME NEW d \in Calls, Active(d)'
      PROVE  /\ runsIn'[d] \in Contexts
             /\ context'[runsIn'[d]].request_id = d
             /\ context'[runsIn'[d]].kernel_status = last'[d]
  <2>1. Active(d)
    BY <1>2 DEF Active
  <2>2. runsIn[d] \in Contexts /\ runsIn[c] \in Contexts
    BY <2>1 DEF IInv, Owns
  <2>3. d # c => runsIn[d] # runsIn[c]
    BY <2>1, Apart
  <2> QED
    BY <1>1, <2>1, <2>2, <2>3 DEF IInv, Owns, TypeOK, Vars
<1>3. \A d \in Calls : pc'[d] = "idle" => last'[d] = None
  BY <1>1 DEF IInv, Owns, TypeOK, Active
<1> QED
  BY <1>2, <1>3 DEF IInv, Owns

(* A step of a call under way that leaves the contexts: its tasks may      *)
(* change, those that run keep their id.                                   *)
LEMMA OwnsKept ==
    ASSUME IInv, NEW c \in Calls, Active(c), TypeOK',
           runsIn' = runsIn, context' = context, last' = last,
           \A d \in Calls : pc'[d] = pc[d] \/ (d = c /\ pc'[d] # "idle"),
           \A d \in Calls, k \in Kids :
              kids'[d][k].state = "running" =>
                 \/ kids'[d][k] = kids[d][k]
                 \/ kids'[d][k].request_id = d
    PROVE  Owns'
<1>1. \A d \in Calls : Active(d)' => Active(d)
  BY DEF Active
<1>2. \A d \in Calls : pc'[d] = "idle" => pc[d] = "idle"
  OBVIOUS
<1>3. \A d \in Calls, k \in Kids : kids'[d][k].state = "running" => kids'[d][k].request_id = d
  BY DEF IInv, Owns
<1> QED
  BY <1>1, <1>2, <1>3 DEF IInv, Owns

(* Lines that a call writes with its own id.                               *)
LEMMA OwnLine ==
    ASSUME IInv, NEW c \in Calls, UNCHANGED lines \/ Writes(c, c)
    PROVE  lines' \in [Calls -> SUBSET (Calls \cup {None})] /\ LinesAreOwn'
<1>1. lines \in [Calls -> SUBSET (Calls \cup {None})] /\ LinesAreOwn
  BY DEF IInv, TypeOK
<1>2. CASE Writes(c, c)
  <2>1. lines' = [d \in Calls |-> IF d = c THEN lines[d] \cup {c} ELSE lines[d]]
    BY <1>1, <1>2 DEF Writes
  <2>2. \A d \in Calls : lines'[d] \subseteq {d}
    BY <1>1, <2>1 DEF LinesAreOwn
  <2> QED
    BY <2>1, <2>2 DEF LinesAreOwn
<1> QED
  BY <1>1, <1>2 DEF LinesAreOwn

(* A task that ends keeps its id.                                          *)
LEMMA TaskEnds ==
    ASSUME TypeOK, NEW c \in Calls, NEW k \in Kids, NEW end \in {"ended", "failed"},
           NEW status \in Statuses,
           kids' = [kids EXCEPT ![c][k] =
                      [state |-> end, request_id |-> kids[c][k].request_id, kernel_status |-> status]]
    PROVE  /\ kids' \in [Calls -> [Kids -> Tasks]]
           /\ \A d \in Calls, l \in Kids :
                 kids'[d][l].state = "running" => kids'[d][l] = kids[d][l]
<1> DEFINE new == [state |-> end, request_id |-> kids[c][k].request_id, kernel_status |-> status]
<1>1. kids \in [Calls -> [Kids -> Tasks]] /\ kids[c][k] \in Tasks
  BY DEF TypeOK
<1>2. new \in Tasks /\ new.state = end
  BY <1>1 DEF Tasks
<1>3. kids' = [kids EXCEPT ![c] = [kids[c] EXCEPT ![k] = new]]
  BY <1>1
<1> HIDE DEF new
<1>4. [kids[c] EXCEPT ![k] = new] \in [Kids -> Tasks]
  BY <1>1, <1>2
<1>5. kids' \in [Calls -> [Kids -> Tasks]]
  BY <1>1, <1>3, <1>4
<1>6. \A d \in Calls, l \in Kids : kids'[d][l] = IF d = c /\ l = k THEN new ELSE kids[d][l]
  BY <1>1, <1>3
<1> QED
  BY <1>2, <1>5, <1>6

LEMMA RequestStep ==
    ASSUME IInv, NEW c \in Calls, Request(c)
    PROVE  IInv'
<1>1. PICK s \in Failures \cup {"zero"} :
          /\ context' = [context EXCEPT ![runsIn[c]].kernel_status = s]
          /\ last' = [last EXCEPT ![c] = s]
          /\ \/ Writes(c, Here(c).request_id) /\ UNCHANGED <<pc, calls>>
             \/ s \in Failures /\ Conclude(c, ErrorFor(s), s) /\ Writes(c, Here(c).request_id)
  BY DEF Request
<1>2. pc[c] = "running" /\ UNCHANGED <<runsIn, kids>> /\ Active(c) /\ s \in Statuses
  BY DEF Request, Active, Statuses
<1>3. TypeOK
  BY DEF IInv
<1>4. runsIn[c] \in Contexts /\ Here(c).request_id = c
  BY <1>2 DEF IInv, Owns, Here
<1>5. /\ context' \in [Contexts -> Vars] /\ last' \in [Calls -> Statuses]
      /\ last'[c] = s /\ \A d \in Calls \ {c} : last'[d] = last[d]
  BY <1>1, <1>2, <1>3, <1>4 DEF TypeOK, Vars
<1>6. lines' \in [Calls -> SUBSET (Calls \cup {None})] /\ LinesAreOwn'
  BY <1>1, <1>4, OwnLine
<1>7. TypeOK' /\ Recorded' /\ Recent' /\ ErrorLeadsToRecord'
      /\ \A d \in Calls : pc'[d] = pc[d] \/ (d = c /\ pc'[d] # "idle")
  <2>1. CASE UNCHANGED <<pc, calls>>
    <3>1. TypeOK'
      BY <1>2, <1>3, <1>5, <1>6, <2>1 DEF TypeOK, calls
    <3>2. Recorded' /\ Recent' /\ ErrorLeadsToRecord'
      BY <1>2, <1>3, <1>5, <2>1, KeepsRecords DEF TypeOK
    <3> QED
      BY <2>1, <3>1, <3>2
  <2>2. CASE s \in Failures /\ Conclude(c, ErrorFor(s), s)
    <3>1. ErrorFor(s) \in Raises \cup {None} /\ (ErrorFor(s) = "retryable_error" => s = "no_answer")
      BY <2>2 DEF ErrorFor, Raises, Failures
    <3>2. /\ log' \in Seq(Record) /\ buffer' \in Seq(Record)
          /\ payload' \in [Calls -> Marks \cup {None}]
          /\ pc' = [pc EXCEPT ![c] = "done"]
          /\ Recorded' /\ Recent' /\ ErrorLeadsToRecord'
      BY <1>2, <1>5, <2>2, <3>1, ConcludeStep
    <3>3. TypeOK'
      BY <1>2, <1>3, <1>5, <1>6, <3>2 DEF TypeOK
    <3> QED
      BY <1>3, <3>2, <3>3 DEF TypeOK
  <2> QED
    BY <1>1, <2>1, <2>2
<1>8. Owns'
  BY <1>1, <1>2, <1>7, OwnsStep
<1> QED
  BY <1>6, <1>7, <1>8 DEF IInv

(* A call ends, what its own task got before being its last status.        *)
LEMMA EndsStep ==
    ASSUME IInv, NEW c \in Calls, Active(c), NEW exc \in (Raises \ {"retryable_error"}) \cup {None},
           Conclude(c, exc, Here(c).kernel_status), Writes(c, Here(c).request_id),
           UNCHANGED <<context, runsIn, last>>,
           kids' = kids \/ kids' = [kids EXCEPT ![c] = [k \in Kids |-> NoTask]]
    PROVE  IInv'
<1>1. TypeOK
  BY DEF IInv
<1>2. /\ runsIn[c] \in Contexts /\ Here(c).request_id = c
      /\ Here(c).kernel_status = last[c] /\ last[c] \in Statuses
  BY <1>1 DEF IInv, Owns, Here, TypeOK
<1>3. /\ last' \in [Calls -> Statuses] /\ Here(c).kernel_status \in Statuses
      /\ last'[c] = Here(c).kernel_status /\ \A d \in Calls \ {c} : last'[d] = last[d]
      /\ exc \in Raises \cup {None} /\ exc # "retryable_error"
  <2>1. None # "retryable_error"
    BY RaisesAssumption DEF Raises
  <2> QED
    BY <1>1, <1>2, <2>1 DEF TypeOK
<1>4. /\ log' \in Seq(Record) /\ buffer' \in Seq(Record)
      /\ payload' \in [Calls -> Marks \cup {None}]
      /\ pc' = [pc EXCEPT ![c] = "done"]
      /\ Recorded' /\ Recent' /\ ErrorLeadsToRecord'
  BY <1>3, ConcludeStep
<1>5. lines' \in [Calls -> SUBSET (Calls \cup {None})] /\ LinesAreOwn'
  BY <1>2, OwnLine
<1>6. kids' \in [Calls -> [Kids -> Tasks]]
  <2>1. kids \in [Calls -> [Kids -> Tasks]]
    BY <1>1 DEF TypeOK
  <2>2. [k \in Kids |-> NoTask] \in [Kids -> Tasks]
    BY DEF Tasks, NoTask, Statuses
  <2> QED
    BY <2>1, <2>2
<1>7. TypeOK'
  BY <1>1, <1>4, <1>5, <1>6 DEF TypeOK
<1>8. \A d \in Calls : pc'[d] = pc[d] \/ (d = c /\ pc'[d] # "idle")
  BY <1>1, <1>4 DEF TypeOK
<1>9. ASSUME NEW d \in Calls, NEW k \in Kids, kids'[d][k].state = "running"
      PROVE  kids'[d][k] = kids[d][k]
  <2>1. kids \in [Calls -> [Kids -> Tasks]]
    BY <1>1 DEF TypeOK
  <2>2. NoTask.state # "running"
    BY DEF NoTask
  <2> QED
    BY <1>9, <2>1, <2>2
<1>10. Owns'
  BY <1>7, <1>8, <1>9, OwnsKept
<1> QED
  BY <1>4, <1>5, <1>7, <1>10 DEF IInv

LEMMA EndStep ==
    ASSUME IInv, NEW c \in Calls, End(c)
    PROVE  IInv'
<1>1. PICK exc \in {None, "tool_error", "validation_error", "cancelled"} :
          Conclude(c, exc, Here(c).kernel_status)
  BY DEF End
<1>2. Active(c) /\ exc \in (Raises \ {"retryable_error"}) \cup {None}
  BY DEF End, Active, Raises
<1> QED
  BY <1>1, <1>2, EndsStep DEF End

LEMMA JoinStep ==
    ASSUME IInv, NEW c \in Calls, Join(c)
    PROVE  IInv'
<1>1. PICK exc \in {None, "group", "cancelled"} : Conclude(c, exc, Here(c).kernel_status)
  BY DEF Join
<1>2. Active(c) /\ exc \in (Raises \ {"retryable_error"}) \cup {None}
  BY DEF Join, Active, Raises
<1> QED
  BY <1>1, <1>2, EndsStep DEF Join

(* The steps of a group leave everything but its tasks, or write a line.   *)
LEMMA GroupStep ==
    ASSUME IInv, NEW c \in Calls, Active(c), UNCHANGED <<context, runsIn, calls, last>>,
           kids' \in [Calls -> [Kids -> Tasks]],
           pc' = pc \/ pc' = [pc EXCEPT ![c] = "group"],
           UNCHANGED lines \/ Writes(c, c),
           \A d \in Calls, k \in Kids :
              kids'[d][k].state = "running" =>
                 \/ kids'[d][k] = kids[d][k]
                 \/ kids'[d][k].request_id = d
    PROVE  IInv'
<1>1. TypeOK
  BY DEF IInv
<1>2. lines' \in [Calls -> SUBSET (Calls \cup {None})] /\ LinesAreOwn'
  BY OwnLine
<1>3. TypeOK'
  BY <1>1, <1>2 DEF TypeOK, calls
<1>4. /\ pc[c] # "done" /\ pc'[c] # "done"
      /\ \A d \in Calls \ {c} : pc'[d] = pc[d] /\ last'[d] = last[d]
      /\ \A d \in Calls : pc'[d] = pc[d] \/ (d = c /\ pc'[d] # "idle")
  BY <1>1 DEF TypeOK, Active
<1>5. Recorded' /\ Recent' /\ ErrorLeadsToRecord'
  BY <1>3, <1>4, KeepsRecords DEF TypeOK
<1>6. Owns'
  BY <1>3, <1>4, OwnsKept
<1> QED
  BY <1>2, <1>3, <1>5, <1>6 DEF IInv

LEMMA ForkStep ==
    ASSUME IInv, NEW c \in Calls, Fork(c)
    PROVE  IInv'
<1>1. PICK started \in SUBSET Kids \ {{}} :
          kids' = [kids EXCEPT ![c] =
                     [k \in Kids |-> IF k \in started
                                     THEN [state |-> "running", request_id |-> Here(c).request_id,
                                           kernel_status |-> Here(c).kernel_status]
                                     ELSE NoTask]]
  BY DEF Fork
<1>2. Active(c) /\ Here(c).request_id = c /\ Here(c).kernel_status \in Statuses
  BY DEF Fork, Active, IInv, Owns, Here, TypeOK
<1>3. kids \in [Calls -> [Kids -> Tasks]]
  BY DEF IInv, TypeOK
<1>4. kids' \in [Calls -> [Kids -> Tasks]]
  BY <1>1, <1>2, <1>3 DEF Tasks, NoTask, Statuses
<1>5. ASSUME NEW d \in Calls, NEW k \in Kids, kids'[d][k].state = "running"
      PROVE  kids'[d][k] = kids[d][k] \/ kids'[d][k].request_id = d
  BY <1>1, <1>2, <1>3, <1>5 DEF NoTask
<1> QED
  BY <1>2, <1>4, <1>5, GroupStep DEF Fork

LEMMA KidRequestStep ==
    ASSUME IInv, NEW c \in Calls, NEW k \in Kids, KidRequest(c, k)
    PROVE  IInv'
<1>1. PICK end \in {"ended", "failed"}, s \in Statuses :
          kids' = [kids EXCEPT ![c][k] =
                     [state |-> end, request_id |-> kids[c][k].request_id, kernel_status |-> s]]
  BY DEF KidRequest, Statuses
<1>2. Active(c) /\ kids[c][k].request_id = c /\ TypeOK
  BY DEF KidRequest, Active, Running, IInv, Owns
<1>3. /\ kids' \in [Calls -> [Kids -> Tasks]]
      /\ \A d \in Calls, l \in Kids :
            kids'[d][l].state = "running" => kids'[d][l] = kids[d][l]
  BY <1>1, <1>2, TaskEnds
<1> QED
  BY <1>2, <1>3, GroupStep DEF KidRequest

LEMMA KidCancelledStep ==
    ASSUME IInv, NEW c \in Calls, NEW k \in Kids, KidCancelled(c, k)
    PROVE  IInv'
<1>1. /\ kids[c][k] \in Tasks /\ Active(c) /\ TypeOK
      /\ kids' = [kids EXCEPT ![c][k].state = "ended"]
  BY DEF KidCancelled, Active, IInv, TypeOK
<1>2. PICK t \in Tasks : t = kids[c][k]
  BY <1>1
<1>3. [t EXCEPT !.state = "ended"] =
          [state |-> "ended", request_id |-> t.request_id, kernel_status |-> t.kernel_status]
  BY DEF Tasks
<1>4. kids' = [kids EXCEPT ![c][k] =
                 [state |-> "ended", request_id |-> kids[c][k].request_id,
                  kernel_status |-> kids[c][k].kernel_status]]
  BY <1>1, <1>2, <1>3
<1>5. kids[c][k].kernel_status \in Statuses
  BY <1>1 DEF Tasks
<1>6. /\ kids' \in [Calls -> [Kids -> Tasks]]
      /\ \A d \in Calls, l \in Kids :
            kids'[d][l].state = "running" => kids'[d][l] = kids[d][l]
  BY <1>1, <1>4, <1>5, TaskEnds
<1> QED
  BY <1>1, <1>6, GroupStep DEF KidCancelled

-----------------------------------------------------------------------------
(* Theorems                                                                *)

(* The strengthening of all of Tracing's invariants, of every reachable    *)
(* state.                                                                  *)
THEOREM Invariance == Spec => []IInv
<1>1. IInv /\ [Next]_vars => IInv'
  <2> SUFFICES ASSUME IInv, [Next]_vars PROVE IInv'
    OBVIOUS
  <2>1. ASSUME NEW c \in Calls, Start(c) PROVE IInv'
    BY <2>1, StartStep
  <2>2. ASSUME NEW c \in Calls, Request(c) PROVE IInv'
    BY <2>2, RequestStep
  <2>3. ASSUME NEW c \in Calls, End(c) PROVE IInv'
    BY <2>3, EndStep
  <2>4. ASSUME NEW c \in Calls, Fork(c) PROVE IInv'
    BY <2>4, ForkStep
  <2>5. ASSUME NEW c \in Calls, Join(c) PROVE IInv'
    BY <2>5, JoinStep
  <2>6. ASSUME NEW c \in Calls, NEW k \in Kids, KidRequest(c, k) PROVE IInv'
    BY <2>6, KidRequestStep
  <2>7. ASSUME NEW c \in Calls, NEW k \in Kids, KidCancelled(c, k) PROVE IInv'
    BY <2>7, KidCancelledStep
  <2>8. CASE UNCHANGED vars
    <3>1. TypeOK' /\ LinesAreOwn' /\ ErrorLeadsToRecord'
      BY <2>8 DEF vars, IInv, TypeOK, LinesAreOwn, ErrorLeadsToRecord
    <3>2. Owns'
      BY <2>8 DEF vars, IInv, Owns, Active
    <3>3. Recorded' /\ Recent'
      BY <2>8 DEF vars, IInv, Recorded, Recent, Capacity
    <3> QED
      BY <3>1, <3>2, <3>3 DEF IInv
  <2> QED
    BY <2>1, <2>2, <2>3, <2>4, <2>5, <2>6, <2>7, <2>8 DEF Next
<1> QED
  BY <1>1, Initially, PTL DEF Spec

(* Tracing's variables keep their types: a record's outcome is one of the  *)
(* three that the logs promise.                                            *)
THEOREM TypeCorrect == Spec => []TypeOK
BY Invariance, PTL DEF IInv

(* No log line has another call's id.                                      *)
THEOREM OwnLines == Spec => []LinesAreOwn
BY Invariance, PTL DEF IInv

(* No record has another call's status.                                    *)
THEOREM OwnStatus == Spec => []StatusIsOwn
<1>1. IInv => StatusIsOwn
  BY DEF IInv, Recorded, StatusIsOwn, ToSet
<1> QED
  BY <1>1, Invariance, PTL

(* The buffer has the latest records, one of each call, whatever its size. *)
THEOREM RecentBuffer == Spec => []BufferIsRecent
<1>1. IInv => BufferIsRecent
  <2> SUFFICES ASSUME IInv PROVE BufferIsRecent
    OBVIOUS
  <2> DEFINE n == IF BufferSize = 0 THEN 1 ELSE BufferSize
             from == IF Len(log) > n THEN Len(log) - n + 1 ELSE 1
  <2>1. n = Capacity(BufferSize) /\ n \in Nat \ {0}
    BY SizeAssumption DEF Capacity
  <2>2. log \in Seq(Record) /\ buffer \in Seq(Record) /\ Len(log) \in Nat /\ Len(buffer) \in Nat
    BY DEF IInv, TypeOK
  <2>3. /\ Len(buffer) = IF Len(log) > n THEN n ELSE Len(log)
        /\ \A i \in 1..Len(buffer) : buffer[i] = log[Len(log) - Len(buffer) + i]
    BY <2>1 DEF IInv, Recent
  <2> HIDE DEF n
  <2>4. from \in 1..(Len(log) + 1) /\ Len(log) - from + 1 = Len(buffer)
    BY <2>1, <2>2, <2>3
  <2> HIDE DEF from
  <2>5. /\ SubSeq(log, from, Len(log)) \in Seq(Record)
        /\ Len(SubSeq(log, from, Len(log))) = Len(buffer)
        /\ \A i \in 1..Len(buffer) : SubSeq(log, from, Len(log))[i] = log[from + i - 1]
    BY <2>2, <2>4
  <2>6. \A i \in 1..Len(buffer) : Len(log) - Len(buffer) + i = from + i - 1
    BY <2>2, <2>4
  <2>7. buffer = SubSeq(log, from, Len(log))
    <3> DEFINE tail == SubSeq(log, from, Len(log))
    <3>1. tail \in Seq(Record) /\ Len(tail) = Len(buffer) /\ \A i \in 1..Len(buffer) : tail[i] = buffer[i]
      BY <2>3, <2>5, <2>6
    <3> HIDE DEF tail
    <3>2. tail = buffer
      BY <2>2, <3>1
    <3> QED
      BY <3>2 DEF tail
  <2>8. /\ \A i, j \in DOMAIN log : log[i].request_id = log[j].request_id => i = j
        /\ \A c \in Calls : pc[c] = "done" <=> \E r \in ToSet(log) : r.request_id = c
    BY DEF IInv, Recorded, ToSet
  <2> QED
    BY <2>7, <2>8 DEF BufferIsRecent, n, from
<1> QED
  BY <1>1, Invariance, PTL

(* The marks of an error lead to the record of the call that failed, and   *)
(* [retryable] to one whose last request failed in a transient way.        *)
THEOREM MarkedErrors == Spec => []ErrorLeadsToRecord
BY Invariance, PTL DEF IInv

=============================================================================
