------------------------- MODULE KernelClientProofs --------------------------
(***************************************************************************)
(* Proofs about KernelClient, for any number of calls and attempts, every  *)
(* kernel and every set of faults, and about UpstreamProbe.                *)
(***************************************************************************)
EXTENDS KernelClient, UpstreamProbe, TLAPS

Posted(c) == pc[c] \in {"post", "repost"}

(* The verdict on c's write is known: 1 while and after c sees "ok".       *)
Settled(c) ==
    IF result[c] = "ok" \/ (wire[c] = "ok" /\ Posted(c)) THEN 1 ELSE 0

(* c is the call that took the one login.                                  *)
TookLogin(c) == pc[c] = "login" \/ posts[c] > attempt[c]

(* The shape of a call's control state.                                    *)
Shape ==
    \A c \in Calls :
        /\ pc[c] # "done" => result[c] = "none"
        /\ pc[c] \in {"idle", "backoff", "done"} => wire[c] = "none"
        /\ pc[c] = "idle" => attempt[c] = 0 /\ posts[c] = 0 /\ limbo[c] = 0
        /\ pc[c] = "backoff" => attempt[c] < MaxAttempts
        /\ pc[c] = "login" => posts[c] <= attempt[c]

(* The flag is set before the login is awaited, so it counts the logins.   *)
LoginCount == logins = IF loginAttempted THEN 1 ELSE 0

Budget ==
    /\ \A c \in Calls : posts[c] <= attempt[c] + 1
    /\ \A c \in Calls : TookLogin(c) => loginAttempted
    /\ \A c, d \in Calls : TookLogin(c) /\ TookLogin(d) => c = d

(* A settled write was performed, and every other performed or open POST   *)
(* is a lost one.                                                          *)
Accounts ==
    \A c \in Calls :
        /\ applied[c] + limbo[c] <= lost[c] + Settled(c)
        /\ Settled(c) <= applied[c]
        /\ lost[c] = 0 => limbo[c] = 0 /\ applied[c] = Settled(c)

HeaderDropped == sessionAuthed => ~authHeader

IInv == TypeOK /\ Shape /\ LoginCount /\ Budget /\ Accounts /\ HeaderDropped

-----------------------------------------------------------------------------
LEMMA InitIInv == Init => IInv
<1> SUFFICES ASSUME Init PROVE IInv
  OBVIOUS
<1>1. TypeOK
  <2>1. authHeader \in BOOLEAN /\ sessionAuthed \in BOOLEAN /\ loginAttempted \in BOOLEAN
    BY TokenAssumption, Zenon DEF Init
  <2>2. attempt \in [Calls -> 0..MaxAttempts]
    BY AttemptsAssumption DEF Init
  <2> QED
    BY <2>1, <2>2 DEF Init, TypeOK, Results
<1> QED
  BY <1>1 DEF Init, IInv, Shape, LoginCount, Budget, TookLogin, Accounts,
              Settled, Posted, HeaderDropped

(* What a step that posts, or ends a call, does to one call.               *)
LEMMA FinishStep ==
    ASSUME IInv, NEW c \in Calls, NEW r \in Results \ {"none"}, Finish(c, r),
           pc[c] \in Waiting,
           r = "ok" <=> (wire[c] = "ok" /\ Posted(c))
    PROVE  IInv'
<1> USE DEF IInv, Finish, Answer, shared
<1>1. TypeOK'
  BY DEF TypeOK
<1>2. Shape'
  BY DEF Shape, TypeOK, Waiting
<1>3. LoginCount' /\ HeaderDropped'
  BY DEF LoginCount, HeaderDropped
<1>4. Budget'
  BY DEF Budget, TookLogin, TypeOK
<1>5. Accounts'
  BY DEF Accounts, Settled, Posted, TypeOK, Shape, Waiting
<1> QED
  BY <1>1, <1>2, <1>3, <1>4, <1>5

LEMMA NextIInv == IInv /\ [Next]_vars => IInv'
<1> SUFFICES ASSUME IInv, [Next]_vars PROVE IInv'
  OBVIOUS
<1> USE DEF IInv, Answer, shared
<1>1. ASSUME NEW c \in Calls, Start(c) PROVE IInv'
  <2>1. TypeOK'
    BY <1>1, AttemptsAssumption DEF Start, Post, TypeOK, Waiting, Credentials
  <2>2. Shape'
    BY <1>1 DEF Start, Post, TypeOK, Shape
  <2>3. LoginCount' /\ HeaderDropped'
    BY <1>1 DEF Start, Post, LoginCount, HeaderDropped
  <2>4. Budget'
    BY <1>1 DEF Start, Post, TypeOK, Shape, Budget, TookLogin
  <2>5. Accounts'
    BY <1>1 DEF Start, Post, TypeOK, Shape, Accounts, Settled, Posted
  <2> QED
    BY <2>1, <2>2, <2>3, <2>4, <2>5
<1>2. ASSUME NEW c \in Calls, Serve(c) PROVE IInv'
  <2>1. TypeOK'
    BY <1>2 DEF Serve, TypeOK, Answers
  <2>2. Shape'
    BY <1>2 DEF Serve, TypeOK, Shape
  <2>3. LoginCount' /\ HeaderDropped' /\ Budget'
    BY <1>2 DEF Serve, TypeOK, LoginCount, HeaderDropped, Budget, TookLogin
  <2>4. Accounts'
    BY <1>2 DEF Serve, TypeOK, Shape, Accounts, Settled, Posted
  <2> QED
    BY <2>1, <2>2, <2>3, <2>4
<1>3. ASSUME NEW c \in Calls, Refuse(c) PROVE IInv'
  <2>1. TypeOK'
    BY <1>3 DEF Refuse, TypeOK, Answers
  <2>2. Shape'
    BY <1>3 DEF Refuse, TypeOK, Shape
  <2>3. LoginCount' /\ HeaderDropped' /\ Budget'
    BY <1>3 DEF Refuse, TypeOK, LoginCount, HeaderDropped, Budget, TookLogin
  <2>4. Accounts'
    BY <1>3 DEF Refuse, TypeOK, Shape, Accounts, Settled, Posted
  <2> QED
    BY <2>1, <2>2, <2>3, <2>4
<1>4. ASSUME NEW c \in Calls, Garble(c) PROVE IInv'
  <2>0. PICK a \in Ambiguous : wire' = [wire EXCEPT ![c] = a]
    BY <1>4 DEF Garble
  <2>1. TypeOK'
    BY <1>4, <2>0 DEF Garble, TypeOK, Answers, Ambiguous, Open
  <2>2. Shape'
    BY <1>4, <2>0 DEF Garble, TypeOK, Shape
  <2>3. LoginCount' /\ HeaderDropped' /\ Budget'
    BY <1>4 DEF Garble, TypeOK, LoginCount, HeaderDropped, Budget, TookLogin
  <2>4. Accounts'
    BY <1>4, <2>0 DEF Garble, TypeOK, Shape, Accounts, Settled, Posted, Ambiguous, Open
  <2> QED
    BY <2>1, <2>2, <2>3, <2>4
<1>5. ASSUME NEW c \in Calls, ApplyLate(c) PROVE IInv'
  <2>1. TypeOK'
    BY <1>5 DEF ApplyLate, TypeOK
  <2>2. Shape' /\ LoginCount' /\ HeaderDropped' /\ Budget'
    BY <1>5 DEF ApplyLate, TypeOK, Shape, LoginCount, HeaderDropped, Budget, TookLogin
  <2>3. Accounts'
    BY <1>5 DEF ApplyLate, TypeOK, Accounts, Settled, Posted
  <2> QED
    BY <2>1, <2>2, <2>3
<1>6. ASSUME NEW c \in Calls, ServeLogin(c) PROVE IInv'
  <2>0. PICK a \in {"ok", "code", "transport", "bad_body"} :
           wire' = [wire EXCEPT ![c] = a]
    BY <1>6 DEF ServeLogin
  <2>1. TypeOK'
    BY <1>6, <2>0 DEF ServeLogin, TypeOK, Answers, Ambiguous
  <2>2. Shape'
    BY <1>6, <2>0 DEF ServeLogin, TypeOK, Shape
  <2>3. LoginCount' /\ HeaderDropped' /\ Budget'
    BY <1>6 DEF ServeLogin, TypeOK, LoginCount, HeaderDropped, Budget, TookLogin
  <2>4. Accounts'
    BY <1>6, <2>0 DEF ServeLogin, TypeOK, Shape, Accounts, Settled, Posted
  <2> QED
    BY <2>1, <2>2, <2>3, <2>4
<1>7. ASSUME NEW c \in Calls, Login(c) PROVE IInv'
  <2>1. TypeOK'
    BY <1>7 DEF Login, MayLogin, TypeOK, Waiting
  <2>2. posts[c] <= attempt[c]
    BY <1>7 DEF Login, MayLogin, TypeOK, Budget, TookLogin
  <2>3. Shape'
    BY <1>7, <2>2 DEF Login, MayLogin, TypeOK, Shape
  <2>4. LoginCount' /\ HeaderDropped'
    BY <1>7 DEF Login, MayLogin, TypeOK, LoginCount, HeaderDropped
  <2>5. Budget'
    BY <1>7 DEF Login, MayLogin, TypeOK, Budget, TookLogin
  <2>6. Accounts'
    BY <1>7 DEF Login, MayLogin, TypeOK, Shape, Accounts, Settled, Posted
  <2> QED
    BY <2>1, <2>3, <2>4, <2>5, <2>6
<1>8. ASSUME NEW c \in Calls, Repost(c) PROVE IInv'
  <2>0. authHeader' \in BOOLEAN /\ sessionAuthed' \in BOOLEAN
    BY <1>8, Zenon DEF Repost, TypeOK
  <2>1. TypeOK'
    <3>1. Credentials(authHeader', sessionAuthed') \in {"bare", "token", "cookie", "both"}
      BY DEF Credentials
    <3>2. sentAs' \in [Calls -> {"bare", "token", "cookie", "both"}]
      BY <1>8, <3>1 DEF Repost, Post, TypeOK
    <3> QED
      BY <1>8, <2>0, <3>2 DEF Repost, Post, TypeOK, Waiting
  <2>2. Shape'
    BY <1>8 DEF Repost, Post, TypeOK, Shape
  <2>3. LoginCount' /\ HeaderDropped'
    BY <1>8 DEF Repost, Post, LoginCount, HeaderDropped
  <2>4. Budget'
    BY <1>8 DEF Repost, Post, TypeOK, Shape, Budget, TookLogin
  <2>5. Accounts'
    BY <1>8 DEF Repost, Post, TypeOK, Shape, Accounts, Settled, Posted
  <2> QED
    BY <2>1, <2>2, <2>3, <2>4, <2>5
<1>9. ASSUME NEW c \in Calls, BackOff(c) PROVE IInv'
  <2>1. pc[c] \in {"post", "repost", "login"} /\ wire[c] # "ok"
    BY <1>9 DEF BackOff, Transient, Shape, TypeOK, Waiting
  <2>2. TypeOK'
    BY <1>9 DEF BackOff, TypeOK, Waiting
  <2>3. Shape'
    BY <1>9, <2>1 DEF BackOff, TypeOK, Shape
  <2>4. LoginCount' /\ HeaderDropped' /\ Budget'
    BY <1>9, <2>1 DEF BackOff, TypeOK, LoginCount, HeaderDropped, Budget, TookLogin
  <2>5. Accounts'
    BY <1>9, <2>1 DEF BackOff, TypeOK, Shape, Accounts, Settled, Posted
  <2> QED
    BY <2>2, <2>3, <2>4, <2>5
<1>10. ASSUME NEW c \in Calls, WakeUp(c) PROVE IInv'
  <2>1. TypeOK'
    BY <1>10, AttemptsAssumption
    DEF WakeUp, Post, TypeOK, Shape, Waiting, Credentials
  <2>2. Shape'
    BY <1>10 DEF WakeUp, Post, TypeOK, Shape
  <2>3. LoginCount' /\ HeaderDropped'
    BY <1>10 DEF WakeUp, Post, LoginCount, HeaderDropped
  <2>4. Budget'
    BY <1>10 DEF WakeUp, Post, TypeOK, Shape, Budget, TookLogin
  <2>5. Accounts'
    BY <1>10 DEF WakeUp, Post, TypeOK, Shape, Accounts, Settled, Posted
  <2> QED
    BY <2>1, <2>2, <2>3, <2>4, <2>5
<1>11. ASSUME NEW c \in Calls, GiveUp(c) \/ RaiseStatus(c) \/ ReadBody(c) PROVE IInv'
  <2>1. pc[c] \in Waiting
    BY <1>11 DEF GiveUp, Transient, RaiseStatus, ReadBody, Shape, TypeOK, Waiting
  <2>2. PICK r \in Results \ {"none"} :
            Finish(c, r) /\ (r = "ok" <=> (wire[c] = "ok" /\ Posted(c)))
    <3>1. CASE GiveUp(c)
      BY <3>1 DEF GiveUp, Transient, Results, Retryable
    <3>2. CASE RaiseStatus(c)
      BY <3>2 DEF RaiseStatus, Results
    <3>3. CASE ReadBody(c)
      BY <3>3 DEF ReadBody, Results, Posted
    <3> QED
      BY <1>11, <3>1, <3>2, <3>3
  <2> QED
    BY <2>1, <2>2, FinishStep
<1>12. ASSUME NEW c \in Calls, Cancel(c) PROVE IInv'
  <2>1. TypeOK'
    BY <1>12 DEF Cancel, TypeOK, Results, Open
  <2>2. Shape'
    BY <1>12 DEF Cancel, TypeOK, Shape, Waiting
  <2>3. LoginCount' /\ HeaderDropped' /\ Budget'
    BY <1>12 DEF Cancel, TypeOK, LoginCount, HeaderDropped, Budget, TookLogin
  <2>4. Accounts'
    BY <1>12 DEF Cancel, TypeOK, Shape, Accounts, Settled, Posted, Waiting, Open
  <2> QED
    BY <2>1, <2>2, <2>3, <2>4
<1>13. CASE UNCHANGED vars
  BY <1>13 DEF vars, TypeOK, Shape, LoginCount, Budget, TookLogin, Accounts,
               Settled, Posted, HeaderDropped
<1> QED
  BY <1>1, <1>2, <1>3, <1>4, <1>5, <1>6, <1>7, <1>8, <1>9, <1>10, <1>11,
     <1>12, <1>13
  DEF Next, Network, Continue

THEOREM Invariance == Spec => []IInv
<1>1. Init => IInv
  BY InitIInv
<1>2. IInv /\ [Next]_vars => IInv'
  BY NextIInv
<1> QED
  BY <1>1, <1>2, PTL DEF Spec

(* Every reachable state is well typed.                                    *)
THEOREM TypeCorrect == Spec => []TypeOK
<1>1. IInv => TypeOK
  BY DEF IInv
<1> QED
  BY <1>1, Invariance, PTL

(* One login per process, however many calls race for it.                  *)
THEOREM OneLogin == Spec => []LoginOnce
<1>1. IInv => LoginOnce
  BY DEF IInv, LoginCount, LoginOnce
<1> QED
  BY <1>1, Invariance, PTL

(* A call posts at most once per attempt, plus the one repost after the    *)
(* login.                                                                  *)
THEOREM BoundedPosts == Spec => []PostBudget
<1>1. IInv => PostBudget
  BY DEF IInv, Budget, TookLogin, PostBudget
<1> QED
  BY <1>1, Invariance, PTL

(* A write repeats only after as many POSTs were lost.                     *)
THEOREM RepeatsAreExcused == Spec => []NoRepeatAfterVerdict
<1>1. IInv => NoRepeatAfterVerdict
  <2> SUFFICES ASSUME IInv, NEW c \in Calls
               PROVE  applied[c] + limbo[c] <= lost[c] + 1
    BY DEF NoRepeatAfterVerdict
  <2> QED
    BY DEF IInv, Accounts, Settled, TypeOK
<1> QED
  BY <1>1, Invariance, PTL

(* Without a lost POST the outcome of call() is the effect on the kernel.  *)
THEOREM ExactReport == Spec => []ReportIsExact
<1>1. IInv => ReportIsExact
  BY DEF IInv, Accounts, Settled, Posted, ReportIsExact
<1> QED
  BY <1>1, Invariance, PTL

(* A POST sent once the session is there carries the cookie and nothing    *)
(* else, which is what such a kernel accepts.                              *)
THEOREM SessionUsed == Spec => SessionIsUsed
<1>1. ASSUME IInv, [Next]_vars, NEW c \in Calls,
             mode = "session", sessionAuthed, posts'[c] > posts[c]
      PROVE  Accepts(sentAs'[c])
  <2>1. ASSUME NEW d \in Calls,
               \/ Serve(d) \/ Refuse(d) \/ Garble(d) \/ ServeLogin(d)
               \/ ApplyLate(d) \/ Cancel(d) \/ Login(d) \/ BackOff(d)
               \/ GiveUp(d) \/ RaiseStatus(d) \/ ReadBody(d)
        PROVE  posts' = posts
    BY <2>1 DEF Serve, Refuse, Garble, ServeLogin, ApplyLate, Cancel, Login,
                BackOff, GiveUp, RaiseStatus, ReadBody, Finish
  <2>2. posts' # posts
    BY <1>1 DEF IInv, TypeOK
  <2>3. PICK d \in Calls : Start(d) \/ Repost(d) \/ WakeUp(d)
    BY <1>1, <2>1, <2>2 DEF Next, Network, Continue, vars
  <2>4. /\ sessionAuthed' = TRUE /\ authHeader' = FALSE
        /\ Post(d)
    BY <1>1, <2>3, Zenon DEF IInv, TypeOK, HeaderDropped, Start, Repost, WakeUp, shared
  <2>5. c = d
    BY <1>1, <2>4 DEF IInv, TypeOK, Post
  <2>6. Credentials(authHeader', sessionAuthed') = "cookie"
    BY <2>4 DEF Credentials
  <2>7. sentAs'[c] = "cookie"
    <3>1. sentAs' = [sentAs EXCEPT ![c] = Credentials(authHeader', sessionAuthed')]
      BY <2>4, <2>5, Zenon DEF Post
    <3>2. sentAs' = [sentAs EXCEPT ![c] = "cookie"]
      BY <3>1, <2>6, Zenon
    <3> QED
      BY <1>1, <3>2 DEF IInv, TypeOK
  <2> QED
    BY <1>1, <2>7 DEF Accepts
<1>2. IInv /\ [Next]_vars =>
        [\A c \in Calls :
            mode = "session" /\ sessionAuthed /\ posts'[c] > posts[c]
                => Accepts(sentAs'[c])]_vars
  BY <1>1
<1> QED
  BY <1>2, Invariance, PTL DEF Spec, SessionIsUsed

-----------------------------------------------------------------------------
(* Refinement                                                              *)

LEMMA StatusType == \A c \in Calls : Status(c) \in {"idle", "running", "returned", "raised"}
BY DEF Status

(* A step that leaves the others' control and the effects alone moves one  *)
(* call's status.                                                          *)
LEMMA OneStatus ==
    ASSUME IInv, NEW c \in Calls, NEW p, NEW r,
           pc' = [pc EXCEPT ![c] = p], result' = [result EXCEPT ![c] = r] \/ UNCHANGED result
    PROVE  /\ \A d \in Calls \ {c} : Status(d)' = Status(d)
           /\ [d \in Calls |-> Status(d)]' = [[d \in Calls |-> Status(d)] EXCEPT ![c] = Status(c)']
BY DEF IInv, TypeOK, Status

LEMMA StepRefines ==
    ASSUME IInv, [Next]_vars
    PROVE  [Abstract!Next]_(Abstract!absVars)
<1> DEFINE S == [d \in Calls |-> Status(d)]
<1> USE DEF Abstract!absVars, Abstract!Goes
<1>1. ASSUME NEW c \in Calls, Start(c) PROVE Abstract!Begin(c)
  <2>1. S[c] = "idle" /\ Status(c)' = "running"
    BY <1>1 DEF Start, Status, IInv, TypeOK
  <2>2. S' = [S EXCEPT ![c] = "running"] /\ applied' = applied
    BY <1>1, <2>1, OneStatus DEF Start
  <2> QED
    BY <2>1, <2>2 DEF Abstract!Begin
<1>2. ASSUME NEW c \in Calls, Serve(c) \/ ApplyLate(c)
      PROVE  Abstract!Perform(c) \/ UNCHANGED Abstract!absVars
  <2>1. S' = S
    BY <1>2 DEF Serve, ApplyLate, Status
  <2>2. Status(c) # "idle"
    BY <1>2 DEF Serve, ApplyLate, Status, IInv, Shape, TypeOK
  <2>3. applied' = applied \/ applied' = [applied EXCEPT ![c] = @ + 1]
    BY <1>2 DEF Serve, ApplyLate
  <2> QED
    BY <2>1, <2>2, <2>3, StatusType DEF Abstract!Perform
<1>3. ASSUME NEW c \in Calls,
             \/ Refuse(c) \/ Garble(c) \/ ServeLogin(c)
             \/ Login(c) \/ Repost(c) \/ BackOff(c) \/ WakeUp(c)
      PROVE  UNCHANGED Abstract!absVars
  <2>1. UNCHANGED <<applied, result>>
    BY <1>3 DEF Refuse, Garble, ServeLogin, Login, Repost, BackOff, WakeUp
  <2>2. \/ pc' = pc
        \/ /\ pc[c] \in Waiting
           /\ \E p \in Waiting : pc' = [pc EXCEPT ![c] = p]
    BY <1>3 DEF Refuse, Garble, ServeLogin, Login, MayLogin, Repost, BackOff, Transient, WakeUp,
                Waiting, IInv, Shape, TypeOK
  <2>3. S' = S
    BY <2>1, <2>2 DEF Status, Waiting, IInv, TypeOK
  <2> QED
    BY <2>1, <2>3
<1>4. ASSUME NEW c \in Calls, NEW r \in Results, pc[c] \in Waiting, applied' = applied,
             pc' = [pc EXCEPT ![c] = "done"], result' = [result EXCEPT ![c] = r],
             r = "ok" => wire[c] = "ok" /\ Posted(c)
      PROVE  Abstract!Return(c) \/ Abstract!Raise(c)
  <2>1. S[c] = "running"
    BY <1>4 DEF Status, Waiting
  <2>2. Status(c)' = IF r = "ok" THEN "returned" ELSE "raised"
    BY <1>4 DEF Status, IInv, TypeOK
  <2>3. S' = [S EXCEPT ![c] = Status(c)']
    BY <1>4, OneStatus
  <2>4. r = "ok" => applied[c] > 0
    BY <1>4 DEF IInv, Accounts, Settled, TypeOK
  <2> QED
    BY <1>4, <2>1, <2>2, <2>3, <2>4 DEF Abstract!Return, Abstract!Raise
<1>5. ASSUME NEW c \in Calls, GiveUp(c) \/ RaiseStatus(c) \/ ReadBody(c) \/ Cancel(c)
      PROVE  Abstract!Return(c) \/ Abstract!Raise(c)
  <2>1. pc[c] \in Waiting
    BY <1>5 DEF GiveUp, Transient, RaiseStatus, ReadBody, Cancel, Waiting, IInv, Shape, TypeOK
  <2>2. \E r \in Results :
           /\ pc' = [pc EXCEPT ![c] = "done"] /\ result' = [result EXCEPT ![c] = r]
           /\ applied' = applied
           /\ r = "ok" => wire[c] = "ok" /\ Posted(c)
    <3>1. CASE GiveUp(c)
      <4>1. PICK r \in {"unreachable", "transport_error", "http_5xx"} : Finish(c, r)
        BY <3>1 DEF GiveUp, Transient
      <4> QED
        BY <4>1, Zenon DEF Finish, Results, Retryable
    <3>2. CASE RaiseStatus(c)
      BY <3>2 DEF RaiseStatus, Finish, Results
    <3>3. CASE ReadBody(c)
      BY <3>3 DEF ReadBody, Finish, Results, Posted
    <3>4. CASE Cancel(c)
      <4>1. /\ pc' = [pc EXCEPT ![c] = "done"] /\ result' = [result EXCEPT ![c] = "cancelled"]
            /\ applied' = applied
        BY <3>4 DEF Cancel
      <4>2. "cancelled" \in Results /\ "cancelled" # "ok"
        BY DEF Results
      <4> QED
        BY <4>1, <4>2
    <3> QED
      BY <1>5, <3>1, <3>2, <3>3, <3>4
  <2> QED
    BY <1>4, <2>1, <2>2
<1>6. ASSUME UNCHANGED vars PROVE UNCHANGED Abstract!absVars
  BY <1>6 DEF vars, Status
<1> QED
  BY <1>1, <1>2, <1>3, <1>5, <1>6 DEF Next, Network, Continue, Abstract!Next

(* Whatever the network and the kernel do, and however calls race for the  *)
(* login, a call that returns was performed: the safety part of            *)
(* ImplementsKernelCall.                                                   *)
THEOREM Refinement == Spec => Abstract!Safety
<1>1. Init => Abstract!Init
  BY DEF Init, Abstract!Init, Status
<1>2. IInv /\ [Next]_vars => [Abstract!Next]_(Abstract!absVars)
  BY StepRefines
<1> QED
  BY <1>1, <1>2, Invariance, PTL DEF Spec, Abstract!Safety

-----------------------------------------------------------------------------
(* The health probe, for any number of checks, any interval and any        *)
(* timeout below it.                                                       *)

(* Nothing is stamped in the future, and no probe outlives its timeout.    *)
TimesAreOrdered ==
    /\ since <= now
    /\ checkedAt <= now
    /\ \A s \in starts \cup ended : s <= now
    /\ \A c \in Checks : started[c] <= now
    /\ \A c \in Checks : phase[c] = "probing" => now <= started[c] + Timeout

(* A stored outcome that is wrong now dates from before the last change.   *)
WrongIsOld == ok # up => checkedAt <= since

(* A probe that ended by itself has left checked_at no more than Timeout   *)
(* before its start.                                                       *)
ProbesAreStamped == \A s \in ended : checkedAt >= s - Timeout

ProbeInv ==
    /\ ProbeTypeOK
    /\ TimesAreOrdered
    /\ WrongIsOld
    /\ ProbesAreStamped
    /\ VerdictCatchesUp
    /\ LoadIsBounded

-----------------------------------------------------------------------------
LEMMA ProbeStart == ProbeInit => ProbeInv
<1> SUFFICES ASSUME ProbeInit PROVE ProbeInv
  OBVIOUS
<1> USE TimesAssumption DEF ProbeInit
<1>1. ProbeTypeOK
  BY DEF ProbeTypeOK
<1>2. TimesAreOrdered /\ WrongIsOld /\ ProbesAreStamped
  BY DEF TimesAreOrdered, WrongIsOld, ProbesAreStamped
<1>3. VerdictCatchesUp /\ LoadIsBounded
  BY DEF VerdictCatchesUp, LoadIsBounded
<1> QED BY <1>1, <1>2, <1>3 DEF ProbeInv

(* An answer from the stored outcome, which is younger than Ttl.           *)
LEMMA CachedStep ==
  ASSUME ProbeInv, NEW c \in Checks, Cached(c)
  PROVE  ProbeInv'
<1> USE TimesAssumption, NoneAssumption DEF ProbeInv, ProbeTypeOK, Verdicts
<1>1. ProbeTypeOK'
  BY DEF Cached, Reply
<1>2. (TimesAreOrdered /\ WrongIsOld /\ ProbesAreStamped /\ LoadIsBounded)'
  BY DEF Cached, TimesAreOrdered, WrongIsOld, ProbesAreStamped, LoadIsBounded
<1>3. VerdictCatchesUp'
  <2>1. now - since >= Ttl => ok = up
    BY DEF Cached, WrongIsOld, TimesAreOrdered
  <2> QED BY <2>1 DEF Cached, Reply, VerdictCatchesUp
<1> QED BY <1>1, <1>2, <1>3

(* A new probe: of those that have ended by themselves checked_at knows.   *)
LEMMA StartStep ==
  ASSUME ProbeInv, NEW c \in Checks, StartProbe(c)
  PROVE  ProbeInv'
<1> USE TimesAssumption, NoneAssumption DEF ProbeInv, ProbeTypeOK, Verdicts
<1>1. ProbeTypeOK' /\ VerdictCatchesUp' /\ WrongIsOld'
  BY DEF StartProbe, VerdictCatchesUp, WrongIsOld
<1>2. TimesAreOrdered'
  BY DEF StartProbe, TimesAreOrdered
<1>3. ProbesAreStamped'
  BY DEF StartProbe, ProbesAreStamped
<1>4. LoadIsBounded'
  <2>1. \A s \in ended : now - s >= Ttl - Timeout
    <3> SUFFICES ASSUME NEW s \in ended PROVE now - s >= Ttl - Timeout
      OBVIOUS
    <3>1. checkedAt >= s - Timeout /\ now - checkedAt >= Ttl /\ s \in Nat
      BY DEF StartProbe, ProbesAreStamped
    <3> QED BY <3>1
  <2>2. /\ starts' = starts \cup {now} /\ ended' = ended
        /\ \A s \in ended, t \in starts : s <= t => t - s <= Timeout \/ t - s >= Ttl - Timeout
    BY DEF StartProbe, LoadIsBounded
  <2>3. ASSUME NEW s \in ended, NEW t \in starts', s <= t
        PROVE  t - s <= Timeout \/ t - s >= Ttl - Timeout
    <3>1. CASE t = now
      BY <2>1, <3>1
    <3>2. CASE t \in starts
      BY <2>2, <2>3, <3>2
    <3> QED BY <2>2, <2>3, <3>1, <3>2
  <2> QED BY <2>2, <2>3 DEF LoadIsBounded
<1> QED BY <1>1, <1>2, <1>3, <1>4

(* The outcome v of a probe that saw the kernel so.                        *)
LEMMA StoreStep ==
  ASSUME ProbeInv, NEW c \in Checks, NEW v \in BOOLEAN, Saw(c, v), Store(c, v)
  PROVE  ProbeInv'
<1> USE TimesAssumption, NoneAssumption DEF ProbeInv, ProbeTypeOK, Verdicts
<1>1. ProbeTypeOK'
  <2>1. verdict' \in [Checks -> Verdicts \cup {None}]
    BY DEF Store, Reply
  <2>2. checkedAt' \in Nat /\ ended' \subseteq Nat
    BY DEF Store
  <2>3. phase' \in [Checks -> {"idle", "probing"}] /\ ok' \in BOOLEAN
    BY DEF Store
  <2> QED BY <2>1, <2>2, <2>3 DEF Store
<1>2. TimesAreOrdered'
  <2>1. /\ now' = now /\ since' = since /\ checkedAt' = started[c]
        /\ starts' = starts /\ ended' = ended \cup {started[c]} /\ started' = started
        /\ \A d \in Checks : phase'[d] = "probing" => phase[d] = "probing"
    BY DEF Store
  <2>2. started[c] <= now
    BY DEF TimesAreOrdered
  <2> QED BY <2>1, <2>2 DEF TimesAreOrdered
<1>3. LoadIsBounded'
  <2>1. \A t \in starts : t \in Nat /\ t - started[c] <= Timeout
    BY DEF Store, TimesAreOrdered
  <2>2. starts' = starts /\ ended' = ended \cup {started[c]}
    BY DEF Store
  <2> QED BY <2>1, <2>2 DEF LoadIsBounded
<1>4. WrongIsOld'
  BY DEF Store, Saw, WrongIsOld
<1>5. ProbesAreStamped'
  BY DEF Store, ProbesAreStamped, TimesAreOrdered
<1>6. VerdictCatchesUp'
  <2>1. now - since >= Ttl => v = up
    BY DEF Store, Saw, TimesAreOrdered
  <2> QED BY <2>1 DEF Store, Reply, VerdictCatchesUp
<1> QED BY <1>1, <1>2, <1>3, <1>4, <1>5, <1>6

(* A cancelled check leaves everything but its place.                      *)
LEMMA CancelCheckStep ==
  ASSUME ProbeInv, NEW c \in Checks, CancelCheck(c)
  PROVE  ProbeInv'
<1> USE TimesAssumption, NoneAssumption DEF ProbeInv, ProbeTypeOK, Verdicts
<1>1. ProbeTypeOK'
  BY DEF CancelCheck
<1>2. (TimesAreOrdered /\ WrongIsOld /\ ProbesAreStamped /\ VerdictCatchesUp /\ LoadIsBounded)'
  BY DEF CancelCheck, TimesAreOrdered, WrongIsOld, ProbesAreStamped, VerdictCatchesUp, LoadIsBounded
<1> QED BY <1>1, <1>2

LEMMA ProbeStep == ProbeInv /\ [ProbeNext]_probeVars => ProbeInv'
<1> SUFFICES ASSUME ProbeInv, [ProbeNext]_probeVars PROVE ProbeInv'
  OBVIOUS
<1> USE TimesAssumption, NoneAssumption
<1>1. ASSUME NEW c \in Checks, Cached(c) PROVE ProbeInv'
  BY <1>1, CachedStep
<1>2. ASSUME NEW c \in Checks, StartProbe(c) PROVE ProbeInv'
  BY <1>2, StartStep
<1>3. ASSUME NEW c \in Checks, Reachable(c) PROVE ProbeInv'
  BY <1>3, StoreStep DEF Reachable
<1>4. ASSUME NEW c \in Checks, ProbeFails(c) \/ TimesOut(c) PROVE ProbeInv'
  BY <1>4, StoreStep DEF ProbeFails, TimesOut
<1>5. CASE Tick
  BY <1>5 DEF Tick, ProbeInv, ProbeTypeOK, Verdicts, TimesAreOrdered, WrongIsOld,
              ProbesAreStamped, VerdictCatchesUp, LoadIsBounded
<1>6. CASE Flap
  BY <1>6 DEF Flap, ProbeInv, ProbeTypeOK, Verdicts, TimesAreOrdered, WrongIsOld,
              ProbesAreStamped, VerdictCatchesUp, LoadIsBounded
<1>7. CASE UNCHANGED probeVars
  BY <1>7 DEF probeVars, ProbeInv, ProbeTypeOK, Verdicts, TimesAreOrdered, WrongIsOld,
              ProbesAreStamped, VerdictCatchesUp, LoadIsBounded
<1>8. ASSUME NEW c \in Checks, CancelCheck(c) PROVE ProbeInv'
  BY <1>8, CancelCheckStep
<1> QED BY <1>1, <1>2, <1>3, <1>4, <1>5, <1>6, <1>7, <1>8 DEF ProbeNext

(* The inductive invariant holds: wrong stored outcomes are old, and every *)
(* probe that ended by itself is stamped in checked_at up to Timeout.      *)
THEOREM ProbeInvariance == ProbeSpec => []ProbeInv
  BY ProbeStart, ProbeStep, PTL DEF ProbeSpec

(* Type correctness.                                                       *)
THEOREM ProbeTypeCorrect == ProbeSpec => []ProbeTypeOK
  BY ProbeInvariance, PTL DEF ProbeInv

(* Once the kernel has been up or down for Ttl, every answer says so.      *)
THEOREM CatchesUp == ProbeSpec => []VerdictCatchesUp
  BY ProbeInvariance, PTL DEF ProbeInv

(* After a probe that was not cancelled, the next ones are sent within     *)
(* Timeout or not before Ttl - Timeout have passed.                        *)
THEOREM BoundedLoad == ProbeSpec => []LoadIsBounded
  BY ProbeInvariance, PTL DEF ProbeInv

=============================================================================
