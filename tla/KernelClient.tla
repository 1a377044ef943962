---------------------------- MODULE KernelClient -----------------------------
(***************************************************************************)
(* The HTTP client of the SiYuan kernel (mcp_siyuan/client.py): the retry  *)
(* loop of SiYuanClient.call and the one-time session login, for several   *)
(* calls that share the module-level client `sy`.                          *)
(*                                                                         *)
(* Every await is a point where another call may run: a POST is sent, then *)
(* answered, then seen by its call, in three steps.  A POST whose answer   *)
(* leaves its effect open (a timeout, a gateway error, an unreadable body, *)
(* a cancelled call) is in limbo: the kernel may still perform it at any   *)
(* later time, or never.                                                   *)
(***************************************************************************)
EXTENDS Naturals

CONSTANTS
    Calls,          \* invocations of SiYuanClient.call that write
    MaxAttempts,    \* SIYUAN_RETRY_MAX_ATTEMPTS, at least 1
    HasToken,       \* a SIYUAN_TOKEN is configured
    KernelModes,    \* how the kernel may authenticate: see Accepts
    Faults          \* what may go wrong between the client and the kernel

Ambiguous == {"transport", "http_5xx", "http_other", "bad_body"}

ASSUME AttemptsAssumption == MaxAttempts \in Nat \ {0}
ASSUME TokenAssumption    == HasToken \in BOOLEAN
ASSUME ModesAssumption    == KernelModes \subseteq {"open", "header", "session", "refuse"}
ASSUME FaultsAssumption   == Faults \subseteq Ambiguous \cup {"connect", "code", "cancel"}

VARIABLES
    mode,           \* how the kernel authenticates
    authHeader,     \* the shared client still sends Authorization: Token
    sessionAuthed,  \* _session_authed: the cookie jar holds a session
    loginAttempted, \* _login_attempted
    pc,             \* pc[c]: the await c is suspended at
    attempt,        \* attempt[c]: the loop counter
    wire,           \* wire[c]: what c's current POST has come to
    sentAs,         \* sentAs[c]: the credentials that POST carries
    result,         \* result[c]: what call() returned or raised
    applied,        \* applied[c]: times the kernel performed c's write
    limbo,          \* limbo[c]: POSTs of c whose effect is still open
    (* History, read by properties only. *)
    posts,          \* posts[c]: POSTs of c to its endpoint
    logins,         \* POSTs to /api/system/loginAuth
    lost            \* lost[c]: POSTs of c whose verdict c never saw

shared == <<authHeader, sessionAuthed, loginAttempted>>
vars   == <<mode, authHeader, sessionAuthed, loginAttempted, pc, attempt, wire,
            sentAs, result, applied, limbo, posts, logins, lost>>

Answers   == Ambiguous \cup {"connect", "code", "ok", "http_401"}
Waiting   == {"post", "repost", "login", "backoff"}
(* Errors raised as SiYuanError(retryable = True). *)
Retryable == {"unreachable", "transport_error"}
Results   == {"none", "ok", "kernel_error", "bad_body", "cancelled", "http_401",
              "http_5xx", "http_other"} \cup Retryable

TypeOK ==
    /\ mode \in KernelModes
    /\ authHeader \in BOOLEAN
    /\ sessionAuthed \in BOOLEAN
    /\ loginAttempted \in BOOLEAN
    /\ pc \in [Calls -> {"idle", "done"} \cup Waiting]
    /\ attempt \in [Calls -> 0..MaxAttempts]
    /\ wire \in [Calls -> {"none", "sent"} \cup Answers]
    /\ sentAs \in [Calls -> {"bare", "token", "cookie", "both"}]
    /\ result \in [Calls -> Results]
    /\ applied \in [Calls -> Nat]
    /\ limbo \in [Calls -> Nat]
    /\ posts \in [Calls -> Nat]
    /\ logins \in Nat
    /\ lost \in [Calls -> Nat]

-----------------------------------------------------------------------------
(* The kernel and the network                                              *)

(* A kernel with access code "session" rejects the Token header even when  *)
(* a valid session cookie comes with it; "refuse" knows neither.           *)
Accepts(credentials) ==
    \/ mode = "open"
    \/ mode = "header" /\ credentials = "token"
    \/ mode = "session" /\ credentials = "cookie"

Credentials(header, session) ==
    IF header THEN IF session THEN "both" ELSE "token"
              ELSE IF session THEN "cookie" ELSE "bare"

Answer(c, a) == wire' = [wire EXCEPT ![c] = a]

(* The kernel receives the POST of c and its answer says what it did.      *)
Serve(c) ==
    /\ wire[c] = "sent"
    /\ pc[c] \in {"post", "repost"}
    /\ \/ /\ ~Accepts(sentAs[c])
          /\ Answer(c, "http_401")
          /\ UNCHANGED applied
       \/ /\ Accepts(sentAs[c])
          /\ Answer(c, "ok")
          /\ applied' = [applied EXCEPT ![c] = @ + 1]
       \/ /\ Accepts(sentAs[c])
          /\ "code" \in Faults
          /\ Answer(c, "code")
          /\ UNCHANGED applied
    /\ UNCHANGED <<mode, shared, pc, attempt, sentAs, result, limbo, posts, logins, lost>>

(* The connection is refused: the POST never reached the kernel.           *)
Refuse(c) ==
    /\ wire[c] = "sent"
    /\ "connect" \in Faults
    /\ Answer(c, "connect")
    /\ UNCHANGED <<mode, shared, pc, attempt, sentAs, result, applied, limbo,
                   posts, logins, lost>>

(* A POST given up now may still take effect, if its credentials are good. *)
Open(c) == IF Accepts(sentAs[c]) THEN 1 ELSE 0

(* An answer that leaves the effect of the POST open.                      *)
Garble(c) ==
    /\ wire[c] = "sent"
    /\ pc[c] \in {"post", "repost"}
    /\ \E a \in Ambiguous \cap Faults : Answer(c, a)
    /\ limbo' = [limbo EXCEPT ![c] = @ + Open(c)]
    /\ lost' = [lost EXCEPT ![c] = @ + 1]
    /\ UNCHANGED <<mode, shared, pc, attempt, sentAs, result, applied, posts, logins>>

(* A POST given up by its call is performed after all.                     *)
ApplyLate(c) ==
    /\ limbo[c] > 0
    /\ limbo' = [limbo EXCEPT ![c] = @ - 1]
    /\ applied' = [applied EXCEPT ![c] = @ + 1]
    /\ UNCHANGED <<mode, shared, pc, attempt, wire, sentAs, result, posts, logins, lost>>

(* The kernel answers a login: yes, no, not at all, or not in JSON.        *)
ServeLogin(c) ==
    /\ wire[c] = "sent"
    /\ pc[c] = "login"
    /\ \/ mode = "session" /\ Answer(c, "ok")
       \/ mode # "session" /\ Answer(c, "code")
       \/ \E a \in {"transport", "bad_body"} \cap Faults : Answer(c, a)
    /\ UNCHANGED <<mode, shared, pc, attempt, sentAs, result, applied, limbo,
                   posts, logins, lost>>

-----------------------------------------------------------------------------
(* SiYuanClient.call and _login                                            *)

(* client.post(endpoint), with the credentials the shared client has now.  *)
Post(c) ==
    /\ Answer(c, "sent")
    /\ sentAs' = [sentAs EXCEPT ![c] = Credentials(authHeader', sessionAuthed')]
    /\ posts' = [posts EXCEPT ![c] = @ + 1]

Finish(c, r) ==
    /\ pc' = [pc EXCEPT ![c] = "done"]
    /\ result' = [result EXCEPT ![c] = r]
    /\ Answer(c, "none")
    /\ UNCHANGED <<mode, shared, attempt, sentAs, applied, limbo, posts, logins, lost>>

Start(c) ==
    /\ pc[c] = "idle"
    /\ pc' = [pc EXCEPT ![c] = "post"]
    /\ attempt' = [attempt EXCEPT ![c] = 1]
    /\ UNCHANGED shared
    /\ Post(c)
    /\ UNCHANGED <<mode, result, applied, limbo, logins, lost>>

(* May c still try the session login?  _login's own early return (no token *)
(* or already authenticated) cannot happen behind this guard.              *)
MayLogin(c) ==
    pc[c] = "post" /\ wire[c] = "http_401" /\ HasToken /\ ~loginAttempted

(* Mutant of Login: the flag is not set before _login is awaited. *)
LoginFlagForgotten(c) ==
    /\ MayLogin(c)
    /\ pc' = [pc EXCEPT ![c] = "login"]
    /\ Answer(c, "sent")
    /\ logins' = logins + 1
    /\ UNCHANGED <<mode, shared, attempt, sentAs, result, applied, limbo, posts, lost>>

(* The 401 branch: the flag is set, then _login is awaited.                *)
Login(c) ==
    /\ MayLogin(c)
    /\ loginAttempted' = TRUE
    /\ pc' = [pc EXCEPT ![c] = "login"]
    /\ Answer(c, "sent")
    /\ logins' = logins + 1
    /\ UNCHANGED <<mode, authHeader, sessionAuthed, attempt, sentAs, result,
                   applied, limbo, posts, lost>>

(* Mutant of Repost: the rejected header is kept beside the cookie. *)
RepostKeepsHeader(c) ==
    /\ pc[c] = "login"
    /\ wire[c] \in {"ok", "code", "connect"}
    /\ sessionAuthed' = (sessionAuthed \/ wire[c] = "ok")
    /\ UNCHANGED authHeader
    /\ pc' = [pc EXCEPT ![c] = "repost"]
    /\ Post(c)
    /\ UNCHANGED <<mode, loginAttempted, attempt, result, applied, limbo, logins, lost>>

(* _login returns: whatever it came to, the POST is made once more.        *)
Repost(c) ==
    /\ pc[c] = "login"
    /\ wire[c] \in {"ok", "code", "connect"}
    /\ IF wire[c] = "ok"
       THEN sessionAuthed' = TRUE /\ authHeader' = FALSE
       ELSE UNCHANGED <<sessionAuthed, authHeader>>
    /\ pc' = [pc EXCEPT ![c] = "repost"]
    /\ Post(c)
    /\ UNCHANGED <<mode, loginAttempted, attempt, result, applied, limbo, logins, lost>>

(* Mutant of Transient: no break after a good answer. *)
TransientOrGood(c) ==
    \/ wire[c] = "transport"
    \/ wire[c] \in {"connect", "http_5xx", "ok"} /\ pc[c] \in {"post", "repost"}

(* A transient failure of this attempt: a connection or transport error    *)
(* (the login's transport error lands here too), or HTTP 502, 503, 504.    *)
(* _login itself swallows a connection error.                              *)
Transient(c) ==
    \/ wire[c] = "transport"
    \/ wire[c] \in {"connect", "http_5xx"} /\ pc[c] \in {"post", "repost"}

(* Not the last attempt: back off.                                         *)
BackOff(c) ==
    /\ Transient(c)
    /\ attempt[c] < MaxAttempts
    /\ pc' = [pc EXCEPT ![c] = "backoff"]
    /\ Answer(c, "none")
    /\ UNCHANGED <<mode, shared, attempt, sentAs, result, applied, limbo, posts,
                   logins, lost>>

(* Mutant of WakeUp: the retry does not count as an attempt. *)
WakeUpUncounted(c) ==
    /\ pc[c] = "backoff"
    /\ pc' = [pc EXCEPT ![c] = "post"]
    /\ UNCHANGED shared
    /\ Post(c)
    /\ UNCHANGED <<mode, attempt, result, applied, limbo, logins, lost>>

WakeUp(c) ==
    /\ pc[c] = "backoff"
    /\ pc' = [pc EXCEPT ![c] = "post"]
    /\ attempt' = [attempt EXCEPT ![c] = @ + 1]
    /\ UNCHANGED shared
    /\ Post(c)
    /\ UNCHANGED <<mode, result, applied, limbo, logins, lost>>

(* Mutant of GiveUp: the loop ends without raising. *)
GiveUpQuietly(c) ==
    /\ Transient(c)
    /\ attempt[c] >= MaxAttempts
    /\ Finish(c, "ok")

(* The last attempt failed: a SiYuanError marked retryable, except that a  *)
(* gateway status propagates as the bare httpx.HTTPStatusError.            *)
GiveUp(c) ==
    /\ Transient(c)
    /\ attempt[c] >= MaxAttempts
    /\ Finish(c, CASE wire[c] = "connect"   -> "unreachable"
                   [] wire[c] = "transport" -> "transport_error"
                   [] wire[c] = "http_5xx"  -> "http_5xx")

(* Mutant of RaiseStatus: a 401 waits for a login that is already over. *)
RaiseStatusBut401(c) ==
    /\ pc[c] \in {"post", "repost"}
    /\ wire[c] = "http_other"
    /\ Finish(c, wire[c])

(* raise_for_status on any other status: no retry.                         *)
RaiseStatus(c) ==
    /\ pc[c] \in {"post", "repost"}
    /\ wire[c] \in {"http_401", "http_other"}
    /\ ~MayLogin(c)
    /\ Finish(c, wire[c])

(* A 2xx answer: its body carries the kernel's verdict, or is unreadable   *)
(* (of _login's answer too: resp.json() raises through call).              *)
ReadBody(c) ==
    \/ /\ pc[c] \in {"post", "repost"}
       /\ wire[c] \in {"ok", "code", "bad_body"}
       /\ Finish(c, CASE wire[c] = "ok"       -> "ok"
                      [] wire[c] = "code"     -> "kernel_error"
                      [] wire[c] = "bad_body" -> "bad_body")
    \/ /\ pc[c] = "login"
       /\ wire[c] = "bad_body"
       /\ Finish(c, "bad_body")

(* The awaiting task is cancelled: the client went away, or a wait_for     *)
(* around the call (server.py's probe) timed out.  A POST on the wire      *)
(* stays there, and an answer that came is not seen.                       *)
Cancel(c) ==
    /\ "cancel" \in Faults
    /\ pc[c] \in Waiting
    /\ pc' = [pc EXCEPT ![c] = "done"]
    /\ result' = [result EXCEPT ![c] = "cancelled"]
    /\ Answer(c, "none")
    /\ LET posted == pc[c] \in {"post", "repost"}
       IN  /\ limbo' = [limbo EXCEPT ![c] =
                           IF posted /\ wire[c] = "sent" THEN @ + Open(c) ELSE @]
           /\ lost' = [lost EXCEPT ![c] =
                          IF posted /\ wire[c] \in {"sent", "ok"} THEN @ + 1 ELSE @]
    /\ UNCHANGED <<mode, shared, attempt, sentAs, applied, posts, logins>>

-----------------------------------------------------------------------------
Init ==
    /\ mode \in KernelModes
    /\ authHeader = HasToken
    /\ sessionAuthed = FALSE
    /\ loginAttempted = FALSE
    /\ pc = [c \in Calls |-> "idle"]
    /\ attempt = [c \in Calls |-> 0]
    /\ wire = [c \in Calls |-> "none"]
    /\ sentAs = [c \in Calls |-> "bare"]
    /\ result = [c \in Calls |-> "none"]
    /\ applied = [c \in Calls |-> 0]
    /\ limbo = [c \in Calls |-> 0]
    /\ posts = [c \in Calls |-> 0]
    /\ logins = 0
    /\ lost = [c \in Calls |-> 0]

(* httpx answers or raises within its 30 s timeout.                        *)
Network(c) == Serve(c) \/ Refuse(c) \/ Garble(c) \/ ServeLogin(c)

Continue(c) ==
    \/ Login(c) \/ Repost(c) \/ BackOff(c) \/ WakeUp(c)
    \/ GiveUp(c) \/ RaiseStatus(c) \/ ReadBody(c)

Next ==
    \E c \in Calls :
        Start(c) \/ Network(c) \/ Continue(c) \/ ApplyLate(c) \/ Cancel(c)

Spec == Init /\ [][Next]_vars

FairSpec == Spec /\ \A c \in Calls : WF_vars(Network(c)) /\ WF_vars(Continue(c))

-----------------------------------------------------------------------------
(* Properties                                                              *)

(* However many calls see a 401 at the same time, the process logs in at   *)
(* most once.                                                              *)
LoginOnce == logins <= 1

(* No call posts more than its attempts, and one more for the single call  *)
(* that logged in.                                                         *)
PostBudget ==
    /\ \A c \in Calls : posts[c] <= attempt[c] + 1
    /\ \A c, d \in Calls : posts[c] > attempt[c] /\ posts[d] > attempt[d] => c = d

(* The retry loop never repeats a POST after an answer that settled it: a  *)
(* write is performed more than once only after as many POSTs were lost.   *)
NoRepeatAfterVerdict == \A c \in Calls : applied[c] + limbo[c] <= lost[c] + 1

(* A call that lost no POST reports its effect exactly: performed once if  *)
(* it returned, not at all if it raised.                                   *)
ReportIsExact ==
    \A c \in Calls :
        pc[c] = "done" /\ lost[c] = 0
            => applied[c] = IF result[c] = "ok" THEN 1 ELSE 0

(* Once the session is there, no POST sent from then on is rejected for    *)
(* its credentials.                                                        *)
SessionIsUsed ==
    [][\A c \in Calls :
          mode = "session" /\ sessionAuthed /\ posts'[c] > posts[c]
              => Accepts(sentAs'[c])]_vars

(* Every call ends: it returns or raises.                                  *)
EveryCallEnds == \A c \in Calls : pc[c] \in Waiting ~> pc[c] = "done"

(* What a tool may rely on: the calls, with all their retries, rejections  *)
(* and the login, are calls as KernelCall has them.  A call that returned  *)
(* was performed, and every call ends.                                     *)
Status(c) ==
    IF pc[c] = "idle" THEN "idle"
    ELSE IF pc[c] # "done" THEN "running"
    ELSE IF result[c] = "ok" THEN "returned" ELSE "raised"

Abstract == INSTANCE KernelCall WITH status <- [c \in Calls |-> Status(c)], performed <- applied

ImplementsKernelCall == Abstract!Spec

=============================================================================
