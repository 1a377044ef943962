---------------------------- MODULE UpstreamProbe -----------------------------
(***************************************************************************)
(* The health probe of mcp_siyuan/server.py: _probe_upstream, shared by    *)
(* /health, /healthz and the siyuan://status resource, with checks that    *)
(* overlap at the await of the probe.  A probe is one sy.call, cut off     *)
(* after Timeout seconds (KernelClient models what is inside, and what the *)
(* cut-off does to it).  Time is in whole seconds of time.monotonic().     *)
(* What KernelClient has too is named for the probe here, for              *)
(* KernelClientProofs extends both.                                        *)
(***************************************************************************)
EXTENDS Integers

CONSTANTS
    Checks,     \* checks that may be in progress at once
    Ttl,        \* UPSTREAM_PROBE_INTERVAL
    Timeout,    \* of asyncio.wait_for around a probe
    Boot,       \* time.monotonic() when the process starts
    Flaps,      \* the kernel goes down and comes up
    MaxTime,    \* bound on time
    None

ASSUME TimesAssumption ==
    /\ Ttl \in Nat /\ Timeout \in Nat /\ Boot \in Nat /\ MaxTime \in Nat
    /\ Timeout < Ttl
    /\ Flaps \in BOOLEAN
ASSUME NoneAssumption == None \notin [ok : BOOLEAN, up : BOOLEAN, settled : BOOLEAN]

VARIABLES
    now,        \* time.monotonic()
    up,         \* the kernel answers a probe within Timeout
    since,      \* the time up last changed
    ok,         \* _probe_state["ok"]
    checkedAt,  \* _probe_state["checked_at"]
    phase,      \* phase[c]: "idle", or "probing" while c awaits its probe
    started,    \* started[c]: the local `now` of c
    (* History, read by properties only. *)
    verdict,    \* verdict[c]: the last answer of c, and the kernel just then
    starts,     \* the times at which probes were sent
    ended       \* and of these, of probes that were not cancelled

probeVars == <<now, up, since, ok, checkedAt, phase, started, verdict, starts, ended>>

Verdicts == [ok : BOOLEAN, up : BOOLEAN, settled : BOOLEAN]

ProbeTypeOK ==
    /\ now \in Nat /\ since \in Nat /\ checkedAt \in Nat
    /\ up \in BOOLEAN /\ ok \in BOOLEAN
    /\ phase \in [Checks -> {"idle", "probing"}]
    /\ started \in [Checks -> Nat]
    /\ verdict \in [Checks -> Verdicts \cup {None}]
    /\ starts \subseteq Nat /\ ended \subseteq Nat

-----------------------------------------------------------------------------
(* settled: the kernel has been up (or down) for a whole interval.         *)
Reply(c, v) ==
    verdict' = [verdict EXCEPT ![c] = [ok |-> v, up |-> up, settled |-> now - since >= Ttl]]

(* A check within Ttl of checked_at is answered without a probe.           *)
Cached(c) ==
    /\ phase[c] = "idle"
    /\ now - checkedAt < Ttl
    /\ Reply(c, ok)
    /\ UNCHANGED <<now, up, since, ok, checkedAt, phase, started, starts, ended>>

(* Any other sends a probe, whether one is under way or not.               *)
StartProbe(c) ==
    /\ phase[c] = "idle"
    /\ now - checkedAt >= Ttl
    /\ phase' = [phase EXCEPT ![c] = "probing"]
    /\ started' = [started EXCEPT ![c] = now]
    /\ starts' = starts \cup {now}
    /\ UNCHANGED <<now, up, since, ok, checkedAt, verdict, ended>>

(* At some moment of c's probe the kernel was as u says.                   *)
Saw(c, u) == up = u \/ since >= started[c]

(* Mutant of Store: checked_at is the time the probe ended. *)
StoreEnd(c, v) ==
    /\ phase[c] = "probing"
    /\ ok' = v
    /\ checkedAt' = now
    /\ phase' = [phase EXCEPT ![c] = "idle"]
    /\ ended' = ended \cup {started[c]}
    /\ Reply(c, v)
    /\ UNCHANGED <<now, up, since, started, starts>>

(* The outcome replaces whatever is stored, that of a later probe too, and *)
(* checked_at is the time the probe started.                               *)
Store(c, v) ==
    /\ phase[c] = "probing"
    /\ ok' = v
    /\ checkedAt' = started[c]
    /\ phase' = [phase EXCEPT ![c] = "idle"]
    /\ ended' = ended \cup {started[c]}
    /\ Reply(c, v)
    /\ UNCHANGED <<now, up, since, started, starts>>

Reachable(c) == Saw(c, TRUE) /\ Store(c, TRUE)

(* An exception of sy.call: refused, a bad status, a code.                 *)
ProbeFails(c) == Saw(c, FALSE) /\ Store(c, FALSE)

(* Mutant of TimesOut: the handler returns without stamping the state. *)
TimesOutUnstamped(c) ==
    /\ phase[c] = "probing"
    /\ now = started[c] + Timeout /\ Saw(c, FALSE)
    /\ ok' = FALSE
    /\ phase' = [phase EXCEPT ![c] = "idle"]
    /\ ended' = ended \cup {started[c]}
    /\ Reply(c, FALSE)
    /\ UNCHANGED <<now, up, since, checkedAt, started, starts>>

(* wait_for gives up on a probe that got no answer.                        *)
TimesOut(c) == now = started[c] + Timeout /\ Saw(c, FALSE) /\ Store(c, FALSE)

(* The check is cancelled at its await: a CancelledError is neither a      *)
(* TimeoutError nor an Exception, so nothing is stored, not even the time, *)
(* and the next check finds checked_at as old as this one did.             *)
CancelCheck(c) ==
    /\ phase[c] = "probing"
    /\ phase' = [phase EXCEPT ![c] = "idle"]
    /\ UNCHANGED <<now, up, since, ok, checkedAt, started, verdict, starts, ended>>

(* Time passes; wait_for lets no probe outlive its timeout.                *)
Tick ==
    /\ now < MaxTime
    /\ \A c \in Checks : phase[c] = "probing" => now < started[c] + Timeout
    /\ now' = now + 1
    /\ UNCHANGED <<up, since, ok, checkedAt, phase, started, verdict, starts, ended>>

Flap ==
    /\ Flaps
    /\ up' = ~up
    /\ since' = now
    /\ UNCHANGED <<now, ok, checkedAt, phase, started, verdict, starts, ended>>

ProbeInit ==
    /\ now = Boot
    /\ up \in BOOLEAN
    /\ since = Boot
    /\ ok = FALSE
    /\ checkedAt = 0
    /\ phase = [c \in Checks |-> "idle"]
    /\ started = [c \in Checks |-> Boot]
    /\ verdict = [c \in Checks |-> None]
    /\ starts = {} /\ ended = {}

ProbeNext ==
    \/ \E c \in Checks :
          \/ Cached(c) \/ StartProbe(c) \/ Reachable(c) \/ ProbeFails(c) \/ TimesOut(c)
          \/ CancelCheck(c)
    \/ Tick \/ Flap

ProbeSpec == ProbeInit /\ [][ProbeNext]_probeVars

-----------------------------------------------------------------------------
(* Properties                                                              *)

(* Checks catch up with the kernel: once it has been up (or down) for Ttl  *)
(* seconds every answer says so, however many probes were under way when   *)
(* it changed, in whatever order they end and whichever are cancelled.     *)
(* checked_at must be the time a probe started.                            *)
VerdictCatchesUp ==
    \A c \in Checks :
        verdict[c] # None /\ verdict[c].settled => verdict[c].ok = verdict[c].up

(* The load on the kernel: after a probe that was not cancelled, answered  *)
(* or not, any other is sent within Timeout of it or at least Ttl - Timeout*)
(* later, so an interval holds one burst of concurrent checks' probes.  A  *)
(* late end of an older probe moves checked_at back, but by no more than   *)
(* Timeout.  Cancelled probes bound nothing: each may be followed at once. *)
LoadIsBounded ==
    \A s \in ended, t \in starts : s <= t => t - s <= Timeout \/ t - s >= Ttl - Timeout

=============================================================================
