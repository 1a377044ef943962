----------------------------- MODULE KernelCall ------------------------------
(***************************************************************************)
(* What SiYuanClient.call promises to a tool that writes through it, with  *)
(* no network, login or retries: a call that returned has been performed;  *)
(* of one that raised nothing is known, and the kernel may perform it      *)
(* later still, and more than once; every call ends.  KernelClient.tla is  *)
(* shown to implement this.                                                *)
(***************************************************************************)
EXTENDS Naturals

CONSTANT Calls

VARIABLES
    status,     \* status[c]: "idle", "running", "returned" or "raised"
    performed   \* performed[c]: times the kernel performed c's write

absVars == <<status, performed>>

Goes(c, from, to) == status[c] = from /\ status' = [status EXCEPT ![c] = to]

Begin(c) == Goes(c, "idle", "running") /\ UNCHANGED performed

(* The kernel cannot tell whether c's caller still waits. *)
Perform(c) ==
    /\ status[c] \in {"running", "raised", "returned"}
    /\ performed' = [performed EXCEPT ![c] = @ + 1]
    /\ UNCHANGED status

Return(c) == performed[c] > 0 /\ Goes(c, "running", "returned") /\ UNCHANGED performed

Raise(c) == Goes(c, "running", "raised") /\ UNCHANGED performed

Init ==
    /\ status = [c \in Calls |-> "idle"]
    /\ performed = [c \in Calls |-> 0]

Next == \E c \in Calls : Begin(c) \/ Perform(c) \/ Return(c) \/ Raise(c)

Safety == Init /\ [][Next]_absVars

Spec == Safety /\ \A c \in Calls : WF_absVars(Return(c) \/ Raise(c))

=============================================================================
