--------------------------- MODULE MCKernelClient ----------------------------
(* Small instances of KernelClient for TLC.                                *)
EXTENDS KernelClient, TLC

CONSTANTS c1, c2

CallsTwo == {c1, c2}

AllModes     == {"open", "header", "session", "refuse"}

AllFaults == Ambiguous \cup {"connect", "code", "cancel"}

=============================================================================
