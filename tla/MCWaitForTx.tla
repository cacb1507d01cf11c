---------------------------- MODULE MCWaitForTx ----------------------------
(* A small instance of WaitForTx for TLC. *)
EXTENDS WaitForTx

CONSTANTS k1, k2

MCBlockSlots == {k1, k2}

\* A wait nothing disturbs, and one that meets with everything.
MCSettings == {{}, Faults}

=============================================================================
