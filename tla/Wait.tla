-------------------------------- MODULE Wait --------------------------------
(***************************************************************************)
(* What waitForTx() and waitForEvent() promise their caller: the wait ends *)
(* exactly once, with what was waited for only if it is on the chain, and  *)
(* otherwise with a TimeoutError.                                          *)
(***************************************************************************)
VARIABLES onChain, outcome

vars == <<onChain, outcome>>

Init == onChain \in BOOLEAN /\ outcome = "waiting"

Happens == ~onChain /\ onChain' = TRUE /\ UNCHANGED outcome

Found == outcome = "waiting" /\ onChain /\ outcome' = "found" /\ UNCHANGED onChain

TimesOut == outcome = "waiting" /\ outcome' = "timeout" /\ UNCHANGED onChain

Spec == Init /\ [][Happens \/ Found \/ TimesOut]_vars

\* The wait ends ...
Ends == <>[](outcome # "waiting")

\* ... and a wait that nobody cuts short ends with what it waited for.
EndsWithIt == onChain ~> outcome = "found"

=============================================================================
