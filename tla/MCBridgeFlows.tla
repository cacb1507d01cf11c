--------------------------- MODULE MCBridgeFlows ---------------------------
(* Small instances of BridgeFlows for TLC. *)
EXTENDS BridgeFlows

\* A watch nothing disturbs, and one that meets with everything but a period
\* too long for setTimeout().
MCSettings == {{}, Circumstances \ {"overflow"}}

MCOthers == {"older"}

=============================================================================
