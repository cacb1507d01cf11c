---------------------------- MODULE MCEvmSession ----------------------------
(* Small instances of EvmSession for TLC. *)
EXTENDS EvmSession

CONSTANTS c1, c2, s1, s2, s3

MCCalls == {c1, c2}

Retrying  == [autoReconnect |-> TRUE,  maxRetries |-> 2]
NoRetries == [autoReconnect |-> TRUE,  maxRetries |-> 0]
Manual    == [autoReconnect |-> FALSE, maxRetries |-> 2]

With(o, undisturbed, sockets) ==
    [options |-> o, careful |-> undisturbed, validUrl |-> TRUE, reachable |-> undisturbed,
     nodeAnswers |-> undisturbed, loopUndisturbed |-> undisturbed, sockets |-> sockets]

Undisturbing == With(Retrying, TRUE, {s1, s2, s3})

\* A session nothing disturbs, one whose connection may drop while resubscribeAll() is
\* running with a socket left to go on with, sessions everything may happen to, and one
\* whose URL no WebSocket takes.
MCSettings ==
    {Undisturbing, [Undisturbing EXCEPT !.loopUndisturbed = FALSE]}
        \cup {With(o, FALSE, {s1, s2}) : o \in {Retrying, NoRetries, Manual}}
        \cup {[With(Retrying, FALSE, {s1}) EXCEPT !.validUrl = FALSE]}

=============================================================================
