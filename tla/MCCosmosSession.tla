-------------------------- MODULE MCCosmosSession --------------------------
(* Small instances of CosmosSession for TLC. *)
EXTENDS CosmosSession, TLC

CONSTANTS c1, c2, q1, q2, s1, s2, s3

MCCalls == {c1, c2}
OwnQuery == (c1 :> q1) @@ (c2 :> q2)

CarefulPhases == {"connected", "joining", "idle"}
Retrying  == [autoReconnect |-> TRUE,  maxRetries |-> 2]
NoRetries == [autoReconnect |-> TRUE,  maxRetries |-> 0]
Manual    == [autoReconnect |-> FALSE, maxRetries |-> 2]

With(o, phases, undisturbed, sockets) ==
    [options |-> o, callPhases |-> phases, closesInCallback |-> phases = Phases,
     sockets |-> sockets, validUrl |-> TRUE,
     reachable |-> undisturbed, nodeAccepts |-> undisturbed]

\* A careful application with and without disturbances, one that calls subscribe() and
\* close() at any time, and one whose URL no WebSocket takes.
MCSettings ==
    {With(Retrying, CarefulPhases, TRUE, {s1, s2, s3})}
        \cup {With(o, CarefulPhases, FALSE, {s1, s2, s3}) : o \in {Retrying, NoRetries}}
        \cup {With(o, Phases, FALSE, {s1, s2}) : o \in {Retrying, Manual}}
        \cup {[With(Retrying, Phases, FALSE, {s1}) EXCEPT !.validUrl = FALSE]}

Disturbed == {With(Retrying, CarefulPhases, FALSE, {s1, s2, s3})}

=============================================================================
