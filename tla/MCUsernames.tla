---------------------------- MODULE MCUsernames ----------------------------
(* Small instances of Usernames for TLC. *)
EXTENDS Usernames, TLC

CONSTANTS c1, c2, c3, a1, a2, n1, n2

MCCalls == {c1, c2, c3}
MCAddresses == {a1, a2}
MCNames == {n1, n2}

Edition(o1, o2, e1, p) ==
    [owner |-> (n1 :> o1 @@ n2 :> o2), expiry |-> (n1 :> e1 @@ n2 :> 9),
     primary |-> (a1 :> p @@ a2 :> Nobody)]

\* n1 expires at 1 and is registered by another, with an expiration the registry leaves at
\* 0; the primary name follows.
Moving == <<Edition(a1, a1, 1, n1), Edition(a2, a1, 0, n2)>>

Ask(op, of, skip, ttl) == [op |-> op, of |-> of, skip |-> skip, ttl |-> ttl]
Default == 2

Of(op, key) == {Ask(op, key, FALSE, Default)}
Skipping(op, key) == {Ask(op, key, TRUE, Default)}

Base == [history |-> Moving, fails |-> FALSE, crowded |-> FALSE, clears |-> FALSE,
         asks |-> [c \in Calls |-> {}]]

\* One name is asked for by all, one of them skipping the cache; requests fail.
Shared == [Base EXCEPT !.fails = TRUE,
    !.asks = (c1 :> Of("getRecord", n1) \cup Skipping("getRecord", n1)
              @@ c2 :> Of("getMetadata", n1) \cup Skipping("getMetadata", n1)
              @@ c3 :> Of("getRecord", n1) \cup {Ask("getRecord", n1, FALSE, 0)})]

\* Two names of one address, its primary name, and an application that invalidates.
Related == [Base EXCEPT !.clears = TRUE,
    !.asks = (c1 :> Of("getRecord", n1) \cup Of("getRecord", n2)
              @@ c2 :> Of("getRecord", n1) \cup Of("getName", a1)
              @@ c3 :> Skipping("getName", a1) \cup Of("getMetadata", n1))]

\* The same in maps that are full.
Full == [Related EXCEPT !.clears = FALSE, !.crowded = TRUE]

MCSettings == {Shared, Related, Full}

=============================================================================
