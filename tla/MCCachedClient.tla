--------------------------- MODULE MCCachedClient ---------------------------
(* Small instances of CachedClient for TLC. *)
EXTENDS CachedClient, TLC

CONSTANTS c1, c2, c3, c4, r1, r2, h1, h2

MCCalls == {c1, c2, c3, c4}

\* The two directions of the denom mapping (a denom and an address are different
\* strings), and two calls of a mutable method at two heights.
Mixed ==
    [methodOf |-> (c1 :> "contractAddrByDenom" @@ c2 :> "denom"
                      @@ c3 :> "query" @@ c4 :> "query"),
     requestOf |-> (c1 :> r1 @@ c2 :> r2 @@ c3 :> r1 @@ c4 :> r1),
     heightOf |-> (c1 :> NoHeight @@ c2 :> NoHeight @@ c3 :> h1 @@ c4 :> h2),
     skipping |-> {c4}, changes |-> 0, clearings |-> 1, fails |-> TRUE]

\* Calls for the same answer, which changes twice.
Shared ==
    [methodOf |-> [c \in Calls |-> "module"], requestOf |-> [c \in Calls |-> r1],
     heightOf |-> [c \in Calls |-> NoHeight],
     skipping |-> {c3, c4}, changes |-> 2, clearings |-> 0, fails |-> TRUE]

MCSettings == {Mixed, Shared}

\* ... and the cache is cleared once.
Cleared == {[Shared EXCEPT !.clearings = 1]}

=============================================================================
