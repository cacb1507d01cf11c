---------------------------- MODULE MCProviders ----------------------------
(* Small instances of Providers for TLC. *)
EXTENDS Providers, TLC

CONSTANTS c1, c2, c3

MCCalls == {c1, c2, c3}

Base == [listings |-> <<{1, 2}, {2}>>, prefetch |-> {}, fails |-> FALSE,
         op |-> [c \in Calls |-> {"listAssets"}], of |-> 1, custom |-> {}]

\* Single lists, a listing of all and refreshes of a registry that changes and fails.
Busy == [Base EXCEPT !.fails = TRUE,
            !.op = (c1 :> {"getAssets", "getRawAssetList"} @@ c2 :> {"listAssets"}
                      @@ c3 :> {"refresh"})]

\* Two listings beside a single list: whose fetch is it?
Crowd == [Base EXCEPT !.op = [@ EXCEPT ![c1] = {"getAssets"}]]

\* Refreshes of the composite provider and of its child, with lists fetched ahead.
Whole == [Base EXCEPT !.prefetch = {2}, !.fails = TRUE, !.custom = {1},
            !.op = (c1 :> {"refreshAll"} @@ c2 :> {"refreshAll", "refresh"} @@ c3 :> {})]

MCSettings == {Busy, Crowd, Whole}
Overlap == {[Base EXCEPT !.op = (c1 :> {"getAssets"} @@ c2 :> {} @@ c3 :> {"refresh"})]}

=============================================================================
