---------------------------- MODULE MCMoveAbis ----------------------------
(* Small instances of MoveAbis for TLC. *)
EXTENDS MoveAbis, TLC

CONSTANTS c1, c2, c3, m1, m2, hex, bech

MCCalls == {c1, c2, c3}
MCModules == {m1, m2}
MCSpellings == {hex, bech}

Key(m, s) == [module |-> m, as |-> s]
Contract(m, s, useCache, ttl) ==
    [op |-> "contract", of |-> Key(m, s), useCache |-> useCache, ttl |-> ttl]
GetTx(messages, mode) == [op |-> "getTx", messages |-> messages, mode |-> mode]
Message(kind, m, since) ==
    [kind |-> kind, of |-> Key(m, hex), since |-> since, offline |-> FALSE]
Offline(m, since) == [Message("bcs", m, since) EXCEPT !.offline = TRUE]

Base == [asks |-> [c \in Calls |-> {}], first |-> [m \in Modules |-> 1], immutable |-> {m1}, nameless |-> {},
         fails |-> FALSE, clears |-> FALSE]

\* Contracts of one module, through the cache and past it, with different patience, and
\* with two spellings of its address.
Contracts == [Base EXCEPT !.clears = TRUE, !.nameless = {<<m2, 1>>},
    !.asks = (c1 :> {Contract(m1, hex, TRUE, 1), Contract(m1, hex, FALSE, 1)}
              @@ c2 :> {Contract(m1, bech, TRUE, 0), Contract(m2, hex, TRUE, 1)}
              @@ c3 :> {Contract(m1, hex, TRUE, 1), [op |-> "abis", as |-> hex]})]

\* Transactions of two messages, beside a contract of the same modules.
MixedTxs == {<<Message("bcs", m1, 1), Message("bcs", m1, 2)>>}
              \cup {<<Message("bcs", m2, 2), Message(k, m2, 1)>> :
                      k \in {"json", "garbled", "other", "broken"}}
              \cup {<<Offline(m1, 1), Offline(m2, 2)>>}

Transactions == [Base EXCEPT !.fails = TRUE, !.first[m2] = 0,
    !.asks = (c1 :> {GetTx(t, mode) : t \in MixedTxs, mode \in Modes}
              @@ c2 :> {Contract(m1, hex, TRUE, 1), Contract(m2, hex, FALSE, 1)}
              @@ c3 :> {})]

MCSettings == {Contracts, Transactions}

===========================================================================
