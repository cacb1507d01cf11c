-------------------------- MODULE MCChainContext --------------------------
(* Small instances of ChainContext for TLC. *)
EXTENDS ChainContext

CONSTANTS c1, c2, c3, own, key, ctx, ctx2

MCCalls == {c1, c2, c3}

OneContext == [c \in Calls |-> ctx]
LastOnItsOwn == [c \in Calls |-> IF c = c3 THEN ctx2 ELSE ctx]
OneAccount == [x \in Contexts |-> own]
TwoAccounts == [x \in Contexts |-> IF x = ctx THEN own ELSE key]

With(contexts, accounts, feeless, overlap) ==
    [contextOf |-> contexts, defaultOf |-> accounts,
     signerOf |-> [c \in Calls |-> accounts[contexts[c]]],
     givesFee |-> Calls \ feeless, overlap |-> overlap,
     resets |-> FALSE, persistent |-> FALSE, retries |-> FALSE, lossy |-> FALSE,
     evictions |-> 0]

\* Calls one after the other on one context or on two.
InTurn == {With(c, TwoAccounts, {}, FALSE) : c \in {OneContext, LastOnItsOwn}}

\* Overlapping calls of two contexts of one account, over a lossy network.
Crossing == [With(LastOnItsOwn, OneAccount, {c2}, TRUE)
                EXCEPT !.resets = TRUE, !.retries = TRUE, !.lossy = TRUE]

\* Overlapping calls that are tried again, and a mempool that is emptied once.
Insisting == [With(OneContext, OneAccount, {}, TRUE)
                EXCEPT !.persistent = TRUE, !.evictions = 1]

MCSettings == InTurn \cup {Crossing, Insisting}

\* Calls in turn through the retry interceptor.
Resending == {[s EXCEPT !.retries = TRUE] : s \in InTurn}

=============================================================================
