--------------------------- MODULE MCWaitForEvent ---------------------------
(* A small instance of WaitForEvent for TLC. *)
EXTENDS WaitForEvent

CONSTANTS t1, t2, t3

MCTxs == {t1, t2, t3}

\* The first match of an exact query without faults; two of three matches of an exact
\* query, and two results of a query that selects more than what matches, under every
\* fault, each from the first and from the second block on.
MCSettings ==
    {[queried |-> {t1, t2}, matching |-> {t1, t2}, fromHeight |-> 1, maxResults |-> 1,
      faults |-> {}]}
        \cup [queried : {MCTxs}, matching : {MCTxs}, fromHeight : {1, 2}, maxResults : {2},
              faults : {{"timeout"}}]
        \cup [queried : {MCTxs}, matching : {{t1, t2}}, fromHeight : {1, 2},
              maxResults : {2}, faults : {Faults}]

=============================================================================
