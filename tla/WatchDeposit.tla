---------------------------- MODULE WatchDeposit ----------------------------
(***************************************************************************)
(* watchDeposit() and waitForDeposit() of src/bridge/watch.ts: one         *)
(* subscription on L1 and one on L2.  The node picks transactions in which *)
(* some event matches the filter; the callback then gets every deposit     *)
(* event of the transaction, and looks at the sequence only.               *)
(***************************************************************************)
EXTENDS Naturals

CONSTANTS
    MaxDeposits,  \* bounds the deposits made on L1, which are numbered in order
    Settings      \* what a watch may meet with, as in WatchWithdrawal

Deposits == 1..MaxDeposits
Subs == {"initiated", "finalized"}
Chains == {"l1", "l2"}

VARIABLES
    setting, wrapped, custom, cleaned, sessions, timer, sub, outcome, errors,
                 \* of any watch, as in WatchWithdrawal
    sequence,    \* options.l1Sequence, or 0
    mine,        \* the deposits with options.sender and options.recipient
    batches,     \* L2 finalizes several deposits in one transaction
    initiated,   \* how many deposits were made on L1
    finalized,   \* how many of them L2 has
    inbox,       \* the transactions on the way to each callback: sets of deposits
    rest,        \* what each callback has yet to pass on of the one it is in
    told,        \* those whose event each callback has passed on
    answer       \* the one waitForDeposit() resolved with, or 0

modeVars == <<setting, wrapped, custom, sequence, mine, batches>>
resources == <<cleaned, sessions, timer, sub>>
results == <<outcome, errors, answer>>
chainVars == <<initiated, finalized>>
delivery == <<rest, told>>
vars == <<modeVars, resources, results, chainVars, inbox, delivery>>

Init ==
    /\ setting \in Settings
    /\ wrapped \in BOOLEAN /\ custom \in BOOLEAN
    /\ sequence \in 0..MaxDeposits /\ mine \in SUBSET Deposits
    /\ batches \in BOOLEAN
    /\ cleaned = FALSE /\ sessions = Chains
    /\ timer = wrapped      \* only waitForDeposit() has a timeout
    /\ sub = [s \in Subs |-> "asking"]
    /\ outcome = "waiting" /\ errors = 0 /\ answer = 0
    /\ initiated = 0 /\ finalized = 0
    /\ inbox = [s \in Subs |-> {}]
    /\ rest = [s \in Subs |-> {}] /\ told = [s \in Subs |-> {}]

-----------------------------------------------------------------------------
AnySequence(d) == TRUE
\* `attrs.l1_sequence !== String(options.l1Sequence)` in both callbacks
RightSequence(d) == sequence = 0 \/ d = sequence

\* What the node is asked for; it looks for one such event in a transaction.
Matches(d) == d \in mine /\ RightSequence(d)

Released(subs) == [s \in Subs |-> IF subs[s] = "held" THEN "ended" ELSE subs[s]]

\* cleanup()
Cleanup(subs) ==
    \/ ~cleaned /\ cleaned' = TRUE /\ sub' = Released(subs)
       /\ sessions' = {} /\ timer' = FALSE /\ inbox' = [s \in Subs |-> {}]
    \/ cleaned /\ sub' = subs /\ UNCHANGED <<cleaned, sessions, timer, inbox>>

\* settle() of waitForEvent()
Settle(result) == outcome' = IF wrapped /\ outcome = "waiting" THEN result ELSE outcome

\* handleError(), which waitForDeposit() replaces
Report ==
    /\ errors' = IF custom THEN errors + 1 ELSE errors
    /\ Settle("error")

\* .then(sub => ...)
Kept == IF cleaned THEN "ended" ELSE "held"

-----------------------------------------------------------------------------
\* No callback runs: the loop over the events of a transaction is not interrupted.
Idle == \A s \in Subs : rest[s] = {}

SubscribeResolves(s) ==
    /\ Idle
    /\ sub[s] = "asking"
    /\ sub' = [sub EXCEPT ![s] = Kept]
    /\ UNCHANGED <<modeVars, cleaned, sessions, timer, results, chainVars, inbox, delivery>>

SubscribeFails(s) ==
    /\ Idle
    /\ sub[s] = "asking"
    /\ "fail" \in setting \/ sessions = {}
    /\ LET subs == [sub EXCEPT ![s] = "failed"] IN
          \/ (wrapped \/ ~custom) /\ Cleanup(subs)
          \/ ~wrapped /\ custom /\ sub' = subs
             /\ UNCHANGED <<cleaned, sessions, timer, inbox>>
    /\ Report
    /\ UNCHANGED <<modeVars, answer, chainVars, delivery>>

\* The callbacks of the two subscriptions loop over the events of a transaction, the
\* smallest sequence first, and look at the sequence only.
OnEvents(s, batch) ==
    /\ Idle
    /\ batch \in inbox[s]
    /\ sub[s] = "held"
    /\ \A other \in inbox[s] \ {batch} : \A d \in batch, e \in other : d < e
    /\ inbox' = [inbox EXCEPT ![s] = @ \ {batch}]
    /\ rest' = [rest EXCEPT ![s] = {d \in batch : RightSequence(d)}]
    /\ UNCHANGED <<modeVars, resources, results, chainVars, told>>

\* waitForDeposit() resolves with the first 'finalized' that it hears.
Ends(s) == wrapped /\ outcome = "waiting" /\ s = "finalized"

\* One round of the loop.  It does not ask whether the watch is over: an application that
\* unsubscribes in its callback still gets the rest of the transaction, unless it throws
\* as well, which ends the loop.
PassOn(s) ==
    /\ \E d \in rest[s] :
          /\ \A e \in rest[s] : d <= e
          /\ told' = [told EXCEPT ![s] = @ \cup {d}]
          /\ \/ rest' = [rest EXCEPT ![s] = @ \ {d}]
             \/ "throws" \in setting /\ ~wrapped /\ rest' = [rest EXCEPT ![s] = {}]
          /\ \/ Ends(s) /\ Cleanup(sub) /\ Settle("finalized") /\ answer' = d
             \/ /\ "reentrant" \in setting /\ ~wrapped
                /\ Cleanup(sub) /\ UNCHANGED <<outcome, answer>>
             \/ ~Ends(s) /\ UNCHANGED <<resources, inbox, outcome, answer>>
    /\ UNCHANGED <<modeVars, errors, chainVars>>

\* The timer of waitForEvent()
TimerFires ==
    /\ Idle
    /\ "timeout" \in setting /\ timer
    /\ Cleanup(sub) /\ Settle("timeout")
    /\ UNCHANGED <<modeVars, errors, answer, chainVars, delivery>>

Unsubscribe ==
    /\ Idle
    /\ ~wrapped /\ ~cleaned
    /\ Cleanup(sub)
    /\ UNCHANGED <<modeVars, results, chainVars, delivery>>

-----------------------------------------------------------------------------
\* The chains (external): L1 takes deposits one by one, L2 finalizes them in order, and
\* a transaction reaches the watch only while it is subscribed.
Include(s, batch) ==
    LET picked == sub[s] = "held" /\ \E d \in batch : Matches(d) IN
    \/ picked /\ inbox' = [inbox EXCEPT ![s] = @ \cup {batch}]
    \/ (picked => "drop" \in setting) /\ UNCHANGED inbox

Initiate(d) ==
    /\ d = initiated + 1 /\ d \in Deposits
    /\ initiated' = d
    /\ Include("initiated", {d})
    /\ UNCHANGED <<modeVars, resources, results, finalized, delivery>>

Finalize(last) ==
    /\ last \in (finalized + 1)..initiated
    /\ batches \/ last = finalized + 1
    /\ finalized' = last
    /\ Include("finalized", (finalized + 1)..last)
    /\ UNCHANGED <<modeVars, resources, results, initiated, delivery>>

Watch ==
    \/ \E s \in Subs : SubscribeResolves(s) \/ SubscribeFails(s) \/ PassOn(s)
    \/ \E s \in Subs : \E batch \in inbox[s] : OnEvents(s, batch)
    \/ TimerFires \/ Unsubscribe

Chain == \E d \in Deposits : Initiate(d) \/ Finalize(d)

Next == Watch \/ Chain

=============================================================================
