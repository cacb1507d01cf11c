---------------------------- MODULE BridgeFlows ----------------------------
(***************************************************************************)
(* One operation of class Bridge (src/bridge/bridge.ts): a watch or a wait *)
(* alone, depositAndWait(), or withdrawAndClaim().  The last two broadcast *)
(* first and watch afterwards, by sender and not by sequence; the last one *)
(* then claims the first claimable withdrawal it finds for the recipient.  *)
(* The watch is WatchWithdrawal or WatchDeposit, whose handle, promise and *)
(* timer are the same variables.                                           *)
(***************************************************************************)
EXTENDS WatchWithdrawal, FiniteSets

CONSTANTS
    MaxDeposits,  \* bounds the deposits on L1
    Others        \* other withdrawals of the same recipient

ASSUME BridgeFlowsAssumption == MaxDeposits \in Nat /\ "own" \notin Others

Withdrawals == Others \cup {"own"}

VARIABLES
    operation,    \* the one that runs
    sequence, mine, batches, initiated, finalized, inbox, rest, told, answer,
                  \* of WatchDeposit
    flow,         \* where depositAndWait() or withdrawAndClaim() is
    covers,       \* for each other withdrawal the output that covers it, 0 for one
                  \* proposed and final before the watch
    rivals,       \* someone else has claimed for the recipient since the list was asked for
    due,          \* the withdrawals whose finalization period getWithdrawals() saw pass
    picked,       \* the withdrawal that is claimed
    payout,       \* what became of that claim
    claimed       \* the withdrawals claimed on L1

Deposit == INSTANCE WatchDeposit

depositOnly == <<sequence, mine, batches, initiated, finalized, inbox, rest, told, answer>>
withdrawalOnly == <<period, output, cover, final>>
handle == <<setting, wrapped, custom, resources, results>>
claimVars == <<covers, rivals, due, picked, payout, claimed>>
flowVars == <<operation, flow, claimVars>>
allVars == <<handle, depositOnly, withdrawalOnly, flowVars>>

Deposits == {"watchDeposit", "depositAndWait"}
Flows == {"depositAndWait", "withdrawAndClaim"}

-----------------------------------------------------------------------------
IdleWatchOfWithdrawals ==
    period = "asked" /\ output = [o \in Outputs |-> "unproposed"]
        /\ cover = MaxOutputs + 1 /\ final = 0

IdleWatchOfDeposits ==
    /\ sequence = 0 /\ mine = {} /\ batches = FALSE
    /\ initiated = 0 /\ finalized = 0 /\ answer = 0
    /\ inbox = [s \in Deposit!Subs |-> {}]
    /\ rest = [s \in Deposit!Subs |-> {}] /\ told = [s \in Deposit!Subs |-> {}]

NothingToClaim ==
    covers = [w \in Others |-> MaxOutputs + 1] /\ rivals = FALSE /\ claimed = {}

\* depositAndWait() passes sender and recipient on, withdrawAndClaim() the sender.
FlowInit ==
    /\ \/ operation = "watchWithdrawal" /\ Init /\ IdleWatchOfDeposits /\ NothingToClaim
       \/ /\ operation = "withdrawAndClaim" /\ Init /\ IdleWatchOfDeposits
          /\ wrapped /\ ~custom
          /\ covers \in [Others -> 0..(MaxOutputs + 1)] /\ rivals = FALSE
          /\ claimed \in SUBSET {w \in Others : covers[w] = 0}
       \/ /\ operation = "watchDeposit" /\ Deposit!Init
          /\ IdleWatchOfWithdrawals /\ NothingToClaim
       \/ /\ operation = "depositAndWait" /\ Deposit!Init
          /\ wrapped /\ ~custom /\ sequence = 0 /\ mine # {}
          /\ IdleWatchOfWithdrawals /\ NothingToClaim
    /\ flow = IF operation \in Flows THEN "broadcasting" ELSE "none"
    /\ due = {} /\ picked = "none" /\ payout = "none"

Watching == flow \notin {"broadcasting", "refused"}

\* The steps of either watch, once it runs.
InWithdrawal(A) ==
    operation \notin Deposits /\ Watching /\ A /\ UNCHANGED <<depositOnly, flowVars>>

InDeposit(A) ==
    operation \in Deposits /\ Watching /\ A /\ UNCHANGED <<withdrawalOnly, flowVars>>

WithdrawalWatch ==
    \/ \E s \in Subs : InWithdrawal(SubscribeResolves(s) \/ SubscribeFails(s))
    \/ InWithdrawal(PeriodArrives \/ PeriodFails \/ TimerFires \/ Unsubscribe)
    \/ \E o \in Outputs : InWithdrawal(Watch(o))

DepositWatch == InDeposit(Deposit!Watch)

\* The chains go on in the meantime.  The deposit of depositAndWait() is on L1 only
\* after its broadcast.
Own == CHOOSE d \in mine : \A e \in mine : d <= e

L1Outputs ==
    /\ operation \notin Deposits
    /\ (\E o \in Outputs : Propose(o)) \/ PeriodPasses
    /\ UNCHANGED <<depositOnly, flowVars>>

DepositChains ==
    /\ operation \in Deposits
    /\ \E d \in Deposit!Deposits :
          \/ Deposit!Finalize(d)
          \/ /\ operation = "depositAndWait" /\ d = Own => Watching
             /\ Deposit!Initiate(d)
    /\ UNCHANGED <<withdrawalOnly, flowVars>>

\* Someone else claims what is final for the recipient; nobody sees it before the list is
\* asked for.
CoverOf(w) == IF w = "own" THEN cover ELSE covers[w]

RivalClaims(w) ==
    /\ flow \in {"asking", "claiming"} \/ payout = "sent"
    /\ w \notin claimed /\ CoverOf(w) <= final
    /\ claimed' = claimed \cup {w} /\ rivals' = TRUE
    /\ UNCHANGED <<handle, depositOnly, withdrawalOnly, operation, flow, covers,
                   due, picked, payout>>

-----------------------------------------------------------------------------
GoesOn(at) ==
    /\ flow' = at
    /\ UNCHANGED <<handle, depositOnly, withdrawalOnly, operation, covers, rivals>>

\* `await options.signAndBroadcast...(...)` resolves: the mempool has the transaction, the
\* block that includes it, if one does, comes later.  No earlier output covers it.
BroadcastResolves ==
    /\ flow = "broadcasting"
    /\ \A o \in Outputs : operation = "withdrawAndClaim" /\ o >= cover => output[o] = "unproposed"
    /\ GoesOn("waiting")
    /\ UNCHANGED <<due, picked, payout, claimed>>

BroadcastRejects ==
    /\ flow = "broadcasting"
    /\ GoesOn("refused")
    /\ UNCHANGED <<due, picked, payout, claimed>>

\* The wait ends, and depositAndWait() with it.
WaitReturns ==
    /\ flow = "waiting" /\ outcome # "waiting" /\ Deposit!Idle
    /\ GoesOn(CASE outcome \in {"error", "timeout"} -> "rejected"
                [] outcome = "finalized" -> "resolved"
                [] outcome = "claimable" -> "listing")
    /\ UNCHANGED <<due, picked, payout, claimed>>

\* getWithdrawals(): the list of the executor, which may not know the latest ones, and
\* the outputs L1 has.
OutputsAnswered ==
    /\ flow = "listing"
    /\ GoesOn("asking")
    /\ \E known \in SUBSET Withdrawals :
          /\ "drop" \notin setting => known = Withdrawals
          /\ due' = {w \in known : CoverOf(w) <= final}
    /\ UNCHANGED <<picked, payout, claimed>>

ClaimedNotAsked == due
\* Those whose period has passed which of them were claimed: `w.status.status === 'claimable'`
Claimable == due \ claimed

\* `withdrawals.find(...)`: the first claimable one in the order of the executor.
ClaimedAnswered ==
    /\ flow = "asking"
    /\ \/ \E w \in Claimable : picked' = w /\ GoesOn("claiming")
       \/ Claimable = {} /\ GoesOn("rejected") /\ UNCHANGED picked
    /\ UNCHANGED <<due, payout, claimed>>

\* One of the queries is rejected.
ListingFails ==
    /\ flow \in {"listing", "asking"} /\ "fail" \in setting
    /\ GoesOn("rejected")
    /\ UNCHANGED <<due, picked, payout, claimed>>

\* signAndBroadcastL1(): what was claimed in the meantime may come to light now.
ClaimResolves ==
    /\ flow = "claiming"
    /\ GoesOn("resolved")
    /\ payout' = "sent"
    /\ UNCHANGED <<due, picked, claimed>>

ClaimRejects ==
    /\ flow = "claiming"
    /\ picked \in claimed \/ "fail" \in setting
    /\ GoesOn("rejected")
    /\ UNCHANGED <<due, picked, payout, claimed>>

\* L1 (external) pays a withdrawal once, after its period.
ClaimExecutes ==
    /\ payout = "sent"
    /\ payout' = IF picked \notin claimed /\ CoverOf(picked) <= final THEN "paid" ELSE "refused"
    /\ claimed' = claimed \cup {picked}
    /\ UNCHANGED <<handle, depositOnly, withdrawalOnly, operation, flow, covers, rivals,
                   due, picked>>

FlowStep ==
    \/ BroadcastResolves \/ BroadcastRejects \/ WaitReturns
    \/ OutputsAnswered \/ ClaimedAnswered \/ ListingFails
    \/ ClaimResolves \/ ClaimRejects \/ ClaimExecutes

FlowNext ==
    \/ WithdrawalWatch \/ DepositWatch \/ L1Outputs \/ DepositChains
    \/ \E w \in Withdrawals : RivalClaims(w)
    \/ FlowStep

FlowSpec == FlowInit /\ [][FlowNext]_allVars

-----------------------------------------------------------------------------
(***************************************************************************)
(* Fairness: the runtime fires what is due, subscribe() and the queries    *)
(* settle, broadcasts settle, L1 executes what its mempool has, and time   *)
(* passes.                                                                 *)
(***************************************************************************)
FlowFairness ==
    /\ \A s \in Subs : WF_allVars(InWithdrawal(SubscribeResolves(s) \/ SubscribeFails(s)))
    /\ WF_allVars(InWithdrawal(PeriodArrives \/ PeriodFails))
    /\ WF_allVars(InWithdrawal(TimerFires))
    /\ \A o \in Outputs : WF_allVars(InWithdrawal(Watch(o)))
    /\ WF_allVars(L1Outputs /\ PeriodPasses)
    /\ \A s \in Deposit!Subs :
          /\ WF_allVars(InDeposit(Deposit!SubscribeResolves(s) \/ Deposit!SubscribeFails(s)))
          /\ WF_allVars(InDeposit(\E batch \in inbox[s] : Deposit!OnEvents(s, batch)))
          /\ WF_allVars(InDeposit(Deposit!PassOn(s)))
    /\ WF_allVars(InDeposit(Deposit!TimerFires))
    /\ WF_allVars(FlowStep)

FairFlowSpec == FlowSpec /\ FlowFairness

\* A watch that is over holds nothing and is silent: neither its outcome nor what the
\* application was told changes any more, in whichever operation it runs.  Only an
\* application that stops a watch of deposits within its callback, or a wait that has
\* settled, still gets the rest of that one transaction; no other is begun.
StoppedIsSilent ==
    /\ []NothingLeftBehind
    /\ SilentAfterStop
    /\ [](cleaned /\ ~Deposit!Idle => wrapped \/ "reentrant" \in setting)
    /\ [][cleaned => /\ answer' = answer
                     /\ \A s \in Deposit!Subs : /\ rest'[s] \subseteq rest[s]
                                               /\ told'[s] \subseteq told[s] \cup rest[s]]_allVars

\* A watch either has all it needs or ends, and the promise of a wait settles exactly
\* when its watch ends.
EndsAsAWhole == NoPartialWatch /\ SettledIsStopped

\* What the wait or the flow resolves with is what was asked for, as far as the code can
\* tell: a final deposit of that sequence, and of those senders and recipients if L2
\* finalizes deposits one at a time; a withdrawal whose period has passed, which L1
\* refuses only to a caller who has a rival, and which is the caller's own if the
\* recipient has no other.
ResultIsDue ==
    /\ outcome = "finalized" =>
          /\ answer \in 1..finalized
          /\ sequence # 0 => answer = sequence
          /\ batches \/ answer \in mine
    /\ picked # "none" =>
          /\ CoverOf(picked) <= final
          /\ (\A w \in Others : covers[w] > MaxOutputs) => picked = "own"
    /\ payout = "refused" => rivals

\* "Withdraw L2 -> L1, wait for finalization, and auto-claim on L1": what is claimed is
\* the withdrawal the flow has made.  This does not hold (see the README); no run has it.
ClaimsItsOwn == picked # "none" => picked = "own"

\* What a wait stands on: a final deposit that is asked for, as far as the code can tell;
\* an output whose period has passed, or seems to if setTimeout() cannot hold it.
DepositIsThere ==
    \E d \in 1..finalized : (sequence # 0 => d = sequence) /\ (batches \/ d \in mine)
PeriodIsOver == final > 0 \/ "overflow" \in setting

WaitPromise == INSTANCE Wait WITH
    onChain <- IF operation \in Deposits THEN DepositIsThere ELSE PeriodIsOver,
    outcome <- CASE outcome \in {"finalized", "claimable"} -> "found"
                 [] outcome \in {"error", "timeout"} -> "timeout"
                 [] OTHER -> "waiting"

\* What a flow stands on: the same deposit, or a withdrawal that can be claimed.
FlowPromise == INSTANCE Wait WITH
    onChain <- IF operation \in Deposits THEN DepositIsThere
               ELSE \E w \in Withdrawals : CoverOf(w) <= final,
    outcome <- CASE flow = "resolved" -> "found"
                 [] flow \in {"refused", "rejected"} -> "timeout"
                 [] OTHER -> "waiting"

\* waitForDeposit() and waitForClaimable() are waits like those for transactions and
\* events, and so is each flow built on them: it settles once, resolves only when what
\* it waited for is there, and otherwise rejects.
ImplementsWaits == WaitPromise!Spec /\ FlowPromise!Spec

\* An event under way is told, in either watch, unless the watch ends first; and what
\* is told last lets the flow go on to its end and its claim to a decision.
EventIsTold ==
    /\ ProposedIsTold
    /\ (operation \in Deposits /\ outcome = "waiting" /\ \E s \in Deposit!Subs : inbox[s] # {})
          ~> cleaned \/ (Deposit!Idle /\ \A s \in Deposit!Subs : inbox[s] = {})
    /\ picked # "none" ~> flow = "rejected" \/ payout \in {"paid", "refused"}

\* Every wait and every flow whose timeout can pass ends, however its subscriptions,
\* queries and broadcasts do.
EveryFlowEnds ==
    "timeout" \in setting =>
        /\ (wrapped /\ flow = "none") ~> outcome # "waiting"
        /\ operation \in Flows ~> flow \in {"refused", "resolved", "rejected"}

=============================================================================
