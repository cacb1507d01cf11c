-------------------------- MODULE WatchWithdrawal --------------------------
(***************************************************************************)
(* watchWithdrawal() and waitForClaimable() of src/bridge/watch.ts: three  *)
(* subscriptions over two sessions, a query for the finalization period, a *)
(* timer per proposed output, and one cleanup() for all of them.  The      *)
(* sessions are taken at their word (CosmosSession): subscribe() settles,  *)
(* close() rejects the calls that still wait, and an event may be lost     *)
(* while a session is disconnected.                                        *)
(***************************************************************************)
EXTENDS Naturals

CONSTANTS
    MaxOutputs,   \* bounds the outputs proposed on L1 while the watch runs
    Settings      \* what a watch may meet with

(***************************************************************************)
(* fail       subscribe() and the gRPC query may reject                    *)
(* drop       a session may miss events                                    *)
(* timeout    the watch may last as long as its timeout                    *)
(* reentrant  the application may unsubscribe in the callback              *)
(* throws     the application's callback may throw                         *)
(* overflow   the finalization period exceeds the 2^31 - 1 ms of setTimeout*)
(***************************************************************************)
Circumstances == {"fail", "drop", "timeout", "reentrant", "throws", "overflow"}

ASSUME WatchWithdrawalAssumption ==
    /\ MaxOutputs \in Nat
    /\ Settings \subseteq SUBSET Circumstances

Outputs == 1..MaxOutputs
Subs == {"initiated", "proposed", "claimed"}
Chains == {"l1", "l2"}

VARIABLES
    setting,     \* those of this watch; never changes
    wrapped,     \* called by waitForClaimable()
    custom,      \* the application passed options.onError
    cleaned, sessions, timer,
    sub,         \* the three subscribe() calls and their handles
    period,      \* finalizationMsPromise
    output,      \* what the watch knows of each output
    outcome,     \* the promise of waitForClaimable()
    errors,      \* how often the application's onError has been called
    cover,       \* the first output that covers the withdrawal, if any does
    final        \* the finalization period of outputs 1..final has passed

modeVars == <<setting, wrapped, custom>>
resources == <<cleaned, sessions, timer, sub>>
results == <<outcome, errors>>
chainVars == <<cover, final>>
vars == <<modeVars, resources, results, period, output, chainVars>>

(***************************************************************************)
(* sent      its event is on the way to the callback; missed, it is not    *)
(* awaiting  'proposed' was emitted, the period is not known yet           *)
(* timed     'waiting' was emitted and the timer is armed                  *)
(* told      'claimable' was emitted                                       *)
(* off       dropped or cleared                                            *)
(***************************************************************************)
OutputStates == {"unproposed", "sent", "missed", "awaiting", "timed", "told", "off"}

TypeOK ==
    /\ setting \in Settings
    /\ {wrapped, custom, cleaned, timer} \subseteq BOOLEAN
    /\ sessions \subseteq Chains
    /\ sub \in [Subs -> {"asking", "held", "ended", "failed"}]
    /\ period \in {"asked", "known", "failed"}
    /\ output \in [Outputs -> OutputStates]
    /\ outcome \in {"waiting", "claimable", "error", "timeout"}
    /\ outcome # "waiting" => wrapped
    /\ errors \in Nat
    /\ cover \in 1..(MaxOutputs + 1)
    /\ final \in 0..MaxOutputs

NoTimerOfItsOwn == ~(wrapped /\ timer)
\* waitForClaimable() starts its own timer and passes `timeout: undefined` on.
TimerOfItsOwn == wrapped => timer

Init ==
    /\ setting \in Settings
    /\ wrapped \in BOOLEAN /\ custom \in BOOLEAN
    /\ cleaned = FALSE /\ sessions = Chains
    /\ timer \in BOOLEAN /\ TimerOfItsOwn
    /\ sub = [s \in Subs |-> "asking"]
    /\ period = "asked"
    /\ output = [o \in Outputs |-> "unproposed"]
    /\ outcome = "waiting" /\ errors = 0
    /\ cover \in 1..(MaxOutputs + 1) /\ final = 0

-----------------------------------------------------------------------------
\* The shared closures, each preceded by a mistake in it.
Released(subs) == [s \in Subs |-> IF subs[s] = "held" THEN "ended" ELSE subs[s]]
Cleared(outputs) == [o \in Outputs |-> IF outputs[o] = "timed" THEN "off" ELSE outputs[o]]

\* What cleanup() lets go, the timers of the outputs aside.
Release(subs) ==
    cleaned' = TRUE /\ sub' = Released(subs) /\ timer' = FALSE /\ sessions' = {}

\* cleanup(), with what the calling handler has changed before it
Cleanup(subs, outputs) ==
    \/ ~cleaned /\ Release(subs) /\ output' = Cleared(outputs)
    \/ cleaned /\ sub' = subs /\ output' = outputs /\ UNCHANGED <<cleaned, sessions, timer>>

SettleUnwrapped(result) == outcome' = result
\* settle(): the first to come decides what the promise becomes.
Settle(result) ==
    outcome' = IF wrapped /\ outcome = "waiting" THEN result ELSE outcome

ReportOnly == errors' = (IF custom THEN errors + 1 ELSE errors) /\ UNCHANGED outcome
\* handleError(): the application's onError or the console; waitForClaimable()
\* puts an onError of its own around the application's.
Report ==
    /\ errors' = IF custom THEN errors + 1 ELSE errors
    /\ Settle("error")

TerminatesByDefault == ~custom
\* Whether handleError() ends in cleanup().
Terminates == wrapped \/ ~custom

WatchesForEver == TRUE
\* `if (!cleaned)` of the timer of an output
StillWatching == ~cleaned

AfterProposalInTime == IF period = "known" THEN "awaiting" ELSE "off"
\* The callback of propose_output awaits the promise of the period.
AfterProposal == "awaiting"

KeepLate == "held"
\* .then(sub => ...) of each subscribe()
Kept == IF cleaned THEN "ended" ELSE "held"

-----------------------------------------------------------------------------
SubscribeResolves(s) ==
    /\ sub[s] = "asking"
    /\ sub' = [sub EXCEPT ![s] = Kept]
    /\ UNCHANGED <<modeVars, cleaned, sessions, timer, results, period, output, chainVars>>

\* A failed connection or confirmation; after cleanup() the closed session rejects.
SubscribeFails(s) ==
    /\ sub[s] = "asking"
    /\ "fail" \in setting \/ sessions = {}
    /\ LET subs == [sub EXCEPT ![s] = "failed"] IN
          \/ Terminates /\ Cleanup(subs, output)
          \/ ~Terminates /\ sub' = subs /\ UNCHANGED <<cleaned, sessions, timer, output>>
    /\ Report
    /\ UNCHANGED <<modeVars, period, chainVars>>

PeriodArrives ==
    /\ period = "asked"
    /\ period' = "known"
    /\ UNCHANGED <<modeVars, resources, results, output, chainVars>>

\* The rejection handler of finalizationMsPromise.
PeriodFails ==
    /\ "fail" \in setting
    /\ period = "asked"
    /\ period' = "failed"
    /\ Cleanup(sub, output)
    /\ Report
    /\ UNCHANGED <<modeVars, chainVars>>

\* The callback of the propose_output subscription: it does not ask which L2 block
\* the output covers.  An application that throws in 'proposed' is not told more of the
\* output; the session swallows the exception.
OnProposal(o) ==
    /\ output[o] = "sent"
    /\ sub["proposed"] = "held"
    /\ \/ output' = [output EXCEPT ![o] = AfterProposal]
       \/ "throws" \in setting /\ ~wrapped /\ output' = [output EXCEPT ![o] = "off"]
    /\ UNCHANGED <<modeVars, resources, results, period, chainVars>>

\* The continuation that emits 'waiting' and arms the timer of the output; the
\* application may unsubscribe while it is in the callback.
PeriodReaches(o) ==
    /\ output[o] = "awaiting"
    /\ period = "known" /\ ~cleaned
    /\ \/ /\ output' = [output EXCEPT ![o] = "timed"]
          /\ UNCHANGED resources
       \/ /\ "reentrant" \in setting /\ ~wrapped /\ ~cleaned
          /\ Release(sub)
          /\ output' = [Cleared(output) EXCEPT ![o] = "timed"]
    /\ UNCHANGED <<modeVars, results, period, chainVars>>

\* The same continuation if the application throws in 'waiting', perhaps after it has
\* unsubscribed: no timer is armed, and handleError() hears of it while the watch goes on.
WaitingThrows(o) ==
    /\ "throws" \in setting /\ ~wrapped
    /\ output[o] = "awaiting"
    /\ period = "known" /\ ~cleaned
    /\ LET outputs == [output EXCEPT ![o] = "off"] IN
          \/ "reentrant" \in setting /\ Cleanup(sub, outputs) /\ UNCHANGED results
          \/ Terminates /\ Cleanup(sub, outputs) /\ Report
          \/ ~Terminates /\ output' = outputs /\ UNCHANGED resources /\ Report
    /\ UNCHANGED <<modeVars, period, chainVars>>

PeriodReachesNobody(o) ==
    /\ output[o] = "awaiting"
    /\ cleaned /\ period # "asked"
    /\ output' = [output EXCEPT ![o] = "off"]
    /\ UNCHANGED <<modeVars, resources, results, period, chainVars>>

\* The timer of an output, started when its event came: no earlier than the end of
\* the finalization period, unless setTimeout() cannot hold that period.
ClaimTimerFires(o) ==
    /\ output[o] = "timed"
    /\ (o <= final) \/ "overflow" \in setting
    /\ \/ /\ StillWatching
          /\ LET outputs == [output EXCEPT ![o] = "told"] IN
                \/ wrapped /\ Cleanup(sub, outputs)
                \/ ~wrapped /\ output' = outputs /\ UNCHANGED resources
          /\ Settle("claimable")
       \/ /\ ~StillWatching
          /\ output' = [output EXCEPT ![o] = "off"]
          /\ UNCHANGED <<resources, outcome>>
    /\ UNCHANGED <<modeVars, errors, period, chainVars>>

\* The timer of waitForClaimable(), else the one of options.timeout.
TimerFires ==
    /\ "timeout" \in setting
    /\ timer
    /\ Cleanup(sub, output)
    /\ \/ wrapped /\ Settle("timeout") /\ UNCHANGED errors
       \/ ~wrapped /\ Report
    /\ UNCHANGED <<modeVars, period, chainVars>>

\* handle.unsubscribe(); only watchWithdrawal() gives the application a handle.
Unsubscribe ==
    /\ ~wrapped /\ ~cleaned
    /\ Cleanup(sub, output)
    /\ UNCHANGED <<modeVars, results, period, chainVars>>

-----------------------------------------------------------------------------
\* L1 (external): outputs are proposed in order, and their periods pass in order.
Propose(o) ==
    /\ output[o] = "unproposed"
    /\ \A p \in 1..(o - 1) : output[p] # "unproposed"
    /\ \/ /\ sub["proposed"] = "held"
          /\ output' = [output EXCEPT ![o] = "sent"]
       \/ /\ sub["proposed"] # "held" \/ "drop" \in setting
          /\ output' = [output EXCEPT ![o] = "missed"]
    /\ UNCHANGED <<modeVars, resources, results, period, chainVars>>

PeriodPasses ==
    /\ final < MaxOutputs
    /\ output[final + 1] # "unproposed"
    /\ final' = final + 1
    /\ UNCHANGED <<modeVars, resources, results, period, output, cover>>

Watch(o) ==
    \/ OnProposal(o) \/ PeriodReaches(o) \/ WaitingThrows(o) \/ PeriodReachesNobody(o)
    \/ ClaimTimerFires(o)

Next ==
    \/ \E s \in Subs : SubscribeResolves(s) \/ SubscribeFails(s)
    \/ PeriodArrives \/ PeriodFails \/ TimerFires \/ Unsubscribe
    \/ \E o \in Outputs : Watch(o) \/ Propose(o)
    \/ PeriodPasses

Spec == Init /\ [][Next]_vars

-----------------------------------------------------------------------------
(***************************************************************************)
(* What watchWithdrawal() and waitForClaimable() promise, and fairness.    *)
(***************************************************************************)
\* A watch that is over has released what it held, except the timer of the one
\* output in whose 'waiting' callback the application unsubscribed: that timer is
\* armed after cleanup() has run.
NothingLeftBehind ==
    cleaned =>
        /\ sessions = {} /\ ~timer
        /\ \A s \in DOMAIN sub : sub[s] # "held"
        /\ \A o, p \in Outputs : output[o] = "timed" /\ output[p] = "timed" => o = p
        /\ "reentrant" \notin setting => \A o \in Outputs : output[o] # "timed"

\* No watch goes on with part of what it needs unless the application handles
\* errors itself ("terminates the watch to avoid partial-subscription degradation"), and
\* a wait keeps the timer that ends it whatever its subscriptions do.
NoPartialWatch ==
    ~cleaned =>
        /\ period # "failed"
        /\ wrapped => timer
        /\ (\E s \in DOMAIN sub : sub[s] = "failed") => custom /\ ~wrapped

\* The promise of waitForClaimable() settles exactly when the watch ends, so
\* neither a settled wait with a running watch nor a dead watch with a waiting
\* caller is left.
SettledIsStopped == wrapped => (cleaned <=> outcome # "waiting")

\* Once the watch is over no 'waiting' or 'claimable' reaches the application, also
\* from the timer that is left, and what the promise became stays.
SilentAfterStop ==
    [][cleaned => /\ \A o \in Outputs : output'[o] \in {"timed", "told"} =>
                                            output'[o] = output[o]
                  /\ outcome' = outcome]_vars

\* "Wait for a withdrawal to become claimable on L1": when the wait resolves, the
\* finalization period of an output that covers the withdrawal has passed.  This does
\* not hold (see the README); no run has it.
ClaimableIsClaimable == outcome = "claimable" => cover <= final

-----------------------------------------------------------------------------
(***************************************************************************)
(* Fairness: the runtime fires what is due, subscribe() and the query      *)
(* settle (EveryCallSettles of CosmosSession; transports have deadlines),  *)
(* and time passes.                                                        *)
(***************************************************************************)
Fairness ==
    /\ \A s \in Subs : WF_vars(SubscribeResolves(s) \/ SubscribeFails(s))
    /\ WF_vars(PeriodArrives \/ PeriodFails)
    /\ WF_vars(TimerFires)
    /\ WF_vars(PeriodPasses)
    /\ \A o \in Outputs : WF_vars(Watch(o))

FairSpec == Spec /\ Fairness

\* Every waitForClaimable() whose timeout can pass settles.
WaitSettles == "timeout" \in setting => (wrapped ~> outcome # "waiting")

\* A proposal whose event is under way leads to 'claimable', also when the period
\* arrives after it, unless the watch ends first or the application throws.
ProposedIsTold ==
    \A o \in Outputs : output[o] = "sent" ~>
        output[o] = "told" \/ cleaned \/ ("throws" \in setting /\ output[o] = "off")

=============================================================================
