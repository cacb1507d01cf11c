------------------------- MODULE BridgeFlowsProofs --------------------------
(***************************************************************************)
(* Proofs about watches, waits and flows of the bridge, for any number of  *)
(* outputs and deposits, any other withdrawals and any behaviour of the    *)
(* sessions, the executor and the application.                             *)
(***************************************************************************)
EXTENDS BridgeFlows, TLAPS

SubStates == {"asking", "held", "ended", "failed"}

\* What the handle, the promise and the timers of either watch are.
WatchTyped ==
    /\ operation \in {"watchWithdrawal", "withdrawAndClaim", "watchDeposit", "depositAndWait"}
    /\ wrapped \in BOOLEAN /\ custom \in BOOLEAN /\ cleaned \in BOOLEAN /\ timer \in BOOLEAN
    /\ operation \in Deposits =>
          /\ sub \in [Deposit!Subs -> SubStates]
          /\ outcome \in {"waiting", "finalized", "error", "timeout"}
          /\ period = "asked" /\ output = [o \in Outputs |-> "unproposed"]
    /\ operation \notin Deposits =>
          /\ sub \in [Subs -> SubStates]
          /\ outcome \in {"waiting", "claimable", "error", "timeout"}
          /\ period \in {"asked", "known", "failed"} /\ output \in [Outputs -> OutputStates]

WatchInv == WatchTyped /\ EndsAsAWhole /\ NothingLeftBehind

\* What is on the way to the callback of a deposit watch is on L2, and of the right
\* sender and recipient if it comes alone; a watch that is over gets nothing but the rest
\* of a transaction in whose callback it was stopped.
AnswerIsDue ==
    outcome = "finalized" =>
        /\ answer \in 1..finalized
        /\ sequence # 0 => answer = sequence
        /\ batches \/ answer \in mine

DepositInv ==
    /\ operation \notin Deposits => Deposit!Idle
    /\ operation \in Deposits =>
        /\ finalized \in Nat /\ initiated \in Nat
        /\ inbox \in [Deposit!Subs -> SUBSET SUBSET Nat]
        /\ \A batch \in inbox["finalized"] :
              batch \subseteq 1..finalized /\ (batches \/ batch \subseteq mine)
        /\ rest \in [Deposit!Subs -> SUBSET Nat]
        /\ \A d \in rest["finalized"] :
              /\ d \in 1..finalized
              /\ sequence # 0 => d = sequence
              /\ batches \/ d \in mine
        /\ cleaned => \A s \in Deposit!Subs : inbox[s] = {}
        /\ cleaned /\ ~Deposit!Idle => wrapped \/ "reentrant" \in setting
        /\ AnswerIsDue

\* What is claimed is among what was found due, and not claimed yet unless by a rival.
ClaimInv ==
    /\ cover \in 1..(MaxOutputs + 1) /\ covers \in [Others -> 0..(MaxOutputs + 1)]
    /\ final \in 0..MaxOutputs
    /\ due \subseteq Withdrawals /\ \A w \in due : CoverOf(w) <= final
    /\ picked # "none" => picked \in due /\ flow \in {"claiming", "resolved", "rejected"}
    /\ flow = "claiming" \/ payout = "sent" =>
          picked \in due /\ (picked \in claimed => rivals)
    /\ payout # "none" => flow = "resolved"
    /\ payout = "refused" => rivals
    /\ flow \in {"listing", "asking", "claiming"} => operation \notin Deposits

FlowInv == WatchInv /\ DepositInv /\ ClaimInv

-----------------------------------------------------------------------------
LEMMA WatchKept ==
    ASSUME WatchInv, UNCHANGED <<handle, operation, period, output>>
    PROVE  WatchInv'
BY DEF WatchInv, WatchTyped, EndsAsAWhole, NoPartialWatch, SettledIsStopped, NothingLeftBehind,
       handle, resources, results

LEMMA DepositKept ==
    ASSUME DepositInv, UNCHANGED <<handle, operation, depositOnly>>
    PROVE  DepositInv'
BY DEF DepositInv, AnswerIsDue, Deposit!Idle, handle, resources, results, depositOnly

LEMMA ClaimKept ==
    ASSUME ClaimInv, UNCHANGED <<flowVars, cover, final>>
    PROVE  ClaimInv'
BY DEF ClaimInv, CoverOf, flowVars, claimVars

LEMMA FlowBegins == FlowInit => FlowInv
<1>. SUFFICES ASSUME FlowInit PROVE FlowInv
  OBVIOUS
<1>1. /\ operation \in {"watchWithdrawal", "withdrawAndClaim", "watchDeposit", "depositAndWait"}
      /\ wrapped \in BOOLEAN /\ custom \in BOOLEAN /\ cleaned = FALSE /\ timer \in BOOLEAN
      /\ outcome = "waiting" /\ output = [o \in Outputs |-> "unproposed"]
      /\ wrapped => timer
      /\ period = "asked" /\ due = {} /\ picked = "none" /\ payout = "none"
      /\ operation \in Deposits => sub = [s \in Deposit!Subs |-> "asking"]
      /\ operation \notin Deposits => sub = [s \in Subs |-> "asking"]
  BY DEF FlowInit, Init, Deposit!Init, IdleWatchOfWithdrawals, TimerOfItsOwn,
     Deposits
<1>2. WatchInv
  <2>1. \A s \in DOMAIN sub : sub[s] = "asking"
    BY <1>1
  <2>2. output \in [Outputs -> OutputStates]
    BY <1>1 DEF OutputStates
  <2>. QED  BY <1>1, <2>1, <2>2 DEF WatchInv, WatchTyped, EndsAsAWhole, NoPartialWatch,
              SettledIsStopped, NothingLeftBehind, SubStates
<1>3. DepositInv
  <2>1. operation \in Deposits => /\ finalized = 0 /\ initiated = 0
                                 /\ inbox = [s \in Deposit!Subs |-> {}]
                                 /\ rest = [s \in Deposit!Subs |-> {}]
    BY DEF FlowInit, Deposit!Init, Deposits
  <2>2. Deposit!Idle
    BY DEF FlowInit, Deposit!Init, IdleWatchOfDeposits, Deposit!Idle
  <2>. QED  BY <1>1, <2>1, <2>2 DEF DepositInv, AnswerIsDue, Deposit!Subs
<1>4. /\ cover \in 1..(MaxOutputs + 1) /\ covers \in [Others -> 0..(MaxOutputs + 1)]
      /\ final \in 0..MaxOutputs
  BY WatchWithdrawalAssumption DEF FlowInit, Init, IdleWatchOfWithdrawals, NothingToClaim
<1>5. flow \notin {"listing", "asking", "claiming"}
  BY DEF FlowInit
<1>. QED  BY <1>1, <1>2, <1>3, <1>4, <1>5 DEF FlowInv, ClaimInv

-----------------------------------------------------------------------------
\* What cleanup() of a withdrawal watch leaves, with what its caller has changed before.
LEMMA CleanupIsWhole ==
    ASSUME WatchInv, operation \notin Deposits, UNCHANGED <<setting, operation>>,
           NEW subs \in [Subs -> SubStates], NEW outputs \in [Outputs -> OutputStates],
           cleaned => /\ \A s \in Subs : subs[s] = "held" => sub[s] = "held"
                      /\ \A o \in Outputs : outputs[o] = "timed" => output[o] = "timed",
           Cleanup(subs, outputs)
    PROVE  /\ cleaned' = TRUE /\ timer' \in BOOLEAN
           /\ sub' \in [Subs -> SubStates] /\ output' \in [Outputs -> OutputStates]
           /\ NothingLeftBehind'
<1>1. CASE cleaned
  BY <1>1 DEF Cleanup, WatchInv, WatchTyped, NothingLeftBehind, Subs
<1>2. CASE ~cleaned
  <2>1. Release(subs) /\ output' = Cleared(outputs)
    BY <1>2 DEF Cleanup
  <2>2. sub' \in [Subs -> SubStates] /\ \A s \in Subs : sub'[s] # "held"
    BY <2>1 DEF Release, Released, SubStates
  <2>3. output' \in [Outputs -> OutputStates] /\ \A o \in Outputs : output'[o] # "timed"
    BY <2>1 DEF Cleared, OutputStates
  <2>. QED  BY <2>1, <2>2, <2>3 DEF Release, NothingLeftBehind
<1>. QED  BY <1>1, <1>2

\* The steps of a withdrawal watch.
WithdrawalStep ==
    \/ \E s \in Subs : SubscribeResolves(s) \/ SubscribeFails(s)
    \/ PeriodArrives \/ PeriodFails \/ TimerFires \/ Unsubscribe
    \/ \E o \in Outputs : Watch(o) \/ Propose(o)
    \/ PeriodPasses

LEMMA WithdrawalKeeps ==
    ASSUME WatchInv, operation \notin Deposits, UNCHANGED operation, WithdrawalStep
    PROVE  WatchInv'
<1>t. /\ wrapped \in BOOLEAN /\ custom \in BOOLEAN /\ cleaned \in BOOLEAN /\ timer \in BOOLEAN
      /\ sub \in [Subs -> SubStates] /\ output \in [Outputs -> OutputStates]
      /\ outcome \in {"waiting", "claimable", "error", "timeout"}
      /\ period \in {"asked", "known", "failed"}
      /\ operation \in {"watchWithdrawal", "withdrawAndClaim", "watchDeposit", "depositAndWait"}
  BY DEF WatchInv, WatchTyped
<1>w. NoPartialWatch /\ SettledIsStopped /\ NothingLeftBehind
  BY DEF WatchInv, EndsAsAWhole
<1>m. UNCHANGED <<setting, wrapped, custom>>
  BY DEF WithdrawalStep, SubscribeResolves, SubscribeFails, PeriodArrives, PeriodFails, TimerFires,
         Unsubscribe, Watch, OnProposal, PeriodReaches, WaitingThrows, PeriodReachesNobody,
         ClaimTimerFires, Propose, PeriodPasses, modeVars
\* It is enough to look at what a step changes.
<1>q. ASSUME cleaned' \in BOOLEAN, timer' \in BOOLEAN, sub' \in [Subs -> SubStates],
             output' \in [Outputs -> OutputStates],
             outcome' \in {"waiting", "claimable", "error", "timeout"},
             period' \in {"asked", "known", "failed"},
             NoPartialWatch', SettledIsStopped', NothingLeftBehind'
      PROVE  WatchInv'
  BY <1>q, <1>t, <1>m DEF WatchInv, WatchTyped, EndsAsAWhole
\* A step that ends the watch settles its promise.
<1>e. ASSUME NEW subs \in [Subs -> SubStates], NEW outputs \in [Outputs -> OutputStates],
             cleaned => /\ \A s \in Subs : subs[s] = "held" => sub[s] = "held"
                        /\ \A o \in Outputs : outputs[o] = "timed" => output[o] = "timed",
             Cleanup(subs, outputs), period' \in {"asked", "known", "failed"},
             outcome' \in {"waiting", "claimable", "error", "timeout"},
             wrapped => outcome' # "waiting"
      PROVE  WatchInv'
  <2>1. /\ cleaned' = TRUE /\ timer' \in BOOLEAN
        /\ sub' \in [Subs -> SubStates] /\ output' \in [Outputs -> OutputStates]
        /\ NothingLeftBehind'
    BY <1>e, <1>m, CleanupIsWhole
  <2>2. NoPartialWatch' /\ SettledIsStopped'
    BY <1>e, <1>m, <2>1 DEF NoPartialWatch, SettledIsStopped
  <2>. QED  BY <1>e, <1>q, <2>1, <2>2
<1>s. \A result \in {"claimable", "error", "timeout"} : Settle(result) =>
          /\ outcome' \in {"waiting", "claimable", "error", "timeout"}
          /\ wrapped => outcome' # "waiting"
          /\ cleaned \/ ~wrapped => outcome' = outcome
  BY <1>t, <1>w DEF Settle, SettledIsStopped
<1>1. ASSUME NEW s \in Subs, SubscribeResolves(s) PROVE WatchInv'
  <2>1. /\ sub' \in [Subs -> SubStates]
        /\ \A r \in Subs : sub'[r] = IF r = s THEN Kept ELSE sub[r]
        /\ Kept = IF cleaned THEN "ended" ELSE "held"
    BY <1>1, <1>t DEF SubscribeResolves, Kept, SubStates
  <2>2. DOMAIN sub' = Subs /\ DOMAIN sub = Subs
    BY <2>1, <1>t
  <2>3. UNCHANGED <<cleaned, sessions, timer, outcome, period, output>>
    BY <1>1 DEF SubscribeResolves, results
  <2>. QED  BY <1>q, <1>m, <1>t, <1>w, <2>1, <2>2, <2>3
              DEF NoPartialWatch, SettledIsStopped, NothingLeftBehind
<1>2. ASSUME NEW s \in Subs, SubscribeFails(s) PROVE WatchInv'
  <2>. DEFINE subs == [sub EXCEPT ![s] = "failed"]
  <2>1. subs \in [Subs -> SubStates] /\ \A r \in Subs : subs[r] = "held" => sub[r] = "held"
    BY <1>t DEF SubStates
  <2>2. period' = period /\ Settle("error")
    BY <1>2 DEF SubscribeFails, Report
  <2>3. CASE Terminates /\ Cleanup(subs, output)
    BY <1>e, <1>s, <1>t, <2>1, <2>2, <2>3
  <2>4. CASE ~Terminates /\ sub' = subs /\ UNCHANGED <<cleaned, sessions, timer, output>>
    <3>1. ~wrapped /\ custom /\ outcome' = outcome
      BY <1>s, <1>t, <2>2, <2>4 DEF Terminates
    <3>2. DOMAIN sub' = Subs /\ DOMAIN sub = Subs
      BY <1>t, <2>1, <2>4
    <3>. QED  BY <1>q, <1>m, <1>t, <1>w, <2>1, <2>2, <2>4, <3>1, <3>2
                DEF NoPartialWatch, SettledIsStopped, NothingLeftBehind
  <2>. QED  BY <1>2, <2>3, <2>4 DEF SubscribeFails
<1>3. CASE PeriodArrives
  BY <1>3, <1>q, <1>m, <1>t, <1>w DEF PeriodArrives, resources, results, NoPartialWatch,
     SettledIsStopped, NothingLeftBehind
<1>4. CASE PeriodFails
  BY <1>4, <1>e, <1>s, <1>t DEF PeriodFails, Report
<1>5. CASE TimerFires
  <2>1. wrapped => Settle("timeout")
    BY <1>5 DEF TimerFires
  <2>2. ~wrapped => Settle("error")
    BY <1>5 DEF TimerFires, Report
  <2>3. Cleanup(sub, output) /\ period' = period
    BY <1>5 DEF TimerFires
  <2>. QED  BY <1>e, <1>s, <1>t, <2>1, <2>2, <2>3
<1>6. CASE Unsubscribe
  BY <1>6, <1>e, <1>t DEF Unsubscribe, results
<1>7. ASSUME UNCHANGED <<cleaned, sessions, timer, sub, outcome, period>>,
             NEW o \in Outputs, NEW state \in OutputStates \ {"timed"},
             output' = [output EXCEPT ![o] = state]
      PROVE  WatchInv'
  <2>1. /\ output' \in [Outputs -> OutputStates]
        /\ \A p \in Outputs : output'[p] = "timed" => output[p] = "timed"
    BY <1>7, <1>t
  <2>. QED  BY <1>7, <1>q, <1>m, <1>t, <1>w, <2>1
              DEF NoPartialWatch, SettledIsStopped, NothingLeftBehind
<1>8. ASSUME NEW o \in Outputs, OnProposal(o) \/ PeriodReachesNobody(o) \/ Propose(o)
      PROVE  WatchInv'
  <2>1. \E state \in OutputStates \ {"timed"} : output' = [output EXCEPT ![o] = state]
    BY <1>8 DEF OnProposal, PeriodReachesNobody, Propose, AfterProposal, OutputStates
  <2>2. UNCHANGED <<cleaned, sessions, timer, sub, outcome, period>>
    BY <1>8 DEF OnProposal, PeriodReachesNobody, Propose, resources, results
  <2>. QED  BY <1>7, <2>1, <2>2
<1>9. ASSUME NEW o \in Outputs, PeriodReaches(o) PROVE WatchInv'
  <2>1. ~cleaned /\ outcome' = outcome /\ period' = period
    BY <1>9 DEF PeriodReaches, results
  <2>2. CASE output' = [output EXCEPT ![o] = "timed"] /\ UNCHANGED resources
    <3>1. output' \in [Outputs -> OutputStates]
      BY <1>t, <2>2 DEF OutputStates
    <3>. QED  BY <1>q, <1>m, <1>t, <1>w, <2>1, <2>2, <3>1
                DEF resources, NoPartialWatch, SettledIsStopped, NothingLeftBehind
  <2>3. CASE /\ "reentrant" \in setting /\ ~wrapped /\ Release(sub)
             /\ output' = [Cleared(output) EXCEPT ![o] = "timed"]
    <3>1. Cleared(output) \in [Outputs -> OutputStates]
          /\ \A p \in Outputs : Cleared(output)[p] # "timed"
      BY <1>t DEF Cleared, OutputStates
    <3>2. output' \in [Outputs -> OutputStates]
          /\ \A p \in Outputs : output'[p] = "timed" => p = o
      <4>. HIDE DEF Cleared
      <4>. QED  BY <2>3, <3>1 DEF OutputStates
    <3>3. sub' \in [Subs -> SubStates] /\ \A s \in Subs : sub'[s] # "held"
      BY <1>t, <2>3 DEF Release, Released, SubStates
    <3>4. cleaned' = TRUE /\ timer' = FALSE /\ sessions' = {}
      BY <2>3 DEF Release
    <3>5. NothingLeftBehind'
      BY <1>m, <2>3, <3>2, <3>3, <3>4 DEF NothingLeftBehind
    <3>. QED  BY <1>q, <1>m, <1>t, <2>1, <2>3, <3>2, <3>3, <3>4, <3>5
                DEF NoPartialWatch, SettledIsStopped
  <2>. QED  BY <1>9, <2>2, <2>3 DEF PeriodReaches
<1>10. ASSUME NEW o \in Outputs, ClaimTimerFires(o) PROVE WatchInv'
  <2>. DEFINE outputs == [output EXCEPT ![o] = "told"]
  <2>1. outputs \in [Outputs -> OutputStates]
        /\ \A p \in Outputs : outputs[p] = "timed" => output[p] = "timed"
    BY <1>t DEF OutputStates
  <2>2. period' = period
    BY <1>10 DEF ClaimTimerFires
  <2>3. CASE cleaned
    BY <1>7, <1>10, <2>2, <2>3 DEF ClaimTimerFires, StillWatching, resources, OutputStates
  <2>4. CASE ~cleaned /\ wrapped
    BY <1>10, <1>e, <1>s, <1>t, <2>1, <2>2, <2>4 DEF ClaimTimerFires, StillWatching
  <2>5. CASE ~cleaned /\ ~wrapped
    <3>1. output' = outputs /\ UNCHANGED <<cleaned, sessions, timer, sub, outcome, period>>
      BY <1>10, <1>s, <2>5 DEF ClaimTimerFires, StillWatching, resources
    <3>. QED  BY <1>7, <3>1 DEF OutputStates
  <2>. QED  BY <1>t, <2>3, <2>4, <2>5
<1>11. CASE PeriodPasses
  BY <1>11, <1>q, <1>m, <1>t, <1>w DEF PeriodPasses, resources, results, NoPartialWatch,
     SettledIsStopped, NothingLeftBehind
<1>12. ASSUME NEW o \in Outputs, WaitingThrows(o) PROVE WatchInv'
  <2>. DEFINE outputs == [output EXCEPT ![o] = "off"]
  <2>1. outputs \in [Outputs -> OutputStates]
        /\ \A p \in Outputs : outputs[p] = "timed" => output[p] = "timed"
    BY <1>t DEF OutputStates
  <2>2. /\ ~wrapped /\ ~cleaned /\ period' = period
        /\ outcome' = outcome
    BY <1>12, <1>s DEF WaitingThrows, Report, results
  <2>3. CASE Cleanup(sub, outputs)
    BY <1>e, <1>t, <2>1, <2>2, <2>3
  <2>4. CASE output' = outputs /\ UNCHANGED resources
    BY <1>7, <2>2, <2>4 DEF resources, OutputStates
  <2>. QED  BY <1>12, <2>3, <2>4 DEF WaitingThrows
<1>. QED
  BY <1>1, <1>2, <1>3, <1>4, <1>5, <1>6, <1>8, <1>9, <1>10, <1>11, <1>12
     DEF WithdrawalStep, Watch

-----------------------------------------------------------------------------
\* The steps of a deposit watch.
DepositStep == Deposit!Watch \/ \E d \in Deposit!Deposits : Deposit!Initiate(d) \/ Deposit!Finalize(d)

\* What cleanup() of a deposit watch leaves.
LEMMA DepositCleanupIsWhole ==
    ASSUME WatchInv, DepositInv, operation \in Deposits,
           NEW subs \in [Deposit!Subs -> SubStates],
           cleaned => \A s \in Deposit!Subs : subs[s] = "held" => sub[s] = "held",
           Deposit!Cleanup(subs)
    PROVE  /\ cleaned' = TRUE /\ timer' = FALSE /\ sessions' = {}
           /\ sub' \in [Deposit!Subs -> SubStates]
           /\ \A s \in Deposit!Subs : sub'[s] # "held"
           /\ inbox' \in [Deposit!Subs -> SUBSET SUBSET Nat]
           /\ \A s \in Deposit!Subs : inbox'[s] = {}
<1>1. CASE cleaned
  BY <1>1 DEF Deposit!Cleanup, WatchInv, WatchTyped, NothingLeftBehind, DepositInv
<1>2. CASE ~cleaned
  <2>1. /\ cleaned' = TRUE /\ sub' = Deposit!Released(subs)
        /\ sessions' = {} /\ timer' = FALSE /\ inbox' = [s \in Deposit!Subs |-> {}]
    BY <1>2 DEF Deposit!Cleanup
  <2>2. sub' \in [Deposit!Subs -> SubStates] /\ \A s \in Deposit!Subs : sub'[s] # "held"
    BY <2>1 DEF Deposit!Released, SubStates
  <2>. QED  BY <2>1, <2>2
<1>. QED  BY <1>1, <1>2

LEMMA DepositKeeps ==
    ASSUME WatchInv, DepositInv, operation \in Deposits,
           UNCHANGED <<operation, period, output>>, DepositStep
    PROVE  WatchInv' /\ DepositInv'
<1>t. /\ wrapped \in BOOLEAN /\ custom \in BOOLEAN /\ cleaned \in BOOLEAN /\ timer \in BOOLEAN
      /\ sub \in [Deposit!Subs -> SubStates]
      /\ outcome \in {"waiting", "finalized", "error", "timeout"}
      /\ period = "asked" /\ output = [o \in Outputs |-> "unproposed"]
      /\ operation \in {"watchWithdrawal", "withdrawAndClaim", "watchDeposit", "depositAndWait"}
  BY DEF WatchInv, WatchTyped
<1>d. /\ finalized \in Nat /\ initiated \in Nat
      /\ inbox \in [Deposit!Subs -> SUBSET SUBSET Nat]
      /\ \A batch \in inbox["finalized"] :
            batch \subseteq 1..finalized /\ (batches \/ batch \subseteq mine)
      /\ rest \in [Deposit!Subs -> SUBSET Nat]
      /\ \A d \in rest["finalized"] :
            /\ d \in 1..finalized
            /\ sequence # 0 => d = sequence
            /\ batches \/ d \in mine
      /\ cleaned => \A s \in Deposit!Subs : inbox[s] = {}
      /\ cleaned /\ ~Deposit!Idle => wrapped \/ "reentrant" \in setting
      /\ AnswerIsDue
  BY DEF DepositInv
<1>w. NoPartialWatch /\ SettledIsStopped /\ NothingLeftBehind
  BY DEF WatchInv, EndsAsAWhole
<1>m. UNCHANGED <<setting, wrapped, custom, sequence, mine, batches>>
  BY DEF DepositStep, Deposit!Watch, Deposit!SubscribeResolves, Deposit!SubscribeFails,
         Deposit!OnEvents, Deposit!PassOn, Deposit!TimerFires, Deposit!Unsubscribe,
         Deposit!Initiate, Deposit!Finalize, Deposit!modeVars
<1>o. \A o \in Outputs : output'[o] # "timed"
  BY <1>t
\* It is enough to look at what a step changes.
<1>q. ASSUME cleaned' \in BOOLEAN, timer' \in BOOLEAN, sub' \in [Deposit!Subs -> SubStates],
             outcome' \in {"waiting", "finalized", "error", "timeout"},
             cleaned' => sessions' = {} /\ ~timer' /\ \A s \in Deposit!Subs : sub'[s] # "held",
             ~cleaned' /\ (\E s \in Deposit!Subs : sub'[s] = "failed") => custom /\ ~wrapped,
             ~cleaned' /\ wrapped => timer',
             wrapped => (cleaned' <=> outcome' # "waiting")
      PROVE  WatchInv'
  <2>1. DOMAIN sub' = Deposit!Subs /\ period' = "asked"
    BY <1>q, <1>t
  <2>2. NoPartialWatch' /\ SettledIsStopped' /\ NothingLeftBehind'
    BY <1>q, <1>m, <1>o, <2>1 DEF NoPartialWatch, SettledIsStopped, NothingLeftBehind
  <2>3. WatchTyped'
    BY <1>q, <1>t, <1>m DEF WatchTyped
  <2>. QED  BY <2>2, <2>3 DEF WatchInv, EndsAsAWhole
\* A step that ends the watch settles its promise.
<1>e. ASSUME NEW subs \in [Deposit!Subs -> SubStates],
             cleaned => \A s \in Deposit!Subs : subs[s] = "held" => sub[s] = "held",
             Deposit!Cleanup(subs), UNCHANGED <<finalized, initiated>>,
             outcome' \in {"waiting", "finalized", "error", "timeout"},
             wrapped => outcome' # "waiting", AnswerIsDue',
             rest' \in [Deposit!Subs -> SUBSET Nat],
             \A d \in rest'["finalized"] :
                /\ d \in 1..finalized'
                /\ sequence' # 0 => d = sequence'
                /\ batches' \/ d \in mine',
             cleaned' /\ ~Deposit!Idle' => wrapped' \/ "reentrant" \in setting'
      PROVE  WatchInv' /\ DepositInv'
  <2>1. /\ cleaned' = TRUE /\ timer' = FALSE /\ sessions' = {}
        /\ sub' \in [Deposit!Subs -> SubStates]
        /\ \A s \in Deposit!Subs : sub'[s] # "held"
        /\ inbox' \in [Deposit!Subs -> SUBSET SUBSET Nat]
        /\ \A s \in Deposit!Subs : inbox'[s] = {}
    BY <1>e, DepositCleanupIsWhole
  <2>2. WatchInv'
    BY <1>e, <1>q, <2>1
  <2>3. DepositInv'
    BY <1>d, <1>e, <2>1 DEF DepositInv, Deposit!Subs
  <2>. QED  BY <2>2, <2>3
<1>s. \A result \in {"finalized", "error", "timeout"} : Deposit!Settle(result) =>
          /\ outcome' \in {"waiting", "finalized", "error", "timeout"}
          /\ wrapped => outcome' # "waiting"
          /\ cleaned \/ ~wrapped => outcome' = outcome
          /\ outcome' = result \/ outcome' = outcome
  BY <1>t, <1>w DEF Deposit!Settle, SettledIsStopped
<1>a. UNCHANGED <<answer, finalized>> /\ (outcome' = "finalized" => outcome = "finalized")
         => AnswerIsDue'
  BY <1>d, <1>m DEF AnswerIsDue
\* No other handler runs while a callback does.
<1>i. ASSUME rest' = rest, finalized' = finalized, Deposit!Idle
      PROVE  /\ rest' \in [Deposit!Subs -> SUBSET Nat]
             /\ \A d \in rest'["finalized"] :
                   /\ d \in 1..finalized'
                   /\ sequence' # 0 => d = sequence'
                   /\ batches' \/ d \in mine'
             /\ cleaned' /\ ~Deposit!Idle' => wrapped' \/ "reentrant" \in setting'
  BY <1>i, <1>d, <1>m DEF Deposit!Idle
<1>1. ASSUME NEW s \in Deposit!Subs, Deposit!SubscribeResolves(s) PROVE WatchInv' /\ DepositInv'
  <2>1. /\ sub' \in [Deposit!Subs -> SubStates]
        /\ \A r \in Deposit!Subs :
              sub'[r] = IF r = s THEN (IF cleaned THEN "ended" ELSE "held") ELSE sub[r]
    BY <1>1, <1>t DEF Deposit!SubscribeResolves, Deposit!Kept, SubStates
  <2>2. DOMAIN sub = Deposit!Subs
    BY <1>t
  <2>3. /\ UNCHANGED <<cleaned, sessions, timer, outcome, answer, inbox, rest>>
        /\ UNCHANGED <<finalized, initiated>> /\ Deposit!Idle
    BY <1>1 DEF Deposit!SubscribeResolves, Deposit!results, Deposit!chainVars, Deposit!delivery
  <2>4. WatchInv'
    BY <1>q, <1>t, <1>w, <2>1, <2>2, <2>3 DEF NoPartialWatch, SettledIsStopped, NothingLeftBehind
  <2>5. DepositInv'
    BY <1>a, <1>d, <1>i, <1>m, <2>3 DEF DepositInv
  <2>. QED  BY <2>4, <2>5
<1>2. ASSUME NEW s \in Deposit!Subs, Deposit!SubscribeFails(s) PROVE WatchInv' /\ DepositInv'
  <2>. DEFINE subs == [sub EXCEPT ![s] = "failed"]
  <2>1. subs \in [Deposit!Subs -> SubStates]
        /\ \A r \in Deposit!Subs : subs[r] = "held" => sub[r] = "held"
    BY <1>t DEF SubStates
  <2>2. /\ Deposit!Settle("error") /\ UNCHANGED <<answer, rest, finalized, initiated>>
        /\ Deposit!Idle
    BY <1>2 DEF Deposit!SubscribeFails, Deposit!Report, Deposit!chainVars, Deposit!delivery
  <2>3. AnswerIsDue'
    BY <1>a, <1>s, <2>2
  <2>4. CASE Deposit!Cleanup(subs)
    BY <1>e, <1>i, <1>s, <2>1, <2>2, <2>3, <2>4
  <2>5. CASE ~wrapped /\ custom /\ sub' = subs /\ UNCHANGED <<cleaned, sessions, timer, inbox>>
    <3>1. outcome' = outcome /\ DOMAIN sub = Deposit!Subs
      BY <1>s, <1>t, <2>2, <2>5
    <3>2. WatchInv'
      BY <1>q, <1>t, <1>w, <2>1, <2>2, <2>5, <3>1
         DEF NoPartialWatch, SettledIsStopped, NothingLeftBehind
    <3>3. DepositInv'
      BY <1>d, <1>i, <1>m, <2>2, <2>3, <2>5 DEF DepositInv
    <3>. QED  BY <3>2, <3>3
  <2>. QED  BY <1>2, <2>4, <2>5 DEF Deposit!SubscribeFails
<1>3. ASSUME NEW s \in Deposit!Subs, NEW batch \in inbox[s], Deposit!OnEvents(s, batch)
      PROVE  WatchInv' /\ DepositInv'
  <2>. DEFINE heard == {d \in batch : Deposit!RightSequence(d)}
  <2>1. /\ UNCHANGED <<cleaned, sessions, timer, sub, outcome, answer, finalized, initiated>>
        /\ inbox' = [inbox EXCEPT ![s] = @ \ {batch}] /\ rest' = [rest EXCEPT ![s] = heard]
        /\ sub[s] = "held"
    BY <1>3 DEF Deposit!OnEvents, Deposit!resources, Deposit!results, Deposit!chainVars
  <2>2. heard \subseteq Nat /\ batch \in inbox[s] /\ ~cleaned
    BY <1>3, <1>d, <1>t, <1>w, <2>1 DEF NothingLeftBehind
  <2>3. \A d \in heard : d \in batch /\ (sequence # 0 => d = sequence)
    BY DEF Deposit!RightSequence
  <2>. HIDE DEF heard
  <2>4. /\ inbox' \in [Deposit!Subs -> SUBSET SUBSET Nat]
        /\ \A r \in Deposit!Subs : inbox'[r] \subseteq inbox[r]
        /\ rest' \in [Deposit!Subs -> SUBSET Nat]
        /\ \A r \in Deposit!Subs : rest'[r] = IF r = s THEN heard ELSE rest[r]
    BY <1>3, <1>d, <2>1, <2>2
  <2>5. WatchInv'
    BY <1>m, <1>t, <1>w, <2>1 DEF WatchInv, WatchTyped, EndsAsAWhole, NoPartialWatch,
       SettledIsStopped, NothingLeftBehind
  <2>6. \A d \in rest'["finalized"] :
           /\ d \in 1..finalized
           /\ sequence # 0 => d = sequence
           /\ batches \/ d \in mine
    BY <1>d, <2>2, <2>3, <2>4 DEF Deposit!Subs
  <2>7. DepositInv'
    BY <1>a, <1>d, <1>m, <2>1, <2>2, <2>4, <2>6 DEF DepositInv, Deposit!Subs
  <2>. QED  BY <2>5, <2>7
<1>8. ASSUME NEW s \in Deposit!Subs, Deposit!PassOn(s) PROVE WatchInv' /\ DepositInv'
  <2>1. PICK d \in rest[s] :
          /\ \/ rest' = [rest EXCEPT ![s] = @ \ {d}]
             \/ rest' = [rest EXCEPT ![s] = {}]
          /\ \/ /\ Deposit!Ends(s) /\ Deposit!Cleanup(sub) /\ Deposit!Settle("finalized")
                /\ answer' = d
             \/ /\ "reentrant" \in setting /\ ~wrapped
                /\ Deposit!Cleanup(sub) /\ UNCHANGED <<outcome, answer>>
             \/ UNCHANGED <<cleaned, sessions, timer, sub, inbox, outcome, answer>>
    BY <1>8 DEF Deposit!PassOn, Deposit!resources
  <2>2. UNCHANGED <<finalized, initiated>>
    BY <1>8 DEF Deposit!PassOn, Deposit!chainVars
  <2>3. /\ rest' \in [Deposit!Subs -> SUBSET Nat]
        /\ \A r \in Deposit!Subs : rest'[r] \subseteq rest[r]
    BY <1>8, <1>d, <2>1
  <2>4. \A e \in rest'["finalized"] :
           /\ e \in 1..finalized'
           /\ sequence' # 0 => e = sequence'
           /\ batches' \/ e \in mine'
    BY <1>d, <1>m, <2>2, <2>3 DEF Deposit!Subs
  <2>5. CASE Deposit!Ends(s) /\ Deposit!Cleanup(sub) /\ Deposit!Settle("finalized") /\ answer' = d
    <3>1. s = "finalized" /\ wrapped
      BY <2>5 DEF Deposit!Ends
    <3>2. AnswerIsDue'
      BY <1>d, <1>m, <2>1, <2>2, <2>5, <3>1 DEF AnswerIsDue
    <3>3. cleaned' /\ ~Deposit!Idle' => wrapped' \/ "reentrant" \in setting'
      BY <1>m, <3>1
    <3>. QED  BY <1>e, <1>s, <1>t, <2>2, <2>3, <2>4, <2>5, <3>2, <3>3
  <2>6. CASE "reentrant" \in setting /\ ~wrapped /\ Deposit!Cleanup(sub)
             /\ UNCHANGED <<outcome, answer>>
    <3>1. cleaned' /\ ~Deposit!Idle' => wrapped' \/ "reentrant" \in setting'
      BY <1>m, <2>6
    <3>. QED  BY <1>a, <1>e, <1>t, <2>2, <2>3, <2>4, <2>6, <3>1
  <2>7. CASE UNCHANGED <<cleaned, sessions, timer, sub, inbox, outcome, answer>>
    <3>1. WatchInv'
      BY <1>m, <1>t, <1>w, <2>7 DEF WatchInv, WatchTyped, EndsAsAWhole, NoPartialWatch,
         SettledIsStopped, NothingLeftBehind
    <3>2. cleaned' /\ ~Deposit!Idle' => wrapped' \/ "reentrant" \in setting'
      BY <1>d, <1>m, <1>8, <2>7 DEF Deposit!Idle
    <3>3. DepositInv'
      BY <1>a, <1>d, <1>m, <2>2, <2>3, <2>4, <2>7, <3>2 DEF DepositInv
    <3>. QED  BY <3>1, <3>3
  <2>. QED  BY <2>1, <2>5, <2>6, <2>7
<1>4. CASE Deposit!TimerFires
  <2>1. /\ Deposit!Cleanup(sub) /\ Deposit!Settle("timeout")
        /\ UNCHANGED <<answer, rest, finalized, initiated>> /\ Deposit!Idle
    BY <1>4 DEF Deposit!TimerFires, Deposit!chainVars, Deposit!delivery
  <2>. QED  BY <1>a, <1>e, <1>i, <1>s, <1>t, <2>1
<1>5. CASE Deposit!Unsubscribe
  <2>1. /\ Deposit!Cleanup(sub) /\ ~wrapped
        /\ UNCHANGED <<outcome, answer, rest, finalized, initiated>> /\ Deposit!Idle
    BY <1>5 DEF Deposit!Unsubscribe, Deposit!chainVars, Deposit!results, Deposit!delivery
  <2>. QED  BY <1>a, <1>e, <1>i, <1>t, <2>1
\* A transaction reaches the watch only while it is subscribed.
<1>n. ASSUME NEW s \in Deposit!Subs, NEW batch \in SUBSET Nat, Deposit!Include(s, batch)
      PROVE  \/ UNCHANGED inbox
             \/ /\ ~cleaned /\ inbox' \in [Deposit!Subs -> SUBSET SUBSET Nat]
                /\ \E d \in batch : d \in mine
                /\ \A r \in Deposit!Subs :
                      inbox'[r] = IF r = s THEN inbox[s] \cup {batch} ELSE inbox[r]
  <2>1. sub[s] = "held" => ~cleaned
    BY <1>t, <1>w DEF NothingLeftBehind
  <2>2. \/ UNCHANGED inbox
        \/ /\ sub[s] = "held" /\ \E d \in batch : d \in mine
           /\ inbox' = [inbox EXCEPT ![s] = inbox[s] \cup {batch}]
    BY <1>n DEF Deposit!Include, Deposit!Matches
  <2>3. inbox[s] \cup {batch} \in SUBSET SUBSET Nat
    BY <1>d
  <2>. QED  BY <1>d, <2>1, <2>2, <2>3
<1>6. ASSUME NEW d \in Deposit!Deposits, Deposit!Initiate(d) PROVE WatchInv' /\ DepositInv'
  <2>1. /\ initiated' \in Nat /\ {d} \in SUBSET Nat /\ Deposit!Include("initiated", {d})
        /\ UNCHANGED <<cleaned, sessions, timer, sub, outcome, answer, rest, finalized>>
    BY <1>6 DEF Deposit!Initiate, Deposit!Deposits, Deposit!resources, Deposit!results,
       Deposit!delivery
  <2>2. /\ inbox' \in [Deposit!Subs -> SUBSET SUBSET Nat]
        /\ inbox'["finalized"] = inbox["finalized"]
        /\ cleaned => inbox' = inbox
    BY <1>d, <1>n, <2>1 DEF Deposit!Subs
  <2>3. WatchInv'
    BY <1>m, <1>t, <1>w, <2>1 DEF WatchInv, WatchTyped, EndsAsAWhole, NoPartialWatch,
       SettledIsStopped, NothingLeftBehind
  <2>4. DepositInv'
    BY <1>a, <1>d, <1>m, <2>1, <2>2 DEF DepositInv, Deposit!Idle
  <2>. QED  BY <2>3, <2>4
<1>7. ASSUME NEW d \in Deposit!Deposits, Deposit!Finalize(d) PROVE WatchInv' /\ DepositInv'
  <2>. DEFINE batch == (finalized + 1)..d
  <2>1. /\ d \in Nat /\ finalized < d /\ (batches \/ batch = {d}) /\ finalized' = d
        /\ batch \in SUBSET Nat /\ Deposit!Include("finalized", batch)
        /\ UNCHANGED <<cleaned, sessions, timer, sub, outcome, answer, rest, initiated>>
    BY <1>7, <1>d DEF Deposit!Finalize, Deposit!Deposits, Deposit!resources, Deposit!results,
       Deposit!delivery
  <2>2. /\ inbox' \in [Deposit!Subs -> SUBSET SUBSET Nat]
        /\ \/ inbox'["finalized"] = inbox["finalized"]
           \/ /\ inbox'["finalized"] = inbox["finalized"] \cup {batch}
              /\ batches \/ batch \subseteq mine
        /\ cleaned => inbox' = inbox
    BY <1>d, <1>n, <2>1 DEF Deposit!Subs
  <2>3. 1..finalized \subseteq 1..d /\ batch \subseteq 1..d
    BY <1>d, <2>1
  <2>4. WatchInv'
    BY <1>m, <1>t, <1>w, <2>1 DEF WatchInv, WatchTyped, EndsAsAWhole, NoPartialWatch,
       SettledIsStopped, NothingLeftBehind
  <2>5. AnswerIsDue'
    BY <1>d, <1>m, <2>1, <2>3 DEF AnswerIsDue
  <2>6. DepositInv'
    <3>. HIDE DEF batch
    <3>. QED  BY <1>d, <1>m, <2>1, <2>2, <2>3, <2>5 DEF DepositInv, Deposit!Idle
  <2>. QED  BY <2>4, <2>6
<1>. QED  BY <1>1, <1>2, <1>3, <1>4, <1>5, <1>6, <1>7, <1>8 DEF DepositStep, Deposit!Watch

-----------------------------------------------------------------------------
\* What a step of the composition is to either watch, and what it leaves alone.
LEMMA StepsOfWatches ==
    ASSUME FlowNext
    PROVE  \/ /\ operation \notin Deposits /\ WithdrawalStep
              /\ UNCHANGED <<depositOnly, flowVars, cover>>
              /\ UNCHANGED final \/ PeriodPasses
           \/ /\ operation \in Deposits /\ DepositStep
              /\ UNCHANGED <<withdrawalOnly, flowVars>>
           \/ /\ UNCHANGED <<handle, depositOnly, withdrawalOnly, operation>>
              /\ (\E w \in Withdrawals : RivalClaims(w)) \/ FlowStep
<1>1. CASE WithdrawalWatch
  <2>1. operation \notin Deposits /\ UNCHANGED <<depositOnly, flowVars>>
    BY <1>1 DEF WithdrawalWatch, InWithdrawal
  <2>2. \/ \E s \in Subs : SubscribeResolves(s) \/ SubscribeFails(s)
        \/ PeriodArrives \/ PeriodFails \/ TimerFires \/ Unsubscribe
        \/ \E o \in Outputs : Watch(o)
    BY <1>1 DEF WithdrawalWatch, InWithdrawal
  <2>3. UNCHANGED <<cover, final>>
    BY <2>2 DEF SubscribeResolves, SubscribeFails, PeriodArrives, PeriodFails, TimerFires,
       Unsubscribe, Watch, OnProposal, PeriodReaches, WaitingThrows, PeriodReachesNobody,
       ClaimTimerFires, chainVars
  <2>. QED  BY <2>1, <2>2, <2>3 DEF WithdrawalStep
<1>2. CASE DepositWatch
  BY <1>2 DEF DepositWatch, InDeposit, DepositStep
<1>3. CASE L1Outputs
  <2>1. operation \notin Deposits /\ UNCHANGED <<depositOnly, flowVars>>
        /\ ((\E o \in Outputs : Propose(o)) \/ PeriodPasses)
    BY <1>3 DEF L1Outputs
  <2>2. UNCHANGED cover /\ (UNCHANGED final \/ PeriodPasses)
    BY <2>1 DEF Propose, PeriodPasses, chainVars
  <2>. QED  BY <2>1, <2>2 DEF WithdrawalStep
<1>4. CASE DepositChains
  BY <1>4 DEF DepositChains, DepositStep
<1>5. CASE \E w \in Withdrawals : RivalClaims(w)
  BY <1>5 DEF RivalClaims
<1>6. CASE FlowStep
  <2>1. UNCHANGED <<handle, depositOnly, withdrawalOnly, operation>>
    BY <1>6 DEF FlowStep, BroadcastResolves, BroadcastRejects, WaitReturns, OutputsAnswered,
       ClaimedAnswered, ListingFails, ClaimResolves, ClaimRejects, ClaimExecutes, GoesOn
  <2>. QED  BY <1>6, <2>1
<1>. QED  BY <1>1, <1>2, <1>3, <1>4, <1>5, <1>6 DEF FlowNext

\* The steps of the flow itself, and those of a rival.
LEMMA ClaimsKeep ==
    ASSUME WatchTyped, ClaimInv, UNCHANGED <<cover, final>>,
           (\E w \in Withdrawals : RivalClaims(w)) \/ FlowStep
    PROVE  ClaimInv'
<1>1. ASSUME NEW w \in Withdrawals, RivalClaims(w) PROVE ClaimInv'
  BY <1>1 DEF RivalClaims, ClaimInv, CoverOf
<1>2. CASE BroadcastResolves \/ BroadcastRejects \/ ListingFails
  BY <1>2 DEF BroadcastResolves, BroadcastRejects, ListingFails, GoesOn, ClaimInv, CoverOf
<1>3. CASE WaitReturns
  <2>1. flow = "waiting" /\ flow' \notin {"asking", "claiming"}
        /\ (flow' = "listing" => operation \notin Deposits)
        /\ UNCHANGED <<operation, due, picked, payout, claimed, covers, rivals>>
    BY <1>3 DEF WaitReturns, GoesOn, WatchTyped
  <2>. QED  BY <2>1 DEF ClaimInv, CoverOf
<1>4. CASE OutputsAnswered
  <2>1. /\ flow = "listing" /\ flow' = "asking"
        /\ UNCHANGED <<operation, picked, payout, claimed, covers, rivals>>
        /\ \E known \in SUBSET Withdrawals : due' = {w \in known : CoverOf(w) <= final}
    BY <1>4 DEF OutputsAnswered, GoesOn
  <2>. QED  BY <2>1 DEF ClaimInv, CoverOf
<1>5. CASE ClaimedAnswered
  <2>1. /\ flow = "asking" /\ UNCHANGED <<operation, due, payout, claimed, covers, rivals>>
        /\ \/ picked' \in due \ claimed /\ flow' = "claiming"
           \/ picked' = picked /\ flow' = "rejected"
    BY <1>5 DEF ClaimedAnswered, Claimable, GoesOn
  <2>. QED  BY <2>1 DEF ClaimInv, CoverOf
<1>6. CASE ClaimResolves \/ ClaimRejects
  BY <1>6 DEF ClaimResolves, ClaimRejects, GoesOn, ClaimInv, CoverOf
<1>7. CASE ClaimExecutes
  <2>1. /\ payout = "sent" /\ UNCHANGED <<flow, covers, rivals, due, picked>>
        /\ payout' = IF picked \notin claimed /\ CoverOf(picked) <= final THEN "paid"
                     ELSE "refused"
    BY <1>7 DEF ClaimExecutes
  <2>2. CoverOf(picked) <= final
    BY <2>1 DEF ClaimInv
  <2>. QED  BY <2>1, <2>2 DEF ClaimInv, CoverOf
<1>. QED  BY <1>1, <1>2, <1>3, <1>4, <1>5, <1>6, <1>7 DEF FlowStep

\* Every step preserves the strengthening.
LEMMA FlowPreserves == FlowInv /\ [FlowNext]_allVars => FlowInv'
<1>. SUFFICES ASSUME FlowInv, [FlowNext]_allVars PROVE FlowInv'
  OBVIOUS
<1>1. CASE UNCHANGED allVars
  BY <1>1, WatchKept, DepositKept, ClaimKept DEF FlowInv, allVars, withdrawalOnly, flowVars
<1>2. CASE /\ operation \notin Deposits /\ WithdrawalStep
           /\ UNCHANGED <<depositOnly, flowVars, cover>>
           /\ UNCHANGED final \/ PeriodPasses
  <2>1. WatchInv' /\ UNCHANGED operation
    BY <1>2, WithdrawalKeeps DEF FlowInv, flowVars
  <2>2. DepositInv'
    BY <1>2, <2>1 DEF FlowInv, DepositInv, Deposit!Idle, depositOnly
  <2>3. ClaimInv'
    <3>1. CASE UNCHANGED final
      BY <1>2, <3>1, ClaimKept DEF FlowInv
    <3>2. CASE PeriodPasses
      <4>1. final' = final + 1 /\ final < MaxOutputs /\ UNCHANGED <<cover, flowVars>>
        BY <1>2, <3>2 DEF PeriodPasses
      <4>2. \A w \in Withdrawals : CoverOf(w) \in Nat /\ CoverOf(w)' = CoverOf(w)
        BY <4>1 DEF Withdrawals, CoverOf, FlowInv, ClaimInv, flowVars, claimVars
      <4>3. final \in Nat /\ final' \in 0..MaxOutputs
        BY <4>1, WatchWithdrawalAssumption DEF FlowInv, ClaimInv
      <4>. QED  BY <4>1, <4>2, <4>3 DEF FlowInv, ClaimInv, flowVars, claimVars
    <3>. QED  BY <1>2, <3>1, <3>2
  <2>. QED  BY <2>1, <2>2, <2>3 DEF FlowInv
<1>3. CASE /\ operation \in Deposits /\ DepositStep
           /\ UNCHANGED <<withdrawalOnly, flowVars>>
  <2>1. WatchInv' /\ DepositInv'
    BY <1>3, DepositKeeps DEF FlowInv, withdrawalOnly, flowVars
  <2>2. ClaimInv'
    BY <1>3, ClaimKept DEF FlowInv, withdrawalOnly
  <2>. QED  BY <2>1, <2>2 DEF FlowInv
<1>4. CASE /\ UNCHANGED <<handle, depositOnly, withdrawalOnly, operation>>
           /\ (\E w \in Withdrawals : RivalClaims(w)) \/ FlowStep
  <2>1. WatchInv' /\ DepositInv'
    BY <1>4, WatchKept, DepositKept DEF FlowInv, withdrawalOnly
  <2>2. ClaimInv'
    BY <1>4, ClaimsKeep DEF FlowInv, WatchInv, withdrawalOnly
  <2>. QED  BY <2>1, <2>2 DEF FlowInv
<1>. QED  BY <1>1, <1>2, <1>3, <1>4, StepsOfWatches

-----------------------------------------------------------------------------
\* No watch goes on with a part of what it needs, and a wait settles exactly when its
\* watch ends, in each of the four operations.
THEOREM WatchesEndAsAWhole == FlowSpec => []EndsAsAWhole
<1>1. FlowInv => EndsAsAWhole
  BY DEF FlowInv, WatchInv
<1>. QED  BY <1>1, FlowBegins, FlowPreserves, PTL DEF FlowSpec

\* A wait resolves with a deposit that is final and the one it was asked for; what is
\* claimed is due, and refused only to a caller who has a rival.
THEOREM WhatIsClaimedIsDue == FlowSpec => []ResultIsDue
<1>1. ASSUME FlowInv PROVE ResultIsDue
  <2>1. outcome = "finalized" => operation \in Deposits
    BY <1>1 DEF FlowInv, WatchInv, WatchTyped
  <2>2. AnswerIsDue
    BY <1>1, <2>1 DEF FlowInv, DepositInv, AnswerIsDue
  <2>3. ASSUME picked # "none"
        PROVE  /\ CoverOf(picked) <= final
               /\ (\A w \in Others : covers[w] > MaxOutputs) => picked = "own"
    <3>1. picked \in Withdrawals /\ CoverOf(picked) <= final /\ final <= MaxOutputs
      BY <1>1, <2>3 DEF FlowInv, ClaimInv
    <3>2. ASSUME picked \in Others, picked # "own" PROVE covers[picked] <= MaxOutputs
      BY <1>1, <3>1, <3>2, WatchWithdrawalAssumption DEF CoverOf, FlowInv, ClaimInv
    <3>3. \A w \in Others : covers[w] \in Nat /\ MaxOutputs \in Nat
      BY <1>1, WatchWithdrawalAssumption DEF FlowInv, ClaimInv
    <3>. QED  BY <3>1, <3>2, <3>3 DEF Withdrawals
  <2>. QED  BY <1>1, <2>2, <2>3 DEF ResultIsDue, AnswerIsDue, FlowInv, ClaimInv
<1>. QED  BY <1>1, FlowBegins, FlowPreserves, PTL DEF FlowSpec

-----------------------------------------------------------------------------
Silent ==
    cleaned => /\ \A o \in Outputs : output'[o] \in {"timed", "told"} => output'[o] = output[o]
               /\ outcome' = outcome

\* A withdrawal watch that is over passes on nothing, also if a timer of it is left.
LEMMA WithdrawalIsSilent ==
    ASSUME WatchInv, operation \notin Deposits, WithdrawalStep PROVE Silent
<1>. SUFFICES ASSUME cleaned PROVE Silent
  BY DEF Silent
<1>t. /\ output \in [Outputs -> OutputStates] /\ (wrapped => outcome # "waiting")
  BY DEF WatchInv, WatchTyped, EndsAsAWhole, SettledIsStopped
<1>s. \A result : Settle(result) => outcome' = outcome
  BY <1>t DEF Settle
<1>c. \A subs, outputs : Cleanup(subs, outputs) => output' = outputs
  BY DEF Cleanup
<1>1. ASSUME NEW s \in Subs, SubscribeResolves(s) \/ SubscribeFails(s)
      PROVE  UNCHANGED <<output, outcome>>
  <2>1. CASE SubscribeResolves(s)
    BY <2>1 DEF SubscribeResolves, results
  <2>2. CASE SubscribeFails(s)
    BY <1>c, <1>s, <2>2 DEF SubscribeFails, Report
  <2>. QED  BY <1>1, <2>1, <2>2
<1>2. CASE PeriodArrives \/ PeriodPasses
  BY <1>2 DEF PeriodArrives, PeriodPasses, results, Silent
<1>3. CASE PeriodFails \/ TimerFires \/ Unsubscribe
  BY <1>3, <1>c, <1>s DEF PeriodFails, TimerFires, Unsubscribe, Report, results, Silent
<1>4. ASSUME NEW o \in Outputs, Watch(o) \/ Propose(o) PROVE Silent
  <2>1. \E state \in OutputStates \ {"timed", "told"} : output' = [output EXCEPT ![o] = state]
    BY <1>4 DEF Watch, OnProposal, PeriodReaches, WaitingThrows, PeriodReachesNobody,
       ClaimTimerFires, StillWatching, Propose, AfterProposal, OutputStates
  <2>2. outcome' = outcome
    BY <1>4, <1>s DEF Watch, OnProposal, PeriodReaches, WaitingThrows, PeriodReachesNobody,
       ClaimTimerFires, Propose, results
  <2>. QED  BY <1>t, <2>1, <2>2 DEF Silent
<1>. QED  BY <1>1, <1>2, <1>3, <1>4 DEF WithdrawalStep, Silent

\* Nor does a deposit watch, the rest of one transaction aside: nothing is on the way to
\* its callbacks any more.
OnlyTheRest ==
    /\ answer' = answer
    /\ \A s \in Deposit!Subs : rest'[s] \subseteq rest[s] /\ told'[s] \subseteq told[s] \cup rest[s]

LEMMA DepositIsSilent ==
    ASSUME WatchInv, DepositInv, operation \in Deposits, cleaned, DepositStep
    PROVE  outcome' = outcome /\ OnlyTheRest
<1>t. (wrapped => outcome # "waiting") /\ \A s \in Deposit!Subs : inbox[s] = {}
  BY DEF WatchInv, EndsAsAWhole, SettledIsStopped, DepositInv
<1>s. \A result : Deposit!Settle(result) => outcome' = outcome
  BY <1>t DEF Deposit!Settle
<1>1. CASE Deposit!Watch
  <2>1. ASSUME NEW s \in Deposit!Subs, Deposit!PassOn(s) PROVE outcome' = outcome /\ OnlyTheRest
    <3>1. PICK d \in rest[s] :
            /\ told' = [told EXCEPT ![s] = @ \cup {d}]
            /\ rest' = [rest EXCEPT ![s] = @ \ {d}] \/ rest' = [rest EXCEPT ![s] = {}]
      BY <2>1 DEF Deposit!PassOn
    <3>2. UNCHANGED <<outcome, answer>>
      BY <1>t, <2>1 DEF Deposit!PassOn, Deposit!Ends
    <3>. QED  BY <3>1, <3>2 DEF OnlyTheRest, DepositInv
  <2>2. CASE Deposit!TimerFires \/ Deposit!Unsubscribe
             \/ \E s \in Deposit!Subs : Deposit!SubscribeResolves(s) \/ Deposit!SubscribeFails(s)
    BY <1>s, <2>2 DEF Deposit!SubscribeResolves, Deposit!SubscribeFails, Deposit!Report,
       Deposit!TimerFires, Deposit!Unsubscribe, Deposit!results, Deposit!delivery, OnlyTheRest
  <2>. QED  BY <1>1, <1>t, <2>1, <2>2 DEF Deposit!Watch
<1>2. CASE \E d \in Deposit!Deposits : Deposit!Initiate(d) \/ Deposit!Finalize(d)
  BY <1>2 DEF Deposit!Initiate, Deposit!Finalize, Deposit!results, Deposit!delivery, OnlyTheRest
<1>. QED  BY <1>1, <1>2 DEF DepositStep

\* A watch that is over holds nothing and is silent, in each of the four operations, but
\* for the rest of a transaction in whose callback the application has stopped it.
THEOREM StoppedWatchIsSilent == FlowSpec => StoppedIsSilent
<1>1. FlowInv => NothingLeftBehind
  BY DEF FlowInv, WatchInv
<1>2. ASSUME FlowInv, [FlowNext]_allVars
      PROVE  Silent /\ (cleaned => OnlyTheRest)
  <2>1. CASE UNCHANGED <<handle, depositOnly, withdrawalOnly>>
    BY <2>1 DEF handle, results, depositOnly, withdrawalOnly, Silent, OnlyTheRest
  <2>2. CASE operation \notin Deposits /\ WithdrawalStep /\ UNCHANGED depositOnly
    BY <1>2, <2>2, WithdrawalIsSilent DEF FlowInv, depositOnly, OnlyTheRest
  <2>3. CASE operation \in Deposits /\ DepositStep /\ UNCHANGED withdrawalOnly
    BY <1>2, <2>3, DepositIsSilent DEF FlowInv, withdrawalOnly, Silent
  <2>4. UNCHANGED allVars => UNCHANGED <<handle, depositOnly, withdrawalOnly>>
    BY DEF allVars
  <2>. QED  BY <1>2, <2>1, <2>2, <2>3, <2>4, StepsOfWatches
<1>3. FlowInv /\ [FlowNext]_allVars =>
         [cleaned => /\ \A o \in Outputs : output'[o] \in {"timed", "told"} =>
                                             output'[o] = output[o]
                     /\ outcome' = outcome]_vars
  BY <1>2 DEF Silent
<1>4. FlowInv /\ [FlowNext]_allVars =>
         [cleaned => /\ answer' = answer
                     /\ \A s \in Deposit!Subs : /\ rest'[s] \subseteq rest[s]
                                               /\ told'[s] \subseteq told[s] \cup rest[s]]_allVars
  BY <1>2 DEF OnlyTheRest
<1>5. ASSUME FlowInv PROVE cleaned /\ ~Deposit!Idle => wrapped \/ "reentrant" \in setting
  <2>1. CASE operation \in Deposits
    BY <1>5, <2>1 DEF FlowInv, DepositInv
  <2>2. CASE operation \notin Deposits
    BY <1>5, <2>2 DEF FlowInv, DepositInv, Deposit!Idle
  <2>. QED  BY <2>1, <2>2
<1>. QED
  BY <1>1, <1>3, <1>4, <1>5, FlowBegins, FlowPreserves, PTL
     DEF FlowSpec, StoppedIsSilent, SilentAfterStop

-----------------------------------------------------------------------------
\* A step settles a wait for a withdrawal at most once, and as claimable only when the
\* period of some output is over; periods do not come back.
LEMMA WithdrawalSettles ==
    ASSUME WatchInv, ClaimInv, operation \notin Deposits, WithdrawalStep
    PROVE  /\ UNCHANGED setting /\ final <= final'
           /\ outcome' # outcome =>
                 /\ outcome = "waiting" /\ UNCHANGED final
                 /\ outcome' = "claimable" => PeriodIsOver
<1>t. /\ final \in Nat /\ UNCHANGED setting
      /\ \A result : Settle(result) =>
            outcome' = outcome \/ (outcome = "waiting" /\ outcome' = result)
  <2>1. UNCHANGED setting
    BY DEF WithdrawalStep, SubscribeResolves, SubscribeFails, PeriodArrives, PeriodFails,
       TimerFires, Unsubscribe, Watch, OnProposal, PeriodReaches, WaitingThrows,
       PeriodReachesNobody, ClaimTimerFires, Propose, PeriodPasses, modeVars
  <2>2. final \in Nat
    BY WatchWithdrawalAssumption DEF ClaimInv
  <2>3. ASSUME NEW result, Settle(result)
        PROVE  outcome' = outcome \/ (outcome = "waiting" /\ outcome' = result)
    BY <2>3 DEF Settle
  <2>. QED  BY <2>1, <2>2, <2>3
<1>1. CASE PeriodPasses
  BY <1>1, <1>t DEF PeriodPasses, results
<1>2. ASSUME NEW o \in Outputs, ClaimTimerFires(o)
      PROVE  UNCHANGED final /\ (outcome' # outcome => outcome = "waiting" /\ PeriodIsOver)
  <2>1. UNCHANGED final /\ (outcome' # outcome => outcome = "waiting")
    BY <1>2, <1>t DEF ClaimTimerFires, chainVars
  <2>2. o <= final \/ "overflow" \in setting
    BY <1>2 DEF ClaimTimerFires
  <2>3. PeriodIsOver
    BY <1>t, <2>2, WatchWithdrawalAssumption DEF PeriodIsOver, Outputs
  <2>. QED  BY <2>1, <2>3
<1>3. CASE \/ \E s \in Subs : SubscribeResolves(s) \/ SubscribeFails(s)
           \/ PeriodArrives \/ PeriodFails \/ TimerFires \/ Unsubscribe
           \/ \E o \in Outputs : OnProposal(o) \/ PeriodReaches(o) \/ WaitingThrows(o)
                                  \/ PeriodReachesNobody(o) \/ Propose(o)
  <2>1. UNCHANGED final
    BY <1>3 DEF SubscribeResolves, SubscribeFails, PeriodArrives, PeriodFails, TimerFires,
       Unsubscribe, OnProposal, PeriodReaches, WaitingThrows, PeriodReachesNobody, Propose,
       chainVars
  <2>2. outcome' = outcome \/ \E result \in {"error", "timeout"} : Settle(result)
    BY <1>3 DEF SubscribeResolves, SubscribeFails, PeriodArrives, PeriodFails, TimerFires,
       Unsubscribe, OnProposal, PeriodReaches, WaitingThrows, PeriodReachesNobody, Propose,
       Report, results
  <2>. QED  BY <1>t, <2>1, <2>2
<1>4. CASE \E o \in Outputs : ClaimTimerFires(o)
  <2>1. UNCHANGED final /\ (outcome' # outcome => outcome = "waiting" /\ PeriodIsOver)
    BY <1>2, <1>4
  <2>. QED  BY <1>t, <2>1
<1>5. \/ PeriodPasses \/ \E o \in Outputs : ClaimTimerFires(o)
      \/ \E s \in Subs : SubscribeResolves(s) \/ SubscribeFails(s)
      \/ PeriodArrives \/ PeriodFails \/ TimerFires \/ Unsubscribe
      \/ \E o \in Outputs : OnProposal(o) \/ PeriodReaches(o) \/ WaitingThrows(o)
                             \/ PeriodReachesNobody(o) \/ Propose(o)
  BY DEF WithdrawalStep, Watch
<1>. QED  BY <1>1, <1>3, <1>4, <1>5

\* Nor is a wait for a deposit settled twice, and it is found only when L2 has it.
LEMMA DepositSettles ==
    ASSUME WatchInv, DepositInv, operation \in Deposits,
           UNCHANGED <<operation, period, output>>, DepositStep
    PROVE  /\ DepositIsThere => DepositIsThere'
           /\ outcome' # outcome =>
                 /\ outcome = "waiting" /\ (DepositIsThere' => DepositIsThere)
                 /\ outcome' = "finalized" => DepositIsThere
<1>t. /\ finalized \in Nat /\ UNCHANGED <<sequence, mine, batches>>
      /\ \A result : Deposit!Settle(result) => outcome' = outcome \/ outcome = "waiting"
  BY DEF DepositInv, DepositStep, Deposit!Watch, Deposit!SubscribeResolves,
     Deposit!SubscribeFails, Deposit!OnEvents, Deposit!PassOn, Deposit!TimerFires,
     Deposit!Unsubscribe, Deposit!Initiate, Deposit!Finalize, Deposit!modeVars, Deposit!Settle
<1>1. CASE Deposit!Watch
  <2>1. UNCHANGED finalized
    BY <1>1 DEF Deposit!Watch, Deposit!SubscribeResolves, Deposit!SubscribeFails,
       Deposit!OnEvents, Deposit!PassOn, Deposit!TimerFires, Deposit!Unsubscribe,
       Deposit!chainVars
  <2>2. outcome' # outcome => outcome = "waiting"
    BY <1>1, <1>t DEF Deposit!Watch, Deposit!SubscribeResolves, Deposit!SubscribeFails,
       Deposit!Report, Deposit!OnEvents, Deposit!PassOn, Deposit!TimerFires,
       Deposit!Unsubscribe, Deposit!results
  <2>3. AnswerIsDue' /\ UNCHANGED operation
    BY DepositKeeps DEF DepositInv
  <2>4. outcome' = "finalized" => DepositIsThere'
    BY <2>3 DEF AnswerIsDue, DepositIsThere
  <2>5. DepositIsThere' <=> DepositIsThere
    BY <1>t, <2>1 DEF DepositIsThere
  <2>. QED  BY <2>2, <2>4, <2>5
<1>2. ASSUME NEW d \in Deposit!Deposits, Deposit!Initiate(d) \/ Deposit!Finalize(d)
      PROVE  outcome' = outcome /\ (DepositIsThere => DepositIsThere')
  <2>1. outcome' = outcome
    BY <1>2 DEF Deposit!Initiate, Deposit!Finalize, Deposit!results
  <2>2. finalized' \in Nat /\ finalized <= finalized'
    BY <1>2, <1>t DEF Deposit!Initiate, Deposit!Finalize, Deposit!Deposits
  <2>3. 1..finalized \subseteq 1..finalized'
    BY <1>t, <2>2
  <2>. QED  BY <1>t, <2>1, <2>3 DEF DepositIsThere
<1>. QED  BY <1>1, <1>2 DEF DepositStep

-----------------------------------------------------------------------------
\* The abstract variables of the two waits.
WaitThere == IF operation \in Deposits THEN DepositIsThere ELSE PeriodIsOver

WaitSettled == CASE outcome \in {"finalized", "claimable"} -> "found"
                 [] outcome \in {"error", "timeout"} -> "timeout"
                 [] OTHER -> "waiting"

SomeClaimable == \E w \in Withdrawals : CoverOf(w) <= final

FlowThere == IF operation \in Deposits THEN DepositIsThere ELSE SomeClaimable

FlowSettled == CASE flow = "resolved" -> "found"
                 [] flow \in {"refused", "rejected"} -> "timeout"
                 [] OTHER -> "waiting"

\* Where a flow goes.
LEMMA FlowSettles ==
    ASSUME WatchTyped, ClaimInv, DepositInv,
           UNCHANGED <<handle, depositOnly, withdrawalOnly, operation>>,
           (\E w \in Withdrawals : RivalClaims(w)) \/ FlowStep
    PROVE  /\ UNCHANGED <<WaitThere, WaitSettled, FlowThere>>
           /\ FlowSettled' # FlowSettled => FlowSettled = "waiting"
           /\ FlowSettled' # FlowSettled /\ FlowSettled' = "found" => FlowThere
<1>1. UNCHANGED <<setting, outcome, finalized, sequence, mine, batches, final, cover, covers>>
  <2>1. UNCHANGED covers
    BY DEF RivalClaims, FlowStep, BroadcastResolves, BroadcastRejects, WaitReturns,
       OutputsAnswered, ClaimedAnswered, ListingFails, ClaimResolves, ClaimRejects,
       ClaimExecutes, GoesOn
  <2>. QED  BY <2>1 DEF handle, results, depositOnly, withdrawalOnly
<1>2. UNCHANGED <<DepositIsThere, PeriodIsOver, SomeClaimable, WaitSettled>>
  BY <1>1 DEF DepositIsThere, PeriodIsOver, SomeClaimable, CoverOf, WaitSettled
<1>3. UNCHANGED <<WaitThere, WaitSettled, FlowThere>>
  BY <1>2 DEF WaitThere, FlowThere
<1>4. CASE flow' = flow
  BY <1>3, <1>4 DEF FlowSettled
<1>5. CASE BroadcastResolves \/ BroadcastRejects \/ OutputsAnswered \/ ClaimedAnswered
           \/ ListingFails \/ ClaimRejects
  <2>1. flow \in {"broadcasting", "listing", "asking", "claiming"}
        /\ flow' \in {"waiting", "refused", "asking", "claiming", "rejected"}
    BY <1>5 DEF BroadcastResolves, BroadcastRejects, OutputsAnswered, ClaimedAnswered,
       ListingFails, ClaimRejects, GoesOn
  <2>. QED  BY <1>3, <2>1 DEF FlowSettled
<1>6. CASE WaitReturns
  <2>1. flow = "waiting" /\ FlowSettled = "waiting"
    BY <1>6 DEF WaitReturns, FlowSettled
  <2>2. flow' \in {"resolved", "listing", "rejected"}
        /\ (flow' = "resolved" => outcome = "finalized")
    BY <1>6 DEF WaitReturns, GoesOn, WatchTyped
  <2>3. outcome = "finalized" => operation \in Deposits /\ DepositIsThere
    BY DEF WatchTyped, DepositInv, AnswerIsDue, DepositIsThere
  <2>. QED  BY <1>3, <2>1, <2>2, <2>3 DEF FlowSettled, FlowThere
<1>7. CASE ClaimResolves
  <2>1. flow = "claiming" /\ flow' = "resolved"
    BY <1>7 DEF ClaimResolves, GoesOn
  <2>2. SomeClaimable
    BY <2>1 DEF ClaimInv, SomeClaimable
  <2>3. operation \notin Deposits
    BY <2>1 DEF ClaimInv
  <2>. QED  BY <1>3, <2>1, <2>2, <2>3 DEF FlowSettled, FlowThere
<1>8. ASSUME ClaimExecutes \/ \E w \in Withdrawals : RivalClaims(w) PROVE flow' = flow
  BY <1>8 DEF ClaimExecutes, RivalClaims
<1>. QED  BY <1>4, <1>5, <1>6, <1>7, <1>8 DEF FlowStep

\* A step of a wait or a flow is a step of the abstract wait or none.
LEMMA FlowStepRefines ==
    FlowInv /\ [FlowNext]_allVars =>
        /\ [WaitPromise!Happens \/ WaitPromise!Found \/ WaitPromise!TimesOut]_(WaitPromise!vars)
        /\ [FlowPromise!Happens \/ FlowPromise!Found \/ FlowPromise!TimesOut]_(FlowPromise!vars)
<1>. SUFFICES ASSUME FlowInv, [FlowNext]_allVars
              PROVE  /\ \/ ~WaitThere /\ WaitThere' /\ UNCHANGED WaitSettled
                        \/ /\ WaitSettled = "waiting" /\ WaitThere /\ WaitSettled' = "found"
                           /\ UNCHANGED WaitThere
                        \/ /\ WaitSettled = "waiting" /\ WaitSettled' = "timeout"
                           /\ UNCHANGED WaitThere
                        \/ UNCHANGED <<WaitThere, WaitSettled>>
                     /\ \/ ~FlowThere /\ FlowThere' /\ UNCHANGED FlowSettled
                        \/ /\ FlowSettled = "waiting" /\ FlowThere /\ FlowSettled' = "found"
                           /\ UNCHANGED FlowThere
                        \/ /\ FlowSettled = "waiting" /\ FlowSettled' = "timeout"
                           /\ UNCHANGED FlowThere
                        \/ UNCHANGED <<FlowThere, FlowSettled>>
  BY DEF WaitPromise!Happens, WaitPromise!Found, WaitPromise!TimesOut, WaitPromise!vars,
     FlowPromise!Happens, FlowPromise!Found, FlowPromise!TimesOut, FlowPromise!vars,
     WaitThere, WaitSettled, FlowThere, FlowSettled, SomeClaimable
<1>v. /\ {WaitThere, FlowThere, WaitThere', FlowThere'} \subseteq BOOLEAN
      /\ {WaitSettled, FlowSettled, WaitSettled', FlowSettled'}
            \subseteq {"waiting", "found", "timeout"}
  BY DEF WaitThere, FlowThere, WaitSettled, FlowSettled, DepositIsThere, PeriodIsOver,
     SomeClaimable
<1>1. CASE UNCHANGED allVars
  <2>1. UNCHANGED <<operation, setting, outcome, finalized, sequence, mine, batches, final,
                    cover, covers, flow>>
    BY <1>1 DEF allVars, handle, results, depositOnly, withdrawalOnly, flowVars, claimVars
  <2>2. UNCHANGED <<DepositIsThere, PeriodIsOver, SomeClaimable>>
    BY <2>1 DEF DepositIsThere, PeriodIsOver, SomeClaimable, CoverOf
  <2>. QED  BY <2>1, <2>2 DEF WaitThere, FlowThere, WaitSettled, FlowSettled
<1>2. CASE /\ operation \notin Deposits /\ WithdrawalStep
           /\ UNCHANGED <<depositOnly, flowVars, cover>>
  <2>1. /\ UNCHANGED <<operation, flow, covers, cover, setting>> /\ final <= final'
        /\ outcome' # outcome =>
              /\ outcome = "waiting" /\ UNCHANGED final
              /\ outcome' = "claimable" => PeriodIsOver
    BY <1>2, WithdrawalSettles DEF FlowInv, flowVars, claimVars
  <2>2. /\ final \in Nat /\ final' \in Nat
        /\ outcome' \in {"waiting", "claimable", "error", "timeout"}
        /\ \A w \in Withdrawals : CoverOf(w) \in Nat /\ CoverOf(w)' = CoverOf(w)
    <3>1. FlowInv'
      BY FlowPreserves
    <3>2. \A w \in Withdrawals : CoverOf(w) \in Nat /\ CoverOf(w)' = CoverOf(w)
      BY <2>1, WatchWithdrawalAssumption DEF FlowInv, ClaimInv, CoverOf, Withdrawals
    <3>. QED  BY <1>2, <2>1, <3>1, <3>2, WatchWithdrawalAssumption
                DEF FlowInv, WatchInv, WatchTyped, ClaimInv
  <2>3. (PeriodIsOver => PeriodIsOver') /\ (SomeClaimable => SomeClaimable')
    BY <2>1, <2>2 DEF PeriodIsOver, SomeClaimable
  <2>4. UNCHANGED final => UNCHANGED <<PeriodIsOver, SomeClaimable>>
    BY <2>1, <2>2 DEF PeriodIsOver, SomeClaimable
  <2>5. WaitThere = PeriodIsOver /\ WaitThere' = PeriodIsOver'
        /\ FlowThere = SomeClaimable /\ FlowThere' = SomeClaimable'
    BY <1>2, <2>1 DEF WaitThere, FlowThere
  <2>6. UNCHANGED FlowSettled /\ (outcome' = outcome => UNCHANGED WaitSettled)
    BY <2>1 DEF FlowSettled, WaitSettled
  <2>7. CASE outcome' = outcome
    BY <1>v, <2>3, <2>5, <2>6, <2>7
  <2>8. CASE outcome' # outcome
    <3>1. UNCHANGED <<PeriodIsOver, SomeClaimable>> /\ outcome = "waiting"
      BY <2>1, <2>4, <2>8
    <3>2. WaitSettled = "waiting"
      BY <3>1 DEF WaitSettled
    <3>3. \/ outcome' = "claimable" /\ WaitSettled' = "found" /\ PeriodIsOver
          \/ outcome' \in {"error", "timeout"} /\ WaitSettled' = "timeout"
      BY <2>1, <2>2, <2>8, <3>1 DEF WaitSettled
    <3>. QED  BY <2>5, <2>6, <3>1, <3>2, <3>3
  <2>. QED  BY <2>7, <2>8
<1>3. CASE /\ operation \in Deposits /\ DepositStep
           /\ UNCHANGED <<withdrawalOnly, flowVars>>
  <2>1. /\ UNCHANGED <<operation, flow>> /\ (DepositIsThere => DepositIsThere')
        /\ outcome' # outcome =>
              /\ outcome = "waiting" /\ (DepositIsThere' => DepositIsThere)
              /\ outcome' = "finalized" => DepositIsThere
    BY <1>3, DepositSettles DEF FlowInv, withdrawalOnly, flowVars
  <2>2. outcome' \in {"waiting", "finalized", "error", "timeout"}
    <3>1. FlowInv'
      BY FlowPreserves
    <3>. QED  BY <1>3, <2>1, <3>1 DEF FlowInv, WatchInv, WatchTyped
  <2>3. WaitThere = DepositIsThere /\ WaitThere' = DepositIsThere'
        /\ FlowThere = DepositIsThere /\ FlowThere' = DepositIsThere'
    BY <1>3, <2>1 DEF WaitThere, FlowThere
  <2>4. UNCHANGED FlowSettled /\ (outcome' = outcome => UNCHANGED WaitSettled)
    BY <2>1 DEF FlowSettled, WaitSettled
  <2>5. CASE outcome' = outcome
    BY <1>v, <2>1, <2>3, <2>4, <2>5
  <2>6. CASE outcome' # outcome
    <3>1. WaitSettled = "waiting"
      BY <2>1, <2>6 DEF WaitSettled
    <3>2. \/ outcome' = "finalized" /\ WaitSettled' = "found" /\ DepositIsThere
          \/ outcome' \in {"error", "timeout"} /\ WaitSettled' = "timeout"
      BY <2>1, <2>2, <2>6 DEF WaitSettled
    <3>. QED  BY <1>v, <2>1, <2>3, <2>4, <2>6, <3>1, <3>2
  <2>. QED  BY <2>5, <2>6
<1>4. CASE /\ UNCHANGED <<handle, depositOnly, withdrawalOnly, operation>>
           /\ (\E w \in Withdrawals : RivalClaims(w)) \/ FlowStep
  <2>1. DepositInv /\ WatchTyped /\ ClaimInv
    BY DEF FlowInv, WatchInv
  <2>2. /\ UNCHANGED <<WaitThere, WaitSettled, FlowThere>>
        /\ FlowSettled' # FlowSettled => FlowSettled = "waiting"
        /\ FlowSettled' # FlowSettled /\ FlowSettled' = "found" => FlowThere
    BY <1>4, <2>1, FlowSettles
  <2>. QED  BY <1>v, <2>2
<1>. QED  BY <1>1, <1>2, <1>3, <1>4, StepsOfWatches

\* waitForDeposit(), waitForClaimable() and the flows implement the abstract wait: each
\* settles once, and resolves only when the deposit is final, or the period over and a
\* withdrawal claimable.
THEOREM FlowsAreWaits == FlowSpec => ImplementsWaits
<1>1. FlowInit => WaitPromise!Init /\ FlowPromise!Init
  <2>1. FlowInit => outcome = "waiting" /\ flow \in {"broadcasting", "none"}
    BY DEF FlowInit, Init, Deposit!Init
  <2>. QED  BY <2>1 DEF WaitPromise!Init, FlowPromise!Init, DepositIsThere, PeriodIsOver
<1>. QED
  BY <1>1, FlowStepRefines, FlowBegins, FlowPreserves, PTL
     DEF FlowSpec, ImplementsWaits, WaitPromise!Spec, FlowPromise!Spec

=============================================================================
