------------------------- MODULE ChainContextProofs -------------------------
(***************************************************************************)
(* Proofs about the sequence tracking of a ChainContext, for any calls,    *)
(* contexts and signers, and about the providers it takes its chains from. *)
(*                                                                         *)
(* The inductive invariants need three facts the properties do not state:  *)
(* whose account a call has asked for, what the node has done for the call *)
(* whose answer is under way, and that the higher one of the two sequences *)
(* a call compares is the one the mempool expects.                         *)
(*                                                                         *)
(* Names without a prefix are those of ChainContext, those of Providers    *)
(* have the prefix P!: a theorem about P!Spec speaks of the providers and  *)
(* says nothing of ChainContext's Spec.                                    *)
(***************************************************************************)
EXTENDS ChainContext, WellFoundedInduction, TLAPS

CONSTANTS NumChains, NoCall, ProviderSettings
VARIABLES edition, chains, assetMap, assetInfoCache, pendingFetches, pendingAllLoad, call,
          request, customChains, routes, disturbed, touched, floor

P == INSTANCE Providers WITH Settings <- ProviderSettings

\* The setting of a behaviour is well formed, and no step changes it.
LEMMA SettingTyped ==
  ASSUME setting \in Settings
  PROVE  /\ ContextOf \in [Calls -> Contexts]
         /\ SignerOf \in [Calls -> Signers]
         /\ DefaultOf \in [Contexts -> Signers]
         /\ setting.evictions \in Nat
  BY ChainContextAssumption DEF Setting, ContextOf, SignerOf, DefaultOf

LEMMA SettingKept == [Next]_vars => UNCHANGED setting
  BY DEF Next, Call, vars, contextVars, callVars, nodeVars, Begin, Named, EstimateAnswered,
         SimulationAnswered, AccountAnswered, CreateTx, Sign, NodeChecks, Answered, Resend,
         Lose, TryAgain, Reset, Commit, Evict

LEMMA CircumstancesKept ==
  ASSUME UNCHANGED setting
  PROVE  /\ UNCHANGED <<ContextOf, SignerOf, DefaultOf>>
         /\ OwnSigners' <=> OwnSigners
         /\ Consecutive' <=> Consecutive
  BY DEF ContextOf, SignerOf, DefaultOf, OwnSigners, Consecutive

-----------------------------------------------------------------------------
\* Past getSignerAddress() the address of an external signer is known.
Addressed ==
    \A c \in Calls : pc[c] \notin {"idle", "naming"} =>
        SignerOf[c] \in Keys \/ address[ContextOf[c]] \in Signers

TypeInv == TypeOK /\ Addressed

LEMMA TypeInvInit == Init => TypeInv
  BY ChainContextAssumption, SettingTyped DEF Init, TypeInv, TypeOK, Addressed, Running, Verdicts

LEMMA AddressOfIsSigner ==
  ASSUME TypeInv, NEW c \in Calls,
         SignerOf[c] \in Keys \/ address[ContextOf[c]] \in Signers
  PROVE  AddressOf(c) \in Signers
  BY SettingTyped DEF AddressOf, TypeInv, TypeOK

LEMMA TypeInvStep == TypeInv /\ [Next]_vars => TypeInv'
<1> SUFFICES ASSUME TypeInv, [Next]_vars PROVE TypeInv'
  OBVIOUS
<1>k. UNCHANGED <<setting, ContextOf, SignerOf, DefaultOf>>
  BY SettingKept, CircumstancesKept
<1>y. /\ ContextOf \in [Calls -> Contexts] /\ SignerOf \in [Calls -> Signers]
      /\ DefaultOf \in [Contexts -> Signers]
  BY SettingTyped DEF TypeInv, TypeOK
<1> USE <1>k, <1>y
<1> USE ChainContextAssumption DEF TypeInv, TypeOK, Addressed, Running, Verdicts
<1>1. ASSUME NEW c \in Calls, Begin(c) PROVE TypeInv'
  <2>1. CASE NeedsName(c)
    BY <1>1, <2>1 DEF Begin, contextVars, nodeVars
  <2>2. CASE ~NeedsName(c)
    <3>1. SignerOf[c] \in Keys \/ address[ContextOf[c]] \in Signers
      BY <2>2 DEF NeedsName
    <3>2. AddressOf(c) \in Signers
      BY <3>1, AddressOfIsSigner
    <3>3. FirstQuery(c) \in {"creating", "estimating"}
      BY DEF FirstQuery
    <3> QED
      BY <1>1, <2>2, <3>1, <3>2, <3>3 DEF Begin, contextVars, nodeVars
  <2> QED
    BY <2>1, <2>2
<1>2. ASSUME NEW c \in Calls, Named(c) PROVE TypeInv'
  BY <1>2 DEF Named, nodeVars, FirstQuery
<1>3. ASSUME NEW c \in Calls, EstimateAnswered(c) PROVE TypeInv'
  BY <1>3 DEF EstimateAnswered, contextVars, nodeVars
<1>4. ASSUME NEW c \in Calls, SimulationAnswered(c) PROVE TypeInv'
  <2>1. AddressOf(c) \in Signers
    BY <1>4, AddressOfIsSigner DEF SimulationAnswered
  <2> QED
    BY <1>4, <2>1 DEF SimulationAnswered, contextVars, nodeVars
<1>5. ASSUME NEW c \in Calls, AccountAnswered(c) PROVE TypeInv'
  BY <1>5 DEF AccountAnswered, contextVars, nodeVars
<1>6. ASSUME NEW c \in Calls, CreateTx(c) PROVE TypeInv'
  BY <1>6 DEF CreateTx, UsableSequence, contextVars, nodeVars
<1>7. ASSUME NEW c \in Calls, Sign(c) PROVE TypeInv'
  BY <1>7 DEF Sign, contextVars, nodeVars
<1>8. ASSUME NEW c \in Calls, NodeChecks(c) PROVE TypeInv'
  BY <1>8 DEF NodeChecks, Check, contextVars
<1>9. ASSUME NEW c \in Calls, Answered(c) PROVE TypeInv'
  BY <1>9 DEF Answered, Advance, nodeVars
<1>10. ASSUME NEW c \in Calls, TryAgain(c) PROVE TypeInv'
  BY <1>10 DEF TryAgain, ResetSequence, nodeVars
<1>11. ASSUME NEW c \in Calls, Resend(c) PROVE TypeInv'
  BY <1>11 DEF Resend, contextVars, nodeVars
<1>12. ASSUME NEW c \in Calls, Lose(c) PROVE TypeInv'
  BY <1>12 DEF Lose, contextVars, nodeVars
<1>13. ASSUME NEW x \in Contexts, Reset(x) PROVE TypeInv'
  BY <1>13 DEF Reset, ResetSequence, callVars, nodeVars
<1>14. CASE Commit
  BY <1>14 DEF Commit, contextVars, callVars
<1>15. CASE Evict
  BY <1>15 DEF Evict, contextVars, callVars
<1>16. CASE UNCHANGED vars
  BY <1>16 DEF vars, contextVars, callVars, nodeVars
<1> QED
  BY <1>1, <1>2, <1>3, <1>4, <1>5, <1>6, <1>7, <1>8, <1>9, <1>10, <1>11, <1>12, <1>13,
     <1>14, <1>15, <1>16 DEF Next, Call

\* Every field and every await keeps to its values: in particular no call asks for an
\* account before it has the address of its signer (getSignerAddress()).
THEOREM ContextTypeCorrect == Spec => []TypeOK
<1>1. TypeInv => TypeOK
  BY DEF TypeInv
<1> QED
  BY <1>1, TypeInvInit, TypeInvStep, PTL DEF Spec

-----------------------------------------------------------------------------
\* An answer under way that says "ok" belongs to a sequence the mempool has passed.
Passed ==
    \A c \in Calls : pc[c] = "answering" /\ verdict[c] = "ok" =>
        sequence[c] < expected[SignerOf[c]]

Within == \A x \in Contexts : nextSequence[x] <= expected[DefaultOf[x]]

AheadInv == TypeInv /\ evicted <= setting.evictions /\ Passed /\ Within

LEMMA AheadInvStep ==
  ASSUME OwnSigners PROVE AheadInv /\ [Next]_vars => AheadInv'
<1> SUFFICES ASSUME AheadInv, [Next]_vars PROVE AheadInv'
  OBVIOUS
<1>k. UNCHANGED <<setting, ContextOf, SignerOf, DefaultOf>>
  BY SettingKept, CircumstancesKept
<1>y. /\ ContextOf \in [Calls -> Contexts] /\ SignerOf \in [Calls -> Signers]
      /\ DefaultOf \in [Contexts -> Signers] /\ setting.evictions \in Nat
  BY SettingTyped DEF AheadInv, TypeInv, TypeOK
<1> USE <1>k, <1>y
<1> USE ChainContextAssumption DEF AheadInv, TypeInv, TypeOK, Passed, Within
<1>0. TypeInv'
  BY TypeInvStep
<1>1. ASSUME NEW c \in Calls, Begin(c) PROVE AheadInv'
  BY <1>0, <1>1 DEF Begin, FirstQuery, contextVars, nodeVars
<1>2. ASSUME NEW c \in Calls, Named(c) PROVE AheadInv'
  BY <1>0, <1>2 DEF Named, FirstQuery, nodeVars
<1>3. ASSUME NEW c \in Calls, EstimateAnswered(c) PROVE AheadInv'
  BY <1>0, <1>3 DEF EstimateAnswered, contextVars, nodeVars
<1>4. ASSUME NEW c \in Calls, SimulationAnswered(c) PROVE AheadInv'
  BY <1>0, <1>4 DEF SimulationAnswered, contextVars, nodeVars
<1>5. ASSUME NEW c \in Calls, AccountAnswered(c) PROVE AheadInv'
  BY <1>0, <1>5 DEF AccountAnswered, contextVars, nodeVars
<1>6. ASSUME NEW c \in Calls, CreateTx(c) PROVE AheadInv'
  BY <1>0, <1>6 DEF CreateTx, contextVars, nodeVars
<1>7. ASSUME NEW c \in Calls, Sign(c) PROVE AheadInv'
  BY <1>0, <1>7 DEF Sign, contextVars, nodeVars
<1>8. ASSUME NEW c \in Calls, NodeChecks(c) PROVE AheadInv'
  <2>1. CASE Check(c) = "ok"
    <3>1. sequence[c] = expected[SignerOf[c]]
      BY <2>1 DEF Check
    <3>2. /\ expected' = [expected EXCEPT ![SignerOf[c]] = @ + 1]
          /\ UNCHANGED <<nextSequence, sequence>>
      BY <1>8, <2>1 DEF NodeChecks, contextVars
    <3>3. \A s \in Signers : expected[s] <= expected'[s]
      BY <3>2
    <3>4. Passed'
      BY <1>8, <3>1, <3>2, <3>3 DEF NodeChecks
    <3>5. Within'
      BY <1>0, <3>2, <3>3
    <3> QED
      BY <1>0, <1>8, <3>4, <3>5 DEF NodeChecks
  <2>2. CASE Check(c) # "ok"
    BY <1>0, <1>8, <2>2 DEF NodeChecks, contextVars
  <2> QED
    BY <2>1, <2>2
<1>9. ASSUME NEW c \in Calls, Answered(c) PROVE AheadInv'
  <2>1. CASE verdict[c] = "ok"
    <3>1. sequence[c] + 1 <= expected[DefaultOf[ContextOf[c]]]
      BY <1>9, <2>1 DEF Answered, OwnSigners
    <3> QED
      BY <1>0, <1>9, <2>1, <3>1 DEF Answered, Advance, nodeVars
  <2>2. CASE verdict[c] # "ok"
    BY <1>0, <1>9, <2>2 DEF Answered, nodeVars
  <2> QED
    BY <2>1, <2>2
<1>10. ASSUME NEW c \in Calls, TryAgain(c) PROVE AheadInv'
  BY <1>0, <1>10 DEF TryAgain, ResetSequence, nodeVars
<1>11. ASSUME NEW c \in Calls, Resend(c) PROVE AheadInv'
  BY <1>0, <1>11 DEF Resend, contextVars, nodeVars
<1>12. ASSUME NEW c \in Calls, Lose(c) PROVE AheadInv'
  BY <1>0, <1>12 DEF Lose, contextVars, nodeVars
<1>13. ASSUME NEW x \in Contexts, Reset(x) PROVE AheadInv'
  BY <1>0, <1>13 DEF Reset, ResetSequence, callVars, nodeVars
<1>14. CASE Commit
  BY <1>0, <1>14 DEF Commit, contextVars, callVars
<1>15. CASE Evict
  BY <1>15 DEF Evict, OwnSigners
<1>16. CASE UNCHANGED vars
  BY <1>0, <1>16 DEF vars, contextVars, callVars, nodeVars
<1> QED
  BY <1>1, <1>2, <1>3, <1>4, <1>5, <1>6, <1>7, <1>8, <1>9, <1>10, <1>11, <1>12, <1>13,
     <1>14, <1>15, <1>16 DEF Next, Call

\* The `_nextSequence` of every context stays within what the node expects, however
\* many calls of however many contexts interleave, and whatever is lost, re-sent or
\* reset, as long as no call has an override and the mempool loses nothing.
THEOREM TrackedIsNeverAhead == Spec => []NeverAhead
<1>1. Init => (OwnSigners => AheadInv)
  BY TypeInvInit, SettingTyped, ChainContextAssumption
     DEF Init, AheadInv, Passed, Within
<1>2. (OwnSigners => AheadInv) /\ [Next]_vars => (OwnSigners => AheadInv)'
  BY AheadInvStep, SettingKept, CircumstancesKept
<1>3. (OwnSigners => AheadInv) => NeverAhead
  BY DEF AheadInv, Within, NeverAhead
<1> QED
  BY <1>1, <1>2, <1>3, PTL DEF Spec

-----------------------------------------------------------------------------
\* A call whose transaction has entered the mempool sends no more, whatever it is told.
AcceptedIsSent ==
    \A c \in accepted :
        \/ pc[c] \in {"answering", "done"} /\ verdict[c] = "ok"
        \/ pc[c] = "failed" /\ verdict[c] = "lost"

LEMMA AcceptedStays ==
    ASSUME ~setting.retries, TypeInv, AcceptedIsSent, [Next]_vars
    PROVE  AcceptedIsSent'
<1>. USE DEF TypeInv, TypeOK, AcceptedIsSent
<1>1. ASSUME NEW c \in Calls, pc[c] \notin {"answering", "done", "failed"}, UNCHANGED accepted,
             \A d \in Calls \ {c} : pc'[d] = pc[d] /\ verdict'[d] = verdict[d]
      PROVE  AcceptedIsSent'
  BY <1>1
<1>2. ASSUME NEW c \in Calls,
             Begin(c) \/ Named(c) \/ EstimateAnswered(c) \/ SimulationAnswered(c)
               \/ AccountAnswered(c) \/ CreateTx(c) \/ Sign(c)
      PROVE  AcceptedIsSent'
  BY <1>1, <1>2 DEF Begin, Named, EstimateAnswered, SimulationAnswered, AccountAnswered,
     CreateTx, Sign, contextVars, nodeVars
<1>3. ASSUME NEW c \in Calls, NodeChecks(c) PROVE AcceptedIsSent'
  BY <1>3 DEF NodeChecks
<1>4. ASSUME NEW c \in Calls, Answered(c) \/ Lose(c) \/ TryAgain(c) PROVE AcceptedIsSent'
  BY <1>4 DEF Answered, Lose, TryAgain, contextVars, nodeVars
<1>5. CASE \/ \E c \in Calls : Resend(c)
           \/ \E x \in Contexts : Reset(x)
           \/ Commit \/ Evict \/ UNCHANGED vars
  BY <1>5 DEF Resend, Reset, Commit, Evict, vars, callVars, nodeVars
<1>. QED  BY <1>2, <1>3, <1>4, <1>5 DEF Next, Call

\* "If the transaction fails", it has not been sent: without a retry interceptor a call that
\* ends in a BroadcastError has put nothing into the mempool, and none whose transaction is
\* there comes to send again, so "reset and retry" cannot send a transaction twice - however
\* calls overlap, answers are lost and the mempool is emptied.
THEOREM RetryCannotSendTwice ==
    Spec => [](~setting.retries => FailedIsNotAccepted /\ \A c \in accepted : pc[c] # "sending")
<1>1. Init => (~setting.retries => AcceptedIsSent)
  BY DEF Init, AcceptedIsSent
<1>2. TypeInv /\ (~setting.retries => AcceptedIsSent) /\ [Next]_vars
        => (~setting.retries => AcceptedIsSent)'
  BY AcceptedStays, SettingKept
<1>3. (~setting.retries => AcceptedIsSent)
        => (~setting.retries => FailedIsNotAccepted /\ \A c \in accepted : pc[c] # "sending")
  BY DEF AcceptedIsSent, FailedIsNotAccepted
<1>. QED  BY <1>1, <1>2, <1>3, TypeInvInit, TypeInvStep, PTL DEF Spec

-----------------------------------------------------------------------------
\* While no answer of one of its calls is under way, one of the two sequences a context
\* compares is the one the mempool expects.
Tracked(x) ==
    \/ nextSequence[x] = expected[DefaultOf[x]]
    \/ committed[DefaultOf[x]] = expected[DefaultOf[x]]

Answering(x) == \E c \in Calls : ContextOf[c] = x /\ pc[c] = "answering"

\* What a call has read, chosen and got accepted, at each await.
InStep(c) ==
    /\ pc[c] \notin {"idle", "naming"} => account[c] = SignerOf[c]
    /\ pc[c] = "created" =>
          /\ reply[c] <= expected[SignerOf[c]]
          /\ \/ nextSequence[ContextOf[c]] = expected[SignerOf[c]]
             \/ reply[c] = expected[SignerOf[c]]
    /\ pc[c] \in {"signing", "sending"} => sequence[c] = expected[SignerOf[c]]
    /\ pc[c] = "answering" => verdict[c] = "ok" /\ sequence[c] + 1 = expected[SignerOf[c]]
    /\ pc[c] \notin {"estimating", "simulating", "failed"}

OwnAddress == \A x \in Contexts : address[x] \in {NoSigner, DefaultOf[x]}

OneAtATime == \A c, d \in Calls : pc[c] \in Running /\ pc[d] \in Running => c = d

Matching == \A c \in Calls : verdict[c] # "mismatch"

StepInv ==
    /\ AheadInv
    /\ OneAtATime
    /\ OwnAddress
    /\ \A s \in Signers : committed[s] <= expected[s]
    /\ \A x \in Contexts : Answering(x) \/ Tracked(x)
    /\ \A c \in Calls : InStep(c)
    /\ Matching

\* A step of a call disturbs no other call: they have not begun or are over.
LEMMA OthersAreIdle ==
  ASSUME StepInv, NEW c \in Calls, pc[c] \in Running,
         NEW d \in Calls, d # c
  PROVE  pc[d] \in {"idle", "done"}
  BY DEF StepInv, AheadInv, TypeInv, TypeOK, OneAtATime, InStep, Running

LEMMA StepInvInit == ASSUME Consecutive PROVE Init => StepInv
<1> SUFFICES ASSUME Init PROVE StepInv
  OBVIOUS
<1> USE ChainContextAssumption DEF Init, Running
<1>1. AheadInv
  BY TypeInvInit, SettingTyped DEF AheadInv, Passed, Within
<1>2. \A x \in Contexts : Tracked(x)
  BY DEF Tracked
<1> QED
  BY <1>1, <1>2 DEF StepInv, OneAtATime, OwnAddress, InStep, Matching

LEMMA StepInvStep ==
  ASSUME Consecutive PROVE StepInv /\ [Next]_vars => StepInv'
<1> SUFFICES ASSUME StepInv, [Next]_vars PROVE StepInv'
  OBVIOUS
<1>k. UNCHANGED <<setting, ContextOf, SignerOf, DefaultOf>>
  BY SettingKept, CircumstancesKept
<1>y. /\ ContextOf \in [Calls -> Contexts] /\ SignerOf \in [Calls -> Signers]
      /\ DefaultOf \in [Contexts -> Signers] /\ setting.evictions \in Nat
  BY SettingTyped DEF StepInv, AheadInv, TypeInv, TypeOK
<1> USE <1>k, <1>y
<1>a. AheadInv'
  BY AheadInvStep DEF StepInv, Consecutive
<1>t. TypeOK /\ TypeOK'
  BY <1>a DEF StepInv, AheadInv, TypeInv
<1>s. \A c \in Calls : /\ SignerOf[c] \in Signers /\ ContextOf[c] \in Contexts
                       /\ SignerOf[c] = DefaultOf[ContextOf[c]]
  BY ChainContextAssumption DEF Consecutive, OwnSigners
<1>i. \A c \in Calls : pc[c] \notin {"estimating", "simulating", "failed"}
  BY DEF StepInv, InStep
<1>c. DefaultOf \in [Contexts -> Signers]
  BY ChainContextAssumption
<1> DEFINE Same == UNCHANGED <<nextSequence, expected, committed>>
<1>same. ASSUME NEW c \in Calls, Same, UNCHANGED <<address, verdict>>,
               pc[c] \in Running \cup {"idle"}, pc[c] # "answering",
               pc' = [pc EXCEPT ![c] = pc'[c]], pc'[c] \in Running, pc'[c] # "answering",
               \A d \in Calls \ {c} :
                  /\ account'[d] = account[d]
                  /\ reply'[d] = reply[d] /\ sequence'[d] = sequence[d],
               InStep(c)',
               pc[c] = "idle" => \A d \in Calls : pc[d] \notin Running
         PROVE StepInv'
  <2>1. OneAtATime'
    BY <1>same, <1>t DEF StepInv, OneAtATime, TypeOK
  <2>2. ASSUME NEW d \in Calls, d # c PROVE InStep(d)'
    <3>1. pc'[d] = pc[d] /\ pc[d] \in {"idle", "done"}
      BY <1>same, <1>t, <2>2, OthersAreIdle DEF StepInv, InStep, Running, TypeOK
    <3>2. InStep(d)
      BY DEF StepInv
    <3> QED
      BY <1>same, <2>2, <3>1, <3>2 DEF InStep
  <2>3. \A x \in Contexts : (Answering(x) \/ Tracked(x))'
    BY <1>same, <1>t DEF StepInv, Answering, Tracked, TypeOK
  <2> QED
    BY <1>a, <1>same, <2>1, <2>2, <2>3 DEF StepInv, OwnAddress, Matching
<1>1. ASSUME NEW c \in Calls, Begin(c) PROVE StepInv'
  <2>1. \A d \in Calls : pc[d] \notin Running
    BY <1>1 DEF Begin, Consecutive
  <2>2. FirstQuery(c) = "creating"
    BY DEF FirstQuery, Consecutive
  <2>3. CASE NeedsName(c)
    <3>1. pc' = [pc EXCEPT ![c] = "naming"]
      BY <1>1, <2>3 DEF Begin
    <3>2. InStep(c)'
      BY <1>t, <3>1 DEF InStep, TypeOK
    <3> QED
      BY <1>1, <1>same, <1>t, <2>1, <2>3, <3>1, <3>2
         DEF Begin, contextVars, nodeVars, Running, TypeOK
  <2>4. CASE ~NeedsName(c)
    <3>1. AddressOf(c) = SignerOf[c]
      BY <1>s, <2>4 DEF NeedsName, AddressOf, StepInv, OwnAddress
    <3>2. /\ pc' = [pc EXCEPT ![c] = "creating"]
          /\ account' = [account EXCEPT ![c] = SignerOf[c]]
      BY <1>1, <2>2, <2>4, <3>1 DEF Begin
    <3>3. InStep(c)'
      BY <1>t, <3>2 DEF InStep, TypeOK
    <3> QED
      BY <1>1, <1>same, <1>t, <2>1, <2>4, <3>2, <3>3
         DEF Begin, contextVars, nodeVars, Running, TypeOK
  <2> QED
    BY <2>3, <2>4
<1>2. ASSUME NEW c \in Calls, Named(c) PROVE StepInv'
  <2>1. FirstQuery(c) = "creating"
    BY DEF FirstQuery, Consecutive
  <2>2. OneAtATime'
    BY <1>2, <1>t, <2>1 DEF Named, StepInv, OneAtATime, Running, TypeOK
  <2>3. OwnAddress'
    BY <1>2, <1>s, <1>t DEF Named, StepInv, OwnAddress, TypeOK
  <2>4. InStep(c)'
    BY <1>2, <1>t, <2>1 DEF Named, InStep, TypeOK
  <2>5. ASSUME NEW d \in Calls, d # c PROVE InStep(d)'
    <3>1. pc'[d] = pc[d] /\ pc[d] \in {"idle", "done"}
      BY <1>2, <1>t, <2>5, OthersAreIdle DEF Named, Running, TypeOK
    <3> QED
      BY <1>2, <1>t, <2>5, <3>1 DEF Named, StepInv, InStep, TypeOK
  <2>6. \A x \in Contexts : (Answering(x) \/ Tracked(x))'
    BY <1>2, <1>t, <2>1 DEF Named, nodeVars, StepInv, Answering, Tracked, TypeOK
  <2> QED
    BY <1>2, <1>a, <2>2, <2>3, <2>4, <2>5, <2>6 DEF Named, nodeVars, StepInv, Matching
<1>3. ASSUME NEW c \in Calls, EstimateAnswered(c) PROVE FALSE
  BY <1>3, <1>i DEF EstimateAnswered
<1>4. ASSUME NEW c \in Calls, SimulationAnswered(c) PROVE FALSE
  BY <1>4, <1>i DEF SimulationAnswered
<1>5. ASSUME NEW c \in Calls, AccountAnswered(c) PROVE StepInv'
  <2>1. account[c] = SignerOf[c] /\ ~Answering(ContextOf[c])
    BY <1>5, OthersAreIdle DEF AccountAnswered, StepInv, InStep, Answering, Running
  <2>2. Tracked(ContextOf[c]) /\ committed[SignerOf[c]] <= expected[SignerOf[c]]
    BY <1>s, <2>1 DEF StepInv
  <2>3. InStep(c)'
    BY <1>5, <1>s, <1>t, <2>1, <2>2
       DEF AccountAnswered, contextVars, nodeVars, InStep, Tracked, TypeOK
  <2> QED
    BY <1>5, <1>same, <1>t, <2>3
       DEF AccountAnswered, contextVars, nodeVars, Running, TypeOK
<1>6. ASSUME NEW c \in Calls, CreateTx(c) PROVE StepInv'
  <2>1. /\ reply[c] <= expected[SignerOf[c]]
        /\ nextSequence[ContextOf[c]] <= expected[SignerOf[c]]
        /\ nextSequence[ContextOf[c]] = expected[SignerOf[c]] \/ reply[c] = expected[SignerOf[c]]
    BY <1>6, <1>s DEF CreateTx, StepInv, AheadInv, Within, InStep
  <2>2. UsableSequence(c) = expected[SignerOf[c]]
    BY <1>s, <1>t, <2>1 DEF UsableSequence, TypeOK
  <2>3. InStep(c)'
    BY <1>6, <1>t, <2>2 DEF CreateTx, contextVars, nodeVars, StepInv, InStep, TypeOK
  <2> QED
    BY <1>6, <1>same, <1>t, <2>3
       DEF CreateTx, contextVars, nodeVars, Running, TypeOK
<1>7. ASSUME NEW c \in Calls, Sign(c) PROVE StepInv'
  <2>1. pc' = [pc EXCEPT ![c] = "sending"] /\ UNCHANGED verdict
    BY <1>7 DEF Sign, Consecutive
  <2>2. InStep(c)'
    BY <1>7, <1>t, <2>1 DEF Sign, contextVars, nodeVars, StepInv, InStep, TypeOK
  <2> QED
    BY <1>7, <1>same, <1>t, <2>1, <2>2
       DEF Sign, contextVars, nodeVars, Running, TypeOK
<1>8. ASSUME NEW c \in Calls, NodeChecks(c) PROVE StepInv'
  <2>1. Check(c) = "ok"
    BY <1>8 DEF NodeChecks, Check, StepInv, InStep
  <2>2. /\ expected' = [expected EXCEPT ![SignerOf[c]] = @ + 1]
        /\ verdict' = [verdict EXCEPT ![c] = "ok"]
    BY <1>8, <2>1 DEF NodeChecks
  <2>3. OneAtATime'
    BY <1>8, <1>t DEF NodeChecks, StepInv, OneAtATime, Running, TypeOK
  <2>4. InStep(c)'
    BY <1>8, <1>s, <1>t, <2>2 DEF NodeChecks, StepInv, InStep, TypeOK
  <2>5. ASSUME NEW d \in Calls, d # c PROVE InStep(d)'
    <3>1. pc'[d] = pc[d] /\ pc[d] \in {"idle", "done"}
      BY <1>8, <1>t, <2>5, OthersAreIdle DEF NodeChecks, Running, TypeOK
    <3> QED
      BY <1>8, <1>t, <2>5, <3>1 DEF NodeChecks, StepInv, InStep, TypeOK
  <2>6. ASSUME NEW x \in Contexts PROVE (Answering(x) \/ Tracked(x))'
    <3>1. CASE x = ContextOf[c]
      BY <1>8, <1>t, <3>1 DEF NodeChecks, Answering, TypeOK
    <3>2. CASE x # ContextOf[c]
      <4>1. DefaultOf[x] # SignerOf[c]
        BY <1>s, <3>2 DEF Consecutive
      <4>2. ~Answering(x)
        BY <1>8, OthersAreIdle DEF NodeChecks, Answering, Running
      <4>3. Tracked(x)
        BY <4>2 DEF StepInv
      <4> QED
        BY <1>8, <1>c, <1>t, <2>2, <4>1, <4>3 DEF NodeChecks, contextVars, Tracked, TypeOK
    <3> QED
      BY <3>1, <3>2
  <2>7. \A s \in Signers : committed'[s] <= expected'[s]
    BY <1>8, <1>t, <2>2 DEF NodeChecks, StepInv, TypeOK
  <2>8. OwnAddress' /\ Matching'
    BY <1>8, <1>t, <2>2 DEF NodeChecks, contextVars, StepInv, OwnAddress, Matching, TypeOK
  <2> QED
    BY <1>a, <2>3, <2>4, <2>5, <2>6, <2>7, <2>8 DEF StepInv
<1>9. ASSUME NEW c \in Calls, Answered(c) PROVE StepInv'
  <2>1. verdict[c] = "ok" /\ sequence[c] + 1 = expected[SignerOf[c]]
    BY <1>9 DEF Answered, StepInv, InStep
  <2>2. /\ nextSequence' = [nextSequence EXCEPT ![ContextOf[c]] = expected[SignerOf[c]]]
        /\ pc' = [pc EXCEPT ![c] = "done"]
    BY <1>9, <2>1 DEF Answered, Advance
  <2>3. OneAtATime'
    BY <1>t, <2>2 DEF StepInv, OneAtATime, Running, TypeOK
  <2>4. InStep(c)'
    BY <1>9, <1>t, <2>2 DEF Answered, StepInv, InStep, TypeOK
  <2>5. ASSUME NEW d \in Calls, d # c PROVE InStep(d)'
    <3>1. pc'[d] = pc[d] /\ pc[d] \in {"idle", "done"}
      BY <1>9, <1>t, <2>2, <2>5, OthersAreIdle DEF Answered, Running, TypeOK
    <3> QED
      BY <1>9, <2>5, <3>1 DEF Answered, StepInv, InStep
  <2>6. ASSUME NEW x \in Contexts PROVE Tracked(x)'
    <3>1. CASE x = ContextOf[c]
      BY <1>9, <1>s, <1>t, <2>2, <3>1 DEF Answered, nodeVars, Tracked, TypeOK
    <3>2. CASE x # ContextOf[c]
      <4>1. ~Answering(x)
        BY <1>9, <3>2, OthersAreIdle DEF Answered, Answering, Running
      <4> QED
        BY <1>9, <1>t, <2>2, <3>2, <4>1 DEF Answered, nodeVars, StepInv, Tracked, TypeOK
    <3> QED
      BY <3>1, <3>2
  <2> QED
    BY <1>9, <1>a, <2>3, <2>4, <2>5, <2>6
       DEF Answered, nodeVars, StepInv, OwnAddress, Matching
<1>10. ASSUME NEW c \in Calls, TryAgain(c) PROVE FALSE
  BY <1>10, <1>i DEF TryAgain
<1>11. ASSUME NEW c \in Calls, Resend(c) PROVE FALSE
  BY <1>11 DEF Resend, Consecutive
<1>12. ASSUME NEW c \in Calls, Lose(c) PROVE FALSE
  BY <1>12 DEF Lose, Consecutive
<1>13. ASSUME NEW x \in Contexts, Reset(x) PROVE FALSE
  BY <1>13 DEF Reset, Consecutive
<1>14. CASE Commit
  <2>1. \A x \in Contexts : Tracked(x)'
    BY <1>14, <1>c DEF Commit, Tracked
  <2>2. \A c \in Calls : InStep(c)'
    BY <1>14 DEF Commit, contextVars, callVars, StepInv, InStep
  <2> QED
    BY <1>14, <1>a, <1>t, <2>1, <2>2
       DEF Commit, contextVars, callVars, StepInv, OneAtATime, OwnAddress, Matching, TypeOK
<1>15. CASE Evict
  <2>1. setting.evictions = 0 /\ evicted \in Nat
    BY <1>t DEF Consecutive, OwnSigners, TypeOK
  <2> QED
    BY <1>15, <2>1 DEF Evict
<1>16. CASE UNCHANGED vars
  <2> USE <1>16 DEF vars, contextVars, callVars, nodeVars
  <2>1. \A x \in Contexts : (Answering(x) \/ Tracked(x))'
    BY DEF StepInv, Answering, Tracked
  <2>2. \A c \in Calls : InStep(c)'
    BY DEF StepInv, InStep
  <2> QED
    BY <1>a, <2>1, <2>2 DEF StepInv, OneAtATime, OwnAddress, Matching
<1> QED
  BY <1>1, <1>2, <1>3, <1>4, <1>5, <1>6, <1>7, <1>8, <1>9, <1>10, <1>11, <1>12, <1>13,
     <1>14, <1>15, <1>16 DEF Next, Call

\* signAndBroadcast() with a fee, called again as soon as the last call has settled,
\* never meets a sequence mismatch, however late the blocks come (createTx() uses "the
\* higher of chain sequence vs locally tracked sequence").
THEOREM ConsecutiveCallsMatch == Spec => []NoMismatch
<1>1. Init => (Consecutive => StepInv)
  BY StepInvInit
<1>2. (Consecutive => StepInv) /\ [Next]_vars => (Consecutive => StepInv)'
  BY StepInvStep, SettingKept, CircumstancesKept
<1>3. (Consecutive => StepInv) => NoMismatch
  BY DEF StepInv, Matching, NoMismatch
<1> QED
  BY <1>1, <1>2, <1>3, PTL DEF Spec

-----------------------------------------------------------------------------
(***************************************************************************)
(* The providers.  What a listing has is right because every entry of      *)
(* pendingFetches and pendingAllLoad is a fetch under way, or one whose    *)
(* caller removes the entry next, because the calls that go on in the same *)
(* task have awaited the same list, and because the loop of a listing      *)
(* nothing disturbs has a list of every chain it has passed.               *)
(***************************************************************************)

\* What Providers assumes of its constants, ProvidersAssumption.
ProvidersConstants ==
    /\ NumChains \in Nat \ {0} /\ NoCall \notin Calls
    /\ \A s \in ProviderSettings :
        /\ s.listings \in P!Listings \ {<<>>} /\ s.prefetch \subseteq P!Chains
        /\ s.fails \in BOOLEAN /\ s.op \in [Calls -> SUBSET P!Operations]
        /\ s.of \in P!Chains /\ s.custom \subseteq P!Chains

Editions == [P!Chains -> Nat]
Kinds == {"none", "one", "all", "registry", "prefetch", "children"}
Readers == {"getAssets", "getRawAssetList", "listAssets"}
Refreshers == {"refresh", "refreshAll"}

CallState ==
    [op : P!Operations \cup {"none"}, at : {"idle", "waiting", "ready", "done"}, for : Kinds,
     on : Calls \cup {NoCall}, news : Editions, todo : SUBSET P!Chains, found : Editions,
     listed : Editions, since : Nat, floor : Nat]
RequestState == [kind : Kinds, asked : SUBSET P!Chains, got : Editions, sent : Nat]

ProvidersTypeOK ==
    /\ setting \in ProviderSettings /\ edition \in Nat /\ floor \in Nat
    /\ chains \in Editions /\ assetMap \in Editions /\ assetInfoCache \in Editions
    /\ pendingFetches \in [P!Chains -> Calls \cup {NoCall}]
    /\ pendingAllLoad \in Calls \cup {NoCall}
    /\ call \in [Calls -> CallState] /\ request \in [Calls -> RequestState]
    /\ disturbed \subseteq Calls

\* A call that awaits a fetch awaits one of its kind, which is under way, ...
WaitsForFetch(c) ==
    LET me == call[c] IN
    me.at = "waiting" =>
        /\ me.on \in Calls
        /\ request[me.on].asked # {} /\ request[me.on].kind = me.for
        /\ me.for = "one" => request[me.on].asked = {P!Min(me.todo)}

\* ... as part of its operation, ...
DoesItsOwn(c) ==
    LET me == call[c] IN
    me.at \in {"waiting", "ready"} =>
        \/ me.for \in {"one", "all"} /\ me.op \in Readers /\ (me.for = "one" => me.todo # {})
        \/ me.for \in {"registry", "prefetch"} /\ me.op \in Refreshers
        \/ me.for = "children" /\ me.op = "refreshAll"

\* ... and who has a fetch under way awaits it.
AwaitsItsOwn(c) == request[c].asked # {} => call[c].at = "waiting" /\ call[c].on = c

\* Calls that are ready at once have awaited the same list, or none.
HasList(c, ch) == call[c].at = "ready" /\ call[c].for = "one" /\ ch = P!Min(call[c].todo)

ReadyTogether ==
    \A c, d \in Calls : \A ch \in P!Chains :
        HasList(c, ch) /\ call[d].at = "ready" => HasList(d, ch)

\* An entry is of a fetch under way, or its call is about to remove it.
InFlight(d, ch) == request[d].kind = "one" /\ request[d].asked = {ch}

FetchesStand ==
    /\ \A ch \in P!Chains : pendingFetches[ch] # NoCall =>
          InFlight(pendingFetches[ch], ch) \/ HasList(pendingFetches[ch], ch)
    /\ pendingAllLoad # NoCall =>
          request[pendingAllLoad].kind = "all" /\ request[pendingAllLoad].asked # {}

\* A listing nothing disturbs goes by the chains of now, and has what it has visited.
InLoop(me) == me.at \in {"waiting", "ready"} /\ me.for = "one"
Loaded(c) ==
    LET me == call[c] IN
    me.op = "listAssets" /\ c \notin disturbed =>
        /\ InLoop(me) => me.listed = chains /\ me.todo \subseteq P!Known(chains)
        /\ InLoop(me) \/ me.at = "done" =>
              P!Known(me.listed) \ me.todo \subseteq P!Known(me.found)
        /\ me.at = "done" => me.todo = {}
        /\ InLoop(me) /\ me.at = "ready" => me.news[P!Min(me.todo)] # 0

\* The routes are right until something changes of which the composite provider is to hear.
RoutesStand ==
    ~touched /\ (\A c \in Calls : call[c].at = "ready" => call[c].for # "children")
        => routes = P!Routes(chains, customChains)

CallsStand == /\ \A c \in Calls : WaitsForFetch(c) /\ DoesItsOwn(c) /\ AwaitsItsOwn(c)
              /\ ReadyTogether /\ FetchesStand

ProvidersInv == ProvidersTypeOK /\ CallsStand /\ (\A c \in Calls : Loaded(c)) /\ RoutesStand

-----------------------------------------------------------------------------
\* A set of chains has a first one.
LEMMA LeastChain ==
    ASSUME ProvidersConstants, NEW S \in SUBSET P!Chains, S # {}
    PROVE  P!Min(S) \in S /\ \A y \in S : P!Min(S) <= y
<1>. DEFINE R == OpToRel(<, Nat)
<1>1. \A x, y \in Nat : <<x, y>> \in R <=> x < y
  BY DEF OpToRel
<1>2. IsWellFoundedOn(R, Nat)
  BY NatLessThanWellFounded
<1>6. S \subseteq Nat
  BY DEF ProvidersConstants, P!Chains
<1>. HIDE DEF R
<1>3. PICK x \in S : \A y \in S : ~(<<y, x>> \in R)
  BY <1>2, <1>6, WFMin
<1>4. \A e \in S : e \in Nat /\ x \in Nat /\ ~(e < x)
  BY <1>1, <1>3, <1>6
<1>5. \A e \in S : x <= e
  BY <1>4
<1> QED
  BY <1>5 DEF P!Min

\* What is left to visit from the first chain on that is awaited begins with it.
LEMMA LeastLeft ==
    ASSUME ProvidersConstants, NEW S \in SUBSET P!Chains, NEW T \in SUBSET S,
           NEW m \in T, \A y \in T : m <= y
    PROVE  P!Min(T) = m
<1>1. T \in SUBSET P!Chains /\ T # {}
  OBVIOUS
<1>2. P!Min(T) \in T /\ P!Min(T) <= m
  BY <1>1, LeastChain
<1>3. \A y \in P!Chains : y \in Nat
  BY DEF ProvidersConstants, P!Chains
<1> QED
  BY <1>1, <1>2, <1>3

LEMMA ProvidersSetting ==
    ASSUME ProvidersConstants, setting \in ProviderSettings
    PROVE  /\ setting.prefetch \subseteq P!Chains /\ setting.of \in P!Chains
           /\ \A c \in Calls : setting.op[c] \subseteq P!Operations
  BY DEF ProvidersConstants

LEMMA DataTypes ==
    /\ P!NoData \in Editions /\ P!Idle \in CallState /\ P!NoRequest \in RequestState
    /\ \A e \in Nat : P!Read(e) \in Editions
    /\ \A f, g \in Editions : P!Overwrite(f, g) \in Editions
    /\ \A f \in Editions, ch \in P!Chains, e \in Nat : [f EXCEPT ![ch] = e] \in Editions
    /\ \A x \in Editions : P!Known(x) \in SUBSET P!Chains
<1>1. P!NoData \in Editions
  BY DEF P!NoData, Editions
<1> QED
  BY <1>1 DEF Editions, P!Idle, CallState, P!NoRequest, RequestState, Kinds,
              P!Read, P!Overwrite, P!Known

-----------------------------------------------------------------------------
\* Where the loop of c stops, and what it has collected.
Stops(c, x, pending) ==
    \E ch \in P!Chains :
        /\ x.at = "waiting" /\ x.for = "one" /\ x.todo # {} /\ P!Min(x.todo) = ch
        /\ x.on = IF pending[ch] = NoCall THEN c ELSE pending[ch]
        /\ pendingFetches' = [pending EXCEPT ![ch] = x.on]
        /\ request' = IF x.on # c THEN request
                      ELSE [request EXCEPT ![c] = [kind |-> "one", asked |-> {ch},
                                                   got |-> P!NoData, sent |-> edition]]

WalksTo(c, me, settled, lists, pending, x) ==
    /\ call' = [call EXCEPT ![c] = x]
    /\ x.op = me.op /\ x.listed = me.listed /\ x.todo \subseteq me.todo
    /\ \/ /\ x.at = "done" /\ x.todo = {}
          /\ request' = request /\ pendingFetches' = pending
       \/ Stops(c, x, pending)
    /\ me.todo \subseteq P!Known(chains) /\ (\A ch \in settled : lists[ch] # 0) =>
          P!Known(me.found) \cup (me.todo \ x.todo) \subseteq P!Known(x.found)

LEMMA WalkEnds ==
    ASSUME ProvidersConstants, ProvidersTypeOK, NEW c \in Calls, NEW me \in CallState,
           NEW settled \in SUBSET P!Chains, NEW lists \in Editions,
           NEW pending \in [P!Chains -> Calls \cup {NoCall}],
           \A ch \in settled : pending[ch] = NoCall,
           P!Walk(c, me, settled, lists, pending)
    PROVE  /\ assetMap' \in Editions /\ assetInfoCache' \in Editions
           /\ \E x \in CallState : WalksTo(c, me, settled, lists, pending, x)
<1>. DEFINE Awaited == {ch \in me.todo \ settled : P!Missing(ch, lists)}
            stop == P!Min(Awaited)
            Visited == IF Awaited = {} THEN me.todo ELSE {ch \in me.todo : ch < stop}
            found == [ch \in P!Chains |->
                        IF ch \in Visited THEN P!Value(me.op, ch, lists) ELSE me.found[ch]]
            on == IF pending[stop] = NoCall THEN c ELSE pending[stop]
            seen == [me EXCEPT !.todo = @ \ Visited, !.found = found, !.news = P!NoData]
            x == IF Awaited = {} THEN [seen EXCEPT !.at = "done"]
                 ELSE [seen EXCEPT !.at = "waiting", !.for = "one", !.on = on]
<1>1. me.todo \in SUBSET P!Chains /\ Awaited \in SUBSET P!Chains /\ Visited \in SUBSET me.todo
  BY DEF CallState
<1>2. \A ch \in P!Chains : P!Value(me.op, ch, lists) \in Nat
  BY DEF ProvidersTypeOK, Editions, P!Value
<1>3. found \in Editions
  BY <1>2 DEF Editions, CallState
<1>4. Awaited # {} => stop \in Awaited /\ stop \in P!Chains /\ on \in Calls
  <2>. HAVE Awaited # {}
  <2>1. stop \in Awaited
    BY <1>1, LeastChain
  <2> QED
    BY <1>1, <2>1
<1>5. seen \in CallState /\ x \in CallState
  BY <1>1, <1>3, <1>4, DataTypes DEF CallState, Kinds
<1>6. x.op = me.op /\ x.listed = me.listed /\ x.todo = me.todo \ Visited /\ x.found = found
  BY DEF CallState
<1>7. call' = [call EXCEPT ![c] = x]
  BY DEF P!Walk, P!Await
<1>8. assetMap' \in Editions /\ assetInfoCache' \in Editions
  <2>1. assetInfoCache' = [ch \in P!Chains |->
              IF ch \in Visited /\ me.op # "getRawAssetList" THEN found[ch]
              ELSE assetInfoCache[ch]]
    BY DEF P!Walk
  <2> QED
    BY <1>3, <2>1 DEF P!Walk, ProvidersTypeOK, Editions
<1>9. CASE Awaited = {}
  <2>1. x.at = "done" /\ x.todo = {} /\ request' = request /\ pendingFetches' = pending
    BY <1>9 DEF P!Walk, CallState
  <2>2. ASSUME me.todo \subseteq P!Known(chains), \A ch \in settled : lists[ch] # 0
        PROVE  P!Known(me.found) \cup (me.todo \ x.todo) \subseteq P!Known(x.found)
    <3>1. \A ch \in me.todo : P!Value(me.op, ch, lists) # 0
      BY <1>9, <2>2 DEF P!Missing, P!Known, P!Value
    <3> QED
      BY <1>1, <1>6, <3>1 DEF P!Known
  <2> QED
    BY <1>5, <1>6, <1>7, <1>8, <2>1, <2>2 DEF WalksTo
<1>10. CASE Awaited # {}
  <2>1. stop \in Awaited /\ \A ch \in Awaited : stop <= ch
    BY <1>1, <1>10, LeastChain
  <2>2. x.todo = {ch \in me.todo : ~(ch < stop)}
    BY <1>6, <1>10
  <2>3. stop \in x.todo /\ P!Min(x.todo) = stop
    <3>1. stop \in Nat /\ \A ch \in me.todo : ch \in Nat
      BY <1>1, <2>1 DEF ProvidersConstants, P!Chains
    <3>2. stop \in x.todo /\ x.todo \in SUBSET me.todo
      BY <2>1, <2>2, <3>1
    <3>3. \A ch \in x.todo : stop <= ch
      BY <2>2, <3>1
    <3>4. stop = P!Min(x.todo)
      <4>. HIDE DEF stop, x
      <4> QED
        BY <1>1, <3>2, <3>3, LeastLeft
    <3> QED
      BY <3>2, <3>4
  <2>4. Stops(c, x, pending)
    <3>1. x.at = "waiting" /\ x.for = "one" /\ x.on = on
      BY <1>10 DEF CallState
    <3>4. on = IF pending[stop] = NoCall THEN c ELSE pending[stop]
      OBVIOUS
    <3>2. pendingFetches' = [pending EXCEPT ![stop] = on]
      BY <1>10 DEF P!Walk
    <3>3. request' = IF on # c THEN request
                     ELSE [request EXCEPT ![c] = [kind |-> "one", asked |-> {stop},
                                                  got |-> P!NoData, sent |-> edition]]
      BY <1>10 DEF P!Walk, P!Await
    <3>. HIDE DEF Awaited, stop, on, x
    <3> QED
      BY <1>1, <2>1, <2>3, <3>1, <3>2, <3>3, <3>4 DEF Stops
  <2>5. ASSUME me.todo \subseteq P!Known(chains), \A ch \in settled : lists[ch] # 0
        PROVE  P!Known(me.found) \cup (me.todo \ x.todo) \subseteq P!Known(x.found)
    <3>1. \A ch \in Visited : ch \notin Awaited
      <4>1. \A ch \in P!Chains : ch \in Nat
        BY DEF ProvidersConstants, P!Chains
      <4>2. Visited = {ch \in me.todo : ch < stop}
        BY <1>10
      <4>3. \A ch \in Awaited : stop \in Nat /\ ch \in Nat /\ stop <= ch
        BY <1>1, <2>1, <4>1
      <4>. HIDE DEF Awaited, stop, Visited
      <4> QED
        BY <4>2, <4>3
    <3>2. \A ch \in Visited : P!Value(me.op, ch, lists) # 0
      BY <1>1, <2>5, <3>1 DEF P!Missing, P!Known, P!Value
    <3> QED
      BY <1>1, <1>6, <3>2 DEF P!Known
  <2> QED
    BY <1>5, <1>6, <1>7, <1>8, <2>4, <2>5 DEF WalksTo
<1> QED
  BY <1>9, <1>10

-----------------------------------------------------------------------------
\* The loop of a call that awaits nothing leaves all calls in order, and its own record as
\* WalkEnds says.
LEMMA WalkKeeps ==
    ASSUME ProvidersConstants, ProvidersTypeOK, CallsStand,
           NEW c \in Calls, NEW me \in CallState,
           call[c].at # "waiting", me.op \in Readers,
           NEW settled \in SUBSET P!Chains, NEW lists \in Editions,
           NEW pending \in [P!Chains -> Calls \cup {NoCall}],
           \A ch \in settled : pending[ch] = NoCall,
           \A ch \in P!Chains : pending[ch] # NoCall => InFlight(pending[ch], ch),
           P!Walk(c, me, settled, lists, pending),
           setting' = setting, edition' = edition, floor' = floor, chains' = chains,
           pendingAllLoad' = pendingAllLoad, disturbed' \subseteq Calls,
           disturbed \subseteq disturbed' \cup {c}, \A d \in Calls : Loaded(d),
           me.op = "listAssets" /\ c \notin disturbed' =>
              /\ me.listed = chains /\ me.todo \subseteq P!Known(chains)
              /\ P!Known(me.listed) \ me.todo \subseteq P!Known(me.found)
              /\ \A ch \in settled : lists[ch] # 0
    PROVE  /\ ProvidersTypeOK' /\ CallsStand' /\ \A d \in Calls : Loaded(d)'
           /\ \A d \in Calls \ {c} : call'[d] = call[d]
<1>0. PICK x \in CallState : WalksTo(c, me, settled, lists, pending, x)
  BY WalkEnds
<1>1. /\ call' = [call EXCEPT ![c] = x]
      /\ x.op = me.op /\ x.listed = me.listed /\ x.todo \subseteq me.todo
      /\ \/ /\ x.at = "done" /\ x.todo = {}
            /\ request' = request /\ pendingFetches' = pending
         \/ Stops(c, x, pending)
      /\ me.todo \subseteq P!Known(chains) /\ (\A ch \in settled : lists[ch] # 0) =>
            P!Known(me.found) \cup (me.todo \ x.todo) \subseteq P!Known(x.found)
  BY <1>0 DEF WalksTo
<1>2. assetMap' \in Editions /\ assetInfoCache' \in Editions
  BY WalkEnds
<1>3. /\ call'[c] = x /\ \A d \in Calls \ {c} : call'[d] = call[d]
      /\ call' \in [Calls -> CallState]
  BY <1>1 DEF ProvidersTypeOK
<1>4. request[c].asked = {} /\ \A ch \in P!Chains : pending[ch] # c /\ ~InFlight(c, ch)
  <2>1. request[c].asked = {}
    BY DEF CallsStand, AwaitsItsOwn
  <2>2. c # NoCall
    BY DEF ProvidersConstants
  <2> QED
    BY <2>1, <2>2 DEF InFlight
<1>5. /\ \A d \in Calls \ {c} : request'[d] = request[d]
      /\ request' \in [Calls -> RequestState]
      /\ pendingFetches' \in [P!Chains -> Calls \cup {NoCall}]
  <2>1. CASE request' = request /\ pendingFetches' = pending
    BY <2>1 DEF ProvidersTypeOK
  <2>2. CASE Stops(c, x, pending)
    BY <2>2, DataTypes DEF Stops, ProvidersTypeOK, RequestState, Kinds
  <2> QED
    BY <1>1, <2>1, <2>2
<1>6. ProvidersTypeOK'
  BY <1>2, <1>3, <1>5 DEF ProvidersTypeOK
<1>7. \A d \in Calls \ {c} : \A ch \in P!Chains :
         (HasList(d, ch)' <=> HasList(d, ch)) /\ (InFlight(d, ch)' <=> InFlight(d, ch))
  BY <1>3, <1>5 DEF HasList, InFlight
<1>8. x.at # "ready" /\ \A ch \in P!Chains : ~HasList(c, ch)'
  BY <1>1, <1>3 DEF Stops, HasList
<1>9. \A d \in Calls \ {c} : WaitsForFetch(d)' /\ DoesItsOwn(d)' /\ AwaitsItsOwn(d)'
  <2>. TAKE d \in Calls \ {c}
  <2>1. WaitsForFetch(d) /\ DoesItsOwn(d) /\ AwaitsItsOwn(d)
    BY DEF CallsStand
  <2>2. call[d].at = "waiting" => call[d].on \in Calls \ {c}
    BY <1>4, <2>1 DEF WaitsForFetch
  <2>3. WaitsForFetch(d)'
    BY <1>3, <1>5, <2>1, <2>2 DEF WaitsForFetch
  <2> QED
    BY <1>3, <1>5, <2>1, <2>3 DEF DoesItsOwn, AwaitsItsOwn
<1>10. WaitsForFetch(c)' /\ DoesItsOwn(c)' /\ AwaitsItsOwn(c)'
  <2>1. CASE x.at = "done" /\ request' = request
    BY <1>3, <1>4, <2>1 DEF WaitsForFetch, DoesItsOwn, AwaitsItsOwn
  <2>2. CASE Stops(c, x, pending)
    <3>1. PICK ch \in P!Chains :
            /\ x.at = "waiting" /\ x.for = "one" /\ x.todo # {} /\ P!Min(x.todo) = ch
            /\ x.on = IF pending[ch] = NoCall THEN c ELSE pending[ch]
            /\ request' = IF x.on # c THEN request
                          ELSE [request EXCEPT ![c] = [kind |-> "one", asked |-> {ch},
                                                       got |-> P!NoData, sent |-> edition]]
      BY <2>2 DEF Stops
    <3>2. CASE pending[ch] = NoCall
      <4>1. request'[c] = [kind |-> "one", asked |-> {ch}, got |-> P!NoData, sent |-> edition]
        BY <3>1, <3>2 DEF ProvidersTypeOK
      <4> QED
        BY <1>1, <1>3, <3>1, <3>2, <4>1 DEF WaitsForFetch, DoesItsOwn, AwaitsItsOwn
    <3>3. CASE pending[ch] # NoCall
      <4>1. x.on = pending[ch] /\ x.on \in Calls \ {c} /\ request' = request
        BY <1>4, <3>1, <3>3
      <4>2. request[x.on].kind = "one" /\ request[x.on].asked = {ch}
        BY <3>3, <4>1 DEF InFlight
      <4> QED
        BY <1>1, <1>3, <1>4, <3>1, <4>1, <4>2 DEF WaitsForFetch, DoesItsOwn, AwaitsItsOwn
    <3> QED
      BY <3>2, <3>3
  <2> QED
    BY <1>1, <2>1, <2>2
<1>11. ReadyTogether'
  <2>. SUFFICES ASSUME NEW d \in Calls, NEW e \in Calls, NEW ch \in P!Chains,
                       HasList(d, ch)', call'[e].at = "ready"
                PROVE  HasList(e, ch)'
    BY DEF ReadyTogether
  <2>1. d # c /\ e # c
    BY <1>3, <1>8
  <2> QED
    BY <1>3, <1>7, <2>1 DEF CallsStand, ReadyTogether
<1>12. FetchesStand'
  <2>1. \A ch \in P!Chains : pendingFetches'[ch] # NoCall => InFlight(pendingFetches[ch], ch)'
    <3>. SUFFICES ASSUME NEW ch \in P!Chains, pendingFetches'[ch] # NoCall
                  PROVE  InFlight(pendingFetches[ch], ch)'
      OBVIOUS
    <3>1. CASE pendingFetches'[ch] = pending[ch]
      <4>1. pending[ch] \in Calls \ {c} /\ InFlight(pending[ch], ch)
        BY <1>4, <3>1
      <4> QED
        BY <1>5, <3>1, <4>1 DEF InFlight
    <3>2. CASE pendingFetches'[ch] # pending[ch]
      <4>1. pendingFetches'[ch] = c /\ request'[c].kind = "one" /\ request'[c].asked = {ch}
        <5>1. Stops(c, x, pending)
          BY <1>1, <3>2
        <5>2. PICK k \in P!Chains :
                /\ x.on = IF pending[k] = NoCall THEN c ELSE pending[k]
                /\ pendingFetches' = [pending EXCEPT ![k] = x.on]
                /\ request' = IF x.on # c THEN request
                              ELSE [request EXCEPT ![c] = [kind |-> "one", asked |-> {k},
                                                       got |-> P!NoData, sent |-> edition]]
          BY <5>1 DEF Stops
        <5>3. k = ch /\ x.on = c
          BY <3>2, <5>2
        <5> QED
          BY <5>2, <5>3 DEF ProvidersTypeOK
      <4> QED
        BY <4>1 DEF InFlight
    <3> QED
      BY <3>1, <3>2
  <2>2. pendingAllLoad # NoCall => pendingAllLoad \in Calls \ {c}
    BY <1>4 DEF ProvidersTypeOK, CallsStand, FetchesStand
  <2> QED
    BY <1>5, <2>1, <2>2 DEF CallsStand, FetchesStand
<1>13. \A d \in Calls : Loaded(d)'
  <2>1. ASSUME NEW d \in Calls \ {c} PROVE Loaded(d)'
    BY <1>3, <2>1 DEF Loaded, InLoop
  <2>2. Loaded(c)'
    <3>. SUFFICES ASSUME x.op = "listAssets", c \notin disturbed'
                  PROVE  /\ InLoop(x) => x.listed = chains /\ x.todo \subseteq P!Known(chains)
                         /\ P!Known(x.listed) \ x.todo \subseteq P!Known(x.found)
                         /\ x.at = "done" => x.todo = {}
                         /\ x.at # "ready"
      BY <1>3 DEF Loaded, InLoop
    <3>1. x.at = "done" => x.todo = {}
      BY <1>1 DEF Stops
    <3> QED
      BY <1>1, <1>8, <3>1
  <2> QED
    BY <2>1, <2>2
<1> QED
  BY <1>3, <1>6, <1>8, <1>9, <1>10, <1>11, <1>12, <1>13 DEF CallsStand

-----------------------------------------------------------------------------
\* So does a call that begins to await anything but a single list.
LEMMA AwaitKeeps ==
    ASSUME ProvidersConstants, ProvidersTypeOK, CallsStand,
           NEW c \in Calls, NEW me \in CallState,
           call[c].at # "waiting", \A ch \in P!Chains : ~HasList(c, ch),
           NEW kind \in {"all", "registry", "prefetch"}, NEW on \in Calls,
           NEW asked \in SUBSET P!Chains,
           IF kind = "all" THEN me.op \in Readers ELSE me.op \in Refreshers,
           \/ on = c /\ asked # {}
           \/ on # c /\ request[on].kind = kind /\ request[on].asked # {},
           P!Await(c, me, kind, on, asked),
           setting' = setting, edition' = edition, floor' = floor, chains' = chains,
           assetMap' = assetMap, assetInfoCache' = assetInfoCache,
           pendingFetches' = pendingFetches,
           pendingAllLoad' = IF on = c /\ kind = "all" THEN c ELSE pendingAllLoad,
           disturbed' \subseteq Calls, disturbed \subseteq disturbed' \cup {c},
           \A d \in Calls : Loaded(d)
    PROVE  /\ ProvidersTypeOK' /\ CallsStand' /\ \A d \in Calls : Loaded(d)'
           /\ \A d \in Calls \ {c} : call'[d] = call[d]
<1>. DEFINE x == [me EXCEPT !.at = "waiting", !.for = kind, !.on = on]
            new == [kind |-> kind, asked |-> asked, got |-> P!NoData, sent |-> edition]
<1>1. x \in CallState /\ x.at = "waiting" /\ x.for = kind /\ x.on = on /\ x.op = me.op
  BY DEF CallState, Kinds
<1>2. new \in RequestState
  BY DataTypes DEF ProvidersTypeOK, RequestState, Kinds
<1>3. /\ call'[c] = x /\ \A d \in Calls \ {c} : call'[d] = call[d]
      /\ call' \in [Calls -> CallState]
  BY <1>1 DEF P!Await, ProvidersTypeOK
<1>4. request[c].asked = {} /\ \A ch \in P!Chains : ~InFlight(c, ch)
  BY DEF CallsStand, AwaitsItsOwn, InFlight
<1>5. /\ \A d \in Calls \ {c} : request'[d] = request[d]
      /\ request'[c] = IF on = c THEN new ELSE request[c]
      /\ request' \in [Calls -> RequestState]
  BY <1>2 DEF P!Await, ProvidersTypeOK
<1>6. c # NoCall
  BY DEF ProvidersConstants
<1>. HIDE DEF x, new
<1>7. ProvidersTypeOK'
  BY <1>3, <1>5 DEF ProvidersTypeOK
<1>8. \A d \in Calls \ {c} : \A ch \in P!Chains :
         (HasList(d, ch)' <=> HasList(d, ch)) /\ (InFlight(d, ch)' <=> InFlight(d, ch))
  BY <1>3, <1>5 DEF HasList, InFlight
<1>9. \A ch \in P!Chains : ~HasList(c, ch)'
  BY <1>1, <1>3 DEF HasList
<1>10. \A d \in Calls \ {c} : WaitsForFetch(d)' /\ DoesItsOwn(d)' /\ AwaitsItsOwn(d)'
  <2>. TAKE d \in Calls \ {c}
  <2>1. WaitsForFetch(d) /\ DoesItsOwn(d) /\ AwaitsItsOwn(d)
    BY DEF CallsStand
  <2>2. call[d].at = "waiting" => call[d].on \in Calls \ {c}
    BY <1>4, <2>1 DEF WaitsForFetch
  <2>3. WaitsForFetch(d)'
    BY <1>3, <1>5, <2>1, <2>2 DEF WaitsForFetch
  <2> QED
    BY <1>3, <1>5, <2>1, <2>3 DEF DoesItsOwn, AwaitsItsOwn
<1>11. WaitsForFetch(c)' /\ DoesItsOwn(c)' /\ AwaitsItsOwn(c)'
  <2>1. request'[on].kind = kind /\ request'[on].asked # {}
    BY <1>5 DEF new
  <2>2. WaitsForFetch(c)'
    BY <1>1, <1>3, <2>1 DEF WaitsForFetch
  <2> QED
    BY <1>1, <1>3, <1>4, <1>5, <2>2 DEF DoesItsOwn, AwaitsItsOwn
<1>12. ReadyTogether'
  <2>. SUFFICES ASSUME NEW d \in Calls, NEW e \in Calls, NEW ch \in P!Chains,
                       HasList(d, ch)', call'[e].at = "ready"
                PROVE  HasList(e, ch)'
    BY DEF ReadyTogether
  <2>1. d # c /\ e # c
    BY <1>1, <1>3, <1>9
  <2> QED
    BY <1>3, <1>8, <2>1 DEF CallsStand, ReadyTogether
<1>13. FetchesStand'
  <2>1. \A ch \in P!Chains : pendingFetches[ch] # NoCall =>
            pendingFetches[ch] \in Calls \ {c}
    BY <1>4 DEF ProvidersTypeOK, CallsStand, FetchesStand
  <2>2. pendingAllLoad # NoCall => pendingAllLoad \in Calls \ {c}
    BY <1>4 DEF ProvidersTypeOK, CallsStand, FetchesStand
  <2>3. \A ch \in P!Chains : pendingFetches'[ch] # NoCall =>
            InFlight(pendingFetches[ch], ch)' \/ HasList(pendingFetches[ch], ch)'
    BY <1>3, <1>5, <2>1 DEF CallsStand, FetchesStand, InFlight, HasList
  <2>4. pendingAllLoad' # NoCall => request'[pendingAllLoad'].kind = "all"
                                    /\ request'[pendingAllLoad'].asked # {}
    BY <1>5, <2>2 DEF CallsStand, FetchesStand, new
  <2> QED
    BY <2>3, <2>4 DEF FetchesStand
<1>14. \A d \in Calls : Loaded(d)'
  <2>1. ASSUME NEW d \in Calls \ {c} PROVE Loaded(d)'
    BY <1>3, <2>1 DEF Loaded, InLoop
  <2>2. Loaded(c)'
    BY <1>1, <1>3 DEF Loaded, InLoop
  <2> QED
    BY <2>1, <2>2
<1> QED
  BY <1>1, <1>3, <1>7, <1>10, <1>11, <1>12, <1>13, <1>14 DEF CallsStand

\* The routes are of no concern to steps that make no call ready and leave the children.
LEMMA RoutesKept ==
    ASSUME RoutesStand, chains' = chains, UNCHANGED P!composite,
           \A d \in Calls : call[d].at = "ready" /\ call[d].for = "children" =>
              call'[d] = call[d]
    PROVE  RoutesStand'
  BY DEF RoutesStand, P!composite, P!Routes

-----------------------------------------------------------------------------
\* The operations of an application.
LEMMA BeginKeeps ==
    ASSUME ProvidersConstants, ProvidersInv, NEW c \in Calls, P!Begin(c)
    PROVE  ProvidersInv'
<1>. USE DEF ProvidersInv
<1>1. call[c].at \in {"idle", "done"} /\ P!NoneSettled
  BY DEF P!Begin, P!Running
<1>2. PICK op \in setting.op[c] : P!GetAssets(c, op) \/ P!ListAssets(c, op) \/ P!Refresh(c, op)
  BY DEF P!Begin
<1>3. /\ setting' = setting /\ edition' = edition /\ floor' = floor
      /\ disturbed' = disturbed \ {c}
  BY DEF P!Begin
<1>4. op \in P!Operations /\ setting.of \in P!Chains
  BY ProvidersSetting DEF ProvidersTypeOK
<1>5. P!Began(op) \in CallState /\ P!Began(op).op = op
  BY <1>4, DataTypes DEF P!Began, P!Idle, CallState, ProvidersTypeOK, Kinds
<1>6. call[c].at \notin {"waiting", "ready"} /\ \A ch \in P!Chains : ~HasList(c, ch)
  BY <1>1 DEF HasList
<1>7. \A ch \in P!Chains : pendingFetches[ch] # NoCall => InFlight(pendingFetches[ch], ch)
  <2>. SUFFICES ASSUME NEW ch \in P!Chains, pendingFetches[ch] # NoCall
                PROVE  InFlight(pendingFetches[ch], ch)
    OBVIOUS
  <2>1. pendingFetches[ch] \in Calls /\ ch \in request[pendingFetches[ch]].asked
    BY <1>1 DEF P!NoneSettled, ProvidersTypeOK
  <2>2. ~HasList(pendingFetches[ch], ch)
    BY <2>1 DEF HasList, CallsStand, AwaitsItsOwn
  <2> QED
    BY <2>2 DEF CallsStand, FetchesStand
<1>11. /\ {} \in SUBSET P!Chains /\ assetMap \in Editions
       /\ pendingFetches \in [P!Chains -> Calls \cup {NoCall}]
       /\ disturbed' \subseteq Calls /\ disturbed \subseteq disturbed' \cup {c}
  BY <1>3 DEF ProvidersTypeOK
<1>8. CASE P!GetAssets(c, op)
  <2>. DEFINE me == [P!Began(op) EXCEPT !.todo = {setting.of}]
  <2>1. me \in CallState /\ me.op = op
    BY <1>4, <1>5 DEF CallState
  <2>2. op \in Readers \ {"listAssets"} /\ P!Walk(c, me, {}, assetMap, pendingFetches)
        /\ chains' = chains /\ pendingAllLoad' = pendingAllLoad /\ UNCHANGED P!composite
    BY <1>8 DEF P!GetAssets, Readers
  <2>. HIDE DEF me
  <2>3. /\ ProvidersTypeOK' /\ CallsStand' /\ \A d \in Calls : Loaded(d)'
        /\ \A d \in Calls \ {c} : call'[d] = call[d]
    BY <1>3, <1>6, <1>7, <1>11, <2>1, <2>2, WalkKeeps, ZenonT(120)
  <2> QED
    BY <1>6, <2>2, <2>3, RoutesKept
<1>9. CASE P!ListAssets(c, op)
  <2>1. op = "listAssets" /\ op \in Readers /\ UNCHANGED P!composite
    BY <1>9 DEF P!ListAssets, Readers
  <2>2. CASE pendingAllLoad # NoCall
    <3>1. pendingAllLoad \in Calls \ {c} /\ request[pendingAllLoad].kind = "all"
          /\ request[pendingAllLoad].asked # {}
      BY <1>6, <2>2 DEF ProvidersTypeOK, CallsStand, FetchesStand, AwaitsItsOwn
    <3>2. P!Await(c, P!Began(op), "all", pendingAllLoad, {}) /\ UNCHANGED P!registry
      BY <1>9, <2>2 DEF P!ListAssets
    <3>3. /\ ProvidersTypeOK' /\ CallsStand' /\ \A d \in Calls : Loaded(d)'
          /\ \A d \in Calls \ {c} : call'[d] = call[d]
      BY <1>3, <1>5, <1>6, <2>1, <3>1, <3>2, AwaitKeeps DEF ProvidersTypeOK, P!registry
    <3> QED
      BY <1>6, <2>1, <3>2, <3>3, RoutesKept DEF P!registry
  <2>3. CASE pendingAllLoad = NoCall /\ P!Unfetched # {}
    <3>1. P!Await(c, P!Began(op), "all", c, P!Unfetched) /\ pendingAllLoad' = c
          /\ UNCHANGED <<chains, assetMap, assetInfoCache, pendingFetches>>
      BY <1>9, <2>3 DEF P!ListAssets
    <3>2. P!Unfetched \in SUBSET P!Chains
      BY DEF P!Unfetched
    <3>3. /\ ProvidersTypeOK' /\ CallsStand' /\ \A d \in Calls : Loaded(d)'
          /\ \A d \in Calls \ {c} : call'[d] = call[d]
      BY <1>3, <1>5, <1>6, <2>1, <2>3, <3>1, <3>2, AwaitKeeps DEF ProvidersTypeOK
    <3> QED
      BY <1>6, <2>1, <3>1, <3>3, RoutesKept
  <2>4. CASE pendingAllLoad = NoCall /\ P!Unfetched = {}
    <3>. DEFINE me == P!Listing(P!Began(op))
    <3>1. P!Walk(c, me, {}, assetMap, pendingFetches) /\ UNCHANGED <<chains, pendingAllLoad>>
      BY <1>9, <2>4 DEF P!ListAssets
    <3>2. /\ me \in CallState /\ me.op = op /\ me.listed = chains
          /\ me.todo = P!Known(chains)
      BY <1>5, DataTypes DEF P!Listing, CallState, ProvidersTypeOK
    <3>. HIDE DEF me
    <3>3. /\ ProvidersTypeOK' /\ CallsStand' /\ \A d \in Calls : Loaded(d)'
          /\ \A d \in Calls \ {c} : call'[d] = call[d]
      BY <1>3, <1>6, <1>7, <1>11, <2>1, <3>1, <3>2, WalkKeeps, ZenonT(120)
    <3> QED
      BY <1>6, <2>1, <3>1, <3>3, RoutesKept
  <2> QED
    BY <2>2, <2>3, <2>4
<1>10. CASE P!Refresh(c, op)
  <2>1. op \in Refreshers /\ P!Await(c, P!Began(op), "registry", c, P!Chains)
        /\ UNCHANGED <<P!registry, P!composite>>
    BY <1>10 DEF P!Refresh, Refreshers
  <2>2. P!Chains # {}
    BY DEF ProvidersConstants, P!Chains
  <2>3. /\ ProvidersTypeOK' /\ CallsStand' /\ \A d \in Calls : Loaded(d)'
        /\ \A d \in Calls \ {c} : call'[d] = call[d]
    BY <1>3, <1>5, <1>6, <2>1, <2>2, AwaitKeeps DEF ProvidersTypeOK, P!registry
  <2> QED
    BY <1>6, <2>1, <2>3, RoutesKept DEF P!registry
<1> QED
  BY <1>2, <1>8, <1>9, <1>10

-----------------------------------------------------------------------------
\* The answers of the registry, and what follows them.
LEMMA AnswerKeeps ==
    ASSUME ProvidersInv, NEW c \in Calls, NEW ch \in P!Chains, NEW e \in 0..edition,
           P!Answer(c, ch, e)
    PROVE  ProvidersInv'
<1>. DEFINE whole == request[c].kind = "registry"
            asked == IF whole THEN {} ELSE request[c].asked \ {ch}
            got == IF e = 0 THEN request[c].got
                   ELSE IF whole THEN P!Read(e) ELSE [request[c].got EXCEPT ![ch] = e]
            over == asked = {}
            bulk == over /\ request[c].kind = "all"
<1>. USE DEF ProvidersInv
<1>1. P!Quiet /\ ch \in request[c].asked
  BY DEF P!Answer
<1>2. \A d \in Calls : call[d].at # "ready" /\ \A k \in P!Chains : ~HasList(d, k)
  BY <1>1 DEF P!Quiet, HasList
<1>3. call[c].at = "waiting" /\ call[c].on = c /\ request[c].kind = call[c].for
      /\ (call[c].for = "one" => request[c].asked = {P!Min(call[c].todo)})
  BY <1>1 DEF CallsStand, AwaitsItsOwn, WaitsForFetch
<1>4. got \in Editions /\ asked \in SUBSET P!Chains
  <2>1. request[c].got \in Editions /\ request[c].asked \in SUBSET P!Chains /\ e \in Nat
    BY DEF ProvidersTypeOK, RequestState
  <2> QED
    BY <2>1, DataTypes
<1>5. /\ request' = [request EXCEPT ![c] =
              IF over THEN P!NoRequest ELSE [@ EXCEPT !.asked = asked, !.got = got]]
      /\ IF over THEN P!Wake(c, got) ELSE UNCHANGED call
      /\ assetMap' = IF bulk THEN P!Overwrite(assetMap, got) ELSE assetMap
      /\ pendingAllLoad' = IF bulk THEN NoCall ELSE pendingAllLoad
      /\ disturbed' = IF e # 0 THEN disturbed ELSE disturbed \cup {d \in Calls : P!Running(d)}
      /\ UNCHANGED <<setting, edition, chains, assetInfoCache, pendingFetches,
                     P!composite, floor>>
  BY DEF P!Answer
<1>6. e # 0 /\ ~whole => got[ch] # 0
  BY <1>4 DEF ProvidersTypeOK, RequestState, Editions
<1>7. request[c].kind = "one" => over
  BY <1>1, <1>3
<1>. HIDE DEF got
<1>8. assetMap' \in Editions
  BY <1>4, <1>5, DataTypes DEF ProvidersTypeOK
<1>9. \A d \in Calls \ {c} : request'[d] = request[d]
  BY <1>5 DEF ProvidersTypeOK
<1>10. CASE over
  <2>1. request'[c] = P!NoRequest /\ request' \in [Calls -> RequestState]
    BY <1>5, <1>10, DataTypes DEF ProvidersTypeOK
  <2>11. call' = [d \in Calls |->
                   IF call[d].at = "waiting" /\ call[d].on = c
                   THEN [call[d] EXCEPT !.at = "ready", !.on = NoCall, !.news = got]
                   ELSE call[d]]
    BY <1>5, <1>10 DEF P!Wake
  <2>12. \A d \in Calls : call[d] \in CallState
    BY DEF ProvidersTypeOK
  <2>2. \A d \in Calls :
          IF call[d].at = "waiting" /\ call[d].on = c
          THEN /\ call'[d].at = "ready" /\ call'[d].for = call[d].for
               /\ call'[d].todo = call[d].todo /\ call'[d].op = call[d].op
               /\ call'[d].found = call[d].found /\ call'[d].listed = call[d].listed
               /\ call'[d].news = got
          ELSE call'[d] = call[d]
    BY <2>11, <2>12 DEF CallState
  <2>3. call' \in [Calls -> CallState]
    <3>1. \A d \in Calls :
            [call[d] EXCEPT !.at = "ready", !.on = NoCall, !.news = got] \in CallState
      BY <1>4, <2>12 DEF CallState
    <3> QED
      BY <2>11, <2>12, <3>1
  <2>4. ProvidersTypeOK'
    BY <1>5, <1>8, <2>1, <2>3 DEF ProvidersTypeOK
  <2>5. \A d \in Calls : call'[d].at = "ready" =>
            /\ call[d].at = "waiting" /\ call[d].on = c
            /\ call[d].for = request[c].kind /\ call'[d].for = request[c].kind
            /\ call'[d].todo = call[d].todo
            /\ request[c].kind = "one" => P!Min(call'[d].todo) = ch
    BY <1>1, <1>2, <2>2 DEF CallsStand, WaitsForFetch
  <2>6. \A d \in Calls : WaitsForFetch(d)' /\ DoesItsOwn(d)' /\ AwaitsItsOwn(d)'
    <3>. TAKE d \in Calls
    <3>1. WaitsForFetch(d) /\ DoesItsOwn(d) /\ AwaitsItsOwn(d)
      BY DEF CallsStand
    <3>2. WaitsForFetch(d)'
      <4>1. CASE call'[d].at = "waiting"
        <5>1. call'[d] = call[d] /\ call[d].on # c
          BY <2>2, <4>1
        <5> QED
          BY <1>9, <3>1, <4>1, <5>1 DEF WaitsForFetch
      <4> QED
        BY <4>1 DEF WaitsForFetch
    <3>3. DoesItsOwn(d)'
      BY <2>2, <3>1 DEF DoesItsOwn
    <3>4. AwaitsItsOwn(d)'
      BY <1>9, <2>1, <2>2, <3>1 DEF AwaitsItsOwn, P!NoRequest
    <3> QED
      BY <3>2, <3>3, <3>4
  <2>7. ReadyTogether'
    <3>. SUFFICES ASSUME NEW d \in Calls, NEW f \in Calls, NEW k \in P!Chains,
                         HasList(d, k)', call'[f].at = "ready"
                  PROVE  HasList(f, k)'
      BY DEF ReadyTogether
    <3> QED
      BY <2>5 DEF HasList
  <2>8. FetchesStand'
    <3>1. ASSUME NEW k \in P!Chains, pendingFetches[k] # NoCall
          PROVE  InFlight(pendingFetches[k], k)' \/ HasList(pendingFetches[k], k)'
      <4>1. pendingFetches[k] \in Calls /\ InFlight(pendingFetches[k], k)
        BY <1>2, <3>1 DEF ProvidersTypeOK, CallsStand, FetchesStand
      <4>2. CASE pendingFetches[k] = c
        <5>1. request[c].kind = "one" /\ request[c].asked = {k}
          BY <4>1, <4>2 DEF InFlight
        <5>2. call'[c].at = "ready" /\ call'[c].for = "one" /\ k = P!Min(call'[c].todo)
          BY <1>3, <2>2, <5>1
        <5> QED
          BY <1>5, <4>2, <5>2 DEF HasList
      <4>3. CASE pendingFetches[k] # c
        BY <1>5, <1>9, <4>1, <4>3 DEF InFlight
      <4> QED
        BY <4>2, <4>3
    <3>2. ASSUME pendingAllLoad' # NoCall
          PROVE  request'[pendingAllLoad'].kind = "all" /\ request'[pendingAllLoad'].asked # {}
      <4>1. pendingAllLoad' = pendingAllLoad /\ request[c].kind # "all"
        BY <1>5, <1>10, <3>2
      <4>2. pendingAllLoad \in Calls \ {c}
        BY <3>2, <4>1 DEF ProvidersTypeOK, CallsStand, FetchesStand
      <4> QED
        BY <1>9, <3>2, <4>1, <4>2 DEF CallsStand, FetchesStand
    <3> QED
      BY <1>5, <3>1, <3>2 DEF FetchesStand
  <2>9. \A d \in Calls : Loaded(d)'
    <3>. TAKE d \in Calls
    <3>1. Loaded(d)
      OBVIOUS
    <3>2. CASE call[d].at = "waiting" /\ call[d].on = c
      <4>1. call'[d].at = "ready" /\ (d \notin disturbed' => d \notin disturbed /\ e # 0)
        BY <1>5, <2>2, <3>2 DEF P!Running
      <4>2. call'[d].for = "one" /\ e # 0 => call'[d].news[P!Min(call'[d].todo)] # 0
        BY <1>6, <2>2, <2>5, <3>2, <4>1
      <4> QED
        BY <1>5, <2>2, <3>1, <3>2, <4>1, <4>2 DEF Loaded, InLoop
    <3>3. CASE ~(call[d].at = "waiting" /\ call[d].on = c)
      <4>1. call'[d] = call[d] /\ (d \notin disturbed' => d \notin disturbed)
        BY <1>5, <2>2, <3>3
      <4> QED
        BY <1>5, <3>1, <4>1 DEF Loaded, InLoop
    <3> QED
      BY <3>2, <3>3
  <2>10. RoutesStand'
    BY <1>2, <1>5, RoutesKept
  <2> QED
    BY <2>4, <2>6, <2>7, <2>8, <2>9, <2>10 DEF CallsStand
<1>11. CASE ~over
  <2>1. request'[c] = [request[c] EXCEPT !.asked = asked, !.got = got] /\ call' = call
    BY <1>5, <1>11 DEF ProvidersTypeOK
  <2>2. /\ request'[c].kind = request[c].kind /\ request'[c].asked = asked
        /\ request' \in [Calls -> RequestState]
    BY <1>4, <1>5, <1>11 DEF ProvidersTypeOK, RequestState
  <2>3. ProvidersTypeOK'
    BY <1>5, <1>8, <2>1, <2>2 DEF ProvidersTypeOK
  <2>4. request[c].kind # "one" /\ asked # {}
    BY <1>7, <1>11
  <2>5. \A d \in Calls : WaitsForFetch(d)' /\ DoesItsOwn(d)' /\ AwaitsItsOwn(d)'
    <3>. TAKE d \in Calls
    <3>1. WaitsForFetch(d) /\ DoesItsOwn(d) /\ AwaitsItsOwn(d)
      BY DEF CallsStand
    <3>2. WaitsForFetch(d)'
      BY <1>9, <2>1, <2>2, <2>4, <3>1 DEF WaitsForFetch
    <3> QED
      BY <1>3, <1>9, <2>1, <3>1, <3>2 DEF DoesItsOwn, AwaitsItsOwn
  <2>6. ReadyTogether'
    BY <1>2, <2>1 DEF ReadyTogether
  <2>7. FetchesStand'
    <3>1. ASSUME NEW k \in P!Chains, pendingFetches[k] # NoCall
          PROVE  InFlight(pendingFetches[k], k)'
      <4>1. pendingFetches[k] \in Calls /\ InFlight(pendingFetches[k], k)
        BY <1>2, <3>1 DEF ProvidersTypeOK, CallsStand, FetchesStand
      <4> QED
        BY <1>5, <1>9, <2>4, <4>1 DEF InFlight
    <3>2. pendingAllLoad # NoCall => request'[pendingAllLoad].kind = "all"
                                     /\ request'[pendingAllLoad].asked # {}
      BY <1>9, <2>2, <2>4 DEF ProvidersTypeOK, CallsStand, FetchesStand
    <3> QED
      BY <1>5, <1>11, <3>1, <3>2 DEF FetchesStand
  <2>8. \A d \in Calls : Loaded(d)'
    BY <1>5, <2>1 DEF Loaded, InLoop
  <2>9. RoutesStand'
    BY <1>2, <1>5, RoutesKept
  <2> QED
    BY <2>3, <2>5, <2>6, <2>7, <2>8, <2>9 DEF CallsStand
<1> QED
  BY <1>10, <1>11

LEMMA LoopsKeep ==
    ASSUME ProvidersConstants, ProvidersInv, NEW c \in Calls,
           P!OneLoaded(c) \/ P!AllAreLoaded(c)
    PROVE  ProvidersInv'
<1>. USE DEF ProvidersInv
<1>1. /\ setting' = setting /\ edition' = edition /\ floor' = floor /\ chains' = chains
      /\ pendingAllLoad' = pendingAllLoad /\ disturbed' = disturbed
      /\ UNCHANGED P!composite
      /\ call[c].at = "ready" /\ call[c].for \in {"one", "all"}
  BY DEF P!OneLoaded, P!AllAreLoaded
<1>2. call[c] \in CallState /\ call[c].op \in Readers
  BY <1>1 DEF CallsStand, DoesItsOwn, ProvidersTypeOK, Refreshers
<1>3. disturbed' \subseteq Calls /\ disturbed \subseteq disturbed' \cup {c}
      /\ call[c].at # "waiting"
  BY <1>1 DEF ProvidersTypeOK
<1>4. CASE P!OneLoaded(c)
  <2>. DEFINE ch == P!Min(call[c].todo)
              got == call[c].news[ch]
              lists == P!Overwrite(assetMap, [P!NoData EXCEPT ![ch] = got])
              pending == P!Dropped(pendingFetches, ch, got)
  <2>1. call[c].for = "one" /\ P!Walk(c, call[c], {ch}, lists, pending)
    BY <1>4 DEF P!OneLoaded
  <2>2. ch \in P!Chains
    <3>1. call[c].todo # {} /\ call[c].todo \in SUBSET P!Chains
      BY <1>1, <1>2, <2>1 DEF CallsStand, DoesItsOwn, CallState
    <3> QED
      BY <3>1, LeastChain
  <2>3. got \in Nat /\ lists \in Editions /\ (got # 0 => lists[ch] # 0)
    <3>1. got \in Nat
      BY <1>2, <2>2 DEF CallState, Editions
    <3>2. [P!NoData EXCEPT ![ch] = got] \in Editions
      BY <2>2, <3>1, DataTypes
    <3>3. lists \in Editions
      BY <3>2, DataTypes DEF ProvidersTypeOK
    <3> QED
      BY <2>2, <3>1, <3>3 DEF P!Overwrite, P!NoData
  <2>4. /\ pending \in [P!Chains -> Calls \cup {NoCall}]
        /\ \A k \in {ch} : pending[k] = NoCall
        /\ \A k \in P!Chains : pending[k] # NoCall => InFlight(pending[k], k)
    <3>1. ASSUME NEW k \in P!Chains, k # ch, pendingFetches[k] # NoCall
          PROVE  InFlight(pendingFetches[k], k)
      <4>1. HasList(c, ch) /\ pendingFetches[k] \in Calls
        BY <1>1, <2>1, <3>1 DEF HasList, ProvidersTypeOK
      <4>2. ~HasList(pendingFetches[k], k)
        <5>1. ASSUME HasList(pendingFetches[k], k) PROVE FALSE
          <6>1. HasList(c, k)
            BY <1>1, <4>1, <5>1 DEF CallsStand, ReadyTogether
          <6> QED
            BY <3>1, <6>1 DEF HasList
        <5> QED
          BY <5>1
      <4> QED
        BY <3>1, <4>2 DEF CallsStand, FetchesStand
    <3> QED
      BY <2>2, <3>1 DEF P!Dropped, ProvidersTypeOK
  <2>5. call[c].op = "listAssets" /\ c \notin disturbed =>
           /\ call[c].listed = chains /\ call[c].todo \subseteq P!Known(chains)
           /\ P!Known(call[c].listed) \ call[c].todo \subseteq P!Known(call[c].found)
           /\ got # 0
    BY <1>1, <2>1 DEF Loaded, InLoop
  <2>. HIDE DEF ch, got, lists, pending
  <2>6. /\ ProvidersTypeOK' /\ CallsStand' /\ \A d \in Calls : Loaded(d)'
        /\ \A d \in Calls \ {c} : call'[d] = call[d]
    <3>. DEFINE settled == {ch}
    <3>1. settled \in SUBSET P!Chains /\ \A k \in settled : pending[k] = NoCall
      BY <2>2, <2>4
    <3>2. call[c].op = "listAssets" /\ c \notin disturbed' =>
             /\ call[c].listed = chains /\ call[c].todo \subseteq P!Known(chains)
             /\ P!Known(call[c].listed) \ call[c].todo \subseteq P!Known(call[c].found)
             /\ \A k \in settled : lists[k] # 0
      BY <1>1, <2>3, <2>5
    <3>3. P!Walk(c, call[c], settled, lists, pending)
      BY <2>1
    <3>. HIDE DEF settled
    <3>4. pending \in [P!Chains -> Calls \cup {NoCall}] /\ lists \in Editions
          /\ \A k \in P!Chains : pending[k] # NoCall => InFlight(pending[k], k)
      BY <2>3, <2>4
    <3> QED
      BY <1>1, <1>2, <1>3, <3>1, <3>2, <3>3, <3>4, WalkKeeps, ZenonT(120)
  <2> QED
    BY <1>1, <2>6, RoutesKept
<1>5. CASE P!AllAreLoaded(c)
  <2>. DEFINE me == P!Listing(call[c])
  <2>1. call[c].for = "all" /\ P!Walk(c, me, {}, assetMap, pendingFetches)
    BY <1>5 DEF P!AllAreLoaded
  <2>2. me \in CallState /\ me.op = call[c].op /\ me.listed = chains
        /\ me.todo = P!Known(chains)
    BY <1>2, DataTypes DEF P!Listing, CallState, ProvidersTypeOK
  <2>3. \A k \in P!Chains : pendingFetches[k] # NoCall => InFlight(pendingFetches[k], k)
    <3>1. ASSUME NEW k \in P!Chains, pendingFetches[k] # NoCall, HasList(pendingFetches[k], k)
          PROVE  FALSE
      <4>1. HasList(c, k)
        BY <1>1, <3>1 DEF CallsStand, ReadyTogether, ProvidersTypeOK
      <4> QED
        BY <2>1, <4>1 DEF HasList
    <3> QED
      BY <3>1 DEF CallsStand, FetchesStand
  <2>4. {} \in SUBSET P!Chains /\ assetMap \in Editions
        /\ pendingFetches \in [P!Chains -> Calls \cup {NoCall}]
    BY DEF ProvidersTypeOK
  <2>. HIDE DEF me
  <2>5. /\ ProvidersTypeOK' /\ CallsStand' /\ \A d \in Calls : Loaded(d)'
        /\ \A d \in Calls \ {c} : call'[d] = call[d]
    BY <1>1, <1>2, <1>3, <2>1, <2>2, <2>3, <2>4, WalkKeeps, ZenonT(120)
  <2> QED
    BY <1>1, <2>1, <2>5, RoutesKept
<1> QED
  BY <1>4, <1>5

-----------------------------------------------------------------------------
\* The end of a refresh leaves nothing of what was there, and no call undisturbed.
LEMMA LaterOfTwo ==
    ASSUME NEW a \in Nat, NEW b \in Nat
    PROVE  P!Max({a, b}) \in Nat
<1>1. \E x \in {a, b} : \A y \in {a, b} : x >= y
  OBVIOUS
<1> QED
  BY <1>1 DEF P!Max

LEMMA ReplaceKeeps ==
    ASSUME ProvidersInv, NEW c \in Calls, NEW listed \in Editions, NEW lists \in Editions,
           call[c].at = "ready", call[c].for \in {"registry", "prefetch"},
           P!Replace(c, listed, lists)
    PROVE  ProvidersInv'
<1>. USE DEF ProvidersInv
<1>. DEFINE x == [P!Idle EXCEPT !.op = call[c].op, !.for = "children",
                              !.at = IF P!Rebuilds(c) THEN "ready" ELSE "done"]
<1>1. call[c] \in CallState /\ call[c].op \in Refreshers /\ request[c].asked = {}
  BY DEF CallsStand, DoesItsOwn, AwaitsItsOwn, ProvidersTypeOK
<1>2. /\ x \in CallState /\ x.op = call[c].op /\ x.for = "children" /\ x.at # "waiting"
      /\ x.at = IF P!Rebuilds(c) THEN "ready" ELSE "done"
  BY <1>1, DataTypes DEF CallState, Kinds, P!Idle
<1>3. /\ call'[c] = x /\ \A d \in Calls \ {c} : call'[d] = call[d]
      /\ call' \in [Calls -> CallState]
  BY <1>2 DEF P!Replace, ProvidersTypeOK
<1>. HIDE DEF x
<1>4. /\ request' = request /\ chains' = listed
      /\ touched' = (touched \/ call[c].op = "refresh")
      /\ disturbed' = disturbed \cup {d \in Calls : P!Running(d)}
  BY DEF P!Replace
<1>5. ProvidersTypeOK'
  <2>1. floor' \in Nat
    BY <1>1, LaterOfTwo DEF P!Replace, ProvidersTypeOK, CallState
  <2>2. /\ setting' = setting /\ edition' = edition /\ assetMap' = lists
        /\ assetInfoCache' = P!NoData /\ pendingFetches' = [ch \in P!Chains |-> NoCall]
        /\ pendingAllLoad' = NoCall
    BY DEF P!Replace
  <2> QED
    BY <1>3, <1>4, <2>1, <2>2, DataTypes DEF ProvidersTypeOK
<1>6. \A d \in Calls : WaitsForFetch(d)' /\ DoesItsOwn(d)' /\ AwaitsItsOwn(d)'
  <2>1. ASSUME NEW d \in Calls \ {c}
        PROVE  WaitsForFetch(d)' /\ DoesItsOwn(d)' /\ AwaitsItsOwn(d)'
    BY <1>3, <1>4 DEF CallsStand, WaitsForFetch, DoesItsOwn, AwaitsItsOwn
  <2>2. WaitsForFetch(c)' /\ DoesItsOwn(c)' /\ AwaitsItsOwn(c)'
    BY <1>1, <1>2, <1>3, <1>4 DEF WaitsForFetch, DoesItsOwn, AwaitsItsOwn, P!Rebuilds
  <2> QED
    BY <2>1, <2>2
<1>7. ReadyTogether'
  <2>1. ASSUME NEW d \in Calls, NEW ch \in P!Chains, HasList(d, ch)' PROVE FALSE
    <3>1. d # c /\ HasList(d, ch)
      BY <1>2, <1>3, <2>1 DEF HasList
    <3>2. HasList(c, ch)
      BY <3>1 DEF CallsStand, ReadyTogether
    <3> QED
      BY <3>2 DEF HasList
  <2> QED
    BY <2>1 DEF ReadyTogether
<1>8. FetchesStand'
  BY DEF P!Replace, FetchesStand
<1>9. \A d \in Calls : Loaded(d)'
  <2>1. Loaded(c)'
    BY <1>1, <1>2, <1>3 DEF Loaded, Refreshers
  <2>2. ASSUME NEW d \in Calls \ {c} PROVE Loaded(d)'
    <3>1. d \notin disturbed' => d \notin disturbed /\ call[d].at \in {"idle", "done"}
      BY <1>4 DEF P!Running
    <3> QED
      BY <1>3, <3>1 DEF Loaded, InLoop
  <2> QED
    BY <2>1, <2>2
<1>10. RoutesStand'
  <2>1. ~touched' => call'[c].at = "ready" /\ call'[c].for = "children"
    BY <1>1, <1>2, <1>3, <1>4 DEF Refreshers, P!Rebuilds
  <2> QED
    BY <2>1 DEF RoutesStand
<1> QED
  BY <1>5, <1>6, <1>7, <1>8, <1>9, <1>10 DEF CallsStand

LEMMA RefreshKeeps ==
    ASSUME ProvidersConstants, ProvidersInv, NEW c \in Calls, P!FileRead(c) \/ P!Prefetched(c)
    PROVE  ProvidersInv'
<1>. USE DEF ProvidersInv
<1>1. /\ call[c].at = "ready" /\ call[c].for \in {"registry", "prefetch"}
      /\ call[c] \in CallState /\ call[c].op \in Refreshers
  BY DEF P!FileRead, P!Prefetched, CallsStand, DoesItsOwn, ProvidersTypeOK
<1>2. call[c].news \in Editions /\ call[c].listed \in Editions
  BY <1>1 DEF CallState
<1>3. CASE P!Prefetched(c)
  BY <1>1, <1>2, <1>3, ReplaceKeeps DEF P!Prefetched
<1>4. CASE P!FileRead(c)
  <2>. DEFINE listed == call[c].news
              ahead == P!Known(listed) \cap setting.prefetch
              me == [call[c] EXCEPT !.listed = listed, !.news = P!NoData]
  <2>1. CASE ahead = {}
    BY <1>1, <1>2, <1>4, <2>1, ReplaceKeeps, DataTypes DEF P!FileRead
  <2>2. CASE ahead # {}
    <3>1. /\ P!Await(c, me, "prefetch", c, ahead)
          /\ UNCHANGED <<setting, edition, P!registry, P!composite, disturbed, floor>>
      BY <1>4, <2>2 DEF P!FileRead
    <3>2. me \in CallState /\ me.op = call[c].op /\ ahead \in SUBSET P!Chains
      BY <1>1, <1>2, DataTypes DEF CallState
    <3>3. call[c].at # "waiting" /\ \A ch \in P!Chains : ~HasList(c, ch)
      BY <1>1 DEF HasList
    <3>4. disturbed' \subseteq Calls /\ disturbed \subseteq disturbed' \cup {c}
      BY <3>1 DEF ProvidersTypeOK
    <3>. HIDE DEF me, ahead
    <3>5. /\ ProvidersTypeOK' /\ CallsStand' /\ \A d \in Calls : Loaded(d)'
          /\ \A d \in Calls \ {c} : call'[d] = call[d]
      BY <1>1, <2>2, <3>1, <3>2, <3>3, <3>4, AwaitKeeps DEF P!registry
    <3>6. chains' = chains /\ UNCHANGED P!composite
          /\ \A d \in Calls : call[d].at = "ready" /\ call[d].for = "children" =>
                call'[d] = call[d]
      BY <1>1, <3>1, <3>5 DEF P!registry
    <3> QED
      BY <3>5, <3>6, RoutesKept
  <2> QED
    BY <2>1, <2>2
<1> QED
  BY <1>3, <1>4

LEMMA RebuildKeeps ==
    ASSUME ProvidersInv, NEW c \in Calls, P!Rebuild(c)
    PROVE  ProvidersInv'
<1>. USE DEF ProvidersInv
<1>1. /\ call[c].at = "ready" /\ call[c].for = "children" /\ call[c] \in CallState
      /\ call[c].op = "refreshAll" /\ request[c].asked = {}
  BY DEF P!Rebuild, CallsStand, DoesItsOwn, AwaitsItsOwn, ProvidersTypeOK
<1>2. /\ UNCHANGED <<setting, edition, P!registry, request, customChains, disturbed, floor>>
      /\ routes' = P!Routes(chains, customChains)
  BY DEF P!Rebuild
<1>3. /\ call'[c].at = "done" /\ call'[c].for = "children" /\ call'[c].op = "refreshAll"
      /\ \A d \in Calls \ {c} : call'[d] = call[d]
      /\ call' \in [Calls -> CallState]
  BY <1>1 DEF P!Rebuild, ProvidersTypeOK, CallState
<1>4. ProvidersTypeOK'
  BY <1>2, <1>3 DEF ProvidersTypeOK, P!registry
<1>5. \A d \in Calls : WaitsForFetch(d)' /\ DoesItsOwn(d)' /\ AwaitsItsOwn(d)'
  <2>1. ASSUME NEW d \in Calls \ {c}
        PROVE  WaitsForFetch(d)' /\ DoesItsOwn(d)' /\ AwaitsItsOwn(d)'
    BY <1>2, <1>3 DEF CallsStand, WaitsForFetch, DoesItsOwn, AwaitsItsOwn
  <2>2. WaitsForFetch(c)' /\ DoesItsOwn(c)' /\ AwaitsItsOwn(c)'
    BY <1>1, <1>2, <1>3 DEF WaitsForFetch, DoesItsOwn, AwaitsItsOwn
  <2> QED
    BY <2>1, <2>2
<1>6. \A d \in Calls, ch \in P!Chains : HasList(d, ch)' <=> HasList(d, ch)
  BY <1>1, <1>3 DEF HasList
<1>7. ReadyTogether'
  BY <1>3, <1>6 DEF CallsStand, ReadyTogether
<1>8. FetchesStand'
  BY <1>2, <1>6 DEF CallsStand, FetchesStand, InFlight, ProvidersTypeOK, P!registry
<1>9. \A d \in Calls : Loaded(d)'
  <2>1. Loaded(c)'
    BY <1>3 DEF Loaded
  <2>2. ASSUME NEW d \in Calls \ {c} PROVE Loaded(d)'
    BY <1>2, <1>3 DEF Loaded, InLoop, P!registry
  <2> QED
    BY <2>1, <2>2
<1>10. RoutesStand'
  BY <1>2 DEF RoutesStand, P!registry, P!Routes
<1> QED
  BY <1>4, <1>5, <1>7, <1>8, <1>9, <1>10 DEF CallsStand

\* Neither the registry's publishing nor the custom provider is any concern of the calls.
LEMMA OutsideKeeps ==
    ASSUME ProvidersInv,
           P!Publish \/ (\E ch \in P!Chains : P!ChangeCustom(ch)) \/ UNCHANGED P!vars
    PROVE  ProvidersInv'
<1>1. /\ UNCHANGED <<setting, P!registry, call, request, disturbed, floor>>
      /\ edition' \in Nat
      /\ UNCHANGED P!composite \/ touched' = TRUE
  BY DEF P!Publish, P!ChangeCustom, P!vars, ProvidersInv, ProvidersTypeOK
<1>2. ProvidersTypeOK'
  BY <1>1 DEF ProvidersInv, ProvidersTypeOK, P!registry
<1>3. CallsStand'
  BY <1>1 DEF ProvidersInv, CallsStand, WaitsForFetch, DoesItsOwn, AwaitsItsOwn,
              ReadyTogether, FetchesStand, InFlight, HasList, P!registry
<1>4. \A c \in Calls : Loaded(c)'
  BY <1>1 DEF ProvidersInv, Loaded, InLoop, P!registry
<1>5. RoutesStand'
  BY <1>1 DEF ProvidersInv, RoutesStand, P!registry, P!composite, P!Routes
<1> QED
  BY <1>2, <1>3, <1>4, <1>5 DEF ProvidersInv

LEMMA ProvidersInitHolds ==
    ASSUME ProvidersConstants, P!Init
    PROVE  ProvidersInv
<1>1. chains \in Editions
  <2>1. chains = P!Read(1) \/ chains = P!NoData
    BY DEF P!Init
  <2> QED
    BY <2>1, DataTypes
<1>2. assetMap \in Editions
  BY <1>1 DEF P!Init, Editions
<1>3. ProvidersTypeOK
  BY <1>1, <1>2, DataTypes DEF P!Init, ProvidersTypeOK
<1>4. \A c \in Calls : call[c] = P!Idle /\ request[c] = P!NoRequest
  BY DEF P!Init
<1>5. CallsStand
  BY <1>4 DEF CallsStand, WaitsForFetch, DoesItsOwn, AwaitsItsOwn, ReadyTogether,
              FetchesStand, HasList, P!Idle, P!NoRequest, P!Init
<1>6. \A c \in Calls : Loaded(c)
  BY <1>4 DEF Loaded, P!Idle
<1>7. RoutesStand
  BY DEF RoutesStand, P!Init
<1> QED
  BY <1>3, <1>5, <1>6, <1>7 DEF ProvidersInv

\* What the listing and the routes rest on holds for good.
THEOREM ProvidersInvariant ==
    ASSUME ProvidersConstants
    PROVE  P!Spec => []ProvidersInv
<1>1. ProvidersInv /\ [P!Next]_(P!vars) => ProvidersInv'
  <2>. SUFFICES ASSUME ProvidersInv, [P!Next]_(P!vars) PROVE ProvidersInv'
    OBVIOUS
  <2>1. ASSUME NEW c \in Calls,
               \/ P!Begin(c) \/ P!OneLoaded(c) \/ P!AllAreLoaded(c)
               \/ P!FileRead(c) \/ P!Prefetched(c) \/ P!Rebuild(c)
        PROVE  ProvidersInv'
    BY <2>1, BeginKeeps, LoopsKeep, RefreshKeeps, RebuildKeeps
  <2>2. ASSUME NEW c \in Calls, NEW ch \in P!Chains, NEW e \in 0..edition, P!Answer(c, ch, e)
        PROVE  ProvidersInv'
    BY <2>2, AnswerKeeps
  <2> QED
    BY <2>1, <2>2, OutsideKeeps DEF P!Next
<1> QED
  BY <1>1, ProvidersInitHolds, PTL DEF P!Spec

\* A listing of all assets that no failure and no refresh disturbs has the assets of every
\* chain, and no call awaits a fetch that is over (registry-provider.ts:434, :462).
THEOREM ListingsAreComplete ==
    ASSUME ProvidersConstants
    PROVE  P!Spec => []P!ListingIsComplete
<1>1. ProvidersInv => P!ListingIsComplete
  <2>. SUFFICES ASSUME ProvidersInv PROVE P!ListingIsComplete
    OBVIOUS
  <2>1. P!PendingIsInFlight
    <3>. SUFFICES ASSUME P!Quiet
                  PROVE  P!NoneSettled /\
                         (pendingAllLoad # NoCall => request[pendingAllLoad].kind = "all")
      BY DEF P!PendingIsInFlight
    <3>1. \A ch \in P!Chains : pendingFetches[ch] # NoCall =>
             InFlight(pendingFetches[ch], ch)
      BY DEF ProvidersInv, CallsStand, FetchesStand, HasList, P!Quiet, ProvidersTypeOK
    <3> QED
      BY <3>1 DEF P!NoneSettled, InFlight, ProvidersInv, CallsStand, FetchesStand
  <2>2. ASSUME NEW c \in Calls, call[c].op = "listAssets", call[c].at = "done",
               c \notin disturbed
        PROVE  P!Known(call[c].listed) \subseteq P!Known(call[c].found)
    BY <2>2 DEF ProvidersInv, Loaded
  <2> QED
    BY <2>1, <2>2 DEF P!ListingIsComplete
<1> QED
  BY <1>1, ProvidersInvariant, PTL

\* The composite provider sends each chain to its first child that lists it, unless a
\* child has changed on its own since (composite-provider.ts:64, :271).
THEOREM RoutesAlwaysAgree ==
    ASSUME ProvidersConstants
    PROVE  P!Spec => []P!RoutesAgree
<1>1. ProvidersInv => P!RoutesAgree
  BY DEF ProvidersInv, RoutesStand, P!RoutesAgree, P!Quiet
<1> QED
  BY <1>1, ProvidersInvariant, PTL

=============================================================================
