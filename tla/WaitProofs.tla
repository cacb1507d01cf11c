----------------------------- MODULE WaitProofs -----------------------------
(***************************************************************************)
(* waitForEvent() and waitForTx() implement the abstract Wait and end      *)
(* properly, for any transactions, queries, filters and faults.            *)
(*                                                                         *)
(* Names without a prefix are those of WaitForEvent.  Those of WaitForTx   *)
(* have the prefix Tx!: a theorem about Tx!Spec speaks of a waitForTx() and*)
(* says nothing of WaitForEvent's Spec, although both modules name the     *)
(* local variables of their functions alike.                               *)
(***************************************************************************)
EXTENDS WaitForEvent, FiniteSetTheorems, WellFoundedInduction, TLAPS

CONSTANTS BlockSlots, TxSettings
VARIABLES faults, dropped, blockDue, query, included

Tx == INSTANCE WaitForTx WITH Settings <- TxSettings

-----------------------------------------------------------------------------
\* waitForEvent().
Matches == Landed \cap setting.matching

\* The strengthening: whatever is under way to the wait is on the chain, and whatever
\* it has collected matches; ...
UnderWayIsLanded ==
    /\ past.txs \subseteq Landed /\ answer \subseteq Landed
    /\ \A i \in DOMAIN events : events[i] \in Landed

CollectedMatches == \A r \in results : r.tx \in Matches

\* ... a wait that is over is over on the path it was on, has collected something if it
\* found something, and returned nothing otherwise; ...
EndedOnItsPath ==
    /\ outcome # "waiting" => IF stage = "websocket" THEN resolved ELSE poll = "done"
    /\ IF outcome = "found" THEN results # {} ELSE returned = {}

\* ... and the WebSocket path is dead once polling has begun.
PathsApart ==
    /\ stage = "polling" <=> poll # "off"
    /\ ~hasWss => stage = "polling" /\ past = NotAsked
    /\ timer => stage = "websocket" /\ ~resolved
    /\ resolved => session = "closed"
    /\ session = "closed" => resolved

WaitInv ==
    /\ TypeOK
    /\ UnderWayIsLanded
    /\ CollectedMatches
    /\ EndedOnItsPath
    /\ PathsApart
    /\ NothingLeftBehind
    /\ NothingCollectedIsLost

-----------------------------------------------------------------------------
\* There are finitely many results, so their numbers can be compared.
LEMMA ResultsAreFinite == \A S \in SUBSET Result : IsFiniteSet(S) /\ Cardinality(S) \in Nat
<1>. DEFINE AsResult == [p \in Txs \X Keys |-> [tx |-> p[1], key |-> p[2]]]
<1>1. IsFiniteSet(Keys)
  <2>1. Keys = {"hash"} \cup {"bytes"}
    BY DEF Keys
  <2>. QED  BY <2>1, FS_Singleton, FS_AddElement
<1>2. IsFiniteSet(Txs \X Keys)
  BY <1>1, FS_Product, WaitForEventAssumption
<1>3. AsResult \in Surjection(Txs \X Keys, Result)
  <2>1. ASSUME NEW r \in Result PROVE AsResult[<<r.tx, r.key>>] = r
    BY DEF Result
  <2>2. AsResult \in [Txs \X Keys -> Result]
    BY DEF Result
  <2>3. \A r \in Result : <<r.tx, r.key>> \in Txs \X Keys
    BY DEF Result
  <2>. HIDE DEF AsResult
  <2>. QED  BY <2>1, <2>2, <2>3 DEF Surjection
<1>4. IsFiniteSet(Result)
  <2>. HIDE DEF AsResult
  <2>. QED  BY <1>2, <1>3, FS_Surjection
<1>. QED  BY <1>4, FS_Subset, FS_CardinalityType

\* What a wait returns is among the results it is returned from, and no more than were
\* asked for.
LEMMA FirstOnes ==
    ASSUME NEW n \in Nat, NEW all \in SUBSET Result, NEW some, IsFirst(n, some, all)
    PROVE  some \subseteq all /\ Cardinality(some) <= n
BY ResultsAreFinite DEF IsFirst

\* The numbers of a setting.
LEMMA SettingTyped ==
    ASSUME setting \in Settings
    PROVE  maxResults \in Nat \ {0} /\ setting.matching \subseteq Txs
BY WaitForEventAssumption DEF Setting, maxResults

\* What the query answers is on the chain.
LEMMA AnswerIsLanded == ASSUME TypeOK PROVE Answer \subseteq Landed /\ Answer \subseteq Txs
<1>1. 1..indexed \subseteq DOMAIN chain
  BY DEF TypeOK
<1>2. Landed \subseteq Txs
  BY DEF Landed, TypeOK
<1>. QED  BY <1>1, <1>2 DEF Answer, Landed

\* A wait begins with one path taken and nothing under way.
LEMMA WaitInit == Init => WaitInv
<1>. SUFFICES ASSUME Init PROVE WaitInv
  OBVIOUS
<1>1. chain \in Seq(Txs) /\ \A i, j \in DOMAIN chain : chain[i] = chain[j] => i = j
  <2>1. CASE chain = <<>>
    BY <2>1
  <2>2. ASSUME NEW t \in Txs, chain = <<t>>
        PROVE  chain \in Seq(Txs) /\ \A i, j \in DOMAIN chain : chain[i] = chain[j] => i = j
    BY <2>2
  <2>. QED  BY <2>1, <2>2 DEF Init
<1>2. maxResults \in Nat \ {0}
  BY SettingTyped DEF Init
<1>3. Cardinality({}) = 0
  BY FS_EmptySet
<1>4. TypeOK
  <2>1. /\ {hasWss, resolved, timer, expired} \subseteq BOOLEAN
        /\ session \in {"opening", "none"} /\ (session = "none" <=> ~hasWss)
        /\ stage \in {"websocket", "polling"} /\ poll \in {"off", "checking"}
    BY DEF Init
  <2>2. events \in Seq(Txs) /\ indexed \in 0..Len(chain)
    BY <1>1 DEF Init
  <2>3. past \in [state : {"none", "asked", "answered", "rejected"}, txs : SUBSET Txs]
    BY DEF Init, NotAsked
  <2>. QED  BY <1>1, <1>2, <1>3, <2>1, <2>2, <2>3 DEF Init, TypeOK
<1>. QED
  BY <1>4 DEF Init, WaitInv, UnderWayIsLanded, CollectedMatches, EndedOnItsPath, PathsApart,
              NothingLeftBehind, NothingCollectedIsLost, NotAsked

-----------------------------------------------------------------------------
\* complete() returns some of the matches there are, of which there is one.
LEMMA Completes ==
    ASSUME WaitInv, NEW from \in SUBSET Result, from # {}, Return(from)
    PROVE  returned' \subseteq from /\ Cardinality(returned') <= maxResults
BY FirstOnes, SettingTyped DEF Return, WaitInv, TypeOK

\* A batch of matches either completes the wait or only adds to what it has collected.
LEMMA BatchIsAdded ==
    ASSUME WaitInv, NEW new \in SUBSET Result, \A r \in new : r.tx \in Matches,
           AddResults(new)
    PROVE  /\ results' \subseteq Result /\ results \subseteq results'
           /\ \A r \in results' : r.tx \in Matches
           /\ \/ UNCHANGED <<resolved, timer, session, returned, outcome>>
              \/ /\ resolved' = TRUE /\ timer' = FALSE /\ session' = "closed"
                 /\ outcome' = "found" /\ results' # {}
                 /\ returned' \subseteq results' /\ Cardinality(returned') <= maxResults
<1>1. PICK some \in SUBSET new : results' = results \cup some
  BY DEF AddResults
<1>2. /\ results' \subseteq Result /\ results \subseteq results'
      /\ \A r \in results' : r.tx \in Matches
  BY <1>1 DEF WaitInv, TypeOK, CollectedMatches
<1>3. CASE Cardinality(results') >= maxResults
  <2>1. results' # {}
    <3>1. Cardinality({}) = 0 /\ maxResults \in Nat \ {0}
      BY FS_EmptySet, SettingTyped DEF WaitInv, TypeOK
    <3>. QED  BY <1>3, <3>1
  <2>2. Complete(results')
    BY <1>3 DEF AddResults
  <2>. QED  BY <1>2, <2>1, <2>2, Completes DEF Complete, Cleanup
<1>4. CASE ~(Cardinality(results') >= maxResults)
  BY <1>2, <1>4 DEF AddResults
<1>. QED  BY <1>3, <1>4

\* A session or a query that lives while `resolved` is not set belongs to a wait that is
\* still on the WebSocket path.
LEMMA OnWebSocketPath ==
    ASSUME WaitInv, ~resolved, past # NotAsked \/ session \notin {"none", "closed"}
    PROVE  stage = "websocket" /\ poll = "off" /\ hasWss /\ outcome = "waiting"
BY DEF WaitInv, TypeOK, PathsApart, EndedOnItsPath, NothingLeftBehind

\* Every step preserves the strengthening.
LEMMA WaitStep == WaitInv /\ [Next]_vars => WaitInv'
<1>. SUFFICES ASSUME WaitInv, [Next]_vars PROVE WaitInv'
  OBVIOUS
<1>. USE DEF WaitInv, UnderWayIsLanded, CollectedMatches, EndedOnItsPath, PathsApart,
             NothingLeftBehind, NothingCollectedIsLost
<1>t. maxResults \in Nat \ {0} /\ Cardinality({}) = 0
  BY FS_EmptySet, SettingTyped DEF TypeOK
<1>m. UNCHANGED <<setting, chain>> =>
         Landed' = Landed /\ Matches' = Matches /\ maxResults' = maxResults
  BY DEF Landed, Matches, maxResults
<1>1. CASE UNCHANGED vars
  BY <1>1, <1>m DEF vars, wsVars, pollVars, chainVars, TypeOK
<1>2. CASE NodeSubscribes
  BY <1>2, <1>m, OnWebSocketPath DEF NodeSubscribes, pollVars, chainVars, TypeOK
<1>3. CASE Subscribed
  BY <1>3, <1>m, OnWebSocketPath
  DEF Subscribed, QueryPast, NotAsked, pollVars, chainVars, TypeOK
<1>4. CASE SubscribeFails
  BY <1>4, <1>m, OnWebSocketPath DEF SubscribeFails, Cleanup, chainVars, TypeOK
<1>5. CASE ConnectionDrops
  BY <1>5, <1>m DEF ConnectionDrops, pollVars, chainVars, TypeOK
<1>6. CASE OnTx
  <2>. DEFINE t == Head(events)
  <2>1. /\ t \in Txs /\ (Accepts(t) => t \in Matches)
        /\ events' \in Seq(Txs) /\ \A i \in DOMAIN events' : events'[i] \in Landed
    BY <1>6 DEF OnTx, TypeOK, Accepts, Matches
  <2>w. /\ stage = "websocket" /\ poll = "off" /\ hasWss /\ outcome = "waiting" /\ ~resolved
        /\ returned = {}
        /\ UNCHANGED <<setting, hasWss, stage, past, poll, answer, expired, chain, indexed>>
    BY <1>6, OnWebSocketPath DEF OnTx, pollVars, chainVars
  <2>2. CASE Accepts(t) /\ ~Has("bytes", t)
    <3>. DEFINE new == {[tx |-> t, key |-> "bytes"]}
    <3>1. AddResults(new)
      BY <1>6, <2>2 DEF OnTx
    <3>2. new \in SUBSET Result /\ \A r \in new : r.tx \in Matches
      BY <2>1, <2>2 DEF Result, Keys
    <3>. HIDE DEF new
    <3>. QED  BY <1>m, <2>1, <2>w, <3>1, <3>2, BatchIsAdded DEF TypeOK
  <2>3. CASE ~(Accepts(t) /\ ~Has("bytes", t))
    BY <1>6, <1>m, <2>1, <2>3 DEF OnTx, pollVars, chainVars, TypeOK
  <2>. QED  BY <2>2, <2>3
<1>7. CASE PastReturns
  <2>. DEFINE new == {[tx |-> t, key |-> "hash"] :
                         t \in {u \in past.txs : Accepts(u) /\ ~Has("hash", u)}}
  <2>1. new \in SUBSET Result /\ \A r \in new : r.tx \in Matches
    BY DEF TypeOK, Result, Keys, Accepts, Matches
  <2>2. CASE past.state = "answered" /\ ~resolved
    <3>1. AddResults(new)
      BY <1>7, <2>2 DEF PastReturns
    <3>2. /\ stage = "websocket" /\ poll = "off" /\ hasWss /\ outcome = "waiting"
          /\ returned = {} /\ past' = NotAsked
          /\ UNCHANGED <<setting, hasWss, stage, events, poll, answer, expired, chain, indexed>>
      BY <1>7, <2>2, OnWebSocketPath DEF PastReturns, NothingPast, NotAsked, pollVars, chainVars
    <3>. HIDE DEF new
    <3>. QED  BY <1>m, <2>1, <2>2, <3>1, <3>2, BatchIsAdded DEF NotAsked, TypeOK
  <2>3. CASE ~(past.state = "answered" /\ ~resolved)
    BY <1>7, <1>m, <2>3 DEF PastReturns, NotAsked, pollVars, chainVars, TypeOK
  <2>. QED  BY <2>2, <2>3
<1>8. CASE TimerFires
  <2>1. CASE NothingToReturn
    BY <1>8, <1>m, <2>1
    DEF TimerFires, NothingToReturn, Complete, Cleanup, pollVars, chainVars, TypeOK
  <2>2. CASE ~NothingToReturn
    <3>1. returned' \subseteq results /\ Cardinality(returned') <= maxResults
      BY <1>8, <2>2, Completes DEF TimerFires, NothingToReturn, Complete, TypeOK
    <3>. QED  BY <1>8, <1>m, <2>2, <3>1
              DEF TimerFires, NothingToReturn, Complete, Cleanup, pollVars, chainVars, TypeOK
  <2>. QED  BY <2>1, <2>2
<1>9. CASE PollExpires
  BY <1>9, <1>m DEF PollExpires, wsVars, chainVars, TypeOK
<1>10. CASE PollCheck
  <2>1. expired /\ ~NothingToReturn =>
           returned' \subseteq results /\ Cardinality(returned') <= maxResults
    BY <1>10, Completes DEF PollCheck, NothingToReturn, TypeOK
  <2>. QED  BY <1>10, <1>m, <2>1 DEF PollCheck, NothingToReturn, wsVars, chainVars, TypeOK
<1>11. CASE PollReturns
  <2>1. results' \subseteq Result /\ \A r \in results' : r.tx \in Matches
    BY <1>11 DEF PollReturns, TypeOK, Result, Keys, Accepts, Matches
  <2>2. CASE poll = "answered" /\ Cardinality(results') >= maxResults
    <3>1. results' # {} /\ outcome' = "found" /\ poll' = "done" /\ Return(results')
      BY <1>11, <1>t, <2>2 DEF PollReturns
    <3>2. returned' \subseteq results' /\ Cardinality(returned') <= maxResults
      BY <2>1, <3>1, Completes
    <3>. QED  BY <1>11, <1>m, <2>1, <2>2, <3>1, <3>2 DEF PollReturns, wsVars, chainVars, TypeOK
  <2>3. CASE ~(poll = "answered" /\ Cardinality(results') >= maxResults)
    BY <1>11, <1>m, <2>1, <2>3 DEF PollReturns, wsVars, chainVars, TypeOK
  <2>. QED  BY <2>2, <2>3
<1>12. CASE PollWakes
  BY <1>12, <1>m DEF PollWakes, wsVars, chainVars, TypeOK
<1>13. CASE Indexed
  BY <1>13, <1>m DEF Indexed, wsVars, pollVars, TypeOK
<1>14. CASE PastAnswered
  BY <1>14, <1>m, AnswerIsLanded DEF PastAnswered, NotAsked, pollVars, chainVars, TypeOK
<1>15. CASE PollAnswered
  BY <1>15, <1>m, AnswerIsLanded DEF PollAnswered, wsVars, chainVars, TypeOK
<1>16. ASSUME NEW t \in Txs, NewBlock(t) PROVE WaitInv'
  <2>1. chain' = Append(chain, t) /\ t \notin Landed /\ chain \in Seq(Txs)
    BY <1>16 DEF NewBlock, TypeOK
  <2>2. Landed' = Landed \cup {t} /\ Matches \subseteq Matches' /\ maxResults' = maxResults
    BY <1>16, <2>1 DEF NewBlock, Landed, Matches, maxResults
  <2>3. /\ chain' \in Seq(Txs) /\ \A i, j \in DOMAIN chain' : chain'[i] = chain'[j] => i = j
        /\ indexed' \in 0..Len(chain')
    BY <1>16, <2>1 DEF NewBlock, Landed, TypeOK
  <2>4. events' \in Seq(Txs) /\ \A i \in DOMAIN events' : events'[i] \in Landed'
    BY <1>16, <2>2 DEF NewBlock, TypeOK
  <2>. QED  BY <1>16, <2>2, <2>3, <2>4 DEF NewBlock, pollVars, TypeOK
<1>. QED
  BY <1>1, <1>2, <1>3, <1>4, <1>5, <1>6, <1>7, <1>8, <1>9, <1>10, <1>11, <1>12, <1>13,
     <1>14, <1>15, <1>16 DEF Next, WebSocketPath, PollingPath, Chain

-----------------------------------------------------------------------------
\* A match stays on the chain, and only a block puts it there.
LEMMA LandedGrows == ASSUME [Next]_vars PROVE MatchLanded => MatchLanded'
<1>1. CASE UNCHANGED <<setting, chain>>
  BY <1>1 DEF MatchLanded, Landed
<1>2. ASSUME NEW t \in Txs, NewBlock(t) PROVE MatchLanded => MatchLanded'
  BY <1>2 DEF NewBlock, MatchLanded, Landed
<1>. QED
  BY <1>1, <1>2
  DEF Next, WebSocketPath, PollingPath, Chain, vars, wsVars, pollVars, chainVars,
      NodeSubscribes,
      Subscribed, SubscribeFails, ConnectionDrops, TimerFires, OnTx, PastReturns, PollExpires,
      PollCheck, PollReturns, PollWakes, Indexed, PastAnswered, PollAnswered

\* Every step of waitForEvent() is a step of the abstract wait, or stutters.
LEMMA StepRefines ==
    ASSUME WaitInv, [Next]_vars
    PROVE  [Promise!Happens \/ Promise!Found \/ Promise!TimesOut]_<<MatchLanded, outcome>>
<1>. USE DEF Promise!Happens, Promise!Found, Promise!TimesOut
<1>i. WaitInv'
  BY WaitStep
<1>1. CASE outcome' = outcome
  BY <1>1, LandedGrows DEF MatchLanded
<1>2. CASE outcome' # outcome
  <2>1. UNCHANGED <<setting, chain>>
    BY <1>2 DEF Next, WebSocketPath, PollingPath, Chain, vars, chainVars, pollVars, wsVars,
                NodeSubscribes, Subscribed, SubscribeFails, ConnectionDrops, TimerFires, OnTx,
                PastReturns, PollExpires, PollCheck, PollReturns, PollWakes, Indexed,
                PastAnswered, PollAnswered, NewBlock
  <2>2. outcome = "waiting"
    <3>1. \/ ~resolved /\ (timer \/ past # NotAsked \/ session = "subscribed")
          \/ poll \in {"checking", "answered", "rejected"}
      BY <1>2 DEF Next, WebSocketPath, PollingPath, Chain, vars, chainVars, pollVars, wsVars,
                  NodeSubscribes, Subscribed, SubscribeFails, ConnectionDrops, TimerFires, OnTx,
                  PastReturns, PollExpires, PollCheck, PollReturns, PollWakes, Indexed,
                  PastAnswered, PollAnswered, NewBlock, NotAsked
    <3>. QED  BY <3>1 DEF WaitInv, EndedOnItsPath, PathsApart, NothingLeftBehind, TypeOK
  <2>3. outcome' = "found" => MatchLanded'
    BY <1>i DEF WaitInv, EndedOnItsPath, CollectedMatches, Matches, MatchLanded
  <2>4. outcome' \in {"found", "timeout"}
    BY <1>2, <1>i, <2>2 DEF WaitInv, TypeOK
  <2>5. MatchLanded' = MatchLanded
    BY <2>1 DEF MatchLanded, Landed
  <2>. QED  BY <2>2, <2>3, <2>4, <2>5
<1>. QED  BY <1>1, <1>2

\* waitForEvent() implements the abstract wait: it ends once, finds a match only if one is
\* on the chain, and takes nothing back.
THEOREM WaitForEventIsWait == Spec => ImplementsWait
<1>1. Init => Promise!Init
  BY DEF Init, Promise!Init, MatchLanded
<1>2. WaitInv /\ [Next]_vars =>
        [Promise!Happens \/ Promise!Found \/ Promise!TimesOut]_<<MatchLanded, outcome>>
  BY StepRefines
<1>. QED
  BY <1>1, <1>2, WaitInit, WaitStep, PTL DEF Spec, ImplementsWait, Promise!Spec, Promise!vars

-----------------------------------------------------------------------------
\* What the query selects, as far as it is indexed.
Hits == {t \in setting.queried : \E i \in 1..indexed : chain[i] = t /\ i >= fromHeight}

\* Every transaction has one height, and keeps it.
LEMMA HeightIsPlace ==
    ASSUME TypeOK, NEW t \in Landed
    PROVE  Height(t) \in DOMAIN chain /\ chain[Height(t)] = t
BY DEF Landed, Height

LEMMA HeightStays ==
    ASSUME TypeOK, NEW u \in Txs, u \notin Landed, chain' = Append(chain, u), NEW t \in Landed
    PROVE  Height(t)' = Height(t)
<1>1. /\ Height(t) \in DOMAIN chain' /\ chain'[Height(t)] = t
      /\ chain \in Seq(Txs) /\ chain' \in Seq(Txs)
  BY HeightIsPlace DEF TypeOK
<1>2. ASSUME NEW i \in DOMAIN chain', chain'[i] = t PROVE i = Height(t)
  <2>1. i # Len(chain) + 1
    BY <1>1, <1>2
  <2>2. i \in DOMAIN chain /\ chain[i] = t
    BY <1>1, <1>2, <2>1
  <2>. QED  BY <2>2, HeightIsPlace DEF TypeOK
<1>3. Height(t)' \in DOMAIN chain' /\ chain'[Height(t)'] = t
  BY <1>1 DEF Height
<1>. QED  BY <1>2, <1>3

\* A hit that the answer leaves out has enough hits before it, of which the answer has
\* those before the first one it leaves out.
LEMMA AnswerIsEnough ==
    ASSUME TypeOK, Answer # Hits
    PROVE  Cardinality(Answer) >= maxResults
<1>1. /\ Answer \subseteq Hits /\ Hits \subseteq Landed /\ Hits \subseteq Txs
      /\ Answer = {t \in Hits : Cardinality({u \in Hits : Height(u) < Height(t)}) < maxResults}
  <2>1. 1..indexed \subseteq DOMAIN chain /\ Landed \subseteq Txs
    BY DEF TypeOK, Landed
  <2>. QED  BY <2>1 DEF Answer, Hits, Landed
<1>2. \A t \in Hits : Height(t) \in Nat
  BY <1>1, HeightIsPlace DEF TypeOK
<1>3. PICK t \in Hits \ Answer : \A u \in Hits \ Answer : Height(t) <= Height(u)
  <2>. DEFINE R == OpToRel(<, Nat)
              S == {Height(u) : u \in Hits \ Answer}
  <2>1. \A x, y \in Nat : <<x, y>> \in R <=> x < y
    BY DEF OpToRel
  <2>2. IsWellFoundedOn(R, Nat)
    BY NatLessThanWellFounded
  <2>3. S \in SUBSET Nat /\ S # {}
    BY <1>1, <1>2
  <2>. HIDE DEF R
  <2>4. PICK x \in S : \A y \in S : ~(<<y, x>> \in R)
    BY <2>2, <2>3, WFMin
  <2>5. PICK t \in Hits \ Answer : x = Height(t)
    OBVIOUS
  <2>6. ASSUME NEW u \in Hits \ Answer PROVE Height(t) <= Height(u)
    <3>1. Height(u) \in S /\ Height(u) \in Nat /\ Height(t) \in Nat
      BY <1>2
    <3>2. ~(Height(u) < Height(t))
      <4>. HIDE DEF S
      <4>. QED  BY <2>1, <2>4, <2>5, <3>1
    <3>. QED  BY <3>1, <3>2
  <2>. QED  BY <2>6
<1>. DEFINE Before == {u \in Hits : Height(u) < Height(t)}
<1>4. Before \subseteq Answer
  BY <1>2, <1>3
<1>5. IsFiniteSet(Answer) /\ IsFiniteSet(Before) /\ Cardinality(Before) <= Cardinality(Answer)
  <2>1. IsFiniteSet(Answer)
    BY <1>1, FS_Subset, WaitForEventAssumption
  <2>. QED  BY <1>4, <2>1, FS_Subset
<1>6. Cardinality(Answer) \in Nat /\ Cardinality(Before) \in Nat
  BY <1>5, FS_CardinalityType
<1>7. maxResults \in Nat /\ ~(Cardinality(Before) < maxResults)
  BY <1>1, <1>3, SettingTyped DEF TypeOK
<1>. QED  BY <1>5, <1>6, <1>7

\* Results that are added to those there are either complete the wait or are all added.
LEMMA AddedOrEnough ==
    ASSUME TypeOK, NEW new \in SUBSET Result, new \cap results = {}, AddResults(new),
           Cardinality(results) < maxResults
    PROVE  \/ outcome' = "found"
           \/ /\ results' = results \cup new /\ Cardinality(results') < maxResults
              /\ Cardinality(new) < maxResults
<1>1. /\ IsFiniteSet(results) /\ IsFiniteSet(new) /\ maxResults \in Nat \ {0}
      /\ Cardinality(results) \in Nat /\ Cardinality(new) \in Nat
  BY ResultsAreFinite, SettingTyped DEF TypeOK
<1>. DEFINE room == maxResults - Cardinality(results)
<1>2. PICK some \in SUBSET new : IsFirst(room, some, new) /\ results' = results \cup some
  BY DEF AddResults
<1>3. /\ IsFiniteSet(some) /\ Cardinality(some) \in Nat
      /\ Cardinality(new) = Cardinality(some) => new = some
  BY <1>1, FS_Subset, FS_CardinalityType
<1>4. Cardinality(results') = Cardinality(results) + Cardinality(some)
  <2>1. results \cap some = {} /\ Cardinality({}) = 0
    BY FS_EmptySet
  <2>. QED  BY <1>1, <1>2, <1>3, <2>1, FS_Union
<1>5. CASE Cardinality(results') >= maxResults
  BY <1>5 DEF AddResults, Complete
<1>6. CASE ~(Cardinality(results') >= maxResults)
  <2>1. Cardinality(some) = IF Cardinality(new) < room THEN Cardinality(new) ELSE room
    BY <1>2 DEF IsFirst
  <2>2. Cardinality(some) < room
    BY <1>1, <1>3, <1>4, <1>6
  <2>3. Cardinality(new) = Cardinality(some)
    BY <1>1, <1>3, <2>1, <2>2
  <2>. QED  BY <1>1, <1>2, <1>3, <1>4, <1>6, <2>2, <2>3
<1>. QED  BY <1>5, <1>6

\* What keeps a match from being missed: the query for the past comes after the
\* subscription, once, and answers from an index that is not behind; until it has, nothing
\* is collected by hash, and never as much as is asked for.
Collecting ==
    ExactQuery /\ outcome = "waiting" /\ stage = "websocket" =>
        /\ session \in {"opening", "confirming", "subscribed"}
        /\ past.state # "rejected" /\ (past.state # "answered" => past.txs = {})
        /\ past.txs \subseteq setting.matching
        /\ session # "subscribed" => past = NotAsked
        /\ session # "subscribed" \/ past # NotAsked => \A r \in results : r.key = "bytes"
        /\ indexed = Len(chain)
        /\ Cardinality(results) < maxResults

LEMMA CollectingBegins == Init => Collecting /\ NoMatchIsMissed
<1>. SUFFICES ASSUME Init PROVE Collecting /\ NoMatchIsMissed
  OBVIOUS
<1>1. Cardinality({}) = 0 /\ maxResults \in Nat \ {0}
  BY FS_EmptySet, SettingTyped DEF Init
<1>. QED  BY <1>1 DEF Init, Collecting, NoMatchIsMissed, NotAsked

\* The steps of a wait with an exact query that goes on.
LEMMA CollectingGoesOn ==
    ASSUME WaitInv, Collecting, NoMatchIsMissed, [Next]_vars
    PROVE  Collecting' /\ NoMatchIsMissed'
<1>1. UNCHANGED setting /\ (stage' = "websocket" => stage = "websocket")
  BY DEF Next, WebSocketPath, PollingPath, Chain, vars, NodeSubscribes, Subscribed,
     SubscribeFails, ConnectionDrops, TimerFires, OnTx, PastReturns, PollExpires, PollCheck,
     PollReturns, PollWakes, Indexed, PastAnswered, PollAnswered, NewBlock
<1>2. outcome' = "waiting" => outcome = "waiting"
  BY StepRefines DEF Promise!Happens, Promise!Found, Promise!TimesOut
<1>3. /\ ExactQuery' <=> ExactQuery
      /\ maxResults' = maxResults /\ fromHeight' = fromHeight
  BY <1>1 DEF ExactQuery, maxResults, fromHeight
<1>. SUFFICES ASSUME ExactQuery, outcome = "waiting", outcome' = "waiting",
                     stage = "websocket", stage' = "websocket"
              PROVE  Collecting' /\ NoMatchIsMissed'
  BY <1>1, <1>2, <1>3 DEF Collecting, NoMatchIsMissed
<1>t. TypeOK /\ TypeOK' /\ maxResults \in Nat \ {0} /\ Cardinality({}) = 0
  BY WaitStep, FS_EmptySet, SettingTyped DEF WaitInv, TypeOK
<1>c. /\ session \in {"opening", "confirming", "subscribed"}
      /\ past.state # "rejected" /\ (past.state # "answered" => past.txs = {})
      /\ past.txs \subseteq setting.matching
      /\ session # "subscribed" => past = NotAsked
      /\ session # "subscribed" \/ past # NotAsked => \A r \in results : r.key = "bytes"
      /\ indexed = Len(chain)
      /\ Cardinality(results) < maxResults
  BY DEF Collecting
<1>p. ~resolved /\ poll = "off" /\ setting.faults \subseteq {"timeout"}
      /\ setting.queried = setting.matching
  BY <1>c DEF WaitInv, PathsApart, TypeOK, ExactQuery
<1>4. CASE UNCHANGED vars
  BY <1>1, <1>3, <1>4 DEF vars, wsVars, chainVars, Collecting, NoMatchIsMissed, NotAsked, Landed, Height
<1>5. CASE NodeSubscribes
  BY <1>1, <1>3, <1>5, <1>c DEF NodeSubscribes, chainVars, Collecting, NoMatchIsMissed, NotAsked
<1>6. CASE Subscribed
  BY <1>1, <1>3, <1>6, <1>c DEF Subscribed, QueryPast, chainVars, Collecting, NoMatchIsMissed, NotAsked
<1>7. CASE OnTx
  <2>. DEFINE t == Head(events)
              new == {[tx |-> t, key |-> "bytes"]}
  <2>1. /\ session = "subscribed" /\ events # <<>> /\ events' = Tail(events)
        /\ UNCHANGED <<past, chain, indexed>>
        /\ IF Accepts(t) /\ ~Has("bytes", t) THEN AddResults(new)
           ELSE UNCHANGED <<results, session>>
    BY <1>7 DEF OnTx, chainVars
  <2>2. t \in Txs /\ \A u : (\E i \in DOMAIN events : events[i] = u) =>
                             u = t \/ \E i \in DOMAIN events' : events'[i] = u
    <3>1. events \in Seq(Txs) /\ events # <<>>
      BY <1>t, <2>1 DEF TypeOK
    <3>2. ASSUME NEW i \in DOMAIN events, i # 1
          PROVE  i - 1 \in DOMAIN events' /\ events'[i - 1] = events[i]
      BY <2>1, <3>1, <3>2
    <3>. QED  BY <3>1, <3>2
  <2>3. t \in setting.matching => \E r \in results' : r.tx = t
    <3>1. CASE Accepts(t) /\ ~Has("bytes", t)
      <4>1. new \in SUBSET Result /\ new \cap results = {} /\ AddResults(new)
        BY <2>1, <2>2, <3>1 DEF Has, Result, Keys
      <4>2. results' = results \cup new
        BY <1>c, <1>t, <4>1, AddedOrEnough
      <4>3. [tx |-> t, key |-> "bytes"] \in results'
        BY <4>2
      <4>. HIDE DEF t
      <4>. QED  BY <4>3
    <3>2. CASE Accepts(t) /\ Has("bytes", t)
      BY <2>1, <3>2 DEF Has
    <3>. QED  BY <3>1, <3>2 DEF Accepts
  <2>4. /\ results \subseteq results' /\ session' = session
        /\ Cardinality(results') < maxResults
        /\ \A r \in results' \ results : r.key = "bytes"
    <3>1. CASE Accepts(t) /\ ~Has("bytes", t)
      <4>1. new \in SUBSET Result /\ new \cap results = {} /\ AddResults(new)
        BY <2>1, <2>2, <3>1 DEF Has, Result, Keys
      <4>2. results' = results \cup new /\ Cardinality(results') < maxResults
        BY <1>c, <1>t, <4>1, AddedOrEnough
      <4>3. session' = session
        BY <1>t, <4>1, <4>2, ResultsAreFinite DEF AddResults, Complete, TypeOK
      <4>. QED  BY <4>2, <4>3
    <3>2. CASE ~(Accepts(t) /\ ~Has("bytes", t))
      BY <1>c, <2>1, <3>2
    <3>. QED  BY <3>1, <3>2
  <2>5. Landed' = Landed /\ \A u : Height(u)' = Height(u)
    BY <2>1 DEF Landed, Height
  <2>. HIDE DEF t, new
  <2>6. Collecting'
    BY <1>1, <1>3, <1>c, <2>1, <2>4 DEF Collecting, NotAsked
  <2>7. NoMatchIsMissed'
    BY <1>1, <1>3, <1>c, <2>1, <2>2, <2>3, <2>4, <2>5 DEF NoMatchIsMissed
  <2>. QED  BY <2>6, <2>7
<1>8. CASE PastReturns
  <2>. DEFINE found == {u \in past.txs : Accepts(u) /\ ~Has("hash", u)}
              new == {[tx |-> t, key |-> "hash"] : t \in found}
  <2>1. /\ past.state = "answered" /\ session = "subscribed" /\ past # NotAsked
        /\ past' = NotAsked /\ AddResults(new) /\ UNCHANGED <<events, chain, indexed>>
    BY <1>8, <1>c, <1>p DEF PastReturns, NotAsked, chainVars
  <2>2. found = past.txs
    BY <1>c, <2>1 DEF Accepts, Has
  <2>3. new \in SUBSET Result /\ new \cap results = {}
    BY <1>c, <1>t, <2>1, <2>2 DEF TypeOK, Result, Keys
  <2>4. /\ results' = results \cup new /\ Cardinality(results') < maxResults
        /\ Cardinality(new) < maxResults
    <3>. HIDE DEF new
    <3>. QED  BY <1>c, <1>t, <2>1, <2>3, AddedOrEnough
  <2>5. session' = session
    BY <1>t, <2>1, <2>4, ResultsAreFinite DEF AddResults, Complete, TypeOK
  <2>6. Cardinality(past.txs) < maxResults
    <3>. DEFINE f == [t \in past.txs |-> [tx |-> t, key |-> "hash"]]
    <3>1. f \in Injection(past.txs, new)
      BY <2>2 DEF Injection, IsInjective
    <3>2. IsFiniteSet(new)
      BY <2>3, ResultsAreFinite
    <3>3. Cardinality(past.txs) <= Cardinality(new) /\ IsFiniteSet(past.txs)
      <4>. HIDE DEF new, f
      <4>. QED  BY <3>1, <3>2, FS_Injection
    <3>4. Cardinality(past.txs) \in Nat /\ Cardinality(new) \in Nat
      BY <3>2, <3>3, FS_CardinalityType
    <3>. QED  BY <1>t, <2>4, <3>3, <3>4
  <2>7. \A t \in past.txs : \E r \in results' : r.tx = t
    <3>1. \A t \in past.txs : [tx |-> t, key |-> "hash"] \in results'
      BY <2>2, <2>4
    <3>. QED  BY <3>1
  <2>8. Landed' = Landed /\ \A u : Height(u)' = Height(u)
    BY <2>1 DEF Landed, Height
  <2>9. Cardinality(past.txs) \in Nat
    <3>1. IsFiniteSet(past.txs)
      BY <1>t, FS_Subset, WaitForEventAssumption DEF TypeOK
    <3>. QED  BY <3>1, FS_CardinalityType
  <2>. HIDE DEF found, new
  <2>10. Collecting'
    BY <1>1, <1>3, <1>c, <2>1, <2>4, <2>5 DEF Collecting, NotAsked
  <2>11. NoMatchIsMissed'
    BY <1>1, <1>3, <1>t, <2>1, <2>4, <2>5, <2>6, <2>7, <2>8, <2>9 DEF NoMatchIsMissed
  <2>. QED  BY <2>10, <2>11
<1>9. CASE PastAnswered
  <2>1. /\ past.state = "asked" /\ past' = [state |-> "answered", txs |-> Answer]
        /\ session = "subscribed" /\ UNCHANGED <<session, events, results, chain, indexed>>
    BY <1>9, <1>c, <1>p DEF PastAnswered, Fault, chainVars, NotAsked
  <2>2. Landed' = Landed /\ (\A u : Height(u)' = Height(u)) /\ Answer \subseteq setting.matching
    BY <1>p, <2>1 DEF Landed, Height, Answer
  <2>3. \A t \in Landed \cap setting.matching : Height(t) >= fromHeight => t \in Hits
    <3>1. ASSUME NEW t \in Landed PROVE Height(t) \in 1..indexed /\ chain[Height(t)] = t
      BY <1>c, <1>t, HeightIsPlace DEF TypeOK
    <3>. QED  BY <1>p, <3>1 DEF Hits
  <2>4. Answer = Hits \/ Cardinality(Answer) >= maxResults
    BY <1>t, AnswerIsEnough
  <2>5. Collecting'
    BY <1>1, <1>3, <1>c, <2>1, <2>2 DEF Collecting, NotAsked
  <2>6. NoMatchIsMissed'
    BY <1>1, <1>3, <2>1, <2>2, <2>3, <2>4 DEF NoMatchIsMissed
  <2>. QED  BY <2>5, <2>6
<1>10. ASSUME NEW t \in Txs, NewBlock(t) PROVE Collecting' /\ NoMatchIsMissed'
  <2>1. /\ t \notin Landed /\ chain' = Append(chain, t) /\ indexed' = Len(chain')
        /\ (session \in {"confirming", "subscribed"} => events' = Append(events, t))
        /\ UNCHANGED <<session, past, results>>
        /\ chain \in Seq(Txs) /\ events \in Seq(Txs)
    BY <1>10, <1>p, <1>t DEF NewBlock, Fault, TypeOK
  <2>2. Landed' = Landed \cup {t}
    BY <2>1 DEF Landed
  <2>3. \A u \in Landed : Height(u)' = Height(u)
    BY <1>t, <2>1, HeightStays
  <2>4. session = "subscribed" =>
           \A u : u = t \/ (\E i \in DOMAIN events : events[i] = u) =>
                     \E i \in DOMAIN events' : events'[i] = u
    <3>1. ASSUME session = "subscribed"
          PROVE  /\ Len(events) + 1 \in DOMAIN events' /\ events'[Len(events) + 1] = t
                 /\ \A i \in DOMAIN events : i \in DOMAIN events' /\ events'[i] = events[i]
      <4>1. events \in Seq(Txs) /\ t \in Txs /\ events' = Append(events, t)
        BY <2>1, <3>1
      <4>2. DOMAIN events = 1..Len(events) /\ DOMAIN events' = 1..(Len(events) + 1)
            /\ Len(events) \in Nat
        BY <4>1
      <4>3. events'[Len(events) + 1] = t
            /\ \A i \in 1..Len(events) : events'[i] = events[i]
        BY <4>1
      <4>. QED  BY <4>2, <4>3
    <3>. QED  BY <3>1
  <2>5. Collecting'
    BY <1>1, <1>3, <1>c, <2>1 DEF Collecting, NotAsked
  <2>6. NoMatchIsMissed'
    BY <1>1, <1>3, <1>c, <2>1, <2>2, <2>3, <2>4 DEF NoMatchIsMissed
  <2>. QED  BY <2>5, <2>6
<1>11. CASE SubscribeFails \/ ConnectionDrops
  BY <1>11, <1>p DEF SubscribeFails, ConnectionDrops, Fault
<1>12. CASE TimerFires
  BY <1>12 DEF TimerFires, Complete
<1>13. CASE PollingPath \/ PollAnswered
  BY <1>13, <1>p DEF PollingPath, PollExpires, PollCheck, PollReturns, PollWakes, PollAnswered
<1>14. CASE Indexed
  BY <1>14, <1>c, <1>t DEF Indexed, TypeOK
<1>. QED
  BY <1>4, <1>5, <1>6, <1>7, <1>8, <1>9, <1>10, <1>11, <1>12, <1>13, <1>14
     DEF Next, WebSocketPath, Chain

\* With an exact query no match is missed as long as a wait goes on over the WebSocket; and
\* however it ends, it returns only matches that are on the chain, gives up only if it has
\* collected none (one may still be on its way to it), and leaves no timer, session or
\* subscription behind.
THEOREM EventWaitEndsProperly == Spec => []EndsProperly
<1>1. WaitInv /\ NoMatchIsMissed => EndsProperly
  BY
  DEF WaitInv, CollectedMatches, Matches, EndsProperly, OutcomeIsHonest, ReturnedMatches, TypeOK
<1>. QED
  BY <1>1, WaitInit, WaitStep, CollectingBegins, CollectingGoesOn, PTL DEF Spec

-----------------------------------------------------------------------------
\* waitForTx().
\* The strengthening: answers are true, a wait that is over is over on the path it
\* was on, and the WebSocket path is dead once polling has begun.
TxAnswersAreTrue ==
    /\ \A k \in Tx!Queries : query[k] = "found" => indexed
    /\ poll = "found" => indexed
TxEndedOnItsPath ==
    outcome # "waiting" => IF stage = "websocket" THEN resolved ELSE poll = "done"
TxPathsApart ==
    /\ stage = "polling" <=> poll # "off"
    /\ ~hasWss => stage = "polling" /\ \A k \in Tx!Queries : query[k] = "none"
    /\ timer => stage = "websocket" /\ ~resolved
    /\ resolved => session = "closed"

TxInv ==
    /\ Tx!TypeOK
    /\ TxAnswersAreTrue
    /\ TxEndedOnItsPath
    /\ TxPathsApart
    /\ Tx!NothingLeftBehind
    /\ Tx!OnePathAtATime

\* A wait begins with one path taken and no query in flight.
LEMMA TxInit == Tx!Init => TxInv
<1>. SUFFICES ASSUME Tx!Init PROVE TxInv
  OBVIOUS
<1>1. \A k \in Tx!Queries : query[k] = "none"
  BY DEF Tx!Init
<1>2. Tx!TypeOK
  BY DEF Tx!Init, Tx!TypeOK, Tx!SessionStates, Tx!Answers, Tx!PollStates
<1>. QED
  BY <1>1, <1>2 DEF Tx!Init, TxInv, TxAnswersAreTrue, TxEndedOnItsPath, TxPathsApart,
                    Tx!NothingLeftBehind, Tx!OnePathAtATime

\* A query that is in flight while `resolved` is not set belongs to a wait that is
\* still on the WebSocket path, and so does a session that is not closed.
LEMMA TxOnWebSocketPath ==
    ASSUME TxInv, ~resolved,
           (\E k \in Tx!Queries : query[k] # "none") \/ session \notin {"none", "closed"}
    PROVE  stage = "websocket" /\ poll = "off" /\ hasWss /\ outcome = "waiting"
BY DEF TxInv, Tx!TypeOK, TxPathsApart, Tx!OnePathAtATime, TxEndedOnItsPath, Tx!NothingLeftBehind

\* Every step preserves the strengthening.
LEMMA TxStep == TxInv /\ [Tx!Next]_(Tx!vars) => TxInv'
<1>. SUFFICES ASSUME TxInv, [Tx!Next]_(Tx!vars) PROVE TxInv'
  OBVIOUS
<1>. USE DEF TxInv, TxAnswersAreTrue, TxEndedOnItsPath, TxPathsApart, Tx!NothingLeftBehind,
             Tx!OnePathAtATime
<1>1. CASE UNCHANGED Tx!vars
  BY <1>1 DEF Tx!vars, Tx!wsVars, Tx!pollVars, Tx!chainVars, Tx!TypeOK
<1>2. CASE Tx!NodeSubscribes
  BY <1>2, TxOnWebSocketPath
  DEF Tx!NodeSubscribes, Tx!pollVars, Tx!chainVars, Tx!TypeOK, Tx!SessionStates
<1>3. CASE Tx!Subscribed
  <2>1. "existing" \in Tx!Queries
    BY DEF Tx!Queries
  <2>. QED
    BY <1>3, <2>1, TxOnWebSocketPath
    DEF Tx!Subscribed, Tx!QueryExisting, Tx!pollVars, Tx!chainVars, Tx!TypeOK,
        Tx!SessionStates, Tx!Answers
<1>4. CASE Tx!SubscribeFails
  BY <1>4, TxOnWebSocketPath
  DEF Tx!SubscribeFails, Tx!Fail, Tx!Cleanup, Tx!Fallback, Tx!chainVars, Tx!TypeOK,
      Tx!SessionStates, Tx!PollStates
<1>5. CASE Tx!ConnectionDrops
  BY <1>5 DEF Tx!ConnectionDrops, Tx!pollVars, Tx!chainVars, Tx!TypeOK, Tx!SessionStates
<1>6. CASE Tx!TimerFires
  BY <1>6
  DEF Tx!TimerFires, Tx!Fail, Tx!Cleanup, Tx!pollVars, Tx!chainVars, Tx!TypeOK, Tx!SessionStates
<1>7. ASSUME NEW k \in BlockSlots, Tx!OnBlock(k) PROVE TxInv'
  <2>1. k \in Tx!Queries
    BY DEF Tx!Queries
  <2>. QED
    BY <1>7, <2>1, TxOnWebSocketPath
    DEF Tx!OnBlock, Tx!QueryOnBlock, Tx!pollVars, Tx!chainVars, Tx!TypeOK, Tx!Answers
<1>8. ASSUME NEW k \in Tx!Queries, Tx!QueryReturns(k) PROVE TxInv'
  <2>1. /\ query' = [query EXCEPT ![k] = "none"] /\ query[k] # "none"
        /\ UNCHANGED <<faults, hasWss, stage, dropped, blockDue, poll, expired, included, indexed>>
    BY <1>8 DEF Tx!QueryReturns, Tx!pollVars, Tx!chainVars
  <2>2. \A j \in Tx!Queries : query'[j] = "none" \/ query'[j] = query[j]
    BY <2>1 DEF Tx!TypeOK
  <2>3. query' \in [Tx!Queries -> Tx!Answers]
    BY <2>1 DEF Tx!TypeOK, Tx!Answers
  <2>4. CASE /\ ~resolved /\ resolved' = TRUE /\ timer' = FALSE /\ session' = "closed"
             /\ outcome' = "found"
    BY <2>1, <2>2, <2>3, <2>4, TxOnWebSocketPath DEF Tx!TypeOK, Tx!SessionStates
  <2>5. CASE UNCHANGED <<resolved, timer, session, outcome>>
    BY <2>1, <2>2, <2>3, <2>5 DEF Tx!TypeOK
  <2>. QED  BY <1>8, <2>4, <2>5 DEF Tx!QueryReturns, Tx!Complete, Tx!Cleanup
<1>9. CASE Tx!PollExpires
  BY <1>9 DEF Tx!PollExpires, Tx!wsVars, Tx!chainVars, Tx!TypeOK
<1>10. CASE Tx!PollCheck
  BY <1>10 DEF Tx!PollCheck, Tx!wsVars, Tx!chainVars, Tx!TypeOK, Tx!PollStates
<1>11. CASE Tx!PollReturns
  BY <1>11 DEF Tx!PollReturns, Tx!PollAgain, Tx!wsVars, Tx!chainVars, Tx!TypeOK, Tx!PollStates
<1>12. CASE Tx!PollWakes
  BY <1>12 DEF Tx!PollWakes, Tx!wsVars, Tx!chainVars, Tx!TypeOK, Tx!PollStates
<1>13. CASE Tx!NewBlock
  BY <1>13 DEF Tx!NewBlock, Tx!pollVars, Tx!TypeOK
<1>14. CASE Tx!Indexed
  BY <1>14 DEF Tx!Indexed, Tx!wsVars, Tx!pollVars, Tx!TypeOK
<1>15. CASE Tx!PollAnswered
  BY <1>15
  DEF Tx!PollAnswered, Tx!Answer, Tx!Answers, Tx!wsVars, Tx!chainVars, Tx!TypeOK, Tx!PollStates
<1>16. ASSUME NEW k \in Tx!Queries, Tx!QueryAnswered(k) PROVE TxInv'
  <2>1. PICK a \in Tx!Answers : Tx!Answer(a) /\ query' = [query EXCEPT ![k] = a]
    BY <1>16 DEF Tx!QueryAnswered
  <2>2. /\ query[k] = "asked" /\ (a = "found" => indexed) /\ hasWss
        /\ UNCHANGED <<faults, hasWss, stage, outcome, resolved, timer, session, dropped, blockDue,
                       poll, expired, included, indexed>>
    BY <1>16, <2>1 DEF Tx!QueryAnswered, Tx!Answer, Tx!pollVars, Tx!chainVars
  <2>3. /\ query' \in [Tx!Queries -> Tx!Answers]
        /\ \A j \in Tx!Queries : query'[j] = "found" => indexed
    BY <2>1, <2>2 DEF Tx!TypeOK
  <2>. QED  BY <2>2, <2>3 DEF Tx!TypeOK
<1>. QED
  BY <1>1, <1>2, <1>3, <1>4, <1>5, <1>6, <1>7, <1>8, <1>9, <1>10, <1>11, <1>12, <1>13,
     <1>14, <1>15, <1>16 DEF Tx!Next, Tx!WebSocketPath, Tx!PollingPath, Tx!Chain

\* Whatever fails, no timer, session or subscription outlives its part of the wait,
\* and the two paths of waitForTx() never run at once.
THEOREM WaitCleansUp == Tx!Spec => [](Tx!NothingLeftBehind /\ Tx!OnePathAtATime)
<1>1. TxInv => Tx!NothingLeftBehind /\ Tx!OnePathAtATime
  BY DEF TxInv
<1>. QED  BY <1>1, TxInit, TxStep, PTL DEF Tx!Spec

\* Every step of waitForTx() is a step of the abstract wait, or stutters.
LEMMA TxStepRefines ==
    ASSUME TxInv, [Tx!Next]_(Tx!vars)
    PROVE  [Tx!Promise!Happens \/ Tx!Promise!Found \/ Tx!Promise!TimesOut]_<<included, outcome>>
<1>. USE DEF Tx!Promise!Happens, Tx!Promise!Found, Tx!Promise!TimesOut
<1>1. CASE UNCHANGED <<included, outcome>>
  BY <1>1
<1>2. CASE Tx!SubscribeFails
  BY <1>2 DEF Tx!SubscribeFails, Tx!Fallback, Tx!chainVars
<1>3. CASE Tx!TimerFires
  BY <1>3 DEF Tx!TimerFires, Tx!chainVars, TxInv, TxPathsApart, TxEndedOnItsPath
<1>4. ASSUME NEW k \in Tx!Queries, Tx!QueryReturns(k)
      PROVE  [Tx!Promise!Happens \/ Tx!Promise!Found \/ Tx!Promise!TimesOut]_<<included, outcome>>
  <2>1. CASE Tx!Accepts(query[k]) /\ ~resolved
    <3>1. included /\ outcome = "waiting"
      BY <1>4, <2>1, TxOnWebSocketPath DEF Tx!Accepts, TxInv, TxAnswersAreTrue, Tx!TypeOK
    <3>. QED  BY <1>4, <2>1, <3>1 DEF Tx!QueryReturns, Tx!chainVars
  <2>2. CASE ~(Tx!Accepts(query[k]) /\ ~resolved)
    BY <1>4, <2>2 DEF Tx!QueryReturns, Tx!chainVars
  <2>. QED  BY <2>1, <2>2
<1>5. CASE Tx!PollCheck \/ Tx!PollReturns
  <2>1. stage = "polling" /\ outcome = "waiting"
    BY <1>5 DEF Tx!PollCheck, Tx!PollReturns, TxInv, TxPathsApart, TxEndedOnItsPath, Tx!TypeOK
  <2>2. poll = "found" => included
    BY DEF TxInv, TxAnswersAreTrue, Tx!TypeOK
  <2>. QED  BY <1>5, <2>1, <2>2 DEF Tx!PollCheck, Tx!PollReturns, Tx!chainVars
<1>6. CASE Tx!NewBlock
  BY <1>6 DEF Tx!NewBlock, TxInv, Tx!TypeOK
<1>. QED
  BY <1>1, <1>2, <1>3, <1>4, <1>5, <1>6
  DEF Tx!Next, Tx!WebSocketPath, Tx!PollingPath, Tx!Chain, Tx!vars, Tx!chainVars,
      Tx!NodeSubscribes, Tx!Subscribed,
      Tx!ConnectionDrops, Tx!OnBlock, Tx!PollExpires, Tx!PollWakes, Tx!Indexed, Tx!PollAnswered,
      Tx!QueryAnswered

\* waitForTx() implements the abstract wait: it ends once, returns a transaction only
\* if it is in a block, and takes nothing back.
THEOREM WaitForTxIsWait == Tx!Spec => Tx!ImplementsWait
<1>1. Tx!Init => Tx!Promise!Init
  BY DEF Tx!Init, Tx!Promise!Init
<1>2. TxInv /\ [Tx!Next]_(Tx!vars) =>
        [Tx!Promise!Happens \/ Tx!Promise!Found \/ Tx!Promise!TimesOut]_<<included, outcome>>
  BY TxStepRefines
<1>. QED
  BY <1>1, <1>2, TxInit, TxStep, PTL
  DEF Tx!Spec, Tx!ImplementsWait, Tx!Promise!Spec, Tx!Promise!vars

-----------------------------------------------------------------------------
\* A transaction that getTx knows is on its way to the caller as long as the wait goes on:
\* the query for it is yet to come, under way or answered with it.
KnownIsUnderWay ==
    outcome = "waiting" =>
        \/ session \in {"opening", "confirming"} \/ query["existing"] \in {"asked", "found"}
        \/ poll \in {"checking", "asked", "found"}

\* The strengthening: no query finds nothing, and nothing but an outcome sets `resolved`.
KnownHolds ==
    /\ KnownIsUnderWay
    /\ poll \notin {"null", "sleeping"}
    /\ outcome = "waiting" => ~resolved

KnownInv == TxInv /\ indexed /\ faults \subseteq {"timeout"} /\ KnownHolds

\* The part that matters here of what WaitForTxAssumption of the instance says.
WaitForTxConstants == "existing" \notin BlockSlots

LEMMA KnownStays ==
    ASSUME WaitForTxConstants, KnownInv, [Tx!Next]_(Tx!vars)
    PROVE  KnownInv'
<1>1. TxInv /\ TxInv' /\ "existing" \in Tx!Queries
  BY TxStep DEF KnownInv, Tx!Queries
<1>2. indexed' /\ UNCHANGED faults
  BY DEF KnownInv, Tx!Next, Tx!WebSocketPath, Tx!PollingPath, Tx!Chain, Tx!vars, Tx!chainVars,
     Tx!NodeSubscribes, Tx!Subscribed, Tx!SubscribeFails, Tx!ConnectionDrops, Tx!TimerFires,
     Tx!OnBlock, Tx!QueryReturns, Tx!PollExpires, Tx!PollCheck, Tx!PollReturns, Tx!PollWakes,
     Tx!NewBlock, Tx!Indexed, Tx!PollAnswered, Tx!QueryAnswered
<1>. SUFFICES KnownHolds'
  BY <1>1, <1>2 DEF KnownInv
<1>3. CASE Tx!QueryAnswered("existing") \/ Tx!PollAnswered
  BY <1>1, <1>3 DEF Tx!QueryAnswered, Tx!PollAnswered, Tx!Answer, Tx!pollVars, Tx!wsVars,
     Tx!TypeOK, TxInv, KnownInv, KnownHolds, KnownIsUnderWay
<1>4. CASE Tx!QueryReturns("existing")
  <2>1. query["existing"] = "null" \/ resolved \/ outcome' = "found"
    BY <1>4 DEF Tx!QueryReturns, Tx!Accepts
  <2>. QED
    BY <1>1, <1>4, <2>1 DEF Tx!QueryReturns, Tx!Complete, Tx!pollVars, Tx!TypeOK, TxInv,
       TxEndedOnItsPath, TxPathsApart, KnownInv, KnownHolds, KnownIsUnderWay
<1>5. ASSUME NEW k \in Tx!Queries, k # "existing", Tx!QueryAnswered(k) \/ Tx!QueryReturns(k)
      PROVE  KnownHolds'
  BY <1>1, <1>5 DEF Tx!QueryAnswered, Tx!QueryReturns, Tx!Complete, Tx!Cleanup, Tx!pollVars,
     Tx!TypeOK, TxInv, KnownInv, KnownHolds, KnownIsUnderWay
<1>6. ASSUME NEW k \in BlockSlots, Tx!OnBlock(k)
      PROVE  KnownHolds'
  BY <1>1, <1>6, WaitForTxConstants DEF Tx!OnBlock, Tx!QueryOnBlock, Tx!pollVars, Tx!TypeOK,
     TxInv, KnownInv, KnownHolds, KnownIsUnderWay
<1>7. CASE Tx!NodeSubscribes \/ Tx!Subscribed \/ Tx!SubscribeFails \/ Tx!ConnectionDrops
           \/ Tx!TimerFires
  BY <1>1, <1>7 DEF Tx!NodeSubscribes, Tx!Subscribed, Tx!QueryExisting, Tx!SubscribeFails,
     Tx!ConnectionDrops, Tx!TimerFires, Tx!pollVars, Tx!TypeOK, TxInv, KnownInv,
     KnownHolds, KnownIsUnderWay
<1>8. CASE Tx!PollCheck \/ Tx!PollReturns
  BY <1>1, <1>8 DEF Tx!PollCheck, Tx!PollReturns, Tx!wsVars, Tx!TypeOK, KnownInv, KnownHolds,
     KnownIsUnderWay
<1>9. CASE Tx!PollExpires \/ Tx!PollWakes \/ Tx!NewBlock \/ Tx!Indexed \/ UNCHANGED Tx!vars
  <2>1. poll' = poll /\ UNCHANGED <<outcome, resolved, session, query>>
    BY <1>9 DEF Tx!PollExpires, Tx!PollWakes, Tx!NewBlock, Tx!Indexed, Tx!vars, Tx!wsVars,
       Tx!pollVars, KnownInv, KnownHolds
  <2>. QED  BY <2>1 DEF KnownInv, KnownHolds, KnownIsUnderWay
<1>. QED
  BY <1>3, <1>4, <1>5, <1>6, <1>7, <1>8, <1>9
  DEF Tx!Next, Tx!WebSocketPath, Tx!PollingPath, Tx!Chain

\* A transaction that getTx knows when the wait begins is not lost between the
\* subscription and the query ("Subscribe First, Query After"), nor by polling, although no
\* block comes any more: unless the connection drops or a query fails, waitForTx() is at
\* every moment about to return it or has ended.
THEOREM KnownIsNotLost ==
    ASSUME WaitForTxConstants
    PROVE  Tx!Spec => (indexed /\ faults \subseteq {"timeout"} => []KnownIsUnderWay)
<1>1. Tx!Init /\ indexed /\ faults \subseteq {"timeout"} => KnownInv
  BY TxInit DEF Tx!Init, KnownInv, KnownHolds, KnownIsUnderWay
<1>2. KnownInv /\ [Tx!Next]_(Tx!vars) => KnownInv'
  BY KnownStays
<1>3. KnownInv => KnownIsUnderWay
  BY DEF KnownInv, KnownHolds
<1>. QED  BY <1>1, <1>2, <1>3, PTL DEF Tx!Spec

=============================================================================
