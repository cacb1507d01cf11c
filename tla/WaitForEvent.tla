---------------------------- MODULE WaitForEvent ----------------------------
(***************************************************************************)
(* waitForEvent() of src/client/websocket/waiting.ts: the subscription to  *)
(* transactions and the historical query of waitForEventWebSocket(), the   *)
(* fallback, and the loop of waitForEventPolling().                        *)
(*                                                                         *)
(* A result is kept under a key: the query's answers under the hash, the   *)
(* subscription's events under the transaction's bytes (wsTx.tx).          *)
(***************************************************************************)
EXTENDS Naturals, Sequences, FiniteSets

CONSTANTS
    Txs,           \* the transactions that may get into a block
    Settings       \* the waits that may be asked for, and under what faults

(***************************************************************************)
(* queried     what the query of buildEventQuery() selects, heights aside  *)
(* matching    what matchesEventFilter() accepts                           *)
(* drop        the connection may drop or be refused                       *)
(* lag         a block may be announced before getTxsEvent finds its tx    *)
(* query       getTxsEvent may reject                                      *)
(* timeout     the wait may take as long as its timeout                    *)
(***************************************************************************)
Faults == {"drop", "lag", "query", "timeout"}

Setting == [queried : SUBSET Txs, matching : SUBSET Txs, fromHeight : Nat,
            maxResults : Nat \ {0}, faults : SUBSET Faults]

ASSUME WaitForEventAssumption ==
    /\ IsFiniteSet(Txs)
    /\ Settings \subseteq {s \in Setting : s.matching \subseteq s.queried}

VARIABLES
    setting,     \* never changes
    hasWss,      \* options.chainInfo.wss is there
    stage,       \* which function waitForEvent() awaits
    outcome,     \* how the promise waitForEvent() returned has settled
    returned,    \* and the results it resolved with
    results,     \* the Map of the function that is running
    resolved, timer, session,
    events,      \* Tx events on their way to the callback
    past,        \* the historical query and its answer
    poll,        \* where the loop of waitForEventPolling() stands
    answer,      \* the answer to its query
    expired,     \* its timeout has passed
    chain,       \* the transactions in blocks, one block each
    indexed      \* how many of them getTxsEvent finds

wsVars == <<resolved, timer, session, events, past>>
pollVars == <<poll, answer, expired>>
chainVars == <<chain, indexed>>
vars == <<setting, hasWss, stage, outcome, returned, results, wsVars, pollVars, chainVars>>

Fault(f) == f \in setting.faults
maxResults == setting.maxResults
fromHeight == setting.fromHeight

Keys == {"hash", "bytes"}
Result == [tx : Txs, key : Keys]
Landed == {chain[i] : i \in DOMAIN chain}
Height(t) == CHOOSE i \in DOMAIN chain : chain[i] = t

TypeOK ==
    /\ setting \in Settings
    /\ {hasWss, resolved, timer, expired} \subseteq BOOLEAN
    /\ stage \in {"websocket", "polling"}
    /\ outcome \in {"waiting", "found", "timeout"}
    /\ results \subseteq Result
    /\ returned \subseteq results /\ Cardinality(returned) <= maxResults
    /\ session \in {"none", "opening", "confirming", "subscribed", "dropped", "closed"}
    /\ events \in Seq(Txs)
    /\ past \in [state : {"none", "asked", "answered", "rejected"}, txs : SUBSET Txs]
    /\ poll \in {"off", "checking", "asked", "answered", "rejected", "sleeping", "done"}
    /\ answer \subseteq Txs
    /\ chain \in Seq(Txs) /\ \A i, j \in DOMAIN chain : chain[i] = chain[j] => i = j
    /\ indexed \in 0..Len(chain)
    /\ session = "none" <=> ~hasWss

NotAsked == [state |-> "none", txs |-> {}]

Init ==
    /\ setting \in Settings
    /\ hasWss \in BOOLEAN
    /\ outcome = "waiting" /\ returned = {} /\ results = {}
    /\ resolved = FALSE /\ expired = FALSE /\ events = <<>>
    /\ past = NotAsked /\ answer = {}
    /\ IF hasWss
       THEN stage = "websocket" /\ timer = TRUE /\ session = "opening" /\ poll = "off"
       ELSE stage = "polling" /\ timer = FALSE /\ session = "none" /\ poll = "checking"
    /\ chain \in {<<>>} \cup {<<t>> : t \in Txs} /\ indexed = Len(chain)

-----------------------------------------------------------------------------
\* The n results of a set that come first in height order; entries of the same
\* transaction are as one.
IsFirst(n, some, all) ==
    /\ some \subseteq all
    /\ Cardinality(some) = IF Cardinality(all) < n THEN Cardinality(all) ELSE n
    /\ \A r \in some, q \in all \ some : Height(r.tx) <= Height(q.tx)

\* What getTxsEvent answers: the query, ORDER_BY_ASC, `limit: maxResults`.
Answer ==
    LET hits == {t \in setting.queried :
                   \E i \in 1..indexed : chain[i] = t /\ i >= fromHeight} IN
    {t \in hits : Cardinality({u \in hits : Height(u) < Height(t)}) < maxResults}

CleanupTimerOnly == timer' = FALSE /\ UNCHANGED session
CleanupForgetsSession == timer' = FALSE /\ session' = "none"
\* cleanup()
Cleanup == timer' = FALSE /\ session' = "closed"

\* Sort by height and slice(0, maxResults).
Return(from) == \E some \in SUBSET from : IsFirst(maxResults, some, from) /\ returned' = some

AcceptsAll(t) == TRUE
\* matchesEventFilter()
Accepts(t) == t \in setting.matching

\* `results.has(tx.txHash)`
Has(key, t) == [tx |-> t, key |-> key] \in results

NothingPast == past' = NotAsked
\* Phase 2 of execute(): the historical query.
QueryPast == past' = [state |-> "asked", txs |-> {}]

TimeoutDiscards == TRUE
\* The timer and the head of the polling loop: a timeout is an error only if there
\* is nothing to return.
NothingToReturn == results = {}

\* complete()
Complete(with) ==
    /\ resolved' = TRUE
    /\ Cleanup
    /\ Return(with)
    /\ outcome' = "found"

\* addResult() for a batch: results are added until there are enough, and enough
\* complete the wait.
AddResults(new) ==
    LET room == maxResults - Cardinality(results) IN
    /\ \E some \in SUBSET new : IsFirst(room, some, new) /\ results' = results \cup some
    /\ IF Cardinality(results') >= maxResults
       THEN Complete(results')
       ELSE UNCHANGED <<resolved, timer, session, returned, outcome>>

-----------------------------------------------------------------------------
NodeSubscribes ==
    /\ session = "opening" /\ ~resolved
    /\ session' = "confirming"
    /\ UNCHANGED <<setting, hasWss, stage, outcome, returned, results, resolved,
                   timer, events, past, pollVars, chainVars>>

Subscribed ==
    /\ session = "confirming" /\ ~resolved
    /\ session' = "subscribed"
    /\ QueryPast
    /\ UNCHANGED <<setting, hasWss, stage, outcome, returned, results, resolved,
                   timer, events, pollVars, chainVars>>

\* session.subscribe() rejects: execute().catch(fail), then the fallback, whose
\* Map is a new one.
SubscribeFails ==
    /\ Fault("drop")
    /\ session \in {"opening", "confirming"} /\ ~resolved
    /\ resolved' = TRUE
    /\ Cleanup
    /\ stage' = "polling" /\ poll' = "checking"
    /\ results' = {}
    /\ UNCHANGED <<setting, hasWss, outcome, returned, events, past, answer, expired,
                   chainVars>>

\* The connection drops and nobody is told.
ConnectionDrops ==
    /\ Fault("drop")
    /\ session = "subscribed"
    /\ session' = "dropped"
    /\ events' = <<>>
    /\ UNCHANGED <<setting, hasWss, stage, outcome, returned, results, resolved,
                   timer, past, pollVars, chainVars>>

\* The callback of the subscription: neither the query nor fromHeight is looked at.
OnTx ==
    /\ session = "subscribed" /\ events # <<>> /\ ~resolved
    /\ events' = Tail(events)
    /\ LET t == Head(events) IN
       IF Accepts(t) /\ ~Has("bytes", t)
       THEN AddResults({[tx |-> t, key |-> "bytes"]})
       ELSE UNCHANGED <<results, resolved, timer, session, returned, outcome>>
    /\ UNCHANGED <<setting, hasWss, stage, past, pollVars, chainVars>>

\* The historical query returns or rejects.
PastReturns ==
    /\ past.state \in {"answered", "rejected"}
    /\ past' = NotAsked
    /\ IF past.state = "answered" /\ ~resolved
       THEN AddResults({[tx |-> t, key |-> "hash"] :
                          t \in {u \in past.txs : Accepts(u) /\ ~Has("hash", u)}})
       ELSE UNCHANGED <<results, resolved, timer, session, returned, outcome>>
    /\ UNCHANGED <<setting, hasWss, stage, events, pollVars, chainVars>>

TimerFires ==
    /\ Fault("timeout")
    /\ timer /\ ~resolved
    /\ \/ NothingToReturn /\ resolved' = TRUE /\ Cleanup
          /\ outcome' = "timeout" /\ UNCHANGED returned
       \/ ~NothingToReturn /\ Complete(results)
    /\ UNCHANGED <<setting, hasWss, stage, results, events, past, pollVars, chainVars>>

-----------------------------------------------------------------------------
PollExpires ==
    /\ Fault("timeout")
    /\ poll \notin {"off", "done"} /\ ~expired
    /\ expired' = TRUE
    /\ UNCHANGED <<setting, hasWss, stage, outcome, returned, results, wsVars, poll,
                   answer, chainVars>>

\* The head of the loop.
PollCheck ==
    /\ poll = "checking"
    /\ \/ /\ expired /\ NothingToReturn
          /\ poll' = "done" /\ outcome' = "timeout" /\ UNCHANGED returned
       \/ /\ expired /\ ~NothingToReturn
          /\ poll' = "done" /\ outcome' = "found" /\ Return(results)
       \/ /\ ~expired
          /\ poll' = "asked" /\ UNCHANGED <<outcome, returned>>
    /\ UNCHANGED <<setting, hasWss, stage, results, wsVars, answer, expired, chainVars>>

PollReturns ==
    /\ \/ /\ poll = "answered"
          /\ results' = results \cup {[tx |-> t, key |-> "hash"] :
                                        t \in {u \in answer : Accepts(u)}}
       \/ poll = "rejected" /\ UNCHANGED results
    /\ answer' = {}
    /\ IF poll = "answered" /\ Cardinality(results') >= maxResults
       THEN poll' = "done" /\ outcome' = "found" /\ Return(results')
       ELSE poll' = "sleeping" /\ UNCHANGED <<outcome, returned>>
    /\ UNCHANGED <<setting, hasWss, stage, wsVars, expired, chainVars>>

PollWakes ==
    /\ poll = "sleeping"
    /\ poll' = "checking"
    /\ UNCHANGED <<setting, hasWss, stage, outcome, returned, results, wsVars, answer,
                   expired, chainVars>>

-----------------------------------------------------------------------------
(***************************************************************************)
(* The chain (external): a block announces its transaction to the          *)
(* subscriptions and the index follows.                                    *)
(***************************************************************************)
NewBlock(t) ==
    /\ t \notin Landed
    /\ chain' = Append(chain, t)
    /\ events' = IF session \in {"confirming", "subscribed"} THEN Append(events, t)
                 ELSE events
    /\ indexed' = IF Fault("lag") THEN indexed ELSE Len(chain')
    /\ UNCHANGED <<setting, hasWss, stage, outcome, returned, results, resolved,
                   timer, session, past, pollVars>>

Indexed ==
    /\ indexed < Len(chain)
    /\ indexed' = indexed + 1
    /\ UNCHANGED <<setting, hasWss, stage, outcome, returned, results, wsVars,
                   pollVars, chain>>

PastAnswered ==
    /\ past.state = "asked"
    /\ \/ past' = [state |-> "answered", txs |-> Answer]
       \/ Fault("query") /\ past' = [state |-> "rejected", txs |-> {}]
    /\ UNCHANGED <<setting, hasWss, stage, outcome, returned, results, resolved,
                   timer, session, events, pollVars, chainVars>>

PollAnswered ==
    /\ poll = "asked"
    /\ \/ poll' = "answered" /\ answer' = Answer
       \/ Fault("query") /\ poll' = "rejected" /\ UNCHANGED answer
    /\ UNCHANGED <<setting, hasWss, stage, outcome, returned, results, wsVars,
                   expired, chainVars>>

WebSocketPath ==
    \/ NodeSubscribes \/ Subscribed \/ SubscribeFails \/ ConnectionDrops \/ TimerFires
    \/ OnTx \/ PastReturns

PollingPath == PollExpires \/ PollCheck \/ PollReturns \/ PollWakes

Chain == Indexed \/ PastAnswered \/ PollAnswered \/ \E t \in Txs : NewBlock(t)

Next == WebSocketPath \/ PollingPath \/ Chain

Spec == Init /\ [][Next]_vars

-----------------------------------------------------------------------------
(***************************************************************************)
(* What waitForEvent() promises, the abstract Wait it implements, and its  *)
(* fair specification.                                                     *)
(***************************************************************************)
\* What is returned was asked for and is on the chain, whichever way it came.
ReturnedMatches ==
    \A r \in returned : r.tx \in setting.matching \cap Landed

\* A TimeoutError means that nothing had been collected: no match that has reached
\* the wait is thrown away.
NothingCollectedIsLost == outcome = "timeout" => results = {}

\* Both together: a wait returns matches on the chain, and it gives up only when it has
\* collected none.
OutcomeIsHonest == ReturnedMatches /\ NothingCollectedIsLost

\* A wait that is over, or has fallen back to polling, leaves no timer, session or
\* subscription of the WebSocket path behind.
NothingLeftBehind ==
    outcome # "waiting" \/ stage = "polling" =>
        ~timer /\ session \in {"none", "closed"}

\* The query expresses the filter exactly, and nothing is lost, late or rejected.
ExactQuery == setting.faults \subseteq {"timeout"} /\ setting.queried = setting.matching

\* "Subscribe First, Query After": no match falls between the subscription and the query
\* for the past.  As long as the wait goes on over the WebSocket, each match on the chain
\* is collected, on its way to the callback or in the answer of the query, unless that
\* answer is enough by itself or the query is yet to come.
NoMatchIsMissed ==
    ExactQuery /\ outcome = "waiting" /\ stage = "websocket" =>
        \/ session \in {"opening", "confirming"} \/ past.state = "asked"
        \/ Cardinality(past.txs) >= maxResults
        \/ \A t \in Landed \cap setting.matching : Height(t) >= fromHeight =>
              \/ t \in past.txs
              \/ \E i \in DOMAIN events : events[i] = t
              \/ \E r \in results : r.tx = t

\* A wait misses nothing as long as it goes on, and however it ends, it is honest about
\* what it has and leaves nothing behind.
EndsProperly == OutcomeIsHonest /\ NothingLeftBehind /\ NoMatchIsMissed

-----------------------------------------------------------------------------
(***************************************************************************)
(* Fairness: the runtime runs what is due; the transport answers or rejects*)
(* every query, subscribe() settles (EveryCallSettles of CosmosSession),   *)
(* and the index follows the chain.  No block need come.                   *)
(***************************************************************************)
Fairness ==
    /\ WF_vars(NodeSubscribes \/ Subscribed \/ SubscribeFails)
    /\ WF_vars(OnTx) /\ WF_vars(PastReturns) /\ WF_vars(PastAnswered)
    /\ WF_vars(TimerFires)
    /\ WF_vars(PollExpires) /\ WF_vars(PollCheck) /\ WF_vars(PollReturns)
    /\ WF_vars(PollWakes) /\ WF_vars(PollAnswered)
    /\ WF_vars(Indexed)

FairSpec == Spec /\ Fairness

MatchLanded == Landed \cap setting.matching # {}

Promise == INSTANCE Wait WITH onChain <- MatchLanded

\* waitForEvent() implements the abstract wait: it settles once, resolves only when
\* a match is on the chain, and nothing takes the outcome back.
ImplementsWait == Promise!Spec

\* Without faults, and with a filter the query expresses exactly, a wait for one match
\* ends with it, be the match in a block before, during or after the subscription is
\* made, and though no block comes after it.
MatchIsFound ==
    (/\ setting.faults = {} /\ setting.queried = setting.matching
     /\ fromHeight <= 1 /\ maxResults = 1)
       => Promise!EndsWithIt

=============================================================================
