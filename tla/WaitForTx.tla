----------------------------- MODULE WaitForTx -----------------------------
(***************************************************************************)
(* waitForTx() of src/client/websocket/waiting.ts: the block subscription  *)
(* of waitForTxWebSocket() with its queries, the fallback, and the loop of *)
(* waitForTxPolling().  The session is taken at its word (CosmosSession):  *)
(* subscribe() settles, and without autoReconnect a dropped connection is  *)
(* silent.                                                                 *)
(***************************************************************************)
EXTENDS Naturals

CONSTANTS
    BlockSlots,    \* bounds the queries that block callbacks have in flight
    Settings       \* the sets of faults a wait may meet with

(***************************************************************************)
(* drop     the connection may drop or be refused                          *)
(* query    getTx may reject, which queryTx() reads as "not found"         *)
(* timeout  the wait may take as long as its timeout                       *)
(***************************************************************************)
Faults == {"drop", "query", "timeout"}

ASSUME WaitForTxAssumption ==
    /\ "existing" \notin BlockSlots
    /\ Settings \subseteq SUBSET Faults

Queries == BlockSlots \cup {"existing"}

VARIABLES
    faults,      \* those this wait may meet with; never changes
    hasWss,      \* options.chainInfo.wss is there
    stage,       \* which function waitForTx() awaits
    outcome,     \* how the promise waitForTx() returned has settled
    resolved,    \* the flag of waitForTxWebSocket()
    timer,       \* its timer is armed
    session,     \* its session and the subscription
    dropped,     \* the subscribed connection has dropped
    blockDue,    \* a NewBlock event is on its way to the callback
    query,       \* queryTx() calls in flight and what they will return
    poll,        \* where the loop of waitForTxPolling() stands
    expired,     \* its timeout has passed
    included, indexed  \* the chain: the tx is in a block; getTx finds it

wsVars == <<resolved, timer, session, dropped, blockDue, query>>
pollVars == <<poll, expired>>
chainVars == <<included, indexed>>
vars == <<faults, hasWss, stage, outcome, wsVars, pollVars, chainVars>>

(***************************************************************************)
(* opening    session.subscribe() awaits connection and node               *)
(* confirming the node has subscribed, the confirmation is under way       *)
(* subscribed the handle is there; dropped, and its connection is gone     *)
(***************************************************************************)
SessionStates == {"none", "opening", "confirming", "subscribed", "dropped", "closed"}
Answers == {"none", "asked", "found", "null"}
PollStates == {"off", "checking", "asked", "found", "null", "sleeping", "done"}

TypeOK ==
    /\ faults \in Settings
    /\ {hasWss, resolved, timer, dropped, blockDue, expired, included, indexed}
          \subseteq BOOLEAN
    /\ stage \in {"websocket", "polling"}
    /\ outcome \in {"waiting", "found", "timeout"}
    /\ session \in SessionStates
    /\ query \in [Queries -> Answers]
    /\ poll \in PollStates
    /\ indexed => included
    /\ session = "none" <=> ~hasWss

Init ==
    /\ faults \in Settings
    /\ hasWss \in BOOLEAN
    /\ outcome = "waiting" /\ resolved = FALSE /\ dropped = FALSE
    /\ blockDue = FALSE /\ expired = FALSE
    /\ IF hasWss
       THEN stage = "websocket" /\ timer = TRUE /\ session = "opening" /\ poll = "off"
       ELSE stage = "polling" /\ timer = FALSE /\ session = "none" /\ poll = "checking"
    /\ query = [k \in Queries |-> "none"]
    /\ included \in BOOLEAN /\ indexed \in BOOLEAN /\ (indexed => included)

-----------------------------------------------------------------------------
\* The shared closures, each preceded by a mistake in it.
CleanupTimerOnly == timer' = FALSE /\ UNCHANGED session
CleanupForgetsSession == timer' = FALSE /\ session' = "none"
\* cleanup()
Cleanup == timer' = FALSE /\ session' = "closed"

\* fail() up to reject()
Fail == resolved' = TRUE /\ Cleanup

\* complete() up to resolve()
Complete == resolved' = TRUE /\ Cleanup

AcceptsAnything(answer) == TRUE
\* `if (result && ...)`
Accepts(answer) == answer = "found"

\* Phase 2 of execute(): the query for a tx that is already there.
QueryExisting == query' = [query EXCEPT !["existing"] = "asked"]

NoQueryOnBlock(k) == UNCHANGED query
\* What the callback of the block subscription does.
QueryOnBlock(k) == query' = [query EXCEPT ![k] = "asked"]

\* The catch of waitForTx(): anything but a TimeoutError falls back to polling.
Fallback == stage' = "polling" /\ poll' = "checking" /\ UNCHANGED outcome

PollOnce == "done"
\* Where the polling loop goes after a query without result.
PollAgain == "sleeping"

-----------------------------------------------------------------------------
\* session.subscribe(): the node subscribes, then its confirmation arrives.
NodeSubscribes ==
    /\ session = "opening" /\ ~resolved
    /\ session' = "confirming"
    /\ UNCHANGED <<faults, hasWss, stage, outcome, resolved, timer, dropped, blockDue, query,
                   pollVars, chainVars>>

Subscribed ==
    /\ session = "confirming" /\ ~resolved
    /\ session' = "subscribed"
    /\ QueryExisting
    /\ UNCHANGED <<faults, hasWss, stage, outcome, resolved, timer, dropped, blockDue, pollVars,
                   chainVars>>

\* session.subscribe() rejects: execute().catch(fail), then the fallback.
SubscribeFails ==
    /\ "drop" \in faults
    /\ session \in {"opening", "confirming"} /\ ~resolved
    /\ Fail
    /\ Fallback
    /\ UNCHANGED <<faults, hasWss, dropped, blockDue, query, expired, chainVars>>

\* The connection of the subscription drops; the session does not reconnect and
\* tells nobody.
ConnectionDrops ==
    /\ "drop" \in faults
    /\ session = "subscribed"
    /\ session' = "dropped" /\ dropped' = TRUE
    /\ blockDue' = FALSE
    /\ UNCHANGED <<faults, hasWss, stage, outcome, resolved, timer, query, pollVars, chainVars>>

\* The subscription's callback starts a query of its own.
OnBlock(k) ==
    /\ session = "subscribed" /\ blockDue /\ ~resolved
    /\ query[k] = "none"
    /\ QueryOnBlock(k)
    /\ blockDue' = FALSE
    /\ UNCHANGED <<faults, hasWss, stage, outcome, resolved, timer, session, dropped, pollVars,
                   chainVars>>

\* A queryTx() of the WebSocket path returns; late ones find `resolved` set.
QueryReturns(k) ==
    /\ query[k] \in {"found", "null"}
    /\ query' = [query EXCEPT ![k] = "none"]
    /\ \/ /\ Accepts(query[k]) /\ ~resolved
          /\ Complete
          /\ outcome' = "found"
       \/ /\ ~Accepts(query[k]) \/ resolved
          /\ UNCHANGED <<resolved, timer, session, outcome>>
    /\ UNCHANGED <<faults, hasWss, stage, dropped, blockDue, pollVars, chainVars>>

\* The timer of waitForTxWebSocket(): waitForTx() passes its TimeoutError on.
TimerFires ==
    /\ "timeout" \in faults
    /\ timer /\ ~resolved
    /\ Fail
    /\ outcome' = "timeout"
    /\ UNCHANGED <<faults, hasWss, stage, dropped, blockDue, query, pollVars, chainVars>>

-----------------------------------------------------------------------------
PollExpires ==
    /\ "timeout" \in faults
    /\ poll \notin {"off", "done"} /\ ~expired
    /\ expired' = TRUE
    /\ UNCHANGED <<faults, hasWss, stage, outcome, wsVars, poll, chainVars>>

\* The head of the loop: the timeout is checked before the query, never after it.
PollCheck ==
    /\ poll = "checking"
    /\ \/ expired /\ poll' = "done" /\ outcome' = "timeout"
       \/ ~expired /\ poll' = "asked" /\ UNCHANGED outcome
    /\ UNCHANGED <<faults, hasWss, stage, wsVars, expired, chainVars>>

PollReturns ==
    /\ \/ poll = "found" /\ poll' = "done" /\ outcome' = "found"
       \/ poll = "null" /\ poll' = PollAgain /\ UNCHANGED outcome
    /\ UNCHANGED <<faults, hasWss, stage, wsVars, expired, chainVars>>

PollWakes ==
    /\ poll = "sleeping"
    /\ poll' = "checking"
    /\ UNCHANGED <<faults, hasWss, stage, outcome, wsVars, expired, chainVars>>

-----------------------------------------------------------------------------
(***************************************************************************)
(* The chain (external): a block may include the tx, and it is announced   *)
(* before or after getTx finds its transactions.                           *)
(***************************************************************************)
NewBlock ==
    /\ included' \in {included, TRUE}
    /\ blockDue' = (blockDue \/ session \in {"confirming", "subscribed"})
    /\ UNCHANGED <<faults, hasWss, stage, outcome, resolved, timer, session, dropped, query,
                   pollVars, indexed>>

Indexed ==
    /\ included /\ ~indexed
    /\ indexed' = TRUE
    /\ UNCHANGED <<faults, hasWss, stage, outcome, wsVars, pollVars, included>>

Answer(a) ==
    \/ a = "found" /\ indexed
    \/ a = "null" /\ (~indexed \/ "query" \in faults)

QueryAnswered(k) ==
    /\ query[k] = "asked"
    /\ \E a \in Answers : Answer(a) /\ query' = [query EXCEPT ![k] = a]
    /\ UNCHANGED <<faults, hasWss, stage, outcome, resolved, timer, session, dropped, blockDue,
                   pollVars, chainVars>>

PollAnswered ==
    /\ poll = "asked"
    /\ \E a \in Answers : Answer(a) /\ poll' = a
    /\ UNCHANGED <<faults, hasWss, stage, outcome, wsVars, expired, chainVars>>

WebSocketPath ==
    \/ NodeSubscribes \/ Subscribed \/ SubscribeFails \/ ConnectionDrops \/ TimerFires
    \/ \E k \in BlockSlots : OnBlock(k)
    \/ \E k \in Queries : QueryReturns(k)

PollingPath == PollExpires \/ PollCheck \/ PollReturns \/ PollWakes

Chain == NewBlock \/ Indexed \/ PollAnswered \/ \E k \in Queries : QueryAnswered(k)

Next == WebSocketPath \/ PollingPath \/ Chain

Spec == Init /\ [][Next]_vars

-----------------------------------------------------------------------------
(***************************************************************************)
(* What waitForTx() promises, the abstract Wait it implements, and its fair*)
(* specification.                                                          *)
(***************************************************************************)
\* A wait that is over, or has fallen back to polling, leaves no timer, session or
\* subscription of the WebSocket path behind.
NothingLeftBehind ==
    outcome # "waiting" \/ stage = "polling" =>
        ~timer /\ session \in {"none", "closed"}

\* The two paths never run at once: while the polling loop runs, no query of the
\* WebSocket path can end the wait.
OnePathAtATime ==
    poll # "off" => (hasWss => resolved) /\ session \in {"none", "closed"}

-----------------------------------------------------------------------------
(***************************************************************************)
(* Fairness: the runtime runs what is due; the transport answers or rejects*)
(* every query, and subscribe() settles (EveryCallSettles of               *)
(* CosmosSession).  ChainFairness: blocks go on and are indexed.           *)
(***************************************************************************)
Fairness ==
    /\ WF_vars(NodeSubscribes \/ Subscribed \/ SubscribeFails)
    /\ \A k \in BlockSlots : WF_vars(OnBlock(k))
    /\ \A k \in Queries : WF_vars(QueryReturns(k)) /\ WF_vars(QueryAnswered(k))
    /\ WF_vars(TimerFires)
    /\ WF_vars(PollExpires) /\ WF_vars(PollCheck) /\ WF_vars(PollReturns)
    /\ WF_vars(PollWakes) /\ WF_vars(PollAnswered)

ChainFairness == WF_vars(NewBlock) /\ WF_vars(Indexed)

FairSpec == Spec /\ Fairness

Promise == INSTANCE Wait WITH onChain <- included

\* waitForTx() implements the abstract wait: it settles once, it returns a tx only
\* when the tx is in a block, and nothing takes the outcome back.
ImplementsWait == Promise!Spec

\* Every wait whose timeout can pass ends, whatever becomes of the connection and
\* the queries.
WaitEnds == "timeout" \in faults => Promise!Ends

\* Over a connection that holds, and by polling, a tx that is or gets included is
\* found, whenever it is included and indexed relative to the subscription and its
\* queries, unless a timeout cuts the wait short ("Subscribe First, Query After"); a
\* tx that getTx knows when the wait starts is found although no block comes any more.
IncludedIsFound ==
    faults = {} =>
        /\ ChainFairness => Promise!EndsWithIt
        /\ indexed => <>(outcome = "found")

=============================================================================
