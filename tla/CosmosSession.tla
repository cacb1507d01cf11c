--------------------------- MODULE CosmosSession ---------------------------
(***************************************************************************)
(* The CometBFT WebSocket session of src/client/websocket/cosmos-session.ts*)
(* (class InternalCosmosSession): connection management, reconnection and  *)
(* the bookkeeping of subscriptions.                                       *)
(*                                                                         *)
(* The program is a single JavaScript thread.  A socket event or a timer   *)
(* runs its handler to the end, and the promise continuations it made      *)
(* ready run before the next event (see Quiet); only code of the           *)
(* application, which may itself be such a continuation, comes between.    *)
(* The application's onConnectionEvent runs within the handlers of close   *)
(* events, before they go on (see telling).  It is taken to return.  What  *)
(* the other handlers do after it, settling a promise, can as well come    *)
(* before it.                                                              *)
(***************************************************************************)
EXTENDS Naturals, Sequences, FiniteSets

CONSTANTS
    Calls,          \* the subscribe() calls the application makes
    Queries,        \* CometBFT query strings, the keys of `subscriptions`
    QueryOf,        \* the query each call subscribes to
    Sockets,        \* identities of the WebSocket objects
    NoCall, NoSocket,
    Settings        \* the circumstances a session may find itself in

Phases == {"connected", "joining", "telling", "backoff", "reconnecting", "failing", "idle"}

(***************************************************************************)
(* options      the SessionOptions the application passes                  *)
(* callPhases   the phases in which it calls subscribe()                   *)
(* closesInCallback  it may call close() in its onConnectionEvent          *)
(* validUrl     new WebSocket() does not refuse the URL                    *)
(* reachable    no connection attempt fails, no socket errs                *)
(* nodeAccepts  the node refuses no subscribe request                      *)
(* sockets      bounds the WebSocket objects the session creates           *)
(***************************************************************************)
Setting == [options : [autoReconnect : BOOLEAN, maxRetries : Nat],
            callPhases : SUBSET Phases, closesInCallback : BOOLEAN, validUrl : BOOLEAN,
            reachable : BOOLEAN, nodeAccepts : BOOLEAN, sockets : SUBSET Sockets]

ASSUME CosmosSessionAssumption ==
    /\ IsFiniteSet(Queries)
    /\ QueryOf \in [Calls -> Queries]
    /\ NoCall \notin Calls
    /\ NoSocket \notin Sockets
    /\ Settings \subseteq Setting

VARIABLES
    setting,           \* never changes
    \* Fields of the session object.
    ws,                \* this.ws
    isConnected,
    connectionPromise, \* the socket whose opening the stored promise awaits
    isUserClose,
    reconnectAttempt,
    timerArmed,        \* the timer this.reconnectTimer refers to is running
    lostTimers,        \* running reconnect timers this.reconnectTimer no longer refers to
    telling,           \* the event a close handler is in the onConnectionEvent of
    subscriptions,     \* query -> the call whose callback is registered
    pending,           \* keys of pendingSubscriptions, one message id per call
    gaveUp,            \* 'maxRetriesReached' has been emitted
    received,          \* calls whose callback has been invoked with an event
    \* Suspended asynchronous functions.
    call,              \* where each subscribe() call stands
    waitsOn,           \* the socket whose connect() promise a call awaits
    resubscribing,     \* sockets whose reconnectAndResubscribe() can continue
    \* The platform's sockets and the node behind them.
    sock,              \* readyState and event progress of each socket
    forReconnect,      \* sockets created by the reconnect timer
    outbox, inbox,     \* frames on the wire, per socket and direction
    serverSubs         \* queries the node has subscribed for each socket

sessionVars == <<setting, ws, isConnected, connectionPromise, isUserClose,
                 reconnectAttempt, timerArmed, lostTimers, telling, gaveUp>>
subsVars    == <<subscriptions, pending, received>>
callVars    == <<call, waitsOn, resubscribing>>
wireVars    == <<outbox, inbox, serverSubs>>
vars == <<sessionVars, subsVars, callVars, sock, forReconnect, wireVars>>

(***************************************************************************)
(* unused     not created yet                                              *)
(* connecting new WebSocket() returned; neither open nor error has fired   *)
(* open       open has fired                                               *)
(* aborting   close() on a connecting socket; error and close are due      *)
(* failing    error has fired, close is due                                *)
(* closing    close() on an open socket; close is due                      *)
(* closed     close has fired                                              *)
(***************************************************************************)
SocketStates == {"unused", "connecting", "open", "aborting", "failing",
                 "closing", "closed"}

(***************************************************************************)
(* connecting awaits ensureConnected(); ready, sendable once scheduled     *)
(* pending    awaits the confirmation; confirmed, about to register        *)
(* active     the Subscription handle is returned                          *)
(***************************************************************************)
CallStates == {"idle", "connecting", "ready", "pending", "confirmed",
               "active", "unsubscribed", "rejected"}

Frame   == [op : {"subscribe", "unsubscribe"}, query : Queries,
            by : Calls \cup {NoCall}]
Message == [kind : {"confirm"}, of : Calls] \cup [kind : {"event"}, of : Queries]

TypeOK ==
    /\ setting \in Settings
    /\ ws \in Sockets \cup {NoSocket}
    /\ isConnected \in BOOLEAN
    /\ connectionPromise \in Sockets \cup {NoSocket}
    /\ isUserClose \in BOOLEAN
    /\ reconnectAttempt \in Nat
    /\ timerArmed \in BOOLEAN
    /\ lostTimers \in Nat
    /\ telling \in {"nothing", "disconnect", "reconnect"}
    /\ subscriptions \in [Queries -> Calls \cup {NoCall}]
    /\ pending \subseteq Calls
    /\ gaveUp \in BOOLEAN
    /\ received \subseteq Calls
    /\ call \in [Calls -> CallStates]
    /\ waitsOn \in [Calls -> Sockets \cup {NoSocket}]
    /\ resubscribing \subseteq Sockets
    /\ sock \in [Sockets -> SocketStates]
    /\ forReconnect \subseteq Sockets
    /\ outbox \in [Sockets -> Seq(Frame)]
    /\ inbox \in [Sockets -> Seq(Message)]
    /\ serverSubs \in [Sockets -> SUBSET Queries]

Init ==
    /\ setting \in Settings
    /\ ws = NoSocket
    /\ isConnected = FALSE
    /\ connectionPromise = NoSocket
    /\ isUserClose = FALSE
    /\ reconnectAttempt = 0
    /\ timerArmed = FALSE
    /\ lostTimers = 0
    /\ telling = "nothing"
    /\ subscriptions = [q \in Queries |-> NoCall]
    /\ pending = {}
    /\ gaveUp = FALSE
    /\ received = {}
    /\ call = [c \in Calls |-> "idle"]
    /\ waitsOn = [c \in Calls |-> NoSocket]
    /\ resubscribing = {}
    /\ sock = [s \in Sockets |-> "unused"]
    /\ forReconnect = {}
    /\ outbox = [s \in Sockets |-> <<>>]
    /\ inbox = [s \in Sockets |-> <<>>]
    /\ serverSubs = [s \in Sockets |-> {}]

-----------------------------------------------------------------------------
options == setting.options   \* this.options

Live(s) == sock[s] \in {"connecting", "open", "aborting", "failing", "closing"}

Registered == {q \in Queries : subscriptions[q] # NoCall}

\* No handler is under way and no continuation is ready: the event loop may take the
\* next event.
Quiet ==
    /\ telling = "nothing"
    /\ resubscribing = {}
    /\ \A c \in Calls : call[c] \notin {"ready", "confirmed"}

\* What the application observes when it decides to call subscribe().
Phase ==
    IF telling # "nothing" THEN "telling"
    ELSE IF isConnected /\ ws # NoSocket THEN "connected"
    ELSE IF connectionPromise # NoSocket THEN "joining"
    ELSE IF timerArmed \/ lostTimers > 0 THEN "backoff"
    ELSE IF \E s \in Sockets : sock[s] = "connecting" THEN "reconnecting"
    ELSE IF \E s \in Sockets : Live(s) THEN "failing"
    ELSE "idle"

(***************************************************************************)
(* WebSocket.send(): raises an error while the socket is connecting and    *)
(* silently drops the data once it is no longer open.                      *)
(***************************************************************************)
SendRaises == ws = NoSocket \/ (ws # NoSocket /\ sock[ws] = "connecting")

Sent(frames) ==
    IF ws # NoSocket /\ sock[ws] = "open"
    THEN outbox' = [outbox EXCEPT ![ws] = @ \o frames]
    ELSE UNCHANGED outbox

-----------------------------------------------------------------------------
(***************************************************************************)
(* The assignments the handlers share, each preceded by the mistakes in it *)
(* that the properties must catch (they are used nowhere else).            *)
(***************************************************************************)
\* `if (this.connectionPromise)` in ensureConnected()
JoinConnection == connectionPromise # NoSocket

\* onclose reads isConnected before it resets it.
WasConnectedTooLate == FALSE
WasConnected == isConnected

ResetConnection == ws' = NoSocket /\ isConnected' = FALSE

ResetBackoff == reconnectAttempt' = 0

ReconnectTimerKept == UNCHANGED timerArmed
ClearReconnectTimer == timerArmed' = FALSE

UnregisterNothing(c) == UNCHANGED subscriptions
UnregisterAll(c) == subscriptions' = [q \in Queries |-> NoCall]
UnregisterCallback(c) ==
    subscriptions' = [subscriptions EXCEPT ![QueryOf[c]] = NoCall]

ResubscribeOne == IF Registered = {} THEN {} ELSE {CHOOSE q \in Registered : TRUE}
Resubscribed == Registered

RejectWithoutClearing ==
    /\ UNCHANGED pending
    /\ call' = [c \in Calls |-> IF c \in pending /\ call[c] = "pending"
                                THEN "rejected" ELSE call[c]]
ClearWithoutRejecting == pending' = {} /\ UNCHANGED call
\* rejectAllPending(): a call that already rejected is left as it is.
RejectAllPending ==
    /\ pending' = {}
    /\ call' = [c \in Calls |-> IF c \in pending /\ call[c] = "pending"
                                THEN "rejected" ELSE call[c]]

\* `this.ws = new WebSocket(url)`, the synchronous part of connect().
Connect(s) ==
    /\ setting.validUrl
    /\ s \in setting.sockets /\ sock[s] = "unused"
    /\ sock' = [sock EXCEPT ![s] = "connecting"]
    /\ ws' = s

-----------------------------------------------------------------------------
\* subscribe() up to the await of ensureConnected().  If new WebSocket() throws, connect()
\* is a rejected promise, for this call and for those that join it.
Subscribe(c) ==
    /\ call[c] = "idle"
    /\ ~isUserClose            \* WebSocketSession drops a closed session
    /\ Phase \in setting.callPhases
    /\ \/ /\ isConnected /\ ws # NoSocket
          /\ call' = [call EXCEPT ![c] = "ready"]
          /\ UNCHANGED <<ws, connectionPromise, waitsOn, sock>>
       \/ /\ ~(isConnected /\ ws # NoSocket)
          /\ JoinConnection
          /\ call' = [call EXCEPT ![c] = "connecting"]
          /\ waitsOn' = [waitsOn EXCEPT ![c] = connectionPromise]
          /\ UNCHANGED <<ws, connectionPromise, sock>>
       \/ /\ ~(isConnected /\ ws # NoSocket)
          /\ ~JoinConnection
          /\ \E s \in Sockets :
                /\ Connect(s)
                /\ connectionPromise' = s
                /\ waitsOn' = [waitsOn EXCEPT ![c] = s]
          /\ call' = [call EXCEPT ![c] = "connecting"]
       \/ /\ ~(isConnected /\ ws # NoSocket)
          /\ ~JoinConnection
          /\ ~setting.validUrl
          /\ call' = [call EXCEPT ![c] = "rejected"]
          /\ UNCHANGED <<ws, connectionPromise, waitsOn, sock>>
    /\ UNCHANGED <<setting, isConnected, isUserClose, reconnectAttempt, timerArmed,
                   lostTimers, telling, gaveUp, subsVars, resubscribing, forReconnect,
                   wireVars>>

\* subscribe() resumed: register the pending entry, send, arm the timeout.
\* When send raises, the promise rejects but the entry stays behind.
SendSubscribe(c) ==
    /\ telling = "nothing"
    /\ call[c] = "ready"
    /\ pending' = pending \cup {c}
    /\ \/ /\ SendRaises
          /\ call' = [call EXCEPT ![c] = "rejected"]
          /\ UNCHANGED outbox
       \/ /\ ~SendRaises
          /\ call' = [call EXCEPT ![c] = "pending"]
          /\ Sent(<<[op |-> "subscribe", query |-> QueryOf[c], by |-> c]>>)
    /\ UNCHANGED <<sessionVars, subscriptions, received, waitsOn, resubscribing, sock,
                   forReconnect, inbox, serverSubs>>

\* subscribe() resumed after the confirmation: the callback is registered.
Register(c) ==
    /\ telling = "nothing"
    /\ call[c] = "confirmed"
    /\ subscriptions' = [subscriptions EXCEPT ![QueryOf[c]] = c]
    /\ call' = [call EXCEPT ![c] = "active"]
    /\ UNCHANGED <<sessionVars, pending, received, waitsOn, resubscribing, sock,
                   forReconnect, wireVars>>

\* The SUBSCRIPTION_TIMEOUT_MS timer of a call whose entry is still there.
ConfirmationTimeout(c) ==
    /\ Quiet
    /\ call[c] = "pending" /\ c \in pending
    /\ pending' = pending \ {c}
    /\ call' = [call EXCEPT ![c] = "rejected"]
    /\ UNCHANGED <<sessionVars, subscriptions, received, waitsOn, resubscribing, sock,
                   forReconnect, wireVars>>

\* The handle's unsubscribe().
Unsubscribe(c) ==
    /\ call[c] = "active"
    /\ call' = [call EXCEPT ![c] = "unsubscribed"]
    /\ UnregisterCallback(c)
    /\ IF isConnected
       THEN Sent(<<[op |-> "unsubscribe", query |-> QueryOf[c], by |-> NoCall]>>)
       ELSE UNCHANGED outbox
    /\ UNCHANGED <<sessionVars, pending, received, waitsOn, resubscribing, sock,
                   forReconnect, inbox, serverSubs>>

\* The platform's WebSocket.close().
AfterClose(state) ==
    IF state = "connecting" THEN "aborting"
    ELSE IF state = "open" THEN "closing" ELSE state

\* close(): only the socket this.ws refers to and the last timer are released.
Close ==
    /\ ~isUserClose
    /\ telling # "nothing" => setting.closesInCallback
    /\ isUserClose' = TRUE
    /\ ClearReconnectTimer
    /\ subscriptions' = [q \in Queries |-> NoCall]
    /\ RejectAllPending
    /\ sock' = [s \in Sockets |-> IF s = ws THEN AfterClose(sock[s]) ELSE sock[s]]
    /\ ResetConnection
    /\ UNCHANGED <<setting, connectionPromise, reconnectAttempt, lostTimers, telling, gaveUp,
                   received, waitsOn, resubscribing, forReconnect, wireVars>>

-----------------------------------------------------------------------------
\* ws.onopen, followed by the settling of the promise connect() returned.
OnOpen(s) ==
    /\ Quiet
    /\ sock[s] = "connecting"
    /\ sock' = [sock EXCEPT ![s] = "open"]
    /\ isConnected' = TRUE
    /\ connectionPromise' = NoSocket
    /\ ResetBackoff
    /\ call' = [c \in Calls |-> IF call[c] = "connecting" /\ waitsOn[c] = s
                                THEN "ready" ELSE call[c]]
    /\ resubscribing' = IF s \in forReconnect THEN resubscribing \cup {s}
                        ELSE resubscribing
    /\ UNCHANGED <<setting, ws, isUserClose, timerArmed, lostTimers, telling, gaveUp, subsVars,
                   waitsOn, forReconnect, wireVars>>

\* ws.onerror: the promise of a connecting socket rejects; an open socket
\* may report an error before it closes.
OnError(s) ==
    /\ Quiet
    /\ \/ sock[s] = "aborting"
       \/ sock[s] \in {"connecting", "open"} /\ ~setting.reachable
    /\ sock' = [sock EXCEPT ![s] = "failing"]
    /\ connectionPromise' = NoSocket
    /\ call' = [c \in Calls |-> IF call[c] = "connecting" /\ waitsOn[c] = s
                                THEN "rejected" ELSE call[c]]
    /\ UNCHANGED <<setting, ws, isConnected, isUserClose, reconnectAttempt, timerArmed,
                   lostTimers, telling, gaveUp, subsVars, waitsOn, resubscribing,
                   forReconnect, wireVars>>

\* ws.onclose: whichever socket closed, this.ws and isConnected are reset.
OnClose(s) ==
    /\ Quiet
    /\ sock[s] \in {"open", "failing", "closing"}
    /\ sock' = [sock EXCEPT ![s] = "closed"]
    /\ outbox' = [outbox EXCEPT ![s] = <<>>]
    /\ inbox' = [inbox EXCEPT ![s] = <<>>]
    /\ serverSubs' = [serverSubs EXCEPT ![s] = {}]
    /\ ResetConnection
    /\ IF WasConnected /\ ~isUserClose THEN telling' = "disconnect" ELSE UNCHANGED telling
    /\ UNCHANGED <<setting, connectionPromise, isUserClose, reconnectAttempt, timerArmed,
                   lostTimers, gaveUp, subsVars, callVars, forReconnect>>

\* scheduleReconnect(), called when the application has been told of the drop: it does not
\* ask again whether the application has closed the session in the meantime.
ScheduleReconnect ==
    /\ telling = "disconnect"
    /\ \/ /\ ~options.autoReconnect
          /\ telling' = "nothing"
          /\ UNCHANGED <<pending, call, gaveUp, reconnectAttempt>>
       \/ /\ options.autoReconnect
          /\ reconnectAttempt >= options.maxRetries
          /\ RejectAllPending
          /\ gaveUp' = TRUE
          /\ telling' = "nothing"
          /\ UNCHANGED reconnectAttempt
       \/ /\ options.autoReconnect
          /\ reconnectAttempt < options.maxRetries
          /\ reconnectAttempt' = reconnectAttempt + 1
          /\ telling' = "reconnect"
          /\ UNCHANGED <<pending, call, gaveUp>>
    /\ UNCHANGED <<setting, ws, isConnected, connectionPromise, isUserClose, timerArmed,
                   lostTimers, subscriptions, received, waitsOn, resubscribing, sock,
                   forReconnect, wireVars>>

\* The rest of scheduleReconnect(), when the application has been told of the attempt; a
\* timer that is already running is forgotten.
ArmTimer ==
    /\ telling = "reconnect"
    /\ telling' = "nothing"
    /\ timerArmed' = TRUE
    /\ lostTimers' = IF timerArmed THEN lostTimers + 1 ELSE lostTimers
    /\ UNCHANGED <<setting, ws, isConnected, connectionPromise, isUserClose,
                   reconnectAttempt, gaveUp, subsVars, callVars, sock, forReconnect,
                   wireVars>>

\* The reconnect timer: reconnectAndResubscribe() up to the await of connect().
ReconnectTimer ==
    /\ Quiet
    /\ \/ timerArmed /\ timerArmed' = FALSE /\ UNCHANGED lostTimers
       \/ lostTimers > 0 /\ lostTimers' = lostTimers - 1 /\ UNCHANGED timerArmed
    /\ \E s \in Sockets : Connect(s) /\ forReconnect' = forReconnect \cup {s}
    /\ UNCHANGED <<setting, isConnected, connectionPromise, isUserClose,
                   reconnectAttempt, telling, gaveUp, subsVars, callVars, wireVars>>

\* resubscribeAll(): fire and forget; ids of these requests are not pending.
ResubscribeAll(s) ==
    /\ telling = "nothing"
    /\ s \in resubscribing
    /\ resubscribing' = resubscribing \ {s}
    /\ \E order \in [1..Cardinality(Resubscribed) -> Resubscribed] :
          /\ Resubscribed = {order[i] : i \in DOMAIN order}
          /\ Sent([i \in DOMAIN order |->
                     [op |-> "subscribe", query |-> order[i], by |-> NoCall]])
    /\ UNCHANGED <<sessionVars, subsVars, call, waitsOn, sock, forReconnect,
                   inbox, serverSubs>>

\* handleMessage(): a confirmation resolves its pending entry, an event goes to
\* the callback registered for its query.
OnMessage(s) ==
    /\ Quiet
    /\ sock[s] = "open" /\ inbox[s] # <<>>
    /\ inbox' = [inbox EXCEPT ![s] = Tail(@)]
    /\ LET m == Head(inbox[s]) IN
       /\ IF m.kind = "confirm" /\ m.of \in pending
          THEN /\ pending' = pending \ {m.of}
               /\ call' = [call EXCEPT ![m.of] = "confirmed"]
          ELSE UNCHANGED <<pending, call>>
       /\ received' = IF m.kind = "event" /\ m.of \in Registered
                      THEN received \cup {subscriptions[m.of]} ELSE received
    /\ UNCHANGED <<sessionVars, subscriptions, waitsOn, resubscribing, sock,
                   forReconnect, outbox, serverSubs>>

-----------------------------------------------------------------------------
(***************************************************************************)
(* The node (external).  It handles the requests of a connection in order, *)
(* answers a subscribe request with a confirmation or, unless nodeAccepts, *)
(* with an error, which handleMessage ignores, and sends events of the     *)
(* queries it holds.  One undelivered event per query is enough.           *)
(***************************************************************************)
NodeRequest(s) ==
    /\ sock[s] \in {"open", "failing"} /\ outbox[s] # <<>>
    /\ outbox' = [outbox EXCEPT ![s] = Tail(@)]
    /\ LET f == Head(outbox[s]) IN
       \/ /\ f.op = "subscribe"
          /\ serverSubs' = [serverSubs EXCEPT ![s] = @ \cup {f.query}]
          /\ inbox' = IF f.by = NoCall THEN inbox
                      ELSE [inbox EXCEPT ![s] =
                              Append(@, [kind |-> "confirm", of |-> f.by])]
       \/ /\ f.op = "subscribe" /\ ~setting.nodeAccepts
          /\ UNCHANGED <<serverSubs, inbox>>
       \/ /\ f.op = "unsubscribe"
          /\ serverSubs' = [serverSubs EXCEPT ![s] = @ \ {f.query}]
          /\ UNCHANGED inbox
    /\ UNCHANGED <<sessionVars, subsVars, callVars, sock, forReconnect>>

NodeEvent(s, q) ==
    /\ sock[s] = "open" /\ q \in serverSubs[s]
    /\ \A i \in DOMAIN inbox[s] : inbox[s][i] # [kind |-> "event", of |-> q]
    /\ inbox' = [inbox EXCEPT ![s] = Append(@, [kind |-> "event", of |-> q])]
    /\ UNCHANGED <<sessionVars, subsVars, callVars, sock, forReconnect,
                   outbox, serverSubs>>

Application == Close \/ \E c \in Calls : Subscribe(c) \/ Unsubscribe(c)

Continuation ==
    \/ \E c \in Calls : SendSubscribe(c) \/ Register(c)
    \/ \E s \in Sockets : ResubscribeAll(s)

EventLoop ==
    \/ \E c \in Calls : ConfirmationTimeout(c)
    \/ \E s \in Sockets : OnOpen(s) \/ OnError(s) \/ OnClose(s) \/ OnMessage(s)
    \/ ScheduleReconnect \/ ArmTimer \/ ReconnectTimer

Node == \E s \in Sockets :
            NodeRequest(s) \/ \E q \in Queries : NodeEvent(s, q)

Next == Application \/ Continuation \/ EventLoop \/ Node

Spec == Init /\ [][Next]_vars

-----------------------------------------------------------------------------
(***************************************************************************)
(* What InternalCosmosSession promises: the invariants, step properties    *)
(* and liveness properties of CosmosSession, and its fair specification.   *)
(***************************************************************************)
\* The application calls subscribe() only while it is connected, while a connection it
\* asked for is under way, or when the session has neither a socket nor a timer; and it
\* calls close() outside of its onConnectionEvent.
Careful ==
    setting.callPhases \subseteq {"connected", "joining", "idle"} /\ ~setting.closesInCallback

\* ... and neither the network nor the node refuses it anything.
Undisturbed == Careful /\ setting.reachable /\ setting.nodeAccepts

\* For a careful application at most one WebSocket of the session is on its way, open
\* or closing: connect() is never entered while an earlier socket is still around.
OneSocket ==
    Careful => \A s, t \in Sockets : Live(s) /\ Live(t) => s = t

\* After close() no socket of the session is open or becoming open
\* ("Close all WebSocket connections and subscriptions", session.ts).
ClosedStaysClosed ==
    Careful /\ isUserClose => \A s \in Sockets : sock[s] \notin {"connecting", "open"}

\* this.isConnected, behind the `connected` getter, tells the truth between two
\* events: this.ws is there, and it is open or its close event is about to come.
ConnectedHasSocket ==
    Careful /\ isConnected => ws # NoSocket /\ sock[ws] \in {"open", "failing"}

\* The three together: the session and its sockets agree.
SocketsAreKept == OneSocket /\ ClosedStaysClosed /\ ConnectedHasSocket

\* The entries of pendingSubscriptions are exactly the calls that await their
\* confirmation, so a confirmation, a timeout and rejectAllPending() find each of
\* them, and no entry outlives its call while the session runs.
PendingIsAwaited ==
    Careful /\ ~isUserClose => pending = {c \in Calls : call[c] = "pending"}

\* Whoever awaits the session has something due that settles it, however the application
\* uses the session: a call that awaits its connection has a socket that has yet to open
\* or to fail, one that awaits its confirmation has the entry its timer looks for.
SettlementIsDue ==
    \A c \in Calls :
        /\ call[c] = "connecting" =>
               waitsOn[c] \in Sockets /\ sock[waitsOn[c]] \in {"connecting", "aborting"}
        /\ call[c] = "pending" => c \in pending

\* The two together: an entry for each call that awaits one, and nobody stranded.
AwaitedIsDue == PendingIsAwaited /\ SettlementIsDue

\* The exponential backoff never backs off: a failed attempt schedules no other
\* and an opened socket resets the counter, so no delay is computed for a second
\* attempt, and maxRetriesReached is out of reach unless maxRetries is 0.
BackoffNeverGrows ==
    /\ reconnectAttempt <= 1
    /\ gaveUp => options.maxRetries = 0

\* No other call subscribes to the query of c: `subscriptions` has one callback for
\* each query, so that a later call takes the place of an earlier one.
Exclusive(c) == \A d \in Calls : QueryOf[d] = QueryOf[c] => d = c

\* While the session runs, every handle the application holds has its own
\* callback registered: no subscribe() or unsubscribe() of another query took it.
HandleOwnsCallback ==
    ~isUserClose =>
        \A c \in Calls :
            Exclusive(c) /\ call[c] = "active" => subscriptions[QueryOf[c]] = c

\* The node holds q for socket s once it has handled the frames on the wire: no frame
\* that unsubscribes q comes after the last that subscribes it.
WillServe(s, q) ==
    LET About(op) == {i \in DOMAIN outbox[s] : outbox[s][i].query = q
                                              /\ outbox[s][i].op = op} IN
    \/ q \in serverSubs[s] /\ About("unsubscribe") = {}
    \/ \E i \in About("subscribe") : \A j \in About("unsubscribe") : j < i

\* The session reconnects by itself.
Reconnects == options.autoReconnect /\ options.maxRetries > 0

\* An undisturbed session that is connected has the query of every callback subscribed
\* at the node, or asked for in its frames, on the first connection and on the tenth
\* ("All subscriptions are automatically restored after reconnection").
SubscriptionsRestored ==
    Undisturbed /\ Reconnects /\ Quiet /\ ws # NoSocket /\ sock[ws] = "open" =>
        \A c \in Calls :
            Exclusive(c) /\ subscriptions[QueryOf[c]] = c => WillServe(ws, QueryOf[c])

\* A session that lost its connection and did not announce maxRetriesReached
\* has a reconnect timer running or an attempt under way
\* ("connect() already handles next reconnect attempt via onclose").
RetriesUntilGivingUp ==
    (/\ options.autoReconnect /\ ~isUserClose /\ ~gaveUp
     /\ Registered # {})
       => timerArmed \/ telling # "nothing" \/ \E s \in Sockets : Live(s)

\* For a careful application, a callback is invoked only while its handle is active:
\* never before subscribe() returned it, never after unsubscribe() or close().
CallbackOnlyWhileActive ==
    \A c \in Calls : Careful /\ c \in received' \ received =>
        call[c] = "active" /\ ~isUserClose

\* The three together: each handle has its own callback, an undisturbed connection has
\* the node send the events of each, and no step delivers one outside the handle's life.
HandlesAreServed ==
    [][/\ HandleOwnsCallback'
       /\ SubscriptionsRestored'
       /\ CallbackOnlyWhileActive]_vars

-----------------------------------------------------------------------------
(***************************************************************************)
(* Fairness: the event loop runs ready continuations and due timers, and a *)
(* connection attempt ends one way or the other.  Nothing makes the node   *)
(* answer, a connection drop, or the application act.                      *)
(***************************************************************************)
Fairness ==
    /\ \A c \in Calls : /\ WF_vars(SendSubscribe(c))
                        /\ WF_vars(Register(c))
                        /\ WF_vars(ConfirmationTimeout(c))
    /\ \A s \in Sockets : /\ WF_vars(ResubscribeAll(s))
                          /\ WF_vars(OnOpen(s) \/ OnError(s))
                          /\ WF_vars(OnClose(s) /\ sock[s] # "open")
    /\ WF_vars(ScheduleReconnect) /\ WF_vars(ArmTimer)
    /\ WF_vars(ReconnectTimer)

FairSpec == Spec /\ Fairness

\* Every subscribe() call settles, whatever the connection does and whenever
\* the session is closed: nobody awaits it for ever.
EveryCallSettles ==
    \A c \in Calls :
        call[c] \in {"connecting", "ready", "pending", "confirmed"} ~>
            call[c] \in {"active", "unsubscribed", "rejected"}

\* The bound on sockets is reached.
SocketsSpent == \A s \in setting.sockets : sock[s] # "unused"

\* In an undisturbed session, a handle whose connection dropped is served again
\* unless it is unsubscribed or the session closed or gave up.
DroppedIsRestored ==
    \A c \in Calls :
        Undisturbed /\ options.autoReconnect /\ call[c] = "active" /\ ~isConnected ~>
            \/ call[c] = "unsubscribed" \/ isUserClose \/ gaveUp \/ SocketsSpent
            \/ ws # NoSocket /\ sock[ws] = "open" /\ WillServe(ws, QueryOf[c])

=============================================================================
