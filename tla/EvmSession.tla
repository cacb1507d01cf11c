----------------------------- MODULE EvmSession -----------------------------
(***************************************************************************)
(* The eth_subscribe session of src/client/websocket/evm-session.ts (class *)
(* InternalEvmSession).  The connection is managed as in CosmosSession; the*)
(* subscriptions differ: their keys are identifiers the node makes up, new *)
(* ones after every reconnection, and resubscribeAll() calls subscribe()   *)
(* once per stored subscription and awaits each call.                      *)
(*                                                                         *)
(* As there, the application's onConnectionEvent runs within the handlers  *)
(* of close events, before they go on (see telling), and returns.          *)
(*                                                                         *)
(* One subscribe() runs per thread: a thread is a call of the application  *)
(* or the resubscribeAll() loop of a reconnect socket.                     *)
(***************************************************************************)
EXTENDS Naturals, Sequences, FiniteSets, SequencesExt

CONSTANTS
    Calls,           \* the subscribe() calls the application makes
    Sockets,         \* identities of the WebSocket objects
    NoSocket,
    Settings         \* the circumstances a session may find itself in

(***************************************************************************)
(* options          the SessionOptions the application passes              *)
(* careful          it calls subscribe() only while the session is         *)
(*                  connected, joining a connection or idle, and neither   *)
(*                  that nor close() within its onConnectionEvent          *)
(* validUrl         new WebSocket() does not refuse the URL                *)
(* reachable        no connection attempt fails, no socket errs            *)
(* nodeAnswers      the node confirms a request before its timeout         *)
(* loopUndisturbed  no drop while a resubscribeAll() is running            *)
(* sockets          bounds the WebSocket objects the session creates       *)
(***************************************************************************)
Setting == [options : [autoReconnect : BOOLEAN, maxRetries : Nat],
            careful : BOOLEAN, validUrl : BOOLEAN, reachable : BOOLEAN,
            nodeAnswers : BOOLEAN, loopUndisturbed : BOOLEAN, sockets : SUBSET Sockets]

ASSUME EvmSessionAssumption ==
    /\ Calls \cap Sockets = {}
    /\ NoSocket \notin Sockets
    /\ Settings \subseteq Setting

Threads == Calls \cup Sockets

VARIABLES
    setting,           \* never changes
    \* Fields of the session object.
    ws, isConnected, connectionPromise, isUserClose, reconnectAttempt,
    timerArmed,        \* the timer this.reconnectTimer refers to is running
    lostTimers,        \* running timers this.reconnectTimer no longer refers to
    telling,           \* the event a close handler is in the onConnectionEvent of
    messageIdCounter,
    subscriptionInfo,  \* entries in insertion order; `subscriptions` has the same keys
    pending,           \* the message ids that are keys of pendingSubscriptions
    \* Suspended asynchronous functions.
    phase,             \* where the subscribe() of each thread stands
    id,                \* its message id; the node's id for the subscription as well
    waitsOn,           \* the socket whose connect() promise it awaits
    todo,              \* what each resubscribeAll() still has to do, current one first
    \* The platform's sockets and the node behind them.
    sock, forReconnect,
    outbox, inbox,     \* requests and messages on the wire, per socket
    serverSubs         \* subscription ids the node holds for each socket

connVars == <<setting, ws, isConnected, connectionPromise, isUserClose,
              reconnectAttempt, timerArmed, lostTimers, telling>>
subsVars == <<messageIdCounter, subscriptionInfo, pending>>
threadVars == <<phase, id, waitsOn, todo>>
wireVars == <<outbox, inbox, serverSubs>>
vars == <<connVars, subsVars, threadVars, sock, forReconnect, wireVars>>

SocketStates == {"unused", "connecting", "open", "aborting", "failing",
                 "closing", "closed"}

(***************************************************************************)
(* connecting awaits ensureConnected(); ready, sendable once scheduled     *)
(* pending    awaits the confirmation; confirmed, about to register        *)
(* active, unsubscribed, rejected   how the call of the application ended  *)
(* opened, settled   the loop is about to take its first, its next entry   *)
(***************************************************************************)
CallPhases == {"idle", "connecting", "ready", "pending", "confirmed",
               "active", "unsubscribed", "rejected"}
LoopPhases == {"idle", "opened", "connecting", "ready", "pending", "confirmed",
               "settled", "done"}
Entry == [key : Nat, callback : Calls]
Request == [op : {"subscribe", "unsubscribe"}, key : Nat]

TypeOK ==
    /\ setting \in Settings
    /\ ws \in Sockets \cup {NoSocket}
    /\ connectionPromise \in Sockets \cup {NoSocket}
    /\ {isConnected, isUserClose, timerArmed} \subseteq BOOLEAN
    /\ {reconnectAttempt, lostTimers, messageIdCounter} \subseteq Nat
    /\ telling \in {"nothing", "disconnect", "reconnect"}
    /\ subscriptionInfo \in Seq(Entry)
    /\ pending \subseteq 1..messageIdCounter
    /\ phase \in [Threads -> CallPhases \cup LoopPhases]
    /\ \A c \in Calls : phase[c] \in CallPhases
    /\ \A s \in Sockets : phase[s] \in LoopPhases
    /\ id \in [Threads -> 0..messageIdCounter]
    /\ waitsOn \in [Threads -> Sockets \cup {NoSocket}]
    /\ todo \in [Sockets -> Seq(Calls)]
    /\ sock \in [Sockets -> SocketStates]
    /\ forReconnect \subseteq Sockets
    /\ outbox \in [Sockets -> SUBSET Request]
    /\ inbox \in [Sockets -> Seq(Nat)]
    /\ serverSubs \in [Sockets -> SUBSET Nat]

Init ==
    /\ setting \in Settings
    /\ ws = NoSocket /\ connectionPromise = NoSocket
    /\ isConnected = FALSE /\ isUserClose = FALSE /\ timerArmed = FALSE
    /\ reconnectAttempt = 0 /\ lostTimers = 0 /\ messageIdCounter = 0
    /\ telling = "nothing"
    /\ subscriptionInfo = <<>>
    /\ pending = {}
    /\ phase = [t \in Threads |-> "idle"]
    /\ id = [t \in Threads |-> 0]
    /\ waitsOn = [t \in Threads |-> NoSocket]
    /\ todo = [s \in Sockets |-> <<>>]
    /\ sock = [s \in Sockets |-> "unused"]
    /\ forReconnect = {}
    /\ outbox = [s \in Sockets |-> {}]
    /\ inbox = [s \in Sockets |-> <<>>]
    /\ serverSubs = [s \in Sockets |-> {}]

-----------------------------------------------------------------------------
options == setting.options

Live(s) == sock[s] \in {"connecting", "open", "aborting", "failing", "closing"}

\* The callback that the subscribe() of a thread registers.
Callback(t) == IF t \in Calls THEN t ELSE Head(todo[t])

\* No handler is under way and no continuation is ready: the event loop may take the
\* next event.
Quiet ==
    /\ telling = "nothing"
    /\ \A t \in Threads : phase[t] \notin {"ready", "confirmed", "opened", "settled"}

Looping == \E s \in Sockets : phase[s] \notin {"idle", "done"}

\* subscribe() rejects: the call ends, the loop catches and goes on.
Failed(t) == IF t \in Calls THEN "rejected" ELSE "settled"

SendRaises == ws = NoSocket \/ (ws # NoSocket /\ sock[ws] = "connecting")

Sent(request) ==
    IF ws # NoSocket /\ sock[ws] = "open"
    THEN outbox' = [outbox EXCEPT ![ws] = @ \cup {request}]
    ELSE UNCHANGED outbox

-----------------------------------------------------------------------------
\* The assignments the handlers share, each preceded by mistakes in it.
ClearWithoutRejecting == pending' = {} /\ UNCHANGED phase
\* rejectAllPending()
RejectAllPending ==
    /\ pending' = {}
    /\ phase' = [t \in Threads |-> IF phase[t] = "pending" /\ id[t] \in pending
                                   THEN Failed(t) ELSE phase[t]]

OldInfosKept == UNCHANGED subscriptionInfo
\* `this.subscriptions.clear(); this.subscriptionInfo.clear()`
ClearInfos == subscriptionInfo' = <<>>

\* `subscriptions.delete(subscriptionId)` and the same for subscriptionInfo, Maps
\* whose keys occur once.
Forget(key) ==
    \/ /\ \A i \in DOMAIN subscriptionInfo : subscriptionInfo[i].key # key
       /\ UNCHANGED subscriptionInfo
    \/ \E i \in DOMAIN subscriptionInfo :
          /\ subscriptionInfo[i].key = key
          /\ subscriptionInfo' = RemoveAt(subscriptionInfo, i)

StopAfterFirst(s) == <<>>
\* The loop of resubscribeAll() goes on whether or not a subscribe() failed.
Remaining(s) == Tail(todo[s])

\* `if (this.connectionPromise)` in ensureConnected()
JoinConnection == connectionPromise # NoSocket

Connect(s) ==
    /\ setting.validUrl
    /\ s \in setting.sockets /\ sock[s] = "unused"
    /\ sock' = [sock EXCEPT ![s] = "connecting"]
    /\ ws' = s

\* subscribe() of thread t up to the await of ensureConnected().
EnsureConnected(t) ==
    \/ /\ isConnected /\ ws # NoSocket
       /\ phase' = [phase EXCEPT ![t] = "ready"]
       /\ UNCHANGED <<ws, connectionPromise, waitsOn, sock>>
    \/ /\ ~(isConnected /\ ws # NoSocket) /\ JoinConnection
       /\ phase' = [phase EXCEPT ![t] = "connecting"]
       /\ waitsOn' = [waitsOn EXCEPT ![t] = connectionPromise]
       /\ UNCHANGED <<ws, connectionPromise, sock>>
    \/ /\ ~(isConnected /\ ws # NoSocket) /\ ~JoinConnection
       /\ phase' = [phase EXCEPT ![t] = "connecting"]
       /\ \E s \in Sockets :
             /\ Connect(s)
             /\ connectionPromise' = s
             /\ waitsOn' = [waitsOn EXCEPT ![t] = s]

\* The same where new WebSocket() throws: connect() is a rejected promise, for this call and
\* for those that join it.  (No socket is ever made then, and no resubscribeAll() runs.)
UrlRefused(c) ==
    /\ ~setting.validUrl
    /\ phase' = [phase EXCEPT ![c] = "rejected"]
    /\ UNCHANGED <<ws, connectionPromise, waitsOn, sock>>

-----------------------------------------------------------------------------
\* The application's subscribe().
Subscribe(c) ==
    /\ phase[c] = "idle" /\ ~isUserClose
    /\ setting.careful =>
          /\ telling = "nothing"
          /\ \/ isConnected
             \/ connectionPromise # NoSocket
             \/ ~timerArmed /\ lostTimers = 0 /\ \A s \in Sockets : ~Live(s)
    /\ EnsureConnected(c) \/ UrlRefused(c)
    /\ UNCHANGED <<setting, isConnected, isUserClose, reconnectAttempt, timerArmed,
                   lostTimers, telling, subsVars, id, todo, forReconnect, wireVars>>

\* subscribe() resumed: register the pending entry, send, arm the timeout.
SendSubscribe(t) ==
    /\ telling = "nothing"
    /\ phase[t] = "ready"
    /\ messageIdCounter' = messageIdCounter + 1
    /\ id' = [id EXCEPT ![t] = messageIdCounter']
    /\ pending' = pending \cup {messageIdCounter'}
    /\ \/ /\ SendRaises
          /\ phase' = [phase EXCEPT ![t] = Failed(t)]
          /\ UNCHANGED outbox
       \/ /\ ~SendRaises
          /\ phase' = [phase EXCEPT ![t] = "pending"]
          /\ Sent([op |-> "subscribe", key |-> messageIdCounter'])
    /\ UNCHANGED <<connVars, subscriptionInfo, waitsOn, todo, sock, forReconnect,
                   inbox, serverSubs>>

\* subscribe() resumed after the confirmation.
Register(t) ==
    /\ telling = "nothing"
    /\ phase[t] = "confirmed"
    /\ subscriptionInfo' =
          Append(subscriptionInfo, [key |-> id[t], callback |-> Callback(t)])
    /\ phase' = [phase EXCEPT ![t] = IF t \in Calls THEN "active" ELSE "settled"]
    /\ UNCHANGED <<connVars, messageIdCounter, pending, id, waitsOn, todo, sock,
                   forReconnect, wireVars>>

\* The SUBSCRIPTION_TIMEOUT_MS timer finds the entry still there.  A node that
\* answers is only late when the request's connection is gone.
ConfirmationTimeout(t) ==
    /\ Quiet
    /\ phase[t] = "pending" /\ id[t] \in pending
    /\ setting.nodeAnswers => \A s \in Sockets :
            sock[s] = "open" => /\ [op |-> "subscribe", key |-> id[t]] \notin outbox[s]
                                /\ id[t] \notin serverSubs[s]
    /\ pending' = pending \ {id[t]}
    /\ phase' = [phase EXCEPT ![t] = Failed(t)]
    /\ UNCHANGED <<connVars, messageIdCounter, subscriptionInfo, id, waitsOn, todo, sock,
                   forReconnect, wireVars>>

\* unsubscribe() of a handle deletes the id that subscribe() once returned.
Unsubscribe(c) ==
    /\ phase[c] = "active"
    /\ phase' = [phase EXCEPT ![c] = "unsubscribed"]
    /\ Forget(id[c])
    /\ IF isConnected /\ ws # NoSocket
       THEN /\ messageIdCounter' = messageIdCounter + 1
            /\ Sent([op |-> "unsubscribe", key |-> id[c]])
       ELSE UNCHANGED <<messageIdCounter, outbox>>
    /\ UNCHANGED <<connVars, pending, id, waitsOn, todo, sock, forReconnect, inbox,
                   serverSubs>>

\* The platform's WebSocket.close().
AfterClose(state) ==
    IF state = "connecting" THEN "aborting"
    ELSE IF state = "open" THEN "closing" ELSE state

Close ==
    /\ ~isUserClose
    /\ telling # "nothing" => ~setting.careful
    /\ isUserClose' = TRUE
    /\ timerArmed' = FALSE
    /\ ClearInfos
    /\ RejectAllPending
    /\ sock' = [s \in Sockets |-> IF s = ws THEN AfterClose(sock[s]) ELSE sock[s]]
    /\ ws' = NoSocket
    /\ isConnected' = FALSE
    /\ UNCHANGED <<setting, connectionPromise, reconnectAttempt, lostTimers, telling,
                   messageIdCounter, id, waitsOn, todo, forReconnect, wireVars>>

-----------------------------------------------------------------------------
\* ws.onopen, and the continuations that await the promise of connect().
OnOpen(s) ==
    /\ Quiet
    /\ sock[s] = "connecting"
    /\ sock' = [sock EXCEPT ![s] = "open"]
    /\ isConnected' = TRUE
    /\ connectionPromise' = NoSocket
    /\ reconnectAttempt' = 0
    /\ phase' = [t \in Threads |-> IF t = s /\ s \in forReconnect THEN "opened"
                                   ELSE IF phase[t] = "connecting" /\ waitsOn[t] = s
                                   THEN "ready" ELSE phase[t]]
    /\ UNCHANGED <<setting, ws, isUserClose, timerArmed, lostTimers, telling, subsVars,
                   id, waitsOn, todo, forReconnect, wireVars>>

OnError(s) ==
    /\ Quiet
    /\ \/ sock[s] = "aborting"
       \/ sock[s] \in {"connecting", "open"} /\ ~setting.reachable
    /\ sock' = [sock EXCEPT ![s] = "failing"]
    /\ connectionPromise' = NoSocket
    /\ phase' = [t \in Threads |-> IF phase[t] = "connecting" /\ waitsOn[t] = s
                                   THEN Failed(t) ELSE phase[t]]
    /\ UNCHANGED <<setting, ws, isConnected, isUserClose, reconnectAttempt, timerArmed,
                   lostTimers, telling, subsVars, id, waitsOn, todo, forReconnect,
                   wireVars>>

\* ws.onclose: whichever socket closed, this.ws and isConnected are reset.
OnClose(s) ==
    /\ Quiet
    /\ sock[s] \in {"open", "failing", "closing"}
    /\ sock[s] = "open" /\ setting.loopUndisturbed => ~Looping
    /\ sock' = [sock EXCEPT ![s] = "closed"]
    /\ outbox' = [outbox EXCEPT ![s] = {}]
    /\ inbox' = [inbox EXCEPT ![s] = <<>>]
    /\ serverSubs' = [serverSubs EXCEPT ![s] = {}]
    /\ ws' = NoSocket
    /\ isConnected' = FALSE
    /\ telling' = IF isConnected /\ ~isUserClose THEN "disconnect" ELSE "nothing"
    /\ UNCHANGED <<setting, connectionPromise, isUserClose, reconnectAttempt, timerArmed,
                   lostTimers, subsVars, threadVars, forReconnect>>

\* scheduleReconnect(), called when the application has been told of the drop, whether or
\* not it has closed the session: pending entries stay unless the retries are used up.
ScheduleReconnect ==
    /\ telling = "disconnect"
    /\ \/ /\ ~options.autoReconnect
          /\ telling' = "nothing"
          /\ UNCHANGED <<pending, phase, reconnectAttempt>>
       \/ /\ options.autoReconnect /\ reconnectAttempt >= options.maxRetries
          /\ RejectAllPending
          /\ telling' = "nothing"
          /\ UNCHANGED reconnectAttempt
       \/ /\ options.autoReconnect /\ reconnectAttempt < options.maxRetries
          /\ reconnectAttempt' = reconnectAttempt + 1
          /\ telling' = "reconnect"
          /\ UNCHANGED <<pending, phase>>
    /\ UNCHANGED <<setting, ws, isConnected, connectionPromise, isUserClose, timerArmed,
                   lostTimers, messageIdCounter, subscriptionInfo, id, waitsOn, todo, sock,
                   forReconnect, wireVars>>

\* The rest of scheduleReconnect(), when the application has been told of the attempt; a
\* timer that is already running is forgotten.
ArmTimer ==
    /\ telling = "reconnect"
    /\ telling' = "nothing"
    /\ timerArmed' = TRUE
    /\ lostTimers' = IF timerArmed THEN lostTimers + 1 ELSE lostTimers
    /\ UNCHANGED <<setting, ws, isConnected, connectionPromise, isUserClose,
                   reconnectAttempt, subsVars, threadVars, sock, forReconnect, wireVars>>

\* The reconnect timer: reconnectAndResubscribe() up to the await of connect().
ReconnectTimer ==
    /\ Quiet
    /\ \/ timerArmed /\ timerArmed' = FALSE /\ UNCHANGED lostTimers
       \/ lostTimers > 0 /\ lostTimers' = lostTimers - 1 /\ UNCHANGED timerArmed
    /\ \E s \in Sockets : Connect(s) /\ forReconnect' = forReconnect \cup {s}
    /\ UNCHANGED <<setting, isConnected, connectionPromise, isUserClose, reconnectAttempt,
                   telling, subsVars, threadVars, wireVars>>

\* resubscribeAll() takes its next entry and calls subscribe(), or returns.
NextResubscription(s, rest) ==
    /\ todo' = [todo EXCEPT ![s] = rest]
    /\ \/ /\ rest = <<>>
          /\ phase' = [phase EXCEPT ![s] = "done"]
          /\ UNCHANGED <<ws, connectionPromise, waitsOn, sock>>
       \/ /\ rest # <<>>
          /\ EnsureConnected(s)
    /\ UNCHANGED <<setting, isConnected, isUserClose, reconnectAttempt, timerArmed,
                   lostTimers, telling, messageIdCounter, pending, id, forReconnect, wireVars>>

\* resubscribeAll() starts: both maps are emptied before anything is awaited.
ResubscribeAll(s) ==
    /\ telling = "nothing"
    /\ phase[s] = "opened"
    /\ ClearInfos
    /\ NextResubscription(s, [i \in DOMAIN subscriptionInfo |->
                                subscriptionInfo[i].callback])

\* Its loop continues after a subscribe() that resolved or rejected.
ResubscribeNext(s) ==
    /\ telling = "nothing"
    /\ phase[s] = "settled"
    /\ NextResubscription(s, Remaining(s))
    /\ UNCHANGED subscriptionInfo

\* handleMessage(): a confirmation resolves its pending entry.  Events only look
\* their callback up and are left out.
OnMessage(s) ==
    /\ Quiet
    /\ sock[s] = "open" /\ inbox[s] # <<>>
    /\ inbox' = [inbox EXCEPT ![s] = Tail(@)]
    /\ pending' = pending \ {Head(inbox[s])}
    /\ phase' = [t \in Threads |->
                   IF phase[t] = "pending" /\ id[t] = Head(inbox[s]) /\ id[t] \in pending
                   THEN "confirmed" ELSE phase[t]]
    /\ UNCHANGED <<connVars, messageIdCounter, subscriptionInfo, id, waitsOn, todo, sock,
                   forReconnect, outbox, serverSubs>>

-----------------------------------------------------------------------------
\* The node (external): it confirms a subscribe request under a new id, named
\* here after the request, or refuses it, and drops what is unsubscribed.
NodeRequest(s, r) ==
    /\ sock[s] \in {"open", "failing"} /\ r \in outbox[s]
    /\ outbox' = [outbox EXCEPT ![s] = @ \ {r}]
    /\ \/ /\ r.op = "subscribe"
          /\ serverSubs' = [serverSubs EXCEPT ![s] = @ \cup {r.key}]
          /\ inbox' = [inbox EXCEPT ![s] = Append(@, r.key)]
       \/ /\ r.op = "subscribe" /\ ~setting.nodeAnswers
          /\ UNCHANGED <<serverSubs, inbox>>
       \/ /\ r.op = "unsubscribe"
          /\ serverSubs' = [serverSubs EXCEPT ![s] = @ \ {r.key}]
          /\ UNCHANGED inbox
    /\ UNCHANGED <<connVars, subsVars, threadVars, sock, forReconnect>>

Application == Close \/ \E c \in Calls : Subscribe(c) \/ Unsubscribe(c)

Continuation ==
    \/ \E t \in Threads : SendSubscribe(t) \/ Register(t)
    \/ \E s \in Sockets : ResubscribeAll(s) \/ ResubscribeNext(s)

EventLoop ==
    \/ \E t \in Threads : ConfirmationTimeout(t)
    \/ \E s \in Sockets : OnOpen(s) \/ OnError(s) \/ OnClose(s) \/ OnMessage(s)
    \/ ScheduleReconnect \/ ArmTimer \/ ReconnectTimer

Node == \E s \in Sockets : \E r \in outbox[s] : NodeRequest(s, r)

Next == Application \/ Continuation \/ EventLoop \/ Node

Spec == Init /\ [][Next]_vars

-----------------------------------------------------------------------------
(***************************************************************************)
(* What the session promises about its subscriptions, and its fairness.    *)
(***************************************************************************)
\* The callbacks the session holds: those registered, and those each running
\* resubscribeAll() has still to subscribe (a settled head is dealt with).
Registered(c) == {i \in DOMAIN subscriptionInfo : subscriptionInfo[i].callback = c}
Awaiting(s) ==
    IF phase[s] \in {"connecting", "ready", "pending", "confirmed"} THEN todo[s]
    ELSE IF phase[s] = "settled" THEN Tail(todo[s]) ELSE <<>>
BeingRestored(c) ==
    UNION {{<<s, i>> : i \in {j \in DOMAIN Awaiting(s) : Awaiting(s)[j] = c}} : s \in Sockets}

\* However often the session reconnects, and even when two resubscribeAll() loops
\* run at once, it holds a callback once: no event is delivered to it twice.
HeldOnce ==
    \A c \in Calls : Cardinality(Registered(c)) + Cardinality(BeingRestored(c)) <= 1

\* While the session runs, the callback of every handle is registered or waits in
\* a running resubscribeAll() ("Subscription failed, will be retried on next
\* reconnect", evm-session.ts).  This holds of an undisturbed session only.
ActiveIsHeld ==
    ~isUserClose => \A c \in Calls : phase[c] = "active" =>
        Registered(c) # {} \/ BeingRestored(c) # {}

\* A careful application, a node that answers, and connections that outlive the
\* resubscription loop.
Undisturbed == /\ setting.careful /\ setting.reachable
               /\ setting.nodeAnswers /\ setting.loopUndisturbed

\* That much is true of an undisturbed session, over any number of reconnections.
HeldWhileUndisturbed == Undisturbed => ActiveIsHeld

\* After a drop the session connects again of its own.
Reconnects == options.autoReconnect /\ options.maxRetries > 0

\* While an undisturbed session that reconnects runs and resubscribeAll() is through, the
\* node holds every identifier the session looks callbacks up by: no registration is stale.
\* (A connection that the next subscribe() makes restores nothing.)
RegisteredIsServed ==
    (/\ Undisturbed /\ Reconnects /\ Quiet /\ ~Looping /\ ~isUserClose
     /\ ws # NoSocket /\ sock[ws] = "open") =>
        \A i \in DOMAIN subscriptionInfo : subscriptionInfo[i].key \in serverSubs[ws]

\* Both together: over any number of reconnections an undisturbed session keeps every
\* handle's callback, under an identifier the node knows.
UndisturbedIsServed == HeldWhileUndisturbed /\ RegisteredIsServed

-----------------------------------------------------------------------------
(***************************************************************************)
(* Fairness: the event loop runs ready continuations and due timers, and a *)
(* connection attempt ends one way or the other.  A node that answers      *)
(* before the timeout answers; nothing makes any other node answer, a      *)
(* connection drop, or the application act.                                *)
(***************************************************************************)
Fairness ==
    /\ \A t \in Threads : /\ WF_vars(SendSubscribe(t))
                          /\ WF_vars(Register(t))
                          /\ WF_vars(ConfirmationTimeout(t))
    /\ \A s \in Sockets : /\ WF_vars(ResubscribeAll(s))
                          /\ WF_vars(ResubscribeNext(s))
                          /\ WF_vars(OnOpen(s) \/ OnError(s))
                          /\ WF_vars(OnClose(s) /\ sock[s] # "open")
                          /\ WF_vars(OnMessage(s))
                          /\ WF_vars(/\ setting.nodeAnswers
                                     /\ \E r \in outbox[s] : NodeRequest(s, r))
    /\ WF_vars(ScheduleReconnect) /\ WF_vars(ArmTimer)

FairSpec == Spec /\ Fairness

\* A resubscribeAll() would connect for its next entry, and the bound on sockets forbids it.
OutOfSockets ==
    /\ \E s \in Sockets : phase[s] \in {"opened", "settled"}
    /\ ~(isConnected /\ ws # NoSocket) /\ ~JoinConnection
    /\ \A s \in setting.sockets : sock[s] # "unused"

\* Every subscribe() settles and every resubscribeAll() comes to its end, also
\* when the connection they talk over is gone: nothing is awaited for ever.  (A thread
\* runs once, so that each ends if again and again there is none that runs.)
EveryThreadEnds ==
    []<>(\/ \A t \in Threads :
               phase[t] \in {"idle", "active", "unsubscribed", "rejected", "done"}
         \/ OutOfSockets)

=============================================================================
