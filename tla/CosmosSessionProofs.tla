------------------------ MODULE CosmosSessionProofs ------------------------
(***************************************************************************)
(* Proofs about InternalCosmosSession for any number of calls, queries,    *)
(* sockets and any options.                                                *)
(***************************************************************************)
EXTENDS CosmosSession, FiniteSetTheorems, TLAPS

\* The frames resubscribeAll() sends are a finite sequence of frames.
LEMMA ResubscribeFrames ==
    ASSUME TypeOK,
           NEW order \in [1..Cardinality(Resubscribed) -> Resubscribed]
    PROVE  [i \in DOMAIN order |->
              [op |-> "subscribe", query |-> order[i], by |-> NoCall]] \in Seq(Frame)
<1>1. IsFiniteSet(Resubscribed)
  BY CosmosSessionAssumption, FS_Subset DEF Resubscribed, Registered
<1>2. Cardinality(Resubscribed) \in Nat
  BY <1>1, FS_CardinalityType
<1>3. \A i \in DOMAIN order :
        [op |-> "subscribe", query |-> order[i], by |-> NoCall] \in Frame
  BY DEF Resubscribed, Registered, Frame
<1>. DEFINE f == [i \in DOMAIN order |->
                   [op |-> "subscribe", query |-> order[i], by |-> NoCall]]
<1>4. f \in [1..Cardinality(Resubscribed) -> Frame]
  BY <1>3
<1>. HIDE DEF f
<1>5. f \in Seq(Frame)
  BY <1>2, <1>4
<1>. QED  BY <1>5 DEF f

\* Sending well-formed frames keeps every outbox a sequence of frames.
LEMMA SentType ==
    ASSUME TypeOK, NEW frames \in Seq(Frame), Sent(frames)
    PROVE  outbox' \in [Sockets -> Seq(Frame)]
<1>1. CASE ws # NoSocket /\ sock[ws] = "open"
  <2>1. outbox[ws] \o frames \in Seq(Frame)
    BY <1>1 DEF TypeOK
  <2>. QED  BY <1>1, <2>1 DEF TypeOK, Sent
<1>2. CASE ~(ws # NoSocket /\ sock[ws] = "open")
  BY <1>2 DEF TypeOK, Sent
<1>. QED  BY <1>1, <1>2

\* Every action keeps the session's fields in their types.
LEMMA TypeStep == TypeOK /\ [Next]_vars => TypeOK'
<1>. SUFFICES ASSUME TypeOK, [Next]_vars PROVE TypeOK'
  OBVIOUS
<1>. USE CosmosSessionAssumption
<1>1. CASE UNCHANGED vars
  BY <1>1 DEF TypeOK, vars, sessionVars, subsVars, callVars, wireVars
<1>2. CASE Close
  <2>1. \A s \in Sockets : AfterClose(sock[s]) \in SocketStates
    BY DEF TypeOK, AfterClose, SocketStates
  <2>2. pending' \subseteq Calls /\ call' \in [Calls -> CallStates]
    BY <1>2 DEF TypeOK, Close, RejectAllPending, CallStates
  <2>3. sock' \in [Sockets -> SocketStates]
    BY <1>2, <2>1 DEF TypeOK, Close
  <2>. QED
    BY <1>2, <2>2, <2>3
    DEF TypeOK, Close, ClearReconnectTimer, ResetConnection, wireVars
<1>3. ASSUME NEW c \in Calls, Subscribe(c) PROVE TypeOK'
  <2>1. /\ call' \in [Calls -> CallStates]
        /\ waitsOn' \in [Calls -> Sockets \cup {NoSocket}]
    <3>1. \/ call' = [call EXCEPT ![c] = "ready"]
          \/ call' = [call EXCEPT ![c] = "connecting"]
          \/ call' = [call EXCEPT ![c] = "rejected"]
      BY <1>3 DEF Subscribe
    <3>2. \/ waitsOn' = waitsOn
          \/ \E s \in Sockets \cup {NoSocket} : waitsOn' = [waitsOn EXCEPT ![c] = s]
      BY <1>3 DEF Subscribe, TypeOK
    <3>3. call' \in [Calls -> CallStates]
      BY <3>1 DEF TypeOK, CallStates
    <3>4. waitsOn' \in [Calls -> Sockets \cup {NoSocket}]
      BY <3>2 DEF TypeOK
    <3>. QED  BY <3>3, <3>4
  <2>2. /\ ws' \in Sockets \cup {NoSocket}
        /\ connectionPromise' \in Sockets \cup {NoSocket}
    BY <1>3 DEF TypeOK, Subscribe, Connect
  <2>3. sock' \in [Sockets -> SocketStates]
    <3>1. \/ sock' = sock
          \/ \E s \in Sockets : sock' = [sock EXCEPT ![s] = "connecting"]
      BY <1>3 DEF Subscribe, Connect
    <3>. QED  BY <3>1 DEF TypeOK, SocketStates
  <2>. QED
    BY <1>3, <2>1, <2>2, <2>3 DEF TypeOK, Subscribe, subsVars, wireVars
<1>4. ASSUME NEW c \in Calls, Unsubscribe(c) PROVE TypeOK'
  <2>. DEFINE f == <<[op |-> "unsubscribe", query |-> QueryOf[c], by |-> NoCall]>>
  <2>1. f \in Seq(Frame)
    BY DEF Frame
  <2>2. outbox' \in [Sockets -> Seq(Frame)]
    BY <1>4, <2>1, SentType DEF Unsubscribe, TypeOK
  <2>. QED
    BY <1>4, <2>2 DEF TypeOK, Unsubscribe, UnregisterCallback, sessionVars, CallStates
<1>5. ASSUME NEW c \in Calls, SendSubscribe(c) PROVE TypeOK'
  <2>. DEFINE f == <<[op |-> "subscribe", query |-> QueryOf[c], by |-> c]>>
  <2>1. f \in Seq(Frame)
    BY DEF Frame
  <2>2. outbox' \in [Sockets -> Seq(Frame)]
    BY <1>5, <2>1, SentType DEF SendSubscribe, TypeOK
  <2>. QED
    BY <1>5, <2>2 DEF TypeOK, SendSubscribe, sessionVars, CallStates
<1>6. ASSUME NEW c \in Calls, Register(c) PROVE TypeOK'
  BY <1>6 DEF TypeOK, Register, sessionVars, wireVars, CallStates
<1>7. ASSUME NEW c \in Calls, ConfirmationTimeout(c) PROVE TypeOK'
  BY <1>7 DEF TypeOK, ConfirmationTimeout, sessionVars, wireVars, CallStates
<1>8. ASSUME NEW s \in Sockets, ResubscribeAll(s) PROVE TypeOK'
  <2>1. PICK order \in [1..Cardinality(Resubscribed) -> Resubscribed] :
          Sent([i \in DOMAIN order |->
                  [op |-> "subscribe", query |-> order[i], by |-> NoCall]])
    BY <1>8 DEF ResubscribeAll
  <2>2. outbox' \in [Sockets -> Seq(Frame)]
    BY <2>1, ResubscribeFrames, SentType
  <2>. QED
    BY <1>8, <2>2 DEF TypeOK, ResubscribeAll, sessionVars, subsVars
<1>9. ASSUME NEW s \in Sockets, OnOpen(s) PROVE TypeOK'
  BY <1>9 DEF TypeOK, OnOpen, ResetBackoff, subsVars, wireVars, CallStates, SocketStates
<1>10. ASSUME NEW s \in Sockets, OnError(s) PROVE TypeOK'
  BY <1>10 DEF TypeOK, OnError, subsVars, wireVars, CallStates, SocketStates
<1>11. ASSUME NEW s \in Sockets, OnClose(s) PROVE TypeOK'
  <2>1. /\ outbox' \in [Sockets -> Seq(Frame)]
        /\ inbox' \in [Sockets -> Seq(Message)]
        /\ serverSubs' \in [Sockets -> SUBSET Queries]
    BY <1>11 DEF TypeOK, OnClose
  <2>. QED
    BY <1>11, <2>1 DEF TypeOK, OnClose, ResetConnection, SocketStates, subsVars, callVars
<1>12. CASE ReconnectTimer
  <2>1. /\ ws' \in Sockets \cup {NoSocket} /\ forReconnect' \subseteq Sockets
        /\ sock' \in [Sockets -> SocketStates]
    BY <1>12 DEF TypeOK, ReconnectTimer, Connect, SocketStates
  <2>2. timerArmed' \in BOOLEAN /\ lostTimers' \in Nat
    <3>1. CASE timerArmed' = FALSE /\ UNCHANGED lostTimers
      BY <3>1 DEF TypeOK
    <3>2. CASE lostTimers > 0 /\ lostTimers' = lostTimers - 1 /\ UNCHANGED timerArmed
      BY <3>2 DEF TypeOK
    <3>. QED  BY <1>12, <3>1, <3>2 DEF ReconnectTimer
  <2>. QED
    BY <1>12, <2>1, <2>2
    DEF TypeOK, ReconnectTimer, subsVars, callVars, wireVars
<1>13. ASSUME NEW s \in Sockets, OnMessage(s) PROVE TypeOK'
  <2>1. /\ inbox[s] \in Seq(Message) /\ Head(inbox[s]) \in Message
        /\ inbox' \in [Sockets -> Seq(Message)]
    BY <1>13 DEF TypeOK, OnMessage
  <2>2. received' \subseteq Calls
    BY <1>13, <2>1 DEF TypeOK, OnMessage, Registered, Message
  <2>3. pending' \subseteq Calls /\ call' \in [Calls -> CallStates]
    BY <1>13, <2>1 DEF TypeOK, OnMessage, CallStates
  <2>. QED
    BY <1>13, <2>1, <2>2, <2>3 DEF TypeOK, OnMessage, sessionVars
<1>14. ASSUME NEW s \in Sockets, NodeRequest(s) PROVE TypeOK'
  <2>1. /\ outbox[s] \in Seq(Frame) /\ Head(outbox[s]) \in Frame
        /\ outbox' \in [Sockets -> Seq(Frame)]
    BY <1>14 DEF TypeOK, NodeRequest
  <2>2. serverSubs' \in [Sockets -> SUBSET Queries]
    <3>1. Head(outbox[s]).query \in Queries
      BY <2>1 DEF Frame
    <3>2. /\ serverSubs[s] \cup {Head(outbox[s]).query} \in SUBSET Queries
          /\ serverSubs[s] \ {Head(outbox[s]).query} \in SUBSET Queries
      BY <3>1 DEF TypeOK
    <3>3. \/ serverSubs' = serverSubs
          \/ serverSubs' = [serverSubs EXCEPT ![s] = @ \cup {Head(outbox[s]).query}]
          \/ serverSubs' = [serverSubs EXCEPT ![s] = @ \ {Head(outbox[s]).query}]
      BY <1>14 DEF NodeRequest
    <3>. QED  BY <3>2, <3>3 DEF TypeOK
  <2>3. Head(outbox[s]).by # NoCall =>
          Append(inbox[s], [kind |-> "confirm", of |-> Head(outbox[s]).by]) \in Seq(Message)
    BY <2>1 DEF TypeOK, Frame, Message
  <2>4. inbox' \in [Sockets -> Seq(Message)]
    BY <1>14, <2>3 DEF TypeOK, NodeRequest
  <2>. QED
    BY <1>14, <2>1, <2>2, <2>4 DEF TypeOK, NodeRequest, sessionVars, subsVars, callVars
<1>15. ASSUME NEW s \in Sockets, NEW q \in Queries, NodeEvent(s, q) PROVE TypeOK'
  <2>1. Append(inbox[s], [kind |-> "event", of |-> q]) \in Seq(Message)
    BY DEF TypeOK, Message
  <2>. QED
    BY <1>15, <2>1 DEF TypeOK, NodeEvent, sessionVars, subsVars, callVars
<1>16. CASE ScheduleReconnect
  <2>1. RejectAllPending => pending' \subseteq Calls /\ call' \in [Calls -> CallStates]
    BY DEF TypeOK, RejectAllPending, CallStates
  <2>2. pending' \subseteq Calls /\ call' \in [Calls -> CallStates]
    BY <1>16, <2>1 DEF TypeOK, ScheduleReconnect
  <2>3. gaveUp' \in BOOLEAN /\ telling' \in {"nothing", "disconnect", "reconnect"}
    BY <1>16 DEF TypeOK, ScheduleReconnect
  <2>4. reconnectAttempt' \in {reconnectAttempt, reconnectAttempt + 1}
    BY <1>16 DEF ScheduleReconnect
  <2>. QED
    BY <1>16, <2>2, <2>3, <2>4 DEF TypeOK, ScheduleReconnect, wireVars
<1>17. CASE ArmTimer
  <2>1. lostTimers' \in {lostTimers, lostTimers + 1}
    BY <1>17 DEF ArmTimer
  <2>. QED  BY <1>17, <2>1 DEF TypeOK, ArmTimer, subsVars, callVars, wireVars
<1>. QED
  BY <1>1, <1>2, <1>3, <1>4, <1>5, <1>6, <1>7, <1>8, <1>9, <1>10, <1>11, <1>12,
     <1>13, <1>14, <1>15, <1>16, <1>17 DEF Next, Application, Continuation, EventLoop, Node

\* The constructor's fields and the untouched wires have their types.
LEMMA TypeInit == Init => TypeOK
<1>. SUFFICES ASSUME Init PROVE TypeOK
  OBVIOUS
<1>1. outbox \in [Sockets -> Seq(Frame)] /\ inbox \in [Sockets -> Seq(Message)]
  BY DEF Init
<1>2. call \in [Calls -> CallStates] /\ sock \in [Sockets -> SocketStates]
  BY DEF Init, CallStates, SocketStates
<1>3. /\ subscriptions \in [Queries -> Calls \cup {NoCall}]
      /\ waitsOn \in [Calls -> Sockets \cup {NoSocket}]
      /\ serverSubs \in [Sockets -> SUBSET Queries]
  BY DEF Init
<1>. QED  BY <1>1, <1>2, <1>3 DEF Init, TypeOK

\* The fields of the session, its suspended calls and its wires keep their types
\* in every behaviour of the session, however it is used.
THEOREM TypeCorrect == Spec => []TypeOK
<1>. QED  BY TypeInit, TypeStep, PTL DEF Spec

-----------------------------------------------------------------------------
\* What BackoffNeverGrows rests on: while a connection stands the counter is 0,
\* and no other opens while the application is told of its end, so that the only
\* place that increments the counter finds it 0.
BackoffInv ==
    /\ TypeOK
    /\ isConnected => reconnectAttempt = 0 /\ telling = "nothing"
    /\ telling = "disconnect" => reconnectAttempt = 0
    /\ BackoffNeverGrows

\* Every action preserves it; only close, open and the close event touch its fields.
LEMMA BackoffStep == BackoffInv /\ [Next]_vars => BackoffInv'
<1>. SUFFICES ASSUME BackoffInv, [Next]_vars PROVE BackoffInv'
  OBVIOUS
<1>1. TypeOK'
  BY TypeStep DEF BackoffInv
<1>2. options.maxRetries \in Nat
  BY CosmosSessionAssumption DEF BackoffInv, TypeOK, Setting, options
<1>3. CASE UNCHANGED <<setting, isConnected, reconnectAttempt, telling, gaveUp>>
  BY <1>1, <1>3 DEF BackoffInv, BackoffNeverGrows, options
<1>4. CASE Close
  BY <1>1, <1>4 DEF BackoffInv, BackoffNeverGrows, options, Close, ResetConnection
<1>5. ASSUME NEW s \in Sockets, OnOpen(s) PROVE BackoffInv'
  BY <1>1, <1>5 DEF BackoffInv, BackoffNeverGrows, options, OnOpen, Quiet, ResetBackoff
<1>6. ASSUME NEW s \in Sockets, OnClose(s) PROVE BackoffInv'
  <2>1. /\ options' = options /\ isConnected' = FALSE
        /\ reconnectAttempt' = reconnectAttempt /\ gaveUp' = gaveUp
        /\ telling' = telling \/ isConnected
    BY <1>6 DEF OnClose, ResetConnection, WasConnected, options
  <2>. QED  BY <1>1, <2>1 DEF BackoffInv, BackoffNeverGrows
<1>7. CASE ScheduleReconnect
  <2>1. options' = options /\ isConnected' = isConnected /\ telling' # "disconnect"
    BY <1>7 DEF ScheduleReconnect, options
  <2>2. reconnectAttempt = 0 /\ ~isConnected
    BY <1>7 DEF ScheduleReconnect, BackoffInv
  <2>3. \/ reconnectAttempt' \in {0, 1} /\ gaveUp' = gaveUp
        \/ reconnectAttempt' = 0 /\ options.maxRetries = 0
    BY <1>2, <1>7, <2>2 DEF ScheduleReconnect
  <2>. QED  BY <1>1, <2>1, <2>2, <2>3 DEF BackoffInv, BackoffNeverGrows
<1>8. CASE ArmTimer
  BY <1>1, <1>8 DEF BackoffInv, BackoffNeverGrows, options, ArmTimer
<1>. QED
  BY <1>3, <1>4, <1>5, <1>6, <1>7, <1>8
  DEF Next, Application, Continuation, EventLoop, Node, vars, sessionVars, Subscribe,
      Unsubscribe, SendSubscribe, Register, ConfirmationTimeout, ResubscribeAll,
      OnError, ReconnectTimer, OnMessage, NodeRequest, NodeEvent

\* However the application, the network and the node behave, the reconnection
\* counter never passes one and maxRetriesReached needs maxRetries = 0: the
\* exponential backoff of scheduleReconnect() has only its first delay.
THEOREM BackoffIsFlat == Spec => []BackoffNeverGrows
<1>1. Init => BackoffInv
  BY TypeInit DEF Init, BackoffInv, BackoffNeverGrows
<1>2. BackoffInv => BackoffNeverGrows
  BY DEF BackoffInv
<1>3. QED  BY <1>1, <1>2, BackoffStep, PTL DEF Spec

-----------------------------------------------------------------------------
\* The inductive strengthening of the safety properties: a socket and a running
\* reconnect timer exclude each other, this.ws is the one live socket until
\* close(), and a call whose connection opened finds it still there.
TimerAlone == lostTimers = 0 /\ (timerArmed => \A s \in Sockets : ~Live(s))
LiveIsWs ==
    /\ ws # NoSocket => sock[ws] \in {"connecting", "open", "failing"}
    /\ ~isUserClose => \A s \in Sockets : Live(s) => ws = s
UserClosed == isUserClose => ws = NoSocket /\ ~isConnected /\ ~timerArmed
\* While the application is told of a drop there is neither a socket nor a timer, and
\* neither subscribe() nor close() makes one of the two come or go.
TellingAlone ==
    telling # "nothing" => ~isUserClose /\ ~timerArmed /\ \A s \in Sockets : ~Live(s)
ReadyIsConnected ==
    ~isUserClose /\ (\E c \in Calls : call[c] = "ready") => isConnected

SafetyInv ==
    /\ TypeOK
    /\ OneSocket
    /\ ClosedStaysClosed
    /\ ConnectedHasSocket
    /\ TimerAlone
    /\ LiveIsWs
    /\ UserClosed
    /\ TellingAlone

\* connect() makes the first live socket of a session that has none.
LEMMA ConnectStep ==
    ASSUME SafetyInv, TypeOK', NEW s \in Sockets, Connect(s), ~isUserClose,
           \A t \in Sockets : ~Live(t), ~isConnected, ~timerArmed',
           isConnected' = isConnected, isUserClose' = isUserClose, lostTimers' = 0,
           telling' = "nothing"
    PROVE  SafetyInv'
<1>1. \A t \in Sockets : Live(t)' <=> t = s
  BY DEF Connect, Live, SafetyInv, TypeOK
<1>2. ws' = s /\ sock'[s] = "connecting"
  BY DEF Connect, SafetyInv, TypeOK
<1>3. OneSocket' /\ TimerAlone' /\ LiveIsWs'
  BY <1>1, <1>2 DEF OneSocket, TimerAlone, LiveIsWs
<1>4. ClosedStaysClosed' /\ ConnectedHasSocket' /\ UserClosed' /\ TellingAlone'
  BY <1>2 DEF ClosedStaysClosed, ConnectedHasSocket, UserClosed, TellingAlone
<1>. QED  BY <1>3, <1>4 DEF SafetyInv

\* Every step of a careful use of the session preserves the strengthening.
LEMMA SafetyStep ==
    ASSUME Careful, SafetyInv, [Next]_vars
    PROVE  SafetyInv'
<1>. USE DEF SafetyInv
<1>1. TypeOK'
  BY TypeStep
<1>2. CASE UNCHANGED <<ws, isConnected, isUserClose, timerArmed, lostTimers, telling, sock>>
  BY <1>1, <1>2 DEF OneSocket, ClosedStaysClosed, ConnectedHasSocket, TimerAlone,
                    LiveIsWs, UserClosed, TellingAlone, Live
<1>3. ASSUME NEW c \in Calls, Subscribe(c) PROVE SafetyInv'
  <2>1. CASE sock' = sock
    BY <1>2, <1>3, <2>1 DEF Subscribe, Connect, TypeOK
  <2>2. CASE sock' # sock
    <3>1. PICK s \in Sockets : Connect(s)
      BY <1>3, <2>2 DEF Subscribe
    <3>2. ~(isConnected /\ ws # NoSocket) /\ connectionPromise = NoSocket
      BY <1>3, <2>2 DEF Subscribe, JoinConnection
    <3>3. ~isConnected
      BY <3>2 DEF ConnectedHasSocket
    <3>4. Phase = "idle"
      BY <1>3, <3>2 DEF Subscribe, Phase, Careful
    <3>5. ~timerArmed /\ telling = "nothing" /\ \A t \in Sockets : ~Live(t)
      BY <3>2, <3>4 DEF Phase
    <3>6. /\ ~isUserClose /\ isConnected' = isConnected /\ isUserClose' = isUserClose
          /\ lostTimers' = 0 /\ timerArmed' = timerArmed /\ telling' = telling
      BY <1>3 DEF Subscribe, TimerAlone
    <3>. QED  BY <1>1, <3>1, <3>3, <3>5, <3>6, ConnectStep
  <2>. QED  BY <2>1, <2>2
<1>4. CASE Close
  <2>1. /\ ~isUserClose /\ isUserClose' /\ ws' = NoSocket /\ isConnected' = FALSE
        /\ timerArmed' = FALSE /\ lostTimers' = lostTimers
        /\ telling = "nothing" /\ telling' = telling
        /\ sock' = [s \in Sockets |-> IF s = ws THEN AfterClose(sock[s]) ELSE sock[s]]
    BY <1>4 DEF Close, Careful, ResetConnection, ClearReconnectTimer
  <2>2. \A s \in Sockets : Live(s)' <=> Live(s)
    BY <2>1 DEF Live, AfterClose
  <2>3. \A s \in Sockets : sock'[s] \notin {"connecting", "open"}
    BY <2>1 DEF AfterClose, LiveIsWs, Live
  <2>4. OneSocket' /\ TimerAlone'
    BY <2>1, <2>2 DEF OneSocket, TimerAlone
  <2>5. /\ ClosedStaysClosed' /\ ConnectedHasSocket' /\ LiveIsWs' /\ UserClosed'
        /\ TellingAlone'
    BY <2>1, <2>3
    DEF ClosedStaysClosed, ConnectedHasSocket, LiveIsWs, UserClosed, TellingAlone
  <2>. QED  BY <1>1, <2>4, <2>5
<1>5. ASSUME NEW s \in Sockets, OnOpen(s) PROVE SafetyInv'
  <2>1. /\ sock[s] = "connecting" /\ sock' = [sock EXCEPT ![s] = "open"]
        /\ ws' = ws /\ isConnected' = TRUE /\ isUserClose' = isUserClose
        /\ timerArmed' = timerArmed /\ lostTimers' = lostTimers /\ telling' = "nothing"
    BY <1>5 DEF OnOpen, Quiet
  <2>2. ~isUserClose /\ ws = s
    BY <2>1 DEF ClosedStaysClosed, LiveIsWs, Live
  <2>3. \A t \in Sockets : Live(t)' <=> Live(t)
    BY <2>1 DEF Live, TypeOK
  <2>4. OneSocket' /\ TimerAlone' /\ TellingAlone'
    BY <2>1, <2>3 DEF OneSocket, TimerAlone, TellingAlone
  <2>5. ClosedStaysClosed' /\ ConnectedHasSocket' /\ UserClosed'
    BY <2>1, <2>2, CosmosSessionAssumption
    DEF ClosedStaysClosed, ConnectedHasSocket, UserClosed, TypeOK
  <2>6. LiveIsWs'
    BY <2>1, <2>2, <2>3 DEF LiveIsWs, TypeOK
  <2>. QED  BY <1>1, <2>4, <2>5, <2>6
<1>6. ASSUME NEW s \in Sockets, OnError(s) PROVE SafetyInv'
  <2>1. /\ sock[s] \in {"aborting", "connecting", "open"}
        /\ sock' = [sock EXCEPT ![s] = "failing"]
        /\ ws' = ws /\ isConnected' = isConnected /\ isUserClose' = isUserClose
        /\ timerArmed' = timerArmed /\ lostTimers' = lostTimers /\ telling' = "nothing"
    BY <1>6 DEF OnError, Quiet
  <2>2. \A t \in Sockets : Live(t)' <=> Live(t)
    BY <2>1 DEF Live, TypeOK
  <2>3. OneSocket' /\ TimerAlone' /\ UserClosed' /\ TellingAlone'
    BY <2>1, <2>2 DEF OneSocket, TimerAlone, UserClosed, TellingAlone
  <2>4. ClosedStaysClosed' /\ ConnectedHasSocket'
    BY <2>1 DEF ClosedStaysClosed, ConnectedHasSocket, TypeOK
  <2>5. LiveIsWs'
    BY <2>1, <2>2 DEF LiveIsWs, TypeOK
  <2>. QED  BY <1>1, <2>3, <2>4, <2>5
<1>7. ASSUME NEW s \in Sockets, OnClose(s) PROVE SafetyInv'
  <2>1. /\ sock[s] \in {"open", "failing", "closing"}
        /\ sock' = [sock EXCEPT ![s] = "closed"]
        /\ ws' = NoSocket /\ isConnected' = FALSE /\ isUserClose' = isUserClose
        /\ timerArmed' = timerArmed /\ lostTimers' = lostTimers
        /\ telling' # "nothing" => ~isUserClose
    BY <1>7 DEF OnClose, Quiet, ResetConnection
  <2>2. \A t \in Sockets : ~Live(t)'
    BY <2>1 DEF Live, OneSocket, TypeOK
  <2>3. ~timerArmed /\ lostTimers = 0
    BY <2>1 DEF TimerAlone, Live
  <2>4. /\ OneSocket' /\ TimerAlone' /\ ConnectedHasSocket' /\ LiveIsWs' /\ UserClosed'
        /\ TellingAlone'
    BY <2>1, <2>2, <2>3
    DEF OneSocket, TimerAlone, ConnectedHasSocket, LiveIsWs, UserClosed, TellingAlone
  <2>5. ClosedStaysClosed'
    BY <2>1 DEF ClosedStaysClosed, TypeOK
  <2>. QED  BY <1>1, <2>4, <2>5
<1>8. CASE ReconnectTimer
  <2>1. PICK s \in Sockets : Connect(s)
    BY <1>8 DEF ReconnectTimer
  <2>2. timerArmed /\ ~timerArmed' /\ lostTimers' = 0
    BY <1>8 DEF ReconnectTimer, TimerAlone
  <2>3. \A t \in Sockets : ~Live(t)
    BY <2>2 DEF TimerAlone
  <2>4. ~isUserClose
    BY <2>2 DEF UserClosed
  <2>5. ~isConnected
    BY <2>3 DEF ConnectedHasSocket, Live, TypeOK
  <2>6. isConnected' = isConnected /\ isUserClose' = isUserClose /\ telling' = "nothing"
    BY <1>8 DEF ReconnectTimer, Quiet
  <2>. QED  BY <1>1, <2>1, <2>2, <2>3, <2>4, <2>5, <2>6, ConnectStep
<1>9. CASE ScheduleReconnect \/ ArmTimer
  <2>1. /\ telling # "nothing"
        /\ UNCHANGED <<ws, isConnected, isUserClose, sock>>
        /\ \/ timerArmed' = timerArmed /\ lostTimers' = lostTimers
           \/ /\ timerArmed' /\ telling' = "nothing"
              /\ lostTimers' = IF timerArmed THEN lostTimers + 1 ELSE lostTimers
    BY <1>9 DEF ScheduleReconnect, ArmTimer
  <2>2. ~isUserClose /\ ~timerArmed /\ \A s \in Sockets : ~Live(s)
    BY <2>1 DEF TellingAlone
  <2>3. /\ lostTimers' = 0 /\ ~isUserClose' /\ (\A s \in Sockets : ~Live(s)')
        /\ telling' # "nothing" => ~timerArmed'
    BY <2>1, <2>2 DEF TimerAlone, Live
  <2>4. OneSocket' /\ TimerAlone' /\ UserClosed' /\ TellingAlone' /\ ClosedStaysClosed'
    BY <2>3 DEF OneSocket, TimerAlone, UserClosed, TellingAlone, ClosedStaysClosed
  <2>5. LiveIsWs' /\ ConnectedHasSocket'
    BY <2>1, <2>3 DEF LiveIsWs, ConnectedHasSocket
  <2>. QED  BY <1>1, <2>4, <2>5
<1>. QED
  BY <1>2, <1>3, <1>4, <1>5, <1>6, <1>7, <1>8, <1>9
  DEF Next, Application, Continuation, EventLoop, Node, vars, sessionVars, Unsubscribe,
      SendSubscribe, Register, ConfirmationTimeout, ResubscribeAll, OnMessage,
      NodeRequest, NodeEvent

\* A new session has no socket and no timer.
LEMMA SafetyInit == Init => SafetyInv
<1>. SUFFICES ASSUME Init PROVE SafetyInv
  OBVIOUS
<1>1. \A s \in Sockets : ~Live(s)
  BY DEF Init, Live
<1>2. OneSocket /\ TimerAlone /\ LiveIsWs
  BY <1>1 DEF Init, OneSocket, TimerAlone, LiveIsWs
<1>3. ClosedStaysClosed /\ ConnectedHasSocket /\ UserClosed /\ TellingAlone
  BY DEF Init, ClosedStaysClosed, ConnectedHasSocket, UserClosed, TellingAlone
<1>. QED  BY <1>2, <1>3, TypeInit DEF SafetyInv

\* A careful application stays careful: nothing assigns the setting.
LEMMA CarefulStays == [Next]_vars => (Careful' <=> Careful)
<1>1. [Next]_vars => setting' = setting
  BY DEF Next, Application, Continuation, EventLoop, Node, ScheduleReconnect, ArmTimer,
         vars, sessionVars, Close, Subscribe, Unsubscribe, SendSubscribe, Register,
         ConfirmationTimeout, ResubscribeAll, OnOpen, OnError, OnClose, ReconnectTimer,
         OnMessage, NodeRequest, NodeEvent
<1>. QED  BY <1>1 DEF Careful

\* Used carefully, a session has at most one live socket, none that is open or
\* opening after close(), and an isConnected that tells the truth, whatever the
\* network and the node do.
THEOREM CarefulSessionIsSafe == Spec => []SocketsAreKept
<1>. DEFINE Inv == Careful => SafetyInv
<1>1. Inv /\ [Next]_vars => Inv'
  BY SafetyStep, CarefulStays
<1>2. Inv => SocketsAreKept
  BY DEF SafetyInv, SocketsAreKept, OneSocket, ClosedStaysClosed, ConnectedHasSocket
<1>3. Init => Inv
  BY SafetyInit
<1>. HIDE DEF Inv
<1>. QED  BY <1>1, <1>2, <1>3, PTL DEF Spec

-----------------------------------------------------------------------------
\* Every step keeps the pending entries and the awaiting calls the same: send()
\* does not raise, since a call that goes on after its connection opened still
\* finds it, and whoever removes an entry settles its call.
LEMMA PendingStep ==
    ASSUME Careful, SafetyInv, ReadyIsConnected, PendingIsAwaited,
           [Next]_vars
    PROVE  ReadyIsConnected' /\ PendingIsAwaited'
<1>. USE DEF SafetyInv
<1>1. CASE UNCHANGED <<call, pending, isConnected, isUserClose>>
  BY <1>1 DEF ReadyIsConnected, PendingIsAwaited
<1>2. CASE isUserClose'
  BY <1>2 DEF ReadyIsConnected, PendingIsAwaited
<1>3. ASSUME NEW c \in Calls, Subscribe(c) PROVE ReadyIsConnected' /\ PendingIsAwaited'
  <2>1. /\ ~isUserClose /\ call[c] = "idle" /\ pending' = pending
        /\ isConnected' = isConnected
        /\ \/ call' = [call EXCEPT ![c] = "ready"] /\ isConnected
           \/ call' = [call EXCEPT ![c] = "connecting"]
           \/ call' = [call EXCEPT ![c] = "rejected"]
    BY <1>3 DEF Subscribe, subsVars
  <2>. QED  BY <2>1 DEF ReadyIsConnected, PendingIsAwaited, TypeOK
<1>4. ASSUME NEW c \in Calls, Unsubscribe(c) \/ Register(c)
      PROVE  ReadyIsConnected' /\ PendingIsAwaited'
  <2>1. /\ call[c] \in {"active", "confirmed"} /\ pending' = pending
        /\ isConnected' = isConnected /\ isUserClose' = isUserClose
        /\ call' \in {[call EXCEPT ![c] = "unsubscribed"], [call EXCEPT ![c] = "active"]}
    BY <1>4 DEF Unsubscribe, Register, sessionVars
  <2>. QED  BY <2>1 DEF ReadyIsConnected, PendingIsAwaited, TypeOK
<1>5. ASSUME NEW c \in Calls, SendSubscribe(c), ~isUserClose
      PROVE  ReadyIsConnected' /\ PendingIsAwaited'
  <2>1. isConnected
    BY <1>5 DEF SendSubscribe, ReadyIsConnected
  <2>2. ~SendRaises
    BY <2>1 DEF SendRaises, ConnectedHasSocket
  <2>3. /\ pending' = pending \cup {c} /\ call' = [call EXCEPT ![c] = "pending"]
        /\ isConnected' = isConnected /\ isUserClose' = isUserClose
    BY <1>5, <2>2 DEF SendSubscribe, sessionVars
  <2>. QED  BY <2>1, <2>3 DEF ReadyIsConnected, PendingIsAwaited, TypeOK
<1>6. ASSUME NEW c \in Calls, ConfirmationTimeout(c)
      PROVE  ReadyIsConnected' /\ PendingIsAwaited'
  <2>1. /\ pending' = pending \ {c} /\ call' = [call EXCEPT ![c] = "rejected"]
        /\ isConnected' = isConnected /\ isUserClose' = isUserClose
    BY <1>6 DEF ConfirmationTimeout, sessionVars
  <2>. QED  BY <2>1 DEF ReadyIsConnected, PendingIsAwaited, TypeOK
<1>7. ASSUME NEW s \in Sockets, OnOpen(s) PROVE ReadyIsConnected' /\ PendingIsAwaited'
  <2>1. /\ isConnected' = TRUE /\ pending' = pending /\ isUserClose' = isUserClose
        /\ call' = [c \in Calls |-> IF call[c] = "connecting" /\ waitsOn[c] = s
                                    THEN "ready" ELSE call[c]]
    BY <1>7 DEF OnOpen, subsVars
  <2>2. \A c \in Calls : call'[c] = "pending" <=> call[c] = "pending"
    BY <2>1
  <2>. QED  BY <2>1, <2>2 DEF ReadyIsConnected, PendingIsAwaited
<1>8. ASSUME NEW s \in Sockets, OnError(s) PROVE ReadyIsConnected' /\ PendingIsAwaited'
  <2>1. /\ isConnected' = isConnected /\ pending' = pending /\ isUserClose' = isUserClose
        /\ call' = [c \in Calls |-> IF call[c] = "connecting" /\ waitsOn[c] = s
                                    THEN "rejected" ELSE call[c]]
    BY <1>8 DEF OnError, subsVars
  <2>2. \A c \in Calls : /\ call'[c] = "pending" <=> call[c] = "pending"
                         /\ call'[c] = "ready" => call[c] = "ready"
    BY <2>1
  <2>. QED  BY <2>1, <2>2 DEF ReadyIsConnected, PendingIsAwaited
<1>9. ASSUME NEW s \in Sockets, OnClose(s), ~isUserClose
      PROVE  ReadyIsConnected' /\ PendingIsAwaited'
  <2>1. isUserClose' = isUserClose /\ \A c \in Calls : call[c] # "ready"
    BY <1>9 DEF OnClose, Quiet
  <2>2. pending' = pending /\ call' = call
    BY <1>9 DEF OnClose, subsVars, callVars
  <2>. QED  BY <2>1, <2>2 DEF ReadyIsConnected, PendingIsAwaited
<1>10. ASSUME NEW s \in Sockets, OnMessage(s) PROVE ReadyIsConnected' /\ PendingIsAwaited'
  <2>1. isConnected' = isConnected /\ isUserClose' = isUserClose
    BY <1>10 DEF OnMessage, sessionVars
  <2>2. \/ pending' = pending /\ call' = call
        \/ \E c \in pending : /\ pending' = pending \ {c}
                              /\ call' = [call EXCEPT ![c] = "confirmed"]
    BY <1>10 DEF OnMessage
  <2>. QED  BY <2>1, <2>2 DEF ReadyIsConnected, PendingIsAwaited, TypeOK
<1>11. CASE Close
  BY <1>2, <1>11 DEF Close
<1>12. CASE ScheduleReconnect /\ ~isUserClose
  <2>1. isConnected' = isConnected /\ isUserClose' = isUserClose
    BY <1>12 DEF ScheduleReconnect
  <2>2. CASE pending' = pending /\ call' = call
    BY <2>1, <2>2 DEF ReadyIsConnected, PendingIsAwaited
  <2>3. CASE RejectAllPending
    <3>1. \A c \in Calls : /\ call'[c] # "pending"
                           /\ call'[c] = "ready" => call[c] = "ready"
      BY <1>12, <2>3 DEF RejectAllPending, PendingIsAwaited
    <3>. QED  BY <2>1, <2>3, <3>1 DEF RejectAllPending, ReadyIsConnected, PendingIsAwaited
  <2>. QED  BY <1>12, <2>2, <2>3 DEF ScheduleReconnect
<1>. QED
  <2>1. isUserClose => isUserClose' \/ UNCHANGED vars
    BY DEF Next, Application, Continuation, EventLoop, Node, ScheduleReconnect, ArmTimer,
           vars, sessionVars, Close, Subscribe, Unsubscribe, SendSubscribe, Register,
           ConfirmationTimeout, ResubscribeAll, OnOpen, OnError, OnClose, ReconnectTimer,
           OnMessage, NodeRequest, NodeEvent
  <2>2. UNCHANGED vars => UNCHANGED <<call, pending, isConnected, isUserClose>>
    BY DEF vars, sessionVars, subsVars, callVars
  <2>. QED
    BY <1>1, <1>2, <1>3, <1>4, <1>5, <1>6, <1>7, <1>8, <1>9, <1>10, <1>11, <1>12, <2>1,
       <2>2
    DEF Next, Application, Continuation, EventLoop, Node, ArmTimer, sessionVars, subsVars,
        callVars, ResubscribeAll, ReconnectTimer, NodeRequest, NodeEvent

-----------------------------------------------------------------------------
\* What SettlementIsDue adds to a careful use: even the stored promise that later calls
\* join is that of a socket that has yet to open or to fail.
PromiseIsDue ==
    connectionPromise # NoSocket => sock[connectionPromise] \in {"connecting", "aborting"}

DueInv == SettlementIsDue /\ PromiseIsDue

\* However the session is used, a step that takes the state of a socket or an entry away
\* settles the calls that await it.
LEMMA DueStep == TypeOK /\ DueInv /\ [Next]_vars => DueInv'
<1>. SUFFICES ASSUME TypeOK, DueInv, [Next]_vars PROVE DueInv'
  OBVIOUS
<1>. USE CosmosSessionAssumption DEF DueInv, SettlementIsDue, PromiseIsDue
<1>1. CASE UNCHANGED <<call, waitsOn, pending, sock, connectionPromise>>
  BY <1>1
<1>2. ASSUME NEW s \in Sockets, Connect(s)
      PROVE  /\ \A t \in Sockets : sock[t] \in {"connecting", "aborting"} => sock'[t] = sock[t]
             /\ sock'[s] = "connecting"
  BY <1>2 DEF Connect, TypeOK
<1>3. ASSUME NEW c \in Calls, Subscribe(c) PROVE DueInv'
  <2>1. pending' = pending
    BY <1>3 DEF Subscribe, subsVars
  <2>2. CASE /\ call' = [call EXCEPT ![c] = "ready"]
             /\ UNCHANGED <<connectionPromise, waitsOn, sock>>
    BY <2>1, <2>2 DEF TypeOK
  <2>3. CASE /\ JoinConnection
             /\ call' = [call EXCEPT ![c] = "connecting"]
             /\ waitsOn' = [waitsOn EXCEPT ![c] = connectionPromise]
             /\ UNCHANGED <<connectionPromise, sock>>
    BY <2>1, <2>3 DEF TypeOK, JoinConnection
  <2>4. CASE /\ call' = [call EXCEPT ![c] = "connecting"]
             /\ \E s \in Sockets : /\ Connect(s)
                                   /\ connectionPromise' = s
                                   /\ waitsOn' = [waitsOn EXCEPT ![c] = s]
    <3>1. PICK s \in Sockets : /\ Connect(s)
                               /\ connectionPromise' = s
                               /\ waitsOn' = [waitsOn EXCEPT ![c] = s]
      BY <2>4
    <3>2. sock'[s] = "connecting" /\ connectionPromise' = s
      BY <1>2, <3>1
    <3>3. ASSUME NEW d \in Calls, call'[d] = "connecting"
          PROVE  waitsOn'[d] \in Sockets /\ sock'[waitsOn'[d]] \in {"connecting", "aborting"}
      <4>1. CASE d = c
        BY <3>1, <3>2, <4>1 DEF TypeOK
      <4>2. CASE d # c
        <5>1. call[d] = "connecting" /\ waitsOn'[d] = waitsOn[d]
          BY <2>4, <3>1, <3>3, <4>2 DEF TypeOK
        <5>. QED  BY <1>2, <3>1, <5>1
      <4>. QED  BY <4>1, <4>2
    <3>4. \A d \in Calls : call'[d] = "pending" => call[d] = "pending"
      BY <2>4 DEF TypeOK
    <3>. QED  BY <2>1, <3>2, <3>3, <3>4
  <2>5. CASE /\ call' = [call EXCEPT ![c] = "rejected"]
             /\ UNCHANGED <<connectionPromise, waitsOn, sock>>
    BY <2>1, <2>5 DEF TypeOK
  <2>. QED  BY <1>3, <2>2, <2>3, <2>4, <2>5 DEF Subscribe
<1>4. ASSUME NEW c \in Calls,
             SendSubscribe(c) \/ Register(c) \/ ConfirmationTimeout(c) \/ Unsubscribe(c)
      PROVE  DueInv'
  <2>1. UNCHANGED <<waitsOn, sock, connectionPromise>>
    BY <1>4 DEF SendSubscribe, Register, ConfirmationTimeout, Unsubscribe, sessionVars
  <2>2. \A d \in Calls : call'[d] = "connecting" => call[d] = "connecting"
    BY <1>4 DEF TypeOK, SendSubscribe, Register, ConfirmationTimeout, Unsubscribe
  <2>3. \A d \in Calls : call'[d] = "pending" => d \in pending'
    BY <1>4 DEF TypeOK, SendSubscribe, Register, ConfirmationTimeout, Unsubscribe
  <2>. QED  BY <2>1, <2>2, <2>3
<1>5. CASE Close
  <2>1. /\ UNCHANGED <<waitsOn, connectionPromise>>
        /\ \A c \in Calls : /\ call'[c] = "connecting" => call[c] = "connecting"
                            /\ call'[c] # "pending"
    BY <1>5 DEF Close, RejectAllPending
  <2>2. \A s \in Sockets : sock[s] \in {"connecting", "aborting"} =>
                               sock'[s] \in {"connecting", "aborting"}
    BY <1>5 DEF Close, AfterClose
  <2>. QED  BY <2>1, <2>2 DEF TypeOK
<1>6. ASSUME NEW s \in Sockets, OnOpen(s) \/ OnError(s) PROVE DueInv'
  <2>1. /\ UNCHANGED <<waitsOn, pending>> /\ connectionPromise' = NoSocket
        /\ \A t \in Sockets : t # s => sock'[t] = sock[t]
    BY <1>6 DEF OnOpen, OnError, subsVars, TypeOK
  <2>2. \A c \in Calls :
           /\ call'[c] = "connecting" => call[c] = "connecting" /\ waitsOn[c] # s
           /\ call'[c] = "pending" => call[c] = "pending"
    BY <1>6 DEF OnOpen, OnError
  <2>. QED  BY <2>1, <2>2
<1>7. ASSUME NEW s \in Sockets, OnClose(s) PROVE DueInv'
  <2>1. /\ UNCHANGED <<waitsOn, connectionPromise>>
        /\ \A t \in Sockets : sock[t] \in {"connecting", "aborting"} => sock'[t] = sock[t]
    BY <1>7 DEF OnClose, callVars, TypeOK
  <2>2. UNCHANGED <<pending, call>>
    BY <1>7 DEF OnClose, subsVars, callVars
  <2>. QED  BY <2>1, <2>2 DEF TypeOK
<1>8. CASE ReconnectTimer
  <2>1. PICK s \in Sockets : Connect(s)
    BY <1>8 DEF ReconnectTimer
  <2>2. UNCHANGED <<call, waitsOn, pending, connectionPromise>>
    BY <1>8 DEF ReconnectTimer, subsVars, callVars
  <2>. QED  BY <1>2, <2>1, <2>2 DEF TypeOK
<1>9. ASSUME NEW s \in Sockets, OnMessage(s) PROVE DueInv'
  <2>1. UNCHANGED <<waitsOn, sock, connectionPromise>>
    BY <1>9 DEF OnMessage, sessionVars
  <2>2. \/ UNCHANGED <<pending, call>>
        \/ \E c \in pending : /\ pending' = pending \ {c}
                              /\ call' = [call EXCEPT ![c] = "confirmed"]
    BY <1>9 DEF OnMessage
  <2>3. \A c \in Calls : /\ call'[c] = "connecting" => call[c] = "connecting"
                         /\ call'[c] = "pending" => c \in pending'
    BY <2>2 DEF TypeOK
  <2>. QED  BY <2>1, <2>3
<1>10. CASE ScheduleReconnect
  <2>1. UNCHANGED <<waitsOn, sock, connectionPromise>>
    BY <1>10 DEF ScheduleReconnect
  <2>2. UNCHANGED <<pending, call>> \/ RejectAllPending
    BY <1>10 DEF ScheduleReconnect
  <2>3. \A c \in Calls : /\ call'[c] = "connecting" => call[c] = "connecting"
                         /\ call'[c] = "pending" => c \in pending'
    BY <2>2 DEF RejectAllPending
  <2>. QED  BY <2>1, <2>3
<1>. QED
  BY <1>1, <1>3, <1>4, <1>5, <1>6, <1>7, <1>8, <1>9, <1>10
  DEF Next, Application, Continuation, EventLoop, Node, ArmTimer, vars, sessionVars,
      subsVars, callVars, ResubscribeAll, NodeRequest, NodeEvent

\* Used in any way, a session leaves nobody awaiting what nothing can bring: a connection
\* awaited has yet to open or to fail, a confirmation awaited has its timer; and used
\* carefully it has an entry for each call that awaits one and no other.
THEOREM NobodyIsStranded == Spec => []AwaitedIsDue
<1>. DEFINE CarefulInv == Careful => SafetyInv /\ ReadyIsConnected /\ PendingIsAwaited
            Inv == TypeOK /\ DueInv /\ CarefulInv
<1>1. Init => Inv
  <2>1. Init => DueInv
    BY DEF Init, DueInv, SettlementIsDue, PromiseIsDue
  <2>2. Init => CarefulInv
    BY SafetyInit DEF Init, ReadyIsConnected, PendingIsAwaited
  <2>. QED  BY <2>1, <2>2, TypeInit
<1>2. Inv /\ [Next]_vars => Inv'
  <2>1. CarefulInv /\ [Next]_vars => CarefulInv'
    BY SafetyStep, PendingStep, CarefulStays
  <2>. QED  BY <2>1, TypeStep, DueStep
<1>3. Inv => AwaitedIsDue
  BY DEF DueInv, AwaitedIsDue, PendingIsAwaited
<1>. HIDE DEF Inv
<1>. QED  BY <1>1, <1>2, <1>3, PTL DEF Spec

-----------------------------------------------------------------------------
\* What HandlesAreServed rests on, first for any careful use: a registered callback is
\* that of an active handle and stands under its own query.
RegisteredIsActive ==
    \A c \in Calls, q \in Queries :
        subscriptions[q] = c => call[c] = "active" /\ QueryOf[c] = q

\* The node has subscribed q for socket s or will read a request for it.
Asked(s, q) ==
    \/ q \in serverSubs[s]
    \/ \E i \in DOMAIN outbox[s] :
          outbox[s][i].query = q /\ outbox[s][i].op = "subscribe"

\* A frame says what its call asked for, and a query is unsubscribed by its handle only.
FramesFit ==
    \A s \in Sockets : \A i \in DOMAIN outbox[s] :
        /\ outbox[s][i].by \in Calls =>
              outbox[s][i].op = "subscribe" /\ outbox[s][i].query = QueryOf[outbox[s][i].by]
        /\ outbox[s][i].op = "unsubscribe" =>
              \A c \in Calls : Exclusive(c) /\ QueryOf[c] = outbox[s][i].query =>
                                   call[c] = "unsubscribed"

\* What a node confirms it has subscribed, as long as the handle lasts.
ConfirmedIsAsked ==
    \A s \in Sockets, c \in Calls : \A i \in DOMAIN inbox[s] :
        Exclusive(c) /\ inbox[s][i] = [kind |-> "confirm", of |-> c] =>
            call[c] = "unsubscribed" \/ Asked(s, QueryOf[c])

\* Where the connection stands: an open socket is known to be open, a confirmed call goes
\* on while it is, and never between the opening of a socket and its resubscribeAll().
ConnectionTold ==
    /\ ws # NoSocket /\ sock[ws] = "open" => isConnected
    /\ (\E c \in Calls : call[c] = "confirmed") =>
          (~isUserClose => isConnected) /\ resubscribing = {}

\* If nothing fails, sockets come down by close() and by drops of open ones only.
NothingFails ==
    ~isUserClose => \A s \in Sockets : sock[s] \notin {"aborting", "failing", "closing"}

\* While a handle is held, a session that is not connected is about to reconnect, and by
\* no socket that would not resubscribe.
BackSoon ==
    ~isUserClose /\ (\E c \in Calls : call[c] = "active") =>
        /\ \/ isConnected \/ timerArmed \/ telling # "nothing"
           \/ \E s \in forReconnect : sock[s] = "connecting"
        /\ \A s \in Sockets : sock[s] = "connecting" => s \in forReconnect

\* On an open socket everything held or about to be is asked for, or about to be asked for.
HeldIsAsked ==
    ws # NoSocket /\ sock[ws] = "open" =>
        \A c \in Calls :
            Exclusive(c) /\ call[c] \in {"confirmed", "active"} =>
                Asked(ws, QueryOf[c]) \/ (call[c] = "active" /\ ws \in resubscribing)

ServedInv ==
    /\ FramesFit
    /\ ConfirmedIsAsked
    /\ ConnectionTold
    /\ NothingFails
    /\ BackSoon
    /\ HeldIsAsked

\* Nothing assigns the setting.
LEMMA SettingStays == [Next]_vars => setting' = setting
<1>. QED
  BY DEF Next, Application, Continuation, EventLoop, Node, ScheduleReconnect, ArmTimer,
         vars, sessionVars, Close, Subscribe, Unsubscribe, SendSubscribe, Register,
         ConfirmationTimeout, ResubscribeAll, OnOpen, OnError, OnClose, ReconnectTimer,
         OnMessage, NodeRequest, NodeEvent

\* The callbacks change by the three steps that are about them.
LEMMA CallbacksMove ==
    ASSUME [Next]_vars
    PROVE  \/ UNCHANGED subscriptions
           \/ Close
           \/ \E c \in Calls : Register(c) \/ Unsubscribe(c)
<1>. QED
  BY DEF Next, Application, Continuation, EventLoop, Node, ScheduleReconnect, ArmTimer,
         vars, sessionVars, subsVars, Subscribe, SendSubscribe, ConfirmationTimeout,
         ResubscribeAll, OnOpen, OnError, OnClose, ReconnectTimer, OnMessage, NodeRequest,
         NodeEvent

\* How a handle begins and ends in a careful use.
LEMMA HandleMoves ==
    ASSUME Careful, SafetyInv, PendingIsAwaited, [Next]_vars, NEW c \in Calls
    PROVE  /\ call[c] = "unsubscribed" => call'[c] = "unsubscribed"
           /\ call'[c] = "unsubscribed" => call[c] = "unsubscribed" \/ Unsubscribe(c)
           /\ call[c] = "active" => call'[c] = "active" \/ Unsubscribe(c)
           /\ call'[c] = "active" => call[c] = "active" \/ Register(c)
           /\ call'[c] = "confirmed" =>
                 \/ call[c] = "confirmed"
                 \/ \E s \in Sockets : /\ OnMessage(s)
                                       /\ Head(inbox[s]).kind = "confirm"
                                       /\ Head(inbox[s]).of = c
                                       /\ call[c] = "pending"
<1>. USE DEF SafetyInv
<1>1. CASE call' = call
  BY <1>1
<1>2. CASE RejectAllPending
  <2>1. call'[c] = IF c \in pending /\ call[c] = "pending" THEN "rejected" ELSE call[c]
    BY <1>2 DEF RejectAllPending
  <2>. QED  BY <2>1
<1>3. ASSUME NEW d \in Calls, Subscribe(d) \/ SendSubscribe(d) \/ Register(d)
                              \/ ConfirmationTimeout(d) \/ Unsubscribe(d)
      PROVE  call' = [call EXCEPT ![d] = call'[d]]
  BY <1>3 DEF TypeOK, Subscribe, SendSubscribe, Register, ConfirmationTimeout, Unsubscribe
<1>4. ASSUME NEW d \in Calls, Subscribe(d) \/ SendSubscribe(d) \/ ConfirmationTimeout(d)
      PROVE  /\ call[d] \in {"idle", "ready", "pending"}
             /\ call'[d] \in {"connecting", "ready", "pending", "rejected"}
  BY <1>4 DEF TypeOK, Subscribe, SendSubscribe, ConfirmationTimeout
<1>5. ASSUME NEW d \in Calls, Register(d)
      PROVE  call[d] = "confirmed" /\ call'[d] = "active"
  BY <1>5 DEF TypeOK, Register
<1>6. ASSUME NEW d \in Calls, Unsubscribe(d)
      PROVE  call[d] = "active" /\ call'[d] = "unsubscribed"
  BY <1>6 DEF TypeOK, Unsubscribe
<1>7. ASSUME NEW s \in Sockets, OnOpen(s) \/ OnError(s)
      PROVE  call[c] = "connecting" \/ call'[c] = call[c]
  BY <1>7 DEF OnOpen, OnError
<1>8. ASSUME NEW s \in Sockets, OnOpen(s) \/ OnError(s)
      PROVE  call'[c] \in {call[c], "ready", "rejected"}
  BY <1>8 DEF OnOpen, OnError
<1>9. ASSUME NEW s \in Sockets, OnMessage(s), call'[c] # call[c]
      PROVE  /\ Head(inbox[s]).kind = "confirm" /\ Head(inbox[s]).of = c
             /\ call[c] = "pending" /\ call'[c] = "confirmed"
  <2>1. ~isUserClose
    BY <1>9 DEF OnMessage, ClosedStaysClosed
  <2>2. /\ Head(inbox[s]).kind = "confirm" /\ Head(inbox[s]).of \in pending
        /\ call' = [call EXCEPT ![Head(inbox[s]).of] = "confirmed"]
    BY <1>9 DEF OnMessage
  <2>. QED  BY <1>9, <2>1, <2>2 DEF TypeOK, PendingIsAwaited
<1>10. CASE \E d \in Calls : Subscribe(d) \/ SendSubscribe(d) \/ ConfirmationTimeout(d)
  BY <1>3, <1>4, <1>10 DEF TypeOK
<1>11. CASE \E d \in Calls : Register(d) \/ Unsubscribe(d)
  BY <1>3, <1>5, <1>6, <1>11 DEF TypeOK
<1>12. CASE \E s \in Sockets : OnOpen(s) \/ OnError(s)
  BY <1>7, <1>8, <1>12
<1>13. CASE \E s \in Sockets : OnMessage(s)
  BY <1>9, <1>13
<1>14. CASE Close
  BY <1>2, <1>14 DEF Close
<1>15. CASE ScheduleReconnect
  BY <1>1, <1>2, <1>15 DEF ScheduleReconnect
<1>. QED
  BY <1>1, <1>2, <1>10, <1>11, <1>12, <1>13, <1>14, <1>15
  DEF Next, Application, Continuation, EventLoop, Node, vars, callVars, ResubscribeAll,
      ArmTimer, OnClose,
      ReconnectTimer, NodeRequest, NodeEvent

\* A handle's own callback stays registered until the handle or the session ends.
LEMMA OwnsStep ==
    ASSUME TypeOK, HandleOwnsCallback, [Next]_vars
    PROVE  HandleOwnsCallback'
<1>1. ASSUME NEW c \in Calls, call'[c] = "active" PROVE call[c] = "active" \/ Register(c)
  <2>1. CASE RejectAllPending
    BY <1>1, <2>1 DEF RejectAllPending
  <2>2. ASSUME NEW d \in Calls, Subscribe(d) \/ SendSubscribe(d) \/ ConfirmationTimeout(d)
                                 \/ Unsubscribe(d)
        PROVE  call[c] = "active"
    BY <1>1, <2>2 DEF TypeOK, Subscribe, SendSubscribe, ConfirmationTimeout, Unsubscribe
  <2>3. ASSUME NEW d \in Calls, Register(d) PROVE call[c] = "active" \/ Register(c)
    BY <1>1, <2>3 DEF TypeOK, Register
  <2>4. ASSUME NEW s \in Sockets, OnOpen(s) \/ OnError(s) PROVE call[c] = "active"
    BY <1>1, <2>4 DEF OnOpen, OnError
  <2>5. ASSUME NEW s \in Sockets, OnMessage(s) PROVE call[c] = "active"
    BY <1>1, <2>5 DEF TypeOK, OnMessage
  <2>6. ScheduleReconnect => call' = call \/ RejectAllPending
    BY DEF ScheduleReconnect
  <2>. QED
    BY <1>1, <2>1, <2>2, <2>3, <2>4, <2>5, <2>6
    DEF Next, Application, Continuation, EventLoop, Node, ArmTimer, OnClose, vars,
        callVars, Close, ResubscribeAll, ReconnectTimer, NodeRequest, NodeEvent
<1>2. CASE UNCHANGED subscriptions
  <2>1. ASSUME NEW c \in Calls, Register(c) PROVE subscriptions[QueryOf[c]] = c
    BY <1>2, <2>1, CosmosSessionAssumption DEF Register, TypeOK
  <2>2. isUserClose => isUserClose'
    BY DEF TypeOK, Next, Application, Continuation, EventLoop, Node, ScheduleReconnect,
           ArmTimer, vars, sessionVars, Close, Subscribe, Unsubscribe, SendSubscribe,
           Register, ConfirmationTimeout, ResubscribeAll, OnOpen, OnError, OnClose,
           ReconnectTimer, OnMessage, NodeRequest, NodeEvent
  <2>. QED  BY <1>1, <1>2, <2>1, <2>2 DEF HandleOwnsCallback, Exclusive
<1>3. CASE Close
  BY <1>3 DEF Close, HandleOwnsCallback
<1>4. ASSUME NEW d \in Calls, Register(d) PROVE HandleOwnsCallback'
  <2>1. /\ isUserClose' = isUserClose
        /\ subscriptions' = [subscriptions EXCEPT ![QueryOf[d]] = d]
        /\ call' = [call EXCEPT ![d] = "active"]
    BY <1>4 DEF Register, sessionVars
  <2>. QED
    BY <2>1, CosmosSessionAssumption DEF TypeOK, HandleOwnsCallback, Exclusive
<1>5. ASSUME NEW d \in Calls, Unsubscribe(d) PROVE HandleOwnsCallback'
  <2>1. /\ isUserClose' = isUserClose
        /\ subscriptions' = [subscriptions EXCEPT ![QueryOf[d]] = NoCall]
        /\ call' = [call EXCEPT ![d] = "unsubscribed"]
    BY <1>5 DEF Unsubscribe, UnregisterCallback, sessionVars
  <2>. QED
    BY <2>1, CosmosSessionAssumption DEF TypeOK, HandleOwnsCallback, Exclusive
<1>. QED  BY <1>2, <1>3, <1>4, <1>5, CallbacksMove

\* In a careful use a callback leaves the map before its handle ends.
LEMMA RegisteredStep ==
    ASSUME Careful, SafetyInv, PendingIsAwaited, RegisteredIsActive, [Next]_vars
    PROVE  RegisteredIsActive'
<1>. USE CosmosSessionAssumption DEF SafetyInv
<1>1. ASSUME NEW d \in Calls, Unsubscribe(d) PROVE RegisteredIsActive'
  BY <1>1 DEF TypeOK, Unsubscribe, UnregisterCallback, RegisteredIsActive
<1>2. ASSUME NEW d \in Calls, Register(d) PROVE RegisteredIsActive'
  BY <1>2 DEF TypeOK, Register, RegisteredIsActive
<1>3. CASE Close
  BY <1>3 DEF Close, RegisteredIsActive
<1>4. CASE UNCHANGED subscriptions /\ ~ \E d \in Calls : Unsubscribe(d)
  BY <1>4, HandleMoves DEF RegisteredIsActive
<1>. QED  BY <1>1, <1>2, <1>3, <1>4, CallbacksMove

\* A careful application's callbacks are called while their handles last: after close()
\* there is no socket to bring an event, before there is no other callback.
LEMMA ReceiveStep ==
    ASSUME SafetyInv, RegisteredIsActive, [Next]_vars
    PROVE  CallbackOnlyWhileActive
<1>. USE DEF SafetyInv
<1>1. CASE received' = received
  BY <1>1 DEF CallbackOnlyWhileActive
<1>2. ASSUME NEW s \in Sockets, OnMessage(s) PROVE CallbackOnlyWhileActive
  <2>1. Careful => ~isUserClose
    BY <1>2 DEF OnMessage, ClosedStaysClosed
  <2>2. ASSUME NEW c \in Calls, c \in received' \ received
        PROVE  Head(inbox[s]).of \in Queries /\ subscriptions[Head(inbox[s]).of] = c
    BY <1>2, <2>2 DEF OnMessage, Registered
  <2>. QED  BY <2>1, <2>2 DEF CallbackOnlyWhileActive, RegisteredIsActive
<1>. QED
  BY <1>1, <1>2
  DEF Next, Application, Continuation, EventLoop, Node, ScheduleReconnect, ArmTimer, vars,
      subsVars, Close, Subscribe, Unsubscribe, SendSubscribe, Register,
      ConfirmationTimeout, ResubscribeAll, OnOpen, OnError, OnClose, ReconnectTimer,
      NodeRequest, NodeEvent

-----------------------------------------------------------------------------
\* What a step does to the wires.
LEMMA OutboxMoves ==
    ASSUME TypeOK, [Next]_vars
    PROVE  \/ UNCHANGED <<outbox, serverSubs>>
           \/ \E s \in Sockets : OnClose(s) \/ NodeRequest(s)
           \/ /\ UNCHANGED serverSubs
              /\ \/ \E c \in Calls : SendSubscribe(c) \/ Unsubscribe(c)
                 \/ \E s \in Sockets : ResubscribeAll(s)
<1>. QED
  BY DEF Next, Application, Continuation, EventLoop, Node, ScheduleReconnect, ArmTimer,
         vars, wireVars, Close, Subscribe, Unsubscribe, SendSubscribe, Register,
         ConfirmationTimeout, ResubscribeAll, OnOpen, OnError, ReconnectTimer, OnMessage,
         NodeEvent

\* Sending puts frames behind those that were there.
LEMMA SentAppends ==
    ASSUME TypeOK, NEW frames \in Seq(Frame), Sent(frames), NEW s \in Sockets
    PROVE  /\ \A i \in DOMAIN outbox[s] :
                 i \in DOMAIN outbox'[s] /\ outbox'[s][i] = outbox[s][i]
           /\ \A i \in DOMAIN outbox'[s] :
                 \/ i \in DOMAIN outbox[s] /\ outbox'[s][i] = outbox[s][i]
                 \/ \E j \in DOMAIN frames : outbox'[s][i] = frames[j]
<1>1. CASE outbox'[s] = outbox[s]
  BY <1>1
<1>2. CASE outbox'[s] = outbox[s] \o frames
  <2>1. outbox[s] \in Seq(Frame)
    BY DEF TypeOK
  <2>. DEFINE old == outbox[s]
  <2>2. /\ DOMAIN (old \o frames) = 1..(Len(old) + Len(frames))
        /\ \A i \in 1..(Len(old) + Len(frames)) :
              (old \o frames)[i] = IF i <= Len(old) THEN old[i] ELSE frames[i - Len(old)]
    BY <2>1
  <2>3. DOMAIN old = 1..Len(old) /\ DOMAIN frames = 1..Len(frames)
        /\ Len(old) \in Nat /\ Len(frames) \in Nat
    BY <2>1
  <2>4. \A i \in 1..(Len(old) + Len(frames)) :
           i <= Len(old) \/ i - Len(old) \in 1..Len(frames)
    BY <2>3
  <2>. HIDE DEF old
  <2>5. \A i \in DOMAIN old :
           i \in DOMAIN (old \o frames) /\ (old \o frames)[i] = old[i]
    BY <2>2, <2>3
  <2>6. ASSUME NEW i \in DOMAIN (old \o frames)
        PROVE  \/ i \in DOMAIN old /\ (old \o frames)[i] = old[i]
               \/ \E j \in DOMAIN frames : (old \o frames)[i] = frames[j]
    BY <2>2, <2>3, <2>4
  <2>. QED  BY <1>2, <2>5, <2>6 DEF old
<1>. QED  BY <1>1, <1>2 DEF Sent, TypeOK

\* The frames each sender sends.
LEMMA SendersSend ==
    ASSUME TypeOK
    PROVE  /\ \A c \in Calls : SendSubscribe(c) =>
                 \/ UNCHANGED outbox
                 \/ Sent(<<[op |-> "subscribe", query |-> QueryOf[c], by |-> c]>>)
           /\ \A c \in Calls : Unsubscribe(c) =>
                 \/ UNCHANGED outbox
                 \/ Sent(<<[op |-> "unsubscribe", query |-> QueryOf[c], by |-> NoCall]>>)
           /\ \A c \in Calls :
                 /\ <<[op |-> "subscribe", query |-> QueryOf[c], by |-> c]>> \in Seq(Frame)
                 /\ <<[op |-> "unsubscribe", query |-> QueryOf[c], by |-> NoCall]>>
                       \in Seq(Frame)
<1>. USE CosmosSessionAssumption
<1>1. \A c \in Calls : /\ [op |-> "subscribe", query |-> QueryOf[c], by |-> c] \in Frame
                       /\ [op |-> "unsubscribe", query |-> QueryOf[c], by |-> NoCall]
                             \in Frame
  BY DEF Frame
<1>2. \A f \in Frame : <<f>> \in Seq(Frame)
  OBVIOUS
<1>. QED  BY <1>1, <1>2 DEF SendSubscribe, Unsubscribe

\* What has been asked for stays asked for until the handle or the connection ends.
LEMMA AskedStays ==
    ASSUME TypeOK, FramesFit, [Next]_vars, NEW s \in Sockets, NEW c \in Calls,
           Exclusive(c), call[c] # "unsubscribed", Asked(s, QueryOf[c]), ~OnClose(s),
           Undisturbed
    PROVE  Asked(s, QueryOf[c])'
<1>. DEFINE q == QueryOf[c]
<1>1. CASE UNCHANGED <<outbox, serverSubs>>
  BY <1>1 DEF Asked
<1>2. ASSUME NEW frames \in Seq(Frame), Sent(frames), UNCHANGED serverSubs
      PROVE  Asked(s, q)'
  BY <1>2, SentAppends DEF Asked
<1>3. ASSUME NEW d \in Calls, SendSubscribe(d) \/ Unsubscribe(d) PROVE Asked(s, q)'
  BY <1>1, <1>2, <1>3, SendersSend DEF SendSubscribe, Unsubscribe
<1>4. ASSUME NEW t \in Sockets, ResubscribeAll(t) PROVE Asked(s, q)'
  BY <1>2, <1>4, ResubscribeFrames DEF ResubscribeAll
<1>5. ASSUME NEW t \in Sockets, t # s, OnClose(t) \/ NodeRequest(t) PROVE Asked(s, q)'
  <2>1. outbox'[s] = outbox[s] /\ serverSubs'[s] = serverSubs[s]
    BY <1>5 DEF OnClose, NodeRequest, TypeOK
  <2>. QED  BY <2>1 DEF Asked
<1>6. CASE NodeRequest(s)
  <2>. DEFINE f == Head(outbox[s])
  <2>1. /\ outbox[s] \in Seq(Frame) /\ outbox[s] # <<>>
        /\ outbox'[s] = Tail(outbox[s])
    BY <1>6 DEF NodeRequest, TypeOK
  <2>2. f = outbox[s][1] /\ 1 \in DOMAIN outbox[s]
    BY <2>1
  <2>3. \/ f.op = "subscribe" /\ serverSubs'[s] = serverSubs[s] \cup {f.query}
        \/ f.op = "unsubscribe" /\ serverSubs'[s] = serverSubs[s] \ {f.query}
    BY <1>6 DEF NodeRequest, TypeOK, Undisturbed
  <2>4. f.op = "unsubscribe" => f.query # q
    BY <2>2 DEF FramesFit
  <2>5. CASE q \in serverSubs[s]
    BY <2>3, <2>4, <2>5 DEF Asked
  <2>6. ASSUME NEW i \in DOMAIN outbox[s], outbox[s][i].query = q,
               outbox[s][i].op = "subscribe"
        PROVE  Asked(s, q)'
    <3>1. CASE i = 1
      BY <2>2, <2>3, <2>6, <3>1 DEF Asked
    <3>2. CASE i # 1
      <4>1. i - 1 \in DOMAIN Tail(outbox[s]) /\ Tail(outbox[s])[i - 1] = outbox[s][i]
        BY <2>1, <3>2
      <4>. QED  BY <2>1, <2>6, <4>1 DEF Asked
    <3>. QED  BY <3>1, <3>2
  <2>. QED  BY <2>5, <2>6 DEF Asked
<1>. QED  BY <1>1, <1>3, <1>4, <1>5, <1>6, OutboxMoves

\* Frames keep saying what their calls asked for.
LEMMA FramesStep ==
    ASSUME Careful, SafetyInv, PendingIsAwaited, FramesFit, [Next]_vars
    PROVE  FramesFit'
<1>. USE CosmosSessionAssumption DEF SafetyInv
<1>. DEFINE Fit(f) ==
              /\ f.by \in Calls => f.op = "subscribe" /\ f.query = QueryOf[f.by]
              /\ f.op = "unsubscribe" =>
                    \A c \in Calls : Exclusive(c) /\ QueryOf[c] = f.query =>
                                         call'[c] = "unsubscribed"
<1>1. \A s \in Sockets : \A i \in DOMAIN outbox[s] : Fit(outbox[s][i])
  BY HandleMoves DEF FramesFit
<1>2. (\A s \in Sockets : \A i \in DOMAIN outbox'[s] : Fit(outbox'[s][i])) => FramesFit'
  BY DEF FramesFit, Exclusive
<1>. HIDE DEF Fit
<1>3. ASSUME NEW frames \in Seq(Frame), Sent(frames), \A j \in DOMAIN frames : Fit(frames[j])
      PROVE  FramesFit'
  BY <1>1, <1>2, <1>3, SentAppends
<1>4. CASE UNCHANGED outbox
  BY <1>1, <1>2, <1>4
<1>5. ASSUME NEW c \in Calls, SendSubscribe(c) PROVE FramesFit'
  <2>1. Fit([op |-> "subscribe", query |-> QueryOf[c], by |-> c])
    BY DEF Fit
  <2>2. \A j \in DOMAIN <<[op |-> "subscribe", query |-> QueryOf[c], by |-> c]>> :
           Fit(<<[op |-> "subscribe", query |-> QueryOf[c], by |-> c]>>[j])
    BY <2>1
  <2>. QED  BY <1>3, <1>4, <1>5, <2>2, SendersSend
<1>6. ASSUME NEW c \in Calls, Unsubscribe(c) PROVE FramesFit'
  <2>1. call'[c] = "unsubscribed"
    BY <1>6 DEF Unsubscribe, TypeOK
  <2>2. Fit([op |-> "unsubscribe", query |-> QueryOf[c], by |-> NoCall])
    BY <2>1 DEF Fit, Exclusive
  <2>3. \A j \in DOMAIN <<[op |-> "unsubscribe", query |-> QueryOf[c], by |-> NoCall]>> :
           Fit(<<[op |-> "unsubscribe", query |-> QueryOf[c], by |-> NoCall]>>[j])
    BY <2>2
  <2>. QED  BY <1>3, <1>4, <1>6, <2>3, SendersSend
<1>7. ASSUME NEW s \in Sockets, ResubscribeAll(s) PROVE FramesFit'
  <2>1. PICK order \in [1..Cardinality(Resubscribed) -> Resubscribed] :
          Sent([i \in DOMAIN order |->
                  [op |-> "subscribe", query |-> order[i], by |-> NoCall]])
    BY <1>7 DEF ResubscribeAll
  <2>2. \A q \in Queries : Fit([op |-> "subscribe", query |-> q, by |-> NoCall])
    BY DEF Fit
  <2>3. \A i \in DOMAIN order : order[i] \in Queries
    BY DEF Resubscribed, Registered
  <2>. QED  BY <1>3, <2>1, <2>2, <2>3, ResubscribeFrames
<1>8. ASSUME NEW s \in Sockets, OnClose(s) PROVE FramesFit'
  BY <1>1, <1>2, <1>8 DEF OnClose, TypeOK
<1>9. ASSUME NEW s \in Sockets, NodeRequest(s) PROVE FramesFit'
  <2>1. outbox[s] \in Seq(Frame) /\ outbox[s] # <<>>
        /\ outbox' = [outbox EXCEPT ![s] = Tail(@)]
    BY <1>9 DEF NodeRequest, TypeOK
  <2>2. \A i \in DOMAIN Tail(outbox[s]) :
           i + 1 \in DOMAIN outbox[s] /\ Tail(outbox[s])[i] = outbox[s][i + 1]
    BY <2>1
  <2>3. \A t \in Sockets : outbox'[t] = IF t = s THEN Tail(outbox[s]) ELSE outbox[t]
    BY <2>1 DEF TypeOK
  <2>. QED  BY <1>1, <1>2, <2>2, <2>3
<1>. QED  BY <1>4, <1>5, <1>6, <1>7, <1>8, <1>9, OutboxMoves

\* A node goes on holding what it has confirmed, and confirms what it holds.
LEMMA ConfirmStep ==
    ASSUME Undisturbed, SafetyInv, PendingIsAwaited, FramesFit, ConfirmedIsAsked, [Next]_vars
    PROVE  ConfirmedIsAsked'
<1>. USE CosmosSessionAssumption DEF SafetyInv
<1>c. Careful
  BY DEF Undisturbed
<1>. SUFFICES ASSUME NEW s \in Sockets, NEW c \in Calls, NEW i \in DOMAIN inbox'[s],
                     Exclusive(c), inbox'[s][i] = [kind |-> "confirm", of |-> c],
                     call'[c] # "unsubscribed"
              PROVE  Asked(s, QueryOf[c])'
  BY DEF ConfirmedIsAsked, Exclusive
<1>1. call[c] # "unsubscribed"
  BY <1>c, HandleMoves
<1>2. ~OnClose(s)
  BY DEF OnClose, TypeOK
<1>3. Asked(s, QueryOf[c]) => Asked(s, QueryOf[c])'
  BY <1>1, <1>2, AskedStays
<1>4. ASSUME NEW j \in DOMAIN inbox[s], inbox[s][j] = [kind |-> "confirm", of |-> c]
      PROVE  Asked(s, QueryOf[c])'
  BY <1>1, <1>3, <1>4 DEF ConfirmedIsAsked
<1>5. CASE inbox'[s] = inbox[s]
  BY <1>4, <1>5
<1>6. CASE OnMessage(s)
  <2>1. inbox[s] \in Seq(Message) /\ inbox[s] # <<>> /\ inbox'[s] = Tail(inbox[s])
    BY <1>6 DEF OnMessage, TypeOK
  <2>2. i + 1 \in DOMAIN inbox[s] /\ inbox'[s][i] = inbox[s][i + 1]
    BY <2>1
  <2>. QED  BY <1>4, <2>2
<1>7. ASSUME NEW m, inbox'[s] = Append(inbox[s], m), m # [kind |-> "confirm", of |-> c]
      PROVE  Asked(s, QueryOf[c])'
  <2>1. inbox[s] \in Seq(Message)
    BY DEF TypeOK
  <2>2. \/ i \in DOMAIN inbox[s] /\ inbox'[s][i] = inbox[s][i]
        \/ inbox'[s][i] = m
    BY <1>7, <2>1
  <2>. QED  BY <1>4, <1>7, <2>2
<1>8. ASSUME NEW q \in Queries, NodeEvent(s, q) PROVE Asked(s, QueryOf[c])'
  <2>1. inbox'[s] = Append(inbox[s], [kind |-> "event", of |-> q])
    BY <1>8 DEF NodeEvent, TypeOK
  <2>2. [kind |-> "event", of |-> q] # [kind |-> "confirm", of |-> c]
    <3>1. [kind |-> "event", of |-> q].kind # [kind |-> "confirm", of |-> c].kind
      OBVIOUS
    <3>. QED  BY <3>1
  <2>. QED  BY <1>7, <2>1, <2>2
<1>9. CASE NodeRequest(s)
  <2>. DEFINE f == Head(outbox[s])
              m == [kind |-> "confirm", of |-> f.by]
  <2>1. outbox[s] \in Seq(Frame) /\ outbox[s] # <<>>
    BY <1>9 DEF NodeRequest, TypeOK
  <2>2. f = outbox[s][1] /\ 1 \in DOMAIN outbox[s]
    BY <2>1
  <2>3. \/ inbox'[s] = inbox[s]
        \/ /\ inbox'[s] = Append(inbox[s], m)
           /\ f.op = "subscribe" /\ f.query \in serverSubs'[s]
    BY <1>9 DEF NodeRequest, TypeOK
  <2>4. CASE f.by = c
    <3>1. f.query = QueryOf[c]
      BY <2>2, <2>4 DEF FramesFit
    <3>. QED  BY <1>5, <2>3, <3>1 DEF Asked
  <2>5. CASE f.by # c
    <3>1. m.of # [kind |-> "confirm", of |-> c].of
      BY <2>5
    <3>2. m # [kind |-> "confirm", of |-> c]
      BY <3>1
    <3>. QED  BY <1>5, <1>7, <2>3, <3>2
  <2>. QED  BY <2>4, <2>5
<1>10. ASSUME NEW t \in Sockets, t # s,
              OnClose(t) \/ OnMessage(t) \/ NodeRequest(t) \/ \E q \in Queries : NodeEvent(t, q)
       PROVE  inbox'[s] = inbox[s]
  BY <1>10 DEF OnClose, OnMessage, NodeRequest, NodeEvent, TypeOK
<1>. QED
  BY <1>2, <1>5, <1>6, <1>8, <1>9, <1>10
  DEF Next, Application, Continuation, EventLoop, Node, ScheduleReconnect, ArmTimer, vars,
      wireVars, Close, Subscribe, Unsubscribe, SendSubscribe, Register,
      ConfirmationTimeout, ResubscribeAll, OnOpen, OnError, ReconnectTimer

\* The connection stays as it is told.
LEMMA TellingStep ==
    ASSUME Careful, SafetyInv, PendingIsAwaited, ConnectionTold, [Next]_vars
    PROVE  ConnectionTold'
<1>. USE CosmosSessionAssumption DEF SafetyInv
<1>1. ASSUME ws' # NoSocket, sock'[ws'] = "open" PROVE isConnected'
  <2>1. ASSUME NEW s \in Sockets, Connect(s) PROVE FALSE
    BY <1>1, <2>1 DEF Connect, TypeOK
  <2>2. CASE Close \/ \E s \in Sockets : OnClose(s)
    BY <1>1, <2>2 DEF Close, OnClose, ResetConnection
  <2>3. ASSUME NEW s \in Sockets, OnOpen(s) PROVE isConnected'
    BY <2>3 DEF OnOpen
  <2>4. ASSUME NEW s \in Sockets, OnError(s) PROVE isConnected'
    BY <1>1, <2>4 DEF OnError, ConnectionTold, TypeOK
  <2>5. CASE UNCHANGED <<ws, sock, isConnected>>
    BY <1>1, <2>5 DEF ConnectionTold
  <2>. QED
    BY <2>1, <2>2, <2>3, <2>4, <2>5
    DEF Next, Application, Continuation, EventLoop, Node, ScheduleReconnect, ArmTimer,
        vars, sessionVars, Subscribe, Unsubscribe, SendSubscribe, Register,
        ConfirmationTimeout, ResubscribeAll, ReconnectTimer, OnMessage, NodeRequest,
        NodeEvent
<1>2. ASSUME NEW c \in Calls, call'[c] = "confirmed"
      PROVE  (~isUserClose' => isConnected') /\ resubscribing' = {}
  <2>1. CASE call[c] # "confirmed"
    <3>1. PICK s \in Sockets : OnMessage(s)
      BY <1>2, <2>1, HandleMoves
    <3>2. sock[s] = "open" /\ resubscribing = {} /\ UNCHANGED <<sessionVars, resubscribing>>
      BY <3>1 DEF OnMessage, Quiet
    <3>3. ~isUserClose => ws = s
      BY <3>2 DEF LiveIsWs, Live
    <3>. QED  BY <3>2, <3>3 DEF ConnectionTold, sessionVars
  <2>2. CASE call[c] = "confirmed"
    <3>1. (~isUserClose => isConnected) /\ resubscribing = {} /\ ~Quiet
      BY <2>2 DEF ConnectionTold, Quiet
    <3>. QED
      BY <3>1
      DEF Next, Application, Continuation, EventLoop, Node, ScheduleReconnect, ArmTimer,
          vars, sessionVars, callVars, Close, Subscribe, Unsubscribe, SendSubscribe,
          Register, ConfirmationTimeout, ResubscribeAll, OnOpen, OnError, OnClose,
          ReconnectTimer, OnMessage, NodeRequest, NodeEvent
  <2>. QED  BY <2>1, <2>2
<1>. QED  BY <1>1, <1>2 DEF ConnectionTold

\* Nothing begins to fail.
LEMMA FailureStep ==
    ASSUME Undisturbed, SafetyInv, NothingFails, [Next]_vars
    PROVE  NothingFails'
<1>. USE DEF SafetyInv, NothingFails
<1>1. ASSUME NEW s \in Sockets, Connect(s)
      PROVE  \A t \in Sockets : sock'[t] \in {sock[t], "connecting"}
  BY <1>1 DEF Connect, TypeOK
<1>2. ASSUME NEW s \in Sockets, OnOpen(s) \/ OnClose(s)
      PROVE  \A t \in Sockets : sock'[t] \in {sock[t], "open", "closed"}
  BY <1>2 DEF OnOpen, OnClose, TypeOK
<1>3. ASSUME NEW s \in Sockets, OnError(s) PROVE isUserClose'
  BY <1>3 DEF OnError, Undisturbed
<1>4. CASE Close
  BY <1>4 DEF Close
<1>5. CASE UNCHANGED <<isUserClose, sock>>
  BY <1>5
<1>. QED
  BY <1>1, <1>2, <1>3, <1>4, <1>5
  DEF Next, Application, Continuation, EventLoop, Node, ScheduleReconnect, ArmTimer, vars,
      sessionVars, subsVars, callVars, Subscribe, Unsubscribe, SendSubscribe, Register,
      ConfirmationTimeout, ResubscribeAll, OnOpen, OnClose, ReconnectTimer, OnMessage,
      NodeRequest, NodeEvent

\* While something is held, whatever takes the connection away arms the timer, and the
\* timer's socket is one that resubscribes.
LEMMA BackStep ==
    ASSUME Undisturbed, Reconnects, SafetyInv, BackoffInv, PendingIsAwaited,
           ConnectionTold, NothingFails, BackSoon, [Next]_vars
    PROVE  BackSoon'
<1>. USE CosmosSessionAssumption DEF SafetyInv
<1>c. Careful
  BY DEF Undisturbed
<1>1. CASE UNCHANGED <<isUserClose, isConnected, timerArmed, telling, sock, forReconnect>>
  <2>1. ASSUME NEW c \in Calls, call'[c] = "active", ~isUserClose
        PROVE  \/ call[c] = "active"
               \/ isConnected /\ \A s \in Sockets : sock[s] # "connecting"
    <3>1. CASE call[c] # "active"
      <4>1. call[c] = "confirmed"
        BY <1>c, <2>1, <3>1, HandleMoves DEF Register
      <4>2. isConnected
        BY <2>1, <4>1 DEF ConnectionTold
      <4>. QED  BY <1>c, <2>1, <4>2 DEF ConnectedHasSocket, LiveIsWs, Live
    <3>. QED  BY <3>1
  <2>. QED  BY <1>1, <2>1 DEF BackSoon
<1>2. CASE isUserClose'
  BY <1>2 DEF BackSoon
<1>3. ASSUME NEW c \in Calls, Subscribe(c), sock' # sock PROVE BackSoon'
  <2>1. ~(isConnected /\ ws # NoSocket) /\ connectionPromise = NoSocket
    BY <1>3 DEF Subscribe, JoinConnection
  <2>2. Phase = "idle"
    BY <1>3, <1>c, <2>1 DEF Subscribe, Phase, Careful
  <2>3. ~timerArmed /\ telling = "nothing" /\ \A t \in Sockets : ~Live(t)
    BY <2>1, <2>2 DEF Phase
  <2>4. ~isConnected /\ \A t \in Sockets : sock[t] # "connecting"
    BY <1>c, <2>1, <2>3 DEF ConnectedHasSocket, Live
  <2>5. ~isUserClose /\ \A d \in Calls : call[d] # "active"
    BY <1>3, <2>3, <2>4 DEF Subscribe, BackSoon, TypeOK
  <2>6. \A d \in Calls : call'[d] # "active"
    BY <1>c, <1>3, <2>5, HandleMoves DEF Register, Subscribe, TypeOK
  <2>. QED  BY <2>6 DEF BackSoon
<1>4. ASSUME NEW s \in Sockets, OnOpen(s) PROVE BackSoon'
  <2>1. /\ isConnected' /\ isUserClose' = isUserClose /\ forReconnect' = forReconnect
        /\ sock[s] = "connecting" /\ sock' = [sock EXCEPT ![s] = "open"]
    BY <1>4 DEF OnOpen
  <2>2. ~isUserClose => \A t \in Sockets : sock[t] = "connecting" => t = s
    BY <2>1 DEF LiveIsWs, Live
  <2>3. ~isUserClose => \A t \in Sockets : sock'[t] # "connecting"
    BY <2>1, <2>2 DEF TypeOK
  <2>. QED  BY <2>1, <2>3 DEF BackSoon
<1>5. ASSUME NEW s \in Sockets, OnClose(s), ~isUserClose PROVE BackSoon'
  <2>1. sock[s] = "open" /\ sock' = [sock EXCEPT ![s] = "closed"]
    BY <1>5 DEF OnClose, NothingFails
  <2>2. ws = s
    BY <1>5, <2>1 DEF LiveIsWs, Live
  <2>3. isConnected
    BY <2>1, <2>2 DEF ConnectionTold
  <2>4. telling' = "disconnect"
    BY <1>5, <2>3 DEF OnClose, WasConnected
  <2>5. \A t \in Sockets : sock'[t] # "connecting"
    BY <1>5, <2>1, <2>2 DEF LiveIsWs, Live, TypeOK
  <2>. QED  BY <2>4, <2>5 DEF BackSoon
<1>6. CASE ReconnectTimer
  <2>1. PICK s \in Sockets : Connect(s) /\ forReconnect' = forReconnect \cup {s}
    BY <1>6 DEF ReconnectTimer
  <2>2. timerArmed
    BY <1>6 DEF ReconnectTimer, TimerAlone
  <2>3. \A t \in Sockets : ~Live(t)
    BY <2>2 DEF TimerAlone
  <2>4. sock' = [sock EXCEPT ![s] = "connecting"]
    BY <2>1 DEF Connect
  <2>5. \A t \in Sockets : sock'[t] = "connecting" <=> t = s
    BY <2>3, <2>4 DEF Live, TypeOK
  <2>. QED  BY <2>1, <2>5 DEF BackSoon
<1>7. ASSUME NEW s \in Sockets, OnError(s) PROVE isUserClose'
  BY <1>7 DEF OnError, Undisturbed, NothingFails
<1>8. CASE Close
  BY <1>2, <1>8 DEF Close
<1>9. ASSUME NEW s \in Sockets, OnClose(s), isUserClose PROVE isUserClose'
  BY <1>9 DEF OnClose
<1>10. ASSUME NEW c \in Calls, Subscribe(c), sock' = sock PROVE BackSoon'
  BY <1>1, <1>10 DEF Subscribe
<1>11. CASE ScheduleReconnect \/ ArmTimer
  <2>1. options.maxRetries \in Nat /\ options.autoReconnect /\ options.maxRetries > 0
    BY DEF Reconnects, TypeOK, Setting, options
  <2>2. telling' # "nothing" \/ timerArmed'
    BY <1>11, <2>1 DEF ScheduleReconnect, ArmTimer, BackoffInv
  <2>3. telling # "nothing" /\ UNCHANGED <<sock, forReconnect>>
    BY <1>11 DEF ScheduleReconnect, ArmTimer
  <2>4. \A s \in Sockets : sock'[s] # "connecting"
    BY <2>3 DEF TellingAlone, Live
  <2>. QED  BY <2>2, <2>4 DEF BackSoon
<1>. QED
  BY <1>1, <1>2, <1>3, <1>4, <1>5, <1>6, <1>7, <1>8, <1>9, <1>10, <1>11
  DEF Next, Application, Continuation, EventLoop, Node, vars, sessionVars, subsVars,
      callVars, Unsubscribe, SendSubscribe, Register, ConfirmationTimeout,
      ResubscribeAll, OnMessage, NodeRequest, NodeEvent

\* resubscribeAll() asks for every query that has a callback.
LEMMA ResubscribeAsks ==
    ASSUME TypeOK, NEW s \in Sockets, ResubscribeAll(s), ws = s, sock[s] = "open",
           NEW q \in Registered
    PROVE  Asked(s, q)'
<1>1. PICK order \in [1..Cardinality(Resubscribed) -> Resubscribed] :
        /\ Resubscribed = {order[i] : i \in DOMAIN order}
        /\ Sent([i \in DOMAIN order |->
                   [op |-> "subscribe", query |-> order[i], by |-> NoCall]])
  BY DEF ResubscribeAll
<1>. DEFINE frames == [i \in DOMAIN order |->
                         [op |-> "subscribe", query |-> order[i], by |-> NoCall]]
<1>2. frames \in Seq(Frame)
  BY ResubscribeFrames
<1>3. PICK k \in DOMAIN frames : frames[k].op = "subscribe" /\ frames[k].query = q
  BY <1>1 DEF Resubscribed
<1>. HIDE DEF frames
<1>4. outbox[s] \in Seq(Frame) /\ outbox'[s] = outbox[s] \o frames
  BY <1>1, CosmosSessionAssumption DEF Sent, TypeOK, frames
<1>5. Len(outbox[s]) + k \in DOMAIN outbox'[s] /\ outbox'[s][Len(outbox[s]) + k] = frames[k]
  BY <1>2, <1>4
<1>. QED  BY <1>3, <1>5 DEF Asked

\* What is held or about to be stays asked for on an open socket.
LEMMA HeldStep ==
    ASSUME Undisturbed, SafetyInv, PendingIsAwaited, HandleOwnsCallback, ServedInv,
           [Next]_vars
    PROVE  HeldIsAsked'
<1>. USE CosmosSessionAssumption DEF SafetyInv
<1>c. Careful
  BY DEF Undisturbed
<1>. SUFFICES ASSUME ws' # NoSocket, sock'[ws'] = "open", NEW c \in Calls, Exclusive(c),
                     call'[c] \in {"confirmed", "active"}
              PROVE  \/ Asked(ws, QueryOf[c])'
                     \/ call'[c] = "active" /\ ws' \in resubscribing'
  BY DEF HeldIsAsked, Exclusive
<1>. DEFINE q == QueryOf[c]
<1>1. ws = ws' /\ ws \in Sockets /\ sock[ws] \in {"open", "connecting"} /\ ~OnClose(ws)
  <2>1. ASSUME NEW s \in Sockets, Connect(s) PROVE FALSE
    BY <2>1 DEF Connect, TypeOK
  <2>2. ~Close /\ \A s \in Sockets : ~OnClose(s)
    BY DEF Close, OnClose, ResetConnection
  <2>3. ws = ws' /\ ws \in Sockets
    BY <2>1, <2>2
    DEF TypeOK, Next, Application, Continuation, EventLoop, Node, ScheduleReconnect,
        ArmTimer, vars, sessionVars, Subscribe, Unsubscribe, SendSubscribe, Register,
        ConfirmationTimeout, ResubscribeAll, OnOpen, OnError, ReconnectTimer, OnMessage,
        NodeRequest, NodeEvent
  <2>4. \/ sock' = sock
        \/ \E s \in Sockets : OnOpen(s) \/ OnError(s)
    BY <2>1, <2>2
    DEF Next, Application, Continuation, EventLoop, Node, ScheduleReconnect, ArmTimer,
        vars, Subscribe, Unsubscribe, SendSubscribe, Register, ConfirmationTimeout,
        ResubscribeAll, ReconnectTimer, OnMessage, NodeRequest, NodeEvent
  <2>5. sock[ws] \in {"open", "connecting"}
    BY <2>3, <2>4 DEF OnOpen, OnError, TypeOK
  <2>. QED  BY <2>2, <2>3, <2>5
<1>2. ~isUserClose
  BY <1>1 DEF UserClosed
<1>3. call[c] # "unsubscribed"
  BY <1>c, HandleMoves
<1>4. Asked(ws, q) => Asked(ws, q)'
  BY <1>1, <1>3, AskedStays DEF ServedInv
<1>5. CASE sock[ws] = "connecting"
  <2>1. OnOpen(ws)
    <3>1. \A s \in Sockets : Connect(s) => sock'[ws] = sock[ws]
      BY <1>1 DEF Connect, TypeOK
    <3>2. \A s \in Sockets : OnError(s) => sock'[ws] \in {sock[ws], "failing"}
      BY <1>1 DEF OnError, TypeOK
    <3>3. \A s \in Sockets : OnOpen(s) => s = ws \/ sock'[ws] = sock[ws]
      BY <1>1 DEF OnOpen, TypeOK
    <3>4. ~Close /\ \A s \in Sockets : ~OnClose(s)
      BY <1>1 DEF Close, OnClose, ResetConnection
    <3>. QED
      BY <1>1, <1>5, <3>1, <3>2, <3>3, <3>4
      DEF Next, Application, Continuation, EventLoop, Node, ScheduleReconnect, ArmTimer,
          vars, Subscribe, Unsubscribe, SendSubscribe, Register, ConfirmationTimeout,
          ResubscribeAll, ReconnectTimer, OnMessage, NodeRequest, NodeEvent
  <2>2. call[c] = "active" /\ call'[c] = "active"
    BY <1>c, <2>1, HandleMoves DEF OnOpen, Quiet, Register, OnMessage
  <2>3. ws \in forReconnect
    BY <1>1, <1>2, <1>5, <2>2 DEF ServedInv, BackSoon
  <2>. QED  BY <1>1, <2>1, <2>2, <2>3 DEF OnOpen
<1>6. CASE sock[ws] = "open"
  <2>1. CASE call[c] \in {"confirmed", "active"} /\ Asked(ws, q)
    BY <1>1, <1>4, <2>1
  <2>2. CASE call[c] = "active" /\ ws \in resubscribing /\ ~Asked(ws, q)
    <3>1. call'[c] = "active"
      BY <1>c, <2>2, HandleMoves DEF Unsubscribe, TypeOK
    <3>2. CASE ResubscribeAll(ws)
      <4>1. q \in Registered
        BY <1>2, <2>2 DEF HandleOwnsCallback, Registered
      <4>. QED  BY <1>1, <1>6, <3>2, <4>1, ResubscribeAsks
    <3>3. CASE ~ResubscribeAll(ws)
      <4>1. ws \in resubscribing'
        BY <1>1, <2>2, <3>3
        DEF Quiet, Next, Application, Continuation, EventLoop, Node, ScheduleReconnect,
            ArmTimer, vars, callVars, Close, Subscribe, Unsubscribe, SendSubscribe,
            Register, ConfirmationTimeout, ResubscribeAll, OnOpen, OnError, OnClose,
            ReconnectTimer, OnMessage, NodeRequest, NodeEvent
      <4>. QED  BY <1>1, <3>1, <4>1
    <3>. QED  BY <3>2, <3>3
  <2>3. CASE call[c] \notin {"confirmed", "active"}
    <3>1. call'[c] = "confirmed"
      BY <1>c, <2>3, HandleMoves DEF Register
    <3>2. PICK s \in Sockets : /\ OnMessage(s)
                               /\ Head(inbox[s]).kind = "confirm" /\ Head(inbox[s]).of = c
      BY <1>c, <2>3, <3>1, HandleMoves
    <3>3. s = ws
      BY <1>2, <3>2 DEF OnMessage, LiveIsWs, Live
    <3>4. /\ inbox[ws] \in Seq(Message) /\ inbox[ws] # <<>>
      BY <3>2, <3>3 DEF OnMessage, TypeOK
    <3>5. 1 \in DOMAIN inbox[ws] /\ inbox[ws][1] = Head(inbox[ws]) /\ inbox[ws][1] \in Message
      BY <3>4
    <3>6. inbox[ws][1] = [kind |-> "confirm", of |-> c]
      BY <3>2, <3>3, <3>5 DEF Message
    <3>7. Asked(ws, q)
      BY <1>1, <1>3, <3>5, <3>6 DEF ServedInv, ConfirmedIsAsked
    <3>. QED  BY <1>1, <1>4, <3>7
  <2>4. \/ call[c] \notin {"confirmed", "active"}
        \/ Asked(ws, q)
        \/ call[c] = "active" /\ ws \in resubscribing
    BY <1>1, <1>6 DEF ServedInv, HeldIsAsked
  <2>. QED  BY <2>1, <2>2, <2>3, <2>4
<1>. QED  BY <1>1, <1>5, <1>6

\* What is asked for and not taken back will be served.
LEMMA AskedIsServed ==
    ASSUME ServedInv, RegisteredIsActive, CosmosSessionAssumption, TypeOK
    PROVE  SubscriptionsRestored
<1>. SUFFICES ASSUME Quiet, ws # NoSocket, sock[ws] = "open", NEW c \in Calls, Exclusive(c),
                     subscriptions[QueryOf[c]] = c
              PROVE  WillServe(ws, QueryOf[c])
  BY DEF SubscriptionsRestored
<1>1. call[c] = "active" /\ ws \in Sockets
  BY DEF RegisteredIsActive, TypeOK
<1>2. Asked(ws, QueryOf[c])
  BY <1>1 DEF ServedInv, HeldIsAsked, Quiet
<1>3. \A i \in DOMAIN outbox[ws] :
         outbox[ws][i].query = QueryOf[c] => outbox[ws][i].op # "unsubscribe"
  BY <1>1 DEF ServedInv, FramesFit
<1>. QED  BY <1>2, <1>3 DEF Asked, WillServe

\* A new session holds nothing.
LEMMA ServedInit == Init => HandleOwnsCallback /\ RegisteredIsActive /\ ServedInv
<1>. SUFFICES ASSUME Init PROVE HandleOwnsCallback /\ RegisteredIsActive /\ ServedInv
  OBVIOUS
<1>1. /\ \A c \in Calls : call[c] = "idle"
      /\ \A s \in Sockets : sock[s] = "unused"
      /\ \A s \in Sockets : DOMAIN outbox[s] = {} /\ DOMAIN inbox[s] = {}
  BY DEF Init
<1>2. HandleOwnsCallback /\ RegisteredIsActive
  BY <1>1, CosmosSessionAssumption DEF Init, HandleOwnsCallback, RegisteredIsActive
<1>3. FramesFit /\ ConfirmedIsAsked /\ ConnectionTold
  BY <1>1 DEF Init, FramesFit, ConfirmedIsAsked, ConnectionTold
<1>4. NothingFails /\ BackSoon /\ HeldIsAsked
  BY <1>1 DEF Init, NothingFails, BackSoon, HeldIsAsked
<1>. QED  BY <1>2, <1>3, <1>4 DEF ServedInv

\* Each handle has its own callback as long as it lasts, nothing is delivered outside its
\* life, and a session that nothing disturbs and that reconnects by itself has the node
\* serve every handle on each of its connections.
THEOREM HandlesServed == Spec => HandlesAreServed
<1>. DEFINE CarefulInv == Careful => /\ SafetyInv /\ ReadyIsConnected /\ PendingIsAwaited
                                     /\ RegisteredIsActive
            CalmInv == Undisturbed /\ Reconnects => ServedInv
            Inv == BackoffInv /\ HandleOwnsCallback /\ CarefulInv /\ CalmInv
<1>1. Init => Inv
  <2>1. Init => BackoffInv
    BY TypeInit DEF Init, BackoffInv, BackoffNeverGrows
  <2>. QED
    BY <2>1, SafetyInit, ServedInit DEF Init, ReadyIsConnected, PendingIsAwaited
<1>2. ASSUME Inv, [Next]_vars PROVE Inv'
  <2>1. /\ Careful' <=> Careful
        /\ Undisturbed' <=> Undisturbed
        /\ Reconnects' <=> Reconnects
    BY <1>2, SettingStays DEF Careful, Undisturbed, Reconnects, options
  <2>2. BackoffInv' /\ HandleOwnsCallback'
    BY <1>2, BackoffStep, OwnsStep DEF BackoffInv
  <2>3. CarefulInv'
    BY <1>2, <2>1, SafetyStep, PendingStep, RegisteredStep
  <2>4. ASSUME Undisturbed, Reconnects PROVE ServedInv'
    <3>1. Careful /\ SafetyInv /\ PendingIsAwaited /\ ServedInv
      BY <1>2, <2>4 DEF Undisturbed
    <3>2. FramesFit' /\ ConfirmedIsAsked' /\ ConnectionTold' /\ NothingFails'
      BY <1>2, <2>4, <3>1, FramesStep, ConfirmStep, TellingStep, FailureStep DEF ServedInv
    <3>3. BackSoon' /\ HeldIsAsked'
      BY <1>2, <2>4, <3>1, BackStep, HeldStep DEF ServedInv
    <3>. QED  BY <3>2, <3>3 DEF ServedInv
  <2>. QED  BY <2>1, <2>2, <2>3, <2>4
<1>3. Inv => HandleOwnsCallback /\ SubscriptionsRestored
  <2>1. ASSUME Inv PROVE SubscriptionsRestored
    <3>1. ASSUME Undisturbed, Reconnects PROVE SubscriptionsRestored
      BY <2>1, <3>1, AskedIsServed, CosmosSessionAssumption DEF SafetyInv, Undisturbed
    <3>. QED  BY <3>1 DEF SubscriptionsRestored
  <2>. QED  BY <2>1
<1>4. Inv /\ [Next]_vars => CallbackOnlyWhileActive
  <2>1. ASSUME Inv, [Next]_vars, Careful PROVE CallbackOnlyWhileActive
    BY <2>1, ReceiveStep
  <2>. QED  BY <2>1 DEF CallbackOnlyWhileActive
<1>. HIDE DEF Inv
<1>5. Inv /\ [Next]_vars => Inv'
  BY <1>2
<1>. QED  BY <1>1, <1>3, <1>4, <1>5, PTL DEF Spec, HandlesAreServed

-----------------------------------------------------------------------------
\* Neither a request nor a confirmation of call c is on a wire.
NothingAbout(c) ==
    \A s \in Sockets :
        /\ \A i \in DOMAIN outbox[s] : outbox[s][i].by # c
        /\ \A i \in DOMAIN inbox[s] : inbox[s][i] # [kind |-> "confirm", of |-> c]

\* A call that has not sent is not answered, and neither is one whose send() threw: the
\* entry that one leaves in pendingSubscriptions, in a careless use, is never found again.
UnsentIsUnanswered ==
    \A c \in Calls :
        \/ call[c] \in {"idle", "connecting", "ready"}
        \/ call[c] = "rejected" /\ c \in pending
        => NothingAbout(c)

\* An entry is that of a call that awaits its confirmation or that rejected.
EntriesFit == \A c \in pending : call[c] \in {"pending", "rejected"}

SettledInv == TypeOK /\ EntriesFit /\ UnsentIsUnanswered

\* A subscribe() that rejected stays rejected, and a handle ends by unsubscribe() only and
\* for good: no late confirmation and no drop of a connection settles a call once more.
SettledStays ==
    \A c \in Calls :
        /\ call[c] = "rejected" => call'[c] = "rejected"
        /\ call[c] = "active" => call'[c] \in {"active", "unsubscribed"}
        /\ call[c] = "unsubscribed" => call'[c] = "unsubscribed"

\* What a step does to the calls and their entries, in any use of the session.
LEMMA CallMoves ==
    ASSUME TypeOK, EntriesFit, UnsentIsUnanswered, [Next]_vars, NEW c \in Calls
    PROVE  /\ call[c] = "rejected" => call'[c] = "rejected"
           /\ call[c] = "active" => call'[c] \in {"active", "unsubscribed"}
           /\ call[c] = "unsubscribed" => call'[c] = "unsubscribed"
           /\ c \in pending' => call'[c] \in {"pending", "rejected"}
           /\ call'[c] \in {"idle", "connecting", "ready"} =>
                 call[c] \in {"idle", "connecting", "ready"}
           /\ call'[c] = "rejected" /\ c \in pending' =>
                 \/ c \in pending /\ call[c] = "rejected"
                 \/ call[c] = "ready" /\ UNCHANGED outbox
<1>. USE CosmosSessionAssumption DEF EntriesFit
<1>1. CASE UNCHANGED <<call, pending>>
  BY <1>1
<1>2. CASE RejectAllPending
  <2>1. /\ pending' = {}
        /\ call'[c] = IF c \in pending /\ call[c] = "pending" THEN "rejected" ELSE call[c]
    BY <1>2 DEF RejectAllPending
  <2>. QED  BY <2>1
<1>3. ASSUME NEW d \in Calls, Subscribe(d) PROVE UNCHANGED pending /\ call[d] = "idle"
                                /\ call' \in {[call EXCEPT ![d] = "ready"],
                                              [call EXCEPT ![d] = "connecting"],
                                              [call EXCEPT ![d] = "rejected"]}
  BY <1>3 DEF Subscribe, subsVars
<1>4. CASE \E d \in Calls : Subscribe(d)
  BY <1>3, <1>4 DEF TypeOK
<1>5. CASE \E d \in Calls : SendSubscribe(d)
  BY <1>5 DEF TypeOK, SendSubscribe
<1>6. CASE \E d \in Calls : Register(d) \/ ConfirmationTimeout(d)
  BY <1>6 DEF TypeOK, Register, ConfirmationTimeout
<1>7. CASE \E d \in Calls : Unsubscribe(d)
  BY <1>7 DEF TypeOK, Unsubscribe
<1>8. CASE \E s \in Sockets : OnOpen(s) \/ OnError(s)
  <2>1. pending' = pending
    BY <1>8 DEF OnOpen, OnError, subsVars
  <2>2. \/ call'[c] = call[c]
        \/ call[c] = "connecting" /\ call'[c] \in {"ready", "rejected"}
    BY <1>8 DEF OnOpen, OnError
  <2>. QED  BY <2>1, <2>2
<1>9. ASSUME NEW s \in Sockets, OnMessage(s)
      PROVE  \/ UNCHANGED <<call, pending>>
             \/ \E d \in pending : /\ pending' = pending \ {d} /\ call[d] = "pending"
                                   /\ call' = [call EXCEPT ![d] = "confirmed"]
  <2>1. SUFFICES ASSUME ~UNCHANGED <<call, pending>>
                 PROVE  \E d \in pending : /\ pending' = pending \ {d} /\ call[d] = "pending"
                                           /\ call' = [call EXCEPT ![d] = "confirmed"]
    OBVIOUS
  <2>. DEFINE m == Head(inbox[s])
  <2>2. /\ m.kind = "confirm" /\ m.of \in pending /\ pending' = pending \ {m.of}
        /\ call' = [call EXCEPT ![m.of] = "confirmed"]
    BY <1>9, <2>1 DEF OnMessage
  <2>3. inbox[s] \in Seq(Message) /\ inbox[s] # <<>>
    BY <1>9 DEF OnMessage, TypeOK
  <2>4. 1 \in DOMAIN inbox[s] /\ inbox[s][1] = m /\ m \in Message
    BY <2>3
  <2>5. m = [kind |-> "confirm", of |-> m.of]
    BY <2>2, <2>4 DEF Message
  <2>6. ~NothingAbout(m.of)
    BY <2>4, <2>5 DEF NothingAbout
  <2>7. call[m.of] = "pending"
    BY <2>2, <2>6 DEF UnsentIsUnanswered, TypeOK
  <2>. QED  BY <2>2, <2>7
<1>10. CASE \E s \in Sockets : OnMessage(s)
  BY <1>1, <1>9, <1>10 DEF TypeOK
<1>11. CASE ScheduleReconnect
  BY <1>1, <1>2, <1>11 DEF ScheduleReconnect
<1>12. CASE Close
  BY <1>2, <1>12 DEF Close
<1>. QED
  BY <1>1, <1>4, <1>5, <1>6, <1>7, <1>8, <1>10, <1>11, <1>12
  DEF Next, Application, Continuation, EventLoop, Node, ArmTimer, OnClose, vars, subsVars,
      callVars, ResubscribeAll, ReconnectTimer, NodeRequest, NodeEvent

\* The wires have something about a call only after it has sent its request.
LEMMA NothingStays ==
    ASSUME TypeOK, [Next]_vars, NEW c \in Calls, NothingAbout(c),
           ~SendSubscribe(c) \/ UNCHANGED outbox
    PROVE  NothingAbout(c)'
<1>. USE CosmosSessionAssumption
<1>1. ASSUME NEW s \in Sockets PROVE \A i \in DOMAIN outbox'[s] : outbox'[s][i].by # c
  <2>1. CASE UNCHANGED outbox
    BY <2>1 DEF NothingAbout
  <2>2. ASSUME NEW frames \in Seq(Frame), Sent(frames),
               \A j \in DOMAIN frames : frames[j].by # c
        PROVE  \A i \in DOMAIN outbox'[s] : outbox'[s][i].by # c
    BY <2>2, SentAppends DEF NothingAbout
  <2>3. ASSUME NEW d \in Calls, SendSubscribe(d), d # c
        PROVE  \A i \in DOMAIN outbox'[s] : outbox'[s][i].by # c
    <3>1. \A j \in DOMAIN <<[op |-> "subscribe", query |-> QueryOf[d], by |-> d]>> :
             <<[op |-> "subscribe", query |-> QueryOf[d], by |-> d]>>[j].by # c
      BY <2>3
    <3>. QED  BY <2>1, <2>2, <2>3, <3>1, SendersSend
  <2>4. ASSUME NEW d \in Calls, Unsubscribe(d)
        PROVE  \A i \in DOMAIN outbox'[s] : outbox'[s][i].by # c
    <3>1. \A j \in DOMAIN <<[op |-> "unsubscribe", query |-> QueryOf[d], by |-> NoCall]>> :
             <<[op |-> "unsubscribe", query |-> QueryOf[d], by |-> NoCall]>>[j].by # c
      OBVIOUS
    <3>. QED  BY <2>1, <2>2, <2>4, <3>1, SendersSend
  <2>5. ASSUME NEW r \in Sockets, ResubscribeAll(r)
        PROVE  \A i \in DOMAIN outbox'[s] : outbox'[s][i].by # c
    <3>1. PICK order \in [1..Cardinality(Resubscribed) -> Resubscribed] :
            Sent([i \in DOMAIN order |->
                    [op |-> "subscribe", query |-> order[i], by |-> NoCall]])
      BY <2>5 DEF ResubscribeAll
    <3>. QED  BY <2>2, <3>1, ResubscribeFrames
  <2>6. ASSUME NEW r \in Sockets, OnClose(r)
        PROVE  \A i \in DOMAIN outbox'[s] : outbox'[s][i].by # c
    BY <2>6 DEF OnClose, TypeOK, NothingAbout
  <2>7. ASSUME NEW r \in Sockets, NodeRequest(r)
        PROVE  \A i \in DOMAIN outbox'[s] : outbox'[s][i].by # c
    <3>1. /\ outbox[r] \in Seq(Frame) /\ outbox[r] # <<>>
          /\ outbox' = [outbox EXCEPT ![r] = Tail(@)]
      BY <2>7 DEF NodeRequest, TypeOK
    <3>2. \A i \in DOMAIN Tail(outbox[r]) :
             i + 1 \in DOMAIN outbox[r] /\ Tail(outbox[r])[i] = outbox[r][i + 1]
      BY <3>1
    <3>3. outbox'[s] = IF s = r THEN Tail(outbox[r]) ELSE outbox[s]
      BY <3>1 DEF TypeOK
    <3>. QED  BY <3>2, <3>3 DEF NothingAbout
  <2>. QED  BY <2>1, <2>3, <2>4, <2>5, <2>6, <2>7, OutboxMoves
<1>2. ASSUME NEW s \in Sockets
      PROVE  \A i \in DOMAIN inbox'[s] : inbox'[s][i] # [kind |-> "confirm", of |-> c]
  <2>1. inbox[s] \in Seq(Message)
    BY DEF TypeOK
  <2>2. CASE inbox'[s] = inbox[s]
    BY <2>2 DEF NothingAbout
  <2>3. ASSUME NEW m \in Message, inbox'[s] = Append(inbox[s], m),
               m # [kind |-> "confirm", of |-> c]
        PROVE  \A i \in DOMAIN inbox'[s] : inbox'[s][i] # [kind |-> "confirm", of |-> c]
    <3>1. \A i \in DOMAIN Append(inbox[s], m) :
             \/ i \in DOMAIN inbox[s] /\ Append(inbox[s], m)[i] = inbox[s][i]
             \/ Append(inbox[s], m)[i] = m
      BY <2>1
    <3>. QED  BY <2>3, <3>1 DEF NothingAbout
  <2>4. CASE OnMessage(s)
    <3>1. inbox[s] # <<>> /\ inbox'[s] = Tail(inbox[s])
      BY <2>4 DEF OnMessage, TypeOK
    <3>2. \A i \in DOMAIN Tail(inbox[s]) :
             i + 1 \in DOMAIN inbox[s] /\ Tail(inbox[s])[i] = inbox[s][i + 1]
      BY <2>1, <3>1
    <3>. QED  BY <3>1, <3>2 DEF NothingAbout
  <2>5. CASE OnClose(s)
    <3>1. inbox'[s] = <<>>
      BY <2>5 DEF OnClose, TypeOK
    <3>. QED  BY <3>1
  <2>6. CASE NodeRequest(s)
    <3>. DEFINE f == Head(outbox[s])
    <3>1. outbox[s] \in Seq(Frame) /\ outbox[s] # <<>>
      BY <2>6 DEF NodeRequest, TypeOK
    <3>2. f = outbox[s][1] /\ 1 \in DOMAIN outbox[s] /\ f \in Frame
      BY <3>1
    <3>3. f.by # c
      BY <3>2 DEF NothingAbout
    <3>4. \/ inbox'[s] = inbox[s]
          \/ /\ f.by \in Calls
             /\ inbox'[s] = Append(inbox[s], [kind |-> "confirm", of |-> f.by])
      BY <2>6, <3>2 DEF NodeRequest, TypeOK, Frame
    <3>5. f.by \in Calls => [kind |-> "confirm", of |-> f.by] \in Message
      BY DEF Message
    <3>. QED  BY <2>2, <2>3, <3>3, <3>4, <3>5
  <2>7. ASSUME NEW q \in Queries, NodeEvent(s, q)
        PROVE  \A i \in DOMAIN inbox'[s] : inbox'[s][i] # [kind |-> "confirm", of |-> c]
    <3>1. inbox'[s] = Append(inbox[s], [kind |-> "event", of |-> q])
      BY <2>7 DEF NodeEvent, TypeOK
    <3>2. [kind |-> "event", of |-> q] \in Message
      BY DEF Message
    <3>. QED  BY <2>3, <3>1, <3>2
  <2>8. \/ inbox'[s] = inbox[s]
        \/ OnMessage(s) \/ OnClose(s) \/ NodeRequest(s)
        \/ \E q \in Queries : NodeEvent(s, q)
    <3>1. ASSUME NEW r \in Sockets, r # s,
                 \/ OnMessage(r) \/ OnClose(r) \/ NodeRequest(r)
                 \/ \E q \in Queries : NodeEvent(r, q)
          PROVE  inbox'[s] = inbox[s]
      BY <3>1 DEF OnMessage, OnClose, NodeRequest, NodeEvent, TypeOK
    <3>. QED
      BY <3>1
      DEF Next, Application, Continuation, EventLoop, Node, ScheduleReconnect, ArmTimer,
          vars, wireVars, Close, Subscribe, Unsubscribe, SendSubscribe, Register,
          ConfirmationTimeout, ResubscribeAll, OnOpen, OnError, ReconnectTimer
  <2>. QED  BY <2>2, <2>4, <2>5, <2>6, <2>7, <2>8
<1>. QED  BY <1>1, <1>2 DEF NothingAbout

\* The invariant behind it holds of every step, however the session is used.
LEMMA SettledStep == SettledInv /\ [Next]_vars => SettledInv'
<1>. SUFFICES ASSUME SettledInv, [Next]_vars PROVE SettledInv'
  OBVIOUS
<1>. USE DEF SettledInv
<1>1. TypeOK'
  BY TypeStep
<1>2. EntriesFit'
  BY <1>1, CallMoves DEF EntriesFit, TypeOK
<1>3. ASSUME NEW c \in Calls,
             \/ call'[c] \in {"idle", "connecting", "ready"}
             \/ call'[c] = "rejected" /\ c \in pending'
      PROVE  NothingAbout(c)'
  <2>1. SendSubscribe(c) => call[c] = "ready" /\ call'[c] \in {"pending", "rejected"}
    BY DEF SendSubscribe, TypeOK
  <2>2. ~SendSubscribe(c) \/ UNCHANGED outbox
    BY <1>3, <2>1, CallMoves
  <2>3. NothingAbout(c)
    BY <1>3, CallMoves DEF UnsentIsUnanswered
  <2>. QED  BY <2>2, <2>3, NothingStays
<1>4. UnsentIsUnanswered'
  BY <1>3 DEF UnsentIsUnanswered
<1>. QED  BY <1>1, <1>2, <1>4

\* Each subscribe() settles once, however the session is used: a confirmation that comes
\* after the timeout, a drop, close() or a send() that threw finds nothing to settle, and
\* the handle of a call that was confirmed lasts until its unsubscribe().
THEOREM CallsSettleOnce == Spec => [][SettledStays]_vars
<1>1. Init => SettledInv
  BY TypeInit DEF Init, SettledInv, EntriesFit, UnsentIsUnanswered, NothingAbout
<1>2. SettledInv /\ [Next]_vars => SettledStays
  BY CallMoves DEF SettledInv, SettledStays
<1>. QED  BY <1>1, <1>2, SettledStep, PTL DEF Spec

=============================================================================
