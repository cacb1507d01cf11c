-------------------------- MODULE EvmSessionProofs --------------------------
(***************************************************************************)
(* Proofs about InternalEvmSession for any number of calls and sockets and *)
(* any options: what it holds, and what an undisturbed session serves.     *)
(***************************************************************************)
EXTENDS EvmSession, FiniteSetTheorems, TLAPS

\* Taking out the entry at k leaves the others in their order.
LEMMA Removed ==
    ASSUME NEW S, NEW q \in Seq(S), NEW k \in DOMAIN q
    PROVE  /\ RemoveAt(q, k) \in Seq(S)
           /\ Len(RemoveAt(q, k)) = Len(q) - 1
           /\ \A j \in 1..(Len(q) - 1) :
                 RemoveAt(q, k)[j] = IF j < k THEN q[j] ELSE q[j + 1]
<1>. DEFINE before == SubSeq(q, 1, k - 1)
            after == SubSeq(q, k + 1, Len(q))
<1>1. before \in Seq(S) /\ Len(before) = k - 1 /\ \A j \in 1..(k - 1) : before[j] = q[j]
  OBVIOUS
<1>2. /\ after \in Seq(S) /\ Len(after) = Len(q) - k
      /\ \A j \in 1..(Len(q) - k) : after[j] = q[k + j]
  OBVIOUS
<1>3. RemoveAt(q, k) = before \o after
  BY DEF RemoveAt
<1>. HIDE DEF before, after
<1>. QED  BY <1>1, <1>2, <1>3

\* No two entries have one key, or one callback.
KeysDiffer ==
    \A i, j \in DOMAIN subscriptionInfo :
       subscriptionInfo[i].key = subscriptionInfo[j].key => i = j
RegisteredOnce ==
    \A i, j \in DOMAIN subscriptionInfo :
       subscriptionInfo[i].callback = subscriptionInfo[j].callback => i = j

\* What Forget(key) leaves was there, everything else is left, and nothing twice.
LEMMA Forgets ==
    ASSUME NEW key, subscriptionInfo \in Seq(Entry), Forget(key), KeysDiffer
    PROVE  /\ subscriptionInfo' \in Seq(Entry)
           /\ \A i \in DOMAIN subscriptionInfo' : \E j \in DOMAIN subscriptionInfo :
                 subscriptionInfo'[i] = subscriptionInfo[j] /\ subscriptionInfo[j].key # key
           /\ \A j \in DOMAIN subscriptionInfo : subscriptionInfo[j].key # key =>
                 \E i \in DOMAIN subscriptionInfo' : subscriptionInfo'[i] = subscriptionInfo[j]
           /\ KeysDiffer'
           /\ RegisteredOnce => RegisteredOnce'
<1>1. CASE /\ \A i \in DOMAIN subscriptionInfo : subscriptionInfo[i].key # key
           /\ UNCHANGED subscriptionInfo
  BY <1>1 DEF KeysDiffer, RegisteredOnce
<1>2. ASSUME NEW k \in DOMAIN subscriptionInfo, subscriptionInfo[k].key = key,
             subscriptionInfo' = RemoveAt(subscriptionInfo, k)
      PROVE  /\ subscriptionInfo' \in Seq(Entry)
             /\ \A i \in DOMAIN subscriptionInfo' : \E j \in DOMAIN subscriptionInfo :
                   subscriptionInfo'[i] = subscriptionInfo[j] /\ subscriptionInfo[j].key # key
             /\ \A j \in DOMAIN subscriptionInfo : subscriptionInfo[j].key # key =>
                   \E i \in DOMAIN subscriptionInfo' : subscriptionInfo'[i] = subscriptionInfo[j]
             /\ KeysDiffer'
             /\ RegisteredOnce => RegisteredOnce'
  <2>. DEFINE n == Len(subscriptionInfo)
              old(i) == IF i < k THEN i ELSE i + 1
  <2>1. n \in Nat /\ DOMAIN subscriptionInfo = 1..n /\ k \in 1..n
    OBVIOUS
  <2>2. /\ subscriptionInfo' \in Seq(Entry) /\ DOMAIN subscriptionInfo' = 1..(n - 1)
        /\ \A i \in 1..(n - 1) : subscriptionInfo'[i] = subscriptionInfo[old(i)]
    <3>1. \A i \in 1..(n - 1) : subscriptionInfo'[i] =
             IF i < k THEN subscriptionInfo[i] ELSE subscriptionInfo[i + 1]
      BY <1>2, Removed
    <3>2. subscriptionInfo' \in Seq(Entry) /\ DOMAIN subscriptionInfo' = 1..(n - 1)
      BY <1>2, <2>1, Removed
    <3>. QED  BY <3>1, <3>2
  <2>3. /\ \A i \in 1..(n - 1) : old(i) \in 1..n /\ old(i) # k
        /\ \A i, j \in 1..(n - 1) : old(i) = old(j) => i = j
    BY <2>1
  <2>4. \A j \in 1..n : j # k => \E i \in 1..(n - 1) : old(i) = j
    <3>1. ASSUME NEW j \in 1..n, j < k PROVE j \in 1..(n - 1) /\ old(j) = j
      BY <2>1, <3>1
    <3>2. ASSUME NEW j \in 1..n, j > k PROVE j - 1 \in 1..(n - 1) /\ old(j - 1) = j
      BY <2>1, <3>2
    <3>. QED  BY <2>1, <3>1, <3>2
  <2>. HIDE DEF old
  <2>5. \A i \in 1..(n - 1) : subscriptionInfo[old(i)].key # key
    BY <1>2, <2>1, <2>3 DEF KeysDiffer
  <2>6. KeysDiffer'
    <3>. SUFFICES ASSUME NEW i \in 1..(n - 1), NEW j \in 1..(n - 1),
                         subscriptionInfo'[i].key = subscriptionInfo'[j].key
                  PROVE  i = j
      BY <2>2 DEF KeysDiffer
    <3>1. subscriptionInfo[old(i)].key = subscriptionInfo[old(j)].key
      BY <2>2
    <3>. QED  BY <2>1, <2>3, <3>1 DEF KeysDiffer
  <2>7. ASSUME RegisteredOnce PROVE RegisteredOnce'
    <3>. SUFFICES ASSUME NEW i \in 1..(n - 1), NEW j \in 1..(n - 1),
                         subscriptionInfo'[i].callback = subscriptionInfo'[j].callback
                  PROVE  i = j
      BY <2>2 DEF RegisteredOnce
    <3>1. subscriptionInfo[old(i)].callback = subscriptionInfo[old(j)].callback
      BY <2>2
    <3>. QED  BY <2>1, <2>3, <2>7, <3>1 DEF RegisteredOnce
  <2>8. \A i \in 1..(n - 1) : \E j \in 1..n :
           subscriptionInfo'[i] = subscriptionInfo[j] /\ subscriptionInfo[j].key # key
    BY <2>2, <2>3, <2>5
  <2>9. \A j \in 1..n : subscriptionInfo[j].key # key =>
           \E i \in 1..(n - 1) : subscriptionInfo'[i] = subscriptionInfo[j]
    BY <1>2, <2>2, <2>4
  <2>. QED  BY <2>1, <2>2, <2>6, <2>7, <2>8, <2>9
<1>. QED  BY <1>1, <1>2 DEF Forget

-----------------------------------------------------------------------------
\* What the assignments the handlers share do to the threads.
LEMMA Failing ==
    ASSUME NEW t \in Threads
    PROVE  /\ t \in Calls => Failed(t) = "rejected"
           /\ t \in Sockets => Failed(t) = "settled"
BY EvmSessionAssumption DEF Failed, Threads

LEMMA RejectionType ==
    ASSUME TypeOK, RejectAllPending
    PROVE  /\ phase' \in [Threads -> CallPhases \cup LoopPhases]
           /\ \A c \in Calls : phase'[c] \in CallPhases
           /\ \A s \in Sockets : phase'[s] \in LoopPhases
           /\ pending' = {}
<1>1. \A t \in Threads : phase'[t] \in {phase[t], Failed(t)}
  BY DEF RejectAllPending
<1>. QED
  BY <1>1, Failing DEF TypeOK, RejectAllPending, Threads, CallPhases, LoopPhases

LEMMA EnsureConnectedType ==
    ASSUME TypeOK, NEW t \in Threads, EnsureConnected(t)
    PROVE  /\ ws' \in Sockets \cup {NoSocket}
           /\ connectionPromise' \in Sockets \cup {NoSocket}
           /\ waitsOn' \in [Threads -> Sockets \cup {NoSocket}]
           /\ sock' \in [Sockets -> SocketStates]
           /\ phase' = [phase EXCEPT ![t] = "ready"] \/ phase' = [phase EXCEPT ![t] = "connecting"]
<1>1. CASE UNCHANGED <<ws, connectionPromise, sock>>
  BY <1>1 DEF EnsureConnected, TypeOK
<1>2. ASSUME NEW s \in Sockets, Connect(s), connectionPromise' = s,
             phase' = [phase EXCEPT ![t] = "connecting"], waitsOn' = [waitsOn EXCEPT ![t] = s]
      PROVE  /\ ws' \in Sockets \cup {NoSocket}
             /\ connectionPromise' \in Sockets \cup {NoSocket}
             /\ waitsOn' \in [Threads -> Sockets \cup {NoSocket}]
             /\ sock' \in [Sockets -> SocketStates]
  BY <1>2 DEF Connect, TypeOK, SocketStates
<1>. QED  BY <1>1, <1>2 DEF EnsureConnected

\* A thread that moves between phases of its kind keeps all threads in theirs.
LEMMA MoveType ==
    ASSUME TypeOK, NEW t \in Threads, NEW p, phase' = [phase EXCEPT ![t] = p],
           p \in (IF t \in Calls THEN CallPhases ELSE LoopPhases)
    PROVE  /\ phase' \in [Threads -> CallPhases \cup LoopPhases]
           /\ \A c \in Calls : phase'[c] \in CallPhases
           /\ \A s \in Sockets : phase'[s] \in LoopPhases
BY EvmSessionAssumption DEF TypeOK, Threads

\* The callbacks a resubscribeAll() takes over are a sequence of calls.
LEMMA CallbacksType ==
    ASSUME TypeOK
    PROVE  /\ [i \in DOMAIN subscriptionInfo |-> subscriptionInfo[i].callback] \in Seq(Calls)
           /\ Len([i \in DOMAIN subscriptionInfo |-> subscriptionInfo[i].callback])
                 = Len(subscriptionInfo)
<1>. DEFINE f == [i \in DOMAIN subscriptionInfo |-> subscriptionInfo[i].callback]
<1>1. /\ Len(subscriptionInfo) \in Nat /\ DOMAIN subscriptionInfo = 1..Len(subscriptionInfo)
      /\ \A i \in DOMAIN subscriptionInfo : subscriptionInfo[i].callback \in Calls
  <2>1. subscriptionInfo \in Seq(Entry) /\ \A e \in Entry : e.callback \in Calls
    BY DEF TypeOK, Entry
  <2>. QED  BY <2>1
<1>2. f \in [1..Len(subscriptionInfo) -> Calls]
  BY <1>1
<1>. HIDE DEF f
<1>3. f \in Seq(Calls) /\ Len(f) = Len(subscriptionInfo)
  BY <1>1, <1>2
<1>. QED  BY <1>3 DEF f

\* The loop of resubscribeAll() starts or goes on with what is left, or ends.
LEMMA LoopType ==
    ASSUME TypeOK, NEW s \in Sockets, NEW rest \in Seq(Calls), NextResubscription(s, rest)
    PROVE  /\ phase' \in [Threads -> CallPhases \cup LoopPhases]
           /\ \A c \in Calls : phase'[c] \in CallPhases
           /\ \A r \in Sockets : phase'[r] \in LoopPhases
           /\ ws' \in Sockets \cup {NoSocket}
           /\ connectionPromise' \in Sockets \cup {NoSocket}
           /\ waitsOn' \in [Threads -> Sockets \cup {NoSocket}]
           /\ sock' \in [Sockets -> SocketStates]
           /\ todo' \in [Sockets -> Seq(Calls)]
<1>1. s \in Threads /\ s \notin Calls
  BY EvmSessionAssumption DEF Threads
<1>2. todo' \in [Sockets -> Seq(Calls)]
  BY DEF NextResubscription, TypeOK
<1>3. PICK p \in {"done", "ready", "connecting"} : phase' = [phase EXCEPT ![s] = p]
  BY <1>1, EnsureConnectedType DEF NextResubscription
<1>4. p \in LoopPhases
  BY DEF LoopPhases
<1>5. /\ ws' \in Sockets \cup {NoSocket}
      /\ connectionPromise' \in Sockets \cup {NoSocket}
      /\ waitsOn' \in [Threads -> Sockets \cup {NoSocket}]
      /\ sock' \in [Sockets -> SocketStates]
  BY <1>1, EnsureConnectedType DEF NextResubscription, TypeOK
<1>. QED  BY <1>1, <1>2, <1>3, <1>4, <1>5, MoveType

\* scheduleReconnect() keeps what it assigns in its type.
LEMMA ScheduleType ==
    ASSUME TypeOK, ScheduleReconnect
    PROVE  /\ phase' \in [Threads -> CallPhases \cup LoopPhases]
           /\ \A c \in Calls : phase'[c] \in CallPhases
           /\ \A s \in Sockets : phase'[s] \in LoopPhases
           /\ pending' \subseteq 1..messageIdCounter
           /\ reconnectAttempt' \in Nat /\ telling' \in {"nothing", "reconnect"}
<1>1. CASE RejectAllPending /\ telling' = "nothing" /\ UNCHANGED reconnectAttempt
  BY <1>1, RejectionType DEF TypeOK
<1>2. CASE telling' = "nothing" /\ UNCHANGED <<pending, phase, reconnectAttempt>>
  BY <1>2 DEF TypeOK
<1>3. CASE /\ reconnectAttempt' = reconnectAttempt + 1 /\ telling' = "reconnect"
           /\ UNCHANGED <<pending, phase>>
  <2>1. reconnectAttempt' \in Nat
    BY <1>3 DEF TypeOK
  <2>. QED  BY <1>3, <2>1 DEF TypeOK
<1>. QED  BY <1>1, <1>2, <1>3 DEF ScheduleReconnect

\* Registering appends an entry for the thread's message id and callback.
LEMMA RegisterType ==
    ASSUME TypeOK, NEW t \in Threads, t \in Sockets => todo[t] # <<>>
    PROVE  /\ Callback(t) \in Calls
           /\ Append(subscriptionInfo, [key |-> id[t], callback |-> Callback(t)]) \in Seq(Entry)
<1>1. Callback(t) \in Calls
  BY DEF Callback, TypeOK, Threads
<1>2. [key |-> id[t], callback |-> Callback(t)] \in Entry
  BY <1>1 DEF TypeOK, Entry
<1>. QED  BY <1>1, <1>2 DEF TypeOK

-----------------------------------------------------------------------------
\* A resubscribeAll() that is not through has something to do.
LoopHasWork ==
    \A s \in Sockets :
       phase[s] \in {"connecting", "ready", "pending", "confirmed", "settled"} => todo[s] # <<>>

\* Every step keeps the fields of the session, its threads and its wires in their types,
\* if keys are apart and no loop runs out of work.
LEMMA TypeStep ==
    ASSUME TypeOK, LoopHasWork, KeysDiffer, [Next]_vars
    PROVE  TypeOK'
<1>. USE EvmSessionAssumption
<1>u. \A t \in Threads : t \in Calls \/ t \in Sockets
  BY DEF Threads
<1>1. CASE UNCHANGED vars
  BY <1>1 DEF TypeOK, vars, connVars, subsVars, threadVars, wireVars
<1>2. CASE Close
  <2>1. \A s \in Sockets : AfterClose(sock[s]) \in SocketStates
    BY DEF TypeOK, AfterClose, SocketStates
  <2>2. sock' \in [Sockets -> SocketStates]
    BY <1>2, <2>1 DEF TypeOK, Close
  <2>3. /\ phase' \in [Threads -> CallPhases \cup LoopPhases]
        /\ \A c \in Calls : phase'[c] \in CallPhases
        /\ \A s \in Sockets : phase'[s] \in LoopPhases
        /\ pending' \subseteq 1..messageIdCounter /\ subscriptionInfo' \in Seq(Entry)
    <3>1. <<>> \in Seq(Entry)
      OBVIOUS
    <3>. QED  BY <1>2, <3>1, RejectionType DEF Close, ClearInfos
  <2>. QED  BY <1>2, <2>2, <2>3 DEF TypeOK, Close, wireVars
<1>3. ASSUME NEW c \in Calls, Subscribe(c) PROVE TypeOK'
  <2>1. /\ c \in Threads /\ "ready" \in CallPhases /\ "connecting" \in CallPhases
        /\ "rejected" \in CallPhases
    BY DEF Threads, CallPhases
  <2>2. CASE EnsureConnected(c)
    BY <1>3, <2>1, <2>2, EnsureConnectedType, MoveType
    DEF TypeOK, Subscribe, subsVars, wireVars
  <2>3. CASE UrlRefused(c)
    BY <1>3, <2>1, <2>3, MoveType DEF TypeOK, Subscribe, UrlRefused, subsVars, wireVars
  <2>. QED  BY <1>3, <2>2, <2>3 DEF Subscribe
<1>4. ASSUME NEW c \in Calls, Unsubscribe(c) PROVE TypeOK'
  <2>1. c \in Threads /\ "unsubscribed" \in CallPhases /\ id[c] \in Nat
    BY DEF Threads, CallPhases, TypeOK
  <2>2. outbox' \in [Sockets -> SUBSET Request]
    BY <1>4, <2>1 DEF Unsubscribe, Sent, Request, TypeOK
  <2>3. messageIdCounter' \in Nat /\ messageIdCounter <= messageIdCounter'
    BY <1>4 DEF Unsubscribe, TypeOK
  <2>4. pending' \subseteq 1..messageIdCounter' /\ id' \in [Threads -> 0..messageIdCounter']
    BY <1>4, <2>3 DEF Unsubscribe, TypeOK
  <2>5. subscriptionInfo' \in Seq(Entry)
    BY <1>4, Forgets DEF Unsubscribe, TypeOK
  <2>. QED
    BY <1>4, <2>1, <2>2, <2>3, <2>4, <2>5, MoveType DEF TypeOK, Unsubscribe, connVars
<1>5. ASSUME NEW t \in Threads, SendSubscribe(t) PROVE TypeOK'
  <2>1. Failed(t) \in (IF t \in Calls THEN CallPhases ELSE LoopPhases)
    BY <1>u, Failing DEF CallPhases, LoopPhases
  <2>2. "pending" \in CallPhases /\ "pending" \in LoopPhases
    BY DEF CallPhases, LoopPhases
  <2>3. /\ phase' \in [Threads -> CallPhases \cup LoopPhases]
        /\ \A c \in Calls : phase'[c] \in CallPhases
        /\ \A s \in Sockets : phase'[s] \in LoopPhases
    BY <1>5, <2>1, <2>2, MoveType DEF SendSubscribe
  <2>4. outbox' \in [Sockets -> SUBSET Request]
    <3>. DEFINE request == [op |-> "subscribe", key |-> messageIdCounter']
    <3>1. request \in Request
      BY <1>5 DEF SendSubscribe, Request, TypeOK
    <3>2. outbox' = outbox \/ outbox' = [outbox EXCEPT ![ws] = @ \cup {request}]
      BY <1>5 DEF SendSubscribe, Sent
    <3>. HIDE DEF request
    <3>3. outbox \in [Sockets -> SUBSET Request]
      BY DEF TypeOK
    <3>4. \A s \in Sockets : outbox[s] \cup {request} \in SUBSET Request
      BY <3>1, <3>3
    <3>. QED  BY <3>2, <3>3, <3>4
  <2>5. /\ messageIdCounter' = messageIdCounter + 1 /\ messageIdCounter \in Nat
        /\ pending' = pending \cup {messageIdCounter'}
        /\ id' = [id EXCEPT ![t] = messageIdCounter']
    BY <1>5 DEF SendSubscribe, TypeOK
  <2>6. pending' \subseteq 1..messageIdCounter' /\ id' \in [Threads -> 0..messageIdCounter']
    BY <2>5 DEF TypeOK
  <2>. QED  BY <1>5, <2>3, <2>4, <2>5, <2>6 DEF TypeOK, SendSubscribe, connVars
<1>6. ASSUME NEW t \in Threads, Register(t) PROVE TypeOK'
  <2>1. t \in Sockets => todo[t] # <<>>
    BY <1>6 DEF Register, LoopHasWork
  <2>2. "active" \in CallPhases /\ "settled" \in LoopPhases
    BY DEF CallPhases, LoopPhases
  <2>3. /\ phase' \in [Threads -> CallPhases \cup LoopPhases]
        /\ \A c \in Calls : phase'[c] \in CallPhases
        /\ \A s \in Sockets : phase'[s] \in LoopPhases
    BY <1>6, <2>2, MoveType DEF Register
  <2>. QED  BY <1>6, <2>1, <2>3, RegisterType DEF TypeOK, Register, connVars, wireVars
<1>7. ASSUME NEW t \in Threads, ConfirmationTimeout(t) PROVE TypeOK'
  <2>1. Failed(t) \in (IF t \in Calls THEN CallPhases ELSE LoopPhases)
    BY <1>u, Failing DEF CallPhases, LoopPhases
  <2>. QED  BY <1>7, <2>1, MoveType DEF TypeOK, ConfirmationTimeout, connVars, wireVars
<1>8. ASSUME NEW s \in Sockets, ResubscribeAll(s) PROVE TypeOK'
  <2>1. subscriptionInfo' \in Seq(Entry)
    <3>1. <<>> \in Seq(Entry)
      OBVIOUS
    <3>. QED  BY <1>8, <3>1 DEF ResubscribeAll, ClearInfos
  <2>2. PICK rest \in Seq(Calls) : NextResubscription(s, rest)
    BY <1>8, CallbacksType DEF ResubscribeAll
  <2>. QED  BY <2>1, <2>2, LoopType DEF TypeOK, NextResubscription, wireVars
<1>9. ASSUME NEW s \in Sockets, ResubscribeNext(s) PROVE TypeOK'
  <2>1. Remaining(s) \in Seq(Calls)
    BY <1>9 DEF ResubscribeNext, LoopHasWork, Remaining, TypeOK
  <2>. QED
    BY <1>9, <2>1, LoopType DEF TypeOK, ResubscribeNext, NextResubscription, wireVars
<1>10. ASSUME NEW s \in Sockets, OnOpen(s) PROVE TypeOK'
  <2>1. /\ phase' \in [Threads -> CallPhases \cup LoopPhases]
        /\ \A c \in Calls : phase'[c] \in CallPhases
        /\ \A r \in Sockets : phase'[r] \in LoopPhases
    BY <1>10 DEF OnOpen, TypeOK, CallPhases, LoopPhases, Threads
  <2>. QED
    BY <1>10, <2>1 DEF TypeOK, OnOpen, SocketStates, subsVars, wireVars
<1>11. ASSUME NEW s \in Sockets, OnError(s) PROVE TypeOK'
  <2>1. \A t \in Threads : phase'[t] \in {phase[t], Failed(t)}
    BY <1>11 DEF OnError
  <2>2. /\ phase' \in [Threads -> CallPhases \cup LoopPhases]
        /\ \A c \in Calls : phase'[c] \in CallPhases
        /\ \A r \in Sockets : phase'[r] \in LoopPhases
    BY <1>11, <2>1, Failing DEF OnError, TypeOK, CallPhases, LoopPhases, Threads
  <2>. QED
    BY <1>11, <2>2 DEF TypeOK, OnError, SocketStates, subsVars, wireVars
<1>12. ASSUME NEW s \in Sockets, OnClose(s) PROVE TypeOK'
  <2>1. /\ sock' \in [Sockets -> SocketStates] /\ outbox' \in [Sockets -> SUBSET Request]
        /\ inbox' \in [Sockets -> Seq(Nat)] /\ serverSubs' \in [Sockets -> SUBSET Nat]
    BY <1>12 DEF OnClose, TypeOK, SocketStates
  <2>. QED  BY <1>12, <2>1 DEF TypeOK, OnClose, subsVars, threadVars
<1>13. CASE ReconnectTimer
  <2>1. /\ ws' \in Sockets \cup {NoSocket} /\ forReconnect' \subseteq Sockets
        /\ sock' \in [Sockets -> SocketStates]
    BY <1>13 DEF ReconnectTimer, Connect, TypeOK, SocketStates
  <2>2. timerArmed' \in BOOLEAN /\ lostTimers' \in Nat
    <3>1. CASE timerArmed' = FALSE /\ UNCHANGED lostTimers
      BY <3>1 DEF TypeOK
    <3>2. CASE lostTimers > 0 /\ lostTimers' = lostTimers - 1 /\ UNCHANGED timerArmed
      BY <3>2 DEF TypeOK
    <3>. QED  BY <1>13, <3>1, <3>2 DEF ReconnectTimer
  <2>. QED
    BY <1>13, <2>1, <2>2 DEF TypeOK, ReconnectTimer, subsVars, threadVars, wireVars
<1>14. ASSUME NEW s \in Sockets, OnMessage(s) PROVE TypeOK'
  <2>1. /\ phase' \in [Threads -> CallPhases \cup LoopPhases]
        /\ \A c \in Calls : phase'[c] \in CallPhases
        /\ \A r \in Sockets : phase'[r] \in LoopPhases
    BY <1>14 DEF OnMessage, TypeOK, CallPhases, LoopPhases, Threads
  <2>2. inbox' \in [Sockets -> Seq(Nat)]
    BY <1>14 DEF OnMessage, TypeOK
  <2>. QED  BY <1>14, <2>1, <2>2 DEF TypeOK, OnMessage, connVars
<1>15. ASSUME NEW s \in Sockets, NEW r \in outbox[s], NodeRequest(s, r) PROVE TypeOK'
  <2>1. r.key \in Nat
    BY DEF TypeOK, Request
  <2>2. /\ inbox' \in [Sockets -> Seq(Nat)] /\ serverSubs' \in [Sockets -> SUBSET Nat]
        /\ outbox' \in [Sockets -> SUBSET Request]
    <3>1. outbox' \in [Sockets -> SUBSET Request]
      BY <1>15 DEF NodeRequest, TypeOK
    <3>2. CASE UNCHANGED <<serverSubs, inbox>>
      BY <3>1, <3>2 DEF TypeOK
    <3>3. CASE /\ serverSubs' = [serverSubs EXCEPT ![s] = @ \cup {r.key}]
               /\ inbox' = [inbox EXCEPT ![s] = Append(@, r.key)]
      <4>1. Append(inbox[s], r.key) \in Seq(Nat)
        BY <2>1 DEF TypeOK
      <4>. QED  BY <2>1, <3>1, <3>3, <4>1 DEF TypeOK
    <3>4. CASE serverSubs' = [serverSubs EXCEPT ![s] = @ \ {r.key}] /\ UNCHANGED inbox
      BY <3>1, <3>4 DEF TypeOK
    <3>. QED  BY <1>15, <3>2, <3>3, <3>4 DEF NodeRequest
  <2>. QED
    BY <1>15, <2>2 DEF TypeOK, NodeRequest, connVars, subsVars, threadVars
<1>16. CASE ScheduleReconnect
  BY <1>16, ScheduleType DEF TypeOK, ScheduleReconnect, wireVars
<1>17. CASE ArmTimer
  <2>1. lostTimers' \in Nat
    BY <1>17 DEF ArmTimer, TypeOK
  <2>. QED  BY <1>17, <2>1 DEF TypeOK, ArmTimer, subsVars, threadVars, wireVars
<1>. QED
  BY <1>1, <1>2, <1>3, <1>4, <1>5, <1>6, <1>7, <1>8, <1>9, <1>10, <1>11, <1>12, <1>13, <1>14,
     <1>15, <1>16, <1>17
  DEF Next, Application, Continuation, EventLoop, Node

-----------------------------------------------------------------------------
\* Message ids are given out once: threads have different ones, ...
IdsDiffer == \A t, u \in Threads : id[t] = id[u] => t = u \/ id[t] = 0

\* ... an identifier is registered under at most one of them, by the call it belongs to
\* if it belongs to one, ...
KeysAreGiven ==
    /\ \A i \in DOMAIN subscriptionInfo : subscriptionInfo[i].key <= messageIdCounter
    /\ \A c \in Calls : \A i \in DOMAIN subscriptionInfo :
          subscriptionInfo[i].key = id[c] => subscriptionInfo[i].callback = c

\* ... not before its confirmation was seen, and not after its unsubscribe().
AwaitedIsFresh ==
    \A t \in Threads : phase[t] \in {"pending", "confirmed"} =>
       id[t] > 0 /\ \A i \in DOMAIN subscriptionInfo : subscriptionInfo[i].key # id[t]
DroppedIsForgotten ==
    \A c \in Calls : phase[c] = "unsubscribed" =>
       \A i \in DOMAIN subscriptionInfo : subscriptionInfo[i].key # id[c]

\* Only dropped identifiers are unsubscribed, and a confirmation on its way is of one
\* the node still holds or of a dropped one.
Dropped == {id[c] : c \in {d \in Calls : phase[d] = "unsubscribed"}}
UnsubscribedIsDropped ==
    \A s \in Sockets : \A r \in outbox[s] : r.op = "unsubscribe" => r.key \in Dropped
ConfirmedIsHeld ==
    \A s \in Sockets : \A i \in DOMAIN inbox[s] : inbox[s][i] \in serverSubs[s] \cup Dropped

KeyInv == /\ IdsDiffer /\ KeysDiffer /\ KeysAreGiven
          /\ AwaitedIsFresh /\ DroppedIsForgotten
WireInv == UnsubscribedIsDropped /\ ConfirmedIsHeld
IdInv == TypeOK /\ LoopHasWork /\ KeyInv /\ WireInv

\* A step that gives out no id, registers nothing and moves no thread to "pending" or
\* "unsubscribed" disturbs none of it.
LEMMA KeysStay ==
    ASSUME TypeOK, KeyInv, UNCHANGED <<id, messageIdCounter>>,
           subscriptionInfo' \in {subscriptionInfo, <<>>},
           \A t \in Threads : phase'[t] \in {"pending", "confirmed"}
                                 => phase[t] \in {"pending", "confirmed"},
           \A c \in Calls : phase'[c] = "unsubscribed" <=> phase[c] = "unsubscribed"
    PROVE  KeyInv' /\ Dropped' = Dropped
<1>1. Dropped' = Dropped
  BY DEF Dropped
<1>2. \A i \in DOMAIN subscriptionInfo' :
         i \in DOMAIN subscriptionInfo /\ subscriptionInfo'[i] = subscriptionInfo[i]
  <2>1. DOMAIN <<>> = {}
    OBVIOUS
  <2>. QED  BY <2>1
<1>3. IdsDiffer'
  BY DEF KeyInv, IdsDiffer
<1>4. KeysDiffer'
  BY <1>2 DEF KeyInv, KeysDiffer
<1>5. KeysAreGiven'
  BY <1>2 DEF KeyInv, KeysAreGiven
<1>6. AwaitedIsFresh'
  BY <1>2 DEF KeyInv, AwaitedIsFresh
<1>7. DroppedIsForgotten'
  BY <1>2 DEF KeyInv, DroppedIsForgotten
<1>. QED  BY <1>1, <1>3, <1>4, <1>5, <1>6, <1>7 DEF KeyInv

\* The wires are as before where nothing is sent.
LEMMA WiresStay ==
    ASSUME TypeOK, WireInv, Dropped' = Dropped, UNCHANGED wireVars
    PROVE  WireInv'
BY DEF WireInv, UnsubscribedIsDropped, ConfirmedIsHeld, wireVars

\* rejectAllPending() only ends what is pending.
LEMMA RejectionMoves ==
    ASSUME TypeOK, RejectAllPending
    PROVE  \A t \in Threads : \/ phase'[t] = phase[t]
                              \/ phase[t] = "pending" /\ phase'[t] = Failed(t)
BY DEF RejectAllPending

\* What scheduleReconnect() does to the threads.
LEMMA ScheduleMoves ==
    ASSUME TypeOK, ScheduleReconnect
    PROVE  \A t \in Threads : \/ phase'[t] = phase[t]
                              \/ phase[t] = "pending" /\ phase'[t] = Failed(t)
BY RejectionMoves DEF ScheduleReconnect

\* ensureConnected() lets its thread go on or wait.
LEMMA EnsureConnectedMoves ==
    ASSUME TypeOK, NEW t \in Threads, EnsureConnected(t)
    PROVE  /\ \A u \in Threads : u # t => phase'[u] = phase[u]
           /\ phase'[t] \in {"ready", "connecting"}
BY DEF EnsureConnected, TypeOK

\* A subscribe() of the application goes on, waits or rejects.
LEMMA SubscribeMoves ==
    ASSUME TypeOK, NEW c \in Calls, Subscribe(c)
    PROVE  /\ \A u \in Threads : u # c => phase'[u] = phase[u]
           /\ phase'[c] \in {"ready", "connecting", "rejected"}
<1>1. c \in Threads
  BY DEF Threads
<1>2. CASE EnsureConnected(c)
  BY <1>1, <1>2, EnsureConnectedMoves
<1>3. CASE UrlRefused(c)
  BY <1>1, <1>3 DEF UrlRefused, TypeOK
<1>. QED  BY <1>2, <1>3 DEF Subscribe

\* A resubscribeAll() that takes its next entry moves only itself, and ends without one.
LEMMA LoopMoves ==
    ASSUME TypeOK, NEW s \in Sockets, NEW rest \in Seq(Calls), NextResubscription(s, rest)
    PROVE  /\ \A u \in Threads : u # s => phase'[u] = phase[u]
           /\ phase'[s] \in {"ready", "connecting", "done"}
           /\ phase'[s] = "done" <=> rest = <<>>
           /\ todo' = [todo EXCEPT ![s] = rest]
<1>1. s \in Threads
  BY DEF Threads
<1>2. phase'[s] = "done" <=> rest = <<>>
  BY <1>1, EnsureConnectedMoves DEF NextResubscription, TypeOK
<1>. QED  BY <1>1, <1>2, EnsureConnectedMoves DEF NextResubscription, TypeOK

\* What the loop goes on with.
LEMMA RestType ==
    ASSUME TypeOK, LoopHasWork, NEW s \in Sockets, phase[s] = "settled"
    PROVE  /\ Remaining(s) \in Seq(Calls) /\ Len(Remaining(s)) = Len(todo[s]) - 1
           /\ \A i \in 1..(Len(todo[s]) - 1) : Remaining(s)[i] = todo[s][i + 1]
BY DEF LoopHasWork, Remaining, TypeOK

\* Loops keep having something to do.
LEMMA WorkStep ==
    ASSUME TypeOK, LoopHasWork, [Next]_vars
    PROVE  LoopHasWork'
<1>. DEFINE W == {"connecting", "ready", "pending", "confirmed", "settled"}
<1>a. \A t \in Threads : t \in Calls \/ t \in Sockets
  BY DEF Threads
<1>b. \A s \in Sockets : s \in Threads /\ Failed(s) = "settled"
  BY Failing DEF Threads
<1>1. CASE UNCHANGED todo /\ \A s \in Sockets : phase'[s] \in W => phase[s] \in W
  BY <1>1 DEF LoopHasWork
<1>2. ASSUME NEW s \in Sockets, ResubscribeAll(s) \/ ResubscribeNext(s) PROVE LoopHasWork'
  <2>1. PICK rest \in Seq(Calls) : NextResubscription(s, rest)
    BY <1>2, CallbacksType, RestType DEF ResubscribeAll, ResubscribeNext
  <2>2. \A r \in Sockets : r # s => phase'[r] = phase[r] /\ todo'[r] = todo[r]
    BY <1>b, <2>1, LoopMoves DEF TypeOK
  <2>3. phase'[s] \in W => todo'[s] # <<>>
    BY <2>1, LoopMoves DEF TypeOK
  <2>. QED  BY <2>2, <2>3 DEF LoopHasWork
<1>3. ASSUME NEW t \in Threads, SendSubscribe(t) \/ Register(t) \/ ConfirmationTimeout(t)
      PROVE  LoopHasWork'
  <2>1. /\ UNCHANGED todo /\ \A s \in Sockets : s # t => phase'[s] = phase[s]
        /\ phase[t] \in W
    BY <1>3, <1>b DEF SendSubscribe, Register, ConfirmationTimeout, TypeOK
  <2>. QED  BY <1>1, <2>1
<1>4. ASSUME NEW c \in Calls, Subscribe(c) \/ Unsubscribe(c) PROVE LoopHasWork'
  <2>1. c \in Threads /\ c \notin Sockets
    BY EvmSessionAssumption DEF Threads
  <2>2. UNCHANGED todo /\ \A s \in Sockets : phase'[s] = phase[s]
    BY <1>4, <1>b, <2>1, SubscribeMoves DEF Subscribe, Unsubscribe, TypeOK
  <2>. QED  BY <1>1, <2>2
<1>5. CASE Close
  <2>1. UNCHANGED todo /\ \A s \in Sockets : phase'[s] \in W => phase[s] \in W
    BY <1>5, <1>b, RejectionMoves DEF Close
  <2>. QED  BY <1>1, <2>1
<1>6. ASSUME NEW s \in Sockets, OnOpen(s) \/ OnError(s) \/ OnMessage(s) PROVE LoopHasWork'
  <2>1. UNCHANGED todo /\ \A r \in Sockets : phase'[r] \in W => phase[r] \in W
    BY <1>6, <1>b DEF OnOpen, OnError, OnMessage
  <2>. QED  BY <1>1, <2>1
<1>7. CASE ScheduleReconnect
  <2>1. UNCHANGED todo /\ \A r \in Sockets : phase'[r] \in W => phase[r] \in W
    BY <1>7, <1>b, ScheduleMoves DEF ScheduleReconnect
  <2>. QED  BY <1>1, <2>1
<1>8. CASE ReconnectTimer \/ ArmTimer \/ UNCHANGED vars \/ Node
  BY <1>1, <1>8 DEF ReconnectTimer, ArmTimer, Node, NodeRequest, threadVars, vars
<1>9. ASSUME NEW s \in Sockets, OnClose(s) PROVE LoopHasWork'
  BY <1>1, <1>9 DEF OnClose, threadVars
<1>. QED
  BY <1>2, <1>3, <1>4, <1>5, <1>6, <1>7, <1>8, <1>9
  DEF Next, Application, Continuation, EventLoop, Node

\* Message ids stay apart, and identifiers registered where they belong.
LEMMA KeyStep ==
    ASSUME IdInv, TypeOK', [Next]_vars
    PROVE  KeyInv' /\ (\A k \in Dropped : k \in Dropped')
<1>. USE DEF IdInv
<1>a. \A t \in Threads : t \in Calls \/ t \in Sockets
  BY DEF Threads
<1>b. /\ \A s \in Sockets : s \in Threads /\ Failed(s) = "settled" /\ s \notin Calls
      /\ \A c \in Calls : c \in Threads /\ Failed(c) = "rejected" /\ c \notin Sockets
  BY Failing, EvmSessionAssumption DEF Threads
<1>. DEFINE A == {"pending", "confirmed"}
            Quietly == /\ UNCHANGED <<id, messageIdCounter>>
                       /\ subscriptionInfo' \in {subscriptionInfo, <<>>}
                       /\ \A t \in Threads : phase'[t] \in A => phase[t] \in A
                       /\ \A c \in Calls : phase'[c] = "unsubscribed" <=> phase[c] = "unsubscribed"
<1>0. CASE Quietly
  BY <1>0, KeysStay
<1>1. CASE UNCHANGED vars \/ ArmTimer \/ ReconnectTimer \/ Node
  <2>1. Quietly
    BY <1>1 DEF vars, ArmTimer, ReconnectTimer, Node, NodeRequest, subsVars, threadVars
  <2>. QED  BY <1>0, <2>1
<1>2. CASE Close
  <2>1. Quietly
    BY <1>2, <1>a, <1>b, RejectionMoves DEF Close, ClearInfos
  <2>. QED  BY <1>0, <2>1
<1>3. ASSUME NEW c \in Calls, Subscribe(c) PROVE KeyInv' /\ (\A k \in Dropped : k \in Dropped')
  <2>1. Quietly
    BY <1>3, <1>b, SubscribeMoves DEF Subscribe, subsVars
  <2>. QED  BY <1>0, <2>1
<1>4. ASSUME NEW s \in Sockets, ResubscribeAll(s) \/ ResubscribeNext(s)
      PROVE  KeyInv' /\ (\A k \in Dropped : k \in Dropped')
  <2>1. PICK rest \in Seq(Calls) : NextResubscription(s, rest)
    BY <1>4, CallbacksType, RestType DEF ResubscribeAll, ResubscribeNext
  <2>2. Quietly
    BY <1>4, <1>b, <2>1, LoopMoves
    DEF ResubscribeAll, ResubscribeNext, ClearInfos, NextResubscription
  <2>. QED  BY <1>0, <2>2
<1>5. ASSUME NEW s \in Sockets, OnOpen(s) \/ OnError(s) \/ OnMessage(s)
      PROVE  KeyInv' /\ (\A k \in Dropped : k \in Dropped')
  <2>1. Quietly
    BY <1>5, <1>a, <1>b DEF OnOpen, OnError, OnMessage, subsVars
  <2>. QED  BY <1>0, <2>1
<1>6. CASE ScheduleReconnect \/ \E s \in Sockets : OnClose(s)
  <2>1. /\ UNCHANGED <<id, messageIdCounter, subscriptionInfo>>
        /\ \A t \in Threads :
              phase'[t] = phase[t] \/ (phase[t] = "pending" /\ phase'[t] = Failed(t))
    BY <1>6, ScheduleMoves DEF OnClose, ScheduleReconnect, subsVars, threadVars
  <2>2. Quietly
    BY <1>a, <1>b, <2>1
  <2>. QED  BY <1>0, <2>2
<1>7. ASSUME NEW t \in Threads, ConfirmationTimeout(t)
      PROVE  KeyInv' /\ (\A k \in Dropped : k \in Dropped')
  <2>1. Quietly
    BY <1>7, <1>a, <1>b DEF ConfirmationTimeout, TypeOK
  <2>. QED  BY <1>0, <2>1
<1>8. ASSUME NEW t \in Threads, SendSubscribe(t)
      PROVE  KeyInv' /\ (\A k \in Dropped : k \in Dropped')
  <2>. DEFINE n == messageIdCounter + 1
  <2>1. /\ n \in Nat /\ messageIdCounter' = n /\ id' = [id EXCEPT ![t] = n]
        /\ UNCHANGED subscriptionInfo
        /\ \A u \in Threads : u # t => phase'[u] = phase[u] /\ id'[u] = id[u]
        /\ id'[t] = n /\ phase[t] = "ready" /\ phase'[t] \in {"pending", "rejected", "settled"}
    BY <1>8, <1>a, <1>b DEF SendSubscribe, TypeOK
  <2>2. \A u \in Threads : id[u] \in Nat /\ id[u] < n
    BY DEF TypeOK
  <2>3. \A i \in DOMAIN subscriptionInfo :
           subscriptionInfo[i].key \in Nat /\ subscriptionInfo[i].key < n
    <3>1. \A i \in DOMAIN subscriptionInfo : subscriptionInfo[i] \in Entry
      BY DEF TypeOK
    <3>2. messageIdCounter \in Nat /\ \A e \in Entry : e.key \in Nat
      BY DEF TypeOK, Entry
    <3>. QED  BY <3>1, <3>2 DEF KeyInv, KeysAreGiven
  <2>. HIDE DEF n
  <2>4. IdsDiffer'
    BY <2>1, <2>2 DEF KeyInv, IdsDiffer
  <2>5. KeysDiffer' /\ KeysAreGiven'
    <3>1. \A i \in DOMAIN subscriptionInfo : subscriptionInfo[i].key <= n
      BY <2>1, <2>3
    <3>. QED  BY <1>b, <2>1, <2>3, <3>1 DEF KeyInv, KeysDiffer, KeysAreGiven
  <2>6. AwaitedIsFresh' /\ DroppedIsForgotten'
    <3>1. n > 0
      BY <2>1, <2>2
    <3>. QED  BY <1>b, <2>1, <2>3, <3>1 DEF KeyInv, AwaitedIsFresh, DroppedIsForgotten
  <2>7. \A k \in Dropped : k \in Dropped'
    BY <1>b, <2>1 DEF Dropped
  <2>. QED  BY <2>4, <2>5, <2>6, <2>7 DEF KeyInv
<1>9. ASSUME NEW t \in Threads, Register(t) PROVE KeyInv' /\ (\A k \in Dropped : k \in Dropped')
  <2>. DEFINE e == [key |-> id[t], callback |-> Callback(t)]
  <2>1. /\ phase[t] = "confirmed" /\ UNCHANGED <<id, messageIdCounter>>
        /\ subscriptionInfo' = Append(subscriptionInfo, e)
        /\ phase'[t] \in {"active", "settled"} /\ \A u \in Threads : u # t => phase'[u] = phase[u]
    BY <1>9 DEF Register, TypeOK
  <2>2. e.key = id[t] /\ (t \in Calls => e.callback = t) /\ id[t] > 0 /\ id[t] <= messageIdCounter
    <3>1. id[t] > 0
      BY <2>1 DEF KeyInv, AwaitedIsFresh
    <3>. QED  BY <3>1 DEF Callback, TypeOK
  <2>. HIDE DEF e
  <2>3. \A i \in DOMAIN subscriptionInfo' :
           \/ i \in DOMAIN subscriptionInfo /\ subscriptionInfo'[i] = subscriptionInfo[i]
           \/ i = Len(subscriptionInfo) + 1 /\ subscriptionInfo'[i] = e
    <3>1. subscriptionInfo \in Seq(Entry)
      BY DEF TypeOK
    <3>. QED  BY <2>1, <3>1
  <2>4. \A i \in DOMAIN subscriptionInfo : subscriptionInfo[i].key # id[t]
    BY <2>1 DEF KeyInv, AwaitedIsFresh
  <2>5. \A u \in Threads : id[u] = id[t] => u = t
    BY <2>2 DEF KeyInv, IdsDiffer
  <2>6. IdsDiffer' /\ KeysDiffer'
    BY <2>1, <2>2, <2>3, <2>4 DEF KeyInv, IdsDiffer, KeysDiffer
  <2>7. KeysAreGiven'
    BY <1>b, <2>1, <2>2, <2>3, <2>5 DEF KeyInv, KeysAreGiven
  <2>8. AwaitedIsFresh' /\ DroppedIsForgotten'
    BY <1>b, <2>1, <2>2, <2>3, <2>5 DEF KeyInv, AwaitedIsFresh, DroppedIsForgotten
  <2>9. \A k \in Dropped : k \in Dropped'
    BY <1>b, <2>1 DEF Dropped
  <2>. QED  BY <2>6, <2>7, <2>8, <2>9 DEF KeyInv
<1>10. ASSUME NEW c \in Calls, Unsubscribe(c)
       PROVE  KeyInv' /\ (\A k \in Dropped : k \in Dropped')
  <2>1. /\ UNCHANGED id /\ phase[c] = "active" /\ phase'[c] = "unsubscribed"
        /\ \A u \in Threads : u # c => phase'[u] = phase[u]
        /\ messageIdCounter' \in {messageIdCounter, messageIdCounter + 1}
    BY <1>10, <1>b DEF Unsubscribe, TypeOK
  <2>2. /\ \A i \in DOMAIN subscriptionInfo' : \E j \in DOMAIN subscriptionInfo :
              subscriptionInfo'[i] = subscriptionInfo[j] /\ subscriptionInfo[j].key # id[c]
        /\ KeysDiffer'
    BY <1>10, Forgets DEF Unsubscribe, KeyInv, TypeOK
  <2>3. /\ messageIdCounter \in Nat
        /\ \A i \in DOMAIN subscriptionInfo : subscriptionInfo[i].key \in Nat
    <3>1. \A i \in DOMAIN subscriptionInfo : subscriptionInfo[i] \in Entry
      BY DEF TypeOK
    <3>. QED  BY <3>1 DEF TypeOK, Entry
  <2>4. IdsDiffer'
    BY <2>1 DEF KeyInv, IdsDiffer
  <2>5. KeysAreGiven'
    <3>1. \A i \in DOMAIN subscriptionInfo : subscriptionInfo[i].key <= messageIdCounter'
      BY <2>1, <2>3 DEF KeyInv, KeysAreGiven
    <3>. QED  BY <1>b, <2>1, <2>2, <3>1 DEF KeyInv, KeysAreGiven
  <2>6. AwaitedIsFresh' /\ DroppedIsForgotten'
    BY <1>b, <2>1, <2>2 DEF KeyInv, AwaitedIsFresh, DroppedIsForgotten
  <2>7. \A k \in Dropped : k \in Dropped'
    BY <1>b, <2>1 DEF Dropped
  <2>. QED  BY <2>2, <2>4, <2>5, <2>6, <2>7 DEF KeyInv
<1>. QED
  BY <1>1, <1>2, <1>3, <1>4, <1>5, <1>6, <1>7, <1>8, <1>9, <1>10
  DEF Next, Application, Continuation, EventLoop, Node

\* What is on the wires stays accounted for.
LEMMA WireStep ==
    ASSUME IdInv, TypeOK', [Next]_vars, \A k \in Dropped : k \in Dropped'
    PROVE  WireInv'
<1>. USE DEF IdInv
<1>1. CASE UNCHANGED wireVars
  BY <1>1 DEF WireInv, UnsubscribedIsDropped, ConfirmedIsHeld, wireVars
<1>2. ASSUME UNCHANGED <<inbox, serverSubs>>, NEW request, Sent(request),
             request.op = "unsubscribe" => request.key \in Dropped'
      PROVE  WireInv'
  <2>1. \A s \in Sockets : outbox'[s] = outbox[s] \/ outbox'[s] = outbox[s] \cup {request}
    <3>1. outbox' = outbox \/ outbox' = [outbox EXCEPT ![ws] = @ \cup {request}]
      BY <1>2 DEF Sent
    <3>2. outbox \in [Sockets -> SUBSET Request]
      BY DEF TypeOK
    <3>. QED  BY <3>1, <3>2
  <2>. QED  BY <1>2, <2>1 DEF WireInv, UnsubscribedIsDropped, ConfirmedIsHeld
<1>3. ASSUME NEW t \in Threads, SendSubscribe(t) PROVE WireInv'
  <2>1. CASE UNCHANGED outbox
    BY <1>1, <1>3, <2>1 DEF SendSubscribe, wireVars
  <2>2. CASE ~UNCHANGED outbox
    <3>. DEFINE request == [op |-> "subscribe", key |-> messageIdCounter']
    <3>1. Sent(request) /\ request.op # "unsubscribe" /\ UNCHANGED <<inbox, serverSubs>>
      BY <1>3, <2>2 DEF SendSubscribe
    <3>. HIDE DEF request
    <3>. QED  BY <1>2, <3>1
  <2>. QED  BY <2>1, <2>2
<1>4. ASSUME NEW c \in Calls, Unsubscribe(c) PROVE WireInv'
  <2>1. CASE UNCHANGED outbox
    BY <1>1, <1>4, <2>1 DEF Unsubscribe, wireVars
  <2>2. CASE ~UNCHANGED outbox
    <3>. DEFINE request == [op |-> "unsubscribe", key |-> id[c]]
    <3>1. Sent(request) /\ request.key = id[c] /\ UNCHANGED <<inbox, serverSubs>>
      BY <1>4, <2>2 DEF Unsubscribe
    <3>2. id[c] \in Dropped'
      <4>1. c \in Threads
        BY DEF Threads
      <4>. QED  BY <1>4, <4>1 DEF Unsubscribe, Dropped, TypeOK
    <3>. HIDE DEF request
    <3>. QED  BY <1>2, <3>1, <3>2
  <2>. QED  BY <2>1, <2>2
<1>5. ASSUME NEW s \in Sockets, OnClose(s) PROVE WireInv'
  <2>1. /\ outbox' = [outbox EXCEPT ![s] = {}] /\ inbox' = [inbox EXCEPT ![s] = <<>>]
        /\ serverSubs' = [serverSubs EXCEPT ![s] = {}]
    BY <1>5 DEF OnClose
  <2>2. \A r \in Sockets : \/ r = s /\ outbox'[r] = {} /\ inbox'[r] = <<>>
                           \/ /\ outbox'[r] = outbox[r] /\ inbox'[r] = inbox[r]
                              /\ serverSubs'[r] = serverSubs[r]
    BY <2>1 DEF TypeOK
  <2>3. DOMAIN <<>> = {}
    OBVIOUS
  <2>. QED  BY <2>2, <2>3 DEF WireInv, UnsubscribedIsDropped, ConfirmedIsHeld
<1>6. ASSUME NEW s \in Sockets, OnMessage(s) PROVE WireInv'
  <2>1. /\ UNCHANGED <<outbox, serverSubs>> /\ inbox[s] # <<>>
        /\ inbox' = [inbox EXCEPT ![s] = Tail(@)]
    BY <1>6 DEF OnMessage
  <2>2. \A r \in Sockets : \A i \in DOMAIN inbox'[r] :
           \E j \in DOMAIN inbox[r] : inbox'[r][i] = inbox[r][j]
    <3>1. inbox[s] \in Seq(Nat)
      BY DEF TypeOK
    <3>2. \A i \in DOMAIN Tail(inbox[s]) :
             i + 1 \in DOMAIN inbox[s] /\ Tail(inbox[s])[i] = inbox[s][i + 1]
      BY <2>1, <3>1
    <3>3. \A r \in Sockets : inbox'[r] = IF r = s THEN Tail(inbox[s]) ELSE inbox[r]
      BY <2>1 DEF TypeOK
    <3>. QED  BY <3>2, <3>3
  <2>. QED  BY <2>1, <2>2 DEF WireInv, UnsubscribedIsDropped, ConfirmedIsHeld
<1>7. ASSUME NEW s \in Sockets, NEW r \in outbox[s], NodeRequest(s, r) PROVE WireInv'
  <2>1. outbox' = [outbox EXCEPT ![s] = @ \ {r}]
    BY <1>7 DEF NodeRequest
  <2>2. UnsubscribedIsDropped'
    BY <2>1 DEF WireInv, UnsubscribedIsDropped, TypeOK
  <2>3. CASE UNCHANGED <<serverSubs, inbox>>
    BY <2>2, <2>3 DEF WireInv, ConfirmedIsHeld
  <2>4. CASE /\ serverSubs' = [serverSubs EXCEPT ![s] = @ \cup {r.key}]
             /\ inbox' = [inbox EXCEPT ![s] = Append(@, r.key)]
    <3>1. \A i \in DOMAIN Append(inbox[s], r.key) :
             \/ i \in DOMAIN inbox[s] /\ Append(inbox[s], r.key)[i] = inbox[s][i]
             \/ Append(inbox[s], r.key)[i] = r.key
      <4>1. inbox[s] \in Seq(Nat)
        BY DEF TypeOK
      <4>. QED  BY <4>1
    <3>2. \A q \in Sockets : /\ q # s => inbox'[q] = inbox[q] /\ serverSubs'[q] = serverSubs[q]
                             /\ q = s => /\ inbox'[q] = Append(inbox[s], r.key)
                                         /\ serverSubs'[q] = serverSubs[s] \cup {r.key}
      BY <2>4 DEF TypeOK
    <3>3. ConfirmedIsHeld'
      BY <3>1, <3>2 DEF WireInv, ConfirmedIsHeld
    <3>. QED  BY <2>2, <3>3 DEF WireInv
  <2>5. CASE /\ r.op = "unsubscribe" /\ UNCHANGED inbox
             /\ serverSubs' = [serverSubs EXCEPT ![s] = @ \ {r.key}]
    <3>1. r.key \in Dropped
      BY <2>5 DEF WireInv, UnsubscribedIsDropped
    <3>2. \A q \in Sockets : \A k \in serverSubs[q] : k \in serverSubs'[q] \/ k = r.key
      BY <2>5 DEF TypeOK
    <3>3. ConfirmedIsHeld'
      BY <2>5, <3>1, <3>2 DEF WireInv, ConfirmedIsHeld
    <3>. QED  BY <2>2, <3>3 DEF WireInv
  <2>. QED  BY <1>7, <2>3, <2>4, <2>5 DEF NodeRequest
<1>. QED
  BY <1>1, <1>3, <1>4, <1>5, <1>6, <1>7
  DEF Next, Application, Continuation, EventLoop, Node, vars, Close, Subscribe, Register,
      ConfirmationTimeout, OnOpen, OnError, ScheduleReconnect, ArmTimer, ReconnectTimer,
      ResubscribeAll, ResubscribeNext, NextResubscription

\* A new session has no entries, ids and wires.
LEMMA IdInit == Init => IdInv
<1>. SUFFICES ASSUME Init PROVE IdInv
  OBVIOUS
<1>1. DOMAIN <<>> = {} /\ <<>> \in Seq(Entry) /\ <<>> \in Seq(Nat) /\ <<>> \in Seq(Calls)
  OBVIOUS
<1>2. \A t \in Threads : phase[t] = "idle" /\ id[t] = 0
  BY DEF Init
<1>3. /\ phase \in [Threads -> CallPhases \cup LoopPhases]
      /\ \A c \in Calls : phase[c] \in CallPhases
      /\ \A s \in Sockets : phase[s] \in LoopPhases
  BY DEF Init, Threads, CallPhases, LoopPhases
<1>4. TypeOK
  <2>1. /\ id \in [Threads -> 0..messageIdCounter]
        /\ waitsOn \in [Threads -> Sockets \cup {NoSocket}]
        /\ todo \in [Sockets -> Seq(Calls)] /\ sock \in [Sockets -> SocketStates]
        /\ outbox \in [Sockets -> SUBSET Request] /\ inbox \in [Sockets -> Seq(Nat)]
        /\ serverSubs \in [Sockets -> SUBSET Nat]
    BY <1>1 DEF Init, SocketStates
  <2>2. {isConnected, isUserClose, timerArmed} \subseteq BOOLEAN
    BY DEF Init
  <2>3. {reconnectAttempt, lostTimers, messageIdCounter} \subseteq Nat
    BY DEF Init
  <2>4. pending \subseteq 1..messageIdCounter
    BY DEF Init
  <2>5. telling \in {"nothing", "disconnect", "reconnect"}
    BY DEF Init
  <2>. QED  BY <1>1, <1>3, <2>1, <2>2, <2>3, <2>4, <2>5 DEF Init, TypeOK
<1>5. LoopHasWork /\ KeyInv
  BY <1>1, <1>2 DEF Init, LoopHasWork, KeyInv, IdsDiffer, KeysDiffer, KeysAreGiven,
                    AwaitedIsFresh, DroppedIsForgotten, Threads
<1>6. WireInv
  BY <1>1 DEF Init, WireInv, UnsubscribedIsDropped, ConfirmedIsHeld
<1>. QED  BY <1>4, <1>5, <1>6 DEF IdInv

\* Types, work, ids and wires are invariant together.
LEMMA IdStep == IdInv /\ [Next]_vars => IdInv'
<1>. SUFFICES ASSUME IdInv, [Next]_vars PROVE IdInv'
  OBVIOUS
<1>1. TypeOK'
  BY TypeStep DEF IdInv, KeyInv
<1>2. LoopHasWork'
  BY WorkStep DEF IdInv
<1>3. KeyInv' /\ (\A k \in Dropped : k \in Dropped')
  BY <1>1, KeyStep
<1>4. WireInv'
  BY <1>1, <1>3, WireStep
<1>. QED  BY <1>1, <1>2, <1>3, <1>4 DEF IdInv

-----------------------------------------------------------------------------
\* The strengthening of HeldOnce: no callback is registered twice, awaited twice or both,
\* and none is held before the subscribe() that brought it was through.
Callbacks == {subscriptionInfo[i].callback : i \in DOMAIN subscriptionInfo}
AwaitedBy(s) == {Awaiting(s)[i] : i \in DOMAIN Awaiting(s)}

AwaitedOnce ==
    /\ \A s \in Sockets : \A i, j \in DOMAIN Awaiting(s) : Awaiting(s)[i] = Awaiting(s)[j] => i = j
    /\ \A s, t \in Sockets : s # t => AwaitedBy(s) \cap AwaitedBy(t) = {}
Apart == \A s \in Sockets : AwaitedBy(s) \cap Callbacks = {}
HeldIsSettled ==
    \A c \in Calls : c \in Callbacks \/ (\E s \in Sockets : c \in AwaitedBy(s))
                        => phase[c] \in {"active", "unsubscribed"}

HeldInv == RegisteredOnce /\ AwaitedOnce /\ Apart /\ HeldIsSettled

\* What a loop awaits, where it stands, and where a step may leave it.
UnderWay == {"connecting", "ready", "pending", "confirmed"}
LEMMA AwaitingIs ==
    ASSUME NEW s \in Sockets
    PROVE  /\ phase[s] \in UnderWay => Awaiting(s) = todo[s]
           /\ phase[s] = "settled" => Awaiting(s) = Tail(todo[s])
           /\ phase[s] \in {"idle", "opened", "done"} => Awaiting(s) = <<>>
BY DEF Awaiting, UnderWay

LEMMA AwaitingThen ==
    ASSUME NEW s \in Sockets
    PROVE  /\ phase'[s] \in UnderWay => Awaiting(s)' = todo'[s]
           /\ phase'[s] = "settled" => Awaiting(s)' = Tail(todo'[s])
           /\ phase'[s] \in {"idle", "opened", "done"} => Awaiting(s)' = <<>>
BY DEF Awaiting, UnderWay

\* A loop that goes on, fails or is through awaits nothing new.
LEMMA AwaitingShrinks ==
    ASSUME IdInv, HeldInv, NEW s \in Sockets, todo'[s] = todo[s],
           \/ phase'[s] = phase[s]
           \/ phase[s] \in UnderWay /\ phase'[s] \in UnderWay \cup {"settled"}
           \/ phase'[s] \in {"idle", "opened", "done"}
    PROVE  /\ AwaitedBy(s)' \subseteq AwaitedBy(s)
           /\ \A i, j \in DOMAIN Awaiting(s)' : Awaiting(s)'[i] = Awaiting(s)'[j] => i = j
           /\ phase[s] \in UnderWay /\ phase'[s] = "settled" =>
                 Head(todo[s]) \notin AwaitedBy(s)'
<1>0. \A i, j \in DOMAIN Awaiting(s) : Awaiting(s)[i] = Awaiting(s)[j] => i = j
  BY DEF HeldInv, AwaitedOnce
<1>1. CASE Awaiting(s)' = Awaiting(s) /\ ~(phase[s] \in UnderWay /\ phase'[s] = "settled")
  BY <1>0, <1>1 DEF AwaitedBy
<1>2. CASE Awaiting(s)' = <<>> /\ ~(phase[s] \in UnderWay /\ phase'[s] = "settled")
  <2>1. DOMAIN Awaiting(s)' = {}
    BY <1>2
  <2>. QED  BY <1>2, <2>1 DEF AwaitedBy
<1>3. CASE phase[s] \in UnderWay /\ phase'[s] = "settled"
  <2>1. Awaiting(s) = todo[s] /\ Awaiting(s)' = Tail(todo[s])
    BY <1>3, AwaitingIs, AwaitingThen
  <2>2. todo[s] \in Seq(Calls) /\ todo[s] # <<>>
    BY <1>3 DEF IdInv, TypeOK, LoopHasWork, UnderWay
  <2>. DEFINE n == Len(todo[s])
  <2>3. /\ n \in Nat \ {0} /\ DOMAIN todo[s] = 1..n /\ DOMAIN Tail(todo[s]) = 1..(n - 1)
        /\ \A i \in 1..(n - 1) : Tail(todo[s])[i] = todo[s][i + 1]
        /\ Head(todo[s]) = todo[s][1]
    BY <2>2
  <2>4. \A i, j \in 1..n : todo[s][i] = todo[s][j] => i = j
    BY <1>0, <2>1, <2>3
  <2>5. AwaitedBy(s)' = {todo[s][i + 1] : i \in 1..(n - 1)}
    BY <2>1, <2>3 DEF AwaitedBy
  <2>. HIDE DEF n
  <2>6. \A i \in 1..(n - 1) : i + 1 \in 1..n /\ i + 1 # 1
    BY <2>3
  <2>7. AwaitedBy(s)' \subseteq AwaitedBy(s) /\ Head(todo[s]) \notin AwaitedBy(s)'
    <3>1. AwaitedBy(s) = {todo[s][i] : i \in 1..n}
      BY <2>1, <2>3 DEF AwaitedBy
    <3>2. 1 \in 1..n
      BY <2>3
    <3>. QED  BY <2>3, <2>4, <2>5, <2>6, <3>1, <3>2
  <2>8. \A i, j \in DOMAIN Awaiting(s)' : Awaiting(s)'[i] = Awaiting(s)'[j] => i = j
    BY <2>1, <2>3, <2>4, <2>6
  <2>. QED  BY <2>7, <2>8
<1>4. phase[s] \in LoopPhases /\ phase'[s] = phase[s] => Awaiting(s)' = Awaiting(s)
  BY AwaitingIs, AwaitingThen DEF LoopPhases, UnderWay
<1>5. phase[s] \in UnderWay /\ phase'[s] \in UnderWay => Awaiting(s)' = Awaiting(s)
  BY AwaitingIs, AwaitingThen
<1>6. phase[s] \in LoopPhases
  BY DEF IdInv, TypeOK
<1>. QED
  BY <1>1, <1>2, <1>3, <1>4, <1>5, <1>6, AwaitingThen DEF UnderWay

\* Where nothing new is held, the strengthening holds on.
LEMMA HeldShrinks ==
    ASSUME HeldInv, RegisteredOnce', Callbacks' \subseteq Callbacks,
           \A s \in Sockets :
              /\ AwaitedBy(s)' \subseteq AwaitedBy(s)
              /\ \A i, j \in DOMAIN Awaiting(s)' : Awaiting(s)'[i] = Awaiting(s)'[j] => i = j,
           \A c \in Calls : phase[c] \in {"active", "unsubscribed"}
                               => phase'[c] \in {"active", "unsubscribed"}
    PROVE  HeldInv'
<1>1. AwaitedOnce'
  BY DEF HeldInv, AwaitedOnce
<1>2. Apart'
  BY DEF HeldInv, Apart
<1>3. HeldIsSettled'
  BY DEF HeldInv, HeldIsSettled
<1>. QED  BY <1>1, <1>2, <1>3 DEF HeldInv

\* A registration of one that is not held holds it once.
LEMMA HeldRegisters ==
    ASSUME IdInv, HeldInv, NEW e \in Entry, subscriptionInfo' = Append(subscriptionInfo, e),
           e.callback \notin Callbacks,
           \A s \in Sockets :
              /\ AwaitedBy(s)' \subseteq AwaitedBy(s) /\ e.callback \notin AwaitedBy(s)'
              /\ \A i, j \in DOMAIN Awaiting(s)' : Awaiting(s)'[i] = Awaiting(s)'[j] => i = j,
           \A c \in Calls : c = e.callback \/ phase[c] \in {"active", "unsubscribed"}
                               => phase'[c] \in {"active", "unsubscribed"}
    PROVE  HeldInv'
<1>1. \A i \in DOMAIN subscriptionInfo' :
         \/ i \in DOMAIN subscriptionInfo /\ subscriptionInfo'[i] = subscriptionInfo[i]
         \/ i = Len(subscriptionInfo) + 1 /\ subscriptionInfo'[i] = e
  <2>1. subscriptionInfo \in Seq(Entry)
    BY DEF IdInv, TypeOK
  <2>. QED  BY <2>1
<1>2. Callbacks' \subseteq Callbacks \cup {e.callback}
  BY <1>1 DEF Callbacks
<1>3. \A i \in DOMAIN subscriptionInfo : subscriptionInfo[i].callback # e.callback
  BY DEF Callbacks
<1>4. RegisteredOnce'
  BY <1>1, <1>3 DEF HeldInv, RegisteredOnce
<1>5. AwaitedOnce'
  BY DEF HeldInv, AwaitedOnce
<1>6. Apart'
  BY <1>2 DEF HeldInv, Apart
<1>7. HeldIsSettled'
  BY <1>2 DEF HeldInv, HeldIsSettled
<1>. QED  BY <1>4, <1>5, <1>6, <1>7 DEF HeldInv

\* resubscribeAll() takes over what was registered, and holds it once.
LEMMA HeldIsTakenOver ==
    ASSUME IdInv, HeldInv, NEW s \in Sockets, ResubscribeAll(s)
    PROVE  HeldInv'
<1>. DEFINE rest == [i \in DOMAIN subscriptionInfo |-> subscriptionInfo[i].callback]
<1>1. /\ rest \in Seq(Calls) /\ NextResubscription(s, rest)
      /\ subscriptionInfo' = <<>> /\ phase[s] = "opened"
  BY CallbacksType DEF ResubscribeAll, ClearInfos, IdInv
<1>2. \A i \in DOMAIN rest : i \in DOMAIN subscriptionInfo /\ rest[i] = subscriptionInfo[i].callback
  OBVIOUS
<1>. HIDE DEF rest
<1>3. /\ \A u \in Threads : u # s => phase'[u] = phase[u]
      /\ phase'[s] \in {"ready", "connecting", "done"} /\ (phase'[s] = "done" <=> rest = <<>>)
      /\ todo' = [todo EXCEPT ![s] = rest]
  BY <1>1, LoopMoves DEF IdInv
<1>4. todo'[s] = rest /\ \A r \in Sockets : r # s => todo'[r] = todo[r]
  BY <1>3 DEF IdInv, TypeOK
<1>5. Awaiting(s)' = rest
  BY <1>3, <1>4, AwaitingThen DEF UnderWay
<1>6. DOMAIN subscriptionInfo' = {} /\ Callbacks' = {}
  BY <1>1 DEF Callbacks
<1>7. AwaitedBy(s)' \subseteq Callbacks
  BY <1>2, <1>5 DEF AwaitedBy, Callbacks
<1>8. \A i, j \in DOMAIN Awaiting(s)' : Awaiting(s)'[i] = Awaiting(s)'[j] => i = j
  BY <1>2, <1>5 DEF HeldInv, RegisteredOnce
<1>9. \A r \in Sockets : r # s =>
         /\ AwaitedBy(r)' \subseteq AwaitedBy(r)
         /\ \A i, j \in DOMAIN Awaiting(r)' : Awaiting(r)'[i] = Awaiting(r)'[j] => i = j
  <2>1. \A r \in Sockets : r \in Threads
    BY DEF Threads
  <2>. QED  BY <1>3, <1>4, <2>1, AwaitingShrinks
<1>10. RegisteredOnce'
  BY <1>6 DEF RegisteredOnce
<1>11. AwaitedOnce'
  <2>1. \A r \in Sockets : r # s => AwaitedBy(r)' \cap AwaitedBy(s)' = {}
    BY <1>7, <1>9 DEF HeldInv, Apart
  <2>2. \A r, t \in Sockets : r # s /\ t # s /\ r # t => AwaitedBy(r)' \cap AwaitedBy(t)' = {}
    BY <1>9 DEF HeldInv, AwaitedOnce
  <2>. QED  BY <1>8, <1>9, <2>1, <2>2 DEF AwaitedOnce
<1>12. Apart'
  BY <1>6 DEF Apart
<1>13. HeldIsSettled'
  <2>1. \A c \in Calls : phase'[c] = phase[c]
    BY <1>3, EvmSessionAssumption DEF Threads
  <2>2. \A c \in Calls, r \in Sockets : c \in AwaitedBy(r)' => c \in Callbacks \/ c \in AwaitedBy(r)
    BY <1>7, <1>9
  <2>. QED  BY <1>6, <2>1, <2>2 DEF HeldInv, HeldIsSettled
<1>. QED  BY <1>10, <1>11, <1>12, <1>13 DEF HeldInv

\* Every step holds each callback once.
LEMMA HeldStep ==
    ASSUME IdInv, HeldInv, [Next]_vars
    PROVE  HeldInv'
<1>a. \A t \in Threads : t \in Calls \/ t \in Sockets
  BY DEF Threads
<1>b. /\ \A s \in Sockets : s \in Threads /\ Failed(s) = "settled" /\ s \notin Calls
      /\ \A c \in Calls : c \in Threads /\ Failed(c) = "rejected" /\ c \notin Sockets
  BY Failing, EvmSessionAssumption DEF Threads
<1>c. TypeOK
  BY DEF IdInv
<1>. DEFINE On(s) == \/ phase'[s] = phase[s]
                     \/ phase[s] \in UnderWay /\ phase'[s] \in UnderWay \cup {"settled"}
                     \/ phase'[s] \in {"idle", "opened", "done"}
            Ends == {"active", "unsubscribed"}
<1>0. ASSUME subscriptionInfo' \in {subscriptionInfo, <<>>}, UNCHANGED todo,
             \A s \in Sockets : On(s),
             \A c \in Calls : phase[c] \in Ends => phase'[c] \in Ends
      PROVE  HeldInv'
  <2>1. \A s \in Sockets :
           /\ AwaitedBy(s)' \subseteq AwaitedBy(s)
           /\ \A i, j \in DOMAIN Awaiting(s)' : Awaiting(s)'[i] = Awaiting(s)'[j] => i = j
    BY <1>0, AwaitingShrinks
  <2>2. \A i \in DOMAIN subscriptionInfo' :
           i \in DOMAIN subscriptionInfo /\ subscriptionInfo'[i] = subscriptionInfo[i]
    <3>1. DOMAIN <<>> = {}
      OBVIOUS
    <3>. QED  BY <1>0, <3>1
  <2>3. Callbacks' \subseteq Callbacks /\ RegisteredOnce'
    BY <2>2 DEF Callbacks, HeldInv, RegisteredOnce
  <2>. QED  BY <1>0, <2>1, <2>3, HeldShrinks
<1>1. CASE UNCHANGED vars \/ ArmTimer \/ ReconnectTimer \/ Node
  <2>1. UNCHANGED <<subscriptionInfo, phase, todo>>
    BY <1>1 DEF vars, ArmTimer, ReconnectTimer, Node, NodeRequest, subsVars, threadVars
  <2>. QED  BY <1>0, <2>1
<1>2. CASE Close
  <2>1. /\ subscriptionInfo' = <<>> /\ UNCHANGED todo
        /\ \A t \in Threads :
              phase'[t] = phase[t] \/ (phase[t] = "pending" /\ phase'[t] = Failed(t))
    BY <1>2, <1>c, RejectionMoves DEF Close, ClearInfos
  <2>. QED  BY <1>0, <1>b, <2>1 DEF UnderWay
<1>3. ASSUME NEW c \in Calls, Subscribe(c) PROVE HeldInv'
  <2>1. /\ UNCHANGED <<subscriptionInfo, todo>> /\ phase[c] = "idle"
        /\ \A t \in Threads : t # c => phase'[t] = phase[t]
    BY <1>3, <1>b, <1>c, SubscribeMoves DEF Subscribe, subsVars
  <2>. QED  BY <1>0, <1>b, <2>1
<1>4. ASSUME NEW s \in Sockets, OnOpen(s) PROVE HeldInv'
  <2>1. /\ UNCHANGED <<subscriptionInfo, todo>>
        /\ \A t \in Threads : \/ phase'[t] = phase[t]
                              \/ t = s /\ phase'[t] = "opened"
                              \/ phase[t] = "connecting" /\ phase'[t] = "ready"
    BY <1>4 DEF OnOpen, subsVars
  <2>. QED  BY <1>0, <1>b, <2>1 DEF UnderWay
<1>5. CASE \/ \E s \in Sockets : OnError(s) \/ OnMessage(s) \/ OnClose(s)
           \/ ScheduleReconnect
  <2>1. /\ UNCHANGED <<subscriptionInfo, todo>>
        /\ \A t \in Threads : \/ phase'[t] = phase[t]
                              \/ phase[t] \in {"connecting", "pending"} /\ phase'[t] = Failed(t)
                              \/ phase[t] = "pending" /\ phase'[t] = "confirmed"
    <3>1. CASE \E s \in Sockets : OnError(s) \/ OnMessage(s) \/ OnClose(s)
      BY <3>1 DEF OnError, OnMessage, OnClose, subsVars, threadVars
    <3>2. CASE ScheduleReconnect
      BY <1>c, <3>2, ScheduleMoves DEF ScheduleReconnect
    <3>. QED  BY <1>5, <3>1, <3>2
  <2>. QED  BY <1>0, <1>b, <2>1 DEF UnderWay
<1>6. ASSUME NEW t \in Threads, ConfirmationTimeout(t) \/ SendSubscribe(t) PROVE HeldInv'
  <2>1. /\ UNCHANGED <<subscriptionInfo, todo>> /\ phase[t] \in {"pending", "ready"}
        /\ phase'[t] \in {"pending", Failed(t)}
        /\ \A u \in Threads : u # t => phase'[u] = phase[u]
    BY <1>6, <1>c DEF ConfirmationTimeout, SendSubscribe, TypeOK
  <2>. QED  BY <1>0, <1>b, <2>1 DEF UnderWay
<1>7. ASSUME NEW s \in Sockets, ResubscribeNext(s) PROVE HeldInv'
  <2>1. /\ phase[s] = "settled" /\ NextResubscription(s, Remaining(s)) /\ UNCHANGED subscriptionInfo
        /\ Remaining(s) \in Seq(Calls)
    BY <1>7, RestType DEF ResubscribeNext, IdInv
  <2>2. /\ \A u \in Threads : u # s => phase'[u] = phase[u]
        /\ phase'[s] \in {"ready", "connecting", "done"}
        /\ (phase'[s] = "done" <=> Remaining(s) = <<>>)
        /\ todo' = [todo EXCEPT ![s] = Remaining(s)]
    BY <1>c, <2>1, LoopMoves
  <2>3. todo'[s] = Remaining(s) /\ \A r \in Sockets : r # s => todo'[r] = todo[r]
    BY <1>c, <2>2 DEF TypeOK
  <2>4. Awaiting(s)' = Awaiting(s)
    BY <2>1, <2>2, <2>3, AwaitingIs, AwaitingThen DEF UnderWay, Remaining
  <2>5. \A r \in Sockets :
           /\ AwaitedBy(r)' \subseteq AwaitedBy(r)
           /\ \A i, j \in DOMAIN Awaiting(r)' : Awaiting(r)'[i] = Awaiting(r)'[j] => i = j
    <3>1. \A r \in Sockets : r # s =>
             /\ AwaitedBy(r)' \subseteq AwaitedBy(r)
             /\ \A i, j \in DOMAIN Awaiting(r)' : Awaiting(r)'[i] = Awaiting(r)'[j] => i = j
      BY <1>b, <2>2, <2>3, AwaitingShrinks
    <3>2. AwaitedBy(s)' = AwaitedBy(s)
      BY <2>4 DEF AwaitedBy
    <3>3. \A i, j \in DOMAIN Awaiting(s)' : Awaiting(s)'[i] = Awaiting(s)'[j] => i = j
      BY <2>4 DEF HeldInv, AwaitedOnce
    <3>. QED  BY <3>1, <3>2, <3>3
  <2>6. Callbacks' \subseteq Callbacks /\ RegisteredOnce'
    BY <2>1 DEF Callbacks, HeldInv, RegisteredOnce
  <2>. QED  BY <1>b, <2>2, <2>5, <2>6, HeldShrinks
<1>8. ASSUME NEW t \in Threads, Register(t) PROVE HeldInv'
  <2>. DEFINE e == [key |-> id[t], callback |-> Callback(t)]
  <2>1. /\ phase[t] = "confirmed" /\ UNCHANGED todo
        /\ subscriptionInfo' = Append(subscriptionInfo, e)
        /\ phase'[t] = (IF t \in Calls THEN "active" ELSE "settled")
        /\ \A u \in Threads : u # t => phase'[u] = phase[u]
    BY <1>8, <1>c DEF Register, TypeOK
  <2>2. e \in Entry /\ e.callback = Callback(t)
    <3>1. Callback(t) \in Calls
      BY <1>c, <2>1, RegisterType DEF IdInv, LoopHasWork
    <3>. QED  BY <1>c, <3>1 DEF Entry, TypeOK
  <2>. HIDE DEF e
  <2>3. \A s \in Sockets :
           /\ AwaitedBy(s)' \subseteq AwaitedBy(s)
           /\ \A i, j \in DOMAIN Awaiting(s)' : Awaiting(s)'[i] = Awaiting(s)'[j] => i = j
    <3>1. \A s \in Sockets : On(s)
      BY <1>b, <2>1 DEF UnderWay
    <3>. QED  BY <2>1, <3>1, AwaitingShrinks
  <2>4. CASE t \in Calls
    <3>1. e.callback = t /\ phase[t] \notin Ends
      BY <2>1, <2>2, <2>4 DEF Callback
    <3>2. t \notin Callbacks /\ \A s \in Sockets : t \notin AwaitedBy(s)
      BY <2>4, <3>1 DEF HeldInv, HeldIsSettled
    <3>3. \A c \in Calls : c = e.callback \/ phase[c] \in Ends => phase'[c] \in Ends
      BY <1>b, <2>1, <2>4, <3>1
    <3>. QED  BY <2>1, <2>2, <2>3, <3>1, <3>2, <3>3, HeldRegisters
  <2>5. CASE t \in Sockets
    <3>1. /\ e.callback = Head(todo[t]) /\ Awaiting(t) = todo[t]
          /\ todo[t] \in Seq(Calls) /\ todo[t] # <<>>
      BY <1>b, <1>c, <2>1, <2>2, <2>5, AwaitingIs DEF Callback, UnderWay, IdInv, LoopHasWork, TypeOK
    <3>2. e.callback \in AwaitedBy(t)
      <4>1. 1 \in DOMAIN todo[t] /\ Head(todo[t]) = todo[t][1]
        BY <3>1
      <4>. QED  BY <3>1, <4>1 DEF AwaitedBy
    <3>3. e.callback \notin AwaitedBy(t)'
      BY <1>b, <2>1, <2>5, <3>1, AwaitingShrinks DEF UnderWay
    <3>4. \A s \in Sockets : e.callback \notin AwaitedBy(s)'
      BY <2>3, <2>5, <3>2, <3>3 DEF HeldInv, AwaitedOnce
    <3>5. e.callback \notin Callbacks
      BY <2>5, <3>2 DEF HeldInv, Apart
    <3>6. \A c \in Calls : c = e.callback \/ phase[c] \in Ends => phase'[c] \in Ends
      BY <1>b, <2>1, <2>5, <3>2 DEF HeldInv, HeldIsSettled
    <3>. QED  BY <2>1, <2>2, <2>3, <3>4, <3>5, <3>6, HeldRegisters
  <2>. QED  BY <1>a, <2>4, <2>5
<1>9. ASSUME NEW c \in Calls, Unsubscribe(c) PROVE HeldInv'
  <2>1. /\ UNCHANGED todo /\ phase'[c] = "unsubscribed"
        /\ \A u \in Threads : u # c => phase'[u] = phase[u]
    BY <1>9, <1>b, <1>c DEF Unsubscribe, TypeOK
  <2>2. /\ \A i \in DOMAIN subscriptionInfo' : \E j \in DOMAIN subscriptionInfo :
              subscriptionInfo'[i] = subscriptionInfo[j]
        /\ RegisteredOnce'
    BY <1>9, <1>c, Forgets DEF Unsubscribe, IdInv, KeyInv, HeldInv, TypeOK
  <2>3. Callbacks' \subseteq Callbacks
    BY <2>2 DEF Callbacks
  <2>4. \A s \in Sockets :
           /\ AwaitedBy(s)' \subseteq AwaitedBy(s)
           /\ \A i, j \in DOMAIN Awaiting(s)' : Awaiting(s)'[i] = Awaiting(s)'[j] => i = j
    BY <1>b, <2>1, AwaitingShrinks
  <2>. QED  BY <1>b, <2>1, <2>2, <2>3, <2>4, HeldShrinks
<1>. QED
  BY <1>1, <1>2, <1>3, <1>4, <1>5, <1>6, <1>7, <1>8, <1>9, HeldIsTakenOver
  DEF Next, Application, Continuation, EventLoop, Node

\* The strengthening as numbers.
LEMMA HeldOnceIsCounted == HeldInv => HeldOnce
<1>. SUFFICES ASSUME HeldInv, NEW c \in Calls
              PROVE  Cardinality(Registered(c)) + Cardinality(BeingRestored(c)) <= 1
  BY DEF HeldOnce
<1>1. /\ Registered(c) # {} => c \in Callbacks
      /\ Registered(c) = {} \/ \E i : Registered(c) = {i}
  <2>1. \A i, j \in Registered(c) : i = j
    BY DEF Registered, HeldInv, RegisteredOnce
  <2>2. Registered(c) # {} => c \in Callbacks
    BY DEF Registered, Callbacks
  <2>. QED  BY <2>1, <2>2
<1>2. \A p \in BeingRestored(c) : \E s \in Sockets : \E i \in DOMAIN Awaiting(s) :
         p = <<s, i>> /\ Awaiting(s)[i] = c
  BY DEF BeingRestored
<1>3. \A p, q \in BeingRestored(c) : p = q
  <2>. SUFFICES ASSUME NEW s \in Sockets, NEW i \in DOMAIN Awaiting(s), Awaiting(s)[i] = c,
                       NEW t \in Sockets, NEW j \in DOMAIN Awaiting(t), Awaiting(t)[j] = c
                PROVE  s = t /\ i = j
    BY <1>2
  <2>1. c \in AwaitedBy(s) /\ c \in AwaitedBy(t)
    BY DEF AwaitedBy
  <2>2. s = t
    BY <2>1 DEF HeldInv, AwaitedOnce
  <2>. QED  BY <2>2 DEF HeldInv, AwaitedOnce
<1>4. BeingRestored(c) # {} => \E s \in Sockets : c \in AwaitedBy(s)
  BY <1>2 DEF AwaitedBy
<1>5. Registered(c) = {} \/ BeingRestored(c) = {}
  BY <1>1, <1>4 DEF HeldInv, Apart
<1>6. BeingRestored(c) = {} \/ \E p : BeingRestored(c) = {p}
  BY <1>3
<1>7. Cardinality({}) = 0 /\ \A x : Cardinality({x}) = 1
  BY FS_EmptySet, FS_Singleton
<1>8. /\ Cardinality(Registered(c)) \in {0, 1} /\ Cardinality(BeingRestored(c)) \in {0, 1}
      /\ Cardinality(Registered(c)) = 0 \/ Cardinality(BeingRestored(c)) = 0
  BY <1>1, <1>5, <1>6, <1>7
<1>. QED  BY <1>8

\* However often the session reconnects, and however its resubscribeAll() loops overlap,
\* it holds a callback once: no event is delivered to it twice.
THEOREM CallbackHeldOnce == Spec => []HeldOnce
<1>1. Init => IdInv /\ HeldInv
  <2>. SUFFICES ASSUME Init PROVE HeldInv
    BY IdInit
  <2>1. DOMAIN subscriptionInfo = {} /\ Callbacks = {}
    BY DEF Init, Callbacks
  <2>2. \A s \in Sockets : Awaiting(s) = <<>>
    BY DEF Init, Awaiting, Threads
  <2>3. \A s \in Sockets : DOMAIN Awaiting(s) = {} /\ AwaitedBy(s) = {}
    BY <2>2 DEF AwaitedBy
  <2>. QED  BY <2>1, <2>3 DEF HeldInv, RegisteredOnce, AwaitedOnce, Apart, HeldIsSettled
<1>2. IdInv /\ HeldInv /\ [Next]_vars => IdInv' /\ HeldInv'
  BY IdStep, HeldStep
<1>. QED  BY <1>1, <1>2, HeldOnceIsCounted, PTL DEF Spec

-----------------------------------------------------------------------------
\* The strengthening of UndisturbedIsServed.  First, what the connection of an undisturbed
\* session is like until close(): its one live socket is `ws`, `isConnected` tells the truth,
\* nothing but a timer or an attempt replaces a connection that dropped, ...
Running == Undisturbed /\ ~isUserClose

Calm ==
    /\ \A s \in Sockets : sock[s] \in {"unused", "connecting", "open", "closed"}
    /\ \A s \in Sockets : sock[s] \in {"connecting", "open"} => s = ws
    /\ ws # NoSocket => sock[ws] \in {"connecting", "open"}
    /\ isConnected <=> ws # NoSocket /\ sock[ws] = "open"
    /\ lostTimers = 0 /\ (timerArmed => ws = NoSocket)
    /\ telling # "nothing" => ws = NoSocket /\ ~timerArmed
    /\ connectionPromise # NoSocket => connectionPromise = ws /\ sock[ws] = "connecting"

\* ... and a resubscribeAll() runs on the connection that started it, and never waits for one.
LoopStands ==
    \A s \in Sockets : phase[s] \notin {"idle", "done"} =>
       isConnected /\ s = ws /\ phase[s] # "connecting"

StandInv == /\ isConnected => reconnectAttempt = 0 /\ telling = "nothing"
            /\ telling = "disconnect" => reconnectAttempt = 0
            /\ Running => Calm /\ LoopStands

\* What goes on is as undisturbed as it was.
LEMMA RunningStays == ASSUME [Next]_vars PROVE (Running' => Running) /\ setting' = setting
<1>1. setting' = setting
  BY DEF Next, Application, Continuation, EventLoop, Node, vars, connVars, Close, Subscribe,
         Unsubscribe, SendSubscribe, Register, ConfirmationTimeout, OnOpen, OnError, OnClose,
         ScheduleReconnect, ArmTimer, OnMessage, ReconnectTimer, ResubscribeAll, ResubscribeNext,
         NextResubscription, NodeRequest
<1>2. isUserClose => isUserClose'
  BY DEF Next, Application, Continuation, EventLoop, Node, vars, connVars, Close, Subscribe,
         Unsubscribe, SendSubscribe, Register, ConfirmationTimeout, OnOpen, OnError, OnClose,
         ScheduleReconnect, ArmTimer, OnMessage, ReconnectTimer, ResubscribeAll, ResubscribeNext,
         NextResubscription, NodeRequest
<1>. QED  BY <1>1, <1>2 DEF Running, Undisturbed

\* A loop of such a session finds its connection and goes on at once, or is through.
LEMMA LoopGoesOn ==
    ASSUME IdInv, Calm, LoopStands, NEW s \in Sockets, NEW rest \in Seq(Calls),
           phase[s] \in {"opened", "settled"}, NextResubscription(s, rest)
    PROVE  /\ UNCHANGED <<connVars, sock>>
           /\ todo' = [todo EXCEPT ![s] = rest]
           /\ phase' = [phase EXCEPT ![s] = IF rest = <<>> THEN "done" ELSE "ready"]
<1>1. isConnected /\ ws # NoSocket
  BY DEF LoopStands, Calm
<1>. QED  BY <1>1 DEF NextResubscription, EnsureConnected, connVars

\* connect() makes the one socket of a session that has none.
LEMMA Connects ==
    ASSUME IdInv, Calm, LoopStands, ws = NoSocket, NEW s \in Sockets, Connect(s),
           connectionPromise' \in {NoSocket, s}, timerArmed' = FALSE, lostTimers' = 0,
           telling' = "nothing", isConnected' = isConnected, \A r \in Sockets : phase'[r] = phase[r]
    PROVE  Calm' /\ LoopStands'
<1>1. ~isConnected /\ \A r \in Sockets : sock[r] \in {"unused", "closed"}
  BY EvmSessionAssumption DEF Calm
<1>2. /\ ws' = s /\ s # NoSocket /\ sock'[s] = "connecting"
      /\ \A r \in Sockets : r # s => sock'[r] = sock[r]
  BY EvmSessionAssumption DEF Connect, IdInv, TypeOK
<1>3. Calm'
  BY <1>1, <1>2 DEF Calm
<1>4. LoopStands'
  BY <1>1 DEF LoopStands
<1>. QED  BY <1>3, <1>4

\* Every step keeps the connection in order.
LEMMA StandStep ==
    ASSUME IdInv, StandInv, [Next]_vars
    PROVE  StandInv'
<1>a. /\ \A s \in Sockets : s \in Threads /\ Failed(s) = "settled" /\ s \notin Calls
      /\ \A c \in Calls : c \in Threads /\ Failed(c) = "rejected" /\ c \notin Sockets
  BY Failing, EvmSessionAssumption DEF Threads
<1>b. TypeOK /\ setting' = setting /\ (Running' => Running)
  BY RunningStays DEF IdInv
<1>c. Undisturbed => /\ setting.careful /\ setting.reachable
                     /\ setting.nodeAnswers /\ setting.loopUndisturbed
  BY DEF Undisturbed
<1>. DEFINE On(s) == \/ phase'[s] = phase[s]
                     \/ phase[s] \notin {"idle", "done"} /\ phase'[s] # "connecting"
<1>0. ASSUME UNCHANGED <<connVars, sock>>, Running' => \A s \in Sockets : On(s) PROVE StandInv'
  BY <1>0, <1>b DEF StandInv, Calm, LoopStands, connVars
<1>1. CASE UNCHANGED vars \/ Node
  <2>1. UNCHANGED <<connVars, sock, phase>>
    BY <1>1 DEF vars, Node, NodeRequest, threadVars
  <2>. QED  BY <1>0, <2>1
<1>2. ASSUME NEW t \in Threads, SendSubscribe(t) \/ Register(t) \/ ConfirmationTimeout(t)
      PROVE  StandInv'
  <2>1. /\ UNCHANGED <<connVars, sock>> /\ phase[t] \in {"ready", "confirmed", "pending"}
        /\ phase'[t] \in {"pending", "active", "settled", Failed(t)}
        /\ \A u \in Threads : u # t => phase'[u] = phase[u]
    BY <1>2, <1>b DEF SendSubscribe, Register, ConfirmationTimeout, TypeOK
  <2>. QED  BY <1>0, <1>a, <2>1
<1>3. ASSUME NEW c \in Calls, Unsubscribe(c) PROVE StandInv'
  <2>1. UNCHANGED <<connVars, sock>> /\ \A s \in Sockets : phase'[s] = phase[s]
    BY <1>3, <1>a, <1>b DEF Unsubscribe, TypeOK
  <2>. QED  BY <1>0, <2>1
<1>4. ASSUME NEW s \in Sockets, OnMessage(s) PROVE StandInv'
  <2>1. /\ UNCHANGED <<connVars, sock>>
        /\ \A r \in Sockets : \/ phase'[r] = phase[r]
                              \/ phase[r] = "pending" /\ phase'[r] = "confirmed"
    BY <1>4, <1>a DEF OnMessage
  <2>. QED  BY <1>0, <2>1
<1>5. ASSUME NEW s \in Sockets, ResubscribeAll(s) \/ ResubscribeNext(s) PROVE StandInv'
  <2>1. PICK rest \in Seq(Calls) : NextResubscription(s, rest)
    BY <1>5, CallbacksType, RestType DEF ResubscribeAll, ResubscribeNext, IdInv
  <2>2. phase[s] \in {"opened", "settled"}
    BY <1>5 DEF ResubscribeAll, ResubscribeNext
  <2>3. CASE Running
    <3>1. /\ UNCHANGED <<connVars, sock>>
          /\ phase' = [phase EXCEPT ![s] = IF rest = <<>> THEN "done" ELSE "ready"]
      BY <2>1, <2>2, <2>3, LoopGoesOn DEF StandInv
    <3>2. \A r \in Sockets : On(r)
      BY <1>b, <2>2, <3>1 DEF TypeOK
    <3>. QED  BY <1>0, <3>1, <3>2
  <2>4. CASE ~Running
    <3>1. UNCHANGED <<isConnected, reconnectAttempt, telling>>
      BY <2>1 DEF NextResubscription
    <3>. QED  BY <1>b, <2>4, <3>1 DEF StandInv
  <2>. QED  BY <2>3, <2>4
<1>6. CASE Close
  <2>1. isConnected' = FALSE /\ isUserClose' /\ UNCHANGED <<telling, reconnectAttempt>>
    BY <1>6 DEF Close
  <2>. QED  BY <2>1 DEF StandInv, Running
<1>7. ASSUME NEW c \in Calls, Subscribe(c) PROVE StandInv'
  <2>1. /\ UNCHANGED <<setting, isConnected, isUserClose, reconnectAttempt, timerArmed,
                       lostTimers, telling>>
        /\ EnsureConnected(c) \/ UrlRefused(c)
        /\ setting.careful => /\ telling = "nothing"
                              /\ \/ isConnected
                                 \/ connectionPromise # NoSocket
                                 \/ ~timerArmed /\ \A s \in Sockets : ~Live(s)
    BY <1>7 DEF Subscribe
  <2>2. \A s \in Sockets : phase'[s] = phase[s]
    BY <1>7, <1>a, <1>b, SubscribeMoves
  <2>3. CASE UNCHANGED <<ws, connectionPromise, sock>>
    BY <1>0, <2>1, <2>2, <2>3 DEF connVars
  <2>4. ASSUME Running, NEW s \in Sockets, Connect(s), connectionPromise' = s,
               ~(isConnected /\ ws # NoSocket), connectionPromise = NoSocket
        PROVE  StandInv'
    <3>1. Calm /\ LoopStands /\ setting.careful
      BY <1>c, <2>4 DEF StandInv, Running
    <3>2. ~timerArmed /\ ws = NoSocket
      BY <1>b, <2>1, <2>4, <3>1 DEF Calm, Live, TypeOK
    <3>3. timerArmed' = FALSE /\ lostTimers' = 0
      BY <1>b, <2>1, <3>1, <3>2 DEF Calm, TypeOK
    <3>4. Calm' /\ LoopStands'
      BY <2>1, <2>2, <2>4, <3>1, <3>2, <3>3, Connects
    <3>. QED  BY <2>1, <3>4 DEF StandInv
  <2>5. CASE ~Running
    BY <1>b, <2>1, <2>5 DEF StandInv
  <2>. QED  BY <2>1, <2>3, <2>4, <2>5 DEF EnsureConnected, UrlRefused, JoinConnection
<1>8. ASSUME NEW s \in Sockets, OnOpen(s) PROVE StandInv'
  <2>1. /\ sock[s] = "connecting" /\ sock' = [sock EXCEPT ![s] = "open"] /\ isConnected' = TRUE
        /\ connectionPromise' = NoSocket /\ reconnectAttempt' = 0
        /\ telling = "nothing" /\ UNCHANGED <<ws, isUserClose, timerArmed, lostTimers, telling>>
        /\ \A r \in Sockets : \/ r = s
                              \/ phase'[r] = phase[r]
                              \/ phase[r] = "connecting" /\ phase'[r] = "ready"
    BY <1>8, <1>a DEF OnOpen, Quiet
  <2>2. CASE Running
    <3>1. /\ Calm /\ ws = s /\ s # NoSocket /\ ~isConnected
          /\ \A r \in Sockets : phase[r] \in {"idle", "done"}
      BY <2>1, <2>2, EvmSessionAssumption DEF StandInv, Calm, LoopStands
    <3>2. Calm'
      BY <1>b, <2>1, <3>1 DEF Calm, TypeOK
    <3>3. LoopStands'
      <4>1. phase'[s] # "connecting"
        BY <1>8, <1>a, <3>1 DEF OnOpen
      <4>. QED  BY <2>1, <3>1, <4>1 DEF LoopStands
    <3>. QED  BY <2>1, <3>2, <3>3 DEF StandInv
  <2>. QED  BY <1>b, <2>1, <2>2 DEF StandInv
<1>9. ASSUME NEW s \in Sockets, OnError(s) PROVE StandInv'
  <2>1. ~Running
    BY <1>9, <1>c DEF OnError, StandInv, Calm, Running
  <2>2. UNCHANGED <<isConnected, reconnectAttempt, telling>>
    BY <1>9 DEF OnError
  <2>. QED  BY <1>b, <2>1, <2>2 DEF StandInv
<1>10. ASSUME NEW s \in Sockets, OnClose(s) PROVE StandInv'
  <2>1. /\ sock[s] \in {"open", "failing", "closing"} /\ sock' = [sock EXCEPT ![s] = "closed"]
        /\ sock[s] = "open" /\ setting.loopUndisturbed => ~Looping
        /\ ws' = NoSocket /\ isConnected' = FALSE
        /\ UNCHANGED <<connectionPromise, isUserClose, reconnectAttempt, timerArmed, lostTimers,
                       phase>>
        /\ telling' = IF isConnected /\ ~isUserClose THEN "disconnect" ELSE "nothing"
    BY <1>10 DEF OnClose, threadVars
  <2>2. CASE Running
    <3>1. Calm /\ LoopStands /\ sock[s] = "open" /\ ws = s /\ s # NoSocket
      BY <2>1, <2>2, EvmSessionAssumption DEF StandInv, Calm
    <3>2. ~timerArmed /\ lostTimers = 0 /\ connectionPromise = NoSocket
      BY <1>b, <3>1 DEF Calm, TypeOK
    <3>3. Calm'
      BY <1>b, <2>1, <3>1, <3>2 DEF Calm, TypeOK
    <3>4. \A r \in Sockets : phase[r] \in {"idle", "done"}
      BY <1>c, <2>1, <2>2, <3>1 DEF Looping, Running
    <3>5. LoopStands'
      BY <2>1, <3>4 DEF LoopStands
    <3>. QED  BY <2>1, <3>3, <3>5 DEF StandInv
  <2>. QED  BY <1>b, <2>1, <2>2 DEF StandInv
<1>11. CASE ReconnectTimer
  <2>1. /\ UNCHANGED <<isConnected, isUserClose, reconnectAttempt, connectionPromise, telling,
                       phase>>
        /\ telling = "nothing"
        /\ \E s \in Sockets : Connect(s)
        /\ \/ timerArmed /\ timerArmed' = FALSE /\ UNCHANGED lostTimers
           \/ lostTimers > 0
    BY <1>11 DEF ReconnectTimer, Quiet, threadVars
  <2>2. CASE Running
    <3>1. Calm /\ LoopStands
      BY <2>2 DEF StandInv
    <3>2. timerArmed /\ timerArmed' = FALSE /\ lostTimers' = 0 /\ ws = NoSocket
      BY <2>1, <3>1 DEF Calm
    <3>3. connectionPromise' = NoSocket
      BY <2>1, <3>1, <3>2, EvmSessionAssumption DEF Calm
    <3>4. Calm' /\ LoopStands'
      BY <2>1, <3>1, <3>2, <3>3, Connects
    <3>. QED  BY <2>1, <3>4 DEF StandInv
  <2>. QED  BY <1>b, <2>1, <2>2 DEF StandInv
<1>12. CASE ScheduleReconnect \/ ArmTimer
  <2>1. /\ telling # "nothing" /\ telling' # "disconnect"
        /\ timerArmed' => telling' = "nothing" \/ timerArmed
        /\ UNCHANGED <<ws, isConnected, connectionPromise, isUserClose, sock>>
        /\ ~timerArmed => lostTimers' = lostTimers
    BY <1>12 DEF ScheduleReconnect, ArmTimer
  <2>2. ~isConnected
    BY <2>1 DEF StandInv
  <2>3. CASE Running
    <3>1. Calm /\ LoopStands /\ ws = NoSocket /\ ~timerArmed
      BY <2>1, <2>3 DEF StandInv, Calm
    <3>2. Calm'
      BY <2>1, <3>1 DEF Calm
    <3>3. \A r \in Sockets : phase[r] \in {"idle", "done"}
      BY <2>2, <3>1 DEF LoopStands
    <3>4. \A r \in Sockets : phase'[r] = phase[r]
      BY <1>12, <1>a, <1>b, <3>3, ScheduleMoves DEF ArmTimer, threadVars
    <3>5. LoopStands'
      BY <3>3, <3>4 DEF LoopStands
    <3>. QED  BY <2>1, <2>2, <3>2, <3>5 DEF StandInv
  <2>. QED  BY <1>b, <2>1, <2>2, <2>3 DEF StandInv
<1>. QED
  BY <1>1, <1>2, <1>3, <1>4, <1>5, <1>6, <1>7, <1>8, <1>9, <1>10, <1>11, <1>12
  DEF Next, Application, Continuation, EventLoop

\* A dropped connection comes back as long as something is registered: the timer runs or is
\* about to be armed, or its socket is connecting.
ComesBack ==
    Reconnects /\ subscriptionInfo # <<>> =>
       \/ isConnected
       \/ timerArmed
       \/ telling # "nothing"
       \/ ws # NoSocket /\ sock[ws] = "connecting" /\ ws \in forReconnect

\* What a loop has asked for reaches the node, what is confirmed the node holds, and what is
\* registered as well, once the stale entries are taken over.
LoopIsAnswered ==
    \A s \in Sockets : phase[s] = "pending" =>
       [op |-> "subscribe", key |-> id[s]] \in outbox[ws] \/ id[s] \in serverSubs[ws]
ConfirmedIsServed ==
    \A t \in Threads : phase[t] = "confirmed" => isConnected /\ id[t] \in serverSubs[ws]
KeysAreServed ==
    Reconnects /\ isConnected /\ phase[ws] # "opened" =>
       \A i \in DOMAIN subscriptionInfo : subscriptionInfo[i].key \in serverSubs[ws]

\* The callback of every handle is registered or awaited by a loop.
NothingIsLost ==
    \A c \in Calls : phase[c] = "active" =>
       c \in Callbacks \/ \E s \in Sockets : c \in AwaitedBy(s)

ServedInv == Running => /\ ComesBack /\ LoopIsAnswered /\ ConfirmedIsServed
                        /\ KeysAreServed /\ NothingIsLost

\* An identifier that is awaited or registered is not a dropped one.
LEMMA NotDropped ==
    ASSUME IdInv
    PROVE  /\ \A t \in Threads : phase[t] \in {"pending", "confirmed"} => id[t] \notin Dropped
           /\ \A i \in DOMAIN subscriptionInfo : subscriptionInfo[i].key \notin Dropped
<1>1. ASSUME NEW t \in Threads, phase[t] \in {"pending", "confirmed"}, NEW c \in Calls,
             phase[c] = "unsubscribed"
      PROVE  id[t] # id[c]
  <2>1. c \in Threads /\ c # t /\ id[t] > 0
    BY <1>1 DEF IdInv, KeyInv, AwaitedIsFresh, Threads
  <2>. QED  BY <2>1 DEF IdInv, KeyInv, IdsDiffer, TypeOK
<1>2. \A t \in Threads : phase[t] \in {"pending", "confirmed"} => id[t] \notin Dropped
  BY <1>1 DEF Dropped
<1>. QED  BY <1>2 DEF Dropped, IdInv, KeyInv, DroppedIsForgotten

\* Whatever an undisturbed session is about to reconnect, it does.
LEMMA ComesBackStep ==
    ASSUME IdInv, StandInv, ServedInv, Running, Running', [Next]_vars
    PROVE  ComesBack'
<1>a. /\ TypeOK /\ Calm /\ LoopStands /\ ComesBack /\ ConfirmedIsServed
      /\ (telling = "disconnect" => reconnectAttempt = 0) /\ setting' = setting
      /\ setting.careful /\ setting.reachable /\ ~isUserClose /\ ~isUserClose'
  BY RunningStays DEF IdInv, StandInv, ServedInv, Running, Undisturbed
<1>0. ASSUME subscriptionInfo' \in {subscriptionInfo, <<>>},
             UNCHANGED <<isConnected, timerArmed, telling, ws, sock, forReconnect>>
      PROVE  ComesBack'
  BY <1>0, <1>a DEF ComesBack, Reconnects, options
<1>1. CASE UNCHANGED vars \/ Node
  BY <1>0, <1>1 DEF vars, connVars, subsVars, Node, NodeRequest
<1>2. ASSUME NEW t \in Threads, SendSubscribe(t) \/ ConfirmationTimeout(t) PROVE ComesBack'
  BY <1>0, <1>2 DEF SendSubscribe, ConfirmationTimeout, connVars
<1>3. ASSUME NEW s \in Sockets, OnMessage(s) PROVE ComesBack'
  BY <1>0, <1>3 DEF OnMessage, connVars
<1>4. ASSUME NEW t \in Threads, Register(t) PROVE ComesBack'
  <2>1. isConnected'
    BY <1>4, <1>a DEF Register, connVars, ConfirmedIsServed
  <2>. QED  BY <2>1 DEF ComesBack
<1>5. ASSUME NEW c \in Calls, Unsubscribe(c) PROVE ComesBack'
  <2>1. UNCHANGED <<isConnected, timerArmed, telling, ws, sock, forReconnect>>
    BY <1>5 DEF Unsubscribe, connVars
  <2>2. subscriptionInfo = <<>> => subscriptionInfo' = <<>>
    <3>1. ASSUME subscriptionInfo = <<>> PROVE DOMAIN subscriptionInfo' = {}
      <4>1. DOMAIN subscriptionInfo = {}
        BY <3>1
      <4>. QED  BY <1>5, <1>a, <4>1, Forgets DEF Unsubscribe, IdInv, KeyInv, TypeOK
    <3>2. subscriptionInfo' \in Seq(Entry)
      BY <1>5, <1>a, Forgets DEF Unsubscribe, IdInv, KeyInv, TypeOK
    <3>. QED  BY <3>1, <3>2
  <2>. QED  BY <1>a, <2>1, <2>2 DEF ComesBack, Reconnects, options
<1>6. ASSUME NEW s \in Sockets, ResubscribeAll(s) \/ ResubscribeNext(s) PROVE ComesBack'
  <2>1. PICK rest \in Seq(Calls) : NextResubscription(s, rest)
    BY <1>6, <1>a, CallbacksType, RestType DEF ResubscribeAll, ResubscribeNext, IdInv
  <2>2. UNCHANGED <<connVars, sock>>
    BY <1>6, <1>a, <2>1, LoopGoesOn DEF ResubscribeAll, ResubscribeNext
  <2>3. subscriptionInfo' \in {subscriptionInfo, <<>>} /\ UNCHANGED forReconnect
    BY <1>6, <2>1 DEF ResubscribeAll, ResubscribeNext, ClearInfos, NextResubscription
  <2>. QED  BY <1>0, <2>2, <2>3 DEF connVars
<1>7. CASE Close
  BY <1>7, <1>a DEF Close
<1>8. ASSUME NEW c \in Calls, Subscribe(c) PROVE ComesBack'
  <2>1. /\ UNCHANGED <<subscriptionInfo, isConnected, timerArmed, telling, forReconnect>>
        /\ EnsureConnected(c) \/ UrlRefused(c)
        /\ telling = "nothing"
        /\ \/ isConnected
           \/ connectionPromise # NoSocket
           \/ ~timerArmed /\ \A s \in Sockets : ~Live(s)
    BY <1>8, <1>a DEF Subscribe, subsVars
  <2>2. CASE UNCHANGED <<ws, sock>>
    BY <1>0, <2>1, <2>2
  <2>3. CASE ~(isConnected /\ ws # NoSocket) /\ ~JoinConnection
    <3>1. ~isConnected /\ ~timerArmed /\ \A s \in Sockets : sock[s] # "connecting"
      BY <1>a, <2>1, <2>3 DEF JoinConnection, Calm, Live
    <3>2. ~Reconnects \/ subscriptionInfo = <<>>
      BY <1>a, <2>1, <3>1 DEF ComesBack, TypeOK
    <3>. QED  BY <1>a, <2>1, <3>2 DEF ComesBack, Reconnects, options
  <2>. QED  BY <2>1, <2>2, <2>3 DEF EnsureConnected, UrlRefused
<1>9. ASSUME NEW s \in Sockets, OnOpen(s) PROVE ComesBack'
  BY <1>9 DEF OnOpen, ComesBack
<1>10. ASSUME NEW s \in Sockets, OnError(s) PROVE ComesBack'
  BY <1>10, <1>a DEF OnError, Calm
<1>11. ASSUME NEW s \in Sockets, OnClose(s) PROVE ComesBack'
  <2>1. isConnected
    BY <1>11, <1>a, EvmSessionAssumption DEF OnClose, Calm
  <2>2. telling' = "disconnect"
    BY <1>11, <1>a, <2>1 DEF OnClose
  <2>. QED  BY <2>2 DEF ComesBack
<1>12. CASE ReconnectTimer
  <2>1. PICK s \in Sockets : Connect(s) /\ forReconnect' = forReconnect \cup {s}
    BY <1>12 DEF ReconnectTimer
  <2>2. ws' = s /\ s # NoSocket /\ sock'[s] = "connecting" /\ s \in forReconnect'
    BY <1>a, <2>1, EvmSessionAssumption DEF Connect, TypeOK
  <2>. QED  BY <2>2 DEF ComesBack
<1>13. CASE ScheduleReconnect
  <2>1. options.maxRetries \in Nat
    BY <1>a, EvmSessionAssumption DEF TypeOK, Setting, options
  <2>2. Reconnects => telling' = "reconnect"
    BY <1>13, <1>a, <2>1 DEF ScheduleReconnect, Reconnects
  <2>. QED  BY <1>a, <2>2 DEF ComesBack, Reconnects, options
<1>14. CASE ArmTimer
  BY <1>14 DEF ArmTimer, ComesBack
<1>. QED
  BY <1>1, <1>2, <1>3, <1>4, <1>5, <1>6, <1>7, <1>8, <1>9, <1>10, <1>11, <1>12, <1>13, <1>14
  DEF Next, Application, Continuation, EventLoop

\* A connection that loses nothing serves on what goes on as before.
Serves == LoopIsAnswered /\ ConfirmedIsServed /\ KeysAreServed
LEMMA ServiceStays ==
    ASSUME IdInv, Calm, LoopStands, Serves, setting' = setting, UNCHANGED <<isConnected, ws>>,
           \A s \in Sockets : s = ws => /\ outbox[s] \subseteq outbox'[s]
                                        /\ serverSubs[s] \subseteq serverSubs'[s],
           \A s \in Sockets : phase'[s] = "pending" => phase[s] = "pending" /\ id'[s] = id[s],
           \A t \in Threads : phase'[t] = "confirmed" => phase[t] = "confirmed" /\ id'[t] = id[t],
           \/ DOMAIN subscriptionInfo' = {}
           \/ /\ \A s \in Sockets : phase[s] = "opened" => phase'[s] = "opened"
              /\ \A i \in DOMAIN subscriptionInfo' : \E j \in DOMAIN subscriptionInfo :
                    subscriptionInfo'[i].key = subscriptionInfo[j].key
    PROVE  Serves'
<1>1. \A s \in Sockets : phase[s] = "pending" => s = ws
  BY DEF LoopStands
<1>2. isConnected => ws \in Sockets
  BY DEF Calm, IdInv, TypeOK
<1>3. LoopIsAnswered'
  BY <1>1 DEF Serves, LoopIsAnswered
<1>4. ConfirmedIsServed'
  BY <1>2 DEF Serves, ConfirmedIsServed
<1>5. KeysAreServed'
  BY <1>2 DEF Serves, KeysAreServed, Reconnects, options
<1>. QED  BY <1>3, <1>4, <1>5 DEF Serves

\* Every step serves what was asked for and what is registered.
LEMMA ServesStep ==
    ASSUME IdInv, StandInv, ServedInv, Running, Running', [Next]_vars
    PROVE  Serves'
<1>a. /\ TypeOK /\ Calm /\ LoopStands /\ ComesBack /\ Serves /\ setting' = setting
      /\ setting.careful /\ setting.reachable /\ ~isUserClose'
  BY RunningStays DEF IdInv, StandInv, ServedInv, Serves, Running, Undisturbed
<1>b. /\ \A s \in Sockets : s \in Threads /\ Failed(s) = "settled" /\ s \notin Calls
      /\ \A c \in Calls : c \in Threads /\ Failed(c) = "rejected" /\ c \notin Sockets
      /\ \A t \in Threads : t \in Calls \/ t \in Sockets
  BY Failing, EvmSessionAssumption DEF Threads
<1>c. /\ isConnected => ws \in Sockets /\ sock[ws] = "open"
      /\ \A t \in Threads : phase[t] \in {"pending", "confirmed"} => id[t] \notin Dropped
      /\ \A i \in DOMAIN subscriptionInfo : subscriptionInfo[i].key \notin Dropped
  BY <1>a, NotDropped DEF Calm, TypeOK
<1>0. ASSUME ~isConnected', \A t \in Threads : phase'[t] # "confirmed",
             \A s \in Sockets : phase'[s] # "pending"
      PROVE  Serves'
  BY <1>0, <1>b DEF Serves, LoopIsAnswered, ConfirmedIsServed, KeysAreServed
<1>1. CASE UNCHANGED vars
  BY <1>1, <1>a, ServiceStays DEF vars, connVars, subsVars, threadVars, wireVars
<1>2. CASE Close
  BY <1>2, <1>a DEF Close
<1>3. ASSUME NEW c \in Calls, Subscribe(c) PROVE Serves'
  <2>1. /\ UNCHANGED <<subscriptionInfo, isConnected, id, outbox, serverSubs>>
        /\ EnsureConnected(c) \/ UrlRefused(c)
        /\ phase[c] = "idle" /\ \A u \in Threads : u # c => phase'[u] = phase[u]
        /\ phase'[c] \in {"ready", "connecting", "rejected"}
    BY <1>3, <1>a, <1>b, SubscribeMoves DEF Subscribe, subsVars, wireVars
  <2>2. CASE UNCHANGED ws
    BY <1>a, <1>b, <2>1, <2>2, ServiceStays
  <2>3. CASE ~(isConnected /\ ws # NoSocket) /\ ~JoinConnection
    <3>1. ~isConnected
      BY <1>a, <2>3 DEF Calm
    <3>2. \A s \in Sockets : phase'[s] \in {"idle", "done"}
      BY <1>a, <1>b, <2>1, <3>1 DEF LoopStands
    <3>3. \A t \in Threads : phase'[t] # "confirmed"
      BY <1>a, <2>1, <3>1 DEF Serves, ConfirmedIsServed
    <3>. QED  BY <1>0, <1>b, <2>1, <3>1, <3>2, <3>3
  <2>. QED  BY <2>1, <2>2, <2>3 DEF EnsureConnected, UrlRefused
<1>4. ASSUME NEW c \in Calls, Unsubscribe(c) PROVE Serves'
  <2>1. /\ UNCHANGED <<isConnected, ws, id, serverSubs>>
        /\ phase'[c] = "unsubscribed" /\ \A u \in Threads : u # c => phase'[u] = phase[u]
    BY <1>4, <1>a, <1>b DEF Unsubscribe, connVars, TypeOK
  <2>2. \A s \in Sockets : outbox[s] \subseteq outbox'[s]
    BY <1>4, <1>a DEF Unsubscribe, Sent, TypeOK
  <2>3. \A i \in DOMAIN subscriptionInfo' : \E j \in DOMAIN subscriptionInfo :
           subscriptionInfo'[i].key = subscriptionInfo[j].key
    BY <1>4, <1>a, Forgets DEF Unsubscribe, IdInv, KeyInv, TypeOK
  <2>. QED  BY <1>a, <1>b, <2>1, <2>2, <2>3, ServiceStays
<1>5. ASSUME NEW t \in Threads, SendSubscribe(t) PROVE Serves'
  <2>. DEFINE request == [op |-> "subscribe", key |-> messageIdCounter']
  <2>1. /\ UNCHANGED <<isConnected, ws, subscriptionInfo, serverSubs, sock>> /\ phase[t] = "ready"
        /\ phase'[t] \in {"pending", Failed(t)} /\ id'[t] = messageIdCounter'
        /\ \A u \in Threads : u # t => phase'[u] = phase[u] /\ id'[u] = id[u]
    BY <1>5, <1>a DEF SendSubscribe, connVars, TypeOK
  <2>2. \A s \in Sockets : outbox[s] \subseteq outbox'[s]
    BY <1>5, <1>a DEF SendSubscribe, Sent, TypeOK
  <2>3. CASE t \in Calls
    BY <1>a, <1>b, <2>1, <2>2, <2>3, ServiceStays
  <2>4. CASE t \in Sockets
    <3>1. isConnected /\ t = ws /\ sock[ws] = "open" /\ ws # NoSocket
      BY <1>a, <2>1, <2>4 DEF LoopStands, Calm
    <3>2. ~SendRaises
      BY <3>1 DEF SendRaises
    <3>3. outbox' = [outbox EXCEPT ![ws] = @ \cup {request}]
      BY <1>5, <3>1, <3>2 DEF SendSubscribe, Sent
    <3>4. request \in outbox'[ws]
      BY <1>a, <2>4, <3>1, <3>3 DEF TypeOK
    <3>5. LoopIsAnswered'
      <4>1. \A s \in Sockets : phase'[s] = "pending" => s = ws
        BY <1>a, <1>b, <2>1, <2>4, <3>1 DEF LoopStands
      <4>. QED  BY <2>1, <2>4, <3>1, <3>4, <4>1 DEF LoopIsAnswered
    <3>6. ConfirmedIsServed'
      BY <1>a, <1>b, <2>1, <2>4 DEF Serves, ConfirmedIsServed
    <3>7. KeysAreServed'
      BY <1>a, <1>b, <2>1, <2>4, <3>1 DEF Serves, KeysAreServed, Reconnects, options
    <3>. QED  BY <3>5, <3>6, <3>7 DEF Serves
  <2>. QED  BY <1>b, <2>3, <2>4
<1>6. ASSUME NEW t \in Threads, Register(t) PROVE Serves'
  <2>. DEFINE e == [key |-> id[t], callback |-> Callback(t)]
  <2>1. /\ phase[t] = "confirmed" /\ UNCHANGED <<isConnected, ws, id, outbox, serverSubs>>
        /\ subscriptionInfo' = Append(subscriptionInfo, e) /\ e.key = id[t]
        /\ phase'[t] \in {"active", "settled"}
        /\ \A u \in Threads : u # t => phase'[u] = phase[u]
    BY <1>6, <1>a DEF Register, connVars, wireVars, TypeOK
  <2>. HIDE DEF e
  <2>2. isConnected /\ id[t] \in serverSubs[ws]
    BY <1>a, <2>1 DEF Serves, ConfirmedIsServed
  <2>3. \A i \in DOMAIN subscriptionInfo' :
           \/ i \in DOMAIN subscriptionInfo /\ subscriptionInfo'[i] = subscriptionInfo[i]
           \/ subscriptionInfo'[i] = e
    <3>1. subscriptionInfo \in Seq(Entry)
      BY <1>a DEF TypeOK
    <3>. QED  BY <2>1, <3>1
  <2>4. phase'[ws] # "opened" => phase[ws] # "opened"
    BY <1>b, <1>c, <2>1, <2>2
  <2>5. KeysAreServed'
    BY <1>a, <2>1, <2>2, <2>3, <2>4 DEF Serves, KeysAreServed, Reconnects, options
  <2>6. LoopIsAnswered' /\ ConfirmedIsServed'
    BY <1>a, <1>b, <2>1 DEF Serves, LoopIsAnswered, ConfirmedIsServed
  <2>. QED  BY <2>5, <2>6 DEF Serves
<1>7. ASSUME NEW t \in Threads, ConfirmationTimeout(t) PROVE Serves'
  <2>1. /\ UNCHANGED <<isConnected, ws, subscriptionInfo, id, outbox, serverSubs>>
        /\ phase[t] = "pending" /\ phase'[t] = Failed(t)
        /\ \A u \in Threads : u # t => phase'[u] = phase[u]
    BY <1>7, <1>a DEF ConfirmationTimeout, connVars, wireVars, TypeOK
  <2>. QED  BY <1>a, <1>b, <2>1, ServiceStays
<1>8. ASSUME NEW s \in Sockets, ResubscribeAll(s) \/ ResubscribeNext(s) PROVE Serves'
  <2>1. PICK rest \in Seq(Calls) : NextResubscription(s, rest)
    BY <1>8, <1>a, CallbacksType, RestType DEF ResubscribeAll, ResubscribeNext, IdInv
  <2>2. /\ UNCHANGED connVars /\ UNCHANGED <<id, outbox, serverSubs>>
        /\ phase' = [phase EXCEPT ![s] = IF rest = <<>> THEN "done" ELSE "ready"]
    BY <1>8, <1>a, <2>1, LoopGoesOn
    DEF ResubscribeAll, ResubscribeNext, NextResubscription, wireVars
  <2>3. phase'[s] \in {"done", "ready"} /\ \A u \in Threads : u # s => phase'[u] = phase[u]
    BY <1>a, <1>b, <2>2 DEF TypeOK
  <2>4. \/ DOMAIN subscriptionInfo' = {}
        \/ UNCHANGED subscriptionInfo /\ phase[s] = "settled"
    <3>1. DOMAIN <<>> = {}
      OBVIOUS
    <3>. QED  BY <1>8, <3>1 DEF ResubscribeAll, ResubscribeNext, ClearInfos
  <2>. QED  BY <1>a, <1>b, <2>2, <2>3, <2>4, ServiceStays DEF connVars
<1>9. ASSUME NEW s \in Sockets, OnOpen(s) PROVE Serves'
  <2>1. /\ sock[s] = "connecting" /\ ws = s /\ s # NoSocket /\ ~isConnected /\ ws' = s
        /\ UNCHANGED subscriptionInfo
    BY <1>9, <1>a, EvmSessionAssumption DEF OnOpen, Calm, subsVars
  <2>2. \A r \in Sockets : phase[r] \in {"idle", "done"}
    BY <1>a, <2>1 DEF LoopStands
  <2>3. \A t \in Threads : phase[t] # "confirmed"
    BY <1>a, <2>1 DEF Serves, ConfirmedIsServed
  <2>4. \A t \in Threads : phase'[t] \in {phase[t], "opened", "ready"}
    BY <1>9 DEF OnOpen
  <2>5. LoopIsAnswered' /\ ConfirmedIsServed'
    BY <1>b, <2>2, <2>3, <2>4 DEF LoopIsAnswered, ConfirmedIsServed
  <2>6. s \in forReconnect => phase'[s] = "opened"
    BY <1>9, <1>b DEF OnOpen
  <2>7. KeysAreServed'
    <3>1. CASE s \in forReconnect
      BY <2>1, <2>6, <3>1 DEF KeysAreServed
    <3>2. CASE s \notin forReconnect
      <4>1. Reconnects => subscriptionInfo = <<>>
        BY <1>a, <2>1, <3>2 DEF ComesBack, Calm
      <4>2. Reconnects => DOMAIN subscriptionInfo' = {}
        <5>1. DOMAIN <<>> = {}
          OBVIOUS
        <5>. QED  BY <2>1, <4>1, <5>1
      <4>. QED  BY <1>a, <4>2 DEF KeysAreServed, Reconnects, options
    <3>. QED  BY <3>1, <3>2
  <2>. QED  BY <2>5, <2>7 DEF Serves
<1>10. ASSUME NEW s \in Sockets, OnError(s) PROVE Serves'
  BY <1>10, <1>a DEF OnError, Calm
<1>11. ASSUME NEW s \in Sockets, OnClose(s) PROVE Serves'
  <2>1. /\ ~isConnected' /\ UNCHANGED phase
        /\ \A t \in Threads : phase[t] # "confirmed"
    BY <1>11 DEF OnClose, Quiet, threadVars
  <2>2. \A r \in Sockets : phase[r] \in {"idle", "done"}
    BY <1>11, <1>a DEF OnClose, Looping, Running, Undisturbed, Calm
  <2>. QED  BY <1>0, <1>b, <2>1, <2>2
<1>12. CASE ReconnectTimer
  <2>1. UNCHANGED <<phase, isConnected>> /\ \A t \in Threads : phase[t] # "confirmed"
    BY <1>12 DEF ReconnectTimer, Quiet, threadVars
  <2>2. ~isConnected
    BY <1>12, <1>a DEF ReconnectTimer, Calm
  <2>3. \A r \in Sockets : phase[r] \in {"idle", "done"}
    BY <1>a, <2>2 DEF LoopStands
  <2>. QED  BY <1>0, <1>b, <2>1, <2>2, <2>3
<1>13. ASSUME NEW s \in Sockets, OnMessage(s) PROVE Serves'
  <2>1. /\ s = ws /\ isConnected /\ Head(inbox[s]) \in serverSubs[s] \cup Dropped
    <3>1. inbox[s] \in Seq(Nat) /\ inbox[s] # <<>> /\ sock[s] = "open"
      BY <1>13, <1>a DEF OnMessage, TypeOK
    <3>2. 1 \in DOMAIN inbox[s] /\ Head(inbox[s]) = inbox[s][1]
      BY <3>1
    <3>3. s = ws /\ isConnected
      BY <1>a, <3>1, EvmSessionAssumption DEF Calm
    <3>. QED  BY <3>2, <3>3 DEF IdInv, WireInv, ConfirmedIsHeld
  <2>2. /\ UNCHANGED <<isConnected, ws, subscriptionInfo, id, outbox, serverSubs>>
        /\ \A t \in Threads :
              \/ phase'[t] = phase[t]
              \/ phase[t] = "pending" /\ id[t] = Head(inbox[s]) /\ phase'[t] = "confirmed"
    BY <1>13 DEF OnMessage, connVars
  <2>3. ConfirmedIsServed'
    BY <1>a, <1>c, <2>1, <2>2 DEF Serves, ConfirmedIsServed
  <2>4. LoopIsAnswered' /\ KeysAreServed'
    BY <1>a, <1>b, <2>1, <2>2 DEF Serves, LoopIsAnswered, KeysAreServed, Reconnects, options
  <2>. QED  BY <2>3, <2>4 DEF Serves
<1>14. ASSUME NEW s \in Sockets, NEW r \in outbox[s], NodeRequest(s, r) PROVE Serves'
  <2>1. UNCHANGED <<isConnected, ws, subscriptionInfo, id, phase>>
    BY <1>14 DEF NodeRequest, connVars, subsVars, threadVars
  <2>2. ws \in Sockets => \A k \in serverSubs[ws] : k \in serverSubs'[ws] \/ k \in Dropped
    <3>1. r.op = "unsubscribe" => r.key \in Dropped
      BY DEF IdInv, WireInv, UnsubscribedIsDropped
    <3>2. \A t \in Sockets : serverSubs'[t] = serverSubs[t] \/
             \A k \in serverSubs[t] : k \in serverSubs'[t] \/ (r.op = "unsubscribe" /\ k = r.key)
      BY <1>14, <1>a DEF NodeRequest, TypeOK
    <3>. QED  BY <3>1, <3>2
  <2>3. \A q \in outbox[ws] : \/ q \in outbox'[ws]
                              \/ q.op = "subscribe" => q.key \in serverSubs'[ws]
    <3>1. setting.nodeAnswers
      BY DEF Running, Undisturbed
    <3>. QED  BY <1>14, <1>a, <3>1 DEF NodeRequest, TypeOK
  <2>4. LoopIsAnswered'
    <3>. SUFFICES ASSUME NEW t \in Sockets, phase[t] = "pending"
                  PROVE  \/ [op |-> "subscribe", key |-> id[t]] \in outbox'[ws]
                         \/ id[t] \in serverSubs'[ws]
      BY <2>1 DEF LoopIsAnswered
    <3>1. [op |-> "subscribe", key |-> id[t]] \in outbox[ws] \/ id[t] \in serverSubs[ws]
      BY <1>a DEF Serves, LoopIsAnswered
    <3>2. ws \in Sockets
      BY <1>a DEF LoopStands
    <3>. QED  BY <1>b, <1>c, <2>2, <2>3, <3>1, <3>2
  <2>5. ConfirmedIsServed'
    BY <1>a, <1>c, <2>1, <2>2 DEF Serves, ConfirmedIsServed
  <2>6. KeysAreServed'
    BY <1>a, <1>c, <2>1, <2>2 DEF Serves, KeysAreServed, Reconnects, options
  <2>. QED  BY <2>4, <2>5, <2>6 DEF Serves
<1>15. CASE ScheduleReconnect \/ ArmTimer
  <2>1. ~isConnected
    BY <1>15 DEF ScheduleReconnect, ArmTimer, StandInv
  <2>2. UNCHANGED isConnected /\ \A t \in Threads : phase'[t] \in {phase[t], Failed(t)}
    BY <1>15, <1>a, ScheduleMoves DEF ScheduleReconnect, ArmTimer, threadVars
  <2>3. /\ \A r \in Sockets : phase[r] \in {"idle", "done"}
        /\ \A t \in Threads : phase[t] # "confirmed"
    BY <1>a, <2>1 DEF LoopStands, Serves, ConfirmedIsServed
  <2>. QED  BY <1>0, <1>b, <2>1, <2>2, <2>3
<1>. QED
  BY <1>1, <1>2, <1>3, <1>4, <1>5, <1>6, <1>7, <1>8, <1>9, <1>10, <1>11, <1>12, <1>13, <1>14, <1>15
  DEF Next, Application, Continuation, EventLoop, Node

\* A loop that goes on with the same work awaits the same callbacks, one that is through none.
LEMMA AwaitedStays ==
    ASSUME TypeOK, NEW s \in Sockets
    PROVE  /\ /\ todo'[s] = todo[s]
              /\ phase'[s] = phase[s] \/ (phase[s] \in UnderWay /\ phase'[s] \in UnderWay)
              => AwaitedBy(s)' = AwaitedBy(s)
           /\ phase[s] \in {"idle", "opened", "done"} => AwaitedBy(s) = {}
<1>1. phase[s] \in LoopPhases
  BY DEF TypeOK
<1>2. ASSUME todo'[s] = todo[s],
             phase'[s] = phase[s] \/ (phase[s] \in UnderWay /\ phase'[s] \in UnderWay)
      PROVE  AwaitedBy(s)' = AwaitedBy(s)
  <2>1. Awaiting(s)' = Awaiting(s)
    BY <1>1, <1>2, AwaitingIs, AwaitingThen DEF LoopPhases, UnderWay
  <2>. QED  BY <2>1 DEF AwaitedBy
<1>3. ASSUME phase[s] \in {"idle", "opened", "done"} PROVE AwaitedBy(s) = {}
  <2>1. DOMAIN Awaiting(s) = {}
    BY <1>3, AwaitingIs
  <2>. QED  BY <2>1 DEF AwaitedBy
<1>. QED  BY <1>2, <1>3

\* No step of an undisturbed session loses a callback.
LEMMA LostStep ==
    ASSUME IdInv, StandInv, ServedInv, Running, Running', [Next]_vars
    PROVE  NothingIsLost'
<1>a. /\ TypeOK /\ Calm /\ LoopStands /\ Serves /\ NothingIsLost /\ setting' = setting
      /\ setting.reachable /\ setting.nodeAnswers /\ setting.loopUndisturbed /\ ~isUserClose'
  BY RunningStays DEF IdInv, StandInv, ServedInv, Serves, Running, Undisturbed
<1>b. /\ \A s \in Sockets : s \in Threads /\ Failed(s) = "settled" /\ s \notin Calls
      /\ \A c \in Calls : c \in Threads /\ Failed(c) = "rejected" /\ c \notin Sockets
      /\ \A t \in Threads : t \in Calls \/ t \in Sockets
  BY Failing, EvmSessionAssumption DEF Threads
<1>0. ASSUME \A c \in Calls : phase'[c] = "active" => phase[c] = "active",
             Callbacks \subseteq Callbacks', \A s \in Sockets : AwaitedBy(s) \subseteq AwaitedBy(s)'
      PROVE  NothingIsLost'
  BY <1>0, <1>a DEF NothingIsLost
<1>. DEFINE On(s) == \/ phase'[s] = phase[s]
                     \/ phase[s] \in UnderWay /\ phase'[s] \in UnderWay
                     \/ phase[s] \in {"idle", "done"}
<1>00. ASSUME \A c \in Calls : phase'[c] = "active" => phase[c] = "active",
              UNCHANGED <<subscriptionInfo, todo>>, \A s \in Sockets : On(s)
       PROVE  NothingIsLost'
  <2>1. Callbacks' = Callbacks
    BY <1>00 DEF Callbacks
  <2>2. \A s \in Sockets : AwaitedBy(s) \subseteq AwaitedBy(s)'
    BY <1>00, <1>a, AwaitedStays
  <2>. QED  BY <1>0, <1>00, <2>1, <2>2
<1>1. CASE UNCHANGED vars \/ ArmTimer \/ ReconnectTimer \/ Node
  <2>1. UNCHANGED <<subscriptionInfo, phase, todo>>
    BY <1>1 DEF vars, ArmTimer, ReconnectTimer, Node, NodeRequest, subsVars, threadVars
  <2>. QED  BY <1>00, <2>1
<1>2. CASE Close
  BY <1>2, <1>a DEF Close
<1>3. ASSUME NEW c \in Calls, Subscribe(c) PROVE NothingIsLost'
  <2>1. /\ UNCHANGED <<subscriptionInfo, todo>>
        /\ phase'[c] \in {"ready", "connecting", "rejected"}
        /\ \A t \in Threads : t # c => phase'[t] = phase[t]
    BY <1>3, <1>a, <1>b, SubscribeMoves DEF Subscribe, subsVars
  <2>. QED  BY <1>00, <1>b, <2>1
<1>4. ASSUME NEW c \in Calls, Unsubscribe(c) PROVE NothingIsLost'
  <2>1. /\ UNCHANGED todo /\ phase'[c] = "unsubscribed"
        /\ \A u \in Threads : u # c => phase'[u] = phase[u]
    BY <1>4, <1>a, <1>b DEF Unsubscribe, TypeOK
  <2>2. \A s \in Sockets : AwaitedBy(s)' = AwaitedBy(s)
    BY <1>a, <1>b, <2>1, AwaitedStays
  <2>3. \A d \in Callbacks : d # c => d \in Callbacks'
    <3>. SUFFICES ASSUME NEW j \in DOMAIN subscriptionInfo, subscriptionInfo[j].callback # c
                  PROVE  subscriptionInfo[j].callback \in Callbacks'
      BY DEF Callbacks
    <3>1. subscriptionInfo[j].key # id[c]
      BY DEF IdInv, KeyInv, KeysAreGiven
    <3>2. \E i \in DOMAIN subscriptionInfo' : subscriptionInfo'[i] = subscriptionInfo[j]
      BY <1>4, <1>a, <3>1, Forgets DEF Unsubscribe, IdInv, KeyInv, TypeOK
    <3>. QED  BY <3>2 DEF Callbacks
  <2>. QED  BY <1>a, <1>b, <2>1, <2>2, <2>3 DEF NothingIsLost
<1>5. ASSUME NEW t \in Threads, SendSubscribe(t) PROVE NothingIsLost'
  <2>1. /\ UNCHANGED <<subscriptionInfo, todo>> /\ phase[t] = "ready"
        /\ phase'[t] \in {"pending", Failed(t)} /\ (~SendRaises => phase'[t] = "pending")
        /\ \A u \in Threads : u # t => phase'[u] = phase[u]
    BY <1>5, <1>a DEF SendSubscribe, TypeOK
  <2>2. t \in Sockets => phase'[t] = "pending"
    BY <1>a, <2>1 DEF LoopStands, Calm, SendRaises
  <2>. QED  BY <1>00, <1>b, <2>1, <2>2 DEF UnderWay
<1>6. ASSUME NEW t \in Threads, Register(t) PROVE NothingIsLost'
  <2>. DEFINE e == [key |-> id[t], callback |-> Callback(t)]
  <2>1. /\ phase[t] = "confirmed" /\ UNCHANGED todo
        /\ subscriptionInfo' = Append(subscriptionInfo, e) /\ e.callback = Callback(t)
        /\ phase'[t] = (IF t \in Calls THEN "active" ELSE "settled")
        /\ \A u \in Threads : u # t => phase'[u] = phase[u]
    BY <1>6, <1>a DEF Register, TypeOK
  <2>. HIDE DEF e
  <2>2. Callbacks \subseteq Callbacks' /\ Callback(t) \in Callbacks'
    <3>1. /\ \A i \in DOMAIN subscriptionInfo :
                i \in DOMAIN subscriptionInfo' /\ subscriptionInfo'[i] = subscriptionInfo[i]
          /\ \E i \in DOMAIN subscriptionInfo' : subscriptionInfo'[i] = e
      <4>1. subscriptionInfo \in Seq(Entry)
        BY <1>a DEF TypeOK
      <4>. DEFINE n == Len(subscriptionInfo) + 1
      <4>2. n \in DOMAIN subscriptionInfo' /\ subscriptionInfo'[n] = e
        BY <2>1, <4>1
      <4>. QED  BY <2>1, <4>1, <4>2
    <3>. QED  BY <2>1, <3>1 DEF Callbacks
  <2>3. CASE t \in Calls
    <3>1. \A s \in Sockets : AwaitedBy(s)' = AwaitedBy(s)
      BY <1>a, <1>b, <2>1, <2>3, AwaitedStays
    <3>2. Callback(t) = t
      BY <2>3 DEF Callback
    <3>. QED  BY <1>a, <1>b, <2>1, <2>2, <3>1, <3>2 DEF NothingIsLost
  <2>4. CASE t \in Sockets
    <3>1. \A s \in Sockets : s # t => AwaitedBy(s)' = AwaitedBy(s)
      BY <1>a, <1>b, <2>1, AwaitedStays
    <3>2. \A c \in AwaitedBy(t) : c \in Callbacks' \/ c \in AwaitedBy(t)'
      <4>1. /\ Awaiting(t) = todo[t] /\ Awaiting(t)' = Tail(todo[t]) /\ Callback(t) = Head(todo[t])
            /\ todo[t] \in Seq(Calls) /\ todo[t] # <<>>
        BY <1>a, <1>b, <2>1, <2>4, AwaitingIs, AwaitingThen
        DEF UnderWay, Callback, IdInv, LoopHasWork, TypeOK
      <4>2. \A i \in DOMAIN todo[t] : todo[t][i] = Head(todo[t]) \/
               \E j \in DOMAIN Tail(todo[t]) : Tail(todo[t])[j] = todo[t][i]
        <5>1. \A i \in DOMAIN todo[t] : i # 1 =>
                 i - 1 \in DOMAIN Tail(todo[t]) /\ Tail(todo[t])[i - 1] = todo[t][i]
          BY <4>1
        <5>2. Head(todo[t]) = todo[t][1]
          BY <4>1
        <5>. QED  BY <5>1, <5>2
      <4>. QED  BY <2>2, <4>1, <4>2 DEF AwaitedBy
    <3>3. \A c \in Calls : phase'[c] = phase[c]
      BY <1>b, <2>1, <2>4
    <3>. QED  BY <1>a, <2>2, <3>1, <3>2, <3>3 DEF NothingIsLost
  <2>. QED  BY <1>b, <2>3, <2>4
<1>7. ASSUME NEW t \in Threads, ConfirmationTimeout(t) PROVE NothingIsLost'
  <2>1. /\ UNCHANGED <<subscriptionInfo, todo>> /\ phase[t] = "pending" /\ phase'[t] = Failed(t)
        /\ \A u \in Threads : u # t => phase'[u] = phase[u]
        /\ \A s \in Sockets : sock[s] = "open" =>
              [op |-> "subscribe", key |-> id[t]] \notin outbox[s] /\ id[t] \notin serverSubs[s]
    BY <1>7, <1>a DEF ConfirmationTimeout, TypeOK
  <2>2. t \notin Sockets
    <3>. SUFFICES ASSUME t \in Sockets PROVE FALSE
      OBVIOUS
    <3>1. t = ws /\ sock[ws] = "open"
      BY <1>a, <2>1 DEF LoopStands, Calm
    <3>. QED  BY <1>a, <2>1, <3>1 DEF Serves, LoopIsAnswered
  <2>. QED  BY <1>00, <1>b, <2>1, <2>2
<1>8. ASSUME NEW s \in Sockets, ResubscribeAll(s) PROVE NothingIsLost'
  <2>. DEFINE rest == [i \in DOMAIN subscriptionInfo |-> subscriptionInfo[i].callback]
  <2>1. rest \in Seq(Calls) /\ NextResubscription(s, rest) /\ phase[s] = "opened"
    BY <1>8, <1>a, CallbacksType DEF ResubscribeAll
  <2>2. /\ DOMAIN rest = DOMAIN subscriptionInfo
        /\ \A i \in DOMAIN rest : rest[i] = subscriptionInfo[i].callback
    OBVIOUS
  <2>. HIDE DEF rest
  <2>3. /\ todo' = [todo EXCEPT ![s] = rest]
        /\ phase' = [phase EXCEPT ![s] = IF rest = <<>> THEN "done" ELSE "ready"]
    BY <1>a, <2>1, LoopGoesOn
  <2>4. /\ todo'[s] = rest /\ phase'[s] = IF rest = <<>> THEN "done" ELSE "ready"
        /\ \A r \in Sockets : r # s => todo'[r] = todo[r] /\ phase'[r] = phase[r]
        /\ \A c \in Calls : phase'[c] = phase[c]
    BY <1>a, <1>b, <2>3 DEF TypeOK
  <2>5. Awaiting(s)' = rest
    BY <2>4, AwaitingThen DEF UnderWay
  <2>6. AwaitedBy(s)' = Callbacks
    BY <2>2, <2>5 DEF AwaitedBy, Callbacks
  <2>7. AwaitedBy(s) = {} /\ \A r \in Sockets : r # s => AwaitedBy(r)' = AwaitedBy(r)
    BY <1>a, <2>1, <2>4, AwaitedStays
  <2>. QED  BY <1>a, <2>4, <2>6, <2>7 DEF NothingIsLost
<1>9. ASSUME NEW s \in Sockets, ResubscribeNext(s) PROVE NothingIsLost'
  <2>1. /\ phase[s] = "settled" /\ NextResubscription(s, Remaining(s)) /\ UNCHANGED subscriptionInfo
        /\ Remaining(s) \in Seq(Calls)
    BY <1>9, <1>a, RestType DEF ResubscribeNext, IdInv
  <2>2. /\ todo' = [todo EXCEPT ![s] = Remaining(s)]
        /\ phase' = [phase EXCEPT ![s] = IF Remaining(s) = <<>> THEN "done" ELSE "ready"]
    BY <1>a, <2>1, LoopGoesOn
  <2>3. /\ todo'[s] = Remaining(s) /\ phase'[s] = IF Remaining(s) = <<>> THEN "done" ELSE "ready"
        /\ \A r \in Sockets : r # s => todo'[r] = todo[r] /\ phase'[r] = phase[r]
        /\ \A c \in Calls : phase'[c] = phase[c]
    BY <1>a, <1>b, <2>2 DEF TypeOK
  <2>4. Awaiting(s)' = Awaiting(s)
    BY <2>1, <2>3, AwaitingIs, AwaitingThen DEF UnderWay, Remaining
  <2>5. AwaitedBy(s)' = AwaitedBy(s)
    BY <2>4 DEF AwaitedBy
  <2>6. \A r \in Sockets : r # s => AwaitedBy(r)' = AwaitedBy(r)
    BY <1>a, <2>3, AwaitedStays
  <2>7. Callbacks' = Callbacks
    BY <2>1 DEF Callbacks
  <2>. QED  BY <1>0, <2>3, <2>5, <2>6, <2>7
<1>10. ASSUME NEW s \in Sockets, OnOpen(s) PROVE NothingIsLost'
  <2>1. ~isConnected /\ UNCHANGED <<subscriptionInfo, todo>>
    BY <1>10, <1>a DEF OnOpen, Calm, subsVars
  <2>2. \A r \in Sockets : phase[r] \in {"idle", "done"}
    BY <1>a, <2>1 DEF LoopStands
  <2>3. \A c \in Calls : phase'[c] \in {phase[c], "ready"}
    BY <1>10, <1>b DEF OnOpen
  <2>. QED  BY <1>00, <2>1, <2>2, <2>3
<1>11. ASSUME NEW s \in Sockets, OnError(s) PROVE NothingIsLost'
  BY <1>11, <1>a DEF OnError, Calm
<1>12. ASSUME NEW s \in Sockets, OnClose(s) PROVE NothingIsLost'
  BY <1>00, <1>12 DEF OnClose, subsVars, threadVars
<1>14. CASE ScheduleReconnect
  <2>1. UNCHANGED <<subscriptionInfo, todo>> /\ \A r \in Sockets : phase[r] \in {"idle", "done"}
    BY <1>14, <1>a DEF ScheduleReconnect, StandInv, LoopStands
  <2>2. \A c \in Calls : phase'[c] \in {phase[c], "rejected"}
    BY <1>14, <1>a, <1>b, ScheduleMoves
  <2>. QED  BY <1>00, <2>1, <2>2
<1>13. ASSUME NEW s \in Sockets, OnMessage(s) PROVE NothingIsLost'
  <2>1. /\ UNCHANGED <<subscriptionInfo, todo>>
        /\ \A t \in Threads : \/ phase'[t] = phase[t]
                              \/ phase[t] = "pending" /\ phase'[t] = "confirmed"
    BY <1>13 DEF OnMessage
  <2>. QED  BY <1>00, <1>b, <2>1 DEF UnderWay
<1>. QED
  BY <1>1, <1>2, <1>3, <1>4, <1>5, <1>6, <1>7, <1>8, <1>9, <1>10, <1>11, <1>12, <1>13, <1>14
  DEF Next, Application, Continuation, EventLoop

\* The strengthening in the words of the property.
LEMMA ServedIsUndisturbed == IdInv /\ StandInv /\ ServedInv => UndisturbedIsServed
<1>1. ASSUME ServedInv, Undisturbed PROVE ActiveIsHeld
  <2>. SUFFICES ASSUME ~isUserClose, NEW c \in Calls, phase[c] = "active"
                PROVE  Registered(c) # {} \/ BeingRestored(c) # {}
    BY DEF ActiveIsHeld
  <2>1. c \in Callbacks \/ \E s \in Sockets : c \in AwaitedBy(s)
    BY <1>1 DEF ServedInv, Running, NothingIsLost
  <2>2. c \in Callbacks => Registered(c) # {}
    BY DEF Callbacks, Registered
  <2>3. ASSUME NEW s \in Sockets, c \in AwaitedBy(s) PROVE BeingRestored(c) # {}
    <3>1. PICK i \in DOMAIN Awaiting(s) : Awaiting(s)[i] = c
      BY <2>3 DEF AwaitedBy
    <3>2. <<s, i>> \in BeingRestored(c)
      BY <3>1 DEF BeingRestored
    <3>. QED  BY <3>2
  <2>. QED  BY <2>1, <2>2, <2>3
<1>2. ASSUME IdInv, StandInv, ServedInv PROVE RegisteredIsServed
  <2>. SUFFICES ASSUME Undisturbed, Reconnects, ~Looping, ~isUserClose, ws # NoSocket,
                       sock[ws] = "open"
                PROVE  \A i \in DOMAIN subscriptionInfo : subscriptionInfo[i].key \in serverSubs[ws]
    BY DEF RegisteredIsServed
  <2>1. Calm /\ LoopStands /\ KeysAreServed /\ isConnected
    BY <1>2 DEF StandInv, ServedInv, Running, Calm
  <2>2. phase[ws] # "opened"
    BY <1>2 DEF Looping, IdInv, TypeOK
  <2>. QED  BY <2>1, <2>2 DEF KeysAreServed
<1>. QED  BY <1>1, <1>2 DEF UndisturbedIsServed, HeldWhileUndisturbed

\* Over any number of reconnections an undisturbed session keeps the callback of every
\* handle, and once resubscribeAll() is through, under an identifier the node knows.
THEOREM UndisturbedSessionServes == Spec => []UndisturbedIsServed
<1>. DEFINE Inv == IdInv /\ StandInv /\ ServedInv
<1>1. Init => Inv
  <2>. SUFFICES ASSUME Init PROVE StandInv /\ ServedInv
    BY IdInit
  <2>1. \A t \in Threads : phase[t] = "idle"
    BY DEF Init
  <2>2. \A s \in Sockets : sock[s] = "unused"
    BY DEF Init
  <2>3. StandInv
    BY <2>1, <2>2 DEF Init, StandInv, Calm, LoopStands, Threads
  <2>4. ComesBack /\ KeysAreServed
    BY DEF Init, ComesBack, KeysAreServed
  <2>5. LoopIsAnswered /\ ConfirmedIsServed /\ NothingIsLost
    BY <2>1 DEF LoopIsAnswered, ConfirmedIsServed, NothingIsLost, Threads
  <2>. QED  BY <2>3, <2>4, <2>5 DEF ServedInv
<1>2. Inv /\ [Next]_vars => Inv'
  <2>. SUFFICES ASSUME Inv, [Next]_vars PROVE ServedInv'
    BY IdStep, StandStep
  <2>1. ASSUME Running' PROVE Running
    BY <2>1, RunningStays
  <2>2. ASSUME Running'
        PROVE  ComesBack' /\ Serves' /\ NothingIsLost'
    BY <2>1, <2>2, ComesBackStep, ServesStep, LostStep
  <2>. QED  BY <2>2 DEF ServedInv, Serves
<1>3. Inv => UndisturbedIsServed
  BY ServedIsUndisturbed
<1>. QED  BY <1>1, <1>2, <1>3, PTL DEF Spec

=============================================================================
