------------------------------- MODULE Sessions -------------------------------
(***************************************************************************)
(* client/websocket/session.ts: the session of a chain, which makes the    *)
(* sessions of CometBFT and of EVM events (CosmosSession, EvmSession) when *)
(* they are first needed, and subscribe(), which makes one for each call.  *)
(*                                                                         *)
(* Calls come one after the other; that of a step k is known by k.  Of the *)
(* sessions below there is only what the calls see: a Cosmos session has   *)
(* one callback for each query, an EVM session any number for a type, a    *)
(* subscription is confirmed or not.  A chain is [wss, evmWss], whether it *)
(* has the end points; an optional field is a sequence of at most one.     *)
(***************************************************************************)
EXTENDS Integers, Sequences, TLC, Amounts
LOCAL INSTANCE SequencesExt

-----------------------------------------------------------------------------
(***************************************************************************)
(* What a specification of events asks for, and of the data of an event    *)
(* what the callback gets.  A query is [tm, rest], that of a cosmosCustom  *)
(* one any.                                                                *)
(***************************************************************************)
CosmosEvents == {"block", "blockHeader", "tx", "validatorUpdates", "cosmosCustom"}

IsCosmosEvent(spec) == spec.event \in CosmosEvents

CosmosQuery(spec) ==
  CASE spec.event = "block"            -> [tm |-> "NewBlock", rest |-> <<>>]
    [] spec.event = "blockHeader"      -> [tm |-> "NewBlockHeader", rest |-> <<>>]
    [] spec.event = "tx"               -> [tm |-> "Tx", rest |-> spec.filter]
    [] spec.event = "validatorUpdates" -> [tm |-> "ValidatorSetUpdates", rest |-> <<>>]
    [] spec.event = "cosmosCustom"     -> spec.query

DataExtractor(spec, data) ==
  LET field == CASE spec.event = "block"       -> "block"
                 [] spec.event = "blockHeader" -> "header"
                 [] spec.event = "tx"          -> "TxResult"
                 [] OTHER                      -> ""
  IN IF field \in DOMAIN data THEN data[field] ELSE data

EvmSubscription(spec) ==
  CASE spec.event = "evmLogs"       -> [type |-> "logs", params |-> spec.filter]
    [] spec.event = "evmHeads"      -> [type |-> "newHeads", params |-> <<>>]
    [] spec.event = "evmPendingTxs" -> [type |-> "newPendingTransactions", params |-> <<>>]
    [] spec.event = "evmSyncing"    -> [type |-> "syncing", params |-> <<>>]
    [] spec.event = "evmCustom"     -> [type |-> spec.type, params |-> spec.params]

\* The key of a subscription: calls of one query share the first, EVM calls share none.
KeyOf(spec, k) ==
  IF IsCosmosEvent(spec) THEN [kind |-> "cosmos", at |-> CosmosQuery(spec)]
  ELSE [kind |-> "evm", at |-> EvmSubscription(spec) @@ [id |-> k]]

-----------------------------------------------------------------------------
(***************************************************************************)
(* A WebSocketSession: of each kind at most one session, which has the     *)
(* number of the step that made it; all ever made with whether they are    *)
(* closed and what is subscribed, the step and its specification.          *)
(***************************************************************************)
CreateSession == [current |-> <<>>, made |-> <<>>]

HasEndpoint(chain, kind) == IF kind = "cosmos" THEN chain.wss ELSE chain.evmWss

SubscribeTo(chain, s, step, k) ==
  LET key  == KeyOf(step.spec, k)
      kind == key.kind
      have == kind \in DOMAIN s.current
      id   == IF have THEN s.current[kind] ELSE <<k, kind>>
      t    == IF have THEN s
              ELSE [current |-> (kind :> id) @@ s.current,
                    made |-> (id :> [closed |-> FALSE, subscriptions |-> <<>>]) @@ s.made]
  IN IF ~have /\ ~HasEndpoint(chain, kind) THEN [session |-> s, handle |-> Throws]
     ELSE IF ~step.confirmed THEN [session |-> t, handle |-> Throws]
     ELSE [session |-> [t EXCEPT !.made[id].subscriptions = (key :> [call |-> k, spec |-> step.spec]) @@ @],
           handle |-> <<[session |-> id, key |-> key]>>]

Unsubscribe(s, handle) ==
  [s EXCEPT !.made[handle.session].subscriptions = [x \in DOMAIN @ \ {handle.key} |-> @[x]]]

Close(s) ==
  [current |-> <<>>,
   made |-> [id \in DOMAIN s.made |->
               IF \E kind \in DOMAIN s.current : s.current[kind] = id
               THEN [closed |-> TRUE, subscriptions |-> <<>>] ELSE s.made[id]]]

SubscriptionCount(s) ==
  LET Of(kind) == IF kind \in DOMAIN s.current
                  THEN Len(SetToSeq(DOMAIN s.made[s.current[kind]].subscriptions)) ELSE 0
  IN Of("cosmos") + Of("evm")

\* The callbacks an event of a node reaches in a session, with what they get.
DeliveredTo(s, event) ==
  UNION {{<<x.call, IF event.kind = "cosmos" THEN DataExtractor(x.spec, event.data) ELSE event.data>> :
            x \in {s.made[id].subscriptions[key] :
                     key \in {y \in DOMAIN s.made[id].subscriptions :
                                y.kind = event.kind /\ (event.kind = "cosmos" => y.at = event.at)
                                  /\ (event.kind = "evm" => y.at.type = event.at)}}} :
           id \in {x \in DOMAIN s.made : ~s.made[x].closed}}

(***************************************************************************)
(* The calls on one session, or with alone each on a session of its own:   *)
(* its handle closes the session too.                                      *)
(***************************************************************************)
NothingTold == [handle |-> Throws, reached |-> {}, count |-> 0]

RECURSIVE SessionRun(_, _, _, _)
SessionRun(chain, alone, steps, k) ==
  IF k = 0 THEN [sessions |-> <<CreateSession>>, told |-> <<>>]
  ELSE
    LET before == SessionRun(chain, alone, steps, k - 1)
        step   == steps[k]
        own    == IF alone THEN before.sessions \o <<CreateSession>> ELSE before.sessions
        n      == Len(own)
        sub    == SubscribeTo(chain, own[n], step, k)
        given  == before.told[step.of].handle
        at     == IF alone THEN step.of + 1 ELSE 1
        After(sessions, told) == [sessions |-> sessions, told |-> Append(before.told, told)]
    IN CASE step.name = "subscribe" ->
              After([own EXCEPT ![n] = sub.session],
                    [handle |-> sub.handle, reached |-> {}, count |-> SubscriptionCount(sub.session)])
         [] step.name = "unsubscribe" ->
              IF given = Throws THEN After(own, NothingTold)
              ELSE After([own EXCEPT ![at] = IF alone THEN Close(Unsubscribe(@, given[1]))
                                             ELSE Unsubscribe(@, given[1])], NothingTold)
         [] step.name = "close" ->
              After(IF alone THEN own ELSE <<Close(own[1])>>, NothingTold)
         [] step.name = "event" ->
              After(own, [NothingTold EXCEPT !.reached =
                            UNION {DeliveredTo(own[i], step) : i \in DOMAIN own}])

\* The steps' answers, and the connections left open.
RunSessions(chain, alone, steps) ==
  LET run == SessionRun(chain, alone, steps, Len(steps))
  IN [told |-> run.told,
      open |-> UNION {{id \in DOMAIN s.made : ~s.made[id].closed} : s \in ToSet(run.sessions)}]
==============================================================================
