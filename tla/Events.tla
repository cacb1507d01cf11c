------------------------------- MODULE Events --------------------------------
(***************************************************************************)
(* Events of a transaction, as client/events.ts and the filters of         *)
(* client/websocket/waiting.ts read them.                                  *)
(*                                                                         *)
(* An event is [type, attributes], attributes a sequence of [key, value].  *)
(* A look-up returns <<>> for undefined and <<value>> otherwise; the filter*)
(* of a call is a function from keys to values.                            *)
(***************************************************************************)
EXTENDS Integers, Sequences, TLC, Amounts
LOCAL INSTANCE FiniteSetsExt

CONSTANTS
  WasmTypes,      \* "wasm" and the types that begin with "wasm-"
  Underscored,    \* the keys that begin with "_"
  Tags,           \* of each text that matches the regular expression of a
                  \*   type tag, its [address, module]
  LowerCase       \* of each text, the same in lower case

KeysOf(event) == {event.attributes[i].key : i \in DOMAIN event.attributes}

OccurrencesOf(event, key) ==
  {i \in DOMAIN event.attributes : event.attributes[i].key = key}

FindEvents(events, type) == SelectSeq(events, LAMBDA e : e.type = type)

FirstOf(found) == IF found = <<>> THEN <<>> ELSE <<found[1]>>

FindEvent(events, type) == FirstOf(FindEvents(events, type))

\* getEventAttribute(): the first occurrence of the key.
GetEventAttribute(event, key) ==
  LET at == OccurrencesOf(event, key)
  IN IF at = {} THEN <<>> ELSE <<event.attributes[Min(at)].value>>

GetEventValue(events, type, key) ==
  LET event == FindEvent(events, type)
  IN IF event = <<>> THEN <<>> ELSE GetEventAttribute(event[1], key)

\* getEventAttributes(): a later occurrence overwrites an earlier one.
GetEventAttributes(event) ==
  [key \in KeysOf(event) |-> event.attributes[Max(OccurrencesOf(event, key))].value]

Lookup(map, key) == IF key \in DOMAIN map THEN <<map[key]>> ELSE <<>>

FitsAll(event, wanted) ==
  \A key \in DOMAIN wanted : Lookup(GetEventAttributes(event), key) = <<wanted[key]>>

FilterEvents(events, type, wanted) ==
  SelectSeq(events, LAMBDA e : e.type = type /\ FitsAll(e, wanted))

-----------------------------------------------------------------------------
OrElse(found, other) == IF found = <<>> THEN other ELSE found

\* The body of the loop of parseWasmEvents().
ParseWasmEvent(event) ==
  LET attrs == GetEventAttributes(event)
  IN [contractAddress |-> OrElse(Lookup(attrs, "_contract_address"), <<"">>)[1],
      action |-> OrElse(Lookup(attrs, "action"), Lookup(attrs, "_action")),
      data   |-> [key \in DOMAIN attrs \ Underscored |-> attrs[key]]]

WasmEvents(events) == SelectSeq(events, LAMBDA e : e.type \in WasmTypes)

FindWasmEventsByContract(events, address) ==
  SelectSeq(WasmEvents(events),
            LAMBDA e : LowerCase[ParseWasmEvent(e).contractAddress] = LowerCase[address])

FindWasmEventsByAction(events, action) ==
  SelectSeq(WasmEvents(events), LAMBDA e : ParseWasmEvent(e).action = <<action>>)

\* The body of the loop of parseMoveEvents().
ParseMoveEvent(event) ==
  LET tag == OrElse(Lookup(GetEventAttributes(event), "type_tag"), <<"">>)[1]
  IN [module |-> Lookup(Tags, tag), eventType |-> tag]

\* The address is compared as text, whatever zeros it begins with.
FindMoveEventsByModule(events, address, module) ==
  SelectSeq(FindEvents(events, "move"),
            LAMBDA e : LET m == ParseMoveEvent(e).module
                       IN /\ m # <<>>
                          /\ LowerCase[m[1].address] = LowerCase[address]
                          /\ m[1].module = module)

FindMoveEventsByType(events, eventType) ==
  SelectSeq(FindEvents(events, "move"),
            LAMBDA e : ParseMoveEvent(e).eventType = eventType)

-----------------------------------------------------------------------------
(***************************************************************************)
(* client/websocket/waiting.ts: the query for what is on the chain and the *)
(* filter for what comes by the subscription.  A query is a set of         *)
(* conditions joined by AND.                                               *)
(***************************************************************************)
MatchesEventFilter(tx, type, wanted) ==
  \E i \in DOMAIN tx.events : tx.events[i].type = type /\ FitsAll(tx.events[i], wanted)

\* A plausible mistake: the height of the start is left out.
BuildQueryAfter(type, wanted, fromHeight) ==
  {[on |-> "attribute", type |-> type, key |-> key, value |-> wanted[key]] :
      key \in DOMAIN wanted}
    \cup {[on |-> "height", least |-> fromHeight + 1]}

\* Without attributes only "tx.height>0" is left, whatever the type.
BuildEventQuery(type, wanted, fromHeight) ==
  {[on |-> "attribute", type |-> type, key |-> key, value |-> wanted[key]] :
      key \in DOMAIN wanted}
    \cup {[on |-> "height", least |-> fromHeight]}
    \cup (IF DOMAIN wanted = {} THEN {[on |-> "height", least |-> 1]} ELSE {})

\* The node (external): a condition on an attribute holds if any event of the
\* type has any occurrence of the key with that value.
NodeFinds(tx, query) ==
  \A c \in query :
    \/ c.on = "height" /\ tx.height >= c.least
    \/ /\ c.on = "attribute"
       /\ \E i \in DOMAIN tx.events :
            /\ tx.events[i].type = c.type
            /\ \E j \in DOMAIN tx.events[i].attributes :
                 tx.events[i].attributes[j] = [key |-> c.key, value |-> c.value]

-----------------------------------------------------------------------------
(***************************************************************************)
(* getAddressProfile() of client/address-profile.ts: what an address is,   *)
(* put together from two to four queries between which blocks may come,    *)
(* and kept for a while by a cache of the whole process.                   *)
(*                                                                         *)
(* The k-th query of a call reads chain[k], Down if it fails and else      *)
(*   account      what auth has: a kind of account, or "none"              *)
(*   original     of a shorthand account, the kind of its canonical one    *)
(*   code         the length of the EVM code, at the canonical address if  *)
(*                the account is a shorthand                               *)
(*   modules      the names of the Move modules, "" among them             *)
(*   codeId       <<>> or the code of the Wasm contract                    *)
(* services is the set of those the client has.  "Not found" is an answer, *)
(* no failure.                                                             *)
(***************************************************************************)
Down == [down |-> TRUE]

NoContract(account) == [account |-> account, contract |-> "none"]

EvmContract(account, code) == [account |-> account, contract |-> "evm", code |-> code]

\* What is done with the answer of a query, if there is one.
AndThen(answer, Do(_)) == IF answer = Throws THEN Throws ELSE Do(answer[1])

QueryAuth(s) == IF s = Down THEN Throws ELSE <<s.account>>

QueryEvmCode(s) == IF s = Down THEN Throws ELSE <<s.code>>

QueryMoveModules(s) == IF s = Down THEN Throws ELSE <<SelectSeq(s.modules, LAMBDA m : m # "")>>

QueryWasmContract(s) == IF s = Down THEN Throws ELSE <<s.codeId>>

EvmConsistent(account, code) ==
  /\ account = "evm-code" => code > 0
  /\ account \notin {"evm-code", "evm-shorthand"} => code = 0

\* The queries after the first, which found a shorthand account.
ResolveShorthand(services, chain) ==
  LET Sized(code) == IF code = 0 THEN Throws ELSE <<EvmContract("evm-shorthand", code)>>
      Canonical(s) == IF s = Down THEN s ELSE [s EXCEPT !.account = s.original]
      Resolved(canonical) ==
        CASE canonical = "evm-shorthand" -> Throws
          [] canonical = "evm-code" ->
               IF "evm" \in services THEN AndThen(QueryEvmCode(chain[3]), Sized) ELSE Throws
          [] OTHER -> <<NoContract("evm-shorthand")>>
  IN AndThen(QueryAuth(Canonical(chain[2])), Resolved)

\* The queries from the k-th on, for an account that is neither of the EVM's.
VmProfile(services, chain, account, k) ==
  LET Wasm(codeId) ==
        IF codeId = <<>> THEN <<NoContract(account)>>
        ELSE <<[account |-> account, contract |-> "wasm", codeId |-> codeId[1]]>>
      AskWasm(at) == IF "wasm" \in services THEN AndThen(QueryWasmContract(chain[at]), Wasm)
                     ELSE <<NoContract(account)>>
      Move(modules) ==
        IF modules = <<>> THEN AskWasm(k + 1)
        ELSE <<[account |-> account, contract |-> "move", modules |-> modules]>>
  IN IF "move" \in services THEN AndThen(QueryMoveModules(chain[k]), Move) ELSE AskWasm(k)

Queried(services, chain) ==
  LET Of(account) ==
        LET Coded(code) == IF EvmConsistent(account, code) THEN <<EvmContract(account, code)>>
                           ELSE Throws
            Other(code) == IF EvmConsistent(account, code)
                           THEN VmProfile(services, chain, account, 3) ELSE Throws
        IN CASE account = "none" -> <<NoContract("none")>>
             [] account = "evm-shorthand" -> ResolveShorthand(services, chain)
             [] account = "evm-code" ->
                  IF "evm" \in services THEN AndThen(QueryEvmCode(chain[2]), Coded) ELSE Throws
             [] OTHER -> IF "evm" \in services THEN AndThen(QueryEvmCode(chain[2]), Other)
                         ELSE VmProfile(services, chain, account, 2)
  IN IF "auth" \notin services THEN Throws ELSE AndThen(QueryAuth(chain[1]), Of)

(***************************************************************************)
(* The cache: of the addresses it has, [profile, expiresAt].  One cache    *)
(* serves the clients of all chains.                                       *)
(***************************************************************************)
EmptyCache == [x \in {} |-> 0]

Cached(cache, address, now) ==
  IF address \in DOMAIN cache /\ now <= cache[address].expiresAt
  THEN <<cache[address].profile>> ELSE <<>>

\* The address of the call, or else of its context; "" is none.
AddressOf(call) == IF call.address # "" THEN call.address ELSE call.contextAddress

GetAddressProfile(cache, call) ==
  LET address == AddressOf(call)
      cached  == IF call.forceRefresh \/ call.cacheTtl <= 0 THEN <<>>
                 ELSE Cached(cache, address, call.now)
      profile == IF address = "" THEN Throws ELSE Queried(call.services, call.chain)
  IN IF address # "" /\ cached # <<>> THEN [cache |-> cache, profile |-> cached]
     ELSE [profile |-> profile,
           cache   |-> IF profile = Throws \/ call.cacheTtl <= 0 THEN cache
                       ELSE address :> [profile   |-> profile[1],
                                        expiresAt |-> call.now + call.cacheTtl] @@ cache]

\* The profiles that the calls give, one after the other; the first is of an empty cache.
ProfilesOf(calls) ==
  LET After[k \in 0 .. Len(calls)] ==
        IF k = 0 THEN [cache |-> EmptyCache, profile |-> <<>>]
        ELSE GetAddressProfile(After[k - 1].cache, calls[k])
  IN [k \in DOMAIN calls |-> After[k].profile]
=============================================================================
