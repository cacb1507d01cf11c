-------------------------------- MODULE Assets --------------------------------
(***************************************************************************)
(* Tokens over the three virtual machines (token/), the look-ups that a    *)
(* handle of a contract offers beside its proxies (contracts/), the logs   *)
(* and reverts of the EVM (contracts/evm), and balances (chain-context.ts).*)
(*                                                                         *)
(* An address is [hex |-> a] or [bech32 |-> a], two ways to write the      *)
(* account a.  An amount is [n, whole]: whole is FALSE for a text or a     *)
(* number with a fraction.  <<>> is undefined or null, and what throws.    *)
(***************************************************************************)
EXTENDS Integers, Sequences, FiniteSets, TLC, Amounts, ContractCalls
LOCAL INSTANCE SequencesExt
LOCAL INSTANCE FiniteSetsExt

CONSTANTS MaxUint256,     \* the largest number the EVM's words have
          PageSize        \* the balances a chain answers in one page

-----------------------------------------------------------------------------
(***************************************************************************)
(* token/.  A query or a message names what is called and its arguments.   *)
(***************************************************************************)
IsHex(address) == "hex" \in DOMAIN address

ResolveTokenContract(chainType, token) ==
  CASE chainType = "minievm"  -> IF IsHex(token) THEN <<"erc20">> ELSE Throws
    [] chainType = "miniwasm" -> IF IsHex(token) THEN Throws ELSE <<"cw20">>
    [] chainType \in {"initia", "minimove"} -> <<"fungible asset">>
    [] OTHER -> Throws

\* getTokenContract() of a context; resolver tells whether it was made by a typed factory.
GetTokenContract(resolver, chainType, token) ==
  IF resolver THEN ResolveTokenContract(chainType, token) ELSE Throws

BigIntOfAmount(amount) == IF amount.whole THEN <<[number |-> amount.n]>> ELSE Throws

\* encodeFunctionData() refuses addresses that are not hex and numbers that do not fit.
EncodeFunctionData(call, args) ==
  IF \E i \in DOMAIN args :
       \/ "bech32" \in DOMAIN args[i]
       \/ "number" \in DOMAIN args[i] /\ args[i].number \notin 0 .. MaxUint256
  THEN Throws ELSE <<[call |-> call, args |-> args]>>

SentTo(contract, sender, call) ==
  IF call = Throws THEN Throws
  ELSE <<[contract |-> contract, sender |-> sender, call |-> call[1].call, args |-> call[1].args]>>

Erc20Msg(token, sender, call, account, amount) ==
  IF BigIntOfAmount(amount) = Throws THEN Throws
  ELSE SentTo(token, sender, EncodeFunctionData(call, <<account, BigIntOfAmount(amount)[1]>>))

Cw20Msg(token, sender, call, account, amount) ==
  SentTo(token, sender, <<[call |-> call, args |-> <<account, [text |-> amount]>>]>>)

FungibleAssetMsg(token, sender, to, amount) ==
  SentTo([hex |-> "0x1"], sender,
         <<[call |-> "primary_fungible_store::transfer", args |-> <<token, to, [text |-> amount]>>]>>)

CreateTransferMsg(kind, token, sender, to, amount) ==
  CASE kind = "erc20" -> Erc20Msg(token, sender, "transfer", to, amount)
    [] kind = "cw20"  -> Cw20Msg(token, sender, "transfer", to, amount)
    [] kind = "fungible asset" -> FungibleAssetMsg(token, sender, to, amount)

CreateApproveMsg(kind, token, sender, spender, amount) ==
  CASE kind = "erc20" -> Erc20Msg(token, sender, "approve", spender, amount)
    [] kind = "cw20"  -> Cw20Msg(token, sender, "increase_allowance", spender, amount)
    [] kind = "fungible asset" -> Throws

(***************************************************************************)
(* The queries, and the answer of a chain: a ledger [exists, name, symbol, *)
(* decimals, supply, balances, allowances], the last two functions of      *)
(* accounts and of pairs of them.                                          *)
(***************************************************************************)
AccountOf(address) == IF IsHex(address) THEN address.hex ELSE address.bech32

NodeTells(kind, ledger, query) ==
  LET who == [i \in DOMAIN query.args |-> AccountOf(query.args[i])]
  IN IF \/ ~ledger.exists
        \/ kind = "cw20" /\ \E i \in DOMAIN query.args : IsHex(query.args[i])
     THEN Throws
     ELSE CASE query.call \in {"name", "symbol", "decimals", "supply"} -> <<ledger[query.call]>>
            [] query.call = "token_info" -> <<ledger>>
            [] query.call = "balance" -> <<ledger.balances[who[1]]>>
            [] query.call = "allowance" -> <<ledger.allowances[who]>>

Erc20Call(ledger, call, args) ==
  LET query == EncodeFunctionData(call, args)
  IN IF query = Throws THEN Throws ELSE NodeTells("erc20", ledger, query[1])

Cw20Query(ledger, call, args) == NodeTells("cw20", ledger, [call |-> call, args |-> args])

\* The metadata object's view functions; the balance's last argument is the token.
ViewJSON(ledger, call, args) ==
  NodeTells("fungible asset", ledger, [call |-> call, args |-> args])

Info(answers) ==
  IF AllOf(answers) = Throws THEN Throws
  ELSE LET a == AllOf(answers)[1]
       IN <<[name |-> a[1], symbol |-> a[2], decimals |-> a[3], totalSupply |-> a[4]]>>

GetInfo(kind, token, ledger) ==
  LET parts == <<"name", "symbol", "decimals", "supply">>
  IN CASE kind = "erc20" -> Info([i \in 1 .. 4 |-> Erc20Call(ledger, parts[i], <<>>)])
       [] kind = "fungible asset" -> Info([i \in 1 .. 4 |-> ViewJSON(ledger, parts[i], <<token>>)])
       [] kind = "cw20" ->
            LET t == Cw20Query(ledger, "token_info", <<>>)
            IN IF t = Throws THEN Throws
               ELSE Info([i \in 1 .. 4 |-> <<t[1][parts[i]]>>])

BalanceOf(kind, token, ledger, owner) ==
  CASE kind = "erc20" -> Erc20Call(ledger, "balance", <<owner>>)
    [] kind = "cw20"  -> Cw20Query(ledger, "balance", <<owner>>)
    [] kind = "fungible asset" -> ViewJSON(ledger, "balance", <<owner, token>>)

Allowance(kind, ledger, owner, spender) ==
  CASE kind = "erc20" -> Erc20Call(ledger, "allowance", <<owner, spender>>)
    [] kind = "cw20"  -> Cw20Query(ledger, "allowance", <<owner, spender>>)
    [] kind = "fungible asset" -> Throws

-----------------------------------------------------------------------------
(***************************************************************************)
(* parseUnits(), formatUnits() and getTokenInfo() of a contract handle,    *)
(* which keeps decimals: of every coin for Move, else of its own token.    *)
(* The coins of Move are the addresses of their modules; a call is         *)
(* [name, coin, value, decimals], decimals what the chain has, by coins.   *)
(***************************************************************************)
NoDecimals == [x \in {} |-> 0]

\* A bech32 address is not matched, and 0x1 taken instead; it has no such coin.
CoinDecimals(call) ==
  IF IsHex(call.coin) /\ AccountOf(call.coin) \in DOMAIN call.decimals
  THEN <<call.decimals[AccountOf(call.coin)]>> ELSE Throws

TokenDecimals(call) ==
  IF "token" \in DOMAIN call.decimals THEN <<call.decimals["token"]>> ELSE Throws

HandleCall(vm, kept, call) ==
  LET key     == IF vm = "move" THEN call.coin ELSE "token"
      asked   == IF vm = "move" THEN CoinDecimals(call) ELSE TokenDecimals(call)
      fresh   == call.name = "getTokenInfo" \/ key \notin DOMAIN kept
      decimals == IF fresh THEN asked ELSE <<kept[key]>>
  IN [kept   |-> IF decimals = Throws THEN kept ELSE key :> decimals[1] @@ kept,
      answer |-> IF decimals = Throws THEN Throws
                 ELSE CASE call.name = "getTokenInfo" -> decimals
                        [] call.name = "parseUnits"  -> ParseUnits(call.value, decimals[1])
                        [] call.name = "formatUnits" -> <<FormatUnits(call.value, decimals[1])>>]

HandleCalls(vm, calls) ==
  LET After[k \in 0 .. Len(calls)] ==
        IF k = 0 THEN [kept |-> NoDecimals, answer |-> <<>>]
        ELSE HandleCall(vm, After[k - 1].kept, calls[k])
  IN [k \in DOMAIN calls |-> After[k].answer]

-----------------------------------------------------------------------------
(***************************************************************************)
(* contracts/evm/events.ts.  An ABI is a sequence of events [name, topic], *)
(* a log is [topic, pending]: a pending one has no number of a block.      *)
(***************************************************************************)
DecodeEvmLog(abi, log) ==
  LET fit == {i \in DOMAIN abi : abi[i].topic = log.topic}
  IN IF fit = {} \/ log.pending THEN Throws
     ELSE <<[eventName |-> abi[Min(fit)].name, log |-> log]>>

DecodeEvmLogs(abi, logs, skipInvalid) ==
  LET each == [i \in DOMAIN logs |-> DecodeEvmLog(abi, logs[i])]
  IN IF skipInvalid THEN <<FlattenSeq(each)>> ELSE AllOf(each)

FilterEvmLogsByEvent(abi, logs, name) ==
  SelectSeq(DecodeEvmLogs(abi, logs, TRUE)[1], LAMBDA d : d.eventName = name)

\* abi.find(): of events that share a name, the first.
GetEventSignature(abi, name) ==
  LET named == {i \in DOMAIN abi : abi[i].name = name}
  IN IF named = {} THEN <<>> ELSE <<abi[Min(named)].topic>>

(***************************************************************************)
(* decodeRevertReason().  Data is [selector, args], args <<>> if they do   *)
(* not decode; abi is <<>> or the set of its errors' selectors, to which   *)
(* the decoder adds the two standard ones.                                 *)
(***************************************************************************)
PanicReasons == {0, 1, 17, 18, 33, 34, 49, 50, 65, 81}

StandardErrors == {"Error", "Panic"}

DecodeErrorResult(selectors, data) ==
  IF data.selector \in selectors \cup StandardErrors THEN data.args ELSE Throws

DecodeRevertReason(data, abi) ==
  LET declared == IF abi = <<>> THEN Throws ELSE DecodeErrorResult(abi[1], data)
      standard == DecodeErrorResult({}, data)
  IN CASE declared # Throws -> [error |-> data.selector, args |-> declared[1]]
       [] declared = Throws /\ data.selector = "Error" /\ standard # Throws ->
            [message |-> standard[1]]
       [] declared = Throws /\ data.selector = "Panic" /\ standard # Throws ->
            [panic |-> standard[1], known |-> standard[1] \in PanicReasons]
       [] OTHER -> [unknown |-> data]

-----------------------------------------------------------------------------
(***************************************************************************)
(* contracts/wasm/contract.ts.  The second argument of createWasmContract()*)
(* is a schema or the options; given is the set of its keys.               *)
(***************************************************************************)
IsStaticSchema(given) == "schema" \notin given /\ given \cap {"execute", "query"} # {}

\* The keys of the schema that calls are checked against.
SchemaInUse(given, nested) ==
  IF IsStaticSchema(given) THEN given ELSE IF "schema" \in given THEN nested ELSE {}

\* An approval's expiry: [at_height], [at_time] or [never]; zero is falsy, and a time is
\* a text, which is not.
Expiry(expires) ==
  IF expires = <<>> THEN <<>>
  ELSE LET e == expires[1]
           Had(field) == IF field \in DOMAIN e THEN <<e[field]>> ELSE <<>>
       IN <<[atHeight |-> IF Had("at_height") = <<0>> THEN <<>> ELSE Had("at_height"),
             atTime   |-> Had("at_time"),
             never    |-> IF Had("never") = <<>> THEN <<>> ELSE <<TRUE>>]>>

GetOwnerOf(told) ==
  [owner |-> told.owner,
   approvals |-> [i \in DOMAIN told.approvals |->
                    [spender |-> told.approvals[i].spender,
                     expires |-> Expiry(told.approvals[i].expires)]]]

\* A page of an owner's tokens after startAfter, of at most limit.
GetTokens(told, startAfter, limit) ==
  LET rest == SelectSeq(told, LAMBDA t : startAfter = <<>> \/ t > startAfter[1])
      most == IF limit = <<>> THEN 30 ELSE limit[1]
  IN SubSeq(rest, 1, Least(most, Len(rest)))

-----------------------------------------------------------------------------
(***************************************************************************)
(* getBalance() of a context: the query, from options whose fields are     *)
(* sequences of at most one.                                               *)
(***************************************************************************)
PickQueryOptions(options) ==
  CASE options.height # <<>> -> [height |-> options.height[1], skipCache |-> options.skipCache]
    [] options.height = <<>> /\ options.skipCache = <<TRUE>> -> [skipCache |-> <<TRUE>>]
    [] OTHER -> [none |-> TRUE]

\* The chain has of an address a function from denoms, numbers in the order of its pages,
\* to amounts; of all balances the first page is asked.
GetBalance(context, options, chain) ==
  LET address == IF options.address # <<>> THEN options.address ELSE context.address
      held    == chain[address[1]]
      one     == options.denom # <<>> /\ options.denom # <<0>>
  IN IF address = <<>> THEN Throws
     ELSE <<[query |-> PickQueryOptions(options),
             coins |-> IF ~one THEN {<<d, held[d]>> : d \in {x \in DOMAIN held :
                                       Cardinality({y \in DOMAIN held : y < x}) < PageSize}}
                       ELSE {<<options.denom[1], IF options.denom[1] \in DOMAIN held
                                                 THEN held[options.denom[1]] ELSE 0>>}]>>
==============================================================================
