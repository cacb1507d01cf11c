----------------------------- MODULE Conversions -----------------------------
(***************************************************************************)
(* The pure functions of the library, called one at a time: a request is   *)
(* chosen in Init, the operation computes its answer as the code does, and *)
(* the properties compare the answer with what the operation stands for.   *)
(*                                                                         *)
(* The functions themselves are in Amounts, Events, MoveArguments,         *)
(* ContractCalls, SignDocs, Messages, Registries, Requests, Assets,        *)
(* Services, Wallets, Codegen and Sessions.                                *)
(***************************************************************************)
EXTENDS Integers, Sequences, FiniteSets, Amounts, Events, MoveArguments,
        ContractCalls, SignDocs, Messages, Registries, Requests, Assets, Services,
        Wallets, Codegen, Sessions
LOCAL S == INSTANCE SequencesExt
LOCAL F == INSTANCE Functions

CONSTANT Requests      \* records with the operation in the field op

VARIABLES request, answer

vars == <<request, answer>>

Pending == [pending |-> TRUE]

Done == answer # Pending

Init == request \in Requests /\ answer = Pending

Answer(op, result) ==
  /\ answer = Pending
  /\ request.op = op
  /\ answer' = [result |-> result]
  /\ UNCHANGED request

-----------------------------------------------------------------------------
FormatAmount ==
  Answer("format",
    [text  |-> FormatUnits(request.value, request.decimals),
     shown |-> FormatTokenAmount(request.value, request.decimals, request.options),
     coin  |-> FormatCoin(request.value, request.decimals)])

ConvertAndBack ==
  Answer("convert",
    LET there == ConvertDenomAmount(request.text, request.diff)
    IN IF there = Throws THEN Throws ELSE ConvertDenomAmount(there[1], -request.diff))

DecimalArgument ==
  Answer("decimal",
    [read    |-> DecimalInput(request.text, request.scale),
     written |-> DecimalOutput(ParseUnits(request.text, request.scale)[1], request.scale)])

EstimateFee ==
  Answer("fee",
    LET limit == GasLimit(request.used, request.multiplier, request.precision)
    IN [limit |-> limit,
        fee   |-> CalculateFee(limit, request.price, request.precision)])

SpendCoins ==
  Answer("coins",
    [merged |-> Merge(request.coins),
     left   |-> Subtract(Merge(request.coins), request.fee)])

CalculateWithCoins ==
  Answer("coinCalls",
    LET Of(given) == CoinSteps(NewCoin("a", given), request.steps)
        a == Of(request.a)
        b == Of(request.b)
    IN [a |-> a, b |-> b,
        compared |-> IF Throws \in {a, b} THEN Throws ELSE CompareCoins(a[1], b[1]),
        mixed    |-> IF a = Throws THEN TRUE ELSE CompareCoins(a[1], [a[1] EXCEPT !.denom = "b"]) = Throws])

ReadCoin == Answer("parseCoin", ParseCoin(request.chars))

ConvertAddress ==
  Answer("address", FromHex(request.digits, "init"))

ReadEvents ==
  Answer("events",
    [event   |-> FindEvent(request.tx.events, request.type),
     value   |-> GetEventValue(request.tx.events, request.type, request.key),
     fitting |-> FilterEvents(request.tx.events, request.type, request.wanted),
     wasm    |-> FindWasmEventsByContract(request.tx.events, request.address),
     moves   |-> FindMoveEventsByModule(request.tx.events, request.address, request.module),
     matches |-> MatchesEventFilter(request.tx, request.type, request.wanted),
     found   |-> NodeFinds(request.tx,
                   BuildEventQuery(request.type, request.wanted, request.fromHeight))])

ResolveMoveType ==
  Answer("moveType",
    LET args == [k \in DOMAIN request.typeArgs |-> Printed(request.typeArgs[k])]
        text == ResolveGenericType(Printed(request.type), args)
    IN [parsed |-> ParseMoveType(text),
        bcs    |-> UsesBcs(text),
        codecs |-> Codecs(ParseMoveType(text))])

ReadMoveValue ==
  Answer("moveValue",
    LET type == request.type
    IN [viewed   |-> ConvertJsonValue(NodeJson(request.value, type, request.vecForm), type),
        enriched |-> CastValue(BcsParsed(request.value, type), type)])

CallMoveContract ==
  Answer("moveCall",
    LET fn     == request.fn
        params == GetNonSignerParams(fn)
    IN [proxy     |-> ProxyExecute(fn, request.typeArgs, request.args),
        rewritten |-> ProxyExecute(fn, request.typeArgs, request.other),
        built     |-> BuildMoveExecute(params, request.typeArgs, request.args),
        plain     |-> PlainExecute(request.args),
        view      |-> ProxyView(fn, request.typeArgs, request.args),
        builtView |-> BuildMoveView(params, request.typeArgs, request.args)])

ReadMoveView ==
  Answer("moveView",
    LET returns == [i \in DOMAIN request.types |-> Printed(request.types[i])]
        values  == [i \in DOMAIN request.types |->
                      NodeJson(request.values[i], request.types[i], request.vecForm)]
    IN ViewResult([return |-> returns], <<>>,
                  IF Len(values) = 1 THEN values[1] ELSE [array |-> values]))

CallEvmContract ==
  Answer("evm",
    [calls  |-> EvmCalls(request.contract, request.name, request.args, "alice", request.key),
     deploy |-> DeployCall(InputsOf(request.contract.abi, request.name),
                           request.args, request.sent)])

CallWasmContract ==
  Answer("wasm", ProxyMessage(request.variant, request.schema))

RunWasmContracts ==
  Answer("wasmChain",
    LET run   == RunWasm(request.steps)
        chain == run.chain
        at    == {run.told[i].contract : i \in DOMAIN run.told}
    IN [told      |-> run.told,
        contracts |-> chain.contracts,
        info      |-> [a \in at |-> GetContractInfo(chain, a)],
        history   |-> [a \in DOMAIN chain.contracts |-> GetContractHistory(chain, a)],
        code      |-> GetCodeInfo(chain, request.numeric),
        ofCode    |-> GetContractsByCode(chain, request.numeric)])

AskWasmContract ==
  Answer("wasmQuery",
    [handle |-> CreateWasmContract(request.address), told |-> QueryContract(request.answers, request.msg)])

ReadWasmSchema ==
  Answer("wasmSchema",
    [variants  |-> [v \in request.names |-> GetVariantSchema(request.schema, v)],
     responses |-> [q \in request.queries |-> GetResponseSchema(request.responses, q)]])

InferType == Answer("infer", InferTypeFromSchema(request.schema))

PublishModules == Answer("publish", PublishAll(request.options))

RunScript ==
  Answer("script",
    [json |-> CreateScriptMsg(request.args), bcs |-> CreateBcsScriptMsg(request.args),
     view |-> CallViewFunction(Or(request.args, <<>>), request.answer)])

NameMoveTarget ==
  Answer("moveTarget",
    [function |-> ParseMoveFunction(request.parts),
     handle   |-> CreateMoveContract(request.address, request.chars)])

ReadMoveState ==
  Answer("moveState",
    [resource |-> QueryResource(request.resources, request.address, request.tag),
     entry    |-> QueryTableEntry(
                    [k \in {TableKey(e.key, e.type) : e \in request.entries} |->
                       (CHOOSE e \in request.entries : TableKey(e.key, e.type) = k).text],
                    request.key, request.keyType)])

SignDoc ==
  Answer("sign",
    LET Bytes(msg) == MakeAminoSignBytes(
                        MakeStdSignDoc(<<msg>>, request.fee, "c", "m", 3, request.sequence))
    IN [one |-> Bytes(request.one), other |-> Bytes(request.other)])

SignTransactions ==
  Answer("signTx",
    [one   |-> CreateAndSignTx(request.key, request.one, request.signer),
     other |-> CreateAndSignTx(request.key, request.other, request.otherSigner)])

SignInContext ==
  Answer("contextTx", CreateAndSign(request.signer, request.options, request.account))

SignTypedData ==
  Answer("typedData",
    [one |-> HashTypedData(request.one), other |-> HashTypedData(request.other)])

SendOverEvm ==
  Answer("evmTx", SendEvmTxAndWait(request.options, request.node, request.run))

NormalizeMessage ==
  Answer("init",
    LET once == NormalizeInit(Schemas[request.schema], request.init)
    IN [once  |-> once,
        twice |-> IF once = Throws THEN Throws
                  ELSE NormalizeInit(Schemas[request.schema], once[1])])

CarryMessage ==
  Answer("carry",
    LET m == Carried(request.input, request.ways, request.known)
    IN IF m = Throws THEN Throws
       ELSE <<[url |-> TypeUrl(m[1]), any |-> ToAny(m[1]), amino |-> ToAminoMsg(m[1]), json |-> ToJson(m[1]),
               is  |-> {s \in DOMAIN Schemas : IsMessageOf(m[1], s)}]>>)

BuildWithDefaults ==
  Answer("defaults", MsgWithDefaults(request.schema, request.defaults, request.init))

ConfigureChain ==
  Answer("config",
    LET b == Built(request.program)
    IN IF b = Throws THEN Throws
       ELSE <<[n \in {request.program[i].network : i \in DOMAIN request.program} \cup {""} |->
                 Build(b[1], n)]>>)

ReadWithdrawals ==
  Answer("withdrawals",
    [list   |-> GetWithdrawals(request.l1, request.ws),
     single |-> [i \in DOMAIN request.ws |-> GetWithdrawalStatus(request.l1, request.ws[i])]])

WatchBridgeTx == Answer("bridgeTx", WatchedTx(request.tx, request.type, request.options))

ReadTransaction ==
  Answer("tx", ReadTx(request.messages, request.mode, request.registered, request.abis))

ReadProfile == Answer("profile", ProfilesOf(request.calls))

LookUpRegistry ==
  Answer("registry",
    LET p      == CosmosRegistry(request.registry, request.options)
        all    == request.registry.mainnet.chains \o request.registry.testnet.chains
        ids    == {all[i].chainId : i \in DOMAIN all}
        names  == {all[i].chainName : i \in DOMAIN all}
        denoms == request.denoms
    IN [chains   |-> p.chains,
        resolved |-> [q \in names \X {<<>>, <<"mainnet">>, <<"testnet">>} |->
                        ResolveRegistered(p, q[1], q[2])],
        paths    |-> [q \in ids \X ids |-> GetTransferPath(p, q[1], q[2])],
        found    |-> [x \in denoms |-> FindAsset(p, x, <<>>)],
        there    |-> [q \in denoms \X ids |-> FindAsset(p, q[1], <<q[2]>>)]])

ManageChains ==
  Answer("custom",
    LET p == CustomProvider(request.chains, request.calls)
    IN [chains   |-> p.chains,
        assets   |-> [id \in request.ids |-> Get(p.assets, id)],
        channels |-> [id \in request.ids |-> Get(p.channels, id)],
        resolved |-> [i \in DOMAIN p.chains |->
                        ResolveCustom(p, p.chains[i].chainName, <<p.chains[i].network>>)],
        symbols  |-> [id \in request.ids |-> FindAssetBySymbol(p, request.symbol, <<id>>)],
        listed   |-> FindAssetBySymbol(p, request.symbol, <<>>),
        paths    |-> [q \in request.ids \X request.ids |-> GetTransferPath(p, q[1], q[2])]])

EnterByProvider == Answer("provider", UseProviders(request.items, request.calls))

ReadLocalRegistry ==
  Answer("local",
    LET run == LocalRegistry(request.disk, request.network, request.steps)
    IN [answers |-> run.answers, chains |-> run.local.chains])

LookUpLoaded ==
  Answer("loaded",
    LET chains == request.chains
        ids    == {chains[i].chainId : i \in DOMAIN chains} \cup {"none"}
    IN [names    |-> [id \in ids |-> ChainNameOf(chains, id)],
        resolved |-> [q \in request.names \X {<<>>, <<"mainnet">>, <<"testnet">>} |->
                        ResolveLoaded(chains, q[1], q[2])],
        paths    |-> [q \in ids \X ids |-> LoadedPath(chains, q[1], q[2])],
        bridges  |-> [id \in ids |-> GetOpBridge(chains, id)],
        listed   |-> [s \in {<<>>, <<request.symbol>>} |-> ListLoaded(chains, <<>>, s)],
        ofChain  |-> [q \in ids \X {<<>>, <<request.symbol>>} |-> ListLoaded(chains, <<q[1]>>, q[2])],
        found    |-> FindLoaded(chains, request.denom, <<>>),
        there    |-> [id \in ids |-> FindLoaded(chains, request.denom, <<id>>)]])

AskComposite ==
  Answer("composite",
    LET ps == [i \in DOMAIN request.providers |-> CustomProvider(request.providers[i], <<>>)]
    IN [chains   |-> CompositeChains(ps),
        listed   |-> CompositeBySymbol(ps, request.symbol),
        ofChain  |-> [id \in request.ids |-> CompositeSymbolOf(ps, request.symbol, id)],
        found    |-> CompositeFind(ps, request.denom, <<>>),
        there    |-> [id \in request.ids |-> CompositeFind(ps, request.denom, <<id>>)],
        paths    |-> [q \in request.ids \X request.ids |-> CompositePath(ps, q[1], q[2])],
        base     |-> [id \in request.ids |->
                        CompositeBaseAmount(ps, request.text, request.denom, id)],
        resolved |-> [i \in DOMAIN CompositeChains(ps) |->
                        CompositeResolve(ps, CompositeChains(ps)[i].chainName, <<>>)]])

ConvertAssetAmount ==
  Answer("asset",
    LET p == CustomProvider(<<>>, <<[name |-> "addAssetList", chainId |-> "x",
                                     assets |-> <<request.asset>>]>>)
        base == ToBaseAmount(p, request.text, request.denom, "x")
    IN [base      |-> base,
        back      |-> IF base = Throws THEN Throws
                      ELSE ToDisplayAmount(p, [denom |-> request.denom, amount |-> base[1]], "x"),
        converted |-> ConvertAmount(p, request.text, request.from, request.to, "x")])

SendWithHeaders ==
  Answer("headers",
    LET derived == DerivedContext(request.options, request.steps)
        query   == request.query
    IN IF derived = Throws THEN Throws
       ELSE LET c    == derived[1]
                call == ToCallOptions(c.shared.grpc, query)
            IN <<[context |-> c,
                  signs   |-> SignerAddress(c),
                  reads   |-> RequireAddress(c, <<>>),
                  grpc    |-> call,
                  rpc     |-> ToFetchHeaders(RpcOf(c), query),
                  evmRpc  |-> ToFetchHeaders(EvmRpcOf(c), query),
                  owned   |-> Intercepted(call, request.own)]>>)

AskOverHttp ==
  Answer("http",
    [rpc     |-> RpcGet(request.config, request.options, request.run),
     evmRpc  |-> EvmRpcCall(request.config, request.options, request.run),
     healthy |-> Health(request.config, request.options, request.run)])

AskNode ==
  Answer("rpc",
    [one   |-> ChainPaths(request.one.method, request.one.args),
     other |-> ChainPaths(request.other.method, request.other.args)])

AskEvmNode ==
  Answer("evmRpc",
    [one   |-> AccountMethods(request.one.method, request.one.args),
     other |-> AccountMethods(request.other.method, request.other.args)])

RetryCall ==
  Answer("retry", CallOverGrpc(request.options, request.replies))

ReadResponse ==
  Answer("response",
    LET w    == WrapResponse(request.response, request.registry)
        read == ReadPath(WrapResponse(w, <<>>), request.path)
    IN [read |-> read,
        json |-> IF read = <<>> THEN <<>>
                 ELSE IF IsWrappedResponse(read[1]) THEN ResponseToJson(read[1], request.given) ELSE <<>>,
        spread |-> IF read = <<>> THEN <<>>
                   ELSE IF IsWrappedResponse(read[1]) THEN <<Spread(read[1])>> ELSE <<>>])

NameServices ==
  Answer("services",
    [clients |-> ServiceClients(request.services \ request.plain, request.names),
     cached  |-> CachedServices(request.services, request.plain, request.names),
     keys    |-> CachedKeys(request.services),
     kept    |-> [p \in request.services \X request.methods |-> CacheOf(p[1], p[2])]])

AskInContext ==
  Answer("ask",
    ContextCalls(DerivedContext(request.options, <<>>)[1], request.chain, request.calls))

ReachChain ==
  Answer("endpoints",
    LET info == IF request.custom THEN CustomChainInfo(request.chain)
                ELSE RegistryChainInfo(request.chain)
    IN [info |-> info, native |-> GetGrpcEndpoint(info), web |-> GetGrpcWebEndpoint(info)])

UseToken ==
  Answer("token",
    LET kind   == GetTokenContract(request.resolver, request.chainType, request.token)
        ledger == request.ledger
        k      == kind[1]
        Create(Msg(_, _, _, _, _)) == Msg(k, request.token, request.sender, request.other, request.amount)
    IN IF kind = Throws THEN Throws
       ELSE <<[kind      |-> k,
               info      |-> GetInfo(k, request.token, ledger),
               balance   |-> BalanceOf(k, request.token, ledger, request.other),
               allowance |-> Allowance(k, ledger, request.sender, request.other),
               transfer  |-> Create(CreateTransferMsg),
               approve   |-> Create(CreateApproveMsg)]>>)

UseHandle == Answer("handle", HandleCalls(request.vm, request.calls))

ReadEvmLogs ==
  Answer("evmLogs",
    [all    |-> DecodeEvmLogs(request.abi, request.logs, FALSE),
     valid  |-> DecodeEvmLogs(request.abi, request.logs, TRUE),
     named  |-> FilterEvmLogsByEvent(request.abi, request.logs, request.name),
     topic  |-> GetEventSignature(request.abi, request.name)])

ReadRevert == Answer("revert", DecodeRevertReason(request.data, request.abi))

ReadWasmContract ==
  Answer("nft",
    [schema |-> SchemaInUse(request.given, request.nested),
     owner  |-> GetOwnerOf(request.told),
     tokens |-> GetTokens(request.tokens, request.startAfter, request.limit)])

ReadBalance == Answer("balance", GetBalance(request.context, request.options, request.chain))

CallVip ==
  Answer("vip", VipMessage(request.context, request.given, request.method, request.params))

ClaimVipRewards ==
  Answer("rewards",
    ClaimRewards(request.context, request.given, GetClaimableRewards(request.entries)))

ReadVip ==
  Answer("vipReads",
    [all   |-> GetPositions(request.delegations),
     one   |-> GetPosition(request.delegations, request.params),
     votes |-> GetVoteInfo(request.currentCycle, request.votes, request.cycle, "alice"),
     stage |-> GetStageInfo(request.store)])

RouteTransfer == Answer("route", TransferMsgs(request.client, request.options, request.replies))

ClassifyFailure == Answer("failure", ClassifyBroadcastError(request.code, request.log))

BridgeFromWallet ==
  Answer("wallet",
    LET w == request.wallet
        o == request.options
    IN [deposit   |-> WalletDeposit(w, request.chainId, request.amount, o),
        withdraw  |-> WalletWithdraw(w, request.chainId, request.amount, o),
        claim     |-> WalletClaim(w, ToWithdrawalInfo(request.withdrawal, request.status)),
        list      |-> WalletWithdrawals(w, request.chainId, request.executor, o),
        bridgeable |-> IF w.provider = <<>> THEN <<>> ELSE ListBridgeableChains(w.provider[1])])

MakeTypedContext ==
  Answer("typed",
    [provided |-> CreateFromProvider(request.factory, request.provider, request.chainId),
     direct   |-> LET info == GetChainInfo(request.provider, request.chainId)
                  IN IF info = Throws THEN Throws ELSE FromChainInfo(request.factory, info[1]),
     optioned |-> FromOptions(request.factory, request.registry, request.options)])

RunAbigen == Answer("abigen", Abigen(request.argv, request.world))

FormatLiteral == Answer("literal", FormatObjectLiteral(request.value))

UseSession == Answer("sessions", RunSessions(request.chain, request.alone, request.steps))

Next ==
  \/ FormatAmount \/ ConvertAndBack \/ DecimalArgument \/ EstimateFee \/ SpendCoins \/ CalculateWithCoins \/ ReadCoin
  \/ ConvertAddress \/ ReadEvents \/ ResolveMoveType \/ ReadMoveValue
  \/ CallMoveContract \/ ReadMoveView \/ CallEvmContract \/ CallWasmContract
  \/ RunWasmContracts \/ AskWasmContract \/ ReadWasmSchema \/ InferType
  \/ PublishModules \/ RunScript \/ NameMoveTarget \/ ReadMoveState \/ SignDoc
  \/ SignTransactions \/ SignInContext \/ SignTypedData \/ SendOverEvm \/ NormalizeMessage
  \/ CarryMessage \/ BuildWithDefaults \/ ConfigureChain
  \/ ReadWithdrawals \/ WatchBridgeTx \/ ReadProfile \/ LookUpRegistry \/ ManageChains
  \/ EnterByProvider \/ ReadTransaction \/ ReadLocalRegistry \/ AskComposite \/ ConvertAssetAmount
  \/ SendWithHeaders \/ AskOverHttp \/ AskNode \/ AskEvmNode \/ RetryCall \/ ReachChain
  \/ ReadResponse \/ NameServices \/ AskInContext \/ LookUpLoaded
  \/ UseToken \/ UseHandle \/ ReadEvmLogs \/ ReadRevert \/ ReadWasmContract \/ ReadBalance
  \/ CallVip \/ ClaimVipRewards \/ ReadVip \/ RouteTransfer \/ ClassifyFailure
  \/ BridgeFromWallet \/ MakeTypedContext \/ RunAbigen \/ FormatLiteral \/ UseSession

Spec == Init /\ [][Next]_vars

-----------------------------------------------------------------------------
(***************************************************************************)
(* Properties.                                                             *)
(***************************************************************************)
Asked(op) == Done /\ request.op = op

\* formatUnits() loses nothing, formatTokenAmount() rounds towards zero and by less
\* than one unit of the last decimal it may show, and Coin.format() writes the same
\* number for every amount that is not negative.
FormattingIsExact ==
  Asked("format") =>
    LET r     == answer.result
        d     == request.decimals
        o     == request.options
        fine  == 5                      \* more decimals than any text has
        cut   == Least(o.max, d)
        shown == ParseUnits(r.shown, fine)[1]
        exact == request.value * 10 ^ (fine - d)
    IN /\ ParseUnits(r.text, d) = <<request.value>>
       /\ Magnitude(shown) <= Magnitude(exact)
       /\ Magnitude(exact) - Magnitude(shown) < 10 ^ (fine - cut)
       /\ o.trim => Len(r.shown.frac) >= o.min
       /\ request.value >= 0 =>
            /\ ~r.coin.signInside
            /\ [neg |-> r.coin.neg, int |-> r.coin.int, frac |-> r.coin.frac] = r.text

\* From a denom to another and back is the amount itself, unless it has more
\* decimals than the smaller unit, or more than an integer for the larger.
ConversionIsReversible ==
  Asked("convert") =>
    IF request.diff < 0 /\ request.text.frac # <<>> THEN answer.result = Throws
    ELSE Len(request.text.frac) <= request.diff \/ request.diff <= 0
           => answer.result = <<request.text>>

\* A Move decimal is encoded as parseUnits() reads it and decoded to the same text.
DecimalsAgree ==
  Asked("decimal") =>
    /\ answer.result.read = ParseUnits(request.text, request.scale)
    /\ answer.result.written = request.text

\* The fee pays for the gas limit at the price, the limit covers the gas used with
\* its margin, and neither is more than the rounding to 1 / precision explains.
FeeCoversGas ==
  Asked("fee") =>
    LET r == answer.result
        Covers(amount, value, f) ==
          /\ amount * f.den >= value * f.num
          /\ (amount - 1) * request.precision * f.den
               < value * (f.num * request.precision + f.den)
    IN Covers(r.limit, request.used, request.multiplier)
         /\ Covers(r.fee, r.limit, request.price)

\* Merging keeps every total and leaves one entry for each denom; from merged coins
\* the fee is taken exactly once, and refused exactly if a denom falls short.
CoinsBalance ==
  Asked("coins") =>
    LET r == answer.result
        denoms == DenomsOf(request.coins)
    IN /\ DenomsOf(r.merged) = denoms /\ Len(r.merged) = Cardinality(denoms)
       /\ \A x \in denoms : TotalOf(r.merged, x) = TotalOf(request.coins, x)
       /\ (r.left = Throws) <=>
            \E x \in denoms : TotalOf(request.coins, x) < TotalOf(request.fee, x)
       /\ r.left # Throws =>
            \A x \in denoms :
              TotalOf(r.left[1], x) + TotalOf(request.fee, x) = TotalOf(request.coins, x)

\* The same calls on two coins of a denom keep their difference, multiplied by the factors,
\* and so tell their order; only a coin of another denom, an amount that is no safe integer
\* and a factor that is none are refused, a negative total is not (core/coin.ts).
CoinsCalculate ==
  Asked("coinCalls") =>
    LET r     == answer.result
        steps == request.steps
        Safe(n) == DOMAIN n \subseteq {"digits", "bigint", "number"}
        Value(n) == n[CHOOSE kind \in DOMAIN n : TRUE]
        muls  == SelectSeq(steps, LAMBDA s : s.call = "mul")
        bad   == \E i \in DOMAIN steps : IF steps[i].call = "mul" THEN "fraction" \in DOMAIN steps[i].by
                                        ELSE steps[i].coin.denom # "a"
        times == CASE muls = <<>> -> 1 [] Len(muls) = 1 -> Value(muls[1].by)
                   [] OTHER -> Value(muls[1].by) * Value(muls[2].by)
        x == r.a[1].amount
        y == r.b[1].amount
        c == r.compared[1]
        moved == {i \in DOMAIN steps : steps[i].call # "mul"}
    IN /\ (r.a = Throws) <=> bad \/ ~Safe(request.a)
       /\ (r.b = Throws) <=> bad \/ ~Safe(request.b)
       /\ r.mixed
       /\ Throws \notin {r.a, r.b} =>
            /\ x - y = (Value(request.a) - Value(request.b)) * times
            /\ r.a[1].denom = "a" /\ r.b[1].denom = "a"
            /\ Cardinality({k \in {"lt", "eq", "gt"} : c[k]}) = 1
            /\ c.eq = (x - y = 0) /\ c.lt = (y - x > 0) /\ c.gte # c.lt /\ c.lte # c.gt
            /\ muls = <<>> =>
                 x - Value(request.a) =
                   TotalOf([i \in DOMAIN steps |-> [denom |-> steps[i].call, amount |-> steps[i].coin.amount]], "add")
                   - TotalOf([i \in DOMAIN steps |-> [denom |-> steps[i].call, amount |-> steps[i].coin.amount]], "sub")

\* A text is a coin exactly if it is digits before a denom of letters, digits and slashes
\* that starts with a letter, and it is that amount of that denom (core/coin.ts).
CoinsAreRead ==
  Asked("parseCoin") =>
    LET chars == request.chars
        Written(k) == /\ \A i \in 1 .. k : "digit" \in DOMAIN chars[i]
                      /\ "letter" \in DOMAIN chars[k + 1]
        cuts  == {k \in 1 .. Len(chars) - 1 : Written(k)}
        plain == \A i \in DOMAIN chars : chars[i] \notin {[mark |-> "-"], [mark |-> " "]}
    IN /\ (answer.result # Throws) <=> cuts # {} /\ plain
       /\ answer.result # Throws =>
            LET c == answer.result[1]
            IN \E k \in cuts : /\ c.denom = SubSeq(chars, k + 1, Len(chars))
                               /\ PadStart(Digits(c.amount), k) = [i \in 1 .. k |-> chars[i].digit]

\* What users see and pay is the amount: units, options, denoms, decimals, fees and
\* coin lists (core/coin.ts, util/units.ts, util/amount.ts, client/gas.ts).
AmountsAreExact ==
  FormattingIsExact /\ ConversionIsReversible /\ DecimalsAgree /\ FeeCoversGas /\ CoinsBalance
    /\ CoinsCalculate /\ CoinsAreRead

\* However an address is written - with or without leading zeros, as hex or as the
\* bech32 text made of it - there is one bech32 text of it, which is valid, and a Move
\* argument gets the same 32 bytes from all of them (util/address.ts, bcs.ts).
AddressIsPreserved ==
  Asked("address") =>
    /\ answer.result # <<>>
    /\ LET a == answer.result[1]
       IN /\ Bech32Argument(a) = HexArgument(request.digits)
          /\ FromHex(ToHex(a), "init") = <<a>>
          /\ FromHex(HexArgument(request.digits), "init") = <<a>>
          /\ ValidAcc(a)
          /\ Len(a.digits) = ShortDigits =>
               ValidVal(ValFromAcc(a)) /\ AccFromVal(ValFromAcc(a)) = a

\* Both: what is written for a user or the chain, and read back, is the value it was.
ValuesAreKept == AmountsAreExact /\ AddressIsPreserved

\* An attribute that occurs once is read alike by every accessor, and a transaction
\* the filter accepts is one the query finds on the chain, whether or not keys occur
\* twice: so that waitForEvent() finds in the past what it would accept in the
\* present (client/events.ts, waiting.ts).
AttributesAreRead ==
  Asked("events") =>
    LET r == answer.result
        Once(e) == Cardinality(KeysOf(e)) = Len(e.attributes)
        kept    == r.wasm
    IN /\ r.matches = (r.fitting # <<>>)
       /\ r.matches /\ request.tx.height >= request.fromHeight => r.found
       /\ r.event # <<>> /\ Once(r.event[1]) =>
            r.value = Lookup(GetEventAttributes(r.event[1]), request.key)
       /\ \A i \in DOMAIN kept :
            Once(kept[i]) =>
              LET p == ParseWasmEvent(kept[i])
              IN /\ DOMAIN p.data \cap Underscored = {}
                 /\ \A key \in DOMAIN p.data :
                      GetEventAttribute(kept[i], key) = <<p.data[key]>>
                 /\ p.action # <<>> =>
                      FindWasmEventsByAction(<<kept[i]>>, p.action[1]) = <<kept[i]>>
       /\ \A i \in DOMAIN r.moves :
            FindMoveEventsByType(<<r.moves[i]>>, ParseMoveEvent(r.moves[i]).eventType)
              = <<r.moves[i]>>

\* The logs of a block that an ABI knows are found, all of them, in their order and each
\* by its own name, pending ones apart; all of the topic that getEventSignature() gives
\* for a name, to ask a node for, have the name (contracts/evm/events.ts).
LogsAreFound ==
  Asked("evmLogs") =>
    LET r     == answer.result
        logs  == request.logs
        Known(log) == ~log.pending /\ \E i \in DOMAIN request.abi : request.abi[i].topic = log.topic
        Named(log) == \E i \in DOMAIN request.abi :
                        request.abi[i].topic = log.topic /\ request.abi[i].name = request.name
        Sources(ds) == [i \in DOMAIN ds |-> ds[i].log]
    IN /\ Sources(r.valid[1]) = SelectSeq(logs, Known)
       /\ Sources(r.named) = SelectSeq(logs, LAMBDA log : Known(log) /\ Named(log))
       /\ IF \A i \in DOMAIN logs : Known(logs[i]) THEN r.all = r.valid ELSE r.all = Throws
       /\ r.topic = <<>> => r.named = <<>>
       /\ r.topic # <<>> =>
            \A i \in DOMAIN logs : Known(logs[i]) /\ logs[i].topic = r.topic[1] =>
              \E j \in DOMAIN r.named : r.named[j].log = logs[i]

\* Both: of the events and logs of a transaction the ones asked for are found, and read.
EventsAreFound == AttributesAreRead /\ LogsAreFound

\* Of a type, with its generic parameters replaced.
RECURSIVE Substituted(_, _)
Substituted(type, typeArgs) ==
  IF Len(type.base) = 1 /\ type.base[1] \in DOMAIN GenericIndex
  THEN IF GenericIndex[type.base[1]] <= Len(typeArgs)
       THEN typeArgs[GenericIndex[type.base[1]]] ELSE type
  ELSE [type EXCEPT !.typeArgs =
          [k \in DOMAIN type.typeArgs |-> Substituted(type.typeArgs[k], typeArgs)]]

\* The type that reaches the encoder is the one the ABI declares, with the type
\* arguments of the call in their places, and if it is encoded as BCS no part of it
\* is taken for a string because it is a struct, or refused (contract.ts, bcs.ts).
TypesAreKept ==
  Asked("moveType") =>
    /\ answer.result.parsed = Substituted(request.type, request.typeArgs)
    /\ answer.result.bcs => answer.result.codecs \cap {"struct", "throws"} = {}

\* The TypeScript value that MoveTypeToTs (contracts/move/types.ts) promises.
RECURSIVE TsValue(_, _)
TsValue(value, type) ==
  CASE type.base \in Wide -> [bigint |-> value]
    [] type.base = <<"vector">> ->
         [array |-> [i \in DOMAIN value |-> TsValue(value[i], type.typeArgs[1])]]
    [] type.base = OptionBase ->
         IF value = <<>> THEN Null ELSE TsValue(value[1], type.typeArgs[1])
    [] OTHER -> [number |-> value]

\* A value is the same JavaScript value whether a view returns it as JSON, alone or as
\* one of several, or an enricher decodes it from the BCS arguments of a transaction,
\* and it is the one the declared types promise (contract.ts, enrichers/move.ts).
ValuesArePromised ==
  /\ Asked("moveValue") =>
       /\ answer.result.viewed = TsValue(request.value, request.type)
       /\ answer.result.enriched = TsValue(request.value, request.type)
  /\ Asked("moveView") =>
       LET promised == [i \in DOMAIN request.types |->
                          TsValue(request.values[i], request.types[i])]
       IN answer.result = IF Len(promised) = 1 THEN promised[1] ELSE [array |-> promised]

\* Who has what after a chain executed a message of a token: an amount and a recipient it
\* does not accept change nothing.
Executed(kind, ledger, msg) ==
  LET args   == IF kind = "fungible asset" THEN Tail(msg.args) ELSE msg.args
      who    == AccountOf(args[1])
      from   == AccountOf(msg.sender)
      given  == IF kind = "erc20" THEN [n |-> args[2].number, whole |-> TRUE] ELSE args[2].text
      spends == msg.call \in {"transfer", "primary_fungible_store::transfer"}
      Moved(b) == [b EXCEPT ![from] = @ - given.n, ![who] = @ + given.n]
  IN IF \/ ~ledger.exists \/ ~given.whole \/ given.n < 0
        \/ spends /\ given.n > ledger.balances[from]
        \/ kind = "cw20" /\ IsHex(args[1])
     THEN ledger
     ELSE CASE spends -> [ledger EXCEPT !.balances =
                            IF from = who THEN @ ELSE Moved(@)]
            [] msg.call = "approve" -> [ledger EXCEPT !.allowances[<<from, who>>] = given.n]
            [] msg.call = "increase_allowance" ->
                 [ledger EXCEPT !.allowances[<<from, who>>] = @ + given.n]

\* A token handle tells what the ledger says of the token and the accounts asked for, and
\* fails only for a token that is not there or a form of address its machine does not
\* take; its messages move the amount meant from the sender to the recipient, or let the
\* spender have it, and nothing else, or are refused, on the spot or by the chain; a
\* fungible asset has no allowances (token/).
TokensAreTold ==
  Asked("token") /\ answer.result # Throws =>
    LET r      == answer.result[1]
        ledger == request.ledger
        from   == AccountOf(request.sender)
        other  == AccountOf(request.other)
        n      == request.amount.n
        Served(address) == ledger.exists /\ (r.kind = "erc20" => IsHex(address))
                                         /\ (r.kind = "cw20" => ~IsHex(address))
        Good   == request.amount.whole /\ n >= 0 /\ Served(request.other)
        Does(msg, expected) ==
          /\ msg = Throws => ~request.amount.whole \/ n \notin 0 .. MaxUint256 \/ ~Served(request.other)
          /\ msg # Throws =>
               Executed(r.kind, ledger, msg[1]) = IF Good THEN expected ELSE ledger
    IN /\ r.info = IF ~ledger.exists THEN Throws
                  ELSE <<[name |-> ledger.name, symbol |-> ledger.symbol,
                          decimals |-> ledger.decimals, totalSupply |-> ledger.supply]>>
       /\ r.balance # Throws <=> Served(request.other)
       /\ r.balance # Throws => r.balance = <<ledger.balances[other]>>
       /\ r.allowance # Throws <=> /\ r.kind # "fungible asset"
                                 /\ Served(request.sender) /\ Served(request.other)
       /\ r.allowance # Throws => r.allowance = <<ledger.allowances[<<from, other>>]>>
       /\ Does(r.transfer,
               IF n > ledger.balances[from] \/ from = other THEN ledger
               ELSE [ledger EXCEPT !.balances[from] = @ - n, !.balances[other] = @ + n])
       /\ r.kind = "fungible asset" => r.approve = Throws
       /\ r.kind # "fungible asset" =>
            Does(r.approve,
                 [ledger EXCEPT !.allowances[<<from, other>>] = IF r.kind = "erc20" THEN n ELSE @ + n])

\* The two ways to the same Move call, the handle of a contract and the builder, give
\* one message; a call encoded as BCS says the same however its addresses and integers
\* were written, and has as many arguments as the function; a call or view sent as JSON
\* has no bech32 text where an address is declared.  What is refused is no entry (no
\* view), has a wrong number of arguments, or a bigint that JSON cannot write
\* (contracts/move/contract.ts, bcs.ts).
MoveCallsAreMeant ==
  Asked("moveCall") =>
    LET r == answer.result
        params == ResolveGenericTypes(GetNonSignerParams(request.fn), request.typeArgs)
        bcs    == \A i \in DOMAIN params : UsesBcs(params[i])
        Hexed(args) == \A i \in DOMAIN params \cap DOMAIN args :
                         IsAddressLikeType(params[i]) => "bech32" \notin DOMAIN args[i]
        Refused == IF bcs THEN Len(request.args) # Len(params)
                   ELSE \E i \in DOMAIN request.args : HasBigInt(request.args[i])
    IN /\ (r.proxy = Throws) <=> (~request.fn.entry \/ Refused)
       /\ r.proxy # Throws => r.proxy = r.built /\ Len(r.proxy[1].args) = Len(request.args)
       /\ bcs => r.proxy = r.rewritten
       /\ r.proxy # Throws /\ ~bcs => Hexed(r.proxy[1].args)
       /\ r.view # Throws => request.fn.view /\ r.view = r.builtView /\ Hexed(r.view[1].args)
       /\ r.plain # Throws /\ request.fn.view => r.view # Throws

MoveArgumentsAreKept == TypesAreKept /\ ValuesArePromised /\ MoveCallsAreMeant

\* The forms of the addresses an argument has in the places its type declares.
RECURSIVE AddressForms(_, _)
AddressForms(arg, param) ==
  CASE param.type = "address" -> DOMAIN arg
    [] param.type = "address[]" -> UNION {DOMAIN arg.array[i] : i \in DOMAIN arg.array}
    [] param.type = "tuple" ->
         UNION {AddressForms(arg.object[k], param.components[k]) : k \in DOMAIN param.components}
    [] param.type = "tuple[]" ->
         UNION {AddressForms(arg.array[i], [param EXCEPT !.type = "tuple"]) :
                  i \in DOMAIN arg.array}
    [] OTHER -> {}

OneFieldVariants(schema) ==
  /\ schema.properties = <<>>
  /\ \A list \in {schema.oneOf, schema.anyOf} : \A i \in DOMAIN list :
       Len(list[i].required) = 1 /\ list[i].properties = list[i].required

\* A function without overloads gets all its arguments, each address as hex, and
\* coins only if options came after them; a call says the same over gRPC and JSON-RPC,
\* where a write needs a key, and its estimate is of that same call
\* (contracts/evm/contract.ts).
EvmCallsAreMeant ==
  Asked("evm") /\ Cardinality(FunctionsNamed(request.contract.abi, request.name)) = 1 =>
    LET inputs  == InputsOf(request.contract.abi, request.name)
        grpc    == answer.result.calls.grpc
        jsonrpc == answer.result.calls.jsonrpc
        write   == grpc.write
        AllHex(args) == \A i \in DOMAIN inputs : "bech32" \notin AddressForms(args[i], inputs[i])
        Same(call)   == /\ call.to = MaybeToHex(request.contract.address)
                        /\ call.args = write.args
                        /\ call.value = IF write.value = 0 THEN <<>> ELSE <<write.value>>
    IN /\ Len(write.args) = Len(inputs) /\ AllHex(write.args)
       /\ write.value = request.sent
       /\ grpc.estimate = write /\ Same(jsonrpc.estimate)
       /\ (jsonrpc.write = Throws) <=> (request.key = Nobody)
       /\ jsonrpc.write # Throws => jsonrpc.write[1] = jsonrpc.estimate
       /\ request.sent = 0 => /\ grpc.read.args = write.args
                              /\ answer.result.deploy.args = write.args

\* A proxy of a CosmWasm contract whose variants each have one field builds the
\* messages the validator accepts and no others (contracts/wasm).
WasmCallsAreMeant ==
  Asked("wasm") /\ OneFieldVariants(request.schema) =>
    (answer.result # <<>>) = Validate(<<request.variant>>, request.schema)

\* The header credentials are sent in, and what it says.
HeaderOf(auth) ==
  IF auth.type # "api-key" THEN "authorization"
  ELSE IF auth.header = <<>> THEN "x-api-key" ELSE LowerCase[auth.header[1]]

Secret(auth) ==
  CASE auth.type = "bearer"  -> [bearer |-> auth.secret]
    [] auth.type = "api-key" -> [key |-> auth.secret]
    [] auth.type = "basic"   -> [basic |-> <<auth.username, auth.secret>>]

Named(headers, name) == {h \in F!Range(headers) : LowerCase[h[1]] = name}

Clashes(o) == o.auth # <<>> /\ Named(o.headers, HeaderOf(o.auth[1])) # {}

\* A context and all derived from it send the credentials it was made with over gRPC, RPC
\* and EVM RPC alike, unless a request brings its own, and then those of the context are
\* not sent at all; refused is only a context or a request that says a header twice
\* (client/headers.ts, transport-common.ts, wallet/chain-context.ts).
CredentialsAreMeant ==
  Asked("headers") =>
    LET o == request.options
        q == request.query
        r == answer.result[1]
        auth == IF q.auth # <<>> THEN q.auth ELSE o.auth
        Said(name) ==
          IF Named(q.headers, name) # {} THEN Named(q.headers, name)
          ELSE IF auth # <<>> /\ HeaderOf(auth[1]) = name THEN {<<name, Secret(auth[1])>>}
          ELSE Named(o.headers, name)
        Due(client, name) ==
          CASE client = "owned" /\ Named(request.own, name) # {} -> Named(request.own, name)
            [] name = "x-cosmos-block-height" /\ client # "rpc" /\ client # "evmRpc"
                 /\ q.height # <<>> /\ Named(request.own, name) = {} ->
                 {<<name, [height |-> q.height[1]]>>}
            [] client = "evmRpc" /\ name = "content-type" /\ Said(name) = {} ->
                 {<<name, [text |-> "application/json"]>>}
            [] OTHER -> Said(name)
    IN /\ (answer.result = Throws) <=> Clashes(o)
       /\ answer.result # Throws =>
            \A client \in {"grpc", "rpc", "evmRpc", "owned"} :
              /\ (r[client] = Throws) <=> Clashes(q)
              /\ r[client] # Throws =>
                   \A name \in F!Range(LowerCase) :
                     {r[client][1][n] : n \in DOMAIN r[client][1] \cap {name}}
                       = {h[2] : h \in Due(client, name)}

\* Of contexts derived one from the other each has the signer or the address it was made
\* with and none of the others': who signs is the signer, who reads is the signer or, of
\* one that cannot sign, its address (wallet/chain-context.ts).
IdentitiesAreKept ==
  Asked("headers") /\ answer.result # Throws =>
    LET r       == answer.result[1]
        derived == SelectSeq(request.steps, LAMBDA s : s.step \in {"withSigner", "forAddress"})
        from    == IF derived = <<>> THEN request.options ELSE S!Last(derived)
    IN IF from.signer = <<>> THEN r.signs = Throws /\ r.reads = from.address
       ELSE /\ r.signs = <<from.signer[1].of>> /\ r.reads \in {<<>>, r.signs}
            /\ from.signer[1].isKey => r.reads = r.signs

\* Two calls make the same request exactly if they ask the same: a parameter that is zero
\* or empty is one that is not given, a hash is the same with 0x and without, and a block
\* of an EVM chain is the same as a number, in decimal and in hexadecimal digits, and the
\* latest if none is given; only a word that is no block is refused (client/rpc.ts,
\* evm-rpc.ts).
QueriesAreMeant ==
  LET Args(c, Value(_, _), Counts(_, _)) ==
        {<<n, Value(n, c.args[n])>> : n \in {k \in DOMAIN c.args : Counts(k, c.args[k])}}
      NodeValue(n, x) == IF n = "hash" THEN [digits |-> x.digits] ELSE x[1]
      NodeCounts(n, x) ==
        n = "hash" \/ x \notin {<<>>} \cup (IF n \in {"page", "perPage", "data"}
                                  THEN {<<[number |-> 0]>>, <<[text |-> ""]>>} ELSE {})
      EvmValue(n, x) ==
        IF n \notin {"block", "fromBlock", "toBlock"} THEN x[1]
        ELSE IF x = <<>> THEN [tag |-> "latest"]
        ELSE IF "tag" \in DOMAIN x[1] THEN x[1] ELSE [height |-> x[1].height]
      EvmCounts(c, n, x) ==
        \/ n = "block"
        \/ x # <<>> /\ (n \in {"fromBlock", "toBlock"} => c.args.blockHash = <<>>)
      EvmArgs(c) == Args(c, EvmValue, LAMBDA n, x : EvmCounts(c, n, x))
      Words(c) == {v[2].tag : v \in {x \in EvmArgs(c) : DOMAIN x[2] = {"tag"}}}
  IN /\ Asked("rpc") =>
          LET Asks(c) == <<c.method, Args(c, NodeValue, NodeCounts)>>
          IN (answer.result.one = answer.result.other)
               <=> (Asks(request.one) = Asks(request.other))
     /\ Asked("evmRpc") =>
          LET r == answer.result
              Asks(c) == <<c.method, EvmArgs(c)>>
          IN /\ (r.one = Throws) <=> ~(Words(request.one) \subseteq {"latest", "earliest", "pending"})
             /\ r.one # Throws /\ r.other # Throws =>
                  ((r.one = r.other) <=> (Asks(request.one) = Asks(request.other)))

\* Both HTTP clients tell what the node said if its headers come within the timeout of
\* the request, or of the client, or else the default, and its body before the caller
\* gives up; they end at the timeout if no headers came, at the caller's abort always, and
\* health() tells how it went instead of failing (client/http-client.ts, util/fetch.ts).
RequestsEnd ==
  Asked("http") =>
    LET r     == answer.result
        run   == request.run
        limit == Or(request.options.timeoutMs, Or(request.config.timeoutMs, 3))
        told  == IF run.ok THEN run.body ELSE "http error"
    IN /\ r.healthy <=> r.rpc.outcome = "result"
       /\ \A end \in {r.rpc, r.evmRpc} :
            /\ end.at <= run.abortAt
            /\ end.at > limit => run.headersAt < limit
            /\ end.outcome \in {told, "aborted"}
            /\ run.headersAt < limit /\ run.bodyAt < run.abortAt => end.outcome = told
            /\ limit <= run.headersAt => end.outcome = "aborted"

\* A call over gRPC is answered if one of the attempts it may make is, and none before it
\* failed for good; else it fails as the last attempt did, told as a refusal of the
\* credentials if it was one, which is never tried again; between attempts it waits no
\* more than the most it may and a quarter of it (client/transport-common.ts,
\* grpc-client.ts).
RetriesEnd ==
  Asked("retry") =>
    LET r     == answer.result
        o     == request.options
        tries == Len(r.delays) + 1
        Passing(x) == x \in {[connect |-> "unavailable"], [message |-> "socket"]}
        Answered(k) == "answer" \in DOMAIN request.replies[k]
        Refusal(x) == x \in {[connect |-> "unauthenticated"], [connect |-> "permission_denied"]}
        last  == request.replies[tries]
    IN o.maxRetries >= 0 =>
         /\ tries <= o.maxRetries + 1
         /\ \A k \in 1 .. tries - 1 : Passing(request.replies[k])
         /\ tries <= o.maxRetries => ~Passing(last)
         /\ ("authentication" \in DOMAIN r.reply) <=> Refusal(last)
         /\ ~Refusal(last) => r.reply = last
         /\ \A k \in DOMAIN r.delays :
              /\ 4 * r.delays[k].most <= 5 * o.maxDelayMs
              /\ k > 1 => r.delays[k].least >= r.delays[k - 1].least

\* Whichever transport, a chain with an end point for gRPC or gRPC-web is reached, at one
\* of them and at the host, port and scheme that is written, its own kind first; without a
\* scheme a chain of the registry over TLS, one of the user by its port; and the WebSocket
\* of a chain that has none of its own is at the host of its RPC, over TLS if that is
\* (provider/chain-utils.ts, custom-provider.ts, client/transport-common.ts).
EndpointsAreKept ==
  Asked("endpoints") =>
    LET r    == answer.result
        apis == request.chain.apis
        Reached(got, first, second) ==
          LET written == IF first # <<>> THEN first ELSE second
          IN /\ (got = Throws) <=> written = <<>>
             /\ got # Throws =>
                  LET w == written[1]
                  IN /\ <<got[1].host, got[1].port, got[1].path>> = <<w.host, w.port, w.path>>
                     /\ got[1].scheme =
                          IF w.scheme # "" THEN w.scheme
                          ELSE IF request.custom /\ w.path = <<>> /\ w.port \notin {<<>>, <<443>>}
                            THEN "http" ELSE "https"
    IN /\ Reached(r.native, apis.grpc, apis.grpcWeb)
       /\ Reached(r.web, apis.grpcWeb, apis.grpc)
       /\ apis.wss # <<>> => r.info.wss = apis.wss
       /\ ~request.custom /\ apis.wss = <<>> /\ apis.rpc # <<>> /\ apis.rpc[1].scheme # "" =>
            LET wss == r.info.wss[1]
            IN /\ wss.host = apis.rpc[1].host /\ wss.port = apis.rpc[1].port
               /\ wss.scheme = (IF apis.rpc[1].scheme = "https" THEN "wss" ELSE "ws")
               /\ Cardinality({i \in DOMAIN wss.path : wss.path[i] = "websocket"}) = 1

\* However deep a response is read, but under a oneof, every message in it is a response of
\* its own: it tells its own type, writes the JSON of its own data, an Any with the registry
\* of the context unless the caller gives another, and throws only for an Any that registry
\* does not know; a field of its own named typeUrl is not hidden; and what is read is what
\* the node sent (client/response.ts).
ResponsesAreWrapped ==
  Asked("response") =>
    LET r    == answer.result
        sent == ReadPath(request.response, request.path)
        oneof == \E n \in 1 .. Len(request.path) :
                   LET v == ReadPath(request.response, SubSeq(request.path, 1, n))
                   IN v # <<>> /\ "oneof" \in DOMAIN v[1]
        registry == IF request.given # <<>> THEN request.given ELSE request.registry
    IN IF sent = <<>>
       THEN r.read = <<>> \/ S!Last(request.path) \in SyntheticKeys
       ELSE LET v == sent[1]
            IN IF "type" \in DOMAIN v /\ ~oneof
               THEN /\ r.read[1].wrapped = v
                    /\ (r.json = Throws) <=>
                         \E m \in MessagesIn(v) :
                           m.type = "Any" /\ (registry = <<>> \/ m.fields.typeUrl.scalar \notin registry[1])
                    /\ r.json # Throws => r.json[1].json = v
                    /\ r.spread[1].schema = [schema |-> v.type]
                    /\ r.spread[1].typeUrl = (IF "typeUrl" \in DOMAIN v.fields THEN v.fields.typeUrl
                                              ELSE [scalar |-> v.type])
                    /\ DOMAIN v.fields \subseteq DOMAIN r.spread[1]
               ELSE \/ r.read = sent
                    \/ ~oneof /\ DOMAIN r.read[1] = DOMAIN v /\ DOMAIN v \subseteq {"list", "map"}

\* A service has one client however often it is named, and no other service has it; a name
\* that is no service has none. The client with a cache has the same services, each in one
\* wrapper until the cache is cleared and in another after that; and but for a Move module
\* and the two names of an EVM coin, no answer is kept without its height (grpc-client.ts,
\* cached-client.ts).
ClientsAreReused ==
  Asked("services") =>
    LET told   == answer.result.clients
        cached == answer.result.cached
        names  == request.names
        Cleared(i, j) == \E k \in i .. j : names[k] = "clearCache"
    IN /\ \A i, j \in DOMAIN told :
            /\ (told[i] # <<>>) <=> names[i] \in request.services \ request.plain
            /\ told[i] # <<>> => ((told[i] = told[j]) <=> names[i] = names[j])
            /\ names[i] \in request.services \ request.plain =>
                 /\ DOMAIN cached[i] = {"wrapper"}
                 /\ i < j => ((cached[i] = cached[j]) <=> names[i] = names[j] /\ ~Cleared(i, j))
            /\ names[i] \in request.services \cap request.plain => cached[i] = [plain |-> names[i]]
            /\ (DOMAIN cached[i] = {"undefined"}) <=> names[i] \notin answer.result.keys
       /\ {p \in DOMAIN answer.result.kept : answer.result.kept[p] = "for good"}
            = DOMAIN answer.result.kept
                \cap {<<"move", "module">>, <<"evm", "denom">>, <<"evm", "contractAddrByDenom">>}

\* What a context asks is about its own chain, whatever chain the options name; about the
\* address the call gives, or its signer's or its own; refused is only what needs an address
\* or an end point it does not have. A Key a call brings is the one who is asked about, and
\* leaves the context as it was; another signer is asked only by a context that has no address
\* yet (wallet/chain-context.ts).
ContextsAskForThemselves ==
  Asked("ask") =>
    LET told  == answer.result
        o     == request.options
        own   == IF o.signer # <<>> /\ (o.signer[1].isKey \/ o.address = <<>>)
                 THEN <<o.signer[1].of>> ELSE o.address
        calls == request.calls
        \* Another signer than a Key has been used so far.
        Before(k) == {n \in 1 .. k - 1 : calls[n].name = "estimateGas"
                                          /\ \E s \in F!Range(calls[n].args.signer) : ~s.isKey}
        Known(k) == \/ o.signer = <<>> \/ o.signer[1].isKey \/ o.address # <<>>
                    \/ \E n \in 1 .. k - 1 : calls[n].name = "estimateGas" /\ calls[n].args.signer = <<>>
    IN \A k \in DOMAIN calls :
         LET a == calls[k].args
             undisturbed == Before(k) = {} \/ (o.signer # <<>> /\ o.signer[1].isKey)
         IN CASE calls[k].name = "wait"      -> told[k][1].chainInfo = request.chain
              [] calls[k].name = "subscribe" ->
                   IF (a.event = "evmLogs" /\ "evm" \notin request.chain.sockets)
                        \/ (a.event # "evmLogs" /\ "cosmos" \notin request.chain.sockets)
                   THEN told[k] = Throws
                   ELSE told[k][1].chain = request.chain /\ told[k][1].filter = a.filter
              [] calls[k].name = "getAccount" ->
                   /\ a.address # <<>> => told[k] # Throws /\ told[k][1].account = a.address[1]
                   /\ a.address = <<>> /\ undisturbed =>
                        IF own # <<>> /\ Known(k) THEN told[k] # Throws /\ told[k][1].account = own[1]
                        ELSE told[k] = Throws
              [] calls[k].name = "estimateGas" ->
                   /\ a.signer # <<>> /\ a.signer[1].isKey =>
                        told[k] # Throws /\ told[k][1].simulated = a.signer[1].of
                   /\ a.signer # <<>> /\ ~a.signer[1].isKey /\ undisturbed =>
                        told[k] = <<[simulated |-> IF own # <<>> /\ Known(k) THEN own[1] ELSE a.signer[1].of]>>
                   /\ a.signer = <<>> /\ undisturbed =>
                        IF o.signer = <<>> THEN told[k] = Throws
                        ELSE told[k] # Throws /\ told[k][1].simulated = own[1]
              [] calls[k].name = "getTokenContract" ->
                   /\ (told[k] = Throws) <=> ~request.chain.resolver
                   /\ told[k] # Throws /\ undisturbed => told[k][1].sender = (IF Known(k) THEN own ELSE <<>>)

\* What a client asks for is what its caller meant, with the caller's credentials, of the
\* chain that was meant, and it ends.
RequestsAreMeant ==
  /\ CredentialsAreMeant /\ IdentitiesAreKept /\ QueriesAreMeant
  /\ RequestsEnd /\ RetriesEnd /\ EndpointsAreKept /\ ResponsesAreWrapped /\ ClientsAreReused
  /\ ContextsAskForThemselves

\* The names of the parameters in the Move modules, after the signer.
VipParameters ==
  [delegate           |-> <<"metadata", "amount", "releaseTime", "validator">>,
   provideAndDelegate |-> <<"lpMetadata", "coinAAmount", "coinBAmount", "minLiquidity",
                            "releaseTime", "validator">>,
   stableswapProvideAndDelegate |-> <<"lpMetadata", "amounts", "minLiquidity", "releaseTime", "validator">>,
   undelegate         |-> <<"metadata", "amount", "releaseTime", "validator">>,
   redelegate         |-> <<"metadata", "amount", "srcReleaseTime", "srcValidator",
                            "dstReleaseTime", "dstValidator">>,
   extendLock         |-> <<"metadata", "amount", "releaseTime", "validator", "newReleaseTime">>,
   claimStakingRewards |-> <<>>,
   voteGauge          |-> <<"cycle", "bridgeId", "weight">>,
   voteGaugeByAmount  |-> <<"cycle", "bridgeId", "amount">>]

\* What an argument says, written as JavaScript, as JSON or as BCS.
RECURSIVE Said(_)
Said(arg) ==
  LET kind == CHOOSE k \in DOMAIN arg : TRUE
      items == arg[kind]
  IN IF kind \in {"array", "sequence"} THEN [i \in DOMAIN items |-> Said(items[i])] ELSE items

\* A VIP message is refused exactly where there is no VIP or no account, or where JSON
\* cannot write the weights; else the contract reads under each of its names what was
\* given under that name, and for an amount left out Some(0).  Every open reward is
\* claimed, once for each of its stages with its own proof and score, and nothing else
\* is (vip/vip.ts, vip/indexer.ts).
VipCallsAreMeant ==
  LET nowhere == \/ request.given = <<>> /\ request.context.chainId \notin DOMAIN VipAddresses
                 \/ request.context.address = <<>>
  IN
  /\ Asked("vip") =>
       LET p       == request.params
           names   == VipParameters[request.method]
           voting  == request.method \in {"voteGauge", "voteGaugeByAmount"}
           Optional(name) == \/ name = "minLiquidity"
                             \/ name = "amount" /\ request.method \in {"undelegate", "redelegate", "extendLock"}
           Meant(name) ==
             IF voting /\ name # "cycle" THEN [i \in DOMAIN p.votes |-> Said(p.votes[i][name])]
             ELSE IF Optional(name) THEN IF p[name] = <<>> THEN <<0>> ELSE <<Said(p[name][1])>>
             ELSE Said(p[name])
           wide    == request.method = "voteGauge" /\ \E i \in DOMAIN p.votes : "bigint" \in DOMAIN p.votes[i].weight
       IN /\ (answer.result = Throws) <=> (nowhere \/ wide)
          /\ answer.result # Throws =>
               LET msg == answer.result[1]
               IN /\ <<msg.sender>> = request.context.address
                  /\ msg.at = IF request.given # <<>> THEN request.given[1] ELSE request.context.chainId
                  /\ Len(msg.args) = Len(names)
                  /\ \A i \in DOMAIN names : Said(msg.args[i]) = Meant(names[i])
  /\ Asked("rewards") =>
       LET open == {d \in UNION {F!Range(request.entries[i]) : i \in DOMAIN request.entries} : d.reward > 0}
           Claimed(msg) ==
             LET a == [k \in DOMAIN msg.args |-> Said(msg.args[k])]
             IN [k \in DOMAIN a[3] |-> [bridgeId |-> a[1], version |-> a[2], stage |-> a[3][k],
                                        proof |-> [h \in DOMAIN a[4][k] |-> a[4][k][h][1]], score |-> a[5][k]]]
           claims == S!FlattenSeq([i \in DOMAIN answer.result[1] |-> Claimed(answer.result[1][i])])
           due    == UNION {{[bridgeId |-> d.bridgeId, version |-> d.version, stage |-> s,
                              proof |-> d.proof, score |-> d.score] : s \in d.startStage .. d.endStage} : d \in open}
       IN IF answer.result = Throws THEN nowhere /\ open # {}
          ELSE F!Range(claims) = due /\ Len(claims) = Cardinality(due)

\* The messages asked of the router are for the route as the router wrote it, with what
\* the library does not read of it, and signed for if it has to be, the whole hook by the
\* key of the address named; of each transaction it answers, the chain and the signer are
\* those named anywhere in it, and no message and no call is lost (bridge/router-client.ts,
\* bridge.ts).
RoutesAreKept ==
  Asked("route") =>
    LET replies == request.replies
        raw     == replies.route.body
        txs     == Or(replies.msgs.body.txs, Or(replies.msgs.body.msgs, <<>>))
        Parts(tx) == {tx} \cup F!Range(tx.cosmos) \cup F!Range(tx.evm)
        Says(tx, field) == {part[field][1] : part \in {q \in Parts(tx) : q[field] # <<>>}}
        Agrees(told, said) == IF said = {} THEN told = "" ELSE told \in said
    IN /\ (answer.result # Throws) <=>
            /\ request.client.routerUrl /\ replies.route.ok /\ replies.msgs.ok
            /\ raw.requiresOpHook => replies.opHook.ok
       /\ answer.result # Throws =>
            LET r == answer.result[1]
                b == r.body
            IN /\ b.operations = raw.operations
               /\ b.amountIn = raw.amountIn /\ b.amountOut = raw.amountOut
               /\ IF raw.requiresOpHook
                  THEN b.signedOpHook = <<[hook   |-> [of   |-> request.options.signer.address,
                                                       over |-> S!FlattenSeq(replies.opHook.body)],
                                           signer |-> request.options.signer.address]>>
                  ELSE b.signedOpHook = <<>>
               /\ Len(r.txs) = Len(txs)
               /\ \A i \in DOMAIN txs :
                    /\ Agrees(r.txs[i].chainId, Says(txs[i], "chainId"))
                    /\ Agrees(r.txs[i].signerAddress, Says(txs[i], "signer"))
                    /\ S!FlattenSeq(r.txs[i].cosmosMsgs) =
                         (IF txs[i].cosmos = <<>> THEN <<>> ELSE txs[i].cosmos[1].msgs)
                    /\ r.txs[i].evmTx = (IF txs[i].evm = <<>> THEN <<>> ELSE <<txs[i].evm[1].call>>)

\* From a wallet, a deposit and a claim are sent on the L1 and a withdrawal on the rollup,
\* by the account of the key as that chain writes it, to whom it was asked or to that
\* account; a deposit goes to the bridge of the rollup named, on the L1 of its network if
\* the provider lists no L1 of another; a claim says what the executor told of the
\* withdrawal, byte for byte, and is refused before it is claimable; the withdrawals
\* listed are of the wallet's account there, in pages that leave none out
\* (wallet/bridge.ts, bridge/op-bridge.ts, bridge/executor.ts).
BridgeCallsAreMeant ==
  Asked("wallet") =>
    LET r   == answer.result
        o   == request.options
        w   == request.wallet
        able   == w.key # <<>> /\ w.provider # <<>> /\ w.provider[1].transport # <<>>
        chains == IF w.provider = <<>> THEN {} ELSE F!Range(w.provider[1].chains)
        l1s    == {c \in chains : c.chainType = "initia"}
        l2s    == {c \in chains : c.chainId = request.chainId}
        Own(chain) == [account |-> w.key[1], prefix |-> IF chain.prefix = <<>> THEN "init" ELSE chain.prefix[1]]
        Sent(call, on) ==
          /\ call[1].on \in on /\ call[1].signer = w.key
          /\ call[1].msg.sender = Own(call[1].on)
        ToWhom(call) == call[1].msg.to = IF o.to = <<>> THEN call[1].msg.sender ELSE o.to[1]
        bridges == IF o.bridgeId # <<>> THEN {o.bridgeId[1]} ELSE UNION {F!Range(c.opBridgeId) : c \in l2s}
    IN /\ (r.deposit # Throws) <=> (able /\ l1s # {} /\ bridges # {})
       /\ r.deposit # Throws =>
            /\ Sent(r.deposit, l1s) /\ ToWhom(r.deposit)
            /\ r.deposit[1].msg.bridgeId \in bridges /\ r.deposit[1].msg.amount = request.amount
            /\ Cardinality({c.network : c \in l1s}) = 1 /\ o.bridgeId = <<>> =>
                 \A c \in l2s : c.network \in {l1.network : l1 \in l1s} => r.deposit[1].on.network = c.network
       /\ (r.withdraw # Throws) <=> (able /\ l2s # {})
       /\ r.withdraw # Throws => Sent(r.withdraw, l2s) /\ ToWhom(r.withdraw)
       /\ (r.claim # Throws) <=> (able /\ l1s # {} /\ request.status = "claimable")
       /\ r.claim # Throws =>
            LET msg == r.claim[1].msg
                raw == request.withdrawal
            IN /\ Sent(r.claim, l1s)
               /\ \A field \in {"bridgeId", "outputIndex", "sequence", "from", "to", "amount"} :
                    msg[field] = raw[field]
               /\ [i \in DOMAIN msg.proofs |-> [base64 |-> msg.proofs[i]]] = raw.proofs
               /\ [base64 |-> msg.root] = raw.root
       /\ r.list # Throws =>
            LET mine == {i \in DOMAIN request.executor : \E c \in l2s : request.executor[i].from = Own(c)}
                Before(i) == Cardinality({j \in mine : j < i})
                from == IF o.offset = <<>> THEN 0 ELSE o.offset[1]
            IN F!Range(r.list[1]) =
                 {request.executor[i] : i \in {k \in mine : /\ Before(k) >= from
                                                            /\ o.limit # <<>> => Before(k) < from + o.limit[1]}}

\* A typed factory makes the same context of a chain by its description, by a provider
\* and by options, that of the chain asked for with the messages of its network, and
\* refuses what it cannot find; a provider without a transport has one afterwards, and one
\* that has a transport keeps it (wallet/typed-context.ts).
ContextsAreOfTheirChain ==
  Asked("typed") =>
    LET r       == answer.result
        o       == request.options
        id      == IF o.chainId # <<>> THEN o.chainId
                   ELSE IF request.factory.defaults /\ o.network # <<>> THEN <<L1ChainIds[o.network[1]]>> ELSE <<>>
        given   == IF o.provider # <<>> THEN o.provider
                   ELSE IF o.network # <<>> THEN <<request.registry[o.network[1]]>> ELSE <<>>
        Has(p, x) == \E c \in F!Range(p.chains) : c.chainId = x
        Right(answered, x) == /\ answered.context.chain.chainId = x
                              /\ answered.context.msgs = answered.context.chain.network
        KeepsTransport(before, after) ==
          after.transport = IF before.transport = <<>> THEN <<request.factory.transport>> ELSE before.transport
    IN /\ (r.provided # Throws) <=> Has(request.provider, request.chainId)
       /\ r.provided # Throws =>
            /\ r.direct # Throws /\ r.direct[1].context = r.provided[1].context
            /\ Right(r.provided[1], request.chainId)
            /\ KeepsTransport(request.provider, r.provided[1].provider)
       /\ (r.optioned # Throws) <=> (id # <<>> /\ given # <<>> /\ Has(given[1], id[1]))
       /\ r.optioned # Throws => /\ Right(r.optioned[1], id[1])
                                 /\ KeepsTransport(given[1], r.optioned[1].provider)

\* What a JavaScript value says in JSON: a key without a value says nothing.
RECURSIVE SaidInJson(_)
SaidInJson(v) ==
  CASE "object" \in DOMAIN v ->
         {<<k, SaidInJson(v.object[k])>> : k \in {x \in DOMAIN v.object : "undefined" \notin DOMAIN v.object[x]}}
    [] "array" \in DOMAIN v -> [elements |-> [i \in DOMAIN v.array |-> SaidInJson(v.array[i])]]
    [] "undefined" \in DOMAIN v -> Null
    [] OTHER -> v

\* A contract is where the message that made it says, and obeys whom its maker named:
\* one made without an admin has none ever and stays with its code; else its code
\* changes at the migrations of the admin of that moment and its admin at that
\* admin's word, until there is none.  It gets each message as it was written and the
\* coins sent along.  Only what JSON or BigInt() cannot write is not built.  A code is
\* made a contract of by those its maker allows, and an address is made once: of one
\* code, account and salt twice only if the messages differ and are fixed.  The
\* queries tell the same story (contracts/wasm/contract.ts).
ContractsLiveAsAsked ==
  Asked("wasmChain") =>
    LET steps == request.steps
        r     == answer.result
        Ok(k) == r.told[k].ok
        Of(k, names) == steps[k].call \in names
        Makes(k) == Of(k, {"instantiate", "instantiate2"})
        On(j, k) == ~Makes(k) /\ "of" \in DOMAIN steps[k].o /\ r.told[k].contract = r.told[j].contract
        Last(ks) == CHOOSE k \in ks : \A i \in ks : i <= k
        Stored(k) == SelectSeq([i \in 1 .. k |-> i], LAMBDA i : Of(i, {"store"}))
        AdminBefore(j, k) ==
          LET changes == {i \in j .. k - 1 : Ok(i) /\ (i = j \/ (On(j, i) /\ Of(i, {"updateAdmin", "clearAdmin"})))}
              o       == steps[Last(changes)].o
          IN CASE Of(Last(changes), {"updateAdmin"}) -> <<o.newAdmin>>
               [] Of(Last(changes), {"clearAdmin"})  -> <<>>
               [] OTHER -> o.admin
        CodesOf(j) == SelectSeq([i \in 1 .. Len(steps) |-> i],
                                LAMBDA i : Ok(i) /\ (i = j \/ (On(j, i) /\ Of(i, {"migrate"}))))
        HeardBy(j) == SelectSeq([i \in 1 .. Len(steps) |-> i],
                        LAMBDA i : Ok(i) /\ (i = j \/ (On(j, i) /\ Of(i, {"execute", "variant", "migrate"}))))
        IdOf(o)    == o.codeId[CHOOSE x \in DOMAIN o.codeId : TRUE]
        MsgOf(k)   == IF Of(k, {"variant"})
                      THEN {<<steps[k].o.variant,
                              IF steps[k].o.args = <<>> THEN {} ELSE SaidInJson(steps[k].o.args[1])>>}
                      ELSE SaidInJson(steps[k].o.msg)
        CoinsOf(k) == IF Of(k, {"migrate"}) THEN <<>>
                      ELSE [i \in DOMAIN steps[k].o.funds |->
                              LET coin == steps[k].o.funds[i].coin
                              IN <<coin.denom, coin.amount[CHOOSE x \in DOMAIN coin.amount : TRUE]>>]
        SameSalt(i, j) ==
          LET a == steps[i].o
              b == steps[j].o
          IN /\ Of(i, {"instantiate2"}) /\ Of(j, {"instantiate2"})
             /\ a.sender = b.sender /\ a.salt = b.salt
             /\ steps[Stored(j)[IdOf(a)]].o.wasmByteCode = steps[Stored(j)[IdOf(b)]].o.wasmByteCode
             /\ a.fixMsg = b.fixMsg /\ (a.fixMsg = <<TRUE>> => MsgOf(i) = MsgOf(j))
    IN /\ \A k \in DOMAIN steps :
            /\ Ok(k) => r.told[k].built
            /\ ~r.told[k].built <=>
                 \/ "codeId" \in DOMAIN steps[k].o /\ "fraction" \in DOMAIN steps[k].o.codeId
                 \/ "msg" \in DOMAIN steps[k].o /\ HasBigInt(steps[k].o.msg)
                 \/ Of(k, {"variant"}) /\ steps[k].o.args # <<>> /\ HasBigInt(steps[k].o.args[1])
       /\ \A j \in DOMAIN steps : Makes(j) /\ r.told[j].built =>
            LET a   == r.told[j].contract
                may == Stored(j)[IdOf(steps[j].o)]
            IN /\ Ok(j) <=> /\ IdOf(steps[j].o) \in DOMAIN Stored(j)
                            /\ \/ steps[may].o.instantiatePermission = <<>>
                               \/ steps[j].o.sender \in steps[may].o.instantiatePermission[1]
                            /\ ~\E i \in 1 .. j - 1 : Makes(i) /\ Ok(i) /\ SameSalt(i, j)
               /\ Ok(j) =>
                    /\ \A k \in j + 1 .. Len(steps) :
                         On(j, k) /\ Of(k, {"migrate", "updateAdmin", "clearAdmin"}) /\ r.told[k].built =>
                         (Ok(k) <=> /\ AdminBefore(j, k) = <<steps[k].o.sender>>
                                    /\ Of(k, {"migrate"}) => IdOf(steps[k].o) \in DOMAIN Stored(k))
                    /\ r.history[a] = [i \in DOMAIN CodesOf(j) |-> IdOf(steps[CodesOf(j)[i]].o)]
                    /\ r.info[a] = <<[codeId |-> IdOf(steps[Last(F!Range(CodesOf(j)))].o),
                                      admin |-> Or(AdminBefore(j, Len(steps) + 1), "")]>>
                    /\ Len(r.contracts[a].got) = Len(HeardBy(j))
                    /\ \A i \in DOMAIN HeardBy(j) :
                         /\ SaidInJson(r.contracts[a].got[i][1]) = MsgOf(HeardBy(j)[i])
                         /\ LET funds == r.contracts[a].got[i][2]
                            IN [x \in DOMAIN funds |-> <<funds[x].coin.denom, funds[x].coin.amount.text>>]
                                 = CoinsOf(HeardBy(j)[i])
       /\ IF "fraction" \in DOMAIN request.numeric THEN r.code = Throws /\ r.ofCode = Throws
          ELSE LET id == IdOf([codeId |-> request.numeric])
               IN /\ r.ofCode = <<{a \in DOMAIN r.contracts : r.history[a][Len(r.history[a])] = id}>>
                  /\ r.code # Throws <=> id \in DOMAIN Stored(Len(steps))
                  /\ r.code # Throws => r.code[1].code = steps[Stored(Len(steps))[id]].o.wasmByteCode

\* A query is written as its caller means it, and the answer is told, as a value if
\* it is JSON; the handle of a contract takes bech32 addresses alone.
ContractsAnswer ==
  Asked("wasmQuery") =>
    LET r     == answer.result
        asked == {q \in DOMAIN request.answers : SaidInJson(q) = SaidInJson(request.msg)}
    IN /\ (r.handle = Throws) <=> IsHex(request.address)
       /\ (r.told = Throws) <=> (asked = {} \/ HasBigInt(request.msg))
       /\ r.told # Throws => \E q \in asked : request.answers[q] \in {[json |-> r.told[1]], r.told[1]}

\* Every variant a schema lists by its properties has a schema of its own, from the
\* first that lists it, and another has none unless the schema lists variants in two
\* ways; and no query is told the response of another, unless that one's name ends
\* like a response's (contracts/wasm/schema.ts).
SchemasTellVariants ==
  Asked("wasmSchema") =>
    LET r == answer.result
        s == request.schema
        ways   == {k \in {"oneOf", "anyOf", "properties"} : s[k] # <<>>}
        listed == F!Range(s.properties) \cup
                    UNION {UNION {F!Range(s[k][i].properties) : i \in DOMAIN s[k]} : k \in {"oneOf", "anyOf"}}
        Last(q) == q[Len(q)]
    IN /\ \A v \in request.names :
            LET at == r.variants[v]
            IN /\ (at # <<>>) <=> v \in listed
               /\ at # <<>> /\ Cardinality(ways) = 1 => v \in F!Range(GetSchemaVariants(s))
               /\ Len(at) = 2 => \A i \in DOMAIN s[at[1]] :
                                   v \in F!Range(s[at[1]][i].properties) => i >= at[2]
       /\ \A p, q \in request.queries :
            p # q /\ Last(p) # "response" /\ Last(q) # "response" /\ r.responses[q] # <<>> =>
              r.responses[p] # r.responses[q]
       /\ \A q \in request.queries :
            r.responses[q] = <<>> =>
              \A n \in request.responses :
                F!Range(n) \cap {q, Append(q, "response")} = {} \/ n = [pascal |-> q]

\* What TypeScript reads in the tokens of a type, its alternatives: "[]" binds before "|".
RECURSIVE ReadType(_)
ReadType(text) ==
  LET n == Len(text)
      Level(i) == Cardinality({j \in 1 .. i : text[j] = "{"}) - Cardinality({j \in 1 .. i : text[j] = "}"})
      After(cuts, i, end) == LET next == {j \in cuts : j > i}
                             IN IF next = {} THEN end ELSE CHOOSE j \in next : \A k \in next : j <= k
      bars   == {i \in 1 .. n : text[i] = "|" /\ Level(i) = 0}
      fields == {i \in 2 .. n - 1 : text[i + 1] \in {":", "?:"} /\ Level(i) = 1}
  IN CASE bars # {} -> UNION {ReadType(SubSeq(text, i + 1, After(bars, i, n + 1) - 1)) : i \in bars \cup {0}}
       [] bars = {} /\ text[n] = "[]" -> {[array |-> ReadType(SubSeq(text, 1, n - 1))]}
       [] bars = {} /\ text[n] = "}" ->
            {[object |-> {<<text[i], text[i + 1] = ":", ReadType(SubSeq(text, i + 2, After(fields, i, n + 1) - 2))>> :
                            i \in fields}]}
       [] OTHER -> {[name |-> text[1]]}

\* The alternatives of a schema.
RECURSIVE Alternatives(_)
Alternatives(s) ==
  CASE "oneOf" \in DOMAIN s -> UNION {Alternatives(s.oneOf[i]) : i \in DOMAIN s.oneOf}
    [] "anyOf" \in DOMAIN s -> UNION {Alternatives(s.anyOf[i]) : i \in DOMAIN s.anyOf}
    [] "enum" \in DOMAIN s  -> {[name |-> s.enum[i]] : i \in DOMAIN s.enum}
    [] "const" \in DOMAIN s -> {[name |-> s.const]}
    [] "type" \in DOMAIN s /\ s.type = "array" ->
         {[array |-> IF s.items = <<>> THEN {[name |-> "unknown"]} ELSE Alternatives(s.items[1])]}
    [] "type" \in DOMAIN s /\ s.type = "object" /\ s.properties # <<>> ->
         {[object |-> {<<s.properties[i][1], s.properties[i][1] \in s.required, Alternatives(s.properties[i][2])>> :
                         i \in DOMAIN s.properties}]}
    [] "type" \in DOMAIN s /\ s.type \notin {"array", "object"} ->
         {[name |-> IF s.type = "integer" THEN "number" ELSE s.type]}
    [] OTHER -> {[name |-> IF "type" \in DOMAIN s THEN "Record" ELSE "unknown"]}

RECURSIVE ListsChoices(_)
ListsChoices(s) ==
  LET IsChoice(x) == DOMAIN x \cap {"oneOf", "anyOf", "enum"} # {}
      parts == CASE "oneOf" \in DOMAIN s -> F!Range(s.oneOf)
                 [] "anyOf" \in DOMAIN s -> F!Range(s.anyOf)
                 [] "type" \in DOMAIN s /\ s.type = "array"  -> F!Range(s.items)
                 [] "type" \in DOMAIN s /\ s.type = "object" -> {s.properties[i][2] : i \in DOMAIN s.properties}
                 [] OTHER -> {}
  IN \/ "type" \in DOMAIN s /\ s.type = "array" /\ \E x \in parts : IsChoice(x)
     \/ \E x \in parts : ListsChoices(x)

\* The type inferred from a schema allows what the schema does, but where an array has
\* elements of several types: their type is written without parentheses (schema.ts).
TypesAreInferred ==
  Asked("infer") /\ ~ListsChoices(request.schema) =>
    ReadType(answer.result) = Alternatives(request.schema)

\* A module is there as last published by its account, its policy compatible unless
\* said otherwise; one published as immutable stays as it is, and what would change
\* one changes none of the modules it comes with (contracts/move/contract.ts).
ModulesStayAsPublished ==
  Asked("publish") =>
    LET os == request.options
        r  == answer.result
        PolicyOf(k) == IF os[k].upgradePolicy = <<>> THEN "compatible" ELSE os[k].upgradePolicy[1]
        Has(k, n) == os[k].sender = n[1] /\ \E i \in DOMAIN os[k].codeBytes : os[k].codeBytes[i].name = n[2]
        names == UNION {{<<os[k].sender, os[k].codeBytes[i].name>> : i \in DOMAIN os[k].codeBytes} : k \in DOMAIN os}
        good(n) == {k \in DOMAIN os : r.ok[k] /\ Has(k, n)}
    IN /\ \A k \in DOMAIN os :
            r.ok[k] <=> /\ PolicyOf(k) # "unspecified"
                        /\ \A n \in names : Has(k, n) => \A j \in good(n) : j < k => PolicyOf(j) # "immutable"
       /\ DOMAIN r.modules = {n \in names : good(n) # {}}
       /\ \A n \in DOMAIN r.modules :
            LET k == CHOOSE k \in good(n) : \A j \in good(n) : j <= k
            IN r.modules[n] = [policy |-> PolicyOf(k),
                               code |-> {os[k].codeBytes[i].code :
                                           i \in {j \in DOMAIN os[k].codeBytes : os[k].codeBytes[j].name = n[2]}}]

\* What a script is called with in JSON is what its caller gave, bytes as their
\* numbers; only a bigint is refused, and a view is asked the same but for bytes,
\* which become an object (contracts/move/contract.ts).
ScriptsGetTheirArguments ==
  Asked("script") =>
    LET r     == answer.result
        given == IF request.args = <<>> THEN <<>> ELSE request.args[1]
        IsBytes(i) == "bytes" \in DOMAIN given[i]
    IN /\ r.bcs = given
       /\ (r.json = Throws) <=> (\E i \in DOMAIN given : HasBigInt(given[i]))
       /\ (r.view.asked = Throws) <=> (r.json = Throws)
       /\ r.json # Throws =>
            /\ Len(r.json[1]) = Len(given)
            /\ \A i \in DOMAIN given :
                 /\ ~IsBytes(i) => SaidInJson(r.json[1][i]) = SaidInJson(r.view.asked[1][i])
                 /\ IsBytes(i)  => /\ [k \in DOMAIN r.json[1][i].array |-> r.json[1][i].array[k].number] = given[i].bytes
                                    /\ r.view.asked[1][i] = [indexed |-> given[i].bytes]
                 /\ SaidInJson(given[i]) = SaidInJson(r.json[1][i]) \/ "bytes" \in DOMAIN given[i]

\* A function is named by an address, a module and a function, and by no other text;
\* the handle of a module is for a hex or bech32 address and an identifier.
MoveTargetsAreNamed ==
  Asked("moveTarget") =>
    LET r == answer.result
        f == r.function
    IN /\ (f # Throws) <=> (Len(request.parts) = 3)
       /\ f # Throws => <<f[1].moduleAddress, f[1].moduleName, f[1].functionName>> = request.parts
       /\ (r.handle # Throws) <=>
            /\ "text" \notin DOMAIN request.address
            /\ request.chars \in {<<x>> \o y : x \in {"letter", "_"},
                                              y \in UNION {[1 .. k -> {"letter", "_", "digit"}] : k \in 0 .. 3}}

\* The value of a key of a type is found however the key is written, and another's is
\* not; the resource is that of the account, however its address is written.
MoveStateIsFound ==
  Asked("moveState") =>
    LET r == answer.result
        Told(x, text) == x = <<IF "json" \in DOMAIN text THEN text.json ELSE text>>
        Key(v, type) == CASE type = <<"address">> -> v[CHOOSE k \in DOMAIN v : TRUE]
                          [] type = <<"u64">> -> v[CHOOSE k \in DOMAIN v : TRUE]
                          [] OTHER -> v
        mine == {e \in request.entries :
                   e.type = request.keyType /\ Key(e.key, e.type) = Key(request.key, request.keyType)}
        at   == <<Key(request.address, <<"address">>), request.tag>>
    IN /\ IF at \in DOMAIN request.resources THEN Told(r.resource, request.resources[at]) ELSE r.resource = Throws
       /\ IF mine = {} THEN r.entry = Throws ELSE \E e \in mine : Told(r.entry, e.text)

\* In all three virtual machines a contract is called with what the caller meant, and a
\* node is asked for it.
CallsAreMeant ==
  MoveArgumentsAreKept /\ EvmCallsAreMeant /\ WasmCallsAreMeant /\ RequestsAreMeant
    /\ TokensAreTold /\ VipCallsAreMeant /\ RoutesAreKept
    /\ BridgeCallsAreMeant /\ ContextsAreOfTheirChain
    /\ ContractsLiveAsAsked /\ ContractsAnswer /\ SchemasTellVariants /\ TypesAreInferred
    /\ ModulesStayAsPublished /\ ScriptsGetTheirArguments /\ MoveTargetsAreNamed /\ MoveStateIsFound

\* What a JSON value says, without the order of its keys.
RECURSIVE Meaning(_)
Meaning(json) ==
  CASE "scalar" \in DOMAIN json -> json
    [] "array" \in DOMAIN json ->
         [array |-> [i \in DOMAIN json.array |-> Meaning(json.array[i])]]
    [] "object" \in DOMAIN json ->
         [object |-> {[key |-> json.object[i][1], is |-> Meaning(json.object[i][2])] :
                        i \in DOMAIN json.object}]

RECURSIVE Ascending(_)
Ascending(json) ==
  CASE "scalar" \in DOMAIN json -> TRUE
    [] "array" \in DOMAIN json -> \A i \in DOMAIN json.array : Ascending(json.array[i])
    [] "object" \in DOMAIN json ->
         /\ \A i, j \in DOMAIN json.object :
              i < j => Rank[json.object[i][1]] < Rank[json.object[j][1]]
         /\ \A i \in DOMAIN json.object : Ascending(json.object[i][2])

RECURSIVE KeysWithin(_)
KeysWithin(json) ==
  CASE "scalar" \in DOMAIN json -> {}
    [] "array" \in DOMAIN json -> UNION {KeysWithin(json.array[i]) : i \in DOMAIN json.array}
    [] "object" \in DOMAIN json ->
         UNION {{json.object[i][1]} \cup KeysWithin(json.object[i][2]) :
                  i \in DOMAIN json.object}

\* Two messages get equal sign bytes exactly if they say the same, in whatever order
\* their keys were written; the keys of the bytes are ascending at every depth, as the
\* chain computes them, if none of them is an array index (tx/amino.ts, tx/sign.ts).
SignBytesAreCanonical ==
  Asked("sign") =>
    LET r == answer.result
    IN /\ (r.one = r.other) <=> (Meaning(request.one) = Meaning(request.other))
       /\ KeysWithin(request.one) \cap DOMAIN IndexKeys = {} => Ascending(r.one)

\* What typed data say: a value of each field of each type that is reached, and
\* what these types are.
RECURSIVE Sense(_, _, _), HasType(_, _, _)
Sense(type, value, types) ==
  IF type.dims # <<>>
  THEN [items |-> [i \in DOMAIN value.array |-> Sense(Plain(type.base), value.array[i], types)]]
  ELSE IF type.base \in DOMAIN types
  THEN [fields |-> [i \in DOMAIN types[type.base] |->
          LET f == types[type.base][i] IN Sense(f.type, value.object[f.name], types)]]
  ELSE IF type.base = "address" THEN [hex |-> PadStart(value.hex, 40)] ELSE value

\* Arrays are of one dimension and of any length.
HasType(type, value, types) ==
  LET base == type.base
      fields == F!Range(types[base])
      bound == IF base = "int8" THEN Word \div 2 ELSE Word
  IN IF type.dims # <<>>
     THEN /\ type.dims = <<"">> /\ "array" \in DOMAIN value
          /\ \A i \in DOMAIN value.array : HasType(Plain(base), value.array[i], types)
     ELSE IF base \in DOMAIN types
     THEN /\ "object" \in DOMAIN value
          /\ \A f \in fields : f.name \in DOMAIN value.object
                              /\ HasType(f.type, value.object[f.name], types)
     ELSE CASE base = "string" -> "text" \in DOMAIN value
            [] base = "bool" -> "bool" \in DOMAIN value
            [] base = "address" -> "hex" \in DOMAIN value /\ Len(value.hex) <= 40
            [] base = "bytes" -> "hex" \in DOMAIN value /\ Len(value.hex) % 2 = 0
            [] base = "bytes4" -> "hex" \in DOMAIN value /\ Len(value.hex) = 8
            [] base \in {"uint256", "int8"} ->
                 /\ "int" \in DOMAIN value
                 /\ value.int \in (IF base = "int8" THEN -bound ELSE 0) .. bound - 1

SenseOf(data) ==
  LET types == data.types @@ [EIP712Domain |-> BuildDomainType(data.domain)]
      Told(t, value) == [name  |-> t, value |-> Sense(Plain(t), value, types),
                         types |-> {<<u, types[u]>> : u \in StructsWithin(t, types, 1)}]
  IN <<Told("EIP712Domain", [object |-> data.domain]), Told(data.primaryType, data.message)>>

\* Data that fit their types are hashed, and two of them alike exactly if domain,
\* message and all the types these are made of say the same: whoever signs has signed
\* nothing else (signer/bridges/eip-hash.ts, "should match viem hashTypedData").
TypedHashesCommit ==
  Asked("typedData") =>
    LET r == answer.result
        Fits(data) == HasType(Plain(data.primaryType), data.message, data.types)
    IN /\ Fits(request.one) => r.one # Throws
       /\ Fits(request.one) /\ Fits(request.other) =>
            ((r.one = r.other) <=> (SenseOf(request.one) = SenseOf(request.other)))

\* What the bytes of a transaction of options o ask of the chain; in the modes with a
\* JSON document the height of the timeout is not part of what is signed, and of bytes
\* that hold JSON only what they spell.
Claims(tx, o, s) ==
  LET InJson(i) == [f \in DOMAIN tx.body.messages[i].value |->
                      LET v == tx.body.messages[i].value[f]
                      IN IF "json" \in DOMAIN v THEN Meaning(v.json) ELSE v]
  IN IF o.signMode = "direct" THEN <<tx.body, tx.authInfo, s.chainId, s.accountNumber>>
     ELSE <<o.signMode, [i \in DOMAIN o.msgs |-> <<o.msgs[i].schema.amino, InJson(i)>>],
            tx.body.memo, tx.authInfo.fee, tx.authInfo.gasLimit, tx.authInfo.sequence,
            s.chainId, s.accountNumber>>

\* A JSON document can say these messages.
Sayable(msgs) == \A i \in DOMAIN msgs : ~msgs[i].raw /\ msgs[i].schema.amino # ""

\* A wallet refuses exactly the transactions a JSON document cannot say, and of the
\* others two have the same signature exactly if their bytes ask the same of the chain,
\* although the document is made from the options and not from the bytes: a signature
\* serves no other transaction (wallet/wallet.ts, tx/sign.ts, tx/amino.ts).
SignaturesAreOfTheirBytes ==
  Asked("signTx") =>
    LET r == answer.result
    IN /\ (r.one = Throws) <=> request.one.signMode # "direct" /\ ~Sayable(request.one.msgs)
       /\ r.one # Throws /\ r.other # Throws =>
            ((r.one[1].signatures = r.other[1].signatures)
              <=> (Claims(r.one[1], request.one, request.signer)
                     = Claims(r.other[1], request.other, request.otherSigner)))

\* The chain takes the signature of a transaction: it makes the bytes that were to be
\* signed from the transaction itself, its messages among them, and from its account.
Verifies(tx, msgs, account) ==
  LET key   == tx.authInfo.publicKey
      json  == AminoSignBytes([msgs |-> msgs, memo |-> <<tx.body.memo>>,
                               fee |-> <<tx.authInfo.fee>>,
                               gasLimit |-> <<tx.authInfo.gasLimit>>], account)
      hash  == IF key.type = "ethsecp256k1" THEN "keccak" ELSE "sha256"
      due   == CASE tx.authInfo.mode = "DIRECT" ->
                      [by |-> key.of, hash |-> hash,
                       over |-> MakeSignBytes(tx.body, tx.authInfo, account)]
                 [] tx.authInfo.mode = "LEGACY_AMINO_JSON" ->
                      [by |-> key.of, hash |-> hash, over |-> json[1]]
                 [] tx.authInfo.mode = "EIP_191" ->
                      [by |-> key.of, hash |-> "keccak",
                       over |-> [ethereumSignedMessage |-> json[1]]]
  IN /\ tx.signatures = <<due>> /\ tx.authInfo.sequence = account.sequence
     /\ tx.body.timeoutHeight = 0 \/ tx.authInfo.mode = "DIRECT"

\* A context refuses exactly what its signer or a JSON document cannot do, and the chain
\* verifies all it signs, whatever the signer changes in the document on its way; and so
\* it does with a wallet's transactions, but for Ethereum keys and for timeouts in a JSON
\* document (wallet/chain-context.ts, wallet.ts).
SignedIsVerified ==
  /\ Asked("contextTx") =>
       LET o == request.options
           signer == request.signer
           mode == IF o.signMode # "" THEN o.signMode
                   ELSE IF signer.direct \/ ~signer.amino THEN "direct" ELSE "amino"
           Able == CASE mode = "direct" -> signer.direct [] mode = "amino" -> signer.amino
                     [] mode = "eip191" -> signer.personal
       IN /\ (answer.result = Throws) <=> ~Able \/ (mode # "direct" /\ ~Sayable(o.msgs))
          /\ answer.result # Throws => Verifies(answer.result[1], o.msgs, request.account)
  /\ Asked("signTx") =>
       LET o == request.one
       IN answer.result.one # Throws /\ ~request.key.isEth /\ o.signMode # "eip191"
            /\ (o.signMode = "direct" \/ Or(o.timeoutHeight, 0) = 0)
          => Verifies(answer.result.one[1], o.msgs, request.signer)

\* A wait for a transaction sent over JSON-RPC ends at most one poll after its timeout,
\* tells the outcome if the receipt is there a poll and a pause before that, and never
\* says that a transaction failed which succeeded; fees are refused only if the caller
\* gave one of them (tx/evm.ts).
EvmOutcomeIsTold ==
  Asked("evmTx") =>
    LET r    == answer.result
        run  == request.run
        step == run.latency + run.interval
        o    == request.options
    IN /\ r.sent = Throws => o.maxFeePerGas # <<>> \/ o.maxPriorityFeePerGas # <<>>
       /\ r.sent # Throws =>
            /\ r.end.at < run.timeout + step
            /\ r.end.outcome = "rejected" => run.brokenAt < run.timeout
            /\ r.end.outcome \in {"success", "reverted"} =>
                 /\ run.minedAt < run.timeout
                 /\ (r.end.outcome = "reverted") <=> run.reverted
            /\ run.minedAt + step <= Least(run.timeout, run.brokenAt) =>
                 r.end.outcome \in {"success", "reverted"}

\* A value as it was written and one of a message say the same; a coin alone stands for
\* a list of one, and what has no fields, a date or an empty array, for an empty message.
RECURSIVE SaysTheSame(_, _)
SaysTheSame(written, proto) ==
  \/ written = proto
  \/ /\ {"array"} = DOMAIN proto /\ {"array"} = DOMAIN written
     /\ Len(written.array) = Len(proto.array)
     /\ \A i \in DOMAIN proto.array : SaysTheSame(written.array[i], proto.array[i])
  \/ /\ {"array"} = DOMAIN proto /\ {"coin"} = DOMAIN written
     /\ Len(proto.array) = 1 /\ SaysTheSame(written, proto.array[1])
  \/ /\ {"object"} = DOMAIN proto /\ {"object"} = DOMAIN written
     /\ DOMAIN written.object = DOMAIN proto.object
     /\ \A k \in DOMAIN proto.object : SaysTheSame(written.object[k], proto.object[k])
  \/ /\ {"object"} = DOMAIN proto /\ DOMAIN written \in {{"date"}, {"array"}}
     /\ DOMAIN proto.object = {}
  \/ /\ {"coin"} = DOMAIN proto /\ {"coin"} = DOMAIN written
     /\ written.coin.denom = proto.coin.denom
     /\ \E k \in DOMAIN written.coin.amount : written.coin.amount[k] = proto.coin.amount.text
  \/ \E names \in {<<"hex", "bytes">>, <<"number", "bigint">>, <<"message", "any">>,
                  <<"date", "timestamp">>} :
       /\ {names[1]} = DOMAIN written /\ {names[2]} = DOMAIN proto
       /\ written[names[1]] = proto[names[2]]

\* A message has every field the caller wrote, at every depth, with the value it was
\* written with, and in the form that is left alone when it is written again: no text is
\* left where bytes, no number where a 64-bit integer and no date where a time stamp is
\* declared (msgs/types.ts).
InitsAreKept ==
  Asked("init") /\ answer.result.once # Throws =>
    /\ SaysTheSame(request.init, answer.result.once[1])
    /\ answer.result.twice = answer.result.once

\* A message can be packed and read again in any number of ways: it keeps its value and
\* its name, is told to be of its schema only when it has been decoded with that one, and
\* what has not been decoded shows nothing but its Any.  Only what was not a message, a
\* schema of another name and, in a decoder, an unknown name or another prefix than "/"
\* are refused, and a decoded message has lost an overridden Amino form (msgs/types.ts).
MessagesAreCarried ==
  Asked("carry") =>
    LET r     == answer.result
        ways  == request.ways
        given == request.input
        built == "message" \in DOMAIN given
        name  == IF built THEN given.message.schema ELSE given.any.url.name
        whole == built \/ "bytes" \in DOMAIN given.any.value
        Opens(i) == "wrap" \notin DOMAIN ways[i]
        plain(i) == built \/ given.any.url.prefix = "/" \/ \E j \in 1 .. i - 1 : Opens(j)
        Fits(i)  == CASE "as" \in DOMAIN ways[i]     -> ways[i].as = name /\ whole
                      [] "decode" \in DOMAIN ways[i] -> name \in request.known /\ whole /\ plain(i)
                      [] OTHER                       -> TRUE
        taken == \/ built
                 \/ "any" \in DOMAIN given /\ "name" \in DOMAIN given.any.url /\ "other" \notin DOMAIN given.any.value
        open  == IF ways = <<>> THEN built ELSE Opens(Len(ways))
        value == IF built THEN given.message.value ELSE given.any.value.bytes
    IN /\ (r # Throws) <=> taken /\ \A i \in DOMAIN ways : Fits(i)
       /\ r # Throws =>
            /\ r[1].url = r[1].any.url /\ r[1].url.name = name
            /\ r[1].is = IF open THEN {name} ELSE {}
            /\ (r[1].amino = Throws) = ~open /\ (r[1].json = Throws) = ~open
            /\ whole => r[1].any.value = [bytes |-> value]
            /\ ~whole => r[1].any = given.any
            /\ open =>
                 /\ r[1].json = <<[typeUrl |-> [prefix |-> "/", name |-> name], value |-> value]>>
                 /\ r[1].amino[1].value = value
                 /\ r[1].amino[1].type = IF ways = <<>> /\ given.message.amino # "" THEN given.message.amino ELSE name

\* A field has what the caller wrote, and its default only where nothing was written:
\* what was written as undefined is left out (msgs/types.ts).
DefaultsStepBack ==
  Asked("defaults") =>
    LET r     == answer.result
        given == request.init
        From(k) == IF k \in DOMAIN given THEN given[k] ELSE request.defaults[k]
        chosen == {k \in DOMAIN given \cup DOMAIN request.defaults : ~IsKind("null", From(k))}
    IN /\ (r = Throws) <=> \E k \in chosen : BuildMsg(request.schema, [object |-> k :> From(k)]) = Throws
       /\ r # Throws =>
            /\ DOMAIN r[1].value = chosen
            /\ \A k \in chosen : SaysTheSame(From(k), r[1].value[k])

\* What the builders of any network make, the decoder and the registry of every network
\* of the same configuration know (chain-config.ts:260, "This ensures cross-network
\* decode works"), whatever modules a network replaces.
EveryMessageDecodes ==
  Asked("config") /\ answer.result # Throws =>
    LET configs == answer.result[1]
        Made(c) == UNION {{c.msgs[name][m] : m \in DOMAIN c.msgs[name]} : name \in DOMAIN c.msgs}
    IN \A n, other \in DOMAIN configs :
         /\ Made(configs[n]) \subseteq configs[other].decodes
         /\ configs[other].decodes \subseteq configs[other].registry

\* What is signed and sent is what the caller asked for, can be read again, and is told
\* how it ended.
SignedIsSent ==
  /\ InitsAreKept /\ MessagesAreCarried /\ DefaultsStepBack
  /\ EveryMessageDecodes /\ SignBytesAreCanonical
  /\ SignaturesAreOfTheirBytes /\ SignedIsVerified /\ TypedHashesCommit /\ EvmOutcomeIsTold

\* The status a withdrawal really has on L1 while its output is kept there.
TrueStatus(l1, w) ==
  IF w.outputIndex \notin DOMAIN l1.proposals THEN "pending"
  ELSE IF l1.now < ToMs(l1.proposals[w.outputIndex]) + ToMs(l1.period) THEN "waiting"
  ELSE IF [sequence |-> w.sequence, amount |-> w.amount] \in l1.claimed THEN "claimed" ELSE "claimable"

\* At one moment the list and the single look-up give a withdrawal the same status,
\* the one it has on L1: claim() takes what can be paid and nothing else
\* (bridge/op-bridge.ts).
StatusesAgree ==
  Asked("withdrawals") =>
    \A i \in DOMAIN request.ws :
      /\ answer.result.list[i] = TrueStatus(request.l1, request.ws[i])
      /\ answer.result.single[i] = answer.result.list[i]

\* A watcher is told of each event of its kind once and in order, with what that event
\* alone says: of the sequence it asked for, or the bridge of an output, and of nothing in
\* a transaction without what it asked for.  Where a transaction holds more than one event
\* of a kind, those of another sender, recipient or bridge are told too: the filter of the
\* subscription speaks of the transaction (bridge/watch.ts).
BridgeTxsAreTold ==
  Asked("bridgeTx") =>
    LET told == answer.result
        o    == request.options
        type == request.type
        mine == {i \in DOMAIN request.tx : request.tx[i].type = type}
        Shown(i, k) == LET as == request.tx[i].attributes
                          at == {j \in DOMAIN as : as[j].key = k /\ as[j].value # <<>>}
                      IN IF at = {} THEN <<>> ELSE as[CHOOSE j \in at : \A l \in at : l <= j].value
        keys == CASE type = "initiate_token_deposit" ->
                       [sender |-> "from", recipient |-> "to", sequence |-> "l1_sequence", bridgeId |-> "bridge_id"]
                  [] type = "finalize_token_deposit" ->
                       [sender |-> "sender", recipient |-> "recipient", sequence |-> "l1_sequence"]
                  [] type = "initiate_token_withdrawal" -> [sender |-> "from", sequence |-> "l2_sequence"]
                  [] type = "propose_output" -> [bridgeId |-> "bridge_id"]
                  [] OTHER -> [bridgeId |-> "bridge_id", sequence |-> "l2_sequence"]
        Wanted(i, option) == o[option] = <<>> \/ Shown(i, keys[option]) = o[option]
        Meant(i) == \A option \in DOMAIN keys : Wanted(i, option)
        main == IF type = "propose_output" THEN "bridgeId" ELSE "sequence"
        IsOf(t, i) == \A k \in DOMAIN t.fields :
                        LET said == Shown(i, k)
                        IN CASE k = "success" -> (t.fields[k] = "true") = (said = <<"true">>)
                             [] k # "success" /\ said = <<>> -> t.fields[k] \in {"", "0"}
                             [] OTHER -> t.fields[k] = said[1]
        right == {i \in mine : Wanted(i, main)}
        reached == \A option \in DOMAIN keys : \E i \in mine : Wanted(i, option)
    IN /\ Len(told) = IF mine # {} /\ reached THEN Cardinality(right) ELSE 0
       /\ \A n \in DOMAIN told :
            LET i == CHOOSE i \in right : Cardinality({j \in right : j <= i}) = n
            IN IsOf(told[n], i)
       /\ Cardinality(mine) = 1 => \A i \in mine : (told # <<>>) <=> Meant(i)

\* What an address is in one state of the chain.
TrueProfile(s) ==
  CASE s.account = "evm-shorthand" ->
         IF s.original = "evm-code" THEN EvmContract(s.account, s.code) ELSE NoContract(s.account)
    [] s.account = "evm-code" -> EvmContract(s.account, s.code)
    [] s.modules # <<>> -> [account |-> s.account, contract |-> "move", modules |-> s.modules]
    [] s.codeId # <<>> -> [account |-> s.account, contract |-> "wasm", codeId |-> s.codeId[1]]
    [] OTHER -> NoContract(s.account)

\* A profile was the truth at one of the queries of the call that asked for it, although
\* accounts and contracts appear between them: of this call, or of an earlier one for the
\* address, on whichever chain, that is not longer ago than it asked to have it kept; a
\* caller who wants no profile kept gets one of his own.  A call fails only if a query
\* failed or the chain changed meanwhile (client/address-profile.ts).
ProfilesAreTrue ==
  Asked("profile") =>
    LET calls == request.calls
        Meant(c) == IF c.address = "" THEN c.contextAddress ELSE c.address
        Truths(c) == {<<TrueProfile(c.chain[k])>> : k \in {i \in DOMAIN c.chain : c.chain[i] # Down}}
        Serves(j, k) ==
          \/ j = k
          \/ /\ Meant(calls[j]) = Meant(calls[k])
             /\ calls[j].now + calls[j].cacheTtl >= calls[k].now
             /\ calls[j].cacheTtl > 0 /\ calls[k].cacheTtl > 0 /\ ~calls[k].forceRefresh
    IN \A k \in DOMAIN calls :
         LET r == answer.result[k]
         IN IF r = Throws
            THEN \/ Meant(calls[k]) = "" \/ Cardinality(Truths(calls[k])) > 1
                 \/ Down \in F!Range(calls[k].chain)
            ELSE Meant(calls[k]) # "" /\ \E j \in 1 .. k : Serves(j, k) /\ r \in Truths(calls[j])

\* A name resolves to a chain that has it in that network, whenever there is one; an
\* asset names the chain it is found in, and is found there if it is found at all; and
\* where a name stands for one chain, a transfer path has a way back, over the other end
\* of its channel (provider/cosmos-registry-provider.ts).
RegistryAgrees ==
  Asked("registry") =>
    LET r     == answer.result
        known == {r.chains[i] : i \in DOMAIN r.chains}
        Alone(c) == \A k \in known : k.chainName = c.chainName => k = c
        links == request.registry.mainnet.ibc \o request.registry.testnet.ibc
        \* The paths are the two ends of one channel.
        Meet(one, other) ==
          \E i \in DOMAIN links : \E ch \in F!Range(links[i].channels) :
            {[channelId |-> p.channel, portId |-> p.port] : p \in {one, other}}
              = {ch.chain1, ch.chain2}
    IN /\ \A q \in DOMAIN r.resolved :
            LET fits == {<<c.chainId>> : c \in {k \in known :
                          k.chainName = q[1] /\ (q[2] = <<>> \/ k.network = q[2][1])}}
            IN IF fits = {} THEN r.resolved[q] = <<>> ELSE r.resolved[q] \in fits
       /\ \A x \in DOMAIN r.found :
            IF r.found[x] = <<>> THEN \A c \in known : r.there[x, c.chainId] = <<>>
            ELSE r.there[x, r.found[x][1].chainId] = r.found[x]
       /\ \A q \in DOMAIN r.there : r.there[q] # <<>> => r.there[q][1].chainId = q[2]
       /\ \A b, c \in {k \in known : Alone(k)} :
            LET there == r.paths[b.chainId, c.chainId]
                back  == r.paths[c.chainId, b.chainId]
            IN there # <<>> => back # <<>> /\ Meet(there[1], back[1])

\* What a call gives a chain: assets and channels, as the provider keeps them.
AssetsGiven(call) ==
  CASE call.name = "addChain" -> call.chain.assets
    [] call.name = "addAssetList" ->
         [i \in DOMAIN call.assets |-> NormalizeAssetInput(call.assets[i], call.chainId)]
    [] OTHER -> <<>>

ChannelsGiven(call) ==
  CASE call.name = "addChain" -> call.chain.channels
    [] call.name = "addIbcChannel" -> <<NormalizeIbcChannelInput(call.channel)>>
    [] OTHER -> <<>>

\* However chains are added, extended, replaced and removed, a chain has of each denom
\* the asset given last since it was removed, and every channel given since; nothing
\* of one chain is kept with another, and a look-up without a chain finds what is to be
\* found in the listed ones (provider/custom-provider.ts).
LastGivenIsHeld ==
  Asked("custom") =>
    LET r     == answer.result
        all   == [i \in DOMAIN request.chains |->
                    [name |-> "addChain", chainId |-> request.chains[i].info.chainId,
                     chain |-> request.chains[i]]] \o request.calls
        listed == {r.chains[i].chainId : i \in DOMAIN r.chains}
    IN /\ Len(r.chains) = Cardinality(listed)
       /\ \A id \in request.ids :
            LET mine  == SelectSeq(all, LAMBDA call : call.chainId = id)
                gone  == {0} \cup {i \in DOMAIN mine : mine[i].name = "removeChain"}
                since == SubSeq(mine, 1 + CHOOSE i \in gone : \A j \in gone : j <= i, Len(mine))
                given == S!FlattenSeq([i \in DOMAIN since |-> AssetsGiven(since[i])])
                Last(x) == CHOOSE i \in DOMAIN given :
                             /\ given[i].denom = x
                             /\ \A j \in DOMAIN given : given[j].denom = x => j <= i
                denoms == {given[i].denom : i \in DOMAIN given}
            IN /\ id \in listed <=> \E i \in DOMAIN since : since[i].name = "addChain"
               /\ F!Range(r.assets[id]) = {given[Last(x)] : x \in denoms}
               /\ Len(r.assets[id]) = Cardinality(denoms)
               /\ r.channels[id] =
                    S!FlattenSeq([i \in DOMAIN since |-> ChannelsGiven(since[i])])
               /\ F!Range(r.symbols[id]) \subseteq F!Range(r.assets[id])
               /\ \A to \in request.ids : \A k \in DOMAIN r.paths[<<id, to>>] :
                    \E i \in DOMAIN r.channels[id] :
                      LET c == r.channels[id][i]
                      IN /\ c.version = "ics20-1" /\ c.chainId = to
                         /\ r.paths[<<id, to>>][k].channel = c.channelId
                         /\ \A j \in 1 .. i - 1 : r.channels[id][j].chainId # to
       /\ F!Range(r.listed) = UNION {F!Range(r.symbols[id]) : id \in listed}
       /\ \A i \in DOMAIN r.chains : r.resolved[i] # <<>> /\ r.resolved[i][1] \in listed

\* A provider made of a registry's JSON has, of each chain, what the last entry for it says,
\* and none is made if an entry is not valid.  Its bridge is there as soon as some fromChain()
\* has lent it a transport, even one that failed for its chain, asks one router for good,
\* and that one is of a network whose chain was the first when it was made.  fromChain()
\* reaches the chain it names, if that is listed then, by the caller's own transport if
\* there is one (provider/custom-provider.ts, client/from-chain.ts).
ProviderIsEntered ==
  Asked("provider") =>
    LET items  == request.items
        calls  == request.calls
        r      == answer.result
        told   == r[1].told
        Lent(k) == \E j \in 1 .. k - 1 : calls[j].name = "fromChain" /\ calls[j].provided
        Entries(id) == {i \in DOMAIN items : items[i].chain.chainId = id}
        LastOf(id)  == CHOOSE i \in Entries(id) : \A j \in Entries(id) : j <= i
        Edits(id, k) == {j \in 1 .. k - 1 : calls[j].name \in {"addChain", "removeChain"} /\ calls[j].chainId = id}
        Listed(id, k) == IF Edits(id, k) = {} THEN Entries(id) # {}
                         ELSE \E j \in Edits(id, k) : /\ calls[j].name = "addChain"
                                                      /\ \A i \in Edits(id, k) : i <= j
        Bridged(j) == calls[j].name = "bridge" /\ Lent(j)
    IN /\ r = Throws <=> \E i \in DOMAIN items : items[i].chain.networkType = "livenet"
       /\ r # Throws => \A k \in DOMAIN calls :
            /\ calls[k].name = "bridge" =>
                 /\ told[k] = Throws <=> ~Lent(k)
                 /\ \A j \in 1 .. k : Bridged(j) => told[j] = told[k]
                 /\ Bridged(k) /\ (\A j \in 1 .. k - 1 : ~Bridged(j)) =>
                      LET nets == {items[i].chain.networkType : i \in DOMAIN items}
                                    \cup {calls[j].chain.info.network :
                                             j \in {i \in 1 .. k - 1 : calls[i].name = "addChain"}}
                      IN /\ told[k][1] \subseteq nets /\ Cardinality(told[k][1]) <= 1
                         /\ "devnet" \notin nets /\ (\E id \in request.ids : Listed(id, k)) => told[k][1] # {}
            /\ calls[k].name = "fromChain" =>
                 LET id == calls[k].chainId
                 IN /\ told[k] = Throws <=> ~(calls[k].provided /\ Listed(id, k))
                    /\ told[k] # Throws =>
                         /\ told[k][1].chain.chainId = id
                         /\ told[k][1].transport \in
                              IF calls[k].transport = <<>> THEN [entry : {calls[k].entry}, chainId : {id}]
                              ELSE F!Range(calls[k].transport)
                         /\ Edits(id, k) = {} =>
                              told[k][1].chain.rpc = items[LastOf(id)].chain.apis.rpc

\* An amount of an asset in units for display is, in base units, what a conversion from
\* the one unit to the other says, by name or by alias, and comes back as it was
\* (provider/base-provider.ts).
AssetAmountsAgree ==
  Asked("asset") =>
    LET r == answer.result
    IN /\ r.base # Throws /\ r.back = <<request.text>>
       /\ r.converted = <<FormatUnits(r.base[1], 0)>>

\* The disk a step meets, which changes under the provider.
DiskAt(k) == IF k = 0 THEN request.disk ELSE request.steps[k].disk

\* An asset list is what the file of that chain said at some moment since the registry was
\* loaded last, once read it is the same until it is loaded again, and it is missing only
\* while there is nothing to read; a chain in two directories is the first of them
\* (provider/local-registry-provider.ts).
ListsAreOfTheDisk ==
  Asked("local") =>
    LET r == answer.result
        steps == request.steps
        Seen(d) == ~d.hidden /\ d.chain # <<>> /\ (request.network = <<>> \/ d.network = request.network[1])
        Home(k, id) ==
          LET homes == SelectSeq(DiskAt(k), LAMBDA d : Seen(d) /\ d.chain[1].chainId = id)
          IN IF homes = <<>> THEN <<>> ELSE <<homes[1]>>
        Says(k, path) == {d.assets : d \in {x \in F!Range(DiskAt(k)) : x.path = path}}
        Loaded(k) == CHOOSE i \in 0 .. k : /\ i = 0 \/ steps[i].step = "refresh"
                                          /\ \A j \in i + 1 .. k : steps[j].step # "refresh"
    IN \A k \in DOMAIN steps : steps[k].step = "read" =>
         LET id   == steps[k].chainId
             from == Loaded(k)
             home == Home(from, id)
             same == {j \in from + 1 .. k : steps[j].step = "read" /\ steps[j].chainId = id}
         IN IF home = <<>> \/ (home # <<>> /\ home[1].assets = <<>>) THEN r.answers[k] = <<>>
            ELSE /\ r.answers[k] = <<>> =>
                      \A j \in same : Says(j, home[1].path) \subseteq {<<>>, <<"broken">>}
                 /\ r.answers[k] # <<>> =>
                      /\ \E j \in same : r.answers[k] \in Says(j, home[1].path) \ {<<"broken">>}
                      /\ \A j \in same : r.answers[j] \in {<<>>, r.answers[k]}

\* The name and the network of a chain lead back to the first chain with that name there, a
\* name alone to the first with that name; a transfer goes over a channel of its own chain to
\* the other, and only over one for transfers; of two chains the listing of both is that of
\* each, and a coin is found where it is listed first; a chain that was not loaded has nothing
\* (provider/registry-provider.ts, local-registry-provider.ts).
LoadedIsLookedUp ==
  Asked("loaded") =>
    LET r      == answer.result
        chains == request.chains
        Of(id) == chains[CHOOSE i \in DOMAIN chains : chains[i].chainId = id]
    IN /\ \A i \in DOMAIN chains :
            LET c == chains[i]
                there == r.resolved[c.chainName, <<c.network>>]
                any   == r.resolved[c.chainName, <<>>]
            IN /\ r.names[c.chainId] = <<c.chainName>>
               /\ there # <<>> /\ any # <<>>
               /\ Of(there[1]).chainName = c.chainName /\ Of(there[1]).network = c.network
               /\ Of(any[1]).chainName = c.chainName
               /\ \A j \in 1 .. i - 1 : chains[j].chainName # c.chainName => any[1] # chains[j].chainId
               /\ (\A j \in 1 .. i - 1 : <<chains[j].chainName, chains[j].network>> # <<c.chainName, c.network>>)
                    => there = <<c.chainId>>
               /\ (\A j \in 1 .. i - 1 : chains[j].chainName # c.chainName) => any = <<c.chainId>>
               /\ (r.bridges[c.chainId] # <<>>) <=> \E b \in F!Range(c.opBridgeId) : b > 0
               /\ \A q \in {x \in DOMAIN r.paths : x[1] = c.chainId} :
                    LET direct == {ch \in F!Range(c.channels) : ch.chainId = q[2]}
                    IN /\ r.paths[q] # <<>> =>
                            \E ch \in direct : /\ ch.version = "ics20-1" /\ ch.portId = r.paths[q][1].port
                                               /\ ch.channelId = r.paths[q][1].channel
                       /\ r.paths[q] = <<>> => direct = {} \/ \E ch \in direct : ch.version # "ics20-1"
       /\ \A q \in DOMAIN r.paths : r.paths[q] # <<>> => "none" \notin {q[1], q[2]}
       /\ r.names["none"] = <<>> /\ r.bridges["none"] = <<>> /\ r.there["none"] = <<>>
       /\ \A s \in DOMAIN r.listed :
            r.listed[s] = S!FlattenSeq([i \in DOMAIN chains |-> r.ofChain[chains[i].chainId, s]])
       /\ \A i \in DOMAIN r.listed[<<request.symbol>>] :
            Folded[r.listed[<<request.symbol>>][i].symbol] = Folded[request.symbol]
       /\ SelectSeq(r.listed[<<>>], LAMBDA a : Folded[a.symbol] = Folded[request.symbol])
            = r.listed[<<request.symbol>>]
       /\ LET all == r.listed[<<>>]
              held == {i \in DOMAIN all : all[i].denom = request.denom}
          IN IF held = {} THEN r.found = <<>>
             ELSE r.found = <<all[CHOOSE i \in held : \A j \in held : i <= j]>>

\* Of several providers the first that lists a chain answers everything about it, its
\* assets as well as its data, as if it were alone; the list of all has each asset once,
\* as a look-up without a chain finds it; and where no chain is listed twice, list and
\* look-ups of a chain agree (provider/composite-provider.ts).
CompositeAgrees ==
  Asked("composite") =>
    LET r  == answer.result
        ps == request.providers
        owners(id) == {i \in DOMAIN ps : \E j \in DOMAIN ps[i] : ps[i][j].info.chainId = id}
        owned == {id \in request.ids : owners(id) # {}}
        Of(id) == LET i == CHOOSE x \in owners(id) : \A y \in owners(id) : x <= y
                  IN ps[i][CHOOSE j \in DOMAIN ps[i] : ps[i][j].info.chainId = id]
    IN /\ F!Range(r.chains) = {Of(id).info : id \in owned} /\ Len(r.chains) = Cardinality(owned)
       /\ \A id \in request.ids :
            LET assets == IF id \in owned THEN F!Range(Of(id).assets) ELSE {}
            IN /\ F!Range(r.there[id]) = {a \in assets : a.denom = request.denom}
               /\ F!Range(r.ofChain[id]) = {a \in assets : Folded[a.symbol] = Folded[request.symbol]}
               /\ r.base[id] # Throws <=> r.there[id] # <<>>
               /\ \A to \in request.ids : r.paths[id, to] # <<>> =>
                    \E c \in F!Range(Of(id).channels) :
                      c.chainId = to /\ c.channelId = r.paths[id, to][1].channel
       /\ \A i, j \in DOMAIN r.listed :
            r.listed[i].chainId = r.listed[j].chainId /\ r.listed[i].denom = r.listed[j].denom
              => i = j
       /\ \A i \in DOMAIN r.resolved : r.resolved[i] # <<>>
       /\ r.found # <<>> /\ Folded[r.found[1].symbol] = Folded[request.symbol]
            => r.found[1] \in F!Range(r.listed)
       /\ (\A id \in request.ids : Cardinality(owners(id)) <= 1) =>
            /\ F!Range(r.listed) = UNION {F!Range(r.ofChain[id]) : id \in request.ids}
            /\ r.found = <<>> <=> \A id \in request.ids : r.there[id] = <<>>

\* What the providers made of given data say of chains, assets, paths and amounts.
RegistriesAgree ==
  /\ RegistryAgrees /\ LastGivenIsHeld /\ ProviderIsEntered /\ ListsAreOfTheDisk /\ LoadedIsLookedUp /\ CompositeAgrees
  /\ AssetAmountsAgree

\* An amount is read and written with decimals the coin itself had when some call of the
\* handle asked for them, not before the last getTokenInfo() that was answered, which
\* tells those of now; a call fails only if it had none, or for its text
\* (contracts/move, evm and wasm).
HandlesKnowDecimals ==
  Asked("handle") =>
    LET calls == request.calls
        r     == answer.result
        Has(k) == LET coin == IF request.vm = "move" THEN AccountOf(calls[k].coin) ELSE "token"
                  IN IF coin \in DOMAIN calls[k].decimals THEN <<calls[k].decimals[coin]>> ELSE <<>>
        Same(j, k) == request.vm = "move" => calls[j].coin = calls[k].coin
        Told(k, d) ==
          CASE calls[k].name = "getTokenInfo" -> <<d>>
            [] calls[k].name = "parseUnits"  -> ParseUnits(calls[k].value, d)
            [] calls[k].name = "formatUnits" -> <<FormatUnits(calls[k].value, d)>>
        Since(k) == {j \in 1 .. k : /\ Same(j, k) /\ Has(j) # <<>>
                                   /\ \A i \in j + 1 .. k :
                                        calls[i].name = "getTokenInfo" /\ Same(i, k) => r[i] = Throws}
    IN \A k \in DOMAIN calls :
         /\ calls[k].name = "getTokenInfo" /\ r[k] # Throws => r[k] = Has(k)
         /\ IF r[k] = Throws
            THEN \/ Has(k) = <<>>
                 \/ request.vm = "move" /\ ~IsHex(calls[k].coin)
                 \/ \E j \in Since(k) : Told(k, Has(j)[1]) = Throws
            ELSE \E j \in Since(k) : r[k] = Told(k, Has(j)[1])

\* A revert that gave its reason is told with it, whether as a text, as a panic or as an
\* error the ABI knows, and one that is not understood with all its data
\* (contracts/evm/contract.ts).
RevertsAreTold ==
  Asked("revert") =>
    LET r    == answer.result
        data == request.data
        known == data.args # <<>> /\ data.selector \in
                   StandardErrors \cup (IF request.abi = <<>> THEN {} ELSE request.abi[1])
    IN IF ~known THEN r = [unknown |-> data]
       ELSE \/ r = [error |-> data.selector, args |-> data.args[1]] /\ request.abi # <<>>
            \/ r = [message |-> data.args[1]] /\ data.selector = "Error"
            \/ /\ DOMAIN r = {"panic", "known"} /\ r.panic = data.args[1] /\ data.selector = "Panic"

\* Of an NFT every approval is told with the end it has, if not the height 0; with every
\* page started after the last, an owner's tokens are all told once; and a schema given
\* for a contract is used, bare or in its options (contracts/wasm/contract.ts).
NftsAreTold ==
  Asked("nft") =>
    LET r      == answer.result
        told   == request.told
        Lasts(o, e) == IF o = <<>> THEN e = <<>>
                      ELSE e # <<>> /\ CASE "at_height" \in DOMAIN o[1] ->
                                             o[1].at_height # 0 => e[1].atHeight = <<o[1].at_height>>
                                        [] "at_time" \in DOMAIN o[1] -> e[1].atTime = <<o[1].at_time>>
                                        [] OTHER -> e[1].never = <<TRUE>>
        RECURSIVE Pages(_)
        Pages(after) == LET page == GetTokens(request.tokens, after, request.limit)
                        IN IF page = <<>> THEN <<>> ELSE page \o Pages(<<S!Last(page)>>)
    IN /\ r.owner.owner = told.owner /\ Len(r.owner.approvals) = Len(told.approvals)
       /\ \A i \in DOMAIN told.approvals :
            /\ r.owner.approvals[i].spender = told.approvals[i].spender
            /\ Lasts(told.approvals[i].expires, r.owner.approvals[i].expires)
       /\ r.tokens = SubSeq(Pages(request.startAfter), 1, Len(r.tokens))
       /\ Pages(<<>>) = request.tokens
       /\ r.schema = IF "schema" \in request.given THEN request.nested
                    ELSE request.given \cap {"execute", "query"}

\* A balance is of the address asked for, or else of the context's, at the height asked
\* for and past the cache if asked; a denom's is its amount, also none, and without one
\* every balance is told that fits in a page (wallet/chain-context.ts).
BalancesAreTrue ==
  Asked("balance") =>
    LET r    == answer.result
        o    == request.options
        who  == Or(o.address, Or(request.context.address, "nobody"))
        held == request.chain[who]
    IN IF who = "nobody" THEN r = Throws
       ELSE /\ r # Throws
            /\ (o.height # <<>>) <=> "height" \in DOMAIN r[1].query
            /\ o.height # <<>> => r[1].query.height = o.height[1]
            /\ (o.skipCache = <<TRUE>>) <=>
                 "skipCache" \in DOMAIN r[1].query /\ r[1].query.skipCache = <<TRUE>>
            /\ \A c \in r[1].coins : c[2] = IF c[1] \in DOMAIN held THEN held[c[1]] ELSE 0
            /\ o.denom \in {<<>>, <<0>>} =>
                 /\ Cardinality(r[1].coins) = Least(PageSize, Cardinality(DOMAIN held))
                 /\ {c[1] : c \in r[1].coins} \subseteq DOMAIN held
            /\ o.denom \notin {<<>>, <<0>>} => {c[1] : c \in r[1].coins} = {o.denom[1]}

\* getPosition() finds a lock exactly if the account has one with these fields, and it is
\* one that getPositions() lists; the votes told are those of the cycle asked for, else of
\* the current one, and a share or weight with a fraction is refused (vip/vip.ts).
LocksAreFound ==
  Asked("vipReads") =>
    LET r    == answer.result
        held == F!Range(request.delegations)
        p    == request.params
        Fits(d) == /\ d.metadata = p.metadata /\ d.validator = p.validator
                   /\ \A time \in F!Range(p.releaseTime) : d.releaseTime = time
        told == request.votes[<<IF request.cycle = <<>> THEN request.currentCycle ELSE request.cycle[1], "alice">>]
    IN /\ (r.all = Throws) <=> \E d \in held : ~d.share.whole
       /\ (r.one = <<<<>>>>) <=> \A d \in held : ~Fits(d)
       /\ r.one = Throws => \E d \in held : Fits(d) /\ ~d.share.whole
       /\ r.one # Throws /\ r.one # <<<<>>>> =>
            /\ Fits(r.one[1][1])
            /\ r.all # Throws => r.one[1][1] \in F!Range(r.all[1])
       /\ (r.votes = Throws) <=> \E v \in F!Range(told) : ~v.weight.whole
       /\ r.votes # Throws =>
            {<<v.bridgeId, v.weight>> : v \in F!Range(r.votes[1])} = {<<v.bridgeId, v.weight.n>> : v \in F!Range(told)}

\* Codes of the Cosmos SDK with their texts, and what the failure is.
SdkErrors ==
  {<<5, "insufficient fund", "insufficient_funds">>, <<13, "insufficient fee", "insufficient_funds">>,
   <<32, "account sequence mismatch", "sequence_mismatch">>, <<11, "out of gas", "gas_error">>,
   <<4, "unauthorized", "signature_error">>}

\* A failure of the SDK is told alike by its code, by its text, and by both; and the
\* category for which resetSequence() is advised is told of no failure that says nothing
\* of the sequence or the mempool (errors.ts).
FailuresAreNamed ==
  Asked("failure") =>
    /\ \A e \in SdkErrors :
         (/\ request.code \in {1, e[1]} /\ request.log \subseteq {e[2]}
          /\ request.code = e[1] \/ request.log # {})
           => answer.result = e[3]
    /\ answer.result = "sequence_mismatch" =>
         request.code \in {19, 32} \/ "account sequence mismatch" \in request.log

\* A run of abigen reads each flag with the word after it, takes help only where it is
\* asked for, writes what it generated to the place asked for or prints it, and nothing if
\* a part failed; an index names, of the modules asked for, every one, with files that are
\* there and export these names, also after a write that failed; each module's file has its
\* ABI unless another's name has the same words; and a generated schema lets the proxies
\* call what the schema of the contract does (codegen/).
AbigenRunsAreMeant ==
  Asked("abigen") =>
    LET argv  == request.argv
        world == request.world
        r     == answer.result
        Taken(i) == /\ i - 1 \in DOMAIN argv /\ ~IsFlag(argv[i])
                    /\ IsFlag(argv[i - 1]) /\ ~IsHelp(argv[i - 1])
        words == {i \in DOMAIN argv : ~IsFlag(argv[i]) /\ ~IsHelp(argv[i]) /\ ~Taken(i)}
        command == IF words = {} THEN <<"">> ELSE argv[CHOOSE i \in words : \A j \in words : i <= j].parts
        asks  == command = <<"">> \/ \E i \in DOMAIN argv : IsHelp(argv[i]) /\ ~Taken(i)
        Given(f) == LET at   == {i \in DOMAIN argv : IsFlag(argv[i]) /\ argv[i] = [flag |-> f]}
                        last == CHOOSE i \in at : \A j \in at : j <= i
                        text == IF last + 1 \in DOMAIN argv /\ Taken(last + 1)
                                THEN argv[last + 1].parts ELSE <<"true">>
                    IN IF at = {} THEN <<>> ELSE IF text = <<"">> THEN <<>> ELSE <<text>>
        Whole(m) == m.abi # <<>> /\ m.abi[1] # <<>> /\ {"address", "name"} \subseteq DOMAIN m.abi[1][1]
        modules == F!Range(world.modules)
        every == Given("all") = <<<<"true">>>>
        batch == every \/ Given("modules") # <<>>
        wanted == IF every THEN {m.name : m \in {x \in modules : Whole(x)}}
                  ELSE F!Range(Given("modules")[1]) \ {""}
        found == \A x \in wanted : \E m \in modules : m.name = x /\ Whole(m)
        index == IndexOf(Given("outdir")[1])
        file  == IF Given("out") = <<>> THEN r.out[1] ELSE r.disk[[out |-> Given("out")[1]]]
        Remains(path) == path \in DOMAIN world.disk /\ r.disk[path] = world.disk[path]
    IN /\ asks => r.exit = 0 /\ r.disk = world.disk /\ r.out = <<[help |-> IF words = {} THEN <<>> ELSE <<command>>]>>
       /\ r.exit = 1 =>
            /\ r.out = <<>>
            /\ world.fails = 0 => r.disk = world.disk
            /\ \A path \in DOMAIN r.disk : path = [out |-> Given("out")] \/ "index" \in DOMAIN path => Remains(path)
       /\ r.exit = 0 /\ ~asks =>
            IF command = <<"move">> /\ batch
            THEN LET exports == r.disk[index].exports
                 IN /\ found /\ r.out = <<>> /\ Len(exports) >= Cardinality(wanted)
                    /\ {exports[i][1] : i \in DOMAIN exports} = {DeriveExportName(x) : x \in wanted}
                    /\ \A i \in DOMAIN exports : r.disk[exports[i][2]].exportName = exports[i][1]
                    /\ \A m \in modules :
                         m.name \in wanted /\ (\A x \in wanted : NameWords[x] = NameWords[m.name] => x = m.name)
                           => \E i \in DOMAIN exports :
                                r.disk[exports[i][2]].value = m.abi[1][1].value
            ELSE /\ \A path \in DOMAIN r.disk : Remains(path) \/ Given("out") # <<>>
                 /\ r.out = <<>> <=> Given("out") # <<>>
                 /\ command = <<"move">> =>
                      \E m \in modules : <<<<m.name>>>> = Given("module") /\ file.value = m.abi[1][1].value
                 /\ command = <<"evm">> => file.value = [array |-> <<[scalar |-> "f"]>>]
                 /\ command = <<"wasm">> =>
                      /\ DOMAIN file.value = {k \in {"execute", "query"} : Given(k) # <<>>}
                      /\ \A k \in DOMAIN file.value :
                           ProxyVariants(file.value[k]) = ProxyVariants(world.schemas[Given(k)[1]][1])
       /\ /\ command = <<"move">> /\ batch /\ found /\ (every \/ wanted # {}) /\ world.fails = 0
          /\ \A f \in {"address", "endpoint", "outdir"} : Given(f) # <<>>
          => r.exit = 0

\* A literal that abigen writes is read as the value it was made of, unless a text has the
\* end of a line (codegen/format.ts).
LiteralsReadBack ==
  Asked("literal") =>
    LET RECURSIVE Read(_)
        Read(s) ==
          IF s = <<>> THEN <<<<>>>>
          ELSE LET escaped == s[1] = "\\"
                   rest    == IF escaped THEN Tail(Tail(s)) ELSE Tail(s)
               IN IF s[1] \in {"'", "newline"} \/ (escaped /\ Len(s) = 1) \/ Read(rest) = Throws THEN Throws
                  ELSE <<<<IF escaped THEN s[2] ELSE s[1]>> \o Read(rest)[1]>>
        RECURSIVE Same(_, _)
        Same(told, v) ==
          CASE "string" \in DOMAIN v ->
                 "newline" \in F!Range(v.string) \/ Read(told.string) = <<v.string>>
            [] "array" \in DOMAIN v ->
                 /\ DOMAIN told.array = DOMAIN v.array
                 /\ \A i \in DOMAIN v.array : Same(told.array[i], v.array[i])
            [] "object" \in DOMAIN v ->
                 /\ DOMAIN told.object = DOMAIN v.object
                 /\ \A i \in DOMAIN v.object :
                      told.object[i][1] = v.object[i][1] /\ Same(told.object[i][2], v.object[i][2])
            [] OTHER -> told = v
    IN Same(answer.result, request.value)

\* A callback gets, of the events its subscription asks for, the part its specification
\* names, from the confirmation to the end of the subscription or of the session, unless
\* another call of the same session had the same query; where each call has a session of
\* its own, no call disturbs another, and each ends its connection with its subscription,
\* but for one that failed, which nothing ends (client/websocket/session.ts).
SubscriptionsAreServed ==
  Asked("sessions") =>
    LET steps == request.steps
        r     == answer.result
        Asks  == [block |-> <<"NewBlock", "block">>, blockHeader |-> <<"NewBlockHeader", "header">>,
                  tx |-> <<"Tx", "TxResult">>, evmLogs |-> <<"logs">>, evmHeads |-> <<"newHeads">>]
        Evm(j) == steps[j].spec.event \in {"evmLogs", "evmHeads"}
        Able(j) == steps[j].name = "subscribe" /\ (IF Evm(j) THEN request.chain.evmWss ELSE request.chain.wss)
        Made(j) == Able(j) /\ steps[j].confirmed
        Closed(j, k) == ~request.alone /\ \E i \in j .. k : steps[i].name = "close"
        Undone(j, k) == \E i \in j .. k : steps[i].name = "unsubscribe" /\ steps[i].of = j
        Stands(j, k) == Made(j) /\ ~Closed(j, k) /\ ~Undone(j, k)
        SameQuery(i, j) == ~Evm(i) /\ ~Evm(j) /\ steps[i].spec = steps[j].spec /\ ~request.alone
        Fits(j, e) == IF Evm(j) THEN e.kind = "evm" /\ e.at = Asks[steps[j].spec.event][1]
                      ELSE /\ e.kind = "cosmos" /\ e.at.tm = Asks[steps[j].spec.event][1]
                           /\ e.at.rest = IF steps[j].spec.event = "tx" THEN steps[j].spec.filter ELSE <<>>
        Part(j, e) == IF Evm(j) \/ Asks[steps[j].spec.event][2] \notin DOMAIN e.data THEN e.data
                      ELSE e.data[Asks[steps[j].spec.event][2]]
        first(k) == {j \in 1 .. k : Able(j)}
    IN \A k \in DOMAIN steps :
         /\ steps[k].name = "subscribe" =>
              /\ r.told[k].handle # Throws <=> Made(k)
              /\ Made(k) /\ ~request.alone => r.told[k].count <= Cardinality({j \in 1 .. k : Stands(j, k)})
              /\ Made(k) /\ (\A i, j \in first(k) : SameQuery(i, j) => i = j) =>
                   r.told[k].count = IF request.alone THEN 1 ELSE Cardinality({j \in 1 .. k : Stands(j, k)})
         /\ steps[k].name = "event" =>
              LET got == r.told[k].reached
              IN /\ \A x \in got : Stands(x[1], k) /\ Fits(x[1], steps[k]) /\ x[2] = Part(x[1], steps[k])
                 /\ \A j \in 1 .. k - 1 :
                      /\ Stands(j, k) /\ Fits(j, steps[k])
                      /\ \A i \in first(k) : SameQuery(i, j) /\ i # j => i < j
                                                 /\ ~\E u \in j .. k : steps[u].name = "unsubscribe" /\ steps[u].of = i
                      => \E x \in got : x[1] = j
         /\ k = Len(steps) /\ request.alone =>
              {id[1] : id \in r.open} = {j \in 1 .. k : Able(j) /\ ~(Made(j) /\ Undone(j, k))}
         /\ k = Len(steps) /\ ~request.alone =>
              \A id \in r.open : Able(id[1]) /\ ~Closed(id[1], k)

\* Each message of a transaction is told as it would be alone, and strict decoding refuses
\* exactly the transactions of which the best effort flags a message; arguments are told
\* only of an ABI given for this contract, in whatever case, the last one, and one given
\* for the transaction first, with the words of the call itself, and under a name that is
\* its parameter's; without an ABI the call is told by its selector (if its data are bytes),
\* and nothing is told of a message whose decoding failed (tx/get-tx.ts, tx/enrichers).
TransactionsAreRead ==
  Asked("tx") =>
    LET r  == answer.result
        ms == request.messages
        In(mode, some) == ReadTx(some, mode, request.registered, request.abis)
        Has(list, of) == {i \in DOMAIN list : list[i].key.of = of}
        LastIn(list, of) == list[CHOOSE i \in Has(list, of) :
                                   \A j \in Has(list, of) : j <= i].abi
        Known(m) == Has(request.abis, m.to) \cup Has(request.registered, m.to) # {}
        Abi(m) == IF Has(request.abis, m.to) # {} THEN LastIn(request.abis, m.to)
                  ELSE LastIn(request.registered, m.to)
    IN /\ r = Throws =>
            /\ request.mode = "strict"
            /\ \E i \in DOMAIN ms : In("best-effort", ms)[1][i].error # ""
       /\ r # Throws =>
            /\ Len(r[1]) = Len(ms)
            /\ \A i \in DOMAIN ms :
                 LET m == ms[i]
                     x == r[1][i]
                 IN /\ In(request.mode, <<m>>) = <<<<x>>>>
                    /\ x.error # "" => x = [Raw EXCEPT !.error = x.error]
                    /\ request.mode = "strict" => r = In("best-effort", ms) /\ x.error = ""
                    /\ request.mode = "none" => x.error = "enrichError" \/ [x EXCEPT !.error = ""] = Raw
                    /\ m.kind \notin {"call", "wasm"} => [x EXCEPT !.error = ""] = Raw
                    /\ x.contractMsg # <<>> => m.kind = "wasm" /\ x.contractMsg[1] = m.data[1].json
                    /\ x.args # <<>> =>
                         /\ Known(m) /\ m.data[1].selector \in DOMAIN Abi(m)
                         /\ x.functionName = <<[name |-> m.data[1].selector]>>
                         /\ \A k \in DOMAIN x.args[1] : x.args[1][k] = m.data[1].words[k]
                         /\ Len(x.args[1]) = Len(Abi(m)[m.data[1].selector])
                    /\ x.error = "decodeError" <=> m.broken
                    /\ x.namedArgs # <<>> => "" \notin DOMAIN x.namedArgs[1]
                    /\ \A names \in F!Range(x.namedArgs) :
                         \A k \in DOMAIN x.args[1] :
                           names[Abi(m)[m.data[1].selector][k]] = x.args[1][k]
                    /\ m.kind = "call" /\ ~m.broken /\ m.data # <<>> /\ m.data[1].form = "bytes"
                         /\ request.mode # "none" =>
                         \/ x.error # "" /\ Known(m)
                         \/ x.functionName = IF Known(m) THEN <<[name |-> m.data[1].selector]>>
                                              ELSE <<[hex |-> m.data[1].selector]>>

\* What is put together from several queries is what the chain had at one moment, and
\* what is put together from several lists is what they say.
ReadsAreTrue ==
  /\ StatusesAgree /\ BridgeTxsAreTold /\ TransactionsAreRead /\ ProfilesAreTrue /\ RegistriesAgree /\ HandlesKnowDecimals
  /\ RevertsAreTold /\ NftsAreTold /\ BalancesAreTrue
  /\ LocksAreFound /\ FailuresAreNamed /\ AbigenRunsAreMeant /\ LiteralsReadBack
  /\ SubscriptionsAreServed
==============================================================================
