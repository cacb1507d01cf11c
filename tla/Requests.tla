------------------------------- MODULE Requests -------------------------------
(***************************************************************************)
(* What the clients send and how a request ends: headers and credentials   *)
(* (client/headers.ts), the timeout of an HTTP request (http-client.ts),   *)
(* the requests of the CometBFT and EVM clients (rpc.ts, evm-rpc.ts), the  *)
(* retries and end points of the gRPC transports (transport-common.ts,     *)
(* grpc-client.ts), the wrapping of their responses (response.ts), and the *)
(* contexts derived from one (chain-context.ts).                           *)
(*                                                                         *)
(* <<>> is undefined and <<x>> is x; Throws is an exception.  Headers are  *)
(* the pairs Object.entries() gives, of a name and a record that tells     *)
(* what the value is made of.                                              *)
(***************************************************************************)
EXTENDS Integers, Sequences, TLC, Amounts, Events, Registries
LOCAL INSTANCE SequencesExt
LOCAL INSTANCE FiniteSetsExt

-----------------------------------------------------------------------------
(***************************************************************************)
(* Headers and credentials.                                                *)
(***************************************************************************)
AuthConfigToHeaders(auth) ==
  CASE auth.type = "bearer"  -> <<<<"authorization", [bearer |-> auth.secret]>>>>
    [] auth.type = "api-key" ->
         <<<<LowerCase[Or(auth.header, "x-api-key")], [key |-> auth.secret]>>>>
    [] auth.type = "basic"   ->
         <<<<"authorization", [basic |-> <<auth.username, auth.secret>>]>>>>

MergeHeaders(sources) ==
  FoldLeft(LAMBDA merged, h : Put(merged, LowerCase[h[1]], h[2]), <<>>, FlattenSeq(sources))

\* validateHeaderConflict() throws.
HeaderConflict(auth, headers) ==
  /\ auth # <<>>
  /\ \E i \in DOMAIN headers, j \in DOMAIN AuthConfigToHeaders(auth[1]) :
       LowerCase[headers[i][1]] = AuthConfigToHeaders(auth[1])[j][1]

ToFetchHeaders(context, request) ==
  LET auth == IF request.auth # <<>> THEN request.auth ELSE context.auth
  IN IF HeaderConflict(request.auth, request.headers) THEN Throws
     ELSE <<MergeHeaders(<<context.headers,
                           IF auth = <<>> THEN <<>> ELSE AuthConfigToHeaders(auth[1]),
                           request.headers>>)>>

ToCallOptions(context, query) ==
  LET headers == ToFetchHeaders(context, query)
  IN IF headers = Throws \/ query.height = <<>> THEN headers
     ELSE <<Put(headers[1], "x-cosmos-block-height", [height |-> query.height[1]])>>

\* createHeadersInterceptor(): the transport's own headers are set last.
Intercepted(headers, own) == IF headers = Throws THEN Throws
                             ELSE <<MergeHeaders(<<own>>) @@ headers[1]>>

\* The constructors refuse what the first request would send twice.
RpcConfig(options) ==
  IF HeaderConflict(options.auth, options.headers) THEN Throws ELSE <<options>>

EvmRpcConfig(options) ==
  LET json == <<"content-type", [text |-> "application/json"]>>
  IN IF RpcConfig(options) = Throws THEN Throws
     ELSE <<[options EXCEPT !.headers = <<json>> \o @]>>

-----------------------------------------------------------------------------
(***************************************************************************)
(* The course of an HTTP request.  A node answers with its headers at      *)
(* headersAt, ok or not, and with its body at bodyAt; the caller aborts at *)
(* abortAt.  The timer is cleared when the headers are there.              *)
(***************************************************************************)
Ended(at, outcome) == [at |-> at, outcome |-> outcome]

HttpRequest(config, options, run) ==
  LET timeoutMs == Or(options.timeoutMs, Or(config.timeoutMs, 3))
      limit     == Least(timeoutMs, run.abortAt)
  IN IF run.headersAt < limit THEN Ended(run.headersAt, "response") ELSE Ended(limit, "aborted")

\* response.text() and response.json(): only the caller's signal can end them.
ReadBody(run) ==
  IF run.bodyAt < run.abortAt THEN Ended(run.bodyAt, "body") ELSE Ended(run.abortAt, "aborted")

\* A node's answer is ok, or an HTTP error; its body is a result, an error or no JSON.
Parsed(run) == Ended(ReadBody(run).at,
                     IF ReadBody(run).outcome = "aborted" THEN "aborted" ELSE run.body)

RpcGet(config, options, run) ==
  LET response == HttpRequest(config, options, run)
  IN IF response.outcome = "aborted" THEN response
     ELSE IF ~run.ok THEN Ended(ReadBody(run).at, "http error")
     ELSE Parsed(run)

EvmRpcCall(config, options, run) ==
  LET response == HttpRequest(config, options, run)
  IN IF response.outcome = "aborted" THEN response
     ELSE IF ~run.ok THEN Ended(response.at, "http error")
     ELSE Parsed(run)

Health(config, options, run) == RpcGet(config, options, run).outcome = "result"

-----------------------------------------------------------------------------
(***************************************************************************)
(* The requests of the CometBFT client: a path and the parameters of its   *)
(* query, each a set of pairs of a name and a record.  An argument is      *)
(* <<>> where the caller left it out.                                      *)
(***************************************************************************)
Path(path, params) == [path |-> path, params |-> params]

IfDefined(name, option) == {<<name, x>> : x \in Range(option)}

\* A zero and an empty text are dropped as if they had not been given.
IfTruthy(name, option) == {p \in IfDefined(name, option) : p[2] \notin {[number |-> 0], [text |-> ""]}}

Quoted(params) == {<<p[1], [quoted |-> p[2]]>> : p \in params}

NormalizedHash(hash) == {<<"hash", [hex |-> hash.digits]>>}     \* with or without 0x

SearchParams(a) ==
  Quoted(IfDefined("query", a.query)) \cup IfTruthy("page", a.page)
    \cup IfTruthy("per_page", a.perPage) \cup Quoted(IfDefined("order_by", a.orderBy))

BlockPaths(m, a) ==
  CASE m = "blockResults"    -> Path("/block_results", IfDefined("height", a.height))
    [] m = "tx"              -> Path("/tx", NormalizedHash(a.hash))
    [] m = "txSearch"        -> Path("/tx_search", SearchParams(a))
    [] m = "block"           -> Path("/block", IfDefined("height", a.height))
    [] m = "status"          -> Path("/status", {})
    [] m = "health"          -> Path("/health", {})
    [] m = "abciInfo"        -> Path("/abci_info", {})
    [] m = "commit"          -> Path("/commit", IfDefined("height", a.height))
    [] m = "validators"      -> Path("/validators", IfDefined("height", a.height)
                                  \cup IfTruthy("page", a.page) \cup IfTruthy("per_page", a.perPage))
    [] m = "consensusParams" -> Path("/consensus_params", IfDefined("height", a.height))

ChainPaths(m, a) ==
  CASE m = "blockchain"         -> Path("/blockchain", IfDefined("minHeight", a.minHeight)
                                     \cup IfDefined("maxHeight", a.maxHeight))
    [] m = "blockByHash"        -> Path("/block_by_hash", NormalizedHash(a.hash))
    [] m = "blockSearch"        -> Path("/block_search", SearchParams(a))
    [] m = "unconfirmedTxs"     -> Path("/unconfirmed_txs", IfDefined("limit", a.limit))
    [] m = "numUnconfirmedTxs"  -> Path("/num_unconfirmed_txs", {})
    [] m = "header"             -> Path("/header", IfDefined("height", a.height))
    [] m = "headerByHash"       -> Path("/header_by_hash", NormalizedHash(a.hash))
    [] m = "consensusState"     -> Path("/consensus_state", {})
    [] m = "dumpConsensusState" -> Path("/dump_consensus_state", {})
    [] m = "genesis"            -> Path("/genesis", {})
    [] m = "genesisChunked"     -> Path("/genesis_chunked", IfDefined("chunk", a.chunk))
    [] m = "netInfo"            -> Path("/net_info", {})
    [] m = "abciQuery"          -> Path("/abci_query", Quoted(IfDefined("path", a.path))
                                     \cup Quoted(IfTruthy("data", a.data))
                                     \cup IfDefined("height", a.height)
                                     \cup IfDefined("prove", a.prove))
    [] OTHER                    -> BlockPaths(m, a)

-----------------------------------------------------------------------------
(***************************************************************************)
(* The requests of the EVM client: a method and its parameters.  A block   *)
(* is [height |-> n, as |-> "number", "decimal" or "hex"], however n is     *)
(* written, or a word, [tag |-> t].                                        *)
(***************************************************************************)
FormatBlockParam(block) ==
  IF block = <<>> THEN <<[tag |-> "latest"]>>
  ELSE IF "height" \in DOMAIN block[1] THEN <<[hex |-> block[1].height]>>
  ELSE IF block[1].tag \in {"latest", "earliest", "pending"} THEN block
  ELSE Throws                              \* BigInt() refuses another word

Method(name, params) == IF Throws \in Range(params) THEN Throws
                        ELSE <<[method |-> name, params |-> AllOf(params)[1]]>>

\* The hash of a block excludes a range of blocks.
LogFilter(f) ==
  LET Block(name, b) == IF b = <<>> THEN {} ELSE {<<name, FormatBlockParam(b)>>}
      blocks == IF f.blockHash # <<>> THEN {<<"blockHash", f.blockHash>>}
                ELSE Block("fromBlock", f.fromBlock) \cup Block("toBlock", f.toBlock)
  IN IF \E b \in blocks : b[2] = Throws THEN Throws
     ELSE <<[filter |-> {<<b[1], b[2][1]>> : b \in blocks}
              \cup IfDefined("address", f.address) \cup IfDefined("topics", f.topics)]>>

LogMethods(m, a) ==
  CASE m = "getTransactionReceipt" -> Method("eth_getTransactionReceipt", <<a.hash>>)
    [] m = "getLogs"               -> Method("eth_getLogs", <<LogFilter(a)>>)
    [] m = "getBlockNumber"        -> Method("eth_blockNumber", <<>>)
    [] m = "getBlockByNumber"      ->
         Method("eth_getBlockByNumber", <<FormatBlockParam(a.block), a.full>>)
    [] m = "getBlockByHash"        -> Method("eth_getBlockByHash", <<a.hash, a.full>>)

CallMethods(m, a) ==
  CASE m = "ethCall"            -> Method("eth_call", <<a.tx, FormatBlockParam(a.block)>>)
    [] m = "sendRawTransaction" -> Method("eth_sendRawTransaction", <<a.tx>>)
    [] m = "estimateGas"        -> Method("eth_estimateGas", <<a.tx>>)
    [] m = "getChainId"         -> Method("eth_chainId", <<>>)
    [] m = "getGasPrice"        -> Method("eth_gasPrice", <<>>)
    [] OTHER                    -> LogMethods(m, a)

AccountMethods(m, a) ==
  CASE m = "getBalance"           -> Method("eth_getBalance", <<a.address, FormatBlockParam(a.block)>>)
    [] m = "getCode"              -> Method("eth_getCode", <<a.address, FormatBlockParam(a.block)>>)
    [] m = "getTransactionCount"  ->
         Method("eth_getTransactionCount", <<a.address, FormatBlockParam(a.block)>>)
    [] m = "getTransactionByHash" -> Method("eth_getTransactionByHash", <<a.hash>>)
    [] m = "getStorageAt"         ->
         Method("eth_getStorageAt", <<a.address, a.position, FormatBlockParam(a.block)>>)
    [] OTHER                      -> CallMethods(m, a)

-----------------------------------------------------------------------------
(***************************************************************************)
(* Retries of the gRPC transport.  An error is [connect |-> code], of the  *)
(* protocol, or [message |-> word], of the network or of anything else; a  *)
(* reply is [answer |-> x] or one of these.                                *)
(***************************************************************************)
IsRetryableError(error) ==
  IF "connect" \in DOMAIN error
  THEN error.connect \in {"unavailable", "resource_exhausted", "aborted", "internal"}
  ELSE error.message \in {"network", "fetch", "econnrefused", "enotfound", "timeout", "socket"}

\* The least and the most calculateDelay() gives, with its jitter.
CalculateDelay(attempt, o) ==
  LET capped == Least(o.initialDelayMs * 2 ^ attempt, o.maxDelayMs)
  IN [least |-> capped, most |-> IF o.jitter THEN (capped * 5) \div 4 ELSE capped]

\* The loop over attempts; without one it throws undefined.
RetryInterceptor(o, replies) ==
  LET Final(k) == \/ "answer" \in DOMAIN replies[k]
                  \/ k > o.maxRetries \/ ~IsRetryableError(replies[k])
      last     == Min({k \in DOMAIN replies : Final(k)})
  IN IF o.maxRetries < 0 THEN [reply |-> [message |-> "undefined"], delays |-> <<>>]
     ELSE [reply  |-> replies[last],
           delays |-> [k \in 1 .. last - 1 |-> CalculateDelay(k - 1, o)]]

\* createServiceProxy(): a refusal of the credentials becomes an AuthenticationError.
ServiceReply(reply) ==
  IF "connect" \notin DOMAIN reply THEN reply
  ELSE CASE reply.connect = "unauthenticated"   -> [authentication |-> 401]
         [] reply.connect = "permission_denied" -> [authentication |-> 403]
         [] OTHER -> reply

CallOverGrpc(o, replies) ==
  LET run == RetryInterceptor(o, replies)
  IN [reply |-> ServiceReply(run.reply), delays |-> run.delays]

-----------------------------------------------------------------------------
(***************************************************************************)
(* Responses of gRPC (response.ts).  A message is [type, fields], and a    *)
(* field [scalar |-> x], a message, a [list |-> messages], a               *)
(* [map |-> messages], the [oneof |-> a message] that was chosen, or       *)
(* [packed |-> a message], the content of an Any.  A field that is not set *)
(* is not there.  A wrapper keeps the message and the registry.            *)
(***************************************************************************)
IsWrappedResponse(value) == "wrapped" \in DOMAIN value

WrapResponse(value, registry) ==
  IF IsWrappedResponse(value) THEN value ELSE [wrapped |-> value, registry |-> registry]

\* getFieldMap(): the fields of messages, which a oneof is not.
WrapField(raw, registry) ==
  LET Wrapped(ms) == [i \in DOMAIN ms |-> WrapResponse(ms[i], registry)]
  IN CASE "type" \in DOMAIN raw -> WrapResponse(raw, registry)
       [] "list" \in DOMAIN raw -> [list |-> Wrapped(raw.list)]
       [] "map"  \in DOMAIN raw -> [map |-> Wrapped(raw.map)]
       [] OTHER -> raw

SyntheticKeys == {"schema", "typeUrl", "toJson", "toJSON"}

ReadKey(w, key) ==
  LET fields == w.wrapped.fields
  IN CASE key \in {"toJson", "toJSON"} -> [function |-> key]
       [] key \in DOMAIN fields        -> WrapField(fields[key], w.registry)
       [] key = "schema"               -> [schema |-> w.wrapped.type]
       [] key = "typeUrl"              -> [scalar |-> w.wrapped.type]

OwnKeys(w) == DOMAIN w.wrapped.fields \cup SyntheticKeys

\* { ...wrapped }, a plain object.
Spread(w) == [key \in OwnKeys(w) |-> ReadKey(w, key)]

RECURSIVE MessagesIn(_)
MessagesIn(m) ==
  LET Parts(raw) ==
        CASE "type"   \in DOMAIN raw -> {raw}
          [] "list"   \in DOMAIN raw -> Range(raw.list)
          [] "map"    \in DOMAIN raw -> Range(raw.map)
          [] "oneof"  \in DOMAIN raw -> {raw.oneof}
          [] "packed" \in DOMAIN raw -> {raw.packed}
          [] OTHER -> {}
  IN {m} \cup UNION {MessagesIn(p) : p \in UNION {Parts(m.fields[f]) : f \in DOMAIN m.fields}}

\* toJson() of protobuf: an Any is written only if the registry knows its content.
MessageJson(m, registry) ==
  IF \E any \in MessagesIn(m) :
       any.type = "Any" /\ any.fields.typeUrl.scalar \notin UNION Range(registry)
  THEN Throws ELSE <<[json |-> m]>>

ResponseToJson(w, given) == MessageJson(w.wrapped, IF given # <<>> THEN given ELSE w.registry)

\* What the properties a caller names one after the other come to; <<>> where there is none.
ReadPath(value, path) ==
  LET Step(v, key) ==
        LET at == IF v = <<>> THEN <<>> ELSE v[1]
            Of(s) == IF key \in DOMAIN s THEN <<s[key]>> ELSE <<>>
        IN IF v = <<>> THEN <<>>
           ELSE CASE "wrapped" \in DOMAIN at ->
                       IF key \in OwnKeys(at) THEN <<ReadKey(at, key)>> ELSE <<>>
                  [] "type"  \in DOMAIN at -> Of(at.fields)
                  [] "list"  \in DOMAIN at -> IF key = "0" /\ at.list # <<>> THEN <<at.list[1]>> ELSE <<>>
                  [] "map"   \in DOMAIN at -> Of(at.map)
                  [] "oneof" \in DOMAIN at -> IF key = "value" THEN <<at.oneof>> ELSE <<>>
                  [] OTHER -> <<>>
  IN FoldLeft(Step, <<value>>, path)

\* createGrpcClient(): a client is made when its service is first named.
ServiceClients(services, names) ==
  LET Access(s, name) ==
        LET cache == IF name \notin services \/ name \in DOMAIN s.cache THEN s.cache
                     ELSE s.cache @@ (name :> Len(s.told) + 1)
        IN [cache |-> cache,
            told  |-> Append(s.told, IF name \in DOMAIN cache THEN <<cache[name]>> ELSE <<>>)]
  IN FoldLeft(Access, [cache |-> <<>>, told |-> <<>>], names).told

\* wrapClientWithCache(): what each kind of service keeps of the answers to a method;
\* what is no object, and no function, is handed on.
CacheOf(service, method) ==
  CASE method = "typeName" -> "none"
    [] <<service, method>> \in {<<"move", "module">>, <<"evm", "denom">>, <<"evm", "contractAddrByDenom">>} ->
         "for good"
    [] OTHER -> "by height"

\* The services of a client are wrapped when they are first named, until clearCache() is called.
CachedServices(services, plain, names) ==
  LET Access(s, name) ==
        LET cache == IF name = "clearCache" THEN <<>>
                     ELSE IF name \notin services \ plain \/ name \in DOMAIN s.cache THEN s.cache
                     ELSE s.cache @@ (name :> Len(s.told) + 1)
        IN [cache |-> cache,
            told  |-> Append(s.told,
                        CASE name = "clearCache"       -> [cleared |-> TRUE]
                          [] name \in DOMAIN cache     -> [wrapper |-> cache[name]]
                          [] name \in services \ DOMAIN cache -> [plain |-> name]
                          [] OTHER                     -> [undefined |-> TRUE])]
  IN FoldLeft(Access, [cache |-> <<>>, told |-> <<>>], names).told

CachedKeys(services) == services \cup {"clearCache"}

-----------------------------------------------------------------------------
(***************************************************************************)
(* End points of a chain, as Registries has them.  The port is read from   *)
(* the end of the text, so only where no path follows.                     *)
(***************************************************************************)
NormalizeUrl(url) ==
  LET port == IF url.path # <<>> THEN 443 ELSE Or(url.port, 443)
  IN IF url.scheme \in {"http", "https"} THEN url
     ELSE [url EXCEPT !.scheme = IF port = 443 THEN "https" ELSE "http"]

GetGrpcEndpoint(chain) ==
  IF chain.grpc # <<>> THEN <<NormalizeUrl(chain.grpc[1])>>
  ELSE IF chain.grpcWeb # <<>> THEN <<NormalizeUrl(chain.grpcWeb[1])>> ELSE Throws

GetGrpcWebEndpoint(chain) ==
  IF chain.grpcWeb # <<>> THEN <<NormalizeUrl(chain.grpcWeb[1])>>
  ELSE IF chain.grpc # <<>> THEN <<NormalizeUrl(chain.grpc[1])>> ELSE Throws

-----------------------------------------------------------------------------
(***************************************************************************)
(* Contexts derived from one: a context holds its signer, the address it   *)
(* knows, the options of its clients and the clients made so far.  A       *)
(* signer is [of, isKey]: a Key tells its address at once, another signer  *)
(* when it is asked.  The gRPC client is shared.                           *)
(***************************************************************************)
NewContext(signer, address, shared) ==
  [signer  |-> signer,
   address |-> IF signer # <<>> /\ signer[1].isKey THEN <<signer[1].of>> ELSE address,
   shared  |-> shared]

\* buildChainContextFactory(): the options of the context serve all its clients.
CreateChainContext(o) ==
  IF HeaderConflict(o.auth, o.headers) THEN Throws
  ELSE <<NewContext(o.signer, o.address,
           [grpc |-> [auth |-> o.auth, headers |-> o.headers],
            rpcOptions |-> [auth |-> o.auth, headers |-> o.headers],
            rpc |-> <<>>, evmRpc |-> <<>>])>>

WithSigner(c, signer) == NewContext(<<signer>>, <<>>, c.shared)

ForAddress(c, address) == NewContext(<<>>, <<address>>, c.shared)

\* The getters make a client when it is first needed.
RpcOf(c) == Or(c.shared.rpc, RpcConfig(c.shared.rpcOptions)[1])

EvmRpcOf(c) == Or(c.shared.evmRpc, EvmRpcConfig(c.shared.rpcOptions)[1])

\* getSignerAddress(), the address a transaction is signed for.
SignerAddress(c) == IF c.signer = <<>> THEN Throws
                    ELSE IF c.signer[1].isKey \/ c.address = <<>> THEN <<c.signer[1].of>>
                    ELSE c.address

ContextStep(c, s) ==
  CASE s.step = "withSigner" -> WithSigner(c, s.signer[1])
    [] s.step = "forAddress" -> ForAddress(c, s.address[1])
    [] s.step = "sign"       -> IF SignerAddress(c) = Throws THEN c
                                ELSE [c EXCEPT !.address = SignerAddress(c)]
    [] s.step = "rpc"        -> [c EXCEPT !.shared.rpc = <<RpcOf(c)>>]
    [] s.step = "evmRpc"     -> [c EXCEPT !.shared.evmRpc = <<EvmRpcOf(c)>>]

DerivedContext(o, steps) ==
  IF CreateChainContext(o) = Throws THEN Throws
  ELSE <<FoldLeft(ContextStep, CreateChainContext(o)[1], steps)>>

\* getBalance() and getAccount(): of the address given, or of the context.
RequireAddress(c, address) == IF address # <<>> THEN address ELSE c.address

\* getSignerAddress() with the signer of a call, which then names the context if it is no Key.
AskedAddress(c, signer) == SignerAddress([c EXCEPT !.signer = signer \o @])

NamedBy(c, signer) ==
  IF AskedAddress(c, signer) = Throws \/ (signer \o c.signer)[1].isKey THEN c
  ELSE [c EXCEPT !.address = AskedAddress(c, signer)]

GetAccount(c, a) ==
  LET address == RequireAddress(c, a.address)
  IN IF address = <<>> THEN Throws ELSE <<[account |-> address[1], height |-> a.height]>>

EstimateGasFor(c, a) ==
  IF AskedAddress(c, a.signer) = Throws THEN Throws ELSE <<[simulated |-> AskedAddress(c, a.signer)[1]]>>

\* waitForTx() and waitForEvent(): the chain of the context is set over that of the options.
WaitIn(chain, options) == <<[options EXCEPT !.chainInfo = chain]>>

\* The subscriptions, and whether there is an end point for them.
SubscribeIn(chain, event, filter) ==
  LET kind == IF event = "evmLogs" THEN "evm" ELSE "cosmos"
  IN IF kind \in chain.sockets THEN <<[chain |-> chain, event |-> event, filter |-> filter]>> ELSE Throws

HasWebSocket(chain, kind) == kind \in chain.sockets

TokenContractIn(c, chain, token) ==
  IF ~chain.resolver THEN Throws ELSE <<[token |-> token, sender |-> c.address]>>

ContextCall(c, chain, call) ==
  LET a == call.args
  IN CASE call.name = "getAccount"       -> GetAccount(c, a)
       [] call.name = "estimateGas"      -> EstimateGasFor(c, a)
       [] call.name = "wait"             -> WaitIn(chain, a)
       [] call.name = "subscribe"        -> SubscribeIn(chain, a.event, a.filter)
       [] call.name = "getTokenContract" -> TokenContractIn(c, chain, a.token)

ContextCalls(c, chain, calls) ==
  FoldLeft(LAMBDA run, call :
             [context |-> IF call.name = "estimateGas" THEN NamedBy(run.context, call.args.signer) ELSE run.context,
              told    |-> Append(run.told, ContextCall(run.context, chain, call))],
           [context |-> c, told |-> <<>>], calls).told
==============================================================================
