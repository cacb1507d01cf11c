----------------------------- MODULE Registries -----------------------------
(***************************************************************************)
(* The providers without a network: CosmosRegistryProvider, built once from*)
(* the lists of the chain registry, CustomProvider, whose chains come and  *)
(* go, LocalRegistryProvider, which reads a directory, and the look-ups of *)
(* a CompositeProvider over several (src/provider).                        *)
(*                                                                         *)
(* A provider is what its look-ups read: its chains, in the order of the   *)
(* Map, and the assets and channels of each.  <<>> is undefined, <<x>> is  *)
(* x.  Of a chain and an asset only what a look-up compares is kept.       *)
(***************************************************************************)
EXTENDS Integers, Sequences, TLC, Amounts
LOCAL INSTANCE SequencesExt
LOCAL INSTANCE Folds

CONSTANT Folded        \* of each name and symbol, the same without its case

Get(map, key) == IF key \in DOMAIN map THEN map[key] ELSE <<>>

Found(s) == IF s = <<>> THEN <<>> ELSE <<s[1]>>

-----------------------------------------------------------------------------
(***************************************************************************)
(* Look-ups, alike in both providers.                                      *)
(***************************************************************************)
Searched(p, chainId) ==
  IF chainId # <<>> THEN Get(p.assets, chainId[1])
  ELSE FlattenSeq([i \in DOMAIN p.chains |-> Get(p.assets, p.chains[i].chainId)])

FindAsset(p, denom, chainId) ==
  Found(SelectSeq(Searched(p, chainId), LAMBDA a : a.denom = denom))

FindAssetBySymbol(p, symbol, chainId) ==
  SelectSeq(Searched(p, chainId), LAMBDA a : Folded[a.symbol] = Folded[symbol])

GetIbcChannel(p, from, to) ==
  Found(SelectSeq(Get(p.channels, from), LAMBDA c : c.chainId = to))

GetTransferPath(p, from, to) ==
  LET channel == GetIbcChannel(p, from, to)
  IN IF channel = <<>> \/ channel[1].version # "ics20-1" THEN <<>>
     ELSE <<[sourceChainId |-> from, destChainId |-> to,
             channel |-> channel[1].channelId, port |-> channel[1].portId]>>

ToBaseAmount(p, amount, denom, chainId) ==
  LET asset == FindAsset(p, denom, <<chainId>>)
  IN IF asset = <<>> THEN Throws ELSE ParseUnits(amount, asset[1].decimals)

ToDisplayAmount(p, coin, chainId) ==
  LET asset == FindAsset(p, coin.denom, <<chainId>>)
  IN IF asset = <<>> THEN Throws ELSE <<FormatUnits(coin.amount, asset[1].decimals)>>

\* The unit of an asset with this name or alias.
UnitOf(asset, denom) ==
  Found(SelectSeq(asset.units, LAMBDA u : denom \in {u.denom} \cup u.aliases))

ConvertAmount(p, amount, from, to, chainId) ==
  LET asset == Found(SelectSeq(Get(p.assets, chainId),
                 LAMBDA a : UnitOf(a, from) # <<>> /\ UnitOf(a, to) # <<>>))
  IN IF asset = <<>> THEN Throws
     ELSE ConvertDenomAmount(amount, UnitOf(asset[1], from)[1].exponent
                                       - UnitOf(asset[1], to)[1].exponent)

-----------------------------------------------------------------------------
(***************************************************************************)
(* CosmosRegistryProvider.  The registry has, for the main and the test    *)
(* networks, chains, lists of assets by chain name, and links between two  *)
(* chains with the channels of each link.                                  *)
(***************************************************************************)
MapNetworkType(type) == IF type \in {"mainnet", "testnet"} THEN type ELSE "local"

Kept(chainNames, name) == chainNames = <<>> \/ name \in chainNames[1]

\* The first chain of each id, without those that have none.
Registered(chains, chainNames) ==
  FoldLeft(LAMBDA known, c :
             IF c.chainId = "" \/ ~Kept(chainNames, c.chainName)
                  \/ \E i \in DOMAIN known : known[i].chainId = c.chainId
               THEN known ELSE Append(known, c),
           <<>>, chains)

IdsOf(chains, name) ==
  LET named == SelectSeq(chains, LAMBDA c : c.chainName = name)
  IN [i \in DOMAIN named |-> named[i].chainId]

CosmosAssetToAssetInfo(raw, chainId, chains) ==
  LET displayUnit == SelectSeq(raw.units, LAMBDA u : u.denom = raw.display)
  IN [chainId |-> chainId, denom |-> raw.base, symbol |-> raw.symbol, units |-> raw.units,
      decimals |-> IF displayUnit = <<>> THEN 0 ELSE displayUnit[1].exponent,
      originChainId |-> IF raw.traces = <<>> THEN <<>>
                        ELSE Found(IdsOf(chains, raw.traces[1].chainName)),
      originDenom |-> IF raw.traces = <<>> THEN <<>> ELSE <<raw.traces[1].baseDenom>>]

CosmosIbcToChannelInfo(links, localName, chains) ==
  FlattenSeq([i \in DOMAIN links |->
    LET ibc    == links[i]
        first  == ibc.chain1 = localName
        ids    == IdsOf(chains, IF first THEN ibc.chain2 ELSE ibc.chain1)
        Local(ch) == IF first THEN ch.chain1 ELSE ch.chain2
    IN IF localName \notin {ibc.chain1, ibc.chain2} \/ ids = <<>> THEN <<>>
       ELSE [j \in DOMAIN ibc.channels |->
               [chainId   |-> ids[1],
                portId    |-> Local(ibc.channels[j]).portId,
                channelId |-> Local(ibc.channels[j]).channelId,
                version   |-> ibc.channels[j].version]]])

AssetsOfChain(chains, lists, chain) ==
  LET list == SelectSeq(lists, LAMBDA l : l.chainName = chain.chainName)
  IN IF list = <<>> THEN <<>>
     ELSE [i \in DOMAIN list[1].assets |->
             CosmosAssetToAssetInfo(list[1].assets[i], chain.chainId, chains)]

CosmosRegistry(registry, options) ==
  LET Both(field) == (IF options.mainnet THEN registry.mainnet[field] ELSE <<>>)
                       \o (IF options.testnet THEN registry.testnet[field] ELSE <<>>)
      chains == Registered(Both("chains"), options.chainNames)
      lists  == SelectSeq(Both("assetLists"), LAMBDA l : Kept(options.chainNames, l.chainName))
      ids    == {chains[i].chainId : i \in DOMAIN chains}
      Of(id) == chains[CHOOSE i \in DOMAIN chains : chains[i].chainId = id]
  IN [chains   |-> [i \in DOMAIN chains |->
                      [chainId   |-> chains[i].chainId,
                       chainName |-> chains[i].chainName,
                       network   |-> MapNetworkType(chains[i].networkType)]],
      assets   |-> [id \in ids |-> AssetsOfChain(chains, lists, Of(id))],
      channels |-> [id \in ids |->
                      CosmosIbcToChannelInfo(Both("ibc"), Of(id).chainName, chains)]]

\* By the registry's name; the name for display is not looked at.
ResolveRegistered(p, chainName, network) ==
  Found(SelectSeq(IdsOf(p.chains, chainName),
          LAMBDA id : network = <<>>
            \/ \E i \in DOMAIN p.chains :
                 p.chains[i].chainId = id /\ p.chains[i].network = network[1]))

-----------------------------------------------------------------------------
(***************************************************************************)
(* CustomProvider: chains are added, replaced and removed.                 *)
(***************************************************************************)
Put(map, key, value) == [k \in DOMAIN map \cup {key} |-> IF k = key THEN value ELSE map[k]]

Without(map, key) == [k \in DOMAIN map \ {key} |-> map[k]]

\* Map.set() keeps the place of a key that is there.
SetChain(chains, info) ==
  IF \E i \in DOMAIN chains : chains[i].chainId = info.chainId
    THEN [i \in DOMAIN chains |->
            IF chains[i].chainId = info.chainId THEN info ELSE chains[i]]
    ELSE Append(chains, info)

\* Fields in any of the accepted spellings become those of an AssetInfo.
NormalizeAssetInput(raw, chainId) ==
  LET symbol  == Or(raw.symbol, "")
      display == Or(raw.display, symbol)
      unit    == SelectSeq(raw.units, LAMBDA u : u.denom = display)
  IN [chainId |-> chainId, denom |-> Or(raw.denom, Or(raw.base, "")), symbol |-> symbol,
      units |-> raw.units,
      decimals |-> Or(raw.decimals, IF unit = <<>> THEN 0 ELSE unit[1].exponent)]

NormalizeIbcChannelInput(raw) ==
  [chainId |-> raw.chainId, channelId |-> raw.channelId,
   portId |-> Or(raw.portId, "transfer"), version |-> Or(raw.version, "ics20-1")]

AddAssets(p, chainId, assets) ==
  [p EXCEPT !.assets = Put(@, chainId,
     FoldLeft(LAMBDA held, asset :
                IF \E i \in DOMAIN held : held[i].denom = asset.denom
                  THEN [held EXCEPT ![CHOOSE i \in DOMAIN held :
                          /\ held[i].denom = asset.denom
                          /\ \A j \in 1 .. i - 1 : held[j].denom # asset.denom] = asset]
                  ELSE Append(held, asset),
              Get(p.assets, chainId), assets))]

AddChannels(p, chainId, channels) ==
  [p EXCEPT !.channels = Put(@, chainId, Get(p.channels, chainId) \o channels)]

\* CustomProvider's constructor, which replaces, and addChain(), which adds.
Construct(p, c) ==
  [chains   |-> SetChain(p.chains, c.info),
   assets   |-> IF c.assets = <<>> THEN p.assets ELSE Put(p.assets, c.info.chainId, c.assets),
   channels |-> IF c.channels = <<>> THEN p.channels
                ELSE Put(p.channels, c.info.chainId, c.channels)]

AddChain(p, c) ==
  LET listed == [p EXCEPT !.chains = SetChain(@, c.info)]
      stocked == IF c.assets = <<>> THEN listed ELSE AddAssets(listed, c.info.chainId, c.assets)
  IN IF c.channels = <<>> THEN stocked ELSE AddChannels(stocked, c.info.chainId, c.channels)

RemoveChain(p, chainId) ==
  [chains   |-> SelectSeq(p.chains, LAMBDA c : c.chainId # chainId),
   assets   |-> Without(p.assets, chainId),
   channels |-> Without(p.channels, chainId)]

AddAssetList(p, chainId, raws) ==
  AddAssets(p, chainId, [i \in DOMAIN raws |-> NormalizeAssetInput(raws[i], chainId)])

Perform(p, call) ==
  CASE call.name = "addChain"      -> AddChain(p, call.chain)
    [] call.name = "removeChain"   -> RemoveChain(p, call.chainId)
    [] call.name = "addAssetList"  -> AddAssetList(p, call.chainId, call.assets)
    [] call.name = "addIbcChannel" ->
         AddChannels(p, call.chainId, <<NormalizeIbcChannelInput(call.channel)>>)

CustomProvider(chains, calls) ==
  FoldLeft(Perform,
           FoldLeft(Construct, [chains |-> <<>>, assets |-> <<>>, channels |-> <<>>], chains),
           calls)

ResolveCustom(p, chainName, network) ==
  LET named == SelectSeq(p.chains,
                 LAMBDA c : /\ Folded[c.chainName] = Folded[chainName]
                            /\ network = <<>> \/ c.network = network[1])
  IN IF named = <<>> THEN <<>> ELSE <<named[1].chainId>>

-----------------------------------------------------------------------------
(***************************************************************************)
(* A chain of the registry as the providers hand it on: the network        *)
(* registry and the local one make of it what RegistryChainInfo() says,    *)
(* CustomProvider.from() what CustomChainInfo() says.  An end point is     *)
(* [scheme, host, port, path], scheme "" if the text has none, path its    *)
(* segments; of each kind of end point only the first is looked at.        *)
(***************************************************************************)
NormalizeEndpoint(endpoint) ==
  IF endpoint = <<>> \/ endpoint[1].scheme # "" THEN endpoint
  ELSE <<[endpoint[1] EXCEPT !.scheme = "https"]>>

\* A text without a scheme is no URL, or, with a port, one whose scheme is the host:
\* URL lets nothing of that be replaced.
DeriveWssFromRpc(rpc) ==
  IF rpc = <<>> THEN <<>>
  ELSE IF rpc[1].scheme = "" THEN (IF rpc[1].port = <<>> THEN <<>> ELSE rpc)
  ELSE <<[rpc[1] EXCEPT !.scheme = IF @ = "https" THEN "wss" ELSE "ws",
                        !.path   = IF @ # <<>> /\ Last(@) = "websocket" THEN @
                                   ELSE Append(@, "websocket")]>>

DetectChainType(metadata) ==
  IF metadata.isL1 THEN "initia"
  ELSE IF metadata.minitia \in {"minievm", "miniwasm", "minimove"} THEN metadata.minitia
  ELSE "other"

\* The average price, else the low one, else the least.
DeriveGasPrice(feeTokens) ==
  IF feeTokens = <<>> THEN <<>>
  ELSE LET token == feeTokens[1]
           price == token.average \o token.low \o token.fixed
       IN IF price = <<>> THEN <<>> ELSE <<[price |-> price[1], denom |-> token.denom]>>

CustomChainInfo(chain) ==
  [chainId     |-> chain.chainId,
   chainName   |-> Or(chain.prettyName, chain.chainName),
   chainType   |-> DetectChainType(chain.metadata),
   network     |-> MapNetworkType(chain.networkType),
   rpc         |-> chain.apis.rpc,
   grpc        |-> chain.apis.grpc,
   grpcWeb     |-> chain.apis.grpcWeb,
   wss         |-> chain.apis.wss,
   evmRpc      |-> chain.apis.evmRpc,
   nativeDenom |-> IF chain.feeTokens = <<>> THEN <<>> ELSE <<chain.feeTokens[1].denom>>]

\* CustomProvider.from(): of a list with a chain that is not valid nothing is made.
IsValidChain(chain) ==
  /\ chain.networkType \in {"mainnet", "testnet", "devnet"}
  /\ chain.metadata.minitia \in {"", "minimove", "miniwasm", "minievm", "custom"}

CustomFrom(items) ==
  IF \E i \in DOMAIN items : ~IsValidChain(items[i].chain) THEN Throws
  ELSE <<CustomProvider([i \in DOMAIN items |->
           LET item == items[i]
               id   == item.chain.chainId
           IN [info     |-> CustomChainInfo(item.chain),
               assets   |-> [k \in DOMAIN item.assets |-> NormalizeAssetInput(item.assets[k], id)],
               channels |-> [k \in DOMAIN item.channels |->
                               NormalizeIbcChannelInput(item.channels[k])]]], <<>>)>>

(***************************************************************************)
(* A custom provider in use: transport is what was given to it for its     *)
(* bridge, bridge the networks whose router the one it has made asks, told *)
(* what the calls have answered.  A transport is the entry point it is of  *)
(* and the chain it reaches, or one the caller made.                       *)
(***************************************************************************)
InUse(provider) == [provider |-> provider, transport |-> <<>>, bridge |-> <<>>, told |-> <<>>]

RouterNetworks(p) ==
  LET first == Found(p.chains)
  IN {first[i].network : i \in DOMAIN first} \cap {"mainnet", "testnet"}

\* get bridge(), which keeps what it makes.
ReadBridge(use) ==
  LET made == IF use.bridge # <<>> THEN use.bridge
              ELSE IF use.transport = <<>> THEN Throws
              ELSE <<RouterNetworks(use.provider)>>
  IN [use EXCEPT !.bridge = made, !.told = Append(@, made)]

\* fromChain() of an entry point.
FromChain(use, call) ==
  LET chain == Found(SelectSeq(use.provider.chains, LAMBDA c : c.chainId = call.chainId))
      own   == [entry |-> call.entry, chainId |-> call.chainId]
  IN IF ~call.provided THEN [use EXCEPT !.told = Append(@, Throws)]
     ELSE [use EXCEPT !.transport = IF @ = <<>> THEN <<call.entry>> ELSE @,
                      !.told = Append(@, IF chain = <<>> THEN Throws
                                 ELSE <<[chain |-> chain[1], transport |-> Or(call.transport, own)]>>)]

UseProvider(use, call) ==
  CASE call.name = "bridge"    -> ReadBridge(use)
    [] call.name = "fromChain" -> FromChain(use, call)
    [] OTHER -> [use EXCEPT !.provider = Perform(@, call), !.told = Append(@, <<>>)]

UseProviders(items, calls) ==
  LET p == CustomFrom(items)
  IN IF p = Throws THEN Throws ELSE <<FoldLeft(UseProvider, InUse(p[1]), calls)>>

RegistryChainInfo(chain) ==
  [gasPrice |-> DeriveGasPrice(chain.feeTokens),
   channels |-> chain.metadata.ibcChannels]
  @@ [CustomChainInfo(chain) EXCEPT
        !.grpc    = NormalizeEndpoint(@),
        !.grpcWeb = NormalizeEndpoint(@),
        !.wss     = IF @ # <<>> THEN @ ELSE DeriveWssFromRpc(chain.apis.rpc)]

-----------------------------------------------------------------------------
(***************************************************************************)
(* LocalRegistryProvider.  A disk is the sequence of the directories of    *)
(* chains, [path, network, hidden, chain, assets]: hidden if its name      *)
(* begins with an underscore, chain <<>> if chain.json is missing or not   *)
(* valid, assets <<>> if there is no assetlist.json, else <<"broken">> or  *)
(* <<what it says>>.                                                       *)
(***************************************************************************)
LoadChains(disk, network) ==
  FoldLeft(LAMBDA local, d :
             IF \/ d.hidden \/ d.chain = <<>> \/ (network # <<>> /\ d.network # network[1])
                \/ \E i \in DOMAIN local.chains : local.chains[i].chainId = d.chain[1].chainId
             THEN local
             ELSE [local EXCEPT !.chains = Append(@, d.chain[1]),
                                !.assetlistPaths = IF d.assets = <<>> THEN @
                                                   ELSE Put(@, d.chain[1].chainId, d.path)],
           [chains |-> <<>>, assetlistPaths |-> <<>>, assetMap |-> <<>>], disk)

ReadJsonFile(disk, path) ==
  LET files == SelectSeq(disk, LAMBDA d : d.path = path /\ d.assets \notin {<<>>, <<"broken">>})
  IN IF files = <<>> THEN <<>> ELSE files[1].assets

\* A file that is not there or cannot be read is tried again the next time.
EnsureAssetLoaded(local, disk, chainId) ==
  IF chainId \in DOMAIN local.assetMap \/ chainId \notin DOMAIN local.assetlistPaths THEN local
  ELSE LET file == ReadJsonFile(disk, local.assetlistPaths[chainId])
       IN IF file = <<>> THEN local ELSE [local EXCEPT !.assetMap = Put(@, chainId, file)]

\* A step of the program, [step, disk, chainId]; the disk is the one it meets.
LocalStep(run, s) ==
  LET local == IF s.step = "read"
               THEN EnsureAssetLoaded(run.local, s.disk, s.chainId)
               ELSE LoadChains(s.disk, run.network)
  IN [network |-> run.network, local |-> local,
      answers |-> Append(run.answers,
                    IF s.step = "read" THEN Get(local.assetMap, s.chainId) ELSE <<>>)]

LocalRegistry(disk, network, steps) ==
  FoldLeft(LocalStep, [network |-> network, local |-> LoadChains(disk, network),
                       answers |-> <<>>], steps)

-----------------------------------------------------------------------------
(***************************************************************************)
(* The look-ups of LocalRegistryProvider and of RegistryProvider, alike    *)
(* but for how an asset list gets there: a chain they have loaded is       *)
(* [chainId, chainName, network, channels, opBridgeId, assets].            *)
(***************************************************************************)
LoadedChain(chains, id) == Found(SelectSeq(chains, LAMBDA c : c.chainId = id))

ResolveLoaded(chains, chainName, network) ==
  Found(SelectSeq(IdsOf(chains, chainName),
          LAMBDA id : network \in {<<>>, <<LoadedChain(chains, id)[1].network>>}))

ChainNameOf(chains, id) ==
  LET c == LoadedChain(chains, id) IN IF c = <<>> THEN <<>> ELSE <<c[1].chainName>>

LoadedChannels(chains, id) ==
  LET c == LoadedChain(chains, id) IN IF c = <<>> THEN <<>> ELSE c[1].channels

LoadedPath(chains, from, to) ==
  GetTransferPath([channels |-> [id \in {from} |-> LoadedChannels(chains, id)]], from, to)

\* A bridge with the number 0 is none.
GetOpBridge(chains, l2) ==
  LET c == LoadedChain(chains, l2)
  IN IF c = <<>> \/ c[1].opBridgeId \in {<<>>, <<0>>} THEN <<>>
     ELSE <<[bridgeId |-> c[1].opBridgeId[1], l2ChainId |-> l2]>>

AssetsOfLoaded(chains, chainId) ==
  IF chainId # <<>>
  THEN LET c == LoadedChain(chains, chainId[1]) IN IF c = <<>> THEN <<>> ELSE c[1].assets
  ELSE FlattenSeq([i \in DOMAIN chains |-> chains[i].assets])

ListLoaded(chains, chainId, symbol) ==
  SelectSeq(AssetsOfLoaded(chains, chainId),
            LAMBDA a : symbol = <<>> \/ Folded[a.symbol] = Folded[symbol[1]])

FindLoaded(chains, denom, chainId) ==
  Found(SelectSeq(AssetsOfLoaded(chains, chainId), LAMBDA a : a.denom = denom))

-----------------------------------------------------------------------------
(***************************************************************************)
(* The look-ups of a CompositeProvider over a sequence of providers.       *)
(***************************************************************************)
Lists(p, chainId) == \E i \in DOMAIN p.chains : p.chains[i].chainId = chainId

\* chainToProvider: the first that lists the chain.
RouteOf(ps, chainId) == Found(SelectSeq(ps, LAMBDA p : Lists(p, chainId)))

CompositeChains(ps) ==
  FoldLeft(LAMBDA s, c : IF \E i \in DOMAIN s : s[i].chainId = c.chainId THEN s
                         ELSE Append(s, c),
           <<>>, FlattenSeq([i \in DOMAIN ps |-> ps[i].chains]))

CompositeFind(ps, denom, chainId) ==
  IF chainId = <<>>
  THEN Found(FlattenSeq([i \in DOMAIN ps |-> FindAsset(ps[i], denom, <<>>)]))
  ELSE LET route == RouteOf(ps, chainId[1])
       IN IF route = <<>> THEN <<>> ELSE FindAsset(route[1], denom, chainId)

\* listAssets() and findAssetBySymbol() over all chains: the first of each chain and denom.
CompositeBySymbol(ps, symbol) ==
  FoldLeft(LAMBDA s, a : IF \E i \in DOMAIN s : s[i].chainId = a.chainId /\ s[i].denom = a.denom
                         THEN s ELSE Append(s, a),
           <<>>, FlattenSeq([i \in DOMAIN ps |-> FindAssetBySymbol(ps[i], symbol, <<>>)]))

CompositeSymbolOf(ps, symbol, chainId) ==
  LET route == RouteOf(ps, chainId)
  IN IF route = <<>> THEN <<>> ELSE FindAssetBySymbol(route[1], symbol, <<chainId>>)

CompositePath(ps, from, to) ==
  LET route == RouteOf(ps, from)
  IN IF route = <<>> THEN <<>> ELSE GetTransferPath(route[1], from, to)

\* An unknown chain is an error here, and not an asset that is not found.
CompositeBaseAmount(ps, amount, denom, chainId) ==
  LET route == RouteOf(ps, chainId)
  IN IF route = <<>> THEN Throws ELSE ToBaseAmount(route[1], amount, denom, chainId)

CompositeResolve(ps, chainName, network) ==
  Found(FlattenSeq([i \in DOMAIN ps |-> ResolveCustom(ps[i], chainName, network)]))
=============================================================================
