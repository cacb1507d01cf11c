------------------------------- MODULE Wallets -------------------------------
(***************************************************************************)
(* A wallet (wallet/wallet.ts), its bridge (wallet/bridge.ts), the         *)
(* messages and look-ups of the OP bridge (bridge/op-bridge.ts,            *)
(* bridge/executor.ts), and the typed factories of contexts                *)
(* (wallet/typed-context.ts).                                              *)
(*                                                                         *)
(* A provider is [chains, transport]: chains is a sequence of [chainId,    *)
(* chainType, network, prefix, opBridgeId], the last two optional, and     *)
(* transport its factory of transports, or <<>>.  A wallet has an optional *)
(* key and provider.  An address is [account, prefix].                     *)
(***************************************************************************)
EXTENDS Integers, Sequences, TLC, Amounts
LOCAL INSTANCE FiniteSetsExt
LOCAL INSTANCE SequencesExt

\* listChains().find().
FirstChain(fitting) == IF fitting = <<>> THEN Throws ELSE <<fitting[1]>>

GetChainInfo(provider, chainId) ==
  FirstChain(SelectSeq(provider.chains, LAMBDA c : c.chainId = chainId))

AddressWithPrefix(wallet, prefix) ==
  IF wallet.key = <<>> THEN Throws ELSE <<[account |-> wallet.key[1], prefix |-> prefix]>>

WalletAddress(wallet, chainId) ==
  IF wallet.provider = <<>> \/ GetChainInfo(wallet.provider[1], chainId) = Throws THEN Throws
  ELSE AddressWithPrefix(wallet, Or(GetChainInfo(wallet.provider[1], chainId)[1].prefix, "init"))

\* chain(): the wallet's key signs unless a signer is given.
WalletContext(wallet, chainId, signer) ==
  IF wallet.provider = <<>> \/ GetChainInfo(wallet.provider[1], chainId) = Throws THEN Throws
  ELSE <<[chain  |-> GetChainInfo(wallet.provider[1], chainId)[1],
          signer |-> IF signer # <<>> THEN signer ELSE wallet.key]>>

-----------------------------------------------------------------------------
(***************************************************************************)
(* The OP bridge.  The first L1 that the provider lists is taken for the   *)
(* L1 of every rollup.                                                     *)
(***************************************************************************)
FindL1Chain(provider) == FirstChain(SelectSeq(provider.chains, LAMBDA c : c.chainType = "initia"))

GetBridgeId(provider, l2ChainId) ==
  LET info == GetChainInfo(provider, l2ChainId)
  IN IF info = Throws THEN Throws ELSE info[1].opBridgeId

ListBridgeableChains(provider) == SelectSeq(provider.chains, LAMBDA c : c.opBridgeId # <<>>)

\* The options have toChain or bridgeId, each optional.
DepositMsg(provider, o) ==
  LET bridgeId == IF o.toChain # <<>> THEN GetBridgeId(provider, o.toChain[1]) ELSE o.bridgeId
  IN IF bridgeId = <<>> THEN Throws
     ELSE <<[type |-> "deposit", sender |-> o.sender, bridgeId |-> bridgeId[1],
             to |-> Or(o.to, o.sender), amount |-> o.amount]>>

WithdrawMsg(o) ==
  <<[type |-> "withdraw", sender |-> o.sender, to |-> Or(o.to, o.sender), amount |-> o.amount]>>

(***************************************************************************)
(* The executor's withdrawals have their proofs as base64, the library's   *)
(* as hex and a message's as bytes; the three say the same bytes.          *)
(***************************************************************************)
BytesOf(text) == IF "hex" \in DOMAIN text THEN text.hex ELSE text.base64

Base64ToHex(text) == [hex |-> BytesOf(text)]

ToWithdrawalInfo(raw, status) ==
  [raw EXCEPT !.proofs = [i \in DOMAIN raw.proofs |-> Base64ToHex(raw.proofs[i])],
              !.root = Base64ToHex(raw.root)]
  @@ [status |-> status]

ClaimMsg(sender, withdrawal) ==
  IF withdrawal.status # "claimable" THEN Throws
  ELSE <<[type |-> "claim", sender |-> sender, bridgeId |-> withdrawal.bridgeId,
          outputIndex |-> withdrawal.outputIndex, sequence |-> withdrawal.sequence,
          from |-> withdrawal.from, to |-> withdrawal.to, amount |-> withdrawal.amount,
          proofs |-> [i \in DOMAIN withdrawal.proofs |-> BytesOf(withdrawal.proofs[i])],
          root   |-> BytesOf(withdrawal.root)]>>

\* The page of an address's withdrawals that the executor is asked for.
FetchWithdrawals(executor, address, options) ==
  LET of == SelectSeq(executor, LAMBDA w : w.from = address)
      skipped == Or(options.offset, 0)
  IN SubSeq(of, skipped + 1, Least(skipped + Or(options.limit, Len(of)), Len(of)))

-----------------------------------------------------------------------------
(***************************************************************************)
(* The wallet's bridge: what is sent, by whom and on which chain.          *)
(***************************************************************************)
HasBridge(wallet) == wallet.provider # <<>> /\ wallet.provider[1].transport # <<>>

SentOn(wallet, chainId, msg) ==
  LET context == WalletContext(wallet, chainId, <<>>)
  IN IF Throws \in {msg, context} THEN Throws
     ELSE <<[on |-> context[1].chain, signer |-> context[1].signer, msg |-> msg[1]]>>

\* The L1 of the wallet and its address there.
SenderOnL1(wallet) ==
  LET l1 == IF HasBridge(wallet) THEN FindL1Chain(wallet.provider[1]) ELSE Throws
      sender == WalletAddress(wallet, l1[1].chainId)
  IN IF l1 = Throws \/ sender = Throws THEN Throws
     ELSE <<[chainId |-> l1[1].chainId, sender |-> sender[1]]>>

WalletDeposit(wallet, l2ChainId, amount, o) ==
  LET l1 == SenderOnL1(wallet)
  IN IF l1 = Throws THEN Throws
     ELSE SentOn(wallet, l1[1].chainId,
            DepositMsg(wallet.provider[1],
              [sender |-> l1[1].sender, amount |-> amount, to |-> o.to, bridgeId |-> o.bridgeId,
               toChain |-> IF o.bridgeId # <<>> THEN <<>> ELSE <<l2ChainId>>]))

WalletWithdraw(wallet, l2ChainId, amount, o) ==
  LET sender == IF HasBridge(wallet) THEN WalletAddress(wallet, l2ChainId) ELSE Throws
  IN IF sender = Throws THEN Throws
     ELSE SentOn(wallet, l2ChainId, WithdrawMsg([sender |-> sender[1], amount |-> amount, to |-> o.to]))

WalletClaim(wallet, withdrawal) ==
  LET l1 == SenderOnL1(wallet)
  IN IF l1 = Throws THEN Throws
     ELSE SentOn(wallet, l1[1].chainId, ClaimMsg(l1[1].sender, withdrawal))

WalletWithdrawals(wallet, l2ChainId, executor, options) ==
  LET address == IF HasBridge(wallet) THEN WalletAddress(wallet, l2ChainId) ELSE Throws
  IN IF address = Throws THEN Throws ELSE <<FetchWithdrawals(executor, address[1], options)>>

-----------------------------------------------------------------------------
(***************************************************************************)
(* buildTypedFactory().  A factory has a chain type, a transport and       *)
(* perhaps default chains of networks; its configuration is identified by  *)
(* the network it was built for.  The answer is the context and the        *)
(* provider, which may have got a transport.                               *)
(***************************************************************************)
L1ChainIds == [mainnet |-> "interwoven-1", testnet |-> "initiation-2"]

GetConfig(network) == IF network = <<>> \/ network = <<"">> THEN "default" ELSE network[1]

ContextOf(factory, info) ==
  [chain |-> info, transport |-> factory.transport, msgs |-> GetConfig(<<info.network>>)]

ResolveChainId(factory, network, chainId) ==
  CASE chainId # <<>> -> chainId
    [] chainId = <<>> /\ network # <<>> /\ factory.defaults ->
         IF network[1] \in DOMAIN L1ChainIds THEN <<L1ChainIds[network[1]]>> ELSE Throws
    [] OTHER -> Throws

CreateFromProvider(factory, provider, chainId) ==
  LET info == GetChainInfo(provider, chainId)
      kept == [provider EXCEPT !.transport = <<Or(provider.transport, factory.transport)>>]
  IN IF info = Throws THEN Throws ELSE <<[context |-> ContextOf(factory, info[1]), provider |-> kept]>>

FromChainInfo(factory, info) == <<[context |-> ContextOf(factory, info)]>>

\* registry is a function from networks to the providers of the registry.
FromOptions(factory, registry, o) ==
  LET id == ResolveChainId(factory, o.network, o.chainId)
  IN IF id = Throws \/ (o.provider = <<>> /\ o.network = <<>>) THEN Throws
     ELSE CreateFromProvider(factory, IF o.provider # <<>> THEN o.provider[1]
                                      ELSE registry[o.network[1]], id[1])

-----------------------------------------------------------------------------
(***************************************************************************)
(* The status of a withdrawal, bridge/op-bridge.ts, and what the watchers  *)
(* tell of the bridge's transactions, bridge/watch.ts.                     *)
(*                                                                         *)
(* L1 is a record [proposals, claimed, period, now]: proposals gives the   *)
(* block time of each output it keeps, claimed is the set of the sequences *)
(* and amounts that were paid, period the finalization period and now a    *)
(* time in milliseconds.  A withdrawal is [sequence, amount, outputIndex]; *)
(* outputIndex is 0 until the executor knows its output.                   *)
(***************************************************************************)
CONSTANT WordBits      \* 64 in the code

\* bigintToBeBytes(): higher bits are lost.
BigintToBeBytes(value) == value % 2 ^ WordBits

\* calculateWithdrawalHash(), of what tells the withdrawals of one bridge apart;
\* the hash function (external) is taken to be injective.
WithdrawalHash(w) == <<BigintToBeBytes(w.sequence), BigintToBeBytes(w.amount)>>

\* bridge/utils.ts: of durations and of timestamps.
ToMs(d) == d.seconds * 1000 + d.nanos \div 1000000

ClaimableAt(l1, outputTime) == ToMs(outputTime) + ToMs(l1.period)

IsClaimed(l1, w) == WithdrawalHash(w) \in {WithdrawalHash(c) : c \in l1.claimed}

\* A plausible mistake: the wait is over one tick early.
StatusEarly(l1, w, timestamps, latest) ==
  IF w.outputIndex = 0 \/ w.outputIndex > latest \/ w.outputIndex \notin DOMAIN timestamps
  THEN "pending"
  ELSE IF ClaimableAt(l1, timestamps[w.outputIndex]) > l1.now + 1 THEN "waiting"
  ELSE IF IsClaimed(l1, w) THEN "claimed"
  ELSE "claimable"

\* timestamps are the block times the caller has found, latest the highest output
\* it takes to be proposed.
DetermineWithdrawalStatus(l1, w, timestamps, latest) ==
  IF w.outputIndex = 0 \/ w.outputIndex > latest \/ w.outputIndex \notin DOMAIN timestamps
  THEN "pending"
  ELSE IF ClaimableAt(l1, timestamps[w.outputIndex]) > l1.now THEN "waiting"
  ELSE IF IsClaimed(l1, w) THEN "claimed"
  ELSE "claimable"

\* getWithdrawals(): one page, reversed, for the latest output, then the time of
\* each output once; an output that is not found has no time.
GetWithdrawals(l1, ws) ==
  LET latest == Max({0} \cup DOMAIN l1.proposals)
      asked  == {ws[i].outputIndex : i \in DOMAIN ws} \cap 1 .. latest
      times  == [o \in asked \cap DOMAIN l1.proposals |-> l1.proposals[o]]
  IN [i \in DOMAIN ws |-> DetermineWithdrawalStatus(l1, ws[i], times, latest)]

\* getWithdrawalStatus(): its own output only.
GetWithdrawalStatus(l1, w) ==
  LET found == {w.outputIndex} \cap DOMAIN l1.proposals
      times == [o \in found |-> l1.proposals[o]]
  IN DetermineWithdrawalStatus(l1, w, times, Max({0} \cup found))

-----------------------------------------------------------------------------
(***************************************************************************)
(* watchDeposit() and watchWithdrawal(): the filters they subscribe with   *)
(* and what their callbacks are told.  A transaction is a sequence of      *)
(* events [type, attributes], attributes a sequence of [key, value], value *)
(* <<>> if it has none.  An option that is left out is <<>>.               *)
(***************************************************************************)
HasValue(attributes) == {i \in DOMAIN attributes : attributes[i].key # "" /\ attributes[i].value # <<>>}

\* Of attributes with one key the last counts.
ParseTxEvents(tx, type) ==
  LET Read(as) == [k \in {as[i].key : i \in HasValue(as)} |->
                     as[Max({i \in HasValue(as) : as[i].key = k})].value[1]]
      events == SelectSeq(tx, LAMBDA e : e.type = type)
  IN [n \in DOMAIN events |-> Read(events[n].attributes)]

\* What an event is reported as, the key of its sequence, and the conditions of its filter:
\* a key and the option it has to be.
Statuses ==
  [initiate_token_deposit     |-> "initiated", finalize_token_deposit    |-> "finalized",
   initiate_token_withdrawal  |-> "initiated", finalize_token_withdrawal |-> "claimed",
   propose_output             |-> "proposed"]

SequenceKey(type) ==
  IF type \in {"initiate_token_deposit", "finalize_token_deposit"} THEN "l1_sequence" ELSE "l2_sequence"

BuildFilter(type, o) ==
  LET asked ==
        CASE type = "initiate_token_deposit" ->
               <<<<"bridge_id", o.bridgeId>>, <<"l1_sequence", o.sequence>>,
                 <<"from", o.sender>>, <<"to", o.recipient>>>>
          [] type = "finalize_token_deposit" ->
               <<<<"l1_sequence", o.sequence>>, <<"sender", o.sender>>, <<"recipient", o.recipient>>>>
          [] type = "initiate_token_withdrawal" -> <<<<"l2_sequence", o.sequence>>, <<"from", o.sender>>>>
          [] type = "propose_output" -> <<<<"bridge_id", o.bridgeId>>>>
          [] type = "finalize_token_withdrawal" -> <<<<"bridge_id", o.bridgeId>>, <<"l2_sequence", o.sequence>>>>
  IN SelectSeq(asked, LAMBDA c : c[2] # <<>>)

\* The query of CometBFT: each condition holds of some event of its type.
Subscribed(tx, type, filter) ==
  \A i \in DOMAIN filter :
    \E n \in DOMAIN ParseTxEvents(tx, type) :
      LET e == ParseTxEvents(tx, type)[n]
      IN filter[i][1] \in DOMAIN e /\ e[filter[i][1]] = filter[i][2][1]

Checked(e, type, o) ==
  LET Right(key, value) == key \in DOMAIN e /\ e[key] = value
  IN IF type = "propose_output" THEN Right("bridge_id", o.bridgeId[1])
     ELSE o.sequence = <<>> \/ Right(SequenceKey(type), o.sequence[1])

\* What of an event is told, "0" or "" where it says nothing.
ToldFields ==
  [initiate_token_deposit    |-> {"l1_sequence", "from", "to", "amount", "bridge_id"},
   finalize_token_deposit    |-> {"l1_sequence", "recipient", "amount", "success", "reason"},
   initiate_token_withdrawal |-> {"l2_sequence", "from", "to", "amount"},
   finalize_token_withdrawal |-> {"l2_sequence", "from", "to", "amount"},
   propose_output            |-> {"output_index", "l2_block_number"}]

Reported(e, type) ==
  LET Field(k) == CASE k = "success" -> IF k \in DOMAIN e /\ e[k] = "true" THEN "true" ELSE "false"
                    [] k # "success" /\ k \in DOMAIN e -> e[k]
                    [] OTHER -> IF k \in {"from", "to", "recipient", "reason"} THEN "" ELSE "0"
  IN [status |-> Statuses[type], fields |-> [k \in ToldFields[type] |-> Field(k)]]

WatchedTx(tx, type, o) ==
  LET events == SelectSeq(ParseTxEvents(tx, type), LAMBDA e : Checked(e, type, o))
  IN IF Subscribed(tx, type, BuildFilter(type, o)) THEN [n \in DOMAIN events |-> Reported(events[n], type)]
     ELSE <<>>
=============================================================================
