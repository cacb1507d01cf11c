------------------------------- MODULE Services -------------------------------
(***************************************************************************)
(* VIP (vip/): messages and reads of three Move modules and an indexer;    *)
(* the client of the router (bridge/router-client.ts); and the category    *)
(* of a failed broadcast (errors.ts).                                      *)
(*                                                                         *)
(* An optional field is a sequence of at most one; texts are identities.   *)
(***************************************************************************)
EXTENDS Integers, Sequences, TLC, Amounts, ContractCalls
LOCAL INSTANCE SequencesExt

-----------------------------------------------------------------------------
(***************************************************************************)
(* The functions of the ABIs that VIP calls.                               *)
(***************************************************************************)
U64 == <<"u64">>

Text64 == Std("string", "String")

VectorOf(text) == <<"vector", "<">> \o text \o <<">">>

MetadataObject == Std("object", "Object") \o <<"<">> \o Std("fungible_asset", "Metadata") \o <<">">>

OptionU64 == OptionBase \o <<"<">> \o U64 \o <<">">>

Entry(params) == [entry |-> TRUE, params |-> <<<<"&signer">>>> \o params]

LockStakingAbi ==
  [delegate         |-> Entry(<<MetadataObject, U64, U64, Text64>>),
   undelegate       |-> Entry(<<MetadataObject, OptionU64, U64, Text64>>),
   extend           |-> Entry(<<MetadataObject, OptionU64, U64, Text64, U64>>),
   provide_delegate |-> Entry(<<MetadataObject, U64, U64, OptionU64, U64, Text64>>),
   redelegate       |-> Entry(<<MetadataObject, OptionU64, U64, Text64, U64, Text64>>),
   stableswap_provide_delegate |->
     Entry(<<MetadataObject, VectorOf(U64), OptionU64, U64, Text64>>),
   withdraw_delegator_reward |-> Entry(<<>>)]

WeightVoteAbi ==
  [vote             |-> Entry(<<U64, VectorOf(U64), VectorOf(Std("bigdecimal", "BigDecimal"))>>),
   vote_with_amount |-> Entry(<<U64, VectorOf(U64), VectorOf(U64)>>)]

\* Of the two ABIs of vip the function is the same.
VipAbi ==
  [batch_claim_user_reward_script |->
     Entry(<<U64, U64, VectorOf(U64), VectorOf(VectorOf(VectorOf(<<"u8">>))), VectorOf(U64)>>)]

(***************************************************************************)
(* createVip().  A context is [chainId, address].                          *)
(***************************************************************************)
VipAddresses == [x \in {"interwoven-1", "initiation-2"} |-> x]

VipAddress(context, given) ==
  IF given # <<>> THEN given
  ELSE IF context.chainId \in DOMAIN VipAddresses THEN <<VipAddresses[context.chainId]>> ELSE Throws

VipSender(context, override) == IF override # <<>> THEN override ELSE context.address

ZeroOr(option) == Or(option, [number |-> 0])

\* Of a method and its parameters, the function and its arguments; the messages say
\* Some(0) where an amount is left out.
VipCall(method, p) ==
  LET Each(field) == [array |-> [i \in DOMAIN p.votes |-> p.votes[i][field]]]
  IN CASE method = "delegate" ->
            [fn |-> "delegate", args |-> <<p.metadata, p.amount, p.releaseTime, p.validator>>]
       [] method = "provideAndDelegate" ->
            [fn |-> "provide_delegate",
             args |-> <<p.lpMetadata, p.coinAAmount, p.coinBAmount, ZeroOr(p.minLiquidity),
                        p.releaseTime, p.validator>>]
       [] method = "stableswapProvideAndDelegate" ->
            [fn |-> "stableswap_provide_delegate",
             args |-> <<p.lpMetadata, p.amounts, ZeroOr(p.minLiquidity), p.releaseTime, p.validator>>]
       [] method = "undelegate" ->
            [fn |-> "undelegate",
             args |-> <<p.metadata, ZeroOr(p.amount), p.releaseTime, p.validator>>]
       [] method = "redelegate" ->
            [fn |-> "redelegate",
             args |-> <<p.metadata, ZeroOr(p.amount), p.srcReleaseTime, p.srcValidator,
                        p.dstReleaseTime, p.dstValidator>>]
       [] method = "extendLock" ->
            [fn |-> "extend",
             args |-> <<p.metadata, ZeroOr(p.amount), p.releaseTime, p.validator, p.newReleaseTime>>]
       [] method = "claimStakingRewards" ->
            [fn |-> "withdraw_delegator_reward", args |-> <<>>]
       [] method = "voteGauge" ->
            [fn |-> "vote", args |-> <<p.cycle, Each("bridgeId"), Each("weight")>>]
       [] method = "voteGaugeByAmount" ->
            [fn |-> "vote_with_amount", args |-> <<p.cycle, Each("bridgeId"), Each("amount")>>]
       [] method = "claimRewardsRaw" ->
            [fn |-> "batch_claim_user_reward_script",
             args |-> <<p.bridgeId, p.version, p.stages, p.merkleProofs, p.l2Scores>>]

VipMessage(context, given, method, p) ==
  LET call == VipCall(method, p)
      at   == VipAddress(context, given)
      from == VipSender(context, <<>>)
      said == ProxyExecute((LockStakingAbi @@ WeightVoteAbi @@ VipAbi)[call.fn], <<>>, call.args)
  IN IF Throws \in {at, from, said} THEN Throws
     ELSE <<[at |-> at[1], sender |-> from[1], fn |-> call.fn,
             form |-> said[1].form, args |-> said[1].args]>>

(***************************************************************************)
(* Rewards.  The indexer lists, by bridge, ranges of stages with a proof   *)
(* and a score each.                                                       *)
(***************************************************************************)
GetVestingPositions(entries) ==
  FlattenSeq([i \in DOMAIN entries |-> SelectSeq(entries[i], LAMBDA d : d.reward > 0)])

GetClaimableRewards(entries) ==
  LET positions == GetVestingPositions(entries)
  IN [i \in DOMAIN positions |->
        LET p      == positions[i]
            stages == [k \in 1 .. (p.endStage - p.startStage + 1) |-> p.startStage + k - 1]
        IN [bridgeId |-> p.bridgeId, version |-> p.version, stages |-> stages,
            merkleProofs |-> [k \in DOMAIN stages |-> p.proof],
            l2Scores     |-> [k \in DOMAIN stages |-> p.score]]]

NumbersOf(s) == [array |-> [k \in DOMAIN s |-> [number |-> s[k]]]]

\* A proof is a list of hashes, a hash a list of bytes: here one byte each.
ProofsArg(proofs) ==
  [array |-> [k \in DOMAIN proofs |->
     [array |-> [h \in DOMAIN proofs[k] |-> NumbersOf(<<proofs[k][h]>>)]]]]

ClaimRewards(context, given, rewards) ==
  AllOf([i \in DOMAIN rewards |->
    VipMessage(context, given, "claimRewardsRaw",
      [bridgeId |-> [number |-> rewards[i].bridgeId], version |-> [number |-> rewards[i].version],
       stages   |-> NumbersOf(rewards[i].stages), merkleProofs |-> ProofsArg(rewards[i].merkleProofs),
       l2Scores |-> NumbersOf(rewards[i].l2Scores)])])

(***************************************************************************)
(* Reads.  The node's delegations are [metadata, validator, releaseTime,   *)
(* amount, share]; a share is a decimal, [n, whole].                       *)
(***************************************************************************)
Position(d) ==
  IF ~d.share.whole THEN Throws
  ELSE <<[metadata |-> d.metadata, validator |-> d.validator, shares |-> d.share.n,
          stakedAmount |-> d.amount, releaseTime |-> d.releaseTime]>>

GetPositions(delegations) == AllOf([i \in DOMAIN delegations |-> Position(delegations[i])])

\* <<>> is undefined.
GetPosition(delegations, p) ==
  LET fitting == SelectSeq(delegations,
                   LAMBDA d : /\ d.metadata = p.metadata /\ d.validator = p.validator
                              /\ p.releaseTime # <<>> => d.releaseTime = p.releaseTime[1])
  IN IF fitting = <<>> THEN <<<<>>>>
     ELSE IF Position(fitting[1]) = Throws THEN Throws ELSE <<Position(fitting[1])>>

\* votes is a function from cycles and accounts to the weights of bridges.
GetVoteInfo(currentCycle, votes, cycle, voter) ==
  LET told == votes[<<Or(cycle, currentCycle), voter>>]
  IN IF \E i \in DOMAIN told : ~told[i].weight.whole THEN Throws
     ELSE <<[i \in DOMAIN told |-> [bridgeId |-> told[i].bridgeId, weight |-> told[i].weight.n]]>>

\* The store has seconds, a Date milliseconds.
GetStageInfo(store) ==
  [currentStage |-> store.stage, stageStartTime |-> 1000 * store.start, stageEndTime |-> 1000 * store.end]

-----------------------------------------------------------------------------
(***************************************************************************)
(* The router.  A reply is [ok, body]; a client without a URL throws.      *)
(***************************************************************************)
RouterReply(client, reply) == IF client.routerUrl /\ reply.ok THEN <<reply.body>> ELSE Throws

NormalizeOperation(op) ==
  LET type   == Or(op.type, Or(op.opType, "undefined"))
      denoms == [denomIn |-> Or(op.denomIn, ""), denomOut |-> Or(op.denomOut, "")]
  IN CASE type = "transfer" -> [type |-> type, chainId |-> Or(op.chainId, ""),
                                channel |-> Or(op.channel, "")] @@ denoms
       [] type = "swap"     -> [type |-> type, poolId |-> Or(op.poolId, "")] @@ denoms
       [] OTHER             -> [type |-> type] @@ denoms

NormalizeRouteResponse(raw) ==
  LET operations == Or(raw.operations, <<>>)
  IN [amountIn |-> raw.amountIn, amountOut |-> raw.amountOut,
      operations |-> [i \in DOMAIN operations |-> NormalizeOperation(operations[i])],
      requiresOpHook |-> raw.requiresOpHook, raw |-> raw]

\* The body of the request for messages: from the route as the server wrote it.
MsgsBody(o) ==
  LET raw == o.route.raw
  IN [amountIn |-> raw.amountIn, amountOut |-> raw.amountOut, operations |-> raw.operations,
      addresses |-> o.addresses, slippage |-> Or(o.slippageTolerance, 1),
      signedOpHook |-> o.signedOpHook]

\* A transaction is [chainId, signer, cosmos, evm], cosmos and evm of it with the same
\* two fields; messages are identities of what Message.fromAny() makes of them.
NormalizeTransferTx(tx) ==
  LET Within(option, field) == IF option = <<>> THEN <<>> ELSE option[1][field]
      Named(field) == Or(tx[field], Or(Within(tx.cosmos, field), Or(Within(tx.evm, field), "")))
  IN [chainId |-> Named("chainId"), signerAddress |-> Named("signer"),
      cosmosMsgs |-> IF Within(tx.cosmos, "msgs") = <<>> THEN <<>> ELSE <<tx.cosmos[1].msgs>>,
      evmTx      |-> IF tx.evm = <<>> THEN <<>> ELSE <<tx.evm[1].call>>]

NormalizeTransferTxs(raw) ==
  LET txs == Or(raw.txs, Or(raw.msgs, <<>>))
  IN [i \in DOMAIN txs |-> NormalizeTransferTx(txs[i])]

SignOpHook(hook, signer) == [hook |-> [of |-> signer.key, over |-> FlattenSeq(hook)], signer |-> signer.address]

\* route(), signOpHook() if the route requires it, and buildTransferMsgs().
TransferMsgs(client, o, replies) ==
  LET routed == RouterReply(client, replies.route)
      route  == NormalizeRouteResponse(routed[1])
      hook   == RouterReply(client, replies.opHook)
      signed == IF route.requiresOpHook THEN <<SignOpHook(hook[1], o.signer)>> ELSE <<>>
      built  == RouterReply(client, replies.msgs)
  IN IF routed = Throws \/ (route.requiresOpHook /\ hook = Throws) \/ built = Throws THEN Throws
     ELSE <<[route |-> route, txs |-> NormalizeTransferTxs(built[1]),
             body  |-> MsgsBody([route |-> route, addresses |-> o.addresses, signedOpHook |-> signed,
                                 slippageTolerance |-> o.slippageTolerance])]>>

-----------------------------------------------------------------------------
(***************************************************************************)
(* classifyBroadcastError().  log is the set of the phrases it contains.   *)
(***************************************************************************)
ClassifyBroadcastError(code, log) ==
  IF code \in {5, 13} \/ {"insufficient fund", "insufficient fee"} \cap log # {}
  THEN "insufficient_funds"
  ELSE IF code \in {32, 19} \/ "account sequence mismatch" \in log THEN "sequence_mismatch"
  ELSE IF code = 11 \/ "out of gas" \in log THEN "gas_error"
  ELSE IF code \in {4, 38} \/ {"signature verification", "unauthorized"} \cap log # {}
  THEN "signature_error" ELSE "unknown"
==============================================================================
