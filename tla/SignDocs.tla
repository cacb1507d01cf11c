------------------------------- MODULE SignDocs ------------------------------
(***************************************************************************)
(* What is signed: the canonical JSON of tx/amino.ts and tx/sign.ts, and   *)
(* the typed data of signer/bridges/eip-hash.ts.                           *)
(*                                                                         *)
(* A JSON value is a record whose one field names its kind: [scalar],      *)
(* [array] or [object], the last the sequence of its <<key, value>> in the *)
(* order in which JavaScript enumerates them.                              *)
(*                                                                         *)
(* A value of a protobuf message is such a record too: [text], [int],      *)
(* [bytes] (with json, what they spell, if that is JSON), [list],          *)
(* [message], the sequence of its <<field, value>>, or [unset].            *)
(***************************************************************************)
EXTENDS Integers, Sequences, TLC, Amounts
LOCAL INSTANCE SequencesExt
LOCAL INSTANCE FiniteSetsExt
LOCAL INSTANCE FiniteSets
LOCAL F == INSTANCE Functions

CONSTANTS
  Rank,          \* the place of each key in the order of sort()
  IndexKeys,     \* of each key that is an array index, its number
  SnakeCase,     \* camelToSnake() of each name of a field
  Word           \* how many numbers a word of 32 bytes holds

\* JavaScript enumerates index keys first, by number, and then the others in the
\* order of their insertion.
Enumerated(fields) ==
  LET Index(f) == IndexKeys[f[1]]
      indices  == SelectSeq(fields, LAMBDA f : f[1] \in DOMAIN IndexKeys)
  IN SortSeq(indices, LAMBDA f, g : Index(f) < Index(g))
       \o SelectSeq(fields, LAMBDA f : f[1] \notin DOMAIN IndexKeys)

SortedFields(fields) == SortSeq(fields, LAMBDA f, g : Rank[f[1]] < Rank[g[1]])

RECURSIVE SortObject(_)
SortObject(json) ==
  CASE "scalar" \in DOMAIN json -> json
    [] "array" \in DOMAIN json ->
         [array |-> [i \in DOMAIN json.array |-> SortObject(json.array[i])]]
    [] "object" \in DOMAIN json ->
         LET fields == SortedFields(json.object)
         IN [object |-> Enumerated([i \in DOMAIN fields |->
                          <<fields[i][1], SortObject(fields[i][2])>>])]

MakeStdSignDoc(msgs, fee, chainId, memo, accountNumber, sequence) ==
  [object |-> << <<"account_number", [scalar |-> ToString(accountNumber)]>>,
                 <<"chain_id", [scalar |-> chainId]>>,
                 <<"fee", fee>>,
                 <<"memo", [scalar |-> memo]>>,
                 <<"msgs", [array |-> msgs]>>,
                 <<"sequence", [scalar |-> ToString(sequence)]>> >>]

\* Two texts are equal if and only if the values are, with the order of the keys.
MakeAminoSignBytes(doc) == SortObject(doc)

-----------------------------------------------------------------------------
(* A message in Amino JSON. *)

Undefined == <<>>

JsonNull == [scalar |-> "null"]

RECURSIVE ValueToAmino(_, _, _), ObjectToAmino(_, _)

\* The sequence of the JSON value, or Undefined; base64 is some text for the bytes.
ValueToAmino(value, includeEmpty, encoding) ==
  CASE "unset" \in DOMAIN value -> Undefined
    [] "bytes" \in DOMAIN value /\ encoding = "inline_json" ->
         IF value.bytes = <<>> THEN Undefined ELSE <<value.json>>
    [] "bytes" \in DOMAIN value /\ encoding # "inline_json" ->
         <<[scalar |-> ToString(value.bytes)]>>
    [] "list" \in DOMAIN value ->
         IF value.list # <<>>
         THEN <<[array |-> [i \in DOMAIN value.list |->
                              ValueToAmino(value.list[i], includeEmpty, "")[1]]]>>
         ELSE IF includeEmpty /\ encoding # "legacy_coins" THEN <<[array |-> <<>>]>>
         ELSE <<JsonNull>>
    [] "int" \in DOMAIN value -> <<[scalar |-> ToString(value.int)]>>
    [] "message" \in DOMAIN value -> <<ObjectToAmino(value.message, includeEmpty)>>
    [] "text" \in DOMAIN value -> <<[scalar |-> value.text]>>

\* The options of the fields of a message within a message are not looked at.
ObjectToAmino(fields, includeEmpty) ==
  [object |-> FlattenSeq([i \in DOMAIN fields |->
     LET json == ValueToAmino(fields[i][2], includeEmpty, "")
     IN IF json = Undefined THEN <<>> ELSE << <<SnakeCase[fields[i][1]], json[1]>> >>])]

(***************************************************************************)
(* toAmino(): a schema is [type, amino, fields], amino its Amino name or   *)
(* "", a field [name, aminoName, dontOmit, encoding]; msg is the function  *)
(* from the names of the fields to their values.                           *)
(***************************************************************************)
AminoFieldName(field) == IF field.aminoName # "" THEN field.aminoName ELSE SnakeCase[field.name]

ToAmino(schema, msg) ==
  LET Entry(field) ==
        LET json == ValueToAmino(msg[field.name], field.dontOmit, field.encoding)
        IN IF json = Undefined THEN <<>> ELSE << <<AminoFieldName(field), json[1]>> >>
      value == [object |-> FlattenSeq([i \in DOMAIN schema.fields |-> Entry(schema.fields[i])])]
  IN IF schema.amino = "" THEN Throws
     ELSE <<[object |-> << <<"type", [scalar |-> schema.amino]>>, <<"value", value>> >>]>>

-----------------------------------------------------------------------------
(***************************************************************************)
(* Typed data: hashEIP712TypedData().  A type is [base, dims], dims the    *)
(* sequence of what is between its brackets, "" or a number; types gives   *)
(* for each struct the sequence of its fields [name, type].  A JavaScript  *)
(* value is a record whose one field names its kind: [int] (also the text  *)
(* of one), [text], [hex] (its digits), [bool], [array], [object] or       *)
(* [absent].                                                               *)
(*                                                                         *)
(* Bytes are the sequence of their hexadecimal digits; a keccak256 hash    *)
(* (external, taken to be injective) is one element that stands for a word.*)
(***************************************************************************)
Keccak(content) == <<[keccak |-> content]>>

Plain(base) == [base |-> base, dims |-> <<>>]

DomainFields ==
  << <<"name", "string">>, <<"version", "string">>, <<"chainId", "uint256">>,
     <<"verifyingContract", "address">>, <<"salt", "bytes32">> >>

BuildDomainType(domain) ==
  LET given == SelectSeq(DomainFields, LAMBDA f : f[1] \in DOMAIN domain)
  IN [i \in DOMAIN given |-> [name |-> given[i][1], type |-> Plain(given[i][2])]]

\* The structs reached from a type through fields with at most so many brackets.
StructsWithin(type, types, brackets) ==
  LET Fields(found) == UNION {F!Range(types[t]) : t \in found}
      Named(found) == {f.type.base : f \in {g \in Fields(found) : Len(g.type.dims) <= brackets}}
      deps[n \in Nat] == IF n = 0 THEN {type}
                         ELSE deps[n - 1] \cup (Named(deps[n - 1]) \cap DOMAIN types)
  IN deps[Cardinality(DOMAIN types)]

\* A plausible mistake: a struct that is only in arrays is not looked for.
DepsOutsideArrays(type, types) == StructsWithin(type, types, 0)

\* Only the last pair of brackets is taken off before a type is looked up.
FindTypeDeps(type, types) == StructsWithin(type, types, 1)

\* The text that is hashed is as good as the sequence of the structs it spells.
EncodeType(type, types) ==
  LET sorted == <<type>> \o SetToSortSeq(FindTypeDeps(type, types) \ {type},
                                         LAMBDA t, u : Rank[t] < Rank[u])
  IN [i \in DOMAIN sorted |-> <<sorted[i], types[sorted[i]]>>]

\* Where nothing is given, the text is empty.
HashedText(value) ==
  Keccak(IF "absent" \in DOMAIN value THEN [text |-> ""] ELSE value)

\* hexToBytes() refuses an odd number of digits.
HexBytes(digits) == IF Len(digits) % 2 = 1 THEN Throws ELSE <<digits>>

\* BigInt(): an array is taken for the text of its elements.
RECURSIVE ToBigInt(_)
ToBigInt(value) ==
  CASE "int" \in DOMAIN value -> <<value.int>>
    [] "array" \in DOMAIN value /\ value.array = <<>> -> <<0>>
    [] "array" \in DOMAIN value /\ Len(value.array) = 1 -> ToBigInt(value.array[1])
    [] OTHER -> Throws

\* From Word to 16 * Word - 1 the number of digits is odd; larger numbers are not built.
UintWord(n) == IF n \in 0 .. Word - 1 THEN <<<<[uint |-> n]>>>> ELSE Throws

\* The names of the types that begin with "uint", "int" or "bytes", with or without an
\* array of a fixed length behind.
EncodeAtomicValue(type, value) ==
  LET exact == type.dims = <<>>
      hex == IF "hex" \in DOMAIN value THEN HexBytes(value.hex) ELSE Throws
  IN CASE exact /\ type.base = "address" ->
            IF "hex" \notin DOMAIN value \/ Len(value.hex) > 40 THEN Throws
            ELSE <<<<[address |-> PadStart(value.hex, 40)]>>>>
       [] exact /\ type.base = "bool" ->
            <<<<[uint |-> IF \/ "absent" \in DOMAIN value
                             \/ ("bool" \in DOMAIN value /\ ~value.bool)
                          THEN 0 ELSE 1]>>>>
       [] exact /\ type.base = "string" -> <<HashedText(value)>>
       [] exact /\ type.base = "bytes" ->
            IF hex = Throws THEN Throws ELSE <<Keccak([bytes |-> hex[1]])>>
       [] type.base \in {"bytes4", "bytes32"} \/ (~exact /\ type.base = "bytes") ->
            IF hex = Throws THEN Throws
            ELSE IF Len(hex[1]) > 64 THEN Throws
            ELSE <<<<[left |-> PadEnd(hex[1], 64)]>>>>
       [] type.base \in {"uint8", "uint256"} ->
            LET n == ToBigInt(value)
            IN IF n = Throws THEN Throws ELSE UintWord(n[1])
       [] type.base \in {"int8", "int256"} ->
            LET n == ToBigInt(value)
            IN IF n = Throws THEN Throws
               ELSE UintWord(IF n[1] < 0 THEN Word + n[1] ELSE n[1])
       [] OTHER -> Throws

RECURSIVE EncodeValue(_, _, _), HashStruct(_, _, _)

EncodeValue(type, value, types) ==
  LET dims == type.dims
      inner == [type EXCEPT !.dims = SubSeq(dims, 1, Len(dims) - 1)]
  IN CASE dims # <<>> /\ Last(dims) = "" ->
            IF "array" \notin DOMAIN value THEN Throws
            ELSE LET encoded == AllOf([i \in DOMAIN value.array |->
                                         EncodeValue(inner, value.array[i], types)])
                 IN IF encoded = Throws THEN Throws
                    ELSE <<Keccak([words |-> FlattenSeq(encoded[1])])>>
       [] dims = <<>> /\ type.base \in DOMAIN types -> HashStruct(type.base, value, types)
       [] OTHER -> EncodeAtomicValue(type, value)

\* With encodeData(): a field the value does not have is undefined.
HashStruct(primaryType, value, types) ==
  LET fields == types[primaryType]
      Field(name) == IF "object" \in DOMAIN value /\ name \in DOMAIN value.object
                     THEN value.object[name] ELSE [absent |-> TRUE]
      chunks == AllOf([i \in DOMAIN fields |->
                         EncodeValue(fields[i].type, Field(fields[i].name), types)])
  IN IF chunks = Throws \/ ("absent" \in DOMAIN value /\ fields # <<>>) THEN Throws
     ELSE <<Keccak([typeHash |-> Keccak(EncodeType(primaryType, types)),
                    data     |-> FlattenSeq(chunks[1])])>>

\* Types that come with a type of the domain keep theirs.
HashTypedData(data) ==
  LET types == data.types @@ [EIP712Domain |-> BuildDomainType(data.domain)]
      domain == HashStruct("EIP712Domain", [object |-> data.domain], types)
      message == HashStruct(data.primaryType, data.message, types)
  IN IF domain = Throws \/ message = Throws THEN Throws
     ELSE <<Keccak([domain |-> domain[1], message |-> message[1]])>>

-----------------------------------------------------------------------------
(***************************************************************************)
(* A transaction of a wallet (wallet/wallet.ts, tx/sign.ts), one of a chain*)
(* context (wallet/chain-context.ts), and one that a key sends over        *)
(* JSON-RPC (tx/evm.ts).                                                   *)
(*                                                                         *)
(* An option that is left out is <<>>, one that is given <<value>>.  A     *)
(* message is [schema, value, raw]; raw if it came as an Any, of which the *)
(* library knows no schema.                                                *)
(***************************************************************************)
DefaultGasLimit == 200000

CreateTxBody(o) ==
  [messages      |-> [i \in DOMAIN o.msgs |-> [type  |-> o.msgs[i].schema.type,
                                              value |-> o.msgs[i].value]],
   memo          |-> Or(o.memo, ""),
   timeoutHeight |-> Or(o.timeoutHeight, 0)]

CreateAuthInfo(key, o, s) ==
  [publicKey |-> [type |-> IF key.isEth THEN "ethsecp256k1" ELSE "secp256k1", of |-> key.name],
   mode      |-> IF o.signMode = "direct" THEN "DIRECT" ELSE "LEGACY_AMINO_JSON",
   sequence  |-> s.sequence,
   fee       |-> Or(o.fee, <<>>),
   gasLimit  |-> Or(o.gasLimit, DefaultGasLimit)]

MakeSignBytes(body, authInfo, s) ==
  [body |-> body, authInfo |-> authInfo, chainId |-> s.chainId,
   accountNumber |-> s.accountNumber]

StdFee(o) ==
  LET coins == Or(o.fee, <<>>)
      Json(c) == [object |-> << <<"denom", [scalar |-> c.denom]>>,
                                <<"amount", [scalar |-> ToString(c.amount)]>> >>]
  IN [object |-> << <<"amount", [array |-> [i \in DOMAIN coins |-> Json(coins[i])]]>>,
                    <<"gas", [scalar |-> ToString(Or(o.gasLimit, DefaultGasLimit))]>> >>]

AminoMessages(msgs) ==
  AllOf([i \in DOMAIN msgs |-> IF msgs[i].raw THEN Throws
                               ELSE ToAmino(msgs[i].schema, msgs[i].value)])

AminoSignBytes(o, s) ==
  LET msgs == AminoMessages(o.msgs)
  IN IF msgs = Throws THEN Throws
     ELSE <<MakeAminoSignBytes(MakeStdSignDoc(msgs[1], StdFee(o), s.chainId,
                                              Or(o.memo, ""), s.accountNumber, s.sequence))>>

\* Two signatures are equal if and only if the key, the hash and the bytes are.
SignatureOf(key, hash, bytes) == [by |-> key.name, hash |-> hash, over |-> bytes]

\* sign(): for amino and eip191 from the options again, not from the bytes of the
\* transaction.  key.sign() hashes with SHA-256, of an Ethereum key too.
Signed(key, body, authInfo, o, s) ==
  LET amino == AminoSignBytes(o, s)
  IN CASE o.signMode = "direct" ->
            <<SignatureOf(key, "sha256", MakeSignBytes(body, authInfo, s))>>
       [] o.signMode = "amino" /\ amino # Throws ->
            <<SignatureOf(key, "sha256", amino[1])>>
       [] o.signMode = "eip191" /\ amino # Throws ->
            <<SignatureOf(key, "keccak", [ethereumSignedMessage |-> amino[1]])>>
       [] OTHER -> Throws

\* The transaction, or Throws.
CreateAndSignTx(key, o, s) ==
  LET body      == CreateTxBody(o)
      authInfo  == CreateAuthInfo(key, o, s)
      signature == Signed(key, body, authInfo, o, s)
  IN IF signature = Throws THEN Throws
     ELSE <<[body |-> body, authInfo |-> authInfo, signatures |-> signature]>>

-----------------------------------------------------------------------------
(***************************************************************************)
(* createTx() and sign() of a chain context.  A signer is                  *)
(* [name, isEth, direct, amino, personal, changes]: which of the three     *)
(* ways of signing it has, and what it changes in a document that it is    *)
(* asked to sign, as the types of its answers allow: the fee, the limit of *)
(* gas or the memo.                                                        *)
(***************************************************************************)
DefaultSignMode(signer) == IF signer.amino /\ ~signer.direct THEN "amino" ELSE "direct"

CreateUnsignedTx(o, s, signer) ==
  [msgs |-> o.msgs, memo |-> Or(o.memo, ""), fee |-> Or(o.fee, <<>>),
   gasLimit |-> Or(o.gasLimit, DefaultGasLimit), chainId |-> s.chainId,
   accountNumber |-> s.accountNumber, sequence |-> s.sequence,
   signMode |-> IF o.signMode = "" THEN DefaultSignMode(signer) ELSE o.signMode]

\* The options that say what an unsigned transaction says.
OptionsOf(tx) ==
  [msgs |-> tx.msgs, memo |-> <<tx.memo>>, timeoutHeight |-> <<>>, fee |-> <<tx.fee>>,
   gasLimit |-> <<tx.gasLimit>>, signMode |-> tx.signMode]

EncodeTxDirect(tx, signer) ==
  [body     |-> CreateTxBody(OptionsOf(tx)),
   authInfo |-> [CreateAuthInfo(signer, OptionsOf(tx), tx) EXCEPT
                   !.mode = IF tx.signMode = "eip191" THEN "EIP_191" ELSE @]]

\* The document as the signer has signed it.
Changed(tx, changes) ==
  [tx EXCEPT !.fee = Or(changes.fee, @), !.gasLimit = Or(changes.gasLimit, @),
             !.memo = Or(changes.memo, @)]

\* A signer hashes as its algorithm has it.
HashOf(signer) == IF signer.isEth THEN "keccak" ELSE "sha256"

SignedTx(encoded, signature) ==
  <<[body |-> encoded.body, authInfo |-> encoded.authInfo, signatures |-> <<signature>>]>>

\* What is sent is what the signer answers.
SignDirect(tx, signer) ==
  LET signed == EncodeTxDirect(Changed(tx, signer.changes), signer)
  IN SignedTx(signed, SignatureOf(signer, HashOf(signer),
                                  MakeSignBytes(signed.body, signed.authInfo, tx)))

\* A plausible mistake: the transaction is encoded as it was before it was signed.
SignAminoUnread(tx, signer) ==
  LET signed == Changed(tx, signer.changes)
      bytes  == AminoSignBytes(OptionsOf(signed), tx)
  IN IF bytes = Throws THEN Throws
     ELSE SignedTx(EncodeTxDirect(tx, signer), SignatureOf(signer, HashOf(signer), bytes[1]))

\* The messages are the ones asked for, the rest is what the signer answers.
SignWithAmino(tx, signer) ==
  LET signed == Changed(tx, signer.changes)
      bytes  == AminoSignBytes(OptionsOf(signed), tx)
  IN IF bytes = Throws THEN Throws
     ELSE SignedTx(EncodeTxDirect(signed, signer), SignatureOf(signer, HashOf(signer), bytes[1]))

SignWithEIP191(tx, signer) ==
  LET bytes == AminoSignBytes(OptionsOf(tx), tx)
  IN IF bytes = Throws THEN Throws
     ELSE SignedTx(EncodeTxDirect(tx, signer),
            SignatureOf(signer, "keccak", [ethereumSignedMessage |-> bytes[1]]))

CreateAndSign(signer, o, s) ==
  LET tx == CreateUnsignedTx(o, s, signer)
  IN CASE tx.signMode = "direct" /\ signer.direct   -> SignDirect(tx, signer)
       [] tx.signMode = "amino"  /\ signer.amino    -> SignWithAmino(tx, signer)
       [] tx.signMode = "eip191" /\ signer.personal -> SignWithEIP191(tx, signer)
       [] OTHER -> Throws

-----------------------------------------------------------------------------
(***************************************************************************)
(* sendEvmTx(): node is what the node answers to its three questions and   *)
(* the estimate.  viem (external) refuses a tip above the fee cap.         *)
(***************************************************************************)
SendEvmTx(o, node) ==
  LET cap == Or(o.maxFeePerGas, node.gasPrice * 2)
      tip == Or(o.maxPriorityFeePerGas, node.gasPrice \div 10)
  IN IF cap > 0 /\ tip > cap THEN Throws
     ELSE <<[nonce |-> node.nonce, chainId |-> node.chainId, value |-> Or(o.value, 0),
             cap |-> cap, tip |-> tip, gas |-> Or(o.gasLimit, node.estimate)]>>

(***************************************************************************)
(* The loop of sendEvmTxAndWait(): a poll that begins at now sees the      *)
(* receipt if it is there by then (minedAt), and fails from brokenAt on.   *)
(* run is [interval, timeout, latency, minedAt, brokenAt, reverted].       *)
(***************************************************************************)
RECURSIVE PollFrom(_, _)
PollFrom(now, run) ==
  CASE now >= run.timeout -> [outcome |-> "timeout", at |-> now]
    [] now < run.timeout /\ now >= run.brokenAt ->
         [outcome |-> "rejected", at |-> now + run.latency]
    [] now < run.timeout /\ now < run.brokenAt /\ now >= run.minedAt ->
         [outcome |-> IF run.reverted THEN "reverted" ELSE "success", at |-> now + run.latency]
    [] OTHER -> PollFrom(now + run.latency + run.interval, run)

\* sendEvmTxAndWait().
SendEvmTxAndWait(o, node, run) ==
  LET tx == SendEvmTx(o, node)
  IN IF tx = Throws THEN [sent |-> Throws] ELSE [sent |-> tx, end |-> PollFrom(0, run)]
=============================================================================
