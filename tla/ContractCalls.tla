---------------------------- MODULE ContractCalls ----------------------------
(***************************************************************************)
(* What a call of a contract becomes: the messages, queries and requests   *)
(* that contracts/move, contracts/evm and contracts/wasm build, and what   *)
(* the chain does with those that make and change contracts.               *)
(*                                                                         *)
(* A JavaScript value is a record whose one field names its kind: [number],*)
(* [bigint], [bech32], [hex], [bytes], [array], [object], [null],          *)
(* [undefined].                                                            *)
(***************************************************************************)
EXTENDS Integers, Sequences, TLC, Amounts, MoveArguments, Messages
LOCAL INSTANCE SequencesExt
LOCAL INSTANCE FiniteSetsExt

-----------------------------------------------------------------------------
(***************************************************************************)
(* What JSON.stringify() writes, which refuses a bigint: without the keys  *)
(* that have no value, and bytes within a value as an object of numbers.   *)
(***************************************************************************)
RECURSIVE HasBigInt(_)
HasBigInt(arg) ==
  CASE "bigint" \in DOMAIN arg -> TRUE
    [] "array" \in DOMAIN arg -> \E i \in DOMAIN arg.array : HasBigInt(arg.array[i])
    [] "object" \in DOMAIN arg -> \E k \in DOMAIN arg.object : HasBigInt(arg.object[k])
    [] OTHER -> FALSE

RECURSIVE WrittenJson(_)
WrittenJson(arg) ==
  CASE "array" \in DOMAIN arg ->
         [array |-> [i \in DOMAIN arg.array |-> IF "undefined" \in DOMAIN arg.array[i] THEN Null
                                                ELSE WrittenJson(arg.array[i])]]
    [] "object" \in DOMAIN arg ->
         [object |-> [k \in {x \in DOMAIN arg.object : "undefined" \notin DOMAIN arg.object[x]} |->
                        WrittenJson(arg.object[k])]]
    [] "bytes" \in DOMAIN arg -> [indexed |-> arg.bytes]
    [] OTHER -> arg

Stringified(arg) == IF HasBigInt(arg) THEN Throws ELSE <<WrittenJson(arg)>>

\* JSON.parse(), or the text itself where it is no JSON.
DecodeResponse(text) == IF "json" \in DOMAIN text THEN text.json ELSE text

-----------------------------------------------------------------------------
(***************************************************************************)
(* EVM.  An ABI is a sequence of functions [name, inputs], a parameter is  *)
(* [type, components] with components a function from names to parameters. *)
(* The object of a call's options has the key "value", whose value is a    *)
(* [number].                                                               *)
(***************************************************************************)
IsObject(arg) == "object" \in DOMAIN arg

IsArray(arg) == "array" \in DOMAIN arg

MaybeToHex(arg) == IF "bech32" \in DOMAIN arg THEN [hex |-> arg.bech32] ELSE arg

MapArray(Op(_), arg) == [array |-> [i \in DOMAIN arg.array |-> Op(arg.array[i])]]

\* A plausible mistake: the elements of a tuple[] are left as they are.
RECURSIVE ConvertButTuples(_, _)
ConvertButTuples(arg, param) ==
  LET Field(k) == IF k \in DOMAIN param.components
                  THEN ConvertButTuples(arg.object[k], param.components[k])
                  ELSE arg.object[k]
  IN CASE param.type = "address" -> MaybeToHex(arg)
       [] param.type = "address[]" /\ IsArray(arg) -> MapArray(MaybeToHex, arg)
       [] param.type = "tuple" /\ IsObject(arg) ->
            [object |-> [k \in DOMAIN arg.object |-> Field(k)]]
       [] OTHER -> arg

\* An array of a fixed length or of more dimensions is returned as it is.
RECURSIVE ConvertEvmArg(_, _)
ConvertEvmArg(arg, param) ==
  LET Field(k) == IF k \in DOMAIN param.components
                  THEN ConvertEvmArg(arg.object[k], param.components[k])
                  ELSE arg.object[k]
      Element(e) == ConvertEvmArg(e, [param EXCEPT !.type = "tuple"])
  IN CASE param.type = "address" -> MaybeToHex(arg)
       [] param.type = "address[]" /\ IsArray(arg) -> MapArray(MaybeToHex, arg)
       [] param.type = "tuple" /\ IsObject(arg) ->
            [object |-> [k \in DOMAIN arg.object |-> Field(k)]]
       [] param.type = "tuple[]" /\ IsArray(arg) -> MapArray(Element, arg)
       [] OTHER -> arg

\* abi.find(): overloads after the first are not seen.
FunctionsNamed(abi, name) == {i \in DOMAIN abi : abi[i].name = name}

InputsOf(abi, name) ==
  LET named == FunctionsNamed(abi, name)
  IN IF named = {} THEN <<>> ELSE abi[Min(named)].inputs

ConvertEvmArgs(abi, name, args) ==
  LET inputs == InputsOf(abi, name)
  IN [i \in DOMAIN args |->
        IF i \in DOMAIN inputs THEN ConvertEvmArg(args[i], inputs[i]) ELSE args[i]]

\* The coins sent with a call, from an argument beyond those of the function.
ExtractWriteOptions(abi, name, args) ==
  LET last == args[Len(args)]
  IN IF /\ Len(args) > Len(InputsOf(abi, name))
        /\ IsObject(last)
        /\ "value" \in DOMAIN last.object
     THEN [fnArgs |-> SubSeq(args, 1, Len(args) - 1), value |-> last.object["value"].number]
     ELSE [fnArgs |-> args, value |-> 0]

\* What write() and estimateGas() hand to the encoder and send along.
WriteCall(abi, name, args) ==
  LET options == ExtractWriteOptions(abi, name, args)
  IN [args  |-> ConvertEvmArgs(abi, name, options.fnArgs),
      value |-> options.value]

\* A call over gRPC: the sender is the caller's, or nobody for a read.
GrpcCall(sender, address, call) ==
  [sender |-> sender, contract |-> address, args |-> call.args, value |-> call.value]

\* A call over JSON-RPC: no coins are a value left out.
JsonRpcCall(from, address, call) ==
  [from |-> from, to |-> MaybeToHex(address), args |-> call.args,
   value |-> IF call.value = 0 THEN <<>> ELSE <<call.value>>]

Nobody == "nobody"     \* the zero address; also the absent private key

\* The write, estimateGas and read of a contract over the two transports.  A write
\* over JSON-RPC needs a private key, an estimate does without.
EvmCalls(contract, name, args, sender, key) ==
  LET write == WriteCall(contract.abi, name, args)
      read  == [args |-> ConvertEvmArgs(contract.abi, name, args), value |-> 0]
  IN [grpc    |-> [write    |-> GrpcCall(sender, contract.address, write),
                   estimate |-> GrpcCall(sender, contract.address, write),
                   read     |-> GrpcCall(Nobody, contract.address, read)],
      jsonrpc |-> [write    |-> IF key = Nobody THEN Throws
                                ELSE <<JsonRpcCall(key, contract.address, write)>>,
                   estimate |-> JsonRpcCall(key, contract.address, write),
                   read     |-> JsonRpcCall(Nobody, contract.address, read)]]

\* createDeployEvmContractMsg(): a call of no contract with the constructor's arguments.
DeployCall(inputs, args, value) ==
  [contract |-> "", value |-> value,
   args |-> [i \in DOMAIN args |->
               IF i \in DOMAIN inputs THEN ConvertEvmArg(args[i], inputs[i]) ELSE args[i]]]

-----------------------------------------------------------------------------
(***************************************************************************)
(* CosmWasm.  A schema is a record [oneOf, anyOf, properties]; the first   *)
(* two are <<>> if absent and else a sequence of variants [properties,     *)
(* required], the last and the fields of a variant are sequences of names. *)
(* A schema that is absent is the record of three empty sequences; a       *)
(* message is the sequence of its keys.                                    *)
(***************************************************************************)
Absent == [oneOf |-> <<>>, anyOf |-> <<>>, properties |-> <<>>]

(***************************************************************************)
(* schema.ts: the names a schema offers.                                   *)
(***************************************************************************)
GetSchemaVariants(schema) ==
  LET NamesOf(v) == IF v.properties # <<>> THEN v.properties ELSE v.required
  IN IF schema.oneOf # <<>>
     THEN FlattenSeq([i \in DOMAIN schema.oneOf |-> NamesOf(schema.oneOf[i])])
     ELSE IF schema.anyOf # <<>>
     THEN FlattenSeq([i \in DOMAIN schema.anyOf |-> schema.anyOf[i].properties])
     ELSE schema.properties

\* Without names everything is accepted.
Validate(msg, schema) ==
  /\ Len(msg) = 1
  /\ LET variants == GetSchemaVariants(schema)
     IN variants = <<>> \/ msg[1] \in ToSet(variants)

(***************************************************************************)
(* contract.ts: a second function of that name, for the proxies of a       *)
(* contract handle.                                                        *)
(***************************************************************************)
ProxyVariants(schema) ==
  LET variants == IF schema.oneOf # <<>> THEN schema.oneOf ELSE schema.anyOf
  IN {variants[i].required[1] :
        i \in {j \in DOMAIN variants : Len(variants[j].required) = 1}}

\* The message of execute[variant](args) and query[variant](args), if it is built.
ProxyMessage(variant, schema) ==
  IF ProxyVariants(schema) # {} /\ variant \notin ProxyVariants(schema) THEN <<>>
  ELSE <<variant>>

(***************************************************************************)
(* schema.ts: what a schema tells of a variant; the schema of a name is    *)
(* where it stands.  The responses are a set of names, each a sequence of  *)
(* words in snake_case or PascalCase.                                      *)
(***************************************************************************)
GetVariantSchema(schema, variant) ==
  LET Among(kind) == {i \in DOMAIN schema[kind] : variant \in ToSet(schema[kind][i].properties)}
  IN IF Among("oneOf") # {} THEN <<"oneOf", Min(Among("oneOf"))>>
     ELSE IF Among("anyOf") # {} THEN <<"anyOf", Min(Among("anyOf"))>>
     ELSE IF variant \in ToSet(schema.properties) THEN <<"properties">> ELSE <<>>

GetResponseSchema(responses, words) ==
  LET suffixed == Append(words, "response")
      tried    == <<[snake |-> words], [snake |-> suffixed], [pascal |-> suffixed]>>
      found    == SelectSeq(tried, LAMBDA name : name \in responses)
  IN IF found = <<>> THEN <<>> ELSE <<found[1]>>

(***************************************************************************)
(* inferTypeFromSchema(): the tokens of a type.  A schema is [type], whose *)
(* array has items and whose object has properties and required names,     *)
(* [oneOf], [anyOf], [const], [enum], or a record of something else.       *)
(***************************************************************************)
Joined(parts, token) ==
  FoldLeft(LAMBDA text, part : IF text = <<>> THEN part ELSE text \o <<token>> \o part, <<>>, parts)

RECURSIVE InferTypeFromSchema(_)
InferTypeFromSchema(schema) ==
  LET Of(s) == InferTypeFromSchema(s)
      Literals(s) == [i \in DOMAIN s |-> <<s[i]>>]
      Field(p) == <<p[1], IF p[1] \in schema.required THEN ":" ELSE "?:">> \o Of(p[2])
  IN CASE "type" \in DOMAIN schema ->
            CASE schema.type = "integer" -> <<"number">>
              [] schema.type = "array" ->
                   (IF schema.items = <<>> THEN <<"unknown">> ELSE Of(schema.items[1])) \o <<"[]">>
              [] schema.type = "object" ->
                   IF schema.properties = <<>> THEN <<"Record">>
                   ELSE <<"{">> \o Joined([i \in DOMAIN schema.properties |-> Field(schema.properties[i])], ";")
                             \o <<"}">>
              [] OTHER -> <<schema.type>>
       [] "oneOf" \in DOMAIN schema -> Joined([i \in DOMAIN schema.oneOf |-> Of(schema.oneOf[i])], "|")
       [] "anyOf" \in DOMAIN schema -> Joined([i \in DOMAIN schema.anyOf |-> Of(schema.anyOf[i])], "|")
       [] "const" \in DOMAIN schema -> <<schema.const>>
       [] "enum" \in DOMAIN schema -> Joined(Literals(schema.enum), "|")
       [] OTHER -> <<"unknown">>

-----------------------------------------------------------------------------
(***************************************************************************)
(* The life of a CosmWasm contract: the messages contract.ts creates, what *)
(* wasmd does with them, and what the queries tell.  An option left out is *)
(* <<>>; a number is [number], [bigint], [digits] or what is no integer.   *)
(* An account or an address is known by its name, an admin "" is none.     *)
(***************************************************************************)
BigIntOfNumeric(n) ==
  IF DOMAIN n \subseteq {"number", "bigint", "digits"} THEN <<n[CHOOSE k \in DOMAIN n : TRUE]>>
  ELSE Throws

ToProtoCoins(amount) == AllOf([i \in DOMAIN amount |-> ToProtoCoin(amount[i])])

\* create() of a message of some type from parts, any of which may throw.
CreateMsg(type, sender, parts) ==
  LET made == AllOf(parts)
  IN IF made = Throws THEN Throws ELSE <<[type |-> type, sender |-> sender] @@ made[1]>>

CreateStoreCodeMsg(o) ==
  CreateMsg("store", o.sender, [code |-> <<o.wasmByteCode>>, permission |-> <<o.instantiatePermission>>])

InstantiateParts(o) ==
  [admin |-> <<Or(o.admin, "")>>, codeId |-> BigIntOfNumeric(o.codeId),
   msg |-> Stringified(o.msg), funds |-> ToProtoCoins(o.funds)]

CreateInstantiateMsg(o) == CreateMsg("instantiate", o.sender, InstantiateParts(o))

CreateInstantiate2Msg(o) ==
  CreateMsg("instantiate2", o.sender,
            InstantiateParts(o) @@ [salt |-> <<o.salt>>, fixMsg |-> <<Or(o.fixMsg, FALSE)>>])

CreateWasmExecuteMsg(sender, contract, msg, funds) ==
  CreateMsg("execute", sender,
            [contract |-> <<contract>>, msg |-> Stringified(msg), funds |-> ToProtoCoins(funds)])

\* execute[variant](sender, args, funds) of a handle whose schema allows it.
ExecuteVariant(sender, contract, variant, args, funds) ==
  CreateWasmExecuteMsg(sender, contract,
    [object |-> variant :> Or(args, [object |-> [k \in {} |-> Null]])], funds)

CreateMigrateMsg(o) ==
  CreateMsg("migrate", o.sender,
            [contract |-> <<o.contract>>, codeId |-> BigIntOfNumeric(o.codeId), msg |-> Stringified(o.msg)])

CreateUpdateAdminMsg(o) ==
  CreateMsg("updateAdmin", o.sender, [contract |-> <<o.contract>>, newAdmin |-> <<o.newAdmin>>])

CreateClearAdminMsg(o) == CreateMsg("clearAdmin", o.sender, [contract |-> <<o.contract>>])

(***************************************************************************)
(* wasmd: the codes, each with the accounts that may instantiate it if not *)
(* all may, and the contracts at their addresses.                          *)
(***************************************************************************)
EmptyWasm == [codes |-> <<>>, contracts |-> [x \in {} |-> 0]]

AddressFor(chain, m) ==
  IF m.type = "instantiate" THEN [nth |-> Cardinality(DOMAIN chain.contracts)]
  ELSE [code |-> chain.codes[m.codeId].code, creator |-> m.sender, salt |-> m.salt,
        msg |-> IF m.fixMsg THEN <<m.msg>> ELSE <<>>]

WasmAccepts(chain, m) ==
  LET known == m.codeId \in DOMAIN chain.codes
      there == m.contract \in DOMAIN chain.contracts
      rules == there /\ chain.contracts[m.contract].admin = m.sender
  IN CASE m.type = "store" -> TRUE
       [] m.type \in {"instantiate", "instantiate2"} ->
            /\ known
            /\ m.sender \in Or(chain.codes[m.codeId].permission, {m.sender})
            /\ AddressFor(chain, m) \notin DOMAIN chain.contracts
       [] m.type = "execute" -> there
       [] m.type = "migrate" -> rules /\ known
       [] m.type \in {"updateAdmin", "clearAdmin"} -> rules

WasmDoes(chain, m) ==
  CASE m.type = "store" ->
         [chain EXCEPT !.codes = Append(@, [code |-> m.code, permission |-> m.permission])]
    [] m.type \in {"instantiate", "instantiate2"} ->
         [chain EXCEPT !.contracts =
            (AddressFor(chain, m) :> [admin |-> m.admin, history |-> <<m.codeId>>,
                                      got |-> <<<<m.msg, m.funds>>>>]) @@ @]
    [] m.type = "execute" ->
         [chain EXCEPT !.contracts[m.contract].got = Append(@, <<m.msg, m.funds>>)]
    [] m.type = "migrate" ->
         [chain EXCEPT !.contracts[m.contract].history = Append(@, m.codeId),
                       !.contracts[m.contract].got = Append(@, <<m.msg, <<>>>>)]
    [] m.type = "updateAdmin" -> [chain EXCEPT !.contracts[m.contract].admin = m.newAdmin]
    [] m.type = "clearAdmin" -> [chain EXCEPT !.contracts[m.contract].admin = ""]

(***************************************************************************)
(* The queries of a context.                                               *)
(***************************************************************************)
GetContractInfo(chain, contract) ==
  IF contract \notin DOMAIN chain.contracts THEN Throws
  ELSE LET c == chain.contracts[contract] IN <<[codeId |-> c.history[Len(c.history)], admin |-> c.admin]>>

GetContractHistory(chain, contract) == chain.contracts[contract].history

GetCodeInfo(chain, numeric) ==
  LET id == BigIntOfNumeric(numeric)
  IN IF id = Throws \/ (id # Throws /\ id[1] \notin DOMAIN chain.codes) THEN Throws
     ELSE <<chain.codes[id[1]]>>

GetContractsByCode(chain, numeric) ==
  LET id == BigIntOfNumeric(numeric)
  IN IF id = Throws THEN Throws
     ELSE <<{a \in DOMAIN chain.contracts : GetContractInfo(chain, a)[1].codeId = id[1]}>>

\* A query is answered by the contract: answers maps what it may be asked to texts.
QueryContract(answers, msg) ==
  LET asked == Stringified(msg)
  IN IF asked = Throws \/ (asked # Throws /\ asked[1] \notin DOMAIN answers) THEN Throws
     ELSE <<DecodeResponse(answers[asked[1]])>>

\* A contract handle's address is bech32.
CreateWasmContract(address) == IF "bech32" \in DOMAIN address THEN <<address>> ELSE Throws

(***************************************************************************)
(* Messages one after the other.  A step is [call, o]; the contract of a   *)
(* step is that of the step o.of, or nowhere.                              *)
(***************************************************************************)
Nowhere == [nth |-> -1]

MessageOf(call, o, contract) ==
  LET at == [contract |-> contract] @@ o
  IN CASE call = "store"        -> CreateStoreCodeMsg(o)
       [] call = "instantiate"  -> CreateInstantiateMsg(o)
       [] call = "instantiate2" -> CreateInstantiate2Msg(o)
       [] call = "execute"      -> CreateWasmExecuteMsg(o.sender, contract, o.msg, o.funds)
       [] call = "variant"      -> ExecuteVariant(o.sender, contract, o.variant, o.args, o.funds)
       [] call = "migrate"      -> CreateMigrateMsg(at)
       [] call = "updateAdmin"  -> CreateUpdateAdminMsg(at)
       [] call = "clearAdmin"   -> CreateClearAdminMsg(at)

WasmStep(run, step) ==
  LET contract == IF "of" \in DOMAIN step.o THEN run.told[step.o.of].contract ELSE Nowhere
      msg == MessageOf(step.call, step.o, contract)
      ok  == msg # Throws /\ WasmAccepts(run.chain, msg[1])
      made == ok /\ msg[1].type \in {"instantiate", "instantiate2"}
  IN [chain |-> IF ok THEN WasmDoes(run.chain, msg[1]) ELSE run.chain,
      told  |-> Append(run.told, [built |-> msg # Throws, ok |-> ok,
                  contract |-> IF made THEN AddressFor(run.chain, msg[1]) ELSE contract])]

RunWasm(steps) == FoldLeft(WasmStep, [chain |-> EmptyWasm, told |-> <<>>], steps)

-----------------------------------------------------------------------------
(***************************************************************************)
(* Move.  A function is [entry, view, params, return] with the texts of    *)
(* types; a message is [form, args], its form bcs or json.  What cannot be *)
(* built is Throws, what can is a sequence of one.                         *)
(***************************************************************************)
IsAddressLikeType(text) ==
  text = <<"address">> \/ (Len(text) >= 5 /\ SubSeq(text, 1, 5) \in Objects)

\* Addresses within vectors and options are left as they are.
ConvertArgToJson(arg, text) ==
  Stringified(IF IsAddressLikeType(text) THEN MaybeToHex(arg) ELSE arg)

JsonArgs(args, texts) ==
  AllOf([i \in DOMAIN args |->
           IF i \in DOMAIN texts THEN ConvertArgToJson(args[i], texts[i])
           ELSE Stringified(args[i])])

\* The value the codec of a type writes: an account, a number, or a sequence, which
\* for an option has one element or none.
RECURSIVE EncodeMoveArg(_, _)
EncodeMoveArg(arg, type) ==
  CASE type.base = OptionBase ->
         [sequence |-> IF arg = Null THEN <<>> ELSE <<EncodeMoveArg(arg, type.typeArgs[1])>>]
    [] type.base = <<"vector">> ->
         [sequence |-> [i \in DOMAIN arg.array |-> EncodeMoveArg(arg.array[i], type.typeArgs[1])]]
    [] type.base \in Objects \cup {<<"address">>} ->
         [account |-> IF "bech32" \in DOMAIN arg THEN arg.bech32 ELSE arg.hex]
    [] OTHER -> [number |-> IF "bigint" \in DOMAIN arg THEN arg.bigint ELSE arg.number]

EncodeMoveArgs(args, texts) ==
  IF Len(args) # Len(texts) THEN Throws
  ELSE <<[i \in DOMAIN args |-> EncodeMoveArg(args[i], ParseMoveType(texts[i]))]>>

Formed(form, args) == IF args = Throws THEN Throws ELSE <<[form |-> form, args |-> args[1]]>>

GetNonSignerParams(fn) ==
  SelectSeq(fn.params, LAMBDA p : p \notin {<<"&signer">>, <<"signer">>})

ResolveGenericTypes(texts, typeArgs) ==
  [i \in DOMAIN texts |-> ResolveGenericType(texts[i], typeArgs)]

ExecuteMessage(texts, args) ==
  IF \A i \in DOMAIN texts : UsesBcs(texts[i])
  THEN Formed("bcs", EncodeMoveArgs(args, texts))
  ELSE Formed("json", JsonArgs(args, texts))

\* execute[name]() of a contract handle.
ProxyExecute(fn, typeArgs, args) ==
  IF ~fn.entry THEN Throws
  ELSE ExecuteMessage(ResolveGenericTypes(GetNonSignerParams(fn), typeArgs), args)

\* buildMoveExecute() with paramTypes.
BuildMoveExecute(paramTypes, typeArgs, args) ==
  ExecuteMessage(ResolveGenericTypes(paramTypes, typeArgs), args)

\* buildMoveExecute() without paramTypes, createExecuteMsg().
PlainExecute(args) == Formed("json", JsonArgs(args, <<>>))

\* What view[name]() asks the node.
ProxyView(fn, typeArgs, args) ==
  IF ~fn.view THEN Throws
  ELSE Formed("json", JsonArgs(args, ResolveGenericTypes(GetNonSignerParams(fn), typeArgs)))

BuildMoveView(paramTypes, typeArgs, args) ==
  Formed("json", JsonArgs(args, ResolveGenericTypes(paramTypes, typeArgs)))

\* The result of a view with these return types, from the JSON of the node: an array
\* if there are several.
ConvertViewResponse(json, types) ==
  CASE Len(types) = 0 -> json
    [] Len(types) = 1 -> ConvertJsonValue(json, types[1])
    [] Len(types) > 1 /\ "array" \in DOMAIN json ->
         [array |-> [i \in DOMAIN json.array |->
            IF i \in DOMAIN types THEN ConvertJsonValue(json.array[i], types[i])
            ELSE json.array[i]]]
    [] OTHER -> json

\* view[name]() after the answer: converted if all types are known, else as it came.
ViewResult(fn, typeArgs, json) ==
  LET returned == ResolveGenericTypes(fn.return, typeArgs)
  IN IF \A i \in DOMAIN returned : UsesBcs(returned[i])
     THEN ConvertViewResponse(json, [i \in DOMAIN returned |-> ParseMoveType(returned[i])])
     ELSE json
-----------------------------------------------------------------------------
(***************************************************************************)
(* Move modules, scripts and state.  A function is the sequence of what is *)
(* between "::", a name the sequence of the kinds of its characters; texts *)
(* of the node are [json] or [raw].                                        *)
(***************************************************************************)
ParseMoveFunction(parts) ==
  IF Len(parts) # 3 THEN Throws
  ELSE <<[moduleAddress |-> parts[1], moduleName |-> parts[2], functionName |-> parts[3]]>>

ValidModuleAddress(address) == DOMAIN address \subseteq {"hex", "bech32"}

ValidModuleName(chars) ==
  /\ chars # <<>> /\ chars[1] \in {"letter", "_"}
  /\ ToSet(chars) \subseteq {"letter", "_", "digit"}

\* The target of a handle: what createMoveContract() takes.
CreateMoveContract(address, chars) ==
  IF ValidModuleAddress(address) /\ ValidModuleName(chars) THEN <<[address |-> address, name |-> chars]>>
  ELSE Throws

CreatePublishMsg(o) ==
  [sender |-> o.sender, modules |-> o.codeBytes, policy |-> Or(o.upgradePolicy, "compatible")]

\* The publishing of the chain: a module that is not immutable may be published anew.
Publish(modules, m) ==
  LET names == {<<m.sender, m.modules[i].name>> : i \in DOMAIN m.modules}
  IN IF \/ m.policy = "unspecified"
        \/ \E n \in names \cap DOMAIN modules : modules[n].policy = "immutable"
     THEN [modules |-> modules, ok |-> FALSE]
     ELSE [modules |-> [n \in names |-> [policy |-> m.policy,
                          code |-> {m.modules[i].code : i \in {j \in DOMAIN m.modules :
                                                                  m.modules[j].name = n[2]}}]] @@ modules,
           ok |-> TRUE]

PublishAll(options) ==
  FoldLeft(LAMBDA run, o :
             LET p == Publish(run.modules, CreatePublishMsg(o))
             IN [modules |-> p.modules, ok |-> Append(run.ok, p.ok)],
           [modules |-> [x \in {} |-> 0], ok |-> <<>>], options)

\* An argument of createScriptMsg(): bytes become an array of numbers.
ScriptArg(arg) ==
  IF "bytes" \in DOMAIN arg THEN <<[array |-> [i \in DOMAIN arg.bytes |-> [number |-> arg.bytes[i]]]]>>
  ELSE Stringified(arg)

CreateScriptMsg(args) == AllOf([i \in DOMAIN Or(args, <<>>) |-> ScriptArg(args[1][i])])

CreateBcsScriptMsg(args) == Or(args, <<>>)

\* What callViewFunction() asks, and what it makes of the answer.
CallViewFunction(args, answer) ==
  LET asked == JsonArgs(args, <<>>)
  IN [asked |-> asked, told |-> IF asked = Throws THEN Throws ELSE <<DecodeResponse(answer)>>]

\* resource() and tableEntry() of a handle, queryResource() and queryTableEntry(); the
\* key of an entry is the bytes of a value of a type.
AccountAt(address) == IF "hex" \in DOMAIN address THEN address.hex ELSE address.bech32

QueryResource(resources, address, structTag) ==
  LET at == <<AccountAt(address), structTag>>
  IN IF at \in DOMAIN resources THEN <<DecodeResponse(resources[at])>> ELSE Throws

TableKey(key, keyType) == EncodeMoveArgs(<<key>>, <<keyType>>)[1][1]

QueryTableEntry(table, key, keyType) ==
  LET bytes == TableKey(key, keyType)
  IN IF bytes \in DOMAIN table THEN <<DecodeResponse(table[bytes])>> ELSE Throws
-----------------------------------------------------------------------------
(***************************************************************************)
(* The messages of a transaction as getTx() tells them, with the enrichers *)
(* for EVM and Wasm.  An ABI is a function from the selectors it has to    *)
(* the names of the parameters, "" for one without; a key is an address    *)
(* [of, case].  A message is [kind, to, case, data, broken], broken if     *)
(* decode() refuses it; the data of a call are [form, selector, words],    *)
(* those of a contract's message a JSON text or not.  The enricher reads   *)
(* form "bytes"; contracts/evm writes a hexadecimal text, of which         *)
(* bytesToHex() makes something no selector is like.                       *)
(***************************************************************************)
\* createAbiRegistry(), and the keys of options.abis: addresses without case.
AbiRegistry(entries) ==
  FoldLeft(LAMBDA map, e : (e.key.of :> e.abi) @@ map, [x \in {} |-> 0], entries)

AbiOf(registry, of) == IF of \in DOMAIN registry THEN <<registry[of]>> ELSE <<>>

Raw == [functionName |-> <<>>, args |-> <<>>, namedArgs |-> <<>>, contractMsg |-> <<>>, error |-> ""]

\* decodeFunctionData() refuses a selector it does not know and data that are too short;
\* of a function without parameters there are no arguments.
EnrichCall(m, abi) ==
  LET d     == m.data[1]
      known == abi # <<>> /\ d.form = "bytes" /\ d.selector \in DOMAIN abi[1]
  IN  IF abi = <<>>
        THEN <<[Raw EXCEPT !.functionName = <<[hex |-> IF d.form = "bytes" THEN d.selector ELSE "?"]>>]>>
      ELSE IF ~known \/ Len(d.words) < Len(abi[1][d.selector]) THEN Throws
      ELSE LET names == abi[1][d.selector]
               args  == SubSeq(d.words, 1, Len(names))
               named == Len(names) > 0 /\ \A i \in DOMAIN names : names[i] # ""
           IN <<[Raw EXCEPT !.functionName = <<[name |-> d.selector]>>,
                            !.args = IF names = <<>> THEN <<>> ELSE <<args>>,
                            !.namedArgs = IF ~named THEN <<>>
                              ELSE <<[n \in {names[i] : i \in DOMAIN names} |->
                                        args[CHOOSE i \in DOMAIN names : names[i] = n]]>>]>>

EnrichWasm(m) ==
  IF "json" \in DOMAIN m.data[1] THEN <<[Raw EXCEPT !.contractMsg = <<m.data[1].json>>]>> ELSE Throws

\* The first enricher that takes the kind of the message; nothing is made of empty data.
Enrich(m, registry, oneTime) ==
  IF m.data = <<>> \/ m.kind \in {"create", "other"} THEN <<Raw>>
  ELSE IF m.kind = "wasm" THEN EnrichWasm(m)
  ELSE LET once == AbiOf(oneTime, m.to)
       IN EnrichCall(m, IF once # <<>> THEN once ELSE AbiOf(registry, m.to))

\* A failure of one message, which decodeArgs may make a failure of the transaction.
Failed(kind, mode) == IF mode = "strict" THEN Throws ELSE <<[Raw EXCEPT !.error = kind]>>

ReadMessage(m, mode, registry, oneTime) ==
  IF m.broken THEN Failed("decodeError", mode)
  ELSE IF mode = "none" THEN <<Raw>>
  ELSE LET enriched == Enrich(m, registry, oneTime)
       IN IF enriched = Throws THEN Failed("enrichError", mode) ELSE enriched

ReadTx(messages, mode, registered, abis) ==
  AllOf([i \in DOMAIN messages |->
           ReadMessage(messages[i], mode, AbiRegistry(registered), AbiRegistry(abis))])
==============================================================================
