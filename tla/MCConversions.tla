---------------------------- MODULE MCConversions ----------------------------
(***************************************************************************)
(* The requests TLC asks of Conversions.                                   *)
(***************************************************************************)
EXTENDS Conversions, TLC

UpTo(S, n) == UNION {[1 .. k -> S] : k \in 0 .. n}

Text(neg, int, frac) == [neg |-> neg, int |-> int, frac |-> frac]

Texts == {Text(neg, int, frac) : neg \in BOOLEAN, int \in {<<0>>, <<5>>, <<1, 2>>},
                                 frac \in {<<>>, <<5>>, <<0, 5>>, <<2, 5>>, <<1, 0, 4>>}}
           \ {Text(TRUE, <<0>>, <<>>)}

FormatRequests ==
  [op : {"format"}, value : {-105, -100, -7, 0, 5, 10, 70, 100, 105, 999, 1050},
   decimals : 0 .. 3, options : [max : 0 .. 4, min : 0 .. 3, trim : BOOLEAN]]

ConvertRequests == [op : {"convert"}, text : Texts, diff : -3 .. 3]

DecimalRequests ==
  {[op |-> "decimal", text |-> t, scale |-> 3] : t \in {x \in Texts : ~x.neg}}

Fractions == {[num |-> n, den |-> d] : n \in {1, 3, 13}, d \in {1, 3, 10, 200}}

FeeRequests ==
  [op : {"fee"}, used : {0, 1, 7, 100, 1234}, multiplier : {[num |-> 1, den |-> 1],
   [num |-> 13, den |-> 10], [num |-> 4, den |-> 3]}, price : Fractions, precision : {100}]

CoinsRequests ==
  [op : {"coins"}, coins : UpTo([denom : {"a", "b"}, amount : {1, 3}], 3),
   fee : UpTo([denom : {"a", "b", "c"}, amount : {1, 2}], 2)]

CoinCallRequests ==
  LET amounts == {[digits |-> 2], [bigint |-> -1], [number |-> 5], [unsafe |-> 9],
                  [fraction |-> "1/2"]}
      steps   == [call : {"add", "sub"}, coin : [denom : {"a"}, amount : {0, 3}]]
                   \cup {[call |-> "add", coin |-> [denom |-> "b", amount |-> 1]]}
                   \cup [call : {"mul"}, by : {[number |-> -2], [unsafe |-> 9], [fraction |-> "1/2"]}]
  IN [op : {"coinCalls"}, a : amounts, b : amounts, steps : UpTo(steps, 2)]

ParseCoinRequests ==
  [op : {"parseCoin"},
   chars : UpTo({[digit |-> 0], [digit |-> 7], [letter |-> "u"], [mark |-> "/"], [mark |-> "-"], [mark |-> " "]}, 4)]

BridgeTxRequests ==
  LET Attr(k, v) == [key |-> k, value |-> <<v>>]
      Event(type, as) == [type |-> type, attributes |-> as]
      deposits == {Event(t, <<Attr("l1_sequence", s), Attr("bridge_id", b), Attr("from", f), Attr("sender", f), Attr("to", "r"),
                              Attr("recipient", "r"), Attr("success", s)>>) :
                     t \in {"initiate_token_deposit", "finalize_token_deposit"},
                     s \in {"1", "2"}, b \in {"1", "2"}, f \in {"x", "y"}}
      withdrawals == {Event(t, <<Attr("l2_sequence", s), Attr("bridge_id", b), Attr("from", f), Attr("to", "r")>>) :
                     t \in {"initiate_token_withdrawal", "finalize_token_withdrawal", "propose_output"},
                     s \in {"1", "2"}, b \in {"1", "2"}, f \in {"x", "y"}}
      Odd(t) == {Event(t, <<>>), Event(t, <<[key |-> "l1_sequence", value |-> <<>>], [key |-> "", value |-> <<"1">>],
                                            Attr("success", "true")>>),
                 Event(t, <<Attr("l1_sequence", "1"), Attr("bridge_id", "2"), Attr("l1_sequence", "2"),
                            Attr("success", "true"), Attr("bridge_id", "1")>>)}
      Of(events, ts) == {e \in events : e.type \in ts}
      Txs(events) == UpTo(events, 2)
      options == [sequence : {<<>>, <<"1">>}, sender : {<<>>, <<"x">>}, recipient : {<<>>, <<"r">>}, bridgeId : {<<"1">>}]
  IN UNION {[op : {"bridgeTx"}, type : {t}, options : options,
             tx : Txs(Of(deposits \cup withdrawals, {t}) \cup Odd(t)) \cup Txs(Odd("other") \cup Odd(t))] :
              t \in DOMAIN Statuses}

\* z zeros before k other digits, no more than an address has.
AddressRequests ==
  {[op |-> "address", digits |-> [i \in 1 .. (zk[1] + zk[2]) |-> IF i <= zk[1] THEN 0 ELSE 7]] :
     zk \in {p \in {0, 1, 2, 23, 24, 25, 30} \X {0, 1, 2, 34, 39, 40, 41, 62, 63, 64} :
               p[1] + p[2] <= LongDigits}}

Attribute(k, v) == [key |-> k, value |-> v]

SomeEvents ==
  {[type |-> t, attributes |-> as] :
     t \in {"wasm", "wasm-mint"},
     as \in {<<Attribute("_contract_address", "0xA"), Attribute("action", "mint"),
               Attribute("k", "1")>>,
             <<Attribute("_contract_address", "0xa"), Attribute("_action", "burn"),
               Attribute("k", "1"), Attribute("k", "2")>>,
             <<Attribute("k", "2"), Attribute("k", "1")>>}}
  \cup {[type |-> "move", attributes |-> as] :
     as \in {<<Attribute("type_tag", "0xa::m::E"), Attribute("k", "1")>>,
             <<Attribute("k", "1")>>, <<>>}}

EventRequests ==
  [op : {"events"},
   tx : [height : {1, 2}, events : UpTo(SomeEvents, 2)],
   type : {"wasm", "move"},
   wanted : {<<>>, [k |-> "1"], [k |-> "2"], [action |-> "mint", k |-> "1"]},
   key : {"k"}, address : {"0xA"}, module : {"m"}, fromHeight : {0, 2}]

MCWasmTypes == {"wasm", "wasm-mint"}
MCUnderscored == {"_contract_address", "_action"}
MCTags == [x \in {"0xa::m::E"} |-> [address |-> "0xa", module |-> "m"]]
MCLowerCase ==
  [x \in {"", "0xa", "authorization", "x-api-key", "content-type", "x-extra",
          "x-cosmos-block-height"} |-> x]
    @@ ("0xA" :> "0xa") @@ ("Authorization" :> "authorization") @@ ("X-Api-Key" :> "x-api-key")
    @@ ("Content-Type" :> "content-type") @@ ("X-Extra" :> "x-extra")

Generic(base, args) == [base |-> base, typeArgs |-> args]

Leaves == {Leaf(<<"u8">>), Leaf(<<"u64">>), Leaf(<<"T0">>), Leaf(<<"T1">>),
           Leaf(Std("string", "String")), Leaf(Std("coin", "Coin"))}

Nested(S) ==
  {Generic(b, <<x>>) : b \in {<<"vector">>, OptionBase, Std("object", "Object")}, x \in S}

Pairs(S) == {Generic(Std("simple_map", "SimpleMap"), <<x, y>>) : x \in S, y \in S}

Types == Leaves \cup Nested(Leaves) \cup Nested(Nested(Leaves)) \cup Pairs(Leaves)
           \cup Nested(Pairs(Leaves)) \cup Pairs({Leaf(<<"T0">>)} \cup Pairs({Leaf(<<"T1">>)}))

TypeRequests ==
  [op : {"moveType"}, type : Types,
   typeArgs : UpTo({Leaf(<<"u8">>), Generic(<<"vector">>, <<Leaf(<<"u64">>)>>),
                    Leaf(Std("coin", "Coin"))}, 2)]

ValueTypes ==
  LET base  == {Leaf(<<"u16">>), Leaf(<<"u64">>)}
      Of(S) == {Generic(b, <<x>>) : b \in {<<"vector">>, OptionBase}, x \in S}
  IN base \cup Of(base) \cup Of(Of(base))

RECURSIVE ValuesOf(_)
ValuesOf(type) ==
  CASE type.base = <<"vector">> -> UpTo(ValuesOf(type.typeArgs[1]), 2)
    [] type.base = OptionBase -> UpTo(ValuesOf(type.typeArgs[1]), 1)
    [] OTHER -> {0, 3}

ValueRequests ==
  UNION {[op : {"moveValue"}, type : {t}, value : ValuesOf(t), vecForm : BOOLEAN] :
           t \in ValueTypes}

\* A view with several results.
ViewRequests ==
  UNION {[op : {"moveView"}, types : {<<s, t>>}, vecForm : BOOLEAN,
          values : {<<x, y>> : x \in ValuesOf(s), y \in ValuesOf(t)}] :
           s \in {Leaf(<<"u16">>), Leaf(<<"u64">>)},
           t \in {Leaf(<<"u64">>), Generic(OptionBase, <<Leaf(<<"u64">>)>>),
                  Generic(<<"vector">>, <<Leaf(<<"u64">>)>>)}}

\* The parameters of Move functions, with two writings of an argument of each type.
MoveParams ==
  {<<"address">>, Printed(Generic(Std("object", "Object"), <<Leaf(<<"T0">>)>>)), <<"u64">>,
   <<"T0">>, Printed(Generic(<<"vector">>, <<Leaf(<<"address">>)>>)),
   Printed(Generic(OptionBase, <<Leaf(<<"u64">>)>>))}

Writings(param) ==
  LET accounts == {[bech32 |-> "a"], [hex |-> "a"]}
      numbers  == {[number |-> 7], [bigint |-> 7]}
  IN CASE param[1] = "vector" -> {[array |-> <<x, [hex |-> "b"]>>] : x \in accounts}
       [] IsAddressLikeType(param) -> accounts
       [] param[1] = "0x1" /\ ~IsAddressLikeType(param) -> {Null}
       [] OTHER -> numbers

CallsOf(params) ==
  LET written == [i \in DOMAIN params |-> Writings(params[i])]
      all     == {as \in [DOMAIN params -> UNION {written[i] : i \in DOMAIN params}] :
                    \A i \in DOMAIN params : as[i] \in written[i]}
  IN {<<as, bs>> : as \in all, bs \in all}
       \cup {<<Append(as, [number |-> 1]), Append(as, [number |-> 1])>> : as \in all}

MoveCallRequests ==
  UNION {{[op |-> "moveCall", typeArgs |-> targs, args |-> c[1], other |-> c[2],
           fn |-> [entry |-> kind = "entry", view |-> kind = "view",
                   params |-> <<<<"&signer">>>> \o params, return |-> <<>>]] :
            c \in CallsOf(params)} :
           params \in UpTo(MoveParams, 2), kind \in {"entry", "view"},
           targs \in {<<>>, <<<<"u64">>>>, <<Std("coin", "Coin")>>}}

Param(type) == [type |-> type, components |-> <<>>]

Order(type) == [type |-> type,
                components |-> [to |-> Param("address"), value |-> Param("uint256")]]

Abi == <<[name |-> "f", inputs |-> <<Param("address"), Order("tuple")>>],
         [name |-> "g", inputs |-> <<Param("address[]"), Order("tuple[]")>>],
         [name |-> "h", inputs |-> <<>>],
         [name |-> "h", inputs |-> <<Order("tuple")>>]>>

AddressValues == {[bech32 |-> "x"], [hex |-> "x"]}

OrderValues == {[object |-> [to |-> a, value |-> [number |-> 7]]] : a \in AddressValues}

ArgumentsOf(name) ==
  CASE name = "f" -> {<<a, o>> : a \in AddressValues, o \in OrderValues}
    [] name = "g" -> {<<[array |-> as], [array |-> os]>> :
                        as \in UpTo(AddressValues, 2), os \in UpTo(OrderValues, 2)}
    [] name = "h" -> {<<>>} \cup {<<o>> : o \in OrderValues}

Deployed == [abi : {Abi}, address : {[bech32 |-> "c"], [hex |-> "c"]}]

Keys == {"alice", Nobody}

EvmRequests ==
  UNION {[op : {"evm"}, name : {n}, sent : {0}, args : ArgumentsOf(n),
          contract : Deployed, key : Keys] \cup
         [op : {"evm"}, name : {n}, sent : {5}, contract : Deployed, key : Keys,
          args : {Append(as, [object |-> [value |-> [number |-> 5]]]) :
                    as \in ArgumentsOf(n)}] : n \in {"f", "g", "h"}}

Variant(name) == [properties |-> <<name>>, required |-> <<name>>]

Variants == {<<>>, <<Variant("mint")>>, <<Variant("mint"), Variant("burn")>>,
             <<[properties |-> <<>>, required |-> <<>>], Variant("burn")>>}

WasmRequests ==
  [op : {"wasm"}, variant : {"mint", "burn", "none"},
   schema : [oneOf : Variants, anyOf : Variants, properties : {<<>>, <<"mint">>}]]

Scalars == {[scalar |-> "x"], [scalar |-> "y"]}

Objects2(keys, S) ==
  {[object |-> Enumerated(<< <<p[1], x>>, <<p[2], y>> >>)] :
     p \in {q \in keys \X keys : q[1] # q[2]}, x \in S, y \in S}

Inner == Objects2({"a", "b"}, {[scalar |-> "x"]})

Messages ==
  Objects2({"a", "b", "9", "10"}, {[scalar |-> "x"]}) \cup Objects2({"a", "b"}, Scalars)
    \cup Objects2({"a", "b"}, Inner \cup {[array |-> <<x>>] : x \in Inner})

SignRequests ==
  [op : {"sign"}, one : Messages, other : Messages, fee : {[object |-> <<>>]},
   sequence : {4}]

\* Two messages: one with a list, a number and bytes that hold JSON, one with a message
\* within, and one without a name in Amino.
Field(name, dontOmit, encoding) ==
  [name |-> name, aminoName |-> "", dontOmit |-> dontOmit, encoding |-> encoding]

Contract == [type |-> "Execute", amino |-> "wasm/Execute",
             fields |-> <<[Field("callMsg", FALSE, "inline_json") EXCEPT !.aminoName = "msg"],
                          Field("funds", TRUE, "legacy_coins")>>]
Transfer == [type |-> "Transfer", amino |-> "Transfer",
             fields |-> <<Field("token", TRUE, ""), Field("timeoutAt", FALSE, ""),
                          Field("funds", TRUE, "")>>]
Nameless == [Transfer EXCEPT !.type = "Nameless", !.amino = ""]

Spelled(fields) == [bytes |-> fields, json |-> [object |-> fields]]

TwoKeys == {<< <<"a", [scalar |-> "x"]>>, <<"b", [scalar |-> "x"]>> >>,
            << <<"b", [scalar |-> "x"]>>, <<"a", [scalar |-> "x"]>> >>,
            << <<"a", [scalar |-> "y"]>>, <<"b", [scalar |-> "x"]>> >>}

OneCoin == [message |-> << <<"denom", [text |-> "d"]>>, <<"amount", [text |-> "1"]>> >>]

FundsGiven == {[list |-> <<>>], [list |-> <<OneCoin>>]}

TxMessages ==
  [schema : {Contract}, raw : {FALSE},
   value : [callMsg : {Spelled(k) : k \in TwoKeys} \cup {[bytes |-> <<>>]}, funds : FundsGiven]]
  \cup [schema : {Transfer}, raw : {FALSE},
        value : [token : {[unset |-> TRUE], OneCoin}, timeoutAt : {[int |-> 0]},
                 funds : FundsGiven]]
  \cup [schema : {Transfer, Nameless}, raw : {TRUE, FALSE},
        value : [token : {OneCoin}, timeoutAt : {[int |-> 5]}, funds : {[list |-> <<>>]}]]

DefaultOptions == [msgs |-> <<>>, memo |-> <<>>, timeoutHeight |-> <<>>, fee |-> <<>>,
                   gasLimit |-> <<>>, signMode |-> "direct"]

Fees == {<<>>, <<<<>>>>, <<<<[denom |-> "d", amount |-> 1]>>>>,
         <<<<[denom |-> "d", amount |-> 2]>>>>}

OptionsAsked ==
  [msgs : {<<>>}, memo : {<<>>, <<"">>, <<"x">>}, timeoutHeight : {<<>>, <<0>>, <<7>>},
   fee : Fees, gasLimit : {<<>>, <<200000>>, <<5>>}, signMode : {"direct"}]

MCSigner(sequence) == [chainId |-> "c", accountNumber |-> 1, sequence |-> sequence]

\* The same messages with any two sets of options, and any two messages with the same.
SignTxRequests ==
  LET With(o, mode, msgs) == [o EXCEPT !.signMode = mode, !.msgs = msgs]
      Varied == {o \in OptionsAsked : \/ o.timeoutHeight = <<>> /\ o.fee = <<>>
                                      \/ o.memo = <<>> /\ o.gasLimit = <<>>}
      Modes == {"direct", "amino", "eip191"}
  IN {[op |-> "signTx", key |-> [name |-> "k", isEth |-> eth], one |-> With(o, mode, <<m>>),
       other |-> With(p, otherMode, <<m>>), signer |-> MCSigner(1), otherSigner |-> MCSigner(q)] :
        o \in Varied, p \in Varied, mode \in Modes, otherMode \in Modes, eth \in {FALSE},
        q \in {1, 2}, m \in {x \in TxMessages : x.schema = Contract /\ x.value.callMsg.bytes = <<>>}}
     \cup
     {[op |-> "signTx", key |-> [name |-> "k", isEth |-> TRUE],
       one |-> With(DefaultOptions, mode, <<m>>), other |-> With(DefaultOptions, mode, msgs),
       signer |-> MCSigner(1), otherSigner |-> MCSigner(1)] :
        mode \in Modes, m \in TxMessages,
        msgs \in {<<x>> : x \in TxMessages} \cup {<<x, x>> : x \in TxMessages}}

\* Signers of every ability, which change nothing or something of a document.
Signers ==
  [name : {"k"}, isEth : BOOLEAN, direct : BOOLEAN, amino : BOOLEAN, personal : BOOLEAN,
   changes : [fee : {<<>>, <<<<[denom |-> "d", amount |-> 2]>>>>}, gasLimit : {<<>>, <<5>>},
              memo : {<<>>, <<"y">>}]]

ContextTxRequests ==
  {[op |-> "contextTx", signer |-> signer, account |-> MCSigner(3),
    options |-> [DefaultOptions EXCEPT !.msgs = msgs, !.signMode = mode, !.memo = memo,
                                       !.fee = fee]] :
     signer \in Signers, mode \in {"", "direct", "amino", "eip191"}, memo \in {<<>>, <<"x">>},
     fee \in {<<>>, <<<<[denom |-> "d", amount |-> 1]>>>>},
     msgs \in {<<m>> : m \in {x \in TxMessages :
                  x.schema # Contract \/ x.value.callMsg.bytes = << <<"b", [scalar |-> "x"]>>,
                                                                <<"a", [scalar |-> "x"]>> >>}}}

MCSnakeCase == [x \in {"callMsg", "funds", "token", "timeoutAt", "denom", "amount"} |->
                  CASE x = "callMsg" -> "call_msg" [] x = "timeoutAt" -> "timeout_at" [] OTHER -> x]

Typed(card, type) == [card |-> card, type |-> type]

MCSchemas ==
  [x \in {"Inner", "Outer"} |->
     [name |-> x,
      fields |-> IF x = "Inner" THEN [n |-> Typed("one", "bigint"), ns |-> Typed("list", "bigint")]
                 ELSE [fee    |-> Typed("list", "coin"),   one    |-> Typed("one", "coin"),
                       data   |-> Typed("one", "bytes"),   datas  |-> Typed("map", "bytes"),
                       msgs   |-> Typed("list", "any"),    msgMap |-> Typed("map", "any"),
                       since  |-> Typed("one", "timestamp"),
                       inner  |-> Typed("one", "Inner"),   inners |-> Typed("map", "Inner"),
                       memo   |-> Typed("one", "text"),    counts |-> Typed("map", "bigint")]]]

CoinsWritten == {[coin |-> [denom |-> d, amount |-> a]] :
                   d \in {"", "d"}, a \in {[number |-> 5], [number |-> 10], [text |-> 10],
                                          [text |-> -1]}}

WrittenPlainly ==
  CoinsWritten \cup {[null |-> TRUE], [hex |-> "ab"], [bytes |-> "ab"], [number |-> 3],
                     [bigint |-> 3], [fraction |-> "1/2"], [text |-> "t"], [message |-> "m"],
                     [any |-> "m"], [date |-> "t"], [timestamp |-> "t"]}

WrittenOnce ==
  WrittenPlainly
    \cup {[object |-> [n |-> v]] : v \in {[number |-> 3], [fraction |-> "1/2"], [null |-> TRUE]}}
    \cup {[object |-> [ns |-> v]] : v \in {[array |-> <<[number |-> 3], [bigint |-> 4]>>],
                                          [number |-> 3]}}
    \cup {[object |-> [unknown |-> [number |-> 3]]]}

Written == WrittenOnce \cup {[array |-> s] : s \in UpTo(WrittenOnce, 2)}
             \cup {[object |-> [k |-> v]] : v \in WrittenOnce}
             \cup {[object |-> [k |-> v, n |-> w]] : v \in WrittenOnce, w \in WrittenOnce}

InitRequests ==
  {[op |-> "init", schema |-> "Outer", init |-> [object |-> [x \in {f} |-> v]]] :
     f \in DOMAIN MCSchemas["Outer"].fields \cup {"unknown"}, v \in Written}
  \cup {[op |-> "init", schema |-> "Outer",
         init |-> [object |-> [data |-> v, inner |-> w]]] : v \in WrittenOnce, w \in WrittenOnce}

CarryRequests ==
  LET values == {[x \in {} |-> 0], [memo |-> [text |-> "t"]]}
      anys   == [url : [prefix : {"/", "x/", ""}, name : {"Inner", "Outer"}] \cup {[other |-> TRUE]},
                 value : [bytes : values] \cup {[garbage |-> TRUE], [other |-> TRUE]}]
      inputs == [message : [schema : {"Inner", "Outer"}, value : values, amino : {"", "a"}]]
                  \cup [any : anys] \cup {[text |-> "t"]}
      ways   == [as : {"Inner", "Outer"}] \cup {[decode |-> TRUE], [wrap |-> TRUE]}
  IN [op : {"carry"}, input : inputs, ways : UpTo(ways, 3), known : SUBSET {"Inner", "Outer"}]

DefaultRequests ==
  LET written == {[null |-> TRUE], [text |-> "t"], [text |-> "u"], [fraction |-> "1/2"]}
      coins   == {[null |-> TRUE], [coin |-> [denom |-> "d", amount |-> [number |-> 5]]], [text |-> "t"]}
      inits   == [memo : written] \cup [fee : coins] \cup [memo : written, fee : coins] \cup {<<>>}
  IN [op : {"defaults"}, schema : {"Outer"}, defaults : inits, init : inits]

Modules ==
  [network : {"", "main", "test"}, name : {"gov", "ibc"}, query : BOOLEAN,
   tx : {<<>>, <<[vote |-> "v1.Vote"]>>, <<[vote |-> "v2.Vote"]>>,
         <<[open |-> "Open", update |-> "A"], [update |-> "B"]>>}]

ConfigRequests ==
  {[op |-> "config", program |-> s] :
     s \in UpTo({m \in Modules : m.query => m.tx = <<>> \/ m.network = ""}, 2)}
  \cup {[op |-> "config", program |-> <<a, b, c>>] :
         a \in {m \in Modules : m.network = "" /\ m.query},
         b \in {m \in Modules : m.network = "main" /\ ~m.query},
         c \in {m \in Modules : m.network = "test" /\ ~m.query}}

EvmTxRequests ==
  [op : {"evmTx"},
   options : [maxFeePerGas : {<<>>, <<0>>, <<5>>}, maxPriorityFeePerGas : {<<>>, <<1>>, <<9>>},
              value : {<<>>}, gasLimit : {<<>>}],
   node : [nonce : {0}, chainId : {1}, gasPrice : {1, 100}, estimate : {21}],
   run : [interval : {2}, timeout : {0, 6, 7}, latency : {0, 1}, minedAt : 0 .. 8,
          brokenAt : {1, 3, 9}, reverted : BOOLEAN]]

FieldOfType(name, base, dims) == [name |-> name, type |-> [base |-> base, dims |-> dims]]

Persons == {<<FieldOfType("name", "string", <<>>), FieldOfType("wallet", "address", <<>>)>>,
            <<FieldOfType("name", "string", <<>>), FieldOfType("purse", "address", <<>>)>>}

\* Mails whose persons are in an array, in a field, in an array in an array, and none.
Mails == {<<FieldOfType("to", "Person", dims)>> : dims \in {<<"">>, <<>>, <<"", "">>}}
           \cup {<<FieldOfType("to", base, dims)>> :
                   base \in {"uint256", "int8", "bytes4"}, dims \in {<<>>, <<"1">>, <<"">>}}
           \cup {<<FieldOfType("to", "bool", <<>>), FieldOfType("text", "bytes", <<>>)>>,
                 <<FieldOfType("to", "Group", <<"">>)>>}

MailTypes == {[Mail |-> mail, Person |-> p, Group |-> <<FieldOfType("all", "Person", <<"">>)>>] :
                mail \in Mails, p \in Persons}

SomePerson == [object |-> [name |-> [text |-> "a"], wallet |-> [hex |-> <<1, 2>>],
                           purse |-> [hex |-> <<0, 1, 2>>]]]
NoName == [object |-> [wallet |-> [hex |-> <<1, 2>>], purse |-> [hex |-> <<1, 2>>]]]

Atoms ==
  {[int |-> 1], [int |-> 3], [int |-> -1], [int |-> 8], [bool |-> TRUE], [bool |-> FALSE],
   [hex |-> <<1, 2, 3, 4, 5, 6, 7, 8>>]}
Structs ==
  {SomePerson, NoName} \cup {[array |-> s] : s \in UpTo({SomePerson}, 2)}
    \cup {[array |-> <<[object |-> [all |-> [array |-> <<SomePerson>>]]]>>],
          [array |-> <<[array |-> <<SomePerson>>]>>]}
NumberLists == {[array |-> s] : s \in UpTo({[int |-> 1], [int |-> 3]}, 2)}

MailTo(v) == [object |-> [to |-> v, text |-> [hex |-> <<1, 2>>]]]

Domains == {[chainId |-> [int |-> 1]], [chainId |-> [int |-> 2]],
            [name |-> [text |-> "d"], chainId |-> [int |-> 1]]}

TypedData(types, message, domain) ==
  [types |-> types, primaryType |-> "Mail", message |-> message, domain |-> domain]

\* Two data that differ in their types and the message, in the message or in the domain.
TypedDataRequests ==
  LET first == CHOOSE d \in Domains : TRUE
      TwoOf(types, values) ==
        {[op |-> "typedData", one |-> TypedData(t[1], MailTo(v[1]), first),
          other |-> TypedData(t[2], MailTo(v[2]), first)] : t \in types, v \in values \X values}
      nested == {t \in MailTypes : t.Mail[1].type.base \in {"Person", "Group"}}
  IN TwoOf(nested \X nested, Structs)
     \cup TwoOf({<<t, t>> : t \in MailTypes \ nested}, Atoms \cup NumberLists)
     \cup {[op |-> "typedData", one |-> TypedData(t, MailTo(v), one),
            other |-> TypedData(t, MailTo(v), other)] :
             t \in nested, v \in Structs, one, other \in Domains}

MCIndexKeys == [x \in {"9", "10"} |-> IF x = "9" THEN 9 ELSE 10]

SortOrder == <<"10", "9", "EIP712Domain", "Group", "Mail", "Person", "a", "account_number", "amount",
               "b", "call_msg", "chain_id",
               "denom", "fee", "funds", "gas", "memo", "msg", "msgs", "sequence",
               "timeout_at", "token", "type", "value">>

MCRank == [x \in {SortOrder[i] : i \in DOMAIN SortOrder} |->
             CHOOSE i \in DOMAIN SortOrder : SortOrder[i] = x]

WithdrawalsAsked ==
  [sequence : {1, 2}, amount : {3}, outputIndex : 0 .. 3]

Times == {[seconds |-> 1, nanos |-> 0], [seconds |-> 1, nanos |-> 500000000]}

WithdrawalRequests ==
  [op : {"withdrawals"},
   l1 : [proposals : UNION {[d -> Times] : d \in SUBSET (1 .. 3)},
         claimed : SUBSET [sequence : {1, 2}, amount : {3}],
         period : {[seconds |-> 1, nanos |-> 0]},
         now : {1000, 1999, 2000, 2500}],
   ws : {<<v, w>> : v \in {x \in WithdrawalsAsked : x.sequence = 1},
                    w \in {x \in WithdrawalsAsked : x.sequence = 2}}]

\* What one address may be, one after the other, on a chain of each kind.
Bare == [account |-> "none", original |-> "none", code |-> 0, modules |-> <<>>, codeId |-> <<>>]

Account(kind) == [Bare EXCEPT !.account = kind]

Histories ==
  [kind : {"initia"}, states : {<<Bare, Account("base"),
                                 [Account("base") EXCEPT !.modules = <<"m">>]>>,
                               <<Bare, Account("move-object"),
                                 [Account("move-object") EXCEPT !.modules = <<"m">>]>>}]
  \cup
  [kind : {"minievm"},
   states : {<<Bare, Account("base"), [Account("evm-code") EXCEPT !.code = 9]>>,
             <<Bare, Account("evm-shorthand"),
               [Account("evm-shorthand") EXCEPT !.original = "base"],
               [Account("evm-shorthand") EXCEPT !.original = "evm-code", !.code = 9]>>}]
  \cup
  [kind : {"miniwasm"},
   states : {<<Bare, [Account("base") EXCEPT !.codeId = <<1>>]>>, <<Bare, Account("module")>>}]

SomeHistories == {h \in Histories : Len(h.states) = 4 \/ h.kind = "miniwasm"}

ServicesOf == [x \in {"initia", "minievm", "miniwasm"} |->
                 CASE x = "initia" -> {"auth", "move"} [] x = "minievm" -> {"auth", "evm"}
                   [] x = "miniwasm" -> {"auth", "wasm"}]

\* A call that reads the states of a history as they come, or with one query failing; and
\* a second one, of one state, of the same address or another, of the same chain or not.
FirstCalls ==
  UNION {[services : {ServicesOf[h.kind]}, address : {"a"}, contextAddress : {""}, now : {0},
          cacheTtl : {0, 2}, forceRefresh : {FALSE},
          chain : {[k \in 1 .. 4 |-> h.states[at[k]]] :
                     at \in {f \in [1 .. 4 -> DOMAIN h.states] :
                               \A k \in 1 .. 3 : f[k] <= f[k + 1]}}
                  \cup {[k \in 1 .. 4 |-> IF k = failing THEN Down ELSE h.states[i]] :
                          i \in DOMAIN h.states, failing \in 1 .. 4}] : h \in Histories}

LaterCalls ==
  UNION {{[services |-> ServicesOf[h.kind], address |-> a[1], contextAddress |-> a[2],
           now |-> now, cacheTtl |-> ttl, forceRefresh |-> force,
           chain |-> [k \in 1 .. 4 |-> h.states[Len(h.states)]]] :
             a \in {<<"", "">>, <<"", "a">>, <<"b", "a">>}, now \in {2, 3}, ttl \in {0, 1},
             force \in BOOLEAN} : h \in SomeHistories}

ProfileRequests ==
  {[op |-> "profile", calls |-> <<one, two>>] : one \in FirstCalls, two \in LaterCalls}

\* Registries of two networks: names that stand for a chain of each, a chain without an
\* id, links between the same chains over several channels.
Chain(id, name, type) == [chainId |-> id, chainName |-> name, networkType |-> type]

End(channel) == [channelId |-> channel, portId |-> "transfer"]

Link(a, b, channels) == [chain1 |-> a, chain2 |-> b, channels |-> channels]

Channel(a, b, version) == [chain1 |-> End(a), chain2 |-> End(b), version |-> version]

Units(decimals) == <<[denom |-> "u", exponent |-> 0, aliases |-> {"micro"}],
                     [denom |-> "U", exponent |-> decimals, aliases |-> {}]>>

RegistryAsset(denom, symbol, traces) ==
  [base |-> denom, symbol |-> symbol, display |-> "U", units |-> Units(2), traces |-> traces]

AssetLists ==
  <<[chainName |-> "a", assets |-> <<RegistryAsset("u", "U", <<>>)>>],
    [chainName |-> "b", assets |-> <<RegistryAsset("ibc", "u",
                                       <<[chainName |-> "a", baseDenom |-> "u"]>>)>>]>>

Links == {Link("a", "b", <<Channel("1", "2", "ics20-1")>>),
          Link("b", "a", <<Channel("3", "4", "ics27-1"), Channel("5", "6", "ics20-1")>>),
          Link("b", "c", <<Channel("7", "8", "ics20-1")>>), Link("a", "c", <<>>)}

RegistryRequests ==
  [op : {"registry"}, denoms : {{"u", "ibc"}},
   registry :
     [mainnet : [chains : {<<Chain("a-1", "a", "mainnet"), Chain("b-1", "b", "mainnet")>>,
                           <<Chain("b-1", "b", "mainnet"), Chain("", "c", "mainnet"),
                             Chain("a-1", "a", "mainnet"), Chain("c-1", "c", "mainnet")>>},
                 assetLists : {AssetLists, <<>>}, ibc : UpTo(Links, 2)],
      testnet : [chains : {<<>>, <<Chain("a-t", "a", "testnet"), Chain("b-1", "b", "testnet")>>,
                           <<Chain("d-t", "d", "devnet")>>},
                 assetLists : {AssetLists}, ibc : {<<>>, <<Link("d", "a", <<Channel("9", "0", "ics20-1")>>)>>}]],
   options : [mainnet : BOOLEAN, testnet : BOOLEAN, chainNames : {<<>>, <<{"a", "b"}>>}]]

\* Calls of a custom provider for two chains.
Held(chain, denom, symbol) ==
  [chainId |-> chain, denom |-> denom, symbol |-> symbol, units |-> <<>>, decimals |-> 6]

Added(id, name, assets, channels) ==
  [info |-> [chainId |-> id, chainName |-> name, network |-> "mainnet"],
   assets |-> assets, channels |-> channels]

ToOther == [chainId |-> "y", portId |-> "transfer", channelId |-> "1", version |-> "ics20-1"]

CustomChains ==
  {Added("x", "X", <<>>, <<>>), Added("y", "x", <<Held("y", "d", "U")>>, <<>>),
   Added("x", "x", <<Held("x", "d", "U"), Held("x", "e", "u")>>, <<ToOther>>)}

RawAsset(denom, base, symbol, display, decimals) ==
  [denom |-> denom, base |-> base, symbol |-> symbol, display |-> display,
   decimals |-> decimals, units |-> Units(2)]

Calls ==
  [name : {"addChain"}, chainId : {"x"}, chain : {c \in CustomChains : c.info.chainId = "x"}]
    \cup [name : {"addChain"}, chainId : {"y"}, chain : {c \in CustomChains : c.info.chainId = "y"}]
    \cup [name : {"removeChain"}, chainId : {"x", "y"}]
    \cup [name : {"addAssetList"}, chainId : {"x", "y"},
          assets : {<<RawAsset(<<>>, <<"d">>, <<"u">>, <<>>, <<>>),
                      RawAsset(<<"d">>, <<"e">>, <<"U">>, <<>>, <<3>>)>>}]
    \cup [name : {"addIbcChannel"}, chainId : {"x"},
          channel : [chainId : {"y"}, channelId : {"2"}, portId : {<<>>}, version : {<<>>, <<"ics721-1">>}]]

CustomRequests ==
  [op : {"custom"}, ids : {{"x", "y"}}, symbol : {"u"}, calls : UpTo(Calls, 3),
   chains : {<<>>, <<Added("x", "X", <<Held("x", "e", "v")>>, <<ToOther>>),
                     Added("y", "y", <<>>, <<>>)>>}]

\* Chains as JSON of the registry tells them, and what a program does with a provider of them.
ListEntry(id, type, rpc, assets) ==
  [chain |-> [chainId |-> id, chainName |-> id, prettyName |-> <<>>, networkType |-> type,
              metadata |-> [isL1 |-> FALSE, minitia |-> "minievm"], feeTokens |-> <<>>,
              apis |-> [rpc |-> rpc, grpc |-> <<>>, grpcWeb |-> <<>>, wss |-> <<>>, evmRpc |-> <<>>]],
   assets |-> assets, channels |-> <<>>]

EntryLists ==
  {<<>>, <<ListEntry("x", "livenet", <<"1">>, <<>>)>>, <<ListEntry("x", "devnet", <<"1">>, <<>>)>>,
   <<ListEntry("x", "testnet", <<"1">>, <<>>), ListEntry("y", "mainnet", <<"2">>, <<>>)>>,
   <<ListEntry("x", "mainnet", <<"1">>, <<>>), ListEntry("y", "livenet", <<"2">>, <<>>)>>,
   <<ListEntry("x", "mainnet", <<"1">>, <<>>), ListEntry("x", "testnet", <<"2">>, <<>>)>>}

ProviderCalls ==
  [name : {"bridge"}]
    \cup [name : {"fromChain"}, chainId : {"x", "y"}, provided : {TRUE}, entry : {"node"},
          transport : {<<>>, <<"mine">>}]
    \cup [name : {"fromChain"}, chainId : {"x"}, provided : {FALSE}, entry : {"node"}, transport : {<<>>}]
    \cup [name : {"addChain"}, chainId : {"y"}, chain : {Added("y", "y", <<>>, <<>>)}]
    \cup [name : {"removeChain"}, chainId : {"x", "y"}]

ProviderRequests ==
  [op : {"provider"}, items : EntryLists, ids : {{"x", "y"}},
   calls : UpTo(ProviderCalls, 3)
             \cup {<<a, b, c, b>> : a \in {x \in ProviderCalls : x.name = "fromChain"},
                                   b \in [name : {"bridge"}], c \in ProviderCalls}]

\* Transactions, ABIs of two contracts in two spellings, and the ways to read them.
EvmAbis == {[f |-> <<"a", "b">>], [f |-> <<"a">>, g |-> <<>>], [f |-> <<"a", "">>]}

GivenAbis ==
  {<<>>} \cup {<<[key |-> [of |-> "c", case |-> "mixed"], abi |-> abi]>> : abi \in EvmAbis}
    \cup {<<[key |-> [of |-> "c", case |-> "lower"], abi |-> a],
             [key |-> [of |-> "c", case |-> "mixed"], abi |-> b]>> : a \in EvmAbis, b \in EvmAbis}
    \cup {<<[key |-> [of |-> "c", case |-> "lower"], abi |-> [f |-> <<"a", "b">>]],
             [key |-> [of |-> "d", case |-> "lower"], abi |-> [g |-> <<>>]]>>}

SentMessages ==
  [kind : {"call"}, to : {"c", "d"}, broken : {FALSE},
   data : {<<>>} \cup {<<d>> : d \in [form : {"bytes", "text"}, selector : {"f", "g", "h"},
                                      words : {<<>>, <<1, 2>>}]}]
    \cup [kind : {"call", "create", "other"}, to : {"c"}, broken : BOOLEAN,
          data : {<<[form |-> "bytes", selector |-> "f", words |-> <<1, 2>>]>>}]
    \cup [kind : {"wasm"}, to : {"c"}, broken : {FALSE},
          data : {<<>>, <<[json |-> "{}"]>>, <<[text |-> "?"]>>}]

TxRequests ==
  [op : {"tx"}, mode : {"best-effort", "strict", "none"}, registered : GivenAbis, abis : GivenAbis,
   messages : UpTo(SentMessages, 1)]
    \cup [op : {"tx"}, mode : {"best-effort", "strict"}, registered : {<<>>},
          abis : {<<[key |-> [of |-> "c", case |-> "mixed"], abi |-> abi]>> : abi \in EvmAbis},
          messages : [1 .. 2 -> SentMessages]]

\* A directory of the registry on disk, as someone edits it.
Directory(path, network, hidden, chain, assets) ==
  [path |-> path, network |-> network, hidden |-> hidden, chain |-> chain, assets |-> assets]

LocalChain(id) == <<[chainId |-> id, chainName |-> id, network |-> "mainnet"]>>

Disks ==
  {<<Directory("p", "mainnet", FALSE, LocalChain("x"), a)>> : a \in {<<>>, <<"broken">>, <<"one">>, <<"two">>}}
    \cup {<<Directory("q", "mainnet", hidden, chain, <<"three">>),
             Directory("p", "testnet", FALSE, LocalChain("x"), <<"four">>)>> :
             hidden \in BOOLEAN, chain \in {<<>>, LocalChain("x"), LocalChain("y")}}
    \cup {<<>>}

LocalRequests ==
  [op : {"local"}, disk : Disks, network : {<<>>, <<"mainnet">>},
   steps : UpTo([step : {"read"}, disk : Disks, chainId : {"x"}]
                  \cup [step : {"refresh"}, disk : Disks, chainId : {""}], 2)
             \cup {<<[step |-> "read", disk |-> a, chainId |-> "x"],
                     [step |-> "refresh", disk |-> b, chainId |-> ""],
                     [step |-> "read", disk |-> c, chainId |-> "x"]>> :
                     a \in {<<Directory("p", "mainnet", FALSE, LocalChain("x"), <<"two">>)>>},
                     b \in Disks, c \in Disks}]

CompositeRequests ==
  [op : {"composite"}, ids : {{"x", "y"}}, symbol : {"u", "v"}, denom : {"d"},
   text : {Text(FALSE, <<5>>, <<>>)},
   providers : [1 .. 2 -> {<<>>} \cup {<<c>> : c \in CustomChains}
                  \cup {<<c, d>> : c \in {x \in CustomChains : x.info.chainId = "x"},
                                   d \in {x \in CustomChains : x.info.chainId = "y"}}
                  \cup {<<Added("x", "z", <<Held("x", "d", "v")>>, <<>>)>>}]]

AssetRequests ==
  {[op |-> "asset", asset |-> RawAsset(<<"u">>, <<>>, <<"S">>, <<"U">>, decimals),
    denom |-> "u", from |-> "U", to |-> to, text |-> text] :
      decimals \in {<<>>, <<2>>}, to \in {"u", "micro"},
      text \in {x \in Texts : Len(x.frac) <= 2}}

MCFolded == [x \in {"", "u", "U", "S", "v", "x", "X", "y", "a", "b", "c", "d", "z"} |->
               CASE x = "U" -> "u" [] x = "X" -> "x" [] x = "S" -> "s" [] OTHER -> x]

Credentials(secret) ==
  {<<>>, <<[type |-> "bearer", secret |-> secret]>>,
   <<[type |-> "basic", username |-> "u", secret |-> secret]>>}
    \cup {<<[type |-> "api-key", header |-> h, secret |-> secret]>> : h \in {<<>>, <<"Authorization">>}}

HeaderLists(who) ==
  {<<>>} \cup {<<<<name, [text |-> who]>>>> :
     name \in {"X-Extra", "authorization", "X-Api-Key", "Content-Type", "x-cosmos-block-height"}}

SomeSigners == {<<[of |-> "alice", isKey |-> TRUE]>>, <<[of |-> "bob", isKey |-> FALSE]>>}

ContextSteps ==
  [step : {"withSigner"}, signer : SomeSigners, address : {<<>>}]
    \cup [step : {"forAddress"}, signer : {<<>>}, address : {<<"carol">>}]
    \cup [step : {"sign", "rpc", "evmRpc"}]

HeaderRequests ==
  [op : {"headers"},
   options : [auth : Credentials("s"), headers : HeaderLists("context"),
              signer : {<<>>}, address : {<<"dora">>}],
   query : [auth : Credentials("t"), headers : HeaderLists("query"), height : {<<>>, <<7>>}],
   own : {<<>>, <<<<"Authorization", [text |-> "own"]>>>>},
   steps : {<<>>, <<[step |-> "rpc"], [step |-> "withSigner", signer |-> <<[of |-> "bob", isKey |-> FALSE]>>,
                                        address |-> <<>>]>>}]
  \cup
  [op : {"headers"},
   options : [auth : {<<[type |-> "bearer", secret |-> "s"]>>}, headers : HeaderLists("context"),
              signer : {<<>>} \cup SomeSigners, address : {<<>>}],
   query : [auth : {<<>>}, headers : {<<>>}, height : {<<>>}], own : {<<>>},
   steps : UpTo(ContextSteps, 3)]

HttpRequests ==
  [op : {"http"}, config : [timeoutMs : {<<>>, <<2>>}], options : [timeoutMs : {<<>>, <<4>>}],
   run : {run \in [headersAt : 0 .. 5, bodyAt : 0 .. 7, abortAt : {1, 5, 9}, ok : BOOLEAN,
                   body : {"result", "error", "no json"}] : run.headersAt <= run.bodyAt}]

Numbers == {<<>>, <<[number |-> 0]>>, <<[number |-> 5]>>}

Hashes == [digits : {"ab", "cd"}, prefixed : BOOLEAN]

NodeCall(methods, args) == [method : methods, args : args]

NodeCalls ==
  NodeCall({"status", "health", "abciInfo", "numUnconfirmedTxs", "consensusState",
            "dumpConsensusState", "genesis", "netInfo"}, {<<>>})
    \cup NodeCall({"blockResults", "block", "commit", "consensusParams", "header"}, [height : Numbers])
    \cup NodeCall({"tx", "blockByHash", "headerByHash"}, [hash : Hashes])
    \cup NodeCall({"txSearch", "blockSearch"},
           [query : {<<[text |-> "q"]>>}, page : Numbers, perPage : {<<>>, <<[number |-> 5]>>},
            orderBy : {<<>>, <<[text |-> "asc"]>>}])
    \cup NodeCall({"validators"}, [height : Numbers, page : {<<>>, <<[number |-> 5]>>}, perPage : Numbers])
    \cup NodeCall({"blockchain"}, [minHeight : Numbers, maxHeight : Numbers])
    \cup NodeCall({"unconfirmedTxs"}, [limit : Numbers])
    \cup NodeCall({"genesisChunked"}, [chunk : Numbers \ {<<>>}])
    \cup NodeCall({"abciQuery"},
           [path : {<<[text |-> "p"]>>}, data : {<<>>, <<[text |-> ""]>>, <<[text |-> "d"]>>},
            height : Numbers, prove : {<<>>, <<[bool |-> FALSE]>>, <<[bool |-> TRUE]>>}])

NodeRequests == [op : {"rpc"}, one : NodeCalls, other : NodeCalls]

Blocks == {<<>>} \cup {<<[height |-> 9, as |-> form]>> : form \in {"number", "decimal", "hex"}}
            \cup {<<[height |-> 10, as |-> "number"]>>}
            \cup {<<[tag |-> t]>> : t \in {"latest", "earliest", "pending", "safe"}}

SomeBlocks == {<<>>, <<[height |-> 9, as |-> "number"]>>, <<[height |-> 9, as |-> "hex"]>>,
               <<[tag |-> "safe"]>>}

EvmNames == {<<[name |-> "a"]>>, <<[name |-> "b"]>>}

EvmNodeCalls ==
  NodeCall({"getBlockNumber", "getChainId", "getGasPrice"}, {<<>>})
    \cup NodeCall({"getTransactionReceipt", "getTransactionByHash"}, [hash : EvmNames])
    \cup NodeCall({"getLogs"}, [blockHash : {<<>>, <<[hash |-> "h"]>>}, fromBlock : SomeBlocks,
                                toBlock : SomeBlocks, address : {<<>>, <<[name |-> "a"]>>},
                                topics : {<<>>}])
    \cup NodeCall({"getBlockByNumber"}, [block : Blocks \ {<<>>}, full : {<<[bool |-> b]>> : b \in BOOLEAN}])
    \cup NodeCall({"getBlockByHash"}, [hash : EvmNames, full : {<<[bool |-> b]>> : b \in BOOLEAN}])
    \cup NodeCall({"ethCall"}, [tx : {<<[data |-> "c"]>>}, block : Blocks])
    \cup NodeCall({"sendRawTransaction", "estimateGas"}, [tx : {<<[data |-> "c"]>>}])
    \cup NodeCall({"getBalance", "getCode", "getTransactionCount"}, [address : EvmNames, block : Blocks])
    \cup NodeCall({"getStorageAt"},
           [address : EvmNames, position : {<<[slot |-> 1]>>}, block : Blocks])

EvmNodeRequests == [op : {"evmRpc"}, one : EvmNodeCalls, other : EvmNodeCalls]

Replies ==
  [connect : {"unavailable", "invalid_argument", "unauthenticated", "permission_denied"}]
    \cup [message : {"socket", "other"}] \cup {[answer |-> "a"]}

RetryRequests ==
  [op : {"retry"}, replies : [1 .. 4 -> Replies],
   options : [maxRetries : {-1, 0, 2, 3}, initialDelayMs : {0, 3}, maxDelayMs : {8}, jitter : BOOLEAN]]

CoinOf(n) == [type |-> "Coin", fields |-> [amount |-> [scalar |-> n]]]

AnyOf(m) == [type |-> "Any", fields |-> [typeUrl |-> [scalar |-> m.type], value |-> [packed |-> m]]]

Pages(inner) == [type |-> "Page", fields |-> [key |-> [scalar |-> "k"], content |-> inner]]

Parts == {CoinOf(1), AnyOf(CoinOf(2)), Pages(AnyOf(CoinOf(3))), AnyOf(Pages(AnyOf(CoinOf(4))))}

ResponseFields ==
  {[p |-> q] : q \in Parts} \cup {[p |-> [list |-> s]] : s \in UpTo(Parts, 2)}
    \cup {[p |-> [map |-> [x |-> q]]] : q \in Parts} \cup {[p |-> [oneof |-> q]] : q \in Parts}
    \cup {[p |-> [list |-> <<CoinOf(1)>>], typeUrl |-> [scalar |-> "own"]]}

ResponseRequests ==
  [op : {"response"}, response : {[type |-> "Response", fields |-> f] : f \in ResponseFields},
   path : {<<>>, <<"p">>, <<"typeUrl">>, <<"schema">>, <<"other">>}
            \cup {<<"p">> \o s : s \in UpTo({"0", "x", "value", "content", "typeUrl", "amount"}, 3)},
   registry : {<<>>, <<{"Coin"}>>, <<{"Coin", "Page"}>>}, given : {<<>>, <<{}>>, <<{"Coin", "Page"}>>}]

ServiceRequests ==
  [op : {"services"}, services : SUBSET {"bank", "move", "evm", "chainId"}, plain : {{"chainId"}},
   methods : {{"module", "denom", "contractAddrByDenom", "balance", "typeName"}},
   names : UpTo({"bank", "move", "chainId", "then", "clearCache"}, 3)]

AskedChains == [id : {"x"}, sockets : SUBSET {"cosmos", "evm"}, resolver : BOOLEAN]

CallsInContext ==
  [name : {"getAccount"}, args : [address : {<<>>, <<"carol">>}, height : {<<>>, <<7>>}]]
    \cup [name : {"estimateGas"},
          args : [signer : {<<>>, <<[of |-> "eve", isKey |-> TRUE]>>, <<[of |-> "frank", isKey |-> FALSE]>>}]]
    \cup [name : {"wait"},
          args : [chainInfo : [id : {"x", "y"}, sockets : {{"cosmos"}}, resolver : {TRUE}]]]
    \cup [name : {"subscribe"}, args : [event : {"block", "tx", "evmLogs"}, filter : {"f"}]]
    \cup [name : {"getTokenContract"}, args : [token : {"t"}]]

AskRequests ==
  [op : {"ask"},
   options : [auth : {<<>>}, headers : {<<>>}, signer : {<<>>} \cup SomeSigners, address : {<<>>, <<"dora">>}],
   chain : AskedChains, calls : UpTo(CallsInContext, 2)]
  \cup
  [op : {"ask"},
   options : [auth : {<<>>}, headers : {<<>>}, signer : {<<>>} \cup SomeSigners, address : {<<>>, <<"dora">>}],
   chain : [id : {"x"}, sockets : {{}}, resolver : {TRUE}],
   calls : UpTo({c \in CallsInContext : c.name \in {"estimateGas", "getTokenContract"}
                                          \/ (c.name = "getAccount" /\ c.args.height = <<>>)}, 3)]

LoadedChains(id, to) ==
  [chainId : {id}, chainName : {"n", "m"}, network : {"mainnet", "testnet"},
   channels : {<<>>} \cup {<<[chainId |-> to, channelId |-> "c-0", portId |-> "p", version |-> v],
                             [chainId |-> to, channelId |-> "c-1", portId |-> "q", version |-> "ics20-1"]>> :
                             v \in {"ics20-1", "ics721-1"}},
   opBridgeId : {<<>>, <<0>>, <<3>>},
   assets : {<<>>, <<[denom |-> "d", symbol |-> "u"]>>,
             <<[denom |-> "e", symbol |-> "U"], [denom |-> "d", symbol |-> "v"]>>}]

LoadedRequests ==
  [op : {"loaded"},
   chains : {<<>>} \cup {<<a, b>> : a \in LoadedChains("x", "y"),
                                    b \in {c \in LoadedChains("y", "x") : c.opBridgeId = <<3>> /\ c.channels = <<>>}},
   names : {{"n", "m", "none"}}, symbol : {"u"}, denom : {"d"}]
  \cup
  [op : {"loaded"},
   chains : {<<a, b, c>> : a \in {l \in LoadedChains("x", "z") : l.opBridgeId = <<>> /\ l.assets = <<>>},
                           b \in {l \in LoadedChains("y", "x") :
                                    l.opBridgeId = <<>> /\ l.channels = <<>> /\ l.assets = <<>>},
                           c \in {l \in LoadedChains("z", "y") : l.opBridgeId = <<0>> /\ Len(l.assets) = 1}},
   names : {{"n", "m", "none"}}, symbol : {"u"}, denom : {"d"}]

EndpointsOf(schemes, paths) ==
  {<<>>} \cup {<<[scheme |-> s, host |-> h, port |-> p, path |-> q]>> :
                 s \in schemes, h \in {"h"}, p \in {<<>>, <<443>>, <<9090>>}, q \in paths}

EndpointRequests ==
  [op : {"endpoints"}, custom : BOOLEAN,
   chain : [chainId : {"x"}, chainName : {"x"}, prettyName : {<<>>}, networkType : {"mainnet"},
            metadata : [isL1 : {FALSE}, minitia : {"minievm"}, ibcChannels : {<<>>}],
            feeTokens : {<<>>},
            apis : [rpc : EndpointsOf({"", "http", "https"}, {<<>>, <<"x">>, <<"websocket">>}),
                    grpc : EndpointsOf({"", "http"}, {<<>>, <<"x">>}),
                    grpcWeb : {<<>>, <<[scheme |-> "", host |-> "w", port |-> <<9091>>, path |-> <<>>]>>},
                    wss : {<<>>, <<[scheme |-> "wss", host |-> "s", port |-> <<>>, path |-> <<>>]>>},
                    evmRpc : {<<>>}]]]

TokenAddresses == {[hex |-> "t"], [bech32 |-> "t"]}

Parties == {[hex |-> "a"], [hex |-> "b"], [bech32 |-> "b"], [bech32 |-> "a"]}

Ledgers ==
  [exists : BOOLEAN, name : {"Token"}, symbol : {"T"}, decimals : {6}, supply : {8},
   balances : {[x \in {"a", "b"} |-> IF x = "a" THEN 5 ELSE 3]},
   allowances : {[p \in {"a", "b"} \X {"a", "b"} |-> IF p = <<"a", "b">> THEN 2 ELSE 0]}]

TokenRequests ==
  [op : {"token"}, resolver : BOOLEAN, chainType : {"initia", "minimove", "minievm", "miniwasm", "other"},
   token : TokenAddresses, ledger : Ledgers, sender : {[bech32 |-> "a"], [hex |-> "a"]}, other : Parties,
   amount : [n : {-1, 0, 4, 5, 6, 10}, whole : BOOLEAN]]

\* The decimals of a coin may change, and a coin be missing for a time.
HandleRequests ==
  [op : {"handle"}, vm : {"move"},
   calls : UpTo([name : {"getTokenInfo", "parseUnits"}, value : {Text(FALSE, <<1>>, <<0, 5>>)},
                 coin : {[hex |-> "x"], [hex |-> "y"], [bech32 |-> "x"]},
                 decimals : {NoDecimals, "x" :> 1, ("x" :> 2) @@ ("y" :> 3)}], 3)]
  \cup
  [op : {"handle"}, vm : {"evm", "wasm"},
   calls : UpTo([name : {"getTokenInfo", "parseUnits"}, value : {Text(FALSE, <<1>>, <<0, 5>>)},
                 decimals : {NoDecimals, "token" :> 1, "token" :> 3}], 3)
             \cup UpTo([name : {"formatUnits"}, value : {105}, decimals : {"token" :> 1, "token" :> 3}], 2)]

EvmLogAbi == <<[name |-> "Transfer", topic |-> "t1"], [name |-> "Approval", topic |-> "t2"],
               [name |-> "Transfer", topic |-> "t3"]>>

EvmLogRequests ==
  [op : {"evmLogs"}, abi : {SubSeq(EvmLogAbi, 1, k) : k \in 0 .. 3}, name : {"Transfer", "Approval"},
   logs : UpTo([topic : {"t1", "t2", "t3", "t4"}, pending : BOOLEAN], 3)]

RevertRequests ==
  [op : {"revert"}, abi : {<<>>, <<{}>>, <<{"Custom"}>>},
   data : [selector : {"Error", "Panic", "Custom"}, args : {<<>>, <<17>>, <<2>>}]]

SchemaKeys == {"execute", "query"}

NftRequests ==
  [op : {"nft"}, given : SUBSET SchemaKeys \cup {{"schema"}}, nested : SUBSET SchemaKeys,
   tokens : {<<>>, <<1, 2, 4>>, <<2, 3>>}, startAfter : {<<>>, <<2>>}, limit : {<<>>, <<1>>, <<2>>},
   told : [owner : {"a"},
           approvals : UpTo([spender : {"b"}, expires : {<<>>, <<[never |-> TRUE]>>, <<[at_time |-> 7]>>}
                              \cup {<<[at_height |-> h]>> : h \in {0, 7}}], 2)]]

BalanceRequests ==
  [op : {"balance"}, context : [address : {<<>>, <<"a">>}], 
   chain : {[x \in {"a", "b"} |-> IF x = "a" THEN held ELSE 2 :> 9] :
              held \in {[d \in {} |-> 0], 1 :> 5, [d \in 1 .. 3 |-> d]}},
   options : [address : {<<>>, <<"b">>}, denom : {<<>>, <<0>>, <<1>>, <<2>>}, height : {<<>>, <<0>>, <<7>>},
              skipCache : {<<>>, <<TRUE>>, <<FALSE>>}]]

N(n) == [number |-> n]

VipContexts == [chainId : {"interwoven-1", "devnet"}, address : {<<>>, <<"alice">>}]

VipLock == [metadata |-> [hex |-> "m"], lpMetadata |-> [bech32 |-> "m"], validator |-> N(91),
            srcValidator |-> N(92), dstValidator |-> N(93), releaseTime |-> N(1), newReleaseTime |-> N(2),
            srcReleaseTime |-> N(3), dstReleaseTime |-> N(4), coinAAmount |-> [bigint |-> 5],
            coinBAmount |-> N(6), amounts |-> [array |-> <<N(5), N(6)>>]]

VipRequests ==
  [op : {"vip"}, context : VipContexts, given : {<<>>, <<"0xv">>},
   method : {"provideAndDelegate", "stableswapProvideAndDelegate", "undelegate", "redelegate",
             "extendLock", "claimStakingRewards"},
   params : {VipLock @@ [amount |-> a, minLiquidity |-> a] : a \in {<<>>, <<N(8)>>, <<[bigint |-> 8]>>}}]
  \cup
  [op : {"vip"}, context : VipContexts, given : {<<>>}, method : {"delegate"},
   params : {VipLock @@ [amount |-> a] : a \in {N(8), [bigint |-> 8]}}]
  \cup
  [op : {"vip"}, context : VipContexts, given : {<<>>}, method : {"voteGauge"},
   params : [cycle : {N(3)}, votes : UpTo([bridgeId : {N(1), N(2)}, weight : {N(4), [bigint |-> 4]}], 2)]]
  \cup
  [op : {"vip"}, context : VipContexts, given : {<<>>}, method : {"voteGaugeByAmount"},
   params : [cycle : {N(3)}, votes : UpTo([bridgeId : {N(1), N(2)}, amount : {N(4), [bigint |-> 4]}], 2)]]

\* Of a bridge, ranges of stages that do not meet.
VestingsOf(bridge) ==
  LET Data(first, last, reward) ==
        [bridgeId |-> bridge, version |-> 1, startStage |-> first, endStage |-> last, reward |-> reward,
         proof |-> <<first, bridge>>, score |-> 10 * bridge + last]
  IN {<<>>} \cup {<<Data(1, 2, r)>> \o rest : r \in {0, 7},
                    rest \in {<<>>, <<Data(3, 5, 1)>>, <<Data(3, 5, 0), Data(6, 6, 2)>>}}

RewardRequests ==
  [op : {"rewards"}, context : VipContexts, given : {<<>>},
   entries : {<<>>} \cup {<<v>> : v \in VestingsOf(1)} \cup (VestingsOf(1) \X VestingsOf(2))]

Shares == [n : {4}, whole : BOOLEAN]

VipReadRequests ==
  [op : {"vipReads"}, params : [metadata : {"m"}, validator : {"v"}, releaseTime : {<<>>, <<7>>}],
   delegations : UpTo([metadata : {"m", "o"}, validator : {"v"}, releaseTime : {7, 8}, amount : {5},
                       share : Shares], 2),
   currentCycle : {3}, cycle : {<<>>, <<2>>}, store : {[stage |-> 1, start |-> 10, end |-> 20]},
   votes : {[q \in {2, 3} \X {"alice", "bob"} |-> IF q[2] = "bob" THEN <<>> ELSE w] :
              w \in UpTo([bridgeId : {1}, weight : Shares], 2)}]
  \cup
  [op : {"vipReads"}, params : {[metadata |-> "m", validator |-> "v", releaseTime |-> <<>>]}, delegations : {<<>>},
   currentCycle : {3}, cycle : {<<>>, <<2>>, <<3>>}, store : {[stage |-> 1, start |-> 10, end |-> 20]},
   votes : {[q \in {2, 3} \X {"alice", "bob"} |-> <<[bridgeId |-> q[1], weight |-> [n |-> q[1], whole |-> TRUE]]>>]}]

Op(type) == [type |-> <<>>, opType |-> <<>>, chainId |-> <<>>, channel |-> <<>>, poolId |-> <<"7">>,
             denomIn |-> <<"d">>, denomOut |-> <<>>] @@ type

RouterTxs ==
  LET Half(fields) == {<<>>} \cup {<<fields @@ [chainId |-> c, signer |-> s]>> :
                                      c \in {<<>>, <<"c1">>}, s \in {<<>>, <<"s1">>}}
  IN {[chainId |-> c, signer |-> <<>>, cosmos |-> x, evm |-> e] :
        c \in {<<>>, <<"c1">>}, x \in Half([msgs |-> <<"m1", "m2">>]) \cup Half([msgs |-> <<>>]),
        e \in Half([call |-> "e"])}

RouteRequests ==
  [op : {"route"}, client : [routerUrl : BOOLEAN],
   options : [addresses : {<<"a1", "a2">>}, slippageTolerance : {<<>>}, signer : {[key |-> "a1", address |-> "a1"]}],
   replies :
     [route : [ok : BOOLEAN,
               body : [amountIn : {5}, amountOut : {4}, requiresOpHook : BOOLEAN,
                       operations : {<<>>, <<<<>>>>,
                                     <<<<Op([opType |-> <<"swap">>]), Op([type |-> <<"transfer">>]),
                                         Op([type |-> <<"cctp">>])>>>>}]],
      opHook : [ok : BOOLEAN, body : {<<<<1>>, <<2, 3>>>>}],
      msgs : [ok : BOOLEAN, body : [txs : {<<>>}, msgs : {<<>>}]]]]
  \cup
  [op : {"route"}, client : {[routerUrl |-> TRUE]},
   options : [addresses : {<<"a1", "a2">>}, slippageTolerance : {<<3>>}, signer : {[key |-> "a1", address |-> "a1"]}],
   replies :
     [route : {[ok |-> TRUE, body |-> [amountIn |-> 5, amountOut |-> 4, requiresOpHook |-> FALSE, operations |-> <<>>]]},
      opHook : {[ok |-> FALSE, body |-> <<>>]},
      msgs : [ok : {TRUE}, body : [txs : {<<>>}, msgs : {<<<<a>>>> : a \in RouterTxs}]
                             \cup [txs : {<<<<a>>>> : a \in RouterTxs}, msgs : {<<>>, <<<<>>>>}]]]]

FailureRequests ==
  [op : {"failure"}, code : {1, 4, 5, 11, 13, 19, 32, 38},
   log : SUBSET {"insufficient fund", "insufficient fee", "account sequence mismatch", "out of gas",
                 "signature verification", "unauthorized"}]

ListedChain(id, type, network, prefix, bridge) ==
  [chainId |-> id, chainType |-> type, network |-> network, prefix |-> prefix, opBridgeId |-> bridge]

L1 == ListedChain("initiation-2", "initia", "testnet", <<>>, <<>>)
Main == ListedChain("interwoven-1", "initia", "mainnet", <<"init">>, <<>>)
Rollup == ListedChain("r", "minimove", "testnet", <<"roll">>, <<7>>)
Unbridged == ListedChain("u", "miniwasm", "mainnet", <<>>, <<>>)

ChainLists == {<<L1, Rollup>>, <<Rollup, L1>>, <<Rollup>>, <<L1, Unbridged>>, <<Main, L1, Rollup>>, <<>>}

WalletsAsked ==
  [key : {<<>>, <<"alice">>},
   provider : {<<>>} \cup {<<[chains |-> cs, transport |-> t]>> : cs \in ChainLists, t \in {<<>>, <<"T">>}}]

Withdrawn(seq, account, prefix) ==
  [sequence |-> seq, bridgeId |-> 7, outputIndex |-> 3, from |-> [account |-> account, prefix |-> prefix],
   to |-> [account |-> "bob", prefix |-> "init"], amount |-> 5, proofs |-> <<[base64 |-> 1], [base64 |-> 2]>>,
   root |-> [base64 |-> 3]]

WalletRequests ==
  [op : {"wallet"}, wallet : WalletsAsked, chainId : {"r", "u", "x"}, amount : {5},
   withdrawal : {Withdrawn(1, "alice", "roll")},
   status : {"waiting", "claimable", "claimed"},
   executor : {<<>>, <<Withdrawn(1, "alice", "init"), Withdrawn(1, "alice", "roll"), Withdrawn(2, "bob", "roll"),
                       Withdrawn(3, "alice", "roll"), Withdrawn(4, "alice", "roll")>>},
   options : [to : {<<>>, <<[account |-> "bob", prefix |-> "roll"]>>}, bridgeId : {<<>>, <<0>>, <<9>>},
              offset : {<<>>, <<1>>}, limit : {<<>>, <<1>>, <<2>>}]]

TypedRequests ==
  LET providers == {[chains |-> cs, transport |-> t] : cs \in ChainLists, t \in {<<>>, <<"T">>}}
  IN [op : {"typed"}, factory : [transport : {"F"}, defaults : BOOLEAN], provider : providers,
      chainId : {"r", "initiation-2", "x"},
      registry : {[mainnet |-> [chains |-> <<Main, Unbridged>>, transport |-> <<>>],
                   testnet |-> [chains |-> <<L1, Rollup>>, transport |-> <<>>]]},
      options : [network : {<<>>, <<"mainnet">>, <<"testnet">>}, chainId : {<<>>, <<"r">>, <<"u">>},
                 provider : {<<>>, <<[chains |-> <<Main, L1, Rollup>>, transport |-> <<"T">>]>>,
                             <<[chains |-> <<>>, transport |-> <<>>]>>}]]

Flag(name) == [flag |-> name]

Word1(text) == [parts |-> <<text>>]

MCWords ==
  [coin |-> <<"coin">>, fooBar |-> <<"foo", "bar">>, foo_bar |-> <<"foo", "bar">>, Token |-> <<"token">>]

ModuleAbi(name, fields) ==
  [x \in fields \cup {"value"} |-> CASE x = "value" -> [scalar |-> name] [] x = "name" -> name [] OTHER -> "0x1"]

PublishedModules ==
  LET Abis(name) == {<<>>, <<<<>>>>, <<<<ModuleAbi(name, {"address", "name"})>>>>, <<<<ModuleAbi(name, {"address"})>>>>}
      Of(name) == {<<>>} \cup {<<[name |-> name, abi |-> a]>> : a \in Abis(name)}
  IN {<<>>} \cup {a \o b \o c : a \in Of("coin"), b \in Of("fooBar"),
                   c \in {<<>>, <<[name |-> "foo_bar", abi |-> <<<<ModuleAbi("foo_bar", {"address", "name"})>>>>]>>}}

Required(required) == [properties |-> required, required |-> required]

AbigenWorld(modules, fails) ==
  [modules |-> modules, fails |-> fails,
   disk |-> [path \in {[dir |-> <<"o">>, index |-> TRUE]} |-> [exports |-> <<<<"old">>>>]],
   explorer |-> [ok |-> TRUE, status |-> "1", result |-> <<[array |-> <<[scalar |-> "f"]>>]>>],
   abis |-> [p \in {<<"f">>} |-> <<[object |-> [abi |-> [array |-> <<[scalar |-> "f"]>>],
                                               contractName |-> <<"Token">>]]>>],
   schemas |-> [p \in {<<"f">>, <<"q">>, <<"u">>, <<"bad">>} |->
                  CASE p = <<"f">> -> <<[Absent EXCEPT !.oneOf = <<Required(<<"mint">>), Required(<<"burn", "to">>)>>]>>
                    [] p = <<"q">> -> <<[Absent EXCEPT !.anyOf = <<Required(<<"balance">>)>>]>>
                    [] p = <<"u">> -> <<[Absent EXCEPT !.oneOf = <<Required(<<"mint">>), Required(<<>>)>>]>>
                    [] OTHER -> <<>>]]

AbigenRequests ==
  LET reach == <<Flag("address"), Word1("a"), Flag("endpoint"), Word1("e")>>
      coin  == <<[name |-> "coin", abi |-> <<<<ModuleAbi("coin", {"address", "name"})>>>>]>>
      Chosen(parts) == <<Flag("modules"), [parts |-> parts]>>
      picks == {<<Flag("all")>>, <<Flag("all"), Word1("x")>>, Chosen(<<"coin", "fooBar">>), Chosen(<<"coin", "">>),
                Chosen(<<"", "">>), Chosen(<<"fooBar", "coin", "foo_bar">>), <<Flag("module"), Word1("coin")>>,
                <<Flag("modules")>>, <<>>}
      homes == {<<>>, <<Flag("outdir"), Word1("o")>>, <<Flag("outdir"), Word1("")>>, <<Flag("out"), Word1("p")>>}
      jsons == {<<>>, <<Flag("name"), Word1("X")>>, <<Flag("out"), Word1("p")>>}
      Paths(flag) == {<<>>} \cup {<<Flag(flag), Word1(x)>> : x \in {"f", "q", "u", "bad", "none"}}
  IN {[op |-> "abigen", argv |-> <<Word1("move")>> \o reach \o p \o h, world |-> AbigenWorld(ms, k)] :
        p \in picks, h \in homes, ms \in PublishedModules, k \in 0 .. 2}
     \cup {[op |-> "abigen", argv |-> s \o x, world |-> AbigenWorld(coin, 0)] :
              x \in {reach, SubSeq(reach, 1, 2)},
              s \in UpTo({Flag("module"), Flag("out"), Flag("help"), Word1("-h"), Word1("coin"), Word1("move")}, 4)}
     \cup {[op |-> "abigen", argv |-> <<Word1("wasm")>> \o e \o q \o j, world |-> AbigenWorld(coin, k)] :
              e \in Paths("execute"), q \in Paths("query"), j \in jsons, k \in {0, 1}}
     \cup {[op |-> "abigen", argv |-> <<Word1("evm")>> \o f \o j, world |-> AbigenWorld(coin, k)] :
              f \in {<<>>, <<Flag("json"), Word1("f")>>, <<Flag("json"), Word1("none")>>,
                     <<Flag("address"), Word1("a"), Flag("explorer"), Word1("e")>>, <<Flag("address"), Word1("a")>>},
              j \in jsons, k \in {0, 1}}

LiteralRequests ==
  LET texts == {[string |-> s] : s \in UpTo({"\\", "'", "a", "newline"}, 4)}
      some  == {[string |-> s] : s \in UpTo({"\\", "'"}, 2)} \cup {[scalar |-> "null"]}
  IN {[op |-> "literal", value |-> v] :
        v \in texts \cup {[array |-> s] : s \in UpTo(some, 2)}
               \cup {[object |-> <<<<"k", x>>, <<"l", [array |-> <<y>>]>>>>] : x \in some, y \in some}}

SessionSteps ==
  LET specs == {[event |-> "block"], [event |-> "blockHeader"], [event |-> "tx", filter |-> <<>>],
                [event |-> "tx", filter |-> <<"f">>], [event |-> "evmLogs", filter |-> <<>>], [event |-> "evmHeads"]}
      Event(tm, rest, data) == [name |-> "event", kind |-> "cosmos", at |-> [tm |-> tm, rest |-> rest], data |-> data]
  IN {[name |-> "subscribe", spec |-> x, confirmed |-> TRUE] : x \in specs}
     \cup {[name |-> "subscribe", spec |-> [event |-> "block"], confirmed |-> FALSE], [name |-> "close"]}
     \cup {Event("NewBlock", <<>>, [block |-> [b |-> 1]]),
           Event("NewBlockHeader", <<>>, [header |-> [h |-> 1]]), Event("Tx", <<"f">>, [TxResult |-> [t |-> 1]]),
           [name |-> "event", kind |-> "evm", at |-> "logs", data |-> [log |-> 1]]}

SessionRequests ==
  LET unsubscribe == {[name |-> "unsubscribe", of |-> i] : i \in 1 .. 2}
      subscribes  == {x \in SessionSteps : x.name = "subscribe"}
      shared == {<<x, y>> : x \in subscribes, y \in subscribes}
      rest   == SessionSteps \cup unsubscribe
      events == {x \in SessionSteps : x.name = "event"}
  IN {[op |-> "sessions", chain |-> c, alone |-> a, steps |-> s \o <<x, e>>] :
        c \in {[wss |-> TRUE, evmWss |-> TRUE]}, a \in BOOLEAN, s \in shared, x \in rest, e \in events}
     \cup {[op |-> "sessions", chain |-> [wss |-> TRUE, evmWss |-> FALSE], alone |-> a, steps |-> <<x, y, z, e>>] :
              a \in BOOLEAN, x \in subscribes, y \in {[name |-> "close"], [name |-> "unsubscribe", of |-> 1]},
              z \in rest, e \in events}
     \cup {[op |-> "sessions", chain |-> [wss |-> TRUE, evmWss |-> TRUE], alone |-> a,
            steps |-> <<b, b, x, y, e, [name |-> "close"]>>] :
              a \in BOOLEAN, b \in subscribes, x \in unsubscribe \cup {[name |-> "close"]}, y \in rest, e \in events}

WasmPayloads ==
  {[object |-> [p |-> [number |-> 1], q |-> [undefined |-> TRUE]]], [object |-> [p |-> [array |-> <<[number |-> 2]>>]]],
   [object |-> [p |-> [bigint |-> 1]]]}

\* A code or two, a contract of them, and what may come then.
WasmChainRequests ==
  LET Step(call, o) == [call |-> call, o |-> o]
      Store(bytes, permission) == Step("store", [sender |-> "alice", wasmByteCode |-> bytes,
                                                 instantiatePermission |-> permission])
      plain == [object |-> [p |-> [number |-> 1]]]
      drop  == [object |-> [p |-> [number |-> 1], q |-> [undefined |-> TRUE]]]
      fund  == <<[coin |-> [denom |-> "a", amount |-> [number |-> 2]]]>>
      One(admin, id, msg, funds) == [sender |-> "alice", codeId |-> id, msg |-> msg, label |-> "l", admin |-> admin,
                                     funds |-> funds]
      Two(msg, fix) == Step("instantiate2", One(<<>>, [number |-> 1], msg, <<>>) @@ [salt |-> "s", fixMsg |-> fix])
      ids     == {[number |-> 1], [digits |-> 2], [bigint |-> 3], [fraction |-> 1]}
      makings == {Step("instantiate", One(admin, id, msg, funds)) :
                    admin \in {<<>>, <<"alice">>, <<"bob">>}, id \in {[number |-> 1], [digits |-> 2]},
                    msg \in {plain, drop}, funds \in {<<>>, fund}}
                 \cup {Step("instantiate", One(<<"bob">>, id, plain, <<>>)) : id \in ids}
                 \cup {Two(plain, fix) : fix \in {<<>>, <<TRUE>>}}
      later(j) == {Step("migrate", [sender |-> x, of |-> j, codeId |-> id, msg |-> drop]) :
                      x \in {"alice", "bob"}, id \in ids}
                  \cup {Step("updateAdmin", [sender |-> x, of |-> j, newAdmin |-> y]) :
                           x \in {"alice", "bob"}, y \in {"alice", "bob"}}
                  \cup {Step("clearAdmin", [sender |-> x, of |-> j]) : x \in {"alice", "bob"}}
                  \cup {Step("execute", [sender |-> "bob", of |-> j, msg |-> msg, funds |-> fund]) :
                           msg \in WasmPayloads}
                  \cup {Step("variant", [sender |-> "bob", of |-> j, variant |-> "v", args |-> args, funds |-> <<>>]) :
                           args \in {<<>>} \cup {<<x>> : x \in WasmPayloads}}
                  \cup {Two(plain, <<>>), Two(drop, <<>>), Two(drop, <<TRUE>>), Two(plain, <<TRUE>>),
                        Two([object |-> [p |-> [number |-> 2]]], <<TRUE>>)}
      core(j) == {x \in later(j) : x.call # "variant" /\ ("msg" \in DOMAIN x.o => ~HasBigInt(x.o.msg))
                                     /\ ("codeId" \in DOMAIN x.o => x.o.codeId \in {[number |-> 1], [digits |-> 2]})}
  IN {[op |-> "wasmChain", numeric |-> [number |-> 2], steps |-> <<Store("x", <<>>), Store("y", <<>>), m, y, z>>] :
        m \in {Step("instantiate", One(admin, [number |-> 1], plain, <<>>)) : admin \in {<<>>, <<"alice">>, <<"bob">>}}
               \cup {Two(plain, <<>>), Two(plain, <<TRUE>>)}, y \in core(3), z \in core(3)}
     \cup {[op |-> "wasmChain", numeric |-> n, steps |-> <<Store("x", p), Store("x", <<>>), m, y>>] :
              n \in {[digits |-> 1], [number |-> 3], [fraction |-> 1]}, p \in {<<>>, <<{"bob"}>>, <<{"alice", "bob"}>>},
              m \in makings, y \in later(3)}

WasmQueryRequests ==
  [op : {"wasmQuery"}, msg : WasmPayloads \cup {[object |-> [p |-> [number |-> 1]]]},
   address : {[bech32 |-> "c"], [hex |-> "c"]},
   answers : {[q \in {[object |-> [p |-> [number |-> 1]]]} |-> a] : a \in {[json |-> [number |-> 1]], [raw |-> "x"]}}]

WasmSchemaRequests ==
  LET lists == {<<>>, <<Variant("a")>>, <<Variant("b"), [properties |-> <<"a", "b">>, required |-> <<"a">>]>>,
                <<[properties |-> <<>>, required |-> <<"a">>], Variant("b")>>}
      names == {[snake |-> <<"a">>], [snake |-> <<"a", "response">>], [pascal |-> <<"a", "response">>],
                [snake |-> <<"b", "response">>], [pascal |-> <<"a">>]}
  IN [op : {"wasmSchema"}, names : {{"a", "b", "c"}}, queries : {{<<"a">>, <<"b">>, <<"a", "response">>}},
      schema : [oneOf : lists, anyOf : lists, properties : {<<>>, <<"a", "c">>}], responses : SUBSET names]

InferRequests ==
  LET Arr(items) == [type |-> "array", items |-> items]
      Obj(ps, r) == [type |-> "object", properties |-> ps, required |-> r]
      leaves == {[type |-> "string"], [type |-> "integer"], [const |-> "x"], [enum |-> <<"x", "y">>], [other |-> TRUE]}
      level1 == leaves \cup {Arr(<<>>), Obj(<<>>, {})} \cup {Arr(<<x>>) : x \in leaves}
                  \cup {[k \in {way} |-> <<x, y>>] : way \in {"oneOf", "anyOf"}, x \in leaves, y \in leaves}
                  \cup {Obj(<<<<"k", x>>, <<"l", y>>>>, {"k"}) : x \in leaves, y \in leaves}
      level2 == level1 \cup {Arr(<<x>>) : x \in level1}
                  \cup {[oneOf |-> <<x, y>>] : x \in level1, y \in leaves}
                  \cup {Obj(<<<<"k", x>>, <<"l", y>>>>, {"l"}) : x \in level1, y \in level1}
  IN {[op |-> "infer", schema |-> x] : x \in level2}

PublishRequests ==
  LET Options(sender, names, code, policy) ==
        [sender |-> sender, upgradePolicy |-> policy,
         codeBytes |-> [i \in DOMAIN names |-> [name |-> names[i], code |-> code]]]
      at(k) == {Options(s, names, k, p) : s \in {"alice", "bob"}, names \in {<<"m">>, <<"m", "n">>},
                  p \in {<<>>, <<"compatible">>, <<"immutable">>, <<"unspecified">>}}
  IN {[op |-> "publish", options |-> <<x, y, z>>] : x \in at(1), y \in at(2), z \in at(3)}

ScriptRequests ==
  LET some == {[number |-> 1], [bytes |-> <<1, 2>>], [bigint |-> 1], [array |-> <<[bigint |-> 2]>>],
               [array |-> <<[undefined |-> TRUE], [number |-> 1]>>],
               [object |-> [k |-> [undefined |-> TRUE], l |-> [number |-> 1]]]}
  IN [op : {"script"}, args : {<<>>} \cup {<<s>> : s \in UpTo(some, 2)},
      answer : {[json |-> [number |-> 1]], [raw |-> "x"]}]

MoveTargetRequests ==
  {[op |-> "moveTarget", parts |-> ps, address |-> a, chars |-> cs] :
     ps \in {SubSeq(<<"0x1", "coin", "transfer", "more">>, 1, n) : n \in 1 .. 4} \cup {<<"", "", "">>},
     a \in {[hex |-> "a"], [bech32 |-> "a"], [text |-> "a"]}, cs \in UpTo({"letter", "_", "digit", "-"}, 3)}

MoveStateRequests ==
  LET keys == {<<[hex |-> "a"], <<"address">>>>, <<[bech32 |-> "a"], <<"address">>>>, <<[hex |-> "b"], <<"address">>>>,
               <<[number |-> 1], <<"u64">>>>, <<[bigint |-> 1], <<"u64">>>>, <<[bigint |-> 2], <<"u64">>>>,
               <<[array |-> <<[hex |-> "a"]>>], <<"vector", "<", "address", ">">>>>}
      Stored(k, text) == [key |-> k[1], type |-> k[2], text |-> text]
  IN {[op |-> "moveState", resources |-> rs, address |-> a, tag |-> tag, key |-> k[1], keyType |-> k[2],
       entries |-> {Stored(e, [json |-> [number |-> 1]]), Stored(f, [raw |-> "x"])}] :
        rs \in {[x \in {<<"a", "T">>} |-> [json |-> [number |-> 7]]],
                [x \in {<<"a", "T">>, <<"b", "T">>} |-> [raw |-> "x"]]},
        a \in {[hex |-> "a"], [bech32 |-> "a"], [hex |-> "b"]}, tag \in {"T", "U"}, k \in keys, e \in keys, f \in keys}

MCRequests ==
  FormatRequests \cup ConvertRequests \cup DecimalRequests \cup FeeRequests
    \cup CoinsRequests \cup CoinCallRequests \cup ParseCoinRequests \cup DefaultRequests
    \cup AddressRequests \cup EventRequests \cup TypeRequests \cup ValueRequests \cup ViewRequests
    \cup MoveCallRequests \cup EvmRequests \cup WasmRequests \cup SignRequests \cup TypedDataRequests
    \cup SignTxRequests \cup ContextTxRequests \cup EvmTxRequests \cup InitRequests \cup CarryRequests
    \cup ConfigRequests \cup WithdrawalRequests \cup BridgeTxRequests
    \cup ProfileRequests \cup RegistryRequests \cup CustomRequests
    \cup ProviderRequests \cup TxRequests \cup LocalRequests \cup LoadedRequests \cup CompositeRequests \cup AssetRequests
    \cup HeaderRequests \cup HttpRequests \cup NodeRequests \cup EvmNodeRequests
    \cup RetryRequests \cup EndpointRequests \cup ResponseRequests \cup ServiceRequests \cup AskRequests
    \cup TokenRequests \cup HandleRequests
    \cup EvmLogRequests \cup RevertRequests \cup NftRequests \cup BalanceRequests
    \cup VipRequests \cup RewardRequests \cup VipReadRequests \cup RouteRequests \cup FailureRequests
    \cup WalletRequests \cup TypedRequests \cup AbigenRequests \cup LiteralRequests \cup SessionRequests
    \cup WasmChainRequests \cup WasmQueryRequests \cup WasmSchemaRequests \cup InferRequests
    \cup PublishRequests \cup ScriptRequests \cup MoveTargetRequests \cup MoveStateRequests
==============================================================================
