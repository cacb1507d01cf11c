---------------------------- MODULE MoveArguments ----------------------------
(***************************************************************************)
(* Move types and values: contracts/move/bcs.ts, the type helpers of       *)
(* contracts/move/contract.ts and the casts of tx/enrichers/move.ts.       *)
(*                                                                         *)
(* A type is a text, the sequence of its words and signs, or the tree      *)
(* [base, typeArgs] that parseMoveType() makes of it.  A JavaScript value  *)
(* is a record whose one field names its kind.                             *)
(***************************************************************************)
EXTENDS Integers, Sequences
LOCAL INSTANCE SequencesExt
LOCAL INSTANCE FiniteSetsExt

Leaf(base) == [base |-> base, typeArgs |-> <<>>]

Std(module, name) == <<"0x1", "::", module, "::", name>>

OptionBase == Std("option", "Option")

Wide == {<<"u64">>, <<"u128">>, <<"u256">>}

-----------------------------------------------------------------------------
Depth(text, i) ==
  Cardinality({j \in 1 .. (i - 1) : text[j] = "<"})
    - Cardinality({j \in 1 .. (i - 1) : text[j] = ">"})

\* The type arguments between two brackets, at the commas of depth 0.
Pieces(text) ==
  LET commas == {i \in DOMAIN text : text[i] = "," /\ Depth(text, i) = 0}
      cuts   == SetToSortSeq({0, Len(text) + 1} \cup commas, <)
  IN SelectSeq([k \in 1 .. (Len(cuts) - 1) |-> SubSeq(text, cuts[k] + 1, cuts[k + 1] - 1)],
               LAMBDA piece : piece # <<>>)

RECURSIVE ParseMoveType(_)
ParseMoveType(text) ==
  LET open  == {i \in DOMAIN text : text[i] = "<"}
      close == {i \in DOMAIN text : text[i] = ">"}
      args  == Pieces(SubSeq(text, Min(open) + 1, Max(close) - 1))
  IN IF open = {} THEN Leaf(text)
     ELSE [base     |-> SubSeq(text, 1, Min(open) - 1),
           typeArgs |-> [k \in DOMAIN args |-> ParseMoveType(args[k])]]

\* The text a node writes for a type.
RECURSIVE Printed(_)
Printed(type) ==
  LET args == [k \in DOMAIN type.typeArgs |->
                 (IF k > 1 THEN <<",">> ELSE <<>>) \o Printed(type.typeArgs[k])]
  IN IF args = <<>> THEN type.base
     ELSE type.base \o <<"<">> \o FlattenSeq(args) \o <<">">>

-----------------------------------------------------------------------------
\* Of the words /\bT\d+\b/ stands for, the index of the type argument.
GenericIndex == [T0 |-> 1, T1 |-> 2]

HasUnresolvedGenerics(text) == \E i \in DOMAIN text : text[i] \in DOMAIN GenericIndex

\* A plausible mistake: the first occurrence only, replace() without "g".
ResolveFirstGeneric(text, typeArgs) ==
  LET found == {i \in DOMAIN text : text[i] \in DOMAIN GenericIndex}
  IN FlattenSeq([i \in DOMAIN text |->
       IF i \in found /\ i = Min(found) /\ GenericIndex[text[i]] <= Len(typeArgs)
       THEN typeArgs[GenericIndex[text[i]]] ELSE <<text[i]>>])

\* The body of the map() of resolveGenericTypes(): any such word is replaced,
\* the last name of a struct as well.
ResolveGenericType(text, typeArgs) ==
  FlattenSeq([i \in DOMAIN text |->
    IF text[i] \in DOMAIN GenericIndex /\ GenericIndex[text[i]] <= Len(typeArgs)
    THEN typeArgs[GenericIndex[text[i]]] ELSE <<text[i]>>])

Objects == {Std("object", "Object"), Std("object", "ObjectCore")}

KnownBcsBases ==
  Wide \cup Objects \cup
  {<<"bool">>, <<"u8">>, <<"u16">>, <<"u32">>, <<"address">>, <<"signer">>,
   <<"vector">>, <<"string">>, Std("string", "String"), OptionBase,
   Std("fixed_point32", "FixedPoint32"), Std("fixed_point64", "FixedPoint64"),
   Std("decimal128", "Decimal128"), Std("decimal256", "Decimal256")}

RECURSIVE IsResolvable(_)
IsResolvable(type) ==
  /\ type.base \in KnownBcsBases
  /\ \/ type.base \in Objects
     \/ \A k \in DOMAIN type.typeArgs : IsResolvable(type.typeArgs[k])

AllTypesResolvable(text) == IsResolvable(ParseMoveType(text))

\* The condition under which execute() and buildMoveExecute() encode an argument
\* of that type as BCS, and a view's result is converted.
UsesBcs(text) == ~HasUnresolvedGenerics(text) /\ AllTypesResolvable(text)

\* The codecs resolveBcsType() chooses for a type and its parts; "struct" is the
\* default that takes any other struct for a string.
RECURSIVE Codecs(_)
Codecs(type) ==
  LET base == type.base
      inner == Codecs(type.typeArgs[1])
  IN IF base \in {<<"vector">>, OptionBase}
     THEN IF Len(type.typeArgs) # 1 THEN {"throws"}
          ELSE IF base = <<"vector">> /\ type.typeArgs[1] = Leaf(<<"u8">>) THEN {"bytes"}
          ELSE {"sequence"} \cup inner
     ELSE IF base \in Objects \cup {<<"address">>, <<"signer">>} THEN {"address"}
     ELSE IF base \in {<<"string">>, Std("string", "String")} THEN {"string"}
     ELSE IF base \in KnownBcsBases THEN {"number"}
     ELSE IF \E i \in DOMAIN base : base[i] = "::" THEN {"struct"}
     ELSE {"throws"}

-----------------------------------------------------------------------------
(***************************************************************************)
(* A Move value is a number (an address or a text too is only an identity),*)
(* a sequence, or for an option a sequence of at most one.  Its JSON comes *)
(* from the node (external), which writes wide integers as strings and an  *)
(* option plainly or, in an older form, as {vec: [...]}.                   *)
(***************************************************************************)
Null == [null |-> TRUE]

RECURSIVE NodeJson(_, _, _)
NodeJson(value, type, vecForm) ==
  LET items == [i \in DOMAIN value |-> NodeJson(value[i], type.typeArgs[1], vecForm)]
  IN IF type.base = <<"vector">> THEN [array |-> items]
     ELSE IF type.base = OptionBase
     THEN IF vecForm THEN [vec |-> items] ELSE IF items = <<>> THEN Null ELSE items[1]
     ELSE IF type.base \in Wide THEN [string |-> value]
     ELSE [number |-> value]

\* What the BCS library returns (external).
RECURSIVE BcsParsed(_, _)
BcsParsed(value, type) ==
  LET items == [i \in DOMAIN value |-> BcsParsed(value[i], type.typeArgs[1])]
  IN IF type.base = <<"vector">> THEN [array |-> items]
     ELSE IF type.base = OptionBase THEN IF items = <<>> THEN Null ELSE items[1]
     ELSE IF type.base \in Wide THEN [string |-> value]
     ELSE [number |-> value]

BigIntOf(json) ==
  CASE "string" \in DOMAIN json -> [bigint |-> json.string]
    [] "number" \in DOMAIN json -> [bigint |-> json.number]
    [] OTHER -> json

RECURSIVE ConvertJsonValue(_, _)
ConvertJsonValue(json, type) ==
  LET Inner(j) == ConvertJsonValue(j, type.typeArgs[1])
  IN CASE type.base \in Wide -> BigIntOf(json)
       [] type.base = <<"vector">> /\ "array" \in DOMAIN json ->
            [array |-> [i \in DOMAIN json.array |-> Inner(json.array[i])]]
       [] type.base = OptionBase ->
            IF json = Null \/ json = [vec |-> <<>>] THEN Null
            ELSE IF "vec" \in DOMAIN json THEN Inner(json.vec[1]) ELSE Inner(json)
       [] OTHER -> json

RECURSIVE CastValue(_, _)
CastValue(json, type) ==
  LET Inner(j) == CastValue(j, type.typeArgs[1])
  IN CASE json = Null -> Null
       [] json # Null /\ type.base \in Wide -> BigIntOf(json)
       [] json # Null /\ type.base = <<"vector">> /\ type.typeArgs[1] # Leaf(<<"u8">>) ->
            [array |-> [i \in DOMAIN json.array |-> Inner(json.array[i])]]
       [] json # Null /\ type.base = OptionBase -> Inner(json)
       [] OTHER -> json
==============================================================================
