------------------------------- MODULE Messages ------------------------------
(***************************************************************************)
(* Messages from what a caller writes, and the tables by which the chain   *)
(* configurations build and decode them: msgs/types.ts, msgs/decode.ts and *)
(* chain-config.ts.                                                        *)
(*                                                                         *)
(* A schema is [name, fields], fields a function from names to records     *)
(* [card, type]: card is "one", "list" or "map", type "coin", "bytes",     *)
(* "bigint", "text", "any", "timestamp" or the name of a schema.           *)
(* A value is a record whose one field names its kind.  What a caller may  *)
(* write: [null], [coin] of a [denom, amount], [hex], [number], [fraction] *)
(* (a number that is no integer), [text], [message] (of this library),     *)
(* [date], [array] of a sequence, [object] of a function.  What a message  *)
(* has: the same but [bytes], [bigint], [any], [timestamp] for the kinds   *)
(* hex, number, message and date, and coins with amounts in text.          *)
(***************************************************************************)
EXTENDS Integers, Sequences, TLC, Amounts
LOCAL INSTANCE SequencesExt

CONSTANTS
  Schemas,       \* of each name of a nested message, its schema
  MaxSafe        \* the largest integer a number is exact for

IsKind(kind, value) == kind \in DOMAIN value

\* An amount is [number] or [text], of which only those of naturals are taken.
ToProtoCoin(value) ==
  IF ~IsKind("coin", value) THEN Throws
  ELSE LET amount == value.coin.amount
           n      == IF IsKind("number", amount) THEN amount.number ELSE amount.text
       IN IF value.coin.denom = "" \/ n < 0 \/ (IsKind("number", amount) /\ n > MaxSafe)
          THEN Throws
          ELSE <<[coin |-> [denom |-> value.coin.denom, amount |-> [text |-> n]]]>>

\* The scalars, whose values nobody checks but for fractions.
ScalarOf(type, value) ==
  CASE type = "bytes" /\ IsKind("hex", value) -> <<[bytes |-> value.hex]>>
    [] type = "bigint" /\ IsKind("number", value) -> <<[bigint |-> value.number]>>
    [] type = "bigint" /\ IsKind("fraction", value) -> Throws
    [] OTHER -> <<value>>

\* The messages with a form of their own; checked is FALSE within a map.
WellKnown(type, value, checked) ==
  LET Converted(from, to) ==
        IF IsKind(from, value) THEN <<value[from]>>
        ELSE IF IsKind(to, value) THEN <<value[to]>> ELSE Throws
  IN IF type = "any" THEN
       IF Converted("message", "any") # Throws THEN <<[any |-> Converted("message", "any")[1]]>>
       ELSE IF checked THEN Throws ELSE <<value>>
     ELSE
       IF Converted("date", "timestamp") # Throws
       THEN <<[timestamp |-> Converted("date", "timestamp")[1]]>>
       ELSE IF checked THEN Throws ELSE <<value>>

RECURSIVE NormalizeInit(_, _)

\* One value, an element of a list or a value of a map.
NormalizeOne(type, value, checked) ==
  CASE type = "coin" -> ToProtoCoin(value)
    [] type \in {"any", "timestamp"} -> WellKnown(type, value, checked)
    [] type \in DOMAIN Schemas -> NormalizeInit(Schemas[type], value)
    [] OTHER -> ScalarOf(type, value)

Wrapped(kind, results) == IF results = Throws THEN Throws ELSE <<[x \in {kind} |-> results[1]]>>

NormalizeField(field, value) ==
  CASE IsKind("null", value) -> <<value>>
    [] field.card = "one" /\ ~IsKind("null", value) -> NormalizeOne(field.type, value, TRUE)
    [] field.card = "list" /\ IsKind("array", value) ->
         Wrapped("array", AllOf([i \in DOMAIN value.array |->
                                   NormalizeOne(field.type, value.array[i], TRUE)]))
    [] field.card = "list" /\ field.type = "coin" /\ IsKind("coin", value) ->
         Wrapped("array", AllOf(<<ToProtoCoin(value)>>))
    [] field.card = "map" /\ IsKind("object", value) ->
         Wrapped("object", AllOf([k \in DOMAIN value.object |->
                                    IF IsKind("null", value.object[k]) THEN <<value.object[k]>>
                                    ELSE NormalizeOne(field.type, value.object[k], FALSE)]))
    [] OTHER -> Throws

\* The entries of a date, and of an array without elements, are none.
NormalizeInit(schema, init) ==
  LET empty   == IsKind("date", init) \/ (IsKind("array", init) /\ init.array = <<>>)
      entries == IF empty THEN [k \in {} |-> init] ELSE init.object
  IN IF ~empty /\ ~IsKind("object", init) THEN Throws
     ELSE IF ~(DOMAIN entries \subseteq DOMAIN schema.fields) THEN Throws
     ELSE Wrapped("object", AllOf([k \in DOMAIN entries |->
                                     NormalizeField(schema.fields[k], entries[k])]))

-----------------------------------------------------------------------------
(***************************************************************************)
(* class Message.  A message is [schema, value, amino], amino the form its *)
(* toAmino() was overridden with or "", or [packed] of an Any nobody has   *)
(* looked into.  An Any is [url, value]: url [prefix, name], prefix what   *)
(* stands before the name of a schema, "/" included, or [other]; value     *)
(* [bytes] of a message's value, [garbage] bytes, or [other].              *)
(***************************************************************************)
NewMessage(schema, init, amino) ==
  [schema |-> schema, amino |-> amino,
   value  |-> [k \in {x \in DOMAIN init : ~IsKind("null", init[x])} |-> init[k]]]

BuildMsg(schema, init) ==
  LET normal == NormalizeInit(Schemas[schema], init)
  IN IF normal = Throws THEN Throws ELSE <<NewMessage(schema, normal[1].object, "")>>

MsgWithDefaults(schema, defaults, init) == BuildMsg(schema, [object |-> init @@ defaults])

IsDecoded(m) == "packed" \notin DOMAIN m

TypeUrl(m) == IF IsDecoded(m) THEN [prefix |-> "/", name |-> m.schema] ELSE m.packed.url

ToAny(m) ==
  IF IsDecoded(m) THEN [url |-> TypeUrl(m), value |-> [bytes |-> m.value]] ELSE m.packed

ToAminoMsg(m) ==
  IF ~IsDecoded(m) THEN Throws
  ELSE <<[type |-> IF m.amino = "" THEN m.schema ELSE m.amino, value |-> m.value]>>

ToJson(m) == IF IsDecoded(m) THEN <<[typeUrl |-> TypeUrl(m), value |-> m.value]>> ELSE Throws

IsMessageOf(m, schema) == IsDecoded(m) /\ TypeUrl(m) = [prefix |-> "/", name |-> schema]

\* fromAny() with a schema, and without one.
DecodedFrom(schema, any) ==
  IF any.url.name = schema /\ "bytes" \in DOMAIN any.value
  THEN <<NewMessage(schema, any.value.bytes, "")>> ELSE Throws

PackedFrom(any) ==
  IF "name" \in DOMAIN any.url /\ "other" \notin DOMAIN any.value THEN <<[packed |-> any]>> ELSE Throws

NormalizeMsg(input) ==
  CASE "message" \in DOMAIN input -> <<input.message>>
    [] "any" \in DOMAIN input -> PackedFrom(input.any)
    [] OTHER -> Throws

\* createDecode(): the schemas by their names, each known by its type URL.
Decode(known, any) ==
  IF any.url.prefix = "/" /\ any.url.name \in known THEN DecodedFrom(any.url.name, any) ELSE Throws

\* A message that is packed and read again, in each of the ways in turn.
Carried(input, ways, known) ==
  LET Read(m, way) == CASE "as" \in DOMAIN way     -> DecodedFrom(way.as, ToAny(m))
                        [] "decode" \in DOMAIN way -> Decode(known, ToAny(m))
                        [] OTHER                   -> PackedFrom(ToAny(m))
  IN FoldLeft(LAMBDA m, way : IF m = Throws THEN Throws ELSE Read(m[1], way), NormalizeMsg(input), ways)

-----------------------------------------------------------------------------
(***************************************************************************)
(* ChainConfigBuilder: a program is the sequence of the calls of addModule *)
(* and addTypes.  A call of addModule is [network, name, query, tx], the   *)
(* network "" for the modules of all of them; query tells whether there is *)
(* a query service, tx is the sequence of the message services, each a     *)
(* function from methods to the types of their messages.  A call of        *)
(* addTypes is [types].  A type name has one schema.                       *)
(***************************************************************************)
NoTable == [x \in {} |-> 0]

NewBuilder == [modules |-> NoTable, overrides |-> NoTable, types |-> {}]

\* Of services given together, the last that has a method has it.
MsgBuilders(tx) == FoldLeft(LAMBDA all, service : service @@ all, NoTable, tx)

ExtractSchemas(tx) == UNION {{tx[i][m] : m \in DOMAIN tx[i]} : i \in DOMAIN tx}

SchemasOf(table) == UNION {ExtractSchemas(table[name].tx) : name \in DOMAIN table}

AddModule(b, call) ==
  LET entry    == call.name :> [query |-> call.query, tx |-> call.tx]
      existing == IF call.network \in DOMAIN b.overrides THEN b.overrides[call.network]
                  ELSE NoTable
      typed    == [b EXCEPT !.types = @ \cup ExtractSchemas(call.tx)]
  IN IF ~call.query /\ call.tx = <<>> THEN Throws
     ELSE IF call.network = "" THEN <<[typed EXCEPT !.modules = entry @@ @]>>
     ELSE <<[typed EXCEPT !.overrides = (call.network :> (entry @@ existing)) @@ @]>>

Built(program) ==
  FoldLeft(LAMBDA b, call :
             IF b = Throws THEN Throws
             ELSE IF "types" \in DOMAIN call THEN <<[b[1] EXCEPT !.types = @ \cup call.types]>>
             ELSE AddModule(b[1], call),
           <<NewBuilder>>, program)

\* build() collects the messages to decode from the modules of all networks.
Decodes(b) ==
  SchemasOf(b.modules) \cup UNION {SchemasOf(b.overrides[n]) : n \in DOMAIN b.overrides}

Build(b, network) ==
  LET resolved == IF network \in DOMAIN b.overrides THEN b.overrides[network] @@ b.modules
                  ELSE b.modules
  IN [services |-> {name \in DOMAIN resolved : resolved[name].query},
      msgs     |-> [name \in {x \in DOMAIN resolved : resolved[x].tx # <<>>} |->
                      MsgBuilders(resolved[name].tx)],
      decodes  |-> Decodes(b),
      registry |-> b.types]
==============================================================================
