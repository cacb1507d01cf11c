-------------------------------- MODULE Codegen --------------------------------
(***************************************************************************)
(* codegen/: the program abigen, from its arguments to its exit, output    *)
(* and files, with the Move, EVM and CosmWasm generators behind it.        *)
(*                                                                         *)
(* An argument that starts with "--" is [flag], any other is [parts], the  *)
(* trimmed texts between its commas.  Names are identities with their      *)
(* words in NameWords; "" is the empty text.  What the program meets is a      *)
(* record: the modules at the address, the JSON files with their paths,    *)
(* the explorer's reply, the disk (a function from paths to contents) and  *)
(* the number of the write that fails, 0 if none does.                     *)
(***************************************************************************)
EXTENDS Integers, Sequences, TLC, Amounts, ContractCalls
LOCAL INSTANCE SequencesExt

CONSTANT NameWords      \* of each name, its words in lower case

-----------------------------------------------------------------------------
(***************************************************************************)
(* format.ts and the file names: a change of case, "_" and "-" all part    *)
(* two words of a name.                                                    *)
(***************************************************************************)
DeriveExportName(name) == [upper |-> NameWords[name]]

ToFileName(dir, name) == [dir |-> dir, kebab |-> NameWords[name]]

IndexOf(dir) == [dir |-> dir, index |-> TRUE]

\* Of a JSON value the text between quotes; layout is left out.
RECURSIVE FormatObjectLiteral(_)
FormatObjectLiteral(v) ==
  CASE "string" \in DOMAIN v ->
         LET Escaped(s, c) ==
               FlattenSeq([i \in DOMAIN s |-> IF s[i] = c THEN <<"\\", c>> ELSE <<s[i]>>])
         IN [string |-> Escaped(Escaped(v.string, "\\"), "'")]
    [] "array" \in DOMAIN v ->
         [array |-> [i \in DOMAIN v.array |-> FormatObjectLiteral(v.array[i])]]
    [] "object" \in DOMAIN v ->
         [object |-> [i \in DOMAIN v.object |->
                        <<v.object[i][1], FormatObjectLiteral(v.object[i][2])>>]]
    [] OTHER -> v

AbiFile(type, exportName, value) ==
  [importType |-> type, exportName |-> exportName, value |-> FormatObjectLiteral(value)]

-----------------------------------------------------------------------------
(***************************************************************************)
(* move.ts.  A module is [name, abi]; its ABI is absent, or Throws if it   *)
(* is no JSON, or an option of a record of its fields.                     *)
(***************************************************************************)
GenerateMoveAbiString(parsed, exportName) ==
  IF parsed = Throws \/ ~({"address", "name"} \subseteq DOMAIN parsed[1]) THEN Throws
  ELSE <<AbiFile("ReadonlyMoveModuleAbi", Or(exportName, DeriveExportName(parsed[1].name)),
                 parsed[1].value)>>

GenerateMoveAbi(modules, text, exportName) ==
  LET found == SelectSeq(modules, LAMBDA m : <<m.name>> = text)
  IN IF found = <<>> \/ found[1].abi = <<>> THEN Throws
     ELSE GenerateMoveAbiString(found[1].abi[1], exportName)

Generated(name, content) ==
  [moduleName |-> name, exportName |-> DeriveExportName(name), content |-> content]

\* One after the other; the first that fails ends it.
GenerateMoveAbiBatch(modules, names) ==
  LET files == [i \in DOMAIN names |-> GenerateMoveAbi(modules, <<names[i]>>, <<>>)]
  IN AllOf([i \in DOMAIN names |->
                   IF files[i] = Throws THEN Throws ELSE <<Generated(names[i], files[i][1])>>])

GenerateMoveAbiAll(modules) ==
  LET File(m) == GenerateMoveAbiString(m.abi[1], <<>>)
      good    == SelectSeq(modules, LAMBDA m : m.abi # <<>> /\ File(m) # Throws)
  IN [i \in DOMAIN good |-> Generated(good[i].abi[1][1].name, File(good[i])[1])]

-----------------------------------------------------------------------------
(***************************************************************************)
(* evm.ts.  A JSON value is [array], [object] with the optional fields abi *)
(* and contractName, or something else.                                    *)
(***************************************************************************)
ExtractAbi(json) ==
  CASE "array" \in DOMAIN json -> <<[abi |-> json, contractName |-> <<>>]>>
    [] "object" \in DOMAIN json /\ "abi" \in DOMAIN json.object ->
         IF "array" \notin DOMAIN json.object.abi THEN Throws
         ELSE <<[abi |-> json.object.abi, contractName |-> json.object.contractName]>>
    [] OTHER -> Throws

GenerateEvmAbiFromJson(json, exportName) ==
  LET abi == ExtractAbi(json)
  IN IF abi = Throws THEN Throws
     ELSE LET name == abi[1].contractName
          IN <<AbiFile("Abi",
                 Or(exportName, IF name \in {<<>>, <<"">>} THEN [text |-> <<"CONTRACT_ABI">>]
                               ELSE DeriveExportName(name[1])),
                 abi[1].abi)>>

GenerateEvmAbiFromExplorer(reply, exportName) ==
  IF ~reply.ok \/ reply.status # "1" \/ reply.result = Throws THEN Throws
  ELSE GenerateEvmAbiFromJson(reply.result[1], exportName)

-----------------------------------------------------------------------------
(***************************************************************************)
(* wasm.ts, on the schemas of ContractCalls; that a list of variants is    *)
(* there but empty is left out.                                            *)
(***************************************************************************)
ExtractVariant(variant) ==
  IF variant.required = <<>> THEN Throws
  ELSE <<[required |-> variant.required, properties |-> variant.required]>>

ExtractWasmMsgSchema(schema) ==
  LET given    == IF schema.oneOf # <<>> THEN schema.oneOf ELSE schema.anyOf
      variants == AllOf([i \in DOMAIN given |-> ExtractVariant(given[i])])
  IN IF given = <<>> \/ variants = Throws THEN Throws
     ELSE <<IF schema.oneOf # <<>> THEN [Absent EXCEPT !.oneOf = variants[1]]
            ELSE [Absent EXCEPT !.anyOf = variants[1]]>>

\* Of given schemas, execute and query, at least one.
GenerateWasmAbiFromJson(schemas, exportName) ==
  LET minimal == [kind \in DOMAIN schemas |-> ExtractWasmMsgSchema(schemas[kind])]
  IN IF \E kind \in DOMAIN schemas : minimal[kind] = Throws THEN Throws
     ELSE <<[importType |-> "ReadonlyWasmContractSchema",
             exportName |-> Or(exportName, [text |-> <<"CONTRACT_SCHEMA">>]),
             value |-> [kind \in DOMAIN schemas |-> minimal[kind][1]]]>>

-----------------------------------------------------------------------------
(***************************************************************************)
(* cli.ts.                                                                 *)
(***************************************************************************)
IsFlag(arg) == "flag" \in DOMAIN arg

IsHelp(arg) == IF IsFlag(arg) THEN arg.flag = "help" ELSE arg.parts = <<"-h">>

RECURSIVE ParseFrom(_, _)
ParseFrom(argv, p) ==
  IF argv = <<>> THEN p
  ELSE LET arg  == Head(argv)
           rest == Tail(argv)
           With(parts) == [p EXCEPT !.flags = (arg.flag :> parts) @@ @]
       IN CASE IsHelp(arg) -> ParseFrom(rest, [p EXCEPT !.help = TRUE])
            [] ~IsHelp(arg) /\ ~IsFlag(arg) ->
                 ParseFrom(rest, IF p.command = <<>> THEN [p EXCEPT !.command = <<arg.parts>>] ELSE p)
            [] OTHER ->
                 IF rest # <<>> /\ ~IsFlag(rest[1])
                 THEN ParseFrom(Tail(rest), With(rest[1].parts))
                 ELSE ParseFrom(rest, With(<<"true">>))

ParseArgs(argv) == ParseFrom(argv, [command |-> <<>>, flags |-> <<>>, help |-> FALSE])

\* The value of a flag; an empty one is none, except for the name of an EVM or CosmWasm export.
GivenFlag(flags, name) ==
  IF name \in DOMAIN flags /\ flags[name] # <<"">> THEN <<flags[name]>> ELSE <<>>

NameFlag(flags) == IF "name" \in DOMAIN flags THEN <<[text |-> flags["name"]]>> ELSE <<>>

HandleMove(flags, modules) ==
  LET names == IF GivenFlag(flags, "modules") = <<>> THEN <<>>
               ELSE SelectSeq(flags["modules"], LAMBDA x : x # "")
      batch == GenerateMoveAbiBatch(modules, names)
      file  == GenerateMoveAbi(modules, flags["module"],
                 IF GivenFlag(flags, "name") = <<>> THEN <<>> ELSE NameFlag(flags))
  IN IF GivenFlag(flags, "address") = <<>> \/ GivenFlag(flags, "endpoint") = <<>> THEN Throws
     ELSE IF GivenFlag(flags, "all") = <<<<"true">>>> THEN <<[batch |-> GenerateMoveAbiAll(modules)]>>
     ELSE IF GivenFlag(flags, "modules") # <<>>
     THEN IF names = <<>> \/ batch = Throws THEN Throws ELSE <<[batch |-> batch[1]]>>
     ELSE IF GivenFlag(flags, "module") = <<>> \/ file = Throws THEN Throws
     ELSE <<[single |-> file[1]]>>

\* A file that is missing, or no JSON, throws.
ReadJson(files, path) == IF path \in DOMAIN files THEN files[path] ELSE Throws

HandleEvm(flags, world) ==
  LET json == ReadJson(world.abis, flags["json"])
      file == IF GivenFlag(flags, "json") # <<>>
              THEN IF json = Throws THEN Throws ELSE GenerateEvmAbiFromJson(json[1], NameFlag(flags))
              ELSE IF GivenFlag(flags, "address") # <<>> /\ GivenFlag(flags, "explorer") # <<>>
              THEN GenerateEvmAbiFromExplorer(world.explorer, NameFlag(flags))
              ELSE Throws
  IN IF file = Throws THEN Throws ELSE <<[single |-> file[1]]>>

HandleWasm(flags, world) ==
  LET kinds == {k \in {"execute", "query"} : GivenFlag(flags, k) # <<>>}
      read  == [k \in kinds |-> ReadJson(world.schemas, flags[k])]
      file  == GenerateWasmAbiFromJson([k \in kinds |-> read[k][1]], NameFlag(flags))
  IN IF kinds = {} \/ (\E k \in kinds : read[k] = Throws) \/ file = Throws THEN Throws
     ELSE <<[single |-> file[1]]>>

\* The writes <<path, content>> of a run, one after the other: a file of each module, and
\* last the index.
WritesOf(result, flags) ==
  IF "single" \in DOMAIN result
  THEN IF GivenFlag(flags, "out") = <<>> THEN <<>> ELSE <<<<[out |-> flags["out"]], result.single>>>>
  ELSE LET ms  == result.batch
           dir == flags["outdir"]
       IN Append([i \in DOMAIN ms |-> <<ToFileName(dir, ms[i].moduleName), ms[i].content>>],
                 <<IndexOf(dir), [exports |-> [i \in DOMAIN ms |->
                     <<ms[i].exportName, ToFileName(dir, ms[i].moduleName)>>]]>>)

WriteAll(disk, writes) == FoldLeft(LAMBDA d, w : (w[1] :> w[2]) @@ d, disk, writes)

Abigen(argv, world) ==
  LET p      == ParseArgs(argv)
      asks   == p.command \in {<<>>, <<<<"">>>>} \/ p.help
      result == CASE p.command = <<<<"move">>>> -> HandleMove(p.flags, world.modules)
                  [] p.command = <<<<"evm">>>>  -> HandleEvm(p.flags, world)
                  [] p.command = <<<<"wasm">>>> -> HandleWasm(p.flags, world)
                  [] OTHER -> Throws
      homeless == "batch" \in DOMAIN result[1] /\ GivenFlag(p.flags, "outdir") = <<>>
      writes == WritesOf(result[1], p.flags)
      whole  == world.fails = 0 \/ world.fails > Len(writes)
      Ends(exit, out, disk) == [exit |-> exit, out |-> out, disk |-> disk]
  IN IF asks THEN Ends(0, <<[help |-> p.command]>>, world.disk)
     ELSE IF result = Throws \/ homeless THEN Ends(1, <<>>, world.disk)
     ELSE Ends(IF whole THEN 0 ELSE 1,
               IF "single" \in DOMAIN result[1] /\ writes = <<>> THEN <<result[1].single>> ELSE <<>>,
               WriteAll(world.disk, IF whole THEN writes ELSE SubSeq(writes, 1, world.fails - 1)))
==============================================================================
