------------------------------ MODULE MoveAbis ------------------------------
(***************************************************************************)
(* Who needs the ABI of a Move module: createMoveContract(), and getTx()   *)
(* with the Move enricher, over the cache of contracts/move/abi-fetcher.ts.*)
(* The modules are those of one address on one chain, and an address has   *)
(* several spellings (0x1, 0x001, init1...), each with keys of its own in  *)
(* the cache.  A module is upgraded until a version is immutable; an ABI   *)
(* is the version it was read from.                                        *)
(* An answer and what is done with it are one step (microtasks).           *)
(***************************************************************************)
EXTENDS Naturals, Sequences, FiniteSets

CONSTANTS
    Modules,
    Spellings,     \* of their address, in lower case as getCacheKey() has them
    Calls,
    LastVersion,   \* of a module; versions are counted from 1
    DefaultTtl,
    MaxTime,       \* bound of the clock
    Settings       \* what the application and the chain may do

Versions == 1 .. LastVersion

\* getCacheKey(): a module under an address as it was written.
Keys == [module : Modules, as : Spellings]

(***************************************************************************)
(* A message of a transaction: kind is bcs or json for the two forms of    *)
(* execute, garbled for a json with an argument that is none, other for    *)
(* what no enricher takes, broken for what decode() refuses; since is the  *)
(* first version with its function; offline tells that the application has *)
(* given an ABI for it, the first.                                         *)
(***************************************************************************)
Messages == [kind : {"bcs", "json", "garbled", "other", "broken"}, of : Keys,
             since : Versions, offline : BOOLEAN]

Modes == {"best-effort", "strict", "none"}

(***************************************************************************)
(* What a call may be:                                                     *)
(*   contract  createMoveContract() of a module with these options         *)
(*   abis      getModulesAbi() of the address                              *)
(*   getTx     of a transaction with these messages, mode is decodeArgs    *)
(***************************************************************************)
Asks == [op : {"contract"}, of : Keys, useCache : BOOLEAN, ttl : Nat]
          \cup [op : {"abis"}, as : Spellings]
          \cup [op : {"getTx"}, messages : Seq(Messages), mode : Modes]

(***************************************************************************)
(* asks       the operations each call may be                              *)
(* first      the version each module begins with, 0 if not yet published  *)
(* immutable  the modules whose last version is immutable                  *)
(* nameless   the versions that were published without an ABI              *)
(* fails      requests may fail       clears  clearAbiCache() is called    *)
(***************************************************************************)
ASSUME MoveAbisAssumption ==
    /\ LastVersion \in Nat \ {0} /\ MaxTime \in Nat /\ DefaultTtl \in Nat
    /\ \A s \in Settings :
        /\ \A c \in Calls : s.asks[c] \subseteq Asks
        /\ s.first \in [Modules -> 0 .. LastVersion] /\ s.immutable \subseteq Modules
        /\ s.nameless \subseteq Modules \X Versions
        /\ s.fails \in BOOLEAN /\ s.clears \in BOOLEAN

VARIABLES
    setting,       \* never changes
    version,       \* of each module, on the chain
    now,           \* Date.now()
    abiCache,
    call,          \* the calls and their requests
    floor          \* history: the version of each key's module when that key was last
                   \* cleared in peace

vars == <<setting, version, now, abiCache, call, floor>>

NoVersions == [m \in Modules |-> 0]
NoFloor == [k \in Keys |-> 0]

\* abi is 0 if there is no entry.
NoEntry == [abi |-> 0, timestamp |-> 0, permanent |-> FALSE]

(***************************************************************************)
(* A part of a call is one message of a transaction, or all there is.      *)
(* at    sent, answered (by the node, not yet arrived) or done             *)
(* got   the versions the node answered with                               *)
(* end   ok, with the version of the ABI that was used in by, raw if there *)
(*       is nothing to decode, decodeError or error                        *)
(***************************************************************************)
Part == [at |-> "sent", got |-> NoVersions, end |-> "raw", by |-> 0]

(***************************************************************************)
(* at     idle, fetching (the transaction), running, resolved or rejected  *)
(* floor  history: the versions its ABIs must not be older than            *)
(***************************************************************************)
Idle == [at |-> "idle", ask |-> [op |-> "none"], parts |-> <<>>, floor |-> NoFloor]

Init ==
    /\ setting \in Settings
    /\ version = setting.first /\ now = 0
    /\ abiCache = [k \in Keys |-> NoEntry]
    /\ call = [c \in Calls |-> Idle]
    /\ floor = NoFloor

-----------------------------------------------------------------------------
(* The cache. *)

Hit(k, ttl) ==
    /\ abiCache[k].abi # 0
    /\ abiCache[k].permanent \/ now - abiCache[k].timestamp <= ttl

\* getCachedAbi(): an entry that is too old for one caller is deleted for all.
Swept(k, ttl) == IF Hit(k, ttl) THEN abiCache ELSE [abiCache EXCEPT ![k] = NoEntry]

\* A plausible mistake: permanent, if that version or a later one is immutable.
EntryOfImmutable(m, v) ==
    [abi |-> v, timestamp |-> now, permanent |-> m \in setting.immutable]

\* cacheModuleAbi(), with the policy of the version the node told.
EntryOf(m, v) ==
    [abi |-> v, timestamp |-> now, permanent |-> m \in setting.immutable /\ v = LastVersion]

Readable(m, v) == v # 0 /\ <<m, v>> \notin setting.nameless

Stored(k, v) ==
    IF Readable(k.module, v) THEN [abiCache EXCEPT ![k] = EntryOf(k.module, v)] ELSE abiCache

-----------------------------------------------------------------------------
(* The parts of a call. *)

Ended(end, v) == [Part EXCEPT !.at = "done", !.end = end, !.by = v]

\* The enricher with an ABI: findFunction(), then the arguments.
Enriched(message, v) == IF v >= message.since THEN Ended("ok", v) ELSE Ended("error", 0)

\* decode() of a message, and its enricher up to its first await.
Opened(message, mode) ==
    LET kind == message.kind
    IN  IF kind = "broken" THEN Ended("decodeError", 0)
        ELSE IF kind = "other" \/ mode = "none" THEN Ended("raw", 0)
        ELSE IF kind = "json" THEN Ended("ok", 0)
        ELSE IF kind = "garbled" THEN Ended("error", 0)
        ELSE IF message.offline THEN Enriched(message, 1)
        ELSE IF Hit(message.of, DefaultTtl) THEN Enriched(message, abiCache[message.of].abi)
        ELSE Part

\* What has become of a part that asked about m when version v arrives.
Closed(me, i, m, v) ==
    IF ~Readable(m, v) THEN Ended("error", 0)
    ELSE IF me.ask.op = "getTx" THEN Enriched(me.ask.messages[i], v)
    ELSE Ended("ok", v)

\* A plausible mistake: errors are kept with their messages in every mode.
SettledAlways(me) ==
    IF me.at = "running" /\ \A i \in DOMAIN me.parts : me.parts[i].at = "done"
    THEN [me EXCEPT !.at = "resolved"] ELSE me

\* Promise.all() and the catch of a message, or the one await of another call.
Settled(me) ==
    LET lenient == me.ask.op = "getTx" /\ me.ask.mode # "strict"
    IN  IF me.at # "running" THEN me
        ELSE IF ~lenient /\ \E i \in DOMAIN me.parts :
                              me.parts[i].end \in {"error", "decodeError"}
        THEN [me EXCEPT !.at = "rejected"]
        ELSE IF \A i \in DOMAIN me.parts : me.parts[i].at = "done"
        THEN [me EXCEPT !.at = "resolved"]
        ELSE me

-----------------------------------------------------------------------------
(* Operations. *)

\* The floor if these keys, and no others, must not be older than they are now.
Current(keys) == [k \in Keys |-> IF k \in keys THEN version[k.module] ELSE floor[k]]

Begun(ask) == [Idle EXCEPT !.at = "running", !.ask = ask, !.floor = floor]

\* createMoveContract() without an ABI of its own.
CreateMoveContract(c, ask) ==
    LET hit == ask.useCache /\ Hit(ask.of, ask.ttl)
        me == [Begun(ask) EXCEPT
                 !.parts = <<IF hit THEN Ended("ok", abiCache[ask.of].abi) ELSE Part>>,
                 !.floor = IF ask.useCache THEN floor ELSE Current(Keys)]
    IN  /\ call' = [call EXCEPT ![c] = Settled(me)]
        /\ abiCache' = IF ask.useCache THEN Swept(ask.of, ask.ttl) ELSE abiCache

Begin(c) == \E ask \in setting.asks[c] :
    /\ call[c].at = "idle"
    /\ \/ ask.op = "contract" /\ CreateMoveContract(c, ask)
       \/ /\ ask.op = "abis"
          /\ call' = [call EXCEPT ![c] = [Begun(ask) EXCEPT !.parts = <<Part>>]]
          /\ UNCHANGED abiCache
       \/ /\ ask.op = "getTx"
          /\ call' = [call EXCEPT ![c] = [Begun(ask) EXCEPT !.at = "fetching"]]
          /\ UNCHANGED abiCache
    /\ UNCHANGED <<setting, version, now, floor>>

\* The transaction has come: in strict mode what does not decode ends the call before
\* any enricher has begun.
TxArrives(c) ==
    LET me == call[c]
        messages == me.ask.messages
        refused == me.ask.mode = "strict" /\ \E i \in DOMAIN messages : messages[i].kind = "broken"
        parts == [i \in DOMAIN messages |-> Opened(messages[i], me.ask.mode)]
        asked == {messages[i].of : i \in {j \in DOMAIN parts : parts[j].at = "sent"}}
    IN  /\ me.at = "fetching"
        /\ IF refused
           THEN /\ call' = [call EXCEPT ![c].at = "rejected"]
                /\ UNCHANGED abiCache
           ELSE /\ call' = [call EXCEPT ![c] =
                              Settled([me EXCEPT !.at = "running", !.parts = parts])]
                /\ abiCache' = [k \in Keys |-> IF k \in asked THEN NoEntry ELSE abiCache[k]]
        /\ UNCHANGED <<setting, version, now, floor>>

\* The node reads its state, some time before the answer arrives.
NodeAnswers(c, i) ==
    /\ call[c].parts[i].at = "sent"
    /\ call' = [call EXCEPT ![c].parts[i].at = "answered", ![c].parts[i].got = version]
    /\ UNCHANGED <<setting, version, now, abiCache, floor>>

\* getModuleAbi() after its await, whether or not the call has been rejected meanwhile.
AbiArrives(c, i) ==
    LET me == call[c]
        k == IF me.ask.op = "getTx" THEN me.ask.messages[i].of ELSE me.ask.of
        v == me.parts[i].got[k.module]
    IN  /\ me.parts[i].at = "answered" /\ me.ask.op # "abis"
        /\ abiCache' = Stored(k, v)
        /\ call' = [call EXCEPT ![c] =
                       Settled([me EXCEPT !.parts[i] = Closed(me, i, k.module, v)])]
        /\ UNCHANGED <<setting, version, now, floor>>

\* getModulesAbi(): modules that cannot be read are left out.
AbisArrive(c) ==
    LET got == call[c].parts[1].got
    IN  /\ call[c].ask.op = "abis" /\ call[c].parts[1].at = "answered"
        /\ abiCache' = [k \in Keys |->
                          IF k.as = call[c].ask.as /\ Readable(k.module, got[k.module])
                          THEN EntryOf(k.module, got[k.module]) ELSE abiCache[k]]
        /\ call' = [call EXCEPT ![c].at = "resolved", ![c].parts[1] = Ended("ok", 0)]
        /\ UNCHANGED <<setting, version, now, floor>>

TxFails(c) ==
    /\ setting.fails /\ call[c].at = "fetching"
    /\ call' = [call EXCEPT ![c].at = "rejected"]
    /\ UNCHANGED <<setting, version, now, abiCache, floor>>

RequestFails(c, i) ==
    /\ setting.fails /\ call[c].parts[i].at = "sent"
    /\ call' = [call EXCEPT ![c] = Settled([call[c] EXCEPT !.parts[i] = Ended("error", 0)])]
    /\ UNCHANGED <<setting, version, now, abiCache, floor>>

UnderWay(c) == \E i \in DOMAIN call[c].parts : call[c].parts[i].at # "done"

\* A plausible mistake: the search ends with the first entry that is found.
ClearFirst(keys) ==
    /\ setting.clears
    /\ \E k \in keys : /\ \A j \in keys : abiCache[j].abi # 0 => abiCache[k].abi # 0
                       /\ abiCache' = [abiCache EXCEPT ![k] = NoEntry]
    /\ floor' = IF \E c \in Calls : UnderWay(c) THEN floor ELSE Current(keys)
    /\ UNCHANGED <<setting, version, now, call>>

\* clearAbiCache() of the keys that begin with an address as it is written, or of all.
\* Requests under way are not told; in peace there are none.
ClearAbiCache(keys) ==
    /\ setting.clears
    /\ abiCache' = [k \in Keys |-> IF k \in keys THEN NoEntry ELSE abiCache[k]]
    /\ floor' = IF \E c \in Calls : UnderWay(c) THEN floor ELSE Current(keys)
    /\ UNCHANGED <<setting, version, now, call>>

Upgrade(m) ==
    /\ version[m] < LastVersion
    /\ version' = [version EXCEPT ![m] = @ + 1]
    /\ UNCHANGED <<setting, now, abiCache, call, floor>>

Tick ==
    /\ now < MaxTime
    /\ now' = now + 1
    /\ UNCHANGED <<setting, version, abiCache, call, floor>>

Next ==
    \/ \E c \in Calls : \/ Begin(c) \/ TxArrives(c) \/ TxFails(c) \/ AbisArrive(c)
                        \/ \E i \in DOMAIN call[c].parts :
                             NodeAnswers(c, i) \/ AbiArrives(c, i) \/ RequestFails(c, i)
    \/ \E m \in Modules : Upgrade(m)
    \/ \E s \in Spellings : ClearAbiCache({k \in Keys : k.as = s})
    \/ ClearAbiCache(Keys) \/ Tick

Spec == Init /\ [][Next]_vars

-----------------------------------------------------------------------------
\* An entry that never expires is of the version that is on the chain, and will be,
\* even if older answers arrive late.
PermanentIsCurrent ==
    \A k \in Keys : abiCache[k].permanent => abiCache[k].abi = version[k.module]

\* The documented ways out of a stale ABI work: a contract made with useCache: false, and
\* everything that begins after clearAbiCache(), or clearAbiCache() of the address in the
\* spelling it uses itself, when no request was under way, uses an ABI that is not older
\* than the module was then.  What another spelling has left in the cache is not promised
\* to be new.
NothingStaleOnRequest ==
    \A c \in Calls : \A i \in DOMAIN call[c].parts :
        LET me == call[c]
            part == me.parts[i]
        IN  /\ me.ask.op = "contract" /\ part.end = "ok" /\ part.at = "done"
                 => part.by >= me.floor[me.ask.of]
            /\ me.ask.op = "getTx" /\ part.by # 0 /\ ~me.ask.messages[i].offline
                 => part.by >= me.floor[me.ask.messages[i].of]

\* Whatever fails, a transaction that came is returned whole, each message with its
\* arguments by an ABI that has its function, or with an error; in strict mode it is
\* refused instead if, and only if, a message has an error.
TransactionIsWhole ==
    \A c \in Calls :
        LET me == call[c]
            Flawed == \E i \in DOMAIN me.parts : me.parts[i].end \in {"error", "decodeError"}
        IN  me.ask.op = "getTx" =>
              /\ me.at = "resolved" => /\ Len(me.parts) = Len(me.ask.messages)
                                       /\ ~UnderWay(c)
                                       /\ me.ask.mode = "strict" => ~Flawed
              /\ me.at = "rejected" /\ me.parts # <<>> => me.ask.mode = "strict" /\ Flawed
              /\ \A i \in DOMAIN me.parts :
                    me.parts[i].by # 0 => me.parts[i].by >= me.ask.messages[i].since
=============================================================================
