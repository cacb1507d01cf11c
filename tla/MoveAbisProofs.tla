--------------------------- MODULE MoveAbisProofs ---------------------------
(***************************************************************************)
(* Proofs about the ABI cache and those who use it, for any modules,       *)
(* calls, transactions, times to live and histories of the modules.        *)
(***************************************************************************)
EXTENDS MoveAbis, SequenceTheorems, TLAPS

Published == 0 .. LastVersion

PartState ==
    [at : {"sent", "answered", "done"}, got : [Modules -> Published],
     end : {"ok", "raw", "decodeError", "error"}, by : Published]

CallState ==
    [at : {"idle", "fetching", "running", "resolved", "rejected"},
     ask : Asks \cup {[op |-> "none"]}, parts : Seq(PartState),
     floor : [Keys -> Published]]

Entry == [abi : Published, timestamp : Nat, permanent : BOOLEAN]

TypeOK ==
    /\ setting \in Settings
    /\ version \in [Modules -> Published]
    /\ now \in Nat
    /\ abiCache \in [Keys -> Entry]
    /\ floor \in [Keys -> Published]
    /\ call \in [Calls -> CallState]

\* An entry is what the module was since its key was last cleared in peace, and a
\* permanent one is its last version.
EntriesAreSound ==
    \A k \in Keys :
        /\ floor[k] <= version[k.module]
        /\ abiCache[k].abi # 0 => floor[k] <= abiCache[k].abi
        /\ abiCache[k].permanent =>
              abiCache[k].abi = LastVersion /\ version[k.module] = LastVersion

\* Where a call is tells which parts it has, and whether one may have failed, ...
FlawedPart(me) == \E i \in DOMAIN me.parts : me.parts[i].end \in {"error", "decodeError"}

WellShaped(me) ==
    /\ me.ask.op = "none" => me.at = "idle"
    /\ me.at = "fetching" => me.ask.op = "getTx"
    /\ me.at \in {"idle", "fetching"} => me.parts = <<>>
    /\ me.ask.op = "abis" => Len(me.parts) = 1
    /\ me.ask.op = "getTx" =>
          /\ me.at \in {"running", "resolved"} \/ me.parts # <<>>
                => Len(me.parts) = Len(me.ask.messages)
          /\ me.at = "running" /\ me.ask.mode = "strict" => ~FlawedPart(me)
          /\ me.at = "resolved" => /\ \A i \in DOMAIN me.parts : me.parts[i].at = "done"
                                   /\ me.ask.mode = "strict" => ~FlawedPart(me)
          /\ me.at = "rejected" /\ me.parts # <<>> => me.ask.mode = "strict" /\ FlawedPart(me)

\* ... its requests are answered with what was on the chain between its floor and now, ...
Answered(me, v, f) ==
    /\ \A k \in Keys : /\ me.floor[k] <= v[k.module]
                       /\ me.ask.op = "getTx" => me.floor[k] <= f[k]
    /\ \A i \in DOMAIN me.parts :
          LET part == me.parts[i] IN
          /\ part.at # "done" => part.end = "raw" /\ part.by = 0
          /\ part.at = "answered" =>
                \A k \in Keys : /\ f[k] <= part.got[k.module]
                                /\ me.floor[k] <= part.got[k.module]
                                /\ part.got[k.module] <= v[k.module]

\* ... and it uses an ABI that is not older and has its function.
Proper(me, i, part) ==
    /\ me.ask.op = "contract" /\ part.end = "ok" /\ part.at = "done"
          => part.by >= me.floor[me.ask.of]
    /\ me.ask.op = "getTx" /\ part.by # 0 =>
          /\ part.by >= me.ask.messages[i].since
          /\ ~me.ask.messages[i].offline => part.by >= me.floor[me.ask.messages[i].of]

UsesProperly(me) == \A i \in DOMAIN me.parts : Proper(me, i, me.parts[i])

Sound(me, v, f) == WellShaped(me) /\ Answered(me, v, f) /\ UsesProperly(me)

AbisInv ==
    /\ TypeOK
    /\ EntriesAreSound
    /\ \A c \in Calls : Sound(call[c], version, floor)

-----------------------------------------------------------------------------
LEMMA KeyTyped == ASSUME NEW k \in Keys PROVE k.module \in Modules
BY DEF Keys

\* What a call may be asked is well formed.
LEMMA AskTyped ==
    ASSUME TypeOK, NEW c \in Calls, NEW ask \in setting.asks[c]
    PROVE  ask \in Asks
BY MoveAbisAssumption DEF TypeOK

LEMMA AskShaped ==
    ASSUME NEW ask \in Asks \cup {[op |-> "none"]}
    PROVE  /\ ask.op \in {"none", "contract", "abis", "getTx"}
           /\ ask.op = "contract" =>
                 ask.of \in Keys /\ ask.useCache \in BOOLEAN /\ ask.ttl \in Nat
           /\ ask.op = "getTx" =>
                 /\ ask.messages \in Seq(Messages) /\ ask.mode \in Modes
                 /\ Len(ask.messages) \in Nat /\ DOMAIN ask.messages = 1 .. Len(ask.messages)
                 /\ \A i \in DOMAIN ask.messages : ask.messages[i] \in Messages
<1>1. /\ ask.op \in {"none", "contract", "abis", "getTx"}
      /\ ask.op = "contract" =>
            ask.of \in Keys /\ ask.useCache \in BOOLEAN /\ ask.ttl \in Nat
      /\ ask.op = "getTx" => ask.messages \in Seq(Messages) /\ ask.mode \in Modes
  BY DEF Asks
<1>2. \A s \in Seq(Messages) : /\ Len(s) \in Nat /\ DOMAIN s = 1 .. Len(s)
                              /\ \A i \in DOMAIN s : s[i] \in Messages
  <2>. HIDE DEF Messages
  <2>. QED  OBVIOUS
<1>. QED  BY <1>1, <1>2

LEMMA PartsTyped ==
    ASSUME NEW me \in CallState
    PROVE  /\ Len(me.parts) \in Nat /\ DOMAIN me.parts = 1 .. Len(me.parts)
           /\ \A i \in DOMAIN me.parts : me.parts[i] \in PartState
<1>1. me.parts \in Seq(PartState)
  BY DEF CallState
<1>. HIDE DEF PartState
<1>. QED  BY <1>1

LEMMA Numbers ==
    ASSUME NEW v \in Published
    PROVE  v \in Nat /\ 0 \in Published /\ 1 \in Published /\ LastVersion \in Published
BY MoveAbisAssumption DEF Published

LEMMA PartTyped == Part \in PartState
BY MoveAbisAssumption DEF Part, PartState, NoVersions, Published

LEMMA EndedTyped ==
    ASSUME NEW end \in {"ok", "raw", "decodeError", "error"}, NEW v \in Published
    PROVE  /\ Ended(end, v) \in PartState
           /\ Ended(end, v).at = "done" /\ Ended(end, v).end = end /\ Ended(end, v).by = v
BY PartTyped DEF Ended, Part, PartState

LEMMA AbisInit == Init => AbisInv
<1>. SUFFICES ASSUME Init PROVE AbisInv
  OBVIOUS
<1>1. setting \in Settings /\ version \in [Modules -> Published]
  BY MoveAbisAssumption DEF Init, Published
<1>2. NoFloor \in [Keys -> Published] /\ NoEntry \in Entry
  BY MoveAbisAssumption DEF NoFloor, NoEntry, Entry, Published
<1>3. Idle \in CallState
  BY <1>2 DEF Idle, CallState
<1>4. TypeOK
  BY <1>1, <1>2, <1>3 DEF Init, TypeOK
<1>5. EntriesAreSound
  BY <1>1, Numbers, KeyTyped DEF Init, EntriesAreSound, NoEntry, NoFloor
<1>6. Sound(Idle, version, floor)
  BY <1>1, Numbers DEF Init, Sound, WellShaped, Answered, UsesProperly, Idle, NoFloor,
                         Keys
<1>. QED  BY <1>4, <1>5, <1>6 DEF AbisInv, Init

-----------------------------------------------------------------------------
\* A call stays sound while the modules are upgraded.
LEMMA SoundLater ==
    ASSUME NEW me \in CallState, NEW f \in [Keys -> Published],
           NEW v \in [Modules -> Published], NEW w \in [Modules -> Published],
           \A m \in Modules : v[m] <= w[m], Sound(me, v, f)
    PROVE  Sound(me, w, f)
<1>1. \A k \in Keys : me.floor[k] <= w[k.module]
  BY KeyTyped DEF Sound, Answered, CallState, Published
<1>2. \A i \in DOMAIN me.parts : \A k \in Keys :
         me.parts[i].got[k.module] <= v[k.module] => me.parts[i].got[k.module] <= w[k.module]
  BY PartsTyped, KeyTyped DEF PartState, Published
<1>. QED  BY <1>1, <1>2 DEF Sound, Answered

\* Promise.all() and what follows it.
Unsettled(me) ==
    /\ me.at \in {"running", "resolved", "rejected"}
    /\ me.ask.op # "none" /\ (me.ask.op = "abis" => Len(me.parts) = 1)
    /\ me.ask.op = "getTx" =>
          /\ Len(me.parts) = Len(me.ask.messages)
          /\ me.at # "resolved"
          /\ me.at = "rejected" => me.ask.mode = "strict" /\ FlawedPart(me)

LEMMA SettlesSoundly ==
    ASSUME NEW me \in CallState, NEW v, NEW f,
           Unsettled(me), Answered(me, v, f), UsesProperly(me)
    PROVE  Settled(me) \in CallState /\ Sound(Settled(me), v, f)
<1>1. PICK at \in {"running", "resolved", "rejected"} :
         /\ Settled(me) = [me EXCEPT !.at = at]
         /\ me.at # "running" => at = me.at
         /\ me.at = "running" => /\ at = "rejected" <=>
                                        /\ me.ask.op = "getTx" => me.ask.mode = "strict"
                                        /\ FlawedPart(me)
                                 /\ at = "resolved" => \A i \in DOMAIN me.parts :
                                                         me.parts[i].at = "done"
  <2>1. me = [me EXCEPT !.at = me.at]
    BY DEF CallState
  <2>. QED  BY <2>1 DEF Settled, FlawedPart, Unsettled
<1>. DEFINE new == [me EXCEPT !.at = at]
<1>2. /\ new \in CallState /\ new.at = at /\ new.ask = me.ask
      /\ new.parts = me.parts /\ new.floor = me.floor
  BY DEF CallState
<1>. HIDE DEF new
<1>3. WellShaped(new)
  BY <1>1, <1>2 DEF WellShaped, Unsettled, FlawedPart
<1>4. Answered(new, v, f) /\ UsesProperly(new)
  BY <1>2 DEF Answered, UsesProperly, Proper
<1>. QED  BY <1>1, <1>2, <1>3, <1>4 DEF new, Sound

\* One part of a call changes.
LEMMA PartChanges ==
    ASSUME NEW me \in CallState, NEW i \in DOMAIN me.parts, NEW p \in PartState,
           NEW new, new = [me EXCEPT !.parts[i] = p]
    PROVE  /\ new \in CallState
           /\ new.at = me.at /\ new.ask = me.ask /\ new.floor = me.floor
           /\ Len(new.parts) = Len(me.parts) /\ DOMAIN new.parts = DOMAIN me.parts
           /\ \A j \in DOMAIN me.parts : new.parts[j] = IF j = i THEN p ELSE me.parts[j]
<1>. DEFINE parts == [me.parts EXCEPT ![i] = p]
<1>1. me.parts \in Seq(PartState) /\ i \in 1 .. Len(me.parts)
  BY PartsTyped DEF CallState
<1>2. /\ parts \in Seq(PartState) /\ Len(parts) = Len(me.parts)
      /\ \A j \in 1 .. Len(me.parts) : parts[j] = IF j = i THEN p ELSE me.parts[j]
  <2>. HIDE DEF PartState
  <2>. QED  BY <1>1, ExceptSeq
<1>3. new = [me EXCEPT !.parts = parts]
  OBVIOUS
<1>. HIDE DEF parts
<1>4. /\ new \in CallState /\ new.parts = parts
      /\ new.at = me.at /\ new.ask = me.ask /\ new.floor = me.floor
  BY <1>2, <1>3 DEF CallState
<1>5. DOMAIN new.parts = DOMAIN me.parts
  BY <1>2, <1>4, PartsTyped
<1>. QED  BY <1>2, <1>4, <1>5, PartsTyped

LEMMA PartEnds ==
    ASSUME NEW me \in CallState, NEW v, NEW f, Sound(me, v, f),
           NEW i \in DOMAIN me.parts, me.parts[i].at # "done",
           NEW p \in PartState, p.at = "done", Proper(me, i, p)
    PROVE  LET new == Settled([me EXCEPT !.parts[i] = p])
           IN  new \in CallState /\ Sound(new, v, f)
<1>. DEFINE then == [me EXCEPT !.parts[i] = p]
<1>1. /\ then \in CallState
      /\ then.at = me.at /\ then.ask = me.ask /\ then.floor = me.floor
      /\ Len(then.parts) = Len(me.parts) /\ DOMAIN then.parts = DOMAIN me.parts
      /\ \A j \in DOMAIN me.parts : then.parts[j] = IF j = i THEN p ELSE me.parts[j]
  BY PartChanges
<1>. HIDE DEF then
<1>2. me.parts # <<>>
  OBVIOUS
<1>3. me.parts[i].end = "raw"
  BY DEF Sound, Answered
<1>4. FlawedPart(me) => FlawedPart(then)
  BY <1>1, <1>3 DEF FlawedPart
<1>5. Unsettled(then)
  <2>1. me.at \in {"running", "resolved", "rejected"}
    BY <1>2 DEF Sound, WellShaped, CallState
  <2>2. me.ask.op # "none" /\ (me.ask.op = "abis" => Len(me.parts) = 1)
    BY <2>1 DEF Sound, WellShaped
  <2>. QED  BY <1>1, <1>2, <1>4, <2>1, <2>2 DEF Unsettled, Sound, WellShaped
<1>6. Answered(then, v, f)
  BY <1>1 DEF Sound, Answered
<1>7. UsesProperly(then)
  BY <1>1 DEF Sound, UsesProperly, Proper
<1>. QED  BY <1>1, <1>5, <1>6, <1>7, SettlesSoundly DEF then

\* What a step leaves of the invariant that changes one call and no version.
LEMMA OneCallChanges ==
    ASSUME AbisInv, UNCHANGED <<setting, version, now, floor>>, abiCache' \in [Keys -> Entry],
           EntriesAreSound', NEW c \in Calls, NEW new \in CallState,
           Sound(new, version, floor), call' = [call EXCEPT ![c] = new]
    PROVE  AbisInv'
<1>1. call \in [Calls -> CallState]
  BY DEF AbisInv, TypeOK
<1>2. call' \in [Calls -> CallState]
      /\ \A d \in Calls : call'[d] = IF d = c THEN new ELSE call[d]
  <2>. HIDE DEF CallState
  <2>. QED  BY <1>1
<1>3. TypeOK'
  BY <1>2 DEF AbisInv, TypeOK
<1>4. \A d \in Calls : Sound(call'[d], version', floor')
  BY <1>2 DEF AbisInv
<1>. QED  BY <1>3, <1>4 DEF AbisInv

LEMMA EntriesLost ==
    ASSUME AbisInv, UNCHANGED <<version, floor>>, abiCache' \in [Keys -> Entry],
           \A k \in Keys : abiCache'[k] \in {abiCache[k], NoEntry}
    PROVE  EntriesAreSound'
BY DEF AbisInv, EntriesAreSound, NoEntry

LEMMA EntryTyped == NoEntry \in Entry
BY MoveAbisAssumption DEF NoEntry, Entry, Published

\* What a cache holds when it is hit is not older than the floor.
LEMMA HitIsSound ==
    ASSUME AbisInv, NEW k \in Keys, NEW ttl, Hit(k, ttl)
    PROVE  /\ abiCache[k].abi \in Published /\ abiCache[k].abi # 0
           /\ floor[k] <= abiCache[k].abi
BY DEF AbisInv, TypeOK, EntriesAreSound, Hit, Entry

\* Storing what the node answered keeps the entries sound, however late it arrives.
LEMMA EntryOfIsSound ==
    ASSUME AbisInv, NEW k \in Keys, NEW v \in Published,
           floor[k] <= v, v <= version[k.module]
    PROVE  /\ EntryOf(k.module, v) \in Entry
           /\ EntryOf(k.module, v).abi # 0 => floor[k] <= EntryOf(k.module, v).abi
           /\ EntryOf(k.module, v).permanent =>
                 EntryOf(k.module, v).abi = LastVersion /\ version[k.module] = LastVersion
<1>. DEFINE m == k.module
            permanent == m \in setting.immutable /\ v = LastVersion
<1>1. permanent \in BOOLEAN /\ now \in Nat
  BY DEF AbisInv, TypeOK
<1>2. EntryOf(m, v) = [abi |-> v, timestamp |-> now, permanent |-> permanent]
  BY DEF EntryOf
<1>3. permanent => v = LastVersion
  OBVIOUS
<1>. HIDE DEF permanent
<1>4. EntryOf(m, v) \in Entry /\ EntryOf(m, v).abi = v /\ EntryOf(m, v).permanent = permanent
  BY <1>1, <1>2 DEF Entry
<1>5. v = LastVersion => version[m] = LastVersion
  BY KeyTyped, MoveAbisAssumption DEF AbisInv, TypeOK, Published
<1>. QED  BY <1>3, <1>4, <1>5

-----------------------------------------------------------------------------
LEMMA BeginKeeps == ASSUME AbisInv, NEW c \in Calls, Begin(c) PROVE AbisInv'
<1>1. PICK ask \in setting.asks[c] :
         \/ ask.op = "contract" /\ CreateMoveContract(c, ask)
         \/ /\ ask.op = "abis"
            /\ call' = [call EXCEPT ![c] = [Begun(ask) EXCEPT !.parts = <<Part>>]]
            /\ UNCHANGED abiCache
         \/ /\ ask.op = "getTx"
            /\ call' = [call EXCEPT ![c] = [Begun(ask) EXCEPT !.at = "fetching"]]
            /\ UNCHANGED abiCache
  BY DEF Begin
<1>2. ask \in Asks /\ UNCHANGED <<setting, version, now, floor>>
  BY AskTyped DEF AbisInv, Begin
<1>f. /\ floor \in [Keys -> Published] /\ version \in [Modules -> Published]
      /\ \A k \in Keys : floor[k] <= version[k.module]
  BY DEF AbisInv, TypeOK, EntriesAreSound
<1>k. /\ Current(Keys) \in [Keys -> Published]
      /\ \A k \in Keys : Current(Keys)[k] = version[k.module]
  BY <1>f, KeyTyped DEF Current
<1>p. <<Part>> \in Seq(PartState) /\ <<>> \in Seq(PartState)
  BY PartTyped
<1>b. Begun(ask) = [at |-> "running", ask |-> ask, parts |-> <<>>, floor |-> floor]
  <2>. DEFINE r1 == [Idle EXCEPT !.at = "running"]
              r2 == [r1 EXCEPT !.ask = ask]
  <2>1. r1 = [at |-> "running", ask |-> [op |-> "none"], parts |-> <<>>, floor |-> NoFloor]
    BY DEF Idle
  <2>2. r2 = [at |-> "running", ask |-> ask, parts |-> <<>>, floor |-> NoFloor]
    <3>. HIDE DEF r1
    <3>. QED  BY <2>1
  <2>3. Begun(ask) = [r2 EXCEPT !.floor = floor]
    BY DEF Begun
  <2>. HIDE DEF r1, r2
  <2>. QED  BY <2>2, <2>3
<1>c. ASSUME NEW at \in {"fetching", "running"}, NEW parts \in Seq(PartState),
             NEW fl \in [Keys -> Published]
      PROVE  [at |-> at, ask |-> ask, parts |-> parts, floor |-> fl] \in CallState
  <2>. HIDE DEF PartState
  <2>. QED  BY <1>2 DEF CallState
<1>3. CASE ask.op = "contract" /\ CreateMoveContract(c, ask)
  <2>. DEFINE hit == ask.useCache /\ Hit(ask.of, ask.ttl)
              p == IF hit THEN Ended("ok", abiCache[ask.of].abi) ELSE Part
              fl == IF ask.useCache THEN floor ELSE Current(Keys)
              new == [at |-> "running", ask |-> ask, parts |-> <<p>>, floor |-> fl]
  <2>1. call' = [call EXCEPT ![c] = Settled(new)]
    <3>1. new = [Begun(ask) EXCEPT !.parts = <<p>>, !.floor = fl]
      <4>. DEFINE r == [Begun(ask) EXCEPT !.parts = <<p>>]
      <4>. HIDE DEF p, fl
      <4>1. r = [at |-> "running", ask |-> ask, parts |-> <<p>>, floor |-> floor]
        BY <1>b
      <4>2. [Begun(ask) EXCEPT !.parts = <<p>>, !.floor = fl] = [r EXCEPT !.floor = fl]
        OBVIOUS
      <4>. HIDE DEF r
      <4>. QED  BY <4>1, <4>2
    <3>. QED  BY <1>3, <3>1 DEF CreateMoveContract
  <2>2. ask.of \in Keys
    BY <1>2, <1>3, AskShaped
  <2>3. p \in PartState /\ (p = Part \/ p.at = "done")
        /\ (hit => p.by = abiCache[ask.of].abi)
    BY <2>2, HitIsSound, EndedTyped, PartTyped
  <2>4. <<p>> \in Seq(PartState) /\ Len(<<p>>) = 1
        /\ DOMAIN <<p>> = {1} /\ <<p>>[1] = p
    <3>. HIDE DEF p, PartState
    <3>. QED  BY <2>3
  <2>5. fl \in [Keys -> Published] /\ \A k \in Keys : fl[k] <= version[k.module]
    BY <1>f, <1>k, KeyTyped, Numbers DEF Published
  <2>6. /\ new \in CallState /\ new.at = "running" /\ new.ask = ask
        /\ new.parts = <<p>> /\ new.floor = fl
    BY <1>c, <2>4, <2>5
  <2>7. Proper(new, 1, p)
    <3>1. CASE hit
      BY <1>3, <2>2, <2>3, <2>6, <3>1, HitIsSound DEF Proper, Published
    <3>2. CASE ~hit
      BY <1>3, <2>6, <3>2 DEF Proper, Part
    <3>. QED  BY <3>1, <3>2
  <2>8. Unsettled(new) /\ UsesProperly(new) /\ Answered(new, version, floor)
    <3>. HIDE DEF p, fl, new
    <3>1. p.at # "done" => p.end = "raw" /\ p.by = 0 /\ p.at # "answered"
      BY <2>3 DEF Part
    <3>. QED  BY <1>3, <2>4, <2>5, <2>6, <2>7, <3>1 DEF Unsettled, UsesProperly, Answered
  <2>9. Settled(new) \in CallState /\ Sound(Settled(new), version, floor)
    <3>. HIDE DEF new
    <3>. QED  BY <2>6, <2>8, SettlesSoundly
  <2>10. /\ abiCache' \in [Keys -> Entry]
         /\ \A k \in Keys : abiCache'[k] \in {abiCache[k], NoEntry}
    <3>. HIDE DEF Entry
    <3>. QED  BY <1>3, EntryTyped DEF CreateMoveContract, Swept, AbisInv, TypeOK
  <2>. HIDE DEF new
  <2>. QED  BY <1>2, <2>1, <2>9, <2>10, OneCallChanges, EntriesLost
<1>4. ASSUME UNCHANGED abiCache PROVE abiCache' \in [Keys -> Entry] /\ EntriesAreSound'
  BY <1>2, <1>4 DEF AbisInv, TypeOK, EntriesAreSound
<1>5. CASE /\ ask.op = "abis"
           /\ call' = [call EXCEPT ![c] = [Begun(ask) EXCEPT !.parts = <<Part>>]]
           /\ UNCHANGED abiCache
  <2>. DEFINE new == [at |-> "running", ask |-> ask, parts |-> <<Part>>, floor |-> floor]
  <2>1. call' = [call EXCEPT ![c] = new]
    <3>1. new = [Begun(ask) EXCEPT !.parts = <<Part>>]
      BY <1>b
    <3>. QED  BY <1>5, <3>1
  <2>2. /\ new \in CallState /\ new.at = "running" /\ new.ask = ask
        /\ new.parts = <<Part>> /\ new.floor = floor
    BY <1>c, <1>f, <1>p
  <2>. HIDE DEF new
  <2>3. Sound(new, version, floor)
    BY <1>5, <1>f, <2>2 DEF Sound, WellShaped, Answered, UsesProperly, Proper, Part
  <2>. QED  BY <1>2, <1>4, <1>5, <2>1, <2>2, <2>3, OneCallChanges
<1>6. CASE /\ ask.op = "getTx"
           /\ call' = [call EXCEPT ![c] = [Begun(ask) EXCEPT !.at = "fetching"]]
           /\ UNCHANGED abiCache
  <2>. DEFINE new == [at |-> "fetching", ask |-> ask, parts |-> <<>>, floor |-> floor]
  <2>1. call' = [call EXCEPT ![c] = new]
    <3>1. new = [Begun(ask) EXCEPT !.at = "fetching"]
      BY <1>b
    <3>. QED  BY <1>6, <3>1
  <2>2. /\ new \in CallState /\ new.at = "fetching" /\ new.ask = ask
        /\ new.parts = <<>> /\ new.floor = floor
    BY <1>c, <1>f, <1>p
  <2>. HIDE DEF new
  <2>3. \A k \in Keys : floor[k] <= floor[k]
    BY <1>f DEF Published
  <2>4. Sound(new, version, floor)
    BY <1>6, <1>f, <2>2, <2>3 DEF Sound, WellShaped, Answered, UsesProperly
  <2>. QED  BY <1>2, <1>4, <1>6, <2>1, <2>2, <2>4, OneCallChanges
<1>. QED  BY <1>1, <1>3, <1>5, <1>6

-----------------------------------------------------------------------------
\* An enricher uses an ABI that has the function of the message.
LEMMA EnrichedIsProper ==
    ASSUME NEW message \in Messages, NEW v \in Published
    PROVE  /\ Enriched(message, v) \in PartState /\ Enriched(message, v).at = "done"
           /\ Enriched(message, v).by # 0 =>
                 Enriched(message, v).by = v /\ v >= message.since
BY EndedTyped, Numbers DEF Enriched

\* What decode() and the enricher make of a message before their first await.
LEMMA OpenedIsProper ==
    ASSUME AbisInv, NEW message \in Messages, NEW mode
    PROVE  LET part == Opened(message, mode) IN
           /\ part \in PartState
           /\ part.at # "done" => part = Part
           /\ part.end = "decodeError" => message.kind = "broken"
           /\ part.by # 0 => /\ part.by >= message.since
                             /\ ~message.offline => part.by >= floor[message.of]
<1>1. /\ message.of \in Keys /\ message.since \in Published
      /\ message.kind \in {"bcs", "json", "garbled", "other", "broken"}
  BY DEF Messages, Versions, Published
<1>2. 1 \in Published /\ 0 \in Published
  BY <1>1, Numbers
<1>3. Part.at # "done" /\ Part.by = 0 /\ Part.end = "raw"
  BY DEF Part
<1>4. CASE Opened(message, mode) = Part
  BY <1>3, <1>4, PartTyped
<1>5. ASSUME NEW end \in {"ok", "raw", "decodeError", "error"}, Opened(message, mode) = Ended(end, 0),
             end = "decodeError" => message.kind = "broken"
      PROVE  LET part == Opened(message, mode) IN
             /\ part \in PartState /\ part.at = "done" /\ part.by = 0
             /\ part.end = "decodeError" => message.kind = "broken"
  BY <1>2, <1>5, EndedTyped
<1>6. ASSUME NEW v \in Published, Opened(message, mode) = Enriched(message, v),
             ~message.offline => v >= floor[message.of]
      PROVE  LET part == Opened(message, mode) IN
             /\ part \in PartState /\ part.at = "done" /\ part.end # "decodeError"
             /\ part.by # 0 => /\ part.by >= message.since
                               /\ ~message.offline => part.by >= floor[message.of]
  BY <1>2, <1>6, EnrichedIsProper, EndedTyped DEF Enriched
<1>7. ASSUME Hit(message.of, DefaultTtl)
      PROVE  /\ abiCache[message.of].abi \in Published
             /\ abiCache[message.of].abi >= floor[message.of]
  BY <1>1, <1>7, HitIsSound DEF AbisInv, TypeOK, Published
<1>8. \/ Opened(message, mode) = Ended("decodeError", 0) /\ message.kind = "broken"
      \/ Opened(message, mode) = Ended("raw", 0)
      \/ Opened(message, mode) = Ended("ok", 0)
      \/ Opened(message, mode) = Ended("error", 0)
      \/ Opened(message, mode) = Part
      \/ message.offline /\ Opened(message, mode) = Enriched(message, 1)
      \/ /\ Hit(message.of, DefaultTtl)
         /\ Opened(message, mode) = Enriched(message, abiCache[message.of].abi)
  BY DEF Opened
<1>. QED  BY <1>2, <1>4, <1>5, <1>6, <1>7, <1>8

LEMMA TxKeeps == ASSUME AbisInv, NEW c \in Calls, TxArrives(c) PROVE AbisInv'
<1>. DEFINE me == call[c]
            messages == me.ask.messages
            refused == me.ask.mode = "strict" /\ \E i \in DOMAIN messages : messages[i].kind = "broken"
            parts == [i \in DOMAIN messages |-> Opened(messages[i], me.ask.mode)]
            asked == {messages[i].of : i \in {j \in DOMAIN parts : parts[j].at = "sent"}}
<1>1. me.at = "fetching" /\ UNCHANGED <<setting, version, now, floor>>
  BY DEF TxArrives
<1>2. me \in CallState /\ Sound(me, version, floor)
  BY DEF AbisInv, TypeOK
<1>3. me.ask.op = "getTx" /\ me.parts = <<>>
  BY <1>1, <1>2 DEF Sound, WellShaped
<1>4. /\ messages \in Seq(Messages) /\ me.ask.mode \in Modes /\ Len(messages) \in Nat
      /\ DOMAIN messages = 1 .. Len(messages)
      /\ \A i \in DOMAIN messages : messages[i] \in Messages /\ messages[i].of \in Keys
  <2>1. me.ask \in Asks \cup {[op |-> "none"]}
    BY <1>2 DEF CallState
  <2>2. /\ messages \in Seq(Messages) /\ me.ask.mode \in Modes /\ Len(messages) \in Nat
        /\ DOMAIN messages = 1 .. Len(messages)
        /\ \A i \in DOMAIN messages : messages[i] \in Messages
    BY <1>3, <2>1, AskShaped
  <2>. QED  BY <2>2 DEF Messages
<1>f. \A k \in Keys : /\ me.floor[k] \in Nat /\ floor[k] \in Nat
                      /\ me.floor[k] <= floor[k] /\ me.floor[k] <= version[k.module]
  BY <1>2, <1>3 DEF Sound, Answered, CallState, AbisInv, TypeOK, Published
<1>5. CASE refused
  <2>. DEFINE new == [me EXCEPT !.at = "rejected"]
  <2>1. call' = [call EXCEPT ![c] = new] /\ UNCHANGED abiCache
    BY <1>5 DEF TxArrives
  <2>2. /\ new \in CallState /\ new.at = "rejected" /\ new.ask = me.ask
        /\ new.parts = <<>> /\ new.floor = me.floor
    BY <1>2, <1>3 DEF CallState
  <2>. HIDE DEF new
  <2>3. Sound(new, version, floor)
    BY <1>2, <1>3, <2>2 DEF Sound, WellShaped, Answered, UsesProperly
  <2>4. abiCache' \in [Keys -> Entry] /\ EntriesAreSound'
    BY <1>1, <2>1 DEF AbisInv, TypeOK, EntriesAreSound
  <2>. QED  BY <1>1, <2>1, <2>2, <2>3, <2>4, OneCallChanges
<1>6. CASE ~refused
  <2>. DEFINE then == [me EXCEPT !.at = "running", !.parts = parts]
  <2>1. /\ call' = [call EXCEPT ![c] = Settled(then)]
        /\ abiCache' = [k \in Keys |-> IF k \in asked THEN NoEntry ELSE abiCache[k]]
    BY <1>6 DEF TxArrives
  <2>2. \A i \in DOMAIN messages :
           /\ parts[i] \in PartState
           /\ parts[i].at # "done" => parts[i] = Part
           /\ parts[i].by # 0 =>
                 /\ parts[i].by >= messages[i].since
                 /\ ~messages[i].offline => parts[i].by >= floor[messages[i].of]
    BY <1>4, OpenedIsProper
  <2>3. parts \in Seq(PartState) /\ Len(parts) = Len(messages) /\ DOMAIN parts = DOMAIN messages
    <3>1. parts \in [1 .. Len(messages) -> PartState]
      <4>1. parts = [i \in 1 .. Len(messages) |-> Opened(messages[i], me.ask.mode)]
        BY <1>4
      <4>. HIDE DEF parts, PartState, messages
      <4>2. \A i \in 1 .. Len(messages) : Opened(messages[i], me.ask.mode) \in PartState
        BY <1>4, <2>2, <4>1
      <4>. QED  BY <4>1, <4>2
    <3>. HIDE DEF parts, PartState, messages
    <3>. QED  BY <1>4, <3>1
  <2>. HIDE DEF parts
  <2>4. /\ then \in CallState /\ then.at = "running" /\ then.ask = me.ask
        /\ then.parts = parts /\ then.floor = me.floor
    <3>. DEFINE r == [me EXCEPT !.at = "running"]
    <3>1. /\ r \in CallState /\ r.at = "running" /\ r.ask = me.ask /\ r.floor = me.floor
      BY <1>2 DEF CallState
    <3>2. then = [r EXCEPT !.parts = parts]
      OBVIOUS
    <3>. HIDE DEF r, then
    <3>. QED  BY <2>3, <3>1, <3>2 DEF CallState
  <2>. HIDE DEF then
  <2>5. Unsettled(then)
    BY <1>3, <2>3, <2>4 DEF Unsettled
  <2>6. Answered(then, version, floor)
    BY <1>f, <1>3, <2>2, <2>3, <2>4 DEF Answered, Part
  <2>7. UsesProperly(then)
    <3>. SUFFICES ASSUME NEW i \in DOMAIN messages, parts[i].by # 0
                  PROVE  /\ parts[i].by >= messages[i].since
                         /\ ~messages[i].offline => parts[i].by >= me.floor[messages[i].of]
      BY <1>3, <2>3, <2>4 DEF UsesProperly, Proper
    <3>1. parts[i].by \in Nat
      BY <2>2 DEF PartState, Published
    <3>2. /\ me.floor[messages[i].of] \in Nat /\ floor[messages[i].of] \in Nat
          /\ me.floor[messages[i].of] <= floor[messages[i].of]
      BY <1>4, <1>f
    <3>3. /\ parts[i].by >= messages[i].since
          /\ ~messages[i].offline => parts[i].by >= floor[messages[i].of]
      BY <2>2
    <3>. HIDE DEF messages
    <3>. QED  BY <3>1, <3>2, <3>3
  <2>8. Settled(then) \in CallState /\ Sound(Settled(then), version, floor)
    BY <2>4, <2>5, <2>6, <2>7, SettlesSoundly
  <2>9. /\ abiCache' \in [Keys -> Entry]
        /\ \A k \in Keys : abiCache'[k] \in {abiCache[k], NoEntry}
    <3>. HIDE DEF Entry, asked
    <3>. QED  BY <2>1, EntryTyped DEF AbisInv, TypeOK
  <2>. QED  BY <1>1, <2>1, <2>8, <2>9, OneCallChanges, EntriesLost
<1>. QED  BY <1>5, <1>6

-----------------------------------------------------------------------------
\* What an answer brings was on the chain since the floors.
LEMMA AnswerIsSound ==
    ASSUME AbisInv, NEW c \in Calls, NEW i \in DOMAIN call[c].parts,
           call[c].parts[i].at = "answered", NEW k \in Keys
    PROVE  LET v == call[c].parts[i].got[k.module] IN
           /\ v \in Published /\ floor[k] <= v /\ call[c].floor[k] <= v
           /\ v <= version[k.module]
<1>1. call[c] \in CallState /\ Sound(call[c], version, floor)
  BY DEF AbisInv, TypeOK
<1>2. call[c].parts[i] \in PartState
  BY <1>1, PartsTyped
<1>. QED  BY <1>1, <1>2, KeyTyped DEF Sound, Answered, PartState

LEMMA NodeKeeps ==
    ASSUME AbisInv, NEW c \in Calls, NEW i \in DOMAIN call[c].parts, NodeAnswers(c, i)
    PROVE  AbisInv'
<1>. DEFINE me == call[c]
            p == [me.parts[i] EXCEPT !.at = "answered", !.got = version]
            new == [me EXCEPT !.parts[i] = p]
<1>1. /\ me.parts[i].at = "sent" /\ UNCHANGED <<setting, version, now, abiCache, floor>>
      /\ call' = [call EXCEPT ![c].parts[i].at = "answered", ![c].parts[i].got = version]
  BY DEF NodeAnswers
<1>2. me \in CallState /\ Sound(me, version, floor) /\ call \in [Calls -> CallState]
      /\ version \in [Modules -> Published]
  BY DEF AbisInv, TypeOK
<1>3. me.parts[i] \in PartState
  BY <1>2, PartsTyped
<1>4. /\ p \in PartState /\ p.at = "answered" /\ p.got = version
      /\ p.end = me.parts[i].end /\ p.by = me.parts[i].by
  BY <1>2, <1>3 DEF PartState
<1>5. call' = [call EXCEPT ![c] = new]
  <2>. DEFINE q == [me.parts[i] EXCEPT !.at = "answered"]
              then == [me EXCEPT !.parts[i] = q]
              r == [call EXCEPT ![c] = then]
  <2>1. r = [call EXCEPT ![c].parts[i].at = "answered"]
    OBVIOUS
  <2>2. call' = [r EXCEPT ![c].parts[i].got = version]
    BY <1>1, <2>1
  <2>3. r[c] = then
    BY <1>2
  <2>4. then.parts[i] = q /\ DOMAIN then.parts = DOMAIN me.parts
    <3>1. q \in PartState
      BY <1>3 DEF PartState
    <3>. HIDE DEF q
    <3>. QED  BY <1>2, <3>1, PartChanges
  <2>5. [q EXCEPT !.got = version] = p
    OBVIOUS
  <2>6. call' = [r EXCEPT ![c] = [then EXCEPT !.parts[i] = p]]
    <3>. HIDE DEF q, then, r, p
    <3>. QED  BY <2>2, <2>3, <2>4, <2>5
  <2>7. [then EXCEPT !.parts[i] = p] = new
    <3>. DEFINE s1 == [me.parts EXCEPT ![i] = q]
                s2 == [me.parts EXCEPT ![i] = p]
    <3>1. [s1 EXCEPT ![i] = p] = s2
      <4>. HIDE DEF p, q
      <4>. QED  OBVIOUS
    <3>2. then = [me EXCEPT !.parts = s1] /\ new = [me EXCEPT !.parts = s2]
      OBVIOUS
    <3>. HIDE DEF p, q, s1, s2, then, new
    <3>3. then.parts = s1
      BY <1>2, <3>2 DEF CallState
    <3>. QED  BY <3>1, <3>2, <3>3
  <2>. HIDE DEF then, new
  <2>. QED  BY <2>6, <2>7
<1>. HIDE DEF p
<1>6. /\ new \in CallState
      /\ new.at = me.at /\ new.ask = me.ask /\ new.floor = me.floor
      /\ Len(new.parts) = Len(me.parts) /\ DOMAIN new.parts = DOMAIN me.parts
      /\ \A j \in DOMAIN me.parts : new.parts[j] = IF j = i THEN p ELSE me.parts[j]
  BY <1>2, <1>4, PartChanges
<1>. HIDE DEF new
<1>7. WellShaped(new)
  <2>1. FlawedPart(new) <=> FlawedPart(me)
    BY <1>4, <1>6 DEF FlawedPart
  <2>2. me.parts # <<>> /\ me.at \notin {"idle", "fetching"}
        /\ (me.ask.op = "getTx" => me.at # "resolved")
    BY <1>1, <1>2 DEF Sound, WellShaped
  <2>. QED  BY <1>2, <1>6, <2>1, <2>2 DEF Sound, WellShaped
<1>8. Answered(new, version, floor)
  <2>1. \A k \in Keys : floor[k] <= version[k.module] /\ version[k.module] <= version[k.module]
    BY <1>2, KeyTyped DEF AbisInv, EntriesAreSound, Published
  <2>. QED  BY <1>1, <1>2, <1>4, <1>6, <2>1 DEF Sound, Answered
<1>9. UsesProperly(new)
  BY <1>1, <1>2, <1>4, <1>6 DEF Sound, Answered, UsesProperly, Proper
<1>10. abiCache' \in [Keys -> Entry] /\ EntriesAreSound'
  BY <1>1 DEF AbisInv, TypeOK, EntriesAreSound
<1>. QED  BY <1>1, <1>5, <1>6, <1>7, <1>8, <1>9, <1>10, OneCallChanges DEF Sound

LEMMA AbiKeeps ==
    ASSUME AbisInv, NEW c \in Calls, NEW i \in DOMAIN call[c].parts, AbiArrives(c, i)
    PROVE  AbisInv'
<1>. DEFINE me == call[c]
            k == IF me.ask.op = "getTx" THEN me.ask.messages[i].of ELSE me.ask.of
            v == me.parts[i].got[k.module]
            p == Closed(me, i, k.module, v)
<1>1. /\ me.parts[i].at = "answered" /\ me.ask.op # "abis"
      /\ abiCache' = Stored(k, v)
      /\ call' = [call EXCEPT ![c] = Settled([me EXCEPT !.parts[i] = p])]
      /\ UNCHANGED <<setting, version, now, floor>>
  BY DEF AbiArrives
<1>2. me \in CallState /\ Sound(me, version, floor)
  BY DEF AbisInv, TypeOK
<1>3. me.parts # <<>> /\ me.ask.op # "none"
  BY <1>2 DEF Sound, WellShaped
<1>4. /\ me.ask.op \in {"contract", "getTx"}
      /\ me.ask.op = "contract" => me.ask.of \in Keys
      /\ me.ask.op = "getTx" => i \in DOMAIN me.ask.messages /\ me.ask.messages[i] \in Messages
  <2>1. me.ask \in Asks \cup {[op |-> "none"]}
    BY <1>2 DEF CallState
  <2>2. me.ask.op \in {"none", "contract", "abis", "getTx"}
    BY <2>1, AskShaped
  <2>3. me.ask.op = "getTx" => DOMAIN me.parts = DOMAIN me.ask.messages
    BY <1>2, <1>3, <2>1, AskShaped, PartsTyped DEF Sound, WellShaped
  <2>. QED  BY <1>1, <1>3, <2>1, <2>2, <2>3, AskShaped
<1>5. k \in Keys
  BY <1>4 DEF Messages
<1>6. v \in Published /\ floor[k] <= v /\ me.floor[k] <= v /\ v <= version[k.module]
  BY <1>1, <1>5, AnswerIsSound
<1>7. p \in PartState /\ p.at = "done" /\ Proper(me, i, p)
  <2>. HIDE DEF v
  <2>1. Ended("error", 0) \in PartState /\ Ended("ok", v) \in PartState
    BY <1>6, Numbers, EndedTyped
  <2>2. CASE p = Ended("error", 0)
    BY <1>6, <2>2, Numbers, EndedTyped DEF Proper
  <2>3. CASE me.ask.op = "getTx" /\ p = Enriched(me.ask.messages[i], v)
    BY <1>4, <1>6, <2>3, EnrichedIsProper DEF Proper
  <2>4. CASE me.ask.op = "contract" /\ p = Ended("ok", v)
    BY <1>4, <1>6, <2>4, EndedTyped DEF Proper, Published
  <2>. QED  BY <1>4, <2>2, <2>3, <2>4 DEF Closed
<1>. DEFINE new == Settled([me EXCEPT !.parts[i] = p])
<1>8. new \in CallState /\ Sound(new, version, floor)
  <2>. HIDE DEF p
  <2>. QED  BY <1>1, <1>2, <1>7, PartEnds
<1>9. abiCache' \in [Keys -> Entry] /\ EntriesAreSound'
  <2>. HIDE DEF k, v
  <2>1. abiCache \in [Keys -> Entry]
    BY DEF AbisInv, TypeOK
  <2>2. EntryOf(k.module, v) \in Entry
    BY <1>5, <1>6, EntryOfIsSound
  <2>3. abiCache' \in [Keys -> Entry]
        /\ \A n \in Keys : \/ abiCache'[n] = abiCache[n]
                           \/ n = k /\ abiCache'[n] = EntryOf(k.module, v)
    <3>1. abiCache' = abiCache \/ abiCache' = [abiCache EXCEPT ![k] = EntryOf(k.module, v)]
      BY <1>1 DEF Stored
    <3>. HIDE DEF Entry
    <3>. QED  BY <1>5, <2>1, <2>2, <3>1
  <2>. QED  BY <1>1, <1>5, <1>6, <2>3, EntryOfIsSound DEF AbisInv, EntriesAreSound
<1>. HIDE DEF new, p
<1>. QED  BY <1>1, <1>8, <1>9, OneCallChanges DEF new

LEMMA AbisKeep == ASSUME AbisInv, NEW c \in Calls, AbisArrive(c) PROVE AbisInv'
<1>. DEFINE me == call[c]
            got == me.parts[1].got
            p == Ended("ok", 0)
            then == [me EXCEPT !.at = "resolved"]
            new == [then EXCEPT !.parts[1] = p]
<1>1. /\ me.ask.op = "abis" /\ me.parts[1].at = "answered"
      /\ abiCache' = [k \in Keys |->
                        IF k.as = me.ask.as /\ Readable(k.module, got[k.module])
                        THEN EntryOf(k.module, got[k.module]) ELSE abiCache[k]]
      /\ UNCHANGED <<setting, version, now, floor>>
  BY DEF AbisArrive
<1>2. me \in CallState /\ Sound(me, version, floor) /\ call \in [Calls -> CallState]
  BY DEF AbisInv, TypeOK
<1>3. 1 \in DOMAIN me.parts /\ Len(me.parts) = 1
  BY <1>1, <1>2, PartsTyped DEF Sound, WellShaped
<1>4. p \in PartState /\ p.at = "done"
  <2>1. me.parts[1].by \in Published
    BY <1>2, <1>3, PartsTyped DEF PartState
  <2>. QED  BY <2>1, Numbers, EndedTyped
<1>5. /\ then \in CallState /\ then.at = "resolved" /\ then.ask = me.ask
      /\ then.parts = me.parts /\ then.floor = me.floor
  BY <1>2 DEF CallState
<1>6. call' = [call EXCEPT ![c] = new]
  <2>. DEFINE r == [call EXCEPT ![c] = then]
  <2>1. r = [call EXCEPT ![c].at = "resolved"]
    OBVIOUS
  <2>2. call' = [r EXCEPT ![c].parts[1] = p]
    BY <2>1 DEF AbisArrive
  <2>3. r[c] = then
    BY <1>2
  <2>. HIDE DEF r, then, p
  <2>4. call' = [r EXCEPT ![c] = new]
    BY <2>2, <2>3
  <2>. HIDE DEF new
  <2>. QED  BY <2>4 DEF r
<1>. HIDE DEF then, p
<1>7. /\ new \in CallState
      /\ new.at = "resolved" /\ new.ask = me.ask /\ new.floor = me.floor
      /\ Len(new.parts) = 1 /\ DOMAIN new.parts = DOMAIN me.parts
      /\ \A j \in DOMAIN me.parts : new.parts[j] = IF j = 1 THEN p ELSE me.parts[j]
  BY <1>3, <1>4, <1>5, PartChanges
<1>. HIDE DEF new
<1>8. Sound(new, version, floor)
  BY <1>1, <1>2, <1>4, <1>7 DEF Sound, WellShaped, Answered, UsesProperly, Proper
<1>9. abiCache' \in [Keys -> Entry] /\ EntriesAreSound'
  <2>1. \A k \in Keys : /\ got[k.module] \in Published /\ floor[k] <= got[k.module]
                        /\ got[k.module] <= version[k.module]
    BY <1>1, <1>3, AnswerIsSound
  <2>. HIDE DEF got
  <2>2. \A k \in Keys : abiCache'[k] \in {abiCache[k], EntryOf(k.module, got[k.module])}
    BY <1>1
  <2>3. \A k \in Keys : EntryOf(k.module, got[k.module]) \in Entry
    BY <2>1, EntryOfIsSound
  <2>4. abiCache' \in [Keys -> Entry]
    <3>. HIDE DEF Entry
    <3>. QED  BY <1>1, <2>2, <2>3 DEF AbisInv, TypeOK
  <2>. QED  BY <1>1, <2>1, <2>2, <2>4, EntryOfIsSound DEF AbisInv, EntriesAreSound
<1>. QED  BY <1>1, <1>6, <1>7, <1>8, <1>9, OneCallChanges

LEMMA FailureKeeps ==
    ASSUME AbisInv, NEW c \in Calls,
           TxFails(c) \/ \E i \in DOMAIN call[c].parts : RequestFails(c, i)
    PROVE  AbisInv'
<1>. DEFINE me == call[c]
<1>1. UNCHANGED <<setting, version, now, abiCache, floor>>
  BY DEF TxFails, RequestFails
<1>2. me \in CallState /\ Sound(me, version, floor)
  BY DEF AbisInv, TypeOK
<1>3. abiCache' \in [Keys -> Entry] /\ EntriesAreSound'
  BY <1>1 DEF AbisInv, TypeOK, EntriesAreSound
<1>4. CASE TxFails(c)
  <2>. DEFINE new == [me EXCEPT !.at = "rejected"]
  <2>1. call' = [call EXCEPT ![c] = new] /\ me.at = "fetching"
    BY <1>4 DEF TxFails
  <2>2. /\ new \in CallState /\ new.at = "rejected" /\ new.ask = me.ask
        /\ new.parts = me.parts /\ new.floor = me.floor
    BY <1>2 DEF CallState
  <2>. HIDE DEF new
  <2>3. Sound(new, version, floor)
    BY <1>2, <2>1, <2>2 DEF Sound, WellShaped, Answered, UsesProperly
  <2>. QED  BY <1>1, <1>3, <2>1, <2>2, <2>3, OneCallChanges
<1>5. ASSUME NEW i \in DOMAIN me.parts, RequestFails(c, i) PROVE AbisInv'
  <2>. DEFINE p == Ended("error", 0)
              new == Settled([me EXCEPT !.parts[i] = p])
  <2>1. call' = [call EXCEPT ![c] = new] /\ me.parts[i].at = "sent"
    BY <1>5 DEF RequestFails
  <2>2. me.parts[i].by \in Published
    BY <1>2, <1>5, PartsTyped DEF PartState
  <2>3. p \in PartState /\ p.at = "done" /\ Proper(me, i, p)
    BY <2>2, Numbers, EndedTyped DEF Proper
  <2>4. new \in CallState /\ Sound(new, version, floor)
    <3>. HIDE DEF p
    <3>. QED  BY <1>2, <1>5, <2>1, <2>3, PartEnds
  <2>. HIDE DEF new
  <2>. QED  BY <1>1, <1>3, <2>1, <2>4, OneCallChanges
<1>. QED  BY <1>4, <1>5

\* Clearing in peace raises the floor of what is cleared to what is on the chain: nothing
\* is under way then that could bring back what is older.
LEMMA ClearKeeps == ASSUME AbisInv, NEW keys \in SUBSET Keys, ClearAbiCache(keys) PROVE AbisInv'
<1>1. /\ UNCHANGED <<setting, version, now, call>>
      /\ abiCache' = [k \in Keys |-> IF k \in keys THEN NoEntry ELSE abiCache[k]]
      /\ floor' = IF \E c \in Calls : UnderWay(c) THEN floor ELSE Current(keys)
  BY DEF ClearAbiCache
<1>2. /\ version \in [Modules -> Published] /\ floor \in [Keys -> Published]
      /\ \A k \in Keys : floor[k] <= version[k.module] /\ version[k.module] <= version[k.module]
  BY KeyTyped DEF AbisInv, TypeOK, EntriesAreSound, Published
<1>f. /\ floor' \in [Keys -> Published]
      /\ \A k \in Keys : /\ floor[k] <= floor'[k] /\ floor'[k] <= version[k.module]
                         /\ k \notin keys => floor'[k] = floor[k]
  <2>1. \A k \in Keys : Current(keys)[k] \in {version[k.module], floor[k]}
                        /\ (k \notin keys => Current(keys)[k] = floor[k])
    BY DEF Current
  <2>2. Current(keys) \in [Keys -> Published]
    BY <1>2, KeyTyped DEF Current
  <2>3. \A k \in Keys : floor[k] <= floor[k]
    BY <1>2 DEF Published
  <2>. QED  BY <1>1, <1>2, <2>1, <2>2, <2>3
<1>3. TypeOK'
  <2>1. abiCache' \in [Keys -> Entry]
    <3>. HIDE DEF Entry
    <3>. QED  BY <1>1, EntryTyped DEF AbisInv, TypeOK
  <2>. QED  BY <1>1, <1>f, <2>1 DEF AbisInv, TypeOK
<1>4. EntriesAreSound'
  BY <1>1, <1>f DEF AbisInv, EntriesAreSound, NoEntry
<1>5. ASSUME NEW c \in Calls PROVE Sound(call'[c], version', floor')
  <2>1. Sound(call[c], version, floor)
    BY DEF AbisInv
  <2>2. CASE UnderWay(c)
    BY <1>1, <2>1, <2>2
  <2>3. CASE ~UnderWay(c)
    <3>1. \A i \in DOMAIN call[c].parts : call[c].parts[i].at = "done"
      BY <2>3 DEF UnderWay
    <3>2. \A k \in Keys : call[c].ask.op = "getTx" => call[c].floor[k] <= floor'[k]
      <4>1. call[c].floor \in [Keys -> Published]
        BY DEF AbisInv, TypeOK, CallState
      <4>. QED  BY <1>2, <1>f, <2>1, <4>1 DEF Sound, Answered, Published
    <3>3. Answered(call[c], version, floor')
      BY <2>1, <3>1, <3>2 DEF Sound, Answered
    <3>. QED  BY <1>1, <2>1, <3>3 DEF Sound
  <2>. QED  BY <2>2, <2>3
<1>. QED  BY <1>3, <1>4, <1>5 DEF AbisInv

LEMMA UpgradeKeeps == ASSUME AbisInv, NEW m \in Modules, Upgrade(m) PROVE AbisInv'
<1>1. /\ version[m] < LastVersion /\ version' = [version EXCEPT ![m] = version[m] + 1]
      /\ UNCHANGED <<setting, now, abiCache, call, floor>>
  BY DEF Upgrade
<1>2. version \in [Modules -> Published] /\ floor \in [Keys -> Published]
  BY DEF AbisInv, TypeOK
<1>3. version' \in [Modules -> Published] /\ \A n \in Modules : version[n] <= version'[n]
  BY <1>1, <1>2, MoveAbisAssumption DEF Published
<1>4. TypeOK'
  BY <1>1, <1>3 DEF AbisInv, TypeOK
<1>5. EntriesAreSound'
  <2>1. ASSUME NEW k \in Keys PROVE floor[k] <= version'[k.module]
    BY <1>2, <1>3, KeyTyped DEF AbisInv, EntriesAreSound, Published
  <2>2. ASSUME NEW n \in Modules, version[n] = LastVersion PROVE version'[n] = LastVersion
    BY <1>1, <1>2, <2>2, MoveAbisAssumption DEF Published
  <2>. QED  BY <1>1, <2>1, <2>2, KeyTyped DEF AbisInv, EntriesAreSound
<1>6. \A c \in Calls : Sound(call'[c], version', floor')
  BY <1>1, <1>2, <1>3, SoundLater DEF AbisInv, TypeOK
<1>. QED  BY <1>4, <1>5, <1>6 DEF AbisInv

\* Every step preserves the strengthening.
LEMMA AbisStep == AbisInv /\ [Next]_vars => AbisInv'
<1>. SUFFICES ASSUME AbisInv, [Next]_vars PROVE AbisInv'
  OBVIOUS
<1>1. CASE UNCHANGED vars
  BY <1>1 DEF vars, AbisInv, TypeOK, EntriesAreSound
<1>2. CASE Tick
  BY <1>2 DEF Tick, AbisInv, TypeOK, EntriesAreSound
<1>. QED
  BY <1>1, <1>2, BeginKeeps, TxKeeps, NodeKeeps, AbiKeeps, AbisKeep, FailureKeeps, ClearKeeps,
     UpgradeKeeps DEF Next

-----------------------------------------------------------------------------
\* An entry that never expires is the version of the module on the chain, however late
\* the answers of older requests arrive.
THEOREM PermanentEntriesAreCurrent == Spec => []PermanentIsCurrent
<1>1. AbisInv => PermanentIsCurrent
  BY DEF AbisInv, EntriesAreSound, PermanentIsCurrent
<1>. QED  BY <1>1, AbisInit, AbisStep, PTL DEF Spec

\* A contract made past the cache, and whatever begins after its key was cleared while no
\* request was under way, be it with the whole cache or with the address as it is written
\* there, uses no ABI older than the module was then.
THEOREM StaleAbisCanBeAvoided == Spec => []NothingStaleOnRequest
<1>1. AbisInv => NothingStaleOnRequest
  BY DEF AbisInv, Sound, UsesProperly, Proper, NothingStaleOnRequest
<1>. QED  BY <1>1, AbisInit, AbisStep, PTL DEF Spec

\* Whatever fails, a transaction that came is returned whole, or refused in strict mode
\* because a message has an error.
THEOREM TransactionsAreWhole == Spec => []TransactionIsWhole
<1>1. AbisInv => TransactionIsWhole
  BY DEF AbisInv, Sound, WellShaped, FlawedPart, UsesProperly, Proper, TransactionIsWhole, UnderWay
<1>. QED  BY <1>1, AbisInit, AbisStep, PTL DEF Spec

=============================================================================
