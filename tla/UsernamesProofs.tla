-------------------------- MODULE UsernamesProofs ---------------------------
(***************************************************************************)
(* Proofs about the username service for any names, addresses, look-ups,   *)
(* times to live and histories of the registry.                            *)
(***************************************************************************)
EXTENDS Usernames, TLAPS

Data == [value : Keys \cup {Nobody}, expiry : Nat, read : Nat, came : Nat]

CallState ==
    [at : {"idle", "address", "metadata", "primary", "waiting", "done"},
     ask : [op : {"none", "getRecord", "getMetadata", "getName"}, of : Keys \cup {Nobody},
            skip : BOOLEAN, ttl : Nat],
     on : Calls \cup {NoCall}, data : Data,
     outcome : {"none", "value", "undefined", "error"}, since : Nat]

TypeOK ==
    /\ setting \in Settings
    /\ edition \in DOMAIN setting.history
    /\ now \in Nat
    /\ byName \in [Names -> [data : Data, until : Nat]]
    /\ byAddress \in [Addresses -> [data : Data, knownNames : SUBSET Names, until : Nat]]
    /\ pending \in [Keys -> Calls \cup {NoCall}]
    /\ latest \in [Keys -> Calls \cup {NoCall}]
    /\ call \in [Calls -> CallState]

\* A call does what it was asked to do, and awaits its own requests, or, unless it skips
\* the cache, those of another.
CallsAreAsked ==
    \A c \in Calls :
        LET me == call[c] IN
        /\ me.at # "idle" => me.ask \in setting.asks[c] /\ me.since <= edition
        /\ me.at \in {"address", "metadata", "primary"} => me.on = c
        /\ me.at \in {"address", "metadata"} => me.ask.of \in Names
        /\ me.at = "primary" => me.ask.of \in Addresses
        /\ me.at = "waiting" => ~me.ask.skip

\* The latest request about a key is about that key.
LatestIsSender ==
    \A k \in Keys : latest[k] # NoCall =>
        LET me == call[latest[k]] IN
        me.at \notin {"idle", "waiting"} /\ me.ask.of = k /\ me.on = latest[k]

\* What a call that skips the cache has read so far is fresh.
ReadIsFresh == \A c \in Calls : call[c].at = "metadata" => call[c].data.read >= call[c].since

\* An entry lives no longer than its name, if that expires, nor than some look-up of its key has asked for.
AskedFor(key, until, came) ==
    \E d \in Calls : \E ask \in setting.asks[d] : ask.of = key /\ until <= came + ask.ttl

EntriesExpire ==
    /\ \A n \in Names : LET entry == byName[n] IN Exists(entry) =>
          /\ entry.data.expiry = 0 \/ entry.until <= entry.data.expiry
          /\ AskedFor(n, entry.until, entry.data.came)
    /\ \A a \in Addresses : LET entry == byAddress[a] IN entry.data # NoData =>
          AskedFor(a, entry.until, entry.data.came)

EntriesAreOld ==
    ExpiryGrows => \A n \in Names :
        Exists(byName[n]) => NoLater(byName[n].data.expiry, Published.expiry[n])

UsernamesInv ==
    /\ TypeOK
    /\ CallsAreAsked
    /\ LatestIsSender
    /\ SharingIsSound
    /\ ReadIsFresh
    /\ SkipIsFresh
    /\ EntriesExpire
    /\ EntriesAreOld

-----------------------------------------------------------------------------
\* What the registry publishes and what a call may be asked are well formed.
LEMMA EditionTyped ==
    ASSUME setting \in Settings, NEW i \in DOMAIN setting.history
    PROVE  /\ setting.history[i].owner \in [Names -> Addresses \cup {Nobody}]
           /\ setting.history[i].expiry \in [Names -> Nat]
           /\ setting.history[i].primary \in [Addresses -> Names \cup {Nobody}]
<1>. DEFINE Edition == [owner : [Names -> Addresses \cup {Nobody}], expiry : [Names -> Nat],
                        primary : [Addresses -> Names \cup {Nobody}]]
<1>1. setting.history \in Seq(Edition)
  BY UsernamesAssumption DEF Editions
<1>2. setting.history[i] \in Edition
  <2>. HIDE DEF Edition
  <2>. QED  BY <1>1
<1>. QED  BY <1>2

LEMMA PublishedTyped ==
    ASSUME TypeOK
    PROVE  /\ Published.owner \in [Names -> Addresses \cup {Nobody}]
           /\ Published.expiry \in [Names -> Nat]
           /\ Published.primary \in [Addresses -> Names \cup {Nobody}]
BY EditionTyped DEF TypeOK, Published

LEMMA AskTyped ==
    ASSUME TypeOK, NEW c \in Calls, NEW ask \in setting.asks[c]
    PROVE  /\ ask \in Asks /\ ask.of \in Keys
           /\ IF ask.op = "getName" THEN ask.of \in Addresses /\ ask.of \notin Names
              ELSE ask.of \in Names
BY UsernamesAssumption DEF TypeOK, Asks, Keys

LEMMA NoDataTyped == NoData \in Data
BY DEF NoData, Data

LEMMA UsernamesInit == Init => UsernamesInv
<1>. SUFFICES ASSUME Init PROVE UsernamesInv
  OBVIOUS
<1>1. edition \in DOMAIN setting.history
  BY UsernamesAssumption DEF Init, Editions
<1>2. Idle \in CallState
  BY NoDataTyped DEF Idle, CallState
<1>3. TypeOK
  BY <1>1, <1>2, NoDataTyped DEF Init, TypeOK, NoEntry, NoPlace
<1>4. CallsAreAsked /\ LatestIsSender /\ SharingIsSound /\ ReadIsFresh /\ SkipIsFresh
  BY DEF Init, Idle, CallsAreAsked, LatestIsSender, SharingIsSound, RegisteredIsLatest,
         WaitersAreServed, ReadIsFresh, SkipIsFresh
<1>5. EntriesExpire
  BY DEF Init, NoEntry, NoPlace, EntriesExpire, Exists
<1>6. EntriesAreOld
  BY DEF Init, NoEntry, Exists, EntriesAreOld
<1>. QED  BY <1>3, <1>4, <1>5, <1>6 DEF UsernamesInv

-----------------------------------------------------------------------------
LEMMA Numbers ==
    ASSUME TypeOK
    PROVE  edition \in Nat /\ \A c \in Calls : call[c].since \in Nat /\ call[c].data.read \in Nat
<1>1. edition \in Nat
  BY UsernamesAssumption DEF TypeOK, Editions
<1>. QED  BY <1>1 DEF TypeOK, CallState, Data

\* Steps that touch neither the calls nor what they have registered.
LEMMA CallsKept ==
    ASSUME UsernamesInv, UNCHANGED <<setting, pending, call, latest>>, edition' \in Nat,
           edition <= edition'
    PROVE  CallsAreAsked' /\ LatestIsSender' /\ SharingIsSound' /\ ReadIsFresh' /\ SkipIsFresh'
<1>1. \A c \in Calls : call[c].since <= edition => call[c].since <= edition'
  BY Numbers DEF UsernamesInv
<1>2. CallsAreAsked'
  BY <1>1 DEF UsernamesInv, CallsAreAsked
<1>3. LatestIsSender' /\ SharingIsSound'
  BY DEF UsernamesInv, LatestIsSender, SharingIsSound, RegisteredIsLatest, WaitersAreServed,
         Running
<1>4. ReadIsFresh' /\ SkipIsFresh'
  BY DEF UsernamesInv, ReadIsFresh, SkipIsFresh, KeepsItsAnswer, ExpiryGrows
<1>. QED  BY <1>2, <1>3, <1>4

\* Steps that touch neither the entries nor the registry.
LEMMA EntriesKept ==
    ASSUME UsernamesInv, UNCHANGED <<setting, edition, cache>>
    PROVE  EntriesExpire' /\ EntriesAreOld'
BY DEF UsernamesInv, EntriesExpire, EntriesAreOld, Exists, AskedFor, ExpiryGrows, Published, cache

-----------------------------------------------------------------------------
\* How the calls go on when the promise of c settles.
SettledWith(c, outcome, data, names) ==
    \A d \in Calls :
        IF call[d].on # c \/ ~Running(d) THEN call'[d] = call[d]
        ELSE /\ call'[d].at = "done" /\ call'[d].ask = call[d].ask
             /\ call'[d].on = call[d].on /\ call'[d].since = call[d].since
             /\ call'[d].outcome = "value" =>
                   /\ outcome = "value"
                   /\ IF ReadsCache(d) THEN /\ Alive(names[call[d].ask.of])
                                            /\ call'[d].data = names[call[d].ask.of].data
                      ELSE call'[d].data = data

LEMMA Resolves ==
    ASSUME UsernamesInv, NEW c \in Calls, NEW outcome \in {"value", "undefined", "error"},
           NEW data \in Data, NEW names \in [Names -> [data : Data, until : Nat]],
           Resolve(c, outcome, data, names)
    PROVE  call' \in [Calls -> CallState] /\ SettledWith(c, outcome, data, names)
<1>. DEFINE After(d) ==
        LET me == call[d]
            entry == names[me.ask.of]
        IN  IF me.on # c \/ ~Running(d) THEN me
            ELSE IF outcome = "value" /\ ReadsCache(d)
            THEN IF Alive(entry) THEN Return(me, "value", entry.data)
                 ELSE Return(me, "undefined", NoData)
            ELSE Return(me, outcome, data)
<1>1. call' = [d \in Calls |-> After(d)]
  BY DEF Resolve
<1>2. ASSUME NEW d \in Calls
      PROVE  /\ After(d) \in CallState
             /\ IF call[d].on # c \/ ~Running(d) THEN After(d) = call[d]
                ELSE /\ After(d).at = "done" /\ After(d).ask = call[d].ask
                     /\ After(d).on = call[d].on /\ After(d).since = call[d].since
                     /\ After(d).outcome = "value" =>
                           /\ outcome = "value"
                           /\ IF ReadsCache(d) THEN /\ Alive(names[call[d].ask.of])
                                                    /\ After(d).data = names[call[d].ask.of].data
                              ELSE After(d).data = data
  <2>1. call[d] \in CallState
    BY DEF UsernamesInv, TypeOK
  <2>2. \A o \in {"value", "undefined", "error"} : \A x \in Data :
            /\ Return(call[d], o, x) \in CallState
            /\ Return(call[d], o, x).at = "done" /\ Return(call[d], o, x).outcome = o
            /\ Return(call[d], o, x).data = x /\ Return(call[d], o, x).ask = call[d].ask
            /\ Return(call[d], o, x).on = call[d].on /\ Return(call[d], o, x).since = call[d].since
    BY <2>1 DEF Return, CallState
  <2>3. Running(d) /\ ReadsCache(d) => names[call[d].ask.of] \in [data : Data, until : Nat]
    <3>1. call[d].ask.op = "getMetadata" /\ call[d].at # "idle" => call[d].ask.of \in Names
      BY AskTyped DEF UsernamesInv, CallsAreAsked
    <3>. QED  BY <3>1 DEF Running, ReadsCache
  <2>. HIDE DEF Return
  <2>. QED  BY <2>1, <2>2, <2>3, NoDataTyped
<1>. HIDE DEF After
<1>. QED  BY <1>1, <1>2 DEF SettledWith

\* What remains true of the calls when that promise settles, whatever was registered
\* meanwhile.
LEMMA SettlesProperly ==
    ASSUME UsernamesInv, NEW c \in Calls, call[c].at \in {"address", "metadata", "primary"},
           NEW outcome, NEW data, NEW names, SettledWith(c, outcome, data, names),
           pending' = Forget(c), UNCHANGED <<setting, edition, latest>>
    PROVE  CallsAreAsked' /\ LatestIsSender' /\ SharingIsSound' /\ ReadIsFresh'
<1>1. call[c].on = c
  BY DEF UsernamesInv, CallsAreAsked
<1>2. CallsAreAsked'
  <2>1. ASSUME NEW d \in Calls
        PROVE  \/ call'[d] = call[d]
               \/ /\ call'[d].at = "done" /\ call[d].at # "idle"
                  /\ call'[d].ask = call[d].ask /\ call'[d].since = call[d].since
    BY DEF SettledWith, Running
  <2>. QED  BY <2>1 DEF UsernamesInv, CallsAreAsked
<1>3. LatestIsSender'
  BY DEF UsernamesInv, LatestIsSender, SettledWith, TypeOK
<1>4. ReadIsFresh'
  BY DEF UsernamesInv, ReadIsFresh, SettledWith
<1>5. RegisteredIsLatest'
  <2>1. SUFFICES ASSUME NEW k \in Keys
                 PROVE  pending'[k] = IF latest[k] # NoCall /\ Running(latest[k])' THEN latest[k]
                                      ELSE NoCall
    BY DEF RegisteredIsLatest, Running
  <2>2. CASE latest[k] = c
    BY <1>1, <2>2 DEF Forget, SettledWith, Running, UsernamesInv, TypeOK, LatestIsSender,
                      SharingIsSound, RegisteredIsLatest
  <2>3. CASE latest[k] # c
    BY <1>1, <2>3, UsernamesAssumption DEF Forget, SettledWith, Running, UsernamesInv, TypeOK, LatestIsSender,
                      SharingIsSound, RegisteredIsLatest
  <2>. QED  BY <2>2, <2>3
<1>6. WaitersAreServed'
  <2>1. SUFFICES ASSUME NEW d \in Calls, call'[d].at = "waiting"
                 PROVE  /\ call'[d].on \in Calls
                        /\ call'[call'[d].on].at \in {"address", "metadata", "primary"}
                        /\ call'[call'[d].on].ask.of = call'[d].ask.of
    BY DEF WaitersAreServed
  <2>2. call'[d] = call[d] /\ call[d].on # c
    BY <2>1 DEF SettledWith, Running
  <2>3. /\ call[d].on \in Calls /\ call[call[d].on].at \in {"address", "metadata", "primary"}
        /\ call[call[d].on].ask.of = call[d].ask.of
    BY <2>1, <2>2 DEF UsernamesInv, SharingIsSound, WaitersAreServed
  <2>4. call'[call[d].on] = call[call[d].on]
    BY <2>2, <2>3 DEF SettledWith, UsernamesInv, CallsAreAsked
  <2>. QED  BY <2>2, <2>3, <2>4
<1>. QED  BY <1>2, <1>3, <1>4, <1>5, <1>6 DEF SharingIsSound

\* A call that skips the cache settles with what its own request has brought.
LEMMA SettlesFresh ==
    ASSUME UsernamesInv, NEW c \in Calls, call[c].at \in {"address", "metadata", "primary"},
           NEW outcome, NEW data, NEW names, SettledWith(c, outcome, data, names),
           UNCHANGED setting,
           call[c].ask.skip /\ KeepsItsAnswer(call[c].ask) /\ call'[c].outcome = "value"
              => call'[c].data.read >= call[c].since
    PROVE  SkipIsFresh'
<1>. SUFFICES ASSUME NEW d \in Calls, call'[d].at = "done", call'[d].ask.skip,
                     KeepsItsAnswer(call[d].ask), call'[d].outcome = "value"
              PROVE  call'[d].data.read >= call'[d].since
  BY DEF SkipIsFresh, KeepsItsAnswer, ExpiryGrows, SettledWith
<1>1. CASE call'[d] = call[d]
  BY <1>1 DEF UsernamesInv, SkipIsFresh
<1>2. CASE call'[d] # call[d]
  <2>1. call[d].on = c /\ Running(d) /\ call[d].ask.skip /\ call'[d].since = call[d].since
    BY <1>2 DEF SettledWith
  <2>2. d = c
    BY <2>1 DEF UsernamesInv, CallsAreAsked, Running, TypeOK, CallState
  <2>. QED  BY <2>1, <2>2
<1>. QED  BY <1>1, <1>2

-----------------------------------------------------------------------------
\* Removing entries, or names that are known, leaves the rest as it was.
LEMMA EntriesLost ==
    ASSUME UsernamesInv, UNCHANGED <<setting, edition>>,
           \A n \in Names : byName'[n] \in {byName[n], NoEntry},
           \A a \in Addresses : \/ byAddress'[a] = NoPlace
                                \/ /\ byAddress'[a].data = byAddress[a].data
                                   /\ byAddress'[a].until = byAddress[a].until
    PROVE  EntriesExpire' /\ EntriesAreOld'
<1>1. EntriesExpire'
  BY DEF UsernamesInv, EntriesExpire, Exists, AskedFor, NoEntry, NoPlace
<1>2. EntriesAreOld'
  <2>1. ~Exists(NoEntry)
    BY DEF Exists, NoEntry
  <2>. QED  BY <2>1 DEF UsernamesInv, EntriesAreOld, ExpiryGrows, Published
<1>. QED  BY <1>1, <1>2

\* The ways a look-up may begin: it is answered from the cache or awaits another's
\* promise, unless it skips the cache, or it sends a request and registers it.
Begins(c, ask, new) ==
    /\ call[c].at = "idle" /\ call' = [call EXCEPT ![c] = new]
    /\ new \in CallState /\ new.ask = ask /\ new.since = edition
    /\ \/ /\ ~ask.skip
          /\ \/ new.at = "done"
             \/ new.at = "waiting" /\ new.on = pending[ask.of] /\ pending[ask.of] # NoCall
          /\ UNCHANGED <<pending, latest>>
       \/ /\ new.at = IF ask.op = "getName" THEN "primary" ELSE "address"
          /\ new.on = c
          /\ pending' = [pending EXCEPT ![ask.of] = c]
          /\ latest' = [latest EXCEPT ![ask.of] = c]
    /\ UNCHANGED <<setting, edition, now>>
    /\ byName' \in {byName, [byName EXCEPT ![ask.of] = NoEntry]}
    /\ byAddress' \in {byAddress, [byAddress EXCEPT ![ask.of] = NoPlace]}

LEMMA LookUpBegins ==
    ASSUME UsernamesInv, NEW c \in Calls, LookUp(c)
    PROVE  \E ask \in setting.asks[c] : \E new : Begins(c, ask, new)
<1>. PICK ask \in setting.asks[c] :
        /\ call[c].at = "idle"
        /\ IF ask.op = "getName" THEN LookUpAddress(c, ask) ELSE LookUpName(c, ask)
        /\ UNCHANGED <<setting, edition, now>>
  BY DEF LookUp
<1>. DEFINE me == Begun(ask)
            hit(entry) == Return(me, "value", entry.data)
            shared == [me EXCEPT !.at = "waiting", !.on = pending[me.ask.of]]
            sent(first) == [me EXCEPT !.at = first, !.on = c]
<1>1. /\ ask \in Asks /\ ask.of \in Keys
      /\ IF ask.op = "getName" THEN ask.of \in Addresses ELSE ask.of \in Names
  BY AskTyped DEF UsernamesInv
<1>2. me \in CallState /\ me.ask = ask /\ me.since = edition
  BY <1>1, Numbers, NoDataTyped DEF Begun, Idle, CallState, Asks, UsernamesInv
<1>. HIDE DEF me
<1>3. /\ \A entry : entry.data \in Data =>
            /\ hit(entry) \in CallState /\ hit(entry).at = "done"
            /\ hit(entry).ask = ask /\ hit(entry).since = edition
      /\ shared \in CallState /\ shared.at = "waiting" /\ shared.on = pending[ask.of]
      /\ shared.ask = ask /\ shared.since = edition
      /\ \A first \in {"address", "primary"} :
            /\ sent(first) \in CallState /\ sent(first).at = first
            /\ sent(first).on = c /\ sent(first).ask = ask /\ sent(first).since = edition
  BY <1>1, <1>2 DEF Return, CallState, UsernamesInv, TypeOK
<1>4. CASE ask.op # "getName"
  <2>1. byName[ask.of].data \in Data
    BY <1>1, <1>4 DEF UsernamesInv, TypeOK
  <2>2. \/ ~ask.skip /\ call' = [call EXCEPT ![c] = hit(byName[ask.of])] /\ UNCHANGED <<pending, latest>>
        \/ /\ ~ask.skip /\ pending[ask.of] # NoCall
           /\ call' = [call EXCEPT ![c] = shared] /\ UNCHANGED <<pending, latest>>
        \/ /\ call' = [call EXCEPT ![c] = sent("address")]
           /\ pending' = [pending EXCEPT ![ask.of] = c] /\ latest' = [latest EXCEPT ![ask.of] = c]
    BY <1>2, <1>4 DEF LookUpName, Share, Send, me
  <2>3. /\ byName' \in {byName, [byName EXCEPT ![ask.of] = NoEntry]}
        /\ byAddress' = byAddress
    BY <1>4 DEF LookUpName, SweepName
  <2>. HIDE DEF hit, shared, sent
  <2>. QED  BY <1>3, <1>4, <2>1, <2>2, <2>3 DEF Begins
<1>5. CASE ask.op = "getName"
  <2>1. byAddress[ask.of].data \in Data
    BY <1>1, <1>5 DEF UsernamesInv, TypeOK
  <2>2. \/ ~ask.skip /\ call' = [call EXCEPT ![c] = hit(byAddress[ask.of])] /\ UNCHANGED <<pending, latest>>
        \/ /\ ~ask.skip /\ pending[ask.of] # NoCall
           /\ call' = [call EXCEPT ![c] = shared] /\ UNCHANGED <<pending, latest>>
        \/ /\ call' = [call EXCEPT ![c] = sent("primary")]
           /\ pending' = [pending EXCEPT ![ask.of] = c] /\ latest' = [latest EXCEPT ![ask.of] = c]
    BY <1>2, <1>5 DEF LookUpAddress, Share, Send, me
  <2>3. /\ byAddress' \in {byAddress, [byAddress EXCEPT ![ask.of] = NoPlace]}
        /\ byName' = byName
    BY <1>5 DEF LookUpAddress, SweepAddress
  <2>. HIDE DEF hit, shared, sent
  <2>. QED  BY <1>3, <1>5, <2>1, <2>2, <2>3 DEF Begins
<1>. QED  BY <1>4, <1>5

LEMMA LookUpKeeps ==
    ASSUME UsernamesInv, NEW c \in Calls, LookUp(c)
    PROVE  UsernamesInv'
<1>. PICK ask \in setting.asks[c] : \E new : Begins(c, ask, new)
  BY LookUpBegins
<1>. PICK new : Begins(c, ask, new)
  OBVIOUS
<1>1. /\ ask \in Asks /\ ask.of \in Keys
      /\ IF ask.op = "getName" THEN ask.of \in Addresses ELSE ask.of \in Names
  BY AskTyped DEF UsernamesInv
<1>2. /\ call \in [Calls -> CallState] /\ call'[c] = new
      /\ \A d \in Calls \ {c} : call'[d] = call[d]
  BY DEF Begins, UsernamesInv, TypeOK
<1>3. TypeOK'
  BY <1>1, <1>2, NoDataTyped DEF Begins, UsernamesInv, TypeOK, NoEntry, NoPlace
<1>4. CallsAreAsked'
  BY <1>1, <1>2, Numbers DEF Begins, UsernamesInv, CallsAreAsked
<1>5. \A k \in Keys : latest[k] # c
  BY UsernamesAssumption DEF Begins, UsernamesInv, LatestIsSender
<1>6. LatestIsSender' /\ RegisteredIsLatest'
  BY <1>1, <1>2, <1>5, UsernamesAssumption
  DEF Begins, UsernamesInv, TypeOK, LatestIsSender, SharingIsSound, RegisteredIsLatest, Running
<1>w. WaitersAreServed'
  <2>1. ASSUME NEW d \in Calls, d # c, call'[d].at = "waiting"
        PROVE  /\ call'[d].on \in Calls
               /\ call'[call'[d].on].at \in {"address", "metadata", "primary"}
               /\ call'[call'[d].on].ask.of = call'[d].ask.of
    BY <1>2, <2>1 DEF Begins, UsernamesInv, SharingIsSound, WaitersAreServed
  <2>2. CASE new.at = "waiting"
    <3>1. new.on = pending[ask.of] /\ new.on # NoCall /\ new.ask = ask
      BY <2>2 DEF Begins
    <3>2. new.on = latest[ask.of] /\ Running(new.on) /\ new.on \in Calls
      BY <1>1, <3>1 DEF UsernamesInv, SharingIsSound, RegisteredIsLatest, TypeOK
    <3>3. /\ call[new.on].at \in {"address", "metadata", "primary"}
          /\ call[new.on].ask.of = ask.of /\ new.on # c
      BY <1>1, <1>2, <3>1, <3>2 DEF Begins, UsernamesInv, LatestIsSender, Running, TypeOK, CallState
    <3>. QED  BY <1>2, <2>1, <3>1, <3>2, <3>3 DEF WaitersAreServed
  <2>3. CASE new.at # "waiting"
    BY <1>2, <2>1, <2>3 DEF WaitersAreServed
  <2>. QED  BY <2>2, <2>3
<1>7. ReadIsFresh' /\ SkipIsFresh'
  BY <1>2 DEF Begins, UsernamesInv, ReadIsFresh, SkipIsFresh, KeepsItsAnswer, ExpiryGrows
<1>8. EntriesExpire' /\ EntriesAreOld'
  BY EntriesLost DEF Begins, UsernamesInv, TypeOK
<1>. QED  BY <1>3, <1>4, <1>6, <1>w, <1>7, <1>8 DEF UsernamesInv, SharingIsSound

-----------------------------------------------------------------------------
\* A promise that settles without an answer, be the request refused or the name unknown.
LEMMA SettlesWithoutValue ==
    ASSUME UsernamesInv, NEW c \in Calls, call[c].at \in {"address", "metadata", "primary"},
           NEW outcome \in {"undefined", "error"}, Resolve(c, outcome, NoData, byName),
           pending' = Forget(c), UNCHANGED <<setting, edition, now, cache, latest>>
    PROVE  UsernamesInv'
<1>1. call' \in [Calls -> CallState] /\ SettledWith(c, outcome, NoData, byName)
  BY Resolves, NoDataTyped DEF UsernamesInv, TypeOK
<1>2. TypeOK'
  BY <1>1 DEF UsernamesInv, TypeOK, Forget, cache
<1>3. CallsAreAsked' /\ LatestIsSender' /\ SharingIsSound' /\ ReadIsFresh'
  BY <1>1, SettlesProperly
<1>4. call'[c].outcome # "value"
  BY <1>1 DEF SettledWith, UsernamesInv, CallsAreAsked, Running
<1>5. SkipIsFresh'
  BY <1>1, <1>4, SettlesFresh
<1>6. EntriesExpire' /\ EntriesAreOld'
  BY EntriesKept
<1>. QED  BY <1>2, <1>3, <1>5, <1>6 DEF UsernamesInv

\* The owner of a name arrives: the look-up goes on with the metadata.
LEMMA AddressKeeps ==
    ASSUME UsernamesInv, NEW c \in Calls, AddressArrives(c)
    PROVE  UsernamesInv'
<1>. DEFINE n == call[c].ask.of
            owner == Published.owner[n]
            read == [NoData EXCEPT !.value = owner, !.read = edition]
<1>1. call[c].at = "address" /\ n \in Names
  BY DEF AddressArrives, UsernamesInv, CallsAreAsked
<1>2. CASE owner = Nobody
  BY <1>1, <1>2, SettlesWithoutValue DEF AddressArrives
<1>3. CASE owner # Nobody
  <2>1. owner \in Keys
    BY <1>1, <1>3, PublishedTyped DEF UsernamesInv, Keys
  <2>2. read \in Data /\ read.read = edition
    BY <2>1, Numbers DEF UsernamesInv, NoData, Data
  <2>3. /\ call' = [call EXCEPT ![c].at = "metadata", ![c].data = read]
        /\ UNCHANGED <<setting, edition, now, byName, byAddress, pending, latest>>
    BY <1>3 DEF AddressArrives, cache
  <2>. HIDE DEF read
  <2>4. /\ call' \in [Calls -> CallState] /\ call'[c].at = "metadata"
        /\ call'[c].data.read = edition /\ call'[c].ask = call[c].ask
        /\ call'[c].on = call[c].on /\ call'[c].since = call[c].since
        /\ \A d \in Calls \ {c} : call'[d] = call[d]
    <3>1. call[c] \in CallState
      BY DEF UsernamesInv, TypeOK
    <3>2. [call[c] EXCEPT !.at = "metadata", !.data = read] \in CallState
      BY <2>2, <3>1 DEF CallState
    <3>. QED  BY <2>2, <2>3, <3>1, <3>2 DEF UsernamesInv, TypeOK, CallState
  <2>5. TypeOK'
    BY <2>3, <2>4 DEF UsernamesInv, TypeOK
  <2>6. CallsAreAsked' /\ ReadIsFresh'
    BY <1>1, <2>3, <2>4, Numbers DEF UsernamesInv, CallsAreAsked, ReadIsFresh
  <2>7. LatestIsSender' /\ SharingIsSound'
    BY <1>1, <2>3, <2>4 DEF UsernamesInv, TypeOK, LatestIsSender, SharingIsSound,
                            RegisteredIsLatest, WaitersAreServed, Running
  <2>8. SkipIsFresh'
    BY <2>3, <2>4 DEF UsernamesInv, SkipIsFresh, KeepsItsAnswer, ExpiryGrows
  <2>9. EntriesExpire' /\ EntriesAreOld'
    BY <2>3, EntriesKept DEF cache
  <2>. QED  BY <2>5, <2>6, <2>7, <2>8, <2>9 DEF UsernamesInv
<1>. QED  BY <1>2, <1>3

\* A primary name arrives and is kept for as long as the look-up asks.
LEMMA PrimaryKeeps ==
    ASSUME UsernamesInv, NEW c \in Calls, PrimaryArrives(c)
    PROVE  UsernamesInv'
<1>. DEFINE a == call[c].ask.of
            data == [value |-> Published.primary[a], expiry |-> 0, read |-> edition, came |-> now]
<1>1. call[c].at = "primary" /\ a \in Addresses
  BY DEF PrimaryArrives, UsernamesInv, CallsAreAsked
<1>2. CASE data.value = Nobody
  BY <1>1, <1>2, SettlesWithoutValue DEF PrimaryArrives, cache
<1>3. CASE data.value # Nobody
  <2>. DEFINE ttl == call[c].ask.ttl
  <2>1. data \in Data /\ data.read = edition /\ data.came = now /\ ttl \in Nat /\ now \in Nat
    BY <1>1, PublishedTyped, Numbers DEF UsernamesInv, TypeOK, CallState, Data, Keys
  <2>2. /\ IF ttl = 0 THEN UNCHANGED byAddress
           ELSE byAddress' = [byAddress EXCEPT ![a].data = data, ![a].until = now + ttl]
        /\ Resolve(c, "value", data, byName) /\ pending' = Forget(c)
        /\ UNCHANGED <<setting, edition, now, byName, latest>>
    BY <1>3 DEF PrimaryArrives, SetPrimaryByAddress
  <2>. HIDE DEF data
  <2>3. call' \in [Calls -> CallState] /\ SettledWith(c, "value", data, byName)
    BY <2>1, <2>2, Resolves DEF UsernamesInv, TypeOK
  <2>4. TypeOK'
    <3>. DEFINE Place == [data : Data, knownNames : SUBSET Names, until : Nat]
    <3>1. byAddress \in [Addresses -> Place] /\ now + ttl \in Nat
      BY <2>1 DEF UsernamesInv, TypeOK
    <3>2. byAddress' \in [Addresses -> Place]
      BY <1>1, <2>1, <2>2, <3>1
    <3>3. pending' \in [Keys -> Calls \cup {NoCall}]
      BY <2>2 DEF UsernamesInv, TypeOK, Forget
    <3>. QED  BY <2>2, <2>3, <3>2, <3>3 DEF UsernamesInv, TypeOK
  <2>5. CallsAreAsked' /\ LatestIsSender' /\ SharingIsSound' /\ ReadIsFresh'
    BY <1>1, <2>2, <2>3, SettlesProperly
  <2>6. SkipIsFresh'
    <3>1. /\ call[c].ask \in setting.asks[c] /\ call[c].since <= edition
          /\ call[c].on = c /\ Running(c)
      BY <1>1 DEF UsernamesInv, CallsAreAsked, Running
    <3>2. ~ReadsCache(c)
      <4>1. a \notin Names
        BY <1>1, UsernamesAssumption
      <4>. QED  BY <3>1, <4>1, AskTyped DEF ReadsCache, UsernamesInv
    <3>3. call'[c].outcome = "value" => call'[c].data = data
      BY <2>3, <3>1, <3>2 DEF SettledWith
    <3>. QED  BY <1>1, <2>1, <2>2, <2>3, <3>1, <3>3, Numbers, SettlesFresh DEF UsernamesInv
  <2>7. EntriesExpire'
    <3>1. call[c].ask \in setting.asks[c]
      BY <1>1 DEF UsernamesInv, CallsAreAsked
    <3>2. AskedFor(a, now + ttl, data.came)
      BY <2>1, <3>1 DEF AskedFor
    <3>. QED  BY <2>1, <2>2, <3>2 DEF UsernamesInv, TypeOK, EntriesExpire, AskedFor, Exists
  <2>8. EntriesAreOld'
    BY <2>2 DEF UsernamesInv, EntriesAreOld, ExpiryGrows, Published
  <2>. QED  BY <2>4, <2>5, <2>6, <2>7, <2>8 DEF UsernamesInv
<1>. QED  BY <1>2, <1>3

\* The metadata of a name arrives: the record is kept until the look-up's time to live
\* or the name itself expires, whichever is first.
LEMMA MetadataKeeps ==
    ASSUME UsernamesInv, NEW c \in Calls, MetadataArrives(c)
    PROVE  UsernamesInv'
<1>. DEFINE n == call[c].ask.of
            ttl == call[c].ask.ttl
            data == [call[c].data EXCEPT !.expiry = Published.expiry[n], !.came = now]
            life == EffectiveTtl(ttl, data.expiry)
<1>1. /\ call[c].at = "metadata" /\ n \in Names /\ call[c].on = c /\ Running(c)
      /\ call[c].ask \in setting.asks[c] /\ call[c].data.read >= call[c].since
  BY DEF MetadataArrives, UsernamesInv, CallsAreAsked, ReadIsFresh, Running
<1>2. CASE Published.owner[n] = Nobody
  BY <1>1, <1>2, SettlesWithoutValue DEF MetadataArrives
<1>3. CASE Published.owner[n] # Nobody
  <2>1. /\ data \in Data /\ data.expiry = Published.expiry[n] /\ data.came = now
        /\ data.read = call[c].data.read /\ Published.expiry[n] \in Nat
        /\ ttl \in Nat /\ now \in Nat
    <3>1. call[c] \in CallState /\ call[c].data \in Data /\ Published.expiry[n] \in Nat
      BY <1>1, PublishedTyped DEF UsernamesInv, TypeOK, CallState
    <3>. QED  BY <3>1 DEF UsernamesInv, TypeOK, CallState, Data
  <2>. HIDE DEF data
  <2>2. /\ IF ttl = 0 THEN UNCHANGED cache ELSE SetByName(n, data, ttl)
        /\ Resolve(c, "value", data, byName') /\ pending' = Forget(c)
        /\ UNCHANGED <<setting, edition, now, latest>>
    BY <1>3 DEF MetadataArrives, data
  <2>3. /\ life \in Nat /\ life <= ttl
        /\ life # 0 => data.expiry = 0 \/ now + life <= data.expiry
        /\ life = 0 => ttl = 0 \/ (data.expiry # 0 /\ data.expiry <= now)
    BY <2>1 DEF EffectiveTtl, Earlier
  <2>. HIDE DEF life
  <2>4. \/ (ttl = 0 \/ life = 0) /\ UNCHANGED cache
        \/ /\ ttl # 0 /\ life # 0
           /\ byName' = [byName EXCEPT ![n] = [data |-> data, until |-> now + life]]
           /\ \/ byAddress' = [byAddress EXCEPT ![data.value] =
                     [byAddress[data.value] EXCEPT !.knownNames = @ \cup {n}]]
              \/ byAddress' = [byAddress EXCEPT ![data.value] =
                     [data |-> NoData, knownNames |-> {n}, until |-> now + life]]
    BY <2>2 DEF SetByName, life
  <2>5. byName' \in [Names -> [data : Data, until : Nat]]
    BY <1>1, <2>1, <2>3, <2>4 DEF UsernamesInv, TypeOK, cache
  <2>6. byAddress' \in [Addresses -> [data : Data, knownNames : SUBSET Names, until : Nat]]
    <3>. DEFINE Place == [data : Data, knownNames : SUBSET Names, until : Nat]
    <3>1. byAddress \in [Addresses -> Place] /\ now + life \in Nat
      BY <2>1, <2>3 DEF UsernamesInv, TypeOK
    <3>2. ASSUME NEW b \in Addresses PROVE [byAddress[b] EXCEPT !.knownNames = @ \cup {n}] \in Place
      BY <1>1, <3>1
    <3>3. [data |-> NoData, knownNames |-> {n}, until |-> now + life] \in Place
      BY <1>1, <3>1, NoDataTyped
    <3>. HIDE DEF Place
    <3>4. byAddress' \in [Addresses -> Place]
      BY <2>4, <3>1, <3>2, <3>3 DEF cache
    <3>. QED  BY <3>4 DEF Place
  <2>7. call' \in [Calls -> CallState] /\ SettledWith(c, "value", data, byName')
    BY <2>1, <2>2, <2>5, Resolves
  <2>8. TypeOK'
    <3>1. pending' \in [Keys -> Calls \cup {NoCall}]
      BY <2>2 DEF UsernamesInv, TypeOK, Forget
    <3>. QED  BY <2>2, <2>5, <2>6, <2>7, <3>1 DEF UsernamesInv, TypeOK
  <2>9. CallsAreAsked' /\ LatestIsSender' /\ SharingIsSound' /\ ReadIsFresh'
    BY <1>1, <2>2, <2>7, SettlesProperly
  <2>10. SkipIsFresh'
    <3>1. SUFFICES ASSUME KeepsItsAnswer(call[c].ask), call'[c].outcome = "value"
                   PROVE  call'[c].data.read >= call[c].since
      BY <1>1, <2>2, <2>7, SettlesFresh
    <3>2. CASE ~ReadsCache(c)
      BY <1>1, <2>1, <2>7, <3>1, <3>2 DEF SettledWith
    <3>3. CASE ReadsCache(c)
      <4>1. Alive(byName'[n]) /\ call'[c].data = byName'[n].data /\ ttl # 0 /\ ExpiryGrows
        BY <1>1, <2>7, <3>1, <3>3 DEF SettledWith, ReadsCache, KeepsItsAnswer
      <4>2. CASE byName' = [byName EXCEPT ![n] = [data |-> data, until |-> now + life]]
        BY <1>1, <2>1, <4>1, <4>2 DEF UsernamesInv, TypeOK
      <4>3. CASE life = 0 /\ UNCHANGED byName
        <5>1. /\ byName[n].until > now /\ Exists(byName[n])
              /\ byName[n].data.expiry = 0 \/ byName[n].until <= byName[n].data.expiry
          BY <1>1, <2>1, <4>1, <4>3 DEF Alive, Exists, UsernamesInv, TypeOK, EntriesExpire
        <5>2. byName[n].data.expiry # 0 /\ byName[n].data.expiry <= now
          BY <1>1, <2>1, <2>3, <4>1, <4>3, <5>1
          DEF UsernamesInv, TypeOK, EntriesAreOld, NoLater, Data
        <5>. QED  BY <1>1, <2>1, <5>1, <5>2 DEF UsernamesInv, TypeOK, Data
      <4>. QED  BY <2>4, <4>1, <4>2, <4>3 DEF cache
    <3>. QED  BY <3>2, <3>3
  <2>11. EntriesExpire'
    <3>1. AskedFor(n, now + life, data.came)
      BY <1>1, <2>1, <2>3 DEF AskedFor
    <3>2. \A b \in Addresses : \/ byAddress'[b].data = NoData
                               \/ /\ byAddress'[b].data = byAddress[b].data
                                  /\ byAddress'[b].until = byAddress[b].until
      BY <2>4 DEF cache, UsernamesInv, TypeOK
    <3>3. \A m \in Names : \/ byName'[m] = byName[m]
                           \/ m = n /\ byName'[m] = [data |-> data, until |-> now + life] /\ life # 0
      BY <2>4 DEF cache, UsernamesInv, TypeOK
    <3>. QED  BY <2>2, <2>3, <3>1, <3>2, <3>3 DEF UsernamesInv, EntriesExpire, AskedFor, Exists
  <2>12. EntriesAreOld'
    <3>1. \A m \in Names : \/ byName'[m] = byName[m]
                           \/ m = n /\ byName'[m].data = data
      BY <2>4 DEF cache, UsernamesInv, TypeOK
    <3>2. NoLater(data.expiry, Published.expiry[n])
      BY <2>1 DEF NoLater
    <3>. QED  BY <2>1, <2>2, <3>1, <3>2 DEF UsernamesInv, EntriesAreOld, ExpiryGrows, Published
  <2>. QED  BY <2>8, <2>9, <2>10, <2>11, <2>12 DEF UsernamesInv
<1>. QED  BY <1>2, <1>3

-----------------------------------------------------------------------------
\* Reading known names, invalidating, clearing and evicting only take things out of the
\* two caches.
Loses ==
    /\ byName' \in [Names -> [data : Data, until : Nat]]
    /\ byAddress' \in [Addresses -> [data : Data, knownNames : SUBSET Names, until : Nat]]
    /\ \A n \in Names : byName'[n] \in {byName[n], NoEntry}
    /\ \A a \in Addresses : \/ byAddress'[a] = NoPlace
                            \/ /\ byAddress'[a].data = byAddress[a].data
                               /\ byAddress'[a].until = byAddress[a].until

LEMMA EntriesAreLost ==
    ASSUME UsernamesInv,
           (\E a \in Addresses : GetKnownNames(a) \/ InvalidateAddress(a))
              \/ (\E n \in Names : InvalidateName(n)) \/ ClearCache \/ Evict
    PROVE  Loses
<1>. DEFINE Entry == [data : Data, until : Nat]
            Place == [data : Data, knownNames : SUBSET Names, until : Nat]
<1>1. byName \in [Names -> Entry] /\ byAddress \in [Addresses -> Place]
  BY DEF UsernamesInv, TypeOK
<1>2. NoEntry \in Entry /\ NoPlace \in Place
  BY NoDataTyped DEF NoEntry, NoPlace
<1>3. ASSUME NEW a \in Addresses, NEW known \in SUBSET Names
      PROVE  /\ [byAddress[a] EXCEPT !.knownNames = known] \in Place
             /\ [byAddress[a] EXCEPT !.knownNames = known].data = byAddress[a].data
             /\ [byAddress[a] EXCEPT !.knownNames = known].until = byAddress[a].until
  BY <1>1
<1>4. ASSUME NEW a \in Addresses, GetKnownNames(a) PROVE Loses
  <2>1. ValidNames(a) \in SUBSET Names /\ UNCHANGED byName
    BY <1>1, <1>4 DEF GetKnownNames, ValidNames
  <2>2. \/ byAddress' = [byAddress EXCEPT ![a] = [byAddress[a] EXCEPT !.knownNames = ValidNames(a)]]
        \/ byAddress' = [byAddress EXCEPT ![a] = NoPlace]
    BY <1>4 DEF GetKnownNames
  <2>. HIDE DEF Entry, Place
  <2>3. byAddress' \in [Addresses -> Place]
    BY <1>1, <1>2, <1>3, <2>1, <2>2
  <2>4. \A b \in Addresses : \/ byAddress'[b] = NoPlace
                             \/ /\ byAddress'[b].data = byAddress[b].data
                                /\ byAddress'[b].until = byAddress[b].until
    BY <1>1, <1>3, <2>1, <2>2
  <2>. QED  BY <1>1, <2>1, <2>3, <2>4 DEF Loses, Entry, Place
<1>5. ASSUME NEW a \in Addresses, InvalidateAddress(a) PROVE Loses
  <2>. HIDE DEF Entry, Place
  <2>1. byName' \in [Names -> Entry] /\ \A n \in Names : byName'[n] \in {byName[n], NoEntry}
    BY <1>1, <1>2, <1>5 DEF InvalidateAddress
  <2>2. /\ byAddress' \in [Addresses -> Place]
        /\ \A b \in Addresses : byAddress'[b] \in {byAddress[b], NoPlace}
    BY <1>1, <1>2, <1>5 DEF InvalidateAddress
  <2>. QED  BY <2>1, <2>2 DEF Loses, Entry, Place
<1>6. ASSUME NEW n \in Names, InvalidateName(n) PROVE Loses
  <2>. DEFINE a == byName[n].data.value
              known == byAddress[a].knownNames \ {n}
  <2>1. byAddress' = [byAddress EXCEPT ![a] = [byAddress[a] EXCEPT !.knownNames = known]]
    BY <1>6 DEF InvalidateName
  <2>2. byName' = [byName EXCEPT ![n] = NoEntry]
    BY <1>6 DEF InvalidateName
  <2>3. a \in Addresses => known \in SUBSET Names
    BY <1>1
  <2>. HIDE DEF Entry, Place, a, known
  <2>4. byName' \in [Names -> Entry] /\ \A m \in Names : byName'[m] \in {byName[m], NoEntry}
    BY <1>1, <1>2, <2>2
  <2>5. byAddress' \in [Addresses -> Place]
    BY <1>1, <1>3, <2>1, <2>3
  <2>6. \A b \in Addresses : /\ byAddress'[b].data = byAddress[b].data
                             /\ byAddress'[b].until = byAddress[b].until
    BY <1>1, <1>3, <2>1, <2>3
  <2>. QED  BY <2>4, <2>5, <2>6 DEF Loses, Entry, Place
<1>7. CASE ClearCache
  <2>. HIDE DEF Entry, Place
  <2>1. byName' \in [Names -> Entry] /\ byAddress' \in [Addresses -> Place]
    BY <1>2, <1>7 DEF ClearCache
  <2>. QED  BY <1>7, <2>1 DEF ClearCache, Loses, Entry, Place
<1>8. CASE Evict
  <2>. HIDE DEF Entry, Place
  <2>1. byName' \in [Names -> Entry] /\ byAddress' \in [Addresses -> Place]
    BY <1>1, <1>2, <1>8 DEF Evict
  <2>2. /\ \A n \in Names : byName'[n] \in {byName[n], NoEntry}
        /\ \A a \in Addresses : byAddress'[a] \in {byAddress[a], NoPlace}
    BY <1>1, <1>8 DEF Evict
  <2>. QED  BY <2>1, <2>2 DEF Loses, Entry, Place
<1>. QED  BY <1>4, <1>5, <1>6, <1>7, <1>8

\* Every step preserves the strengthening.
LEMMA UsernamesStep == UsernamesInv /\ [Next]_vars => UsernamesInv'
<1>. SUFFICES ASSUME UsernamesInv, [Next]_vars PROVE UsernamesInv'
  OBVIOUS
<1>. DEFINE CallInv == CallsAreAsked /\ LatestIsSender /\ SharingIsSound /\ ReadIsFresh /\ SkipIsFresh
<1>n. edition \in Nat
  BY Numbers DEF UsernamesInv
<1>1. CASE UNCHANGED vars
  <2>1. TypeOK' /\ CallInv'
    BY <1>1, <1>n, CallsKept DEF vars, cache, UsernamesInv, TypeOK
  <2>. QED  BY <1>1, <2>1, EntriesKept DEF vars, UsernamesInv
<1>2. ASSUME NEW c \in Calls, LookUp(c) PROVE UsernamesInv'
  BY <1>2, LookUpKeeps
<1>3. ASSUME NEW c \in Calls, AddressArrives(c) PROVE UsernamesInv'
  BY <1>3, AddressKeeps
<1>4. ASSUME NEW c \in Calls, MetadataArrives(c) PROVE UsernamesInv'
  BY <1>4, MetadataKeeps
<1>5. ASSUME NEW c \in Calls, PrimaryArrives(c) PROVE UsernamesInv'
  BY <1>5, PrimaryKeeps
<1>6. ASSUME NEW c \in Calls, RequestFails(c) PROVE UsernamesInv'
  BY <1>6, SettlesWithoutValue DEF RequestFails
<1>7. CASE (\E a \in Addresses : GetKnownNames(a) \/ InvalidateAddress(a))
              \/ (\E n \in Names : InvalidateName(n)) \/ ClearCache \/ Evict
  <2>1. UNCHANGED <<setting, edition, now, pending, call, latest>>
    BY <1>7 DEF GetKnownNames, InvalidateAddress, InvalidateName, ClearCache, Evict
  <2>2. Loses
    BY <1>7, EntriesAreLost
  <2>3. TypeOK'
    BY <2>1, <2>2 DEF UsernamesInv, TypeOK, Loses
  <2>4. CallInv'
    BY <2>1, <1>n, CallsKept
  <2>. QED  BY <2>1, <2>2, <2>3, <2>4, EntriesLost DEF UsernamesInv, Loses
<1>8. CASE Publish
  <2>1. /\ edition' = edition + 1 /\ edition' \in DOMAIN setting.history
        /\ UNCHANGED <<setting, now, byName, byAddress, pending, call, latest>>
    BY <1>8, <1>n, UsernamesAssumption DEF Publish, cache, UsernamesInv, TypeOK, Editions
  <2>2. TypeOK' /\ CallInv'
    BY <1>n, <2>1, CallsKept DEF UsernamesInv, TypeOK
  <2>3. EntriesExpire'
    BY <2>1 DEF UsernamesInv, EntriesExpire, Exists, AskedFor
  <2>4. EntriesAreOld'
    <3>. SUFFICES ASSUME ExpiryGrows, NEW n \in Names, Exists(byName[n])
                  PROVE  NoLater(byName[n].data.expiry, Published'.expiry[n])
      BY <2>1 DEF EntriesAreOld, ExpiryGrows, Exists
    <3>1. NoLater(Published.expiry[n], Published'.expiry[n])
      BY <1>n, <2>1 DEF Published, ExpiryGrows, UsernamesInv, TypeOK
    <3>2. NoLater(byName[n].data.expiry, Published.expiry[n])
      BY DEF UsernamesInv, EntriesAreOld
    <3>3. /\ byName[n].data.expiry \in Nat /\ Published.expiry[n] \in Nat
          /\ Published'.expiry[n] \in Nat
      <4>1. Published'.expiry \in [Names -> Nat]
        BY <2>1, EditionTyped DEF Published, UsernamesInv, TypeOK
      <4>. QED  BY <4>1, PublishedTyped DEF UsernamesInv, TypeOK, Data
    <3>. QED  BY <3>1, <3>2, <3>3 DEF NoLater
  <2>. QED  BY <2>2, <2>3, <2>4 DEF UsernamesInv
<1>9. CASE Tick
  <2>1. TypeOK' /\ CallInv'
    BY <1>9, <1>n, CallsKept DEF Tick, cache, UsernamesInv, TypeOK
  <2>. QED  BY <1>9, <2>1, EntriesKept DEF Tick, UsernamesInv
<1>. QED
  BY <1>1, <1>2, <1>3, <1>4, <1>5, <1>6, <1>7, <1>8, <1>9 DEF Next

-----------------------------------------------------------------------------
\* The promise registered for a key is that of the latest request, as long as that is
\* under way, however requests overlap, fail or end out of order; and nobody awaits a
\* promise that has settled, or one about another key.
THEOREM LatestIsRegistered == Spec => []SharingIsSound
<1>1. UsernamesInv => SharingIsSound
  BY DEF UsernamesInv
<1>. QED  BY <1>1, UsernamesInit, UsernamesStep, PTL DEF Spec

\* A call that skips the cache returns nothing read before it began.
THEOREM SkippersGetFreshData == Spec => []SkipIsFresh
<1>1. UsernamesInv => SkipIsFresh
  BY DEF UsernamesInv
<1>. QED  BY <1>1, UsernamesInit, UsernamesStep, PTL DEF Spec

\* Only a look-up that is answered at once takes a call from its beginning to its end.
LEMMA OnlyLookUpAnswersAtOnce ==
    ASSUME UsernamesInv, [Next]_vars, NEW c \in Calls,
           call[c].at = "idle", call'[c].at = "done"
    PROVE  LookUp(c)
<1>. DEFINE Kept == call'[c] = call[c]
<1>k. ~Kept
  OBVIOUS
<1>t. call \in [Calls -> CallState]
  BY DEF UsernamesInv, TypeOK
<1>r. ASSUME NEW d \in Calls, NEW outcome, NEW data, NEW names, Resolve(d, outcome, data, names)
      PROVE  Kept
  BY <1>r DEF Resolve, Running
<1>1. ~UNCHANGED call
  OBVIOUS
<1>2. ASSUME NEW d \in Calls, LookUp(d) PROVE LookUp(c)
  <2>1. CASE d = c
    BY <1>2, <2>1
  <2>2. CASE d # c
    BY <1>2, <2>2, <1>t DEF LookUp, LookUpName, LookUpAddress, Share, Send
  <2>. QED  BY <2>1, <2>2
<1>3. ASSUME NEW d \in Calls, AddressArrives(d) PROVE FALSE
  <2>1. call[d].at = "address" /\ d # c
    BY <1>3 DEF AddressArrives
  <2>2. (\E outcome, data, names : Resolve(d, outcome, data, names)) \/ Kept
    BY <1>3, <2>1, <1>t DEF AddressArrives
  <2>. QED  BY <2>2, <1>r, <1>k
<1>4. ASSUME NEW d \in Calls, MetadataArrives(d) \/ PrimaryArrives(d) \/ RequestFails(d)
      PROVE  FALSE
  <2>1. \E outcome, data, names : Resolve(d, outcome, data, names)
    BY <1>4 DEF MetadataArrives, PrimaryArrives, RequestFails
  <2>. QED  BY <2>1, <1>r, <1>k
<1>. QED
  BY <1>1, <1>2, <1>3, <1>4
     DEF Next, vars, GetKnownNames, InvalidateAddress, InvalidateName, ClearCache, Evict,
         Publish, Tick

\* What is served from the cache has neither expired as a name nor outlived the time to
\* live of every look-up of its key.
THEOREM CacheServesAlive == Spec => ServedIsAlive
<1>. DEFINE Served(c) ==
        call[c].at = "idle" /\ call'[c].at = "done"
           => LET data == call'[c].data
                  key == call'[c].ask.of
              IN  /\ key \in Names => data.expiry = 0 \/ now < data.expiry
                  /\ \E d \in Calls : \E ask \in setting.asks[d] :
                        ask.of = key /\ now < data.came + ask.ttl
<1>1. ASSUME UsernamesInv, [Next]_vars, NEW c \in Calls PROVE Served(c)
  <2>. SUFFICES ASSUME call[c].at = "idle", call'[c].at = "done"
                PROVE  LET data == call'[c].data
                           key == call'[c].ask.of
                       IN  /\ key \in Names => data.expiry = 0 \/ now < data.expiry
                           /\ \E d \in Calls : \E ask \in setting.asks[d] :
                                 ask.of = key /\ now < data.came + ask.ttl
    OBVIOUS
  <2>t. TypeOK /\ EntriesExpire
    BY <1>1 DEF UsernamesInv
  <2>1. LookUp(c)
    BY <1>1, OnlyLookUpAnswersAtOnce
  <2>2. PICK ask \in setting.asks[c] :
           IF ask.op = "getName" THEN LookUpAddress(c, ask) ELSE LookUpName(c, ask)
    BY <2>1 DEF LookUp
  <2>3. /\ IF ask.op = "getName" THEN ask.of \in Addresses /\ ask.of \notin Names
           ELSE ask.of \in Names
    BY <2>t, AskTyped
  <2>b. Begun(ask).ask = ask
    BY DEF Begun, Idle
  <2>4. ASSUME NEW first \in {"address", "primary"}
        PROVE  ~Share(c, Begun(ask), first)
    <3>. DEFINE gone(at, on) == [Begun(ask) EXCEPT !.at = at, !.on = on]
    <3>1. \A at, on : gone(at, on).at = at
      BY DEF Begun, Idle
    <3>2. Share(c, Begun(ask), first) =>
             \E at \in {"waiting", first} : \E on : call' = [call EXCEPT ![c] = gone(at, on)]
      BY DEF Share, Send
    <3>. HIDE DEF gone
    <3>3. \A at, on : call' = [call EXCEPT ![c] = gone(at, on)] => call'[c].at = at
      BY <3>1, <2>t DEF TypeOK
    <3>. QED  BY <3>2, <3>3, <2>4
  <2>5. CASE ask.op = "getName"
    <3>. DEFINE entry == byAddress[ask.of]
    <3>1. /\ Alive(entry) /\ entry.data # NoData
          /\ call' = [call EXCEPT ![c] = Return(Begun(ask), "value", entry.data)]
      BY <2>2, <2>4, <2>5 DEF LookUpAddress
    <3>2. call'[c].data = entry.data /\ call'[c].ask = ask
      BY <3>1, <2>b, <2>t DEF Return, TypeOK, Begun, Idle
    <3>3. entry \in [data : Data, knownNames : SUBSET Names, until : Nat] /\ now \in Nat
      BY <2>3, <2>5, <2>t DEF TypeOK
    <3>4. PICK d \in Calls : \E a \in setting.asks[d] :
             a.of = ask.of /\ entry.until <= entry.data.came + a.ttl
      BY <3>1, <2>3, <2>5, <2>t DEF EntriesExpire, AskedFor
    <3>5. \A a \in setting.asks[d] : a.ttl \in Nat
      BY <2>t, AskTyped DEF Asks
    <3>. QED  BY <3>1, <3>2, <3>3, <3>4, <3>5, <2>3, <2>5 DEF Alive, Data
  <2>6. CASE ask.op # "getName"
    <3>. DEFINE entry == byName[ask.of]
    <3>1. /\ Alive(entry)
          /\ call' = [call EXCEPT ![c] = Return(Begun(ask), "value", entry.data)]
      BY <2>2, <2>4, <2>6 DEF LookUpName
    <3>2. call'[c].data = entry.data /\ call'[c].ask = ask
      BY <3>1, <2>b, <2>t DEF Return, TypeOK, Begun, Idle
    <3>3. entry \in [data : Data, until : Nat] /\ now \in Nat
      BY <2>3, <2>6, <2>t DEF TypeOK
    <3>4. Exists(entry)
      BY <3>1, <3>3 DEF Exists, Alive
    <3>5. entry.data.expiry = 0 \/ entry.until <= entry.data.expiry
      BY <3>4, <2>3, <2>6, <2>t DEF EntriesExpire
    <3>6. PICK d \in Calls : \E a \in setting.asks[d] :
             a.of = ask.of /\ entry.until <= entry.data.came + a.ttl
      BY <3>4, <2>3, <2>6, <2>t DEF EntriesExpire, AskedFor
    <3>7. \A a \in setting.asks[d] : a.ttl \in Nat
      BY <2>t, AskTyped DEF Asks
    <3>. QED  BY <3>1, <3>2, <3>3, <3>5, <3>6, <3>7 DEF Alive, Data
  <2>. QED  BY <2>5, <2>6
<1>2. UsernamesInv /\ [Next]_vars => [\A c \in Calls : Served(c)]_vars
  BY <1>1
<1>. QED  BY <1>2, UsernamesInit, UsernamesStep, PTL DEF Spec, ServedIsAlive

=============================================================================
