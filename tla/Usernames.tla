----------------------------- MODULE Usernames -----------------------------
(***************************************************************************)
(* client/usernames: a service that looks up names, their metadata and the *)
(* primary names of addresses by HTTP, shares requests under way and keeps *)
(* the answers in two caches, by name and by address, with times to live.  *)
(* A look-up of a name is two requests one after the other.  An answer and *)
(* all who await it are one step: they run in microtasks.                  *)
(***************************************************************************)
EXTENDS Naturals, Sequences, FiniteSets

CONSTANTS
    Names, Addresses, Nobody,
    Calls, NoCall,
    MaxTime,       \* bound of the clock
    Settings       \* what the application and the registry may do

Keys == Names \cup Addresses

(***************************************************************************)
(* The registry: the owner and the expiration of each name, and the        *)
(* primary name of each address.                                           *)
(***************************************************************************)
Editions == Seq([owner : [Names -> Addresses \cup {Nobody}], expiry : [Names -> Nat],
                 primary : [Addresses -> Names \cup {Nobody}]])

\* A look-up: skip is options.skipCache, ttl is options.cacheTtl or the default.
Asks == [op : {"getRecord", "getMetadata", "getName"}, of : Keys, skip : BOOLEAN, ttl : Nat]

(***************************************************************************)
(* history   what the registry publishes, in this order                    *)
(* asks      the look-ups each call may be                                 *)
(* fails     requests may fail or time out                                 *)
(* crowded   other names may push an entry out of the LRU maps             *)
(* clears    the application clears the cache and invalidates entries      *)
(***************************************************************************)
ASSUME UsernamesAssumption ==
    /\ Nobody \notin Keys /\ NoCall \notin Calls /\ Names \cap Addresses = {}
    /\ MaxTime \in Nat
    /\ \A s \in Settings :
        /\ s.history \in Editions \ {<<>>}
        /\ \A c \in Calls : \A k \in s.asks[c] :
              k \in Asks /\ (k.of \in Names <=> k.op # "getName")
        /\ s.fails \in BOOLEAN /\ s.crowded \in BOOLEAN /\ s.clears \in BOOLEAN

VARIABLES
    setting,       \* never changes
    edition,       \* of the registry
    now,           \* Date.now()
    byName, byAddress,
    pending,       \* pendingByName and pendingByAddress: the call whose promise it is
    call,          \* where each call is suspended, and its result
    latest         \* history: the call that sent the latest request about a key

cache == <<byName, byAddress>>
vars == <<setting, edition, now, cache, pending, call, latest>>

Published == setting.history[edition]

(***************************************************************************)
(* What a look-up brings: value is the address of a name or the primary    *)
(* name of an address, Nobody for none.  History: read is the edition it   *)
(* was read from, came the time when it was complete.                      *)
(***************************************************************************)
NoData == [value |-> Nobody, expiry |-> 0, read |-> 0, came |-> 0]

\* until is the entry's expiresAt, 0 if there is no entry.
NoEntry == [data |-> NoData, until |-> 0]
NoPlace == [data |-> NoData, knownNames |-> {}, until |-> 0]

(***************************************************************************)
(* at   idle; address, metadata or primary: the request it has under way;  *)
(*      waiting for the promise of the call on; done, with its result      *)
(* outcome  value, undefined or error     since  history: the edition then *)
(***************************************************************************)
Idle == [at |-> "idle", ask |-> [op |-> "none", of |-> Nobody, skip |-> FALSE, ttl |-> 0],
         on |-> NoCall, data |-> NoData, outcome |-> "none", since |-> 0]

Init ==
    /\ setting \in Settings
    /\ edition = 1 /\ now = 0
    /\ byName = [n \in Names |-> NoEntry]
    /\ byAddress = [a \in Addresses |-> NoPlace]
    /\ pending = [k \in Keys |-> NoCall]
    /\ call = [c \in Calls |-> Idle]
    /\ latest = [k \in Keys |-> NoCall]

-----------------------------------------------------------------------------
(* The cache, cache.ts. *)

Alive(entry) == entry.until > now

Exists(entry) == entry.until > 0

Earlier(s, t) == IF s < t THEN s ELSE t

\* A plausible mistake: the expiration of the name itself is left out.
RawTtl(ttl, expiry) == ttl

\* calculateEffectiveTtl(): an expiration of 0 counts as none.
EffectiveTtl(ttl, expiry) ==
    IF expiry = 0 THEN ttl
    ELSE IF expiry <= now THEN 0 ELSE Earlier(ttl, expiry - now)

\* A read deletes an entry that has expired.
SweepName(n) == byName' = IF Alive(byName[n]) THEN byName ELSE [byName EXCEPT ![n] = NoEntry]

SweepAddress(a) ==
    byAddress' = IF Alive(byAddress[a]) THEN byAddress ELSE [byAddress EXCEPT ![a] = NoPlace]

\* setByName(): an entry of the address that is there, expired or not, keeps its time.
SetByName(n, data, ttl) ==
    LET life == EffectiveTtl(ttl, data.expiry)
        place == byAddress[data.value]
    IN  IF life = 0 THEN UNCHANGED cache
        ELSE /\ byName' = [byName EXCEPT ![n] = [data |-> data, until |-> now + life]]
             /\ byAddress' = [byAddress EXCEPT ![data.value] =
                   IF Exists(place) THEN [place EXCEPT !.knownNames = @ \cup {n}]
                   ELSE [data |-> NoData, knownNames |-> {n}, until |-> now + life]]

SetPrimaryByAddress(a, data, ttl) ==
    byAddress' = [byAddress EXCEPT ![a].data = data, ![a].until = now + ttl]

\* What getKnownNames() returns of an entry that has not expired.
ValidNames(a) == {n \in byAddress[a].knownNames :
                    Alive(byName[n]) /\ byName[n].data.value = a}

KnownNames(a) == IF Alive(byAddress[a]) THEN ValidNames(a) ELSE {}

-----------------------------------------------------------------------------
(* The service, service.ts. *)

Running(c) == call[c].at \notin {"idle", "done"}

Return(me, outcome, data) == [me EXCEPT !.at = "done", !.outcome = outcome, !.data = data]

\* c sends the first request of a look-up and registers its promise, whatever was
\* registered before.
Send(c, me, first) ==
    /\ call' = [call EXCEPT ![c] = [me EXCEPT !.at = first, !.on = c]]
    /\ pending' = [pending EXCEPT ![me.ask.of] = c]
    /\ latest' = [latest EXCEPT ![me.ask.of] = c]

\* A plausible mistake: whoever skips the cache shares a promise too.
ShareAnyway(c, me, first) ==
    IF pending[me.ask.of] # NoCall
    THEN /\ call' = [call EXCEPT ![c] = [me EXCEPT !.at = "waiting", !.on = pending[me.ask.of]]]
         /\ UNCHANGED <<pending, latest>>
    ELSE Send(c, me, first)

\* ... unless there is a promise it may share.
Share(c, me, first) ==
    IF ~me.ask.skip /\ pending[me.ask.of] # NoCall
    THEN /\ call' = [call EXCEPT ![c] = [me EXCEPT !.at = "waiting", !.on = pending[me.ask.of]]]
         /\ UNCHANGED <<pending, latest>>
    ELSE Send(c, me, first)

Begun(ask) == [Idle EXCEPT !.ask = ask, !.since = edition]

\* getRecord() and getMetadata(), up to their first await.
LookUpName(c, ask) ==
    LET me == Begun(ask)
        entry == byName[ask.of]
    IN  /\ IF ask.skip THEN UNCHANGED byName ELSE SweepName(ask.of)
        /\ IF ~ask.skip /\ Alive(entry)
           THEN /\ call' = [call EXCEPT ![c] = Return(me, "value", entry.data)]
                /\ UNCHANGED <<pending, latest>>
           ELSE Share(c, me, "address")
        /\ UNCHANGED byAddress

\* getName(): a primary name of null is no hit.
LookUpAddress(c, ask) ==
    LET me == Begun(ask)
        entry == byAddress[ask.of]
    IN  /\ IF ask.skip THEN UNCHANGED byAddress ELSE SweepAddress(ask.of)
        /\ IF ~ask.skip /\ Alive(entry) /\ entry.data # NoData
           THEN /\ call' = [call EXCEPT ![c] = Return(me, "value", entry.data)]
                /\ UNCHANGED <<pending, latest>>
           ELSE Share(c, me, "primary")
        /\ UNCHANGED byName

LookUp(c) == \E ask \in setting.asks[c] :
    /\ call[c].at = "idle"
    /\ IF ask.op = "getName" THEN LookUpAddress(c, ask) ELSE LookUpName(c, ask)
    /\ UNCHANGED <<setting, edition, now>>

\* A plausible mistake: finally() deletes whatever is registered.
ForgetAny(c) == [pending EXCEPT ![call[c].ask.of] = NoCall]

\* finally(): the entry is deleted if it is still this promise.
Forget(c) == IF pending[call[c].ask.of] = c THEN [pending EXCEPT ![call[c].ask.of] = NoCall]
             ELSE pending

\* getMetadata() reads what it returns from the cache, after the record has come.
ReadsCache(d) == call[d].ask.op = "getMetadata"

\* The promise of c settles: all who await it return, from a cache that is up to date.
Resolve(c, outcome, data, names) ==
    call' = [d \in Calls |->
        LET me == call[d]
            entry == names[me.ask.of]
        IN  IF me.on # c \/ ~Running(d) THEN me
            ELSE IF outcome = "value" /\ ReadsCache(d)
            THEN IF Alive(entry) THEN Return(me, "value", entry.data)
                 ELSE Return(me, "undefined", NoData)
            ELSE Return(me, outcome, data)]

\* The answer to name_to_address.
AddressArrives(c) ==
    LET n == call[c].ask.of
        owner == Published.owner[n]
    IN  /\ call[c].at = "address"
        /\ IF owner = Nobody
           THEN /\ Resolve(c, "undefined", NoData, byName)
                /\ pending' = Forget(c)
           ELSE /\ call' = [call EXCEPT ![c].at = "metadata",
                              ![c].data = [NoData EXCEPT !.value = owner, !.read = edition]]
                /\ UNCHANGED pending
        /\ UNCHANGED <<setting, edition, now, cache, latest>>

\* The answer to metadata, and what the promise does with the record.
MetadataArrives(c) ==
    LET n == call[c].ask.of
        data == [call[c].data EXCEPT !.expiry = Published.expiry[n], !.came = now]
    IN  /\ call[c].at = "metadata"
        /\ IF Published.owner[n] = Nobody
           THEN Resolve(c, "undefined", NoData, byName) /\ UNCHANGED cache
           ELSE /\ IF call[c].ask.ttl = 0 THEN UNCHANGED cache
                   ELSE SetByName(n, data, call[c].ask.ttl)
                /\ Resolve(c, "value", data, byName')
        /\ pending' = Forget(c)
        /\ UNCHANGED <<setting, edition, now, latest>>

\* The answer to address_to_name.
PrimaryArrives(c) ==
    LET a == call[c].ask.of
        data == [value |-> Published.primary[a], expiry |-> 0, read |-> edition, came |-> now]
    IN  /\ call[c].at = "primary"
        /\ IF data.value = Nobody \/ call[c].ask.ttl = 0 THEN UNCHANGED byAddress
           ELSE SetPrimaryByAddress(a, data, call[c].ask.ttl)
        /\ IF data.value = Nobody THEN Resolve(c, "undefined", NoData, byName)
           ELSE Resolve(c, "value", data, byName)
        /\ pending' = Forget(c)
        /\ UNCHANGED <<setting, edition, now, byName, latest>>

\* No answer in time, or one that cannot be used.
RequestFails(c) ==
    /\ setting.fails
    /\ call[c].at \in {"address", "metadata", "primary"}
    /\ Resolve(c, "error", NoData, byName)
    /\ pending' = Forget(c)
    /\ UNCHANGED <<setting, edition, now, cache, latest>>

\* getKnownNames() drops the names it does not return.
GetKnownNames(a) ==
    /\ Exists(byAddress[a])
    /\ byAddress' = IF Alive(byAddress[a])
                    THEN [byAddress EXCEPT ![a].knownNames = ValidNames(a)]
                    ELSE [byAddress EXCEPT ![a] = NoPlace]
    /\ UNCHANGED <<setting, edition, now, byName, pending, call, latest>>

\* invalidateCache() of a name: requests under way are not told.
InvalidateName(n) ==
    /\ setting.clears /\ Exists(byName[n])
    /\ byAddress' = [byAddress EXCEPT ![byName[n].data.value].knownNames = @ \ {n}]
    /\ byName' = [byName EXCEPT ![n] = NoEntry]
    /\ UNCHANGED <<setting, edition, now, pending, call, latest>>

\* invalidateCache() of an address: with the names its entry knows.
InvalidateAddress(a) ==
    /\ setting.clears /\ Exists(byAddress[a])
    /\ byName' = [n \in Names |->
                    IF n \in byAddress[a].knownNames THEN NoEntry ELSE byName[n]]
    /\ byAddress' = [byAddress EXCEPT ![a] = NoPlace]
    /\ UNCHANGED <<setting, edition, now, pending, call, latest>>

ClearCache ==
    /\ setting.clears
    /\ byName' = [n \in Names |-> NoEntry]
    /\ byAddress' = [a \in Addresses |-> NoPlace]
    /\ UNCHANGED <<setting, edition, now, pending, call, latest>>

\* Entries of names the model leaves out fill one of the maps.
Evict ==
    /\ setting.crowded
    /\ \/ /\ \E n \in Names : byName' = [byName EXCEPT ![n] = NoEntry]
          /\ UNCHANGED byAddress
       \/ /\ \E a \in Addresses : byAddress' = [byAddress EXCEPT ![a] = NoPlace]
          /\ UNCHANGED byName
    /\ UNCHANGED <<setting, edition, now, pending, call, latest>>

Publish ==
    /\ edition < Len(setting.history)
    /\ edition' = edition + 1
    /\ UNCHANGED <<setting, now, cache, pending, call, latest>>

Tick ==
    /\ now < MaxTime
    /\ now' = now + 1
    /\ UNCHANGED <<setting, edition, cache, pending, call, latest>>

Next ==
    \/ \E c \in Calls : \/ LookUp(c) \/ AddressArrives(c) \/ MetadataArrives(c)
                        \/ PrimaryArrives(c) \/ RequestFails(c)
    \/ \E a \in Addresses : GetKnownNames(a) \/ InvalidateAddress(a)
    \/ \E n \in Names : InvalidateName(n)
    \/ ClearCache \/ Evict \/ Publish \/ Tick

Spec == Init /\ [][Next]_vars

-----------------------------------------------------------------------------
\* The promise that is registered for a key is that of the latest request, and as
\* long as that is under way it is registered: neither an older request that ends
\* later nor a failure hides it from the calls that come after.
RegisteredIsLatest ==
    \A k \in Keys :
        pending[k] = IF latest[k] # NoCall /\ Running(latest[k]) THEN latest[k] ELSE NoCall

\* Who shares a promise awaits one that is under way about the same key: every end of a
\* look-up reaches all who have joined it, and no one joins a look-up that is over.
WaitersAreServed ==
    \A c \in Calls : call[c].at = "waiting" =>
        /\ call[c].on \in Calls
        /\ call[call[c].on].at \in {"address", "metadata", "primary"}
        /\ call[call[c].on].ask.of = call[c].ask.of

\* Requests are shared while they are the latest, and by no one in vain.
SharingIsSound == RegisteredIsLatest /\ WaitersAreServed

\* Of two expirations, 0 for none, the first is not the later.
NoLater(e, f) == f = 0 \/ (e # 0 /\ e <= f)

\* The registry never brings the expiration of a name forward.
ExpiryGrows ==
    \A i, j \in DOMAIN setting.history : i <= j =>
        \A n \in Names : NoLater(setting.history[i].expiry[n], setting.history[j].expiry[n])

\* getMetadata() answers from the cache: what its own look-up brings is there if it is
\* cached at all (see the README) and has not expired sooner than what it replaces.
KeepsItsAnswer(ask) == ask.op = "getMetadata" => ask.ttl # 0 /\ ExpiryGrows

\* A call that skips the cache returns nothing read before it began - not the answer
\* to a request already under way, nor an entry another call left.
SkipIsFresh ==
    \A c \in Calls :
        LET me == call[c] IN
        me.at = "done" /\ me.ask.skip /\ KeepsItsAnswer(me.ask) /\ me.outcome = "value"
            => me.data.read >= me.since

\* Who is answered at once, from the cache, gets no name that has expired - unless its
\* expiration is 0, which the cache takes for none - and nothing that came longer ago than
\* the time to live of some look-up of that key allows.
ServedIsAlive ==
    [][\A c \in Calls :
         call[c].at = "idle" /\ call'[c].at = "done"
            => LET data == call'[c].data
                   key == call'[c].ask.of
               IN  /\ key \in Names => data.expiry = 0 \/ now < data.expiry
                   /\ \E d \in Calls : \E ask \in setting.asks[d] :
                         ask.of = key /\ now < data.came + ask.ttl]_vars
=============================================================================
