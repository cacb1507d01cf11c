---------------------------- MODULE CachedClient ----------------------------
(***************************************************************************)
(* wrapClientWithCache() of src/client/cached-client.ts: LRU caches and a  *)
(* map of requests under way in front of the gRPC services of one chain.   *)
(* A call runs up to its request in one go, and the reactions to an answer *)
(* (.then, .finally, the callers) are separate microtasks, between which   *)
(* other calls may begin.                                                  *)
(***************************************************************************)
EXTENDS Naturals

CONSTANTS
    Calls,
    Requests, Heights, NoHeight,
    NoAnswer, NoCall,
    Settings       \* the calls an application may make, and what may happen

\* The methods with a cache of their own, and all others.
Immutable == {"module", "contractAddrByDenom", "denom"}
Methods == Immutable \cup {"query"}

(***************************************************************************)
(* methodOf, requestOf, heightOf  what each call asks                      *)
(* skipping  calls that pass options.skipCache                             *)
(* changes   bounds the transactions that change what the node answers     *)
(* clearings bounds the calls of clearCache()                              *)
(* fails     requests may fail                                             *)
(***************************************************************************)
Setting == [methodOf : [Calls -> Methods], requestOf : [Calls -> Requests],
            heightOf : [Calls -> Heights \cup {NoHeight}], skipping : SUBSET Calls,
            changes : Nat, clearings : Nat, fails : BOOLEAN]

ASSUME CachedClientAssumption ==
    /\ NoHeight \notin Heights
    /\ NoCall \notin Calls
    /\ Settings \subseteq Setting

VARIABLES
    setting,    \* never changes
    cache,      \* the four LRU caches
    pending,    \* the call whose request is under way, per key
    call,       \* idle, waiting, done or failed
    promise,    \* the call whose promise a call awaits
    fetch,      \* the request a call has sent
    answer,     \* the answer to that request
    returned,   \* what each call got
    version,    \* the state of the node that answers depend on
    clears,     \* how often clearCache() has run
    begun       \* history: version, clears and the calls answered, as each call begins

vars == <<setting, cache, pending, call, promise, fetch, answer, returned, version, clears, begun>>

MethodOf == setting.methodOf
RequestOf == setting.requestOf
HeightOf == setting.heightOf

Scopes == Heights \cup {NoHeight}
Keys == Methods \X Requests \X Scopes

Answer == [question : Keys, version : Nat, clears : Nat]
ASSUME NoAnswerAssumption == NoAnswer \notin Answer
NoneOr(S) == S \cup {NoAnswer}
Begun == [version : Nat, clears : Nat, over : SUBSET Calls]

(***************************************************************************)
(* sent, answered  the request and its answer are on the wire              *)
(* stored          .then() has run                                         *)
(* rejected        it failed                                               *)
(* settled         .finally() has run                                      *)
(***************************************************************************)
FetchStates == {"none", "sent", "answered", "stored", "rejected", "settled"}

TypeOK ==
    /\ setting \in Settings
    /\ cache \in [Keys -> NoneOr(Answer)]
    /\ pending \in [Keys -> Calls \cup {NoCall}]
    /\ call \in [Calls -> {"idle", "waiting", "done", "failed"}]
    /\ promise \in [Calls -> Calls \cup {NoCall}]
    /\ fetch \in [Calls -> FetchStates]
    /\ answer \in [Calls -> NoneOr(Answer)]
    /\ returned \in [Calls -> NoneOr(Answer)]
    /\ version \in Nat /\ clears \in Nat
    /\ begun \in [Calls -> Begun]
    /\ \A c \in Calls : call[c] = "done" <=> returned[c] # NoAnswer

Init ==
    /\ setting \in Settings
    /\ cache = [k \in Keys |-> NoAnswer]
    /\ pending = [k \in Keys |-> NoCall]
    /\ call = [c \in Calls |-> "idle"]
    /\ promise = [c \in Calls |-> NoCall]
    /\ fetch = [c \in Calls |-> "none"]
    /\ answer = [c \in Calls |-> NoAnswer] /\ returned = [c \in Calls |-> NoAnswer]
    /\ version = 0 /\ clears = 0
    /\ begun = [c \in Calls |-> [version |-> 0, clears |-> 0, over |-> {}]]

-----------------------------------------------------------------------------
\* What the node is asked; of a cache of its own, the key leaves the height out.
Question(c) == <<MethodOf[c], RequestOf[c], HeightOf[c]>>

UnscopedKey(c) == <<MethodOf[c], RequestOf[c], NoHeight>>
CacheKey(c) == IF MethodOf[c] \in Immutable THEN UnscopedKey(c) ELSE Question(c)

\* pendingKeys: the two directions of the denom mapping share theirs.
PendingMethod(c) == IF MethodOf[c] = "contractAddrByDenom" THEN "denom" ELSE MethodOf[c]
PendingUnscoped(c) == <<PendingMethod(c), RequestOf[c], NoHeight>>
PendingKey(c) == IF MethodOf[c] \in Immutable THEN PendingUnscoped(c) ELSE Question(c)

\* Without a height, a mutable method passes through.
Caches(c) == MethodOf[c] \in Immutable \/ HeightOf[c] # NoHeight

HitUnchecked(c) == Caches(c) /\ c \notin setting.skipping
\* `cached !== undefined`, unless the cache is to be skipped
Hit(c) == Caches(c) /\ c \notin setting.skipping /\ cache[CacheKey(c)] # NoAnswer

NotEntered(c) == UNCHANGED pending
\* pending.set(), before anything else can run
Entered(c) ==
    pending' = IF Caches(c) THEN [pending EXCEPT ![PendingKey(c)] = c] ELSE pending

\* pending.delete(), whatever the entry has become meanwhile
Removed(c) ==
    IF Caches(c) THEN [pending EXCEPT ![PendingKey(c)] = NoCall] ELSE pending

-----------------------------------------------------------------------------
\* The calls with the question of c that have been answered.
Over(c) == {d \in Calls : call[d] = "done" /\ CacheKey(d) = CacheKey(c)}

Begin(c) ==
    /\ call[c] = "idle"
    /\ begun' = [begun EXCEPT ![c] =
                    [version |-> version, clears |-> clears, over |-> Over(c)]]
    /\ \/ /\ Hit(c)
          /\ call' = [call EXCEPT ![c] = "done"]
          /\ returned' = [returned EXCEPT ![c] = cache[CacheKey(c)]]
          /\ UNCHANGED <<pending, promise, fetch>>
       \/ /\ ~Hit(c) /\ Caches(c) /\ pending[PendingKey(c)] # NoCall
          /\ call' = [call EXCEPT ![c] = "waiting"]
          /\ promise' = [promise EXCEPT ![c] = pending[PendingKey(c)]]
          /\ UNCHANGED <<pending, fetch, returned>>
       \/ /\ ~Hit(c) /\ (Caches(c) => pending[PendingKey(c)] = NoCall)
          /\ call' = [call EXCEPT ![c] = "waiting"]
          /\ promise' = [promise EXCEPT ![c] = c]
          /\ fetch' = [fetch EXCEPT ![c] = "sent"]
          /\ Entered(c)
          /\ UNCHANGED returned
    /\ UNCHANGED <<setting, cache, answer, version, clears>>

\* The node (external) answers from its state, or from the snapshot at the height.
NodeAnswers(c) ==
    /\ fetch[c] = "sent"
    /\ fetch' = [fetch EXCEPT ![c] = "answered"]
    /\ answer' = [answer EXCEPT ![c] =
                    [question |-> Question(c), clears |-> begun[c].clears,
                     version |-> IF HeightOf[c] = NoHeight THEN version ELSE 0]]
    /\ UNCHANGED <<setting, cache, pending, call, promise, returned, version, clears,
                   begun>>

FetchFails(c) ==
    /\ setting.fails
    /\ fetch[c] \in {"sent", "answered"}
    /\ fetch' = [fetch EXCEPT ![c] = "rejected"]
    /\ UNCHANGED <<setting, cache, pending, call, promise, answer, returned, version,
                   clears, begun>>

\* .then(result => ...)
Store(c) ==
    /\ fetch[c] = "answered"
    /\ fetch' = [fetch EXCEPT ![c] = "stored"]
    /\ cache' = IF Caches(c) THEN [cache EXCEPT ![CacheKey(c)] = answer[c]] ELSE cache
    /\ UNCHANGED <<setting, pending, call, promise, answer, returned, version, clears,
                   begun>>

\* .finally(), whoever's request the entry is by now; everyone who awaits the promise
\* goes on.
Settle(c) ==
    /\ fetch[c] \in {"stored", "rejected"}
    /\ fetch' = [fetch EXCEPT ![c] = "settled"]
    /\ pending' = Removed(c)
    /\ LET Waiting == {d \in Calls : call[d] = "waiting" /\ promise[d] = c} IN
          /\ call' = [d \in Calls |->
                        IF d \notin Waiting THEN call[d]
                        ELSE IF fetch[c] = "stored" THEN "done" ELSE "failed"]
          /\ returned' = [d \in Calls |->
                            IF d \in Waiting /\ fetch[c] = "stored" THEN answer[c]
                            ELSE returned[d]]
    /\ UNCHANGED <<setting, cache, promise, answer, version, clears, begun>>

ClearCache ==
    /\ clears < setting.clearings
    /\ cache' = [k \in Keys |-> NoAnswer]
    /\ pending' = [k \in Keys |-> NoCall]
    /\ clears' = clears + 1
    /\ UNCHANGED <<setting, call, promise, fetch, answer, returned, version, begun>>

\* The LRU drops an entry to make room for the answers of other calls.
Evict(k) ==
    /\ cache[k] # NoAnswer
    /\ cache' = [cache EXCEPT ![k] = NoAnswer]
    /\ UNCHANGED <<setting, pending, call, promise, fetch, answer, returned, version,
                   clears, begun>>

\* The node (external): a module is upgraded, a denom mapped.
Change ==
    /\ version < setting.changes
    /\ version' = version + 1
    /\ UNCHANGED <<setting, cache, pending, call, promise, fetch, answer, returned,
                   clears, begun>>

Next ==
    \/ \E c \in Calls : Begin(c) \/ NodeAnswers(c) \/ FetchFails(c) \/ Store(c) \/ Settle(c)
    \/ ClearCache \/ Change
    \/ \E k \in Keys : Evict(k)

Spec == Init /\ [][Next]_vars

-----------------------------------------------------------------------------
(***************************************************************************)
(* What the cached client promises its callers.                            *)
(***************************************************************************)
InFlight(c) == fetch[c] \in {"sent", "answered", "stored", "rejected"}

\* The denom of a mapping is never spelled like the address of another call: the two
\* directions share the keys of `pending` (pendingKeys.denomMapping).
DenomsAreNotAddresses ==
    \A c, d \in Calls :
        MethodOf[c] = "contractAddrByDenom" /\ MethodOf[d] = "denom" =>
            RequestOf[c] # RequestOf[d]

\* A call gets an answer to its own method and request, and to its own height unless
\* the method counts as immutable: neither the caches nor the requests calls share
\* mix up two questions.
AnswersItsQuestion ==
    DenomsAreNotAddresses => \A c \in Calls : returned[c] # NoAnswer =>
        LET q == returned[c].question IN
            /\ q[1] = MethodOf[c] /\ q[2] = RequestOf[c]
            /\ MethodOf[c] \notin Immutable => q[3] = HeightOf[c]

\* Every entry of `pending` stands for a request under way: a failure leaves none
\* behind that would reject all later calls ("allow retry", integration.spec.ts).
PendingIsInFlight ==
    \A k \in Keys : pending[k] # NoCall => InFlight(pending[k])

\* Nobody awaits a promise that has settled without him.
WaitersAreServed ==
    \A c \in Calls : call[c] = "waiting" => InFlight(promise[c])

\* "Fetch with deduplication": entries, requests and callers go together, and until the
\* cache is cleared, calls that need the same answer share one request.
OneFlight ==
    /\ PendingIsInFlight /\ WaitersAreServed
    /\ DenomsAreNotAddresses /\ clears = 0 => \A c, d \in Calls :
          InFlight(c) /\ InFlight(d) /\ Caches(c) /\ CacheKey(c) = CacheKey(d) => c = d

\* No call asks for a snapshot.
OnlyLatest == \A c \in Calls : HeightOf[c] = NoHeight

\* Until the cache is cleared, no call gets an older answer than a call that was over
\* when it began, whether it reads the cache, skips it or joins a request (among
\* calls without a height: the caches of the immutable methods ignore it).
NeverBackwards ==
    DenomsAreNotAddresses /\ OnlyLatest /\ clears = 0 => \A c \in Calls : call[c] = "done" =>
        \A d \in begun[c].over : returned[d].version <= returned[c].version

\* "Clear all cached data. Useful when switching chains or after state-changing
\* transactions": a call made after clearCache() gets no answer to a request sent
\* before it.  This does not hold (see the README); no run has it.
ClearedIsGone ==
    \A c \in Calls : returned[c] # NoAnswer => returned[c].clears >= begun[c].clears

=============================================================================
