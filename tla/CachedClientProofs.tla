------------------------- MODULE CachedClientProofs -------------------------
(***************************************************************************)
(* Proofs about the cached client for any calls, questions and numbers of  *)
(* changes and clears.                                                     *)
(***************************************************************************)
EXTENDS CachedClient, TLAPS

\* The setting of a behaviour is well formed, and no step changes it.
LEMMA SettingTyped ==
  ASSUME setting \in Settings
  PROVE  /\ MethodOf \in [Calls -> Methods] /\ RequestOf \in [Calls -> Requests]
         /\ HeightOf \in [Calls -> Heights \cup {NoHeight}]
         /\ setting.changes \in Nat /\ setting.clearings \in Nat
  BY CachedClientAssumption DEF Setting, MethodOf, RequestOf, HeightOf

LEMMA SettingKept == [Next]_vars => UNCHANGED setting
  BY DEF Next, vars, Begin, NodeAnswers, FetchFails, Store, Settle, ClearCache, Evict, Change

\* So the keys of a call stay what they are.
LEMMA KeysKept ==
  ASSUME UNCHANGED setting
  PROVE  /\ \A c \in Calls : /\ CacheKey(c)' = CacheKey(c) /\ PendingKey(c)' = PendingKey(c)
                             /\ Question(c)' = Question(c) /\ Caches(c)' = Caches(c)
         /\ DenomsAreNotAddresses' <=> DenomsAreNotAddresses
         /\ OnlyLatest' <=> OnlyLatest
  BY DEF CacheKey, PendingKey, Question, Caches, UnscopedKey, PendingUnscoped, PendingMethod,
         MethodOf, RequestOf, HeightOf, DenomsAreNotAddresses, OnlyLatest

-----------------------------------------------------------------------------
\* Facts about the keys.
LEMMA KeyTypes ==
  ASSUME setting \in Settings, NEW c \in Calls
  PROVE  Question(c) \in Keys /\ CacheKey(c) \in Keys /\ PendingKey(c) \in Keys
  BY SettingTyped
     DEF Question, CacheKey, PendingKey, UnscopedKey, PendingUnscoped, PendingMethod, Keys,
         Scopes, Methods, Immutable

LEMMA SharedKey ==
  ASSUME setting \in Settings, DenomsAreNotAddresses, NEW c \in Calls, NEW d \in Calls
  PROVE  PendingKey(c) = PendingKey(d) <=> CacheKey(c) = CacheKey(d)
<1>1. MethodOf[c] \in Methods /\ MethodOf[d] \in Methods
  BY SettingTyped
<1>2. CASE MethodOf[c] \in Immutable /\ MethodOf[d] \in Immutable
  <2>1. PendingKey(c) = PendingKey(d) <=>
            PendingMethod(c) = PendingMethod(d) /\ RequestOf[c] = RequestOf[d]
    BY <1>2 DEF PendingKey, PendingUnscoped
  <2>2. CacheKey(c) = CacheKey(d) <=>
            MethodOf[c] = MethodOf[d] /\ RequestOf[c] = RequestOf[d]
    BY <1>2 DEF CacheKey, UnscopedKey
  <2> QED
    BY <1>2, <2>1, <2>2 DEF PendingMethod, Immutable, DenomsAreNotAddresses
<1>3. CASE MethodOf[c] \notin Immutable /\ MethodOf[d] \notin Immutable
  BY <1>3 DEF PendingKey, CacheKey
<1>4. CASE (MethodOf[c] \in Immutable) # (MethodOf[d] \in Immutable)
  <2>1. PendingMethod(c) \in Immutable <=> MethodOf[c] \in Immutable
    BY DEF PendingMethod, Immutable
  <2>2. PendingMethod(d) \in Immutable <=> MethodOf[d] \in Immutable
    BY DEF PendingMethod, Immutable
  <2>3. PendingKey(c)[1] \in Immutable <=> MethodOf[c] \in Immutable
    BY <2>1 DEF PendingKey, PendingUnscoped, Question
  <2>4. PendingKey(d)[1] \in Immutable <=> MethodOf[d] \in Immutable
    BY <2>2 DEF PendingKey, PendingUnscoped, Question
  <2>5. CacheKey(c)[1] = MethodOf[c] /\ CacheKey(d)[1] = MethodOf[d]
    BY DEF CacheKey, UnscopedKey, Question
  <2> QED
    BY <1>4, <2>3, <2>4, <2>5
<1> QED
  BY <1>2, <1>3, <1>4

LEMMA SharedCaches ==
  ASSUME NEW c \in Calls, NEW d \in Calls, CacheKey(c) = CacheKey(d)
  PROVE  Caches(c) <=> Caches(d)
<1>1. CacheKey(c)[1] = MethodOf[c] /\ CacheKey(d)[1] = MethodOf[d]
  BY DEF CacheKey, UnscopedKey, Question
<1>2. MethodOf[c] \notin Immutable =>
          CacheKey(c)[3] = HeightOf[c] /\ CacheKey(d)[3] = HeightOf[d]
  BY <1>1 DEF CacheKey, Question
<1> QED
  BY <1>1, <1>2 DEF Caches

-----------------------------------------------------------------------------
\* An answer that may be given to a call with this cache key.
Fits(a, k) ==
    /\ a.question[1] = k[1] /\ a.question[2] = k[2]
    /\ k[1] \notin Immutable => a.question[3] = k[3]

\* What the request, the entry of `pending` and the promise of a call have to do with
\* one another.
Requested ==
    \A c \in Calls :
        /\ fetch[c] # "none" => call[c] # "idle" /\ promise[c] = c
        /\ fetch[c] \in {"answered", "stored"} =>
              answer[c] # NoAnswer /\ answer[c].question = Question(c)
        /\ call[c] = "waiting" => promise[c] \in Calls /\ InFlight(promise[c])

\* Who shares a request has its key, unless a denom is spelled like an address.
Alike ==
    DenomsAreNotAddresses =>
        \A c \in Calls : call[c] = "waiting" => CacheKey(promise[c]) = CacheKey(c)

Entries ==
    \A k \in Keys : pending[k] # NoCall =>
        Caches(pending[k]) /\ PendingKey(pending[k]) = k

Fitting ==
    /\ \A k \in Keys : cache[k] # NoAnswer => Fits(cache[k], k)
    /\ DenomsAreNotAddresses =>
          \A c \in Calls : returned[c] # NoAnswer => Fits(returned[c], CacheKey(c))

\* Until the first clearCache(), every request of a method that caches has its entry.
Registered ==
    clears = 0 => \A c \in Calls : InFlight(c) /\ Caches(c) => pending[PendingKey(c)] = c

CacheInv ==
    TypeOK /\ Requested /\ Alike /\ Entries /\ PendingIsInFlight /\ Fitting /\ Registered

LEMMA CacheInvInit == Init => CacheInv
<1> SUFFICES ASSUME Init PROVE CacheInv
  OBVIOUS
<1>1. TypeOK
  BY DEF Init, TypeOK, NoneOr, Begun, FetchStates
<1> QED
  BY <1>1 DEF Init, CacheInv, Requested, Alike, Entries, PendingIsInFlight, Fitting, Registered,
              InFlight

LEMMA AnswerFits ==
  ASSUME NEW c \in Calls, NEW a, a.question = Question(c)
  PROVE  Fits(a, CacheKey(c))
  BY DEF Fits, Question, CacheKey, UnscopedKey

\* Every step preserves the strengthening.
LEMMA CacheInvStep == CacheInv /\ [Next]_vars => CacheInv'
<1> SUFFICES ASSUME CacheInv, [Next]_vars PROVE CacheInv'
  OBVIOUS
<1>t. TypeOK
  BY DEF CacheInv
<1>k. \A c \in Calls : CacheKey(c) \in Keys /\ PendingKey(c) \in Keys /\ Question(c) \in Keys
  BY <1>t, KeyTypes DEF TypeOK
<1>s. UNCHANGED setting
  BY SettingKept
<1>e. /\ \A c \in Calls : /\ CacheKey(c)' = CacheKey(c) /\ PendingKey(c)' = PendingKey(c)
                         /\ Question(c)' = Question(c) /\ Caches(c)' = Caches(c)
      /\ DenomsAreNotAddresses' <=> DenomsAreNotAddresses
  BY <1>s, KeysKept
<1> USE <1>s, <1>e
<1>1. ASSUME NEW c \in Calls, Begin(c) PROVE CacheInv'
  <2>1. fetch[c] = "none" /\ ~InFlight(c)
    BY <1>1, <1>t DEF Begin, CacheInv, Requested, TypeOK, InFlight, FetchStates
  <2>2. CASE Hit(c) /\ call'[c] = "done"
    <3>1. /\ call' = [call EXCEPT ![c] = "done"]
          /\ returned' = [returned EXCEPT ![c] = cache[CacheKey(c)]]
          /\ UNCHANGED <<pending, promise, fetch, cache, answer, version, clears>>
          /\ cache[CacheKey(c)] # NoAnswer
      BY <1>1, <1>t, <2>2 DEF Begin, Hit, TypeOK
    <3>2. TypeOK'
      BY <1>1, <1>k, <1>t, <3>1 DEF Begin, TypeOK, Begun, Over
    <3>3. Requested'
      BY <1>1, <1>t, <2>1, <3>1 DEF CacheInv, Requested, InFlight, TypeOK
    <3>4. Fitting'
      BY <1>k, <1>t, <3>1 DEF CacheInv, Fitting, TypeOK
    <3>5. Entries' /\ PendingIsInFlight'
      BY <1>t, <3>1 DEF CacheInv, Entries, PendingIsInFlight, InFlight, TypeOK
    <3>6. Registered'
      BY <1>k, <3>1 DEF CacheInv, Registered, InFlight
    <3>7. Alike'
      BY <1>t, <3>1 DEF CacheInv, Requested, Alike, TypeOK
    <3> QED
      BY <3>2, <3>3, <3>4, <3>5, <3>6, <3>7 DEF CacheInv
  <2>3. CASE ~Hit(c) /\ Caches(c) /\ pending[PendingKey(c)] # NoCall
    <3> DEFINE p == pending[PendingKey(c)]
    <3>1. /\ call' = [call EXCEPT ![c] = "waiting"]
          /\ promise' = [promise EXCEPT ![c] = p]
          /\ UNCHANGED <<pending, fetch, returned, cache, answer, version, clears>>
      BY <1>1, <2>3 DEF Begin
    <3>2. p \in Calls /\ InFlight(p) /\ PendingKey(p) = PendingKey(c)
      BY <1>k, <1>t, <2>3 DEF CacheInv, PendingIsInFlight, Entries, TypeOK
    <3>3. DenomsAreNotAddresses => CacheKey(p) = CacheKey(c)
      BY <1>t, <3>2, SharedKey DEF TypeOK
    <3> HIDE DEF p
    <3>4. TypeOK'
      BY <1>1, <1>t, <3>1, <3>2 DEF Begin, TypeOK, Begun, Over
    <3>5. Requested'
      BY <1>1, <1>t, <2>1, <3>1, <3>2 DEF Begin, CacheInv, Requested, InFlight, TypeOK
    <3>6. Entries' /\ PendingIsInFlight'
      BY <1>t, <3>1 DEF CacheInv, Entries, PendingIsInFlight, InFlight, TypeOK
    <3>7. Registered'
      BY <1>k, <3>1 DEF CacheInv, Registered, InFlight
    <3>8. Fitting'
      BY <1>k, <1>t, <3>1 DEF CacheInv, Fitting, TypeOK
    <3>9. Alike'
      BY <1>t, <3>1, <3>2, <3>3 DEF CacheInv, Requested, Alike, TypeOK
    <3> QED
      BY <3>4, <3>5, <3>6, <3>7, <3>8, <3>9 DEF CacheInv
  <2>4. CASE ~Hit(c) /\ (Caches(c) => pending[PendingKey(c)] = NoCall)
    <3>1. /\ call' = [call EXCEPT ![c] = "waiting"]
          /\ promise' = [promise EXCEPT ![c] = c]
          /\ fetch' = [fetch EXCEPT ![c] = "sent"]
          /\ pending' = IF Caches(c) THEN [pending EXCEPT ![PendingKey(c)] = c] ELSE pending
          /\ UNCHANGED <<returned, cache, answer, version, clears>>
      BY <1>1, <2>4 DEF Begin, Entered
    <3>2. TypeOK'
      BY <1>1, <1>k, <1>t, <3>1 DEF Begin, TypeOK, Begun, Over, FetchStates
    <3>3. Requested'
      BY <1>1, <1>t, <2>1, <3>1 DEF Begin, CacheInv, Requested, InFlight, TypeOK
    <3>4. Entries' /\ PendingIsInFlight'
      BY <1>k, <1>t, <2>1, <3>1
         DEF CacheInv, Entries, PendingIsInFlight, InFlight, TypeOK
    <3>5. Registered'
      <4>1. SUFFICES ASSUME clears' = 0, NEW d \in Calls, InFlight(d)', Caches(d)
                     PROVE  pending'[PendingKey(d)] = d
        BY DEF Registered
      <4>2. CASE d = c
        BY <1>k, <1>t, <3>1, <4>1, <4>2 DEF TypeOK
      <4>3. CASE d # c
        <5>1. pending[PendingKey(d)] = d
          BY <1>t, <3>1, <4>1, <4>3 DEF CacheInv, Registered, InFlight, TypeOK
        <5>2. Caches(c) => PendingKey(d) # PendingKey(c)
          BY <2>4, <5>1, CachedClientAssumption
        <5> QED
          BY <1>k, <1>t, <3>1, <5>1, <5>2 DEF TypeOK
      <4> QED
        BY <4>2, <4>3
    <3>6. Alike'
      BY <1>t, <3>1 DEF CacheInv, Requested, Alike, TypeOK
    <3> QED
      BY <3>1, <3>2, <3>3, <3>4, <3>5, <3>6 DEF CacheInv, Fitting
  <2> QED
    <3>1. Hit(c) => call'[c] = "done"
      BY <1>1, <1>t DEF Begin, TypeOK
    <3> QED
      BY <2>2, <2>3, <2>4, <3>1
<1>2. ASSUME NEW c \in Calls, NodeAnswers(c) PROVE CacheInv'
  <2>1. Question(c) \in Keys
    BY <1>k
  <2>2. TypeOK'
    BY <1>2, <1>t, <2>1 DEF NodeAnswers, TypeOK, NoneOr, Answer, Begun, FetchStates
  <2>3. answer'[c].question = Question(c) /\ answer'[c] \in Answer
    BY <1>2, <1>t, <2>1 DEF NodeAnswers, TypeOK, Answer, Begun
  <2>4. Requested'
    BY <1>2, <1>t, <2>3, NoAnswerAssumption
       DEF NodeAnswers, CacheInv, Requested, InFlight, TypeOK
  <2> QED
    BY <1>2, <1>t, <2>2, <2>4
       DEF NodeAnswers, CacheInv, Requested, Alike, Entries, PendingIsInFlight, Fitting, Registered, InFlight,
           TypeOK
<1>3. ASSUME NEW c \in Calls, FetchFails(c) PROVE CacheInv'
  <2>1. TypeOK'
    BY <1>3, <1>t DEF FetchFails, TypeOK, FetchStates
  <2>2. Requested'
    BY <1>3, <1>t DEF FetchFails, CacheInv, Requested, InFlight, TypeOK
  <2> QED
    BY <1>3, <1>t, <2>1, <2>2
       DEF FetchFails, CacheInv, Requested, Alike, Entries, PendingIsInFlight, Fitting, Registered, InFlight,
           TypeOK
<1>4. ASSUME NEW c \in Calls, Store(c) PROVE CacheInv'
  <2>1. answer[c] # NoAnswer /\ Fits(answer[c], CacheKey(c))
    BY <1>4, AnswerFits DEF Store, CacheInv, Requested
  <2>2. TypeOK'
    BY <1>4, <1>k, <1>t DEF Store, TypeOK, FetchStates
  <2>3. Requested'
    BY <1>4, <1>t DEF Store, CacheInv, Requested, InFlight, TypeOK
  <2>4. Fitting'
    BY <1>4, <1>k, <1>t, <2>1 DEF Store, CacheInv, Fitting, TypeOK
  <2> QED
    BY <1>4, <1>t, <2>2, <2>3, <2>4
       DEF Store, CacheInv, Requested, Alike, Entries, PendingIsInFlight, Registered, InFlight, TypeOK
<1>5. ASSUME NEW c \in Calls, Settle(c) PROVE CacheInv'
  <2> DEFINE Waiting == {d \in Calls : call[d] = "waiting" /\ promise[d] = c}
  <2>1. /\ fetch' = [fetch EXCEPT ![c] = "settled"]
        /\ pending' = IF Caches(c) THEN [pending EXCEPT ![PendingKey(c)] = NoCall] ELSE pending
        /\ call' = [d \in Calls |->
                        IF d \notin Waiting THEN call[d]
                        ELSE IF fetch[c] = "stored" THEN "done" ELSE "failed"]
        /\ returned' = [d \in Calls |->
                            IF d \in Waiting /\ fetch[c] = "stored" THEN answer[c]
                            ELSE returned[d]]
        /\ UNCHANGED <<cache, promise, answer, version, clears, begun>>
        /\ fetch[c] \in {"stored", "rejected"}
    BY <1>5 DEF Settle, Removed
  <2>2. DenomsAreNotAddresses => \A d \in Waiting : CacheKey(d) = CacheKey(c)
    BY DEF CacheInv, Alike
  <2>3. fetch[c] = "stored" =>
            answer[c] # NoAnswer /\ answer[c] \in NoneOr(Answer) /\ Fits(answer[c], CacheKey(c))
    BY <1>t, AnswerFits DEF CacheInv, Requested, TypeOK
  <2>4. Fitting'
    BY <2>1, <2>2, <2>3 DEF CacheInv, Fitting
  <2>5. Requested'
    BY <1>t, <2>1 DEF CacheInv, Requested, InFlight, TypeOK
  <2>6. TypeOK'
    <3>1. call' \in [Calls -> {"idle", "waiting", "done", "failed"}]
      BY <1>t, <2>1 DEF TypeOK
    <3>2. returned' \in [Calls -> NoneOr(Answer)]
      BY <1>t, <2>1, <2>3 DEF TypeOK
    <3>3. \A d \in Calls : call'[d] = "done" <=> returned'[d] # NoAnswer
      BY <1>t, <2>1, <2>3 DEF TypeOK
    <3>4. pending' \in [Keys -> Calls \cup {NoCall}] /\ fetch' \in [Calls -> FetchStates]
      BY <1>t, <2>1 DEF TypeOK, FetchStates
    <3> QED
      BY <1>t, <2>1, <3>1, <3>2, <3>3, <3>4 DEF TypeOK
  <2>7. Entries' /\ PendingIsInFlight'
    BY <1>k, <1>t, <2>1, CachedClientAssumption
       DEF CacheInv, Entries, PendingIsInFlight, InFlight, TypeOK
  <2>8. Registered'
    <3>1. SUFFICES ASSUME clears = 0, NEW d \in Calls, InFlight(d)', Caches(d)
                   PROVE  pending'[PendingKey(d)] = d
      BY <2>1 DEF Registered
    <3>2. d # c /\ InFlight(d)
      BY <1>t, <2>1, <3>1 DEF InFlight, TypeOK
    <3>3. pending[PendingKey(d)] = d
      BY <3>1, <3>2 DEF CacheInv, Registered
    <3>4. Caches(c) => pending[PendingKey(c)] = c
      BY <2>1, <3>1 DEF CacheInv, Registered, InFlight
    <3> QED
      BY <1>k, <1>t, <2>1, <3>2, <3>3, <3>4 DEF TypeOK
  <2>9. Alike'
    BY <2>1 DEF CacheInv, Requested, Alike
  <2> QED
    BY <2>4, <2>5, <2>6, <2>7, <2>8, <2>9 DEF CacheInv
<1>6. CASE ClearCache
  BY <1>6, <1>t
     DEF ClearCache, CacheInv, TypeOK, NoneOr, Requested, Alike, Entries, PendingIsInFlight,
         Fitting, Registered, InFlight
<1>7. ASSUME NEW k \in Keys, Evict(k) PROVE CacheInv'
  BY <1>7, <1>t
     DEF Evict, CacheInv, TypeOK, NoneOr, Requested, Alike, Entries, PendingIsInFlight,
         Fitting, Registered, InFlight
<1>8. CASE Change
  BY <1>8, <1>t
     DEF Change, CacheInv, TypeOK, Requested, Alike, Entries, PendingIsInFlight, Fitting,
         Registered, InFlight
<1>9. CASE UNCHANGED vars
  BY <1>9, <1>t
     DEF vars, CacheInv, TypeOK, Requested, Alike, Entries, PendingIsInFlight, Fitting,
         Registered, InFlight
<1> QED
  BY <1>1, <1>2, <1>3, <1>4, <1>5, <1>6, <1>7, <1>8, <1>9 DEF Next

\* Whatever calls overlap, are evicted, cleared or fail, a call gets an answer to its
\* own question.
THEOREM CallersGetTheirAnswer == Spec => []AnswersItsQuestion
<1>1. CacheInv => AnswersItsQuestion
  <2> SUFFICES ASSUME CacheInv, DenomsAreNotAddresses, NEW c \in Calls, returned[c] # NoAnswer
               PROVE  /\ returned[c].question[1] = MethodOf[c]
                      /\ returned[c].question[2] = RequestOf[c]
                      /\ MethodOf[c] \notin Immutable =>
                            returned[c].question[3] = HeightOf[c]
    BY DEF AnswersItsQuestion
  <2>1. Fits(returned[c], CacheKey(c))
    BY DEF CacheInv, Fitting
  <2> QED
    BY <2>1 DEF Fits, CacheKey, UnscopedKey, Question
<1> QED
  BY <1>1, CacheInvInit, CacheInvStep, PTL DEF Spec

\* Every entry of `pending` stands for a request under way and every caller waits for one,
\* whatever fails, is cleared or evicted and however the keys of the two directions of a
\* denom mapping are spelled; and until the first clearCache(), calls that need the same
\* answer share one request.
THEOREM RequestsAreShared == Spec => []OneFlight
<1>1. CacheInv => OneFlight
  <2>1. CacheInv => PendingIsInFlight /\ WaitersAreServed
    BY DEF CacheInv, Requested, WaitersAreServed
  <2>2. ASSUME DenomsAreNotAddresses, CacheInv, clears = 0,
               NEW c \in Calls, NEW d \in Calls, InFlight(c), InFlight(d), Caches(c),
               CacheKey(c) = CacheKey(d)
        PROVE  c = d
    <3>1. Caches(d) /\ PendingKey(c) = PendingKey(d)
      BY <2>2, SharedCaches, SharedKey DEF CacheInv, TypeOK
    <3> QED
      BY <2>2, <3>1 DEF CacheInv, Registered
  <2> QED
    BY <2>1, <2>2 DEF OneFlight
<1> QED
  BY <1>1, CacheInvInit, CacheInvStep, PTL DEF Spec

-----------------------------------------------------------------------------
\* How old what is where may be, as long as nothing was cleared.
Known(c) == fetch[c] \in {"answered", "stored"}

NotAhead ==
    /\ \A c \in Calls : call[c] = "done" => returned[c].version <= version
    /\ \A c \in Calls : Known(c) => answer[c].version <= version
    /\ \A k \in Keys : cache[k] # NoAnswer => cache[k].version <= version

CacheIsNewest ==
    \A c \in Calls : call[c] = "done" /\ Caches(c) /\ cache[CacheKey(c)] # NoAnswer =>
        returned[c].version <= cache[CacheKey(c)].version

FlightIsNewer ==
    \A c \in Calls : Known(c) /\ Caches(c) =>
        /\ \A d \in Calls : call[d] = "done" /\ CacheKey(d) = CacheKey(c) =>
              returned[d].version <= answer[c].version
        /\ cache[CacheKey(c)] # NoAnswer =>
              /\ cache[CacheKey(c)].version <= answer[c].version
              /\ fetch[c] = "stored" => cache[CacheKey(c)].version = answer[c].version

PromiseIsNewer ==
    \A c \in Calls : call[c] = "waiting" /\ Known(promise[c]) =>
        \A d \in begun[c].over : returned[d].version <= answer[promise[c]].version

OverIsDone == \A c \in Calls : \A d \in begun[c].over : call[d] = "done"

Forward ==
    \A c \in Calls : call[c] = "done" =>
        \A d \in begun[c].over : returned[d].version <= returned[c].version

OrderInv ==
    clears = 0 => /\ NotAhead /\ CacheIsNewest /\ FlightIsNewer /\ PromiseIsNewer
                  /\ OverIsDone /\ Forward

LEMMA OrderInvStep ==
  ASSUME DenomsAreNotAddresses, OnlyLatest
  PROVE  CacheInv /\ OrderInv /\ [Next]_vars => OrderInv'
<1> SUFFICES ASSUME CacheInv, OrderInv, [Next]_vars, clears' = 0
             PROVE  (/\ NotAhead /\ CacheIsNewest /\ FlightIsNewer /\ PromiseIsNewer
                     /\ OverIsDone /\ Forward)'
  BY DEF OrderInv
<1> DEFINE Order == /\ NotAhead /\ CacheIsNewest /\ FlightIsNewer /\ PromiseIsNewer
                    /\ OverIsDone /\ Forward
<1>0. clears = 0
  BY DEF Next, Begin, NodeAnswers, FetchFails, Store, Settle, ClearCache, Evict, Change, vars,
         CacheInv, TypeOK
<1>o. NotAhead /\ CacheIsNewest /\ FlightIsNewer /\ PromiseIsNewer /\ OverIsDone /\ Forward
  BY <1>0 DEF OrderInv
<1>t. TypeOK
  BY DEF CacheInv
<1>k. \A c \in Calls : CacheKey(c) \in Keys
  BY <1>t, KeyTypes DEF TypeOK
<1>s. UNCHANGED setting
  BY SettingKept
<1>e. \A c \in Calls : /\ CacheKey(c)' = CacheKey(c) /\ PendingKey(c)' = PendingKey(c)
                      /\ Question(c)' = Question(c) /\ Caches(c)' = Caches(c)
  BY <1>s, KeysKept
<1> USE <1>s, <1>e
<1>n. /\ \A c \in Calls : call[c] = "done" => returned[c].version \in Nat
      /\ \A c \in Calls : Known(c) => answer[c].version \in Nat
      /\ \A k \in Keys : cache[k] # NoAnswer => cache[k].version \in Nat
      /\ version \in Nat
  BY <1>t DEF TypeOK, NoneOr, Answer, CacheInv, Requested, Alike, Known
<1>f. ASSUME NEW c \in Calls, NEW d \in Calls, InFlight(c), InFlight(d), Caches(c),
             CacheKey(c) = CacheKey(d)
      PROVE  c = d
  <2>1. Caches(d) /\ PendingKey(c) = PendingKey(d)
    BY <1>f, <1>t, SharedCaches, SharedKey DEF TypeOK
  <2> QED
    BY <1>0, <1>f, <2>1 DEF CacheInv, Registered
<1>1. ASSUME NEW c \in Calls, Begin(c) PROVE Order'
  <2>1. /\ begun'[c].over = Over(c)
        /\ \A d \in Calls : d # c => begun'[d] = begun[d] /\ call'[d] = call[d]
                                    /\ promise'[d] = promise[d] /\ fetch'[d] = fetch[d]
                                    /\ returned'[d] = returned[d]
        /\ UNCHANGED <<cache, answer, version>>
        /\ call[c] = "idle"
    BY <1>1, <1>t DEF Begin, Entered, TypeOK
  <2>2. c \notin Over(c) /\ \A d \in Over(c) : d \in Calls /\ call[d] = "done"
    BY <2>1 DEF Over
  <2>3. ~InFlight(c) /\ ~Known(c)
    BY <1>t, <2>1 DEF CacheInv, Requested, Alike, InFlight, Known, TypeOK, FetchStates
  <2>4. \A d \in Calls : d # c /\ call[d] = "waiting" => promise[d] # c
    BY <2>3 DEF CacheInv, Requested, Alike
  <2>5. \A d \in Calls : begun[d].over \subseteq Calls \ {c}
    BY <1>o, <1>t, <2>1 DEF OverIsDone, TypeOK, Begun
  <2>6. OverIsDone'
    BY <1>o, <2>1, <2>2, <2>5 DEF OverIsDone
  <2>7. ~Known(c)'
    BY <1>1, <1>t, <2>3 DEF Begin, Known, TypeOK
  <2>8. CASE Hit(c) /\ call'[c] = "done"
    <3>1. /\ call'[c] = "done" /\ cache[CacheKey(c)] # NoAnswer /\ Caches(c)
          /\ returned'[c] = cache[CacheKey(c)]
      BY <1>1, <1>t, <2>8 DEF Begin, Hit, TypeOK
    <3>2. NotAhead'
      BY <1>k, <1>o, <2>1, <2>7, <3>1 DEF NotAhead, Known
    <3>3. CacheIsNewest'
      BY <1>k, <1>n, <1>o, <2>1, <3>1 DEF CacheIsNewest
    <3>4. FlightIsNewer'
      <4>1. ASSUME NEW e \in Calls, Known(e)', Caches(e), CacheKey(c) = CacheKey(e)
            PROVE  returned'[c].version <= answer[e].version
        BY <1>o, <2>1, <2>7, <3>1, <4>1 DEF FlightIsNewer, Known
      <4> QED
        BY <1>o, <2>1, <2>7, <4>1 DEF FlightIsNewer, Known
    <3>5. PromiseIsNewer'
      BY <1>o, <2>1, <2>4, <2>5, <3>1 DEF PromiseIsNewer, Known, CacheInv, Requested, Alike
    <3>6. Forward'
      <4>1. \A d \in Over(c) : returned[d].version <= cache[CacheKey(c)].version
        <5>1. \A d \in Over(c) : Caches(d) /\ CacheKey(d) = CacheKey(c)
          BY <3>1, SharedCaches DEF Over
        <5> QED
          BY <1>o, <2>2, <3>1, <5>1 DEF CacheIsNewest
      <4> QED
        BY <1>o, <2>1, <2>2, <2>5, <3>1, <4>1 DEF Forward
    <3> QED
      BY <2>6, <3>2, <3>3, <3>4, <3>5, <3>6
  <2>9. CASE call'[c] = "waiting"
    <3>1. NotAhead' /\ CacheIsNewest' /\ Forward'
      BY <1>o, <2>1, <2>5, <2>7, <2>9 DEF NotAhead, CacheIsNewest, Forward, Known
    <3>2. FlightIsNewer'
      BY <1>o, <2>1, <2>7, <2>9 DEF FlightIsNewer, Known
    <3>3. PromiseIsNewer'
      <4>1. ASSUME fetch'[promise'[c]] \in {"answered", "stored"}
            PROVE  \A d \in Over(c) : returned'[d].version <= answer'[promise'[c]].version
        <5>1. promise'[c] # c
          BY <2>7, <4>1 DEF Known
        <5>2. promise'[c] = pending[PendingKey(c)] /\ Caches(c)
              /\ pending[PendingKey(c)] # NoCall
          BY <1>1, <1>t, <2>9, <5>1 DEF Begin, TypeOK
        <5>3. /\ promise'[c] \in Calls
              /\ PendingKey(promise'[c]) = PendingKey(c)
          BY <1>t, <5>2, KeyTypes DEF CacheInv, Entries, TypeOK
        <5>4. CacheKey(promise'[c]) = CacheKey(c)
          BY <1>t, <5>3, SharedKey DEF TypeOK
        <5>5. Caches(promise'[c])
          BY <5>2, <5>3, <5>4, SharedCaches
        <5>6. Known(promise'[c])
          BY <2>1, <4>1, <5>1, <5>3 DEF Known
        <5>7. \A d \in Over(c) : returned[d].version <= answer[promise'[c]].version
          BY <1>o, <5>3, <5>4, <5>5, <5>6 DEF FlightIsNewer, Over
        <5> QED
          BY <2>1, <2>2, <5>7
      <4> QED
        BY <1>o, <2>1, <2>4, <2>5, <4>1 DEF PromiseIsNewer, Known, CacheInv, Requested, Alike
    <3> QED
      BY <2>6, <3>1, <3>2, <3>3
  <2> QED
    BY <1>1, <1>t, <2>8, <2>9 DEF Begin, TypeOK
<1>2. ASSUME NEW c \in Calls, NodeAnswers(c) PROVE Order'
  <2>1. /\ answer'[c].version = version
        /\ \A d \in Calls : d # c => answer'[d] = answer[d] /\ fetch'[d] = fetch[d]
        /\ fetch'[c] = "answered"
        /\ UNCHANGED <<cache, call, promise, returned, version, begun>>
    BY <1>2, <1>t DEF NodeAnswers, TypeOK, OnlyLatest
  <2>2. NotAhead'
    BY <1>n, <1>o, <2>1 DEF NotAhead, Known
  <2>3. FlightIsNewer'
    BY <1>k, <1>o, <2>1 DEF FlightIsNewer, NotAhead, Known
  <2>4. PromiseIsNewer'
    BY <1>o, <1>t, <2>1 DEF PromiseIsNewer, NotAhead, OverIsDone, Known, TypeOK, Begun,
                            CacheInv, Requested, Alike
  <2> QED
    BY <1>o, <2>1, <2>2, <2>3, <2>4 DEF CacheIsNewest, OverIsDone, Forward
<1>3. ASSUME NEW c \in Calls, FetchFails(c) PROVE Order'
  <2>1. \A d \in Calls : Known(d)' => Known(d) /\ fetch'[d] = fetch[d]
    BY <1>3, <1>t DEF FetchFails, Known, TypeOK
  <2>2. \A d \in Calls : call[d] = "waiting" => promise[d] \in Calls
    BY DEF CacheInv, Requested, Alike
  <2> QED
    BY <1>3, <1>o, <2>1, <2>2
       DEF FetchFails, NotAhead, CacheIsNewest, FlightIsNewer, PromiseIsNewer, OverIsDone,
           Forward
<1>4. ASSUME NEW c \in Calls, Store(c) PROVE Order'
  <2>1. /\ fetch' = [fetch EXCEPT ![c] = "stored"] /\ fetch[c] = "answered"
        /\ cache' = IF Caches(c) THEN [cache EXCEPT ![CacheKey(c)] = answer[c]] ELSE cache
        /\ UNCHANGED <<call, promise, answer, returned, version, begun>>
    BY <1>4 DEF Store
  <2>2. \A d \in Calls : Known(d)' <=> Known(d)
    BY <1>t, <2>1 DEF Known, TypeOK
  <2>3. Known(c)
    BY <2>1 DEF Known
  <2>4. NotAhead'
    BY <1>k, <1>o, <1>t, <2>1, <2>2, <2>3 DEF NotAhead, TypeOK
  <2>5. CacheIsNewest'
    BY <1>k, <1>o, <1>t, <2>1, <2>3 DEF CacheIsNewest, FlightIsNewer, TypeOK
  <2>6. FlightIsNewer'
    <3>1. SUFFICES ASSUME NEW d \in Calls, Known(d), Caches(d)
                   PROVE  /\ \A e \in Calls : call[e] = "done" /\ CacheKey(e) = CacheKey(d) =>
                                returned[e].version <= answer[d].version
                          /\ cache'[CacheKey(d)] # NoAnswer =>
                                /\ cache'[CacheKey(d)].version <= answer[d].version
                                /\ fetch'[d] = "stored" =>
                                      cache'[CacheKey(d)].version = answer[d].version
      BY <2>1, <2>2 DEF FlightIsNewer
    <3>2. CASE d = c
      BY <1>k, <1>n, <1>o, <1>t, <2>1, <3>1, <3>2 DEF FlightIsNewer, TypeOK
    <3>3. CASE d # c
      <4>1. InFlight(d) /\ InFlight(c)
        BY <2>1, <3>1 DEF InFlight, Known
      <4>2. Caches(c) => CacheKey(c) # CacheKey(d)
        BY <1>f, <3>3, <4>1
      <4>3. cache'[CacheKey(d)] = cache[CacheKey(d)] /\ fetch'[d] = fetch[d]
        BY <1>k, <1>t, <2>1, <3>3, <4>2 DEF TypeOK
      <4> QED
        BY <1>o, <3>1, <4>3 DEF FlightIsNewer
    <3> QED
      BY <3>2, <3>3
  <2>7. PromiseIsNewer'
    BY <1>o, <2>1, <2>2 DEF PromiseIsNewer, CacheInv, Requested, Alike
  <2> QED
    BY <1>o, <2>1, <2>4, <2>5, <2>6, <2>7 DEF OverIsDone, Forward
<1>5. ASSUME NEW c \in Calls, Settle(c) PROVE Order'
  <2> DEFINE Waiting == {d \in Calls : call[d] = "waiting" /\ promise[d] = c}
  <2>1. /\ fetch' = [fetch EXCEPT ![c] = "settled"] /\ fetch[c] \in {"stored", "rejected"}
        /\ \A d \in Calls : d \notin Waiting => call'[d] = call[d] /\ returned'[d] = returned[d]
        /\ \A d \in Waiting : fetch[c] # "stored" =>
                                call'[d] = "failed" /\ returned'[d] = returned[d]
        /\ \A d \in Waiting : fetch[c] = "stored" =>
                                call'[d] = "done" /\ returned'[d] = answer[c]
        /\ UNCHANGED <<cache, promise, answer, version, begun>>
    BY <1>5 DEF Settle
  <2>2. \A d \in Calls : Known(d)' => d # c /\ Known(d) /\ fetch'[d] = fetch[d]
    BY <1>t, <2>1 DEF Known, TypeOK
  <2>3. \A d \in Waiting : CacheKey(d) = CacheKey(c)
    BY DEF CacheInv, Requested, Alike
  <2>4. fetch[c] = "stored" => Known(c)
    BY DEF Known
  <2>5. \A d \in Calls : call[d] = "done" => d \notin Waiting
    OBVIOUS
  <2>6. NotAhead'
    BY <1>o, <2>1, <2>2, <2>4 DEF NotAhead
  <2>7. CacheIsNewest'
    <3>1. ASSUME NEW d \in Waiting, fetch[c] = "stored", Caches(d),
                 cache[CacheKey(d)] # NoAnswer
          PROVE  answer[c].version <= cache[CacheKey(d)].version
      <4>1. Caches(c) /\ CacheKey(d) = CacheKey(c)
        BY <2>3, <3>1, SharedCaches
      <4>2. cache[CacheKey(c)].version = answer[c].version
        BY <1>o, <2>4, <3>1, <4>1 DEF FlightIsNewer
      <4> QED
        BY <1>k, <1>n, <2>4, <3>1, <4>1, <4>2
    <3> QED
      BY <1>o, <2>1, <3>1 DEF CacheIsNewest
  <2>8. FlightIsNewer'
    <3>1. ASSUME NEW d \in Calls, Known(d)', Caches(d), NEW e \in Waiting,
                 CacheKey(e) = CacheKey(d)
          PROVE  FALSE
      <4>1. d # c /\ InFlight(d) /\ InFlight(c) /\ CacheKey(d) = CacheKey(c)
        BY <2>1, <2>2, <2>3, <3>1 DEF InFlight, Known
      <4> QED
        BY <1>f, <3>1, <4>1
    <3> QED
      BY <1>o, <2>1, <2>2, <3>1 DEF FlightIsNewer
  <2>9. PromiseIsNewer'
    <3>1. ASSUME NEW d \in Calls, call'[d] = "waiting", Known(promise[d])',
                 NEW e \in begun[d].over
          PROVE  returned'[e].version <= answer[promise[d]].version
      <4>1. call[d] = "waiting" /\ promise[d] \in Calls
        BY <2>1, <3>1 DEF CacheInv, Requested, Alike
      <4>2. e \in Calls /\ call[e] = "done"
        BY <1>o, <1>t, <3>1 DEF OverIsDone, TypeOK, Begun
      <4>3. returned'[e] = returned[e] /\ Known(promise[d])
        BY <2>1, <2>2, <2>5, <3>1, <4>1, <4>2
      <4> QED
        BY <1>o, <3>1, <4>1, <4>3 DEF PromiseIsNewer
    <3> QED
      BY <2>1, <3>1 DEF PromiseIsNewer
  <2>10. \A d \in Calls : \A e \in begun[d].over :
            /\ e \in Calls /\ call[e] = "done"
            /\ call'[e] = call[e] /\ returned'[e] = returned[e]
    BY <1>o, <1>t, <2>1, <2>5 DEF OverIsDone, TypeOK, Begun
  <2>11. Forward'
    <3>1. ASSUME NEW d \in Waiting, fetch[c] = "stored", NEW e \in begun[d].over
          PROVE  returned[e].version <= answer[c].version
      BY <1>o, <2>4, <3>1 DEF PromiseIsNewer
    <3> QED
      BY <1>o, <2>1, <2>10, <3>1 DEF Forward
  <2> QED
    BY <2>1, <2>6, <2>7, <2>8, <2>9, <2>10, <2>11 DEF OverIsDone
<1>6. ASSUME ClearCache PROVE FALSE
  BY <1>0, <1>6, <1>t DEF ClearCache, TypeOK
<1>7. ASSUME NEW k \in Keys, Evict(k) PROVE Order'
  BY <1>7, <1>o, <1>t
     DEF Evict, NotAhead, CacheIsNewest, FlightIsNewer, PromiseIsNewer, OverIsDone, Forward,
         Known, TypeOK
<1>8. CASE Change
  <2>1. NotAhead'
    BY <1>8, <1>n, <1>o DEF Change, NotAhead, Known
  <2> QED
    BY <1>8, <1>o, <2>1
       DEF Change, CacheIsNewest, FlightIsNewer, PromiseIsNewer, OverIsDone, Forward, Known
<1>9. CASE UNCHANGED vars
  BY <1>9, <1>o
     DEF vars, NotAhead, CacheIsNewest, FlightIsNewer, PromiseIsNewer, OverIsDone, Forward,
         Known
<1> QED
  BY <1>1, <1>2, <1>3, <1>4, <1>5, <1>6, <1>7, <1>8, <1>9 DEF Next

\* Until the first clearCache(), and among calls without a height, no call gets an older
\* answer than a call that was over when it began: the cache, the requests calls share
\* and evictions never take an application back in time.
THEOREM AnswersGoForward == Spec => []NeverBackwards
<1> DEFINE Inv == DenomsAreNotAddresses /\ OnlyLatest => CacheInv /\ OrderInv
<1>1. Init => Inv
  BY CacheInvInit
     DEF Init, OrderInv, NotAhead, CacheIsNewest, FlightIsNewer, PromiseIsNewer, OverIsDone,
         Forward, Known
<1>2. Inv /\ [Next]_vars => Inv'
  BY CacheInvStep, OrderInvStep, SettingKept, KeysKept
<1>3. Inv => NeverBackwards
  BY DEF OrderInv, Forward, NeverBackwards
<1> HIDE DEF Inv
<1> QED
  BY <1>1, <1>2, <1>3, PTL DEF Spec

=============================================================================
