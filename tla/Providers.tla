----------------------------- MODULE Providers -----------------------------
(***************************************************************************)
(* src/provider: a CompositeProvider over a CustomProvider and, after it,  *)
(* a RegistryProvider, whose chains come from a remote registry and whose  *)
(* asset lists are fetched when they are first asked for.  The data of a   *)
(* chain is the edition of the registry it was read from, 0 for none.      *)
(* A fetch settles in a task of its own; the calls that await it go on in  *)
(* microtasks, before the next task.                                       *)
(***************************************************************************)
EXTENDS Naturals, Sequences, FiniteSets, FiniteSetsExt

CONSTANTS
    NumChains,     \* chains are numbered in the order of the registry's file
    Calls, NoCall,
    Settings       \* what the application and the registry may do

Chains == 1..NumChains
Listings == Seq(SUBSET Chains)
NoData == [ch \in Chains |-> 0]

\* Operations of an application; the last refreshes through the composite provider.
Operations == {"getAssets", "getRawAssetList", "listAssets", "refresh", "refreshAll"}

(***************************************************************************)
(* listings   the chains that each edition of the registry lists           *)
(* prefetch   options.prefetchAssets                                       *)
(* fails      requests may fail                                            *)
(* op, of     the operations, and the chain each is about                  *)
(* custom     the chains the application may add to or remove from the     *)
(*            custom provider                                              *)
(***************************************************************************)
Setting == [listings : Listings, prefetch : SUBSET Chains, fails : BOOLEAN,
            op : [Calls -> SUBSET Operations], of : Chains, custom : SUBSET Chains]

ASSUME ProvidersAssumption ==
    /\ NumChains \in Nat \ {0}
    /\ NoCall \notin Calls
    /\ \A s \in Settings :
        /\ s.listings \in Listings \ {<<>>} /\ s.prefetch \subseteq Chains
        /\ s.fails \in BOOLEAN /\ s.op \in [Calls -> SUBSET Operations]
        /\ s.of \in Chains /\ s.custom \subseteq Chains

VARIABLES
    setting,        \* never changes
    edition,        \* what the registry has published last
    chains,         \* chains, assetlistUrls and the name maps, always replaced together
    assetMap, assetInfoCache,
    pendingFetches, \* the call that fetches the list of a chain
    pendingAllLoad,
    call,           \* where each call is suspended, what it has collected
    request,        \* the fetch a call has under way
    customChains,   \* the chains of the custom provider
    routes,         \* chainToProvider and chainCache of the composite provider
    disturbed,      \* history: calls during which a fetch failed or a refresh ended
    touched,        \* history: a child has changed on its own since routes was built
    floor           \* history: the edition when the last refresh that succeeded began

registry == <<chains, assetMap, assetInfoCache, pendingFetches, pendingAllLoad>>
composite == <<customChains, routes, touched>>
vars == <<setting, edition, registry, call, request, composite, disturbed, floor>>

(***************************************************************************)
(* at     idle, waiting, ready (what it awaited has settled), or done      *)
(* for    what it awaits: one list, all, the registry's file, the lists to *)
(*        prefetch, the children                                           *)
(* on     the call whose fetch that is      news   what that brought       *)
(* todo   the chains its loop has still to visit                           *)
(* found  what its loop has collected       listed the chains it goes by   *)
(* since, floor  history: edition and floor when it began                  *)
(***************************************************************************)
Idle == [op |-> "none", at |-> "idle", for |-> "none", on |-> NoCall, news |-> NoData,
         todo |-> {}, found |-> NoData, listed |-> NoData, since |-> 0, floor |-> 0]
NoRequest == [kind |-> "none", asked |-> {}, got |-> NoData, sent |-> 0]

Listed(e) == setting.listings[e]
Read(e) == [ch \in Chains |-> IF ch \in Listed(e) THEN e ELSE 0]
Known(data) == {ch \in Chains : data[ch] # 0}

\* rebuildCache(): the first child that lists a chain.
Routes(cs, custom) ==
    [ch \in Chains |-> IF ch \in custom THEN <<"custom", 0>>
                       ELSE IF cs[ch] # 0 THEN <<"registry", cs[ch]>> ELSE <<"none", 0>>]

\* createRegistryProvider() has succeeded, or has met an outage.
Init ==
    /\ setting \in Settings
    /\ edition = 1
    /\ \E ok \in (IF setting.fails THEN BOOLEAN ELSE {TRUE}) :
          chains = IF ok THEN Read(1) ELSE NoData
    /\ assetMap = [ch \in Chains |-> IF ch \in setting.prefetch THEN chains[ch] ELSE 0]
    /\ assetInfoCache = NoData
    /\ pendingFetches = [ch \in Chains |-> NoCall] /\ pendingAllLoad = NoCall
    /\ call = [c \in Calls |-> Idle] /\ request = [c \in Calls |-> NoRequest]
    /\ customChains = {} /\ routes = Routes(chains, {})
    /\ disturbed = {} /\ touched = FALSE /\ floor = 1

-----------------------------------------------------------------------------
Quiet == \A c \in Calls : call[c].at # "ready"
Running(c) == call[c].at \notin {"idle", "done"}

\* The first to go on after a list has arrived removes its entry.
NoneSettled == \A ch \in Chains :
    pendingFetches[ch] # NoCall => ch \in request[pendingFetches[ch]].asked

\* c awaits the fetch of `on`, which it starts itself if that is c.
Await(c, me, kind, on, asked) ==
    /\ call' = [call EXCEPT ![c] = [me EXCEPT !.at = "waiting", !.for = kind, !.on = on]]
    /\ request' = IF on # c THEN request
                  ELSE [request EXCEPT ![c] = [kind |-> kind, asked |-> asked,
                                               got |-> NoData, sent |-> edition]]

\* ensureAssetLoaded() has to fetch: no list yet, but a URL.
MissingAlone(ch, lists) == lists[ch] = 0 /\ chains[ch] # 0 /\ pendingFetches[ch] = NoCall
Missing(ch, lists) == lists[ch] = 0 /\ chains[ch] # 0

\* getAssets() prefers the converted list, getRawAssetList() reads the raw one.
Value(op, ch, lists) ==
    IF op # "getRawAssetList" /\ assetInfoCache[ch] # 0 THEN assetInfoCache[ch]
    ELSE lists[ch]

\* The loop of c over its chains, up to the first whose list it has to await. `me` is the
\* record of c, `settled` the chains whose fetch it has awaited just now, `lists` and
\* `pending` what the step has made of the maps so far.
Walk(c, me, settled, lists, pending) ==
    LET Awaited == {ch \in me.todo \ settled : Missing(ch, lists)}
        stop == Min(Awaited)
        Visited == IF Awaited = {} THEN me.todo ELSE {ch \in me.todo : ch < stop}
        found == [ch \in Chains |->
                    IF ch \in Visited THEN Value(me.op, ch, lists) ELSE me.found[ch]]
        on == IF pending[stop] = NoCall THEN c ELSE pending[stop]
        seen == [me EXCEPT !.todo = @ \ Visited, !.found = found, !.news = NoData]
    IN  /\ assetMap' = lists
        /\ assetInfoCache' = [ch \in Chains |->
              IF ch \in Visited /\ me.op # "getRawAssetList" THEN found[ch]
              ELSE assetInfoCache[ch]]
        /\ IF Awaited = {}
           THEN /\ call' = [call EXCEPT ![c] = [seen EXCEPT !.at = "done"]]
                /\ pendingFetches' = pending
                /\ UNCHANGED request
           ELSE /\ Await(c, seen, "one", on, {stop})
                /\ pendingFetches' = [pending EXCEPT ![stop] = on]

\* ensureAllAssetsLoaded(): what no one has loaded or is fetching one by one.
Unfetched == {ch \in Chains : Missing(ch, assetMap) /\ pendingFetches[ch] = NoCall}

-----------------------------------------------------------------------------
(* The operations of an application. *)

Began(op) == [Idle EXCEPT !.op = op, !.since = edition, !.floor = floor]

\* for (const cid of this.chains.keys()): the map of now, also after a refresh
Listing(me) == [me EXCEPT !.todo = Known(chains), !.listed = chains]

GetAssets(c, op) ==
    /\ op \in {"getAssets", "getRawAssetList"}
    /\ Walk(c, [Began(op) EXCEPT !.todo = {setting.of}], {}, assetMap, pendingFetches)
    /\ UNCHANGED <<chains, pendingAllLoad, composite>>

\* listAssets(), findAsset() and findAssetBySymbol() without a chain
ListAssets(c, op) ==
    /\ op = "listAssets"
    /\ IF pendingAllLoad # NoCall
       THEN /\ Await(c, Began(op), "all", pendingAllLoad, {})
            /\ UNCHANGED registry
       ELSE IF Unfetched # {}
       THEN /\ Await(c, Began(op), "all", c, Unfetched)
            /\ pendingAllLoad' = c
            /\ UNCHANGED <<chains, assetMap, assetInfoCache, pendingFetches>>
       ELSE /\ Walk(c, Listing(Began(op)), {}, assetMap, pendingFetches)
            /\ UNCHANGED <<chains, pendingAllLoad>>
    /\ UNCHANGED composite

\* refresh() of the registry provider, alone or as a child of the composite one
Refresh(c, op) ==
    /\ op \in {"refresh", "refreshAll"}
    /\ Await(c, Began(op), "registry", c, Chains)
    /\ UNCHANGED <<registry, composite>>

Begin(c) ==
    /\ ~Running(c) /\ NoneSettled
    /\ \E op \in setting.op[c] : GetAssets(c, op) \/ ListAssets(c, op) \/ Refresh(c, op)
    /\ disturbed' = disturbed \ {c}
    /\ UNCHANGED <<setting, edition, floor>>

\* addChain() and removeChain() of the custom provider
ChangeCustom(ch) ==
    /\ ch \in setting.custom
    /\ customChains' = IF ch \in customChains THEN customChains \ {ch}
                       ELSE customChains \cup {ch}
    /\ touched' = TRUE
    /\ UNCHANGED <<setting, edition, registry, call, request, routes, disturbed, floor>>

-----------------------------------------------------------------------------
(* The registry (external), and what its answers set going. *)

Publish ==
    /\ edition < Len(setting.listings)
    /\ edition' = edition + 1
    /\ UNCHANGED <<setting, registry, call, request, composite, disturbed, floor>>

Overwrite(old, new) == [ch \in Chains |-> IF new[ch] # 0 THEN new[ch] ELSE old[ch]]

\* The calls that await the request of c can go on, with what it has brought.
Wake(c, got) ==
    call' = [d \in Calls |->
               IF call[d].at = "waiting" /\ call[d].on = c
               THEN [call[d] EXCEPT !.at = "ready", !.on = NoCall, !.news = got]
               ELSE call[d]]

\* The answer for one of the chains asked for, of edition e, or an error (e = 0); each
\* list arrives by itself, the registry's file as a whole.
Answer(c, ch, e) ==
    /\ Quiet
    /\ ch \in request[c].asked
    /\ e = 0 => setting.fails
    /\ e # 0 => e \in request[c].sent..edition
    /\ LET whole == request[c].kind = "registry"
           asked == IF whole THEN {} ELSE request[c].asked \ {ch}
           got == IF e = 0 THEN request[c].got
                  ELSE IF whole THEN Read(e) ELSE [request[c].got EXCEPT ![ch] = e]
           over == asked = {}
           bulk == over /\ request[c].kind = "all"
       IN /\ request' = [request EXCEPT ![c] = IF over THEN NoRequest
                                               ELSE [@ EXCEPT !.asked = asked, !.got = got]]
          /\ IF over THEN Wake(c, got) ELSE UNCHANGED call
          /\ assetMap' = IF bulk THEN Overwrite(assetMap, got) ELSE assetMap
          \* the closure nulls whatever is there by now
          /\ pendingAllLoad' = IF bulk THEN NoCall ELSE pendingAllLoad
    /\ disturbed' = IF e # 0 THEN disturbed ELSE disturbed \cup {d \in Calls : Running(d)}
    /\ UNCHANGED <<setting, edition, chains, assetInfoCache, pendingFetches,
                   composite, floor>>

KeptOnFailure(pending, ch, got) ==
    IF got = 0 THEN pending ELSE [pending EXCEPT ![ch] = NoCall]
\* pendingFetches.delete(), whatever the entry has become meanwhile, success or not
Dropped(pending, ch, got) == [pending EXCEPT ![ch] = NoCall]

\* ensureAssetLoaded() goes on, on the maps as they are now.
OneLoaded(c) ==
    /\ call[c].at = "ready" /\ call[c].for = "one"
    /\ LET ch == Min(call[c].todo)
           got == call[c].news[ch]
       IN Walk(c, call[c], {ch}, Overwrite(assetMap, [NoData EXCEPT ![ch] = got]),
               Dropped(pendingFetches, ch, got))
    /\ UNCHANGED <<setting, edition, chains, pendingAllLoad, composite, disturbed,
                   floor>>

AllAreLoaded(c) ==
    /\ call[c].at = "ready" /\ call[c].for = "all"
    /\ Walk(c, Listing(call[c]), {}, assetMap, pendingFetches)
    /\ UNCHANGED <<setting, edition, chains, pendingAllLoad, composite, disturbed,
                   floor>>

RebuildsIfAny(c) == call[c].op = "refreshAll" /\ call[c].news # NoData
Rebuilds(c) == call[c].op = "refreshAll"

\* refresh() has everything: from one step to the next, the provider is a new one. Of a
\* composite provider, rebuildCache() follows.
Replace(c, listed, lists) ==
    /\ chains' = listed
    /\ assetMap' = lists
    /\ assetInfoCache' = NoData
    /\ pendingFetches' = [ch \in Chains |-> NoCall] /\ pendingAllLoad' = NoCall
    /\ call' = [call EXCEPT ![c] = [Idle EXCEPT !.op = call[c].op, !.for = "children",
                                      !.at = IF Rebuilds(c) THEN "ready" ELSE "done"]]
    /\ touched' = (touched \/ call[c].op = "refresh")
    /\ floor' = IF listed = NoData THEN floor ELSE Max({floor, call[c].since})
    /\ disturbed' = disturbed \cup {d \in Calls : Running(d)}
    /\ UNCHANGED <<setting, edition, request, customChains, routes>>

FileRead(c) ==
    /\ call[c].at = "ready" /\ call[c].for = "registry"
    /\ LET listed == call[c].news
           ahead == Known(listed) \cap setting.prefetch
       IN IF ahead = {} THEN Replace(c, listed, NoData)
          ELSE /\ Await(c, [call[c] EXCEPT !.listed = listed, !.news = NoData],
                        "prefetch", c, ahead)
               /\ UNCHANGED <<setting, edition, registry, composite, disturbed, floor>>

Prefetched(c) ==
    /\ call[c].at = "ready" /\ call[c].for = "prefetch"
    /\ Replace(c, call[c].listed, call[c].news)

\* CompositeProvider.refresh() after Promise.all
Rebuild(c) ==
    /\ call[c].at = "ready" /\ call[c].for = "children"
    /\ call' = [call EXCEPT ![c].at = "done"]
    /\ routes' = Routes(chains, customChains) /\ touched' = FALSE
    /\ UNCHANGED <<setting, edition, registry, request, customChains, disturbed, floor>>

Next ==
    \/ \E c \in Calls : \/ Begin(c) \/ OneLoaded(c) \/ AllAreLoaded(c)
                        \/ FileRead(c) \/ Prefetched(c) \/ Rebuild(c)
    \/ \E c \in Calls, ch \in Chains, e \in 0..edition : Answer(c, ch, e)
    \/ \E ch \in Chains : ChangeCustom(ch)
    \/ Publish

Spec == Init /\ [][Next]_vars

-----------------------------------------------------------------------------
\* An entry of pendingFetches or pendingAllLoad is a fetch under way: one that has
\* failed is not awaited again by later calls (registry-provider.ts:434, :462).
PendingIsInFlight == Quiet =>
    /\ NoneSettled
    /\ pendingAllLoad # NoCall => request[pendingAllLoad].kind = "all"

\* A listing of all assets during which no fetch fails and no refresh ends has the
\* assets of every chain, whoever was loading which of them when it began
\* (ensureAllAssetsLoaded() leaves out what is loaded one by one), and no later call
\* awaits a fetch that is over.
ListingIsComplete == PendingIsInFlight /\ \A c \in Calls :
    call[c].op = "listAssets" /\ call[c].at = "done" /\ c \notin disturbed =>
        Known(call[c].listed) \subseteq Known(call[c].found)

\* The composite provider sends each chain to its first child that lists it and tells
\* that child's data of it, unless a child has changed on its own since
\* (composite-provider.ts:64, :271).
RoutesAgree == Quiet /\ ~touched => routes = Routes(chains, customChains)

\* "Refresh provider data (re-fetch from source)" (types.ts:393): a call made after a
\* refresh gets nothing that was fetched before the refresh began.  This does not hold
\* (see the README); no run has it.
RefreshIsFresh == \A c \in Calls, ch \in Chains :
    call[c].at = "done" /\ call[c].found[ch] # 0 => call[c].found[ch] >= call[c].floor

=============================================================================
