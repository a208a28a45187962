----------------------------- MODULE AthenaAuth -----------------------------
(***************************************************************************)
(* How the kiosk obtains, stores, uses and renews its Athena search        *)
(* credentials: StoreRepositoryImpl, AthenaTokenManager,                   *)
(* AthenaAuthInterceptor, DynamicAthenaApiService and the preferences they *)
(* share, with the coroutines that call them.                              *)
(*                                                                         *)
(*   Selectors  StoreSelectionViewModel (loadStores, then selectStore)     *)
(*   Loads      refreshStoreConfigAndInitAthena, called by LoadingScreen   *)
(*              and by StoreLocations (LocationRepositoryImpl)             *)
(*   Switches   SettingsViewModel.changeEnvironment                        *)
(*   Requests   an Athena call passing through AthenaAuthInterceptor       *)
(*                                                                         *)
(* One step is what a coroutine does between two suspension points (a      *)
(* DataStore access, the network, the mutex); but the two fields of the    *)
(* configuration cache, which OkHttp threads share with the main thread    *)
(* without a lock, are read and written in steps of their own.  The store  *)
(* is chosen once, at installation, so a store configuration is known by   *)
(* the environment that served it.  Time is counted in arbitrary units     *)
(* from 1.                                                                 *)
(***************************************************************************)
EXTENDS Naturals, FiniteSets

CONSTANTS
    Envs,                    \* production and development
    TokenKinds,              \* what the environments may hold for the chosen store
    Selectors, Loads, Switches, Requests,
    NULL,
    CONFIG_CACHE_DURATION,   \* 5 minutes in the code
    EXPIRY_MARGIN,           \* 5 minutes in the code
    YEAR,                    \* 365 days in the code
    TokenLifetime,           \* of the tokens the server issues
    MaxTime,                 \* bound on the clock
    MaxOps                   \* bound: coroutines started and restarts

\* A store's access token is a JWT, another non-empty string, the empty
\* string, or the configuration does not list the store at all.
ASSUME KindAssumption == TokenKinds \subseteq [Envs -> {"jwt", "opaque", "empty", "absent"}]
ASSUME TimeAssumption ==
    /\ CONFIG_CACHE_DURATION \in Nat \ {0}
    /\ EXPIRY_MARGIN \in Nat
    /\ YEAR \in Nat \ {0}
    /\ TokenLifetime \in Nat \ {0}
    /\ MaxTime \in Nat \ {0}
    /\ MaxOps \in Nat

Procs == Selectors \cup Loads \cup Switches \cup Requests

ASSUME ProcAssumption ==
    /\ NULL \notin Envs \cup Procs
    /\ Selectors \cap (Loads \cup Switches \cup Requests) = {}
    /\ Loads \cap (Switches \cup Requests) = {}
    /\ Switches \cap Requests = {}

Times == 1 .. MaxTime
Exps == 1 .. MaxTime + TokenLifetime

\* An access token: who issued it and its exp claim.
Tokens == [env : Envs, exp : Exps]

\* The selected store's part of a storeConfigs response: the environment that
\* sent it (its website URL and wtoken), the exp of its token, when it was sent.
Configs == [env : Envs, exp : Exps, issued : Times]

\* A null reference is no token and no configuration.
ASSUME NullAssumption == NULL \notin Tokens \cup Configs

TokenOf(c) == [env |-> c.env, exp |-> c.exp]

Labels ==
    {"idle", "configs", "age", "hit", "send", "response", "date", "found",
     "clearService", "saveConfig", "lock", "valid", "saveToken", "clearCaches",
     "undate", "prefs", "reuse", "call", "sent", "retry"}

\* Between these and the label before there is no suspension point: only
\* coroutines of another thread get in between.
Unsuspended == {"age", "hit", "date", "undate"}

VARIABLES
    selected,               \* StorePreferences: a store has been chosen
    environment,            \* EnvironmentPreferences
    athenaConfig,           \* AthenaPreferences: websiteUrl and wtoken, by environment
    accessToken,            \* AthenaPreferences
    tokenExpiration,        \* AthenaPreferences; 0 when absent
    cachedStoreConfigs, lastConfigFetchTime,    \* StoreRepositoryImpl
    writer,                 \* history: who wrote cachedStoreConfigs last, until it
                            \* has written lastConfigFetchTime too
    torn,                   \* history: the two were not written by one coroutine
    storedAt,               \* history: when cachedStoreConfigs was last written
    mutex, jwtExpirationCache,                  \* AthenaTokenManager
    apiService,             \* DynamicAthenaApiService: base URL of cachedApiService
    tokenIn,                \* what each environment's configuration says (fixed)
    serverExp,              \* exp of the token each environment hands out
    now,
    launched,               \* the app is past LoadingScreen / StoreLocations
    pc, loc,                \* the coroutines and their local variables
    ops,                    \* coroutines started and restarts so far
    alone,                  \* history: the load or switch nothing has overlapped
    standing                \* history: "settled" once a launch or a lone switch has
                            \* succeeded, "failed" once a load or switch has failed

persisted == <<selected, environment, athenaConfig, accessToken, tokenExpiration>>
cache == <<cachedStoreConfigs, lastConfigFetchTime, writer, torn, storedAt>>
manager == <<mutex, jwtExpirationCache>>
world == <<tokenIn, serverExp, now>>
phase == <<launched, ops, alone, standing>>
vars == <<persisted, cache, manager, apiService, world, phase, pc, loc>>

\* A coroutine's local variables: currentTime and the store configs of
\* getStoreConfigs, the interceptor's token, and the base URL the request was
\* built with (kept for as long as standing is "settled").
NoLocals == [started |-> 0, cfg |-> NULL, tok |-> NULL, base |-> NULL]

Init ==
    /\ selected = FALSE
    /\ environment \in Envs
    /\ athenaConfig = NULL
    /\ accessToken = NULL
    /\ tokenExpiration = 0
    /\ cachedStoreConfigs = NULL
    /\ lastConfigFetchTime = 0
    /\ writer = NULL
    /\ torn = FALSE
    /\ storedAt = 0
    /\ mutex = NULL
    /\ jwtExpirationCache = [t \in Tokens |-> 0]
    /\ apiService = NULL
    /\ tokenIn \in TokenKinds
    /\ serverExp = [e \in Envs |-> 1 + TokenLifetime]
    /\ now = 1
    /\ launched = FALSE
    /\ pc = [p \in Procs |-> "idle"]
    /\ loc = [p \in Procs |-> NoLocals]
    /\ alone = NULL
    /\ ops = 0
    /\ standing = "open"

-----------------------------------------------------------------------------
(* Control.                                                                *)

\* The thread of p is free: Selectors, Loads and Switches share the main
\* thread, Requests have a thread each.
Scheduled(p) ==
    \/ p \in Requests
    \/ \A q \in Procs \ (Requests \cup {p}) : pc[q] \notin Unsuspended

\* Coroutine p takes a step, to label l.
Goto(p, l) == Scheduled(p) /\ pc' = [pc EXCEPT ![p] = l]

\* Coroutine p starts at label l with locals v.
Start(p, l, v) ==
    /\ pc[p] = "idle"
    /\ Goto(p, l)
    /\ loc' = [loc EXCEPT ![p] = v]
    /\ alone' = IF p \in Loads \cup Switches /\ \A q \in Procs : pc[q] = "idle"
                THEN p ELSE NULL
    /\ ops < MaxOps /\ ops' = ops + 1
    /\ UNCHANGED launched

\* Coroutine p ends; withLock's finally releases the mutex if p has it.
End(p, ok) ==
    /\ Goto(p, "idle")
    /\ loc' = [loc EXCEPT ![p] = NoLocals]
    /\ mutex' = IF mutex = p THEN NULL ELSE mutex
    /\ launched' = (launched \/ p \in Loads)
    /\ alone' = NULL
    /\ standing' =
          CASE ok /\ alone = p /\ (p \in Switches \/ ~launched) -> "settled"
            [] ~ok /\ p \in Loads \cup Switches /\ standing # "settled" -> "failed"
            [] OTHER -> standing
    /\ UNCHANGED ops

-----------------------------------------------------------------------------
(* StoreRepositoryImpl.getStoreConfigs, for any caller.                    *)

\* The caller gets c and goes on.
Return(p, c) ==
    /\ Goto(p, "found")
    /\ loc' = [loc EXCEPT ![p].cfg = c, ![p].started = 0]

\* currentTime is taken and cachedStoreConfigs looked at ...
getStoreConfigs(p) ==
    /\ pc[p] = "configs"
    /\ Goto(p, IF cachedStoreConfigs # NULL THEN "age" ELSE "send")
    /\ loc' = [loc EXCEPT ![p].started = now]
    /\ UNCHANGED <<persisted, cache, manager, apiService, world, phase>>

\* ... then its date (read twice, which shows no more than reading it once:
\* against the time of day a cleared date is always too old) ...
cacheIsFresh(p) ==
    /\ pc[p] = "age"
    /\ Goto(p, IF /\ lastConfigFetchTime > 0
                  /\ loc[p].started < lastConfigFetchTime + CONFIG_CACHE_DURATION
               THEN "hit" ELSE "send")
    /\ UNCHANGED <<persisted, cache, manager, apiService, world, phase, loc>>

\* ... and "cachedStoreConfigs!!" is read again: whatever is there by now is
\* returned, and null is a failure.
useCache(p) ==
    /\ pc[p] = "hit"
    /\ IF cachedStoreConfigs # NULL
       THEN Return(p, cachedStoreConfigs) /\ UNCHANGED <<mutex, phase>>
       ELSE End(p, FALSE)
    /\ UNCHANGED <<persisted, cache, jwtExpirationCache, apiService, world>>

\* BaseUrlProvider: the URL is that of the environment in force now.
getBaseUrl == environment

\* The request leaves with that base URL (DynamicBaseUrlInterceptor); the
\* server there answers with its current token.
sendStoreConfigs(p) ==
    /\ pc[p] = "send"
    /\ Goto(p, "response")
    /\ loc' = [loc EXCEPT ![p].cfg =
                  [env |-> getBaseUrl, exp |-> serverExp[getBaseUrl], issued |-> now]]
    /\ UNCHANGED <<persisted, cache, manager, apiService, world, phase>>

\* The first of the two writes to the cache, by p ...
Store(p, c) ==
    /\ cachedStoreConfigs' = c
    /\ writer' = p /\ torn' = TRUE /\ storedAt' = now
    /\ UNCHANGED lastConfigFetchTime

\* ... and the second.
SetDate(p, t) ==
    /\ lastConfigFetchTime' = t
    /\ torn' = (writer # p)
    /\ writer' = IF writer = p THEN NULL ELSE writer
    /\ UNCHANGED <<cachedStoreConfigs, storedAt>>

\* The response fills the cache ...
receiveStoreConfigs(p) ==
    /\ pc[p] = "response"
    /\ Store(p, loc[p].cfg)
    /\ Goto(p, "date")
    /\ UNCHANGED <<persisted, manager, apiService, world, phase, loc>>

\* Mutant: the cache is dated with the time of the response.
dateCache_late(p) ==
    /\ pc[p] = "date"
    /\ SetDate(p, now)
    /\ Return(p, loc[p].cfg)
    /\ UNCHANGED <<persisted, manager, apiService, world, phase>>

\* Mutant: the fetch time is stored in another unit than it is compared in.
dateCache_millis(p) ==
    /\ pc[p] = "date"
    /\ SetDate(p, 1000 * loc[p].started)
    /\ Return(p, loc[p].cfg)
    /\ UNCHANGED <<persisted, manager, apiService, world, phase>>

\* ... which is then dated with the time before the request.
dateCache(p) ==
    /\ pc[p] = "date"
    /\ SetDate(p, loc[p].started)
    /\ Return(p, loc[p].cfg)
    /\ UNCHANGED <<persisted, manager, apiService, world, phase>>

\* Mutant: the failure path leaves without releasing the mutex.
storeConfigsFail_locked(p) ==
    /\ pc[p] \in {"send", "response"}
    /\ Goto(p, "idle")
    /\ loc' = [loc EXCEPT ![p] = NoLocals]
    /\ UNCHANGED <<persisted, cache, manager, apiService, world, phase>>

\* Network error, timeout or HTTP error: every caller gives up.
storeConfigsFail(p) ==
    /\ pc[p] \in {"send", "response"}
    /\ End(p, FALSE)
    /\ UNCHANGED <<persisted, cache, jwtExpirationCache, apiService, world>>

-----------------------------------------------------------------------------
(* AthenaPreferences and AthenaTokenManager.                               *)

isTokenExpiredOrExpiringSoon == tokenExpiration < now + EXPIRY_MARGIN

saveAthenaConfig(c) == athenaConfig' = c.env

saveToken(t, expiresIn) ==
    /\ accessToken' = t
    /\ tokenExpiration' = now + expiresIn

\* The seconds until t expires, as the code computes them: remembered from
\* the first decoding if there was one, one year if t is not a JWT or has
\* expired.
getJwtExpirationTime(t) ==
    IF jwtExpirationCache[t] > 0 THEN jwtExpirationCache[t]
    ELSE IF tokenIn[t.env] = "jwt" /\ t.exp > now THEN t.exp - now
    ELSE YEAR

\* What decoding t adds to jwtExpirationCache: the fallback is not cached.
rememberExpiration(t) ==
    jwtExpirationCache' =
        IF tokenIn[t.env] = "jwt" /\ t.exp > now
        THEN [jwtExpirationCache EXCEPT ![t] = getJwtExpirationTime(t)]
        ELSE jwtExpirationCache

\* mutex.withLock of getValidToken (Selectors) and forceRefreshToken (Requests).
lockTokenManager(p) ==
    /\ pc[p] = "lock" /\ mutex = NULL
    /\ mutex' = p
    /\ Goto(p, IF p \in Selectors THEN "valid" ELSE "configs")
    /\ UNCHANGED <<persisted, cache, jwtExpirationCache, apiService, world, phase, loc>>

\* getValidToken under the lock.
getValidToken(p) ==
    /\ pc[p] = "valid"
    /\ IF accessToken # NULL /\ ~isTokenExpiredOrExpiringSoon
       THEN End(p, TRUE)
       ELSE Goto(p, "configs") /\ UNCHANGED <<mutex, phase, loc>>
    /\ UNCHANGED <<persisted, cache, jwtExpirationCache, apiService, world>>

\* refreshTokenFromStoreConfig and refreshStoreConfigAndInitAthena look up the
\* selected store; the former also gives up on an empty token.
findSelectedStore(p) ==
    /\ pc[p] = "found" /\ (p \in Selectors => selected)
    /\ LET kind == tokenIn[loc[p].cfg.env]
       IN  IF kind = "absent" \/ (kind = "empty" /\ mutex = p)
           THEN End(p, FALSE)
           ELSE Goto(p, "saveConfig") /\ UNCHANGED <<mutex, phase, loc>>
    /\ UNCHANGED <<persisted, cache, jwtExpirationCache, apiService, world>>

\* saveAthenaConfig, by whichever coroutine has found its store.
saveConfig(p) ==
    /\ pc[p] = "saveConfig"
    /\ saveAthenaConfig(loc[p].cfg)
    /\ Goto(p, IF p \in Selectors /\ mutex # p THEN "lock" ELSE "saveToken")
    /\ UNCHANGED <<selected, environment, accessToken, tokenExpiration, cache,
                   manager, apiService, world, phase, loc>>

\* refreshTokenFromStoreConfig stores the token with its decoded expiration
\* and returns it: getValidToken's caller ends, the interceptor goes on.
refreshTokenFromStoreConfig(p) ==
    /\ pc[p] = "saveToken" /\ mutex = p
    /\ LET t == TokenOf(loc[p].cfg)
       IN  saveToken(t, getJwtExpirationTime(t)) /\ rememberExpiration(t)
    /\ IF p \in Requests
       THEN /\ mutex' = NULL
            /\ Goto(p, "retry")
            /\ UNCHANGED <<phase, loc>>
       ELSE End(p, TRUE)
    /\ UNCHANGED <<selected, environment, athenaConfig, cache, apiService, world>>

-----------------------------------------------------------------------------
(* StoreRepositoryImpl.refreshStoreConfigAndInitAthena (Loads, Switches).  *)

\* Are a configuration and an unexpired token stored already?
refreshReadsPrefs(p) ==
    /\ pc[p] = "prefs"
    /\ Goto(p, IF athenaConfig # NULL /\ accessToken # NULL /\ ~isTokenExpiredOrExpiringSoon
               THEN "reuse" ELSE "configs")
    /\ UNCHANGED <<persisted, cache, manager, apiService, world, phase, loc>>

\* Then a cached configuration, however old, ends the refresh.
refreshReusesCache(p) ==
    /\ pc[p] = "reuse"
    /\ IF cachedStoreConfigs # NULL /\ tokenIn[cachedStoreConfigs.env] # "absent"
       THEN End(p, TRUE)
       ELSE Goto(p, "configs") /\ UNCHANGED <<mutex, phase, loc>>
    /\ UNCHANGED <<persisted, cache, jwtExpirationCache, apiService, world>>

\* The token is stored for a year, without looking at it.
refreshSavesToken(p) ==
    /\ pc[p] = "saveToken" /\ mutex # p
    /\ IF tokenIn[loc[p].cfg.env] = "empty"
       THEN UNCHANGED <<accessToken, tokenExpiration>>
       ELSE saveToken(TokenOf(loc[p].cfg), YEAR)
    /\ End(p, TRUE)
    /\ UNCHANGED <<selected, environment, athenaConfig, cache, jwtExpirationCache,
                   apiService, world>>

\* LoadingScreen at start, or StoreLocations later: only with a store chosen.
loadStoreConfig(p) ==
    /\ selected
    /\ launched \/ \A q \in Procs : pc[q] = "idle"
    /\ Start(p, "prefs", NoLocals)
    /\ UNCHANGED <<persisted, cache, manager, apiService, world, standing>>

-----------------------------------------------------------------------------
(* StoreSelectionViewModel, before a store has been chosen.                *)

loadStores(p) ==
    /\ ~selected
    /\ Start(p, "configs", NoLocals)
    /\ UNCHANGED <<persisted, cache, manager, apiService, world, standing>>

\* selectStore: the store offered by loadStores is saved.
saveSelectedStore(p) ==
    /\ p \in Selectors /\ pc[p] = "found" /\ ~selected
    /\ tokenIn[loc[p].cfg.env] # "absent"
    /\ selected' = TRUE
    /\ Goto(p, "clearService")
    /\ UNCHANGED <<environment, athenaConfig, accessToken, tokenExpiration, cache,
                   manager, apiService, world, phase, loc>>

\* The configuration offers no store: the screen stays, loadStores is retried.
noStoreOffered(p) ==
    /\ p \in Selectors /\ pc[p] = "found" /\ ~selected
    /\ tokenIn[loc[p].cfg.env] = "absent"
    /\ End(p, FALSE)
    /\ UNCHANGED <<persisted, cache, jwtExpirationCache, apiService, world>>

\* dynamicAthenaApiService.clearCache(); saveAthenaConfig comes next.
clearService(p) ==
    /\ pc[p] = "clearService"
    /\ apiService' = NULL
    /\ Goto(p, "saveConfig")
    /\ UNCHANGED <<persisted, cache, manager, world, phase, loc>>

-----------------------------------------------------------------------------
(* SettingsViewModel.changeEnvironment.                                    *)

saveEnvironment(e) == environment' = e

\* Nothing keeps a second change from starting before the first has ended.
changeEnvironment(p, e) ==
    /\ launched
    /\ saveEnvironment(e)
    /\ standing' = IF standing = "settled" THEN "open" ELSE standing
    /\ Start(p, "clearCaches", NoLocals)
    /\ UNCHANGED <<selected, athenaConfig, accessToken, tokenExpiration, cache,
                   manager, apiService, world>>

\* Mutant: storeRepositoryImpl.clearCache() leaves the configuration there.
clearCache_partly(p) ==
    /\ pc[p] = "clearCaches"
    /\ Goto(p, "undate")
    /\ UNCHANGED <<persisted, cache, manager, apiService, world, phase, loc>>

\* StoreRepositoryImpl.clearCache takes the configuration away first ...
clearCache(p) ==
    /\ pc[p] = "clearCaches"
    /\ Store(p, NULL)
    /\ Goto(p, "undate")
    /\ UNCHANGED <<persisted, manager, apiService, world, phase, loc>>

\* ... and its date second; DynamicAthenaApiService.clearCache, and the
\* refresh is next (a store is always selected here).
clearCacheDate(p) ==
    /\ pc[p] = "undate"
    /\ SetDate(p, 0)
    /\ apiService' = NULL
    /\ Goto(p, "prefs")
    /\ UNCHANGED <<persisted, manager, world, phase, loc>>

\* The screen is left: its viewModelScope is cancelled at a suspension point.
cancelScope(p) ==
    /\ pc[p] \notin {"idle"} \cup Unsuspended /\ launched
    /\ End(p, FALSE)
    /\ UNCHANGED <<persisted, cache, jwtExpirationCache, apiService, world>>

-----------------------------------------------------------------------------
(* An Athena request: DynamicAthenaApiService.getApiService, then          *)
(* AthenaAuthInterceptor.intercept on an OkHttp thread.                    *)

\* The cached service is kept unless the website URL has changed; without a
\* URL the cached one, whatever it is, or a default one serves.
getApiService(p) ==
    /\ launched
    /\ apiService' = CASE athenaConfig # NULL -> athenaConfig
                       [] athenaConfig = NULL /\ apiService # NULL -> apiService
                       [] OTHER -> "default"
    /\ Start(p, "call",
             [NoLocals EXCEPT !.base = IF standing = "settled" THEN apiService' ELSE NULL])
    /\ UNCHANGED <<persisted, cache, manager, world, standing>>

\* The bearer token of the moment is attached; without one the request
\* proceeds unauthenticated and its response is final.
intercept(p) ==
    /\ pc[p] = "call"
    /\ IF accessToken = NULL
       THEN End(p, FALSE)
       ELSE /\ Goto(p, "sent")
            /\ loc' = [loc EXCEPT ![p].tok = accessToken,
                                  ![p].base = IF standing = "settled" THEN @ ELSE NULL]
            /\ UNCHANGED <<mutex, phase>>
    /\ UNCHANGED <<persisted, cache, jwtExpirationCache, apiService, world>>

\* A response other than 401, or none at all (an expired token may time out
\* as well), is the result.
answered(p) ==
    /\ pc[p] = "sent"
    /\ End(p, TRUE)
    /\ UNCHANGED <<persisted, cache, jwtExpirationCache, apiService, world>>

\* 401: the server rejects an expired token.  forceRefreshToken is called.
unauthorized(p) ==
    /\ pc[p] = "sent" /\ loc[p].tok.exp <= now
    /\ Goto(p, "lock")
    /\ loc' = [loc EXCEPT ![p].base = NULL]
    /\ UNCHANGED <<persisted, cache, manager, apiService, world, phase>>

\* The request is retried once if the refresh gave another token; otherwise
\* the 401 is returned.
retryRequest(p) ==
    /\ pc[p] = "retry"
    /\ End(p, TokenOf(loc[p].cfg) # loc[p].tok)
    /\ UNCHANGED <<persisted, cache, jwtExpirationCache, apiService, world>>

-----------------------------------------------------------------------------
(* The surroundings.                                                       *)

\* The server issues new tokens in environment e.
rotateToken(e) ==
    /\ serverExp[e] < now + TokenLifetime
    /\ serverExp' = [serverExp EXCEPT ![e] = now + TokenLifetime]
    /\ UNCHANGED <<persisted, cache, manager, apiService, tokenIn, now, phase, pc, loc>>

tick ==
    /\ now < MaxTime
    /\ now' = now + 1
    /\ UNCHANGED <<persisted, cache, manager, apiService, tokenIn, serverExp, phase, pc, loc>>

\* The process is killed and started again: only the preferences survive.
restart ==
    /\ cachedStoreConfigs' = NULL
    /\ lastConfigFetchTime' = 0
    /\ writer' = NULL /\ torn' = FALSE /\ storedAt' = 0
    /\ mutex' = NULL
    /\ jwtExpirationCache' = [t \in Tokens |-> 0]
    /\ apiService' = NULL
    /\ launched' = FALSE
    /\ pc' = [p \in Procs |-> "idle"]
    /\ loc' = [p \in Procs |-> NoLocals]
    /\ alone' = NULL
    /\ standing' = "open"
    /\ ops < MaxOps /\ ops' = ops + 1
    /\ UNCHANGED <<persisted, world>>

-----------------------------------------------------------------------------
Repository(p) ==
    \/ getStoreConfigs(p) \/ cacheIsFresh(p) \/ useCache(p)
    \/ sendStoreConfigs(p) \/ storeConfigsFail(p)
    \/ receiveStoreConfigs(p) \/ dateCache(p)

TokenManager(p) ==
    \/ lockTokenManager(p) \/ getValidToken(p) \/ findSelectedStore(p)
    \/ saveConfig(p) \/ refreshTokenFromStoreConfig(p)

Refresh(p) == refreshReadsPrefs(p) \/ refreshReusesCache(p) \/ refreshSavesToken(p)

Selection(p) == saveSelectedStore(p) \/ noStoreOffered(p) \/ clearService(p)

Request(p) == intercept(p) \/ answered(p) \/ unauthorized(p) \/ retryRequest(p)

\* The coroutine p, once started, takes its next step.
Step(p) ==
    \/ Repository(p) \/ TokenManager(p) \/ Refresh(p) \/ Selection(p)
    \/ clearCache(p) \/ clearCacheDate(p) \/ Request(p)

Next ==
    \/ \E p \in Procs : Step(p)
    \/ \E p \in Selectors : loadStores(p)
    \/ \E p \in Loads : loadStoreConfig(p)
    \/ \E p \in Switches, e \in Envs : changeEnvironment(p, e)
    \/ \E p \in Loads \cup Switches : cancelScope(p)
    \/ \E p \in Requests : getApiService(p)
    \/ \E e \in Envs : rotateToken(e)
    \/ tick
    \/ restart

Spec == Init /\ [][Next]_vars

-----------------------------------------------------------------------------
ConfigOrNull == Configs \cup {NULL}
TokenOrNull == Tokens \cup {NULL}
Bases == Envs \cup {NULL, "default"}
Locals == [started : 0 .. MaxTime, cfg : ConfigOrNull, tok : TokenOrNull, base : Bases]

\* Every variable has its type.
TypeOK ==
    /\ selected \in BOOLEAN
    /\ environment \in Envs
    /\ athenaConfig \in Envs \cup {NULL}
    /\ accessToken \in TokenOrNull
    /\ tokenExpiration \in Nat
    /\ cachedStoreConfigs \in ConfigOrNull
    /\ lastConfigFetchTime \in 0 .. MaxTime
    /\ writer \in Procs \cup {NULL}
    /\ torn \in BOOLEAN
    /\ storedAt \in 0 .. MaxTime
    /\ mutex \in Procs \cup {NULL}
    /\ jwtExpirationCache \in [Tokens -> Nat]
    /\ apiService \in Bases
    /\ tokenIn \in TokenKinds
    /\ serverExp \in [Envs -> Exps]
    /\ now \in Times
    /\ launched \in BOOLEAN
    /\ pc \in [Procs -> Labels]
    /\ loc \in [Procs -> Locals]
    /\ alone \in Procs \cup {NULL}
    /\ ops \in 0 .. MaxOps
    /\ standing \in {"open", "settled", "failed"}

\* After a successful launch, or an environment change that no other
\* coroutine overlapped, the stored website URL and wtoken, the cached store
\* configuration and the access token all belong to the selected environment,
\* and stay so through every refresh, 401 and interleaving until the next
\* change; a request started since then pairs URL and token of one
\* environment.
ConfigConsistent ==
    /\ standing = "settled" =>
          /\ athenaConfig = environment
          /\ cachedStoreConfigs # NULL => cachedStoreConfigs.env = environment
          /\ tokenIn[environment] # "empty" => accessToken.env = environment
    /\ \A p \in Requests :
          /\ pc[p] = "sent"
          /\ loc[p].base # NULL
          /\ tokenIn[loc[p].base] # "empty"
          => loc[p].tok.env = loc[p].base

\* The age getStoreConfigs computes for the cache, in whatever order the
\* fetches and clearCache of several threads write its two fields: the
\* configuration reached the app at lastConfigFetchTime or later, so nothing
\* the app got longer than CONFIG_CACHE_DURATION ago passes for fresh; and it
\* left the server at that time or later, unless the two fields are not (or
\* not yet) those of one fetch.
CacheAgeSound ==
    cachedStoreConfigs # NULL =>
        /\ lastConfigFetchTime <= storedAt
        /\ ~torn => /\ 0 < lastConfigFetchTime
                    /\ lastConfigFetchTime <= cachedStoreConfigs.issued

\* The token manager's refresh runs in one coroutine at a time and none leaves
\* with the mutex: a request holds it exactly from forceRefreshToken's
\* withLock until the new token is stored or the refresh fails, however it
\* fails, so no 401 waits for a mutex that nobody will release.
RefreshSerialised ==
    /\ \A p \in Requests :
          mutex = p <=> pc[p] \in {"configs", "age", "hit", "send", "response",
                                   "date", "found", "saveConfig", "saveToken"}
    /\ \A p \in Selectors :
          /\ mutex = p => pc[p] \in {"valid", "configs", "age", "hit", "send",
                                     "response", "date", "found", "saveConfig",
                                     "saveToken"}
          /\ pc[p] \in {"valid", "saveToken"} => mutex = p
    /\ mutex \notin Loads \cup Switches

-----------------------------------------------------------------------------
(* What the documentation says.                                            *)

\* changeEnvironment: "Change environment and refresh store config with new
\* base URL".  When nothing runs any more and the last refresh did not fail,
\* the stored configuration is the selected environment's.
SwitchTakesEffect ==
    (\A p \in Procs : pc[p] = "idle") /\ launched /\ standing # "failed"
        => athenaConfig = environment

\* "Auto-refresh 5 min pre isteka" (before expiry), with an interceptor that
\* asks getValidToken: no request leaves with an expired token.
NoExpiredTokenSent ==
    [][\A p \in Requests :
          pc[p] = "call" /\ pc'[p] = "sent" => loc'[p].tok.exp > now]_vars

\* "If 401 is received, automatically refreshes token from store config and
\* retries request": the refresh yields another token than the rejected one,
\* or a configuration sent after that token had expired still carries it.
RefreshedAfter401 ==
    \A p \in Requests :
        pc[p] = "retry" => \/ TokenOf(loc[p].cfg) # loc[p].tok
                           \/ loc[p].cfg.issued >= loc[p].tok.exp
=============================================================================
