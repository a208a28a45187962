----------------------- MODULE AthenaAuthTypes_proofs -----------------------
(***************************************************************************)
(* Types of the credential model, the age of the configuration cache and   *)
(* the consistency of what an undisturbed switch or launch has stored, for *)
(* any number of coroutines of each kind, any environments, token          *)
(* lifetimes and cache durations.                                          *)
(***************************************************************************)
EXTENDS AthenaAuth_proofs

\* Where a coroutine carries a store configuration.
Carrying == {"response", "date", "found", "clearService", "saveConfig", "saveToken", "retry"}

\* What the locals v of a coroutine at label l hold at time t: a fetch knows
\* when it began, and a response left the server after that.
Carries(l, v, t) ==
    /\ v \in Locals
    /\ l \in {"age", "hit", "send"} => 0 < v.started /\ v.started <= t
    /\ l \in Carrying => v.cfg \in Configs
    /\ l \in {"response", "date"} => /\ 0 < v.started
                                     /\ v.started <= v.cfg.issued
                                     /\ v.cfg.issued <= t

\* Where that is more than a type.
Timed == {"age", "hit", "send", "response", "date"}

LocInv ==
    /\ pc \in [Procs -> Labels]
    /\ loc \in [Procs -> Locals]
    /\ \A p \in Procs : Carries(pc[p], loc[p], now)

PrefType ==
    /\ environment \in Envs
    /\ athenaConfig \in Envs \cup {NULL}
    /\ accessToken \in TokenOrNull
    /\ tokenExpiration \in Nat

CacheInv ==
    /\ cachedStoreConfigs \in ConfigOrNull
    /\ lastConfigFetchTime \in 0 .. MaxTime
    /\ writer \in Procs \cup {NULL}
    /\ torn \in BOOLEAN
    /\ storedAt \in 0 .. MaxTime /\ storedAt <= now

WorldType ==
    /\ tokenIn \in TokenKinds
    /\ serverExp \in [Envs -> Exps]
    /\ now \in Times

ManagerType ==
    /\ jwtExpirationCache \in [Tokens -> Nat]
    /\ apiService \in Bases

PhaseType ==
    /\ launched \in BOOLEAN
    /\ alone \in Procs \cup {NULL}
    /\ ops \in 0 .. MaxOps
    /\ standing \in {"open", "settled", "failed"}

\* The inductive invariant.
DataInv == LocInv /\ PrefType /\ CacheInv /\ WorldType /\ ManagerType /\ PhaseType

-----------------------------------------------------------------------------
(* What does not change keeps its type.                                    *)

LEMMA PrefSame == ASSUME PrefType, UNCHANGED persisted PROVE PrefType'
BY DEF PrefType, persisted

LEMMA CacheSame == ASSUME CacheInv, UNCHANGED cache, now' = now PROVE CacheInv'
BY DEF CacheInv, cache

LEMMA WorldSame == ASSUME WorldType, UNCHANGED world PROVE WorldType' /\ now' = now
BY DEF WorldType, world

LEMMA ManagerSame ==
  ASSUME ManagerType, UNCHANGED <<jwtExpirationCache, apiService>> PROVE ManagerType'
BY DEF ManagerType

LEMMA PhaseSame == ASSUME PhaseType, UNCHANGED phase PROVE PhaseType'
BY DEF PhaseType, phase

-----------------------------------------------------------------------------
(* What a coroutine carries as it moves.                                   *)

\* Coroutine p goes to label l with locals v.
LEMMA LocMoves ==
  ASSUME LocInv, NEW p \in Procs, NEW l \in Labels, NEW v, Goto(p, l),
         loc' = [loc EXCEPT ![p] = v], now' = now, Carries(l, v, now)
  PROVE  LocInv'
<1>1. pc' \in [Procs -> Labels] /\ loc' \in [Procs -> Locals]
  BY DEF LocInv, Goto, Carries
<1>2. ASSUME NEW q \in Procs PROVE Carries(pc'[q], loc'[q], now')
  <2>1. CASE q = p
    <3>1. pc'[q] = l /\ loc'[q] = v
      BY <2>1 DEF LocInv, Goto
    <3>2. QED
      BY <3>1
  <2>2. CASE q # p
    <3>1. pc'[q] = pc[q] /\ loc'[q] = loc[q]
      BY <2>2 DEF LocInv, Goto
    <3>2. QED
      BY <3>1 DEF LocInv
  <2>3. QED
    BY <2>1, <2>2
<1>3. QED
  BY <1>1, <1>2 DEF LocInv

\* Coroutine p goes to label l with the locals it has.
LEMMA LocKeeps ==
  ASSUME LocInv, NEW p \in Procs, NEW l \in Labels, Goto(p, l),
         loc' = loc, now' = now,
         \/ l \notin Timed
         \/ l \in {"hit", "send"} /\ pc[p] = "age"
         \/ l = "date" /\ pc[p] = "response",
         l \in Carrying => pc[p] \in Carrying
  PROVE  LocInv'
<1>1. Carries(pc[p], loc[p], now) /\ loc' = [loc EXCEPT ![p] = loc[p]]
  BY DEF LocInv
<1>2. Carries(l, loc[p], now)
  BY <1>1 DEF Carries, Timed, Carrying
<1>3. QED
  BY <1>1, <1>2, LocMoves

LEMMA NoLocalsType == NoLocals \in Locals
BY TimeAssumption DEF NoLocals, Locals, ConfigOrNull, TokenOrNull, Bases

\* The locals once getStoreConfigs has returned configuration c.
LEMMA ReturnedLocals ==
  ASSUME NEW v \in Locals, NEW c \in Configs
  PROVE  /\ [v EXCEPT !.cfg = c, !.started = 0] \in Locals
         /\ [v EXCEPT !.cfg = c, !.started = 0].cfg \in Configs
<1> DEFINE u == [v EXCEPT !.cfg = c]
<1>1. u \in Locals /\ u.cfg = c
  BY DEF Locals, ConfigOrNull
<1> HIDE DEF u
<1>2. [u EXCEPT !.started = 0] \in Locals /\ [u EXCEPT !.started = 0].cfg = c
  BY <1>1, TimeAssumption DEF Locals
<1>3. QED
  BY <1>2 DEF u

\* Coroutine p ends.
LEMMA EndKeeps ==
  ASSUME LocInv, PhaseType, NEW p \in Procs, NEW ok \in BOOLEAN, End(p, ok), now' = now
  PROVE  LocInv' /\ PhaseType'
<1>1. "idle" \in Labels /\ Carries("idle", NoLocals, now)
  BY NoLocalsType DEF Labels, Carries, Carrying
<1>2. LocInv'
  BY <1>1, LocMoves DEF End
<1>3. standing' \in {"open", "settled", "failed"}
  BY DEF End, PhaseType
<1>4. launched' \in BOOLEAN
  BY DEF End
<1>5. alone' \in Procs \cup {NULL} /\ ops' \in 0 .. MaxOps
  BY DEF End, PhaseType
<1>6. QED
  BY <1>2, <1>3, <1>4, <1>5 DEF PhaseType

\* Coroutine p starts at label l with locals v.
LEMMA StartKeeps ==
  ASSUME LocInv, PhaseType, NEW p \in Procs, NEW l \in Labels, NEW v \in Locals,
         l \notin Carrying \cup Timed, Start(p, l, v), now' = now
  PROVE  /\ LocInv'
         /\ launched' = launched /\ alone' \in Procs \cup {NULL} /\ ops' \in 0 .. MaxOps
<1>1. Carries(l, v, now)
  BY DEF Carries, Carrying, Timed
<1>2. LocInv'
  BY <1>1, LocMoves DEF Start
<1>3. ops' \in 0 .. MaxOps
  BY TimeAssumption DEF Start, PhaseType
<1>4. QED
  BY <1>2, <1>3 DEF Start

-----------------------------------------------------------------------------
(* The initial state.                                                      *)

LEMMA DataInit == Init => DataInv
<1> SUFFICES ASSUME Init PROVE DataInv
  OBVIOUS
<1>1. LocInv
  <2>1. "idle" \in Labels /\ Carries("idle", NoLocals, now)
    BY NoLocalsType DEF Labels, Carries, Carrying
  <2>2. QED
    BY <2>1, NoLocalsType DEF Init, LocInv
<1>2. PrefType
  BY DEF Init, PrefType, TokenOrNull
<1>3. CacheInv
  <2>1. torn \in BOOLEAN /\ writer \in Procs \cup {NULL} /\ cachedStoreConfigs \in ConfigOrNull
    BY DEF Init, ConfigOrNull
  <2>2. lastConfigFetchTime \in 0 .. MaxTime /\ storedAt \in 0 .. MaxTime /\ storedAt <= now
    BY TimeAssumption DEF Init
  <2>3. QED
    BY <2>1, <2>2 DEF CacheInv
<1>4. WorldType
  BY TimeAssumption DEF Init, WorldType, Exps, Times
<1>5. ManagerType
  BY DEF Init, ManagerType, Bases
<1>6. PhaseType
  <2>1. launched \in BOOLEAN /\ alone \in Procs \cup {NULL}
        /\ standing \in {"open", "settled", "failed"}
    BY DEF Init
  <2>2. ops \in 0 .. MaxOps
    BY TimeAssumption DEF Init
  <2>3. QED
    BY <2>1, <2>2 DEF PhaseType
<1>7. QED
  BY <1>1, <1>2, <1>3, <1>4, <1>5, <1>6 DEF DataInv

-----------------------------------------------------------------------------
(* The steps of getStoreConfigs, where the cache gets its age.             *)

\* getStoreConfigs returns configuration c to p.
LEMMA LocReturns ==
  ASSUME LocInv, NEW p \in Procs, NEW c \in Configs, Return(p, c), now' = now
  PROVE  LocInv'
<1> DEFINE v == [loc[p] EXCEPT !.cfg = c, !.started = 0]
<1>1. loc[p] \in Locals /\ Goto(p, "found")
  BY DEF LocInv, Return
<1>2. loc' = [loc EXCEPT ![p] = v]
  BY <1>1 DEF LocInv, Locals, Return
<1>3. v \in Locals /\ v.cfg \in Configs
  BY <1>1, ReturnedLocals
<1>4. "found" \in Labels /\ Carries("found", v, now)
  BY <1>3 DEF Carries, Labels
<1> HIDE DEF v
<1>5. QED
  BY <1>1, <1>2, <1>4, LocMoves

LEMMA DataRepository ==
  ASSUME DataInv, NEW p \in Procs, Repository(p)
  PROVE  DataInv'
<1>d. LocInv /\ PrefType /\ CacheInv /\ WorldType /\ ManagerType /\ PhaseType
  BY DEF DataInv
<1>s. UNCHANGED <<persisted, jwtExpirationCache, apiService, world>>
  BY DEF Repository, getStoreConfigs, cacheIsFresh, useCache, sendStoreConfigs,
         receiveStoreConfigs, dateCache, storeConfigsFail, manager
<1>p. PrefType' /\ ManagerType' /\ WorldType' /\ now' = now
  BY <1>d, <1>s, PrefSame, ManagerSame, WorldSame
<1>c. Carries(pc[p], loc[p], now) /\ loc[p] \in Locals /\ now \in Times
  BY <1>d DEF LocInv, WorldType
<1>l. {"age", "hit", "send", "date"} \subseteq Labels /\ FALSE \in BOOLEAN
  BY DEF Labels
<1>1. CASE getStoreConfigs(p)
  <2>1. UNCHANGED <<cache, phase>>
    BY <1>1 DEF getStoreConfigs
  <2>2. PICK l \in {"age", "send"} : Goto(p, l)
    BY <1>1 DEF getStoreConfigs
  <2> DEFINE v == [loc[p] EXCEPT !.started = now]
  <2>3. loc' = [loc EXCEPT ![p] = v]
    BY <1>1, <1>d, <1>c DEF getStoreConfigs, LocInv, Locals
  <2>4. v \in Locals /\ 0 < v.started /\ v.started <= now
    BY <1>c, TimeAssumption DEF Locals, Times
  <2>5. l \in Labels /\ Carries(l, v, now)
    BY <2>4 DEF Carries, Labels, Carrying
  <2> HIDE DEF v
  <2>6. LocInv'
    BY <1>d, <1>p, <2>2, <2>3, <2>5, LocMoves
  <2>7. QED
    BY <1>d, <1>p, <2>1, <2>6, CacheSame, PhaseSame DEF DataInv
<1>a. CASE cacheIsFresh(p)
  <2>1. UNCHANGED <<cache, phase, loc>> /\ pc[p] = "age"
    BY <1>a DEF cacheIsFresh
  <2>2. PICK l \in {"hit", "send"} : Goto(p, l)
    BY <1>a DEF cacheIsFresh
  <2>3. LocInv'
    BY <1>d, <1>l, <1>p, <2>1, <2>2, LocKeeps DEF Carrying
  <2>4. QED
    BY <1>d, <1>p, <2>1, <2>3, CacheSame, PhaseSame DEF DataInv
<1>h. CASE useCache(p)
  <2>1. UNCHANGED cache
    BY <1>h DEF useCache
  <2>2. CASE cachedStoreConfigs # NULL
    <3>1. Return(p, cachedStoreConfigs) /\ UNCHANGED phase
      BY <1>h, <2>2 DEF useCache
    <3>2. cachedStoreConfigs \in Configs
      BY <1>d, <2>2 DEF CacheInv, ConfigOrNull
    <3>3. LocInv'
      BY <1>d, <1>p, <3>1, <3>2, LocReturns
    <3>4. QED
      BY <1>d, <1>p, <2>1, <3>1, <3>3, CacheSame, PhaseSame DEF DataInv
  <2>3. CASE cachedStoreConfigs = NULL
    <3>1. End(p, FALSE)
      BY <1>h, <2>3 DEF useCache
    <3>2. QED
      BY <1>d, <1>l, <1>p, <2>1, <3>1, CacheSame, EndKeeps DEF DataInv
  <2>4. QED
    BY <2>2, <2>3
<1>2. CASE sendStoreConfigs(p)
  <2>1. UNCHANGED <<cache, phase>> /\ pc[p] = "send" /\ Goto(p, "response")
    BY <1>2 DEF sendStoreConfigs
  <2> DEFINE c == [env |-> environment, exp |-> serverExp[environment], issued |-> now]
             v == [loc[p] EXCEPT !.cfg = c]
  <2>2. c \in Configs
    BY <1>d, <1>c DEF Configs, WorldType, PrefType
  <2>3. loc' = [loc EXCEPT ![p] = v]
    BY <1>2, <1>d, <1>c DEF sendStoreConfigs, getBaseUrl, LocInv, Locals
  <2>4. 0 < loc[p].started /\ loc[p].started <= now
    BY <1>c, <2>1 DEF Carries
  <2>5. v \in Locals /\ v.cfg \in Configs /\ v.cfg.issued = now /\ v.started = loc[p].started
    BY <1>c, <2>2 DEF Locals, ConfigOrNull
  <2>6. "response" \in Labels /\ Carries("response", v, now)
    BY <1>c, <2>4, <2>5 DEF Carries, Labels, Times
  <2> HIDE DEF v
  <2>7. LocInv'
    BY <1>d, <1>p, <2>1, <2>3, <2>6, LocMoves
  <2>8. QED
    BY <1>d, <1>p, <2>1, <2>7, CacheSame, PhaseSame DEF DataInv
<1>3. CASE receiveStoreConfigs(p)
  <2>1. /\ pc[p] = "response" /\ Goto(p, "date") /\ UNCHANGED <<phase, loc>>
        /\ cachedStoreConfigs' = loc[p].cfg /\ writer' = p /\ torn' = TRUE
        /\ storedAt' = now /\ lastConfigFetchTime' = lastConfigFetchTime
    BY <1>3 DEF receiveStoreConfigs, Store
  <2>2. loc[p].cfg \in Configs
    BY <1>c, <2>1 DEF Carries, Carrying
  <2>3. CacheInv'
    BY <1>c, <1>d, <1>p, <2>1, <2>2, TimeAssumption DEF CacheInv, ConfigOrNull, Times
  <2>4. LocInv'
    BY <1>d, <1>l, <1>p, <2>1, LocKeeps DEF Carrying
  <2>5. QED
    BY <1>d, <1>p, <2>1, <2>3, <2>4, PhaseSame DEF DataInv
<1>r. CASE dateCache(p)
  <2>1. /\ pc[p] = "date" /\ Return(p, loc[p].cfg) /\ UNCHANGED phase
        /\ lastConfigFetchTime' = loc[p].started
        /\ writer' = (IF writer = p THEN NULL ELSE writer)
        /\ UNCHANGED <<cachedStoreConfigs, storedAt>>
    BY <1>r DEF dateCache, SetDate
  <2>2. torn' \in BOOLEAN
    BY <1>r DEF dateCache, SetDate
  <2>3. CacheInv'
    BY <1>c, <1>d, <1>p, <2>1, <2>2 DEF CacheInv, Locals
  <2>4. loc[p].cfg \in Configs
    BY <1>c, <2>1 DEF Carries, Carrying
  <2>5. LocInv'
    BY <1>d, <1>p, <2>1, <2>4, LocReturns
  <2>6. QED
    BY <1>d, <1>p, <2>1, <2>3, <2>5, PhaseSame DEF DataInv
<1>4. CASE storeConfigsFail(p)
  <2>1. UNCHANGED cache /\ End(p, FALSE)
    BY <1>4 DEF storeConfigsFail
  <2>2. QED
    BY <1>d, <1>l, <1>p, <2>1, CacheSame, EndKeeps DEF DataInv
<1>5. QED
  BY <1>1, <1>2, <1>3, <1>4, <1>a, <1>h, <1>r DEF Repository

-----------------------------------------------------------------------------
(* AthenaTokenManager and refreshStoreConfigAndInitAthena.                 *)

\* A step that only moves p along.
LEMMA DataGoes ==
  ASSUME DataInv, NEW p \in Procs, NEW l \in Labels, Goto(p, l), loc' = loc,
         l \notin Timed, l \in Carrying => pc[p] \in Carrying,
         UNCHANGED <<persisted, cache, jwtExpirationCache, apiService, world, phase>>
  PROVE  DataInv'
BY PrefSame, CacheSame, WorldSame, ManagerSame, PhaseSame, LocKeeps DEF DataInv

\* A step that only ends p.
LEMMA DataEnds ==
  ASSUME DataInv, NEW p \in Procs, NEW ok \in BOOLEAN, End(p, ok),
         UNCHANGED <<persisted, cache, jwtExpirationCache, apiService, world>>
  PROVE  DataInv'
BY PrefSame, CacheSame, WorldSame, ManagerSame, EndKeeps DEF DataInv

\* The seconds getJwtExpirationTime returns and remembers are natural numbers.
LEMMA JwtType ==
  ASSUME ManagerType, WorldType, NEW t \in Tokens, rememberExpiration(t)
  PROVE  getJwtExpirationTime(t) \in Nat /\ jwtExpirationCache' \in [Tokens -> Nat]
<1>1. t.exp \in Nat /\ now \in Nat /\ YEAR \in Nat
  BY TimeAssumption DEF Tokens, Exps, WorldType, Times
<1>2. getJwtExpirationTime(t) \in Nat
  BY <1>1 DEF getJwtExpirationTime, ManagerType
<1>3. QED
  BY <1>2 DEF rememberExpiration, ManagerType

\* saveToken keeps the types of the preferences.
LEMMA SaveTokenType ==
  ASSUME PrefType, WorldType, NEW t \in Tokens, NEW n \in Nat, saveToken(t, n),
         UNCHANGED <<environment, athenaConfig>>
  PROVE  PrefType'
<1>1. now + n \in Nat
  BY TimeAssumption DEF WorldType, Times
<1>2. QED
  BY <1>1 DEF PrefType, saveToken, TokenOrNull

LEMMA TokenOfType == ASSUME NEW c \in Configs PROVE TokenOf(c) \in Tokens
BY DEF Configs, TokenOf, Tokens

LEMMA DataTokenManager ==
  ASSUME DataInv, NEW p \in Procs, TokenManager(p)
  PROVE  DataInv'
<1>d. LocInv /\ PrefType /\ CacheInv /\ WorldType /\ ManagerType /\ PhaseType
  BY DEF DataInv
<1>c. pc[p] \in Carrying => loc[p].cfg \in Configs
  BY <1>d DEF LocInv, Carries
<1>l. {"valid", "configs", "saveConfig", "lock", "saveToken", "retry"} \subseteq Labels
  BY DEF Labels
<1>b. TRUE \in BOOLEAN /\ FALSE \in BOOLEAN
  OBVIOUS
<1>1. CASE lockTokenManager(p)
  <2>1. /\ Goto(p, "valid") \/ Goto(p, "configs")
        /\ UNCHANGED <<persisted, cache, jwtExpirationCache, apiService, world, phase, loc>>
    BY <1>1 DEF lockTokenManager
  <2>2. QED
    BY <1>l, <2>1, DataGoes DEF Carrying, Timed
<1>2. CASE getValidToken(p)
  <2>1. UNCHANGED <<persisted, cache, jwtExpirationCache, apiService, world>>
    BY <1>2 DEF getValidToken
  <2>2. CASE End(p, TRUE)
    BY <1>b, <2>1, <2>2, DataEnds
  <2>3. CASE Goto(p, "configs") /\ UNCHANGED <<phase, loc>>
    BY <1>l, <2>1, <2>3, DataGoes DEF Carrying, Timed
  <2>4. QED
    BY <1>2, <2>2, <2>3 DEF getValidToken
<1>3. CASE findSelectedStore(p)
  <2>1. UNCHANGED <<persisted, cache, jwtExpirationCache, apiService, world>>
        /\ pc[p] = "found"
    BY <1>3 DEF findSelectedStore
  <2>2. CASE End(p, FALSE)
    BY <1>b, <2>1, <2>2, DataEnds
  <2>3. CASE Goto(p, "saveConfig") /\ UNCHANGED <<phase, loc>>
    BY <1>l, <2>1, <2>3, DataGoes DEF Carrying, Timed
  <2>4. QED
    BY <1>3, <2>2, <2>3 DEF findSelectedStore
<1>4. CASE saveConfig(p)
  <2>1. /\ pc[p] = "saveConfig"
        /\ Goto(p, "lock") \/ Goto(p, "saveToken")
        /\ athenaConfig' = loc[p].cfg.env
        /\ UNCHANGED <<environment, accessToken, tokenExpiration>>
        /\ UNCHANGED <<cache, jwtExpirationCache, apiService, world, phase, loc>>
    BY <1>4 DEF saveConfig, saveAthenaConfig, manager
  <2>2. PrefType'
    BY <1>c, <1>d, <2>1 DEF PrefType, Carrying, Configs
  <2>3. LocInv'
    BY <1>d, <1>l, <2>1, LocKeeps, WorldSame DEF Carrying, Timed
  <2>4. QED
    BY <1>d, <2>1, <2>2, <2>3, CacheSame, WorldSame, ManagerSame, PhaseSame DEF DataInv
<1>5. CASE refreshTokenFromStoreConfig(p)
  <2> DEFINE t == TokenOf(loc[p].cfg)
  <2>1. /\ pc[p] = "saveToken" /\ saveToken(t, getJwtExpirationTime(t))
        /\ rememberExpiration(t)
        /\ UNCHANGED <<environment, athenaConfig, cache, apiService, world>>
    BY <1>5 DEF refreshTokenFromStoreConfig
  <2>2. t \in Tokens
    BY <1>c, <2>1, TokenOfType DEF Carrying
  <2> HIDE DEF t
  <2>3. getJwtExpirationTime(t) \in Nat /\ jwtExpirationCache' \in [Tokens -> Nat]
    BY <1>d, <2>1, <2>2, JwtType
  <2>4. PrefType'
    BY <1>d, <2>1, <2>2, <2>3, SaveTokenType
  <2>5. ManagerType'
    BY <1>d, <2>1, <2>3 DEF ManagerType
  <2>6. LocInv' /\ PhaseType'
    <3>1. CASE End(p, TRUE)
      BY <1>b, <1>d, <2>1, <3>1, EndKeeps, WorldSame
    <3>2. CASE Goto(p, "retry") /\ UNCHANGED <<phase, loc>>
      BY <1>d, <1>l, <2>1, <3>2, LocKeeps, PhaseSame, WorldSame DEF Carrying, Timed
    <3>3. QED
      BY <1>5, <3>1, <3>2 DEF refreshTokenFromStoreConfig
  <2>7. QED
    BY <1>d, <2>1, <2>4, <2>5, <2>6, CacheSame, WorldSame DEF DataInv
<1>6. QED
  BY <1>1, <1>2, <1>3, <1>4, <1>5 DEF TokenManager

LEMMA DataRefresh ==
  ASSUME DataInv, NEW p \in Procs, Refresh(p)
  PROVE  DataInv'
<1>d. LocInv /\ PrefType /\ CacheInv /\ WorldType /\ ManagerType /\ PhaseType
  BY DEF DataInv
<1>c. pc[p] \in Carrying => loc[p].cfg \in Configs
  BY <1>d DEF LocInv, Carries
<1>l. {"reuse", "configs"} \subseteq Labels
  BY DEF Labels
<1>b. TRUE \in BOOLEAN
  OBVIOUS
<1>1. CASE refreshReadsPrefs(p)
  <2>1. /\ Goto(p, "reuse") \/ Goto(p, "configs")
        /\ UNCHANGED <<persisted, cache, jwtExpirationCache, apiService, world, phase, loc>>
    BY <1>1 DEF refreshReadsPrefs, manager
  <2>2. QED
    BY <1>l, <2>1, DataGoes DEF Carrying, Timed
<1>2. CASE refreshReusesCache(p)
  <2>1. UNCHANGED <<persisted, cache, jwtExpirationCache, apiService, world>>
    BY <1>2 DEF refreshReusesCache
  <2>2. CASE End(p, TRUE)
    BY <1>b, <2>1, <2>2, DataEnds
  <2>3. CASE Goto(p, "configs") /\ UNCHANGED <<phase, loc>>
    BY <1>l, <2>1, <2>3, DataGoes DEF Carrying, Timed
  <2>4. QED
    BY <1>2, <2>2, <2>3 DEF refreshReusesCache
<1>3. CASE refreshSavesToken(p)
  <2>1. /\ pc[p] = "saveToken" /\ End(p, TRUE)
        /\ UNCHANGED <<environment, athenaConfig>>
        /\ UNCHANGED <<cache, jwtExpirationCache, apiService, world>>
    BY <1>3 DEF refreshSavesToken
  <2>2. PrefType'
    <3>1. CASE UNCHANGED <<accessToken, tokenExpiration>>
      BY <1>d, <2>1, <3>1 DEF PrefType
    <3>2. CASE saveToken(TokenOf(loc[p].cfg), YEAR)
      <4>1. TokenOf(loc[p].cfg) \in Tokens /\ YEAR \in Nat
        BY <1>c, <2>1, TokenOfType, TimeAssumption DEF Carrying
      <4>2. QED
        BY <1>d, <2>1, <3>2, <4>1, SaveTokenType
    <3>3. QED
      BY <1>3, <3>1, <3>2 DEF refreshSavesToken
  <2>3. LocInv' /\ PhaseType'
    BY <1>b, <1>d, <2>1, EndKeeps, WorldSame
  <2>4. QED
    BY <1>d, <2>1, <2>2, <2>3, CacheSame, WorldSame, ManagerSame DEF DataInv
<1>4. QED
  BY <1>1, <1>2, <1>3 DEF Refresh

-----------------------------------------------------------------------------
(* Store selection, environment change, requests.                          *)

LEMMA DataSelection ==
  ASSUME DataInv, NEW p \in Procs, Selection(p)
  PROVE  DataInv'
<1>d. LocInv /\ PrefType /\ CacheInv /\ WorldType /\ ManagerType /\ PhaseType
  BY DEF DataInv
<1>l. {"clearService", "saveConfig"} \subseteq Labels /\ FALSE \in BOOLEAN
  BY DEF Labels
<1>1. CASE saveSelectedStore(p)
  <2>1. /\ pc[p] = "found" /\ Goto(p, "clearService")
        /\ UNCHANGED <<environment, athenaConfig, accessToken, tokenExpiration>>
        /\ UNCHANGED <<cache, jwtExpirationCache, apiService, world, phase, loc>>
    BY <1>1 DEF saveSelectedStore, manager
  <2>2. PrefType'
    BY <1>d, <2>1 DEF PrefType
  <2>3. LocInv'
    BY <1>d, <1>l, <2>1, LocKeeps, WorldSame DEF Carrying, Timed
  <2>4. QED
    BY <1>d, <2>1, <2>2, <2>3, CacheSame, WorldSame, ManagerSame, PhaseSame DEF DataInv
<1>2. CASE noStoreOffered(p)
  BY <1>2, <1>l, DataEnds DEF noStoreOffered
<1>3. CASE clearService(p)
  <2>1. /\ pc[p] = "clearService" /\ Goto(p, "saveConfig") /\ apiService' = NULL
        /\ UNCHANGED <<persisted, cache, jwtExpirationCache, world, phase, loc>>
    BY <1>3 DEF clearService, manager
  <2>2. ManagerType'
    BY <1>d, <2>1 DEF ManagerType, Bases
  <2>3. LocInv'
    BY <1>d, <1>l, <2>1, LocKeeps, WorldSame DEF Carrying, Timed
  <2>4. QED
    BY <1>d, <2>1, <2>2, <2>3, CacheSame, WorldSame, PrefSame, PhaseSame DEF DataInv
<1>4. QED
  BY <1>1, <1>2, <1>3 DEF Selection

LEMMA DataClearCache ==
  ASSUME DataInv, NEW p \in Procs, clearCache(p)
  PROVE  DataInv'
<1>d. LocInv /\ PrefType /\ CacheInv /\ WorldType /\ ManagerType /\ PhaseType
  BY DEF DataInv
<1>1. /\ Goto(p, "undate")
      /\ cachedStoreConfigs' = NULL /\ writer' = p /\ torn' = TRUE
      /\ storedAt' = now /\ lastConfigFetchTime' = lastConfigFetchTime
      /\ UNCHANGED <<persisted, jwtExpirationCache, apiService, world, phase, loc>>
  BY DEF clearCache, Store, manager
<1>2. CacheInv'
  BY <1>d, <1>1, WorldSame, TimeAssumption DEF CacheInv, ConfigOrNull, WorldType, Times
<1>3. LocInv'
  BY <1>d, <1>1, LocKeeps, WorldSame DEF Carrying, Timed, Labels
<1>4. QED
  BY <1>d, <1>1, <1>2, <1>3, WorldSame, PrefSame, ManagerSame, PhaseSame DEF DataInv

LEMMA DataClearCacheDate ==
  ASSUME DataInv, NEW p \in Procs, clearCacheDate(p)
  PROVE  DataInv'
<1>d. LocInv /\ PrefType /\ CacheInv /\ WorldType /\ ManagerType /\ PhaseType
  BY DEF DataInv
<1>1. /\ Goto(p, "prefs") /\ apiService' = NULL /\ lastConfigFetchTime' = 0
      /\ writer' = (IF writer = p THEN NULL ELSE writer)
      /\ UNCHANGED <<cachedStoreConfigs, storedAt>>
      /\ UNCHANGED <<persisted, jwtExpirationCache, world, phase, loc>>
  BY DEF clearCacheDate, SetDate, manager
<1>2. torn' \in BOOLEAN
  BY DEF clearCacheDate, SetDate
<1>3. ManagerType'
  BY <1>d, <1>1 DEF ManagerType, Bases
<1>4. CacheInv'
  BY <1>d, <1>1, <1>2, WorldSame, TimeAssumption DEF CacheInv
<1>5. LocInv'
  BY <1>d, <1>1, LocKeeps, WorldSame DEF Carrying, Timed, Labels
<1>6. QED
  BY <1>d, <1>1, <1>3, <1>4, <1>5, WorldSame, PrefSame, PhaseSame DEF DataInv

LEMMA DataRequest ==
  ASSUME DataInv, NEW p \in Procs, Request(p)
  PROVE  DataInv'
<1>d. LocInv /\ PrefType /\ CacheInv /\ WorldType /\ ManagerType /\ PhaseType
  BY DEF DataInv
<1>c. loc[p] \in Locals
  BY <1>d DEF LocInv
<1>l. {"sent", "lock"} \subseteq Labels /\ FALSE \in BOOLEAN /\ TRUE \in BOOLEAN
  BY DEF Labels
<1>s. UNCHANGED <<persisted, cache, jwtExpirationCache, apiService, world>>
  BY DEF Request, intercept, answered, unauthorized, retryRequest, manager
<1>1. CASE intercept(p)
  <2>1. CASE End(p, FALSE)
    BY <1>l, <1>s, <2>1, DataEnds
  <2>2. CASE ~(accessToken = NULL)
    <3> DEFINE b == IF standing = "settled" THEN loc[p].base ELSE NULL
               u == [loc[p] EXCEPT !.tok = accessToken]
               v == [u EXCEPT !.base = b]
    <3>1. Goto(p, "sent") /\ UNCHANGED phase
      BY <1>1, <2>2 DEF intercept
    <3>2. loc' = [loc EXCEPT ![p] = v]
      BY <1>1, <1>c, <1>d, <2>2 DEF intercept, LocInv, Locals
    <3>3. b \in Bases
      BY <1>c DEF Bases, Locals
    <3> HIDE DEF b
    <3>4. u \in Locals
      BY <1>c, <1>d DEF PrefType, Locals
    <3> HIDE DEF u
    <3>5. v \in Locals
      BY <3>3, <3>4 DEF Locals
    <3>6. Carries("sent", v, now)
      BY <3>5 DEF Carries, Carrying
    <3> HIDE DEF v
    <3>7. LocInv'
      BY <1>d, <1>l, <1>s, <3>1, <3>2, <3>6, LocMoves, WorldSame
    <3>8. QED
      BY <1>d, <1>s, <3>1, <3>7, PrefSame, CacheSame, WorldSame, ManagerSame, PhaseSame
         DEF DataInv
  <2>3. QED
    BY <1>1, <2>1, <2>2 DEF intercept
<1>2. CASE answered(p)
  BY <1>2, <1>l, <1>s, DataEnds DEF answered
<1>3. CASE unauthorized(p)
  <2> DEFINE v == [loc[p] EXCEPT !.base = NULL]
  <2>1. Goto(p, "lock") /\ UNCHANGED phase
    BY <1>3 DEF unauthorized
  <2>2. loc' = [loc EXCEPT ![p] = v]
    BY <1>3, <1>c, <1>d DEF unauthorized, LocInv, Locals
  <2>3. v \in Locals
    BY <1>c DEF Locals, Bases
  <2>4. Carries("lock", v, now)
    BY <2>3 DEF Carries, Carrying
  <2> HIDE DEF v
  <2>5. LocInv'
    BY <1>d, <1>l, <1>s, <2>1, <2>2, <2>4, LocMoves, WorldSame
  <2>6. QED
    BY <1>d, <1>s, <2>1, <2>5, PrefSame, CacheSame, WorldSame, ManagerSame, PhaseSame
       DEF DataInv
<1>4. CASE retryRequest(p)
  <2>1. End(p, TokenOf(loc[p].cfg) # loc[p].tok)
    BY <1>4 DEF retryRequest
  <2>2. (TokenOf(loc[p].cfg) # loc[p].tok) \in BOOLEAN
    OBVIOUS
  <2>3. QED
    BY <1>s, <2>1, <2>2, DataEnds
<1>5. QED
  BY <1>1, <1>2, <1>3, <1>4 DEF Request

-----------------------------------------------------------------------------
(* Coroutines start; the surroundings.                                     *)

LEMMA DataStarts ==
  ASSUME DataInv, NEW p \in Procs, NEW l \in {"configs", "prefs"}, Start(p, l, NoLocals),
         UNCHANGED <<persisted, cache, manager, apiService, world, standing>>
  PROVE  DataInv'
<1>d. LocInv /\ PrefType /\ CacheInv /\ WorldType /\ ManagerType /\ PhaseType
  BY DEF DataInv
<1>1. l \in Labels /\ l \notin Carrying \cup Timed
  BY DEF Labels, Carrying, Timed
<1>2. /\ LocInv'
      /\ launched' = launched /\ alone' \in Procs \cup {NULL} /\ ops' \in 0 .. MaxOps
  BY <1>d, <1>1, StartKeeps, NoLocalsType, WorldSame
<1>3. PhaseType'
  BY <1>d, <1>2 DEF PhaseType
<1>4. QED
  BY <1>d, <1>2, <1>3, PrefSame, CacheSame, WorldSame, ManagerSame DEF DataInv, manager

LEMMA DataChangeEnvironment ==
  ASSUME DataInv, NEW p \in Switches, NEW e \in Envs, changeEnvironment(p, e)
  PROVE  DataInv'
<1>d. LocInv /\ PrefType /\ CacheInv /\ WorldType /\ ManagerType /\ PhaseType
  BY DEF DataInv
<1>1. /\ Start(p, "clearCaches", NoLocals) /\ environment' = e
      /\ UNCHANGED <<athenaConfig, accessToken, tokenExpiration>>
      /\ UNCHANGED <<cache, jwtExpirationCache, apiService, world>>
  BY DEF changeEnvironment, saveEnvironment, manager
<1>2. PrefType'
  BY <1>d, <1>1 DEF PrefType
<1>3. "clearCaches" \in Labels /\ "clearCaches" \notin Carrying \cup Timed /\ p \in Procs
  BY DEF Labels, Carrying, Timed, Procs
<1>4. /\ LocInv'
      /\ launched' = launched /\ alone' \in Procs \cup {NULL} /\ ops' \in 0 .. MaxOps
  BY <1>d, <1>1, <1>3, StartKeeps, NoLocalsType, WorldSame
<1>5. standing' \in {"open", "settled", "failed"}
  BY <1>d DEF changeEnvironment, PhaseType
<1>6. PhaseType'
  BY <1>d, <1>4, <1>5 DEF PhaseType
<1>7. QED
  BY <1>d, <1>1, <1>2, <1>4, <1>6, CacheSame, WorldSame, ManagerSame DEF DataInv

LEMMA DataGetApiService ==
  ASSUME DataInv, NEW p \in Requests, getApiService(p)
  PROVE  DataInv'
<1>d. LocInv /\ PrefType /\ CacheInv /\ WorldType /\ ManagerType /\ PhaseType
  BY DEF DataInv
<1>1. UNCHANGED <<persisted, cache, jwtExpirationCache, world, standing>>
  BY DEF getApiService, manager
<1>2. apiService' \in Bases
  BY <1>d DEF getApiService, ManagerType, PrefType, Bases
<1> DEFINE b == IF standing = "settled" THEN apiService' ELSE NULL
           v == [NoLocals EXCEPT !.base = b]
<1>3. Start(p, "call", v)
  BY DEF getApiService
<1>4. b \in Bases
  BY <1>2 DEF Bases
<1> HIDE DEF b
<1>5. v \in Locals
  BY <1>4, NoLocalsType DEF Locals
<1> HIDE DEF v
<1>6. "call" \in Labels /\ "call" \notin Carrying \cup Timed /\ p \in Procs
  BY DEF Labels, Carrying, Timed, Procs
<1>7. /\ LocInv'
      /\ launched' = launched /\ alone' \in Procs \cup {NULL} /\ ops' \in 0 .. MaxOps
  BY <1>d, <1>1, <1>3, <1>5, <1>6, StartKeeps, WorldSame
<1>8. PhaseType'
  BY <1>d, <1>1, <1>7 DEF PhaseType
<1>9. ManagerType'
  BY <1>d, <1>1, <1>2 DEF ManagerType
<1>10. QED
  BY <1>d, <1>1, <1>7, <1>8, <1>9, PrefSame, CacheSame, WorldSame DEF DataInv

LEMMA DataWorld ==
  ASSUME DataInv, tick \/ (\E e \in Envs : rotateToken(e))
  PROVE  DataInv'
<1>d. LocInv /\ PrefType /\ CacheInv /\ WorldType /\ ManagerType /\ PhaseType
  BY DEF DataInv
<1>s. UNCHANGED <<persisted, cache, jwtExpirationCache, apiService, phase, pc, loc>>
  BY DEF tick, rotateToken, manager
<1>1. WorldType' /\ now <= now'
  <2>1. CASE tick
    BY <1>d, <2>1, TimeAssumption DEF tick, WorldType, Times
  <2>2. ASSUME NEW e \in Envs, rotateToken(e) PROVE WorldType' /\ now <= now'
    <3>1. now + TokenLifetime \in Exps
      BY <1>d, TimeAssumption DEF WorldType, Times, Exps
    <3>2. now' = now /\ now <= now
      BY <1>d, <2>2, TimeAssumption DEF rotateToken, WorldType, Times
    <3>3. QED
      BY <1>d, <2>2, <3>1, <3>2 DEF rotateToken, WorldType
  <2>3. QED
    BY <2>1, <2>2
<1>n. now \in Nat /\ now' \in Nat
  BY <1>d, <1>1, TimeAssumption DEF WorldType, Times
<1>2. CacheInv'
  BY <1>d, <1>s, <1>1, <1>n, TimeAssumption DEF CacheInv, cache
<1>3. LocInv'
  <2>1. ASSUME NEW q \in Procs PROVE Carries(pc[q], loc[q], now')
    <3>1. Carries(pc[q], loc[q], now)
      BY <1>d DEF LocInv
    <3>2. loc[q].started \in Nat
      BY <3>1, TimeAssumption DEF Carries, Locals
    <3>3. loc[q].cfg \in Configs => loc[q].cfg.issued \in Nat
      BY TimeAssumption DEF Configs, Times
    <3>4. QED
      BY <1>1, <1>n, <3>1, <3>2, <3>3 DEF Carries, Carrying
  <2>2. QED
    BY <1>d, <1>s, <2>1 DEF LocInv
<1>4. QED
  BY <1>d, <1>s, <1>1, <1>2, <1>3, PrefSame, ManagerSame, PhaseSame DEF DataInv

LEMMA DataRestart ==
  ASSUME DataInv, restart
  PROVE  DataInv'
<1>d. LocInv /\ PrefType /\ CacheInv /\ WorldType /\ ManagerType /\ PhaseType
  BY DEF DataInv
<1>1. UNCHANGED <<persisted, world>>
  BY DEF restart
<1>2. LocInv'
  <2>1. "idle" \in Labels /\ Carries("idle", NoLocals, now')
    BY NoLocalsType DEF Labels, Carries, Carrying
  <2>2. QED
    BY <2>1, NoLocalsType DEF restart, LocInv
<1>3. CacheInv'
  <2>1. torn' \in BOOLEAN /\ writer' \in Procs \cup {NULL} /\ cachedStoreConfigs' \in ConfigOrNull
    BY DEF restart, ConfigOrNull
  <2>2. lastConfigFetchTime' \in 0 .. MaxTime /\ storedAt' \in 0 .. MaxTime
    BY TimeAssumption DEF restart
  <2>3. storedAt' <= now'
    BY <1>d, <1>1, WorldSame, TimeAssumption DEF restart, WorldType, Times
  <2>4. QED
    BY <2>1, <2>2, <2>3 DEF CacheInv
<1>4. ManagerType'
  BY DEF restart, ManagerType, Bases
<1>5. launched' \in BOOLEAN /\ alone' \in Procs \cup {NULL}
      /\ standing' \in {"open", "settled", "failed"}
  BY DEF restart
<1>6. ops' \in 0 .. MaxOps
  BY <1>d, TimeAssumption DEF restart, PhaseType
<1>7. QED
  BY <1>d, <1>1, <1>2, <1>3, <1>4, <1>5, <1>6, PrefSame, WorldSame DEF DataInv, PhaseType

LEMMA DataNext == DataInv /\ [Next]_vars => DataInv'
<1> SUFFICES ASSUME DataInv, [Next]_vars PROVE DataInv'
  OBVIOUS
<1>p. Selectors \cup Loads \cup Switches \cup Requests = Procs /\ FALSE \in BOOLEAN
  BY DEF Procs
<1>1. ASSUME NEW p \in Procs, Step(p) PROVE DataInv'
  BY <1>1, DataRepository, DataTokenManager, DataRefresh, DataSelection,
     DataClearCache, DataClearCacheDate, DataRequest DEF Step
<1>2. ASSUME NEW p \in Selectors, loadStores(p) PROVE DataInv'
  BY <1>2, <1>p, DataStarts DEF loadStores
<1>3. ASSUME NEW p \in Loads, loadStoreConfig(p) PROVE DataInv'
  BY <1>3, <1>p, DataStarts DEF loadStoreConfig
<1>4. ASSUME NEW p \in Loads \cup Switches, cancelScope(p) PROVE DataInv'
  BY <1>4, <1>p, DataEnds DEF cancelScope
<1>5. CASE UNCHANGED vars
  <2>1. UNCHANGED <<persisted, cache, jwtExpirationCache, apiService, world, phase, pc, loc>>
    BY <1>5 DEF vars, manager
  <2>2. LocInv'
    BY <2>1 DEF DataInv, LocInv, world
  <2>3. QED
    BY <2>1, <2>2, PrefSame, CacheSame, WorldSame, ManagerSame, PhaseSame DEF DataInv
<1>6. QED
  BY <1>1, <1>2, <1>3, <1>4, <1>5, DataChangeEnvironment, DataGetApiService, DataWorld,
     DataRestart DEF Next

-----------------------------------------------------------------------------
(* The age of the cache.                                                   *)

\* The inductive invariant: whoever is between its two writes began no later
\* than the cache was last written, and what it wrote is still there unless
\* another coroutine wrote after it.
AgeInv ==
    /\ lastConfigFetchTime <= storedAt
    /\ \A p \in Procs : pc[p] = "date" => loc[p].started <= storedAt
    /\ \A p \in Procs : pc[p] = "date" /\ writer = p => cachedStoreConfigs = loc[p].cfg
    /\ \A p \in Procs : pc[p] = "undate" /\ writer = p => cachedStoreConfigs = NULL
    /\ CacheAgeSound

\* The cache is left alone and nobody gets between the two writes.
Aside ==
    /\ UNCHANGED cache
    /\ \A q \in Procs : pc'[q] \in {"date", "undate"} => pc'[q] = pc[q] /\ loc'[q] = loc[q]

LEMMA AgeAside == ASSUME AgeInv, Aside PROVE AgeInv'
<1>1. UNCHANGED <<cachedStoreConfigs, lastConfigFetchTime, writer, torn, storedAt>>
  BY DEF Aside, cache
<1>2. CacheAgeSound'
  BY <1>1 DEF AgeInv, CacheAgeSound
<1>3. QED
  BY <1>1, <1>2 DEF AgeInv, Aside

\* Coroutine p moves to a label that is not between the two writes.
LEMMA AsideMoves ==
  ASSUME LocInv, NEW p \in Procs, NEW l, Goto(p, l), l \notin {"date", "undate"},
         UNCHANGED cache, \A q \in Procs : q # p => loc'[q] = loc[q]
  PROVE  Aside
BY DEF LocInv, Goto, Aside

LEMMA AsideEnds ==
  ASSUME LocInv, NEW p \in Procs, NEW ok, End(p, ok), UNCHANGED cache
  PROVE  Aside
<1>1. Goto(p, "idle") /\ \A q \in Procs : q # p => loc'[q] = loc[q]
  BY DEF LocInv, End
<1>2. QED
  BY <1>1, AsideMoves

LEMMA AsideStarts ==
  ASSUME LocInv, NEW p \in Procs, NEW l, NEW v, Start(p, l, v), l \notin {"date", "undate"},
         UNCHANGED cache
  PROVE  Aside
<1>1. Goto(p, l) /\ \A q \in Procs : q # p => loc'[q] = loc[q]
  BY DEF LocInv, Start
<1>2. QED
  BY <1>1, AsideMoves

\* Every step of a coroutine but the four writes.
LEMMA AgeSteps ==
  ASSUME AgeInv, LocInv, NEW p \in Procs, Step(p),
         ~receiveStoreConfigs(p), ~dateCache(p), ~clearCache(p), ~clearCacheDate(p)
  PROVE  AgeInv'
<1>e. ASSUME NEW ok, End(p, ok), UNCHANGED cache PROVE AgeInv'
  BY <1>e, AsideEnds, AgeAside
<1>m. ASSUME NEW l, Goto(p, l), l \notin {"date", "undate"}, UNCHANGED cache,
             \A q \in Procs : q # p => loc'[q] = loc[q]
      PROVE  AgeInv'
  BY <1>m, AsideMoves, AgeAside
<1>1. CASE Repository(p)
  <2>1. CASE getStoreConfigs(p)
    <3>1. /\ Goto(p, "age") \/ Goto(p, "send")
          /\ UNCHANGED cache /\ \A q \in Procs : q # p => loc'[q] = loc[q]
      BY <2>1 DEF getStoreConfigs, LocInv
    <3>2. QED
      BY <1>m, <3>1
  <2>2. CASE cacheIsFresh(p)
    <3>1. /\ Goto(p, "hit") \/ Goto(p, "send")
          /\ UNCHANGED <<cache, loc>>
      BY <2>2 DEF cacheIsFresh
    <3>2. QED
      BY <1>m, <3>1
  <2>3. CASE useCache(p)
    <3>1. CASE End(p, FALSE)
      BY <1>e, <2>3, <3>1 DEF useCache
    <3>2. CASE Return(p, cachedStoreConfigs)
      <4>1. Goto(p, "found") /\ UNCHANGED cache /\ \A q \in Procs : q # p => loc'[q] = loc[q]
        BY <2>3, <3>2 DEF useCache, Return, LocInv
      <4>2. QED
        BY <1>m, <4>1
    <3>3. QED
      BY <2>3, <3>1, <3>2 DEF useCache
  <2>4. CASE sendStoreConfigs(p)
    <3>1. /\ Goto(p, "response")
          /\ UNCHANGED cache /\ \A q \in Procs : q # p => loc'[q] = loc[q]
      BY <2>4 DEF sendStoreConfigs, LocInv
    <3>2. QED
      BY <1>m, <3>1
  <2>5. CASE storeConfigsFail(p)
    BY <1>e, <2>5 DEF storeConfigsFail
  <2>6. QED
    BY <1>1, <2>1, <2>2, <2>3, <2>4, <2>5 DEF Repository
<1>2. CASE TokenManager(p)
  <2>1. UNCHANGED cache
    BY <1>2 DEF TokenManager, lockTokenManager, getValidToken, findSelectedStore,
                saveConfig, refreshTokenFromStoreConfig
  <2>2. \/ \E ok : End(p, ok)
        \/ loc' = loc /\ \E l \in {"valid", "configs", "saveConfig", "lock", "saveToken", "retry"} :
                            Goto(p, l)
    BY <1>2 DEF TokenManager, lockTokenManager, getValidToken, findSelectedStore,
                saveConfig, refreshTokenFromStoreConfig
  <2>3. QED
    BY <1>e, <1>m, <2>1, <2>2
<1>3. CASE Refresh(p)
  <2>1. UNCHANGED cache
    BY <1>3 DEF Refresh, refreshReadsPrefs, refreshReusesCache, refreshSavesToken
  <2>2. \/ \E ok : End(p, ok)
        \/ loc' = loc /\ \E l \in {"reuse", "configs"} : Goto(p, l)
    BY <1>3 DEF Refresh, refreshReadsPrefs, refreshReusesCache, refreshSavesToken
  <2>3. QED
    BY <1>e, <1>m, <2>1, <2>2
<1>4. CASE Selection(p)
  <2>1. UNCHANGED cache
    BY <1>4 DEF Selection, saveSelectedStore, noStoreOffered, clearService
  <2>2. \/ \E ok : End(p, ok)
        \/ loc' = loc /\ \E l \in {"clearService", "saveConfig"} : Goto(p, l)
    BY <1>4 DEF Selection, saveSelectedStore, noStoreOffered, clearService
  <2>3. QED
    BY <1>e, <1>m, <2>1, <2>2
<1>5. CASE Request(p)
  <2>1. UNCHANGED cache
    BY <1>5 DEF Request, intercept, answered, unauthorized, retryRequest
  <2>2. CASE \E ok : End(p, ok)
    BY <1>e, <2>1, <2>2
  <2>3. CASE ~\E ok : End(p, ok)
    <3>1. /\ Goto(p, "sent") \/ Goto(p, "lock")
          /\ \A q \in Procs : q # p => loc'[q] = loc[q]
      BY <1>5, <2>3 DEF Request, intercept, answered, unauthorized, retryRequest, LocInv
    <3>2. QED
      BY <1>m, <2>1, <3>1
  <2>4. QED
    BY <2>2, <2>3
<1>6. QED
  BY <1>1, <1>2, <1>3, <1>4, <1>5 DEF Step

\* The four writes.
LEMMA AgeWrites ==
  ASSUME AgeInv, DataInv, NEW p \in Procs,
         receiveStoreConfigs(p) \/ dateCache(p) \/ clearCache(p) \/ clearCacheDate(p)
  PROVE  AgeInv'
<1>d. LocInv /\ CacheInv /\ now \in Nat /\ storedAt \in Nat /\ storedAt <= now
      /\ lastConfigFetchTime \in Nat
  BY TimeAssumption DEF DataInv, CacheInv, WorldType, Times
<1>q. \A q \in Procs : Carries(pc[q], loc[q], now) /\ loc[q].started \in Nat
  BY <1>d, TimeAssumption DEF LocInv, Carries, Locals
<1>s. ASSUME NEW l \in {"date", "undate"}, NEW c, Store(p, c), Goto(p, l), loc' = loc,
             l = "date" => c = loc[p].cfg /\ loc[p].started <= now,
             l = "undate" => c = NULL
      PROVE  AgeInv'
  <2>1. /\ cachedStoreConfigs' = c /\ writer' = p /\ torn' = TRUE /\ storedAt' = now
        /\ lastConfigFetchTime' = lastConfigFetchTime
        /\ \A q \in Procs : pc'[q] = IF q = p THEN l ELSE pc[q]
    BY <1>d, <1>s DEF Store, Goto, LocInv
  <2>2. lastConfigFetchTime' <= storedAt'
    BY <1>d, <2>1 DEF AgeInv
  <2>3. \A q \in Procs : pc'[q] = "date" => loc'[q].started <= storedAt'
    BY <1>d, <1>q, <1>s, <2>1 DEF AgeInv
  <2>4. \A q \in Procs : pc'[q] = "date" /\ writer' = q => cachedStoreConfigs' = loc'[q].cfg
    BY <1>s, <2>1
  <2>5. \A q \in Procs : pc'[q] = "undate" /\ writer' = q => cachedStoreConfigs' = NULL
    BY <1>s, <2>1
  <2>6. CacheAgeSound'
    BY <2>1, <2>2 DEF CacheAgeSound
  <2>7. QED
    BY <2>2, <2>3, <2>4, <2>5, <2>6 DEF AgeInv
<1>t. ASSUME NEW l, NEW t \in Nat, SetDate(p, t), Goto(p, l), l \notin {"date", "undate"},
             \A q \in Procs : q # p => loc'[q] = loc[q],
             t <= storedAt,
             writer = p /\ cachedStoreConfigs # NULL => 0 < t /\ t <= cachedStoreConfigs.issued
      PROVE  AgeInv'
  <2>1. /\ lastConfigFetchTime' = t /\ UNCHANGED <<cachedStoreConfigs, storedAt>>
        /\ writer' = (IF writer = p THEN NULL ELSE writer)
        /\ \A q \in Procs : pc'[q] = IF q = p THEN l ELSE pc[q]
    BY <1>d, <1>t DEF SetDate, Goto, LocInv
  <2>2. ~torn' => writer = p
    BY <1>t DEF SetDate
  <2>3. \A q \in Procs : writer' = q => writer = q
    BY <2>1, ProcAssumption
  <2>4. CacheAgeSound'
    BY <1>t, <2>1, <2>2 DEF CacheAgeSound
  <2>5. QED
    BY <1>t, <2>1, <2>3, <2>4 DEF AgeInv
<1>1. CASE receiveStoreConfigs(p)
  <2>1. pc[p] = "response" /\ Store(p, loc[p].cfg) /\ Goto(p, "date") /\ loc' = loc
    BY <1>1 DEF receiveStoreConfigs
  <2>2. loc[p].cfg.issued \in Nat /\ loc[p].started <= loc[p].cfg.issued
        /\ loc[p].cfg.issued <= now
    BY <1>q, <2>1, TimeAssumption DEF Carries, Carrying, Configs, Times
  <2>3. loc[p].started <= now
    BY <1>d, <1>q, <2>2
  <2>4. QED
    BY <1>s, <2>1, <2>3
<1>2. CASE dateCache(p)
  <2>1. /\ pc[p] = "date" /\ SetDate(p, loc[p].started) /\ Goto(p, "found")
        /\ \A q \in Procs : q # p => loc'[q] = loc[q]
    BY <1>2, <1>d DEF dateCache, Return, LocInv
  <2>2. 0 < loc[p].started /\ loc[p].started <= loc[p].cfg.issued
    BY <1>q, <2>1 DEF Carries
  <2>3. loc[p].started <= storedAt /\ (writer = p => cachedStoreConfigs = loc[p].cfg)
    BY <2>1 DEF AgeInv
  <2>4. QED
    BY <1>q, <1>t, <2>1, <2>2, <2>3
<1>3. CASE clearCache(p)
  BY <1>3, <1>s DEF clearCache
<1>4. CASE clearCacheDate(p)
  <2>1. /\ pc[p] = "undate" /\ SetDate(p, 0) /\ Goto(p, "prefs") /\ loc' = loc
    BY <1>4 DEF clearCacheDate
  <2>2. 0 \in Nat /\ 0 <= storedAt /\ (writer = p => cachedStoreConfigs = NULL)
    BY <1>d, <2>1 DEF AgeInv
  <2>3. QED
    BY <1>t, <2>1, <2>2
<1>5. QED
  BY <1>1, <1>2, <1>3, <1>4

LEMMA AgeNext == AgeInv /\ DataInv /\ [Next]_vars => AgeInv'
<1> SUFFICES ASSUME AgeInv, DataInv, [Next]_vars PROVE AgeInv'
  OBVIOUS
<1>d. LocInv /\ Selectors \cup Loads \cup Switches \cup Requests = Procs
  BY DEF DataInv, Procs
<1>1. ASSUME NEW p \in Procs, Step(p) PROVE AgeInv'
  BY <1>1, <1>d, AgeSteps, AgeWrites
<1>2. ASSUME NEW p \in Procs, NEW l \in {"configs", "prefs", "clearCaches", "call"}, NEW v,
             Start(p, l, v), UNCHANGED cache
      PROVE  AgeInv'
  BY <1>2, <1>d, AsideStarts, AgeAside
<1>3. ASSUME NEW p \in Selectors, loadStores(p) PROVE AgeInv'
  BY <1>2, <1>3, <1>d DEF loadStores
<1>4. ASSUME NEW p \in Loads, loadStoreConfig(p) PROVE AgeInv'
  BY <1>2, <1>4, <1>d DEF loadStoreConfig
<1>5. ASSUME NEW p \in Switches, NEW e \in Envs, changeEnvironment(p, e) PROVE AgeInv'
  BY <1>2, <1>5, <1>d DEF changeEnvironment
<1>6. ASSUME NEW p \in Loads \cup Switches, cancelScope(p) PROVE AgeInv'
  <2>1. p \in Procs /\ End(p, FALSE) /\ UNCHANGED cache
    BY <1>6, <1>d DEF cancelScope
  <2>2. QED
    BY <1>d, <2>1, AsideEnds, AgeAside
<1>7. ASSUME NEW p \in Requests, getApiService(p) PROVE AgeInv'
  BY <1>2, <1>7, <1>d DEF getApiService
<1>8. CASE tick \/ (\E e \in Envs : rotateToken(e)) \/ UNCHANGED vars
  <2>1. UNCHANGED <<cache, pc, loc>>
    BY <1>8 DEF tick, rotateToken, vars
  <2>2. QED
    BY <2>1, AgeAside DEF Aside
<1>9. CASE restart
  <2>1. /\ cachedStoreConfigs' = NULL /\ lastConfigFetchTime' = 0 /\ storedAt' = 0
        /\ \A p \in Procs : pc'[p] = "idle"
    BY <1>9 DEF restart
  <2>2. QED
    BY <2>1 DEF AgeInv, CacheAgeSound
<1>10. QED
  BY <1>1, <1>3, <1>4, <1>5, <1>6, <1>7, <1>8, <1>9 DEF Next

\* The age getStoreConfigs computes for its cache, in whatever order several
\* threads write the configuration and its date: it is at least the time
\* since the configuration reached the app, and at least the time since it
\* left the server unless two coroutines' writes have mixed.
THEOREM CacheAge == Spec => []CacheAgeSound
<1>1. Init => AgeInv
  BY DEF Init, AgeInv, CacheAgeSound
<1>2. AgeInv => CacheAgeSound
  BY DEF AgeInv
<1>3. QED
  BY <1>1, <1>2, AgeNext, DataInit, DataNext, PTL DEF Spec

\* Every variable of the credential model keeps its type.
THEOREM AthenaTypes == Spec => []TypeOK
<1>1. CtlInv /\ DataInv => TypeOK
  BY DEF CtlInv, PcType, DataInv, LocInv, PrefType, CacheInv, WorldType, ManagerType,
         PhaseType, TypeOK
<1>2. QED
  BY <1>1, CtlInit, CtlNext, DataInit, DataNext, PTL DEF Spec
-----------------------------------------------------------------------------
(* The stored configuration, the cache and the token belong together.      *)

\* Configuration c, if there is one, is the selected environment's.
Ours(c) == c # NULL => c.env = environment

\* A coroutine that does not run carries no configuration.
IdleInv == \A p \in Procs : pc[p] = "idle" => loc[p].cfg = NULL

\* While the settings stand, and until the first screen is reached, whatever
\* was fetched came from the selected environment.
FetchInv ==
    standing = "settled" \/ ~launched =>
        /\ Ours(cachedStoreConfigs)
        /\ \A p \in Procs : Ours(loc[p].cfg)

\* Once settled, the stored values and the requests built from them are the
\* selected environment's.
SettledInv ==
    standing = "settled" =>
        /\ launched
        /\ athenaConfig = environment
        /\ tokenIn[environment] # "empty" => accessToken.env = environment
        /\ \A p \in Requests : pc[p] = "call" /\ loc[p].base # NULL => loc[p].base = environment

\* A request that left pairs URL and token of one environment.
SentInv ==
    \A p \in Requests :
        pc[p] = "sent" /\ loc[p].base # NULL /\ tokenIn[loc[p].base] # "empty"
            => loc[p].tok.env = loc[p].base

\* A load or switch that nothing overlapped: all others are idle; it has
\* stored the configuration whose token it is about to store; a switch has
\* emptied the cache and refills it from its own environment.
AloneInv ==
    alone # NULL =>
        /\ alone \in Loads \cup Switches
        /\ pc[alone] # "idle"
        /\ \A q \in Procs : q # alone => pc[q] = "idle"
        /\ pc[alone] = "saveToken" => athenaConfig = loc[alone].cfg.env
        /\ alone \in Switches =>
              /\ Ours(loc[alone].cfg)
              /\ pc[alone] # "clearCaches" => Ours(cachedStoreConfigs)
              /\ pc[alone] \in {"undate", "prefs", "reuse"} => cachedStoreConfigs = NULL

\* What is stored is the selected environment's, as far as it is stored.
Virgin ==
    /\ athenaConfig \in {NULL, environment}
    /\ accessToken # NULL => accessToken.env = environment

\* Before the first screen: nothing is stored without a store, only selections
\* or one lone launch run, and a cache filled by a selection means that
\* nothing older is stored.  Only switches empty the cache.
LaunchInv ==
    /\ ~selected => /\ ~launched /\ athenaConfig = NULL /\ accessToken = NULL
                    /\ \A q \in Procs \ Selectors : pc[q] = "idle"
    /\ ~launched => /\ \A q \in Switches \cup Requests : pc[q] = "idle"
                    /\ \A q \in Loads : pc[q] # "idle" => alone = q
    /\ launched => \A q \in Selectors : pc[q] = "idle"
    /\ /\ ~launched
       /\ cachedStoreConfigs # NULL \/ \E q \in Selectors : pc[q] # "idle"
       /\ \A q \in Loads : pc[q] \in {"idle", "prefs", "reuse"}
       => Virgin
    /\ \A q \in Procs : pc[q] = "reuse" => athenaConfig # NULL /\ accessToken # NULL
    /\ \A q \in Loads : pc[q] \notin {"clearCaches", "undate"}

KeepInv == IdleInv /\ FetchInv /\ SettledInv /\ SentInv /\ AloneInv /\ LaunchInv

\* Coroutine p, which runs, goes on at label l; the environment and what is
\* recorded of the past stay.
Goes(p, l) ==
    /\ pc[p] # "idle" /\ l # "idle"
    /\ \A q \in Procs : pc'[q] = IF q = p THEN l ELSE pc[q]
    /\ \A q \in Procs : q # p => loc'[q] = loc[q]
    /\ UNCHANGED <<environment, tokenIn, launched, alone, standing>>

LEMMA KeepInit == Init => KeepInv
<1> SUFFICES ASSUME Init PROVE KeepInv
  OBVIOUS
<1>1. /\ \A p \in Procs : pc[p] = "idle" /\ loc[p] = NoLocals
      /\ standing = "open" /\ launched = FALSE /\ alone = NULL /\ selected = FALSE
      /\ cachedStoreConfigs = NULL /\ athenaConfig = NULL /\ accessToken = NULL
  BY DEF Init
<1>2. \A p \in Procs : loc[p].cfg = NULL
  BY <1>1 DEF NoLocals
<1>3. IdleInv /\ FetchInv /\ SettledInv /\ SentInv /\ AloneInv
  BY <1>1, <1>2 DEF IdleInv, FetchInv, SettledInv, SentInv, AloneInv, Ours, Procs
<1>4. LaunchInv
  BY <1>1 DEF LaunchInv, Procs
<1>5. QED
  BY <1>3, <1>4 DEF KeepInv

\* A coroutine that only moves on, or takes a configuration from the cache or
\* from the selected environment's server.
LEMMA KeepMove ==
  ASSUME KeepInv, NEW p \in Procs, NEW l, Goes(p, l), pc[p] # "clearCaches",
         l \notin {"saveToken", "undate", "prefs", "reuse", "call", "sent", "clearCaches"},
         UNCHANGED <<selected, athenaConfig, accessToken, cachedStoreConfigs>>,
         \/ loc'[p].cfg = loc[p].cfg
         \/ loc'[p].cfg = cachedStoreConfigs
         \/ loc'[p].cfg.env = environment
  PROVE  KeepInv'
<1> USE DEF Goes
<1>0. IdleInv /\ FetchInv /\ SettledInv /\ SentInv /\ AloneInv /\ LaunchInv
  BY DEF KeepInv
<1>1. IdleInv'
  BY <1>0 DEF IdleInv
<1>2. FetchInv'
  BY <1>0 DEF FetchInv, Ours
<1>3. SettledInv'
  BY <1>0 DEF SettledInv, Procs
<1>4. SentInv'
  BY <1>0 DEF SentInv, Procs
<1>5. AloneInv'
  BY <1>0 DEF AloneInv, Ours, Procs
<1>6. LaunchInv'
  BY <1>0 DEF LaunchInv, Virgin, Procs
<1>7. QED
  BY <1>1, <1>2, <1>3, <1>4, <1>5, <1>6 DEF KeepInv

\* Coroutine p ends.  It may have stored the token of its configuration on
\* the way; a success that settles leaves everything to the selected
\* environment.
LEMMA KeepEnd ==
  ASSUME KeepInv, LocInv, NEW p \in Procs, NEW ok \in BOOLEAN, End(p, ok), pc[p] # "idle",
         UNCHANGED <<selected, environment, athenaConfig, cachedStoreConfigs, tokenIn>>,
         \/ accessToken' = accessToken
         \/ /\ accessToken' # NULL /\ accessToken'.env = loc[p].cfg.env
            /\ loc[p].cfg # NULL /\ selected,
         ok /\ alone = p /\ (p \in Switches \/ ~launched) =>
            /\ athenaConfig = environment
            /\ tokenIn[environment] # "empty" => accessToken'.env = environment
            /\ Ours(cachedStoreConfigs)
  PROVE  KeepInv'
<1>0. IdleInv /\ FetchInv /\ SettledInv /\ SentInv /\ AloneInv /\ LaunchInv
  BY DEF KeepInv
<1>1. /\ \A q \in Procs : pc'[q] = IF q = p THEN "idle" ELSE pc[q]
      /\ \A q \in Procs : loc'[q] = IF q = p THEN NoLocals ELSE loc[q]
      /\ alone' = NULL
  BY DEF End, Goto, LocInv
<1>2. launched' = (launched \/ p \in Loads)
  BY DEF End
<1>3. NoLocals.cfg = NULL
  BY DEF NoLocals
<1> DEFINE new == ok /\ alone = p /\ (p \in Switches \/ ~launched)
<1>4. standing' = "settled" => new \/ standing = "settled"
  BY DEF End
<1>5. new => /\ athenaConfig = environment
             /\ tokenIn[environment] # "empty" => accessToken'.env = environment
             /\ Ours(cachedStoreConfigs)
  OBVIOUS
<1>6. new => alone = p /\ p # NULL
  BY ProcAssumption
<1>7. new => launched'
  BY <1>0, <1>2, <1>6 DEF AloneInv, LaunchInv
<1> HIDE DEF new
<1>8. IdleInv'
  BY <1>0, <1>1, <1>3 DEF IdleInv
<1>9. new => \A q \in Procs : loc'[q].cfg = NULL
  BY <1>0, <1>1, <1>3, <1>6 DEF AloneInv, IdleInv
<1>10. FetchInv'
  BY <1>0, <1>1, <1>2, <1>3, <1>4, <1>5, <1>9 DEF FetchInv, Ours
<1>11. SettledInv'
  <2>1. new => \A q \in Requests : pc'[q] = "idle"
    BY <1>0, <1>1, <1>6 DEF AloneInv, Procs
  <2>2. standing = "settled" => (tokenIn[environment] # "empty" => accessToken'.env = environment)
    BY <1>0 DEF SettledInv, FetchInv, Ours
  <2>3. \A q \in Requests : q \in Procs
    BY DEF Procs
  <2>4. ASSUME new, standing' = "settled" PROVE SettledInv'
    BY <1>5, <1>7, <2>1, <2>4 DEF SettledInv
  <2>5. ASSUME standing = "settled" PROVE SettledInv'
    <3>1. launched' /\ athenaConfig' = environment'
      BY <1>0, <1>2, <2>5 DEF SettledInv
    <3>2. \A q \in Requests : pc'[q] = "call" /\ loc'[q].base # NULL => loc'[q].base = environment'
      BY <1>0, <1>1, <2>3, <2>5 DEF SettledInv
    <3>3. QED
      BY <2>2, <2>5, <3>1, <3>2 DEF SettledInv
  <2>6. QED
    BY <1>4, <2>4, <2>5 DEF SettledInv
<1>12. SentInv'
  BY <1>0, <1>1 DEF SentInv, Procs
<1>13. AloneInv'
  BY <1>1 DEF AloneInv
<1>14. LaunchInv'
  <2>1. ~selected' => /\ ~launched' /\ athenaConfig' = NULL /\ accessToken' = NULL
                      /\ \A q \in Procs \ Selectors : pc'[q] = "idle"
    BY <1>0, <1>1, <1>2, ProcAssumption DEF LaunchInv, Procs
  <2>2. ~launched' => /\ \A q \in Switches \cup Requests : pc'[q] = "idle"
                      /\ \A q \in Loads : pc'[q] # "idle" => alone' = q
    <3>1. ~launched' => ~launched /\ p \in Selectors
      BY <1>0, <1>2 DEF LaunchInv, Procs
    <3>2. ~launched' => \A q \in Loads : pc[q] = "idle"
      BY <1>0, <3>1, ProcAssumption DEF LaunchInv, AloneInv, Procs
    <3>3. QED
      BY <1>0, <1>1, <3>1, <3>2 DEF LaunchInv, Procs
  <2>3. launched' => \A q \in Selectors : pc'[q] = "idle"
    BY <1>0, <1>1, <1>2, ProcAssumption DEF LaunchInv, AloneInv, Procs
  <2>4. /\ ~launched'
        /\ cachedStoreConfigs' # NULL \/ \E q \in Selectors : pc'[q] # "idle"
        /\ \A q \in Loads : pc'[q] \in {"idle", "prefs", "reuse"}
        => Virgin'
    <3>1. ~launched' => ~launched /\ p \in Selectors
      BY <1>0, <1>2 DEF LaunchInv, Procs
    <3>2. ~launched' => \A q \in Loads : pc[q] = "idle"
      BY <1>0, <3>1, ProcAssumption DEF LaunchInv, AloneInv, Procs
    <3>3. ~launched' => Virgin
      BY <1>0, <3>1, <3>2 DEF LaunchInv
    <3>4. ~launched' => Ours(loc[p].cfg)
      BY <1>0, <3>1 DEF FetchInv
    <3>5. QED
      BY <3>3, <3>4 DEF Virgin, Ours
  <2>5. \A q \in Procs : pc'[q] = "reuse" => athenaConfig' # NULL /\ accessToken' # NULL
    BY <1>0, <1>1 DEF LaunchInv
  <2>6. \A q \in Loads : pc'[q] \notin {"clearCaches", "undate"}
    BY <1>0, <1>1 DEF LaunchInv, Procs
  <2>7. QED
    BY <2>1, <2>2, <2>3, <2>4, <2>5, <2>6 DEF LaunchInv
<1>15. QED
  BY <1>8, <1>10, <1>11, <1>12, <1>13, <1>14 DEF KeepInv

-----------------------------------------------------------------------------
(* One lemma per group of actions.                                         *)

\* A coroutine that goes to l with the locals it has.
LEMMA GoesOn ==
  ASSUME LocInv, NEW p \in Procs, NEW l, Goto(p, l), pc[p] # "idle", l # "idle",
         loc' = loc, UNCHANGED <<environment, tokenIn, launched, alone, standing>>
  PROVE  Goes(p, l) /\ loc'[p].cfg = loc[p].cfg
BY DEF LocInv, Goto, Goes

\* A coroutine that goes to l with other locals v.
LEMMA GoesWith ==
  ASSUME LocInv, NEW p \in Procs, NEW l, NEW v, Goto(p, l), pc[p] # "idle", l # "idle",
         loc' = [loc EXCEPT ![p] = v],
         UNCHANGED <<environment, tokenIn, launched, alone, standing>>
  PROVE  Goes(p, l) /\ loc'[p] = v
BY DEF LocInv, Goto, Goes

\* getStoreConfigs returns configuration c.
LEMMA KeepReturn ==
  ASSUME KeepInv, LocInv, NEW p \in Procs, NEW c, Return(p, c),
         pc[p] \notin {"idle", "clearCaches"}, c \in {cachedStoreConfigs, loc[p].cfg},
         UNCHANGED <<environment, tokenIn, launched, alone, standing>>,
         UNCHANGED <<selected, athenaConfig, accessToken, cachedStoreConfigs>>
  PROVE  KeepInv'
<1>d. loc[p] \in Locals
  BY DEF LocInv
<1> DEFINE v == [loc[p] EXCEPT !.cfg = c, !.started = 0]
<1>1. Goto(p, "found") /\ loc' = [loc EXCEPT ![p] = v]
  BY <1>d DEF Return, LocInv
<1>2. v.cfg = c
  BY <1>d DEF Locals
<1> HIDE DEF v
<1>3. Goes(p, "found") /\ loc'[p].cfg = c
  BY <1>1, <1>2, GoesWith
<1>4. QED
  BY <1>3, KeepMove

\* getStoreConfigs and the configuration request.
LEMMA KeepRepository ==
  ASSUME KeepInv, CtlInv, DataInv, NEW p \in Procs, Repository(p)
  PROVE  KeepInv'
<1>d. LocInv /\ PrefType /\ CacheInv /\ loc[p] \in Locals
  BY DEF DataInv, LocInv
<1>0. IdleInv /\ FetchInv /\ SettledInv /\ SentInv /\ AloneInv /\ LaunchInv
  BY DEF KeepInv
<1>1. CASE getStoreConfigs(p)
  <2>1. /\ pc[p] = "configs"
        /\ UNCHANGED <<environment, tokenIn, launched, alone, standing>>
        /\ UNCHANGED <<selected, athenaConfig, accessToken, cachedStoreConfigs>>
    BY <1>1 DEF getStoreConfigs, persisted, cache, world, phase
  <2>2. PICK l \in {"age", "send"} : Goto(p, l)
    BY <1>1 DEF getStoreConfigs
  <2> DEFINE v == [loc[p] EXCEPT !.started = now]
  <2>3. loc' = [loc EXCEPT ![p] = v]
    BY <1>1, <1>d DEF getStoreConfigs, LocInv
  <2>4. v.cfg = loc[p].cfg
    BY <1>d DEF Locals
  <2> HIDE DEF v
  <2>5. Goes(p, l) /\ loc'[p].cfg = loc[p].cfg
    BY <1>d, <2>1, <2>2, <2>3, <2>4, GoesWith
  <2>6. QED
    BY <2>1, <2>5, KeepMove
<1>a. CASE cacheIsFresh(p)
  <2>1. /\ pc[p] = "age" /\ loc' = loc
        /\ UNCHANGED <<environment, tokenIn, launched, alone, standing>>
        /\ UNCHANGED <<selected, athenaConfig, accessToken, cachedStoreConfigs>>
    BY <1>a DEF cacheIsFresh, persisted, cache, world, phase
  <2>2. PICK l \in {"hit", "send"} : Goto(p, l)
    BY <1>a DEF cacheIsFresh
  <2>3. Goes(p, l) /\ loc'[p].cfg = loc[p].cfg
    BY <1>d, <2>1, <2>2, GoesOn
  <2>4. QED
    BY <2>1, <2>3, KeepMove
<1>h. CASE useCache(p)
  <2>1. /\ pc[p] = "hit"
        /\ UNCHANGED <<environment, tokenIn>>
        /\ UNCHANGED <<selected, athenaConfig, accessToken, cachedStoreConfigs>>
    BY <1>h DEF useCache, persisted, cache, world
  <2>2. CASE End(p, FALSE)
    BY <1>d, <2>1, <2>2, KeepEnd
  <2>3. CASE Return(p, cachedStoreConfigs) /\ UNCHANGED phase
    BY <1>d, <2>1, <2>3, KeepReturn DEF phase
  <2>4. QED
    BY <1>h, <2>2, <2>3 DEF useCache
<1>2. CASE sendStoreConfigs(p)
  <2>1. /\ pc[p] = "send"
        /\ UNCHANGED <<environment, tokenIn, launched, alone, standing>>
        /\ UNCHANGED <<selected, athenaConfig, accessToken, cachedStoreConfigs>>
    BY <1>2 DEF sendStoreConfigs, persisted, cache, world, phase
  <2> DEFINE c == [env |-> getBaseUrl, exp |-> serverExp[getBaseUrl], issued |-> now]
             v == [loc[p] EXCEPT !.cfg = c]
  <2>2. Goto(p, "response") /\ loc' = [loc EXCEPT ![p] = v]
    BY <1>2, <1>d DEF sendStoreConfigs, LocInv
  <2>3. c.env = environment
    BY DEF getBaseUrl
  <2> HIDE DEF c
  <2>4. v.cfg.env = environment
    BY <1>d, <2>3 DEF Locals
  <2> HIDE DEF v
  <2>5. Goes(p, "response") /\ loc'[p].cfg.env = environment
    BY <1>d, <2>1, <2>2, <2>4, GoesWith
  <2>6. QED
    BY <2>1, <2>5, KeepMove
<1>3. CASE receiveStoreConfigs(p)
  <2>1. /\ pc[p] = "response" /\ loc' = loc /\ Goto(p, "date")
        /\ UNCHANGED <<environment, tokenIn, launched, alone, standing>>
        /\ UNCHANGED <<selected, athenaConfig, accessToken>>
        /\ cachedStoreConfigs' = loc[p].cfg
    BY <1>3 DEF receiveStoreConfigs, Store, persisted, world, phase
  <2>4. Goes(p, "date") /\ loc'[p].cfg = loc[p].cfg
    BY <1>d, <2>1, GoesOn
  <2>5. IdleInv' /\ SettledInv' /\ SentInv'
    BY <1>0, <2>1, <2>4 DEF IdleInv, SettledInv, SentInv, Goes, Procs
  <2>6. FetchInv'
    BY <1>0, <2>1, <2>4 DEF FetchInv, Ours, Goes
  <2>7. AloneInv'
    BY <1>0, <2>1, <2>4 DEF AloneInv, Ours, Goes, Procs
  <2>8. LaunchInv'
    BY <1>0, <2>1, <2>4 DEF LaunchInv, Virgin, Goes, Procs
  <2>9. QED
    BY <2>5, <2>6, <2>7, <2>8 DEF KeepInv
<1>r. CASE dateCache(p)
  <2>1. /\ pc[p] = "date" /\ Return(p, loc[p].cfg)
        /\ UNCHANGED <<environment, tokenIn, launched, alone, standing>>
        /\ UNCHANGED <<selected, athenaConfig, accessToken, cachedStoreConfigs>>
    BY <1>r DEF dateCache, SetDate, persisted, world, phase
  <2>2. QED
    BY <1>d, <2>1, KeepReturn
<1>4. CASE storeConfigsFail(p)
  <2>1. /\ End(p, FALSE) /\ pc[p] # "idle"
        /\ UNCHANGED <<selected, environment, athenaConfig, cachedStoreConfigs, tokenIn>>
        /\ accessToken' = accessToken
    BY <1>4 DEF storeConfigsFail, persisted, cache, world
  <2>2. QED
    BY <1>d, <2>1, KeepEnd
<1>5. QED
  BY <1>1, <1>2, <1>3, <1>4, <1>a, <1>h, <1>r DEF Repository

\* A coroutine that holds the mutex, or waits for a token, settles nothing.
LEMMA NotAlone ==
  ASSUME KeepInv, NEW p \in Procs, p \notin Loads \cup Switches
  PROVE  alone # p
<1>1. AloneInv /\ p # NULL
  BY ProcAssumption DEF KeepInv
<1>2. QED
  BY <1>1 DEF AloneInv

\* A coroutine that stores the token of its configuration runs with a store
\* selected.
LEMMA StoreSelected ==
  ASSUME KeepInv, CtlInv, NEW p \in Procs, pc[p] \in {"saveConfig", "saveToken"}
  PROVE  selected
<1>1. LaunchInv /\ Fits(p, pc[p], mutex, selected)
  BY DEF KeepInv, CtlInv
<1>2. CASE p \in Selectors
  BY <1>1, <1>2 DEF Fits
<1>3. CASE p \notin Selectors
  BY <1>1, <1>3 DEF LaunchInv
<1>4. QED
  BY <1>2, <1>3

\* Coroutine p goes on after it has stored its configuration's URL, or its
\* token.
LEMMA KeepSaves ==
  ASSUME KeepInv, CtlInv, DataInv, NEW p \in Procs, NEW l, Goes(p, l), loc' = loc,
         UNCHANGED <<selected, cachedStoreConfigs>>,
         \/ /\ pc[p] = "saveConfig" /\ l \in {"lock", "saveToken"}
            /\ athenaConfig' = loc[p].cfg.env /\ accessToken' = accessToken
         \/ /\ pc[p] = "saveToken" /\ l = "retry" /\ athenaConfig' = athenaConfig
            /\ accessToken' # NULL /\ accessToken'.env = loc[p].cfg.env
            /\ p \notin Loads \cup Switches
  PROVE  KeepInv'
<1>0. IdleInv /\ FetchInv /\ SettledInv /\ SentInv /\ AloneInv /\ LaunchInv
  BY DEF KeepInv
<1>1. selected
  BY StoreSelected
<1>2. loc[p].cfg \in Configs /\ loc[p].cfg # NULL
  BY NullAssumption DEF DataInv, LocInv, Carries, Carrying
<1>3. athenaConfig' # NULL \/ athenaConfig' = athenaConfig
  BY <1>2, ProcAssumption DEF Configs
<1>4. IdleInv' /\ FetchInv' /\ SentInv'
  BY <1>0 DEF IdleInv, FetchInv, SentInv, Ours, Goes, Procs
<1>5. SettledInv'
  BY <1>0, <1>2 DEF SettledInv, FetchInv, Ours, Goes, Procs
<1>6. AloneInv'
  BY <1>0, <1>2, ProcAssumption DEF AloneInv, Ours, Goes, Procs
<1>7. LaunchInv'
  <2>1. ~launched => loc[p].cfg.env = environment
    BY <1>0, <1>2 DEF FetchInv, Ours
  <2>2. QED
    BY <1>0, <1>1, <1>2, <1>3, <2>1 DEF LaunchInv, Virgin, Goes, Procs
<1>8. QED
  BY <1>4, <1>5, <1>6, <1>7 DEF KeepInv


\* The token manager and saveAthenaConfig.
LEMMA KeepTokenManager ==
  ASSUME KeepInv, CtlInv, DataInv, NEW p \in Procs, TokenManager(p)
  PROVE  KeepInv'
<1>d. LocInv /\ loc[p] \in Locals
  BY DEF DataInv, LocInv
<1>f. Fits(p, pc[p], mutex, selected)
  BY DEF CtlInv
<1>1. CASE lockTokenManager(p)
  <2>1. /\ pc[p] = "lock" /\ loc' = loc
        /\ Goto(p, "valid") \/ Goto(p, "configs")
        /\ UNCHANGED <<environment, tokenIn, launched, alone, standing>>
        /\ UNCHANGED <<selected, athenaConfig, accessToken, cachedStoreConfigs>>
    BY <1>1 DEF lockTokenManager, persisted, cache, world, phase
  <2>2. PICK l \in {"valid", "configs"} : Goto(p, l)
    BY <2>1
  <2>3. Goes(p, l) /\ loc'[p].cfg = loc[p].cfg
    BY <1>d, <2>1, <2>2, GoesOn
  <2>4. QED
    BY <2>1, <2>3, KeepMove
<1>2. CASE getValidToken(p)
  <2>1. /\ pc[p] = "valid"
        /\ UNCHANGED <<environment, tokenIn>>
        /\ UNCHANGED <<selected, athenaConfig, accessToken, cachedStoreConfigs>>
    BY <1>2 DEF getValidToken, persisted, cache, world
  <2>2. CASE End(p, TRUE)
    <3>1. alone # p
      BY <1>f, <2>1, NotAlone DEF Fits, LoadLabels, Refreshing
    <3>2. QED
      BY <1>d, <2>1, <2>2, <3>1, KeepEnd
  <2>3. CASE Goto(p, "configs") /\ UNCHANGED <<mutex, phase, loc>>
    <3>1. Goes(p, "configs") /\ loc'[p].cfg = loc[p].cfg
      BY <1>d, <2>1, <2>3, GoesOn DEF phase
    <3>2. QED
      BY <2>1, <3>1, KeepMove
  <2>4. QED
    BY <1>2, <2>2, <2>3 DEF getValidToken
<1>3. CASE findSelectedStore(p)
  <2>1. /\ pc[p] = "found"
        /\ UNCHANGED <<environment, tokenIn>>
        /\ UNCHANGED <<selected, athenaConfig, accessToken, cachedStoreConfigs>>
    BY <1>3 DEF findSelectedStore, persisted, cache, world
  <2>2. CASE End(p, FALSE)
    BY <1>d, <2>1, <2>2, KeepEnd
  <2>3. CASE Goto(p, "saveConfig") /\ UNCHANGED <<mutex, phase, loc>>
    <3>1. Goes(p, "saveConfig") /\ loc'[p].cfg = loc[p].cfg
      BY <1>d, <2>1, <2>3, GoesOn DEF phase
    <3>2. QED
      BY <2>1, <3>1, KeepMove
  <2>4. QED
    BY <1>3, <2>2, <2>3 DEF findSelectedStore
<1>4. CASE saveConfig(p)
  <2>1. /\ pc[p] = "saveConfig" /\ loc' = loc
        /\ UNCHANGED <<environment, tokenIn, launched, alone, standing>>
        /\ UNCHANGED <<selected, accessToken, cachedStoreConfigs>>
        /\ athenaConfig' = loc[p].cfg.env
    BY <1>4 DEF saveConfig, saveAthenaConfig, cache, world, phase
  <2>2. PICK l \in {"lock", "saveToken"} : Goto(p, l)
    BY <1>4 DEF saveConfig
  <2>3. Goes(p, l)
    BY <1>d, <2>1, <2>2, GoesOn
  <2>4. QED
    BY <2>1, <2>3, KeepSaves
<1>5. CASE refreshTokenFromStoreConfig(p)
  <2>1. /\ pc[p] = "saveToken" /\ mutex = p
        /\ UNCHANGED <<selected, environment, athenaConfig, cachedStoreConfigs, tokenIn>>
        /\ accessToken' = TokenOf(loc[p].cfg)
    BY <1>5 DEF refreshTokenFromStoreConfig, saveToken, cache, world
  <2>2. p \notin Loads \cup Switches
    BY <1>f, <2>1 DEF Fits
  <2>3. loc[p].cfg \in Configs
    BY <1>d, <2>1 DEF LocInv, Carries, Carrying
  <2>4. accessToken' # NULL /\ accessToken'.env = loc[p].cfg.env /\ loc[p].cfg # NULL
    BY <2>1, <2>3, TokenOfType, NullAssumption DEF TokenOf
  <2>5. selected
    BY <2>1, StoreSelected
  <2>6. CASE p \in Requests
    <3>1. Goto(p, "retry") /\ UNCHANGED <<phase, loc>>
      BY <1>5, <2>6 DEF refreshTokenFromStoreConfig
    <3>2. Goes(p, "retry")
      BY <1>d, <2>1, <3>1, GoesOn DEF phase
    <3>3. QED
      BY <2>1, <2>2, <2>4, <3>1, <3>2, KeepSaves
  <2>7. CASE p \notin Requests
    <3>1. End(p, TRUE) /\ alone # p
      BY <1>5, <2>2, <2>7, NotAlone DEF refreshTokenFromStoreConfig
    <3>2. QED
      BY <1>d, <2>1, <2>4, <2>5, <3>1, KeepEnd
  <2>8. QED
    BY <2>6, <2>7
<1>6. QED
  BY <1>1, <1>2, <1>3, <1>4, <1>5 DEF TokenManager

\* refreshStoreConfigAndInitAthena: here a launch or a lone switch succeeds.
LEMMA KeepRefresh ==
  ASSUME KeepInv, CtlInv, DataInv, NEW p \in Procs, Refresh(p)
  PROVE  KeepInv'
<1>d. LocInv /\ PrefType /\ loc[p] \in Locals
  BY DEF DataInv, LocInv
<1>f. Fits(p, pc[p], mutex, selected)
  BY DEF CtlInv
<1>0. IdleInv /\ FetchInv /\ SettledInv /\ SentInv /\ AloneInv /\ LaunchInv /\ p # NULL
  BY ProcAssumption DEF KeepInv
<1>1. CASE refreshReadsPrefs(p)
  <2>1. /\ pc[p] = "prefs" /\ loc' = loc
        /\ UNCHANGED <<environment, tokenIn, launched, alone, standing>>
        /\ UNCHANGED <<selected, athenaConfig, accessToken, cachedStoreConfigs>>
    BY <1>1 DEF refreshReadsPrefs, persisted, cache, world, phase
  <2>2. \/ Goto(p, "configs")
        \/ Goto(p, "reuse") /\ athenaConfig # NULL /\ accessToken # NULL
    BY <1>1 DEF refreshReadsPrefs
  <2>3. CASE Goto(p, "configs")
    <3>1. Goes(p, "configs") /\ loc'[p].cfg = loc[p].cfg
      BY <1>d, <2>1, <2>3, GoesOn
    <3>2. QED
      BY <2>1, <3>1, KeepMove
  <2>4. CASE Goto(p, "reuse") /\ athenaConfig # NULL /\ accessToken # NULL
    <3>1. Goes(p, "reuse") /\ loc' = loc
      BY <1>d, <2>1, <2>4, GoesOn
    <3>2. IdleInv' /\ FetchInv' /\ SettledInv' /\ SentInv'
      BY <1>0, <2>1, <3>1 DEF IdleInv, FetchInv, SettledInv, SentInv, Ours, Goes, Procs
    <3>3. AloneInv'
      BY <1>0, <2>1, <3>1 DEF AloneInv, Ours, Goes, Procs
    <3>4. LaunchInv'
      BY <1>0, <2>1, <2>4, <3>1 DEF LaunchInv, Virgin, Goes, Procs
    <3>5. QED
      BY <3>2, <3>3, <3>4 DEF KeepInv
  <2>5. QED
    BY <2>2, <2>3, <2>4
<1>2. CASE refreshReusesCache(p)
  <2>1. /\ pc[p] = "reuse"
        /\ UNCHANGED <<environment, tokenIn>>
        /\ UNCHANGED <<selected, athenaConfig, accessToken, cachedStoreConfigs>>
    BY <1>2 DEF refreshReusesCache, persisted, cache, world
  <2>2. CASE End(p, TRUE) /\ cachedStoreConfigs # NULL
    <3>1. ASSUME alone = p, p \in Switches \/ ~launched
          PROVE  /\ athenaConfig = environment
                 /\ tokenIn[environment] # "empty" => accessToken'.env = environment
                 /\ Ours(cachedStoreConfigs)
      <4>1. p \notin Switches
        BY <1>0, <2>1, <2>2, <3>1 DEF AloneInv
      <4>2. ~launched /\ \A q \in Loads : pc[q] \in {"idle", "prefs", "reuse"}
        BY <1>0, <2>1, <3>1, <4>1 DEF AloneInv, Procs
      <4>3. Virgin /\ athenaConfig # NULL /\ accessToken # NULL
        BY <1>0, <2>1, <2>2, <4>2 DEF LaunchInv
      <4>4. QED
        BY <1>0, <2>1, <4>2, <4>3 DEF Virgin, FetchInv
    <3>2. QED
      BY <1>d, <2>1, <2>2, <3>1, KeepEnd
  <2>3. CASE Goto(p, "configs") /\ UNCHANGED <<mutex, phase, loc>>
    <3>1. Goes(p, "configs") /\ loc'[p].cfg = loc[p].cfg
      BY <1>d, <2>1, <2>3, GoesOn DEF phase
    <3>2. QED
      BY <2>1, <3>1, KeepMove
  <2>4. QED
    BY <1>2, <2>2, <2>3 DEF refreshReusesCache
<1>3. CASE refreshSavesToken(p)
  <2>1. /\ pc[p] = "saveToken" /\ mutex # p /\ End(p, TRUE)
        /\ UNCHANGED <<selected, environment, athenaConfig, cachedStoreConfigs, tokenIn>>
    BY <1>3 DEF refreshSavesToken, cache, world
  <2>2. p \in Loads \cup Switches /\ selected
    <3>1. p \in Loads \cup Switches
      BY <1>f, <2>1 DEF Fits, Procs, Refreshing
    <3>2. selected
      BY <1>0, <1>f, <2>1, <3>1, StoreSelected DEF Fits, Procs
    <3>3. QED
      BY <3>1, <3>2
  <2>3. loc[p].cfg \in Configs /\ loc[p].cfg # NULL
    BY <1>d, <2>1, NullAssumption DEF LocInv, Carries, Carrying
  <2>4. \/ tokenIn[loc[p].cfg.env] = "empty" /\ accessToken' = accessToken
        \/ accessToken' = TokenOf(loc[p].cfg)
    BY <1>3 DEF refreshSavesToken, saveToken
  <2>5. TokenOf(loc[p].cfg).env = loc[p].cfg.env /\ TokenOf(loc[p].cfg) # NULL
    BY <2>3, TokenOfType, NullAssumption DEF TokenOf
  <2>6. ASSUME alone = p, p \in Switches \/ ~launched
        PROVE  /\ athenaConfig = environment
               /\ tokenIn[environment] # "empty" => accessToken'.env = environment
               /\ Ours(cachedStoreConfigs)
    <3>1. loc[p].cfg.env = environment /\ Ours(cachedStoreConfigs)
      BY <1>0, <2>1, <2>3, <2>6 DEF AloneInv, FetchInv, Ours
    <3>2. athenaConfig = loc[p].cfg.env
      BY <1>0, <2>1, <2>6 DEF AloneInv
    <3>3. QED
      BY <2>4, <2>5, <3>1, <3>2
  <2>7. \/ accessToken' = accessToken
        \/ accessToken' # NULL /\ accessToken'.env = loc[p].cfg.env
    BY <2>4, <2>5
  <2>8. QED
    BY <1>d, <2>1, <2>2, <2>3, <2>6, <2>7, KeepEnd
<1>4. QED
  BY <1>1, <1>2, <1>3 DEF Refresh

\* StoreSelectionViewModel.
LEMMA KeepSelection ==
  ASSUME KeepInv, CtlInv, DataInv, NEW p \in Procs, Selection(p)
  PROVE  KeepInv'
<1>d. LocInv
  BY DEF DataInv
<1>0. IdleInv /\ FetchInv /\ SettledInv /\ SentInv /\ AloneInv /\ LaunchInv
  BY DEF KeepInv
<1>1. CASE saveSelectedStore(p)
  <2>1. /\ p \in Selectors /\ pc[p] = "found" /\ loc' = loc /\ Goto(p, "clearService")
        /\ UNCHANGED <<environment, tokenIn, launched, alone, standing>>
        /\ UNCHANGED <<athenaConfig, accessToken, cachedStoreConfigs>>
        /\ selected' = TRUE
    BY <1>1 DEF saveSelectedStore, cache, world, phase
  <2>2. Goes(p, "clearService") /\ loc' = loc
    BY <1>d, <2>1, GoesOn
  <2>3. IdleInv' /\ FetchInv' /\ SettledInv' /\ SentInv'
    BY <1>0, <2>1, <2>2 DEF IdleInv, FetchInv, SettledInv, SentInv, Ours, Goes, Procs
  <2>4. AloneInv'
    BY <1>0, <2>1, <2>2 DEF AloneInv, Ours, Goes, Procs
  <2>5. LaunchInv'
    BY <1>0, <2>1, <2>2, ProcAssumption DEF LaunchInv, Virgin, Goes, Procs
  <2>6. QED
    BY <2>3, <2>4, <2>5 DEF KeepInv
<1>2. CASE noStoreOffered(p)
  <2>1. /\ End(p, FALSE) /\ pc[p] # "idle"
        /\ UNCHANGED <<selected, environment, athenaConfig, cachedStoreConfigs, tokenIn>>
        /\ accessToken' = accessToken
    BY <1>2 DEF noStoreOffered, persisted, cache, world
  <2>2. QED
    BY <1>d, <2>1, KeepEnd
<1>3. CASE clearService(p)
  <2>1. /\ pc[p] = "clearService" /\ loc' = loc /\ Goto(p, "saveConfig")
        /\ UNCHANGED <<environment, tokenIn, launched, alone, standing>>
        /\ UNCHANGED <<selected, athenaConfig, accessToken, cachedStoreConfigs>>
    BY <1>3 DEF clearService, persisted, cache, world, phase
  <2>2. Goes(p, "saveConfig") /\ loc'[p].cfg = loc[p].cfg
    BY <1>d, <2>1, GoesOn
  <2>3. QED
    BY <2>1, <2>2, KeepMove
<1>4. QED
  BY <1>1, <1>2, <1>3 DEF Selection

\* A switch empties the cache ...
LEMMA KeepClearCache ==
  ASSUME KeepInv, CtlInv, DataInv, NEW p \in Procs, clearCache(p)
  PROVE  KeepInv'
<1>d. LocInv
  BY DEF DataInv
<1>f. p \in Loads \cup Switches
  <2>1. Fits(p, pc[p], mutex, selected) /\ pc[p] = "clearCaches"
    BY DEF CtlInv, clearCache
  <2>2. QED
    BY <2>1 DEF Fits, RequestLabels, SelectorLabels, Refreshing, Procs
<1>0. IdleInv /\ FetchInv /\ SettledInv /\ SentInv /\ AloneInv /\ LaunchInv
  BY DEF KeepInv
<1>1. /\ pc[p] = "clearCaches" /\ loc' = loc /\ Goto(p, "undate")
      /\ UNCHANGED <<environment, tokenIn, launched, alone, standing>>
      /\ UNCHANGED <<selected, athenaConfig, accessToken>>
      /\ cachedStoreConfigs' = NULL
  BY DEF clearCache, Store, persisted, world, phase
<1>2. Goes(p, "undate") /\ loc' = loc
  BY <1>d, <1>1, GoesOn
<1>3. IdleInv' /\ FetchInv' /\ SettledInv' /\ SentInv'
  BY <1>0, <1>1, <1>2 DEF IdleInv, FetchInv, SettledInv, SentInv, Ours, Goes, Procs
<1>4. AloneInv'
  BY <1>0, <1>1, <1>2 DEF AloneInv, Ours, Goes, Procs
<1>5. LaunchInv'
  <2>1. ~launched => \A q \in Selectors : pc[q] = "idle" /\ pc'[q] = "idle"
    BY <1>0, <1>1, <1>2, <1>f, ProcAssumption DEF LaunchInv, AloneInv, Goes, Procs
  <2>2. QED
    BY <1>0, <1>1, <1>2, <1>f, <2>1 DEF LaunchInv, Goes, Procs
<1>6. QED
  BY <1>3, <1>4, <1>5 DEF KeepInv

\* ... and then clears its date.
LEMMA KeepClearCacheDate ==
  ASSUME KeepInv, CtlInv, DataInv, NEW p \in Procs, clearCacheDate(p)
  PROVE  KeepInv'
<1>d. LocInv
  BY DEF DataInv
<1>0. IdleInv /\ FetchInv /\ SettledInv /\ SentInv /\ AloneInv /\ LaunchInv
  BY DEF KeepInv
<1>1. /\ pc[p] = "undate" /\ loc' = loc /\ Goto(p, "prefs")
      /\ UNCHANGED <<environment, tokenIn, launched, alone, standing>>
      /\ UNCHANGED <<selected, athenaConfig, accessToken, cachedStoreConfigs>>
  BY DEF clearCacheDate, SetDate, persisted, world, phase
<1>2. Goes(p, "prefs") /\ loc' = loc
  BY <1>d, <1>1, GoesOn
<1>3. IdleInv' /\ FetchInv' /\ SettledInv' /\ SentInv'
  BY <1>0, <1>1, <1>2 DEF IdleInv, FetchInv, SettledInv, SentInv, Ours, Goes, Procs
<1>4. AloneInv'
  BY <1>0, <1>1, <1>2 DEF AloneInv, Ours, Goes, Procs
<1>5. LaunchInv'
  <2>1. p \in Loads \cup Switches
    <3>1. Fits(p, "undate", mutex, selected)
      BY <1>1 DEF CtlInv
    <3>2. QED
      BY <3>1 DEF Fits, RequestLabels, SelectorLabels, Refreshing, Procs
  <2>2. \A q \in Procs : pc'[q] = "reuse" => pc[q] = "reuse"
    BY <1>1, <1>2 DEF Goes
  <2>3. launched
    BY <1>0, <1>1, <2>1 DEF LaunchInv
  <2>4. QED
    BY <1>0, <1>1, <1>2, <2>1, <2>2, <2>3 DEF LaunchInv, Virgin, Goes, Procs
<1>6. QED
  BY <1>3, <1>4, <1>5 DEF KeepInv

\* The interceptor and the end of a request.
LEMMA KeepRequest ==
  ASSUME KeepInv, CtlInv, DataInv, NEW p \in Procs, Request(p)
  PROVE  KeepInv'
<1>d. LocInv /\ loc[p] \in Locals
  BY DEF DataInv, LocInv
<1>0. IdleInv /\ FetchInv /\ SettledInv /\ SentInv /\ AloneInv /\ LaunchInv
  BY DEF KeepInv
<1>f. p \in Requests /\ alone # p
  <2>1. Fits(p, pc[p], mutex, selected) /\ pc[p] \in {"call", "sent", "retry"}
    BY DEF CtlInv, Request, intercept, answered, unauthorized, retryRequest
  <2>2. p \in Requests
    BY <2>1 DEF Fits, LoadLabels, SelectorLabels, Refreshing, Procs
  <2>3. p \notin Loads \cup Switches
    BY <2>2, ProcAssumption
  <2>4. QED
    BY <2>2, <2>3, NotAlone
<1>e. ASSUME NEW ok \in BOOLEAN, End(p, ok), pc[p] # "idle", UNCHANGED <<persisted, cache, world>>
      PROVE  KeepInv'
  <2>1. /\ UNCHANGED <<selected, environment, athenaConfig, cachedStoreConfigs, tokenIn>>
        /\ accessToken' = accessToken
    BY <1>e DEF persisted, cache, world
  <2>2. QED
    BY <1>d, <1>e, <1>f, <2>1, KeepEnd
<1>1. CASE intercept(p)
  <2>1. /\ pc[p] = "call"
        /\ UNCHANGED <<persisted, cache, world>>
    BY <1>1 DEF intercept
  <2>2. CASE End(p, FALSE)
    BY <1>e, <2>1, <2>2
  <2>3. CASE ~End(p, FALSE)
    <3> DEFINE b == IF standing = "settled" THEN loc[p].base ELSE NULL
               u == [loc[p] EXCEPT !.tok = accessToken]
               v == [u EXCEPT !.base = b]
    <3>1. /\ Goto(p, "sent") /\ UNCHANGED <<mutex, phase>>
          /\ loc' = [loc EXCEPT ![p].tok = accessToken,
                                ![p].base = IF standing = "settled" THEN @ ELSE NULL]
      BY <1>1, <2>3 DEF intercept
    <3>2. /\ UNCHANGED <<environment, tokenIn, launched, alone, standing>>
          /\ UNCHANGED <<selected, athenaConfig, accessToken, cachedStoreConfigs>>
      BY <2>1, <3>1 DEF persisted, cache, world, phase
    <3>3. u.cfg = loc[p].cfg /\ u.tok = accessToken /\ u.base = loc[p].base
          /\ DOMAIN u = DOMAIN loc[p] /\ "base" \in DOMAIN u
      BY <1>d DEF Locals
    <3>4. loc' = [loc EXCEPT ![p] = v]
      BY <1>d, <3>1 DEF LocInv, Locals
    <3> HIDE DEF u
    <3>5. v.cfg = loc[p].cfg /\ v.tok = accessToken /\ v.base = b
      BY <1>d, <3>3 DEF Locals
    <3> HIDE DEF v
    <3>6. Goes(p, "sent") /\ loc'[p] = v
      BY <1>d, <2>1, <3>1, <3>2, <3>4, GoesWith
    <3>7. IdleInv' /\ FetchInv'
      BY <1>0, <3>2, <3>5, <3>6 DEF IdleInv, FetchInv, Ours, Goes
    <3>8. SettledInv'
      BY <1>0, <3>2, <3>6 DEF SettledInv, Goes, Procs
    <3>9. b # NULL /\ tokenIn[b] # "empty" => accessToken.env = b
      BY <1>0, <1>f, <2>1 DEF SettledInv
    <3>10. SentInv'
      BY <1>0, <1>f, <3>2, <3>5, <3>6, <3>9 DEF SentInv, Goes, Procs
    <3>11. AloneInv'
      BY <1>0, <1>f, <2>1, <3>2, <3>6 DEF AloneInv, Goes, Procs
    <3>12. LaunchInv'
      BY <1>0, <1>f, <2>1, <3>2, <3>6, ProcAssumption DEF LaunchInv, Virgin, Goes, Procs
    <3>13. QED
      BY <3>7, <3>8, <3>10, <3>11, <3>12 DEF KeepInv
  <2>4. QED
    BY <2>2, <2>3
<1>2. CASE answered(p)
  BY <1>2, <1>e DEF answered
<1>3. CASE unauthorized(p)
  <2> DEFINE v == [loc[p] EXCEPT !.base = NULL]
  <2>1. /\ pc[p] = "sent" /\ Goto(p, "lock") /\ loc' = [loc EXCEPT ![p] = v]
        /\ UNCHANGED <<environment, tokenIn, launched, alone, standing>>
        /\ UNCHANGED <<selected, athenaConfig, accessToken, cachedStoreConfigs>>
    BY <1>3, <1>d DEF unauthorized, persisted, cache, world, phase, LocInv
  <2>2. v.cfg = loc[p].cfg
    BY <1>d DEF Locals
  <2> HIDE DEF v
  <2>3. Goes(p, "lock") /\ loc'[p].cfg = loc[p].cfg
    BY <1>d, <2>1, <2>2, GoesWith
  <2>4. QED
    BY <2>1, <2>3, KeepMove
<1>4. CASE retryRequest(p)
  <2>1. /\ End(p, TokenOf(loc[p].cfg) # loc[p].tok) /\ pc[p] # "idle"
        /\ UNCHANGED <<persisted, cache, world>>
    BY <1>4 DEF retryRequest
  <2>2. (TokenOf(loc[p].cfg) # loc[p].tok) \in BOOLEAN
    OBVIOUS
  <2>3. QED
    BY <1>e, <2>1, <2>2
<1>5. QED
  BY <1>1, <1>2, <1>3, <1>4 DEF Request

-----------------------------------------------------------------------------
(* Coroutines start; the surroundings.                                     *)

\* What Start does.
LEMMA Starts ==
  ASSUME LocInv, NEW p \in Procs, NEW l, NEW v, Start(p, l, v)
  PROVE  /\ pc[p] = "idle"
         /\ \A q \in Procs : pc'[q] = IF q = p THEN l ELSE pc[q]
         /\ \A q \in Procs : loc'[q] = IF q = p THEN v ELSE loc[q]
         /\ alone' \in {p, NULL}
         /\ alone' = p => p \in Loads \cup Switches /\ \A q \in Procs : pc[q] = "idle"
         /\ p \in Loads /\ (\A q \in Procs : pc[q] = "idle") => alone' = p
         /\ launched' = launched
<1>1. p # NULL
  BY ProcAssumption
<1>2. QED
  BY <1>1 DEF Start, Goto, LocInv

\* A selection or a load begins.
LEMMA KeepStarts ==
  ASSUME KeepInv, DataInv, NEW p \in Procs,
         \/ p \in Selectors /\ loadStores(p)
         \/ p \in Loads /\ loadStoreConfig(p)
  PROVE  KeepInv'
<1>d. LocInv
  BY DEF DataInv
<1>0. IdleInv /\ FetchInv /\ SettledInv /\ SentInv /\ AloneInv /\ LaunchInv
  BY DEF KeepInv
<1>c. NoLocals.cfg = NULL
  BY DEF NoLocals
<1>1. PICK l \in {"configs", "prefs"} : Start(p, l, NoLocals)
  BY DEF loadStores, loadStoreConfig
<1>2. /\ UNCHANGED <<selected, environment, athenaConfig, accessToken>>
      /\ UNCHANGED <<cachedStoreConfigs, tokenIn, standing>>
  BY DEF loadStores, loadStoreConfig, persisted, cache, world
<1>3. /\ pc[p] = "idle"
      /\ \A q \in Procs : pc'[q] = IF q = p THEN l ELSE pc[q]
      /\ \A q \in Procs : loc'[q] = IF q = p THEN NoLocals ELSE loc[q]
      /\ alone' \in {p, NULL}
      /\ alone' = p => p \in Loads \cup Switches /\ \A q \in Procs : pc[q] = "idle"
      /\ p \in Loads /\ (\A q \in Procs : pc[q] = "idle") => alone' = p
      /\ launched' = launched
  BY <1>d, <1>1, Starts
<1>4. IdleInv' /\ FetchInv'
  BY <1>0, <1>2, <1>3, <1>c DEF IdleInv, FetchInv, Ours
<1>5. SettledInv' /\ SentInv'
  BY <1>0, <1>2, <1>3 DEF SettledInv, SentInv, Procs
<1>6. AloneInv'
  BY <1>2, <1>3, ProcAssumption DEF AloneInv
<1>7. LaunchInv'
  <2>1. CASE p \in Selectors /\ loadStores(p)
    <3>1. ~selected /\ ~launched /\ \A q \in Procs \ Selectors : pc[q] = "idle"
      BY <1>0, <2>1 DEF loadStores, LaunchInv
    <3>2. athenaConfig = NULL /\ accessToken = NULL
      BY <1>0, <3>1 DEF LaunchInv
    <3>3. \A q \in Procs \ Selectors : pc'[q] = "idle"
      BY <1>3, <2>1, <3>1
    <3>4. \A q \in Loads \cup Switches \cup Requests : q \in Procs \ Selectors
      BY ProcAssumption DEF Procs
    <3>5. \A q \in Procs : pc'[q] = "reuse" => pc[q] = "reuse"
      BY <1>3
    <3>6. QED
      BY <1>0, <1>2, <1>3, <3>1, <3>2, <3>3, <3>4, <3>5 DEF LaunchInv, Virgin
  <2>2. CASE p \in Loads /\ loadStoreConfig(p)
    <3>1. selected /\ (launched \/ \A q \in Procs : pc[q] = "idle")
      BY <2>2 DEF loadStoreConfig
    <3>2. l = "prefs"
      BY <1>1, <1>d, <2>2 DEF loadStoreConfig, Start, Goto, LocInv
    <3>3. \A q \in Selectors \cup Switches \cup Requests : q # p /\ q \in Procs
      BY <2>2, ProcAssumption DEF Procs
    <3>4. \A q \in Loads : q \in Procs
      BY DEF Procs
    <3>5. QED
      BY <1>0, <1>2, <1>3, <2>2, <3>1, <3>2, <3>3, <3>4 DEF LaunchInv, Virgin
  <2>3. QED
    BY <2>1, <2>2
<1>8. QED
  BY <1>4, <1>5, <1>6, <1>7 DEF KeepInv

\* changeEnvironment: what was settled is open again.
LEMMA KeepChangeEnvironment ==
  ASSUME KeepInv, DataInv, NEW p \in Switches, NEW e \in Envs, changeEnvironment(p, e)
  PROVE  KeepInv'
<1>d. LocInv /\ p \in Procs
  BY DEF DataInv, Procs
<1>0. IdleInv /\ FetchInv /\ SettledInv /\ SentInv /\ AloneInv /\ LaunchInv
  BY DEF KeepInv
<1>c. NoLocals.cfg = NULL
  BY DEF NoLocals
<1>1. /\ Start(p, "clearCaches", NoLocals) /\ launched /\ standing' # "settled"
      /\ UNCHANGED <<selected, athenaConfig, accessToken, cachedStoreConfigs, tokenIn>>
  BY DEF changeEnvironment, cache, world
<1>2. /\ pc[p] = "idle"
      /\ \A q \in Procs : pc'[q] = IF q = p THEN "clearCaches" ELSE pc[q]
      /\ \A q \in Procs : loc'[q] = IF q = p THEN NoLocals ELSE loc[q]
      /\ alone' \in {p, NULL}
      /\ alone' = p => \A q \in Procs : pc[q] = "idle"
      /\ launched' = launched
  BY <1>d, <1>1, Starts
<1>3. IdleInv' /\ FetchInv' /\ SettledInv'
  BY <1>0, <1>1, <1>2, <1>c DEF IdleInv, FetchInv, SettledInv
<1>4. SentInv'
  BY <1>0, <1>1, <1>2, ProcAssumption DEF SentInv, Procs
<1>5. AloneInv'
  BY <1>2, <1>c, <1>d DEF AloneInv, Ours
<1>6. LaunchInv'
  BY <1>0, <1>1, <1>2, ProcAssumption DEF LaunchInv, Procs
<1>7. QED
  BY <1>3, <1>4, <1>5, <1>6 DEF KeepInv

\* getApiService: a request is built with the stored URL.
LEMMA KeepGetApiService ==
  ASSUME KeepInv, DataInv, NEW p \in Requests, getApiService(p)
  PROVE  KeepInv'
<1>d. LocInv /\ PrefType /\ p \in Procs
  BY DEF DataInv, Procs
<1>0. IdleInv /\ FetchInv /\ SettledInv /\ SentInv /\ AloneInv /\ LaunchInv
  BY DEF KeepInv
<1> DEFINE b == IF standing = "settled" THEN apiService' ELSE NULL
           v == [NoLocals EXCEPT !.base = b]
<1>1. /\ Start(p, "call", v) /\ launched
      /\ UNCHANGED <<selected, environment, athenaConfig, accessToken>>
      /\ UNCHANGED <<cachedStoreConfigs, tokenIn, standing>>
  BY DEF getApiService, persisted, cache, world
<1>2. standing = "settled" => b = environment
  <2>1. standing = "settled" => athenaConfig = environment /\ athenaConfig # NULL
    BY <1>0, <1>d, ProcAssumption DEF SettledInv, PrefType
  <2>2. athenaConfig # NULL => apiService' = athenaConfig
    BY DEF getApiService
  <2>3. QED
    BY <2>1, <2>2
<1> HIDE DEF b
<1>3. v.cfg = NULL /\ v.base = b
  BY DEF NoLocals
<1> HIDE DEF v
<1>4. /\ pc[p] = "idle"
      /\ \A q \in Procs : pc'[q] = IF q = p THEN "call" ELSE pc[q]
      /\ \A q \in Procs : loc'[q] = IF q = p THEN v ELSE loc[q]
      /\ alone' = NULL
      /\ launched' = launched
  BY <1>d, <1>1, Starts, ProcAssumption
<1>5. IdleInv' /\ FetchInv'
  BY <1>0, <1>1, <1>3, <1>4 DEF IdleInv, FetchInv, Ours
<1>6. SettledInv'
  BY <1>0, <1>1, <1>2, <1>3, <1>4 DEF SettledInv, Procs
<1>7. SentInv'
  BY <1>0, <1>1, <1>4 DEF SentInv, Procs
<1>8. AloneInv'
  BY <1>4 DEF AloneInv
<1>9. LaunchInv'
  BY <1>0, <1>1, <1>4, ProcAssumption DEF LaunchInv, Procs
<1>10. QED
  BY <1>5, <1>6, <1>7, <1>8, <1>9 DEF KeepInv

\* The process is killed and started again.
LEMMA KeepRestart ==
  ASSUME KeepInv, restart
  PROVE  KeepInv'
<1>0. LaunchInv
  BY DEF KeepInv
<1>1. /\ \A p \in Procs : pc'[p] = "idle" /\ loc'[p] = NoLocals
      /\ standing' = "open" /\ ~launched' /\ alone' = NULL /\ cachedStoreConfigs' = NULL
      /\ UNCHANGED <<selected, athenaConfig, accessToken>>
  BY DEF restart, persisted
<1>2. \A p \in Procs : loc'[p].cfg = NULL
  BY <1>1 DEF NoLocals
<1>3. IdleInv' /\ FetchInv' /\ SettledInv' /\ SentInv' /\ AloneInv'
  BY <1>1, <1>2 DEF IdleInv, FetchInv, SettledInv, SentInv, AloneInv, Ours, Procs
<1>4. LaunchInv'
  BY <1>0, <1>1 DEF LaunchInv, Procs
<1>5. QED
  BY <1>3, <1>4 DEF KeepInv

\* What none of the properties read may change.
LEMMA KeepSame ==
  ASSUME KeepInv, UNCHANGED <<selected, environment, athenaConfig, accessToken>>,
         UNCHANGED <<cachedStoreConfigs, tokenIn, launched, alone, standing, pc, loc>>
  PROVE  KeepInv'
BY DEF KeepInv, IdleInv, FetchInv, SettledInv, SentInv, AloneInv, LaunchInv, Virgin, Ours

\* Every step keeps the stored values together.
LEMMA KeepNext == KeepInv /\ CtlInv /\ DataInv /\ [Next]_vars => KeepInv'
<1> SUFFICES ASSUME KeepInv, CtlInv, DataInv, [Next]_vars PROVE KeepInv'
  OBVIOUS
<1>p. Selectors \cup Loads \cup Switches \cup Requests = Procs
  BY DEF Procs
<1>1. ASSUME NEW p \in Procs, Step(p) PROVE KeepInv'
  BY <1>1, KeepRepository, KeepTokenManager, KeepRefresh, KeepSelection,
     KeepClearCache, KeepClearCacheDate, KeepRequest DEF Step
<1>2. ASSUME NEW p \in Loads \cup Switches, cancelScope(p) PROVE KeepInv'
  <2>1. /\ p \in Procs /\ End(p, FALSE) /\ pc[p] # "idle" /\ LocInv
        /\ UNCHANGED <<selected, environment, athenaConfig, cachedStoreConfigs, tokenIn>>
        /\ accessToken' = accessToken
    BY <1>2, <1>p DEF cancelScope, persisted, cache, world, DataInv
  <2>2. QED
    BY <2>1, KeepEnd
<1>3. CASE tick \/ \E e \in Envs : rotateToken(e)
  <2>1. /\ UNCHANGED <<selected, environment, athenaConfig, accessToken>>
        /\ UNCHANGED <<cachedStoreConfigs, tokenIn, launched, alone, standing, pc, loc>>
    BY <1>3 DEF tick, rotateToken, persisted, cache, phase
  <2>2. QED
    BY <2>1, KeepSame
<1>4. CASE UNCHANGED vars
  <2>1. /\ UNCHANGED <<selected, environment, athenaConfig, accessToken>>
        /\ UNCHANGED <<cachedStoreConfigs, tokenIn, launched, alone, standing, pc, loc>>
    BY <1>4 DEF vars, persisted, cache, phase, world
  <2>2. QED
    BY <2>1, KeepSame
<1>5. QED
  BY <1>p, <1>1, <1>2, <1>3, <1>4, KeepStarts, KeepChangeEnvironment, KeepGetApiService,
     KeepRestart DEF Next

\* After a launch or a switch that nothing overlapped, stored URL and wtoken,
\* cached configuration and token stay the selected environment's, and every
\* request built since then pairs URL and token of one environment, for any
\* number of coroutines in any order.
THEOREM Consistent == Spec => []ConfigConsistent
<1>1. KeepInv => ConfigConsistent
  BY DEF KeepInv, FetchInv, SettledInv, SentInv, Ours, ConfigConsistent
<1>2. QED
  BY <1>1, KeepInit, KeepNext, CtlInit, CtlNext, DataInit, DataNext, PTL DEF Spec
=============================================================================
