------------------------- MODULE AthenaAuth_proofs --------------------------
(***************************************************************************)
(* The token manager's mutex, for any number of coroutines of each kind,   *)
(* any environments and any times.                                         *)
(***************************************************************************)
EXTENDS AthenaAuth, TLAPS

\* What a coroutine does while it holds the mutex, after getValidToken's test.
Refreshing == {"configs", "age", "hit", "send", "response", "date", "found",
               "saveConfig", "saveToken"}

\* The labels a coroutine of each kind can be at.
RequestLabels == Refreshing \cup {"idle", "call", "sent", "lock", "retry"}
SelectorLabels == Refreshing \cup {"idle", "clearService", "lock", "valid"}
LoadLabels == Refreshing \cup {"idle", "prefs", "reuse", "clearCaches", "undate"}

\* Coroutine p can be at label l when the mutex is m and, if sel, a store has
\* been selected.
Fits(p, l, m, sel) ==
    /\ p \in Requests => l \in RequestLabels /\ (m = p <=> l \in Refreshing)
    /\ p \in Selectors =>
          /\ l \in SelectorLabels
          /\ m = p => l \in Refreshing \cup {"valid"}
          /\ l \in {"valid", "saveToken"} => m = p
          /\ m = p \/ l \in {"clearService", "saveConfig", "lock"} => sel
    /\ p \in Loads \cup Switches => l \in LoadLabels /\ m # p

PcType ==
    /\ pc \in [Procs -> Labels]
    /\ mutex \in Procs \cup {NULL}
    /\ selected \in BOOLEAN

\* The inductive invariant: every coroutine is where the mutex allows it.
CtlInv == PcType /\ \A p \in Procs : Fits(p, pc[p], mutex, selected)

LEMMA CtlInit == Init => CtlInv
<1> SUFFICES ASSUME Init PROVE CtlInv
  OBVIOUS
<1>1. PcType
  BY DEF Init, PcType, Labels
<1>2. ASSUME NEW p \in Procs PROVE Fits(p, pc[p], mutex, selected)
  <2>1. pc[p] = "idle" /\ mutex # p
    BY ProcAssumption DEF Init
  <2>2. QED
    BY <2>1 DEF Fits, RequestLabels, SelectorLabels, LoadLabels, Refreshing
<1>3. QED
  BY <1>1, <1>2 DEF CtlInv

\* Coroutine p moves to a label that fits it; only p may take or release the
\* mutex, and a selected store stays selected.
LEMMA Moves ==
  ASSUME CtlInv, NEW p \in Procs, NEW l \in Labels, Goto(p, l),
         selected' \in BOOLEAN, selected => selected',
         mutex' = mutex \/ (mutex \in {NULL, p} /\ mutex' \in {NULL, p}),
         Fits(p, l, mutex', selected')
  PROVE  CtlInv'
<1>1. PcType'
  BY DEF CtlInv, PcType, Goto
<1>2. ASSUME NEW q \in Procs PROVE Fits(q, pc'[q], mutex', selected')
  <2>1. CASE q = p
    BY <2>1 DEF CtlInv, PcType, Goto
  <2>2. CASE q # p
    <3>1. pc'[q] = pc[q] /\ (mutex' = q <=> mutex = q)
      BY <2>2, ProcAssumption DEF CtlInv, PcType, Goto
    <3>2. Fits(q, pc[q], mutex, selected)
      BY DEF CtlInv
    <3>3. QED
      BY <3>1, <3>2 DEF Fits
  <2>3. QED
    BY <2>1, <2>2
<1>3. QED
  BY <1>1, <1>2 DEF CtlInv

\* A coroutine that ends gives the mutex back.
LEMMA EndMoves ==
  ASSUME CtlInv, NEW p \in Procs, NEW ok, End(p, ok), selected' = selected
  PROVE  CtlInv'
<1>1. Goto(p, "idle") /\ mutex' # p
      /\ (mutex' = mutex \/ (mutex \in {NULL, p} /\ mutex' \in {NULL, p}))
  BY ProcAssumption DEF End
<1>2. Fits(p, "idle", mutex', selected')
  BY <1>1 DEF Fits, RequestLabels, SelectorLabels, LoadLabels, Refreshing
<1>3. selected' \in BOOLEAN /\ "idle" \in Labels
  BY DEF CtlInv, PcType, Labels
<1>4. QED
  BY <1>1, <1>2, <1>3, Moves

\* A step of p that leaves mutex and store alone and goes where p fits.
LEMMA GoMoves ==
  ASSUME CtlInv, NEW p \in Procs, NEW l \in Labels, Goto(p, l),
         mutex' = mutex, selected' = selected, Fits(p, l, mutex, selected)
  PROVE  CtlInv'
<1>1. selected' \in BOOLEAN
  BY DEF CtlInv, PcType
<1>2. Fits(p, l, mutex', selected')
  OBVIOUS
<1>3. QED
  BY <1>1, <1>2, Moves

-----------------------------------------------------------------------------
(* One lemma per group of actions.                                         *)

LEMMA CtlRepository ==
  ASSUME CtlInv, NEW p \in Procs, Repository(p)
  PROVE  CtlInv'
<1>f. Fits(p, pc[p], mutex, selected)
  BY DEF CtlInv
<1>l. {"age", "hit", "send", "response", "date", "found"} \subseteq Labels
  BY DEF Labels
<1>2. CASE getStoreConfigs(p)
  <2>1. /\ Goto(p, "age") \/ Goto(p, "send")
        /\ mutex' = mutex /\ selected' = selected /\ pc[p] = "configs"
    BY <1>2 DEF getStoreConfigs, manager, persisted
  <2>2. Fits(p, "age", mutex, selected) /\ Fits(p, "send", mutex, selected)
    BY <1>f, <2>1 DEF Fits, RequestLabels, SelectorLabels, LoadLabels, Refreshing
  <2>3. QED
    BY <1>l, <2>1, <2>2, GoMoves
<1>a. CASE cacheIsFresh(p)
  <2>1. /\ Goto(p, "hit") \/ Goto(p, "send")
        /\ mutex' = mutex /\ selected' = selected /\ pc[p] = "age"
    BY <1>a DEF cacheIsFresh, manager, persisted
  <2>2. Fits(p, "hit", mutex, selected) /\ Fits(p, "send", mutex, selected)
    BY <1>f, <2>1 DEF Fits, RequestLabels, SelectorLabels, LoadLabels, Refreshing
  <2>3. QED
    BY <1>l, <2>1, <2>2, GoMoves
<1>h. CASE useCache(p)
  <2>1. CASE End(p, FALSE)
    BY <1>h, <2>1, EndMoves DEF useCache, persisted
  <2>2. CASE Goto(p, "found") /\ mutex' = mutex
    <3>1. pc[p] = "hit" /\ selected' = selected
      BY <1>h DEF useCache, persisted
    <3>2. Fits(p, "found", mutex, selected)
      BY <1>f, <3>1 DEF Fits, RequestLabels, SelectorLabels, LoadLabels, Refreshing
    <3>3. QED
      BY <1>l, <2>2, <3>1, <3>2, GoMoves
  <2>3. QED
    BY <1>h, <2>1, <2>2 DEF useCache, Return
<1>3. CASE sendStoreConfigs(p)
  <2>1. /\ Goto(p, "response")
        /\ mutex' = mutex /\ selected' = selected /\ pc[p] = "send"
    BY <1>3 DEF sendStoreConfigs, manager, persisted
  <2>2. Fits(p, "response", mutex, selected)
    BY <1>f, <2>1 DEF Fits, RequestLabels, SelectorLabels, LoadLabels, Refreshing
  <2>3. QED
    BY <1>l, <2>1, <2>2, GoMoves
<1>4. CASE receiveStoreConfigs(p)
  <2>1. /\ Goto(p, "date")
        /\ mutex' = mutex /\ selected' = selected /\ pc[p] = "response"
    BY <1>4 DEF receiveStoreConfigs, manager, persisted
  <2>2. Fits(p, "date", mutex, selected)
    BY <1>f, <2>1 DEF Fits, RequestLabels, SelectorLabels, LoadLabels, Refreshing
  <2>3. QED
    BY <1>l, <2>1, <2>2, GoMoves
<1>d. CASE dateCache(p)
  <2>1. /\ Goto(p, "found")
        /\ mutex' = mutex /\ selected' = selected /\ pc[p] = "date"
    BY <1>d DEF dateCache, Return, manager, persisted
  <2>2. Fits(p, "found", mutex, selected)
    BY <1>f, <2>1 DEF Fits, RequestLabels, SelectorLabels, LoadLabels, Refreshing
  <2>3. QED
    BY <1>l, <2>1, <2>2, GoMoves
<1>5. CASE storeConfigsFail(p)
  BY <1>5, EndMoves DEF storeConfigsFail, persisted
<1>6. QED
  BY <1>2, <1>3, <1>4, <1>5, <1>a, <1>d, <1>h DEF Repository

LEMMA CtlTokenManager ==
  ASSUME CtlInv, NEW p \in Procs, TokenManager(p)
  PROVE  CtlInv'
<1>f. Fits(p, pc[p], mutex, selected)
  BY DEF CtlInv
<1>t. selected \in BOOLEAN /\ Procs = Requests \cup Selectors \cup Loads \cup Switches
  BY DEF CtlInv, PcType, Procs
<1>l. {"idle", "valid", "configs", "saveConfig", "lock", "saveToken", "retry"} \subseteq Labels
  BY DEF Labels
<1>1. CASE lockTokenManager(p)
  <2>1. /\ pc[p] = "lock" /\ mutex = NULL /\ mutex' = p /\ selected' = selected
        /\ Goto(p, IF p \in Selectors THEN "valid" ELSE "configs")
    BY <1>1 DEF lockTokenManager, persisted
  <2>2. Fits(p, IF p \in Selectors THEN "valid" ELSE "configs", p, selected)
    BY <1>f, <1>t, <2>1, ProcAssumption
       DEF Fits, RequestLabels, SelectorLabels, LoadLabels, Refreshing
  <2>3. QED
    BY <1>l, <1>t, <2>1, <2>2, Moves
<1>2. CASE getValidToken(p)
  <2>1. CASE End(p, TRUE)
    BY <1>2, <2>1, EndMoves DEF getValidToken, persisted
  <2>2. CASE Goto(p, "configs") /\ mutex' = mutex
    <3>1. pc[p] = "valid" /\ selected' = selected
      BY <1>2 DEF getValidToken, persisted
    <3>2. Fits(p, "configs", mutex, selected)
      BY <1>f, <3>1, ProcAssumption
         DEF Fits, RequestLabels, SelectorLabels, LoadLabels, Refreshing
    <3>3. QED
      BY <1>l, <2>2, <3>1, <3>2, GoMoves
  <2>3. QED
    BY <1>2, <2>1, <2>2 DEF getValidToken
<1>3. CASE findSelectedStore(p)
  <2>1. CASE End(p, FALSE)
    BY <1>3, <2>1, EndMoves DEF findSelectedStore, persisted
  <2>2. CASE Goto(p, "saveConfig") /\ mutex' = mutex
    <3>1. pc[p] = "found" /\ selected' = selected /\ (p \in Selectors => selected)
      BY <1>3 DEF findSelectedStore, persisted
    <3>2. Fits(p, "saveConfig", mutex, selected)
      BY <1>f, <3>1, ProcAssumption
         DEF Fits, RequestLabels, SelectorLabels, LoadLabels, Refreshing
    <3>3. QED
      BY <1>l, <2>2, <3>1, <3>2, GoMoves
  <2>3. QED
    BY <1>3, <2>1, <2>2 DEF findSelectedStore
<1>4. CASE saveConfig(p)
  <2>1. /\ pc[p] = "saveConfig" /\ mutex' = mutex /\ selected' = selected
        /\ Goto(p, IF p \in Selectors /\ mutex # p THEN "lock" ELSE "saveToken")
    BY <1>4 DEF saveConfig, manager
  <2>2. Fits(p, IF p \in Selectors /\ mutex # p THEN "lock" ELSE "saveToken", mutex, selected)
    BY <1>f, <2>1, ProcAssumption
       DEF Fits, RequestLabels, SelectorLabels, LoadLabels, Refreshing
  <2>3. QED
    BY <1>l, <2>1, <2>2, GoMoves
<1>5. CASE refreshTokenFromStoreConfig(p)
  <2>1. pc[p] = "saveToken" /\ mutex = p /\ selected' = selected
    BY <1>5 DEF refreshTokenFromStoreConfig
  <2>2. CASE p \in Requests
    <3>1. mutex' = NULL /\ Goto(p, "retry")
      BY <1>5, <2>2 DEF refreshTokenFromStoreConfig
    <3>2. Fits(p, "retry", NULL, selected)
      BY <1>t, <2>2, ProcAssumption
         DEF Fits, RequestLabels, SelectorLabels, LoadLabels, Refreshing
    <3>3. QED
      BY <1>l, <1>t, <2>1, <3>1, <3>2, Moves
  <2>3. CASE p \notin Requests
    BY <1>5, <2>1, <2>3, EndMoves DEF refreshTokenFromStoreConfig
  <2>4. QED
    BY <2>2, <2>3
<1>6. QED
  BY <1>1, <1>2, <1>3, <1>4, <1>5 DEF TokenManager

LEMMA CtlRefresh ==
  ASSUME CtlInv, NEW p \in Procs, Refresh(p)
  PROVE  CtlInv'
<1>f. Fits(p, pc[p], mutex, selected)
  BY DEF CtlInv
<1>l. {"reuse", "configs"} \subseteq Labels
  BY DEF Labels
<1>1. ASSUME pc[p] \in {"prefs", "reuse"}
      PROVE  Fits(p, "reuse", mutex, selected) /\ Fits(p, "configs", mutex, selected)
  BY <1>f, <1>1, ProcAssumption
     DEF Fits, RequestLabels, SelectorLabels, LoadLabels, Refreshing
<1>2. CASE refreshReadsPrefs(p)
  <2>1. /\ pc[p] = "prefs" /\ mutex' = mutex /\ selected' = selected
        /\ Goto(p, "reuse") \/ Goto(p, "configs")
    BY <1>2 DEF refreshReadsPrefs, manager, persisted
  <2>2. QED
    BY <1>1, <1>l, <2>1, GoMoves
<1>3. CASE refreshReusesCache(p)
  <2>1. CASE End(p, TRUE)
    BY <1>3, <2>1, EndMoves DEF refreshReusesCache, persisted
  <2>2. CASE Goto(p, "configs") /\ mutex' = mutex
    <3>1. pc[p] = "reuse" /\ selected' = selected
      BY <1>3 DEF refreshReusesCache, persisted
    <3>2. QED
      BY <1>1, <1>l, <2>2, <3>1, GoMoves
  <2>3. QED
    BY <1>3, <2>1, <2>2 DEF refreshReusesCache
<1>4. CASE refreshSavesToken(p)
  BY <1>4, EndMoves DEF refreshSavesToken
<1>5. QED
  BY <1>2, <1>3, <1>4 DEF Refresh

LEMMA CtlSelection ==
  ASSUME CtlInv, NEW p \in Procs, Selection(p)
  PROVE  CtlInv'
<1>f. Fits(p, pc[p], mutex, selected)
  BY DEF CtlInv
<1>l. {"clearService", "saveConfig"} \subseteq Labels
  BY DEF Labels
<1>1. CASE saveSelectedStore(p)
  <2>1. /\ p \in Selectors /\ pc[p] = "found" /\ ~selected /\ selected' = TRUE
        /\ mutex' = mutex /\ Goto(p, "clearService")
    BY <1>1 DEF saveSelectedStore, manager
  <2>2. Fits(p, "clearService", mutex, TRUE)
    BY <1>f, <2>1, ProcAssumption
       DEF Fits, RequestLabels, SelectorLabels, LoadLabels, Refreshing
  <2>3. QED
    BY <1>l, <2>1, <2>2, Moves
<1>2. CASE noStoreOffered(p)
  BY <1>2, EndMoves DEF noStoreOffered, persisted
<1>3. CASE clearService(p)
  <2>1. pc[p] = "clearService" /\ Goto(p, "saveConfig") /\ mutex' = mutex /\ selected' = selected
    BY <1>3 DEF clearService, manager, persisted
  <2>2. Fits(p, "saveConfig", mutex, selected)
    BY <1>f, <2>1, ProcAssumption
       DEF Fits, RequestLabels, SelectorLabels, LoadLabels, Refreshing
  <2>3. QED
    BY <1>l, <2>1, <2>2, GoMoves
<1>4. QED
  BY <1>1, <1>2, <1>3 DEF Selection

LEMMA CtlRequest ==
  ASSUME CtlInv, NEW p \in Procs, Request(p)
  PROVE  CtlInv'
<1>f. Fits(p, pc[p], mutex, selected)
  BY DEF CtlInv
<1>l. {"sent", "lock"} \subseteq Labels
  BY DEF Labels
<1>1. CASE intercept(p)
  <2>1. CASE End(p, FALSE)
    BY <1>1, <2>1, EndMoves DEF intercept, persisted
  <2>2. CASE Goto(p, "sent") /\ mutex' = mutex
    <3>1. pc[p] = "call" /\ selected' = selected
      BY <1>1 DEF intercept, persisted
    <3>2. Fits(p, "sent", mutex, selected)
      BY <1>f, <3>1, ProcAssumption
         DEF Fits, RequestLabels, SelectorLabels, LoadLabels, Refreshing
    <3>3. QED
      BY <1>l, <2>2, <3>1, <3>2, GoMoves
  <2>3. QED
    BY <1>1, <2>1, <2>2 DEF intercept
<1>2. CASE answered(p)
  BY <1>2, EndMoves DEF answered, persisted
<1>3. CASE unauthorized(p)
  <2>1. pc[p] = "sent" /\ Goto(p, "lock") /\ mutex' = mutex /\ selected' = selected
    BY <1>3 DEF unauthorized, manager, persisted
  <2>2. Fits(p, "lock", mutex, selected)
    BY <1>f, <2>1, ProcAssumption
       DEF Fits, RequestLabels, SelectorLabels, LoadLabels, Refreshing
  <2>3. QED
    BY <1>l, <2>1, <2>2, GoMoves
<1>4. CASE retryRequest(p)
  BY <1>4, EndMoves DEF retryRequest, persisted
<1>5. QED
  BY <1>1, <1>2, <1>3, <1>4 DEF Request

LEMMA CtlStep ==
  ASSUME CtlInv, NEW p \in Procs, Step(p)
  PROVE  CtlInv'
<1>f. Fits(p, pc[p], mutex, selected)
  BY DEF CtlInv
<1>l. {"undate", "prefs"} \subseteq Labels
  BY DEF Labels
<1>1. CASE clearCache(p)
  <2>1. pc[p] = "clearCaches" /\ Goto(p, "undate") /\ mutex' = mutex /\ selected' = selected
    BY <1>1 DEF clearCache, manager, persisted
  <2>2. Fits(p, "undate", mutex, selected)
    BY <1>f, <2>1, ProcAssumption
       DEF Fits, RequestLabels, SelectorLabels, LoadLabels, Refreshing
  <2>3. QED
    BY <1>l, <2>1, <2>2, GoMoves
<1>2. CASE clearCacheDate(p)
  <2>1. pc[p] = "undate" /\ Goto(p, "prefs") /\ mutex' = mutex /\ selected' = selected
    BY <1>2 DEF clearCacheDate, manager, persisted
  <2>2. Fits(p, "prefs", mutex, selected)
    BY <1>f, <2>1, ProcAssumption
       DEF Fits, RequestLabels, SelectorLabels, LoadLabels, Refreshing
  <2>3. QED
    BY <1>l, <2>1, <2>2, GoMoves
<1>3. QED
  BY <1>1, <1>2, CtlRepository, CtlTokenManager, CtlRefresh, CtlSelection, CtlRequest DEF Step

\* A coroutine starts, with no claim on the mutex.
LEMMA CtlStart ==
  ASSUME CtlInv, NEW p \in Procs, NEW v, NEW l \in Labels, Start(p, l, v),
         mutex' = mutex, selected' = selected,
         \/ p \in Selectors /\ l = "configs"
         \/ p \in Loads \cup Switches /\ l \in {"prefs", "clearCaches"}
         \/ p \in Requests /\ l = "call"
  PROVE  CtlInv'
<1>1. Fits(p, "idle", mutex, selected) /\ Goto(p, l)
  BY DEF CtlInv, Start
<1>2. Fits(p, l, mutex, selected)
  BY <1>1, ProcAssumption DEF Fits, RequestLabels, SelectorLabels, LoadLabels, Refreshing
<1>3. QED
  BY <1>1, <1>2, GoMoves

LEMMA CtlNext == CtlInv /\ [Next]_vars => CtlInv'
<1> SUFFICES ASSUME CtlInv, [Next]_vars PROVE CtlInv'
  OBVIOUS
<1>l. {"configs", "prefs", "clearCaches", "call"} \subseteq Labels
  BY DEF Labels
<1>1. ASSUME NEW p \in Procs, Step(p) PROVE CtlInv'
  BY <1>1, CtlStep
<1>2. ASSUME NEW p \in Selectors, loadStores(p) PROVE CtlInv'
  <2>1. p \in Procs /\ mutex' = mutex /\ selected' = selected
        /\ Start(p, "configs", NoLocals)
    BY <1>2 DEF loadStores, manager, persisted, Procs
  <2>2. QED
    BY <1>l, <2>1, CtlStart
<1>3. ASSUME NEW p \in Loads, loadStoreConfig(p) PROVE CtlInv'
  <2>1. p \in Procs /\ mutex' = mutex /\ selected' = selected
        /\ Start(p, "prefs", NoLocals)
    BY <1>3 DEF loadStoreConfig, manager, persisted, Procs
  <2>2. QED
    BY <1>l, <2>1, CtlStart
<1>4. ASSUME NEW p \in Switches, NEW e \in Envs, changeEnvironment(p, e) PROVE CtlInv'
  <2>1. p \in Procs /\ mutex' = mutex /\ selected' = selected
        /\ Start(p, "clearCaches", NoLocals)
    BY <1>4 DEF changeEnvironment, manager, Procs
  <2>2. QED
    BY <1>l, <2>1, CtlStart
<1>5. ASSUME NEW p \in Loads \cup Switches, cancelScope(p) PROVE CtlInv'
  BY <1>5, EndMoves DEF cancelScope, persisted, Procs
<1>6. ASSUME NEW p \in Requests, getApiService(p) PROVE CtlInv'
  <2>1. p \in Procs /\ mutex' = mutex /\ selected' = selected
        /\ \E v : Start(p, "call", v)
    BY <1>6 DEF getApiService, manager, persisted, Procs
  <2>2. QED
    BY <1>l, <2>1, CtlStart
<1>7. ASSUME UNCHANGED <<pc, mutex, selected>> PROVE CtlInv'
  BY <1>7 DEF CtlInv, PcType
<1>8. ASSUME NEW e \in Envs, rotateToken(e) PROVE CtlInv'
  BY <1>7, <1>8 DEF rotateToken, manager, persisted
<1>9. CASE tick
  BY <1>7, <1>9 DEF tick, manager, persisted
<1>10. CASE restart
  <2>1. pc' = [p \in Procs |-> "idle"] /\ mutex' = NULL /\ selected' = selected
    BY <1>10 DEF restart, persisted
  <2>2. PcType'
    BY <2>1 DEF CtlInv, PcType, Labels
  <2>3. ASSUME NEW p \in Procs PROVE Fits(p, pc'[p], mutex', selected')
    <3>1. pc'[p] = "idle" /\ mutex' # p
      BY <2>1, ProcAssumption
    <3>2. QED
      BY <3>1 DEF Fits, RequestLabels, SelectorLabels, LoadLabels, Refreshing
  <2>4. QED
    BY <2>2, <2>3 DEF CtlInv
<1>11. CASE UNCHANGED vars
  BY <1>7, <1>11 DEF vars, manager, persisted
<1>12. QED
  BY <1>1, <1>2, <1>3, <1>4, <1>5, <1>6, <1>8, <1>9, <1>10, <1>11 DEF Next

\* No coroutine leaves AthenaTokenManager with its mutex, whichever way a
\* refresh ends, and no two refresh at once: a 401 never waits for a mutex
\* that nobody will release.
THEOREM MutexSafe == Spec => []RefreshSerialised
<1>1. CtlInv => RefreshSerialised
  <2> SUFFICES ASSUME CtlInv PROVE RefreshSerialised
    OBVIOUS
  <2>1. \A p \in Procs : Fits(p, pc[p], mutex, selected)
    BY DEF CtlInv
  <2>2. QED
    BY <2>1, ProcAssumption DEF Fits, RefreshSerialised, Refreshing, Procs
<1>2. QED
  BY <1>1, CtlInit, CtlNext, PTL DEF Spec
=============================================================================
