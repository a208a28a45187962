--------------------------- MODULE ProductListing ---------------------------
(***************************************************************************)
(* The product list of one navigation entry: ProductListingViewModel, the  *)
(* two page requests and the brand-image cache of ProductRepositoryImpl,   *)
(* and the screen as far as it decides which operations the user can       *)
(* trigger.  All of it runs on the main thread; a coroutine runs until it  *)
(* suspends, so every step below is what happens between two suspensions.  *)
(* A load suspends to read the token, for the page, for the lock of the    *)
(* brand images and for those images.                                      *)
(***************************************************************************)
EXTENDS Naturals, Sequences, FiniteSets

CONSTANTS MaxLoads,  \* page loads that are started
          LastPage,  \* pages a query has
          MaxFilter, \* the filters that can be applied are 1..MaxFilter
          MaxOpens   \* how often the screen is (re)entered

ASSUME ListingAssumption ==
  MaxLoads \in Nat \ {0} /\ LastPage \in Nat \ {0} /\ MaxFilter \in Nat /\ MaxOpens \in Nat

Loads == 1..MaxLoads
Home  == 0           \* HomeViewModel.preloadBrandImages, a user of the cache

VARIABLES
  visual,            \* filterType = "visual": search by image, else by category
  chosen,            \* visualSearchImage or currentCategoryId is set
  isVisualSearchLoading,
  reads,             \* coroutines reading the image from the DataStore
  opens,             \* times the screen was entered
  currentFilters,    \* 0 is null
  currentPage, isLoadingMore, hasReachedEnd, imageCache, loadMoreJob,
  ui,                \* the ui state, with isLoadingFilters
  load,              \* every load started, and Home
  brand,             \* BrandImageCache and the owner of brandImagesMutex
  gen, late, noToken \* history: first-page loads started; a load of an
                     \* earlier gen changed the list; a load had no token

paging == <<currentFilters, currentPage, isLoadingMore, hasReachedEnd, imageCache,
            loadMoreJob>>
entry == <<visual, chosen, isVisualSearchLoading, reads, opens>>
vars == <<entry, paging, ui, load, brand, gen, late, noToken>>

Idle == [pc |-> "idle", page |-> 0, more |-> FALSE, query |-> 0, gen |-> 0]
Nobody == MaxLoads + 1
Active(l) == load[l].pc # "idle"

TypeOK ==
  /\ visual \in BOOLEAN /\ chosen \in BOOLEAN /\ isVisualSearchLoading \in BOOLEAN
  /\ reads \in 0..MaxOpens /\ opens \in 0..MaxOpens
  /\ currentFilters \in 0..MaxFilter /\ currentPage \in 1..(MaxLoads + 1)
  /\ isLoadingMore \in BOOLEAN /\ hasReachedEnd \in BOOLEAN /\ imageCache \in BOOLEAN
  /\ loadMoreJob \in {Nobody} \cup Loads
  /\ ui \in [products: Seq((0..MaxFilter) \X (1..LastPage)), isLoading: BOOLEAN,
             error: BOOLEAN, none: BOOLEAN, filters: BOOLEAN, isLoadingFilters: BOOLEAN]
  /\ load \in [{Home} \cup Loads ->
       [pc: {"idle", "token", "sent", "lock", "images"}, page: 0..(MaxLoads + 1),
        more: BOOLEAN, query: 0..MaxFilter, gen: 0..MaxLoads]]
  /\ brand \in [cached: BOOLEAN, isLoading: BOOLEAN, owner: {Nobody, Home} \cup Loads]
  /\ gen \in 0..MaxLoads /\ late \in BOOLEAN /\ noToken \in BOOLEAN

Init ==
  /\ visual \in BOOLEAN /\ chosen = FALSE /\ isVisualSearchLoading = FALSE
  /\ reads = 0 /\ opens = 0
  /\ currentFilters = 0 /\ currentPage = 1 /\ isLoadingMore = FALSE
  /\ hasReachedEnd = FALSE /\ imageCache = FALSE /\ loadMoreJob = Nobody
  /\ ui = [products |-> <<>>, isLoading |-> FALSE, error |-> FALSE, none |-> FALSE,
           filters |-> FALSE, isLoadingFilters |-> FALSE]
  /\ load = [l \in {Home} \cup Loads |-> Idle]
  /\ brand = [cached |-> FALSE, isLoading |-> FALSE, owner |-> Nobody]
  /\ gen = 0 /\ late = FALSE /\ noToken = FALSE
-----------------------------------------------------------------------------
(* Starting loads *)

Started == {l \in Loads : load[l].gen # 0}
Fresh(l) == l \in Loads /\ l = Cardinality(Started) + 1

(* Mutant: pages counted from 0. *)
PageZero  == 0
FirstPage == 1

(* A first page: the list is emptied and paging starts over; a load-more   *)
(* in flight is neither cancelled nor marked.                              *)
LoadFirstPage(l) ==
  /\ Fresh(l)
  /\ gen' = gen + 1
  /\ load' = [load EXCEPT ![l] = [Idle EXCEPT !.pc = "token", !.page = FirstPage, !.gen = gen + 1]]
  /\ currentPage' = FirstPage /\ isLoadingMore' = FALSE /\ hasReachedEnd' = FALSE

Emptied(u) == [u EXCEPT !.products = <<>>, !.isLoading = TRUE, !.error = FALSE]

(* checkAndLoadVisualSearchOrCategory, each time the screen is entered: a  *)
(* category loads its first page (loadProducts); a visual search first     *)
(* reads its image; nothing when that was done or is being done.           *)
ReadImage ==
  /\ isVisualSearchLoading' = TRUE /\ reads' = reads + 1
  /\ UNCHANGED <<chosen, paging, ui, load, gen>>

Enter(l, again) ==
  /\ opens < MaxOpens /\ opens' = opens + 1
  /\ \/ visual /\ ~chosen /\ ~again /\ ReadImage
     \/ /\ ~visual /\ ~chosen
        /\ chosen' = TRUE /\ LoadFirstPage(l) /\ currentFilters' = 0 /\ ui' = Emptied(ui)
        /\ UNCHANGED <<isVisualSearchLoading, reads, imageCache, loadMoreJob>>
     \/ /\ chosen \/ again
        /\ UNCHANGED <<chosen, isVisualSearchLoading, reads, paging, ui, load, gen>>
  /\ UNCHANGED <<visual, brand, late, noToken>>

(* Mutant: a read under way is not noticed. *)
EnterUnaware(l) == Enter(l, FALSE)
checkAndLoadVisualSearchOrCategory(l) == Enter(l, isVisualSearchLoading)

(* The image arrives (loadProductsByVisualSearch), or there is none. *)
loadProductsByVisualSearch(l) ==
  /\ reads > 0 /\ reads' = reads - 1 /\ isVisualSearchLoading' = FALSE
  /\ \/ /\ chosen' = TRUE /\ LoadFirstPage(l) /\ ui' = Emptied(ui)
        /\ imageCache' = FALSE
     \/ /\ ui' = [ui EXCEPT !.isLoading = FALSE, !.error = TRUE]
        /\ UNCHANGED <<chosen, load, gen, currentPage, isLoadingMore, hasReachedEnd,
                       imageCache>>
  /\ UNCHANGED <<visual, opens, currentFilters, loadMoreJob, brand, late, noToken>>

(* The filter screen can be opened once filter options have arrived. *)
applyFilters(l) ==
  /\ ui.filters
  /\ LoadFirstPage(l)
  /\ currentFilters' \in 0..MaxFilter
  /\ ui' = [Emptied(ui) EXCEPT !.isLoadingFilters = TRUE]
  /\ UNCHANGED <<entry, imageCache, loadMoreJob, brand, late, noToken>>
-----------------------------------------------------------------------------
(* What the end of a load does to the ui state *)

(* Mutant: a failed request leaves the spinner on. *)
FailedSpinning(u) == [u EXCEPT !.error = TRUE, !.isLoadingFilters = FALSE]
Failed(u)  == [u EXCEPT !.isLoading = FALSE, !.error = TRUE, !.isLoadingFilters = FALSE]
NoToken(u) == [u EXCEPT !.isLoading = FALSE, !.error = TRUE]

Chunk(l) == IF load[l].page <= LastPage THEN << <<load[l].query, load[l].page>> >> ELSE <<>>

(* A page is appended by a load-more and replaces the list otherwise. *)
Paged(u, l, found) ==
  LET new == IF found THEN Chunk(l) ELSE <<>>
  IN [u EXCEPT !.products = IF load[l].more THEN @ \o new ELSE new,
               !.isLoading = FALSE, !.error = FALSE, !.none = ~found,
               !.filters = @ \/ found, !.isLoadingFilters = FALSE]

(* A page of the visual search may come with an image_cache. *)
CacheAfter(found) == IF visual /\ found THEN {imageCache, TRUE} ELSE {imageCache}

(* result.fold(onSuccess) of either load...Page, and its "finally". *)
ApplyPage(l, found) ==
  /\ ui' = Paged(ui, l, found)
  /\ hasReachedEnd' = ~(found /\ load[l].page < LastPage)
  /\ imageCache' \in CacheAfter(found)
  /\ late' = (late \/ load[l].gen # gen)
  /\ isLoadingMore' = FALSE
  /\ load' = [load EXCEPT ![l].pc = "idle"]
  /\ UNCHANGED <<currentFilters, currentPage, loadMoreJob>>

EndWith(l, u) ==
  /\ ui' = u
  /\ isLoadingMore' = FALSE
  /\ load' = [load EXCEPT ![l].pc = "idle"]
  /\ UNCHANGED <<currentFilters, currentPage, hasReachedEnd, imageCache, loadMoreJob, late>>

-----------------------------------------------------------------------------
(* The steps of a load *)

(* The token is there: the request is sent, for the filters of this        *)
(* moment.  Without a token the load ends, leaving isLoadingFilters alone. *)
ReadToken(l) ==
  /\ load[l].pc = "token"
  /\ \/ /\ load' = [load EXCEPT ![l].pc = "sent", ![l].query = currentFilters]
        /\ UNCHANGED <<paging, ui, late, noToken>>
     \/ EndWith(l, NoToken(ui)) /\ noToken' = TRUE
  /\ UNCHANGED <<entry, brand, gen>>

(* The response: an error, nothing found, or a page, which needs the brand *)
(* images before it is shown.                                              *)
PageArrives(l) ==
  /\ load[l].pc = "sent"
  /\ \/ EndWith(l, Failed(ui))
     \/ ApplyPage(l, FALSE)
     \/ brand.cached /\ ApplyPage(l, TRUE)
     \/ /\ ~brand.cached /\ load' = [load EXCEPT ![l].pc = "lock"]
        /\ UNCHANGED <<paging, ui, late>>
  /\ UNCHANGED <<entry, brand, gen, noToken>>

(* preloadBrandImages of the home screen: getBrandImages uses the same     *)
(* cache and lock.                                                         *)
getBrandImages ==
  /\ load[Home].pc = "idle" /\ ~brand.cached
  /\ load' = [load EXCEPT ![Home].pc = "lock"]
  /\ UNCHANGED <<entry, paging, ui, brand, gen, late, noToken>>

ShowPage(l) ==
  IF l = Home
  THEN load' = [load EXCEPT ![l].pc = "idle"] /\ UNCHANGED <<paging, ui, late>>
  ELSE ApplyPage(l, TRUE)

(* Mutant: the cache is not looked at again under the lock. *)
LockWithoutCheck(l) ==
  /\ load[l].pc = "lock" /\ brand.owner = Nobody
  /\ brand' = [brand EXCEPT !.isLoading = TRUE, !.owner = l]
  /\ load' = [load EXCEPT ![l].pc = "images"]
  /\ UNCHANGED <<entry, gen, noToken, paging, ui, late>>

(* brandImagesMutex is taken: the cache is looked at again, then the       *)
(* images are asked for.                                                   *)
LockBrandImages(l) ==
  /\ load[l].pc = "lock" /\ brand.owner = Nobody
  /\ IF brand.cached THEN ShowPage(l) /\ UNCHANGED brand
     ELSE /\ brand' = [brand EXCEPT !.isLoading = TRUE, !.owner = l]
          /\ load' = [load EXCEPT ![l].pc = "images"]
          /\ UNCHANGED <<paging, ui, late>>
  /\ UNCHANGED <<entry, gen, noToken>>

(* The images arrive and are kept for the session, or the request fails    *)
(* and the page is shown without them.                                     *)
BrandImagesArrive(l) ==
  /\ load[l].pc = "images"
  /\ \E ok \in BOOLEAN : brand' = [cached |-> ok, isLoading |-> FALSE, owner |-> Nobody]
  /\ ShowPage(l)
  /\ UNCHANGED <<entry, gen, noToken>>
-----------------------------------------------------------------------------
(* loadMoreProducts: near the end of the grid, which is on screen when     *)
(* there are products and no error.  loadMoreJob.cancel() runs the old     *)
(* load, if it is still there, to its end: its CancellationException is    *)
(* caught like any other (as a missing token while the token is read, and  *)
(* as missing brand images while those are fetched: the page is appended), *)
(* and its "finally" clears isLoadingMore again.                           *)
(* Mutant: the old job is left running. *)
NotCancelled(l) == FALSE
Cancellable(l) == l \in Loads /\ Active(l)

LoadMore(l, c, busy) ==
  LET adds == busy /\ load[c].pc = "images"
  IN
  /\ ui' = IF ~busy THEN ui
           ELSE IF adds THEN Paged(ui, c, TRUE)
           ELSE IF load[c].pc = "token" THEN NoToken(ui) ELSE Failed(ui)
  /\ hasReachedEnd' = IF adds THEN load[c].page >= LastPage ELSE hasReachedEnd
  /\ imageCache' \in CacheAfter(adds)
  /\ brand' = IF adds THEN [brand EXCEPT !.isLoading = FALSE, !.owner = Nobody] ELSE brand
  /\ late' = (late \/ (adds /\ load[c].gen # gen))
  /\ noToken' = (noToken \/ (busy /\ load[c].pc = "token"))
  /\ isLoadingMore' = ~busy
  /\ currentPage' = currentPage + 1 /\ loadMoreJob' = l
  /\ load' = [i \in DOMAIN load |->
        IF i = l THEN [Idle EXCEPT !.pc = "token", !.page = currentPage + 1,
                                   !.more = TRUE, !.gen = gen]
        ELSE IF busy /\ i = c THEN [load[i] EXCEPT !.pc = "idle"] ELSE load[i]]

(* Mutant: a load-more under way is not noticed. *)
CanLoadMoreTwice ==
  /\ ui.products # <<>> /\ ~ui.error /\ ~ui.none
  /\ ~(ui.isLoading \/ hasReachedEnd)
  /\ visual => imageCache

CanLoadMore ==
  /\ ui.products # <<>> /\ ~ui.error /\ ~ui.none
  /\ ~(ui.isLoading \/ isLoadingMore \/ hasReachedEnd)
  /\ visual => imageCache

loadMoreProducts(l) ==
  /\ CanLoadMore /\ Fresh(l)
  /\ LoadMore(l, loadMoreJob, Cancellable(loadMoreJob))
  /\ UNCHANGED <<entry, currentFilters, gen>>
-----------------------------------------------------------------------------
LoadStep(l) == ReadToken(l) \/ PageArrives(l)

Next ==
  \/ \E l \in Loads : \/ checkAndLoadVisualSearchOrCategory(l)
                      \/ loadProductsByVisualSearch(l)
                      \/ applyFilters(l) \/ loadMoreProducts(l) \/ LoadStep(l)
  \/ \E l \in {Home} \cup Loads : LockBrandImages(l) \/ BrandImagesArrive(l)
  \/ getBrandImages

Spec == Init /\ [][Next]_vars

(* Requests end, by a response or by the client's timeout; a coroutine     *)
(* Mutex serves those who wait in their order.                             *)
FairSpec == /\ Spec
            /\ \A l \in Loads : WF_vars(LoadStep(l)) /\ SF_vars(LockBrandImages(l))
            /\ \A l \in {Home} \cup Loads : WF_vars(BrandImagesArrive(l))
-----------------------------------------------------------------------------
(* The list is pages 1, 2, ... of the filters in force, without gap or     *)
(* repetition (a repeated product is a repeated key of the grid), unless a *)
(* load started before the last change of filters has changed it.          *)
ListSound ==
  ~late => \A i \in DOMAIN ui.products : ui.products[i] = <<currentFilters, i>>

(* However often applyFilters clears isLoadingMore under a load in flight, *)
(* at most one load-more is under way.                                     *)
OneMore == \A k, l \in Loads : load[k].more /\ load[l].more /\ Active(k) /\ Active(l) => k = l

(* One request for brand images at a time over all screens, none once they *)
(* are cached, and no stale isLoading when the lock is free (the wait      *)
(* inside the lock is never needed).                                       *)
BrandImagesOnce ==
  /\ \A l \in {Home} \cup Loads : load[l].pc = "images" => brand.owner = l /\ ~brand.cached
  /\ brand.isLoading => brand.owner # Nobody

(* Re-entering the screen never starts a second first-page load: those     *)
(* come from applyFilters only.                                            *)
OneInitialLoad ==
  [][opens' # opens \/ reads' # reads => gen' \in {gen, 1}]_vars

(* The spinner ends, and so does the overlay of the filter screen unless   *)
(* a load found no token.                                                  *)
WaitingEnds == /\ ui.isLoading ~> ~ui.isLoading
               /\ ui.isLoadingFilters ~> (~ui.isLoadingFilters \/ noToken)
=============================================================================
