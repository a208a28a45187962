------------------------ MODULE ProductListing_proofs ------------------------
(***************************************************************************)
(* The product list of ProductListing for any number of loads, pages,      *)
(* filters and openings: its types, a sound list while no late load has    *)
(* touched it, one load-more and one request for brand images at a time,   *)
(* and one initial load.                                                   *)
(***************************************************************************)
EXTENDS ProductListing, FiniteSetTheorems, SequenceTheorems, TLAPS

All == {Home} \cup Loads
PCs == {"idle", "token", "sent", "lock", "images"}
LoadRecord == [pc: PCs, page: 0..(MaxLoads + 1), more: BOOLEAN, query: 0..MaxFilter,
               gen: 0..MaxLoads]
Page == (0..MaxFilter) \X (1..LastPage)

\* The types, group by group.
EntryType ==
  /\ visual \in BOOLEAN /\ chosen \in BOOLEAN /\ isVisualSearchLoading \in BOOLEAN
  /\ reads \in 0..1 /\ opens \in 0..MaxOpens /\ reads <= opens

PagingType ==
  /\ currentFilters \in 0..MaxFilter /\ currentPage \in 1..(MaxLoads + 1)
  /\ isLoadingMore \in BOOLEAN /\ hasReachedEnd \in BOOLEAN /\ imageCache \in BOOLEAN
  /\ loadMoreJob \in {Nobody} \cup Loads
  /\ gen \in 0..MaxLoads /\ late \in BOOLEAN /\ noToken \in BOOLEAN

UiType ==
  ui \in [products: Seq(Page), isLoading: BOOLEAN, error: BOOLEAN, none: BOOLEAN,
          filters: BOOLEAN, isLoadingFilters: BOOLEAN]

LoadType == load \in [All -> LoadRecord]

BrandType ==
  /\ brand \in [cached: BOOLEAN, isLoading: BOOLEAN, owner: {Nobody} \cup All]
  /\ BrandImagesOnce

\* Loads are numbered in the order of their starts; each adds at most one to
\* the page number and to the generation.
Count == Cardinality(Started)
Counted ==
  /\ Count \in 0..MaxLoads /\ Started = 1..Count
  /\ gen <= Count /\ currentPage <= Count + 1

\* What was started, by what.
Begun ==
  /\ gen # 0 => chosen
  /\ reads # 0 => ~chosen /\ visual /\ isVisualSearchLoading
  /\ ui.filters \/ ui.products # <<>> => gen # 0
  /\ \A l \in Loads :
       /\ load[l].gen = 0 => ~Active(l)
       /\ load[l].gen # 0 => load[l].page > 0
       /\ load[l].gen <= gen

Single == \A l \in Loads : load[l].more /\ Active(l) => l = loadMoreJob

\* The loads that may still change the list without being late.
Current(l) == Active(l) /\ load[l].gen = gen

\* They ask for the filters in force, and those that are no load-more for the
\* first page.
Asked ==
  /\ \A l \in Loads : Current(l) /\ load[l].pc # "token" => load[l].query = currentFilters
  /\ \A l \in Loads : Current(l) /\ ~load[l].more => load[l].page = 1

\* While the list is sound, the current load brings the page after its last,
\* and no other can be started under it; without a current load either the
\* page counter is at the end of the list or nothing more is loaded.
Sound ==
  ~late =>
    /\ \A i \in DOMAIN ui.products : ui.products[i] = <<currentFilters, i>>
    /\ \A k, l \in Loads : Current(k) /\ Current(l) => k = l
    /\ \A l \in Loads : Current(l) =>
         IF load[l].more
         THEN /\ ui.products # <<>> /\ (isLoadingMore \/ ui.error)
              /\ load[l].page = Len(ui.products) + 1 /\ load[l].page = currentPage
         ELSE ui.products = <<>> /\ currentPage = 1
    /\ \/ \E l \in Loads : Current(l)
       \/ ui.products = <<>> \/ ui.error \/ hasReachedEnd
       \/ currentPage = Len(ui.products)

IInv == /\ EntryType /\ PagingType /\ UiType /\ LoadType /\ BrandType
        /\ Counted /\ Begun /\ Single /\ Asked /\ Sound

USE DEF Home, Loads, Active

-----------------------------------------------------------------------------
(* The numbers of the loads *)

LEMMA CountSame ==
  ASSUME \A k \in Loads : load'[k].gen = load[k].gen
  PROVE  Started' = Started /\ Count' = Count
BY DEF Started, Count

LEMMA IdleFacts == Idle \in LoadRecord /\ ~Idle.more /\ Idle.pc = "idle"
BY ListingAssumption DEF Idle, LoadRecord, PCs

LEMMA LoadFacts ==
  ASSUME IInv, NEW k \in Loads
  PROVE  /\ load[k].gen \in Nat /\ load[k].gen <= gen /\ load[k].page \in Nat
         /\ load[k].more \in BOOLEAN /\ load[k].query \in 0..MaxFilter
         /\ load[k].pc \in PCs
<1>1. load[k] \in LoadRecord
  BY DEF IInv, LoadType, All
<1>2. QED
  BY <1>1, ListingAssumption DEF LoadRecord, IInv, Begun

LEMMA FreshFacts ==
  ASSUME IInv, NEW l \in Loads, Fresh(l)
  PROVE  l = Count + 1 /\ load[l].gen = 0 /\ ~Active(l) /\ l # Nobody /\ l # Home
<1>1. l = Count + 1 /\ l \notin Started
  BY ListingAssumption DEF IInv, Counted, Fresh, Count
<1>2. QED
  BY <1>1, ListingAssumption DEF Started, IInv, Begun, Nobody

LEMMA CountStep ==
  ASSUME IInv, NEW l \in Loads, Fresh(l), load'[l].gen # 0,
         \A k \in Loads \ {l} : load'[k].gen = load[k].gen
  PROVE  Started' = 1..Count' /\ Count' = Count + 1 /\ Count' \in 0..MaxLoads
<1>1. Started' = Started \cup {l}
  BY DEF Started
<1>2. Started' = 1..(Count + 1)
  BY <1>1, FreshFacts, ListingAssumption DEF IInv, Counted
<1>3. Count' = Count + 1
  BY <1>2, FS_Interval DEF Count, IInv, Counted
<1>4. QED
  BY <1>2, <1>3, FreshFacts, ListingAssumption

-----------------------------------------------------------------------------
(* What the end of a load makes of the ui state *)

UiRecord == [products: Seq(Page), isLoading: BOOLEAN, error: BOOLEAN, none: BOOLEAN,
             filters: BOOLEAN, isLoadingFilters: BOOLEAN]

New(l, found) == IF found THEN Chunk(l) ELSE <<>>
Shown(l, found) == IF load[l].more THEN ui.products \o New(l, found) ELSE New(l, found)

LEMMA NewFacts ==
  ASSUME IInv, NEW l \in Loads, load[l].gen # 0, NEW found \in BOOLEAN
  PROVE  New(l, found) \in Seq(Page) /\ Shown(l, found) \in Seq(Page)
<1>1. load[l].page \in Nat /\ load[l].page >= 1 /\ load[l].query \in 0..MaxFilter
  <2>1. load[l].page > 0
    BY DEF IInv, Begun
  <2>2. QED
    BY <2>1, LoadFacts
<1>2. Chunk(l) \in Seq(Page)
  <2>1. CASE load[l].page <= LastPage
    <3>1. <<load[l].query, load[l].page>> \in Page
      BY <1>1, <2>1, ListingAssumption DEF Page
    <3>2. QED
      BY <2>1, <3>1 DEF Chunk
  <2>2. CASE ~(load[l].page <= LastPage)
    BY <2>2 DEF Chunk
  <2>3. QED
    BY <2>1, <2>2
<1>3. New(l, found) \in Seq(Page)
  BY <1>2, EmptySeq DEF New
<1>4. QED
  BY <1>3, ConcatProperties DEF Shown, IInv, UiType

LEMMA PagedFacts ==
  ASSUME IInv, NEW l \in Loads, load[l].gen # 0, NEW found \in BOOLEAN
  PROVE  /\ Paged(ui, l, found) \in UiRecord
         /\ Paged(ui, l, found).products = Shown(l, found)
<1> DEFINE f == ui.filters \/ found
           n == ~found
           P == Shown(l, found)
<1>1. f \in BOOLEAN /\ n \in BOOLEAN /\ P \in Seq(Page)
  BY NewFacts
<1>2. ui \in UiRecord
  BY DEF IInv, UiType, UiRecord
<1>3. Paged(ui, l, found) =
        [ui EXCEPT !.products = P, !.isLoading = FALSE, !.error = FALSE, !.none = n,
                   !.filters = f, !.isLoadingFilters = FALSE]
  BY <1>2 DEF Paged, Shown, New, UiRecord
<1> HIDE DEF f, n, P
<1>4. Paged(ui, l, found) \in UiRecord /\ Paged(ui, l, found).products = P
  BY <1>1, <1>2, <1>3 DEF UiRecord
<1>5. QED
  BY <1>4 DEF P

LEMMA FailFacts ==
  ASSUME IInv, NEW u \in {Failed(ui), NoToken(ui)}
  PROVE  u \in UiRecord /\ u.products = ui.products /\ u.filters = ui.filters /\ u.error
<1>1. ui \in UiRecord
  BY DEF IInv, UiType, UiRecord
<1>2. QED
  BY <1>1 DEF UiRecord, Failed, NoToken

LEMMA EmptiedFacts ==
  ASSUME IInv
  PROVE  /\ Emptied(ui) \in UiRecord /\ Emptied(ui).products = <<>>
         /\ Emptied(ui).filters = ui.filters
<1>1. ui \in UiRecord
  BY DEF IInv, UiType, UiRecord
<1>2. <<>> \in Seq(Page)
  BY EmptySeq
<1>3. QED
  BY <1>1, <1>2 DEF UiRecord, Emptied

-----------------------------------------------------------------------------
(* A first page: all that went before is of an earlier generation          *)

LEMMA FirstPageLoads ==
  ASSUME IInv, NEW l \in Loads, LoadFirstPage(l)
  PROVE  /\ LoadType'
         /\ load'[l].pc = "token" /\ load'[l].page = 1 /\ ~load'[l].more
         /\ load'[l].gen = gen + 1
         /\ \A k \in All \ {l} : load'[k] = load[k]
         /\ \A k \in Loads \ {l} : ~Current(k)'
         /\ gen + 1 <= Count + 1 /\ gen + 1 \in 1..MaxLoads
         /\ Started' = 1..Count' /\ Count' = Count + 1 /\ Count' \in 0..MaxLoads
<1> DEFINE r == [Idle EXCEPT !.pc = "token", !.page = FirstPage, !.gen = gen + 1]
<1>1. gen \in Nat /\ gen <= Count /\ Count + 1 <= MaxLoads /\ Count \in Nat
  BY FreshFacts, ListingAssumption DEF IInv, PagingType, Counted, LoadFirstPage
<1>2. load' = [load EXCEPT ![l] = r]
  BY DEF LoadFirstPage
<1>3. r \in LoadRecord /\ r.pc = "token" /\ r.page = 1 /\ ~r.more /\ r.gen = gen + 1
  <2> DEFINE g == gen + 1
  <2>1. g \in 0..MaxLoads /\ FirstPage \in 0..(MaxLoads + 1) /\ "token" \in PCs
    BY <1>1, ListingAssumption DEF FirstPage, PCs
  <2>2. r = [Idle EXCEPT !.pc = "token", !.page = FirstPage, !.gen = g]
    OBVIOUS
  <2> HIDE DEF g, r
  <2>3. r \in LoadRecord /\ r.pc = "token" /\ r.page = FirstPage /\ ~r.more /\ r.gen = g
    BY <2>1, <2>2, IdleFacts DEF LoadRecord
  <2>4. QED
    BY <2>3 DEF g, FirstPage
<1> HIDE DEF r
<1>4. LoadType' /\ load'[l] = r /\ \A k \in All \ {l} : load'[k] = load[k]
  BY <1>2, <1>3 DEF IInv, LoadType, All
<1>5. \A k \in Loads \ {l} : load'[k].gen = load[k].gen /\ load[k].gen <= gen
                             /\ load[k].gen \in Nat
  BY <1>4, LoadFacts DEF All
<1>6. \A k \in Loads \ {l} : ~Current(k)'
  BY <1>1, <1>5 DEF Current, LoadFirstPage
<1>7. Started' = 1..Count' /\ Count' = Count + 1 /\ Count' \in 0..MaxLoads
  BY <1>1, <1>3, <1>4, <1>5, CountStep DEF LoadFirstPage
<1>8. QED
  BY <1>1, <1>3, <1>4, <1>6, <1>7, ListingAssumption

LEMMA FirstPageStep ==
  ASSUME IInv, NEW l \in Loads, LoadFirstPage(l), EntryType', chosen', reads' = 0,
         currentFilters' \in 0..MaxFilter, imageCache' \in BOOLEAN,
         ui' \in UiRecord, ui'.products = <<>>, ui'.filters = ui.filters,
         UNCHANGED <<loadMoreJob, brand, late, noToken>>
  PROVE  IInv'
<1> USE FirstPageLoads
<1>0. /\ currentPage' = 1 /\ isLoadingMore' = FALSE /\ hasReachedEnd' = FALSE
      /\ gen' = gen + 1 /\ Fresh(l)
  BY DEF LoadFirstPage, FirstPage
<1>1. PagingType'
  <2>1. currentPage' \in 1..(MaxLoads + 1) /\ gen' \in 0..MaxLoads
    BY <1>0, ListingAssumption
  <2>2. QED
    BY <1>0, <2>1 DEF IInv, PagingType, Nobody
<1>2. UiType'
  BY DEF UiType, UiRecord
<1>3. BrandType'
  BY DEF IInv, BrandType, BrandImagesOnce, All
<1>4. Counted'
  BY <1>0, ListingAssumption DEF IInv, Counted, PagingType
<1>5. Begun'
  <2>1. \A k \in Loads \ {l} : load'[k] = load[k] /\ load[k].gen <= gen'
    <3>1. gen \in Nat
      BY ListingAssumption DEF IInv, PagingType
    <3>2. QED
      BY <1>0, <3>1, LoadFacts DEF All
  <2>2. QED
    BY <1>0, <2>1, ListingAssumption DEF IInv, Begun, PagingType
<1>6. Single'
  BY DEF IInv, Single, All
<1>7. Asked'
  BY DEF Asked, Current
<1>8. Sound'
  BY <1>0 DEF Sound, Current
<1>9. QED
  BY <1>1, <1>2, <1>3, <1>4, <1>5, <1>6, <1>7, <1>8 DEF IInv

-----------------------------------------------------------------------------
(* Loads that move on *)

LEMMA Moved ==
  ASSUME IInv, NEW l \in All, NEW q \in PCs, load' = [load EXCEPT ![l].pc = q]
  PROVE  /\ LoadType' /\ load'[l].pc = q
         /\ \A k \in All : /\ load'[k].page = load[k].page /\ load'[k].more = load[k].more
                           /\ load'[k].query = load[k].query /\ load'[k].gen = load[k].gen
                           /\ k # l => load'[k] = load[k]
         /\ Started' = Started /\ Count' = Count
<1> DEFINE r == [load[l] EXCEPT !.pc = q]
<1>1. load \in [All -> LoadRecord] /\ load[l] \in LoadRecord
  BY DEF IInv, LoadType
<1>2. r \in LoadRecord /\ r.pc = q /\ r.page = load[l].page /\ r.more = load[l].more
      /\ r.query = load[l].query /\ r.gen = load[l].gen
  BY <1>1 DEF LoadRecord
<1>3. load' = [load EXCEPT ![l] = r]
  BY <1>1
<1> HIDE DEF r
<1>4. load'[l] = r /\ \A k \in All : k # l => load'[k] = load[k]
  BY <1>1, <1>3
<1>5. LoadType'
  BY <1>1, <1>2, <1>3 DEF LoadType
<1>6. \A k \in Loads : load'[k].gen = load[k].gen
  BY <1>2, <1>4 DEF All
<1>7. QED
  BY <1>2, <1>4, <1>5, <1>6, CountSame

\* Whoever stops fetching images, or never did, may do it with the lock.
LEMMA BrandMoved ==
  ASSUME IInv, NEW l \in All, load'[l].pc # "images",
         \A k \in All : k # l => load'[k] = load[k], brand' = brand
  PROVE  BrandType'
BY DEF IInv, BrandType, BrandImagesOnce, All

\* Between the request and the page on the screen nothing changes but pc.
LEMMA StayStep ==
  ASSUME IInv, NEW l \in All, NEW q \in PCs, load' = [load EXCEPT ![l].pc = q],
         l # Home => load[l].pc \notin {"idle", "token"} /\ q \notin {"idle", "token"},
         BrandType', UNCHANGED <<entry, paging, ui, gen, late, noToken>>
  PROVE  IInv'
<1> USE Moved DEF entry, paging
<1>1. EntryType' /\ PagingType' /\ UiType'
  BY DEF IInv, EntryType, PagingType, UiType
<1>2. Counted'
  BY DEF IInv, Counted
<1>3. \A k \in Loads : /\ Active(k)' <=> Active(k)
                       /\ load'[k].pc = "token" <=> load[k].pc = "token"
  <2> SUFFICES ASSUME NEW k \in Loads
               PROVE  /\ Active(k)' <=> Active(k)
                      /\ load'[k].pc = "token" <=> load[k].pc = "token"
    OBVIOUS
  <2>1. CASE k # l
    BY <2>1 DEF All
  <2>2. CASE k = l
    BY <2>2
  <2>3. QED
    BY <2>1, <2>2
<1>4. Begun' /\ Single'
  BY <1>3 DEF IInv, Begun, Single, All
<1>5. Asked' /\ Sound'
  BY <1>3 DEF IInv, Asked, Sound, Current, All
<1>6. QED
  BY <1>1, <1>2, <1>4, <1>5 DEF IInv

\* A load that ends without a page leaves an error behind.
LEMMA EndStep ==
  ASSUME IInv, NEW l \in Loads, Active(l), NEW u \in {Failed(ui), NoToken(ui)},
         EndWith(l, u), noToken' \in BOOLEAN, UNCHANGED <<entry, brand, gen>>
  PROVE  IInv'
<1> USE DEF entry
<1>0. /\ ui' = u /\ isLoadingMore' = FALSE
      /\ UNCHANGED <<currentFilters, currentPage, hasReachedEnd, imageCache, loadMoreJob, late>>
      /\ load' = [load EXCEPT ![l].pc = "idle"] /\ l \in All /\ "idle" \in PCs
  BY DEF EndWith, All, PCs
<1> USE <1>0, Moved, FailFacts
<1>1. EntryType' /\ PagingType'
  BY DEF IInv, EntryType, PagingType
<1>2. UiType'
  BY DEF UiType, UiRecord
<1>3. BrandType'
  BY BrandMoved
<1>4. Counted'
  BY DEF IInv, Counted
<1>5. \A k \in Loads : Active(k)' => Active(k) /\ load'[k] = load[k]
  BY DEF All
<1>6. Begun' /\ Single'
  BY <1>5 DEF IInv, Begun, Single, All
<1>7. Asked'
  BY <1>5 DEF IInv, Asked, Current
<1>8. Sound'
  BY <1>5 DEF IInv, Sound, Current
<1>9. QED
  BY <1>1, <1>2, <1>3, <1>4, <1>6, <1>7, <1>8 DEF IInv

\* The list with the page of the current load.
LEMMA ShownFacts ==
  ASSUME IInv, ~late, NEW l \in Loads, Current(l), load[l].gen # 0,
         load[l].pc # "token", NEW found \in BOOLEAN
  PROVE  /\ \A i \in DOMAIN Shown(l, found) : Shown(l, found)[i] = <<currentFilters, i>>
         /\ \/ Shown(l, found) = <<>> \/ ~(found /\ load[l].page < LastPage)
            \/ currentPage = Len(Shown(l, found))
<1>1. load[l].query = currentFilters
  BY DEF IInv, Asked
<1>2. ui.products \in Seq(Page) /\ Len(ui.products) \in Nat
  BY DEF IInv, UiType
<1>3. CASE ~found
  BY <1>2, <1>3, ConcatEmptySeq, EmptySeq DEF Shown, New, IInv, Sound
<1>4. CASE found /\ ~(load[l].page <= LastPage)
  <2>1. New(l, found) = <<>> /\ ~(load[l].page < LastPage)
    BY <1>4, LoadFacts, ListingAssumption DEF New, Chunk
  <2>2. QED
    BY <1>2, <2>1, ConcatEmptySeq, EmptySeq DEF Shown, IInv, Sound
<1>5. CASE found /\ load[l].page <= LastPage
  <2>1. New(l, found) = << <<currentFilters, load[l].page>> >>
    BY <1>1, <1>5 DEF New, Chunk
  <2>2. CASE load[l].more
    <3>1. load[l].page = Len(ui.products) + 1 /\ load[l].page = currentPage
      BY <2>2 DEF IInv, Sound
    <3>2. Shown(l, found) = Append(ui.products, <<currentFilters, Len(ui.products) + 1>>)
      BY <1>2, <2>1, <2>2, <3>1 DEF Shown
    <3>3. \A i \in 1..Len(ui.products) : ui.products[i] = <<currentFilters, i>>
      BY <1>2 DEF IInv, Sound
    <3>4. QED
      BY <1>2, <3>1, <3>2, <3>3
  <2>3. CASE ~load[l].more
    <3>1. load[l].page = 1 /\ currentPage = 1
      BY <2>3 DEF IInv, Asked, Sound
    <3>2. Shown(l, found) = << <<currentFilters, 1>> >>
      BY <2>1, <2>3, <3>1 DEF Shown
    <3>3. QED
      BY <3>1, <3>2
  <2>4. QED
    BY <2>2, <2>3
<1>6. QED
  BY <1>3, <1>4, <1>5

LEMMA ApplyStep ==
  ASSUME IInv, NEW l \in Loads, Active(l), load[l].pc # "token", NEW found \in BOOLEAN,
         ApplyPage(l, found), BrandType', UNCHANGED <<entry, gen, noToken>>
  PROVE  IInv'
<1> USE DEF entry
<1>a. load[l].gen # 0 /\ gen # 0
  BY LoadFacts DEF IInv, Begun
<1>0. /\ ui' = Paged(ui, l, found) /\ isLoadingMore' = FALSE
      /\ UNCHANGED <<currentFilters, currentPage, loadMoreJob>>
      /\ load' = [load EXCEPT ![l].pc = "idle"] /\ l \in All /\ "idle" \in PCs
  BY DEF ApplyPage, All, PCs
<1> USE <1>0, <1>a, Moved, PagedFacts
<1>1. EntryType' /\ PagingType'
  <2>0. imageCache' \in BOOLEAN
    BY DEF ApplyPage, CacheAfter, IInv, PagingType
  <2>1. hasReachedEnd' \in BOOLEAN /\ imageCache' \in BOOLEAN /\ late' \in BOOLEAN
    BY <2>0 DEF ApplyPage
  <2>2. QED
    BY <2>1 DEF IInv, EntryType, PagingType
<1>2. UiType'
  BY DEF UiType, UiRecord
<1>4. Counted'
  BY DEF IInv, Counted
<1>5. \A k \in Loads : Active(k)' => Active(k) /\ load'[k] = load[k]
  BY DEF All
<1>6. Begun' /\ Single'
  BY <1>5 DEF IInv, Begun, Single, All
<1>7. Asked'
  BY <1>5 DEF IInv, Asked, Current
<1>8. Sound'
  <2>1. late' <=> late \/ load[l].gen # gen
    BY DEF ApplyPage
  <2>2. ~late' => /\ ~late /\ Current(l)
                  /\ \A k \in Loads : ~Current(k)'
    <3>1. ~late' => ~late /\ Current(l)
      BY <2>1 DEF Current
    <3>2. \A k \in Loads : Current(k)' => Current(k) /\ k # l
      <4>1. ~Active(l)'
        OBVIOUS
      <4>2. QED
        BY <1>5, <4>1 DEF Current
    <3>3. QED
      BY <3>1, <3>2 DEF IInv, Sound
  <2>3. hasReachedEnd' <=> ~(found /\ load[l].page < LastPage)
    BY DEF ApplyPage
  <2>4. QED
    BY <2>2, <2>3, ShownFacts DEF Sound
<1>9. QED
  BY <1>1, <1>2, <1>4, <1>6, <1>7, <1>8 DEF IInv

-----------------------------------------------------------------------------
(* The actions *)

LEMMA InitInv == Init => IInv
<1> SUFFICES ASSUME Init PROVE IInv
  OBVIOUS
<1> USE DEF Init
<1>1. EntryType
  BY ListingAssumption DEF EntryType
<1>2. PagingType
  <2>1. 0 \in 0..MaxFilter /\ 1 \in 1..(MaxLoads + 1) /\ 0 \in 0..MaxLoads
    BY ListingAssumption
  <2>2. QED
    BY <2>1 DEF PagingType
<1>3. UiType
  BY EmptySeq DEF UiType
<1>4. LoadType /\ \A l \in All : load[l] = Idle
  BY IdleFacts DEF LoadType, All
<1>5. BrandType
  BY <1>4, IdleFacts DEF BrandType, BrandImagesOnce, All
<1>6. \A l \in Loads : load[l].gen = 0 /\ load[l].pc = "idle" /\ ~load[l].more
  BY <1>4, IdleFacts DEF All, Idle
<1>7. Counted
  <2>1. Started = {} /\ Count = 0
    BY <1>6, FS_EmptySet DEF Started, Count
  <2>2. QED
    BY <2>1, ListingAssumption DEF Counted
<1>8. Begun /\ Single /\ Asked /\ Sound
  BY <1>6 DEF Begun, Single, Asked, Sound, Current
<1>9. QED
  BY <1>1, <1>2, <1>3, <1>4, <1>5, <1>7, <1>8 DEF IInv

\* Nothing but the entry of the screen changes.
LEMMA EntryStep ==
  ASSUME IInv, EntryType', gen # 0 => chosen', reads' # 0 => ~chosen' /\ visual' /\ isVisualSearchLoading',
         ui' \in UiRecord, ui'.products = ui.products, ui'.filters = ui.filters,
         ui.error => ui'.error,
         UNCHANGED <<paging, load, brand, gen, late, noToken>>
  PROVE  IInv'
<1> USE DEF paging
<1>1. PagingType' /\ LoadType' /\ BrandType' /\ Single'
  BY DEF IInv, PagingType, LoadType, BrandType, BrandImagesOnce, Single
<1>2. UiType'
  BY DEF UiType, UiRecord
<1>3. Counted'
  BY CountSame DEF IInv, Counted
<1>4. Begun'
  BY DEF IInv, Begun
<1>5. Asked' /\ Sound'
  BY DEF IInv, Asked, Sound, Current
<1>6. QED
  BY <1>1, <1>2, <1>3, <1>4, <1>5 DEF IInv

LEMMA EnterStep ==
  ASSUME IInv, NEW l \in Loads, checkAndLoadVisualSearchOrCategory(l) PROVE IInv'
<1> USE DEF checkAndLoadVisualSearchOrCategory, Enter
<1>0. opens' \in 0..MaxOpens /\ visual' = visual /\ UNCHANGED <<brand, late, noToken>>
  BY ListingAssumption DEF IInv, EntryType
<1>a. ui \in UiRecord
  BY DEF IInv, UiType, UiRecord
<1>1. CASE visual /\ ~chosen /\ ~isVisualSearchLoading /\ ReadImage
  <2>1. /\ reads = 0 /\ reads' = 1 /\ isVisualSearchLoading' = TRUE /\ chosen' = chosen
        /\ UNCHANGED <<paging, ui, load, gen>>
    BY <1>1 DEF IInv, EntryType, Begun, ReadImage
  <2>2. EntryType'
    BY <1>0, <2>1 DEF IInv, EntryType
  <2>3. QED
    BY <1>0, <1>1, <1>a, <2>1, <2>2, EntryStep DEF IInv, Begun
<1>2. CASE /\ ~visual /\ ~chosen
           /\ chosen' = TRUE /\ LoadFirstPage(l) /\ currentFilters' = 0 /\ ui' = Emptied(ui)
           /\ UNCHANGED <<isVisualSearchLoading, reads, imageCache, loadMoreJob>>
  <2>1. reads' = 0 /\ EntryType'
    BY <1>0, <1>2 DEF IInv, EntryType, Begun
  <2>2. 0 \in 0..MaxFilter /\ imageCache' \in BOOLEAN
    BY <1>2, ListingAssumption DEF IInv, PagingType
  <2>3. QED
    BY <1>0, <1>2, <2>1, <2>2, EmptiedFacts, FirstPageStep
<1>3. CASE UNCHANGED <<chosen, isVisualSearchLoading, reads, paging, ui, load, gen>>
  <2>1. EntryType'
    BY <1>0, <1>3 DEF IInv, EntryType
  <2>2. QED
    BY <1>0, <1>3, <1>a, <2>1, EntryStep DEF IInv, Begun
<1>4. QED
  BY <1>1, <1>2, <1>3

LEMMA VisualStep ==
  ASSUME IInv, NEW l \in Loads, loadProductsByVisualSearch(l) PROVE IInv'
<1>0. /\ reads' = 0 /\ isVisualSearchLoading' = FALSE
      /\ UNCHANGED <<visual, opens, currentFilters, loadMoreJob, brand, late, noToken>>
  BY DEF IInv, EntryType, loadProductsByVisualSearch
<1>b. chosen' \in BOOLEAN => EntryType'
  <2>1. isVisualSearchLoading' \in BOOLEAN
    BY <1>0
  <2>2. reads' \in 0..1 /\ opens' \in 0..MaxOpens /\ reads' <= opens'
    BY <1>0, ListingAssumption DEF IInv, EntryType
  <2>3. QED
    BY <1>0, <2>1, <2>2 DEF IInv, EntryType
<1>1. CASE chosen' = TRUE /\ LoadFirstPage(l) /\ ui' = Emptied(ui) /\ imageCache' = FALSE
  <2>1. EntryType' /\ currentFilters' \in 0..MaxFilter
    BY <1>0, <1>b, <1>1 DEF IInv, PagingType
  <2>2. QED
    BY <1>0, <1>1, <2>1, EmptiedFacts, FirstPageStep
<1>2. CASE /\ ui' = [ui EXCEPT !.isLoading = FALSE, !.error = TRUE]
           /\ UNCHANGED <<chosen, load, gen, currentPage, isLoadingMore, hasReachedEnd,
                          imageCache>>
  <2>1. EntryType'
    BY <1>b, <1>2 DEF IInv, EntryType
  <2>2. ui' = NoToken(ui)
    BY <1>2 DEF NoToken
  <2>3. QED
    BY <1>0, <1>2, <2>1, <2>2, FailFacts, EntryStep DEF IInv, Begun, paging
<1>3. QED
  BY <1>1, <1>2 DEF loadProductsByVisualSearch

LEMMA FilterStep ==
  ASSUME IInv, NEW l \in Loads, applyFilters(l) PROVE IInv'
<1> USE DEF applyFilters, entry
<1>1. EntryType' /\ chosen' /\ reads' = 0
  BY DEF IInv, EntryType, Begun
<1>2. ui' \in UiRecord /\ ui'.products = <<>> /\ ui'.filters = ui.filters
  BY EmptiedFacts DEF UiRecord
<1>3. imageCache' \in BOOLEAN
  BY DEF IInv, PagingType
<1>4. QED
  BY <1>1, <1>2, <1>3, FirstPageStep

LEMMA TokenStep ==
  ASSUME IInv, NEW l \in Loads, ReadToken(l) PROVE IInv'
<1>1. CASE /\ load' = [load EXCEPT ![l].pc = "sent", ![l].query = currentFilters]
           /\ UNCHANGED <<paging, ui, late, noToken, entry, brand, gen>>
  <2> USE DEF entry, paging
  <2> DEFINE r == [load[l] EXCEPT !.pc = "sent", !.query = currentFilters]
  <2>1. load \in [All -> LoadRecord] /\ load[l] \in LoadRecord /\ l \in All
    BY DEF IInv, LoadType, All
  <2>2. currentFilters \in 0..MaxFilter /\ "sent" \in PCs
    BY DEF IInv, PagingType, PCs
  <2>3. r \in LoadRecord /\ r.pc = "sent" /\ r.page = load[l].page /\ r.more = load[l].more
        /\ r.query = currentFilters /\ r.gen = load[l].gen
    BY <2>1, <2>2 DEF LoadRecord
  <2>4. load' = [load EXCEPT ![l] = r]
    BY <1>1, <2>1
  <2> HIDE DEF r
  <2>5. /\ LoadType' /\ load'[l] = r
        /\ \A k \in All : k # l => load'[k] = load[k]
    BY <2>1, <2>3, <2>4 DEF LoadType
  <2>6. EntryType' /\ PagingType' /\ UiType'
    BY <1>1 DEF IInv, EntryType, PagingType, UiType
  <2>7. BrandType'
    BY <1>1, <2>1, <2>3, <2>5, BrandMoved
  <2>8. /\ Started' = Started /\ Count' = Count
        /\ \A k \in Loads : /\ load'[k].page = load[k].page /\ load'[k].more = load[k].more
                            /\ load'[k].gen = load[k].gen /\ (Active(k)' <=> Active(k))
    <3>1. load[l].pc = "token"
      BY DEF ReadToken
    <3>2. \A k \in Loads : /\ load'[k].page = load[k].page /\ load'[k].more = load[k].more
                           /\ load'[k].gen = load[k].gen /\ (Active(k)' <=> Active(k))
      BY <2>3, <2>5, <3>1 DEF All
    <3>3. QED
      BY <3>2, CountSame
  <2>a. \A k \in Loads : Current(k)' <=> Current(k)
    BY <1>1, <2>8 DEF Current
  <2>b. Sound'
    <3>1. /\ late' = late /\ ui' = ui /\ currentFilters' = currentFilters
          /\ isLoadingMore' = isLoadingMore /\ currentPage' = currentPage
          /\ hasReachedEnd' = hasReachedEnd
      BY <1>1
    <3>2. Sound
      BY DEF IInv
    <3>3. QED
      BY <2>8, <2>a, <3>1, <3>2, SMTT(20) DEF Sound
  <2>c. Begun' /\ Single'
    BY <1>1, <2>8 DEF IInv, Begun, Single
  <2>9. Counted' /\ Begun' /\ Single' /\ Sound'
    BY <1>1, <2>8, <2>b, <2>c DEF IInv, Counted
  <2>10. Asked'
    <3>1. \A k \in Loads : Current(k) /\ k # l /\ load'[k].pc # "token"
                            => load'[k].query = currentFilters
      BY <2>5 DEF IInv, Asked, All
    <3>2. load'[l].query = currentFilters
      BY <2>3, <2>5
    <3>3. QED
      BY <1>1, <2>8, <2>a, <3>1, <3>2 DEF IInv, Asked
  <2>11. QED
    BY <2>5, <2>6, <2>7, <2>9, <2>10 DEF IInv
<1>2. CASE EndWith(l, NoToken(ui)) /\ noToken' = TRUE /\ UNCHANGED <<entry, brand, gen>>
  BY <1>2, EndStep DEF ReadToken
<1>3. QED
  BY <1>1, <1>2 DEF ReadToken

LEMMA PageStep ==
  ASSUME IInv, NEW l \in Loads, PageArrives(l) PROVE IInv'
<1>0. load[l].pc = "sent" /\ UNCHANGED <<entry, brand, gen, noToken>> /\ l \in All
  BY DEF PageArrives, All
<1>1. CASE EndWith(l, Failed(ui))
  BY <1>0, <1>1, EndStep DEF IInv, PagingType
<1>2. CASE \E found \in BOOLEAN : ApplyPage(l, found)
  <2>1. load' = [load EXCEPT ![l].pc = "idle"] /\ "idle" \in PCs
    BY <1>2 DEF ApplyPage, PCs
  <2>2. BrandType'
    BY <1>0, <2>1, Moved, BrandMoved
  <2>3. QED
    BY <1>0, <1>2, <2>2, ApplyStep
<1>3. CASE load' = [load EXCEPT ![l].pc = "lock"] /\ UNCHANGED <<paging, ui, late>>
  <2>1. "lock" \in PCs
    BY DEF PCs
  <2>2. BrandType'
    BY <1>0, <1>3, <2>1, Moved, BrandMoved
  <2>3. QED
    BY <1>0, <1>3, <2>1, <2>2, StayStep
<1>4. QED
  BY <1>1, <1>2, <1>3 DEF PageArrives

LEMMA HomeStep ==
  ASSUME IInv, getBrandImages PROVE IInv'
<1>1. "lock" \in PCs /\ Home \in All
  BY DEF PCs, All
<1>2. load' = [load EXCEPT ![Home].pc = "lock"]
      /\ UNCHANGED <<entry, paging, ui, brand, gen, late, noToken>>
  BY DEF getBrandImages
<1>3. load'[Home].pc = "lock" /\ \A k \in All : k # Home => load'[k] = load[k]
  BY <1>1, <1>2, Moved
<1>4. BrandType'
  BY <1>1, <1>2, <1>3, BrandMoved
<1>5. QED
  BY <1>1, <1>2, <1>4, StayStep

\* The page is shown once the brand images are there, or are not to be had.
LEMMA ShowStep ==
  ASSUME IInv, NEW l \in All, load[l].pc \in {"lock", "images"}, ShowPage(l), BrandType',
         UNCHANGED <<entry, gen, noToken>>
  PROVE  IInv'
<1>1. CASE l = Home
  <2>1. load' = [load EXCEPT ![l].pc = "idle"] /\ UNCHANGED <<paging, ui, late>>
        /\ "idle" \in PCs
    BY <1>1 DEF ShowPage, PCs
  <2>2. QED
    BY <1>1, <2>1, StayStep
<1>2. CASE l # Home
  <2>1. l \in Loads /\ ApplyPage(l, TRUE)
    BY <1>2 DEF All, ShowPage
  <2>2. QED
    BY <2>1, ApplyStep
<1>3. QED
  BY <1>1, <1>2

LEMMA ShowMoves ==
  ASSUME IInv, NEW l \in All, ShowPage(l)
  PROVE  load'[l].pc = "idle" /\ \A k \in All : k # l => load'[k] = load[k]
<1>1. load' = [load EXCEPT ![l].pc = "idle"] /\ "idle" \in PCs
  BY DEF ShowPage, ApplyPage, PCs
<1>2. QED
  BY <1>1, Moved

LEMMA LockStep ==
  ASSUME IInv, NEW l \in All, LockBrandImages(l) PROVE IInv'
<1>0. load[l].pc = "lock" /\ brand.owner = Nobody /\ UNCHANGED <<entry, gen, noToken>>
  BY DEF LockBrandImages
<1>1. CASE brand.cached
  <2>1. ShowPage(l) /\ brand' = brand
    BY <1>1 DEF LockBrandImages
  <2>2. BrandType'
    BY <2>1, ShowMoves, BrandMoved
  <2>3. QED
    BY <1>0, <2>1, <2>2, ShowStep
<1>2. CASE ~brand.cached
  <2>1. /\ brand' = [brand EXCEPT !.isLoading = TRUE, !.owner = l]
        /\ load' = [load EXCEPT ![l].pc = "images"] /\ "images" \in PCs
        /\ UNCHANGED <<paging, ui, late>>
    BY <1>2 DEF LockBrandImages, PCs
  <2>2. BrandType'
    <3>1. l # Nobody
      BY ListingAssumption DEF All, Nobody
    <3>2. /\ brand' \in [cached: BOOLEAN, isLoading: BOOLEAN, owner: {Nobody} \cup All]
          /\ brand'.owner = l /\ ~brand'.cached
      BY <1>2, <2>1 DEF IInv, BrandType
    <3>3. \A k \in All : k # l => load'[k].pc # "images"
      <4>1. \A k \in All : load[k].pc # "images"
        <5>1. \A k \in All : k # Nobody
          BY ListingAssumption DEF All, Nobody
        <5>2. QED
          BY <1>0, <5>1 DEF IInv, BrandType, BrandImagesOnce, All
      <4>2. QED
        BY <2>1, <4>1, Moved
    <3>4. QED
      BY <3>1, <3>2, <3>3 DEF BrandType, BrandImagesOnce, All
  <2>3. QED
    BY <1>0, <2>1, <2>2, StayStep
<1>3. QED
  BY <1>1, <1>2

LEMMA ImagesStep ==
  ASSUME IInv, NEW l \in All, BrandImagesArrive(l) PROVE IInv'
<1>0. load[l].pc = "images" /\ ShowPage(l) /\ UNCHANGED <<entry, gen, noToken>>
  BY DEF BrandImagesArrive
<1>1. brand' \in [cached: BOOLEAN, isLoading: BOOLEAN, owner: {Nobody} \cup All]
      /\ ~brand'.isLoading
  BY DEF BrandImagesArrive
<1>2. \A k \in All : load'[k].pc # "images"
  BY <1>0, ShowMoves DEF IInv, BrandType, BrandImagesOnce, All
<1>3. BrandType'
  BY <1>1, <1>2 DEF BrandType, BrandImagesOnce, All
<1>4. QED
  BY <1>0, <1>3, ShowStep

-----------------------------------------------------------------------------
(* Loading more: the old load is run to its end, the new one asks for the  *)
(* page after the last.                                                    *)

\* A load-more that may be started is not under the current load, so what it
\* cancels is of an earlier generation.
LEMMA CancelsOld ==
  ASSUME IInv, CanLoadMore, ~late
  PROVE  \A k \in Loads : ~Current(k)
BY DEF IInv, Sound, CanLoadMore

LEMMA LoadMoreLoads ==
  ASSUME IInv, NEW l \in Loads, loadMoreProducts(l)
  PROVE  /\ LoadType'
         /\ load'[l].pc = "token" /\ load'[l].page = currentPage + 1 /\ load'[l].more
         /\ load'[l].gen = gen
         /\ \A k \in All \ {l} :
              /\ load'[k] = [load[k] EXCEPT !.pc = "idle"] \/ load'[k] = load[k]
              /\ k = loadMoreJob /\ k \in Loads => load'[k].pc = "idle"
              /\ k # loadMoreJob \/ k \notin Loads => load'[k] = load[k]
         /\ Started' = 1..Count' /\ Count' = Count + 1 /\ Count' \in 0..MaxLoads
         /\ gen # 0 /\ currentPage + 1 <= Count' + 1
<1> DEFINE c == loadMoreJob
           busy == Cancellable(c)
           p == currentPage + 1
           r == [Idle EXCEPT !.pc = "token", !.page = p, !.more = TRUE, !.gen = gen]
<1>0. l = Count + 1 /\ Fresh(l) /\ l # Home /\ gen # 0 /\ gen \in 0..MaxLoads
  BY FreshFacts DEF loadMoreProducts, CanLoadMore, IInv, Begun, PagingType
<1>1. p \in 0..(MaxLoads + 1) /\ p <= Count + 2
  BY <1>0, ListingAssumption DEF IInv, PagingType, Counted
<1>2. /\ r \in LoadRecord /\ r.pc = "token" /\ r.page = p /\ r.more /\ r.gen = gen
  <2>1. "token" \in PCs
    BY DEF PCs
  <2> HIDE DEF p
  <2>2. QED
    BY <1>0, <1>1, <2>1, IdleFacts DEF LoadRecord
<1>3. load \in [All -> LoadRecord] /\ l \in All
  BY DEF IInv, LoadType, All
<1>4. load' = [i \in All |->
        IF i = l THEN r
        ELSE IF busy /\ i = c THEN [load[i] EXCEPT !.pc = "idle"] ELSE load[i]]
  BY <1>3 DEF loadMoreProducts, LoadMore
<1>5. \A i \in All : [load[i] EXCEPT !.pc = "idle"] \in LoadRecord
                     /\ [load[i] EXCEPT !.pc = "idle"].gen = load[i].gen
                     /\ [load[i] EXCEPT !.pc = "idle"].pc = "idle"
  BY <1>3 DEF LoadRecord, PCs
<1> HIDE DEF r, p
<1>6. LoadType' /\ load'[l] = r
  BY <1>2, <1>3, <1>4, <1>5 DEF LoadType
<1>7. \A k \in All \ {l} :
              /\ load'[k] = [load[k] EXCEPT !.pc = "idle"] \/ load'[k] = load[k]
              /\ k = loadMoreJob /\ k \in Loads => load'[k].pc = "idle"
              /\ k # loadMoreJob \/ k \notin Loads => load'[k] = load[k]
  BY <1>4, <1>5 DEF Cancellable
<1>8. \A k \in Loads \ {l} : load'[k].gen = load[k].gen
  BY <1>5, <1>7 DEF All
<1>9. Started' = 1..Count' /\ Count' = Count + 1 /\ Count' \in 0..MaxLoads
  BY <1>0, <1>2, <1>6, <1>8, CountStep
<1>10. QED
  BY <1>0, <1>1, <1>2, <1>6, <1>7, <1>9, ListingAssumption DEF p, IInv, Counted

LEMMA MoreStep ==
  ASSUME IInv, NEW l \in Loads, loadMoreProducts(l) PROVE IInv'
<1> DEFINE c == loadMoreJob
           busy == Cancellable(c)
           adds == busy /\ load[c].pc = "images"
<1>0. /\ CanLoadMore /\ Fresh(l) /\ isLoadingMore' = ~busy /\ currentPage' = currentPage + 1
      /\ loadMoreJob' = l /\ UNCHANGED <<entry, currentFilters, gen>>
      /\ (late' <=> late \/ (adds /\ load[c].gen # gen))
      /\ brand' = IF adds THEN [brand EXCEPT !.isLoading = FALSE, !.owner = Nobody] ELSE brand
      /\ ui' = IF ~busy THEN ui
               ELSE IF adds THEN Paged(ui, c, TRUE)
               ELSE IF load[c].pc = "token" THEN NoToken(ui) ELSE Failed(ui)
  BY DEF loadMoreProducts, LoadMore
<1>a. busy => c \in Loads /\ Active(c) /\ load[c].gen # 0
  BY DEF Cancellable, IInv, Begun
<1>b. \A k \in Loads \ {l} : /\ load'[k].page = load[k].page /\ load'[k].more = load[k].more
                             /\ load'[k].query = load[k].query /\ load'[k].gen = load[k].gen
                             /\ Active(k)' => load'[k] = load[k]
  <2>1. \A k \in Loads : load[k] \in LoadRecord
    BY DEF IInv, LoadType, All
  <2>2. \A k \in All \ {l} :
          /\ load'[k] = [load[k] EXCEPT !.pc = "idle"] \/ load'[k] = load[k]
          /\ k = loadMoreJob /\ k \in Loads => load'[k].pc = "idle"
          /\ k # loadMoreJob \/ k \notin Loads => load'[k] = load[k]
    BY LoadMoreLoads
  <2>3. SUFFICES ASSUME NEW k \in Loads \ {l}
                 PROVE  /\ load'[k].page = load[k].page /\ load'[k].more = load[k].more
                        /\ load'[k].query = load[k].query /\ load'[k].gen = load[k].gen
                        /\ Active(k)' => load'[k] = load[k]
    OBVIOUS
  <2>4. k \in All \ {l} /\ load[k] \in LoadRecord
    BY <2>1 DEF All
  <2>5. load'[k] = load[k] \/ (load'[k] = [load[k] EXCEPT !.pc = "idle"] /\ ~Active(k)')
    BY <2>2, <2>4
  <2>6. QED
    BY <2>4, <2>5 DEF LoadRecord
<1>c. /\ LoadType'
      /\ load'[l].pc = "token" /\ load'[l].page = currentPage + 1 /\ load'[l].more
      /\ load'[l].gen = gen /\ gen # 0 /\ gen \in Nat /\ currentPage \in Nat
      /\ Started' = 1..Count' /\ Count' = Count + 1 /\ Count' \in 0..MaxLoads
      /\ currentPage + 1 <= Count' + 1
  BY LoadMoreLoads, ListingAssumption DEF IInv, PagingType
<1>1. EntryType' /\ PagingType'
  <2>a. hasReachedEnd' \in BOOLEAN
    <3>1. hasReachedEnd' = IF adds THEN load[c].page >= LastPage ELSE hasReachedEnd
      BY DEF loadMoreProducts, LoadMore
    <3>2. CASE adds
      <4>1. hasReachedEnd' = (load[c].page >= LastPage)
        BY <3>1, <3>2
      <4>2. QED
        BY <4>1
    <3>3. CASE ~adds
      BY <3>1, <3>3 DEF IInv, PagingType
    <3>4. QED
      BY <3>2, <3>3
  <2>i. imageCache' \in BOOLEAN
    BY DEF loadMoreProducts, LoadMore, CacheAfter, IInv, PagingType
  <2>b. imageCache' \in BOOLEAN /\ noToken' \in BOOLEAN
    BY <2>i DEF loadMoreProducts, LoadMore
  <2>c. late' \in BOOLEAN /\ isLoadingMore' \in BOOLEAN
    BY DEF loadMoreProducts, LoadMore
  <2>1. hasReachedEnd' \in BOOLEAN /\ imageCache' \in BOOLEAN /\ noToken' \in BOOLEAN
        /\ late' \in BOOLEAN /\ isLoadingMore' \in BOOLEAN
    BY <2>a, <2>b, <2>c
  <2>2. currentPage' \in 1..(MaxLoads + 1)
    BY <1>0, <1>c, ListingAssumption DEF IInv, PagingType
  <2>3. QED
    BY <1>0, <2>1, <2>2 DEF IInv, EntryType, PagingType, entry
<1>2. ui' \in UiRecord
  <2>1. ui \in UiRecord
    BY DEF IInv, UiType, UiRecord
  <2>2. QED
    BY <1>0, <1>a, <2>1, PagedFacts, FailFacts
<1>3. UiType'
  BY <1>2 DEF UiType, UiRecord
<1>4. BrandType'
  <2>1. brand' \in [cached: BOOLEAN, isLoading: BOOLEAN, owner: {Nobody} \cup All]
        /\ brand'.cached = brand.cached
    BY <1>0 DEF IInv, BrandType
  <2>2. \A k \in All : load'[k].pc = "images" => load[k].pc = "images" /\ k # l
    BY <1>c, LoadMoreLoads DEF All
  <2>3. CASE adds
    <3>1. \A k \in All : load'[k].pc # "images"
      <4>1. c # l /\ load'[c].pc = "idle" /\ c \in All
        BY <1>0, <1>a, <2>3, FreshFacts, LoadMoreLoads DEF All
      <4>2. \A k \in All : load[k].pc = "images" => k = c
        BY <1>a, <2>3 DEF IInv, BrandType, BrandImagesOnce, All
      <4>3. QED
        BY <2>2, <4>1, <4>2
    <3>2. ~brand'.isLoading
      BY <1>0, <2>3 DEF IInv, BrandType
    <3>3. QED
      BY <2>1, <3>1, <3>2 DEF BrandType, BrandImagesOnce, All
  <2>4. CASE ~adds
    BY <1>0, <2>1, <2>2, <2>4 DEF IInv, BrandType, BrandImagesOnce, All
  <2>5. QED
    BY <2>3, <2>4
<1>5. Counted'
  BY <1>0, <1>c, ListingAssumption DEF IInv, Counted
<1>6. Begun'
  <2>1. \A k \in Loads \ {l} : load'[k].gen = load[k].gen /\ load'[k].page = load[k].page
                               /\ (Active(k)' => Active(k))
    BY <1>b
  <2>2. \A k \in Loads : /\ load'[k].gen = 0 => ~Active(k)'
                         /\ load'[k].gen # 0 => load'[k].page > 0
                         /\ load'[k].gen <= gen
    BY <1>c, <2>1 DEF IInv, Begun
  <2>3. UNCHANGED <<visual, chosen, isVisualSearchLoading, reads, gen>>
    BY <1>0 DEF entry
  <2>4. QED
    BY <1>c, <2>2, <2>3 DEF IInv, Begun
<1>7. Single'
  <2>1. \A k \in Loads \ {l} : k = c => ~Active(k)'
    BY LoadMoreLoads DEF All
  <2>2. QED
    BY <1>0, <1>b, <2>1 DEF IInv, Single
<1>8. Asked'
  BY <1>0, <1>b, <1>c DEF IInv, Asked, Current
<1>9. Sound'
  <2> SUFFICES ASSUME ~late' PROVE Sound'
    BY DEF Sound
  <2>1. ~late /\ \A k \in Loads : ~Current(k)
    BY <1>0, CancelsOld
  <2>2. ~adds
    BY <1>0, <1>a, <2>1 DEF Current
  <2>3. \A k \in Loads : Current(k)' <=> k = l
    BY <1>0, <1>b, <1>c, <2>1 DEF Current
  <2>4. ui'.products = ui.products /\ (isLoadingMore' \/ ui'.error)
    BY <1>0, <2>2, FailFacts
  <2>5. ui.products # <<>> /\ currentPage = Len(ui.products)
    BY <1>0, <2>1 DEF CanLoadMore, IInv, Sound
  <2>6. QED
    BY <1>0, <1>c, <2>1, <2>3, <2>4, <2>5 DEF IInv, Sound
<1>10. QED
  BY <1>1, <1>3, <1>4, <1>5, <1>6, <1>7, <1>8, <1>9, <1>c DEF IInv

-----------------------------------------------------------------------------
LEMMA SameInv == ASSUME IInv, UNCHANGED vars PROVE IInv'
<1> USE DEF vars, entry, paging
<1>1. ui \in UiRecord /\ EntryType'
  BY DEF IInv, UiType, UiRecord, EntryType
<1>2. QED
  BY <1>1, EntryStep DEF IInv, Begun

LEMMA NextInv == IInv /\ [Next]_vars => IInv'
<1> SUFFICES ASSUME IInv, [Next]_vars PROVE IInv'
  OBVIOUS
<1>1. CASE UNCHANGED vars
  BY <1>1, SameInv
<1>2. ASSUME NEW l \in Loads,
             \/ checkAndLoadVisualSearchOrCategory(l) \/ loadProductsByVisualSearch(l)
             \/ applyFilters(l) \/ loadMoreProducts(l) \/ LoadStep(l)
      PROVE  IInv'
  BY <1>2, EnterStep, VisualStep, FilterStep, MoreStep, TokenStep, PageStep DEF LoadStep
<1>3. ASSUME NEW l \in All, LockBrandImages(l) \/ BrandImagesArrive(l)
      PROVE  IInv'
  BY <1>3, LockStep, ImagesStep
<1>4. QED
  BY <1>1, <1>2, <1>3, HomeStep DEF Next, All

LEMMA Invariant == Spec => []IInv
BY InitInv, NextInv, PTL DEF Spec

-----------------------------------------------------------------------------
(* What follows from it *)

(* The view model's state keeps its types: in particular currentPage never *)
(* outruns the loads that were started.                                    *)
THEOREM ListingTypes == Spec => []TypeOK
<1>1. IInv => TypeOK
  <2> SUFFICES ASSUME IInv PROVE TypeOK
    OBVIOUS
  <2>1. reads \in 0..MaxOpens
    BY ListingAssumption DEF IInv, EntryType
  <2>2. QED
    BY <2>1 DEF IInv, EntryType, PagingType, UiType, LoadType, BrandType, TypeOK, All,
       LoadRecord, PCs, Page
<1>2. QED
  BY <1>1, Invariant, PTL

(* The grid shows pages 1, 2, ... of the filters in force, without gap or  *)
(* repetition, until a load of earlier filters changes it.                 *)
THEOREM SoundList == Spec => []ListSound
<1>1. IInv => ListSound
  BY DEF IInv, Sound, ListSound
<1>2. QED
  BY <1>1, Invariant, PTL

(* At most one load-more is under way.                                     *)
THEOREM SingleLoadMore == Spec => []OneMore
<1>1. IInv => OneMore
  BY DEF IInv, Single, OneMore
<1>2. QED
  BY <1>1, Invariant, PTL

(* One request for brand images at a time, and none once they are cached.  *)
THEOREM SingleBrandRequest == Spec => []BrandImagesOnce
<1>1. IInv => BrandImagesOnce
  BY DEF IInv, BrandType
<1>2. QED
  BY <1>1, Invariant, PTL

(* Entering the screen again, or reading the image, starts no second       *)
(* initial load.                                                           *)
THEOREM SingleInitialLoad == Spec => OneInitialLoad
<1>1. ASSUME IInv, [Next]_vars
      PROVE  [opens' # opens \/ reads' # reads => gen' \in {gen, 1}]_vars
  <2>1. ASSUME NEW l \in Loads, checkAndLoadVisualSearchOrCategory(l)
        PROVE  gen' \in {gen, 1}
    <3>1. gen' = gen \/ (~chosen /\ gen' = gen + 1)
      BY <2>1 DEF checkAndLoadVisualSearchOrCategory, Enter, LoadFirstPage, ReadImage
    <3>2. QED
      BY <1>1, <3>1 DEF IInv, Begun
  <2>2. ASSUME NEW l \in Loads, loadProductsByVisualSearch(l)
        PROVE  gen' \in {gen, 1}
    <3>1. reads > 0 /\ gen' \in {gen, gen + 1}
      BY <2>2 DEF loadProductsByVisualSearch, LoadFirstPage
    <3>2. gen = 0
      BY <1>1, <3>1 DEF IInv, Begun, EntryType
    <3>3. QED
      BY <3>1, <3>2
  <2>3. ASSUME NEW l \in Loads, applyFilters(l) \/ loadMoreProducts(l) \/ LoadStep(l)
        PROVE  UNCHANGED <<opens, reads>>
    BY <2>3 DEF applyFilters, loadMoreProducts, LoadStep, ReadToken, PageArrives, entry
  <2>4. ASSUME NEW l \in All, LockBrandImages(l) \/ BrandImagesArrive(l)
        PROVE  UNCHANGED <<opens, reads>>
    BY <2>4 DEF LockBrandImages, BrandImagesArrive, entry
  <2>5. getBrandImages => UNCHANGED <<opens, reads>>
    BY DEF getBrandImages, entry
  <2>6. QED
    BY <1>1, <2>1, <2>2, <2>3, <2>4, <2>5 DEF Next, All
<1>2. QED
  BY <1>1, Invariant, PTL DEF Spec, OneInitialLoad
=============================================================================
