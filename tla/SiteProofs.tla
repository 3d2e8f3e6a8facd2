------------------------------- MODULE SiteProofs -------------------------------
(***************************************************************************)
(* Machine-checked proofs about Listing, for any products, categories,     *)
(* search, page size, visitors and staff, and any number of visits and     *)
(* saves; EmailVerification, for any users, addresses, forms and number of *)
(* tokens; Backup, for any jobs, retention and number of backups; and      *)
(* about these three and Inventory side by side, as MCSite has them.       *)
(***************************************************************************)
EXTENDS MCSite, InventoryProofs

-----------------------------------------------------------------------------
(* What the operators return *)

\* The results a request computes, and the keys they are cached under.
Keys == [path : Categories \cup {NoCategory}, q : BOOLEAN, category : SUBSET Categories,
         price : SUBSET Bands, rating : {0} \cup RatingSteps, stock : BOOLEAN, page : Nat]
Entries == [kind : {"counts", "page"}, key : Keys]
FacetCounts == [category : [Categories -> Nat], price : [Bands -> Nat],
                rating : [RatingSteps -> Nat], stock : Nat]
PageForm == [goods : SUBSET Goods, number : Nat, total : Nat]
ShownPages == {p \in PageForm : p.number \in 1..NumPages(p.total)}

\* The strongest of the thresholds in the URL is one of them; one alone is itself.
LEMMA StrongestType ==
  /\ \A ratings : Strongest(ratings) \in {0} \cup RatingSteps
  /\ \A r \in RatingSteps : Strongest({r}) = r
<1>1. ASSUME NEW S \in SUBSET RatingSteps, S # {} PROVE Max(S) \in S
  <2>1. \E x \in S : \A y \in S : x >= y
    <3>1. CASE 4 \in S
      BY <3>1 DEF RatingSteps
    <3>2. CASE 4 \notin S /\ 3 \in S
      BY <3>2 DEF RatingSteps
    <3>3. CASE 4 \notin S /\ 3 \notin S
      <4>1. S = {2}
        BY <1>1, <3>3 DEF RatingSteps
      <4> QED
        BY <4>1
    <3> QED
      BY <3>1, <3>2, <3>3
  <2> QED
    BY <2>1 DEF Max
<1>2. ASSUME NEW r \in RatingSteps PROVE Strongest({r}) = r
  <2>1. {r} \cap RatingSteps = {r}
    OBVIOUS
  <2>2. Max({r}) \in {r}
    BY <1>1
  <2> QED
    BY <2>1, <2>2 DEF Strongest
<1> QED
  BY <1>1, <1>2 DEF Strongest

\* The parsed query string of a URL is a key.
LEMMA KeyType == ASSUME NEW url \in Url PROVE KeyOf(url) \in Keys
BY StrongestType DEF KeyOf, Keys, Url

\* What the listing, the counts and the page depend on is the product rows alone.
LEMMA ShelfKept ==
  ASSUME shelf' = shelf, NEW key
  PROVE  Counts(key)' = Counts(key) /\ PageOf(key)' = PageOf(key)
<1>1. Base(key)' = Base(key)
  BY DEF Base, Search
<1>2. ASSUME NEW goods, NEW k PROVE Apply(goods, k)' = Apply(goods, k)
  BY DEF Apply
<1>3. Listed(key)' = Listed(key)
  BY <1>1 DEF Listed, Apply
<1>4. PageOf(key)' = PageOf(key)
  BY <1>3 DEF PageOf
<1> QED
  BY <1>1, <1>2, <1>4 DEF Counts

\* A listing is a finite set of products, whatever facets are applied.
LEMMA ApplyFinite ==
  ASSUME NEW key, NEW facets
  PROVE  /\ Apply(Base(key), facets) \subseteq Goods
         /\ \A S \in SUBSET Apply(Base(key), facets) : IsFiniteSet(S) /\ Cardinality(S) \in Nat
<1>1. Base(key) \subseteq Goods
  BY ListingAssumption DEF Base, Search
<1>2. Apply(Base(key), facets) \subseteq Goods
  BY <1>1 DEF Apply
<1>3. ASSUME NEW S \in SUBSET Goods PROVE IsFiniteSet(S) /\ Cardinality(S) \in Nat
  BY ListingAssumption, FS_Subset, FS_CardinalityType
<1> QED
  BY <1>2, <1>3

\* Every count is a number.
LEMMA CountsType == ASSUME NEW key PROVE Counts(key) \in FacetCounts
<1>1. ASSUME NEW c PROVE
        Cardinality({g \in Apply(Base(key), [key EXCEPT !.category = {}]) : shelf[g].category = c}) \in Nat
  BY ApplyFinite
<1>2. ASSUME NEW b PROVE
        Cardinality({g \in Apply(Base(key), [key EXCEPT !.price = {}]) : InBand(shelf[g].price, b)}) \in Nat
  BY ApplyFinite
<1>3. ASSUME NEW r PROVE
        Cardinality({g \in Apply(Base(key), [key EXCEPT !.rating = 0]) : shelf[g].rating >= r}) \in Nat
  BY ApplyFinite
<1>4. Cardinality({g \in Apply(Base(key), [key EXCEPT !.stock = FALSE]) : shelf[g].inStock}) \in Nat
  BY ApplyFinite
<1> QED
  BY <1>1, <1>2, <1>3, <1>4 DEF Counts, FacetCounts

\* A listing has at least one page.
LEMMA NumPagesType == ASSUME NEW total \in Nat PROVE NumPages(total) \in Nat \ {0}
BY ListingAssumption DEF NumPages

\* The page a request shows is one of the pages its listing has.
LEMMA PageType == ASSUME NEW key, key.page \in Nat PROVE PageOf(key) \in ShownPages
<1> DEFINE goods == Listed(key)
           number == PageNumber(key.page, Cardinality(goods))
<1>1. goods \subseteq Goods /\ Cardinality(goods) \in Nat
  BY ApplyFinite DEF Listed
<1>2. number \in 1..NumPages(Cardinality(goods)) /\ number \in Nat
  BY <1>1, NumPagesType DEF PageNumber
<1>3. Slice(goods, number) \subseteq Goods
  BY <1>1 DEF Slice
<1> HIDE DEF goods, number
<1>4. PageOf(key) = [goods |-> Slice(goods, number), number |-> number, total |-> Cardinality(goods)]
  BY DEF PageOf, goods, number
<1> QED
  BY <1>1, <1>2, <1>3, <1>4 DEF ShownPages, PageForm

\* The links of a page lead to URLs.
LEMMA LinksType ==
  ASSUME NEW url \in Url, NEW page \in ShownPages
  PROVE  Links(url, page) \subseteq Url
<1>1. AllProducts \in Url /\ \A c \in Categories : CategoryUrl(c) \in Url
  BY DEF AllProducts, CategoryUrl, Url
<1>2. SearchUrl(url) \in Url /\ ClearUrl(url) \in Url
  BY DEF AllProducts, SearchUrl, ClearUrl, Url
<1>3. ASSUME NEW b \in Bands PROVE PriceUrl(url, b) \in Url
  <2>1. url.price \in SUBSET (Bands \cup Undefined)
    BY DEF Url
  <2>2. Toggle(url.price, b) \in SUBSET (Bands \cup Undefined)
    BY <2>1 DEF Toggle
  <2>3. PriceUrl(url, b) = [url EXCEPT !.page = 1, !.price = Toggle(url.price, b)]
    BY DEF PriceUrl, Url
  <2>4. [url EXCEPT !.page = 1, !.price = Toggle(url.price, b)] \in Url
    BY <2>2 DEF Url
  <2> QED
    BY <2>3, <2>4
<1>4. ASSUME NEW r \in RatingSteps PROVE RatingUrl(url, r) \in Url
  <2> DEFINE ratings == IF r \in url.rating THEN {} ELSE {r}
  <2>1. ratings \in SUBSET Nat
    BY DEF RatingSteps
  <2>2. RatingUrl(url, r) = [url EXCEPT !.page = 1, !.rating = ratings]
    BY DEF RatingUrl, Url
  <2> HIDE DEF ratings
  <2>3. [url EXCEPT !.page = 1, !.rating = ratings] \in Url
    BY <2>1 DEF Url
  <2> QED
    BY <2>2, <2>3
<1>5. StockUrl(url) \in Url
  BY DEF StockUrl, Url
<1>6. \A n \in Nat : PageUrl(url, n) \in Url
  BY DEF PageUrl, Url
<1>7. PageLinks(url, page) \subseteq Url
  <2>1. NumPages(page.total) \in Nat \ {0}
    BY NumPagesType DEF ShownPages, PageForm
  <2> QED
    BY <1>6, <2>1 DEF PageLinks
<1>8. RefineLinks(url) \subseteq Url
  BY <1>2, <1>3, <1>4, <1>5 DEF RefineLinks
<1> QED
  BY <1>1, <1>2, <1>7, <1>8 DEF Links

-----------------------------------------------------------------------------
(* Types *)

VisitForm == [step : {"idle", "look", "read", "write", "store", "shown"},
              kind : {"counts", "page"}, url : Url, keys : SUBSET Entries,
              counts : SUBSET FacetCounts, page : SUBSET ShownPages]
SaveForm == [step : {"idle", "clear", "drop", "commit"}, good : Goods \cup {0},
             form : SUBSET Facts, rating : SUBSET Ratings, keys : SUBSET Entries]

\* A request has its counts once it computed or found them, and a page likewise.
Computed(v) == visit[v].step \in {"read", "write", "store"}
Filled(v) ==
  /\ visit[v].kind = "page" \/ Computed(v) \/ visit[v].step = "shown" =>
       \E counts : visit[v].counts = {counts}
  /\ visit[v].step = "shown" \/ (visit[v].kind = "page" /\ Computed(v)) =>
       \E page : visit[v].page = {page}

CacheTypes ==
  /\ DOMAIN counted \subseteq Keys /\ \A k \in DOMAIN counted : counted[k] \in FacetCounts
  /\ DOMAIN listed \subseteq Keys /\ \A k \in DOMAIN listed : listed[k] \in ShownPages
  /\ registry \subseteq Entries
VisitTypes ==
  /\ visit \in [Visitors -> VisitForm]
  /\ \A v \in Visitors : Filled(v)
SaveTypes ==
  /\ shelf \in [Goods -> Fact] /\ thumbs \subseteq Goods
  /\ save \in [Staff -> SaveForm]
  /\ \A s \in Staff : Saving(s) => save[s].good \in Goods
  /\ opened \in 0..MaxVisits /\ saves \in 0..MaxSaves /\ mishaps \in BOOLEAN
ListTypes == CacheTypes /\ VisitTypes /\ SaveTypes

\* What a visitor's next state has to be.
LEMMA VisitStep ==
  ASSUME VisitTypes, NEW v \in Visitors, NEW r \in VisitForm,
         visit' = [visit EXCEPT ![v] = r],
         r.kind = "page" \/ r.step \in {"read", "write", "store", "shown"} =>
           \E counts : r.counts = {counts},
         r.step = "shown" \/ (r.kind = "page" /\ r.step \in {"read", "write", "store"}) =>
           \E page : r.page = {page}
  PROVE  VisitTypes'
<1>1. ASSUME NEW w \in Visitors PROVE Filled(w)'
  <2>1. CASE w = v
    BY <2>1 DEF VisitTypes, Filled, Computed
  <2>2. CASE w # v
    <3>1. visit'[w] = visit[w]
      BY <2>2 DEF VisitTypes
    <3> QED
      BY <3>1 DEF VisitTypes, Filled, Computed
  <2> QED
    BY <2>1, <2>2
<1> QED
  BY <1>1 DEF VisitTypes

\* An answer to one of the two questions of a request.
LEMMA HaveTypes ==
  ASSUME VisitTypes, NEW v \in Visitors, NEW counts \in SUBSET FacetCounts,
         NEW page \in SUBSET ShownPages, Have(v, counts, page),
         \E c : counts = {c}, visit[v].kind = "page" => \E p : page = {p}
  PROVE  VisitTypes'
<1> DEFINE r == [visit[v] EXCEPT !.keys = {}, !.counts = counts, !.page = page,
                   !.step = IF visit[v].kind = "counts" THEN "look" ELSE "shown",
                   !.kind = IF visit[v].kind = "counts" THEN "page" ELSE "counts"]
<1>1. visit[v] \in VisitForm
  BY DEF VisitTypes
<1>2. /\ r \in VisitForm /\ r.counts = counts /\ r.page = page
      /\ r.step = IF visit[v].kind = "counts" THEN "look" ELSE "shown"
      /\ r.kind = IF visit[v].kind = "counts" THEN "page" ELSE "counts"
  BY <1>1 DEF VisitForm
<1>3. visit' = [visit EXCEPT ![v] = r]
  BY DEF Have
<1> HIDE DEF r
<1> QED
  BY <1>1, <1>2, <1>3, VisitStep DEF VisitForm

\* Opening a page.
LEMMA OpenTypes ==
  ASSUME ListTypes, NEW v \in Visitors, NEW url \in Url, Open(v, url)
  PROVE  ListTypes'
<1> DEFINE r == [IdleVisit EXCEPT !.step = "look", !.url = url]
<1>1. r \in VisitForm /\ r.kind = "counts" /\ r.step = "look"
  BY DEF IdleVisit, VisitForm
<1>2. visit' = [visit EXCEPT ![v] = r]
  BY DEF Open
<1> HIDE DEF r
<1>3. VisitTypes'
  BY <1>1, <1>2, VisitStep DEF ListTypes
<1> QED
  BY <1>3, ListingAssumption DEF ListTypes, CacheTypes, SaveTypes, Open, theCache, Saving

\* A page request keeps the types.
LEMMA RequestTypes ==
  ASSUME ListTypes, NEW v \in Visitors,
         Hit(v) \/ Compute(v) \/ ReadRegistry(v) \/ WriteRegistry(v) \/ Store(v) \/ AbandonPage(v)
  PROVE  ListTypes'
<1> DEFINE key == KeyOf(visit[v].url)
<1>1. visit[v] \in VisitForm /\ Filled(v) /\ key \in Keys
  BY KeyType DEF ListTypes, VisitTypes, VisitForm
<1>2. CASE Hit(v)
  <2>1. VisitTypes'
    <3>1. CASE visit[v].kind = "counts" /\ key \in DOMAIN counted /\ Have(v, {counted[key]}, {})
      <4>1. {counted[key]} \in SUBSET FacetCounts /\ {} \in SUBSET ShownPages
        BY <3>1 DEF ListTypes, CacheTypes
      <4> QED
        BY <3>1, <4>1, HaveTypes DEF ListTypes
    <3>2. CASE /\ visit[v].kind = "page" /\ key \in DOMAIN listed
               /\ Have(v, visit[v].counts, {listed[key]})
      <4>1. visit[v].counts \in SUBSET FacetCounts /\ \E c : visit[v].counts = {c}
        BY <1>1, <3>2 DEF VisitForm, Filled
      <4>2. {listed[key]} \in SUBSET ShownPages
        BY <3>2 DEF ListTypes, CacheTypes
      <4> QED
        BY <3>2, <4>1, <4>2, HaveTypes DEF ListTypes
    <3> QED
      BY <1>2, <3>1, <3>2 DEF Hit
  <2> QED
    BY <1>2, <2>1 DEF Hit, ListTypes, CacheTypes, SaveTypes, theCache, Saving
<1>3. CASE Compute(v)
  <2> DEFINE rc == [visit[v] EXCEPT !.step = "read", !.counts = {Counts(key)}]
             rp == [visit[v] EXCEPT !.step = "read", !.page = {PageOf(key)}]
  <2>1. Counts(key) \in FacetCounts /\ PageOf(key) \in ShownPages /\ PageOf(key).goods \subseteq Goods
    BY <1>1, CountsType, PageType DEF Keys, ShownPages, PageForm
  <2>2. rc \in VisitForm /\ rc.kind = visit[v].kind /\ rc.counts = {Counts(key)}
    BY <1>1, <2>1 DEF VisitForm
  <2>3. rp \in VisitForm /\ rp.counts = visit[v].counts /\ rp.page = {PageOf(key)}
    BY <1>1, <2>1 DEF VisitForm
  <2>4. rc.step = "read" /\ rp.kind = visit[v].kind
    BY <1>1 DEF VisitForm
  <2>5. \/ visit[v].kind = "counts" /\ visit' = [visit EXCEPT ![v] = rc] /\ UNCHANGED thumbs
        \/ visit[v].kind = "page" /\ visit' = [visit EXCEPT ![v] = rp] /\ thumbs' = thumbs \cup PageOf(key).goods
    BY <1>3 DEF Compute, EnsureThumbs
  <2> HIDE DEF rc, rp
  <2>6. VisitTypes'
    <3>1. CASE visit[v].kind = "counts" /\ visit' = [visit EXCEPT ![v] = rc]
      BY <2>2, <2>4, <3>1, VisitStep DEF ListTypes
    <3>2. CASE visit[v].kind = "page" /\ visit' = [visit EXCEPT ![v] = rp]
      BY <1>1, <2>3, <2>4, <3>2, VisitStep DEF ListTypes, Filled
    <3> QED
      BY <2>5, <3>1, <3>2
  <2> QED
    BY <1>3, <2>1, <2>5, <2>6 DEF Compute, ListTypes, CacheTypes, SaveTypes, theCache, Saving
<1>4. CASE ReadRegistry(v)
  <2> DEFINE rs == [visit[v] EXCEPT !.step = "store"]
             rw == [visit[v] EXCEPT !.step = "write", !.keys = registry]
  <2>1. /\ rs \in VisitForm /\ rs.kind = visit[v].kind
        /\ rs.counts = visit[v].counts /\ rs.page = visit[v].page
    BY <1>1 DEF VisitForm
  <2>2. /\ rw \in VisitForm /\ rw.kind = visit[v].kind
        /\ rw.counts = visit[v].counts /\ rw.page = visit[v].page
    BY <1>1 DEF VisitForm, ListTypes, CacheTypes
  <2>3. visit' = [visit EXCEPT ![v] = rs] \/ visit' = [visit EXCEPT ![v] = rw]
    BY <1>4 DEF ReadRegistry
  <2>4. Computed(v) /\ rs.step = "store" /\ rw.step = "write"
    BY <1>1, <1>4 DEF ReadRegistry, Computed, VisitForm
  <2> HIDE DEF rs, rw
  <2>5. VisitTypes'
    BY <1>1, <2>1, <2>2, <2>3, <2>4, VisitStep DEF ListTypes, Filled
  <2> QED
    BY <1>4, <2>5 DEF ReadRegistry, ListTypes, CacheTypes, SaveTypes, theCache, Saving
<1>5. CASE WriteRegistry(v)
  <2> DEFINE r == [visit[v] EXCEPT !.step = "store", !.keys = {}]
  <2>1. /\ r \in VisitForm /\ r.kind = visit[v].kind
        /\ r.counts = visit[v].counts /\ r.page = visit[v].page
    BY <1>1 DEF VisitForm
  <2>2. visit' = [visit EXCEPT ![v] = r] /\ Computed(v) /\ r.step = "store"
    BY <1>1, <1>5 DEF WriteRegistry, Computed, VisitForm
  <2>3. Entry(v) \in Entries /\ visit[v].keys \subseteq Entries
    BY <1>1 DEF Entry, Entries, VisitForm
  <2> HIDE DEF r
  <2>4. VisitTypes'
    BY <1>1, <2>1, <2>2, VisitStep DEF ListTypes, Filled
  <2> QED
    BY <1>5, <2>3, <2>4 DEF WriteRegistry, ListTypes, CacheTypes, SaveTypes, Saving
<1>6. CASE Store(v)
  <2>1. Computed(v) /\ Have(v, visit[v].counts, visit[v].page)
    BY <1>6 DEF Store, Computed
  <2>2. VisitTypes'
    BY <1>1, <2>1, HaveTypes DEF ListTypes, Filled, VisitForm
  <2>3. CacheTypes'
    BY <1>1, <1>6 DEF Store, With, ListTypes, CacheTypes, VisitForm
  <2> QED
    BY <1>6, <2>2, <2>3 DEF Store, ListTypes, SaveTypes, Saving
<1>7. CASE AbandonPage(v)
  <2>1. IdleVisit \in VisitForm /\ IdleVisit.kind = "counts" /\ IdleVisit.step = "idle"
    BY DEF IdleVisit, VisitForm, AllProducts, Url
  <2>2. VisitTypes'
    BY <1>7, <2>1, VisitStep DEF AbandonPage, ListTypes
  <2> QED
    BY <1>7, <2>2 DEF AbandonPage, ListTypes, CacheTypes, SaveTypes, theCache, Saving
<1> QED
  BY <1>2, <1>3, <1>4, <1>5, <1>6, <1>7

\* A process that saves a product or a review, clears the cache or ends its transaction.
LEMMA SaveStepTypes ==
  ASSUME ListTypes, NEW s \in Staff, NEW r \in SaveForm, save' = [save EXCEPT ![s] = r],
         r.step # "idle" => r.good \in Goods
  PROVE  save' \in [Staff -> SaveForm] /\ \A t \in Staff : Saving(t)' => save'[t].good \in Goods
<1>1. save \in [Staff -> SaveForm] /\ \A t \in Staff : Saving(t) => save[t].good \in Goods
  BY DEF ListTypes, SaveTypes
<1> QED
  BY <1>1 DEF Saving

\* The signal handler begins.
LEMMA StartSaveTypes ==
  ASSUME ListTypes, NEW s \in Staff, NEW g \in Goods, NEW facts \in SUBSET Facts,
         NEW rating \in SUBSET Ratings, StartSave(s, g, facts, rating), thumbs' \subseteq Goods
  PROVE  ListTypes'
<1> DEFINE r == [step |-> "clear", good |-> g, form |-> facts, rating |-> rating, keys |-> registry]
<1>1. r \in SaveForm /\ r.good = g
  BY DEF SaveForm, ListTypes, CacheTypes
<1>2. save' = [save EXCEPT ![s] = r]
  BY DEF StartSave
<1> HIDE DEF r
<1>3. save' \in [Staff -> SaveForm] /\ \A t \in Staff : Saving(t)' => save'[t].good \in Goods
  BY <1>1, <1>2, SaveStepTypes
<1>4. saves' \in 0..MaxSaves /\ mishaps' \in BOOLEAN
  BY ListingAssumption DEF StartSave, ListTypes, SaveTypes
<1> QED
  BY <1>3, <1>4 DEF StartSave, ListTypes, CacheTypes, VisitTypes, SaveTypes, theCache, Filled, Computed

\* The rest of a save keeps the types.
LEMMA SavingTypes ==
  ASSUME ListTypes, NEW s \in Staff,
         DeleteEntries(s) \/ DropRegistry(s) \/ Commit(s) \/ Rollback(s)
  PROVE  ListTypes'
<1>1. save[s] \in SaveForm /\ (save[s].step # "idle" => save[s].good \in Goods)
  BY DEF ListTypes, SaveTypes, Saving
<1>2. CASE DeleteEntries(s)
  <2> DEFINE r == [save[s] EXCEPT !.step = "drop", !.keys = {}]
  <2>1. r \in SaveForm /\ r.good = save[s].good
    BY <1>1 DEF SaveForm
  <2>2. save' = [save EXCEPT ![s] = r] /\ save[s].step = "clear"
    BY <1>2 DEF DeleteEntries, ListTypes, SaveTypes
  <2> HIDE DEF r
  <2>3. save' \in [Staff -> SaveForm] /\ \A t \in Staff : Saving(t)' => save'[t].good \in Goods
    BY <1>1, <2>1, <2>2, SaveStepTypes
  <2>4. CacheTypes'
    BY <1>2 DEF DeleteEntries, Without, ListTypes, CacheTypes
  <2> QED
    BY <1>2, <2>3, <2>4 DEF DeleteEntries, ListTypes, VisitTypes, SaveTypes, Filled, Computed
<1>3. CASE DropRegistry(s)
  <2> DEFINE r == [save[s] EXCEPT !.step = "commit"]
  <2>1. r \in SaveForm /\ r.good = save[s].good
    BY <1>1 DEF SaveForm
  <2>2. save' = [save EXCEPT ![s] = r] /\ save[s].step = "drop"
    BY <1>3 DEF DropRegistry, ListTypes, SaveTypes
  <2> HIDE DEF r
  <2>3. save' \in [Staff -> SaveForm] /\ \A t \in Staff : Saving(t)' => save'[t].good \in Goods
    BY <1>1, <2>1, <2>2, SaveStepTypes
  <2> QED
    BY <1>3, <2>3 DEF DropRegistry, ListTypes, CacheTypes, VisitTypes, SaveTypes, Filled, Computed
<1>4. ASSUME save' = [save EXCEPT ![s] = IdleSave]
      PROVE  save' \in [Staff -> SaveForm] /\ \A t \in Staff : Saving(t)' => save'[t].good \in Goods
  <2>1. IdleSave \in SaveForm /\ IdleSave.step = "idle"
    BY DEF IdleSave, SaveForm
  <2> QED
    BY <1>4, <2>1, SaveStepTypes
<1>5. CASE Commit(s)
  <2>1. save[s].good \in Goods
    BY <1>1, <1>5 DEF Commit
  <2>2. shelf' \in [Goods -> Fact]
    <3>1. ASSUME NEW fact \in save[s].form,
                 shelf' = [shelf EXCEPT ![save[s].good] = [fact EXCEPT !.rating = shelf[save[s].good].rating]]
          PROVE  shelf' \in [Goods -> Fact]
      <4>1. fact \in Fact /\ shelf[save[s].good] \in Fact
        BY <1>1, <2>1, ListingAssumption DEF SaveForm, ListTypes, SaveTypes
      <4>2. [fact EXCEPT !.rating = shelf[save[s].good].rating] \in Fact
        BY <4>1 DEF Fact
      <4> QED
        BY <3>1, <4>2 DEF ListTypes, SaveTypes
    <3>2. ASSUME NEW rating \in save[s].rating,
                 shelf' = [shelf EXCEPT ![save[s].good].rating = rating]
          PROVE  shelf' \in [Goods -> Fact]
      <4>1. rating \in 0..5 /\ shelf[save[s].good] \in Fact
        <5>1. rating \in Ratings
          BY <1>1 DEF SaveForm
        <5>2. rating \in 0..5
          BY <5>1, ListingAssumption
        <5> QED
          BY <2>1, <5>2 DEF ListTypes, SaveTypes
      <4>2. [shelf[save[s].good] EXCEPT !.rating = rating] \in Fact
        BY <4>1 DEF Fact
      <4> QED
        BY <3>2, <4>2 DEF ListTypes, SaveTypes
    <3> QED
      BY <1>5, <3>1, <3>2 DEF Commit
  <2> QED
    BY <1>4, <1>5, <2>2 DEF Commit, ListTypes, CacheTypes, VisitTypes, SaveTypes, theCache, Filled, Computed
<1>6. CASE Rollback(s)
  BY <1>4, <1>6 DEF Rollback, ListTypes, CacheTypes, VisitTypes, SaveTypes, theCache, Filled, Computed
<1> QED
  BY <1>2, <1>3, <1>5, <1>6

\* Every step keeps the types.
LEMMA ListTypesStep == ListTypes /\ [ListingNext]_listingVars => ListTypes'
<1> SUFFICES ASSUME ListTypes, [ListingNext]_listingVars PROVE ListTypes'
  OBVIOUS
<1>1. ASSUME NEW v \in Visitors, TypeUrl(v) PROVE ListTypes'
  BY <1>1, OpenTypes, ListingAssumption DEF TypeUrl
<1>2. ASSUME NEW v \in Visitors, FollowLink(v) PROVE ListTypes'
  <2>1. visit[v].url \in Url /\ visit[v].page \in SUBSET ShownPages
    BY DEF ListTypes, VisitTypes, VisitForm
  <2> QED
    BY <1>2, <2>1, OpenTypes, LinksType DEF FollowLink
<1>3. ASSUME NEW key \in DOMAIN counted \cup DOMAIN listed, Expire(key) PROVE ListTypes'
  BY <1>3 DEF Expire, Without, ListTypes, CacheTypes, VisitTypes, SaveTypes, Filled, Computed, Saving
<1>4. ASSUME NEW s \in Staff, NEW g \in Goods, NEW fact \in Facts, SaveProduct(s, g, fact)
      PROVE  ListTypes'
  <2>1. thumbs' \subseteq Goods
    BY <1>4 DEF SaveProduct, CleanupThumbs, ListTypes, SaveTypes
  <2>2. {fact} \in SUBSET Facts /\ {} \in SUBSET Ratings /\ StartSave(s, g, {fact}, {})
    BY <1>4 DEF SaveProduct
  <2> QED
    BY <2>1, <2>2, StartSaveTypes
<1>5. ASSUME NEW s \in Staff, NEW g \in Goods, NEW rating \in Ratings, AddReview(s, g, rating)
      PROVE  ListTypes'
  <2>1. thumbs' \subseteq Goods
    BY <1>5 DEF AddReview, ListTypes, SaveTypes
  <2>2. {} \in SUBSET Facts /\ {rating} \in SUBSET Ratings /\ StartSave(s, g, {}, {rating})
    BY <1>5 DEF AddReview
  <2> QED
    BY <2>1, <2>2, StartSaveTypes
<1>6. ASSUME NEW g \in Goods, SellOut(g) PROVE ListTypes'
  <2>1. [shelf[g] EXCEPT !.inStock = FALSE] \in Fact
    BY DEF ListTypes, SaveTypes, Fact
  <2>2. shelf' \in [Goods -> Fact]
    BY <1>6, <2>1 DEF SellOut, ListTypes, SaveTypes
  <2>3. CacheTypes' /\ VisitTypes'
    BY <1>6 DEF SellOut, ListTypes, CacheTypes, VisitTypes, theCache, Filled, Computed
  <2>4. saves' \in 0..MaxSaves
    BY <1>6, ListingAssumption DEF SellOut, ListTypes, SaveTypes
  <2>5. SaveTypes'
    BY <1>6, <2>2, <2>4 DEF SellOut, ListTypes, SaveTypes, Saving
  <2> QED
    BY <2>3, <2>5 DEF ListTypes
<1>7. CASE UNCHANGED listingVars
  BY <1>7 DEF listingVars, theCache, ListTypes, CacheTypes, VisitTypes, SaveTypes, Filled, Computed, Saving
<1> QED
  BY <1>1, <1>2, <1>3, <1>4, <1>5, <1>6, <1>7, RequestTypes, SavingTypes DEF ListingNext

\* The types are an invariant.
LEMMA ListTypesInvariant == ListingSpec => []ListTypes
<1>1. ListingInit => ListTypes
  <2> SUFFICES ASSUME ListingInit PROVE ListTypes
    OBVIOUS
  <2>1. IdleVisit \in VisitForm /\ IdleVisit.step = "idle" /\ IdleVisit.kind = "counts"
    BY DEF IdleVisit, VisitForm, AllProducts, Url
  <2>2. IdleSave \in SaveForm /\ IdleSave.step = "idle"
    BY DEF IdleSave, SaveForm
  <2>3. CacheTypes
    BY DEF ListingInit, CacheTypes
  <2>4. VisitTypes
    BY <2>1 DEF ListingInit, VisitTypes, Filled, Computed
  <2>5. SaveTypes
    <3>1. shelf \in [Goods -> Fact] /\ thumbs \subseteq Goods
      BY ListingAssumption DEF ListingInit
    <3>2. opened = 0 /\ saves = 0
      BY DEF ListingInit
    <3>3. MaxVisits \in Nat /\ MaxSaves \in Nat
      BY ListingAssumption
    <3>4. opened \in 0..MaxVisits /\ saves \in 0..MaxSaves
      BY <3>2, <3>3
    <3>5. mishaps \in BOOLEAN
      BY Zenon DEF ListingInit
    <3>6. save \in [Staff -> SaveForm] /\ \A s \in Staff : ~Saving(s)
      BY <2>2 DEF ListingInit, Saving
    <3> QED
      BY <3>1, <3>4, <3>5, <3>6 DEF SaveTypes
  <2> QED
    BY <2>3, <2>4, <2>5 DEF ListTypes
<1> QED
  BY <1>1, ListTypesStep, PTL DEF ListingSpec

\* The catalog page and its cache stay in the states the type invariant names: requests
\* go through their steps, what is shown has one set of counts and one page, and every
\* page in the cache has a number its listing has.
THEOREM ListingTypeCorrect == ListingSpec => []ListingTypeOK
<1>1. ListTypes => ListingTypeOK
  <2> SUFFICES ASSUME ListTypes PROVE ListingTypeOK
    OBVIOUS
  <2>1. ASSUME NEW v \in Visitors
        PROVE  /\ visit[v].step \in {"idle", "look", "read", "write", "store", "shown"}
               /\ visit[v].url \in Url
               /\ visit[v].step = "shown" => Cardinality(visit[v].counts) = 1
                                             /\ Cardinality(visit[v].page) = 1
    BY FS_Singleton, ZenonT(60) DEF ListTypes, VisitTypes, VisitForm, Filled
  <2>2. ASSUME NEW s \in Staff PROVE save[s].step \in {"idle", "clear", "drop", "commit"}
    BY DEF ListTypes, SaveTypes, SaveForm
  <2> QED
    BY <2>1, <2>2 DEF ListingTypeOK, ListTypes, CacheTypes, SaveTypes, ShownPages
<1> QED
  BY <1>1, ListTypesInvariant, PTL

-----------------------------------------------------------------------------
(* What is cached is current *)

\* As long as none of the mishaps has happened: what is cached is in the registry, and in
\* the copy of it that a save is about to clear; once it cleared, nothing is cached until
\* its transaction has ended, because no request computes anything meanwhile; and a
\* request holds what the database says, under a key that is registered when it stores it.
Registered(keys) ==
  /\ \A k \in DOMAIN counted : [kind |-> "counts", key |-> k] \in keys
  /\ \A k \in DOMAIN listed : [kind |-> "page", key |-> k] \in keys
NothingCached == DOMAIN counted = {} /\ DOMAIN listed = {}
Cleared(s) ==
  /\ save[s].step = "clear" => Registered(save[s].keys)
  /\ save[s].step \in {"drop", "commit"} => NothingCached
CurrentCounts == \A k \in DOMAIN counted : counted[k] = Counts(k)
CurrentPages ==
  \A k \in DOMAIN listed :
    /\ listed[k] = PageOf(k)
    /\ (\A s \in Staff : save[s].step # "clear") => listed[k].goods \subseteq thumbs
Fresh(v) ==
  Computed(v) =>
    /\ \A s \in Staff : ~Saving(s)
    /\ visit[v].kind = "counts" => visit[v].counts = {Counts(KeyOf(visit[v].url))}
    /\ visit[v].kind = "page" => /\ visit[v].page = {PageOf(KeyOf(visit[v].url))}
                                 /\ PageOf(KeyOf(visit[v].url)).goods \subseteq thumbs
    /\ visit[v].step = "store" => Entry(v) \in registry
Sound ==
  /\ Registered(registry) /\ \A s \in Staff : Cleared(s)
  /\ CurrentCounts /\ CurrentPages
  /\ \A v \in Visitors : Fresh(v)
CacheInv == ~mishaps => Sound

\* A request stays as good as it was while products, saves and it itself stay.
LEMMA FreshKept ==
  ASSUME NEW v \in Visitors, Fresh(v), visit'[v] = visit[v], UNCHANGED <<shelf, save>>,
         thumbs \subseteq thumbs', registry \subseteq registry'
  PROVE  Fresh(v)'
<1> DEFINE key == KeyOf(visit[v].url)
<1>1. KeyOf(visit[v].url)' = key
  BY DEF KeyOf
<1>2. Counts(key)' = Counts(key) /\ PageOf(key)' = PageOf(key)
  <2>1. ASSUME NEW k PROVE Counts(k)' = Counts(k) /\ PageOf(k)' = PageOf(k)
    BY ShelfKept
  <2> QED
    BY <1>1, <2>1
<1> QED
  BY <1>1, <1>2 DEF Fresh, Computed, Saving, Entry

\* So does the cache.
LEMMA CacheKept ==
  ASSUME Sound, UNCHANGED <<shelf, save, counted, listed>>,
         thumbs \subseteq thumbs', registry \subseteq registry'
  PROVE  /\ Registered(registry)' /\ \A s \in Staff : Cleared(s)'
         /\ CurrentCounts' /\ CurrentPages'
<1>1. ASSUME NEW k PROVE Counts(k)' = Counts(k) /\ PageOf(k)' = PageOf(k)
  BY ShelfKept
<1>2. Registered(registry)' /\ \A s \in Staff : Cleared(s)'
  BY DEF Sound, Registered, Cleared, NothingCached
<1>3. CurrentCounts'
  BY <1>1 DEF Sound, CurrentCounts
<1>4. CurrentPages'
  BY <1>1 DEF Sound, CurrentPages
<1> QED
  BY <1>2, <1>3, <1>4

\* An empty cache, while a save is on its way, is all right.
LEMMA EmptyIsSound ==
  ASSUME Sound, NEW s \in Staff, Saving(s), UNCHANGED visit, NothingCached'
  PROVE  Sound'
<1>1. \A v \in Visitors : ~Computed(v)
  BY DEF Sound, Fresh
<1>2. \A v \in Visitors : Fresh(v)'
  BY <1>1 DEF Fresh, Computed
<1> QED
  BY <1>2 DEF Sound, Registered, Cleared, NothingCached, CurrentCounts, CurrentPages

\* A page request keeps CacheInv.
LEMMA RequestSound ==
  ASSUME ListTypes, Sound, ~mishaps', NEW v \in Visitors,
         \/ TypeUrl(v) \/ FollowLink(v) \/ Hit(v) \/ Compute(v) \/ ReadRegistry(v)
         \/ WriteRegistry(v) \/ Store(v) \/ AbandonPage(v)
  PROVE  Sound'
<1> DEFINE key == KeyOf(visit[v].url)
<1>1. visit \in [Visitors -> VisitForm] /\ visit[v] \in VisitForm /\ Fresh(v)
  BY DEF ListTypes, VisitTypes, Sound
<1>2. ASSUME ~Computed(v)', \A w \in Visitors \ {v} : visit'[w] = visit[w],
             UNCHANGED <<shelf, save, counted, listed, thumbs, registry>>
      PROVE  Sound'
  <2>1. ASSUME NEW w \in Visitors PROVE Fresh(w)'
    <3>1. CASE w = v
      BY <1>2, <3>1 DEF Fresh
    <3>2. CASE w # v
      BY <1>2, <3>2, FreshKept DEF Sound
    <3> QED
      BY <3>1, <3>2
  <2>2. /\ Registered(registry)' /\ \A s \in Staff : Cleared(s)'
        /\ CurrentCounts' /\ CurrentPages'
    BY <1>2, CacheKept
  <2> QED
    BY <2>1, <2>2 DEF Sound
<1>3. ASSUME NEW url, Open(v, url) PROVE Sound'
  <2>1. visit'[v].step = "look" /\ \A w \in Visitors \ {v} : visit'[w] = visit[w]
    BY <1>1, <1>3 DEF Open, IdleVisit
  <2> QED
    BY <1>2, <1>3, <2>1 DEF Open, theCache, Computed
<1>4. ASSUME NEW counts, NEW page, Have(v, counts, page)
      PROVE  ~Computed(v)' /\ \A w \in Visitors \ {v} : visit'[w] = visit[w]
  BY <1>1, <1>4 DEF Have, Computed, VisitForm
<1>5. CASE Hit(v)
  BY <1>2, <1>4, <1>5 DEF Hit, theCache
<1>6. CASE AbandonPage(v)
  <2>1. visit'[v].step = "idle" /\ \A w \in Visitors \ {v} : visit'[w] = visit[w]
    BY <1>1, <1>6 DEF AbandonPage, IdleVisit
  <2> QED
    BY <1>2, <1>6, <2>1 DEF AbandonPage, theCache, Computed
<1>7. ASSUME UNCHANGED <<shelf, save, counted, listed>>, thumbs \subseteq thumbs',
             registry \subseteq registry', \A w \in Visitors \ {v} : visit'[w] = visit[w],
             Fresh(v)'
      PROVE  Sound'
  <2>1. ASSUME NEW w \in Visitors PROVE Fresh(w)'
    <3>1. CASE w # v
      BY <1>7, <3>1, FreshKept DEF Sound
    <3> QED
      BY <1>7, <3>1
  <2>2. /\ Registered(registry)' /\ \A s \in Staff : Cleared(s)'
        /\ CurrentCounts' /\ CurrentPages'
    BY <1>7, CacheKept
  <2> QED
    BY <2>1, <2>2 DEF Sound
<1>8. ASSUME shelf' = shelf, visit'[v].url = visit[v].url
      PROVE  key' = key /\ Counts(key)' = Counts(key) /\ PageOf(key)' = PageOf(key)
  <2>1. ASSUME NEW k PROVE Counts(k)' = Counts(k) /\ PageOf(k)' = PageOf(k)
    BY <1>8, ShelfKept
  <2>2. key' = key
    BY <1>8 DEF KeyOf
  <2> QED
    BY <2>1, <2>2
<1>9. CASE Compute(v)
  <2>1. /\ \A s \in Staff : ~Saving(s)
        /\ UNCHANGED <<shelf, counted, listed, registry, save>>
        /\ visit[v].step = "look"
    BY <1>9 DEF Compute, theCache
  <2> DEFINE rc == [visit[v] EXCEPT !.step = "read", !.counts = {Counts(key)}]
             rp == [visit[v] EXCEPT !.step = "read", !.page = {PageOf(key)}]
  <2>2. /\ rc.step = "read" /\ rc.url = visit[v].url /\ rc.kind = visit[v].kind
        /\ rc.counts = {Counts(key)}
    BY <1>1 DEF VisitForm
  <2>3. /\ rp.step = "read" /\ rp.url = visit[v].url /\ rp.kind = visit[v].kind
        /\ rp.page = {PageOf(key)}
    BY <1>1 DEF VisitForm
  <2>4. \/ visit[v].kind = "counts" /\ visit' = [visit EXCEPT ![v] = rc] /\ thumbs' = thumbs
        \/ visit[v].kind = "page" /\ visit' = [visit EXCEPT ![v] = rp]
           /\ thumbs' = thumbs \cup PageOf(key).goods
    BY <1>9 DEF Compute, EnsureThumbs
  <2> HIDE DEF rc, rp
  <2>5. /\ \A w \in Visitors \ {v} : visit'[w] = visit[w]
        /\ visit'[v].step = "read" /\ visit'[v].url = visit[v].url /\ visit'[v].kind = visit[v].kind
    BY <1>1, <2>2, <2>3, <2>4
  <2>6. visit[v].kind = "counts" => visit'[v].counts = {Counts(key)} /\ thumbs' = thumbs
    BY <1>1, <2>2, <2>4
  <2>7. visit[v].kind = "page" => /\ visit'[v].page = {PageOf(key)}
                                  /\ thumbs' = thumbs \cup PageOf(key).goods
    BY <1>1, <2>3, <2>4
  <2>8. thumbs \subseteq thumbs'
    BY <1>1, <2>6, <2>7 DEF VisitForm
  <2>9. KeyOf(visit[v].url)' = key
    BY <2>5 DEF KeyOf
  <2>10. Counts(key)' = Counts(key) /\ PageOf(key)' = PageOf(key)
    BY <1>8, <2>1, <2>5
  <2>11. visit'[v].kind = "counts" => visit'[v].counts = {Counts(KeyOf(visit[v].url))}'
    BY <2>5, <2>6, <2>9, <2>10
  <2>12. visit'[v].kind = "page" => /\ visit'[v].page = {PageOf(KeyOf(visit[v].url))}'
                                   /\ PageOf(KeyOf(visit[v].url))'.goods \subseteq thumbs'
    BY <2>5, <2>7, <2>9, <2>10
  <2>13. Fresh(v)'
    BY <2>1, <2>5, <2>11, <2>12 DEF Fresh, Saving
  <2> QED
    BY <1>7, <2>1, <2>5, <2>8, <2>13
<1>10. ASSUME UNCHANGED <<shelf, save, thumbs>>, Computed(v),
              visit'[v].url = visit[v].url, visit'[v].kind = visit[v].kind,
              visit'[v].counts = visit[v].counts, visit'[v].page = visit[v].page,
              visit'[v].step = "store" => Entry(v) \in registry'
       PROVE  Fresh(v)'
  <2>1. KeyOf(visit[v].url)' = key /\ Entry(v)' = Entry(v)
    BY <1>10 DEF KeyOf, Entry
  <2>2. Counts(key)' = Counts(key) /\ PageOf(key)' = PageOf(key)
    BY <1>8, <1>10
  <2> QED
    BY <1>1, <1>10, <2>1, <2>2 DEF Fresh, Saving
<1>11. CASE ReadRegistry(v)
  <2>1. /\ UNCHANGED <<shelf, save, counted, listed, thumbs, registry>> /\ Computed(v)
        /\ \A w \in Visitors \ {v} : visit'[w] = visit[w]
        /\ visit'[v].url = visit[v].url /\ visit'[v].kind = visit[v].kind
        /\ visit'[v].counts = visit[v].counts /\ visit'[v].page = visit[v].page
        /\ visit'[v].step = "store" => Entry(v) \in registry
    BY <1>1, <1>11 DEF ReadRegistry, theCache, Computed, VisitForm
  <2> QED
    BY <1>7, <1>10, <2>1
<1>12. CASE WriteRegistry(v)
  <2>1. /\ UNCHANGED <<shelf, save, counted, listed, thumbs>> /\ Computed(v)
        /\ \A w \in Visitors \ {v} : visit'[w] = visit[w]
        /\ visit'[v].url = visit[v].url /\ visit'[v].kind = visit[v].kind
        /\ visit'[v].counts = visit[v].counts /\ visit'[v].page = visit[v].page
    BY <1>1, <1>12 DEF WriteRegistry, Computed, VisitForm
  <2>2. registry' = registry \cup {Entry(v)}
    BY <1>12 DEF WriteRegistry
  <2> QED
    BY <1>7, <1>10, <2>1, <2>2
<1>13. CASE Store(v)
  <2>1. /\ UNCHANGED <<shelf, save, thumbs, registry>> /\ Computed(v) /\ visit[v].step = "store"
        /\ Have(v, visit[v].counts, visit[v].page)
    BY <1>13 DEF Store, Computed
  <2>2. ~Computed(v)' /\ \A w \in Visitors \ {v} : visit'[w] = visit[w]
    BY <1>4, <2>1
  <2>3. Entry(v) \in registry /\ \A s \in Staff : ~Saving(s)
    BY <1>1, <2>1 DEF Fresh
  <2>4. \A w \in Visitors : Fresh(w)'
    <3>1. ASSUME NEW w \in Visitors, w # v PROVE Fresh(w)'
      BY <2>1, <2>2, <3>1, FreshKept DEF Sound
    <3>2. Fresh(v)'
      BY <2>2 DEF Fresh
    <3> QED
      BY <3>1, <3>2
  <2>5. \A s \in Staff : Cleared(s)'
    BY <2>1, <2>3 DEF Cleared, Saving
  <2>6. ASSUME NEW k PROVE Counts(k)' = Counts(k) /\ PageOf(k)' = PageOf(k)
    BY <2>1, ShelfKept
  <2>7. CASE visit[v].kind = "counts"
    <3>1. counted' = With(counted, key, Counts(key)) /\ listed' = listed
      BY <1>1, <1>13, <2>1, <2>7 DEF Store, Fresh
    <3>2. DOMAIN counted' = DOMAIN counted \cup {key}
      BY <3>1 DEF With
    <3>3. \A k \in DOMAIN counted' : counted'[k] = IF k = key THEN Counts(key) ELSE counted[k]
      BY <3>1 DEF With
    <3>4. [kind |-> "counts", key |-> key] \in registry
      BY <2>3, <2>7 DEF Entry
    <3>5. Registered(registry)'
      BY <2>1, <3>1, <3>2, <3>4 DEF Sound, Registered
    <3>6. CurrentCounts'
      BY <2>6, <3>2, <3>3 DEF Sound, CurrentCounts
    <3>7. CurrentPages'
      BY <2>1, <2>6, <3>1 DEF Sound, CurrentPages
    <3> QED
      BY <2>4, <2>5, <3>5, <3>6, <3>7 DEF Sound
  <2>8. CASE visit[v].kind = "page"
    <3>1. listed' = With(listed, key, PageOf(key)) /\ counted' = counted
      BY <1>1, <1>13, <2>1, <2>8 DEF Store, Fresh
    <3>2. DOMAIN listed' = DOMAIN listed \cup {key}
      BY <3>1 DEF With
    <3>3. \A k \in DOMAIN listed' : listed'[k] = IF k = key THEN PageOf(key) ELSE listed[k]
      BY <3>1 DEF With
    <3>4. [kind |-> "page", key |-> key] \in registry /\ PageOf(key).goods \subseteq thumbs
      BY <1>1, <2>1, <2>3, <2>8 DEF Entry, Fresh
    <3>5. Registered(registry)'
      BY <2>1, <3>1, <3>2, <3>4 DEF Sound, Registered
    <3>6. CurrentCounts'
      BY <2>6, <3>1 DEF Sound, CurrentCounts
    <3>7. CurrentPages'
      BY <2>1, <2>3, <2>6, <3>2, <3>3, <3>4 DEF Sound, CurrentPages, Saving
    <3> QED
      BY <2>4, <2>5, <3>5, <3>6, <3>7 DEF Sound
  <2> QED
    BY <1>1, <2>7, <2>8 DEF VisitForm
<1> QED
  BY <1>3, <1>5, <1>6, <1>9, <1>11, <1>12, <1>13 DEF TypeUrl, FollowLink

\* A save keeps CacheInv.
LEMMA SaveSound ==
  ASSUME ListTypes, Sound, ~mishaps', NEW s \in Staff,
         \/ \E g \in Goods : \/ \E fact \in Facts : SaveProduct(s, g, fact)
                             \/ \E rating \in Ratings : AddReview(s, g, rating)
         \/ DeleteEntries(s) \/ DropRegistry(s) \/ Commit(s) \/ Rollback(s)
  PROVE  Sound'
<1>1. save \in [Staff -> SaveForm] /\ save[s] \in SaveForm
  BY DEF ListTypes, SaveTypes
<1>2. ASSUME NEW g, NEW facts, NEW rating, StartSave(s, g, facts, rating) PROVE Sound'
  <2>1. /\ UNCHANGED <<shelf, counted, listed, registry, visit>>
        /\ \A v \in Visitors : ~Computed(v)
    BY <1>2 DEF StartSave, theCache, Computed
  <2>2. /\ save'[s].step = "clear" /\ save'[s].keys = registry
        /\ \A t \in Staff \ {s} : save'[t] = save[t]
    BY <1>1, <1>2 DEF StartSave
  <2>3. \A v \in Visitors : Fresh(v)'
    BY <2>1 DEF Fresh, Computed
  <2>4. Registered(registry)'
    BY <2>1 DEF Sound, Registered
  <2>5. ASSUME NEW t \in Staff PROVE Cleared(t)'
    <3>1. CASE t = s
      BY <2>1, <2>2, <3>1 DEF Sound, Registered, Cleared
    <3>2. CASE t # s
      BY <2>1, <2>2, <3>2 DEF Sound, Registered, Cleared, NothingCached
    <3> QED
      BY <3>1, <3>2
  <2>6. ASSUME NEW k PROVE Counts(k)' = Counts(k) /\ PageOf(k)' = PageOf(k)
    BY <2>1, ShelfKept
  <2>7. CurrentCounts'
    BY <2>1, <2>6 DEF Sound, CurrentCounts
  <2>8. CurrentPages'
    BY <2>1, <2>2, <2>6 DEF Sound, CurrentPages
  <2> QED
    BY <2>3, <2>4, <2>5, <2>7, <2>8 DEF Sound
<1>3. CASE DeleteEntries(s)
  <2>1. Saving(s) /\ UNCHANGED visit /\ Registered(save[s].keys)
    BY <1>3 DEF DeleteEntries, Saving, Sound, Cleared
  <2> DEFINE keys(kind) == {entry.key : entry \in {e \in save[s].keys : e.kind = kind}}
  <2>2. DOMAIN counted \subseteq keys("counts")
    <3>1. ASSUME NEW k \in DOMAIN counted PROVE k \in keys("counts")
      <4>1. [kind |-> "counts", key |-> k] \in {e \in save[s].keys : e.kind = "counts"}
        BY <2>1 DEF Registered
      <4>2. [kind |-> "counts", key |-> k].key = k
        OBVIOUS
      <4> QED
        BY <4>1, <4>2
    <3> QED
      BY <3>1
  <2>3. DOMAIN listed \subseteq keys("page")
    <3>1. ASSUME NEW k \in DOMAIN listed PROVE k \in keys("page")
      <4>1. [kind |-> "page", key |-> k] \in {e \in save[s].keys : e.kind = "page"}
        BY <2>1 DEF Registered
      <4>2. [kind |-> "page", key |-> k].key = k
        OBVIOUS
      <4> QED
        BY <4>1, <4>2
    <3> QED
      BY <3>1
  <2>4. counted' = Without(counted, keys("counts")) /\ listed' = Without(listed, keys("page"))
    BY <1>3 DEF DeleteEntries
  <2> HIDE DEF keys
  <2>5. NothingCached'
    BY <2>2, <2>3, <2>4 DEF Without, NothingCached
  <2> QED
    BY <2>1, <2>5, EmptyIsSound
<1>4. CASE DropRegistry(s)
  <2>1. Saving(s) /\ UNCHANGED visit /\ NothingCached'
    BY <1>4 DEF DropRegistry, Saving, Sound, Cleared, NothingCached
  <2> QED
    BY <2>1, EmptyIsSound
<1>5. CASE Commit(s)
  <2>1. Saving(s) /\ UNCHANGED visit /\ NothingCached'
    BY <1>5 DEF Commit, Saving, Sound, Cleared, NothingCached, theCache
  <2> QED
    BY <2>1, EmptyIsSound
<1>6. CASE Rollback(s)
  <2>1. Saving(s) /\ UNCHANGED visit /\ save[s].step # "clear"
    BY <1>6 DEF Rollback
  <2>2. NothingCached'
    BY <1>1, <1>6, <2>1 DEF Rollback, Saving, SaveForm, Sound, Cleared, NothingCached, theCache
  <2> QED
    BY <2>1, <2>2, EmptyIsSound
<1> QED
  BY <1>2, <1>3, <1>4, <1>5, <1>6 DEF SaveProduct, AddReview

\* CacheInv is inductive.
LEMMA CacheInvStep == ListTypes /\ CacheInv /\ [ListingNext]_listingVars => CacheInv'
<1> SUFFICES ASSUME ListTypes, CacheInv, [ListingNext]_listingVars, ~mishaps' PROVE Sound'
  BY DEF CacheInv
<1>1. Sound
  <2>1. mishaps => mishaps'
    <3>1. ASSUME NEW v \in Visitors,
                 \/ TypeUrl(v) \/ FollowLink(v) \/ Hit(v) \/ Compute(v) \/ ReadRegistry(v)
                 \/ WriteRegistry(v) \/ Store(v) \/ AbandonPage(v)
          PROVE  mishaps => mishaps'
      BY <3>1 DEF TypeUrl, FollowLink, Open, Hit, Compute, ReadRegistry, WriteRegistry, Store, AbandonPage
    <3> QED
      BY <3>1 DEF ListingNext, listingVars, Expire, SaveProduct, AddReview, StartSave,
         DeleteEntries, DropRegistry, Commit, Rollback, SellOut
  <2> QED
    BY <2>1 DEF CacheInv
<1>2. ASSUME NEW k \in DOMAIN counted \cup DOMAIN listed, Expire(k) PROVE Sound'
  <2>1. UNCHANGED <<shelf, registry, thumbs, visit, save>>
    BY <1>2 DEF Expire
  <2>2. /\ DOMAIN counted' \subseteq DOMAIN counted
        /\ \A j \in DOMAIN counted' : counted'[j] = counted[j]
        /\ DOMAIN listed' \subseteq DOMAIN listed
        /\ \A j \in DOMAIN listed' : listed'[j] = listed[j]
    BY <1>2 DEF Expire, Without
  <2>3. \A v \in Visitors : Fresh(v)'
    BY <1>1, <2>1, FreshKept DEF Sound
  <2>4. ASSUME NEW j PROVE Counts(j)' = Counts(j) /\ PageOf(j)' = PageOf(j)
    BY <2>1, ShelfKept
  <2>5. Registered(registry)' /\ \A s \in Staff : Cleared(s)'
    BY <1>1, <2>1, <2>2 DEF Sound, Registered, Cleared, NothingCached
  <2>6. CurrentCounts'
    BY <1>1, <2>2, <2>4 DEF Sound, CurrentCounts
  <2>7. CurrentPages'
    BY <1>1, <2>1, <2>2, <2>4 DEF Sound, CurrentPages
  <2> QED
    BY <2>3, <2>5, <2>6, <2>7 DEF Sound
<1>3. ASSUME NEW g \in Goods, SellOut(g) PROVE FALSE
  BY <1>3 DEF SellOut
<1>4. CASE UNCHANGED listingVars
  <2>1. /\ Registered(registry)' /\ \A s \in Staff : Cleared(s)'
        /\ CurrentCounts' /\ CurrentPages'
    BY <1>1, <1>4, CacheKept DEF listingVars, theCache
  <2>2. \A v \in Visitors : Fresh(v)'
    BY <1>1, <1>4, FreshKept DEF listingVars, theCache, Sound
  <2> QED
    BY <2>1, <2>2 DEF Sound
<1> QED
  BY <1>1, <1>2, <1>3, <1>4, RequestSound, SaveSound DEF ListingNext

\* What the invariant says at every moment.
LEMMA CacheInvariant == ListingSpec => []CacheInv
<1>1. ListingInit => CacheInv
  BY DEF ListingInit, CacheInv, Sound, Registered, Cleared, NothingCached, CurrentCounts,
     CurrentPages, Fresh, Computed, IdleVisit, IdleSave
<1> QED
  BY <1>1, CacheInvStep, ListTypesInvariant, PTL DEF ListingSpec

\* Whatever is cached is what the database says, and its thumbnails exist, as long as no
\* page was computed during a save, no save died before it cleared the cache, no two
\* requests overwrote each other's registry and no order took a last unit
\* (CachedIsCurrent).
THEOREM CacheCurrent == ListingSpec => []CachedIsCurrent
<1>1. CacheInv => CachedIsCurrent
  BY DEF CacheInv, Sound, CurrentCounts, CurrentPages, CachedIsCurrent
<1> QED
  BY <1>1, CacheInvariant, PTL

-----------------------------------------------------------------------------
(* The counts do not lie *)

\* A price is in one band.
LEMMA OneBand ==
  ASSUME NEW price \in Nat, NEW a \in Bands, NEW b \in Bands,
         InBand(price, a), InBand(price, b)
  PROVE  a = b
<1>1. /\ InBand(price, "under-25") <=> price < 25
      /\ InBand(price, "25-50") <=> price >= 25 /\ price < 50
      /\ InBand(price, "50-100") <=> price >= 50 /\ price < 100
      /\ InBand(price, "100-plus") <=> price >= 100
  BY DEF InBand
<1> QED
  BY <1>1 DEF Bands

\* The listed products of one price band, with the other facets applied.
InPriceBand(key, b) ==
  {g \in Apply(Base(key), [key EXCEPT !.price = {}]) : InBand(shelf[g].price, b)}

\* What the page counts of each value of a facet.
LEMMA CountOf ==
  ASSUME NEW key
  PROVE  /\ \A b \in Bands : Counts(key).price[b] = Cardinality(InPriceBand(key, b))
         /\ \A r \in RatingSteps :
              Counts(key).rating[r] =
                Cardinality({g \in Apply(Base(key), [key EXCEPT !.rating = 0]) : shelf[g].rating >= r})
         /\ Counts(key).stock =
              Cardinality({g \in Apply(Base(key), [key EXCEPT !.stock = FALSE]) : shelf[g].inStock})
BY DEF Counts, InPriceBand

\* The base of a listing depends on the path and the search alone.
LEMMA SameBase ==
  ASSUME NEW key, NEW k, k.path = key.path, k.q = key.q
  PROVE  Base(k) = Base(key)
BY DEF Base

\* With price bands selected, a listing consists of those bands.
LEMMA ListedByBand ==
  ASSUME NEW key \in Keys, NEW k, k.path = key.path, k.q = key.q, k.category = key.category,
         k.rating = key.rating, k.stock = key.stock, k.price # {}
  PROVE  Listed(k) = UNION {InPriceBand(key, b) : b \in k.price}
<1> DEFINE none == [key EXCEPT !.price = {}]
<1>1. /\ none.category = key.category /\ none.price = {} /\ none.rating = key.rating
      /\ none.stock = key.stock
  BY DEF Keys
<1> HIDE DEF none
<1>2. Base(k) = Base(key)
  BY SameBase
<1>3. Listed(k) = {g \in Apply(Base(key), none) : \E b \in k.price : InBand(shelf[g].price, b)}
  BY <1>1, <1>2 DEF Listed, Apply
<1>4. \A b : InPriceBand(key, b) = {g \in Apply(Base(key), none) : InBand(shelf[g].price, b)}
  BY DEF InPriceBand, none
<1> QED
  BY <1>3, <1>4

\* Bands share no product, and each is finite.
LEMMA BandsApart ==
  ASSUME ListTypes, NEW key, NEW a \in Bands, NEW b \in Bands, a # b
  PROVE  InPriceBand(key, a) \cap InPriceBand(key, b) = {}
<1> SUFFICES ASSUME NEW g \in InPriceBand(key, a), g \in InPriceBand(key, b) PROVE FALSE
  OBVIOUS
<1>1. g \in Goods /\ shelf[g].price \in Nat
  BY ApplyFinite DEF InPriceBand, ListTypes, SaveTypes, Fact
<1> QED
  BY <1>1, OneBand DEF InPriceBand

\* A band is a finite set of products.
LEMMA BandFinite ==
  ASSUME NEW key, NEW b
  PROVE  IsFiniteSet(InPriceBand(key, b)) /\ Cardinality(InPriceBand(key, b)) \in Nat
<1>1. InPriceBand(key, b) \in SUBSET Apply(Base(key), [key EXCEPT !.price = {}])
  BY DEF InPriceBand
<1> QED
  BY <1>1, ApplyFinite

\* The keys that the facet links lead to differ in the facet alone (and in the page).
LEMMA LinkKeys ==
  ASSUME NEW url \in Url, NEW link
  PROVE  LET key == KeyOf(url)
             k == KeyOf(link)
         IN  /\ link = StockUrl(url) /\ ~key.stock =>
                  /\ k.path = key.path /\ k.q = key.q /\ k.category = key.category
                  /\ k.price = key.price /\ k.rating = key.rating /\ k.stock
             /\ \A b \in Bands \ key.price : link = PriceUrl(url, b) =>
                  /\ k.path = key.path /\ k.q = key.q /\ k.category = key.category
                  /\ k.price = key.price \cup {b} /\ k.rating = key.rating /\ k.stock = key.stock
             /\ \A r \in RatingSteps \ url.rating : link = RatingUrl(url, r) =>
                  /\ k.path = key.path /\ k.q = key.q /\ k.category = key.category
                  /\ k.price = key.price /\ k.rating = r /\ k.stock = key.stock
<1>1. ASSUME link = StockUrl(url), ~url.stock
      PROVE  /\ link.path = url.path /\ link.q = url.q /\ link.category = url.category
             /\ link.price = url.price /\ link.rating = url.rating /\ link.stock
  BY <1>1 DEF StockUrl, Url
<1>2. ASSUME NEW b \in Bands \ KeyOf(url).price, link = PriceUrl(url, b)
      PROVE  /\ link.path = url.path /\ link.q = url.q /\ link.category = url.category
             /\ link.price \cap Bands = (url.price \cap Bands) \cup {b}
             /\ link.rating = url.rating /\ link.stock = url.stock
  <2>1. b \notin url.price
    BY DEF KeyOf
  <2>2. link = [url EXCEPT !.page = 1, !.price = url.price \cup {b}]
    BY <1>2, <2>1 DEF PriceUrl, Toggle, Url
  <2> QED
    BY <2>2 DEF Url
<1>3. ASSUME NEW r \in RatingSteps \ url.rating, link = RatingUrl(url, r)
      PROVE  /\ link.path = url.path /\ link.q = url.q /\ link.category = url.category
             /\ link.price = url.price /\ Strongest(link.rating) = r /\ link.stock = url.stock
  <2>1. link = [url EXCEPT !.page = 1, !.rating = {r}]
    BY <1>3 DEF RatingUrl, Url
  <2> QED
    BY <2>1, StrongestType DEF Url
<1> QED
  BY <1>1, <1>2, <1>3 DEF KeyOf

\* The numbers of the price bands that are selected add up to the listing.
LEMMA SelectedBandsAddUp ==
  ASSUME ListTypes, NEW key \in Keys, key.price # {}
  PROVE  LET chosen(b) == IF b \in key.price THEN Counts(key).price[b] ELSE 0
         IN  Cardinality(Listed(key)) =
               chosen("under-25") + chosen("25-50") + chosen("50-100") + chosen("100-plus")
<1> DEFINE Part(b) == IF b \in key.price THEN InPriceBand(key, b) ELSE {}
           n(b) == Cardinality(Part(b))
<1>1. key.price \subseteq Bands
  BY DEF Keys
<1>2. Listed(key) = UNION {InPriceBand(key, b) : b \in key.price}
  BY ListedByBand
<1>3. Listed(key) = Part("under-25") \cup Part("25-50") \cup Part("50-100") \cup Part("100-plus")
  BY <1>1, <1>2 DEF Bands
<1>4. ASSUME NEW b PROVE IsFiniteSet(Part(b)) /\ n(b) \in Nat
  BY BandFinite, FS_EmptySet
<1>5. ASSUME NEW a \in Bands, NEW b \in Bands, a # b PROVE Part(a) \cap Part(b) = {}
  BY <1>5, BandsApart
<1>6. ASSUME NEW b \in Bands
      PROVE  n(b) = IF b \in key.price THEN Counts(key).price[b] ELSE 0
  BY CountOf, FS_EmptySet
<1> HIDE DEF Part
<1>7. ASSUME NEW S, NEW T, IsFiniteSet(S), IsFiniteSet(T), S \cap T = {},
             Cardinality(S) \in Nat, Cardinality(T) \in Nat
      PROVE  /\ IsFiniteSet(S \cup T) /\ Cardinality(S \cup T) \in Nat
             /\ Cardinality(S \cup T) = Cardinality(S) + Cardinality(T)
  <2>1. /\ IsFiniteSet(S \cup T)
        /\ Cardinality(S \cup T) = Cardinality(S) + Cardinality(T) - Cardinality(S \cap T)
    BY <1>7, FS_Union
  <2>2. Cardinality(S \cap T) = 0
    BY <1>7, FS_EmptySet
  <2> QED
    BY <1>7, <2>1, <2>2
<1> DEFINE two == Part("under-25") \cup Part("25-50")
           three == two \cup Part("50-100")
<1>8. /\ IsFiniteSet(two) /\ Cardinality(two) \in Nat
      /\ Cardinality(two) = n("under-25") + n("25-50")
  BY <1>4, <1>5, <1>7 DEF Bands
<1>9. /\ IsFiniteSet(three) /\ Cardinality(three) \in Nat
      /\ Cardinality(three) = n("under-25") + n("25-50") + n("50-100")
  <2>1. two \cap Part("50-100") = {}
    BY <1>5 DEF Bands
  <2> QED
    BY <1>4, <1>7, <1>8, <2>1
<1>10. Cardinality(three \cup Part("100-plus")) =
         n("under-25") + n("25-50") + n("50-100") + n("100-plus")
  <2>1. three \cap Part("100-plus") = {}
    BY <1>5 DEF Bands
  <2> QED
    BY <1>4, <1>7, <1>9, <2>1
<1> QED
  BY <1>3, <1>6, <1>10 DEF Bands

\* What a link leads to has the number of products the database says.
LEMMA ServedTotal ==
  ASSUME CurrentPages, NEW url
  PROVE  Served(url).total = Cardinality(Listed(KeyOf(url)))
BY DEF Served, CurrentPages, PageOf

\* One more price band.
LEMMA PriceLink ==
  ASSUME ListTypes, CurrentPages, NEW url \in Url, NEW b \in Bands \ KeyOf(url).price
  PROVE  Served(PriceUrl(url, b)).total =
           Counts(KeyOf(url)).price[b]
             + (IF KeyOf(url).price = {} THEN 0 ELSE Cardinality(Listed(KeyOf(url))))
<1> DEFINE key == KeyOf(url)
           k == KeyOf(PriceUrl(url, b))
<1>1. key \in Keys
  BY KeyType
<1>2. /\ k.path = key.path /\ k.q = key.q /\ k.category = key.category
      /\ k.price = key.price \cup {b} /\ k.rating = key.rating /\ k.stock = key.stock
  BY LinkKeys
<1>3. Counts(key).price[b] = Cardinality(InPriceBand(key, b))
  BY CountOf
<1>4. IsFiniteSet(InPriceBand(key, b)) /\ Cardinality(InPriceBand(key, b)) \in Nat
  BY BandFinite
<1>5. key.price \subseteq Bands
  BY <1>1 DEF Keys
<1>6. Served(PriceUrl(url, b)).total = Cardinality(Listed(k))
  BY ServedTotal
<1> HIDE DEF key, k
<1>7. Listed(k) = UNION {InPriceBand(key, a) : a \in key.price \cup {b}}
  BY <1>1, <1>2, ListedByBand
<1>8. CASE key.price = {}
  <2>1. Listed(k) = InPriceBand(key, b)
    BY <1>7, <1>8
  <2> QED
    BY <1>3, <1>4, <1>6, <1>8, <2>1 DEF key
<1>9. CASE key.price # {}
  <2>1. Listed(key) = UNION {InPriceBand(key, a) : a \in key.price}
    BY <1>1, <1>9, ListedByBand
  <2>2. Listed(k) = InPriceBand(key, b) \cup Listed(key)
    BY <1>7, <2>1
  <2>3. InPriceBand(key, b) \cap Listed(key) = {}
    <3>1. ASSUME NEW a \in key.price PROVE InPriceBand(key, b) \cap InPriceBand(key, a) = {}
      BY <1>5, BandsApart DEF key
    <3> QED
      BY <2>1, <3>1
  <2>4. IsFiniteSet(Listed(key)) /\ Cardinality(Listed(key)) \in Nat
    BY ApplyFinite DEF Listed
  <2>5. Cardinality(Listed(k)) = Cardinality(InPriceBand(key, b)) + Cardinality(Listed(key)) - Cardinality({})
    BY <1>4, <2>2, <2>3, <2>4, FS_Union
  <2>6. Cardinality({}) = 0
    BY FS_EmptySet
  <2> QED
    BY <1>3, <1>4, <1>6, <1>9, <2>4, <2>5, <2>6 DEF key
<1> QED
  BY <1>8, <1>9

\* A rating threshold, or one of the listing itself.
LEMMA RatingLink ==
  ASSUME NEW key \in Keys, NEW k, NEW r \in RatingSteps,
         k.path = key.path, k.q = key.q, k.category = key.category, k.price = key.price,
         k.rating = r, k.stock = key.stock
  PROVE  Cardinality(Listed(k)) = Counts(key).rating[r]
<1> DEFINE none == [key EXCEPT !.rating = 0]
<1>1. /\ none.category = key.category /\ none.price = key.price /\ none.rating = 0
      /\ none.stock = key.stock
  BY DEF Keys
<1> HIDE DEF none
<1>2. Base(k) = Base(key)
  BY SameBase
<1>3. Listed(k) = {g \in Apply(Base(key), none) : shelf[g].rating >= r}
  BY <1>1, <1>2 DEF Listed, Apply, RatingSteps
<1>4. Counts(key).rating[r] = Cardinality({g \in Apply(Base(key), none) : shelf[g].rating >= r})
  BY CountOf DEF none
<1> QED
  BY <1>3, <1>4

\* What is in stock, or the listing that shows only that.
LEMMA StockLink ==
  ASSUME NEW key \in Keys, NEW k,
         k.path = key.path, k.q = key.q, k.category = key.category, k.price = key.price,
         k.rating = key.rating, k.stock
  PROVE  Cardinality(Listed(k)) = Counts(key).stock
<1> DEFINE none == [key EXCEPT !.stock = FALSE]
<1>1. /\ none.category = key.category /\ none.price = key.price /\ none.rating = key.rating
      /\ ~none.stock
  BY DEF Keys
<1> HIDE DEF none
<1>2. Base(k) = Base(key)
  BY SameBase
<1>3. Listed(k) = {g \in Apply(Base(key), none) : shelf[g].inStock}
  BY <1>1, <1>2 DEF Listed, Apply
<1> QED
  BY <1>3, CountOf DEF none

\* Counts never lie: where counts and listing on the screen are current, every facet link
\* leads to as many products as its count says, and the counts of the selected values are
\* those of the listing, for any catalog, category and page size (CountsNeverLie).
THEOREM CountsTrue == ListingSpec => []CountsNeverLie
<1>1. ListTypes /\ CacheInv => CountsNeverLie
  <2> SUFFICES ASSUME ListTypes, CacheInv, ~mishaps, NEW v \in Visitors,
                      visit[v].step = "shown",
                      NEW counts \in visit[v].counts, NEW page \in visit[v].page,
                      counts = Counts(KeyOf(visit[v].url)), page = PageOf(KeyOf(visit[v].url))
               PROVE  LET url == visit[v].url
                          key == KeyOf(url)
                          chosen(b) == IF b \in key.price THEN counts.price[b] ELSE 0
                      IN  /\ \A b \in Bands \ key.price :
                               Served(PriceUrl(url, b)).total =
                                 counts.price[b] + (IF key.price = {} THEN 0 ELSE page.total)
                          /\ \A r \in RatingSteps \ url.rating :
                               Served(RatingUrl(url, r)).total = counts.rating[r]
                          /\ ~key.stock => Served(StockUrl(url)).total = counts.stock
                          /\ key.price # {} =>
                               page.total = chosen("under-25") + chosen("25-50") + chosen("50-100")
                                              + chosen("100-plus")
                          /\ key.rating # 0 => page.total = counts.rating[key.rating]
                          /\ key.stock => page.total = counts.stock
    BY ZenonT(60) DEF CountsNeverLie
  <2> DEFINE url == visit[v].url
             key == KeyOf(url)
  <2>1. url \in Url /\ key \in Keys /\ CurrentPages
    BY KeyType DEF ListTypes, VisitTypes, VisitForm, CacheInv, Sound
  <2>2. page.total = Cardinality(Listed(key))
    BY DEF PageOf
  <2>3. ASSUME NEW b \in Bands \ key.price
        PROVE  Served(PriceUrl(url, b)).total =
                 counts.price[b] + (IF key.price = {} THEN 0 ELSE page.total)
    BY <2>1, <2>2, PriceLink
  <2>4. ASSUME NEW r \in RatingSteps \ url.rating
        PROVE  Served(RatingUrl(url, r)).total = counts.rating[r]
    BY <2>1, LinkKeys, ServedTotal, RatingLink
  <2>5. ASSUME ~key.stock PROVE Served(StockUrl(url)).total = counts.stock
    <3> DEFINE k == KeyOf(StockUrl(url))
    <3>1. /\ k.path = key.path /\ k.q = key.q /\ k.category = key.category /\ k.price = key.price
          /\ k.rating = key.rating /\ k.stock
      BY <2>1, <2>5, LinkKeys
    <3>2. Served(StockUrl(url)).total = Cardinality(Listed(k))
      BY <2>1, ServedTotal
    <3> HIDE DEF k, key
    <3>3. Cardinality(Listed(k)) = Counts(key).stock
      BY <2>1, <3>1, StockLink
    <3> QED
      BY <3>2, <3>3 DEF key
  <2>6. key.price # {} =>
          page.total = (IF "under-25" \in key.price THEN counts.price["under-25"] ELSE 0)
                         + (IF "25-50" \in key.price THEN counts.price["25-50"] ELSE 0)
                         + (IF "50-100" \in key.price THEN counts.price["50-100"] ELSE 0)
                         + (IF "100-plus" \in key.price THEN counts.price["100-plus"] ELSE 0)
    BY <2>1, <2>2, SelectedBandsAddUp
  <2>7. key.rating # 0 => page.total = counts.rating[key.rating]
    <3>1. key.rating \in {0} \cup RatingSteps
      BY <2>1 DEF Keys
    <3> QED
      BY <2>1, <2>2, <3>1, RatingLink
  <2>8. key.stock => page.total = counts.stock
    BY <2>1, <2>2, StockLink
  <2> QED
    BY <2>3, <2>4, <2>5, <2>6, <2>7, <2>8
<1> QED
  BY <1>1, ListTypesInvariant, CacheInvariant, PTL
-----------------------------------------------------------------------------
(* EmailVerification *)

\* What is known of a request at each step: the account and the address it issues a
\* token for, the row it made, or the row whose link it confirms.
FormOK(f) ==
  /\ form[f].step \in {"registering", "saving", "deleting", "creating", "mailing"} =>
       form[f].user \in Users /\ form[f].address \in Addresses
  /\ form[f].step = "mailing" =>
       /\ form[f].number \in 1..issued
       /\ token[form[f].number].address = form[f].address
  /\ form[f].step = "confirming" =>
       /\ form[f].number \in 1..issued
       /\ <<token[form[f].number].user, token[form[f].number].address>> \in followed

\* A mail goes to the address of its row; who has verified a row has followed its link.
LinkInv ==
  /\ AccountTypeOK
  /\ \A f \in Forms : FormOK(f)
  /\ \A n \in Tokens :
       /\ sentTo[n] # NoAddress => n <= issued /\ sentTo[n] = token[n].address
       /\ token[n].state = "verified" => <<token[n].user, token[n].address>> \in followed

\* A row that does not exist yet is none, and cannot verify.
LEMMA NoRowIsNoRow == NoRowYet \notin Row /\ NoRowYet.state = "deleted"
BY VerificationAssumption DEF NoRowYet, Row

\* No link is issued, mailed or followed at the start.
LEMMA LinkInit == AccountInit => LinkInv
<1> SUFFICES ASSUME AccountInit PROVE LinkInv
  OBVIOUS
<1>1. IdleForm \in Form /\ IdleForm.step = "idle"
  BY VerificationAssumption DEF IdleForm, Form
<1>2. AccountTypeOK
  <2>1. \A n \in Tokens : token[n] \notin Row /\ ~(n <= 0)
    BY NoRowIsNoRow, VerificationAssumption DEF AccountInit, Tokens
  <2>2. 0 \in 0..MaxTokens
    BY VerificationAssumption
  <2> QED
    BY <1>1, <2>1, <2>2 DEF AccountInit, AccountTypeOK
<1> QED
  BY <1>1, <1>2, NoRowIsNoRow, VerificationAssumption DEF AccountInit, LinkInv, FormOK

\* A request moves on, as a record of the right shape.
LEMMA FormMoves ==
  ASSUME AccountTypeOK, NEW f \in Forms, NEW k \in Form, form' = [form EXCEPT ![f] = k]
  PROVE  /\ form' \in [Forms -> Form]
         /\ form'[f] = k /\ \A g \in Forms \ {f} : form'[g] = form[g]
BY DEF AccountTypeOK

\* Forms rest as records of the right shape.
LEMMA IdleIsForm == IdleForm \in Form /\ IdleForm.step = "idle"
BY VerificationAssumption DEF IdleForm, Form

\* Rows that keep their owner and address, none of them newly verified.
LEMMA RowsKept ==
  ASSUME LinkInv, NEW f \in Forms, NEW k \in Form, form' = [form EXCEPT ![f] = k],
         account' \in [Users -> Addresses \cup {NoAddress}],
         UNCHANGED <<issued, sentTo, followed>>, crossed' \in BOOLEAN,
         token' \in [Tokens -> Row \cup {NoRowYet}],
         \A n \in Tokens :
           /\ token'[n].user = token[n].user /\ token'[n].address = token[n].address
           /\ token'[n] \in Row <=> token[n] \in Row
           /\ token'[n].state = "verified" =>
                <<token[n].user, token[n].address>> \in followed,
         k.step \in {"registering", "saving", "deleting", "creating"} =>
           k.user \in Users /\ k.address \in Addresses,
         k.step \notin {"mailing", "confirming"}
  PROVE  LinkInv'
<1>1. AccountTypeOK
  BY DEF LinkInv
<1>2. /\ form' \in [Forms -> Form]
      /\ form'[f] = k /\ \A g \in Forms \ {f} : form'[g] = form[g]
  BY <1>1, FormMoves
<1>3. AccountTypeOK'
  BY <1>1, <1>2 DEF AccountTypeOK
<1>4. 1..issued \subseteq Tokens
  BY <1>1, VerificationAssumption DEF AccountTypeOK, Tokens
<1>5. ASSUME NEW g \in Forms PROVE FormOK(g)'
  BY <1>2, <1>4 DEF LinkInv, FormOK
<1> QED
  BY <1>3, <1>5 DEF LinkInv

\* Every step of a request and every expiry keep LinkInv.
LEMMA LinkNext == LinkInv /\ [AccountNext]_accountVars => LinkInv'
<1> SUFFICES ASSUME LinkInv, [AccountNext]_accountVars
             PROVE  LinkInv'
  OBVIOUS
<1>0. AccountTypeOK /\ 1..issued \subseteq Tokens
  BY VerificationAssumption DEF LinkInv, AccountTypeOK, Tokens
<1>1. ASSUME NEW f \in Forms, NEW step \in {"registering", "saving", "deleting"},
             NEW u \in Users, NEW address \in Addresses, NEW changed \in BOOLEAN,
             StartForm(f, step, u, address, changed),
             UNCHANGED <<account, token, issued, sentTo, followed, crossed>>
      PROVE  LinkInv'
  <2> DEFINE k == [step |-> step, user |-> u, address |-> address, changed |-> changed,
                   number |-> 0]
  <2>1. k \in Form /\ k.step = step /\ k.user = u /\ k.address = address
    <3>1. 0 \in 0..MaxTokens
      BY VerificationAssumption
    <3> QED
      BY <3>1 DEF Form
  <2>2. form' = [form EXCEPT ![f] = k]
    BY <1>1 DEF StartForm
  <2> HIDE DEF k
  <2> QED
    BY <1>0, <1>1, <2>1, <2>2, RowsKept DEF AccountTypeOK, LinkInv
<1>2. ASSUME NEW f \in Forms, SaveUser(f) PROVE LinkInv'
  <2> DEFINE k == IF form[f].changed THEN [form[f] EXCEPT !.step = "deleting"] ELSE IdleForm
  <2>1. /\ form' = [form EXCEPT ![f] = k]
        /\ form[f].step \in {"registering", "saving"}
        /\ account' = [account EXCEPT ![form[f].user] = form[f].address]
        /\ UNCHANGED <<token, issued, sentTo, followed, crossed>>
    BY <1>2 DEF SaveUser
  <2>2. form[f].user \in Users /\ form[f].address \in Addresses /\ form[f] \in Form
    BY <1>0, <2>1 DEF LinkInv, FormOK, AccountTypeOK
  <2>3. /\ k \in Form /\ k.step \in {"deleting", "idle"}
        /\ k.step = "deleting" => k.user \in Users /\ k.address \in Addresses
    BY <2>2, IdleIsForm DEF Form
  <2> HIDE DEF k
  <2>4. account' \in [Users -> Addresses \cup {NoAddress}]
    BY <1>0, <2>1, <2>2 DEF AccountTypeOK
  <2> QED
    BY <1>0, <2>1, <2>3, <2>4, RowsKept DEF AccountTypeOK, LinkInv
<1>3. ASSUME NEW f \in Forms, DeleteOutstanding(f) PROVE LinkInv'
  <2> DEFINE k == [form[f] EXCEPT !.step = "creating"]
  <2>1. /\ form' = [form EXCEPT ![f] = k]
        /\ form[f].step = "deleting" /\ crossed' \in BOOLEAN
        /\ UNCHANGED <<account, issued, sentTo, followed>>
    BY <1>0, <1>3 DEF DeleteOutstanding, AccountTypeOK
  <2>2. form[f].user \in Users /\ form[f].address \in Addresses /\ form[f] \in Form
    BY <1>0, <2>1 DEF LinkInv, FormOK, AccountTypeOK
  <2>3. k \in Form /\ k.step = "creating" /\ k.user \in Users /\ k.address \in Addresses
    BY <2>2 DEF Form
  <2> HIDE DEF k
  <2>4. /\ token' \in [Tokens -> Row \cup {NoRowYet}]
        /\ \A n \in Tokens :
             /\ token'[n].user = token[n].user /\ token'[n].address = token[n].address
             /\ token'[n] \in Row <=> token[n] \in Row
             /\ token'[n].state = "verified" => token[n].state = "verified"
    <3>1. ASSUME NEW n \in Tokens
          PROVE  LET new == IF token[n].user = form[f].user /\ Outstanding(n)
                            THEN [token[n] EXCEPT !.state = "deleted"] ELSE token[n]
                 IN  /\ new \in Row \cup {NoRowYet}
                     /\ new.user = token[n].user /\ new.address = token[n].address
                     /\ new \in Row <=> token[n] \in Row
                     /\ new.state = "verified" => token[n].state = "verified"
      <4>1. token[n] \in Row \/ token[n] = NoRowYet
        BY <1>0 DEF AccountTypeOK
      <4>2. CASE token[n] \in Row
        BY <4>2 DEF Row
      <4>3. CASE token[n] = NoRowYet
        BY <4>3, NoRowIsNoRow DEF Outstanding
      <4> QED
        BY <4>1, <4>2, <4>3
    <3>2. token' = [n \in Tokens |-> IF token[n].user = form[f].user /\ Outstanding(n)
                                     THEN [token[n] EXCEPT !.state = "deleted"] ELSE token[n]]
      BY <1>3 DEF DeleteOutstanding
    <3> QED
      BY <3>1, <3>2
  <2> QED
    BY <1>0, <2>1, <2>3, <2>4, RowsKept DEF AccountTypeOK, LinkInv
<1>4. ASSUME NEW f \in Forms, CreateToken(f) PROVE LinkInv'
  <2>1. PICK new \in Tokens : new = issued + 1 /\ issued' = new /\ issued \in Nat
    BY <1>0, <1>4, VerificationAssumption DEF CreateToken, AccountTypeOK, Tokens
  <2> DEFINE k == [form[f] EXCEPT !.step = "mailing", !.number = new]
             row == [user |-> form[f].user, address |-> form[f].address, state |-> "pending"]
  <2>2. /\ form' = [form EXCEPT ![f] = k] /\ token' = [token EXCEPT ![new] = row]
        /\ form[f].step = "creating" /\ UNCHANGED <<account, sentTo, followed, crossed>>
    <3>1. form' = [form EXCEPT ![f].step = "mailing", ![f].number = new]
      BY <1>4, <2>1 DEF CreateToken
    <3> QED
      BY <1>0, <1>4, <2>1, <3>1 DEF CreateToken, AccountTypeOK
  <2>3. form[f].user \in Users /\ form[f].address \in Addresses /\ form[f] \in Form
    BY <1>0, <2>2 DEF LinkInv, FormOK, AccountTypeOK
  <2>4. /\ k \in Form /\ k.step = "mailing" /\ k.number = new
        /\ k.user = form[f].user /\ k.address = form[f].address
    <3>1. new \in 0..MaxTokens
      BY VerificationAssumption DEF Tokens
    <3> QED
      BY <2>3, <3>1 DEF Form
  <2>5. row \in Row /\ row.address = form[f].address /\ row.state = "pending"
    BY <2>3 DEF Row
  <2> HIDE DEF k, row
  <2>6. /\ form' \in [Forms -> Form]
        /\ form'[f] = k /\ \A g \in Forms \ {f} : form'[g] = form[g]
    BY <1>0, <2>2, <2>4, FormMoves
  <2>7. /\ token' \in [Tokens -> Row \cup {NoRowYet}] /\ token'[new] = row
        /\ \A n \in Tokens \ {new} : token'[n] = token[n]
    BY <1>0, <2>2, <2>5 DEF AccountTypeOK
  <2>8. \A n \in Tokens : n \in Nat /\ (n <= issued' <=> n <= issued \/ n = new)
    BY <2>1, VerificationAssumption DEF Tokens
  <2>9. AccountTypeOK'
    BY <1>0, <2>1, <2>2, <2>5, <2>6, <2>7, <2>8 DEF AccountTypeOK, Tokens
  <2>10. new \notin 1..issued /\ new \in 1..issued' /\ 1..issued \subseteq 1..issued'
    BY <2>1, VerificationAssumption DEF Tokens
  <2>11. ASSUME NEW g \in Forms PROVE FormOK(g)'
    BY <1>0, <2>2, <2>3, <2>4, <2>5, <2>6, <2>7, <2>10, <2>11 DEF LinkInv, FormOK
  <2>12. \A n \in Tokens :
           /\ sentTo'[n] # NoAddress => n <= issued' /\ sentTo'[n] = token'[n].address
           /\ token'[n].state = "verified" => <<token'[n].user, token'[n].address>> \in followed'
    <3> TAKE n \in Tokens
    <3>1. /\ sentTo[n] # NoAddress => n <= issued /\ sentTo[n] = token[n].address
          /\ token[n].state = "verified" => <<token[n].user, token[n].address>> \in followed
      BY DEF LinkInv
    <3>2. CASE n = new
      <4>1. ~(n <= issued)
        BY <2>1, <3>2
      <4> QED
        BY <2>2, <2>5, <2>7, <3>1, <3>2, <4>1
    <3>3. CASE n # new
      BY <2>2, <2>7, <2>8, <3>1, <3>3
    <3> QED
      BY <3>2, <3>3
  <2> QED
    BY <2>9, <2>11, <2>12 DEF LinkInv
<1>5. ASSUME NEW f \in Forms, Mail(f) PROVE LinkInv'
  <2>1. /\ form' = [form EXCEPT ![f] = IdleForm] /\ form[f].step = "mailing"
        /\ UNCHANGED <<account, token, issued, followed, crossed>>
        /\ \/ sentTo' = [sentTo EXCEPT ![form[f].number] = form[f].address]
           \/ sentTo' = sentTo
    BY <1>5 DEF Mail
  <2>2. /\ form[f].number \in 1..issued /\ form[f].address \in Addresses
        /\ token[form[f].number].address = form[f].address
    BY <1>0, <2>1 DEF LinkInv, FormOK
  <2>3. form[f].number \in Tokens /\ form[f].number <= issued
    BY <1>0, <2>2 DEF AccountTypeOK
  <2>4. /\ form' \in [Forms -> Form]
        /\ form'[f] = IdleForm /\ \A g \in Forms \ {f} : form'[g] = form[g]
    BY <1>0, <2>1, IdleIsForm, FormMoves
  <2>5. AccountTypeOK'
    BY <1>0, <2>1, <2>2, <2>3, <2>4 DEF AccountTypeOK
  <2>6. ASSUME NEW g \in Forms PROVE FormOK(g)'
    BY <2>1, <2>4, IdleIsForm DEF LinkInv, FormOK
  <2>7. \A n \in Tokens : sentTo'[n] # NoAddress => n <= issued /\ sentTo'[n] = token[n].address
    BY <1>0, <2>1, <2>2, <2>3 DEF LinkInv, AccountTypeOK
  <2> QED
    BY <2>1, <2>5, <2>6, <2>7 DEF LinkInv
<1>6. ASSUME NEW f \in Forms, Die(f) PROVE LinkInv'
  <2>1. /\ form' = [form EXCEPT ![f] = IdleForm] /\ crossed' \in BOOLEAN
        /\ UNCHANGED <<account, token, issued, sentTo, followed>>
    BY <1>0, <1>6 DEF Die, AccountTypeOK
  <2> QED
    BY <1>0, <2>1, IdleIsForm, RowsKept DEF AccountTypeOK, LinkInv
<1>7. ASSUME NEW f \in Forms, NEW n \in Tokens, OpenLink(f, n) PROVE LinkInv'
  <2> DEFINE k == [IdleForm EXCEPT !.step = "confirming", !.number = n]
             pair == <<token[n].user, token[n].address>>
  <2>1. /\ form' = [form EXCEPT ![f] = k] /\ sentTo[n] # NoAddress
        /\ followed' = followed \cup {<<token[n].user, sentTo[n]>>}
        /\ UNCHANGED <<account, token, issued, sentTo, crossed>>
    BY <1>7 DEF OpenLink
  <2>2. n <= issued /\ sentTo[n] = token[n].address /\ n \in 1..issued
    <3>1. n <= issued /\ sentTo[n] = token[n].address
      BY <2>1 DEF LinkInv
    <3> QED
      BY <1>0, <3>1, VerificationAssumption DEF AccountTypeOK, Tokens
  <2>3. token[n] \in Row /\ pair \in Users \X Addresses
    BY <1>0, <2>2 DEF AccountTypeOK, Row
  <2>4. k \in Form /\ k.step = "confirming" /\ k.number = n
    <3>1. n \in 0..MaxTokens
      BY VerificationAssumption DEF Tokens
    <3> QED
      BY <3>1, IdleIsForm DEF Form
  <2>5. followed' = followed \cup {pair}
    BY <2>1, <2>2
  <2> HIDE DEF k
  <2>6. /\ form' \in [Forms -> Form]
        /\ form'[f] = k /\ \A g \in Forms \ {f} : form'[g] = form[g]
    BY <1>0, <2>1, <2>4, FormMoves
  <2>7. AccountTypeOK'
    BY <1>0, <2>1, <2>3, <2>5, <2>6 DEF AccountTypeOK
  <2>8. ASSUME NEW g \in Forms PROVE FormOK(g)'
    BY <2>1, <2>2, <2>4, <2>5, <2>6 DEF LinkInv, FormOK
  <2> QED
    BY <2>1, <2>5, <2>7, <2>8 DEF LinkInv
<1>8. ASSUME NEW f \in Forms, Confirm(f) PROVE LinkInv'
  <2> DEFINE n == form[f].number
  <2>1. /\ form' = [form EXCEPT ![f] = IdleForm] /\ form[f].step = "confirming"
        /\ UNCHANGED <<account, issued, sentTo, followed, crossed>>
        /\ token' = IF Exists(n) THEN [token EXCEPT ![n].state = "verified"] ELSE token
    BY <1>8 DEF Confirm
  <2>2. n \in Tokens /\ n <= issued /\ <<token[n].user, token[n].address>> \in followed
    BY <1>0, <2>1 DEF LinkInv, FormOK, AccountTypeOK
  <2>3. token[n] \in Row
    BY <1>0, <2>2 DEF AccountTypeOK
  <2> DEFINE row == [token[n] EXCEPT !.state = "verified"]
  <2>4. row \in Row /\ row.user = token[n].user /\ row.address = token[n].address
    BY <2>3 DEF Row
  <2>5. token' = [token EXCEPT ![n] = row] \/ token' = token
    BY <1>0, <2>1, <2>2 DEF AccountTypeOK
  <2> HIDE DEF n, row
  <2>6. /\ token' \in [Tokens -> Row \cup {NoRowYet}]
        /\ \A m \in Tokens :
             /\ token'[m].user = token[m].user /\ token'[m].address = token[m].address
             /\ token'[m] \in Row <=> token[m] \in Row
             /\ token'[m].state = "verified" => <<token[m].user, token[m].address>> \in followed
    BY <1>0, <2>2, <2>3, <2>4, <2>5 DEF LinkInv, AccountTypeOK
  <2> QED
    BY <1>0, <2>1, <2>6, IdleIsForm, RowsKept DEF AccountTypeOK, LinkInv
<1>9. ASSUME NEW n \in Tokens, ExpireToken(n) PROVE LinkInv'
  <2> DEFINE row == [token[n] EXCEPT !.state = "expired"]
  <2>1. /\ token[n].state = "pending" /\ token' = [token EXCEPT ![n] = row]
        /\ UNCHANGED <<account, issued, sentTo, form, followed, crossed>>
    BY <1>0, <1>9 DEF ExpireToken, AccountTypeOK
  <2>2. token[n] \in Row
    BY <1>0, <2>1, NoRowIsNoRow DEF AccountTypeOK
  <2>3. /\ row \in Row /\ row.user = token[n].user /\ row.address = token[n].address
        /\ row.state = "expired"
    BY <2>2 DEF Row
  <2> HIDE DEF row
  <2>4. /\ token' \in [Tokens -> Row \cup {NoRowYet}]
        /\ \A m \in Tokens :
             /\ token'[m].user = token[m].user /\ token'[m].address = token[m].address
             /\ token'[m] \in Row <=> token[m] \in Row
             /\ token'[m].state = "verified" => token[m].state = "verified"
    BY <1>0, <2>1, <2>2, <2>3 DEF AccountTypeOK
  <2>5. AccountTypeOK'
    BY <1>0, <2>1, <2>4 DEF AccountTypeOK
  <2>6. ASSUME NEW g \in Forms PROVE FormOK(g)'
    BY <1>0, <2>1, <2>4 DEF LinkInv, FormOK
  <2> QED
    BY <2>1, <2>4, <2>5, <2>6 DEF LinkInv
<1>10. CASE UNCHANGED accountVars
  BY <1>10 DEF accountVars, LinkInv, AccountTypeOK, FormOK, Exists
<1> QED
  <2>1. ASSUME NEW f \in Forms, NEW u \in Users, NEW address \in Addresses,
               Register(f, u, address) \/ EditProfile(f, u, address)
        PROVE  LinkInv'
    BY <1>1, <2>1 DEF Register, EditProfile
  <2>2. ASSUME NEW f \in Forms, NEW u \in Users, Resend(f, u)
        PROVE  LinkInv'
    <3>1. account[u] \in Addresses
      BY <1>0, <2>2 DEF Resend, AccountTypeOK
    <3> QED
      BY <1>1, <2>2, <3>1 DEF Resend
  <2> QED
    BY <1>2, <1>3, <1>4, <1>5, <1>6, <1>7, <1>8, <1>9, <1>10, <2>1, <2>2 DEF AccountNext

\* An address shows as verified only if a link mailed to that very address, for that
\* account, was followed before it expired, whatever requests overlap or die.
THEOREM LinkVerifies == AccountSpec => []VerifiedByItsLink
<1>1. LinkInv => VerifiedByItsLink
  BY DEF LinkInv, VerifiedByItsLink, IsVerified
<1> QED
  BY <1>1, LinkInit, LinkNext, PTL DEF AccountSpec

\* Rows are created one after the other, and a request keeps to its account and row,
\* whatever expires, overlaps or dies.
THEOREM AccountTypeCorrect == AccountSpec => []AccountTypeOK
<1>1. LinkInv => AccountTypeOK
  BY DEF LinkInv
<1> QED
  BY <1>1, LinkInit, LinkNext, PTL DEF AccountSpec

\* The tokens of an account, and the last of them.
Owns(u, n) == n \in 1..issued /\ token[n].user = u
Newest(u, n) == Owns(u, n) /\ \A m \in 1..issued : Owns(u, m) => m <= n

\* What holds of an account while issues of its tokens neither overlapped nor died: one
\* request at most is between deleting and creating, nothing is outstanding then, and
\* otherwise the newest row is there.
OneIssue(u) ==
  /\ \A f, g \in Forms : Issuing(f, u) /\ Issuing(g, u) => f = g
  /\ \A m, n \in 1..issued :
       Owns(u, m) /\ Owns(u, n) /\ Outstanding(m) /\ Outstanding(n) => m = n
  /\ \A n \in 1..issued, f \in Forms : Owns(u, n) /\ Issuing(f, u) => ~Outstanding(n)
  /\ \/ \A n \in 1..issued : ~Owns(u, n)
     \/ \E f \in Forms : Issuing(f, u)
     \/ \E n \in 1..issued : Newest(u, n) /\ Exists(n)

IssueInv == ~crossed => \A u \in Users : OneIssue(u)

\* A step that makes no row of an account outstanding again, deletes none, and changes
\* nothing about who is issuing.
LEMMA IssueKept ==
  ASSUME NEW u \in Users, OneIssue(u), issued' = issued,
         \A n \in 1..issued :
           /\ token'[n].user = token[n].user
           /\ token[n].user = u => /\ Outstanding(n)' => Outstanding(n)
                                   /\ Exists(n) => Exists(n)',
         \A f \in Forms : Issuing(f, u)' <=> Issuing(f, u)
  PROVE  OneIssue(u)'
<1>1. \A n \in 1..issued : Owns(u, n)' <=> Owns(u, n)
  BY DEF Owns
<1>2. \A n \in 1..issued : Owns(u, n) => (Outstanding(n)' => Outstanding(n)) /\ (Exists(n) => Exists(n)')
  BY DEF Owns
<1>3. \A n \in 1..issued : Newest(u, n) => Newest(u, n)'
  BY <1>1 DEF Newest
<1>4. \A m, n \in 1..issued :
        (Owns(u, m) /\ Owns(u, n) /\ Outstanding(m) /\ Outstanding(n))' => m = n
  BY <1>1, <1>2 DEF OneIssue
<1>5. \A n \in 1..issued, f \in Forms : (Owns(u, n) /\ Issuing(f, u))' => ~Outstanding(n)'
  BY <1>1, <1>2 DEF OneIssue
<1>6. \/ \A n \in 1..issued : ~Owns(u, n)'
      \/ \E f \in Forms : Issuing(f, u)'
      \/ \E n \in 1..issued : Newest(u, n)' /\ Exists(n)'
  <2>1. \A n \in 1..issued : Newest(u, n) => Owns(u, n)
    BY DEF Newest
  <2> QED
    BY <1>1, <1>2, <1>3, <2>1 DEF OneIssue
<1>7. \A f, g \in Forms : Issuing(f, u)' /\ Issuing(g, u)' => f = g
  BY DEF OneIssue
<1> QED
  BY <1>4, <1>5, <1>6, <1>7 DEF OneIssue

\* No account has a link at the start.
LEMMA IssueInit == AccountInit => IssueInv
<1> SUFFICES ASSUME AccountInit PROVE IssueInv
  OBVIOUS
<1>1. 1..issued = {}
  BY DEF AccountInit
<1>2. \A f \in Forms, u \in Users : ~Issuing(f, u)
  BY DEF AccountInit, Issuing, IdleForm
<1> QED
  BY <1>1, <1>2 DEF IssueInv, OneIssue

\* A request that is not at "creating" before or after leaves issuing alone.
LEMMA IssuingKept ==
  ASSUME AccountTypeOK, NEW f \in Forms, NEW k, form' = [form EXCEPT ![f] = k],
         form[f].step # "creating", k.step # "creating"
  PROVE  \A g \in Forms, u \in Users : Issuing(g, u)' <=> Issuing(g, u)
BY DEF AccountTypeOK, Issuing

\* Every step of a request and every expiry keep IssueInv.
LEMMA IssueNext == LinkInv /\ IssueInv /\ [AccountNext]_accountVars => IssueInv'
<1> SUFFICES ASSUME LinkInv, IssueInv, [AccountNext]_accountVars, ~crossed', NEW u \in Users
             PROVE  OneIssue(u)'
  BY DEF IssueInv
<1>0. AccountTypeOK /\ 1..issued \subseteq Tokens
  BY VerificationAssumption DEF LinkInv, AccountTypeOK, Tokens
<1>1. ASSUME NEW f \in Forms, NEW k, form' = [form EXCEPT ![f] = k],
             form[f].step # "creating", k.step # "creating",
             UNCHANGED <<token, issued, crossed>>
      PROVE  OneIssue(u)'
  <2>1. OneIssue(u)
    BY <1>1 DEF IssueInv
  <2>2. \A g \in Forms : Issuing(g, u)' <=> Issuing(g, u)
    BY <1>0, <1>1, IssuingKept
  <2> QED
    BY <1>1, <2>1, <2>2, IssueKept DEF Outstanding, Exists
<1>2. ASSUME NEW f \in Forms, NEW step \in {"registering", "saving", "deleting"},
             NEW v, NEW address, NEW changed, form[f].step = "idle",
             StartForm(f, step, v, address, changed), UNCHANGED <<token, issued, crossed>>
      PROVE  OneIssue(u)'
  <2> DEFINE k == [step |-> step, user |-> v, address |-> address, changed |-> changed,
                   number |-> 0]
  <2>1. form' = [form EXCEPT ![f] = k] /\ k.step # "creating"
    BY <1>2 DEF StartForm
  <2> HIDE DEF k
  <2> QED
    BY <1>1, <1>2, <2>1
<1>3. ASSUME NEW f \in Forms, SaveUser(f) PROVE OneIssue(u)'
  <2> DEFINE k == IF form[f].changed THEN [form[f] EXCEPT !.step = "deleting"] ELSE IdleForm
  <2>1. form' = [form EXCEPT ![f] = k] /\ form[f].step # "creating"
    BY <1>3 DEF SaveUser
  <2>2. form[f] \in Form
    BY <1>0 DEF AccountTypeOK
  <2>3. k.step # "creating"
    BY <2>2, IdleIsForm DEF Form
  <2> HIDE DEF k
  <2> QED
    BY <1>1, <1>3, <2>1, <2>3 DEF SaveUser
<1>4. ASSUME NEW f \in Forms, DeleteOutstanding(f) PROVE OneIssue(u)'
  <2> DEFINE k == [form[f] EXCEPT !.step = "creating"]
             v == form[f].user
  <2>1. /\ form' = [form EXCEPT ![f] = k] /\ issued' = issued /\ ~crossed
        /\ form[f].step = "deleting"
        /\ \A other \in Forms \ {f} : ~Issuing(other, v)
        /\ token' = [n \in Tokens |-> IF token[n].user = v /\ Outstanding(n)
                                      THEN [token[n] EXCEPT !.state = "deleted"] ELSE token[n]]
    BY <1>4 DEF DeleteOutstanding
  <2>2. form[f] \in Form
    BY <1>0 DEF AccountTypeOK
  <2>3. k.step = "creating" /\ k.user = v
    BY <2>2 DEF Form
  <2>4. form'[f] = k /\ \A g \in Forms \ {f} : form'[g] = form[g]
    BY <1>0, <2>1 DEF AccountTypeOK
  <2> HIDE DEF k, v
  <2>5. OneIssue(u)
    BY <2>1 DEF IssueInv
  <2>6. \A n \in 1..issued : token[n] \in Row
    BY <1>0, VerificationAssumption DEF AccountTypeOK, Tokens
  <2>7. \A n \in 1..issued :
          /\ token'[n].user = token[n].user
          /\ token[n].user # v => token'[n] = token[n]
          /\ token[n].user = v => ~Outstanding(n)'
    <3> TAKE n \in 1..issued
    <3>1. token[n] \in Row /\ n \in Tokens
      BY <1>0, <2>6
    <3>2. CASE token[n].user = v /\ Outstanding(n)
      <4>1. token'[n] = [token[n] EXCEPT !.state = "deleted"]
        BY <2>1, <3>1, <3>2
      <4>2. token'[n].user = token[n].user /\ token'[n].state = "deleted"
        BY <3>1, <4>1 DEF Row
      <4> QED
        BY <3>2, <4>2 DEF Outstanding
    <3>3. CASE ~(token[n].user = v /\ Outstanding(n))
      <4>1. token'[n] = token[n]
        BY <2>1, <3>1, <3>3
      <4> QED
        BY <3>3, <4>1 DEF Outstanding
    <3> QED
      BY <3>2, <3>3
  <2>8. CASE u # v
    <3>1. \A g \in Forms : Issuing(g, u)' <=> Issuing(g, u)
      BY <2>1, <2>3, <2>4, <2>8 DEF Issuing, v
    <3> QED
      BY <2>1, <2>5, <2>7, <2>8, <3>1, IssueKept DEF Outstanding, Exists
  <2>9. CASE u = v
    <3>1. Issuing(f, u)' /\ \A g \in Forms \ {f} : ~Issuing(g, u)'
      BY <2>1, <2>3, <2>4, <2>9 DEF Issuing
    <3>2. \A n \in 1..issued : Owns(u, n)' => ~Outstanding(n)'
      BY <2>7, <2>9 DEF Owns
    <3> QED
      BY <2>1, <3>1, <3>2 DEF OneIssue
  <2> QED
    BY <2>8, <2>9
<1>5. ASSUME NEW f \in Forms, CreateToken(f) PROVE OneIssue(u)'
  <2>1. PICK new \in Tokens : new = issued + 1 /\ issued' = new /\ issued \in Nat
    BY <1>0, <1>5, VerificationAssumption DEF CreateToken, AccountTypeOK, Tokens
  <2> DEFINE k == [form[f] EXCEPT !.step = "mailing", !.number = new]
             v == form[f].user
             row == [user |-> form[f].user, address |-> form[f].address, state |-> "pending"]
  <2>2. /\ form' = [form EXCEPT ![f] = k] /\ token' = [token EXCEPT ![new] = row]
        /\ form[f].step = "creating" /\ crossed' = crossed
    <3>1. form' = [form EXCEPT ![f].step = "mailing", ![f].number = new]
      BY <1>5, <2>1 DEF CreateToken
    <3> QED
      BY <1>0, <1>5, <2>1, <3>1 DEF CreateToken, AccountTypeOK
  <2>3. form[f] \in Form
    BY <1>0 DEF AccountTypeOK
  <2>4. k.step = "mailing" /\ row.user = v /\ row.state = "pending"
    BY <2>3 DEF Form
  <2>5. /\ form'[f] = k /\ \A g \in Forms \ {f} : form'[g] = form[g]
        /\ token'[new] = row /\ \A n \in Tokens \ {new} : token'[n] = token[n]
    BY <1>0, <2>2 DEF AccountTypeOK
  <2>6. Issuing(f, v) /\ OneIssue(u)
    BY <2>2 DEF Issuing, IssueInv
  <2> HIDE DEF k, v, row
  <2>7. /\ 1..issued' = 1..issued \cup {new} /\ new \notin 1..issued
        /\ \A n \in 1..issued : n <= new
    BY <2>1
  <2>8. \A n \in 1..issued : token'[n] = token[n]
    BY <1>0, <2>5, <2>7
  <2>9. \A n \in 1..issued : Owns(u, n)' <=> Owns(u, n)
    BY <2>7, <2>8 DEF Owns
  <2>10. \A n \in 1..issued : (Outstanding(n)' <=> Outstanding(n)) /\ (Exists(n)' <=> Exists(n))
    BY <2>8 DEF Outstanding, Exists
  <2>11. Outstanding(new)' /\ Exists(new)' /\ (Owns(u, new)' <=> u = v)
    BY <2>4, <2>5, <2>7 DEF Outstanding, Exists, Owns
  <2>12. ~Issuing(f, u)' /\ \A g \in Forms \ {f} : Issuing(g, u)' <=> Issuing(g, u)
    BY <2>4, <2>5 DEF Issuing
  <2>13. CASE u # v
    <3>1. \A n \in 1..issued' : Owns(u, n)' => n \in 1..issued /\ Owns(u, n)
      BY <2>7, <2>9, <2>11, <2>13
    <3>2. ~Issuing(f, u)
      BY <2>13 DEF Issuing, v
    <3>3. \A n \in 1..issued : Newest(u, n) => Newest(u, n)'
      BY <2>7, <2>9, <3>1 DEF Newest
    <3>4. \A g \in Forms : Issuing(g, u)' <=> Issuing(g, u)
      BY <2>12, <3>2
    <3>5. \A m, n \in 1..issued' :
            (Owns(u, m) /\ Owns(u, n) /\ Outstanding(m) /\ Outstanding(n))' => m = n
      BY <2>6, <2>10, <3>1 DEF OneIssue
    <3>6. \A n \in 1..issued', g \in Forms : (Owns(u, n) /\ Issuing(g, u))' => ~Outstanding(n)'
      BY <2>6, <2>10, <3>1, <3>4 DEF OneIssue
    <3>7. \/ \A n \in 1..issued' : ~Owns(u, n)'
          \/ \E g \in Forms : Issuing(g, u)'
          \/ \E n \in 1..issued' : Newest(u, n)' /\ Exists(n)'
      BY <2>6, <2>7, <2>10, <3>1, <3>3, <3>4 DEF OneIssue
    <3>8. \A g, h \in Forms : Issuing(g, u)' /\ Issuing(h, u)' => g = h
      BY <2>6, <3>4 DEF OneIssue
    <3> QED
      BY <3>5, <3>6, <3>7, <3>8 DEF OneIssue
  <2>14. CASE u = v
    <3>1. \A g \in Forms : ~Issuing(g, u)'
      BY <2>6, <2>12, <2>14 DEF OneIssue
    <3>2. \A n \in 1..issued : Owns(u, n)' => ~Outstanding(n)'
      BY <2>6, <2>9, <2>10, <2>14 DEF OneIssue
    <3>3. Newest(u, new)' /\ Exists(new)' /\ new \in 1..issued'
      BY <2>1, <2>7, <2>11, <2>14 DEF Newest
    <3> QED
      BY <2>7, <3>1, <3>2, <3>3 DEF OneIssue
  <2> QED
    BY <2>13, <2>14
<1>6. ASSUME NEW f \in Forms, Mail(f) PROVE OneIssue(u)'
  BY <1>1, <1>6, IdleIsForm DEF Mail
<1>7. ASSUME NEW f \in Forms, Die(f) PROVE OneIssue(u)'
  <2>1. form[f].step # "creating" /\ crossed' = crossed
    BY <1>7, <1>0 DEF Die, AccountTypeOK
  <2> QED
    BY <1>1, <1>7, <2>1, IdleIsForm DEF Die
<1>8. ASSUME NEW f \in Forms, NEW n \in Tokens, OpenLink(f, n) PROVE OneIssue(u)'
  <2>1. [IdleForm EXCEPT !.step = "confirming", !.number = n].step # "creating"
    BY IdleIsForm DEF Form
  <2> QED
    BY <1>1, <1>8, <2>1 DEF OpenLink
<1>9. ASSUME NEW f \in Forms, Confirm(f) PROVE OneIssue(u)'
  <2> DEFINE n == form[f].number
  <2>1. /\ form' = [form EXCEPT ![f] = IdleForm] /\ form[f].step = "confirming"
        /\ UNCHANGED <<issued, crossed>>
        /\ token' = IF Exists(n) THEN [token EXCEPT ![n].state = "verified"] ELSE token
    BY <1>9 DEF Confirm
  <2>2. n \in Tokens /\ n <= issued
    <3>1. n \in 1..issued
      BY <2>1 DEF LinkInv, FormOK
    <3> QED
      BY <1>0, <3>1 DEF AccountTypeOK
  <2>3. token[n] \in Row
    BY <1>0, <2>2 DEF AccountTypeOK
  <2> DEFINE row == [token[n] EXCEPT !.state = "verified"]
  <2>4. row.user = token[n].user /\ row.state = "verified"
    BY <2>3 DEF Row
  <2>5. token' = [token EXCEPT ![n] = row] \/ token' = token
    BY <1>0, <2>1, <2>2 DEF AccountTypeOK
  <2> HIDE DEF n, row
  <2>6. \A m \in 1..issued :
          /\ token'[m].user = token[m].user
          /\ Outstanding(m)' => Outstanding(m)
          /\ Exists(m) => Exists(m)'
    BY <1>0, <2>2, <2>4, <2>5 DEF AccountTypeOK, Outstanding, Exists
  <2>7. OneIssue(u)
    BY <2>1 DEF IssueInv
  <2>8. \A g \in Forms : Issuing(g, u)' <=> Issuing(g, u)
    BY <1>0, <2>1, IdleIsForm, IssuingKept
  <2> QED
    BY <2>1, <2>6, <2>7, <2>8, IssueKept
<1>10. ASSUME NEW n \in Tokens, ExpireToken(n) PROVE OneIssue(u)'
  <2> DEFINE row == [token[n] EXCEPT !.state = "expired"]
  <2>1. /\ token[n].state = "pending" /\ token' = [token EXCEPT ![n] = row]
        /\ UNCHANGED <<issued, form, crossed>>
    BY <1>0, <1>10 DEF ExpireToken, AccountTypeOK
  <2>2. token[n] \in Row
    BY <1>0, <2>1, NoRowIsNoRow DEF AccountTypeOK
  <2>3. row.user = token[n].user /\ row.state = "expired"
    BY <2>2 DEF Row
  <2> HIDE DEF row
  <2>4. \A m \in 1..issued :
          /\ token'[m].user = token[m].user
          /\ Outstanding(m)' => Outstanding(m)
          /\ Exists(m) => Exists(m)'
    BY <1>0, <2>1, <2>3 DEF AccountTypeOK, Outstanding, Exists
  <2>5. OneIssue(u)
    BY <2>1 DEF IssueInv
  <2>6. \A g \in Forms : Issuing(g, u)' <=> Issuing(g, u)
    BY <2>1 DEF Issuing
  <2> QED
    BY <2>1, <2>4, <2>5, <2>6, IssueKept
<1>11. CASE UNCHANGED accountVars
  <2>1. UNCHANGED <<token, issued, form, crossed>>
    BY <1>11 DEF accountVars
  <2>2. OneIssue(u)
    BY <2>1 DEF IssueInv
  <2>3. \A g \in Forms : Issuing(g, u)' <=> Issuing(g, u)
    BY <2>1 DEF Issuing
  <2> QED
    BY <2>1, <2>2, <2>3, IssueKept DEF Outstanding, Exists
<1> QED
  <2>1. ASSUME NEW f \in Forms, NEW v \in Users, NEW address \in Addresses,
               Register(f, v, address) \/ EditProfile(f, v, address)
        PROVE  OneIssue(u)'
    BY <1>2, <2>1 DEF Register, EditProfile
  <2>2. ASSUME NEW f \in Forms, NEW v \in Users, Resend(f, v)
        PROVE  OneIssue(u)'
    BY <1>2, <2>2 DEF Resend
  <2> QED
    BY <1>3, <1>4, <1>5, <1>6, <1>7, <1>8, <1>9, <1>10, <1>11, <2>1, <2>2 DEF AccountNext

\* While issues do not overlap or die, an account has one outstanding link at most, and
\* its newest token is there, used or usable, until the next one replaces it.
THEOREM LinksAreSingle == AccountSpec => []OneLinkAtATime
<1>1. AccountTypeOK /\ IssueInv => OneLinkAtATime
  <2> SUFFICES ASSUME AccountTypeOK, IssueInv, ~crossed, NEW u \in Users
               PROVE  LET own == {n \in 1..issued : token[n].user = u}
                      IN  /\ \A m, n \in own : Outstanding(m) /\ Outstanding(n) => m = n
                          /\ own # {} /\ (\A f \in Forms : ~Issuing(f, u)) =>
                               \E n \in own : Exists(n) /\ \A m \in own : m <= n
    BY DEF OneLinkAtATime
  <2> QED
    BY DEF IssueInv, OneIssue, Newest, Owns
<1>2. LinkInv => AccountTypeOK
  BY DEF LinkInv
<1> QED
  BY <1>1, <1>2, LinkInit, LinkNext, IssueInit, IssueNext, PTL DEF AccountSpec

-----------------------------------------------------------------------------
(* Backup *)

\* Both files of a backup are whole.
AllWhole(ts) == \A kind \in Kinds : file[kind][ts] = "whole"

\* While backups run one at a time and retain.py works: the running one is the newest;
\* no file is newer; both files of the newest complete backup are whole, and while the
\* running one rotates, that is the running one itself, which deletes neither.
JobOK(j) ==
  Running(j) =>
    /\ job[j].ts = starts /\ starts > 0 /\ job[j].keep \in Keeps
    /\ job[j].step = "write" =>
         complete < starts /\ (job[j].kind = "media" => file["db"][starts] = "whole")
    /\ job[j].step \in {"list", "delete"} => complete = starts
    /\ job[j].step = "delete" => starts \notin job[j].old

\* What holds of files and backups while they are orderly.
OrderlyInv ==
  /\ \A i, j \in Jobs : Running(i) /\ Running(j) => i = j
  /\ \A j \in Jobs : JobOK(j)
  /\ \A kind \in Kinds, ts \in Stamps : file[kind][ts] # "none" => ts <= starts
  /\ complete # 0 => AllWhole(complete)

\* The inductive invariant: no job is ahead of the clock, and orderly backups are OrderlyInv.
BackupInv ==
  /\ BackupTypeOK
  /\ \A j \in Jobs : job[j].ts <= starts
  /\ ~unruly => OrderlyInv

\* The sets jobs and files range over.
Job == [step : {"idle", "write", "list", "delete"}, kind : Kinds,
        ts : 0..MaxStarts, keep : Keeps \cup {0}, old : SUBSET Stamps]

Files == [Kinds -> [Stamps -> {"none", "partial", "whole"}]]

\* A job moves on, as a record of the right shape.
LEMMA JobMoves ==
  ASSUME BackupTypeOK, NEW j \in Jobs, NEW k \in Job, job' = [job EXCEPT ![j] = k]
  PROVE  /\ job' \in [Jobs -> Job]
         /\ job'[j] = k /\ \A i \in Jobs \ {j} : job'[i] = job[i]
BY DEF BackupTypeOK, Job

\* A write of one file.
LEMMA FileWritten ==
  ASSUME file \in Files, NEW kind \in Kinds, NEW ts \in Stamps,
         NEW s \in {"none", "partial", "whole"}, file' = [file EXCEPT ![kind][ts] = s]
  PROVE  /\ file' \in Files /\ file'[kind][ts] = s
         /\ \A k \in Kinds, t \in Stamps :
              k # kind \/ t # ts => file'[k][t] = file[k][t]
BY DEF Files

\* The larger of two numbers.
LEMMA MaxOfTwo ==
  ASSUME NEW m \in Nat, NEW n \in Nat
  PROVE  Max({m, n}) \in {m, n} /\ (m <= n => Max({m, n}) = n)
BY DEF Max

\* Backup jobs rest as records of the right shape.
LEMMA IdleIsJob == IdleJob \in Job /\ IdleJob.step = "idle"
BY BackupAssumption DEF IdleJob, Job, Kinds

\* No backup runs and no file is stored at the start.
LEMMA BackupStart == BackupInit => BackupInv
<1> SUFFICES ASSUME BackupInit PROVE BackupInv
  OBVIOUS
<1>1. \A j \in Jobs : ~Running(j)
  BY DEF BackupInit, Running, IdleJob
<1>2. BackupTypeOK
  <2>1. job \in [Jobs -> Job]
    BY IdleIsJob DEF BackupInit
  <2>2. file \in Files
    BY DEF BackupInit, Files
  <2>3. starts \in 0..MaxStarts /\ complete \in 0..starts
    BY BackupAssumption DEF BackupInit
  <2> QED
    BY <2>1, <2>2, <2>3 DEF BackupInit, BackupTypeOK, Job, Files
<1>3. \A j \in Jobs : job[j].ts <= starts
  BY DEF BackupInit, IdleJob
<1> QED
  BY <1>1, <1>2, <1>3 DEF BackupInit, BackupInv, OrderlyInv, JobOK

\* The newest stamp is retained.
LEMMA NewestRetained ==
  ASSUME NEW stamps \in SUBSET Stamps, NEW n \in Nat \ {0}, NEW ts \in stamps,
         \A t \in stamps : t <= ts
  PROVE  ts \in Retained(stamps, n)
<1>1. {newer \in stamps : newer > ts} = {}
  <2>1. \A t \in stamps : t \in Int
    BY BackupAssumption DEF Stamps
  <2> QED
    BY <2>1
<1>2. Cardinality({newer \in stamps : newer > ts}) = 0
  BY <1>1, FS_EmptySet
<1> QED
  BY <1>2 DEF Retained

\* Steps that neither write a file nor complete a backup, of a job that stays orderly.
LEMMA JobOnly ==
  ASSUME BackupInv, NEW j \in Jobs, NEW k \in Job, job' = [job EXCEPT ![j] = k],
         UNCHANGED <<file, starts, complete>>, unruly' \in BOOLEAN, unruly => unruly',
         Running(j), k.ts <= starts,
         ~unruly' /\ k.step # "idle" =>
             /\ k.ts = job[j].ts /\ k.keep = job[j].keep
             /\ k.step \in {"list", "delete"} /\ job[j].step \in {"list", "delete"}
             /\ k.step = "delete" => starts \notin k.old
  PROVE  BackupInv'
<1>1. /\ job' \in [Jobs -> Job]
      /\ job'[j] = k /\ \A i \in Jobs \ {j} : job'[i] = job[i]
  BY JobMoves DEF BackupInv
<1>2. BackupTypeOK'
  BY <1>1 DEF BackupInv, BackupTypeOK, Job
<1>4. \A i \in Jobs : job'[i].ts <= starts'
  BY <1>1 DEF BackupInv
<1>3. ASSUME ~unruly' PROVE OrderlyInv'
  <2>1. OrderlyInv
    BY <1>3 DEF BackupInv
  <2>2. \A i \in Jobs : Running(i)' => Running(i)
    BY <1>1 DEF Running
  <2>3. ASSUME NEW i \in Jobs PROVE JobOK(i)'
    BY <1>1, <1>3, <2>1 DEF OrderlyInv, JobOK, Running
  <2> QED
    BY <2>1, <2>2, <2>3 DEF OrderlyInv, AllWhole
<1> QED
  BY <1>2, <1>3, <1>4 DEF BackupInv

\* Every step of a backup, and every stop, keep BackupInv.
LEMMA BackupNextInv == BackupInv /\ [BackupNext]_backupVars => BackupInv'
<1> SUFFICES ASSUME BackupInv, [BackupNext]_backupVars
             PROVE  BackupInv'
  OBVIOUS
<1>0. /\ BackupTypeOK /\ file \in Files /\ job \in [Jobs -> Job]
      /\ starts \in Nat /\ complete \in Nat /\ complete <= starts
      /\ "db" \in Kinds /\ "media" \in Kinds
  BY BackupAssumption DEF BackupInv, BackupTypeOK, Files, Job, Kinds
<1>1. ASSUME NEW j \in Jobs, NEW keep \in Keeps, StartBackup(j, keep) PROVE BackupInv'
  <2>1. PICK new \in Stamps : new = starts + 1 /\ starts' = new
    BY <1>0, <1>1, BackupAssumption DEF StartBackup, Stamps
  <2> DEFINE k == [IdleJob EXCEPT !.step = "write", !.ts = new, !.keep = keep]
  <2>2. /\ ~Running(j) /\ job' = [job EXCEPT ![j] = k] /\ complete' = complete
        /\ file' = [file EXCEPT !["db"][new] = "partial"]
        /\ unruly' \in BOOLEAN
        /\ ~unruly' => ~unruly /\ \A i \in Jobs : ~Running(i)
    BY <1>0, <1>1, <2>1 DEF StartBackup, BackupTypeOK
  <2>3. /\ k \in Job /\ k.step = "write" /\ k.ts = new /\ k.keep = keep /\ k.kind = "db"
    <3>1. new \in 0..MaxStarts
      BY BackupAssumption DEF Stamps
    <3> QED
      BY <1>0, <3>1 DEF IdleJob, Job
  <2> HIDE DEF k
  <2>4. /\ job' \in [Jobs -> Job]
        /\ job'[j] = k /\ \A i \in Jobs \ {j} : job'[i] = job[i]
    BY <1>0, <2>2, <2>3, JobMoves
  <2>5. /\ file' \in Files
        /\ \A kind \in Kinds, t \in Stamps : t # new => file'[kind][t] = file[kind][t]
    BY <1>0, <2>2 DEF Files, Kinds
  <2>6. new \in Nat /\ new <= MaxStarts /\ complete # new /\ complete < new /\ starts < new
    BY <1>0, <2>1, BackupAssumption DEF Stamps
  <2>7. BackupTypeOK'
    <3>1. starts' \in 0..MaxStarts /\ complete' \in 0..starts'
      BY <1>0, <2>1, <2>2, <2>6, BackupAssumption
    <3> QED
      BY <2>2, <2>4, <2>5, <3>1 DEF BackupTypeOK, Job, Files
  <2>8. ASSUME ~unruly' PROVE OrderlyInv'
    <3>1. OrderlyInv /\ \A i \in Jobs : ~Running(i)
      BY <2>2, <2>8 DEF BackupInv
    <3>2. \A i \in Jobs : Running(i)' => i = j
      BY <2>4, <3>1 DEF Running
    <3>3. JobOK(j)'
      BY <1>0, <2>1, <2>2, <2>3, <2>4, <2>6 DEF JobOK
    <3>4. ASSUME NEW kind \in Kinds, NEW ts \in Stamps, file'[kind][ts] # "none"
          PROVE  ts <= starts'
      <4>1. ts \in Nat
        BY BackupAssumption DEF Stamps
      <4>2. ts = new \/ ts <= starts
        BY <2>5, <3>1, <3>4 DEF OrderlyInv
      <4> QED
        BY <1>0, <2>1, <2>6, <4>1, <4>2
    <3>5. complete' # 0 => AllWhole(complete)'
      <4>1. complete # 0 => complete \in Stamps
        BY <1>0, <2>6, BackupAssumption DEF Stamps
      <4> QED
        BY <2>2, <2>5, <2>6, <3>1, <4>1 DEF OrderlyInv, AllWhole
    <3> QED
      BY <3>2, <3>3, <3>4, <3>5 DEF OrderlyInv, JobOK
  <2>9. \A i \in Jobs : job'[i].ts <= starts'
    <3>1. \A i \in Jobs : job[i].ts <= starts /\ job[i].ts \in Nat
      BY <1>0, BackupAssumption DEF BackupInv, Job
    <3> QED
      BY <1>0, <2>1, <2>3, <2>4, <2>6, <3>1
  <2> QED
    BY <2>7, <2>8, <2>9 DEF BackupInv
<1>2. ASSUME NEW j \in Jobs, WriteDump(j) PROVE BackupInv'
  <2> DEFINE ts == job[j].ts
             k == [job[j] EXCEPT !.kind = "media"]
  <2>1. /\ job[j].step = "write" /\ job[j].kind = "db" /\ job' = [job EXCEPT ![j] = k]
        /\ file' = [file EXCEPT !["db"][ts] = "whole", !["media"][ts] = "partial"]
        /\ UNCHANGED <<starts, complete, unruly>>
    BY <1>0, <1>2 DEF WriteDump
  <2>2. job[j] \in Job /\ Running(j)
    BY <1>0, <2>1 DEF Running
  <2>3. k \in Job /\ k.step = "write" /\ k.ts = ts /\ k.keep = job[j].keep /\ k.kind = "media"
    BY <1>0, <2>1, <2>2 DEF Job
  <2>4. /\ job' \in [Jobs -> Job]
        /\ job'[j] = k /\ \A i \in Jobs \ {j} : job'[i] = job[i]
    BY <1>0, <2>1, <2>3, JobMoves
  <2> HIDE DEF k
  <2>5. /\ file' \in Files
        /\ \A kind \in Kinds, t \in Stamps : t # ts => file'[kind][t] = file[kind][t]
        /\ ts \in Stamps => file'["db"][ts] = "whole"
    BY <1>0, <2>1 DEF Files, Kinds
  <2>6. BackupTypeOK'
    BY <1>0, <2>1, <2>4, <2>5 DEF BackupTypeOK, Job, Files
  <2>7. ASSUME ~unruly' PROVE OrderlyInv'
    <3>1. OrderlyInv
      BY <2>1, <2>7 DEF BackupInv
    <3>2. /\ ts = starts /\ starts > 0 /\ job[j].keep \in Keeps /\ complete < starts
          /\ ts \in Stamps
      BY <1>0, <2>1, <2>2, <3>1, BackupAssumption DEF OrderlyInv, JobOK, BackupTypeOK, Stamps
    <3>3. \A i \in Jobs : Running(i)' => i = j
      BY <2>2, <2>4, <3>1 DEF OrderlyInv, Running
    <3>4. JobOK(j)'
      BY <1>0, <2>1, <2>3, <2>4, <2>5, <3>2 DEF JobOK
    <3>5. \A kind \in Kinds, t \in Stamps : file'[kind][t] # "none" => t <= starts'
      BY <1>0, <2>1, <2>5, <3>1, <3>2 DEF OrderlyInv
    <3>6. complete' # 0 => AllWhole(complete)'
      <4>1. complete # 0 => complete \in Stamps /\ complete # ts
        BY <1>0, <3>2, BackupAssumption DEF Stamps
      <4> QED
        BY <2>1, <2>5, <3>1, <4>1 DEF OrderlyInv, AllWhole
    <3> QED
      BY <3>3, <3>4, <3>5, <3>6 DEF OrderlyInv, JobOK
  <2>8. \A i \in Jobs : job'[i].ts <= starts'
    BY <2>1, <2>3, <2>4 DEF BackupInv
  <2> QED
    BY <2>6, <2>7, <2>8 DEF BackupInv
<1>3. ASSUME NEW j \in Jobs, WriteMedia(j) PROVE BackupInv'
  <2> DEFINE ts == job[j].ts
             k == [job[j] EXCEPT !.step = "list", !.kind = "db"]
  <2>1. /\ job[j].step = "write" /\ job[j].kind = "media"
        /\ file' = [file EXCEPT !["media"][ts] = "whole"]
        /\ complete' = IF \A kind \in Kinds : file'[kind][ts] = "whole"
                       THEN Max({complete, ts}) ELSE complete
        /\ UNCHANGED <<starts, unruly>>
    BY <1>3 DEF WriteMedia
  <2>2. job' = [job EXCEPT ![j] = k]
    BY <1>0, <1>3 DEF WriteMedia
  <2>3. job[j] \in Job /\ Running(j)
    BY <1>0, <2>1 DEF Running
  <2>4. /\ k \in Job /\ k.step = "list" /\ k.ts = ts /\ k.keep = job[j].keep
        /\ k.kind = "db" /\ k.old = job[j].old
    BY <1>0, <2>1, <2>3 DEF Job
  <2>5. /\ job' \in [Jobs -> Job]
        /\ job'[j] = k /\ \A i \in Jobs \ {j} : job'[i] = job[i]
    BY <1>0, <2>2, <2>4, JobMoves
  <2> HIDE DEF k
  <2>6. /\ file' \in Files /\ (ts \in Stamps => file'["media"][ts] = "whole")
        /\ \A kind \in Kinds, t \in Stamps :
             kind # "media" \/ t # ts => file'[kind][t] = file[kind][t]
    BY <1>0, <2>1 DEF Files, Kinds
  <2>7. ts \in Nat /\ ts <= starts /\ complete' \in {complete, ts}
    <3>1. ts \in Nat /\ ts <= starts
      BY <2>3, BackupAssumption DEF BackupInv, Job
    <3> QED
      BY <1>0, <2>1, <3>1, MaxOfTwo
  <2>8. BackupTypeOK'
    <3>1. complete' \in 0..starts'
      BY <1>0, <2>1, <2>7
    <3> QED
      BY <1>0, <2>1, <2>5, <2>6, <3>1 DEF BackupTypeOK, Job, Files
  <2>9. ASSUME ~unruly' PROVE OrderlyInv'
    <3>1. OrderlyInv
      BY <2>1, <2>9 DEF BackupInv
    <3>2. /\ ts = starts /\ starts > 0 /\ job[j].keep \in Keeps /\ complete < starts
          /\ ts \in Stamps /\ file["db"][ts] = "whole"
      BY <1>0, <2>1, <2>3, <3>1, BackupAssumption DEF OrderlyInv, JobOK, BackupTypeOK, Stamps
    <3>3. \A kind \in Kinds : file'[kind][ts] = "whole"
      BY <2>6, <3>2 DEF Kinds
    <3>4. complete' = starts
      BY <1>0, <2>1, <2>7, <3>2, <3>3, MaxOfTwo
    <3>5. \A i \in Jobs : Running(i)' => i = j
      BY <2>3, <2>5, <3>1 DEF OrderlyInv, Running
    <3>6. JobOK(j)'
      BY <1>0, <2>1, <2>4, <2>5, <3>2, <3>4 DEF JobOK
    <3>7. \A kind \in Kinds, t \in Stamps : file'[kind][t] # "none" => t <= starts'
      BY <1>0, <2>1, <2>6, <3>1, <3>2 DEF OrderlyInv
    <3> QED
      BY <3>2, <3>3, <3>4, <3>5, <3>6, <3>7 DEF OrderlyInv, JobOK, AllWhole
  <2>10. \A i \in Jobs : job'[i].ts <= starts'
    BY <2>1, <2>4, <2>5 DEF BackupInv
  <2> QED
    BY <2>8, <2>9, <2>10 DEF BackupInv
<1>4. ASSUME NEW j \in Jobs, ListOld(j) PROVE BackupInv'
  <2> DEFINE stamps == {ts \in Stamps : file[job[j].kind][ts] # "none"}
  <2>1. PICK old \in SUBSET Stamps :
          /\ job' = [job EXCEPT ![j] = [job[j] EXCEPT !.step = "delete", !.old = old]]
          /\ unruly' \in BOOLEAN /\ (unruly => unruly')
          /\ ~unruly' => old = stamps \ Retained(stamps, job[j].keep)
    <3>1. stamps \in SUBSET Stamps /\ stamps \ Retained(stamps, job[j].keep) \in SUBSET Stamps
      OBVIOUS
    <3>2. /\ unruly \in BOOLEAN
          /\ \/ /\ job' = [job EXCEPT ![j].step = "delete",
                                      ![j].old = stamps \ Retained(stamps, job[j].keep)]
                /\ unruly' = unruly
             \/ job' = [job EXCEPT ![j].step = "delete", ![j].old = stamps] /\ unruly' = TRUE
      BY <1>0, <1>4 DEF ListOld, BackupTypeOK
    <3>3. ASSUME NEW old, job' = [job EXCEPT ![j].step = "delete", ![j].old = old]
          PROVE  job' = [job EXCEPT ![j] = [job[j] EXCEPT !.step = "delete", !.old = old]]
      BY <1>0, <3>3
    <3> HIDE DEF stamps
    <3> QED
      BY <3>1, <3>2, <3>3
  <2> DEFINE k == [job[j] EXCEPT !.step = "delete", !.old = old]
  <2>2. /\ job[j].step = "list" /\ UNCHANGED <<file, starts, complete>>
        /\ job[j] \in Job /\ Running(j)
    BY <1>0, <1>4 DEF ListOld, Running
  <2>3. /\ k \in Job /\ k.step = "delete" /\ k.ts = job[j].ts /\ k.keep = job[j].keep
        /\ k.old = old
    BY <2>2 DEF Job
  <2> HIDE DEF k
  <2>4. ASSUME ~unruly' PROVE starts \notin old
    <3>1. OrderlyInv
      BY <2>1, <2>4 DEF BackupInv
    <3>2. complete = starts /\ starts > 0 /\ job[j].keep \in Keeps /\ job[j].kind \in Kinds
      BY <2>2, <3>1 DEF OrderlyInv, JobOK, Job
    <3>3. starts \in Stamps
      BY <1>0, <3>2, BackupAssumption DEF BackupTypeOK, Stamps
    <3>4. starts \in stamps
      BY <3>1, <3>2, <3>3 DEF OrderlyInv, AllWhole
    <3>5. \A t \in stamps : t <= starts
      BY <3>1, <3>2 DEF OrderlyInv
    <3>6. starts \in Retained(stamps, job[j].keep)
      BY <3>2, <3>4, <3>5, NewestRetained, BackupAssumption
    <3> QED
      BY <2>1, <2>4, <3>6
  <2>5. k.ts <= starts
    BY <2>3 DEF BackupInv
  <2> QED
    BY <2>1, <2>2, <2>3, <2>4, <2>5, JobOnly DEF k
<1>5. ASSUME NEW j \in Jobs, NEW ts \in Stamps, DeleteOld(j, ts) PROVE BackupInv'
  <2> DEFINE k == [job[j] EXCEPT !.old = @ \ {ts}]
  <2>1. /\ job[j].step = "delete" /\ ts \in job[j].old
        /\ file' = [file EXCEPT ![job[j].kind][ts] = "none"]
        /\ job' = [job EXCEPT ![j] = k]
        /\ UNCHANGED <<starts, complete, unruly>>
    BY <1>0, <1>5 DEF DeleteOld
  <2>2. job[j] \in Job /\ Running(j) /\ job[j].kind \in Kinds
    BY <1>0, <2>1 DEF Running, Job
  <2>3. /\ k \in Job /\ k.step = "delete" /\ k.ts = job[j].ts /\ k.keep = job[j].keep
        /\ k.old \subseteq job[j].old
    BY <2>1, <2>2 DEF Job
  <2>4. /\ job' \in [Jobs -> Job]
        /\ job'[j] = k /\ \A i \in Jobs \ {j} : job'[i] = job[i]
    BY <1>0, <2>1, <2>3, JobMoves
  <2> HIDE DEF k
  <2>5. /\ file' \in Files
        /\ \A kind \in Kinds, t \in Stamps :
             /\ t # ts => file'[kind][t] = file[kind][t]
             /\ file'[kind][t] \in {file[kind][t], "none"}
    BY <1>0, <2>1, <2>2 DEF Files
  <2>6. BackupTypeOK'
    BY <1>0, <2>1, <2>4, <2>5 DEF BackupTypeOK, Job, Files
  <2>7. ASSUME ~unruly' PROVE OrderlyInv'
    <3>1. OrderlyInv
      BY <2>1, <2>7 DEF BackupInv
    <3>2. /\ job[j].ts = starts /\ starts > 0 /\ job[j].keep \in Keeps /\ complete = starts
          /\ ts # starts /\ starts \notin job[j].old /\ starts \in Stamps
      BY <1>0, <2>1, <2>2, <3>1, BackupAssumption DEF OrderlyInv, JobOK, BackupTypeOK, Stamps
    <3>3. \A i \in Jobs : Running(i)' => i = j
      BY <2>2, <2>4, <3>1 DEF OrderlyInv, Running
    <3>4. JobOK(j)'
      BY <2>1, <2>3, <2>4, <3>2 DEF JobOK
    <3>5. \A kind \in Kinds, t \in Stamps : file'[kind][t] # "none" => t <= starts'
      BY <2>1, <2>5, <3>1 DEF OrderlyInv
    <3>6. AllWhole(complete)'
      BY <2>1, <2>5, <3>1, <3>2 DEF OrderlyInv, AllWhole
    <3> QED
      BY <3>3, <3>4, <3>5, <3>6 DEF OrderlyInv, JobOK
  <2>8. \A i \in Jobs : job'[i].ts <= starts'
    BY <2>1, <2>3, <2>4 DEF BackupInv
  <2> QED
    BY <2>6, <2>7, <2>8 DEF BackupInv
<1>6. ASSUME NEW j \in Jobs, Rotated(j) PROVE BackupInv'
  <2> DEFINE k == IF job[j].kind = "db" THEN [job[j] EXCEPT !.step = "list", !.kind = "media"]
                  ELSE IdleJob
  <2>1. /\ job[j].step = "delete" /\ job' = [job EXCEPT ![j] = k]
        /\ UNCHANGED <<file, starts, complete, unruly>> /\ unruly' \in BOOLEAN
    BY <1>0, <1>6 DEF Rotated, BackupTypeOK
  <2>2. job[j] \in Job /\ Running(j)
    BY <1>0, <2>1 DEF Running
  <2>3. /\ k \in Job /\ k.step \in {"list", "idle"}
        /\ k.step = "list" => k.ts = job[j].ts /\ k.keep = job[j].keep
    BY <1>0, <2>2, IdleIsJob DEF Job
  <2>4. k.ts <= starts
    <3>1. k.ts \in {job[j].ts, 0}
      BY <2>2 DEF Job, IdleJob
    <3> QED
      BY <1>0, <3>1 DEF BackupInv
  <2> HIDE DEF k
  <2> QED
    BY <2>1, <2>2, <2>3, <2>4, JobOnly
<1>7. ASSUME NEW j \in Jobs, StopBackup(j) PROVE BackupInv'
  <2>1. /\ job' = [job EXCEPT ![j] = IdleJob] /\ Running(j) /\ unruly' \in BOOLEAN
        /\ UNCHANGED <<file, starts, complete, unruly>>
    BY <1>0, <1>7 DEF StopBackup, BackupTypeOK
  <2>2. IdleJob.ts <= starts
    BY <1>0 DEF IdleJob
  <2> QED
    BY <2>1, <2>2, IdleIsJob, JobOnly
<1>8. CASE UNCHANGED backupVars
  <2>1. UNCHANGED <<file, job, starts, complete, unruly>>
    BY <1>8 DEF backupVars
  <2> QED
    BY <2>1 DEF BackupInv, BackupTypeOK, OrderlyInv, JobOK, Running, AllWhole
<1> QED
  BY <1>1, <1>2, <1>3, <1>4, <1>5, <1>6, <1>7, <1>8 DEF BackupNext

\* Unless backups overlap or retain.py fails, the newest complete backup survives every
\* rotation and every stop of a later one, whatever number of files is kept.
THEOREM NewestSurvives == BackupSpec => []NewestBackupKept
<1>1. BackupInv => NewestBackupKept
  <2> SUFFICES ASSUME BackupInv, ~unruly, complete # 0
               PROVE  \E ts \in complete..MaxStarts : \A kind \in Kinds : file[kind][ts] = "whole"
    BY DEF NewestBackupKept
  <2>1. complete \in complete..MaxStarts
    BY BackupAssumption DEF BackupInv, BackupTypeOK
  <2> QED
    BY <2>1 DEF BackupInv, OrderlyInv, AllWhole
<1> QED
  BY <1>1, BackupStart, BackupNextInv, PTL DEF BackupSpec

\* Files, jobs and the newest complete backup keep their types, wherever a script stops.
THEOREM BackupTypeCorrect == BackupSpec => []BackupTypeOK
<1>1. BackupInv => BackupTypeOK
  BY DEF BackupInv
<1> QED
  BY <1>1, BackupStart, BackupNextInv, PTL DEF BackupSpec

-----------------------------------------------------------------------------
(* Side by side *)

\* None of the three disturbs another: what is shown of each alone holds of the site.
THEOREM SiteIsItsParts == SiteSpec => Spec /\ ListingSpec /\ AccountSpec /\ BackupSpec
<1>1. SiteInit => Init /\ ListingInit /\ AccountInit /\ BackupInit
  BY DEF SiteInit
<1>2. [SiteNext]_siteVars =>
        /\ [Next]_vars /\ [ListingNext]_listingVars
        /\ [AccountNext]_accountVars /\ [BackupNext]_backupVars
  BY DEF SiteNext, siteVars
<1> QED
  BY <1>1, <1>2, PTL DEF SiteSpec, Spec, ListingSpec, AccountSpec, BackupSpec

\* Whichever part moves, its variables keep their types.
THEOREM SiteTypeCorrect == SiteSpec => []PartsTypeOK
<1>1. SiteInit => part \in Parts
  BY DEF SiteInit
<1>2. part \in Parts /\ [SiteNext]_siteVars => (part \in Parts)'
  BY DEF SiteNext, siteVars, Parts
<1>3. part \in Parts /\ TypeOK /\ ListingTypeOK /\ AccountTypeOK /\ BackupTypeOK => PartsTypeOK
  BY DEF Parts, PartsTypeOK
<1> QED
  BY <1>1, <1>2, <1>3, SiteIsItsParts, TypeCorrect, ListingTypeCorrect,
     AccountTypeCorrect, BackupTypeCorrect, PTL DEF SiteSpec
=============================================================================
