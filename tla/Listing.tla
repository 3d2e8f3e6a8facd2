-------------------------------- MODULE Listing --------------------------------
(***************************************************************************)
(* The catalog page: the product listing with its facets, the links that   *)
(* narrow it, and the cache its listings and facet counts are kept in,     *)
(* which every save of a product or review clears.                         *)
(* A page request goes through its cache operations one at a time; the     *)
(* queries of one result are a single step, and so are a save and its      *)
(* transaction's end.  The cache is one store shared by all processes      *)
(* (Redis).  The category list has a fixed set of rows here.               *)
(***************************************************************************)
EXTENDS Integers, FiniteSetsExt

CONSTANTS
  Goods,          \* products: a set of numbers, in the order of their names
  Categories,
  Start,          \* the catalog at the beginning
  Facts,          \* what a form may make of a product, apart from its rating
  Ratings,        \* what a review may make of a product's average rating
  Found,          \* the products the search text of a URL matches
  NoCategory,     \* the listing of all products
  PerPage,        \* PRODUCTS_PER_PAGE
  Visitors,
  Staff,          \* processes that save products and reviews
  Typed,          \* URLs entered by hand
  Undefined,      \* facet values that may occur in such a URL and nobody defined
  MaxVisits,      \* bound: pages opened
  MaxSaves        \* bound: saves and stock decrements

\* PRICE_BANDS: half-open intervals of the price.
Bands == {"under-25", "25-50", "50-100", "100-plus"}
InBand(price, band) ==
  CASE band = "under-25" -> price < 25
    [] band = "25-50" -> price >= 25 /\ price < 50
    [] band = "50-100" -> price >= 50 /\ price < 100
    [] band = "100-plus" -> price >= 100

RatingSteps == {2, 3, 4}

\* rating: the average of the approved reviews, as far as the thresholds tell it
\* apart (0: no review); inStock: stock is NULL or positive.
Fact == [listed : BOOLEAN, category : Categories, price : Nat, rating : 0..5,
         inStock : BOOLEAN]

\* The query string, and the category page it is on.
Url == [path : Categories \cup {NoCategory}, q : BOOLEAN,
        category : SUBSET (Categories \cup Undefined), price : SUBSET (Bands \cup Undefined),
        rating : SUBSET Nat, stock : BOOLEAN, page : Nat]
AllProducts == [path |-> NoCategory, q |-> FALSE, category |-> {}, price |-> {},
                rating |-> {}, stock |-> FALSE, page |-> 1]

ASSUME ListingAssumption ==
  /\ Goods \subseteq Nat /\ IsFiniteSet(Goods)
  /\ Start \in [Goods -> Fact] /\ Facts \subseteq Fact /\ Ratings \subseteq 1..5
  /\ Found \subseteq Goods
  /\ NoCategory \notin Categories
  /\ Typed \subseteq Url
  /\ PerPage \in Nat \ {0}
  /\ MaxVisits \in Nat /\ MaxSaves \in Nat

VARIABLES
  shelf,      \* the product rows
  counted,    \* cached facet counts, by key
  listed,     \* cached pages of the listing, by key
  registry,   \* the list of cached keys kept in the cache
  thumbs,     \* products whose thumbnail files are in storage
  visit,      \* the page request, or the page, of each visitor
  save,       \* the transaction of each staff process
  opened,     \* pages opened so far
  saves,      \* saves so far
  mishaps     \* history: what may leave a stale entry in the cache has happened

theCache == <<counted, listed, registry>>
listingVars == <<shelf, theCache, thumbs, visit, save, opened, saves, mishaps>>

-----------------------------------------------------------------------------
(* Facets: from the URL to the result, and back to the next URL *)

Strongest(ratings) ==
  LET valid == ratings \cap RatingSteps IN IF valid = {} THEN 0 ELSE Max(valid)

\* mutant: the stock facet is left out of the cache key
KeyWithoutStock(url) ==
  [path |-> url.path, q |-> url.q, category |-> url.category \cap Categories,
   price |-> url.price \cap Bands, rating |-> Strongest(url.rating),
   stock |-> FALSE, page |-> url.page]

\* parse_facets, with the parameters that make up the cache key.  rating 0: None.
KeyOf(url) ==
  [path |-> url.path, q |-> url.q, category |-> url.category \cap Categories,
   price |-> url.price \cap Bands, rating |-> Strongest(url.rating),
   stock |-> url.stock, page |-> url.page]

Active(key) ==
  key.category # {} \/ key.price # {} \/ key.rating # 0 \/ key.stock

\* search_products: no text, no filtering.
Search(goods, q) == IF q THEN goods \cap Found ELSE goods

\* The base queryset: available products of the category page that match the search.
Base(key) ==
  Search({g \in Goods : /\ shelf[g].listed
                        /\ key.path = NoCategory \/ shelf[g].category = key.path},
         key.q)

\* apply_facets
Apply(goods, key) ==
  {g \in goods :
     /\ key.category # {} => shelf[g].category \in key.category
     /\ key.price # {} => \E band \in key.price : InBand(shelf[g].price, band)
     /\ key.rating # 0 => shelf[g].rating >= key.rating
     /\ key.stock => shelf[g].inStock}

Listed(key) == Apply(Base(key), key)

\* facet_counts: every facet is counted with the other facets applied.
Counts(key) ==
  LET others(cleared) == Apply(Base(key), cleared)
      count(goods, Test(_)) == Cardinality({g \in goods : Test(shelf[g])})
  IN  [category |-> [c \in Categories |->
         count(others([key EXCEPT !.category = {}]), LAMBDA f : f.category = c)],
       price |-> [b \in Bands |->
         count(others([key EXCEPT !.price = {}]), LAMBDA f : InBand(f.price, b))],
       rating |-> [r \in RatingSteps |->
         count(others([key EXCEPT !.rating = 0]), LAMBDA f : f.rating >= r)],
       stock |-> count(others([key EXCEPT !.stock = FALSE]), LAMBDA f : f.inStock)]

\* The paginator: an empty listing has one page, a number out of range is the last.
NumPages(total) == IF total = 0 THEN 1 ELSE (total + PerPage - 1) \div PerPage
\* mutant: the page number is taken as it comes
PageAsAsked(page, total) == page
PageNumber(page, total) == IF page \in 1..NumPages(total) THEN page ELSE NumPages(total)
Slice(goods, number) ==
  {g \in goods :
     Cardinality({h \in goods : h <= g}) \in (number - 1) * PerPage + 1 .. number * PerPage}

PageOf(key) ==
  LET goods == Listed(key)
      number == PageNumber(key.page, Cardinality(goods))
  IN  [goods |-> Slice(goods, number), number |-> number, total |-> Cardinality(goods)]

\* facet_url: the link that toggles one value of a facet; the page is dropped.
Toggle(set, value) == IF value \in set THEN set \ {value} ELSE set \cup {value}
PriceUrl(url, band) == [url EXCEPT !.page = 1, !.price = Toggle(@, band)]
RatingUrl(url, step) ==
  [url EXCEPT !.page = 1, !.rating = IF step \in @ THEN {} ELSE {step}]
StockUrl(url) == [url EXCEPT !.page = 1, !.stock = ~@]

\* clear_all_url keeps the search; the search form and the sidebar keep the path or nothing.
ClearUrl(url) == [AllProducts EXCEPT !.path = url.path, !.q = url.q]
SearchUrl(url) == [AllProducts EXCEPT !.path = url.path, !.q = TRUE]
CategoryUrl(c) == [AllProducts EXCEPT !.path = c]

\* The Refine panel is there only for a search or an active facet.
RefineLinks(url) ==
  (IF url.q \/ Active(KeyOf(url))
   THEN {PriceUrl(url, b) : b \in Bands} \cup {RatingUrl(url, r) : r \in RatingSteps}
          \cup {StockUrl(url)}
   ELSE {})
  \cup (IF Active(KeyOf(url)) THEN {ClearUrl(url)} ELSE {})

\* build_page_query
PageUrl(url, number) == [url EXCEPT !.page = number]

\* The pagination controls.
PageLinks(url, page) ==
  LET last == NumPages(page.total)
      near == {n \in 1..last : n > page.number - 3 /\ n < page.number + 3}
  IN  IF page.total > PerPage
      THEN {PageUrl(url, n) : n \in (near \cup {1, last}) \ {page.number}}
      ELSE {}

Links(url, page) ==
  RefineLinks(url) \cup PageLinks(url, page) \cup {SearchUrl(url), AllProducts}
    \cup {CategoryUrl(c) : c \in Categories}

-----------------------------------------------------------------------------
(* State *)


Underway(v) == visit[v].step \in {"look", "read", "write", "store"}
Saving(s) == save[s].step # "idle"
Entry(v) == [kind |-> visit[v].kind, key |-> KeyOf(visit[v].url)]

\* counts and page: what the request has so far, at most one value each.
IdleVisit == [step |-> "idle", kind |-> "counts", url |-> AllProducts, keys |-> {},
              counts |-> {}, page |-> {}]
\* form and rating: what the save writes is the one form or the one rating in them.
IdleSave == [step |-> "idle", good |-> 0, form |-> {}, rating |-> {}, keys |-> {}]

ListingTypeOK ==
  /\ shelf \in [Goods -> Fact] /\ thumbs \subseteq Goods
  /\ \A k \in DOMAIN listed : listed[k].number \in 1..NumPages(listed[k].total)
  /\ \A v \in Visitors :
       /\ visit[v].step \in {"idle", "look", "read", "write", "store", "shown"}
       /\ visit[v].url \in Url
       /\ visit[v].step = "shown" => Cardinality(visit[v].counts) = 1
                                     /\ Cardinality(visit[v].page) = 1
  /\ \A s \in Staff :
       /\ save[s].step \in {"idle", "clear", "drop", "commit"}
       /\ Saving(s) => save[s].good \in Goods
  /\ opened \in 0..MaxVisits /\ saves \in 0..MaxSaves /\ mishaps \in BOOLEAN

ListingInit ==
  /\ shelf = Start
  /\ counted = << >> /\ listed = << >>
  /\ registry = {} /\ thumbs = {}
  /\ visit = [v \in Visitors |-> IdleVisit]
  /\ save = [s \in Staff |-> IdleSave]
  /\ opened = 0 /\ saves = 0 /\ mishaps = FALSE

-----------------------------------------------------------------------------
(* A page request *)

Open(v, url) ==
  /\ ~Underway(v)
  /\ opened < MaxVisits
  /\ opened' = opened + 1
  /\ visit' = [visit EXCEPT ![v] = [IdleVisit EXCEPT !.step = "look", !.url = url]]
  /\ UNCHANGED <<shelf, theCache, thumbs, save, saves, mishaps>>

\* A URL nobody is linked to; a category page that does not exist is a 404.
TypeUrl(v) == \E url \in Typed : Open(v, url)

FollowLink(v) ==
  /\ visit[v].step = "shown"
  /\ \E page \in visit[v].page : \E url \in Links(visit[v].url, page) : Open(v, url)

\* The value of this kind is there: look for the page after the counts, then answer.
Have(v, counts, page) ==
  visit' = [visit EXCEPT ![v] =
    [@ EXCEPT !.keys = {}, !.counts = counts, !.page = page,
              !.step = IF visit[v].kind = "counts" THEN "look" ELSE "shown",
              !.kind = IF visit[v].kind = "counts" THEN "page" ELSE "counts"]]

Hit(v) ==
  LET key == KeyOf(visit[v].url) IN
  /\ visit[v].step = "look"
  /\ \/ visit[v].kind = "counts" /\ key \in DOMAIN counted /\ Have(v, {counted[key]}, {})
     \/ /\ visit[v].kind = "page" /\ key \in DOMAIN listed
        /\ Have(v, visit[v].counts, {listed[key]})
  /\ UNCHANGED <<shelf, theCache, thumbs, save, opened, saves, mishaps>>

\* get_thumbnail_url: the thumbnails a page shows are made when they are missing.
EnsureThumbs(goods) == thumbs' = thumbs \cup goods

\* What is computed while a save is on its way to be committed may be out of date
\* when it is stored.
Compute(v) ==
  LET key == KeyOf(visit[v].url) IN
  /\ visit[v].step = "look"
  /\ \/ /\ visit[v].kind = "counts" /\ key \notin DOMAIN counted
        /\ visit' = [visit EXCEPT ![v] =
                       [@ EXCEPT !.step = "read", !.counts = {Counts(key)}]]
        /\ UNCHANGED thumbs
     \/ /\ visit[v].kind = "page" /\ key \notin DOMAIN listed
        /\ visit' = [visit EXCEPT ![v] =
                       [@ EXCEPT !.step = "read", !.page = {PageOf(key)}]]
        /\ EnsureThumbs(PageOf(key).goods)
  /\ mishaps' = (mishaps \/ \E s \in Staff : Saving(s))
  /\ UNCHANGED <<shelf, theCache, save, opened, saves>>

\* register_cache_key reads the registry and, unless the key is in it, writes it back
\* with the key.
ReadRegistry(v) ==
  /\ visit[v].step = "read"
  /\ visit' = [visit EXCEPT ![v] =
       IF Entry(v) \in registry THEN [@ EXCEPT !.step = "store"]
       ELSE [@ EXCEPT !.step = "write", !.keys = registry]]
  /\ UNCHANGED <<shelf, theCache, thumbs, save, opened, saves, mishaps>>

WriteRegistry(v) ==
  /\ visit[v].step = "write"
  /\ registry' = visit[v].keys \cup {Entry(v)}
  /\ mishaps' = (mishaps \/ visit[v].keys # registry)
  /\ visit' = [visit EXCEPT ![v] = [@ EXCEPT !.step = "store", !.keys = {}]]
  /\ UNCHANGED <<shelf, counted, listed, thumbs, save, opened, saves>>

With(f, key, value) == [k \in DOMAIN f \cup {key} |-> IF k = key THEN value ELSE f[k]]
Store(v) ==
  LET key == KeyOf(visit[v].url) IN
  /\ visit[v].step = "store"
  /\ \/ /\ visit[v].kind = "counts"
        /\ \E counts \in visit[v].counts : counted' = With(counted, key, counts)
        /\ UNCHANGED listed
     \/ /\ visit[v].kind = "page"
        /\ \E page \in visit[v].page : listed' = With(listed, key, page)
        /\ UNCHANGED counted
  /\ Have(v, visit[v].counts, visit[v].page)
  /\ UNCHANGED <<shelf, registry, thumbs, save, opened, saves, mishaps>>

\* The worker is killed.
AbandonPage(v) ==
  /\ Underway(v)
  /\ visit' = [visit EXCEPT ![v] = IdleVisit]
  /\ UNCHANGED <<shelf, theCache, thumbs, save, opened, saves, mishaps>>

\* PRODUCTS_TTL has passed; the registry has no timeout.
Without(f, keys) == [k \in DOMAIN f \ keys |-> f[k]]
Expire(key) ==
  /\ \/ key \in DOMAIN counted /\ counted' = Without(counted, {key}) /\ UNCHANGED listed
     \/ key \in DOMAIN listed /\ listed' = Without(listed, {key}) /\ UNCHANGED counted
  /\ UNCHANGED <<shelf, registry, thumbs, visit, save, opened, saves, mishaps>>

-----------------------------------------------------------------------------
(* Saves: the signal handler clears the cache inside the transaction, before its commit *)

\* A row that is saved is locked until its transaction ends.
Locked(g) == \E s \in Staff : Saving(s) /\ save[s].good = g /\ save[s].form # {}

\* The handler of post_save: clear_catalog_caches reads the registry.
StartSave(s, g, form, rating) ==
  /\ save[s].step = "idle"
  /\ saves < MaxSaves
  /\ saves' = saves + 1
  /\ save' = [save EXCEPT ![s] =
                [step |-> "clear", good |-> g, form |-> form, rating |-> rating,
                 keys |-> registry]]
  /\ mishaps' = (mishaps \/ \E v \in Visitors : visit[v].step \in {"read", "write", "store"})
  /\ UNCHANGED <<shelf, theCache, visit, opened>>

\* cleanup_thumbnails
CleanupThumbs(g) == thumbs' = thumbs \ {g}

\* An analyst saves the product's form, all its columns.  The thumbnails go first, even
\* if the image stays the same.
SaveProduct(s, g, fact) ==
  /\ ~Locked(g)
  /\ CleanupThumbs(g)
  /\ StartSave(s, g, {fact}, {})

\* mutant: no signal is connected for reviews
ReviewUnnoticed(s, g, rating) ==
  /\ shelf[g].listed /\ save[s].step = "idle" /\ saves < MaxSaves
  /\ saves' = saves + 1
  /\ save' = [save EXCEPT ![s] = [step |-> "commit", good |-> g, form |-> {},
                                  rating |-> {rating}, keys |-> {}]]
  /\ UNCHANGED <<shelf, theCache, thumbs, visit, opened, mishaps>>

\* product_review adds the customer's only review of an available product.
AddReview(s, g, rating) ==
  /\ shelf[g].listed
  /\ StartSave(s, g, {}, {rating})
  /\ UNCHANGED thumbs

\* clear_catalog_caches: delete_many, then the registry itself.
DeleteEntries(s) ==
  LET keys(kind) == {entry.key : entry \in {e \in save[s].keys : e.kind = kind}} IN
  /\ save[s].step = "clear"
  /\ counted' = Without(counted, keys("counts"))
  /\ listed' = Without(listed, keys("page"))
  /\ save' = [save EXCEPT ![s].step = "drop", ![s].keys = {}]
  /\ UNCHANGED <<shelf, registry, thumbs, visit, opened, saves, mishaps>>

DropRegistry(s) ==
  /\ save[s].step = "drop"
  /\ registry' = {}
  /\ save' = [save EXCEPT ![s].step = "commit"]
  /\ UNCHANGED <<shelf, counted, listed, thumbs, visit, opened, saves, mishaps>>

Commit(s) ==
  /\ save[s].step = "commit"
  /\ \/ \E fact \in save[s].form :
          shelf' = [shelf EXCEPT ![save[s].good] = [fact EXCEPT !.rating = shelf[save[s].good].rating]]
     \/ \E rating \in save[s].rating : shelf' = [shelf EXCEPT ![save[s].good].rating = rating]
  /\ save' = [save EXCEPT ![s] = IdleSave]
  /\ UNCHANGED <<theCache, thumbs, visit, opened, saves, mishaps>>

\* A later error, or the end of the worker: the transaction is rolled back, the files
\* and the cache are not.
Rollback(s) ==
  /\ Saving(s)
  /\ mishaps' = (mishaps \/ save[s].step = "clear")
  /\ save' = [save EXCEPT ![s] = IdleSave]
  /\ UNCHANGED <<shelf, theCache, thumbs, visit, opened, saves>>

\* decrement_for_order takes the last unit with queryset.update(), which sends no signal.
SellOut(g) ==
  /\ saves < MaxSaves
  /\ shelf[g].inStock
  /\ ~Locked(g)
  /\ shelf' = [shelf EXCEPT ![g].inStock = FALSE]
  /\ saves' = saves + 1
  /\ mishaps' = TRUE
  /\ UNCHANGED <<theCache, thumbs, visit, save, opened>>

ListingNext ==
  \/ \E v \in Visitors :
       TypeUrl(v) \/ FollowLink(v) \/ Hit(v) \/ Compute(v) \/ ReadRegistry(v) \/ WriteRegistry(v)
         \/ Store(v) \/ AbandonPage(v)
  \/ \E key \in DOMAIN counted \cup DOMAIN listed : Expire(key)
  \/ \E s \in Staff :
       (\E g \in Goods : (\E fact \in Facts : SaveProduct(s, g, fact))
                          \/ \E rating \in Ratings : AddReview(s, g, rating))
         \/ DeleteEntries(s) \/ DropRegistry(s) \/ Commit(s) \/ Rollback(s)
  \/ \E g \in Goods : SellOut(g)

ListingSpec == ListingInit /\ [][ListingNext]_listingVars

-----------------------------------------------------------------------------
(* Properties *)

\* Every cached listing and every cached facet count is what the database says, and the
\* thumbnails of a cached listing are there (but for the moment between their removal and
\* that of the listing), unless a page was computed while a save was under way, a save
\* died before it cleared the cache, two requests wrote the registry over each other, or
\* an order took a product's last unit: every entry is registered, under a key that tells
\* apart all that the result depends on, and every save clears it.
CachedIsCurrent ==
  ~mishaps =>
    /\ \A key \in DOMAIN counted : counted[key] = Counts(key)
    /\ \A key \in DOMAIN listed :
         /\ listed[key] = PageOf(key)
         /\ (\A s \in Staff : save[s].step # "clear") => listed[key].goods \subseteq thumbs

\* What a link leads to: the cached page or a new one.
Served(url) == LET key == KeyOf(url) IN IF key \in DOMAIN listed THEN listed[key] ELSE PageOf(key)

\* "Counts never lie": as long as what is on the screen, counts and listing, is current,
\* a facet link leads to as many products as the page says - for a price band next to
\* selected ones, as many more - and the counts of the selected values are those of the
\* page itself.
CountsNeverLie ==
  ~mishaps =>
    \A v \in Visitors : visit[v].step = "shown" =>
      \A counts \in visit[v].counts, page \in visit[v].page :
        LET url == visit[v].url
            key == KeyOf(url)
            chosen(b) == IF b \in key.price THEN counts.price[b] ELSE 0
        IN  counts = Counts(key) /\ page = PageOf(key) =>
              /\ \A b \in Bands \ key.price :
                   Served(PriceUrl(url, b)).total =
                     counts.price[b] + (IF key.price = {} THEN 0 ELSE page.total)
              /\ \A r \in RatingSteps \ url.rating :
                   Served(RatingUrl(url, r)).total = counts.rating[r]
              /\ ~key.stock => Served(StockUrl(url)).total = counts.stock
              /\ key.price # {} =>
                   page.total = chosen("under-25") + chosen("25-50") + chosen("50-100")
                                  + chosen("100-plus")
              /\ key.rating # 0 => page.total = counts.rating[key.rating]
              /\ key.stock => page.total = counts.stock
=============================================================================
