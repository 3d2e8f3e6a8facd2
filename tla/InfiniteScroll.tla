---------------------------- MODULE InfiniteScroll ----------------------------
(***************************************************************************)
(* infinite-scroll.js: a listing that grows by the next page when its end  *)
(* comes into view or "Load more" is clicked.  Requests are answered in    *)
(* any order, or fail; the catalog may change between two pages.           *)
(* A product is its place among the results, numbered anew by a change.    *)
(***************************************************************************)
EXTENDS Integers, Sequences, SequencesExt

CONSTANTS
  PageSize,       \* PRODUCTS_PER_PAGE
  MaxResults,     \* bound: products in the listing
  MaxChanges,     \* bound: changes of the catalog
  MaxFetches      \* bound: requests sent

ASSUME ScrollAssumption ==
  PageSize \in Nat \ {0} /\ MaxResults \in Nat /\ MaxChanges \in Nat /\ MaxFetches \in Nat

VARIABLES
  results,    \* products in the listing now
  grid,       \* the cards on the page, in their order
  next,       \* the page that data-next-url names, 0 if it is empty
  loading, finished,   \* state.loading, state.loadingFinished
  watching,   \* the observer watches the sentinel
  button,     \* "Load more": "ready", "busy" or "hidden"
  fetches,    \* pages requested and not answered yet
  sent,       \* requests sent so far
  top,        \* history: the first product of the page that was opened
  changes     \* history: changes of the catalog so far

scrollVars == <<results, grid, next, loading, finished, watching, button, fetches, sent,
                top, changes>>

Pages == (results + PageSize - 1) \div PageSize

\* The view answers a page that is out of range with the last one.
Clamp(page) == IF page \in 1..Pages THEN page ELSE Pages
Min2(m, n) == IF m < n THEN m ELSE n
Cards(page) ==
  LET first == (page - 1) * PageSize + 1
      last == Min2(page * PageSize, results)
  IN  IF results = 0 THEN << >> ELSE [i \in 1..(last - first + 1) |-> first + i - 1]

\* mutant: the last page has a next one
NextAfterLast(page) == IF page <= Pages THEN page + 1 ELSE 0

\* The sentinel's next URL; a listing of one page has no sentinel.
NextOf(page) == IF page < Pages THEN page + 1 ELSE 0

ScrollTypeOK ==
  /\ results \in 0..MaxResults
  /\ grid \in Seq(1..MaxResults)
  /\ next \in 0..((MaxResults + PageSize - 1) \div PageSize)
  /\ loading \in BOOLEAN /\ finished \in BOOLEAN /\ watching \in BOOLEAN
  /\ button \in {"ready", "busy", "hidden"}
  /\ fetches \in Seq(1..MaxResults)
  /\ sent \in 0..MaxFetches /\ changes \in 0..MaxChanges

\* init, on a page with a sentinel (the script does nothing on others).
ScrollInit ==
  /\ results \in (PageSize + 1)..MaxResults
  /\ \E page \in 1..Pages :
       /\ grid = Cards(page)
       /\ next = NextOf(page)
       /\ top = (page - 1) * PageSize + 1
  /\ watching = (next # 0)
  /\ button = IF next = 0 THEN "hidden" ELSE "ready"
  /\ loading = FALSE /\ finished = FALSE
  /\ fetches = << >>
  /\ sent = 0 /\ changes = 0

Stop == finished' = TRUE /\ button' = "hidden" /\ watching' = FALSE

\* mutant: a request under way is not waited for
LoadAnyway ==
  /\ ~finished
  /\ sent < MaxFetches
  /\ loading' = TRUE
  /\ button' = "busy"
  /\ fetches' = Append(fetches, next)
  /\ sent' = sent + 1
  /\ UNCHANGED <<results, grid, next, finished, watching, top, changes>>

\* Without a next URL there is neither an observer nor a button to call it.
LoadNextPage ==
  /\ ~loading /\ ~finished
  /\ sent < MaxFetches
  /\ loading' = TRUE
  /\ button' = "busy"
  /\ fetches' = Append(fetches, next)
  /\ sent' = sent + 1
  /\ UNCHANGED <<results, grid, next, finished, watching, top, changes>>

ScrollIntoView == watching /\ LoadNextPage
ClickLoadMore == button = "ready" /\ LoadNextPage

NoCards(page) ==
  /\ Cards(page) = << >>
  /\ Stop
  /\ UNCHANGED <<grid, next>>

AppendCards(page) ==
  /\ Cards(page) # << >>
  /\ grid' = grid \o Cards(page)
  /\ next' = NextOf(page)
  /\ IF next' = 0 THEN Stop
     ELSE button' = "ready" /\ UNCHANGED <<finished, watching>>

\* A network error or an HTTP error: the request may be made again.
Fail == button' = "ready" /\ UNCHANGED <<grid, next, finished, watching>>

\* finally: the button is enabled again, hidden or not.
Receive(i) ==
  /\ fetches' = RemoveAt(fetches, i)
  /\ loading' = FALSE
  /\ LET page == Clamp(fetches[i]) IN NoCards(page) \/ AppendCards(page) \/ Fail
  /\ UNCHANGED <<results, sent, top, changes>>

\* Products are added to the listing, or leave it.
ChangeCatalog(n) ==
  /\ n # results
  /\ changes < MaxChanges
  /\ changes' = changes + 1
  /\ results' = n
  /\ UNCHANGED <<grid, next, loading, finished, watching, button, fetches, sent, top>>

ScrollNext ==
  \/ ScrollIntoView \/ ClickLoadMore
  \/ \E i \in DOMAIN fetches : Receive(i)
  \/ \E n \in 0..MaxResults : ChangeCatalog(n)

ScrollSpec == ScrollInit /\ [][ScrollNext]_scrollVars

\* However often the end comes into view, the button is clicked or a request fails: while
\* the catalog stays the same, the grid shows the products from the page that was opened
\* on, each once and in order, and has shown the last one when loading stops.
GridIsWhole ==
  changes = 0 =>
    /\ grid = [i \in 1..Len(grid) |-> top + i - 1]
    /\ finished => top + Len(grid) - 1 = results
=============================================================================
