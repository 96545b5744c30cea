------------------------------- MODULE Catalog -------------------------------
(***************************************************************************)
(* The catalogue of the point of sale: state/CatalogProvider.tsx, the      *)
(* views PosHomePage.tsx asks of it, and what listProducts answers to      *)
(* them.                                                                   *)
(*                                                                         *)
(* A view is one CatalogQuery, known by its cache key: a category tab and  *)
(* a text.  React renders between events: a state update is visible to     *)
(* ensureLoaded (through entriesRef) only from the next commit on.  The    *)
(* provider's retry, which nothing calls, is left out, and so are changes  *)
(* to the products while a view is loaded.                                 *)
(*                                                                         *)
(* `missed' is history: no guard reads it.                                 *)
(***************************************************************************)
EXTENDS Integers, FiniteSets, Sequences

CONSTANTS
    Tabs,        \* the categories collection: [id, name]
    Stock,       \* the products of the branch, in the order listProducts sorts them by
    Views,       \* CatalogQuery: [category, text]
    Everything,  \* no category, or no text
    PAGE_LIMIT,
    MAX_CONCURRENT_PAGES,
    MaxLostPages \* bound: requests that fail

ASSUME CatalogAssumption ==
    /\ Stock \in Seq({Stock[n] : n \in DOMAIN Stock})
    /\ \A v \in Views : v.category \in {t.id : t \in Tabs} \cup {Everything}
    /\ \E v \in Views : v.category = Everything /\ v.text = Everything
    /\ PAGE_LIMIT \in Nat \ {0} /\ MAX_CONCURRENT_PAGES \in Nat \ {0} /\ MaxLostPages \in Nat

VARIABLES
    entries,       \* the cache, with every update queued for the next commit
    entriesRef,    \* the statuses that ensureLoaded sees: those of the last commit
    fetch,         \* fetchAll, per view; fetchInflight holds the views it runs for
    activeKey,     \* activeKeyRef
    shown,         \* the view on the screen
    missed,        \* history: views shown again between an update and its commit
    lostPages

catalogVars == <<entries, entriesRef, fetch, activeKey, shown, missed, lostPages>>

Ids        == {Stock[n].id : n \in DOMAIN Stock}
CatalogStatus == {"idle", "loading", "partial", "ready", "error"}
Entry      == [data : SUBSET Ids, totalPages : Nat, pagesFetched : Nat, status : CatalogStatus]
EMPTY_ENTRY == [data |-> {}, totalPages |-> 0, pagesFetched |-> 0, status |-> "idle"]
NoFetch    == [step |-> "none", answered |-> {}, data |-> {}, failed |-> 0]

CatalogTypeOK ==
    /\ entries \in [Views -> Entry]
    /\ entriesRef \in [Views -> CatalogStatus]
    /\ fetch \in [Views -> [step : {"none", "first", "rest"}, answered : SUBSET (2..Len(Stock)),
                             data : SUBSET Ids, failed : Nat]]
    /\ activeKey \in Views /\ shown \in Views
    /\ missed \subseteq Views
    /\ lostPages \in Nat

\* listProducts: the category of a product is compared with the one asked for.
Listed(v) == {m \in DOMAIN Stock : /\ v.category \in {Everything, Stock[m].category}
                                   /\ v.text = Everything \/ v.text \in Stock[m].texts}

\* paginate: skip and limit count the products listed.
PagesOf(v)   == (Cardinality(Listed(v)) + PAGE_LIMIT - 1) \div PAGE_LIMIT
Rank(v, m)   == Cardinality({k \in Listed(v) : k <= m})
OnPage(v, n) == {m \in Listed(v) : (n - 1) * PAGE_LIMIT < Rank(v, m) /\ Rank(v, m) <= n * PAGE_LIMIT}
Page(v, n)   == {Stock[m].id : m \in OnPage(v, n)}

----------------------------------------------------------------------------
\* useCatalog's effect for a new key: ensureLoaded, and fetchAll up to its first await.
EnsureLoaded(v) ==
    /\ activeKey' = v
    /\ missed' = IF entriesRef[v] \in {"idle", "error"} \/ entries[v].status # "idle"
                   THEN missed \ {v} ELSE missed \cup {v}
    /\ IF entriesRef[v] \in {"idle", "error"} /\ fetch[v].step = "none"
         THEN /\ fetch' = [fetch EXCEPT ![v] = [NoFetch EXCEPT !.step = "first"]]
              /\ entries' = [entries EXCEPT ![v].status = "loading"]
         ELSE UNCHANGED <<fetch, entries>>

\* A tab, the search box, the availability toggle or the branch picker.
Show(v) ==
    /\ v # shown
    /\ shown' = v
    /\ EnsureLoaded(v)
    /\ UNCHANGED <<entriesRef, lostPages>>

\* React commits the queued updates; the provider's effect copies them to entriesRef.
CommitEntries ==
    /\ entriesRef' = [v \in Views |-> entries[v].status]
    /\ entriesRef' # entriesRef
    /\ UNCHANGED <<entries, fetch, activeKey, shown, missed, lostPages>>

\* Fault: an abandoned fetch leaves its entry as it was.
AbandonQuietly(v) == entries

\* An abandoned fetch drops its entry "so a revisit re-enters ensureLoaded".
AbandonEntry(v) == [entries EXCEPT ![v] = EMPTY_ENTRY]

FirstPage(v) ==
    LET total == IF PagesOf(v) = 0 THEN 1 ELSE PagesOf(v) IN
    /\ fetch[v].step = "first"
    /\ IF activeKey # v
         THEN /\ entries' = AbandonEntry(v)
              /\ fetch' = [fetch EXCEPT ![v] = NoFetch]
         ELSE /\ entries' = [entries EXCEPT ![v] =
                     [data |-> Page(v, 1), totalPages |-> total, pagesFetched |-> 1,
                      status |-> IF total > 1 THEN "partial" ELSE "ready"]]
              /\ fetch' = [fetch EXCEPT ![v] =
                     IF total > 1 THEN [NoFetch EXCEPT !.step = "rest"] ELSE NoFetch]
    /\ UNCHANGED <<entriesRef, activeKey, shown, missed, lostPages>>

FirstPageFails(v) ==
    /\ fetch[v].step = "first"
    /\ lostPages < MaxLostPages /\ lostPages' = lostPages + 1
    /\ entries' = IF activeKey # v THEN AbandonEntry(v) ELSE [entries EXCEPT ![v].status = "error"]
    /\ fetch' = [fetch EXCEPT ![v] = NoFetch]
    /\ UNCHANGED <<entriesRef, activeKey, shown, missed>>

\* Fault: a page that failed is forgotten.
MergedForgetful(entry, f) ==
    [entry EXCEPT !.data = @ \cup f.data,
                  !.pagesFetched = @ + Cardinality(f.answered) - f.failed, !.status = "ready"]

\* dedupeById of the first page and of the pages that did not fail.
Merged(entry, f) ==
    [entry EXCEPT !.data = @ \cup f.data,
                  !.pagesFetched = @ + Cardinality(f.answered) - f.failed,
                  !.status = IF f.failed = 0 THEN "ready" ELSE "partial"]

\* fetchInPool: a page answers, or fails, while at most MAX_CONCURRENT_PAGES are asked
\* for; after the last one the results are merged, unless the view was left meanwhile.
LaterPage(v, n, ok) ==
    LET f    == fetch[v]
        done == [f EXCEPT !.answered = @ \cup {n}, !.data = IF ok THEN @ \cup Page(v, n) ELSE @,
                          !.failed = IF ok THEN @ ELSE @ + 1] IN
    /\ f.step = "rest"
    /\ n \notin f.answered /\ n - 1 <= Cardinality(f.answered) + MAX_CONCURRENT_PAGES
    /\ ok \/ lostPages < MaxLostPages
    /\ lostPages' = IF ok THEN lostPages ELSE lostPages + 1
    /\ IF done.answered # 2..entries[v].totalPages
         THEN fetch' = [fetch EXCEPT ![v] = done] /\ UNCHANGED entries
         ELSE /\ fetch' = [fetch EXCEPT ![v] = NoFetch]
              /\ entries' = IF activeKey # v THEN entries
                            ELSE [entries EXCEPT ![v] = Merged(@, done)]
    /\ UNCHANGED <<entriesRef, activeKey, shown, missed>>

\* The page is mounted with the first view.
CatalogInit ==
    /\ shown = CHOOSE v \in Views : v.category = Everything /\ v.text = Everything
    /\ activeKey = shown
    /\ fetch = [v \in Views |-> IF v = shown THEN [NoFetch EXCEPT !.step = "first"] ELSE NoFetch]
    /\ entries = [v \in Views |-> IF v = shown THEN [EMPTY_ENTRY EXCEPT !.status = "loading"]
                                  ELSE EMPTY_ENTRY]
    /\ entriesRef = [v \in Views |-> "idle"]
    /\ missed = {} /\ lostPages = 0

CatalogNext ==
    \/ CommitEntries
    \/ \E v \in Views :
          \/ Show(v) \/ FirstPage(v) \/ FirstPageFails(v)
          \/ \E n \in 2..entries[v].totalPages, ok \in BOOLEAN : LaterPage(v, n, ok)

CatalogSpec == CatalogInit /\ [][CatalogNext]_catalogVars

----------------------------------------------------------------------------
\* No view waits for an answer nobody will bring: one that says it is loading has its
\* first page on the way, one that shows a part has the rest on the way or knows that
\* pages are missing; and the one on the screen is never idle - but for a view shown
\* again before the commit of the update that made it idle (fetchAll: "otherwise the
\* cache stays stuck on `loading` forever").
NeverStuck ==
    /\ \A v \in Views :
          CASE entries[v].status = "loading" -> fetch[v].step = "first"
            [] entries[v].status = "partial" -> \/ fetch[v].step = "rest"
                                                \/ entries[v].pagesFetched < entries[v].totalPages
            [] OTHER                         -> fetch[v].step = "none"
    /\ entries[shown].status = "idle" => shown \in missed

\* A view that says it is ready shows every product that listProducts finds for it, and
\* counts every page once, however its pages and those of other views were answered.
ReadyIsComplete ==
    \A v \in Views : entries[v].status = "ready" =>
        /\ entries[v].data = {Stock[m].id : m \in Listed(v)}
        /\ entries[v].pagesFetched = entries[v].totalPages

\* A category's tab lists the products of the category (product.category is "the
\* category name, join key to categories.name", docs/ferna-integration.md).
TabShowsItsCategory ==
    \A v \in Views, t \in Tabs : v.category = t.id /\ entries[v].status = "ready" =>
        entries[v].data =
            {Stock[n].id : n \in {m \in DOMAIN Stock : /\ Stock[m].category = t.name
                                                       /\ v.text = Everything \/ v.text \in Stock[m].texts}}
=============================================================================
