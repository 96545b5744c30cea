----------------------------- MODULE PosProofs ------------------------------
(***************************************************************************)
(* Theorems about the point of sale, each of its own specification:        *)
(* Terminal, Catalog and Scanner, for any accounts, businesses and         *)
(* branches, views, products and page sizes, codes and keys.  Each section *)
(* has the same parts: what the property needs to be inductive, the steps  *)
(* that preserve it, and the theorem.                                      *)
(***************************************************************************)
EXTENDS Terminal, Catalog, Scanner, FiniteSetTheorems, SequenceTheorems, TLAPS

----------------------------------------------------------------------------
(* The terminal                                                            *)

\* What is asked for, and what is cached once nothing is being deleted, is the business's that
\* the session acts for, or is marked as another identity's.
KeptForIdentity ==
    /\ \A a \in asking : a.late \/ a.as = ActsFor
    /\ \A u \in URLs : catalogCache[u] # Void /\ ~purging =>
            catalogCache[u].late \/ catalogCache[u].of = ActsFor

TerminalInv == TerminalTypeOK /\ KeptForIdentity /\ CatalogOfOwnBusiness

LEMMA TerminalInitially == TerminalInit => TerminalInv
<1> SUFFICES ASSUME TerminalInit
             PROVE  TerminalInv
  OBVIOUS
<1>1. TerminalTypeOK
  BY DEF TerminalInit, TerminalTypeOK, Cached
<1>2. KeptForIdentity /\ CatalogOfOwnBusiness
  BY DEF TerminalInit, KeptForIdentity, CatalogOfOwnBusiness
<1> QED BY <1>1, <1>2 DEF TerminalInv

LEMMA ActsForTyped ==
    ASSUME TerminalTypeOK
    PROVE  ActsFor \in Shops \cup {Void} /\ (session = Void => ActsFor = Void)
BY TerminalAssumption DEF TerminalTypeOK, ActsFor

\* All requests under way are marked.
LEMMA IdentityEndsMarks ==
    ASSUME TerminalTypeOK, IdentityEnds
    PROVE  asking' \subseteq Asking /\ \A a \in asking' : a.late
<1> SUFFICES ASSUME NEW b \in asking'
             PROVE  b \in Asking /\ b.late
  OBVIOUS
<1>1. PICK a \in asking : b = [a EXCEPT !.late = TRUE]
  BY DEF IdentityEnds
<1> QED BY <1>1 DEF TerminalTypeOK, Asking

\* The identity changes, and the cache goes with it.
LEMMA IdentityChanges ==
    ASSUME TerminalInv, IdentityEnds, clearCatalogCache, answered' = Void,
           UNCHANGED catalogCache, session' \in Staff \cup {Void}, selectedBusiness' \in Shops \cup {Void},
           signedIn' \in [Browsers -> Staff \cup {Void}],
           storedBranch' \in [Browsers -> Shops \cup {Void}],
           selectedBranch' \in [Browsers -> Shops \cup {Void}]
    PROVE  TerminalInv'
<1>1. asking' \subseteq Asking /\ \A a \in asking' : a.late
  BY IdentityEndsMarks DEF TerminalInv
<1>2. TerminalTypeOK'
  BY <1>1 DEF TerminalInv, TerminalTypeOK, clearCatalogCache
<1>3. KeptForIdentity' /\ CatalogOfOwnBusiness'
  BY <1>1 DEF KeptForIdentity, CatalogOfOwnBusiness, clearCatalogCache
<1> QED BY <1>2, <1>3 DEF TerminalInv

\* The identity, what is cached and what is asked for stay.
LEMMA IdentityStays ==
    ASSUME TerminalInv, answered' = Void, UNCHANGED <<session, selectedBusiness, catalogCache, purging>>,
           asking' \subseteq asking,
           signedIn' \in [Browsers -> Staff \cup {Void}],
           storedBranch' \in [Browsers -> Shops \cup {Void}],
           selectedBranch' \in [Browsers -> Shops \cup {Void}]
    PROVE  TerminalInv'
<1>1. ActsFor' = ActsFor
  BY DEF ActsFor
<1>2. TerminalTypeOK'
  BY DEF TerminalInv, TerminalTypeOK
<1>3. KeptForIdentity' /\ CatalogOfOwnBusiness'
  BY <1>1 DEF TerminalInv, KeptForIdentity, CatalogOfOwnBusiness
<1> QED BY <1>2, <1>3 DEF TerminalInv

LEMMA SignInKeeps ==
    ASSUME TerminalInv, NEW w \in Browsers, NEW s \in Staff, TerminalSignIn(w, s)
    PROVE  TerminalInv'
<1> USE TerminalAssumption DEF TerminalInv
<1>1. /\ session' = s /\ signedIn' \in [Browsers -> Staff \cup {Void}]
      /\ selectedBranch' \in [Browsers -> Shops \cup {Void}] /\ answered' = Void
      /\ UNCHANGED <<selectedBusiness, storedBranch, purging>>
  BY DEF TerminalSignIn, TerminalTypeOK
<1>2. CASE session \in {Void, s}
  <2>1. UNCHANGED <<asking, catalogCache>>
    BY <1>2 DEF TerminalSignIn
  <2>2. TerminalTypeOK'
    BY <1>1, <2>1 DEF TerminalTypeOK
  <2>3. CASE session = s
    <3>1. ActsFor' = ActsFor
      BY <1>1, <2>3 DEF ActsFor
    <3> QED BY <1>1, <2>1, <2>2, <3>1 DEF KeptForIdentity, CatalogOfOwnBusiness
  <2>4. CASE session = Void
    <3>1. ActsFor = Void
      BY <2>4, ActsForTyped
    <3>2. \A a \in asking : a.late
      BY <3>1 DEF KeptForIdentity, TerminalTypeOK, Asking
    <3>3. \A u \in URLs : catalogCache[u] # Void /\ ~purging => catalogCache[u].late
      BY <3>1 DEF KeptForIdentity, TerminalTypeOK, Cached
    <3> QED BY <1>1, <2>1, <2>2, <3>2, <3>3 DEF KeptForIdentity, CatalogOfOwnBusiness
  <2> QED BY <1>2, <2>3, <2>4
<1>3. CASE session \notin {Void, s}
  <2>1. /\ IdentityEnds
        /\ catalogCache' = [u \in URLs |-> IF catalogCache[u] = Void THEN Void
                                           ELSE [catalogCache[u] EXCEPT !.late = TRUE]]
    BY <1>3 DEF TerminalSignIn
  <2>2. asking' \subseteq Asking /\ \A a \in asking' : a.late
    BY <2>1, IdentityEndsMarks
  <2>3. ASSUME NEW u \in URLs
        PROVE  catalogCache'[u] \in Cached /\ (catalogCache'[u] # Void => catalogCache'[u].late)
    <3>1. catalogCache[u] \in Cached
      BY DEF TerminalTypeOK
    <3> QED BY <2>1, <3>1 DEF Cached
  <2>4. TerminalTypeOK'
    BY <1>1, <2>1, <2>2, <2>3 DEF TerminalTypeOK
  <2> QED BY <1>1, <2>2, <2>3, <2>4 DEF KeptForIdentity, CatalogOfOwnBusiness
<1> QED BY <1>2, <1>3

LEMMA AskCatalogKeeps ==
    ASSUME TerminalInv, NEW w \in Browsers, NEW u \in URLs, AskCatalog(w, u)
    PROVE  TerminalInv'
<1> USE TerminalAssumption DEF TerminalInv
<1>a. PICK as : as = ActsFor
  OBVIOUS
<1>b. as \in Shops /\ session \in Staff
  BY <1>a, ActsForTyped DEF AskCatalog, TerminalTypeOK
<1>1. /\ answered' = IF catalogCache[u] = Void THEN Void ELSE [as |-> as, with |-> catalogCache[u]]
      /\ asking' = asking \cup {[url |-> u, by |-> session, as |-> as, late |-> FALSE]}
      /\ UNCHANGED <<session, selectedBusiness, signedIn, storedBranch, selectedBranch,
                     catalogCache, purging>>
  BY <1>a DEF AskCatalog
<1>2. ActsFor' = as
  BY <1>a, <1>1 DEF ActsFor
<1>3. catalogCache[u] \in Cached
  BY DEF TerminalTypeOK
<1>4. TerminalTypeOK'
  <2>1. asking' \subseteq Asking
    <3>1. [url |-> u, by |-> session, as |-> as, late |-> FALSE] \in Asking
      BY <1>b DEF Asking
    <3>2. asking \subseteq Asking
      BY DEF TerminalTypeOK
    <3> QED BY <1>1, <3>1, <3>2
  <2>2. answered' \in [as : Shops, with : Cached \ {Void}] \cup {Void}
    BY <1>1, <1>b, <1>3
  <2> QED BY <1>1, <2>1, <2>2 DEF TerminalTypeOK
<1>5. KeptForIdentity'
  BY <1>a, <1>1, <1>2 DEF KeptForIdentity
<1>6. CatalogOfOwnBusiness'
  BY <1>a, <1>1 DEF KeptForIdentity, CatalogOfOwnBusiness
<1> QED BY <1>4, <1>5, <1>6

LEMMA NetworkAnswersKeep ==
    ASSUME TerminalInv, NEW a \in asking, NetworkAnswers(a)
    PROVE  TerminalInv'
<1> USE TerminalAssumption DEF TerminalInv
<1>1. /\ asking' = asking \ {a} /\ answered' = Void
      /\ catalogCache' = IF a.url = "categories" \/ MayReadBranch(a)
                           THEN [catalogCache EXCEPT ![a.url] = [of |-> a.as, late |-> a.late]]
                           ELSE catalogCache
      /\ UNCHANGED <<session, selectedBusiness, signedIn, storedBranch, selectedBranch, purging>>
      /\ a \in Asking
  BY DEF NetworkAnswers, TerminalTypeOK
<1>2. a.url \in URLs /\ a.as \in Shops /\ a.late \in BOOLEAN /\ (a.late \/ a.as = ActsFor)
  BY <1>1 DEF Asking, KeptForIdentity
<1>3. ActsFor' = ActsFor
  BY <1>1 DEF ActsFor
<1>4. [of |-> a.as, late |-> a.late] \in Cached
  BY <1>2 DEF Cached
<1>5. TerminalTypeOK'
  BY <1>1, <1>2, <1>4 DEF TerminalTypeOK
<1>6. ASSUME NEW u \in URLs
      PROVE  catalogCache'[u] = catalogCache[u] \/ catalogCache'[u] = [of |-> a.as, late |-> a.late]
  BY <1>1 DEF TerminalTypeOK
<1>7. ASSUME NEW u \in URLs, catalogCache'[u] # Void, ~purging
      PROVE  catalogCache'[u].late \/ catalogCache'[u].of = ActsFor
  <2>1. CASE catalogCache'[u] = catalogCache[u]
    BY <1>7, <2>1 DEF KeptForIdentity
  <2>2. CASE catalogCache'[u] = [of |-> a.as, late |-> a.late]
    BY <1>2, <2>2
  <2> QED BY <1>6, <2>1, <2>2
<1>8. KeptForIdentity'
  BY <1>1, <1>3, <1>7 DEF KeptForIdentity
<1> QED BY <1>1, <1>5, <1>8 DEF CatalogOfOwnBusiness

LEMMA TerminalInductive == TerminalInv /\ [TerminalNext]_terminalVars => TerminalInv'
<1> SUFFICES ASSUME TerminalInv, [TerminalNext]_terminalVars
             PROVE  TerminalInv'
  OBVIOUS
<1> USE TerminalAssumption
<1>1. ASSUME NEW w \in Browsers, NEW b \in Shops, TerminalPick(w, b) \/ TerminalPickFirst(w, b)
      PROVE  TerminalInv'
  BY <1>1, IdentityChanges DEF TerminalPick, TerminalPickFirst, setSelectedBusinessId, Loads,
     clearCatalogCache, TerminalInv, TerminalTypeOK
<1>2. ASSUME NEW w \in Browsers, TerminalSignOut(w)
      PROVE  TerminalInv'
  BY <1>2, IdentityChanges DEF TerminalSignOut, TerminalInv, TerminalTypeOK
<1>3. ASSUME NEW w \in Browsers, TerminalReload(w)
      PROVE  TerminalInv'
  BY <1>3, IdentityStays DEF TerminalReload, Loads, TerminalInv, TerminalTypeOK
<1>4. ASSUME NEW w \in Browsers, SwitchBranch(w)
      PROVE  TerminalInv'
  BY <1>4, IdentityStays, ActsForTyped DEF SwitchBranch, TerminalInv, TerminalTypeOK
<1>5. ASSUME NEW a \in asking, NetworkFails(a)
      PROVE  TerminalInv'
  BY <1>5, IdentityStays DEF NetworkFails, TerminalInv, TerminalTypeOK
<1>6. CASE PurgeDone
  <2>1. catalogCache' = [u \in URLs |-> Void] /\ answered' = Void /\ purging' = FALSE
        /\ UNCHANGED <<session, selectedBusiness, signedIn, storedBranch, selectedBranch, asking>>
    BY <1>6 DEF PurgeDone
  <2>2. TerminalTypeOK'
    BY <2>1 DEF TerminalInv, TerminalTypeOK, Cached
  <2>3. ActsFor' = ActsFor
    BY <2>1 DEF ActsFor
  <2> QED BY <2>1, <2>2, <2>3 DEF TerminalInv, KeptForIdentity, CatalogOfOwnBusiness
<1>8. CASE PurgeFails
  <2>1. /\ answered' = Void /\ purging' = FALSE
        /\ catalogCache' = [u \in URLs |->
               IF catalogCache[u] = Void \/ catalogCache[u].of = ActsFor THEN catalogCache[u]
               ELSE [catalogCache[u] EXCEPT !.late = TRUE]]
        /\ UNCHANGED <<session, selectedBusiness, signedIn, storedBranch, selectedBranch, asking>>
    BY <1>8 DEF PurgeFails
  <2>2. ActsFor' = ActsFor
    BY <2>1 DEF ActsFor
  <2>3. ASSUME NEW u \in URLs
        PROVE  /\ catalogCache'[u] \in Cached
               /\ catalogCache'[u] # Void => catalogCache'[u].late \/ catalogCache'[u].of = ActsFor
    <3>1. catalogCache[u] \in Cached
      BY DEF TerminalInv, TerminalTypeOK
    <3> QED BY <2>1, <3>1 DEF Cached
  <2>4. TerminalTypeOK'
    BY <2>1, <2>3 DEF TerminalInv, TerminalTypeOK
  <2> QED BY <2>1, <2>2, <2>3, <2>4 DEF TerminalInv, KeptForIdentity, CatalogOfOwnBusiness
<1>7. CASE UNCHANGED terminalVars
  <2>1. ActsFor' = ActsFor
    BY <1>7 DEF ActsFor, terminalVars
  <2> QED BY <1>7, <2>1 DEF terminalVars, TerminalInv, TerminalTypeOK, KeptForIdentity, CatalogOfOwnBusiness
<1> QED BY <1>1, <1>2, <1>3, <1>4, <1>5, <1>6, <1>7, <1>8, SignInKeeps, AskCatalogKeeps, NetworkAnswersKeep
        DEF TerminalNext

\* Whoever works at the terminal is given his own business's catalogue, with any number of people,
\* businesses and tabs, where the cache was deleted and no answer came late (clearCatalogCache,
\* pwa.config.ts).
THEOREM OwnCatalog == TerminalSpec => []CatalogOfOwnBusiness
<1>1. TerminalInv => CatalogOfOwnBusiness
  BY DEF TerminalInv
<1> QED BY <1>1, TerminalInitially, TerminalInductive, PTL DEF TerminalSpec

----------------------------------------------------------------------------
(* The catalogue                                                           *)

LEMMA StockIsASequence == Len(Stock) \in Nat /\ DOMAIN Stock = 1..Len(Stock)
BY CatalogAssumption

\* The products listed are finitely many, and each has its rank among them.
LEMMA ListedIsFinite ==
    ASSUME NEW v
    PROVE  /\ IsFiniteSet(Listed(v)) /\ Cardinality(Listed(v)) \in Nat
           /\ \A m \in Listed(v) : Rank(v, m) \in 1..Cardinality(Listed(v))
<1>1. IsFiniteSet(1..Len(Stock))
  BY StockIsASequence, FS_Interval
<1>2. IsFiniteSet(Listed(v)) /\ Cardinality(Listed(v)) \in Nat
  <2>1. Listed(v) \subseteq 1..Len(Stock)
    BY StockIsASequence DEF Listed
  <2> QED BY <1>1, <2>1, FS_Subset, FS_CardinalityType
<1>3. ASSUME NEW m \in Listed(v)
      PROVE  Rank(v, m) \in 1..Cardinality(Listed(v))
  <2> DEFINE Before == {k \in Listed(v) : k <= m}
  <2>1. Before \subseteq Listed(v)
    OBVIOUS
  <2>2. IsFiniteSet(Before) /\ Cardinality(Before) <= Cardinality(Listed(v))
    BY <1>2, <2>1, FS_Subset
  <2>3. m \in Before
    BY StockIsASequence DEF Listed
  <2>4. Cardinality(Before) \in Nat /\ Cardinality(Before) # 0
    BY <2>2, <2>3, FS_CardinalityType, FS_EmptySet
  <2>5. Rank(v, m) = Cardinality(Before)
    BY DEF Rank
  <2> HIDE DEF Before
  <2> QED BY <1>2, <2>2, <2>4, <2>5
<1> QED BY <1>2, <1>3

LEMMA Division ==
    ASSUME NEW a \in Nat, NEW d \in Nat \ {0}
    PROVE  a \div d \in Nat /\ (a \div d) * d <= a /\ a < (a \div d) * d + d
OBVIOUS

LEMMA LessTimes ==
    ASSUME NEW p \in Nat, NEW q \in Nat, NEW d \in Nat \ {0}, p * d < q * d
    PROVE  p < q
<1> SUFFICES ASSUME q <= p
             PROVE  q * d <= p * d
  OBVIOUS
<1>1. PICK e \in Nat : p = q + e
  <2>1. p - q \in Nat /\ p = q + (p - q)
    OBVIOUS
  <2> QED BY <2>1
<1>2. p * d = q * d + e * d /\ e * d >= 0
  BY <1>1
<1> QED BY <1>1, <1>2

\* The page on which the product of rank r is.
LEMMA PageOfRank ==
    ASSUME NEW N \in Nat, NEW d \in Nat \ {0}, NEW r \in 1..N
    PROVE  \E n \in 1..((N + d - 1) \div d) : (n - 1) * d < r /\ r <= n * d
<1>1. PICK a \in Nat : a = r - 1
  OBVIOUS
<1>2. PICK b \in Nat : b = N + d - 1
  OBVIOUS
<1>3. PICK q \in Nat : q = a \div d /\ q * d <= a /\ a < q * d + d
  BY Division
<1>4. PICK p \in Nat : p = b \div d /\ p * d <= b /\ b < p * d + d
  BY Division
<1>5. q * d < p * d
  <2>1. a < N /\ N < p * d + 1
    BY <1>1, <1>2, <1>4
  <2>2. q * d \in Nat /\ p * d \in Nat
    OBVIOUS
  <2> QED BY <1>3, <2>1, <2>2
<1>6. q < p
  BY <1>5, LessTimes
<1>7. PICK n \in Nat : n = q + 1
  OBVIOUS
<1>8. n * d = q * d + d /\ (n - 1) * d = q * d
  BY <1>7
<1>9. n \in 1..p /\ (n - 1) * d < r /\ r <= n * d
  BY <1>1, <1>3, <1>6, <1>7, <1>8
<1> QED BY <1>2, <1>4, <1>9

\* paginate leaves nothing out: every product listed is on one of the pages.
LEMMA PagesHoldAll ==
    ASSUME NEW v
    PROVE  /\ PagesOf(v) \in Nat
           /\ {Stock[m].id : m \in Listed(v)} = UNION {Page(v, n) : n \in 1..PagesOf(v)}
<1> DEFINE size == Cardinality(Listed(v))
<1>1. PICK d \in Nat \ {0} : d = PAGE_LIMIT
  BY CatalogAssumption
<1>2. PICK N \in Nat : N = size
  BY ListedIsFinite
<1>3. N + d - 1 \in Nat
  BY <1>1, <1>2
<1>4. PagesOf(v) = (N + d - 1) \div d /\ PagesOf(v) \in Nat
  BY <1>1, <1>2, <1>3, Division DEF PagesOf
<1>5. ASSUME NEW m \in Listed(v)
      PROVE  \E n \in 1..PagesOf(v) : m \in OnPage(v, n)
  <2>1. PICK r \in 1..N : r = Rank(v, m)
    BY <1>2, ListedIsFinite
  <2>2. PICK n \in 1..((N + d - 1) \div d) : (n - 1) * d < r /\ r <= n * d
    BY PageOfRank
  <2>3. m \in OnPage(v, n)
    BY <1>1, <2>1, <2>2 DEF OnPage
  <2> QED BY <1>4, <2>2, <2>3
<1>6. ASSUME NEW n
      PROVE  Page(v, n) \subseteq {Stock[m].id : m \in Listed(v)}
  BY DEF Page, OnPage
<1>7. ASSUME NEW m \in Listed(v)
      PROVE  \E n \in 1..PagesOf(v) : Stock[m].id \in Page(v, n)
  BY <1>5 DEF Page
<1> QED BY <1>4, <1>6, <1>7

\* There are no more pages than products.
LEMMA PagesAreFew ==
    ASSUME NEW v
    PROVE  PagesOf(v) <= Len(Stock)
<1>1. PICK d \in Nat \ {0} : d = PAGE_LIMIT
  BY CatalogAssumption
<1>2. PICK N \in Nat : N = Cardinality(Listed(v))
  BY ListedIsFinite
<1>3. N <= Len(Stock)
  <2>1. Listed(v) \subseteq 1..Len(Stock)
    BY StockIsASequence DEF Listed
  <2>2. IsFiniteSet(1..Len(Stock)) /\ Cardinality(1..Len(Stock)) = Len(Stock)
    <3>1. PICK n \in Nat : n = Len(Stock)
      BY StockIsASequence
    <3>2. IsFiniteSet(1..n) /\ Cardinality(1..n) = IF 1 > n THEN 0 ELSE n - 1 + 1
      BY FS_Interval
    <3> QED BY <3>1, <3>2
  <2> QED BY <1>2, <2>1, <2>2, FS_Subset
<1>4. PICK b \in Nat : b = N + d - 1
  OBVIOUS
<1>5. PICK p \in Nat : p = b \div d /\ p * d <= b
  BY Division
<1>6. p * d < (N + 1) * d
  <2>1. (N + 1) * d = N * d + d /\ N * d >= N
    OBVIOUS
  <2> QED BY <1>4, <1>5, <2>1
<1>7. p < N + 1
  BY <1>6, LessTimes
<1>8. p = PagesOf(v)
  BY <1>1, <1>2, <1>4, <1>5 DEF PagesOf
<1> QED BY <1>3, <1>7, <1>8, StockIsASequence

Complete(v) ==
    /\ entries[v].data = {Stock[m].id : m \in Listed(v)}
    /\ entries[v].pagesFetched = entries[v].totalPages

\* How far the fetch of a view is, its entry says.
FetchOf(v) ==
    /\ fetch[v].step = "first" <=> entries[v].status = "loading"
    /\ fetch[v].step = "rest" =>
          /\ entries[v] = [data |-> Page(v, 1), totalPages |-> PagesOf(v), pagesFetched |-> 1,
                           status |-> "partial"]
          /\ PagesOf(v) > 1 /\ fetch[v].answered \subseteq 2..PagesOf(v)
          /\ fetch[v].failed <= Cardinality(fetch[v].answered)
          /\ fetch[v].failed = 0 => fetch[v].data = UNION {Page(v, n) : n \in fetch[v].answered}
    /\ entries[v].status = "partial" =>
          fetch[v].step = "rest" \/ entries[v].pagesFetched < entries[v].totalPages
    /\ entries[v].status = "ready" => Complete(v)

\* The view on the screen is the provider's, and is idle only if its update was missed.
ShownIsActive ==
    activeKey = shown /\ (entries[shown].status = "idle" => shown \in missed)

CatalogInv == CatalogTypeOK /\ (\A v \in Views : FetchOf(v)) /\ ShownIsActive

LEMMA PageIsOfIds ==
    ASSUME NEW v, NEW n
    PROVE  Page(v, n) \subseteq Ids
BY DEF Page, OnPage, Listed, Ids

LEMMA CatalogInitially == CatalogInit => CatalogInv
<1> SUFFICES ASSUME CatalogInit
             PROVE  CatalogInv
  OBVIOUS
<1>1. shown \in Views /\ activeKey = shown
  BY CatalogAssumption DEF CatalogInit
<1>2. entries \in [Views -> Entry]
  BY DEF CatalogInit, Entry, EMPTY_ENTRY, CatalogStatus
<1>3. fetch \in [Views -> [step : {"none", "first", "rest"}, answered : SUBSET (2..Len(Stock)),
                           data : SUBSET Ids, failed : Nat]]
  BY DEF CatalogInit, NoFetch
<1>4. CatalogTypeOK
  BY <1>1, <1>2, <1>3 DEF CatalogInit, CatalogTypeOK, CatalogStatus
<1>5. ASSUME NEW v \in Views
      PROVE  \/ fetch[v].step = "first" /\ entries[v].status = "loading" /\ v = shown
             \/ fetch[v].step = "none" /\ entries[v].status = "idle" /\ v # shown
  <2>1. fetch[v] = IF v = shown THEN [NoFetch EXCEPT !.step = "first"] ELSE NoFetch
    BY DEF CatalogInit
  <2>2. entries[v] = IF v = shown THEN [EMPTY_ENTRY EXCEPT !.status = "loading"] ELSE EMPTY_ENTRY
    BY DEF CatalogInit
  <2>3. CASE v = shown
    <3>1. fetch[v].step = "first"
      BY <2>1, <2>3 DEF NoFetch
    <3>2. entries[v].status = "loading"
      BY <2>2, <2>3 DEF EMPTY_ENTRY
    <3> QED BY <2>3, <3>1, <3>2
  <2>4. CASE v # shown
    <3>1. fetch[v].step = "none"
      BY <2>1, <2>4 DEF NoFetch
    <3>2. entries[v].status = "idle"
      BY <2>2, <2>4 DEF EMPTY_ENTRY
    <3> QED BY <2>4, <3>1, <3>2
  <2> QED BY <2>3, <2>4
<1>6. \A v \in Views : FetchOf(v)
  BY <1>5 DEF FetchOf
<1>7. ShownIsActive
  BY <1>1, <1>5 DEF ShownIsActive
<1> QED BY <1>4, <1>6, <1>7 DEF CatalogInv

\* A view whose entry and fetch stay keeps what they say of each other.
LEMMA ViewStays ==
    ASSUME NEW v \in Views, FetchOf(v), entries'[v] = entries[v], fetch'[v] = fetch[v]
    PROVE  FetchOf(v)'
BY DEF FetchOf, Complete

LEMMA ShowKeeps ==
    ASSUME CatalogInv, NEW v \in Views, Show(v)
    PROVE  CatalogInv'
<1> USE DEF CatalogInv
<1>1. /\ shown' = v /\ activeKey' = v /\ UNCHANGED <<entriesRef, lostPages>>
      /\ missed' = IF entriesRef[v] \in {"idle", "error"} \/ entries[v].status # "idle"
                   THEN missed \ {v} ELSE missed \cup {v}
  BY DEF Show, EnsureLoaded
<1>2. CASE entriesRef[v] \in {"idle", "error"} /\ fetch[v].step = "none"
  <2>1. /\ fetch' = [fetch EXCEPT ![v] = [NoFetch EXCEPT !.step = "first"]]
        /\ entries' = [entries EXCEPT ![v].status = "loading"]
    BY <1>2 DEF Show, EnsureLoaded
  <2>2. entries[v] \in Entry
    BY DEF CatalogTypeOK
  <2>3. /\ entries'[v].status = "loading" /\ fetch'[v].step = "first"
        /\ entries' \in [Views -> Entry]
    BY <2>1, <2>2 DEF CatalogTypeOK, Entry, CatalogStatus, NoFetch
  <2>4. CatalogTypeOK'
    BY <1>1, <2>1, <2>3 DEF CatalogTypeOK, NoFetch
  <2>5. FetchOf(v)'
    BY <2>3 DEF FetchOf
  <2>6. \A u \in Views \ {v} : entries'[u] = entries[u] /\ fetch'[u] = fetch[u]
    BY <2>1 DEF CatalogTypeOK
  <2>7. ShownIsActive'
    BY <1>1, <2>3 DEF ShownIsActive
  <2> QED BY <2>4, <2>5, <2>6, <2>7, ViewStays
<1>3. CASE ~(entriesRef[v] \in {"idle", "error"} /\ fetch[v].step = "none")
  <2>1. UNCHANGED <<fetch, entries>>
    BY <1>3 DEF Show, EnsureLoaded
  <2>2. entries[v].status = "idle" => v \in missed'
    <3> SUFFICES ASSUME entries[v].status = "idle"
                 PROVE  v \in missed'
      OBVIOUS
    <3>1. fetch[v].step = "none"
      BY DEF FetchOf, CatalogTypeOK
    <3> QED BY <1>1, <1>3, <3>1
  <2>3. CatalogTypeOK'
    BY <1>1, <2>1 DEF CatalogTypeOK
  <2>4. ShownIsActive'
    BY <1>1, <2>1, <2>2 DEF ShownIsActive
  <2> QED BY <2>1, <2>3, <2>4, ViewStays
<1> QED BY <1>2, <1>3

\* What an answer that touches one view has to keep.
LEMMA AnswerKeeps ==
    ASSUME CatalogInv, NEW v \in Views, NEW entry \in Entry, NEW f,
           f \in [step : {"none", "first", "rest"}, answered : SUBSET (2..Len(Stock)),
                  data : SUBSET Ids, failed : Nat],
           entries' = [entries EXCEPT ![v] = entry], fetch' = [fetch EXCEPT ![v] = f],
           UNCHANGED <<entriesRef, activeKey, shown, missed>>, lostPages' \in Nat,
           activeKey = v => entry.status # "idle",
           FetchOf(v)'
    PROVE  CatalogInv'
<1> USE DEF CatalogInv
<1>1. entries'[v] = entry /\ \A u \in Views \ {v} : entries'[u] = entries[u] /\ fetch'[u] = fetch[u]
  BY DEF CatalogTypeOK
<1>2. CatalogTypeOK'
  BY DEF CatalogTypeOK
<1>3. ShownIsActive'
  BY <1>1 DEF ShownIsActive, CatalogTypeOK
<1>4. \A u \in Views : FetchOf(u)'
  BY <1>1, ViewStays
<1> QED BY <1>2, <1>3, <1>4

LEMMA FirstPageKeeps ==
    ASSUME CatalogInv, NEW v \in Views, FirstPage(v)
    PROVE  CatalogInv'
<1> USE DEF CatalogInv
<1> DEFINE total == IF PagesOf(v) = 0 THEN 1 ELSE PagesOf(v)
           fresh == [data |-> Page(v, 1), totalPages |-> total, pagesFetched |-> 1,
                     status |-> IF total > 1 THEN "partial" ELSE "ready"]
           rest == IF total > 1 THEN [NoFetch EXCEPT !.step = "rest"] ELSE NoFetch
<1>0. PagesOf(v) \in Nat /\ Page(v, 1) \subseteq Ids /\ lostPages \in Nat
  BY PagesHoldAll, PageIsOfIds DEF CatalogTypeOK
<1>1. CASE activeKey # v
  <2>1. entries' = [entries EXCEPT ![v] = EMPTY_ENTRY] /\ fetch' = [fetch EXCEPT ![v] = NoFetch]
    BY <1>1 DEF FirstPage, AbandonEntry
  <2>2. FetchOf(v)'
    <3>1. entries'[v].status = "idle" /\ fetch'[v].step = "none"
      BY <2>1 DEF CatalogTypeOK, EMPTY_ENTRY, NoFetch
    <3> QED BY <3>1 DEF FetchOf
  <2>3. EMPTY_ENTRY \in Entry
    BY DEF EMPTY_ENTRY, Entry, CatalogStatus
  <2>4. NoFetch \in [step : {"none", "first", "rest"}, answered : SUBSET (2..Len(Stock)),
                     data : SUBSET Ids, failed : Nat]
    BY DEF NoFetch
  <2>5. UNCHANGED <<entriesRef, activeKey, shown, missed, lostPages>>
    BY DEF FirstPage
  <2> QED BY <1>0, <1>1, <2>1, <2>2, <2>3, <2>4, <2>5, AnswerKeeps
<1>2. CASE activeKey = v
  <2>1. entries' = [entries EXCEPT ![v] = fresh] /\ fetch' = [fetch EXCEPT ![v] = rest]
    BY <1>2 DEF FirstPage
  <2>2. fresh \in Entry /\ fresh.status # "idle"
    BY <1>0 DEF Entry, CatalogStatus
  <2>3. rest \in [step : {"none", "first", "rest"}, answered : SUBSET (2..Len(Stock)),
                  data : SUBSET Ids, failed : Nat]
    BY DEF NoFetch
  <2>4. entries'[v] = fresh /\ fetch'[v] = rest
    BY <2>1 DEF CatalogTypeOK
  <2>5. CASE total > 1
    <3>1. /\ entries'[v] = [data |-> Page(v, 1), totalPages |-> PagesOf(v), pagesFetched |-> 1,
                            status |-> "partial"]
          /\ fetch'[v] = [NoFetch EXCEPT !.step = "rest"] /\ PagesOf(v) > 1
      BY <1>0, <2>4, <2>5
    <3>2. /\ fetch'[v].step = "rest" /\ fetch'[v].answered = {} /\ fetch'[v].data = {}
         /\ fetch'[v].failed = 0
      BY <3>1 DEF NoFetch
    <3>3. FetchOf(v)'
      <4>1. Cardinality({}) = 0
        BY FS_EmptySet
      <4>2. Cardinality(fetch'[v].answered) = 0
        BY <3>2, <4>1
      <4> QED BY <3>1, <3>2, <4>2 DEF FetchOf
    <3> HIDE DEF fresh, rest
    <3>4. UNCHANGED <<entriesRef, activeKey, shown, missed, lostPages>>
      BY DEF FirstPage
    <3> QED BY <1>0, <2>1, <2>2, <2>3, <3>3, <3>4, AnswerKeeps
  <2>6. CASE ~(total > 1)
    <3>1. total = 1 /\ PagesOf(v) \in 0..1
      BY <1>0, <2>6
    <3>2. entries'[v] = [data |-> Page(v, 1), totalPages |-> 1, pagesFetched |-> 1, status |-> "ready"]
          /\ fetch'[v].step = "none"
      BY <2>4, <3>1 DEF NoFetch
    <3>3. Page(v, 1) = {Stock[m].id : m \in Listed(v)}
      <4>1. \A n \in 1..PagesOf(v) : n = 1
        BY <3>1
      <4>2. {Stock[m].id : m \in Listed(v)} \subseteq Page(v, 1)
        BY <4>1, PagesHoldAll
      <4> QED BY <4>2 DEF Page, OnPage
    <3>4. FetchOf(v)'
      BY <3>2, <3>3 DEF FetchOf, Complete
    <3> HIDE DEF fresh, rest
    <3>5. UNCHANGED <<entriesRef, activeKey, shown, missed, lostPages>>
      BY DEF FirstPage
    <3> QED BY <1>0, <2>1, <2>2, <2>3, <3>4, <3>5, AnswerKeeps
  <2> QED BY <2>5, <2>6
<1> QED BY <1>1, <1>2

LEMMA FirstPageFailsKeeps ==
    ASSUME CatalogInv, NEW v \in Views, FirstPageFails(v)
    PROVE  CatalogInv'
<1> USE DEF CatalogInv
<1>1. lostPages' \in Nat /\ UNCHANGED <<entriesRef, activeKey, shown, missed>>
  BY DEF FirstPageFails, CatalogTypeOK
<1>2. PICK entry \in Entry : /\ entries' = [entries EXCEPT ![v] = entry] /\ entry.status \in {"idle", "error"}
                             /\ activeKey = v => entry.status = "error"
  <2>1. CASE activeKey # v
    BY <2>1 DEF FirstPageFails, AbandonEntry, EMPTY_ENTRY, Entry, CatalogStatus
  <2>2. CASE activeKey = v
    <3>1. entries[v] \in Entry /\ entries' = [entries EXCEPT ![v] = [entries[v] EXCEPT !.status = "error"]]
      BY <2>2 DEF FirstPageFails, CatalogTypeOK
    <3>2. [entries[v] EXCEPT !.status = "error"] \in Entry /\ [entries[v] EXCEPT !.status = "error"].status = "error"
      BY <3>1 DEF Entry, CatalogStatus
    <3> QED BY <3>1, <3>2
  <2> QED BY <2>1, <2>2
<1>3. fetch' = [fetch EXCEPT ![v] = NoFetch]
  BY DEF FirstPageFails
<1>4. FetchOf(v)'
  <2>1. entries'[v].status \in {"idle", "error"} /\ fetch'[v].step = "none"
    BY <1>2, <1>3 DEF CatalogTypeOK, NoFetch
  <2> QED BY <2>1 DEF FetchOf
<1>5. NoFetch \in [step : {"none", "first", "rest"}, answered : SUBSET (2..Len(Stock)),
                   data : SUBSET Ids, failed : Nat]
  BY DEF NoFetch
<1> QED BY <1>1, <1>2, <1>3, <1>4, <1>5, AnswerKeeps

LEMMA LaterPageKeeps ==
    ASSUME CatalogInv, NEW v \in Views, NEW n \in 2..entries[v].totalPages, NEW ok \in BOOLEAN,
           LaterPage(v, n, ok)
    PROVE  CatalogInv'
<1> USE DEF CatalogInv
<1> DEFINE Fetching == [step : {"none", "first", "rest"}, answered : SUBSET (2..Len(Stock)),
                        data : SUBSET Ids, failed : Nat]
<1>0. fetch[v] \in Fetching /\ entries[v] \in Entry
  BY DEF CatalogTypeOK
<1>1. PICK f \in Fetching : f = fetch[v]
  BY <1>0
<1>2. PICK done : done = [f EXCEPT !.answered = @ \cup {n}, !.data = IF ok THEN @ \cup Page(v, n) ELSE @,
                                   !.failed = IF ok THEN @ ELSE @ + 1]
  OBVIOUS
<1>3. PICK total \in Nat : total = PagesOf(v)
  BY PagesHoldAll
<1>4. /\ f.step = "rest"
      /\ entries[v] = [data |-> Page(v, 1), totalPages |-> total, pagesFetched |-> 1, status |-> "partial"]
      /\ total > 1 /\ f.answered \subseteq 2..total
      /\ f.failed = 0 => f.data = UNION {Page(v, k) : k \in f.answered}
      /\ n \notin f.answered /\ f.failed <= Cardinality(f.answered)
  BY <1>1, <1>3 DEF LaterPage, FetchOf
<1>5. n \in 2..total /\ total <= Len(Stock)
  BY <1>3, <1>4, PagesAreFew
<1>6. /\ done \in Fetching /\ done.step = "rest" /\ done.answered = f.answered \cup {n}
      /\ done.data = IF ok THEN f.data \cup Page(v, n) ELSE f.data
      /\ done.failed = IF ok THEN f.failed ELSE f.failed + 1
  <2>1. Page(v, n) \subseteq Ids /\ n \in 2..Len(Stock)
    BY <1>5, PageIsOfIds, StockIsASequence
  <2>2. PICK a : a = f.answered \cup {n}
    OBVIOUS
  <2>3. PICK d : d = IF ok THEN f.data \cup Page(v, n) ELSE f.data
    OBVIOUS
  <2>4. PICK x : x = IF ok THEN f.failed ELSE f.failed + 1
    OBVIOUS
  <2>5. done = [f EXCEPT !.answered = a, !.data = d, !.failed = x]
    BY <1>2, <2>2, <2>3, <2>4
  <2>6. a \in SUBSET (2..Len(Stock)) /\ d \in SUBSET Ids /\ x \in Nat
    BY <1>1, <2>1, <2>2, <2>3, <2>4
  <2>7. /\ done \in Fetching /\ done.step = f.step
        /\ done.answered = a /\ done.data = d /\ done.failed = x
    BY <1>1, <2>5, <2>6
  <2> QED BY <1>4, <2>2, <2>3, <2>4, <2>7
<1>7. done.failed = 0 => done.data = UNION {Page(v, k) : k \in done.answered}
  <2> SUFFICES ASSUME done.failed = 0
               PROVE  done.data = UNION {Page(v, k) : k \in done.answered}
    OBVIOUS
  <2>1. ok /\ f.failed = 0
    BY <1>1, <1>6
  <2> QED BY <1>4, <1>6, <2>1
<1>11. done.failed <= Cardinality(done.answered) /\ Cardinality(done.answered) \in Nat
  <2>1. IsFiniteSet(2..total)
    BY FS_Interval
  <2>2. IsFiniteSet(f.answered)
    BY <1>4, <2>1, FS_Subset
  <2>3. Cardinality(f.answered) \in Nat /\ Cardinality(done.answered) = Cardinality(f.answered) + 1
    BY <1>4, <1>6, <2>2, FS_AddElement, FS_CardinalityType
  <2> QED BY <1>1, <1>4, <1>6, <2>3
<1>8. lostPages' \in Nat /\ UNCHANGED <<entriesRef, activeKey, shown, missed>>
  <2>1. lostPages' = IF ok THEN lostPages ELSE lostPages + 1
    BY DEF LaterPage
  <2> QED BY <2>1 DEF LaterPage, CatalogTypeOK
<1>9. CASE done.answered # 2..total
  <2>1. fetch' = [fetch EXCEPT ![v] = done] /\ UNCHANGED entries
    BY <1>1, <1>2, <1>4, <1>9 DEF LaterPage
  <2>2. entries' = [entries EXCEPT ![v] = entries[v]] /\ entries[v].status # "idle"
    BY <1>4, <2>1 DEF CatalogTypeOK
  <2>3. fetch'[v] = done /\ entries'[v] = entries[v]
    BY <2>1 DEF CatalogTypeOK
  <2>4. FetchOf(v)'
    <3>1. done.answered \subseteq 2..total
      BY <1>4, <1>5, <1>6
    <3>2. entries'[v].status = "partial"
      BY <1>4, <2>3
    <3> QED BY <1>3, <1>4, <1>6, <1>7, <1>11, <2>3, <3>1, <3>2 DEF FetchOf
  <2> QED BY <1>0, <1>6, <1>8, <2>1, <2>2, <2>4, AnswerKeeps
<1>10. CASE done.answered = 2..total
  <2>1. /\ fetch' = [fetch EXCEPT ![v] = NoFetch]
        /\ entries' = IF activeKey # v THEN entries ELSE [entries EXCEPT ![v] = Merged(@, done)]
    BY <1>1, <1>2, <1>4, <1>10 DEF LaterPage
  <2>2. NoFetch \in Fetching /\ fetch'[v].step = "none"
    BY <2>1 DEF CatalogTypeOK, NoFetch
  <2>3. CASE activeKey # v
    <3>1. entries' = [entries EXCEPT ![v] = entries[v]] /\ entries'[v] = entries[v]
      BY <2>1, <2>3 DEF CatalogTypeOK
    <3>2. FetchOf(v)'
      BY <1>4, <2>2, <3>1 DEF FetchOf
    <3> QED BY <1>0, <1>8, <2>1, <2>2, <2>3, <3>1, <3>2, AnswerKeeps
  <2>4. CASE activeKey = v
    <3>1. PICK entry : entry = Merged(entries[v], done)
      OBVIOUS
    <3>2. Cardinality(done.answered) = total - 1
      <4>1. Cardinality(2..total) = IF 2 > total THEN 0 ELSE total - 2 + 1
        BY FS_Interval
      <4> QED BY <1>4, <1>10, <4>1
    <3>3. entry = [data |-> Page(v, 1) \cup done.data, totalPages |-> total,
                   pagesFetched |-> 1 + (total - 1) - done.failed,
                   status |-> IF done.failed = 0 THEN "ready" ELSE "partial"]
      <4>1. PICK e : e = [data |-> Page(v, 1), totalPages |-> total, pagesFetched |-> 1,
                          status |-> "partial"]
        OBVIOUS
      <4>2. entry = [e EXCEPT !.data = e.data \cup done.data,
                              !.pagesFetched = e.pagesFetched + (total - 1) - done.failed,
                              !.status = IF done.failed = 0 THEN "ready" ELSE "partial"]
        BY <1>4, <3>1, <3>2, <4>1 DEF Merged
      <4>3. PICK k : k = 1 + (total - 1) - done.failed
        OBVIOUS
      <4>4. PICK s : s = IF done.failed = 0 THEN "ready" ELSE "partial"
        OBVIOUS
      <4>5. entry = [e EXCEPT !.data = Page(v, 1) \cup done.data, !.pagesFetched = k, !.status = s]
        BY <4>1, <4>2, <4>3, <4>4
      <4> QED BY <4>1, <4>3, <4>4, <4>5
    <3>4. done.failed = 0 =>
             Page(v, 1) \cup done.data = {Stock[m].id : m \in Listed(v)}
      <4>1. 1..total = {1} \cup 2..total
        BY <1>4
      <4>2. {Stock[m].id : m \in Listed(v)} = UNION {Page(v, k) : k \in 1..total}
        BY <1>3, PagesHoldAll
      <4> QED BY <1>7, <1>10, <4>1, <4>2
    <3>5. entries' = [entries EXCEPT ![v] = entry] /\ entries'[v] = entry
      BY <2>1, <2>4, <3>1 DEF CatalogTypeOK
    <3>6. FetchOf(v)'
      <4>1. CASE done.failed = 0
        <5>1. entries'[v].status = "ready" /\ entries'[v].pagesFetched = entries'[v].totalPages
              /\ entries'[v].data = Page(v, 1) \cup done.data
          BY <3>3, <3>5, <4>1
        <5> QED BY <2>2, <3>4, <4>1, <5>1 DEF FetchOf, Complete
      <4>2. CASE done.failed # 0
        <5>1. entries'[v].status = "partial" /\ entries'[v].pagesFetched < entries'[v].totalPages
          BY <1>6, <3>3, <3>5, <4>2
        <5> QED BY <2>2, <5>1 DEF FetchOf
      <4> QED BY <4>1, <4>2
    <3>7. entry \in Entry /\ entry.status # "idle"
      <4>1. 1 + (total - 1) - done.failed \in Nat
        BY <1>4, <1>6, <1>11, <3>2
      <4> QED BY <1>4, <1>6, <3>3, <4>1, PageIsOfIds DEF Entry, CatalogStatus
    <3> QED BY <1>8, <2>1, <2>2, <3>5, <3>6, <3>7, AnswerKeeps
  <2> QED BY <2>3, <2>4
<1> QED BY <1>9, <1>10

LEMMA CatalogInductive == CatalogInv /\ [CatalogNext]_catalogVars => CatalogInv'
<1> SUFFICES ASSUME CatalogInv, [CatalogNext]_catalogVars
             PROVE  CatalogInv'
  OBVIOUS
<1>1. CASE CommitEntries
  <2>1. UNCHANGED <<entries, fetch, activeKey, shown, missed, lostPages>>
    BY <1>1 DEF CommitEntries
  <2>2. entriesRef' \in [Views -> CatalogStatus]
    BY <1>1 DEF CommitEntries, CatalogInv, CatalogTypeOK, Entry
  <2> QED BY <2>1, <2>2 DEF CatalogInv, CatalogTypeOK, FetchOf, Complete, ShownIsActive
<1>2. CASE UNCHANGED catalogVars
  BY <1>2 DEF catalogVars, CatalogInv, CatalogTypeOK, FetchOf, Complete, ShownIsActive
<1> QED BY <1>1, <1>2, ShowKeeps, FirstPageKeeps, FirstPageFailsKeeps, LaterPageKeeps DEF CatalogNext

\* With any number of views, products and pages, no view waits for an answer nobody will bring,
\* and the one on the screen is idle only if its update was missed (ensureLoaded, fetchAll).
THEOREM ViewsNeverStick == CatalogSpec => []NeverStuck
<1>1. CatalogInv => NeverStuck
  <2> SUFFICES ASSUME CatalogInv
               PROVE  NeverStuck
    OBVIOUS
  <2>1. ASSUME NEW v \in Views
        PROVE  /\ entries[v].status = "loading" => fetch[v].step = "first"
               /\ entries[v].status = "partial" => \/ fetch[v].step = "rest"
                                                   \/ entries[v].pagesFetched < entries[v].totalPages
               /\ entries[v].status \notin {"loading", "partial"} => fetch[v].step = "none"
    BY DEF CatalogInv, FetchOf, CatalogTypeOK
  <2>2. entries[shown].status = "idle" => shown \in missed
    BY DEF CatalogInv, ShownIsActive
  <2> QED BY <2>1, <2>2 DEF NeverStuck
<1> QED BY <1>1, CatalogInitially, CatalogInductive, PTL DEF CatalogSpec

\* A view that says it is ready shows all of what listProducts finds for it, for every page
\* size, and whatever order its pages and those of other views came in (fetchAll, paginate).
THEOREM ReadyShowsAll == CatalogSpec => []ReadyIsComplete
<1>1. CatalogInv => ReadyIsComplete
  BY DEF CatalogInv, FetchOf, Complete, ReadyIsComplete
<1> QED BY <1>1, CatalogInitially, CatalogInductive, PTL DEF CatalogSpec

----------------------------------------------------------------------------
(* The scanner                                                             *)

\* The keys since the last pause longer than a scanner's begin with the n-th.
BurstFrom(n) == n \in DOMAIN typed /\ Burst(n) /\ (n > 1 => ~Burst(n - 1))

KeysFrom(n) == [m \in 1..(Len(typed) - n + 1) |-> typed[n + m - 1].key]

\* The buffer is that burst.
BufferIsBurst ==
    /\ typed \in Seq([key : Keys, gap : Int])
    /\ ~started => buffer = <<>> /\ typed = <<>>
    /\ started => \E n \in Nat : BurstFrom(n) /\ buffer = KeysFrom(n)

ScannerInv == ScannerTypeOK /\ BufferIsBurst

LEMMA EmptyBurst ==
    /\ \A S : <<>> \in Seq(S)
    /\ \A n \in DOMAIN <<>> : FALSE
    /\ 0 \in 0..Forgotten
<1>1. DOMAIN <<>> = 1..0
  OBVIOUS
<1>2. 0 \in 0..Forgotten
  BY ScannerAssumption DEF Forgotten
<1> QED BY <1>1, <1>2

LEMMA ScannerInitially == ScannerInit => ScannerInv
<1> SUFFICES ASSUME ScannerInit
             PROVE  ScannerInv
  OBVIOUS
<1>1. ScannerTypeOK
  BY EmptyBurst DEF ScannerInit, ScannerTypeOK, NoScan
<1>2. BufferIsBurst
  BY EmptyBurst DEF ScannerInit, BufferIsBurst
<1> QED BY <1>1, <1>2 DEF ScannerInv

LEMMA ResetKeeps ==
    ASSUME Reset, scan' \in Seq(Keys)
    PROVE  ScannerInv'
<1>1. ScannerTypeOK'
  BY EmptyBurst DEF Reset, ScannerTypeOK
<1>2. BufferIsBurst'
  BY EmptyBurst DEF Reset, BufferIsBurst
<1> QED BY <1>1, <1>2 DEF ScannerInv

LEMMA AppendElements ==
    ASSUME NEW S, NEW seq \in Seq(S), NEW elt \in S, NEW f, NEW n \in Nat,
           Len(seq) = n, f \in [1..(n + 1) -> S],
           \A m \in 1..n : f[m] = seq[m], f[n + 1] = elt
    PROVE  Append(seq, elt) = f
<1>1. /\ Append(seq, elt) \in Seq(S) /\ Len(Append(seq, elt)) = n + 1
      /\ \A m \in 1..n : Append(seq, elt)[m] = seq[m]
      /\ Append(seq, elt)[n + 1] = elt
  OBVIOUS
<1>2. PICK g : g = Append(seq, elt)
  OBVIOUS
<1>3. g \in [1..(n + 1) -> S]
  <2>1. g \in [1..Len(g) -> S]
    BY <1>1, <1>2, LenProperties
  <2> QED BY <1>1, <1>2, <2>1
<1>4. \A m \in 1..(n + 1) : m \in 1..n \/ m = n + 1
  OBVIOUS
<1>5. \A m \in 1..(n + 1) : g[m] = f[m]
  BY <1>1, <1>2, <1>4
<1> QED BY <1>2, <1>3, <1>5

LEMMA PrintableKeeps ==
    ASSUME ScannerInv, NEW key \in Keys, Printable(key)
    PROVE  ScannerInv'
<1> USE ScannerAssumption DEF ScannerInv
<1>l. PICK len, gap : len = Len(typed) /\ gap = IF started THEN sinceLast ELSE 0
  OBVIOUS
<1>1. /\ buffer' = Fed(key) /\ started' = TRUE /\ sinceLast' = 0 /\ scan' = <<>>
      /\ typed' = Append(typed, [key |-> key, gap |-> gap])
  BY <1>l DEF Printable, NoScan
<1>2. typed \in Seq([key : Keys, gap : Int]) /\ len \in Nat /\ gap \in Int /\ gap \in 0..Forgotten
  BY <1>l DEF BufferIsBurst, ScannerTypeOK, Forgotten
<1>3. /\ typed' \in Seq([key : Keys, gap : Int]) /\ Len(typed') = len + 1
      /\ \A m \in 1..len : typed'[m] = typed[m]
      /\ typed'[len + 1] = [key |-> key, gap |-> gap]
  BY <1>l, <1>1, <1>2
<1>4. ScannerTypeOK'
  <2>1. buffer' \in Seq(Keys)
    BY <1>1 DEF Fed, ScannerTypeOK
  <2>2. sinceLast' \in 0..Forgotten
    BY <1>1 DEF Forgotten
  <2>3. ASSUME NEW n \in DOMAIN typed'
        PROVE  typed'[n].key \in Keys /\ typed'[n].gap \in 0..Forgotten
    <3>1. n \in 1..(len + 1)
      BY <1>3
    <3>2. CASE n \in 1..len
      <4>1. n \in DOMAIN typed /\ typed'[n] = typed[n]
        BY <1>l, <1>2, <1>3, <3>2
      <4> QED BY <4>1 DEF ScannerTypeOK
    <3>3. CASE n = len + 1
      BY <1>2, <1>3, <3>3
    <3> QED BY <1>2, <3>1, <3>2, <3>3
  <2> QED BY <1>1, <2>1, <2>2, <2>3 DEF ScannerTypeOK, Forgotten
\* The key goes on with the burst, or begins one.
<1>5. \E n \in Nat : BurstFrom(n)' /\ buffer' = KeysFrom(n)'
  <2>1. CASE ~started \/ sinceLast > maxIntervalMs
    <3>1. buffer' = <<key>> /\ (len = 0 \/ gap > maxIntervalMs)
      <4>1. CASE ~started
        <5>1. buffer = <<>> /\ typed = <<>>
          BY <4>1 DEF BufferIsBurst
        <5> QED BY <1>l, <1>1, <4>1, <5>1 DEF Fed
      <4>2. CASE started
        BY <1>l, <1>1, <2>1, <4>2 DEF Fed
      <4> QED BY <4>1, <4>2
    <3>2. Burst(len + 1)'
      BY <1>2, <1>3 DEF Burst
    <3>3. len + 1 > 1 => ~Burst((len + 1) - 1)'
      <4> SUFFICES ASSUME len + 1 > 1
                   PROVE  ~Burst(len)'
        BY <1>2
      <4>1. gap > maxIntervalMs /\ typed'[len + 1].gap = gap /\ len + 1 \in (len + 1)..Len(typed')
        BY <1>2, <1>3, <3>1
      <4> QED BY <1>2, <1>3, <4>1 DEF Burst, ScannerTypeOK
    <3>4. KeysFrom(len + 1)' = <<key>>
      <4>1. Len(typed') - (len + 1) + 1 = 1
        BY <1>2, <1>3
      <4>2. KeysFrom(len + 1)' = [m \in 1..1 |-> typed'[(len + 1) + m - 1].key]
        BY <4>1 DEF KeysFrom
      <4>3. \A m \in 1..1 : typed'[(len + 1) + m - 1].key = key
        BY <1>2, <1>3
      <4>4. KeysFrom(len + 1)' = [m \in 1..1 |-> key]
        BY <4>2, <4>3
      <4> QED BY <4>4
    <3>5. len + 1 \in DOMAIN typed' /\ len + 1 \in Nat
      BY <1>2, <1>3
    <3> QED BY <3>1, <3>2, <3>3, <3>4, <3>5 DEF BurstFrom
  <2>2. CASE started /\ ~(sinceLast > maxIntervalMs)
    <3>1. PICK n \in Nat : BurstFrom(n) /\ buffer = KeysFrom(n)
      BY <2>2 DEF BufferIsBurst
    <3>2. n \in 1..len /\ Burst(n) /\ (n > 1 => ~Burst(n - 1))
      BY <1>l, <1>2, <3>1 DEF BurstFrom
    <3>3. gap <= maxIntervalMs /\ buffer' = Append(buffer, key)
      BY <1>l, <1>1, <2>2 DEF Fed, ScannerTypeOK, Forgotten
    <3>4. Burst(n)'
      <4> SUFFICES ASSUME NEW m \in (n + 1)..Len(typed')
                   PROVE  typed'[m].gap <= maxIntervalMs
        BY DEF Burst
      <4>1. CASE m = len + 1
        BY <1>2, <1>3, <3>3, <4>1
      <4>2. CASE m # len + 1
        <5>1. m \in (n + 1)..len /\ m \in 1..len
          BY <1>2, <1>3, <3>2, <4>2
        <5> QED BY <1>l, <1>3, <3>2, <5>1 DEF Burst
      <4> QED BY <4>1, <4>2
    <3>5. n > 1 => ~Burst(n - 1)'
      <4> SUFFICES ASSUME n > 1
                   PROVE  ~Burst(n - 1)'
        OBVIOUS
      <4>1. PICK m \in ((n - 1) + 1)..len : ~(typed[m].gap <= maxIntervalMs)
        BY <1>l, <1>2, <3>2 DEF Burst
      <4>2. m \in 1..len /\ m \in ((n - 1) + 1)..Len(typed')
        BY <1>2, <1>3, <3>2, <4>1
      <4>3. ~(typed'[m].gap <= maxIntervalMs)
        BY <1>3, <4>1, <4>2
      <4> QED BY <4>2, <4>3 DEF Burst
    <3>6. buffer' = KeysFrom(n)'
      <4> DEFINE size == len - n + 1
      <4>1. size \in Nat /\ Len(typed') - n + 1 = size + 1
        BY <1>2, <1>3, <3>2
      <4>2. buffer = [m \in 1..size |-> typed[n + m - 1].key]
        BY <1>l, <3>1 DEF KeysFrom
      <4>3. KeysFrom(n)' = [m \in 1..(size + 1) |-> typed'[n + m - 1].key]
        BY <4>1 DEF KeysFrom
      <4>4. \A m \in 1..size : typed'[n + m - 1] = typed[n + m - 1]
        <5>1. \A m \in 1..size : n + m - 1 \in 1..len
          BY <1>2, <3>2
        <5> QED BY <1>3, <5>1
      <4>5. typed'[n + (size + 1) - 1].key = key
        <5>1. n + (size + 1) - 1 = len + 1
          BY <1>2, <3>2
        <5>2. typed'[len + 1].key = key
          BY <1>3
        <5> QED BY <5>1, <5>2
      <4> HIDE DEF size
      <4>6. buffer \in Seq(Keys) /\ Len(buffer) = size
        BY <4>1, <4>2 DEF ScannerTypeOK
      <4> DEFINE f == [m \in 1..(size + 1) |-> typed'[n + m - 1].key]
      <4>7. (\A m \in 1..size : f[m] = buffer[m]) /\ f[size + 1] = key
        <5>1. \A m \in 1..size : m \in 1..(size + 1)
          BY <4>1
        <5>2. size + 1 \in 1..(size + 1)
          BY <4>1
        <5> QED BY <4>2, <4>4, <4>5, <5>1, <5>2
      <4>8. f \in [1..(size + 1) -> Keys]
        <5>1. ASSUME NEW m \in 1..(size + 1)
              PROVE  f[m] \in Keys
          <6>1. m \in 1..size \/ m = size + 1
            BY <4>1
          <6>2. CASE m \in 1..size
            <7>1. buffer[m] \in Keys
              BY <4>6, <6>2
            <7> QED BY <4>7, <6>2, <7>1
          <6>3. CASE m = size + 1
            BY <4>7, <6>3
          <6> QED BY <6>1, <6>2, <6>3
        <5> QED BY <5>1
      <4>9. KeysFrom(n)' = f
        BY <4>3
      <4> HIDE DEF f
      <4>10. Append(buffer, key) = f
        BY <4>1, <4>6, <4>7, <4>8, AppendElements
      <4> QED BY <3>3, <4>9, <4>10
    <3>7. n \in DOMAIN typed'
      BY <1>2, <1>3, <3>2
    <3> QED BY <3>4, <3>5, <3>6, <3>7 DEF BurstFrom
  <2> QED BY <2>1, <2>2
<1> QED BY <1>1, <1>3, <1>4, <1>5 DEF BufferIsBurst

LEMMA ScannerInductive == ScannerInv /\ [ScannerNext]_scannerVars => ScannerInv'
<1> SUFFICES ASSUME ScannerInv, [ScannerNext]_scannerVars
             PROVE  ScannerInv'
  OBVIOUS
<1>1. ASSUME UNCHANGED <<buffer, started, typed>>, sinceLast' \in 0..Forgotten, scan' \in Seq(Keys)
      PROVE  ScannerInv'
  BY <1>1 DEF ScannerInv, ScannerTypeOK, BufferIsBurst, BurstFrom, KeysFrom, Burst
<1>2. NoScan \in Seq(Keys) /\ buffer \in Seq(Keys) /\ scan \in Seq(Keys) /\ sinceLast \in 0..Forgotten
  BY DEF NoScan, ScannerInv, ScannerTypeOK
<1>3. CASE Passes
  BY <1>1, <1>2, <1>3, ScannerAssumption DEF Passes, Forgotten
<1>4. CASE Modifier
  BY <1>1, <1>2, <1>4 DEF Modifier
<1>5. CASE Other
  BY <1>2, <1>5, ResetKeeps DEF Other
<1>6. CASE Terminator
  BY <1>2, <1>6, ResetKeeps DEF Terminator
<1>7. CASE UNCHANGED scannerVars
  BY <1>1, <1>2, <1>7 DEF scannerVars
<1> QED BY <1>3, <1>4, <1>5, <1>6, <1>7, PrintableKeeps DEF ScannerNext

\* A keystroke scans a whole burst, ended in time, or nothing - with any keys, limits and
\* pauses (the keydown listener of useBarcodeScanner).
THEOREM WholeBurstsOnly == ScannerSpec => ScansWholeBursts
<1> DEFINE Scans == scan' # NoScan =>
        \E n \in DOMAIN typed :
            /\ Burst(n) /\ (n > 1 => ~Burst(n - 1))
            /\ Len(typed) - n + 1 >= minLength /\ sinceLast <= 4 * maxIntervalMs
            /\ scan' = [m \in 1..(Len(typed) - n + 1) |-> typed[n + m - 1].key]
<1>1. ScannerInv /\ [ScannerNext]_scannerVars => [Scans]_scannerVars
  <2> SUFFICES ASSUME ScannerInv, ScannerNext, scan' # NoScan
               PROVE  \E n \in DOMAIN typed :
            /\ Burst(n) /\ (n > 1 => ~Burst(n - 1))
            /\ Len(typed) - n + 1 >= minLength /\ sinceLast <= 4 * maxIntervalMs
            /\ scan' = [m \in 1..(Len(typed) - n + 1) |-> typed[n + m - 1].key]
    OBVIOUS
  <2>1. Terminator
    BY DEF ScannerNext, Passes, Modifier, Other, Printable
  <2>2. /\ scan' = buffer /\ Len(buffer) >= minLength
        /\ ~started \/ sinceLast <= 4 * maxIntervalMs
    BY <2>1 DEF Terminator
  <2>3. started
    BY <2>2, ScannerAssumption DEF ScannerInv, BufferIsBurst
  <2>4. PICK n \in Nat : BurstFrom(n) /\ buffer = KeysFrom(n)
    BY <2>3 DEF ScannerInv, BufferIsBurst
  <2>5. Len(typed) \in Nat /\ n \in 1..Len(typed)
    BY <2>4 DEF ScannerInv, BufferIsBurst, BurstFrom
  <2>6. Len(buffer) = Len(typed) - n + 1
    BY <2>4, <2>5 DEF KeysFrom
  <2> QED BY <2>2, <2>3, <2>4, <2>6 DEF BurstFrom, KeysFrom
<1> QED BY <1>1, ScannerInitially, ScannerInductive, PTL DEF ScannerSpec, ScansWholeBursts
=============================================================================
