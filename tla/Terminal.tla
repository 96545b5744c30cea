------------------------------- MODULE Terminal -------------------------------
(***************************************************************************)
(* A browser several people work at one after the other: the session and   *)
(* the business picked in localStorage, shared by its tabs; the branch each *)
(* tab has selected, in its sessionStorage and in ActiveBranchProvider; and *)
(* the catalogue the service worker caches by URL alone                    *)
(* (lib/auth-storage.ts, lib/catalog-cache.ts, context/                    *)
(* ActiveBranchContext.tsx, components/ActiveBranchSwitcher.tsx and        *)
(* BusinessPicker.tsx, pwa.config.ts of the point of sale).                *)
(*                                                                         *)
(* Every business has one branch, of its name.  The URL of the categories  *)
(* names no business, that of the products names a branch.                 *)
(*                                                                         *)
(* `answered' and the fields `late' are history: no guard reads them.       *)
(***************************************************************************)
EXTENDS Integers, FiniteSets

CONSTANTS
    Browsers,       \* browser tabs
    Staff,          \* who signs in
    Shops,          \* businesses
    Employer,       \* of each, or Anyone for a super admin
    Anyone,
    Managers,       \* those whose role has branches:manage
    Void,           \* no session, no branch, nothing cached
    MaxAsking       \* bound: catalogue requests at the network

ASSUME TerminalAssumption ==
    /\ Employer \in [Staff -> Shops \cup {Anyone}]
    /\ Managers \subseteq Staff /\ \A s \in Staff : Employer[s] = Anyone => s \in Managers
    /\ Anyone \notin Shops /\ Void \notin Shops \cup Staff \cup {Anyone}
    /\ "categories" \notin Shops /\ MaxAsking \in Nat

VARIABLES
    session,        \* whose it is
    selectedBusiness,
    signedIn,       \* each tab's AuthProvider: for whom it is authenticated
    storedBranch,   \* sessionStorage of each tab
    selectedBranch, \* of its provider
    catalogCache,   \* per URL, the business whose answer it has; late: got for an identity
                    \* that had ended
    purging,        \* a caches.delete is under way
    asking,         \* catalogue requests at the network, with who asks and for which
                    \* business; late: made before the identity last changed
    answered        \* history: what the cache just gave, and to whom

terminalVars == <<session, selectedBusiness, signedIn, storedBranch, selectedBranch,
                  catalogCache, purging, asking, answered>>

URLs == {"categories"} \cup Shops
Asking == [url : URLs, by : Staff, as : Shops, late : BOOLEAN]
Cached == [of : Shops, late : BOOLEAN] \cup {Void}

TerminalTypeOK ==
    /\ session \in Staff \cup {Void}
    /\ selectedBusiness \in Shops \cup {Void}
    /\ signedIn \in [Browsers -> Staff \cup {Void}]
    /\ storedBranch \in [Browsers -> Shops \cup {Void}]
    /\ selectedBranch \in [Browsers -> Shops \cup {Void}]
    /\ catalogCache \in [URLs -> Cached]
    /\ purging \in BOOLEAN
    /\ asking \subseteq Asking
    /\ answered \in [as : Shops, with : Cached \ {Void}] \cup {Void}

TerminalInit ==
    /\ session = Void /\ selectedBusiness = Void
    /\ signedIn = [w \in Browsers |-> Void]
    /\ storedBranch = [w \in Browsers |-> Void]
    /\ selectedBranch = [w \in Browsers |-> Void]
    /\ catalogCache = [u \in URLs |-> Void]
    /\ purging = FALSE /\ asking = {}
    /\ answered = Void

\* The business a request is answered for: the token's, or the one in x-business-id.
ActsFor == IF session = Void THEN Void
           ELSE IF Employer[session] = Anyone THEN selectedBusiness ELSE Employer[session]

----------------------------------------------------------------------------
(* Identity.                                                               *)

\* The requests under way are still answered for the identity that ends here.
IdentityEnds == asking' = {[a EXCEPT !.late = TRUE] : a \in asking}

\* clearCatalogCache, fire and forget.
clearCatalogCache == purging' = TRUE

\* login: setSession.  The provider mounts with what sessionStorage has.
TerminalSignIn(w, s) ==
    /\ signedIn[w] = Void
    /\ session' = s
    /\ signedIn' = [signedIn EXCEPT ![w] = s]
    /\ selectedBranch' = [selectedBranch EXCEPT ![w] = storedBranch[w]]
    /\ IF session \in {Void, s} THEN UNCHANGED <<asking, catalogCache>>
       ELSE /\ IdentityEnds
            /\ catalogCache' = [u \in URLs |-> IF catalogCache[u] = Void THEN Void
                                               ELSE [catalogCache[u] EXCEPT !.late = TRUE]]
    /\ answered' = Void
    /\ UNCHANGED <<selectedBusiness, storedBranch, purging>>

\* clearSession: logout, a 401 of hydrate, an authentication failure.
TerminalSignOut(w) ==
    /\ signedIn[w] # Void
    /\ clearCatalogCache
    /\ session' = Void /\ selectedBusiness' = Void
    /\ storedBranch' = [storedBranch EXCEPT ![w] = Void]
    /\ signedIn' = [signedIn EXCEPT ![w] = Void]
    /\ IdentityEnds
    /\ answered' = Void
    /\ UNCHANGED <<selectedBranch, catalogCache>>

\* Fault: the cache is left to the reload.
setSelectedBusinessIdOnly(b) == selectedBusiness' = b /\ UNCHANGED purging

setSelectedBusinessId(b) == clearCatalogCache /\ selectedBusiness' = b

MayPick(w) == signedIn[w] # Void /\ session # Void /\ Employer[session] = Anyone

Loads(w) ==
    /\ signedIn' = [signedIn EXCEPT ![w] = session]
    /\ selectedBranch' = [selectedBranch EXCEPT ![w] = storedBranch[w]]

\* BusinessPicker: the choice, and the page loads anew; or the first by itself.
TerminalPick(w, b) ==
    /\ MayPick(w)
    /\ setSelectedBusinessId(b)
    /\ Loads(w)
    /\ IdentityEnds
    /\ answered' = Void
    /\ UNCHANGED <<session, storedBranch, catalogCache>>

TerminalPickFirst(w, b) ==
    /\ MayPick(w) /\ selectedBusiness = Void
    /\ setSelectedBusinessId(b)
    /\ IdentityEnds
    /\ answered' = Void
    /\ UNCHANGED <<session, signedIn, storedBranch, selectedBranch, catalogCache>>

TerminalReload(w) ==
    /\ Loads(w)
    /\ answered' = Void
    /\ UNCHANGED <<session, selectedBusiness, storedBranch, catalogCache, purging, asking>>

\* ActiveBranchSwitcher: once the branches are there, another business's branch, or none,
\* gives way to the first.
SwitchBranch(w) ==
    /\ signedIn[w] # Void /\ ActsFor # Void
    /\ selectedBranch[w] # ActsFor
    /\ selectedBranch' = [selectedBranch EXCEPT ![w] = ActsFor]
    /\ storedBranch' = [storedBranch EXCEPT ![w] = ActsFor]
    /\ answered' = Void
    /\ UNCHANGED <<session, selectedBusiness, signedIn, catalogCache, purging, asking>>

----------------------------------------------------------------------------
(* The catalogue.                                                          *)

\* StaleWhileRevalidate: the cache answers at once, and the network is asked as well.
AskCatalog(w, u) ==
    /\ signedIn[w] # Void /\ ActsFor # Void
    /\ u \in {"categories", selectedBranch[w]}
    /\ Cardinality(asking) < MaxAsking
    /\ answered' = IF catalogCache[u] = Void THEN Void
                   ELSE [as |-> ActsFor, with |-> catalogCache[u]]
    /\ asking' = asking \cup {[url |-> u, by |-> session, as |-> ActsFor, late |-> FALSE]}
    /\ UNCHANGED <<session, selectedBusiness, signedIn, storedBranch, selectedBranch,
                   catalogCache, purging>>

\* canAccessBranch: a manager's request passes for any branch, another's for the branches
\* of the token.
MayReadBranch(a) == a.by \in Managers \/ a.url = a.as

\* Only an answer of status 200 is cached.  What is found is of the business asked for: a
\* manager who asks for the branch of another has an empty list (buildListFilter).
NetworkAnswers(a) ==
    /\ a \in asking
    /\ asking' = asking \ {a}
    /\ catalogCache' = IF a.url = "categories" \/ MayReadBranch(a)
                         THEN [catalogCache EXCEPT ![a.url] = [of |-> a.as, late |-> a.late]]
                         ELSE catalogCache
    /\ answered' = Void
    /\ UNCHANGED <<session, selectedBusiness, signedIn, storedBranch, selectedBranch,
                   purging>>

NetworkFails(a) ==
    /\ a \in asking
    /\ asking' = asking \ {a}
    /\ answered' = Void
    /\ UNCHANGED <<session, selectedBusiness, signedIn, storedBranch, selectedBranch,
                   catalogCache, purging>>

PurgeDone ==
    /\ purging
    /\ purging' = FALSE
    /\ catalogCache' = [u \in URLs |-> Void]
    /\ answered' = Void
    /\ UNCHANGED <<session, selectedBusiness, signedIn, storedBranch, selectedBranch,
                   asking>>

\* The deletion is rejected, which is swallowed, or there is no CacheStorage to ask: what
\* other identities were answered stays.
PurgeFails ==
    /\ purging
    /\ purging' = FALSE
    /\ catalogCache' = [u \in URLs |->
           IF catalogCache[u] = Void \/ catalogCache[u].of = ActsFor THEN catalogCache[u]
           ELSE [catalogCache[u] EXCEPT !.late = TRUE]]
    /\ answered' = Void
    /\ UNCHANGED <<session, selectedBusiness, signedIn, storedBranch, selectedBranch,
                   asking>>

----------------------------------------------------------------------------
TerminalNext ==
    \/ \E w \in Browsers :
         \/ \E s \in Staff : TerminalSignIn(w, s)
         \/ \E b \in Shops : TerminalPick(w, b) \/ TerminalPickFirst(w, b)
         \/ TerminalSignOut(w) \/ TerminalReload(w) \/ SwitchBranch(w)
         \/ \E u \in URLs : AskCatalog(w, u)
    \/ \E a \in asking : NetworkAnswers(a) \/ NetworkFails(a)
    \/ PurgeDone \/ PurgeFails

TerminalSpec == TerminalInit /\ [][TerminalNext]_terminalVars

----------------------------------------------------------------------------
(* Properties                                                              *)

\* The cached catalogue a person is given was answered to the business he acts for, however
\* people, businesses and tabs follow each other at the terminal; unless the deletion is
\* still under way or has failed, or it was asked for before the identity changed and
\* answered after, or the identity changed by a login over another tab's session, which
\* deletes nothing (clearCatalogCache in clearSession and setSelectedBusinessId).
CatalogOfOwnBusiness ==
    answered # Void /\ ~purging => answered.with.of = answered.as \/ answered.with.late
=============================================================================
