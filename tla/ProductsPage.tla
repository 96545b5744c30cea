---------------------------- MODULE ProductsPage ----------------------------
(***************************************************************************)
(* The list of products of the administration                              *)
(* (pages/ProductsListPage.tsx): the page it fetched, the stars of the     *)
(* featured products, the events of the branch's channel, the reorder mode *)
(* and the deletion of a row.                                              *)
(*                                                                         *)
(* The products are known by the changes that have reached them; what the  *)
(* page shows, by the changes its last answer held.  One product has a     *)
(* star. The server takes a request at some moment between its sending and *)
(* its answer, and publishes an event after each change; API Gateway may   *)
(* deliver the events of two requests in either order, and none while the  *)
(* socket is down.  An effect that React runs again cancels the request of *)
(* the last.                                                               *)
(*                                                                         *)
(* `starApplied', `behind' and `crossed' are history: no guard reads them. *)
(***************************************************************************)
EXTENDS Integers

CONSTANTS Changes,       \* the changes that come to the branch's products
          MaxStarWrites, \* bound: changes of the star
          MaxDrops       \* bound: times the socket goes down, and requests that fail

ASSUME ProductsPageAssumption == MaxStarWrites \in Nat /\ MaxDrops \in Nat

VARIABLES
    menu,         \* the changes the products have had
    news,         \* product events on their way to the page
    pageState,    \* FetchState: its status, and the changes it shows
    listing,      \* listProducts: "none", "asked", or the changes in its answer
    reorder,      \* reorderMode: "off", "on", "saving" or "saved" (the answer is due)
    removal,      \* handleConfirmDelete: the change, how far it is, and its `state'
    socket,       \* wsStatus
    dbStar, star, \* the star in the database and on the page
    hydration,    \* listFeaturedProductIds: "none", "asked", or what it read
    toggle,       \* handleToggleFeatured: how far it is, and wasFeatured
    starNews,     \* product.featured events on their way: the write they tell of
    starWrites,   \* the values written to dbStar so far
    starApplied,  \* history: the latest write an event of which reached the page
    behind,       \* history: the page may lack a change until it fetches again
    crossed,      \* history: the star may be wrong until it is read again, or told
    drops

listVars == <<menu, news, pageState, listing, reorder, removal>>
starVars == <<dbStar, star, hydration, toggle, starNews, starWrites, starApplied>>
pageVars == <<listVars, socket, starVars, behind, crossed, drops>>

Unasked == [step |-> "none", shows |-> {}]
Asked   == [step |-> "asked", shows |-> {}]
Took(s) == [step |-> "read", shows |-> s]
NoRemoval == [step |-> "none", change |-> {}, captured |-> {}]
NoToggle  == [step |-> "none", was |-> FALSE]

ProductsPageTypeOK ==
    /\ menu \subseteq Changes /\ news \in Nat
    /\ pageState \in [status : {"loading", "success", "error"}, shows : SUBSET Changes]
    /\ listing \in [step : {"none", "asked", "read"}, shows : SUBSET Changes]
    /\ reorder \in {"off", "on", "saving", "saved"}
    /\ removal \in [step : {"none", "sent", "done"}, change : SUBSET Changes, captured : SUBSET Changes]
    /\ socket \in {"open", "down"}
    /\ dbStar \in BOOLEAN /\ star \in BOOLEAN
    /\ hydration \in {"none", "asked", "featured", "plain"}
    /\ toggle \in [step : {"none", "sent", "done"}, was : BOOLEAN]
    /\ starNews \subseteq 1..MaxStarWrites
    /\ starWrites \in Nat /\ starApplied \in Nat
    /\ behind \in BOOLEAN /\ crossed \in BOOLEAN /\ drops \in Nat

----------------------------------------------------------------------------
(* The server.                                                             *)

Publish == news' = IF socket = "open" THEN news + 1 ELSE news

\* A change that the page will not hear of.
Unheard == behind' = (behind \/ socket = "down")

PeerChanges(c) ==
    /\ c \notin menu
    /\ menu' = menu \cup {c}
    /\ Publish /\ Unheard
    /\ UNCHANGED <<pageState, listing, reorder, removal, socket, starVars, crossed, drops>>

\* setFeatured, of this page or of a peer, and its event when the flag changes.
WriteStar(v) ==
    /\ starWrites < MaxStarWrites
    /\ dbStar' = v
    /\ IF v = dbStar THEN UNCHANGED <<starWrites, starNews, crossed>>
       ELSE /\ starWrites' = starWrites + 1
            /\ starNews' = IF socket = "open" THEN starNews \cup {starWrites'} ELSE starNews
            /\ crossed' = (crossed \/ socket = "down")

PeerStars ==
    /\ WriteStar(~dbStar)
    /\ UNCHANGED <<listVars, socket, star, hydration, toggle, starApplied, behind, drops>>

ServerLists ==
    /\ listing.step = "asked"
    /\ listing' = Took(menu)
    /\ UNCHANGED <<menu, news, pageState, reorder, removal, socket, starVars, behind, crossed, drops>>

ServerListsFeatured ==
    /\ hydration = "asked"
    /\ hydration' = IF dbStar THEN "featured" ELSE "plain"
    /\ UNCHANGED <<listVars, socket, dbStar, star, toggle, starNews, starWrites, starApplied,
                   behind, crossed, drops>>

----------------------------------------------------------------------------
(* Fetching.                                                               *)

\* Fault: a request under way is kept.
FetchUnlessAsked ==
    /\ listing' = IF listing.step = "none" THEN Asked ELSE listing
    /\ pageState' = [status |-> "loading", shows |-> {}]
    /\ behind' = FALSE

\* The effect of the listing: what was asked before is cancelled.
Fetch ==
    /\ listing' = Asked
    /\ pageState' = [status |-> "loading", shows |-> {}]
    /\ behind' = FALSE

\* The effect of the stars, for a new reloadKey: they go out until the answer comes.
Hydrate ==
    /\ hydration' = "asked"
    /\ star' = FALSE
    /\ crossed' = (toggle.step # "none")
    /\ UNCHANGED <<dbStar, toggle, starWrites>>

Reload == Fetch /\ Hydrate /\ UNCHANGED <<starNews, starApplied>>

\* Another filter, search, page or page size; the category's stays open while reordering.
ChangeFilter ==
    /\ Fetch
    /\ UNCHANGED <<menu, news, reorder, removal, socket, starVars, crossed, drops>>

Retry ==
    /\ pageState.status = "error"
    /\ Reload
    /\ UNCHANGED <<menu, news, reorder, removal, socket, drops>>

ListAnswer ==
    /\ listing.step = "read"
    /\ pageState' = [status |-> "success", shows |-> listing.shows]
    /\ listing' = Unasked
    /\ UNCHANGED <<menu, news, reorder, removal, socket, starVars, behind, crossed, drops>>

ListFails ==
    /\ listing.step # "none"
    /\ drops < MaxDrops /\ drops' = drops + 1
    /\ pageState' = [status |-> "error", shows |-> {}]
    /\ listing' = Unasked
    /\ UNCHANGED <<menu, news, reorder, removal, socket, starVars, behind, crossed>>

HydrateAnswer ==
    /\ hydration \in {"featured", "plain"}
    /\ star' = (hydration = "featured")
    /\ hydration' = "none"
    /\ UNCHANGED <<listVars, socket, dbStar, toggle, starNews, starWrites, starApplied, behind,
                   crossed, drops>>

\* The error is swallowed: the star stays as it is, out unless something set it meanwhile.
HydrateFails ==
    /\ hydration # "none"
    /\ drops < MaxDrops /\ drops' = drops + 1
    /\ hydration' = "none"
    /\ crossed' = TRUE
    /\ UNCHANGED <<listVars, socket, dbStar, star, toggle, starNews, starWrites, starApplied, behind>>

----------------------------------------------------------------------------
(* The events of the branch's channel.                                     *)

SocketDown ==
    /\ socket = "open"
    /\ drops < MaxDrops /\ drops' = drops + 1
    /\ socket' = "down"
    /\ news' = 0 /\ starNews' = {}
    /\ behind' = (behind \/ news > 0) /\ crossed' = (crossed \/ starNews # {})
    /\ UNCHANGED <<menu, pageState, listing, reorder, removal, dbStar, star, hydration, toggle,
                   starWrites, starApplied>>

\* The page subscribes again, and fetches nothing.
SocketUp ==
    /\ socket = "down"
    /\ socket' = "open"
    /\ UNCHANGED <<listVars, starVars, behind, crossed, drops>>

\* product.created, updated, deleted or reordered.
ProductEvent ==
    /\ news > 0
    /\ news' = news - 1
    /\ IF reorder = "off" THEN Reload
       ELSE behind' = TRUE /\ UNCHANGED <<pageState, listing, starVars, crossed>>
    /\ UNCHANGED <<menu, reorder, removal, socket, drops>>

Hear(k) ==
    /\ starNews' = starNews \ {k}
    /\ starApplied' = IF k > starApplied THEN k ELSE starApplied

\* product.featured sets the star: rightly, when it tells of the last write and nothing
\* else is under way.
StarEvent(k) ==
    /\ Hear(k)
    /\ star' = (k % 2 = 1)
    /\ crossed' = \/ hydration # "none" \/ toggle.step # "none" \/ k < starApplied
                  \/ crossed /\ k # starWrites
    /\ UNCHANGED <<listVars, socket, dbStar, hydration, toggle, starWrites, behind, drops>>

\* With "only featured" on, and no reordering, everything is fetched again as well.
StarEventReloads(k) ==
    /\ reorder = "off"
    /\ Hear(k) /\ Fetch /\ Hydrate
    /\ UNCHANGED <<menu, news, reorder, removal, socket, drops>>

----------------------------------------------------------------------------
(* Reordering.                                                             *)

StartReorder ==
    /\ reorder = "off" /\ pageState.status = "success" /\ removal.step = "none"
    /\ reorder' = "on"
    /\ UNCHANGED <<menu, news, pageState, listing, removal, socket, starVars, behind, crossed, drops>>

CancelReorder ==
    /\ reorder = "on"
    /\ reorder' = "off"
    /\ UNCHANGED <<menu, news, pageState, listing, removal, socket, starVars, behind, crossed, drops>>

\* reorderProducts, which the server carries out ...
SaveReorder(c) ==
    /\ reorder = "on"
    /\ c \notin menu
    /\ menu' = menu \cup {c}
    /\ Publish
    /\ reorder' = "saved"
    /\ UNCHANGED <<pageState, listing, removal, socket, starVars, behind, crossed, drops>>

\* ... and answers: the mode ends and the page is fetched again.
ReorderSaved ==
    /\ reorder = "saved"
    /\ reorder' = "off"
    /\ Reload
    /\ UNCHANGED <<menu, news, removal, socket, drops>>

\* The answer is an error, or is lost: the mode goes on.
ReorderFails ==
    /\ reorder = "saved"
    /\ drops < MaxDrops /\ drops' = drops + 1
    /\ reorder' = "on"
    /\ behind' = TRUE
    /\ UNCHANGED <<menu, news, pageState, listing, removal, socket, starVars, crossed>>

----------------------------------------------------------------------------
(* handleConfirmDelete and handleToggleFeatured: `state' and wasFeatured   *)
(* are those of the render in which the button was pressed.                *)

ConfirmDelete(c) ==
    /\ removal.step = "none" /\ pageState.status = "success" /\ reorder = "off"
    /\ c \notin menu
    /\ removal' = [step |-> "sent", change |-> {c}, captured |-> pageState.shows]
    /\ UNCHANGED <<menu, news, pageState, listing, reorder, socket, starVars, behind, crossed, drops>>

ServerDeletes ==
    /\ removal.step = "sent"
    /\ menu' = menu \cup removal.change
    /\ removal' = [removal EXCEPT !.step = "done"]
    /\ Publish /\ Unheard
    /\ UNCHANGED <<pageState, listing, reorder, socket, starVars, crossed, drops>>

\* The row is taken out of what the page showed when the button was pressed; what it
\* was told of meanwhile is gone with it.
DeleteDropsRow ==
    /\ removal.step = "done"
    /\ pageState' = [status |-> "success", shows |-> removal.captured \cup removal.change]
    /\ behind' = (behind \/ /\ listing.step = "none"
                            /\ pageState # [status |-> "success", shows |-> removal.captured])
    /\ removal' = NoRemoval
    /\ UNCHANGED <<menu, news, listing, reorder, socket, starVars, crossed, drops>>

\* With inactive rows shown, or no row left, the page is fetched again instead.
DeleteReloads ==
    /\ removal.step = "done"
    /\ removal' = NoRemoval
    /\ Reload
    /\ UNCHANGED <<menu, news, reorder, socket, drops>>

\* An error, or the answer is lost: the row stays, and the dialog says so.
DeleteFails ==
    /\ removal.step # "none"
    /\ drops < MaxDrops /\ drops' = drops + 1
    /\ removal' = NoRemoval
    /\ UNCHANGED <<menu, news, pageState, listing, reorder, socket, starVars, behind, crossed>>

ToggleFeatured ==
    /\ toggle.step = "none"
    /\ pageState.status = "success" /\ reorder = "off" /\ removal.step = "none"
    /\ toggle' = [step |-> "sent", was |-> star]
    /\ star' = ~star
    /\ crossed' = (crossed \/ hydration # "none" \/ starNews # {})
    /\ UNCHANGED <<listVars, socket, dbStar, hydration, starNews, starWrites, starApplied, behind,
                   drops>>

ServerToggles ==
    /\ toggle.step = "sent"
    /\ WriteStar(~toggle.was)
    /\ toggle' = [toggle EXCEPT !.step = "done"]
    /\ UNCHANGED <<listVars, socket, star, hydration, starApplied, behind, drops>>

ToggleDone ==
    /\ toggle.step = "done"
    /\ toggle' = NoToggle
    /\ UNCHANGED <<listVars, socket, dbStar, star, hydration, starNews, starWrites, starApplied,
                   behind, crossed, drops>>

\* Fault: the star stays as the user set it.
RevertNothing == star

\* On an error the star goes back to what it was.
Revert == toggle.was

ToggleFails ==
    /\ toggle.step # "none"
    /\ drops < MaxDrops /\ drops' = drops + 1
    /\ star' = Revert
    /\ crossed' = (crossed \/ toggle.step = "done" \/ starNews # {})
    /\ toggle' = NoToggle
    /\ UNCHANGED <<listVars, socket, dbStar, hydration, starNews, starWrites, starApplied, behind>>

PageInit ==
    /\ menu = {} /\ news = 0
    /\ pageState = [status |-> "loading", shows |-> {}] /\ listing = Asked
    /\ reorder = "off" /\ removal = NoRemoval /\ socket = "open"
    /\ dbStar = FALSE /\ star = FALSE /\ hydration = "asked" /\ toggle = NoToggle
    /\ starNews = {} /\ starWrites = 0 /\ starApplied = 0
    /\ behind = FALSE /\ crossed = FALSE /\ drops = 0

PageNext ==
    \/ \E c \in Changes : PeerChanges(c) \/ SaveReorder(c) \/ ConfirmDelete(c)
    \/ PeerStars \/ ServerLists \/ ServerListsFeatured \/ ServerDeletes \/ ServerToggles
    \/ ChangeFilter \/ Retry \/ ListAnswer \/ ListFails \/ HydrateAnswer \/ HydrateFails
    \/ SocketDown \/ SocketUp \/ ProductEvent
    \/ \E k \in starNews : StarEvent(k) \/ StarEventReloads(k)
    \/ StartReorder \/ CancelReorder \/ ReorderSaved \/ ReorderFails
    \/ DeleteDropsRow \/ DeleteReloads \/ DeleteFails
    \/ ToggleFeatured \/ ToggleDone \/ ToggleFails

PageSpec == PageInit /\ [][PageNext]_pageVars

----------------------------------------------------------------------------
\* A page at rest shows every change its products have had - but for what it was told
\* of while reordering, what happened while its socket was down, and what a deletion
\* overwrote with the rows of the moment its button was pressed: those it lacks until
\* the next fetch.
PageShowsMenu ==
    /\ pageState.status = "success" /\ ~behind
    /\ news = 0 /\ listing.step = "none" /\ reorder = "off" /\ removal.step = "none"
    => pageState.shows = menu

\* A star at rest tells the flag in the database - unless an event, a click and the reading
\* of the flags crossed, an event was lost with the socket or came late, or the flags could
\* not be read, of which the page says nothing: then until it reads them again, or is told
\* of the last write with nothing else under way.
StarAtRestIsRight ==
    hydration = "none" /\ toggle.step = "none" /\ starNews = {} /\ ~crossed => star = dbStar
=============================================================================
