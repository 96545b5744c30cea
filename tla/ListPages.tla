------------------------------ MODULE ListPages ------------------------------
(***************************************************************************)
(* The administration's lists of users and of categories                   *)
(* (pages/UsersListPage.tsx, pages/CategoriesListPage.tsx): one page of    *)
(* rows at a time, fetched again when the page or its size changes and     *)
(* after each change made here.                                            *)
(*                                                                         *)
(* What a fetch reads is how many of this screen's changes the server had  *)
(* made by then.  A fetch the effect cleaned up is still answered, but     *)
(* `cancelled'.  Which row a change is about decides nothing.              *)
(*                                                                         *)
(* `seen' is history: no guard reads it.                                   *)
(***************************************************************************)
EXTENDS Integers

CONSTANTS
    LastPage,       \* of the list, from 0
    Limits,         \* rows per page
    Edits,          \* changes the user makes: bounds them
    Nowhere,        \* no rows yet
    MaxMoves        \* bound: pages and sizes chosen, fetches and changes that fail

ASSUME ListAssumption ==
    /\ LastPage \in Nat /\ MaxMoves \in Nat
    /\ Limits # {}

VARIABLES
    list,           \* which of the two it is
    listState,      \* FetchState
    displayed,      \* the rows: the page and size they are of, and what they show
    chosen,         \* page and limit
    fetching,       \* the fetches under way
    dialog,         \* to create a category or confirm a deactivation
    edits,          \* this screen's changes
    written,        \* how many of them the server has made
    seen,           \* history: of the changes answered, the last the server made
    moves

listPageVars == <<list, listState, displayed, chosen, fetching, dialog, edits, written, seen,
                  moves>>

Chosen == [page : 0..LastPage, limit : Limits]
Fetching == [of : Chosen, read : Nat \cup {Nowhere}, cancelled : BOOLEAN]
EditState == [kind : {"create", "delete"}, at : {"sent", "served"}, page : 0..LastPage, no : Nat]
Unmade == [kind |-> "none"]
Made == [kind |-> "made"]

ListTypeOK ==
    /\ list \in {"users", "categories"}
    /\ listState \in {"loading", "error", "success"}
    /\ displayed \in [of : Chosen, read : Nat] \cup {Nowhere}
    /\ chosen \in Chosen
    /\ fetching \subseteq Fetching
    /\ dialog \in {"closed", "open", "submitting"}
    /\ edits \in [Edits -> EditState \cup {Unmade, Made}]
    /\ written \in Nat /\ seen \in Nat /\ moves \in Nat

Ask(of) == [of |-> of, read |-> Nowhere, cancelled |-> FALSE]

\* The effect: it cleans up after the last fetch and makes the next.
Refetch(of) == fetching' = {[f EXCEPT !.cancelled = TRUE] : f \in fetching} \cup {Ask(of)}

\* Mounted with status 'loading'.
ListInit ==
    /\ list \in {"users", "categories"}
    /\ listState = "loading"
    /\ displayed = Nowhere
    /\ chosen \in [page : {0}, limit : Limits]
    /\ fetching = {Ask(chosen)}
    /\ dialog = "closed"
    /\ edits = [e \in Edits |-> Unmade]
    /\ written = 0 /\ seen = 0 /\ moves = 0

----------------------------------------------------------------------------
(* The user.  A dialog lets nothing else be clicked.                       *)

Choose(of) == chosen' = of /\ (IF of = chosen THEN UNCHANGED fetching ELSE Refetch(of))

Move == moves < MaxMoves /\ moves' = moves + 1

\* PaginationFooter; the rows stay until the answer.
ChoosePage(p) ==
    /\ listState = "success" /\ dialog = "closed"
    /\ Move
    /\ Choose([chosen EXCEPT !.page = p])
    /\ UNCHANGED <<list, listState, displayed, dialog, edits, written, seen>>

ChooseLimit(l) ==
    /\ listState = "success" /\ dialog = "closed"
    /\ Move
    /\ Choose([page |-> 0, limit |-> l])
    /\ UNCHANGED <<list, listState, displayed, dialog, edits, written, seen>>

\* retry: the rows go, and reloadKey makes the effect run.
ReloadList == listState' = "loading" /\ chosen' = chosen /\ Refetch(chosen)

RetryList ==
    /\ listState = "error" /\ dialog = "closed"
    /\ ReloadList
    /\ UNCHANGED <<list, displayed, dialog, edits, written, seen, moves>>

\* "Nueva categoría" is always there; a deactivation is of a row.
OpenDialog ==
    /\ dialog = "closed"
    /\ list = "users" => listState = "success"
    /\ dialog' = "open"
    /\ UNCHANGED <<list, listState, displayed, chosen, fetching, edits, written, seen, moves>>

CloseDialog ==
    /\ dialog = "open"
    /\ dialog' = "closed"
    /\ UNCHANGED <<list, listState, displayed, chosen, fetching, edits, written, seen, moves>>

----------------------------------------------------------------------------
(* Changes: handleCreate, handleConfirmDelete through the dialog;          *)
(* handleDelete of a category from its row, several at once.               *)

SendEdit(e, kind) ==
    /\ edits[e] = Unmade
    /\ edits' = [edits EXCEPT ![e] = [kind |-> kind, at |-> "sent", page |-> chosen.page,
                                      no |-> 0]]

\* The callback has the page of when it was clicked.
SubmitDialog(e) ==
    /\ dialog = "open"
    /\ dialog' = "submitting"
    /\ SendEdit(e, IF list = "users" THEN "delete" ELSE "create")
    /\ UNCHANGED <<list, listState, displayed, chosen, fetching, written, seen, moves>>

DeactivateRow(e) ==
    /\ list = "categories"
    /\ listState = "success" /\ dialog = "closed"
    /\ SendEdit(e, "delete")
    /\ UNCHANGED <<list, listState, displayed, chosen, fetching, dialog, written, seen, moves>>

EditUnderWay(e) == edits[e] \notin {Unmade, Made}

ThroughDialog(e) == list = "users" \/ edits[e].kind = "create"

EditServed(e) ==
    /\ EditUnderWay(e) /\ edits[e].at = "sent"
    /\ written' = written + 1
    /\ edits' = [edits EXCEPT ![e].at = "served", ![e].no = written']
    /\ UNCHANGED <<list, listState, displayed, chosen, fetching, dialog, seen, moves>>

\* Fault: setPage(0) is taken to fetch in any case.
AfterEditAssuming(e) ==
    IF edits[e].kind = "create"
      THEN Choose([chosen EXCEPT !.page = 0]) /\ UNCHANGED listState
      ELSE ReloadList

\* What follows an answer: a create shows the first page, which fetches only when it
\* was not shown; else retry.
AfterEdit(e) ==
    IF edits[e].kind = "create" /\ edits[e].page # 0
      THEN Choose([chosen EXCEPT !.page = 0]) /\ UNCHANGED listState
      ELSE ReloadList

EditAnswered(e) ==
    /\ EditUnderWay(e) /\ edits[e].at = "served"
    /\ AfterEdit(e)
    /\ dialog' = IF ThroughDialog(e) THEN "closed" ELSE dialog
    /\ edits' = [edits EXCEPT ![e] = Made]
    /\ seen' = IF edits[e].no > seen THEN edits[e].no ELSE seen
    /\ UNCHANGED <<list, displayed, written, moves>>

\* Refused, or its answer is lost: the dialog says so and stays; a row says nothing.
EditFails(e) ==
    /\ EditUnderWay(e)
    /\ Move
    /\ dialog' = IF ThroughDialog(e) THEN "open" ELSE dialog
    /\ edits' = [edits EXCEPT ![e] = Made]
    /\ UNCHANGED <<list, listState, displayed, chosen, fetching, written, seen>>

----------------------------------------------------------------------------
(* Fetches.                                                                *)

FetchServed(f) ==
    /\ f.read = Nowhere
    /\ fetching' = (fetching \ {f}) \cup {[f EXCEPT !.read = written]}
    /\ UNCHANGED <<list, listState, displayed, chosen, dialog, edits, written, seen, moves>>

FetchAnswered(f) ==
    /\ f.read # Nowhere
    /\ fetching' = fetching \ {f}
    /\ IF f.cancelled THEN UNCHANGED <<listState, displayed>>
       ELSE /\ listState' = "success"
            /\ displayed' = [of |-> f.of, read |-> f.read]
    /\ UNCHANGED <<list, chosen, dialog, edits, written, seen, moves>>

FetchFails(f) ==
    /\ Move
    /\ fetching' = fetching \ {f}
    /\ listState' = IF f.cancelled THEN listState ELSE "error"
    /\ UNCHANGED <<list, displayed, chosen, dialog, edits, written, seen>>

----------------------------------------------------------------------------
ListNext ==
    \/ \E p \in 0..LastPage : ChoosePage(p)
    \/ \E l \in Limits : ChooseLimit(l)
    \/ RetryList \/ OpenDialog \/ CloseDialog
    \/ \E e \in Edits : \/ SubmitDialog(e) \/ DeactivateRow(e)
                        \/ EditServed(e) \/ EditAnswered(e) \/ EditFails(e)
    \/ \E f \in fetching : FetchServed(f) \/ FetchAnswered(f) \/ FetchFails(f)

ListSpec == ListInit /\ [][ListNext]_listPageVars

----------------------------------------------------------------------------
(* Properties                                                              *)

\* When nothing is being fetched the list does not wait, and the rows it shows are of the page
\* and size chosen and have every change made here that was answered, in whichever order
\* fetches and changes are answered (the `cancelled' of the effect; handleCreate's "don't
\* double-fetch").
OwnChangesShown ==
    (\A f \in fetching : f.cancelled) =>
        /\ listState # "loading"
        /\ listState = "success" => displayed.of = chosen /\ displayed.read >= seen
=============================================================================
