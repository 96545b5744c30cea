------------------------------ MODULE UserForm ------------------------------
(***************************************************************************)
(* The form that creates and edits an account (pages/UserFormPage.tsx), in *)
(* a browser whose history leads from any of its addresses to any other:   *)
(* the component is the same, and keeps its state.                         *)
(*                                                                         *)
(* A value of the form is where it came from: the form as it begins, the   *)
(* user's hands, or the account it was loaded from.  What a submit writes  *)
(* back is checked by the service (Users).                                 *)
(***************************************************************************)
EXTENDS Integers, FiniteSets

CONSTANTS
    People,         \* accounts that may be edited
    FormFields,     \* name, role, branchIds, isActive
    Saves,          \* submits: bounds them
    Elsewhere,      \* an address that is not the form's
    MaxVisits       \* bound: addresses visited

ASSUME UserFormAssumption ==
    /\ Elsewhere \notin People \cup {"new"}
    /\ "new" \notin People
    /\ MaxVisits \in Nat

VARIABLES
    address,        \* "new", the account edited, or Elsewhere
    userForm,       \* where each of the form's values came from
    loadState,
    loads,          \* getUser under way
    submitting,
    saves,          \* the submits: what each carries
    visits

userFormVars == <<address, userForm, loadState, loads, submitting, saves, visits>>

Origins == {"initial", "typed"} \cup People

\* A getUser; `cancelled' once the effect was cleaned up.
Getting == [of : People, cancelled : BOOLEAN]

\* hasty: it was sent before the account it is for was loaded.
Payload == [id : People \cup {"new"}, values : [FormFields -> Origins], hasty : BOOLEAN,
            mounted : BOOLEAN]
Unused == [id |-> "unused"]
SaveOver == [id |-> "settled"]

UserFormTypeOK ==
    /\ address \in People \cup {"new", Elsewhere}
    /\ userForm \in [FormFields -> Origins]
    /\ loadState \in {"loading", "error", "ready"}
    /\ loads \subseteq Getting
    /\ submitting \in BOOLEAN
    /\ saves \in [Saves -> Payload \cup {Unused, SaveOver}]
    /\ visits \in 0..MaxVisits

InitialForm == [f \in FormFields |-> "initial"]

UserFormInit ==
    /\ address = Elsewhere
    /\ userForm = InitialForm /\ loadState = "ready"
    /\ loads = {} /\ submitting = FALSE
    /\ saves = [s \in Saves |-> Unused]
    /\ visits = 0

----------------------------------------------------------------------------
(* Addresses.                                                              *)

Cancelled == {[l EXCEPT !.cancelled = TRUE] : l \in loads}

\* The effect: an edit asks for its account.
LoadsAt(a) == Cancelled \cup (IF a \in People THEN {[of |-> a, cancelled |-> FALSE]} ELSE {})

Unmounted == [s \in Saves |-> IF saves[s] \in {Unused, SaveOver} THEN saves[s]
                              ELSE [saves[s] EXCEPT !.mounted = FALSE]]

\* From another page the form mounts, with the state it begins with.  From one address of
\* its own to another it keeps its state: what it shows, and that it is ready.
Visit(a) ==
    /\ visits < MaxVisits /\ a # address
    /\ visits' = visits + 1
    /\ address' = a
    /\ loads' = LoadsAt(a)
    /\ IF address = Elsewhere
         THEN /\ userForm' = InitialForm
              /\ loadState' = IF a \in People THEN "loading" ELSE "ready"
              /\ submitting' = FALSE
         ELSE UNCHANGED <<userForm, loadState, submitting>>
    /\ saves' = IF a = Elsewhere THEN Unmounted ELSE saves

GetUserAnsweredLate(l) ==
    /\ l \in loads
    /\ loads' = loads \ {l}
    /\ userForm' = [f \in FormFields |-> l.of]
    /\ loadState' = "ready"
    /\ UNCHANGED <<address, submitting, saves, visits>>

\* Its answer, unless it is cancelled, fills the form.
GetUserAnswered(l) ==
    /\ l \in loads
    /\ loads' = loads \ {l}
    /\ IF l.cancelled THEN UNCHANGED <<userForm, loadState>>
       ELSE userForm' = [f \in FormFields |-> l.of] /\ loadState' = "ready"
    /\ UNCHANGED <<address, submitting, saves, visits>>

GetUserFails(l) ==
    /\ l \in loads
    /\ loads' = loads \ {l}
    /\ loadState' = IF l.cancelled THEN loadState ELSE "error"
    /\ UNCHANGED <<address, userForm, submitting, saves, visits>>

----------------------------------------------------------------------------
(* The form, where it is shown.                                            *)

FormShown == address # Elsewhere /\ loadState = "ready"

\* updateForm.
Type(f) ==
    /\ FormShown
    /\ userForm' = [userForm EXCEPT ![f] = "typed"]
    /\ UNCHANGED <<address, loadState, loads, submitting, saves, visits>>

\* handleSubmit, with a form that validateClientSide accepts; it never accepts the form as
\* it begins.
SubmitForm(s) ==
    /\ FormShown /\ ~submitting
    /\ saves[s] = Unused
    /\ userForm # InitialForm
    /\ submitting' = TRUE
    /\ saves' = [saves EXCEPT ![s] =
            [id |-> address, values |-> userForm, mounted |-> TRUE,
             hasty |-> \E l \in loads : ~l.cancelled]]
    /\ UNCHANGED <<address, userForm, loadState, loads, visits>>

\* Saved: it goes to the list, from wherever the user is by then.
UserSaved(s) ==
    /\ saves[s] \notin {Unused, SaveOver}
    /\ address' = Elsewhere
    /\ loads' = LoadsAt(Elsewhere)
    /\ submitting' = IF saves[s].mounted THEN FALSE ELSE submitting
    /\ saves' = [Unmounted EXCEPT ![s] = SaveOver]
    /\ UNCHANGED <<userForm, loadState, visits>>

\* Refused, or lost: the form says so.
UserNotSaved(s) ==
    /\ saves[s] \notin {Unused, SaveOver}
    /\ submitting' = IF saves[s].mounted THEN FALSE ELSE submitting
    /\ saves' = [saves EXCEPT ![s] = SaveOver]
    /\ UNCHANGED <<address, userForm, loadState, loads, visits>>

----------------------------------------------------------------------------
UserFormNext ==
    \/ \E a \in People \cup {"new", Elsewhere} : Visit(a)
    \/ \E l \in loads : GetUserAnswered(l) \/ GetUserFails(l)
    \/ \E f \in FormFields : Type(f)
    \/ \E s \in Saves : SubmitForm(s) \/ UserSaved(s) \/ UserNotSaved(s)

UserFormSpec == UserFormInit /\ [][UserFormNext]_userFormVars

----------------------------------------------------------------------------
(* Properties                                                              *)

\* A save of an account carries what was loaded from that account or was typed, however
\* late the loads of the accounts visited before are answered; but for a save made in the
\* moment between an address of the form and its own load (the effect's `cancelled'; it
\* leaves loadState at 'ready').
SavesItsOwnAccount ==
    \A s \in Saves : saves[s] \in Payload /\ saves[s].id \in People /\ ~saves[s].hasty =>
        \A f \in FormFields : saves[s].values[f] \in {"typed", saves[s].id}
=============================================================================
