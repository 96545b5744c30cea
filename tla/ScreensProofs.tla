--------------------------- MODULE ScreensProofs ----------------------------
(***************************************************************************)
(* Theorems about the screens of the administration, each of its own       *)
(* specification: UserForm, ListPages, ProductsPage, ProductForm and       *)
(* Navigation, for any accounts, saves and rows, changes, writes of a star *)
(* and lost answers, tabs and products, routes and roles.  Each section has*)
(* the same parts: what the property needs to be inductive, the steps that *)
(* preserve it, and the theorem.                                           *)
(***************************************************************************)
EXTENDS UserForm, ListPages, ProductsPage, ProductForm, Navigation, FiniteSetTheorems, TLAPS

----------------------------------------------------------------------------
(* The form of an account                                                  *)

\* An answer that will fill the form is of the account the address names.
LoadsOfAddress == \A l \in loads : ~l.cancelled => l.of = address

\* Once that account has been loaded, the form has its values, or the user's.
FormOfAddress ==
    address \in People /\ loadState = "ready" /\ (\A l \in loads : l.cancelled) =>
        \A f \in FormFields : userForm[f] \in {"typed", address}

UserFormInv == UserFormTypeOK /\ LoadsOfAddress /\ FormOfAddress /\ SavesItsOwnAccount

LEMMA UserFormInitially == UserFormInit => UserFormInv
<1> SUFFICES ASSUME UserFormInit
             PROVE  UserFormInv
  OBVIOUS
<1> USE UserFormAssumption DEF UserFormInit
<1>1. UserFormTypeOK
  <2>1. InitialForm \in [FormFields -> Origins]
    BY DEF InitialForm, Origins
  <2>2. saves \in [Saves -> Payload \cup {Unused, SaveOver}]
    OBVIOUS
  <2>3. visits \in 0..MaxVisits
    OBVIOUS
  <2>4. loads \subseteq Getting
    OBVIOUS
  <2>5. submitting \in BOOLEAN
    OBVIOUS
  <2> QED BY <2>1, <2>2, <2>3, <2>4, <2>5 DEF UserFormTypeOK
<1>2. LoadsOfAddress /\ FormOfAddress
  BY DEF LoadsOfAddress, FormOfAddress
<1>3. SavesItsOwnAccount
  <2>1. "unused" # "new" /\ Unused \notin Payload
    BY DEF Unused, Payload
  <2> QED BY <2>1 DEF SavesItsOwnAccount
<1> QED BY <1>1, <1>2, <1>3 DEF UserFormInv

\* To unmount the form changes nothing of what its saves carry.
LEMMA UnmountedCarriesTheSame ==
    ASSUME UserFormInv
    PROVE  /\ Unmounted \in [Saves -> Payload \cup {Unused, SaveOver}]
           /\ \A s \in Saves : Unmounted[s] \in Payload => 
                 /\ saves[s] \in Payload /\ Unmounted[s].id = saves[s].id
                 /\ Unmounted[s].hasty = saves[s].hasty /\ Unmounted[s].values = saves[s].values
<1> SUFFICES ASSUME NEW s \in Saves
             PROVE  /\ Unmounted[s] \in Payload \cup {Unused, SaveOver}
                    /\ Unmounted[s] \in Payload => 
                          /\ saves[s] \in Payload /\ Unmounted[s].id = saves[s].id
                          /\ Unmounted[s].hasty = saves[s].hasty
                          /\ Unmounted[s].values = saves[s].values
  BY DEF Unmounted
<1>1. CASE saves[s] \in {Unused, SaveOver}
  BY <1>1 DEF Unmounted
<1>2. CASE saves[s] \notin {Unused, SaveOver}
  <2>1. saves[s] \in Payload /\ Unmounted[s] = [saves[s] EXCEPT !.mounted = FALSE]
    BY <1>2 DEF Unmounted, UserFormInv, UserFormTypeOK
  <2> QED BY <2>1 DEF Payload
<1> QED BY <1>1, <1>2

LEMMA LoadsAtTyped ==
    ASSUME UserFormInv, NEW a \in People \cup {"new", Elsewhere}
    PROVE  /\ LoadsAt(a) \subseteq Getting
           /\ \A l \in LoadsAt(a) : ~l.cancelled => l.of = a
           /\ a \in People => \E l \in LoadsAt(a) : ~l.cancelled
<1>1. Cancelled \subseteq Getting /\ \A l \in Cancelled : l.cancelled
  BY DEF Cancelled, UserFormInv, UserFormTypeOK, Getting
<1>2. CASE a \in People
  <2> DEFINE new == [of |-> a, cancelled |-> FALSE]
  <2>1. LoadsAt(a) = Cancelled \cup {new}
    BY <1>2 DEF LoadsAt
  <2>2. new \in Getting /\ new.of = a /\ new.cancelled = FALSE
    BY <1>2 DEF Getting
  <2> HIDE DEF new
  <2> QED BY <1>1, <2>1, <2>2
<1>3. CASE a \notin People
  BY <1>1, <1>3 DEF LoadsAt
<1> QED BY <1>2, <1>3

LEMMA VisitKeeps ==
    ASSUME UserFormInv, NEW a \in People \cup {"new", Elsewhere}, Visit(a)
    PROVE  UserFormInv'
<1> USE UserFormAssumption DEF UserFormInv
<1>1. /\ visits < MaxVisits /\ visits' = visits + 1 /\ address' = a /\ loads' = LoadsAt(a)
      /\ saves' = IF a = Elsewhere THEN Unmounted ELSE saves
      /\ userForm' \in {InitialForm, userForm} /\ loadState' \in {"loading", "ready", loadState}
      /\ submitting' \in {FALSE, submitting}
  BY DEF Visit
<1>2. UserFormTypeOK'
  <2>1. InitialForm \in [FormFields -> Origins]
    BY DEF InitialForm, Origins
  <2>2. visits' \in 0..MaxVisits
    BY <1>1 DEF UserFormTypeOK
  <2> QED BY <1>1, <2>1, <2>2, UnmountedCarriesTheSame, LoadsAtTyped DEF UserFormTypeOK
<1>3. LoadsOfAddress' /\ FormOfAddress'
  BY <1>1, LoadsAtTyped DEF LoadsOfAddress, FormOfAddress
<1>4. SavesItsOwnAccount'
  BY <1>1, UnmountedCarriesTheSame DEF SavesItsOwnAccount
<1> QED BY <1>2, <1>3, <1>4

LEMMA LoadKeeps ==
    ASSUME UserFormInv, NEW l \in loads, GetUserAnswered(l) \/ GetUserFails(l)
    PROVE  UserFormInv'
<1> USE UserFormAssumption DEF UserFormInv
<1>1. /\ loads' = loads \ {l}
      /\ address' = address /\ submitting' = submitting /\ saves' = saves /\ visits' = visits
  BY DEF GetUserAnswered, GetUserFails
<1>2. l \in Getting
  BY DEF UserFormTypeOK
<1>3. CASE l.cancelled
  <2>1. userForm' = userForm /\ loadState' = loadState
    BY <1>3 DEF GetUserAnswered, GetUserFails
  <2> QED BY <1>1, <1>3, <2>1 DEF UserFormTypeOK, LoadsOfAddress, FormOfAddress, SavesItsOwnAccount
<1>4. CASE ~l.cancelled /\ GetUserAnswered(l)
  <2>1. userForm' = [f \in FormFields |-> l.of] /\ loadState' = "ready" /\ l.of = address
    BY <1>4 DEF GetUserAnswered, LoadsOfAddress
  <2> QED BY <1>1, <1>2, <2>1 DEF UserFormTypeOK, Getting, Origins, LoadsOfAddress, FormOfAddress,
             SavesItsOwnAccount
<1>5. CASE ~l.cancelled /\ GetUserFails(l)
  <2>1. userForm' = userForm /\ loadState' = "error"
    BY <1>5 DEF GetUserFails
  <2> QED BY <1>1, <2>1 DEF UserFormTypeOK, LoadsOfAddress, FormOfAddress, SavesItsOwnAccount
<1> QED BY <1>3, <1>4, <1>5

LEMMA SubmitFormKeeps ==
    ASSUME UserFormInv, NEW s \in Saves, SubmitForm(s)
    PROVE  UserFormInv'
<1> USE UserFormAssumption DEF UserFormInv
<1> DEFINE new == [id |-> address, values |-> userForm, mounted |-> TRUE,
                   hasty |-> \E l \in loads : ~l.cancelled]
<1>1. /\ FormShown /\ submitting' = TRUE /\ saves' = [saves EXCEPT ![s] = new]
      /\ address' = address /\ userForm' = userForm /\ loadState' = loadState
      /\ loads' = loads /\ visits' = visits
  BY DEF SubmitForm
<1>2. new \in Payload
  BY <1>1 DEF FormShown, UserFormTypeOK, Payload
<1>3. saves'[s] = new /\ \A x \in Saves : x # s => saves'[x] = saves[x]
  BY <1>1 DEF UserFormTypeOK
<1>4. new.id \in People /\ ~new.hasty => \A f \in FormFields : new.values[f] \in {"typed", new.id}
  BY <1>1 DEF FormShown, FormOfAddress
<1> HIDE DEF new
<1>5. UserFormTypeOK'
  BY <1>1, <1>2 DEF UserFormTypeOK
<1>6. LoadsOfAddress' /\ FormOfAddress'
  BY <1>1 DEF LoadsOfAddress, FormOfAddress
<1>7. SavesItsOwnAccount'
  BY <1>3, <1>4 DEF SavesItsOwnAccount
<1> QED BY <1>5, <1>6, <1>7

LEMMA SaveEndsKeeps ==
    ASSUME UserFormInv, NEW s \in Saves, UserSaved(s) \/ UserNotSaved(s)
    PROVE  UserFormInv'
<1> USE UserFormAssumption DEF UserFormInv
<1>1. /\ userForm' = userForm /\ loadState' = loadState /\ visits' = visits
      /\ submitting' \in {FALSE, submitting}
      /\ \/ address' = address /\ loads' = loads /\ saves' = [saves EXCEPT ![s] = SaveOver]
         \/ address' = Elsewhere /\ loads' = LoadsAt(Elsewhere)
            /\ saves' = [Unmounted EXCEPT ![s] = SaveOver]
  BY DEF UserSaved, UserNotSaved
<1>2. UserFormTypeOK'
  BY <1>1, UnmountedCarriesTheSame, LoadsAtTyped DEF UserFormTypeOK
<1>3. LoadsOfAddress' /\ FormOfAddress'
  BY <1>1, LoadsAtTyped DEF LoadsOfAddress, FormOfAddress
<1>4. SaveOver \notin Payload
  BY DEF SaveOver, Payload
<1>5. SavesItsOwnAccount'
  <2> SUFFICES ASSUME NEW x \in Saves, saves'[x] \in Payload, saves'[x].id \in People,
                      ~saves'[x].hasty
               PROVE  \A f \in FormFields : saves'[x].values[f] \in {"typed", saves'[x].id}
    BY DEF SavesItsOwnAccount
  <2>1. x # s
    BY <1>1, <1>4, UnmountedCarriesTheSame DEF UserFormTypeOK
  <2>2. saves'[x] \in {saves[x], Unmounted[x]}
    BY <1>1, <2>1, UnmountedCarriesTheSame DEF UserFormTypeOK
  <2> QED BY <2>2, UnmountedCarriesTheSame DEF SavesItsOwnAccount
<1> QED BY <1>2, <1>3, <1>5

LEMMA UserFormInductive == UserFormInv /\ [UserFormNext]_userFormVars => UserFormInv'
<1> SUFFICES ASSUME UserFormInv, [UserFormNext]_userFormVars
             PROVE  UserFormInv'
  OBVIOUS
<1>1. ASSUME NEW a \in People \cup {"new", Elsewhere}, Visit(a)
      PROVE  UserFormInv'
  BY <1>1, VisitKeeps
<1>2. ASSUME NEW l \in loads, GetUserAnswered(l) \/ GetUserFails(l)
      PROVE  UserFormInv'
  BY <1>2, LoadKeeps
<1>3. ASSUME NEW f \in FormFields, Type(f)
      PROVE  UserFormInv'
  BY <1>3 DEF Type, UserFormInv, UserFormTypeOK, Origins, LoadsOfAddress, FormOfAddress,
     SavesItsOwnAccount
<1>4. ASSUME NEW s \in Saves, SubmitForm(s)
      PROVE  UserFormInv'
  BY <1>4, SubmitFormKeeps
<1>5. ASSUME NEW s \in Saves, UserSaved(s) \/ UserNotSaved(s)
      PROVE  UserFormInv'
  BY <1>5, SaveEndsKeeps
<1>6. CASE UNCHANGED userFormVars
  BY <1>6 DEF userFormVars, UserFormInv, UserFormTypeOK, LoadsOfAddress, FormOfAddress,
     SavesItsOwnAccount
<1> QED BY <1>1, <1>2, <1>3, <1>4, <1>5, <1>6 DEF UserFormNext

\* For any accounts, fields and visits, a save carries what was loaded from its own account
\* or was typed, unless it was made before that account's load.
THEOREM SavesOwn == UserFormSpec => []SavesItsOwnAccount
<1>1. UserFormInv => SavesItsOwnAccount
  BY DEF UserFormInv
<1> QED BY <1>1, UserFormInitially, UserFormInductive, PTL DEF UserFormSpec

----------------------------------------------------------------------------
(* The pages that list                                                     *)

\* A fetch that was not cancelled is of what is chosen, and was read after every change
\* that was answered.
FetchesCurrent ==
    \A f \in fetching : ~f.cancelled =>
        f.of = chosen /\ (f.read # Nowhere => f.read >= seen)

\* What the server counted and the screen saw is what the server has made.
CountsFit ==
    /\ seen <= written
    /\ \A e \in Edits : EditUnderWay(e) => edits[e].no <= written

\* A change made through the dialog keeps it, and with it the page, until it is answered.
DialogBusy ==
    /\ \A e \in Edits : EditUnderWay(e) /\ ThroughDialog(e) =>
          dialog = "submitting" /\ edits[e].page = chosen.page
    /\ \A e, x \in Edits :
          EditUnderWay(e) /\ ThroughDialog(e) /\ EditUnderWay(x) /\ ThroughDialog(x) => e = x

ListInv == ListTypeOK /\ FetchesCurrent /\ CountsFit /\ DialogBusy /\ OwnChangesShown

LEMMA ListInitially == ListInit => ListInv
<1> SUFFICES ASSUME ListInit
             PROVE  ListInv
  OBVIOUS
<1> USE ListAssumption DEF ListInit
<1>1. chosen \in Chosen
  BY DEF Chosen
<1>2. Ask(chosen) \in Fetching /\ ~Ask(chosen).cancelled /\ Ask(chosen).of = chosen
      /\ Ask(chosen).read = Nowhere
  BY <1>1 DEF Ask, Fetching
<1>3. ListTypeOK
  BY <1>1, <1>2 DEF ListTypeOK
<1>4. FetchesCurrent /\ OwnChangesShown
  BY <1>2 DEF FetchesCurrent, OwnChangesShown
<1>5. CountsFit /\ DialogBusy
  <2>1. \A e \in Edits : ~EditUnderWay(e)
    BY DEF EditUnderWay
  <2>2. CountsFit
    BY <2>1 DEF CountsFit
  <2>3. DialogBusy
    BY <2>1 DEF DialogBusy
  <2> QED BY <2>2, <2>3
<1> QED BY <1>3, <1>4, <1>5 DEF ListInv

\* After a fetch anew only its own answer counts.
LEMMA RefetchCurrent ==
    ASSUME ListInv, NEW of \in Chosen, Refetch(of), chosen' = of
    PROVE  fetching' \subseteq Fetching /\ FetchesCurrent' /\ OwnChangesShown'
<1> DEFINE Cancel == {[f EXCEPT !.cancelled = TRUE] : f \in fetching}
<1>1. fetching' = Cancel \cup {Ask(of)}
  BY DEF Refetch
<1>2. Cancel \subseteq Fetching /\ \A f \in Cancel : f.cancelled
  BY DEF ListInv, ListTypeOK, Fetching
<1>3. Ask(of) \in Fetching /\ ~Ask(of).cancelled /\ Ask(of).of = of /\ Ask(of).read = Nowhere
  BY DEF Ask, Fetching
<1> HIDE DEF Cancel
<1> QED BY <1>1, <1>2, <1>3 DEF FetchesCurrent, OwnChangesShown

\* While the dialog is not at work none of its changes is.
LEMMA DialogIdle ==
    ASSUME ListInv, dialog # "submitting", NEW e \in Edits, EditUnderWay(e)
    PROVE  ~ThroughDialog(e)
BY DEF ListInv, DialogBusy

\* Choosing a page or a size, with the dialog closed.
LEMMA ChooseKeeps ==
    ASSUME ListInv, NEW of \in Chosen, dialog # "submitting", Choose(of), moves' \in Nat,
           UNCHANGED <<list, listState, displayed, dialog, edits, written, seen>>
    PROVE  ListInv'
<1>1. \A e \in Edits : EditUnderWay(e)' = EditUnderWay(e) /\ ThroughDialog(e)' = ThroughDialog(e)
  BY DEF EditUnderWay, ThroughDialog
<1>2. CountsFit' /\ DialogBusy'
  BY <1>1, DialogIdle DEF ListInv, CountsFit, DialogBusy
<1>3. CASE of = chosen
  <2>1. chosen' = chosen /\ fetching' = fetching
    BY <1>3 DEF Choose
  <2> QED BY <1>2, <2>1 DEF ListInv, ListTypeOK, FetchesCurrent, OwnChangesShown
<1>4. CASE of # chosen
  <2>1. chosen' = of /\ Refetch(of)
    BY <1>4 DEF Choose
  <2>2. fetching' \subseteq Fetching /\ FetchesCurrent' /\ OwnChangesShown'
    BY <2>1, RefetchCurrent
  <2> QED BY <1>2, <2>1, <2>2 DEF ListInv, ListTypeOK
<1> QED BY <1>3, <1>4

LEMMA RetryListKeeps ==
    ASSUME ListInv, RetryList
    PROVE  ListInv'
<1>1. /\ listState' = "loading" /\ chosen' = chosen /\ Refetch(chosen)
      /\ UNCHANGED <<list, displayed, dialog, edits, written, seen, moves>>
  BY DEF RetryList, ReloadList
<1>2. chosen \in Chosen
  BY DEF ListInv, ListTypeOK
<1>3. fetching' \subseteq Fetching /\ FetchesCurrent' /\ OwnChangesShown'
  BY <1>1, <1>2, RefetchCurrent
<1> QED BY <1>1, <1>3 DEF ListInv, ListTypeOK, CountsFit, DialogBusy, EditUnderWay, ThroughDialog

LEMMA DialogKeeps ==
    ASSUME ListInv, dialog # "submitting", dialog' \in {"open", "closed"},
           UNCHANGED <<list, listState, displayed, chosen, fetching, edits, written, seen, moves>>
    PROVE  ListInv'
<1>1. \A e \in Edits : EditUnderWay(e)' = EditUnderWay(e) /\ ThroughDialog(e)' = ThroughDialog(e)
  BY DEF EditUnderWay, ThroughDialog
<1>2. CountsFit' /\ DialogBusy'
  BY <1>1, DialogIdle DEF ListInv, CountsFit, DialogBusy
<1> QED BY <1>2 DEF ListInv, ListTypeOK, FetchesCurrent, OwnChangesShown

LEMMA SendEditKeeps ==
    ASSUME ListInv, NEW e \in Edits, NEW kind \in {"create", "delete"}, SendEdit(e, kind),
           dialog # "submitting",
           dialog' = IF list = "users" \/ kind = "create" THEN "submitting" ELSE dialog,
           UNCHANGED <<list, listState, displayed, chosen, fetching, written, seen, moves>>
    PROVE  ListInv'
<1> DEFINE new == [kind |-> kind, at |-> "sent", page |-> chosen.page, no |-> 0]
<1>1. edits' = [edits EXCEPT ![e] = new]
  BY DEF SendEdit
<1>2. new \in EditState
  BY DEF ListInv, ListTypeOK, Chosen, EditState
<1>3. edits'[e] = new /\ \A x \in Edits : x # e => edits'[x] = edits[x]
  BY <1>1 DEF ListInv, ListTypeOK
<1>4. new.kind = kind /\ new.page = chosen.page /\ new.no = 0
  OBVIOUS
<1> HIDE DEF new
<1>5. ListTypeOK'
  BY <1>1, <1>2 DEF ListInv, ListTypeOK
<1>6. FetchesCurrent' /\ OwnChangesShown'
  BY DEF ListInv, FetchesCurrent, OwnChangesShown
<1>7. \A x \in Edits : x # e => /\ EditUnderWay(x)' = EditUnderWay(x)
                                /\ ThroughDialog(x)' = ThroughDialog(x)
  BY <1>3 DEF EditUnderWay, ThroughDialog
<1>8. CountsFit'
  BY <1>3, <1>4, <1>7 DEF ListInv, CountsFit, ListTypeOK
<1>9. ThroughDialog(e)' = (list = "users" \/ kind = "create")
  BY <1>3, <1>4 DEF ThroughDialog
<1>10. DialogBusy'
  BY <1>3, <1>4, <1>7, <1>9, DialogIdle DEF ListInv, DialogBusy
<1> QED BY <1>5, <1>6, <1>8, <1>10 DEF ListInv

LEMMA EditServedKeeps ==
    ASSUME ListInv, NEW e \in Edits, EditServed(e)
    PROVE  ListInv'
<1> DEFINE new == [edits[e] EXCEPT !.at = "served", !.no = written + 1]
<1>1. /\ EditUnderWay(e) /\ written' = written + 1 /\ edits' = [edits EXCEPT ![e] = new]
      /\ UNCHANGED <<list, listState, displayed, chosen, fetching, dialog, seen, moves>>
  BY DEF EditServed, ListInv, ListTypeOK
<1>2. edits[e] \in EditState
  BY <1>1 DEF EditUnderWay, ListInv, ListTypeOK
<1>3. /\ edits'[e] \in EditState /\ edits'[e].kind = edits[e].kind /\ edits'[e].page = edits[e].page
      /\ edits'[e].no = written + 1
      /\ \A x \in Edits : x # e => edits'[x] = edits[x]
  <2>1. /\ new \in EditState /\ new.kind = edits[e].kind /\ new.page = edits[e].page
        /\ new.no = written + 1
    <3>1. written + 1 \in Nat
      BY DEF ListInv, ListTypeOK
    <3> QED BY <1>2, <3>1 DEF EditState
  <2> HIDE DEF new
  <2> QED BY <1>1, <2>1 DEF ListInv, ListTypeOK
<1>4. ListTypeOK'
  BY <1>1, <1>3 DEF ListInv, ListTypeOK
<1>5. FetchesCurrent' /\ OwnChangesShown'
  BY <1>1 DEF ListInv, FetchesCurrent, OwnChangesShown
<1>6. /\ \A x \in Edits : EditUnderWay(x)' => EditUnderWay(x)
      /\ \A x \in Edits : ThroughDialog(x)' = ThroughDialog(x)
  BY <1>1, <1>3 DEF EditUnderWay, ThroughDialog
<1>7. CountsFit'
  <2> SUFFICES ASSUME NEW x \in Edits, EditUnderWay(x)'
               PROVE  edits'[x].no <= written'
    BY <1>1 DEF ListInv, ListTypeOK, CountsFit
  <2>1. CASE x = e
    BY <1>1, <1>3, <2>1 DEF ListInv, ListTypeOK
  <2>2. CASE x # e
    <3>1. edits[x] \in EditState /\ edits[x].no <= written
      BY <1>6, <2>2 DEF ListInv, ListTypeOK, CountsFit, EditUnderWay
    <3> QED BY <1>1, <1>3, <2>2, <3>1 DEF ListInv, ListTypeOK, EditState
  <2> QED BY <2>1, <2>2
<1>8. DialogBusy'
  <2>1. \A x \in Edits : edits'[x].page = edits[x].page
    BY <1>3
  <2>2. ASSUME NEW x \in Edits, EditUnderWay(x)', ThroughDialog(x)'
        PROVE  /\ EditUnderWay(x) /\ ThroughDialog(x)
               /\ dialog' = "submitting" /\ edits'[x].page = chosen'.page
    BY <1>1, <1>6, <2>1, <2>2 DEF ListInv, DialogBusy
  <2>3. ASSUME NEW x \in Edits, NEW y \in Edits, EditUnderWay(x)', ThroughDialog(x)',
               EditUnderWay(y)', ThroughDialog(y)'
        PROVE  x = y
    BY <2>2, <2>3 DEF ListInv, DialogBusy
  <2> QED BY <2>2, <2>3 DEF DialogBusy
<1> QED BY <1>4, <1>5, <1>7, <1>8 DEF ListInv

\* An edit that ends.
LEMMA EditEndsDialog ==
    ASSUME ListInv, NEW e \in Edits, EditUnderWay(e), edits' = [edits EXCEPT ![e] = Made],
           list' = list, NEW d \in {"open", "closed"},
           dialog' = IF ThroughDialog(e) THEN d ELSE dialog,
           ThroughDialog(e) \/ chosen' = chosen, written' = written
    PROVE  /\ DialogBusy' /\ edits' \in [Edits -> EditState \cup {Unmade, Made}]
           /\ \A x \in Edits : EditUnderWay(x)' => edits'[x].no <= written'
<1>1. edits'[e] = Made /\ \A x \in Edits : x # e => edits'[x] = edits[x]
  BY DEF ListInv, ListTypeOK
<1>2. /\ ~EditUnderWay(e)'
      /\ \A x \in Edits : x # e => /\ EditUnderWay(x)' = EditUnderWay(x)
                                   /\ ThroughDialog(x)' = ThroughDialog(x)
  BY <1>1 DEF EditUnderWay, ThroughDialog
<1>3. \A x \in Edits : EditUnderWay(x)' => x # e /\ EditUnderWay(x) /\ edits'[x] = edits[x]
  BY <1>1, <1>2
<1>4. edits' \in [Edits -> EditState \cup {Unmade, Made}]
  BY DEF ListInv, ListTypeOK
<1>5. \A x \in Edits : EditUnderWay(x)' => edits'[x].no <= written'
  BY <1>3 DEF ListInv, CountsFit
<1>6. ASSUME NEW x \in Edits, EditUnderWay(x)', ThroughDialog(x)'
      PROVE  /\ x # e /\ ThroughDialog(x) /\ EditUnderWay(x) /\ ~ThroughDialog(e)
             /\ dialog' = "submitting" /\ edits'[x].page = chosen'.page
  <2>1. x # e /\ ThroughDialog(x) /\ EditUnderWay(x)
    BY <1>2, <1>6
  <2>2. ~ThroughDialog(e)
    BY <2>1 DEF ListInv, DialogBusy
  <2> QED BY <1>1, <2>1, <2>2 DEF ListInv, DialogBusy
<1>7. ASSUME NEW x \in Edits, NEW y \in Edits, EditUnderWay(x)', ThroughDialog(x)',
             EditUnderWay(y)', ThroughDialog(y)'
      PROVE  x = y
  BY <1>6, <1>7 DEF ListInv, DialogBusy
<1>8. DialogBusy'
  BY <1>6, <1>7 DEF DialogBusy
<1> QED BY <1>4, <1>5, <1>8

LEMMA EditAnsweredKeeps ==
    ASSUME ListInv, NEW e \in Edits, EditAnswered(e)
    PROVE  ListInv'
<1>1. /\ EditUnderWay(e) /\ AfterEdit(e) /\ edits' = [edits EXCEPT ![e] = Made]
      /\ dialog' = IF ThroughDialog(e) THEN "closed" ELSE dialog
      /\ seen' = IF edits[e].no > seen THEN edits[e].no ELSE seen
      /\ UNCHANGED <<list, displayed, written, moves>>
  BY DEF EditAnswered
<1>2. edits[e] \in EditState
  BY <1>1 DEF EditUnderWay, ListInv, ListTypeOK
<1> DEFINE of == IF edits[e].kind = "create" /\ edits[e].page # 0 THEN [chosen EXCEPT !.page = 0]
                 ELSE chosen
<1>3. of \in Chosen
  BY ListAssumption DEF ListInv, ListTypeOK, Chosen
<1>4. /\ chosen' = of /\ Refetch(of) /\ listState' \in {"loading", listState}
      /\ of = chosen \/ ThroughDialog(e)
  <2>1. CASE edits[e].kind = "create" /\ edits[e].page # 0
    <3>1. ThroughDialog(e) /\ chosen.page # 0
      BY <1>1, <2>1 DEF ThroughDialog, ListInv, DialogBusy
    <3>2. of.page = 0 /\ of # chosen
      BY <2>1, <3>1 DEF ListInv, ListTypeOK, Chosen
    <3> QED BY <1>1, <2>1, <3>1, <3>2 DEF AfterEdit, Choose
  <2>2. CASE ~(edits[e].kind = "create" /\ edits[e].page # 0)
    BY <1>1, <2>2 DEF AfterEdit, ReloadList
  <2> QED BY <2>1, <2>2
<1> HIDE DEF of
<1>5. fetching' \subseteq Fetching /\ FetchesCurrent' /\ OwnChangesShown'
  BY <1>3, <1>4, RefetchCurrent
<1>6. DialogBusy' /\ edits' \in [Edits -> EditState \cup {Unmade, Made}]
      /\ \A x \in Edits : EditUnderWay(x)' => edits'[x].no <= written'
  BY <1>1, <1>4, EditEndsDialog
<1>7. edits[e].no <= written /\ edits[e].no \in Nat /\ seen \in Nat
  BY <1>1, <1>2 DEF ListInv, ListTypeOK, CountsFit, EditState
<1>8. ListTypeOK'
  BY <1>1, <1>3, <1>4, <1>5, <1>6, <1>7 DEF ListInv, ListTypeOK
<1>9. CountsFit'
  BY <1>1, <1>6, <1>7 DEF ListInv, CountsFit
<1> QED BY <1>5, <1>6, <1>8, <1>9 DEF ListInv

LEMMA EditFailsKeeps ==
    ASSUME ListInv, NEW e \in Edits, EditFails(e)
    PROVE  ListInv'
<1>1. /\ EditUnderWay(e) /\ edits' = [edits EXCEPT ![e] = Made]
      /\ dialog' = IF ThroughDialog(e) THEN "open" ELSE dialog
      /\ moves' \in Nat
      /\ UNCHANGED <<list, listState, displayed, chosen, fetching, written, seen>>
  BY DEF EditFails, Move, ListInv, ListTypeOK
<1>2. DialogBusy' /\ edits' \in [Edits -> EditState \cup {Unmade, Made}]
      /\ \A x \in Edits : EditUnderWay(x)' => edits'[x].no <= written'
  BY <1>1, EditEndsDialog
<1> QED BY <1>1, <1>2 DEF ListInv, ListTypeOK, CountsFit, FetchesCurrent, OwnChangesShown

LEMMA FetchServedKeeps ==
    ASSUME ListInv, NEW f \in fetching, FetchServed(f)
    PROVE  ListInv'
<1> DEFINE read == [f EXCEPT !.read = written]
<1>1. /\ fetching' = (fetching \ {f}) \cup {read}
      /\ UNCHANGED <<list, listState, displayed, chosen, dialog, edits, written, seen, moves>>
  BY DEF FetchServed
<1>2. /\ read \in Fetching /\ read.cancelled = f.cancelled /\ read.of = f.of
      /\ read.read = written /\ written >= seen
  BY DEF ListInv, ListTypeOK, Fetching, CountsFit
<1> HIDE DEF read
<1>3. FetchesCurrent' /\ OwnChangesShown'
  BY <1>1, <1>2 DEF ListInv, FetchesCurrent, OwnChangesShown
<1> QED BY <1>1, <1>2, <1>3 DEF ListInv, ListTypeOK, CountsFit, DialogBusy, EditUnderWay, ThroughDialog

LEMMA FetchEndsKeeps ==
    ASSUME ListInv, NEW f \in fetching, FetchAnswered(f) \/ FetchFails(f)
    PROVE  ListInv'
<1>1. /\ fetching' = fetching \ {f} /\ moves' \in Nat
      /\ UNCHANGED <<list, chosen, dialog, edits, written, seen>>
  BY DEF FetchAnswered, FetchFails, Move, ListInv, ListTypeOK
<1>2. f \in Fetching
  BY DEF ListInv, ListTypeOK
<1>3. CountsFit' /\ DialogBusy' /\ FetchesCurrent'
  BY <1>1 DEF ListInv, CountsFit, DialogBusy, FetchesCurrent, EditUnderWay, ThroughDialog
<1>4. CASE f.cancelled
  <2>1. listState' = listState /\ displayed' = displayed
    BY <1>4 DEF FetchAnswered, FetchFails
  <2> QED BY <1>1, <1>3, <1>4, <2>1 DEF ListInv, ListTypeOK, OwnChangesShown
<1>5. CASE ~f.cancelled /\ FetchAnswered(f)
  <2>1. listState' = "success" /\ displayed' = [of |-> f.of, read |-> f.read] /\ f.read # Nowhere
    BY <1>5 DEF FetchAnswered
  <2>2. f.read \in Nat /\ f.of = chosen /\ f.read >= seen /\ f.of \in Chosen
    BY <1>2, <1>5, <2>1 DEF Fetching, ListInv, FetchesCurrent
  <2> QED BY <1>1, <1>3, <2>1, <2>2 DEF ListInv, ListTypeOK, OwnChangesShown
<1>6. CASE ~f.cancelled /\ FetchFails(f)
  <2>1. listState' = "error" /\ displayed' = displayed
    BY <1>6 DEF FetchFails
  <2> QED BY <1>1, <1>3, <2>1 DEF ListInv, ListTypeOK, OwnChangesShown
<1> QED BY <1>4, <1>5, <1>6

LEMMA ListInductive == ListInv /\ [ListNext]_listPageVars => ListInv'
<1> SUFFICES ASSUME ListInv, [ListNext]_listPageVars
             PROVE  ListInv'
  OBVIOUS
<1>1. ASSUME NEW p \in 0..LastPage, ChoosePage(p)
      PROVE  ListInv'
  <2>1. [chosen EXCEPT !.page = p] \in Chosen
    BY DEF ListInv, ListTypeOK, Chosen
  <2>2. /\ dialog # "submitting" /\ Choose([chosen EXCEPT !.page = p]) /\ moves' \in Nat
        /\ UNCHANGED <<list, listState, displayed, dialog, edits, written, seen>>
    BY <1>1 DEF ChoosePage, Move, ListInv, ListTypeOK
  <2> QED BY <2>1, <2>2, ChooseKeeps
<1>2. ASSUME NEW l \in Limits, ChooseLimit(l)
      PROVE  ListInv'
  <2>1. [page |-> 0, limit |-> l] \in Chosen
    BY ListAssumption DEF Chosen
  <2>2. /\ dialog # "submitting" /\ Choose([page |-> 0, limit |-> l]) /\ moves' \in Nat
        /\ UNCHANGED <<list, listState, displayed, dialog, edits, written, seen>>
    BY <1>2 DEF ChooseLimit, Move, ListInv, ListTypeOK
  <2> QED BY <2>1, <2>2, ChooseKeeps
<1>3. CASE RetryList
  BY <1>3, RetryListKeeps
<1>4. CASE OpenDialog \/ CloseDialog
  BY <1>4, DialogKeeps DEF OpenDialog, CloseDialog
<1>5. ASSUME NEW e \in Edits, SubmitDialog(e)
      PROVE  ListInv'
  <2> DEFINE kind == IF list = "users" THEN "delete" ELSE "create"
  <2>1. kind \in {"create", "delete"} /\ (list = "users" \/ kind = "create")
    OBVIOUS
  <2>2. /\ SendEdit(e, kind) /\ dialog = "open" /\ dialog' = "submitting"
        /\ UNCHANGED <<list, listState, displayed, chosen, fetching, written, seen, moves>>
    BY <1>5 DEF SubmitDialog
  <2> HIDE DEF kind
  <2> QED BY <2>1, <2>2, SendEditKeeps
<1>6. ASSUME NEW e \in Edits, DeactivateRow(e)
      PROVE  ListInv'
  BY <1>6, SendEditKeeps DEF DeactivateRow
<1>7. ASSUME NEW e \in Edits, EditServed(e) \/ EditAnswered(e) \/ EditFails(e)
      PROVE  ListInv'
  BY <1>7, EditServedKeeps, EditAnsweredKeeps, EditFailsKeeps
<1>8. ASSUME NEW f \in fetching, FetchServed(f) \/ FetchAnswered(f) \/ FetchFails(f)
      PROVE  ListInv'
  BY <1>8, FetchServedKeeps, FetchEndsKeeps
<1>9. CASE UNCHANGED listPageVars
  BY <1>9 DEF listPageVars, ListInv, ListTypeOK, FetchesCurrent, CountsFit, DialogBusy,
     OwnChangesShown, EditUnderWay, ThroughDialog
<1> QED BY <1>1, <1>2, <1>3, <1>4, <1>5, <1>6, <1>7, <1>8, <1>9 DEF ListNext

\* For any pages, sizes and changes, the rows a list shows at rest are of the page and size
\* chosen and hold every change made there that was answered.
THEOREM ListsShowOwnChanges == ListSpec => []OwnChangesShown
<1>1. ListInv => OwnChangesShown
  BY DEF ListInv
<1> QED BY <1>1, ListInitially, ListInductive, PTL DEF ListSpec

----------------------------------------------------------------------------
(* The list of products                                                    *)

\* A page that heard of every change shows them all, or is about to: its listing holds them.
\* The change of a reorder is heard of by its answer.
PageCurrent ==
    ~behind /\ news = 0 /\ reorder # "saved" =>
        /\ listing.step = "read" => listing.shows = menu
        /\ listing.step = "none" /\ pageState.status = "success" => pageState.shows = menu

DeletedIsHad == removal.step = "done" => removal.change \subseteq menu

PageInv == ProductsPageTypeOK /\ PageCurrent /\ DeletedIsHad

LEMMA PageInitially == PageInit => PageInv
<1> SUFFICES ASSUME PageInit
             PROVE  PageInv
  OBVIOUS
<1>1. ProductsPageTypeOK
  BY ProductsPageAssumption DEF PageInit, ProductsPageTypeOK, Asked, NoRemoval, NoToggle
<1>2. PageCurrent /\ DeletedIsHad
  BY DEF PageInit, PageCurrent, DeletedIsHad, Asked, NoRemoval
<1> QED BY <1>1, <1>2 DEF PageInv

\* A fetch begins.
LEMMA FetchKeeps ==
    ASSUME PageInv, Fetch, UNCHANGED <<menu, removal>>, news' \in Nat,
           reorder' \in {"off", "on", "saving", "saved"}, ProductsPageTypeOK'
    PROVE  PageInv'
BY DEF PageInv, PageCurrent, DeletedIsHad, Fetch, Asked

LEMMA FetchTyped ==
    ASSUME Fetch
    PROVE  /\ listing' \in [step : {"none", "asked", "read"}, shows : SUBSET Changes]
           /\ pageState' \in [status : {"loading", "success", "error"}, shows : SUBSET Changes]
           /\ behind' \in BOOLEAN
BY DEF Fetch, Asked

LEMMA HydrateTyped ==
    ASSUME ProductsPageTypeOK, Hydrate
    PROVE  /\ dbStar' \in BOOLEAN /\ star' \in BOOLEAN /\ crossed' \in BOOLEAN
           /\ hydration' \in {"none", "asked", "featured", "plain"}
           /\ toggle' \in [step : {"none", "sent", "done"}, was : BOOLEAN]
           /\ starWrites' \in Nat
BY DEF ProductsPageTypeOK, Hydrate

LEMMA HearTyped ==
    ASSUME ProductsPageTypeOK, NEW k \in starNews, Hear(k)
    PROVE  starNews' \subseteq 1..MaxStarWrites /\ starApplied' \in Nat
<1>1. k \in Nat
  BY DEF ProductsPageTypeOK
<1> QED BY <1>1 DEF ProductsPageTypeOK, Hear

LEMMA WriteTyped ==
    ASSUME ProductsPageTypeOK, NEW v, WriteStar(v)
    PROVE  /\ dbStar' = v /\ crossed' \in BOOLEAN
           /\ starNews' \subseteq 1..MaxStarWrites /\ starWrites' \in Nat
<1> USE ProductsPageAssumption DEF ProductsPageTypeOK
<1>1. CASE v = dbStar
  BY <1>1 DEF WriteStar
<1>2. CASE v # dbStar
  <2>1. /\ starWrites' = starWrites + 1 /\ dbStar' = v /\ starWrites < MaxStarWrites
        /\ starNews' = IF socket = "open" THEN starNews \cup {starWrites'} ELSE starNews
        /\ crossed' = (crossed \/ socket = "down")
    BY <1>2 DEF WriteStar
  <2>2. starWrites' \in 1..MaxStarWrites
    BY <2>1
  <2> QED BY <2>1, <2>2
<1> QED BY <1>1, <1>2

\* The steps of the stars leave the list alone.
LEMMA StarsApart ==
    ASSUME PageInv, UNCHANGED <<listVars, behind>>, ProductsPageTypeOK'
    PROVE  PageInv'
BY DEF PageInv, PageCurrent, DeletedIsHad, listVars

\* A change the page hears of, or will not.
LEMMA ChangeComes ==
    ASSUME PageInv, NEW cs \in SUBSET Changes, menu' = menu \cup cs, Publish, Unheard,
           socket \in {"open", "down"}, UNCHANGED <<pageState, listing, reorder>>,
           removal' = removal \/ (removal' = [removal EXCEPT !.step = "done"] /\ cs = removal.change),
           ProductsPageTypeOK'
    PROVE  PageInv'
<1>1. socket = "open" => news' # 0
  BY DEF Publish, PageInv, ProductsPageTypeOK
<1>2. socket = "down" => behind'
  BY DEF Unheard
<1>3. PageCurrent'
  BY <1>1, <1>2 DEF PageCurrent
<1>4. DeletedIsHad'
  BY DEF PageInv, DeletedIsHad, ProductsPageTypeOK
<1> QED BY <1>3, <1>4 DEF PageInv

LEMMA PageTypesInductive ==
    ASSUME PageInv, [PageNext]_pageVars
    PROVE  ProductsPageTypeOK'
<1> USE ProductsPageAssumption DEF PageInv
<1>1. ASSUME NEW c \in Changes, PeerChanges(c)
      PROVE  ProductsPageTypeOK'
  BY <1>1 DEF ProductsPageTypeOK, PeerChanges, Publish, Unheard, starVars
<1>2. ASSUME NEW c \in Changes, SaveReorder(c)
      PROVE  ProductsPageTypeOK'
  BY <1>2 DEF ProductsPageTypeOK, SaveReorder, Publish, starVars
<1>3. ASSUME NEW c \in Changes, ConfirmDelete(c)
      PROVE  ProductsPageTypeOK'
  BY <1>3 DEF ProductsPageTypeOK, ConfirmDelete, starVars
<1>4. CASE PeerStars
  <2>1. WriteStar(~dbStar)
    BY <1>4 DEF PeerStars
  <2>2. dbStar' = ~dbStar
    BY <2>1 DEF WriteStar
  <2>3. dbStar' \in BOOLEAN /\ crossed' \in BOOLEAN
        /\ starNews' \subseteq 1..MaxStarWrites /\ starWrites' \in Nat
    BY <2>1, <2>2, WriteTyped
  <2> QED BY <1>4, <2>3 DEF ProductsPageTypeOK, PeerStars, listVars
<1>5. CASE ServerLists
  BY <1>5 DEF ProductsPageTypeOK, ServerLists, Took, starVars
<1>6. CASE ServerListsFeatured
  BY <1>6 DEF ProductsPageTypeOK, ServerListsFeatured, listVars
<1>7. CASE ServerDeletes
  BY <1>7 DEF ProductsPageTypeOK, ServerDeletes, Publish, Unheard, starVars
<1>8. CASE ServerToggles
  <2>1. WriteStar(~toggle.was)
    BY <1>8 DEF ServerToggles
  <2>2. dbStar' = ~toggle.was
    BY <2>1 DEF WriteStar
  <2>3. dbStar' \in BOOLEAN /\ crossed' \in BOOLEAN
        /\ starNews' \subseteq 1..MaxStarWrites /\ starWrites' \in Nat
    BY <2>1, <2>2, WriteTyped
  <2> QED BY <1>8, <2>3 DEF ProductsPageTypeOK, ServerToggles, listVars
<1>9. CASE ChangeFilter
  BY <1>9, FetchTyped DEF ProductsPageTypeOK, ChangeFilter, starVars
<1>10. CASE Retry
  BY <1>10, FetchTyped, HydrateTyped DEF ProductsPageTypeOK, Retry, Reload
<1>11. CASE ListAnswer
  BY <1>11 DEF ProductsPageTypeOK, ListAnswer, Unasked, starVars
<1>12. CASE ListFails
  BY <1>12 DEF ProductsPageTypeOK, ListFails, Unasked, starVars
<1>13. CASE HydrateAnswer
  BY <1>13 DEF ProductsPageTypeOK, HydrateAnswer, listVars
<1>14. CASE SocketDown
  BY <1>14 DEF ProductsPageTypeOK, SocketDown
<1>15. CASE SocketUp
  BY <1>15 DEF ProductsPageTypeOK, SocketUp, listVars, starVars
<1>16. CASE ProductEvent
  <2>1. news' \in Nat
    BY <1>16 DEF ProductEvent, ProductsPageTypeOK
  <2> QED BY <1>16, <2>1, FetchTyped, HydrateTyped DEF ProductsPageTypeOK, ProductEvent, Reload, starVars
<1>17. ASSUME NEW k \in starNews, StarEvent(k)
       PROVE  ProductsPageTypeOK'
  <2>1. k \in Nat
    BY DEF ProductsPageTypeOK
  <2>2. (k % 2 = 1) \in BOOLEAN
    OBVIOUS
  <2>3. starNews' \subseteq 1..MaxStarWrites /\ starApplied' \in Nat
    BY <1>17, HearTyped DEF StarEvent
  <2>4. crossed' \in BOOLEAN
    BY <1>17 DEF StarEvent
  <2> QED BY <1>17, <2>2, <2>3, <2>4 DEF ProductsPageTypeOK, StarEvent, listVars
<1>27. ASSUME NEW k \in starNews, StarEventReloads(k)
       PROVE  ProductsPageTypeOK'
  <2>1. starNews' \subseteq 1..MaxStarWrites /\ starApplied' \in Nat
    BY <1>27, HearTyped DEF StarEventReloads
  <2> QED BY <1>27, <2>1, FetchTyped, HydrateTyped DEF ProductsPageTypeOK, StarEventReloads
<1>28. CASE HydrateFails
  BY <1>28 DEF ProductsPageTypeOK, HydrateFails, listVars
<1>29. CASE DeleteFails
  BY <1>29 DEF ProductsPageTypeOK, DeleteFails, NoRemoval, starVars
<1>18. CASE StartReorder \/ CancelReorder
  BY <1>18 DEF ProductsPageTypeOK, StartReorder, CancelReorder, starVars
<1>19. CASE ReorderSaved
  BY <1>19, FetchTyped, HydrateTyped DEF ProductsPageTypeOK, ReorderSaved, Reload
<1>20. CASE ReorderFails
  BY <1>20 DEF ProductsPageTypeOK, ReorderFails, starVars
<1>21. CASE DeleteDropsRow
  BY <1>21 DEF ProductsPageTypeOK, DeleteDropsRow, NoRemoval, starVars
<1>22. CASE DeleteReloads
  BY <1>22, FetchTyped, HydrateTyped DEF ProductsPageTypeOK, DeleteReloads, Reload, NoRemoval
<1>23. CASE ToggleFeatured
  BY <1>23 DEF ProductsPageTypeOK, ToggleFeatured, listVars
<1>24. CASE ToggleDone
  BY <1>24 DEF ProductsPageTypeOK, ToggleDone, NoToggle, listVars
<1>25. CASE ToggleFails
  BY <1>25 DEF ProductsPageTypeOK, ToggleFails, Revert, NoToggle, listVars
<1>26. CASE UNCHANGED pageVars
  BY <1>26 DEF ProductsPageTypeOK, pageVars, listVars, starVars
<1> QED BY <1>1, <1>2, <1>3, <1>4, <1>5, <1>6, <1>7, <1>8, <1>9, <1>10, <1>11, <1>12, <1>13, <1>14,
           <1>15, <1>16, <1>17, <1>18, <1>19, <1>20, <1>21, <1>22, <1>23, <1>24, <1>25, <1>26, <1>27,
           <1>28, <1>29 DEF PageNext

LEMMA PageInductive == PageInv /\ [PageNext]_pageVars => PageInv'
<1> SUFFICES ASSUME PageInv, [PageNext]_pageVars
             PROVE  PageInv'
  OBVIOUS
<1>0. ProductsPageTypeOK /\ ProductsPageTypeOK'
  BY PageTypesInductive DEF PageInv
<1>1. ASSUME NEW c \in Changes, PeerChanges(c)
      PROVE  PageInv'
  <2>1. PICK cs \in SUBSET Changes : cs = {c}
    OBVIOUS
  <2> QED BY <1>0, <1>1, <2>1, ChangeComes DEF PeerChanges, ProductsPageTypeOK
<1>2. ASSUME NEW c \in Changes, SaveReorder(c)
      PROVE  PageInv'
  BY <1>0, <1>2 DEF SaveReorder, PageInv, PageCurrent, DeletedIsHad
<1>3. ASSUME NEW c \in Changes, ConfirmDelete(c)
      PROVE  PageInv'
  BY <1>0, <1>3 DEF ConfirmDelete, PageInv, PageCurrent, DeletedIsHad
<1>4. CASE \/ PeerStars \/ ServerListsFeatured \/ ServerToggles \/ HydrateAnswer \/ HydrateFails
           \/ (\E k \in starNews : StarEvent(k)) \/ ToggleFeatured \/ ToggleDone \/ ToggleFails
  BY <1>0, <1>4, StarsApart DEF PeerStars, ServerListsFeatured, ServerToggles, HydrateAnswer,
     HydrateFails, StarEvent, ToggleFeatured, ToggleDone, ToggleFails
<1>5. CASE ServerLists
  BY <1>0, <1>5 DEF ServerLists, Took, PageInv, PageCurrent, DeletedIsHad
<1>6. CASE ServerDeletes
  <2>1. PICK cs \in SUBSET Changes : cs = removal.change
    BY <1>0 DEF ProductsPageTypeOK
  <2> QED BY <1>0, <1>6, <2>1, ChangeComes DEF ServerDeletes, ProductsPageTypeOK
<1>7. CASE ChangeFilter \/ Retry \/ ReorderSaved
  BY <1>0, <1>7, FetchKeeps DEF ChangeFilter, Retry, ReorderSaved, Reload, ProductsPageTypeOK
<1>8. CASE ListAnswer
  BY <1>0, <1>8 DEF ListAnswer, Unasked, PageInv, PageCurrent, DeletedIsHad
<1>9. CASE ListFails
  BY <1>0, <1>9 DEF ListFails, Unasked, PageInv, PageCurrent, DeletedIsHad
<1>10. CASE SocketDown
  <2>1. ~behind' => ~behind /\ ~(news > 0)
    BY <1>10 DEF SocketDown
  <2>2. ~(news > 0) => news = 0
    BY <1>0 DEF ProductsPageTypeOK
  <2>3. UNCHANGED <<menu, pageState, listing, reorder, removal>>
    BY <1>10 DEF SocketDown
  <2> QED BY <1>0, <2>1, <2>2, <2>3 DEF PageInv, PageCurrent, DeletedIsHad
<1>11. CASE SocketUp
  BY <1>0, <1>11, StarsApart DEF SocketUp
<1>12. CASE ProductEvent
  <2>1. CASE reorder = "off"
    BY <1>0, <1>12, <2>1, FetchKeeps DEF ProductEvent, Reload, ProductsPageTypeOK
  <2>2. CASE reorder # "off"
    BY <1>0, <1>12, <2>2 DEF ProductEvent, PageInv, PageCurrent, DeletedIsHad
  <2> QED BY <2>1, <2>2
<1>13. CASE StartReorder \/ CancelReorder
  BY <1>0, <1>13 DEF StartReorder, CancelReorder, PageInv, PageCurrent, DeletedIsHad
<1>14. CASE ReorderFails
  BY <1>0, <1>14 DEF ReorderFails, PageInv, PageCurrent, DeletedIsHad
<1>15. CASE DeleteDropsRow
  <2>1. /\ removal.step = "done" /\ removal' = NoRemoval
        /\ pageState' = [status |-> "success", shows |-> removal.captured \cup removal.change]
        /\ behind' = (behind \/ /\ listing.step = "none"
                                /\ pageState # [status |-> "success", shows |-> removal.captured])
        /\ UNCHANGED <<menu, news, listing, reorder>>
    BY <1>15 DEF DeleteDropsRow
  <2>2. DeletedIsHad'
    BY <2>1 DEF DeletedIsHad, NoRemoval
  <2>3. PageCurrent'
    <3> SUFFICES ASSUME ~behind', news = 0, reorder # "saved"
                 PROVE  /\ listing.step = "read" => listing.shows = menu
                        /\ listing.step = "none" => removal.captured \cup removal.change = menu
      BY <2>1 DEF PageCurrent
    <3>1. ~behind /\ (listing.step = "none" =>
                          pageState = [status |-> "success", shows |-> removal.captured])
      BY <2>1
    <3> QED BY <2>1, <3>1 DEF PageInv, PageCurrent, DeletedIsHad
  <2> QED BY <1>0, <2>2, <2>3 DEF PageInv
<1>16. CASE DeleteReloads
  BY <1>0, <1>16 DEF DeleteReloads, Reload, Fetch, Asked, NoRemoval, PageInv, PageCurrent, DeletedIsHad
<1>17. CASE UNCHANGED pageVars
  BY <1>0, <1>17, StarsApart DEF pageVars
<1>18. ASSUME NEW k \in starNews, StarEventReloads(k)
       PROVE  PageInv'
  BY <1>0, <1>18, FetchKeeps DEF StarEventReloads, ProductsPageTypeOK
<1>19. CASE DeleteFails
  BY <1>0, <1>19 DEF DeleteFails, NoRemoval, PageInv, PageCurrent, DeletedIsHad
<1> QED BY <1>1, <1>2, <1>3, <1>4, <1>5, <1>6, <1>7, <1>8, <1>9, <1>10, <1>11, <1>12, <1>13, <1>14,
           <1>15, <1>16, <1>17, <1>18, <1>19 DEF PageNext

\* A page at rest shows every change that it could have heard of - with any changes, filters,
\* deletions and reorders (fetchProducts, the product events, handleConfirmDelete).
THEOREM ShowsMenu == PageSpec => []PageShowsMenu
<1>1. PageInv => PageShowsMenu
  BY DEF PageInv, PageCurrent, PageShowsMenu
<1> QED BY <1>1, PageInitially, PageInductive, PTL DEF PageSpec

\* The flag is that of the last write; an event on its way tells of a write there was; and the
\* last write's has come, or is on its way, if one is: none is while the socket is down.
WritesCounted ==
    /\ dbStar <=> starWrites % 2 = 1
    /\ starNews \subseteq 1..starWrites /\ starApplied <= starWrites
    /\ socket = "down" => starNews = {}
    /\ starNews # {} => starWrites \in starNews \/ starApplied = starWrites

\* While nothing crossed: what was read is the flag, the click set the star to the other value,
\* and once the server has it an event is on its way.
StarFollows ==
    ~crossed =>
        /\ hydration # "none" => toggle.step = "none"
        /\ starNews = {} => /\ hydration = "featured" => dbStar
                            /\ hydration = "plain" => ~dbStar
        /\ toggle.step = "sent" => (star <=> ~toggle.was) /\ (starNews = {} => (toggle.was <=> dbStar))
        /\ toggle.step = "done" => starNews # {}
        /\ hydration = "none" /\ toggle.step = "none" /\ starNews = {} => (star <=> dbStar)

StarInv == ProductsPageTypeOK /\ WritesCounted /\ StarFollows

LEMMA StarInitially == PageInit => StarInv
<1> SUFFICES ASSUME PageInit
             PROVE  StarInv
  OBVIOUS
<1>1. ProductsPageTypeOK
  BY PageInitially DEF PageInv
<1>2. WritesCounted
  BY DEF PageInit, WritesCounted
<1>3. StarFollows
  BY DEF PageInit, StarFollows, NoToggle
<1> QED BY <1>1, <1>2, <1>3 DEF StarInv

\* A write that changes the flag sends an event, or nobody is there to hear it.
LEMMA WriteCounts ==
    ASSUME StarInv, ProductsPageTypeOK', NEW v, WriteStar(v), UNCHANGED <<starApplied, socket>>
    PROVE  /\ WritesCounted'
           /\ dbStar' = v
           /\ \/ v = dbStar /\ UNCHANGED <<dbStar, starNews, crossed>>
              \/ crossed'
              \/ starNews' # {} /\ crossed' = crossed
<1> USE DEF StarInv
<1>1. dbStar' = v
  BY DEF WriteStar
<1>2. CASE v = dbStar
  <2>1. UNCHANGED <<dbStar, starNews, starWrites, crossed>>
    BY <1>2 DEF WriteStar
  <2>2. WritesCounted'
    BY <2>1 DEF WritesCounted
  <2> QED BY <1>1, <1>2, <2>1, <2>2
<1>3. CASE v # dbStar
  <2>1. /\ starWrites' = starWrites + 1
        /\ starNews' = IF socket = "open" THEN starNews \cup {starWrites'} ELSE starNews
        /\ crossed' = (crossed \/ socket = "down")
    BY <1>3 DEF WriteStar
  <2>2. dbStar' <=> ~dbStar
    BY <1>1, <1>3 DEF ProductsPageTypeOK
  <2>3. starWrites \in Nat
    BY DEF ProductsPageTypeOK
  <2>4. starWrites' % 2 = 1 <=> ~(starWrites % 2 = 1)
    BY <2>1, <2>3
  <2>5. dbStar' <=> starWrites' % 2 = 1
    BY <2>2, <2>4 DEF WritesCounted
  <2>6. starNews' \subseteq 1..starWrites' /\ starApplied' <= starWrites'
    BY <2>1, <2>3 DEF WritesCounted, ProductsPageTypeOK
  <2>7. /\ socket' = "down" => starNews' = {}
        /\ starNews' # {} => starWrites' \in starNews' \/ starApplied' = starWrites'
    <3>1. CASE socket = "open"
      <4>1. starWrites' \in starNews' /\ socket' = "open"
        BY <2>1, <3>1
      <4> QED BY <4>1
    <3>2. CASE socket = "down"
      <4>1. socket # "open" /\ starNews = {}
        BY <3>2 DEF WritesCounted
      <4>2. starNews' = {}
        BY <2>1, <4>1
      <4> QED BY <4>2
    <3> QED BY <3>1, <3>2 DEF ProductsPageTypeOK
  <2>8. WritesCounted'
    BY <2>5, <2>6, <2>7 DEF WritesCounted
  <2>9. CASE socket = "open"
    <3>1. starNews' # {}
      BY <2>1, <2>9
    <3>2. crossed' = crossed
      <4>1. ~(socket = "down")
        BY <2>9
      <4> QED BY <2>1, <4>1 DEF ProductsPageTypeOK
    <3> QED BY <1>1, <2>8, <3>1, <3>2
  <2>10. CASE socket = "down"
    BY <1>1, <2>1, <2>8, <2>10
  <2> QED BY <2>9, <2>10 DEF ProductsPageTypeOK
<1> QED BY <1>2, <1>3

LEMMA StarStays ==
    ASSUME StarInv, ProductsPageTypeOK', UNCHANGED <<starVars, socket, crossed>>
    PROVE  StarInv'
BY DEF StarInv, WritesCounted, StarFollows, starVars

LEMMA HydrateKeeps ==
    ASSUME StarInv, ProductsPageTypeOK', Hydrate, WritesCounted'
    PROVE  StarInv'
<1>1. hydration' = "asked" /\ crossed' = (toggle.step # "none") /\ UNCHANGED <<dbStar, toggle>>
  BY DEF Hydrate
<1>3. ~crossed' => toggle.step = "none"
  BY <1>1
<1>4. StarFollows'
  BY <1>1, <1>3 DEF StarFollows
<1> QED BY <1>4 DEF StarInv

LEMMA ReloadKeeps ==
    ASSUME StarInv, ProductsPageTypeOK', Reload, UNCHANGED socket
    PROVE  StarInv'
<1>1. Hydrate /\ UNCHANGED <<dbStar, starNews, starWrites, starApplied, socket>>
  BY DEF Reload, Hydrate
<1>2. WritesCounted'
  BY <1>1 DEF StarInv, WritesCounted
<1> QED BY <1>1, <1>2, HydrateKeeps

\* An event that comes is counted.
LEMMA HearCounts ==
    ASSUME StarInv, ProductsPageTypeOK', NEW k \in starNews, Hear(k),
           UNCHANGED <<socket, dbStar, starWrites>>
    PROVE  WritesCounted' /\ k <= starWrites /\ starApplied <= starWrites
<1> USE DEF StarInv
<1>1. /\ starNews' = starNews \ {k}
      /\ starApplied' = IF k > starApplied THEN k ELSE starApplied
  BY DEF Hear
<1>2. k \in Nat /\ starWrites \in Nat /\ starApplied \in Nat /\ k <= starWrites /\ starApplied <= starWrites
  BY DEF WritesCounted, ProductsPageTypeOK
<1>3. starNews' \subseteq 1..starWrites /\ starApplied' <= starWrites
  BY <1>1, <1>2 DEF WritesCounted
<1>4. starNews' # {} => starWrites \in starNews' \/ starApplied' = starWrites
  <2>1. CASE starWrites = k
    BY <1>1, <1>2, <2>1
  <2>2. CASE starWrites # k /\ starWrites \in starNews
    BY <1>1, <2>2
  <2>3. CASE starApplied = starWrites
    BY <1>1, <1>2, <2>3
  <2> QED BY <2>1, <2>2, <2>3 DEF WritesCounted
<1>5. socket' = "down" => starNews' = {}
  BY <1>1 DEF WritesCounted
<1>6. dbStar' <=> starWrites' % 2 = 1
  BY DEF WritesCounted
<1> QED BY <1>2, <1>3, <1>4, <1>5, <1>6 DEF WritesCounted

LEMMA StarEventKeeps ==
    ASSUME StarInv, ProductsPageTypeOK', NEW k \in starNews, StarEvent(k)
    PROVE  StarInv'
<1> USE DEF StarInv
<1>1. /\ Hear(k) /\ star' = (k % 2 = 1)
      /\ crossed' = \/ hydration # "none" \/ toggle.step # "none" \/ k < starApplied
                    \/ crossed /\ k # starWrites
      /\ UNCHANGED <<socket, dbStar, hydration, toggle, starWrites>>
  BY DEF StarEvent, listVars
<1>2. /\ WritesCounted' /\ k <= starWrites /\ starApplied <= starWrites
      /\ starNews' = starNews \ {k}
      /\ k \in Nat /\ starWrites \in Nat /\ starApplied \in Nat
  BY <1>1, HearCounts DEF Hear, ProductsPageTypeOK
<1>4. ~crossed' => hydration = "none" /\ toggle.step = "none" /\ ~(k < starApplied)
  BY <1>1
\* The last event to come is that of the last write.
<1>5. ~crossed' /\ starNews' = {} => (star' <=> dbStar)
  <2> SUFFICES ASSUME ~crossed', starNews' = {}
               PROVE  star' <=> dbStar
    OBVIOUS
  <2>1. starWrites = k
    <3>1. ~(k < starApplied)
      BY <1>4
    <3>2. starWrites \in starNews => starWrites = k
      BY <1>2
    <3>3. starApplied = starWrites => starWrites = k
      BY <1>2, <3>1
    <3>4. starWrites \in starNews \/ starApplied = starWrites
      BY DEF WritesCounted
    <3> QED BY <3>2, <3>3, <3>4
  <2>2. star' <=> k % 2 = 1
    BY <1>1
  <2> QED BY <2>1, <2>2 DEF WritesCounted
<1>6. StarFollows'
  BY <1>1, <1>4, <1>5 DEF StarFollows
<1> QED BY <1>2, <1>6

LEMMA StarInductive ==
    ASSUME StarInv, ProductsPageTypeOK', [PageNext]_pageVars
    PROVE  StarInv'
<1> USE DEF StarInv
<1>1. CASE UNCHANGED <<starVars, socket, crossed>>
  BY <1>1, StarStays
<1>2. CASE \/ \E c \in Changes : PeerChanges(c) \/ SaveReorder(c) \/ ConfirmDelete(c)
           \/ ServerLists \/ ServerDeletes \/ ChangeFilter \/ ListAnswer \/ ListFails
           \/ StartReorder \/ CancelReorder \/ ReorderFails \/ DeleteDropsRow
           \/ DeleteFails \/ UNCHANGED pageVars
  BY <1>1, <1>2 DEF PeerChanges, SaveReorder, ConfirmDelete, ServerLists, ServerDeletes, ChangeFilter,
     ListAnswer, ListFails, StartReorder, CancelReorder, ReorderFails, DeleteDropsRow, DeleteFails,
     pageVars
<1>3. CASE Retry \/ ReorderSaved \/ DeleteReloads
  BY <1>3, ReloadKeeps DEF Retry, ReorderSaved, DeleteReloads
<1>4. CASE ProductEvent
  <2>1. CASE reorder = "off"
    BY <1>4, <2>1, ReloadKeeps DEF ProductEvent
  <2>2. CASE reorder # "off"
    BY <1>1, <1>4, <2>2 DEF ProductEvent
  <2> QED BY <2>1, <2>2
<1>5. CASE PeerStars
  <2>1. WriteStar(~dbStar) /\ UNCHANGED <<socket, star, hydration, toggle, starApplied>>
    BY <1>5 DEF PeerStars
  <2>2. /\ WritesCounted'
        /\ \/ UNCHANGED <<dbStar, starNews, crossed>>
           \/ crossed'
           \/ starNews' # {} /\ crossed' = crossed
    BY <2>1, WriteCounts
  <2>3. StarFollows'
    BY <2>1, <2>2 DEF StarFollows
  <2> QED BY <2>2, <2>3
<1>6. CASE ServerToggles
  <2>1. /\ WriteStar(~toggle.was) /\ toggle.step = "sent" /\ toggle' = [toggle EXCEPT !.step = "done"]
        /\ UNCHANGED <<socket, star, hydration, starApplied>>
    BY <1>6 DEF ServerToggles
  <2>2. /\ WritesCounted' /\ dbStar' = ~toggle.was
        /\ \/ UNCHANGED <<dbStar, starNews, crossed>>
           \/ crossed'
           \/ starNews' # {} /\ crossed' = crossed
    BY <2>1, WriteCounts
  <2>3. toggle'.step = "done"
    BY <2>1 DEF ProductsPageTypeOK
  <2>4. ~crossed' => hydration = "none" /\ starNews' # {}
    <3> SUFFICES ASSUME ~crossed'
                 PROVE  hydration = "none" /\ starNews' # {}
      OBVIOUS
    <3>1. toggle.step = "sent"
      BY <2>1
    <3>2. ~crossed
      BY <2>1 DEF WriteStar
    <3>3. hydration = "none"
      BY <3>1, <3>2 DEF StarFollows
    <3>4. starNews = {} => (toggle.was <=> dbStar)
      BY <3>1, <3>2 DEF StarFollows
    <3>5. dbStar' <=> ~toggle.was
      BY <2>2
    <3>6. CASE UNCHANGED <<dbStar, starNews>>
      BY <3>3, <3>4, <3>5, <3>6
    <3> QED BY <2>2, <3>3, <3>6
  <2>5. StarFollows'
    BY <2>1, <2>3, <2>4 DEF StarFollows
  <2> QED BY <2>2, <2>5
<1>7. CASE ServerListsFeatured
  <2>1. /\ hydration = "asked" /\ hydration' = IF dbStar THEN "featured" ELSE "plain"
        /\ UNCHANGED <<socket, dbStar, star, toggle, starNews, starWrites, starApplied, crossed>>
    BY <1>7 DEF ServerListsFeatured
  <2>2. WritesCounted'
    BY <2>1 DEF WritesCounted
  <2>3. hydration' # "none" /\ (hydration' = "featured" => dbStar) /\ (hydration' = "plain" => ~dbStar)
    BY <2>1
  <2>4. StarFollows'
    BY <2>1, <2>3 DEF StarFollows
  <2> QED BY <2>2, <2>4
<1>8. CASE HydrateAnswer
  <2>1. /\ hydration \in {"featured", "plain"} /\ star' = (hydration = "featured") /\ hydration' = "none"
        /\ UNCHANGED <<socket, dbStar, toggle, starNews, starWrites, starApplied, crossed>>
    BY <1>8 DEF HydrateAnswer
  <2>2. WritesCounted'
    BY <2>1 DEF WritesCounted
  <2>3. star' <=> hydration = "featured"
    BY <2>1
  <2>4. StarFollows'
    BY <2>1, <2>3 DEF StarFollows
  <2> QED BY <2>2, <2>4
<1>9. CASE SocketDown
  <2>1. /\ socket' = "down" /\ starNews' = {} /\ crossed' = (crossed \/ starNews # {})
        /\ UNCHANGED <<dbStar, star, hydration, toggle, starWrites, starApplied>>
    BY <1>9 DEF SocketDown
  <2>2. WritesCounted'
    BY <2>1 DEF WritesCounted
  <2>3. ~crossed' => ~crossed /\ starNews = {}
    BY <2>1
  <2>4. StarFollows'
    BY <2>1, <2>3 DEF StarFollows
  <2> QED BY <2>2, <2>4
<1>10. CASE SocketUp
  BY <1>10 DEF SocketUp, starVars, WritesCounted, StarFollows
<1>11. CASE ToggleFeatured
  <2>1. /\ toggle.step = "none" /\ toggle' = [step |-> "sent", was |-> star] /\ star' = ~star
        /\ crossed' = (crossed \/ hydration # "none" \/ starNews # {})
        /\ UNCHANGED <<socket, dbStar, hydration, starNews, starWrites, starApplied>>
    BY <1>11 DEF ToggleFeatured
  <2>2. WritesCounted'
    BY <2>1 DEF WritesCounted
  <2>3. ~crossed' => ~crossed /\ hydration = "none" /\ starNews = {}
    BY <2>1
  <2>4. toggle'.step = "sent" /\ toggle'.was = star
    BY <2>1
  <2>5. ~crossed' => (star <=> dbStar)
    BY <2>1, <2>3 DEF StarFollows
  <2>6. StarFollows'
    BY <2>1, <2>3, <2>4, <2>5 DEF StarFollows
  <2> QED BY <2>2, <2>6
<1>12. CASE ToggleDone
  <2>1. /\ toggle.step = "done" /\ toggle' = NoToggle
        /\ UNCHANGED <<socket, dbStar, star, hydration, starNews, starWrites, starApplied, crossed>>
    BY <1>12 DEF ToggleDone
  <2>2. WritesCounted'
    BY <2>1 DEF WritesCounted
  <2>3. StarFollows'
    BY <2>1 DEF StarFollows, NoToggle
  <2> QED BY <2>2, <2>3
<1>13. CASE ToggleFails
  <2>1. /\ toggle.step # "none" /\ star' = toggle.was /\ toggle' = NoToggle
        /\ crossed' = (crossed \/ toggle.step = "done" \/ starNews # {})
        /\ UNCHANGED <<socket, dbStar, hydration, starNews, starWrites, starApplied>>
    BY <1>13 DEF ToggleFails, Revert
  <2>2. WritesCounted'
    BY <2>1 DEF WritesCounted
  <2>3. ~crossed' => ~crossed /\ toggle.step = "sent" /\ starNews = {}
    BY <2>1 DEF ProductsPageTypeOK
  <2>4. ~crossed' => hydration = "none" /\ (star' <=> dbStar)
    BY <2>1, <2>3 DEF StarFollows
  <2>5. StarFollows'
    BY <2>1, <2>4 DEF StarFollows, NoToggle
  <2> QED BY <2>2, <2>5
<1>14. ASSUME NEW k \in starNews, StarEventReloads(k)
       PROVE  StarInv'
  <2>1. Hear(k) /\ Hydrate /\ UNCHANGED <<socket, dbStar, starWrites>>
    BY <1>14 DEF StarEventReloads, Hydrate
  <2>2. WritesCounted'
    BY <2>1, HearCounts
  <2> QED BY <2>1, <2>2, HydrateKeeps
<1>15. CASE HydrateFails
  <2>1. crossed' /\ UNCHANGED <<socket, dbStar, starNews, starWrites, starApplied>>
    BY <1>15 DEF HydrateFails
  <2>2. WritesCounted'
    BY <2>1 DEF WritesCounted
  <2> QED BY <2>1, <2>2 DEF StarFollows
<1> QED BY <1>2, <1>3, <1>4, <1>5, <1>6, <1>7, <1>8, <1>9, <1>10, <1>11, <1>12, <1>13, <1>14, <1>15,
           StarEventKeeps DEF PageNext

\* A star at rest tells the flag, unless something crossed or was lost on the way, or the flags
\* could not be read, and it was not put right since - with any number of writes, and events in
\* any order (listFeaturedProductIds, handleToggleFeatured, the product.featured events).
THEOREM StarTellsTheFlag == PageSpec => []StarAtRestIsRight
<1>1. ProductsPageTypeOK /\ StarFollows => StarAtRestIsRight
  BY DEF StarFollows, StarAtRestIsRight, ProductsPageTypeOK
<1>2. PageSpec => []ProductsPageTypeOK
  <2>1. PageInv => ProductsPageTypeOK
    BY DEF PageInv
  <2> QED BY <2>1, PageInitially, PageInductive, PTL DEF PageSpec
<1>3. StarInv /\ ProductsPageTypeOK' /\ [PageNext]_pageVars => StarInv'
  BY StarInductive
<1>4. StarInv => StarAtRestIsRight
  BY <1>1 DEF StarInv
<1> QED BY <1>2, <1>3, <1>4, StarInitially, PTL DEF PageSpec

----------------------------------------------------------------------------
(* The form of a product                                                   *)

\* What the uploads under way will put back is what the form shows, if no variant was edited.
KeptBy(f) ==
    /\ form[f].step \in {"closed", "loading"} =>
          /\ FieldsOf(f) = initialForm /\ meant[f] = initialForm
          /\ f \notin imageUpload /\ rowUploads[f] = {}
    /\ f \notin crossedForms => /\ FieldsOf(f) = meant[f]
                                /\ \A x \in rowUploads[f] : x.rows = FieldsOf(f).rows
    /\ FieldsOf(f).sku = meant[f].sku /\ FieldsOf(f).image = meant[f].image

\* What a form made has the SKU the form shows, and its request carries.
MadeBy(f) ==
    /\ made[f] \subseteq OnShelf
    /\ form[f].step = "loading" \/ form[f].id # Blank => form[f].id \in OnShelf
    /\ made[f] # {} => form[f].id = Blank /\ form[f].step \notin {"closed", "loading"}
    /\ f \notin retyped => /\ \A p \in made[f] : shelf[p].sku = FieldsOf(f).sku
                           /\ form[f].step = "saving" => payload[f].sku = FieldsOf(f).sku
                           /\ \A p, q \in made[f] : p = q

\* A request carries what its user meant, but for the variants that crossed an image.
SendsAsMeant(f) ==
    form[f].step = "saving" =>
        /\ payload[f].sku = submitted[f].sku /\ payload[f].image = submitted[f].image
        /\ f \notin crossedForms => payload[f].rows = submitted[f].rows

ProductFormInv ==
    ProductFormTypeOK /\ \A f \in Forms : KeptBy(f) /\ MadeBy(f) /\ SendsAsMeant(f)

LEMMA ProductFormInitially == ProductFormInit => ProductFormInv
<1> SUFFICES ASSUME ProductFormInit
             PROVE  ProductFormInv
  OBVIOUS
<1> USE ProductFormAssumption DEF ProductFormInit
<1>1. initialForm \in Fields
  BY DEF initialForm, Fields
<1>2. ClosedForm \in Form
  BY <1>1 DEF ClosedForm, Form, FormSteps
<1>3. ProductFormTypeOK
  BY <1>1, <1>2 DEF ProductFormTypeOK
<1>4. ASSUME NEW f \in Forms
      PROVE  KeptBy(f) /\ MadeBy(f) /\ SendsAsMeant(f)
  <2>1. form[f].step = "closed" /\ form[f].id = Blank /\ FieldsOf(f) = initialForm /\ meant[f] = initialForm
    BY DEF ClosedForm, FieldsOf
  <2>2. rowUploads[f] = {} /\ made[f] = {}
    OBVIOUS
  <2> QED BY <2>1, <2>2 DEF KeptBy, MadeBy, SendsAsMeant
<1> QED BY <1>3, <1>4 DEF ProductFormInv

\* What one tab does.
FormStep(f) ==
    \/ OpenNew(f) \/ Loaded(f) \/ ServerCreates(f) \/ \E p \in Shelf : OpenEdit(f, p)
    \/ \E sku \in FormSkus : TypeSku(f, sku)
    \/ RemoveImage(f) \/ PickImage(f) \/ ImageUploaded(f)
    \/ \E r \in Rows : EditRow(f, r) \/ PickRowImage(f, r)
    \/ \E x \in rowUploads[f] : RowImageUploaded(f, x)
    \/ UploadFails(f)
    \/ Submit(f) \/ ServerRefuses(f) \/ ServerUpdates(f)
    \/ SaveAnswered(f) \/ SaveRefused(f) \/ SaveLost(f) \/ Abandon(f)

LEMMA FormTypes ==
    ASSUME ProductFormTypeOK, NEW f \in Forms
    PROVE  /\ form[f] \in Form /\ FieldsOf(f) \in Fields /\ meant[f] \in Fields
           /\ payload[f] \in Fields /\ payload[f] # Blank /\ shelf \in [Shelf -> Fields \cup {Blank}]
           /\ rowUploads[f] \subseteq RowUpload
BY ProductFormAssumption DEF ProductFormTypeOK, Form, FieldsOf

\* The next id is free while there is one.
LEMMA NextIdIsFree ==
    ASSUME OnShelf # Shelf
    PROVE  FreeOnShelf \in Shelf \ OnShelf
<1>1. \E p \in Shelf : p \notin OnShelf
  BY DEF OnShelf
<1> QED BY <1>1 DEF FreeOnShelf

\* An update has every field; so a product stays one.
LEMMA UpdatedTyped ==
    ASSUME NEW old \in Fields, NEW new \in Fields
    PROVE  Updated(old, new) \in Fields /\ Updated(old, new).sku = new.sku
BY DEF Updated, Fields

LEMMA FormStepTyped ==
    ASSUME ProductFormInv, NEW f \in Forms, FormStep(f)
    PROVE  ProductFormTypeOK'
<1> USE DEF ProductFormInv
<1>0. /\ form[f] \in Form /\ FieldsOf(f) \in Fields /\ meant[f] \in Fields
      /\ payload[f] \in Fields /\ payload[f] # Blank /\ shelf \in [Shelf -> Fields \cup {Blank}]
      /\ rowUploads[f] \subseteq RowUpload
  BY FormTypes
<1>1. initialForm \in Fields /\ ClosedForm \in Form
  BY DEF initialForm, ClosedForm, Fields, Form, FormSteps
<1>2. ASSUME NEW step \in FormSteps, Goto(f, step)
      PROVE  form' \in [Forms -> Form]
  BY <1>0, <1>2 DEF Goto, ProductFormTypeOK, Form
<1>3. ASSUME NEW v \in Fields, form' = [form EXCEPT ![f].fields = v]
      PROVE  form' \in [Forms -> Form]
  BY <1>0, <1>3 DEF ProductFormTypeOK, Form
<1>4. ASSUME Leave(f)
      PROVE  /\ form' \in [Forms -> Form] /\ meant' \in [Forms -> Fields]
             /\ imageUpload' \subseteq Forms /\ rowUploads' \in [Forms -> SUBSET RowUpload]
             /\ crossedForms' \subseteq Forms /\ retyped' \subseteq Forms
             /\ made' \in [Forms -> SUBSET Shelf]
  BY <1>1, <1>4 DEF Leave, ProductFormTypeOK
<1>5. Answered(f) => payload' \in [Forms -> Fields] /\ submitted' \in [Forms -> Fields]
  BY <1>1 DEF Answered, ProductFormTypeOK
<1>6. Mishap => mishaps' \in Nat
  BY DEF Mishap, ProductFormTypeOK
<1> USE DEF formHistory
<1>7. CASE OpenNew(f) \/ SaveRefused(f)
  BY <1>2, <1>7 DEF OpenNew, SaveRefused, FormSteps, ProductFormTypeOK
<1>8. CASE Loaded(f)
  <2> DEFINE v == shelf[form[f].id]
  <2>1. v \in Fields
    <3>1. form[f].id \in OnShelf
      BY <1>8 DEF Loaded, MadeBy
    <3> QED BY <1>0, <3>1 DEF OnShelf
  <2>2. form' = [form EXCEPT ![f] = [form[f] EXCEPT !.step = "ready", !.fields = v]]
    BY <1>8 DEF Loaded, productToForm
  <2>3. form' \in [Forms -> Form]
    BY <1>0, <2>1, <2>2 DEF Form, FormSteps, ProductFormTypeOK
  <2>4. meant' \in [Forms -> Fields]
    BY <1>8, <2>1 DEF Loaded, ProductFormTypeOK
  <2> QED BY <1>8, <2>3, <2>4 DEF Loaded, ProductFormTypeOK
<1>9. CASE ServerCreates(f)
  <2>1. FreeOnShelf \in Shelf
    BY <1>9, NextIdIsFree DEF ServerCreates
  <2>2. form' \in [Forms -> Form] /\ payload' \in [Forms -> Fields] /\ submitted' \in [Forms -> Fields]
    BY <1>2, <1>5, <1>9 DEF ServerCreates, FormSteps
  <2>3. shelf' \in [Shelf -> Fields \cup {Blank}] /\ made' \in [Forms -> SUBSET Shelf]
    BY <1>0, <1>9, <2>1 DEF ServerCreates, ProductFormTypeOK
  <2> QED BY <1>9, <2>2, <2>3 DEF ServerCreates, ProductFormTypeOK
<1>10. ASSUME NEW p \in Shelf, OpenEdit(f, p)
       PROVE  ProductFormTypeOK'
  <2>1. [ClosedForm EXCEPT !.step = "loading", !.id = p] \in Form
    BY <1>1 DEF Form, FormSteps
  <2> QED BY <1>10, <2>1 DEF OpenEdit, ProductFormTypeOK
<1>11. ASSUME NEW sku \in FormSkus, TypeSku(f, sku)
       PROVE  ProductFormTypeOK'
  <2>1. [FieldsOf(f) EXCEPT !.sku = sku] \in Fields /\ [meant[f] EXCEPT !.sku = sku] \in Fields
    BY <1>0 DEF Fields
  <2>2. form' \in [Forms -> Form] /\ meant' \in [Forms -> Fields]
    BY <1>3, <1>11, <2>1 DEF TypeSku, Edit, ProductFormTypeOK
  <2> QED BY <1>11, <2>2 DEF TypeSku, ProductFormTypeOK
<1>12. CASE RemoveImage(f)
  <2>1. [FieldsOf(f) EXCEPT !.image = Blank] \in Fields /\ [meant[f] EXCEPT !.image = Blank] \in Fields
    BY <1>0 DEF Fields
  <2>2. form' \in [Forms -> Form] /\ meant' \in [Forms -> Fields]
    BY <1>3, <1>12, <2>1 DEF RemoveImage, Edit, ProductFormTypeOK
  <2> QED BY <1>12, <2>2 DEF RemoveImage, ProductFormTypeOK
<1>13. CASE PickImage(f)
  BY <1>13 DEF PickImage, ProductFormTypeOK
<1>14. CASE ImageUploaded(f)
  <2>1. [FieldsOf(f) EXCEPT !.image = "url"] \in Fields /\ [meant[f] EXCEPT !.image = "url"] \in Fields
    BY <1>0 DEF Fields
  <2>2. form' = [form EXCEPT ![f].fields = [FieldsOf(f) EXCEPT !.image = "url"]]
    BY <1>14 DEF ImageUploaded, FieldsOf
  <2>3. meant' = [meant EXCEPT ![f] = [meant[f] EXCEPT !.image = "url"]]
    BY <1>14 DEF ImageUploaded
  <2>4. form' \in [Forms -> Form] /\ meant' \in [Forms -> Fields]
    BY <1>3, <2>1, <2>2, <2>3 DEF ProductFormTypeOK
  <2> QED BY <1>14, <2>4 DEF ImageUploaded, ProductFormTypeOK
<1>15. ASSUME NEW r \in Rows, EditRow(f, r)
       PROVE  ProductFormTypeOK'
  <2>1. PICK v, m \in Fields : Edit(f, v, m)
    <3> DEFINE Toggled(x) == IF r \in x.rows THEN [x EXCEPT !.rows = @ \ {r}]
                             ELSE [x EXCEPT !.rows = @ \cup {r}]
    <3>1. Edit(f, Toggled(FieldsOf(f)), Toggled(meant[f]))
      BY <1>15 DEF EditRow
    <3>2. Toggled(FieldsOf(f)) \in Fields /\ Toggled(meant[f]) \in Fields
      BY <1>0 DEF Fields
    <3> QED BY <3>1, <3>2
  <2>2. form' \in [Forms -> Form] /\ meant' \in [Forms -> Fields]
    BY <1>3, <2>1 DEF Edit, ProductFormTypeOK
  <2> QED BY <1>15, <2>2 DEF EditRow, ProductFormTypeOK
<1>16. ASSUME NEW r \in Rows, PickRowImage(f, r)
       PROVE  ProductFormTypeOK'
  <2>1. [row |-> r, rows |-> FieldsOf(f).rows] \in RowUpload
    BY <1>0 DEF Fields, RowUpload
  <2> QED BY <1>16, <2>1 DEF PickRowImage, ProductFormTypeOK
<1>17. ASSUME NEW x \in rowUploads[f], RowImageUploaded(f, x)
       PROVE  ProductFormTypeOK'
  <2>1. x.rows \subseteq Rows
    BY <1>0, <1>17 DEF RowUpload
  <2>2. [FieldsOf(f) EXCEPT !.rows = x.rows] \in Fields
    BY <1>0, <2>1 DEF Fields
  <2>3. form' = [form EXCEPT ![f].fields = [FieldsOf(f) EXCEPT !.rows = x.rows]]
    BY <1>17 DEF RowImageUploaded, FieldsOf
  <2>4. form' \in [Forms -> Form]
    BY <1>3, <2>2, <2>3
  <2> QED BY <1>17, <2>4 DEF RowImageUploaded, ProductFormTypeOK
<1>18. CASE UploadFails(f)
  BY <1>6, <1>18 DEF UploadFails, ProductFormTypeOK
<1>19. CASE Submit(f)
  BY <1>0, <1>2, <1>19 DEF Submit, FormSteps, ProductFormTypeOK
<1>20. CASE ServerRefuses(f)
  BY <1>2, <1>5, <1>20 DEF ServerRefuses, FormSteps, ProductFormTypeOK
<1>21. CASE ServerUpdates(f)
  <2> DEFINE p == form[f].id
  <2>1. form' \in [Forms -> Form] /\ payload' \in [Forms -> Fields] /\ submitted' \in [Forms -> Fields]
    BY <1>2, <1>5, <1>21 DEF ServerUpdates, FormSteps
  <2>2. shelf' \in [Shelf -> Fields \cup {Blank}]
    <3>1. p \in OnShelf
      BY <1>21 DEF ServerUpdates, MadeBy
    <3>2. p \in Shelf /\ shelf[p] \in Fields
      BY <1>0, <3>1 DEF OnShelf
    <3>3. Updated(shelf[p], payload[f]) \in Fields
      BY <1>0, <3>2, UpdatedTyped
    <3> QED BY <1>0, <1>21, <3>2, <3>3 DEF ServerUpdates
  <2>3. retyped' \subseteq Forms
    BY <1>21 DEF ServerUpdates, ProductFormTypeOK
  <2> QED BY <1>21, <2>1, <2>2, <2>3 DEF ServerUpdates, ProductFormTypeOK
<1>22. CASE SaveAnswered(f) \/ Abandon(f)
  BY <1>4, <1>22 DEF SaveAnswered, Abandon, ProductFormTypeOK
<1>23. CASE SaveLost(f)
  BY <1>2, <1>5, <1>6, <1>23 DEF SaveLost, FormSteps, ProductFormTypeOK
<1> QED BY <1>7, <1>8, <1>9, <1>10, <1>11, <1>12, <1>13, <1>14, <1>15, <1>16, <1>17, <1>18, <1>19,
           <1>20, <1>21, <1>22, <1>23 DEF FormStep

\* What a step of one tab leaves to the others.
LEMMA OtherFormsStay ==
    ASSUME ProductFormInv, NEW f \in Forms, FormStep(f), NEW g \in Forms, g # f
    PROVE  /\ form'[g] = form[g] /\ meant'[g] = meant[g] /\ rowUploads'[g] = rowUploads[g]
           /\ g \in crossedForms' <=> g \in crossedForms
           /\ g \in imageUpload' <=> g \in imageUpload
           /\ made'[g] = made[g] /\ payload'[g] = payload[g] /\ submitted'[g] = submitted[g]
           /\ g \in retyped => g \in retyped'
<1> USE DEF ProductFormInv, ProductFormTypeOK, formHistory
<1>1. CASE OpenNew(f) \/ Loaded(f) \/ ServerCreates(f) \/ \E p \in Shelf : OpenEdit(f, p)
  BY <1>1 DEF OpenNew, Loaded, ServerCreates, OpenEdit, Goto, Answered
<1>2. CASE \/ \E sku \in FormSkus : TypeSku(f, sku)
           \/ RemoveImage(f) \/ PickImage(f) \/ ImageUploaded(f)
  BY <1>2 DEF TypeSku, RemoveImage, PickImage, ImageUploaded, Edit
<1>3. ASSUME NEW r \in Rows, EditRow(f, r) \/ PickRowImage(f, r)
      PROVE  /\ form'[g] = form[g] /\ meant'[g] = meant[g] /\ rowUploads'[g] = rowUploads[g]
             /\ g \in crossedForms' <=> g \in crossedForms
             /\ g \in imageUpload' <=> g \in imageUpload
             /\ made'[g] = made[g] /\ payload'[g] = payload[g] /\ submitted'[g] = submitted[g]
             /\ g \in retyped => g \in retyped'
  BY <1>3 DEF EditRow, PickRowImage, Edit
<1>4. CASE UploadFails(f) \/ \E x \in rowUploads[f] : RowImageUploaded(f, x)
  BY <1>4 DEF UploadFails, RowImageUploaded
<1>5. CASE Submit(f) \/ ServerRefuses(f) \/ ServerUpdates(f) \/ SaveRefused(f) \/ SaveLost(f)
  BY <1>5 DEF Submit, ServerRefuses, ServerUpdates, SaveRefused, SaveLost, Goto, Answered
<1>6. CASE SaveAnswered(f) \/ Abandon(f)
  BY <1>6 DEF SaveAnswered, Abandon, Leave
<1> QED BY <1>1, <1>2, <1>3, <1>4, <1>5, <1>6 DEF FormStep

LEMMA FormStepKeeps ==
    ASSUME ProductFormInv, NEW f \in Forms, FormStep(f), NEW g \in Forms
    PROVE  KeptBy(g)'
<1> USE DEF ProductFormInv
<1>0. /\ form[f] \in Form /\ FieldsOf(f) \in Fields /\ meant[f] \in Fields
      /\ rowUploads[f] \subseteq RowUpload
  BY FormTypes
<1>1. CASE g # f
  <2>1. FieldsOf(g)' = FieldsOf(g)
    BY <1>1, OtherFormsStay DEF FieldsOf
  <2>2. KeptBy(g)
    OBVIOUS
  <2> QED BY <1>1, <2>1, <2>2, OtherFormsStay DEF KeptBy
<1>2. ASSUME g = f
      PROVE  KeptBy(f)'
  <2> USE DEF formHistory, ProductFormTypeOK
  <2>1. CASE \/ OpenNew(f) \/ ServerCreates(f) \/ PickImage(f) \/ UploadFails(f)
             \/ Submit(f) \/ ServerRefuses(f) \/ ServerUpdates(f) \/ SaveRefused(f) \/ SaveLost(f)
    <3>1. FieldsOf(f)' = FieldsOf(f) /\ meant' = meant /\ crossedForms' = crossedForms
      <4>1. UNCHANGED form \/ \E step \in FormSteps : Goto(f, step)
        BY <2>1 DEF OpenNew, ServerCreates, PickImage, UploadFails, Submit, ServerRefuses, ServerUpdates,
           SaveRefused, SaveLost, FormSteps
      <4>2. FieldsOf(f)' = FieldsOf(f)
        BY <1>0, <4>1 DEF Goto, FieldsOf, Form
      <4>3. meant' = meant /\ crossedForms' = crossedForms
        BY <2>1 DEF OpenNew, ServerCreates, PickImage, UploadFails, Submit, ServerRefuses, ServerUpdates,
           SaveRefused, SaveLost
      <4> QED BY <4>2, <4>3
    <3>2. rowUploads'[f] \subseteq rowUploads[f]
      BY <2>1 DEF OpenNew, ServerCreates, PickImage, UploadFails, Submit, ServerRefuses, ServerUpdates,
         SaveRefused, SaveLost
    <3>3. form'[f].step \notin {"closed", "loading"}
      <4>1. CASE PickImage(f) \/ UploadFails(f)
        BY <4>1 DEF PickImage, UploadFails, Editing, KeptBy
      <4>2. ASSUME NEW step, Goto(f, step)
            PROVE  form'[f].step = step
        BY <1>0, <4>2 DEF Goto, Form
      <4> QED BY <2>1, <4>1, <4>2 DEF OpenNew, ServerCreates, Submit, ServerRefuses, ServerUpdates,
              SaveRefused, SaveLost
    <3> QED BY <3>1, <3>2, <3>3 DEF KeptBy
  <2>2. CASE Loaded(f)
    <3>1. FieldsOf(f)' = meant'[f] /\ form'[f].step = "ready"
      BY <1>0, <2>2 DEF Loaded, FieldsOf, productToForm, Form
    <3>2. rowUploads[f] = {} /\ UNCHANGED <<rowUploads, crossedForms>>
      BY <2>2 DEF Loaded, KeptBy
    <3> QED BY <3>1, <3>2 DEF KeptBy
  <2>3. ASSUME NEW p \in Shelf, OpenEdit(f, p)
        PROVE  KeptBy(f)'
    <3>1. /\ UNCHANGED <<rowUploads, imageUpload, crossedForms, meant>>
          /\ rowUploads[f] = {} /\ f \notin imageUpload /\ meant[f] = initialForm
      BY <2>3 DEF OpenEdit, KeptBy
    <3>2. FieldsOf(f)' = initialForm
      BY <2>3 DEF OpenEdit, ClosedForm, FieldsOf
    <3> QED BY <3>1, <3>2 DEF KeptBy
  <2>4. ASSUME NEW v, NEW m, Edit(f, v, m)
        PROVE  FieldsOf(f)' = v /\ meant'[f] = m /\ form'[f].step = form[f].step
               /\ form[f].step \notin {"closed", "loading"}
    BY <1>0, <2>4 DEF Edit, FieldsOf, Editing, Form
  <2>5. ASSUME NEW sku \in FormSkus, TypeSku(f, sku)
        PROVE  KeptBy(f)'
    <3>1. /\ FieldsOf(f)' = [FieldsOf(f) EXCEPT !.sku = sku] /\ meant'[f] = [meant[f] EXCEPT !.sku = sku]
          /\ form'[f].step \notin {"closed", "loading"} /\ UNCHANGED <<rowUploads, crossedForms>>
      BY <2>4, <2>5 DEF TypeSku
    <3> HIDE DEF FieldsOf
    <3> QED BY <1>0, <3>1 DEF KeptBy, Fields
  <2>6. CASE RemoveImage(f)
    <3>1. /\ FieldsOf(f)' = [FieldsOf(f) EXCEPT !.image = Blank]
          /\ meant'[f] = [meant[f] EXCEPT !.image = Blank]
          /\ form'[f].step \notin {"closed", "loading"} /\ UNCHANGED <<rowUploads, crossedForms>>
      BY <2>4, <2>6 DEF RemoveImage
    <3> QED BY <1>0, <3>1 DEF KeptBy, Fields
  <2>7. CASE ImageUploaded(f)
    <3>1. /\ FieldsOf(f)' = [FieldsOf(f) EXCEPT !.image = "url"]
          /\ meant'[f] = [meant[f] EXCEPT !.image = "url"]
          /\ form'[f].step = form[f].step /\ UNCHANGED <<rowUploads, crossedForms>>
          /\ form[f].step \notin {"closed", "loading"}
      BY <1>0, <2>7 DEF ImageUploaded, FieldsOf, Form, KeptBy
    <3> QED BY <1>0, <3>1 DEF KeptBy, Fields
  <2>8. ASSUME NEW r \in Rows, EditRow(f, r)
        PROVE  KeptBy(f)'
    <3> DEFINE Toggled(x) == IF r \in x.rows THEN [x EXCEPT !.rows = @ \ {r}]
                             ELSE [x EXCEPT !.rows = @ \cup {r}]
    <3>1. Edit(f, Toggled(FieldsOf(f)), Toggled(meant[f]))
      BY <2>8 DEF EditRow
    <3>2. /\ FieldsOf(f)' = Toggled(FieldsOf(f)) /\ meant'[f] = Toggled(meant[f])
          /\ form'[f].step \notin {"closed", "loading"}
      BY <2>4, <3>1
    <3>3. /\ UNCHANGED rowUploads
          /\ f \notin crossedForms' => f \notin crossedForms /\ rowUploads[f] = {}
      BY <2>8 DEF EditRow
    <3>4. ASSUME NEW v \in Fields
          PROVE  Toggled(v).sku = v.sku /\ Toggled(v).image = v.image
      BY DEF Fields
    <3>5. FieldsOf(f)'.sku = meant'[f].sku /\ FieldsOf(f)'.image = meant'[f].image
      BY <1>0, <3>2, <3>4 DEF KeptBy
    <3>6. f \notin crossedForms' => FieldsOf(f)' = meant'[f]
      BY <3>2, <3>3 DEF KeptBy
    <3> QED BY <3>2, <3>3, <3>5, <3>6 DEF KeptBy
  <2>9. ASSUME NEW r \in Rows, PickRowImage(f, r)
        PROVE  KeptBy(f)'
    <3>1. /\ UNCHANGED <<form, meant>> /\ form[f].step \notin {"closed", "loading"}
          /\ rowUploads'[f] = rowUploads[f] \cup {[row |-> r, rows |-> FieldsOf(f).rows]}
          /\ f \notin crossedForms' => f \notin crossedForms /\ rowUploads[f] = {}
      BY <2>9 DEF PickRowImage, Editing
    <3>2. FieldsOf(f)' = FieldsOf(f)
      BY <3>1 DEF FieldsOf
    <3> QED BY <3>1, <3>2 DEF KeptBy
  <2>10. ASSUME NEW x \in rowUploads[f], RowImageUploaded(f, x)
         PROVE  KeptBy(f)'
    <3>1. /\ FieldsOf(f)' = [FieldsOf(f) EXCEPT !.rows = x.rows] /\ form'[f].step = form[f].step
          /\ UNCHANGED <<meant, crossedForms>> /\ rowUploads'[f] = rowUploads[f] \ {x}
          /\ form[f].step \notin {"closed", "loading"}
      BY <1>0, <2>10 DEF RowImageUploaded, FieldsOf, Form, KeptBy
    <3>2. FieldsOf(f)'.sku = FieldsOf(f).sku /\ FieldsOf(f)'.image = FieldsOf(f).image
      BY <1>0, <3>1 DEF Fields
    <3>3. f \notin crossedForms => FieldsOf(f)' = FieldsOf(f)
      <4>1. f \notin crossedForms => x.rows = FieldsOf(f).rows
        BY <2>10 DEF KeptBy
      <4> QED BY <1>0, <3>1, <4>1 DEF Fields
    <3> QED BY <3>1, <3>2, <3>3 DEF KeptBy
  <2>11. CASE SaveAnswered(f) \/ Abandon(f)
    <3>1. Leave(f)
      BY <2>11 DEF SaveAnswered, Abandon
    <3>2. FieldsOf(f)' = initialForm /\ meant'[f] = initialForm /\ rowUploads'[f] = {} /\ f \notin imageUpload'
      BY <3>1 DEF Leave, FieldsOf, ClosedForm
    <3> QED BY <3>2 DEF KeptBy
  <2> QED BY <2>1, <2>2, <2>3, <2>5, <2>6, <2>7, <2>8, <2>9, <2>10, <2>11 DEF FormStep
<1> QED BY <1>1, <1>2

\* A tab that neither makes a product nor shows another SKU keeps what it has.
LEMMA MadeStays ==
    ASSUME ProductFormInv, NEW g \in Forms, made'[g] = made[g],
           \A p \in OnShelf : p \in OnShelf' /\ (p \in made[g] /\ g \notin retyped' => shelf'[p].sku = shelf[p].sku),
           g \in retyped => g \in retyped',
           form'[g].id = form[g].id, form'[g].step \in {"closed", "loading"} => form'[g].step = form[g].step,
           \/ form'[g].fields.sku = form[g].fields.sku
           \/ made[g] = {},
           g \in retyped' \/ (form'[g].step = "saving" => payload'[g].sku = form'[g].fields.sku)
    PROVE  MadeBy(g)'
<1>1. /\ made[g] \subseteq OnShelf
      /\ form[g].step = "loading" \/ form[g].id # Blank => form[g].id \in OnShelf
      /\ made[g] # {} => form[g].id = Blank /\ form[g].step \notin {"closed", "loading"}
      /\ g \notin retyped => /\ \A p \in made[g] : shelf[p].sku = form[g].fields.sku
                             /\ \A p, q \in made[g] : p = q
  BY DEF ProductFormInv, MadeBy, FieldsOf
<1>2. g \notin retyped' =>
        /\ \A p \in made[g] : shelf'[p].sku = form'[g].fields.sku
        /\ \A p, q \in made[g] : p = q
  BY <1>1
<1>3. made[g] \subseteq OnShelf'
  BY <1>1
<1> QED BY <1>1, <1>2, <1>3 DEF MadeBy, FieldsOf

LEMMA FormStepMakes ==
    ASSUME ProductFormInv, NEW f \in Forms, FormStep(f), NEW g \in Forms
    PROVE  MadeBy(g)'
<1> USE DEF ProductFormInv
<1>0. /\ form[f] \in Form /\ FieldsOf(f) \in Fields /\ meant[f] \in Fields
      /\ payload[f] \in Fields /\ payload[f] # Blank /\ shelf \in [Shelf -> Fields \cup {Blank}]
  BY FormTypes
<1>1. CASE ServerCreates(f)
  <2> DEFINE p == FreeOnShelf
  <2>1. p \in Shelf \ OnShelf
    BY <1>1, NextIdIsFree DEF ServerCreates
  <2> HIDE DEF p
  <2>2. /\ form[f].step = "saving" /\ form[f].id = Blank /\ ~ShelfSkuTaken(payload[f].sku, p)
        /\ shelf' = [shelf EXCEPT ![p] = payload[f]]
        /\ made' = [made EXCEPT ![f] = @ \cup {p}]
        /\ Goto(f, "saved") /\ UNCHANGED retyped
    BY <1>1 DEF ServerCreates, formHistory, p
  <2>3. \A q \in OnShelf : shelf'[q] = shelf[q] /\ q \in OnShelf'
    BY <1>0, <2>1, <2>2 DEF OnShelf
  <2>4. shelf'[p] = payload[f] /\ p \in OnShelf'
    BY <1>0, <2>1, <2>2 DEF OnShelf
  <2>5. CASE g # f
    <3>1. \A q \in OnShelf : q \in OnShelf' /\ (q \in made[g] /\ g \notin retyped' => shelf'[q].sku = shelf[q].sku)
      BY <2>3
    <3>2. g \in retyped' \/ (form'[g].step = "saving" => payload'[g].sku = form'[g].fields.sku)
      BY <2>2, <2>5, OtherFormsStay DEF MadeBy, FieldsOf
    <3>3. form'[g] = form[g] /\ made'[g] = made[g] /\ (g \in retyped => g \in retyped')
      BY <2>5, OtherFormsStay
    <3> QED BY <3>1, <3>2, <3>3, MadeStays
  <2>6. CASE g = f
    <3>1. /\ form'[f].step = "saved" /\ form'[f].id = Blank /\ FieldsOf(f)' = FieldsOf(f)
          /\ made'[f] = made[f] \cup {p}
      BY <1>0, <2>2 DEF Goto, Form, FieldsOf, ProductFormTypeOK
    <3>2. ASSUME f \notin retyped
          PROVE  made[f] = {} /\ payload[f].sku = FieldsOf(f).sku
      <4>1. payload[f].sku = FieldsOf(f).sku /\ \A q \in made[f] : shelf[q].sku = FieldsOf(f).sku
        BY <2>2, <3>2 DEF MadeBy
      <4>2. \A q \in OnShelf \ {p} : shelf[q].sku # payload[f].sku
        BY <2>2 DEF ShelfSkuTaken
      <4>3. made[f] \subseteq OnShelf \ {p}
        BY <2>1 DEF MadeBy
      <4> QED BY <4>1, <4>2, <4>3
    <3>3. made[f] \cup {p} \subseteq OnShelf'
      BY <2>3, <2>4 DEF MadeBy
    <3>4. f \notin retyped' => /\ \A q \in made'[f] : shelf'[q].sku = FieldsOf(f)'.sku
                               /\ \A q, r \in made'[f] : q = r
      BY <2>2, <2>4, <3>1, <3>2
    <3> QED BY <2>6, <3>1, <3>3, <3>4 DEF MadeBy
  <2> QED BY <2>5, <2>6
<1>2. CASE ServerUpdates(f)
  <2> DEFINE p == form[f].id
  <2>1. p \in OnShelf /\ p \in Shelf /\ shelf[p] \in Fields
    <3>1. p \in OnShelf
      BY <1>2 DEF ServerUpdates, MadeBy
    <3> QED BY <1>0, <3>1 DEF OnShelf
  <2>2. PICK v : v = Updated(shelf[p], payload[f])
    OBVIOUS
  <2>3. v \in Fields /\ v.sku = payload[f].sku /\ v # Blank
    BY <1>0, <2>1, <2>2, UpdatedTyped, ProductFormAssumption
  <2>4. shelf' = [shelf EXCEPT ![p] = v]
    BY <1>2, <2>2 DEF ServerUpdates
  <2>5. \A q \in OnShelf : q \in OnShelf' /\ (q \in made[g] /\ g \notin retyped' => shelf'[q].sku = shelf[q].sku)
    <3> SUFFICES ASSUME NEW q \in OnShelf
                 PROVE  q \in OnShelf' /\ (q \in made[g] /\ g \notin retyped' => shelf'[q].sku = shelf[q].sku)
      OBVIOUS
    <3>1. CASE q = p
      <4>1. shelf'[q] = v /\ q \in OnShelf'
        BY <1>0, <2>1, <2>3, <2>4, <3>1 DEF OnShelf
      <4>2. q \in made[g] /\ g \notin retyped' => payload[f].sku = shelf[p].sku
        BY <1>2, <3>1 DEF ServerUpdates
      <4> QED BY <2>3, <3>1, <4>1, <4>2
    <3>2. CASE q # p
      BY <1>0, <2>4, <3>2 DEF OnShelf
    <3> QED BY <3>1, <3>2
  <2>6. made' = made /\ (g \in retyped => g \in retyped')
    BY <1>2 DEF ServerUpdates
  <2>7. CASE g # f
    <3>1. g \in retyped' \/ (form'[g].step = "saving" => payload'[g].sku = form'[g].fields.sku)
      BY <2>6, <2>7, OtherFormsStay DEF MadeBy, FieldsOf
    <3>2. form'[g] = form[g]
      BY <2>7, OtherFormsStay
    <3> QED BY <2>5, <2>6, <3>1, <3>2, MadeStays
  <2>8. CASE g = f
    <3>1. form'[f].step = "saved" /\ form'[f].id = form[f].id /\ form'[f].fields = form[f].fields
      BY <1>0, <1>2 DEF ServerUpdates, Goto, Form, ProductFormTypeOK
    <3> QED BY <2>5, <2>6, <2>8, <3>1, MadeStays
  <2> QED BY <2>7, <2>8
<1>3. CASE ~ServerCreates(f) /\ ~ServerUpdates(f)
  <2> USE DEF formHistory, ProductFormTypeOK
  <2>1. UNCHANGED shelf
    BY <1>3 DEF FormStep, OpenNew, Loaded, OpenEdit, TypeSku, RemoveImage, PickImage, ImageUploaded,
       EditRow, PickRowImage, RowImageUploaded, UploadFails, Submit, ServerRefuses, SaveAnswered,
       SaveRefused, SaveLost, Abandon
  <2>2. OnShelf' = OnShelf
    BY <2>1 DEF OnShelf
  <2>3. CASE g # f
    <3>1. g \in retyped' \/ (form'[g].step = "saving" => payload'[g].sku = form'[g].fields.sku)
      BY <2>3, OtherFormsStay DEF MadeBy, FieldsOf
    <3>2. form'[g] = form[g] /\ made'[g] = made[g] /\ (g \in retyped => g \in retyped')
      BY <2>3, OtherFormsStay
    <3> QED BY <2>1, <2>2, <3>1, <3>2, MadeStays
  <2>4. ASSUME g = f
        PROVE  MadeBy(f)'
    <3>1. ASSUME made'[f] = made[f], f \in retyped => f \in retyped', form'[f].id = form[f].id,
                 form'[f].step \in {"closed", "loading"} => form'[f].step = form[f].step,
                 \/ form'[f].fields.sku = form[f].fields.sku
                 \/ made[f] = {},
                 f \in retyped' \/ (form'[f].step = "saving" => payload'[f].sku = form'[f].fields.sku)
          PROVE  MadeBy(f)'
      BY <2>1, <2>2, <3>1, MadeStays
    <3>2. ASSUME NEW step, Goto(f, step)
          PROVE  /\ form'[f].step = step /\ form'[f].id = form[f].id
                 /\ form'[f].fields = form[f].fields
      BY <1>0, <3>2 DEF Goto, Form
    <3>3. CASE \/ OpenNew(f) \/ SaveRefused(f) \/ ServerRefuses(f) \/ SaveLost(f)
      <4>1. /\ Goto(f, "ready") \/ Goto(f, "refused")
            /\ UNCHANGED <<made, retyped>>
        BY <3>3 DEF OpenNew, SaveRefused, ServerRefuses, SaveLost
      <4> QED BY <3>1, <3>2, <4>1
    <3>4. CASE Submit(f)
      <4>1. Goto(f, "saving") /\ payload'[f] = FieldsOf(f) /\ UNCHANGED <<made, retyped>>
        BY <3>4 DEF Submit
      <4> QED BY <3>1, <3>2, <4>1 DEF FieldsOf
    <3>5. CASE Loaded(f)
      <4>1. form'[f].step = "ready" /\ form'[f].id = form[f].id /\ UNCHANGED <<made, retyped>>
        BY <1>0, <3>5 DEF Loaded, Form
      <4>2. made[f] = {}
        BY <3>5 DEF Loaded, MadeBy
      <4> QED BY <3>1, <4>1, <4>2
    <3>6. ASSUME NEW p \in Shelf, OpenEdit(f, p)
          PROVE  MadeBy(f)'
      <4>1. /\ form'[f].step = "loading" /\ form'[f].id = p /\ p \in OnShelf
            /\ made[f] = {} /\ UNCHANGED made
        BY <3>6 DEF OpenEdit, ClosedForm, MadeBy
      <4> QED BY <2>2, <4>1 DEF MadeBy
    <3>7. ASSUME NEW v, NEW m, Edit(f, v, m)
          PROVE  form'[f].fields = v /\ form'[f].step = form[f].step /\ form'[f].id = form[f].id
      BY <1>0, <3>7 DEF Edit, Form
    <3>8. f \notin retyped /\ form[f].step = "saving" => payload[f].sku = form[f].fields.sku
      BY DEF MadeBy, FieldsOf
    <3>9. ASSUME NEW sku \in FormSkus, TypeSku(f, sku)
          PROVE  MadeBy(f)'
      <4>1. /\ form'[f].step = form[f].step /\ form'[f].id = form[f].id
            /\ UNCHANGED <<made, payload>> /\ (f \in retyped => f \in retyped')
        BY <3>7, <3>9 DEF TypeSku
      <4>2. f \in retyped' \/ (made[f] = {} /\ form[f].step # "saving")
        BY <3>9 DEF TypeSku
      <4>3. CASE made[f] = {} /\ form[f].step # "saving"
        BY <3>1, <4>1, <4>3
      <4>4. CASE f \in retyped'
        BY <2>2, <4>1, <4>4 DEF MadeBy
      <4> QED BY <4>2, <4>3, <4>4
    <3>10. CASE RemoveImage(f)
      <4>1. form'[f].fields = [FieldsOf(f) EXCEPT !.image = Blank]
            /\ form'[f].step = form[f].step /\ form'[f].id = form[f].id
        BY <3>7, <3>10 DEF RemoveImage
      <4>2. form'[f].fields.sku = form[f].fields.sku
        BY <1>0, <4>1 DEF FieldsOf, Fields
      <4>3. UNCHANGED <<made, payload, retyped>>
        BY <3>10 DEF RemoveImage
      <4> QED BY <3>1, <3>8, <4>1, <4>2, <4>3
    <3>11. CASE PickImage(f) \/ UploadFails(f)
      BY <3>1, <3>8, <3>11 DEF PickImage, UploadFails
    <3>12. CASE ImageUploaded(f)
      <4>1. /\ form'[f].fields = [FieldsOf(f) EXCEPT !.image = "url"]
            /\ form'[f].step = form[f].step /\ form'[f].id = form[f].id
            /\ UNCHANGED <<made, payload, retyped>>
        BY <1>0, <3>12 DEF ImageUploaded, FieldsOf, Form
      <4>2. form'[f].fields.sku = form[f].fields.sku
        BY <1>0, <4>1 DEF FieldsOf, Fields
      <4> QED BY <3>1, <3>8, <4>1, <4>2
    <3>13. ASSUME NEW r \in Rows, EditRow(f, r)
           PROVE  MadeBy(f)'
      <4> DEFINE Toggled(x) == IF r \in x.rows THEN [x EXCEPT !.rows = @ \ {r}]
                               ELSE [x EXCEPT !.rows = @ \cup {r}]
      <4>1. Edit(f, Toggled(FieldsOf(f)), Toggled(meant[f])) /\ UNCHANGED <<made, payload, retyped>>
        BY <3>13 DEF EditRow
      <4>2. form'[f].fields = Toggled(FieldsOf(f)) /\ form'[f].step = form[f].step
            /\ form'[f].id = form[f].id
        BY <3>7, <4>1
      <4>3. form'[f].fields.sku = form[f].fields.sku
        BY <1>0, <4>2 DEF FieldsOf, Fields
      <4> HIDE DEF Toggled
      <4> QED BY <3>1, <3>8, <4>1, <4>2, <4>3
    <3>14. ASSUME NEW r \in Rows, PickRowImage(f, r)
           PROVE  MadeBy(f)'
      BY <3>1, <3>8, <3>14 DEF PickRowImage
    <3>15. ASSUME NEW x \in rowUploads[f], RowImageUploaded(f, x)
           PROVE  MadeBy(f)'
      <4>1. /\ form'[f].fields = [FieldsOf(f) EXCEPT !.rows = x.rows]
            /\ form'[f].step = form[f].step /\ form'[f].id = form[f].id
            /\ UNCHANGED <<made, payload, retyped>>
        BY <1>0, <3>15 DEF RowImageUploaded, FieldsOf, Form
      <4>2. form'[f].fields.sku = form[f].fields.sku
        BY <1>0, <4>1 DEF FieldsOf, Fields
      <4> QED BY <3>1, <3>8, <4>1, <4>2
    <3>16. CASE SaveAnswered(f) \/ Abandon(f)
      <4>1. Leave(f)
        BY <3>16 DEF SaveAnswered, Abandon
      <4>2. form'[f].step = "closed" /\ form'[f].id = Blank /\ made'[f] = {}
        BY <4>1 DEF Leave, ClosedForm
      <4> QED BY <4>2 DEF MadeBy
    <3> QED BY <1>3, <3>3, <3>4, <3>5, <3>6, <3>9, <3>10, <3>11, <3>12, <3>13, <3>14, <3>15, <3>16
            DEF FormStep
  <2> QED BY <2>3, <2>4
<1> QED BY <1>1, <1>2, <1>3

LEMMA FormStepSends ==
    ASSUME ProductFormInv, NEW f \in Forms, FormStep(f), NEW g \in Forms
    PROVE  SendsAsMeant(g)'
<1> USE DEF ProductFormInv
<1>0. /\ form[f] \in Form /\ SendsAsMeant(f) /\ SendsAsMeant(g) /\ KeptBy(f)
      /\ form \in [Forms -> Form]
  BY FormTypes DEF ProductFormTypeOK
<1>1. CASE g # f
  BY <1>0, <1>1, OtherFormsStay DEF SendsAsMeant
<1>2. ASSUME g = f
      PROVE  SendsAsMeant(f)'
  <2> USE DEF formHistory
  <2>1. ASSUME form'[f].step # "saving"
        PROVE  SendsAsMeant(f)'
    BY <2>1 DEF SendsAsMeant
  <2>2. ASSUME UNCHANGED <<payload, submitted>>, form'[f].step = form[f].step,
               f \in crossedForms => f \in crossedForms'
        PROVE  SendsAsMeant(f)'
    BY <1>0, <2>2 DEF SendsAsMeant
  <2>3. ASSUME NEW step, Goto(f, step)
        PROVE  form'[f].step = step
    BY <1>0, <2>3 DEF Goto, Form
  <2>4. ASSUME NEW v, NEW m, Edit(f, v, m)
        PROVE  form'[f].step = form[f].step
    BY <1>0, <2>4 DEF Edit, Form
  <2>5. CASE \/ OpenNew(f) \/ ServerCreates(f) \/ ServerRefuses(f) \/ ServerUpdates(f)
             \/ SaveRefused(f) \/ SaveLost(f)
    BY <2>1, <2>3, <2>5 DEF OpenNew, ServerCreates, ServerRefuses, ServerUpdates, SaveRefused, SaveLost
  <2>6. CASE Loaded(f)
    <3>1. form'[f].step = "ready"
      BY <1>0, <2>6 DEF Loaded, Form
    <3> QED BY <2>1, <3>1
  <2>7. ASSUME NEW p \in Shelf, OpenEdit(f, p)
        PROVE  SendsAsMeant(f)'
    <3>1. form'[f].step = "loading"
      BY <1>0, <2>7 DEF OpenEdit, ClosedForm
    <3> QED BY <2>1, <3>1
  <2>8. CASE SaveAnswered(f) \/ Abandon(f)
    <3>1. form'[f].step = "closed"
      BY <1>0, <2>8 DEF SaveAnswered, Abandon, Leave, ClosedForm
    <3> QED BY <2>1, <3>1
  <2>9. CASE (\E sku \in FormSkus : TypeSku(f, sku)) \/ RemoveImage(f)
    <3>1. UNCHANGED <<payload, submitted, crossedForms>> /\ form'[f].step = form[f].step
      BY <2>4, <2>9 DEF TypeSku, RemoveImage
    <3> QED BY <2>2, <3>1
  <2>10. ASSUME NEW r \in Rows, EditRow(f, r)
         PROVE  SendsAsMeant(f)'
    <3>1. /\ UNCHANGED <<payload, submitted>> /\ (f \in crossedForms => f \in crossedForms')
          /\ form'[f].step = form[f].step
      BY <2>4, <2>10 DEF EditRow
    <3> QED BY <2>2, <3>1
  <2>11. CASE PickImage(f) \/ UploadFails(f) \/ \E r \in Rows : PickRowImage(f, r)
    BY <2>2, <2>11 DEF PickImage, UploadFails, PickRowImage
  <2>12. CASE ImageUploaded(f) \/ \E x \in rowUploads[f] : RowImageUploaded(f, x)
    <3>1. UNCHANGED <<payload, submitted, crossedForms>>
      BY <2>12 DEF ImageUploaded, RowImageUploaded
    <3>2. form'[f].step = form[f].step
      BY <1>0, <2>12 DEF ImageUploaded, RowImageUploaded, Form
    <3> QED BY <2>2, <3>1, <3>2
  <2>13. CASE Submit(f)
    <3>1. payload'[f] = FieldsOf(f) /\ submitted'[f] = meant[f] /\ UNCHANGED crossedForms
      BY <2>13 DEF Submit, ProductFormTypeOK
    <3>2. f \notin crossedForms => FieldsOf(f) = meant[f]
      BY <1>0 DEF KeptBy
    <3>3. FieldsOf(f).sku = meant[f].sku /\ FieldsOf(f).image = meant[f].image
      BY <1>0 DEF KeptBy
    <3> QED BY <3>1, <3>2, <3>3 DEF SendsAsMeant
  <2> QED BY <2>5, <2>6, <2>7, <2>8, <2>9, <2>10, <2>11, <2>12, <2>13 DEF FormStep
<1> QED BY <1>1, <1>2

LEMMA ProductFormInductive == ProductFormInv /\ [ProductFormNext]_formVars => ProductFormInv'
<1> SUFFICES ASSUME ProductFormInv, [ProductFormNext]_formVars
             PROVE  ProductFormInv'
  OBVIOUS
<1>1. CASE ProductFormNext
  <2>1. PICK f \in Forms : FormStep(f)
    BY <1>1 DEF ProductFormNext, FormStep
  <2>2. \A g \in Forms : KeptBy(g)' /\ MadeBy(g)' /\ SendsAsMeant(g)'
    BY <2>1, FormStepKeeps, FormStepMakes, FormStepSends
  <2> QED BY <2>1, <2>2, FormStepTyped DEF ProductFormInv
<1>2. CASE UNCHANGED formVars
  BY <1>2 DEF formVars, formHistory, ProductFormInv, ProductFormTypeOK, KeptBy, MadeBy, SendsAsMeant,
     FieldsOf, OnShelf
<1> QED BY <1>1, <1>2

LEMMA FormSaves == ProductFormInv /\ [ProductFormNext]_formVars => SavesAsMeant
<1> SUFFICES ASSUME ProductFormInv, [ProductFormNext]_formVars, NEW g \in Forms,
                    form[g].step = "saving", form'[g].step = "saved"
             PROVE  \E p \in Shelf : SavedAsMeant(g, p)
  BY DEF SavesAsMeant
<1> USE DEF ProductFormInv
<1>1. ProductFormNext
  BY DEF formVars
<1>2. PICK f \in Forms : FormStep(f)
  BY <1>1 DEF ProductFormNext, FormStep
<1>3. g = f
  <2>1. g # f => form'[g] = form[g]
    BY <1>2, OtherFormsStay
  <2> QED BY <2>1
<1>0. /\ form[g] \in Form /\ form \in [Forms -> Form] /\ payload[g] \in Fields
      /\ shelf \in [Shelf -> Fields \cup {Blank}] /\ SendsAsMeant(g) /\ MadeBy(g)
      /\ made \in [Forms -> SUBSET Shelf]
  BY FormTypes DEF ProductFormTypeOK
<1>4. /\ payload[g].sku = submitted[g].sku /\ payload[g].image = submitted[g].image
      /\ g \notin crossedForms => payload[g].rows = submitted[g].rows
  BY <1>0 DEF SendsAsMeant
<1>5. CASE ServerCreates(g)
  <2>1. FreeOnShelf \in Shelf \ OnShelf
    BY <1>5, NextIdIsFree DEF ServerCreates
  <2>2. PICK p \in Shelf \ OnShelf : p = FreeOnShelf
    BY <2>1
  <2>3. shelf' = [shelf EXCEPT ![p] = payload[g]] /\ made' = [made EXCEPT ![g] = @ \cup {p}]
    BY <1>5, <2>2 DEF ServerCreates
  <2>4. p \in made'[g] \ made[g]
    BY <1>0, <2>2, <2>3 DEF MadeBy
  <2>5. shelf'[p] = payload[g] /\ \A q \in Shelf \ {p} : shelf'[q] = shelf[q]
    BY <1>0, <2>3
  <2> QED BY <1>4, <2>4, <2>5 DEF SavedAsMeant, HasField
<1>6. CASE ServerUpdates(g)
  <2>1. form[g].id \in OnShelf
    BY <1>0, <1>6 DEF ServerUpdates, MadeBy
  <2>2. PICK p \in Shelf : p = form[g].id
    BY <2>1 DEF OnShelf
  <2>3. shelf' = [shelf EXCEPT ![p] = Updated(shelf[p], payload[g])]
    BY <1>6, <2>2 DEF ServerUpdates
  <2>4. /\ shelf'[p] = Updated(shelf[p], payload[g])
        /\ \A q \in Shelf \ {p} : shelf'[q] = shelf[q]
    BY <1>0, <2>3
  <2>5. /\ shelf'[p].sku = payload[g].sku
        /\ shelf'[p].image = IF payload[g].image = Blank THEN shelf[p].image ELSE payload[g].image
        /\ shelf'[p].rows = IF payload[g].rows = {} THEN shelf[p].rows ELSE payload[g].rows
    BY <2>4 DEF Updated
  <2>6. HasField(g, p, "image", Blank)
    BY <1>4, <2>2, <2>5 DEF HasField
  <2>7. g \notin crossedForms => HasField(g, p, "rows", {})
    BY <1>4, <2>2, <2>5 DEF HasField
  <2> QED BY <1>4, <2>2, <2>4, <2>5, <2>6, <2>7 DEF SavedAsMeant
<1>7. CASE ~ServerCreates(g) /\ ~ServerUpdates(g)
  <2> USE DEF formHistory
  <2>1. ASSUME NEW step, Goto(g, step)
        PROVE  form'[g].step = step
    BY <1>0, <2>1 DEF Goto, Form
  <2>2. ASSUME NEW v, NEW m, Edit(g, v, m)
        PROVE  form'[g].step = form[g].step
    BY <1>0, <2>2 DEF Edit, Form
  <2>3. CASE \/ OpenNew(g) \/ Submit(g) \/ ServerRefuses(g) \/ SaveRefused(g) \/ SaveLost(g)
    BY <2>1, <2>3 DEF OpenNew, Submit, ServerRefuses, SaveRefused, SaveLost
  <2>4. CASE Loaded(g) \/ (\E p \in Shelf : OpenEdit(g, p)) \/ SaveAnswered(g) \/ Abandon(g)
    BY <2>4 DEF Loaded, OpenEdit, SaveAnswered, Abandon
  <2>5. CASE (\E sku \in FormSkus : TypeSku(g, sku)) \/ RemoveImage(g) \/ \E r \in Rows : EditRow(g, r)
    BY <2>2, <2>5 DEF TypeSku, RemoveImage, EditRow
  <2>6. CASE PickImage(g) \/ UploadFails(g) \/ \E r \in Rows : PickRowImage(g, r)
    BY <2>6 DEF PickImage, UploadFails, PickRowImage
  <2>7. CASE ImageUploaded(g) \/ \E x \in rowUploads[g] : RowImageUploaded(g, x)
    <3>1. form'[g].step = form[g].step
      BY <1>0, <2>7 DEF ImageUploaded, RowImageUploaded, Form
    <3> QED BY <3>1
  <2> QED BY <1>2, <1>3, <1>7, <2>3, <2>4, <2>5, <2>6, <2>7 DEF FormStep
<1> QED BY <1>5, <1>6, <1>7

\* In any number of tabs, a form shows every edit and image it was given, and a save that
\* succeeds gives its product, and no other, what the user meant when the button was pressed -
\* but for the variants that crossed an image, and what an edit emptied (handleImagePick,
\* VariantsCard, formToCreatePayload, formToUpdatePayload).
THEOREM FormsKeepEdits == ProductFormSpec => EditsAreKept
<1>1. ProductFormInv => FormShowsEdits
  <2> SUFFICES ASSUME ProductFormInv, NEW f \in Forms
               PROVE  /\ f \notin crossedForms => FieldsOf(f) = meant[f]
                      /\ FieldsOf(f)["sku"] = meant[f]["sku"]
                      /\ FieldsOf(f)["image"] = meant[f]["image"]
    BY DEF FormShowsEdits
  <2> QED BY DEF ProductFormInv, KeptBy
<1>2. ProductFormInv /\ [ProductFormNext]_formVars => [SavesAsMeant]_formVars
  BY FormSaves
<1> QED BY <1>1, <1>2, ProductFormInitially, ProductFormInductive, PTL DEF ProductFormSpec, EditsAreKept

\* However often answers are lost, whatever the other tabs do, a form makes one product
\* (handleSubmit, createProduct and its unique index).
THEOREM OneProductEach == ProductFormSpec => []OneProductPerForm
<1>1. ProductFormInv => OneProductPerForm
  <2> SUFFICES ASSUME ProductFormInv, NEW f \in Forms, f \notin retyped
               PROVE  ~(Cardinality(made[f]) > 1)
    BY DEF OneProductPerForm
  <2>1. \A p, q \in made[f] : p = q
    BY DEF ProductFormInv, MadeBy
  <2>2. CASE made[f] = {}
    BY <2>2, FS_EmptySet
  <2>3. CASE made[f] # {}
    <3>1. PICK p : made[f] = {p}
      BY <2>1, <2>3
    <3>2. Cardinality({p}) = 1
      BY FS_Singleton
    <3>3. Cardinality(made[f]) = 1
      BY <3>1, <3>2
    <3> QED BY <3>3
  <2> QED BY <2>2, <2>3
<1> QED BY <1>1, ProductFormInitially, ProductFormInductive, PTL DEF ProductFormSpec

----------------------------------------------------------------------------
(* Navigation                                                              *)

\* A redirect is the last, until the visitor or the session moves.
NavigationInv ==
    /\ NavigationTypeOK
    /\ hops <= 1
    /\ navStatus = "loading" => hops = 0
    /\ hops = 1 => Settles

LEMMA NavigationInitially == NavigationInit => NavigationInv
<1> SUFFICES ASSUME NavigationInit
             PROVE  NavigationInv
  OBVIOUS
<1>1. "/" \in Paths["admin"] /\ "/" \in Paths["pos"]
  BY DEF Paths
<1>2. NavigationTypeOK
  BY <1>1 DEF NavigationInit, NavigationTypeOK
<1> QED BY <1>2 DEF NavigationInit, NavigationInv

LEMMA FiveRoles ==
    DOMAIN ROLE_PERMISSIONS =
        {"super_admin", "admin", "manager", "supervisor", "cashier", "waiter", "kitchen"}
BY DEF ROLE_PERMISSIONS

\* Everybody may see his home page.
LEMMA HomeIsPermitted ==
    ASSUME app = "admin", visitor \in Visitors, NEW home, home = resolveHomePath(visitor.role)
    PROVE  Permitted(home) /\ home # "/" /\ home \notin Public /\ home \in Paths["admin"]
<1> DEFINE role == visitor.role
<1>1. role \in {"super_admin", "admin", "manager", "supervisor", "cashier", "waiter", "kitchen"}
  BY FiveRoles, NavigationAssumption
<1> HIDE DEF role
<1>2. guards[app] = {<<"/dashboard", "business:manage">>, <<"/debug/ws", "business:manage">>,
               <<"/products", "products:read">>,
               <<"/products/new", "products:read">>, <<"/products/new", "products:write">>,
               <<"/products/:id/edit", "products:read">>,
               <<"/products/:id/edit", "products:write">>,
               <<"/categories", "categories:read">>,
               <<"/users", "users:read">>,
               <<"/users/new", "users:read">>, <<"/users/new", "users:write">>,
               <<"/users/:id/edit", "users:read">>, <<"/users/:id/edit", "users:write">>}
  BY DEF guards
<1>3. CASE home = "/dashboard"
  <2>1. role \in {"super_admin", "admin"}
    BY <1>3 DEF resolveHomePath, role
  <2>2. hasPermission(role, "business:manage")
    BY <2>1 DEF hasPermission, ROLE_PERMISSIONS, ADMIN_PERMISSIONS
  <2>3. \A g \in guards[app] : g[1] = "/dashboard" => g[2] = "business:manage"
    BY <1>2
  <2> QED BY <1>3, <2>2, <2>3 DEF Permitted, Public, Paths, role
<1>4. CASE home = "/no-access"
  <2>1. \A g \in guards[app] : g[1] # "/no-access"
    BY <1>2
  <2> QED BY <1>4, <2>1 DEF Permitted, Public, Paths
<1>5. CASE home = "/products"
  <2>1. role \in {"manager", "supervisor", "cashier", "waiter"}
    BY <1>1, <1>5 DEF resolveHomePath, role
  <2>2. hasPermission(role, "products:read")
    BY <2>1 DEF hasPermission, ROLE_PERMISSIONS
  <2>3. \A g \in guards[app] : g[1] = "/products" => g[2] = "products:read"
    BY <1>2
  <2> QED BY <1>5, <2>2, <2>3 DEF Permitted, Public, Paths, role
<1> QED BY <1>3, <1>4, <1>5 DEF resolveHomePath

LEMMA PosPermits ==
    ASSUME app = "pos", NEW path
    PROVE  Permitted(path) <=> (path = "/" => hasPermission(visitor.role, "products:read"))
<1>1. guards[app] = {<<"/", "products:read">>}
  BY DEF guards
<1> QED BY <1>1 DEF Permitted

LEMMA RedirectedKeeps ==
    ASSUME NavigationInv, Redirected
    PROVE  NavigationInv'
<1> USE DEF NavigationInv
<1>1. PICK to : /\ to \in RedirectTo /\ to # location /\ location' = to
                /\ from' = IF navStatus = "unauthenticated" THEN location ELSE "default"
                /\ hops' = hops + 1
                /\ UNCHANGED <<app, navStatus, visitor, hasBusiness, picked>>
  BY DEF Redirected
<1>2. hops = 0 /\ hops' = 1
  BY <1>1 DEF Settles, NavigationTypeOK
<1>3. navStatus # "loading" /\ location \notin Public
  BY <1>1 DEF RedirectTo
<1>4. to \in Paths[app] /\ Settles'
  <2>1. CASE navStatus = "unauthenticated"
    <3>1. to = "/login"
      BY <1>1, <1>3, <2>1 DEF RedirectTo
    <3> QED BY <1>1, <3>1 DEF RedirectTo, Settles, Public, Paths, NavigationTypeOK
  <2>2. CASE navStatus = "authenticated" /\ app = "pos"
    <3>1. Gate' = Gate /\ Gate \in {{}, {"/select-business"}, {"/no-branch"}}
      BY <1>1 DEF Gate
    <3>2. /\ Permitted(location) <=> (location = "/" => hasPermission(visitor.role, "products:read"))
          /\ Permitted(to)' <=> (to = "/" => hasPermission(visitor.role, "products:read"))
      <4>1. guards[app] = {<<"/", "products:read">>} /\ app' = app /\ visitor' = visitor
        BY <1>1, <2>2 DEF guards
      <4>2. guards[app]' = {<<"/", "products:read">>}
        BY <4>1
      <4> QED BY <1>1, <4>1, <4>2 DEF Permitted
    <3>3. CASE Gated
      <4>1. to \in Gate
        BY <1>1, <1>3, <2>2, <3>3 DEF RedirectTo
      <4>2. to \in {"/select-business", "/no-branch"}
        BY <3>1, <4>1
      <4>3. RedirectTo' = {}
        BY <1>1, <2>2, <3>1, <3>2, <4>1, <4>2 DEF RedirectTo, Gated, Onward
      <4> QED BY <2>2, <4>2, <4>3 DEF Settles, Paths
    <3>4. CASE ~Gated
      <4>1. to = "/" /\ (location = "*" \/ ~Permitted(location))
        BY <1>1, <1>3, <2>2, <3>4 DEF RedirectTo, Onward
      <4>2. Gate = {}
        BY <3>1, <3>2, <3>4, <4>1 DEF Gated
      <4>3. RedirectTo' \subseteq {to}
        BY <1>1, <2>2, <3>1, <4>1, <4>2 DEF RedirectTo, Gated, Onward
      <4> QED BY <1>1, <2>2, <4>1, <4>3 DEF Settles, Paths
    <3> QED BY <3>3, <3>4
  <2>3. CASE navStatus = "authenticated" /\ app = "admin"
    <3>1. to = resolveHomePath(visitor.role)
      BY <1>1, <1>3, <2>3 DEF RedirectTo, Gated, Gate, Onward
    <3>2. Permitted(to) /\ to # "/" /\ to \in Paths["admin"]
      BY <2>3, <3>1, HomeIsPermitted DEF NavigationTypeOK
    <3>3. Permitted(to)'
      BY <1>1, <3>2 DEF Permitted
    <3>4. RedirectTo' = {}
      BY <1>1, <2>3, <3>2, <3>3 DEF RedirectTo, Gated, Gate, Onward
    <3> QED BY <2>3, <3>2, <3>4 DEF Settles
  <2> QED BY <1>3, <2>1, <2>2, <2>3 DEF NavigationTypeOK
<1>5. NavigationTypeOK'
  BY <1>1, <1>2, <1>4 DEF NavigationTypeOK
<1> QED BY <1>1, <1>2, <1>3, <1>4, <1>5

LEMMA NavigationInductive == NavigationInv /\ [NavigationNext]_navigationVars => NavigationInv'
<1> SUFFICES ASSUME NavigationInv, [NavigationNext]_navigationVars
             PROVE  NavigationInv'
  OBVIOUS
<1> USE DEF NavigationInv, NavigationTypeOK
<1>1. ASSUME hops' = 0, NavigationTypeOK'
      PROVE  NavigationInv'
  BY <1>1
<1>2. /\ "/login" \in Paths[app] /\ "/dashboard" \in Paths["admin"] /\ "/" \in Paths["pos"]
  BY DEF Paths, Public
<1>3. ASSUME NEW path \in Paths[app], GoTo(path)
      PROVE  NavigationInv'
  BY <1>1, <1>3 DEF GoTo
<1>4. ASSUME NEW path \in Paths[app], ReloadPage(path)
      PROVE  NavigationInv'
  BY <1>1, <1>4 DEF ReloadPage, Reloaded
<1>5. ASSUME NEW v \in Visitors, Hydrated(v)
      PROVE  NavigationInv'
  BY <1>1, <1>5 DEF Hydrated, HasBusiness
<1>6. ASSUME NEW v \in Visitors, SignIn(v)
      PROVE  NavigationInv'
  BY <1>1, <1>2, <1>6 DEF SignIn, HasBusiness
<1>7. CASE HydrateUnanswered
  BY <1>1, <1>7 DEF HydrateUnanswered
<1>8. CASE SignOut
  BY <1>1, <1>8 DEF SignOut, EndSession
<1>9. CASE AuthFailure
  BY <1>1, <1>2, <1>9 DEF AuthFailure, EndSession
<1>10. CASE PickBusiness
  BY <1>1, <1>10 DEF PickBusiness, Reloaded
<1>11. ASSUME UNCHANGED <<app, navStatus, visitor, hasBusiness, location, from, hops>>,
              picked' \in BOOLEAN
       PROVE  NavigationInv'
  BY <1>11 DEF Settles, RedirectTo, Gated, Gate, Onward, Permitted
<1>12. CASE PickFirst
  BY <1>11, <1>12 DEF PickFirst
<1>13. CASE UNCHANGED navigationVars
  BY <1>11, <1>13 DEF navigationVars
<1> QED BY <1>3, <1>4, <1>5, <1>6, <1>7, <1>8, <1>9, <1>10, <1>12, <1>13, RedirectedKeeps
        DEF NavigationNext

\* Guards and gate redirect once at most, to a page the visitor may see - whoever signs in, and
\* whatever happens to his session under way (RequirePermission, resolveHomePath, GatingRedirect).
THEOREM RedirectsEnd == NavigationSpec => []RedirectsEndOnAPage
<1>1. NavigationInv => RedirectsEndOnAPage
  <2> SUFFICES ASSUME NavigationInv, location \in RedirectTo
               PROVE  app = "pos" /\ ~hasPermission(visitor.role, "products:read")
    BY DEF RedirectsEndOnAPage, NavigationInv
  <2>1. navStatus = "authenticated" /\ ~Gated /\ location \in Onward
    BY DEF RedirectTo, Gated, Public, NavigationInv, NavigationTypeOK
  <2>2. CASE app = "pos"
    <3>1. location = "/" /\ ~Permitted(location)
      BY <2>1, <2>2 DEF Onward
    <3> QED BY <2>2, <3>1, PosPermits
  <2>3. CASE app = "admin"
    <3>1. location = resolveHomePath(visitor.role) /\ (location = "/" \/ ~Permitted(location))
      BY <2>1, <2>3 DEF Onward
    <3> QED BY <2>3, <3>1, HomeIsPermitted DEF NavigationInv, NavigationTypeOK
  <2> QED BY <2>2, <2>3 DEF NavigationInv, NavigationTypeOK
<1> QED BY <1>1, NavigationInitially, NavigationInductive, PTL DEF NavigationSpec
=============================================================================
