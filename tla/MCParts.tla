------------------------------- MODULE MCParts ------------------------------
(***************************************************************************)
(* Sixteen components, one behaviour of one of them at a time: `part' says *)
(* which one moves, the others stay as they begin.  So one run checks all  *)
(* of them, on the instance below.                                         *)
(***************************************************************************)
EXTENDS WsConnections, Announcements, Purge, Availability, MongoConnection, Users, Access,
        Seeding, ProductsPage, ProductForm, ListPages, UserForm, Navigation, Catalog, Scanner,
        Terminal

VARIABLE part

Grant(role, biz, ids) == [role |-> role, business |-> biz, branches |-> ids]
Visitor(role, branches) == [role |-> role, branches |-> branches]

\* Where a component has several beginnings, the others need only one of them.
PartsInit ==
    /\ part \in {"ws", "announcements", "purge", "availability", "mongo", "users", "access",
                 "seeding", "page", "form", "lists", "userform", "navigation", "catalog",
                 "scanner", "terminal"}
    /\ WsInit /\ AnnouncementsInit /\ PurgeInit /\ AvailabilityInit /\ MongoInit /\ UsersInit
    /\ PageInit /\ ProductFormInit /\ UserFormInit /\ CatalogInit /\ ScannerInit /\ TerminalInit
    /\ AccessInit /\ (part # "access" => person.grant = Grant("cashier", "b", {"x"}))
    /\ SeedingInit /\ (part # "seeding" => shapes = {} /\ zoned = {})
    /\ ListInit /\ (part # "lists" => list = "users" /\ chosen.limit = 25)
    /\ NavigationInit
    /\ part # "navigation" => /\ app = "pos" /\ navStatus = "unauthenticated"
                              /\ visitor = Visitor("cashier", "some")

\* The other components stay where they are.
OnlyMoves(p) ==
    /\ UNCHANGED part
    /\ IF p = "ws" THEN TRUE ELSE UNCHANGED wsVars
    /\ IF p = "announcements" THEN TRUE ELSE UNCHANGED announcementVars
    /\ IF p = "purge" THEN TRUE ELSE UNCHANGED purgeVars
    /\ IF p = "availability" THEN TRUE ELSE UNCHANGED availabilityVars
    /\ IF p = "mongo" THEN TRUE ELSE UNCHANGED mongoVars
    /\ IF p = "users" THEN TRUE ELSE UNCHANGED usersVars
    /\ IF p = "access" THEN TRUE ELSE UNCHANGED accessVars
    /\ IF p = "seeding" THEN TRUE ELSE UNCHANGED seedingVars
    /\ IF p = "page" THEN TRUE ELSE UNCHANGED pageVars
    /\ IF p = "form" THEN TRUE ELSE UNCHANGED formVars
    /\ IF p = "lists" THEN TRUE ELSE UNCHANGED listPageVars
    /\ IF p = "userform" THEN TRUE ELSE UNCHANGED userFormVars
    /\ IF p = "navigation" THEN TRUE ELSE UNCHANGED navigationVars
    /\ IF p = "catalog" THEN TRUE ELSE UNCHANGED catalogVars
    /\ IF p = "scanner" THEN TRUE ELSE UNCHANGED scannerVars
    /\ IF p = "terminal" THEN TRUE ELSE UNCHANGED terminalVars

PartsNext ==
    \/ part = "ws" /\ OnlyMoves("ws") /\ WsNext
    \/ part = "announcements" /\ OnlyMoves("announcements") /\ AnnouncementsNext
    \/ part = "purge" /\ OnlyMoves("purge") /\ PurgeNext
    \/ part = "availability" /\ OnlyMoves("availability") /\ AvailabilityNext
    \/ part = "mongo" /\ OnlyMoves("mongo") /\ MongoNext
    \/ part = "users" /\ OnlyMoves("users") /\ UsersNext
    \/ part = "access" /\ OnlyMoves("access") /\ AccessNext
    \/ part = "seeding" /\ OnlyMoves("seeding") /\ SeedingNext
    \/ part = "page" /\ OnlyMoves("page") /\ PageNext
    \/ part = "form" /\ OnlyMoves("form") /\ ProductFormNext
    \/ part = "lists" /\ OnlyMoves("lists") /\ ListNext
    \/ part = "userform" /\ OnlyMoves("userform") /\ UserFormNext
    \/ part = "navigation" /\ OnlyMoves("navigation") /\ NavigationNext
    \/ part = "catalog" /\ OnlyMoves("catalog") /\ CatalogNext
    \/ part = "scanner" /\ OnlyMoves("scanner") /\ ScannerNext
    \/ part = "terminal" /\ OnlyMoves("terminal") /\ TerminalNext

partsVars == <<part, wsVars, announcementVars, purgeVars, availabilityVars, mongoVars, usersVars,
               accessVars, seedingVars, pageVars, formVars, listPageVars, userFormVars,
               navigationVars, catalogVars, scannerVars, terminalVars>>

PartsSpec == PartsInit /\ [][PartsNext]_partsVars

\* The type invariant of the component that moves.
PartsTypeOK ==
    CASE part = "ws" -> WsTypeOK
      [] part = "announcements" -> AnnouncementsTypeOK
      [] part = "purge" -> PurgeTypeOK
      [] part = "availability" -> AvailabilityTypeOK
      [] part = "mongo" -> MongoTypeOK
      [] part = "users" -> UsersTypeOK
      [] part = "access" -> AccessTypeOK
      [] part = "seeding" -> SeedingTypeOK
      [] part = "page" -> ProductsPageTypeOK
      [] part = "form" -> ProductFormTypeOK
      [] part = "lists" -> ListTypeOK
      [] part = "userform" -> UserFormTypeOK
      [] part = "navigation" -> NavigationTypeOK
      [] part = "catalog" -> CatalogTypeOK
      [] part = "scanner" -> ScannerTypeOK
      [] part = "terminal" -> TerminalTypeOK

\* The state of the component that moves: nothing else tells two states of a behaviour apart.
Moving ==
    CASE part = "ws" -> <<part, wsVars>>
      [] part = "announcements" -> <<part, announcementVars>>
      [] part = "purge" -> <<part, purgeVars>>
      [] part = "availability" -> <<part, availabilityVars>>
      [] part = "mongo" -> <<part, mongoVars>>
      [] part = "users" -> <<part, usersVars>>
      [] part = "access" -> <<part, accessVars>>
      [] part = "seeding" -> <<part, seedingVars>>
      [] part = "page" -> <<part, pageVars>>
      [] part = "form" -> <<part, formVars>>
      [] part = "lists" -> <<part, listPageVars>>
      [] part = "userform" -> <<part, userFormVars>>
      [] part = "navigation" -> <<part, navigationVars>>
      [] part = "catalog" -> <<part, catalogVars>>
      [] part = "scanner" -> <<part, scannerVars>>
      [] part = "terminal" -> <<part, terminalVars>>

\* What the run takes no further.  No guard reads what the cache just gave, so nothing is
\* lost with the states that have it, which are checked and left; a form whose variants an
\* upload crossed goes on only while the shelf has room for another product; the page goes on
\* until it had three changes, of the products and the star together.
TakenFurther ==
    /\ Cardinality(menu) + starWrites <= 3
    /\ answered = Void
    /\ \A f \in crossedForms : OnShelf # Shelf

----------------------------------------------------------------------------
(* The instance.                                                           *)
MCUser == [userId |-> "ana", businessId |-> "b", role |-> "cashier", branchIds |-> {"x"}]
MCRoot == [userId |-> "root", businessId |-> "*", role |-> "super_admin", branchIds |-> {}]
MCPrincipals == {MCUser, MCRoot}
MCRequested == {BranchChannel("b", "x"), BranchChannel("b", "b")}
Document(coll, biz, user, email) == [coll |-> coll, biz |-> biz, user |-> user, email |-> email]
MCDocuments ==
    {Document("businesses", "d", "-", "-"), Document("businesses", "o", "-", "-"),
     Document("users", "d", "u", "e"), Document("users", "o", "v", "e"),
     Document("refreshTokens", "d", "u", "-"), Document("refreshTokens", "o", "v", "-"),
     Document("loginAttempts", Nothing, "-", "e"), Document("auditLogs", "d", "u", "-"),
     Document("products", "d", "-", "-")}
MCWindows == {[daysOfWeek |-> d, from |-> f, to |-> t] : d \in {{5}, {0, 6}}, f \in 0..2, t \in 0..2}
MCGrants == {Grant("cashier", "b", {"x"}), Grant("admin", "b", {}), Grant("super_admin", "*", {})}
MCBranchOwner == [x \in {"x", "y"} |-> "b"]
MCFixtures == <<"business", "user">>
MCVisitors ==
    [role : {"super_admin", "admin", "manager", "cashier", "kitchen"}, branches : {"none", "some"}]
Item(id, c, texts) == [id |-> id, category |-> c, texts |-> texts]
MCTabs  == {[id |-> "k1", name |-> "Cafe"]}
MCStock == <<Item("a", "Cafe", {"x"}), Item("b", "Cafe", {}), Item("c", "Te", {"x"})>>
MCViews == {[category |-> "*", text |-> "*"], [category |-> "k1", text |-> "*"],
            [category |-> "*", text |-> "x"]}
MCEmployer == [s \in {"ana", "root"} |-> IF s = "ana" THEN "b" ELSE Anyone]
=============================================================================
