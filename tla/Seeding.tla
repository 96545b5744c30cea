-------------------------------- MODULE Seeding --------------------------------
(***************************************************************************)
(* The scripts that bring a database up to the code: the Atlas orchestrator *)
(* (db/seed-atlas.ts) runs the backfills (db/backfills.ts), the set-up of   *)
(* the collections (db/setup.ts) and the seed of the Mura tenant            *)
(* (db/seed.ts); db/seed-cypress.ts keeps the fixtures of the browser tests.*)
(*                                                                         *)
(* Each script is one process that may die between any two of its writes    *)
(* and be started again, with the application at work on the same data.     *)
(* A product is what the backfills look at: whether it has sortOrder, and   *)
(* which of its modifier groups have maxSelectable; a branch is whether it  *)
(* has a time zone.                                                        *)
(*                                                                         *)
(* `cut' is history: no guard reads it.                                     *)
(***************************************************************************)
EXTENDS Integers, Sequences

CONSTANTS Fixtures     \* documents of the browser tests, in the order they are written

\* "none" of the product's groups has maxSelectable, "some" has, "all" have (or there is no
\* group at all).
ProductShapes == [sortOrder : BOOLEAN, maxSelectable : {"none", "some", "all"}]

\* What the application and buildMuraDocuments write, and the validator of `products' wants.
ValidProduct(p) == p.sortOrder /\ p.maxSelectable = "all"

NewProduct == [sortOrder |-> TRUE, maxSelectable |-> "all"]

\* Fault: the preferences before the products they are of.
MuraStepsSwapped == <<"businesses", "branches", "users", "categories", "productPreferences",
                      "products">>

\* seedData's writes, in order.
MuraSteps == <<"businesses", "branches", "users", "categories", "products",
               "productPreferences">>

Collections == {MuraSteps[i] : i \in DOMAIN MuraSteps}

\* Where the documents of a collection refer to.
RefersTo == [businesses |-> {}, branches |-> {"businesses"},
             users |-> {"businesses", "branches"}, categories |-> {"businesses"},
             products |-> {"businesses", "branches", "categories"},
             productPreferences |-> {"branches", "products"}]

ASSUME SeedingAssumption == Fixtures \in Seq(STRING) /\ Len(Fixtures) > 0

VARIABLES
    shapes,     \* the products stored, by shape
    zoned,      \* the branches stored, by whether they have a time zone
    validated,  \* the collections' validators are those of the code
    mura,       \* how much of the tenant's documents each collection has
    atlas,      \* where the orchestrator is
    fixture,    \* how each fixture is
    cypress,    \* the fixture seed-cypress writes next, 0 when it does not run
    cut         \* history: a run died, or failed, between seedData's first and last write

seedingVars == <<shapes, zoned, validated, mura, atlas, fixture, cypress, cut>>

\* The orchestrator while it writes to a collection.
Inserting == [businesses |-> "insert businesses", branches |-> "insert branches",
              users |-> "insert users", categories |-> "insert categories",
              products |-> "insert products", productPreferences |-> "insert preferences"]

AtlasSteps == {"idle", "timezone", "maxSelectable", "setup", "seed"}
                  \cup {Inserting[c] : c \in Collections}

SeedingTypeOK ==
    /\ shapes \subseteq ProductShapes
    /\ zoned \subseteq BOOLEAN
    /\ validated \in BOOLEAN /\ cut \in BOOLEAN
    /\ mura \in [Collections -> {"none", "part", "all"}]
    /\ atlas \in AtlasSteps
    /\ fixture \in [DOMAIN Fixtures -> {"absent", "drifted", "right"}]
    /\ cypress \in 0..Len(Fixtures)

SeedingInit ==
    /\ shapes \in SUBSET ProductShapes
    /\ zoned \in SUBSET BOOLEAN
    /\ validated = FALSE /\ cut = FALSE
    /\ mura = [c \in Collections |-> "none"]
    /\ atlas = "idle"
    /\ fixture = [i \in DOMAIN Fixtures |-> "absent"]
    /\ cypress = 0

----------------------------------------------------------------------------
(* runAllBackfills.  Each updates the documents its filter finds, at once.  *)

\* backfillProductSortOrder, the orchestrator's first step.
BackfillSortOrder ==
    /\ atlas = "idle"
    /\ shapes' = {[p EXCEPT !.sortOrder = TRUE] : p \in shapes}
    /\ atlas' = "timezone"
    /\ UNCHANGED <<zoned, validated, mura, fixture, cypress, cut>>

BackfillTimezone ==
    /\ atlas = "timezone"
    /\ zoned' = {TRUE : z \in zoned}
    /\ atlas' = "maxSelectable"
    /\ UNCHANGED <<shapes, validated, mura, fixture, cypress, cut>>

\* Fault: the filter wants the products that have some of it.
MatchesFilterHalf(p) == p.maxSelectable = "some"

\* 'modifierGroups.maxSelectable': { $exists: false } holds of a document none of whose
\* groups has the field.
MatchesFilter(p) == p.maxSelectable = "none"

\* backfillProductModifierMaxSelectable completes every group of the products it matches.
BackfillMaxSelectable ==
    /\ atlas = "maxSelectable"
    /\ shapes' = {IF MatchesFilter(p) THEN [p EXCEPT !.maxSelectable = "all"] ELSE p :
                    p \in shapes}
    /\ atlas' = "setup"
    /\ UNCHANGED <<zoned, validated, mura, fixture, cypress, cut>>

----------------------------------------------------------------------------
(* setupCollections; a user without the privilege keeps the old validators. *)

SetupCollections ==
    /\ atlas = "setup"
    /\ validated' \in {validated, TRUE}
    /\ atlas' = "seed"
    /\ UNCHANGED <<shapes, zoned, mura, fixture, cypress, cut>>

----------------------------------------------------------------------------
(* seedData.                                                               *)

InsertStep(i) == IF i \in DOMAIN MuraSteps THEN Inserting[MuraSteps[i]] ELSE "idle"

\* It skips a database that has the business.
SeedData ==
    /\ atlas = "seed"
    /\ atlas' = IF mura["businesses"] = "none" THEN InsertStep(1) ELSE "idle"
    /\ UNCHANGED <<shapes, zoned, validated, mura, fixture, cypress, cut>>

\* insertOne, or insertMany; buildMuraDocuments makes valid products.
InsertMura(i) ==
    /\ atlas = InsertStep(i)
    /\ mura' = [mura EXCEPT ![MuraSteps[i]] = "all"]
    /\ shapes' = IF MuraSteps[i] = "products"
                   THEN shapes \cup {NewProduct} ELSE shapes
    /\ zoned' = IF MuraSteps[i] = "branches" THEN zoned \cup {TRUE} ELSE zoned
    /\ atlas' = InsertStep(i + 1)
    /\ UNCHANGED <<validated, fixture, cypress, cut>>

\* The orchestrator dies or a write of its fails, an insertMany perhaps halfway.
AtlasDies ==
    /\ atlas # "idle"
    /\ atlas' = "idle"
    /\ \/ UNCHANGED mura
       \/ \E i \in DOMAIN MuraSteps :
            /\ atlas = InsertStep(i)
            /\ mura[MuraSteps[i]] = "none" /\ i > 2
            /\ mura' = [mura EXCEPT ![MuraSteps[i]] = "part"]
    /\ cut' = (cut \/ \E i \in DOMAIN MuraSteps : i > 1 /\ atlas = InsertStep(i))
    /\ UNCHANGED <<shapes, zoned, validated, fixture, cypress>>

----------------------------------------------------------------------------
(* seed-cypress: upsertById of one fixture after the other.                *)

CypressStart ==
    /\ cypress = 0
    /\ cypress' = 1
    /\ UNCHANGED <<shapes, zoned, validated, mura, atlas, fixture, cut>>

upsertById ==
    /\ cypress > 0
    /\ fixture' = [fixture EXCEPT ![cypress] = "right"]
    /\ cypress' = IF cypress = Len(Fixtures) THEN 0 ELSE cypress + 1
    /\ UNCHANGED <<shapes, zoned, validated, mura, atlas, cut>>

CypressDies ==
    /\ cypress > 0
    /\ cypress' = 0
    /\ UNCHANGED <<shapes, zoned, validated, mura, atlas, fixture, cut>>

----------------------------------------------------------------------------
(* The application, meanwhile.                                             *)

AppCreates ==
    /\ shapes' = shapes \cup {NewProduct}
    /\ UNCHANGED <<zoned, validated, mura, atlas, fixture, cypress, cut>>

Drift(i) ==
    /\ fixture[i] = "right"
    /\ fixture' = [fixture EXCEPT ![i] = "drifted"]
    /\ UNCHANGED <<shapes, zoned, validated, mura, atlas, cypress, cut>>

----------------------------------------------------------------------------
SeedingNext ==
    \/ BackfillSortOrder \/ BackfillTimezone \/ BackfillMaxSelectable
    \/ SetupCollections \/ SeedData \/ AtlasDies
    \/ \E i \in DOMAIN MuraSteps : InsertMura(i)
    \/ CypressStart \/ upsertById \/ CypressDies
    \/ AppCreates
    \/ \E i \in DOMAIN Fixtures : Drift(i)

SeedingSpec == SeedingInit /\ [][SeedingNext]_seedingVars

----------------------------------------------------------------------------
(* Properties                                                              *)

\* Once the validators are the code's, the documents of older versions fit them, whichever
\* run died where; but for the products only some of whose groups have maxSelectable,
\* which no backfill matches (runAllBackfills before setupCollections).
BackfilledBeforeValidated ==
    validated =>
        /\ FALSE \notin zoned
        /\ \A p \in shapes : ValidProduct(p) \/ (p.sortOrder /\ p.maxSelectable = "some")

\* Wherever runs die, what the tenant has refers to what it has, and it lacks something
\* for good only after a run that was cut between its first and its last insert (seedData).
TenantIsSound ==
    /\ \A c \in Collections : mura[c] # "none" => \A d \in RefersTo[c] : mura[d] = "all"
    /\ atlas = "idle" /\ mura["businesses"] = "all" /\ ~cut =>
         \A c \in Collections : mura[c] = "all"
=============================================================================
