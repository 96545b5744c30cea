-------------------------------- MODULE Menu --------------------------------
(***************************************************************************)
(* The menu of one branch: services/categories.ts and services/products.ts *)
(* over MongoDB, and the events they publish on the branch's channel.      *)
(*                                                                         *)
(* An element of MenuCalls is one HTTP request past its middleware, with a *)
(* step per await whose result matters; a request refused (404, 403, 409,  *)
(* 400) by its first read leaves no trace and has no action.  Names and    *)
(* SKUs are model values, stock is only low or not, and the fields that no *)
(* other operation reads are left out.  MongoDB gives updateCategory a     *)
(* transaction (a standalone development server does not).                 *)
(*                                                                         *)
(* `detached', `lowAlert' and `untold' are history: no guard reads them.   *)
(* The first two follow one product, Watched, which may be any of them.    *)
(***************************************************************************)
EXTENDS Integers

CONSTANTS Categories, Products, CategoryNames, Skus, MenuCalls, NoValue,
          Watched,       \* the product that the history follows
          Patches,       \* the updates of a product that requests carry
          MaxMenuFaults  \* bound: publishes that fail and requests that die

Patch == [name : CategoryNames \cup {NoValue}, sku : Skus \cup {NoValue},
          low : BOOLEAN \cup {NoValue}]
Product == [category : CategoryNames, sku : Skus, low : BOOLEAN]

ASSUME MenuAssumption ==
    /\ NoValue \notin Categories \cup Products \cup CategoryNames \cup Skus \cup BOOLEAN
    /\ NoValue \notin Product
    /\ Watched \in Products
    /\ Patches \subseteq Patch
    /\ MaxMenuFaults \in Nat

VARIABLES
    categories,     \* the categories collection: the name of each, or NoValue
    products,       \* the products collection
    menuCall,       \* the requests in flight
    detached,       \* history: is Watched under a name that no category had, or was left under
    lowAlert,       \* history: how the low-stock alerts of Watched stand
    untold,         \* history: has the branch been told of the last change of a product
    menuFaults

menuHistory == <<detached, lowAlert, untold>>
menuVars == <<categories, products, menuCall, menuHistory, menuFaults>>

Telling   == {"product.reread", "reorder", "publish"}
MenuSteps == {"idle", "category.insert", "category.conflict", "category.write", "product.insert",
              "product.conflict", "product.update", "product.deactivate", "product.alert"} \cup Telling
MenuCall  == [step : MenuSteps, doc : Categories \cup Products \cup {NoValue}, patch : Patch,
              old : CategoryNames \cup BOOLEAN \cup {NoValue}, items : SUBSET Products]
NoPatch    == [name |-> NoValue, sku |-> NoValue, low |-> NoValue]
NoMenuCall == [step |-> "idle", doc |-> NoValue, patch |-> NoPatch, old |-> NoValue, items |-> {}]

MenuTypeOK ==
    /\ categories \in [Categories -> CategoryNames \cup {NoValue}]
    /\ products \in [Products -> Product \cup {NoValue}]
    /\ menuCall \in [MenuCalls -> MenuCall]
    /\ detached \in BOOLEAN
    /\ lowAlert \in {"settled", "due", "spurious", "excused"}
    /\ untold \in {"no", "yes", "lost"}
    /\ menuFaults \in Nat

MenuInit ==
    /\ categories = [k \in Categories |-> NoValue]
    /\ products = [p \in Products |-> NoValue]
    /\ menuCall = [r \in MenuCalls |-> NoMenuCall]
    /\ detached = FALSE /\ lowAlert = "settled" /\ untold = "no"
    /\ menuFaults = 0

Stored   == {p \in Products : products[p] # NoValue}
Names    == {categories[k] : k \in Categories} \ {NoValue}
Step(r)  == menuCall[r].step
Doc(r)   == menuCall[r].doc
Fresh(d) == \A r \in MenuCalls : Doc(r) # d    \* crypto.randomUUID

MenuBegin(r, call) ==
    /\ Step(r) = "idle"
    /\ menuCall' = [menuCall EXCEPT ![r] = call]
MenuGoto(r, step) == menuCall' = [menuCall EXCEPT ![r].step = step]
MenuReturn(r)     == menuCall' = [menuCall EXCEPT ![r] = NoMenuCall]

\* The unique indexes of db/setup.ts.
NameTaken(n, k) == \E j \in Categories \ {k} : categories[j] = n
SkuTaken(s, p)  == \E q \in Stored \ {p} : products[q].sku = s

\* Request r leaves the alerts of its product p at a, or is done with p: two requests at
\* work on Watched excuse each other, until it has none.
Alone(r)       == \A x \in MenuCalls \ {r} : Doc(x) # Watched
Alert(r, p, a) == CASE p # Watched -> lowAlert
                    [] p = Watched /\ Alone(r) /\ lowAlert # "excused" -> a
                    [] OTHER -> "excused"
Rest(r, p)     == IF p = Watched /\ Alone(r) /\ lowAlert = "excused" THEN "settled" ELSE lowAlert

----------------------------------------------------------------------------
(* services/categories.ts                                                  *)

\* createCategory, once findOne has found no category of that name.
CreateCategory(r, k, n) ==
    /\ categories[k] = NoValue /\ Fresh(k)
    /\ n \notin Names
    /\ MenuBegin(r, [NoMenuCall EXCEPT !.step = "category.insert", !.doc = k, !.patch.name = n])
    /\ UNCHANGED <<categories, products, menuHistory, menuFaults>>

\* insertOne; the unique index makes the loser of a race a 500.
InsertCategory(r) ==
    LET call == menuCall[r] IN
    /\ call.step = "category.insert"
    /\ categories' = IF NameTaken(call.patch.name, call.doc) THEN categories
                     ELSE [categories EXCEPT ![call.doc] = call.patch.name]
    /\ MenuReturn(r)
    /\ UNCHANGED <<products, menuHistory, menuFaults>>

\* updateCategory with a name, once `existing' is read; no conflict is looked for when the
\* name is the one read.  Without a name the update touches nothing that is kept here.
UpdateCategory(r, k, n) ==
    /\ categories[k] # NoValue
    /\ MenuBegin(r, [NoMenuCall EXCEPT !.doc = k, !.patch.name = n, !.old = categories[k],
            !.step = IF n = categories[k] THEN "category.write" ELSE "category.conflict"])
    /\ UNCHANGED <<categories, products, menuHistory, menuFaults>>

CategoryConflict(r) ==
    /\ Step(r) = "category.conflict"
    /\ IF NameTaken(menuCall[r].patch.name, Doc(r)) THEN MenuReturn(r)
       ELSE MenuGoto(r, "category.write")
    /\ UNCHANGED <<categories, products, menuHistory, menuFaults>>

\* Fault: the products keep the old name.
CascadeNothing(call) == products

\* The products that carry `existing.name' get the new one (none changes when it is the
\* same, which the code does not cascade).
CascadeRename(call) ==
    [p \in Products |-> IF p \in Stored /\ products[p].category = call.old
                          THEN [products[p] EXCEPT !.category = call.patch.name] ELSE products[p]]

\* The transaction: the category's name, renaming or not, and its products'.  When the
\* category has been renamed since `existing' was read, the products of its last name stay
\* behind: also where the name is the one read, which is written back.
WriteCategory(r) ==
    LET call == menuCall[r]
        last == categories[call.doc] IN
    /\ call.step = "category.write"
    /\ IF NameTaken(call.patch.name, call.doc) THEN UNCHANGED <<categories, products, detached>>
       ELSE /\ categories' = [categories EXCEPT ![call.doc] = call.patch.name]
            /\ products' = CascadeRename(call)
            /\ detached' = \/ detached
                           \/ /\ last \notin {call.old, call.patch.name}
                              /\ Watched \in Stored /\ products[Watched].category = last
    /\ MenuReturn(r)
    /\ UNCHANGED <<lowAlert, untold, menuFaults>>

----------------------------------------------------------------------------
(* services/products.ts                                                    *)

\* A product is saved under whatever name the request carries: no category may have it.
Detaches(p, n) == detached' = IF p = Watched THEN n \notin Names ELSE detached

\* createProduct, once findOne has found no product of that SKU in the branch.
CreateProduct(r, p, new) ==
    /\ products[p] = NoValue /\ Fresh(p)
    /\ NoValue \notin {new.name, new.sku, new.low}
    /\ ~SkuTaken(new.sku, p)
    /\ MenuBegin(r, [NoMenuCall EXCEPT !.step = "product.insert", !.doc = p, !.patch = new])
    /\ UNCHANGED <<categories, products, menuHistory, menuFaults>>

\* insertOne; duplicateKeyToAppError answers 409.  A new product gives no low-stock alert.
InsertProduct(r) ==
    LET call == menuCall[r]
        new  == call.patch IN
    /\ call.step = "product.insert"
    /\ IF SkuTaken(new.sku, call.doc)
         THEN MenuReturn(r) /\ UNCHANGED <<products, detached, untold>>
         ELSE /\ products' = [products EXCEPT ![call.doc] =
                                 [category |-> new.name, sku |-> new.sku, low |-> new.low]]
              /\ Detaches(call.doc, new.name)
              /\ untold' = "yes"
              /\ menuCall' = [menuCall EXCEPT ![r] =
                                 [NoMenuCall EXCEPT !.step = "publish", !.doc = call.doc]]
    /\ UNCHANGED <<categories, lowAlert, menuFaults>>

\* updateProduct, once `existing' is read; NoValue is a field the patch leaves alone.
UpdateProduct(r, p, patch) ==
    /\ p \in Stored
    /\ MenuBegin(r, [NoMenuCall EXCEPT !.doc = p, !.patch = patch, !.old = products[p].low,
            !.step = IF patch.sku \in {NoValue, products[p].sku} THEN "product.update"
                     ELSE "product.conflict"])
    /\ UNCHANGED <<categories, products, menuHistory, menuFaults>>

ProductConflict(r) ==
    LET call == menuCall[r] IN
    /\ call.step = "product.conflict"
    /\ IF SkuTaken(call.patch.sku, call.doc)
         THEN MenuReturn(r) /\ lowAlert' = Rest(r, call.doc)
         ELSE MenuGoto(r, "product.update") /\ UNCHANGED lowAlert
    /\ UNCHANGED <<categories, products, detached, untold, menuFaults>>

\* $set of the fields the patch has.
Patched(old, patch) ==
    [category |-> IF patch.name = NoValue THEN old.category ELSE patch.name,
     sku      |-> IF patch.sku = NoValue THEN old.sku ELSE patch.sku,
     low      |-> IF patch.low = NoValue THEN old.low ELSE patch.low]

WriteProduct(r) ==
    LET call == menuCall[r]
        p    == call.doc
        new  == Patched(products[p], call.patch) IN
    /\ call.step = "product.update"
    /\ IF call.patch.sku # NoValue /\ SkuTaken(call.patch.sku, p)
         THEN /\ MenuReturn(r) /\ lowAlert' = Rest(r, p)
              /\ UNCHANGED <<products, detached, untold>>
         ELSE /\ products' = [products EXCEPT ![p] = new]
              /\ lowAlert' = Alert(r, p, IF products[p].low THEN lowAlert
                                         ELSE IF new.low THEN "due" ELSE "settled")
              /\ IF call.patch.name = NoValue THEN UNCHANGED detached
                 ELSE Detaches(p, call.patch.name)
              /\ untold' = "yes"
              /\ menuCall' = [menuCall EXCEPT ![r].step = "product.reread", ![r].patch = NoPatch]
    /\ UNCHANGED <<categories, menuFaults>>

\* Fault: an alert for every save that leaves the stock low.
BecameLowAgain(was, isLow) == isLow

\* Only the transition below the threshold, as `existing' and `updated' tell it.
BecameLow(was, isLow) == ~was /\ isLow

\* `updated' is read again: what other requests wrote meanwhile is in it.
RereadProduct(r) ==
    LET call == menuCall[r] IN
    /\ call.step = "product.reread"
    /\ menuCall' = [menuCall EXCEPT ![r].step = "publish", ![r].old = NoValue,
                                    ![r].patch.low = BecameLow(call.old, products[call.doc].low)]
    /\ UNCHANGED <<categories, products, menuHistory, menuFaults>>

\* deleteProduct: a product found active is made inactive (isActive is not kept here);
\* the event is sent anyway.
DeleteProduct(r, p) ==
    /\ p \in Stored
    /\ \E step \in {"product.deactivate", "publish"} :
          MenuBegin(r, [NoMenuCall EXCEPT !.doc = p, !.step = step])
    /\ UNCHANGED <<categories, products, menuHistory, menuFaults>>

DeactivateProduct(r) ==
    /\ Step(r) = "product.deactivate"
    /\ untold' = "yes"
    /\ MenuGoto(r, "publish")
    /\ UNCHANGED <<categories, products, detached, lowAlert, menuFaults>>

\* reorderProducts: an unordered bulkWrite, one document at a time.
ReorderProducts(r, ps) ==
    /\ ps # {}
    /\ MenuBegin(r, [NoMenuCall EXCEPT !.step = "reorder", !.items = ps])
    /\ UNCHANGED <<categories, products, menuHistory, menuFaults>>

ReorderOne(r, p) ==
    /\ Step(r) = "reorder"
    /\ p \in menuCall[r].items \cap Stored
    /\ untold' = "yes"
    /\ menuCall' = [menuCall EXCEPT ![r].items = @ \ {p}]
    /\ UNCHANGED <<categories, products, detached, lowAlert, menuFaults>>

\* News nobody will hear of, unless another request has an event to send.
Lost == untold' = IF untold = "yes" THEN "lost" ELSE untold

\* Fault: no event after a reorder.
ReorderDoneQuietly(r) ==
    /\ Step(r) = "reorder"
    /\ menuCall[r].items \cap Stored = {}
    /\ MenuReturn(r)
    /\ UNCHANGED <<categories, products, menuHistory, menuFaults>>

\* Ids that match no product of the branch: a 400, and no event for what was written.
ReorderDone(r) ==
    LET missing == menuCall[r].items IN
    /\ Step(r) = "reorder"
    /\ missing \cap Stored = {}
    /\ IF missing = {} THEN MenuGoto(r, "publish") /\ UNCHANGED untold
       ELSE MenuReturn(r) /\ Lost
    /\ UNCHANGED <<categories, products, detached, lowAlert, menuFaults>>

\* fanOutProductEvent, or the publishToChannel of a reorder: errors are swallowed.
PublishProductEvent(r, ok) ==
    LET call == menuCall[r] IN
    /\ call.step = "publish"
    /\ menuFaults' = IF ok THEN menuFaults ELSE menuFaults + 1
    /\ IF ok THEN untold' = "no" ELSE Lost
    /\ IF call.patch.low = TRUE THEN MenuGoto(r, "product.alert") /\ UNCHANGED lowAlert
       ELSE /\ MenuReturn(r)
            /\ lowAlert' = Rest(r, call.doc)
    /\ UNCHANGED <<categories, products, detached>>

PublishLowStock(r) ==
    LET p == Doc(r) IN
    /\ Step(r) = "product.alert"
    /\ lowAlert' = CASE p # Watched -> lowAlert
                     [] p = Watched /\ lowAlert = "due" -> "settled"
                     [] p = Watched /\ lowAlert = "excused" -> Rest(r, p)
                     [] OTHER -> "spurious"
    /\ MenuReturn(r)
    /\ UNCHANGED <<categories, products, detached, untold, menuFaults>>

\* The database refuses a command, or the invocation dies.
MenuFail(r) ==
    LET p == Doc(r) IN
    /\ Step(r) # "idle"
    /\ menuFaults' = menuFaults + 1
    /\ lowAlert' = CASE p # Watched -> lowAlert
                     [] p = Watched /\ Alone(r) -> "settled"
                     [] OTHER -> "excused"
    /\ IF Step(r) \in Telling THEN Lost ELSE UNCHANGED untold
    /\ MenuReturn(r)
    /\ UNCHANGED <<categories, products, detached>>

CategoryNext(r) ==
    \/ \E k \in Categories, n \in CategoryNames : CreateCategory(r, k, n) \/ UpdateCategory(r, k, n)
    \/ InsertCategory(r) \/ CategoryConflict(r) \/ WriteCategory(r)

ProductNext(r) ==
    \/ \E p \in Products, new \in Patch : CreateProduct(r, p, new)
    \/ \E p \in Products, patch \in Patches : UpdateProduct(r, p, patch)
    \/ \E p \in Products : DeleteProduct(r, p) \/ ReorderOne(r, p)
    \/ \E ps \in SUBSET Products : ReorderProducts(r, ps)
    \/ InsertProduct(r) \/ ProductConflict(r) \/ WriteProduct(r) \/ RereadProduct(r)
    \/ DeactivateProduct(r) \/ ReorderDone(r)
    \/ PublishProductEvent(r, TRUE) \/ PublishLowStock(r)

MenuNext ==
    \E r \in MenuCalls :
        \/ CategoryNext(r) \/ ProductNext(r)
        \/ menuFaults < MaxMenuFaults /\ (PublishProductEvent(r, FALSE) \/ MenuFail(r))

MenuSpec == MenuInit /\ [][MenuNext]_menuVars

----------------------------------------------------------------------------
(* Properties                                                              *)

\* "A product references a category name that no longer exists" (the window that
\* updateCategory's transaction closes) only if a save of the product put it there, or if
\* two updates of its category overlapped: the second wrote the name it carried, a new one
\* or the one it had read, over a name the first had given both, and cascaded from the name
\* it had read or not at all.
CategoryNamesResolve ==
    Watched \in Stored /\ ~detached => products[Watched].category \in Names

\* A product that became low is announced so, once, and none that did not - unless two
\* requests worked on it at a time, or one was cut short: updateProduct compares
\* the document it began with to the one it reads back.
LowStockAnnounced ==
    /\ lowAlert # "spurious"
    /\ lowAlert = "due" => \E r \in MenuCalls : Doc(r) = Watched

\* No write of a product is the last word: an event follows it, which makes every
\* subscriber fetch again, unless the publish failed, the request died, or a reorder
\* answered 400 (fanOutProductEvent, reorderProducts).
ChangesAnnounced == untold = "yes" => \E r \in MenuCalls : Step(r) \in Telling
=============================================================================
