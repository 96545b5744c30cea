------------------------------ MODULE MenuProofs ------------------------------
(***************************************************************************)
(* Theorems about Menu, for any categories, products, names, SKUs, updates *)
(* and requests, and whichever product is watched.                         *)
(***************************************************************************)
EXTENDS Menu, TLAPS

----------------------------------------------------------------------------
(* Types: what the steps of a request know of its document.                *)

CategorySteps == {"category.insert", "category.conflict", "category.write"}
Updating      == {"product.conflict", "product.update", "product.reread"}

\* A category's request has a category and its new name; one past findOne, a stored one.
CategoryFits(r) ==
    /\ Step(r) \in CategorySteps => Doc(r) \in Categories /\ menuCall[r].patch.name \in CategoryNames
    /\ Step(r) \in {"category.conflict", "category.write"} => categories[Doc(r)] # NoValue

\* A product about to be created is whole.
InsertFits(r) ==
    Step(r) = "product.insert" =>
        /\ Doc(r) \in Products
        /\ menuCall[r].patch.name \in CategoryNames
        /\ menuCall[r].patch.sku \in Skus
        /\ menuCall[r].patch.low \in BOOLEAN

\* An update has a stored product, and knows whether its stock was low.
UpdateFits(r) == Step(r) \in Updating => Doc(r) \in Stored /\ menuCall[r].old \in BOOLEAN

Fits(r) == CategoryFits(r) /\ InsertFits(r) /\ UpdateFits(r)

MenuInv == MenuTypeOK /\ \A r \in MenuCalls : Fits(r)

\* The documents a step may leave behind: those stored stay so, and the call of one
\* request changes.
Grows ==
    /\ categories' \in [Categories -> CategoryNames \cup {NoValue}]
    /\ products' \in [Products -> Product \cup {NoValue}]
    /\ \A k \in Categories : categories[k] # NoValue => categories'[k] # NoValue
    /\ \A p \in Products : products[p] # NoValue => products'[p] # NoValue

LEMMA NoCallFits == NoMenuCall \in MenuCall /\ NoPatch \in Patch
BY DEF NoMenuCall, MenuCall, NoPatch, Patch, MenuSteps

\* The other requests keep fitting; so the step fits if the changed call does.
LEMMA OthersFit ==
    ASSUME MenuInv, Grows, NEW r \in MenuCalls, NEW c \in MenuCall,
           menuCall' = [menuCall EXCEPT ![r] = c], Fits(r)'
    PROVE  menuCall' \in [MenuCalls -> MenuCall] /\ \A s \in MenuCalls : Fits(s)'
<1>1. menuCall' \in [MenuCalls -> MenuCall]
  BY DEF MenuInv, MenuTypeOK
<1>2. ASSUME NEW s \in MenuCalls \ {r} PROVE Fits(s)'
  <2>1. menuCall'[s] = menuCall[s] /\ Fits(s)
    BY DEF MenuInv, MenuTypeOK
  <2> QED BY <2>1 DEF Grows, Fits, CategoryFits, InsertFits, UpdateFits, Step, Doc, Stored, CategorySteps
<1>3. ASSUME NEW s \in MenuCalls PROVE Fits(s)'
  <2>1. CASE s = r
    BY <2>1 DEF Fits, CategoryFits, InsertFits, UpdateFits, Step, Doc, Stored
  <2>2. CASE s # r
    BY <2>2, <1>2
  <2> QED BY <2>1, <2>2
<1> QED BY <1>1, <1>3

LEMMA SameGrows == ASSUME MenuTypeOK, UNCHANGED <<categories, products>> PROVE Grows
BY DEF Grows, MenuTypeOK

\* A request that returns fits.
LEMMA ReturnFits ==
    ASSUME MenuInv, Grows, NEW r \in MenuCalls, MenuReturn(r)
    PROVE  menuCall' \in [MenuCalls -> MenuCall] /\ \A s \in MenuCalls : Fits(s)'
<1>1. Fits(r)'
  BY DEF MenuReturn, NoMenuCall, Fits, CategoryFits, InsertFits, UpdateFits, Step, Doc,
     CategorySteps, Updating, MenuInv, MenuTypeOK
<1> QED BY <1>1, OthersFit, NoCallFits DEF MenuReturn

LEMMA TypesInitially == MenuInit => MenuInv
<1> SUFFICES ASSUME MenuInit PROVE MenuInv
  OBVIOUS
<1>1. MenuTypeOK
  BY MenuAssumption, NoCallFits DEF MenuInit, MenuTypeOK
<1>2. ASSUME NEW r \in MenuCalls PROVE Fits(r)
  <2>1. Step(r) = "idle"
    BY DEF MenuInit, Step, NoMenuCall
  <2> QED BY <2>1 DEF Fits, CategoryFits, InsertFits, UpdateFits, CategorySteps, Updating
<1> QED BY <1>1, <1>2 DEF MenuInv

LEMMA CategoryTypes ==
    ASSUME MenuInv, NEW r \in MenuCalls, CategoryNext(r)
    PROVE  MenuInv'
<1> USE DEF MenuInv
<1>1. ASSUME NEW k \in Categories, NEW n \in CategoryNames, CreateCategory(r, k, n) PROVE MenuInv'
  <2> DEFINE c == [NoMenuCall EXCEPT !.step = "category.insert", !.doc = k, !.patch.name = n]
  <2>1. c \in MenuCall
    BY NoCallFits DEF MenuCall, NoMenuCall, MenuSteps, Patch, NoPatch
  <2>2. menuCall' = [menuCall EXCEPT ![r] = c] /\ UNCHANGED <<categories, products, menuHistory, menuFaults>>
    BY <1>1 DEF CreateCategory, MenuBegin
  <2>3. Fits(r)'
    BY <2>2, <2>1 DEF Fits, CategoryFits, InsertFits, UpdateFits, Step, Doc, CategorySteps, Updating, MenuTypeOK,
       NoMenuCall, NoPatch
  <2> QED BY <2>1, <2>2, <2>3, OthersFit, SameGrows DEF MenuTypeOK, menuHistory
<1>2. ASSUME NEW k \in Categories, NEW n \in CategoryNames, UpdateCategory(r, k, n) PROVE MenuInv'
  <2> DEFINE c == [NoMenuCall EXCEPT !.doc = k, !.patch.name = n, !.old = categories[k],
                     !.step = IF n = categories[k] THEN "category.write" ELSE "category.conflict"]
  <2>1. c \in MenuCall
    BY <1>2, NoCallFits DEF MenuCall, NoMenuCall, MenuSteps, Patch, NoPatch, UpdateCategory, MenuTypeOK
  <2>2. menuCall' = [menuCall EXCEPT ![r] = c] /\ UNCHANGED <<categories, products, menuHistory, menuFaults>>
    BY <1>2 DEF UpdateCategory, MenuBegin
  <2>3. Fits(r)'
    BY <1>2, <2>2, <2>1 DEF Fits, CategoryFits, InsertFits, UpdateFits, Step, Doc, CategorySteps, Updating, MenuTypeOK,
       NoMenuCall, NoPatch, UpdateCategory
  <2> QED BY <2>1, <2>2, <2>3, OthersFit, SameGrows DEF MenuTypeOK, menuHistory
<1>3. CASE InsertCategory(r)
  <2>1. Doc(r) \in Categories /\ menuCall[r].patch.name \in CategoryNames \ {NoValue}
    BY <1>3, MenuAssumption DEF InsertCategory, Fits, CategoryFits, Step, CategorySteps
  <2>2. Grows
    BY <1>3, <2>1 DEF InsertCategory, Grows, MenuTypeOK, Doc
  <2> QED BY <1>3, <2>2, ReturnFits DEF InsertCategory, MenuTypeOK, menuHistory, Grows
<1>4. CASE CategoryConflict(r)
  <2>1. UNCHANGED <<categories, products, menuHistory, menuFaults>> /\ Grows
    BY <1>4, SameGrows DEF CategoryConflict
  <2>2. CASE MenuReturn(r)
    BY <2>1, <2>2, ReturnFits DEF MenuTypeOK, menuHistory
  <2>3. CASE MenuGoto(r, "category.write")
    <3> DEFINE c == [menuCall[r] EXCEPT !.step = "category.write"]
    <3>1. c \in MenuCall
      BY DEF MenuCall, MenuSteps, MenuTypeOK
    <3>2. menuCall' = [menuCall EXCEPT ![r] = c]
      BY <2>3 DEF MenuGoto
    <3>3. Fits(r)'
      BY <1>4, <2>1, <3>1, <3>2 DEF CategoryConflict, Fits, CategoryFits, InsertFits, UpdateFits, Step, Doc, CategorySteps,
         Updating, MenuTypeOK, MenuCall
    <3> QED BY <2>1, <3>1, <3>2, <3>3, OthersFit DEF MenuTypeOK, menuHistory
  <2> QED BY <1>4, <2>2, <2>3 DEF CategoryConflict
<1>5. CASE WriteCategory(r)
  <2>1. MenuReturn(r) /\ UNCHANGED <<lowAlert, untold, menuFaults>> /\ detached' \in BOOLEAN
    BY <1>5 DEF WriteCategory, MenuTypeOK
  <2>2. Doc(r) \in Categories /\ menuCall[r].patch.name \in CategoryNames
    BY <1>5 DEF WriteCategory, Fits, CategoryFits, CategorySteps, Step
  <2>3. Grows
    <3>1. CASE UNCHANGED <<categories, products>>
      BY <3>1, SameGrows
    <3>2. CASE /\ categories' = [categories EXCEPT ![Doc(r)] = menuCall[r].patch.name]
               /\ products' = CascadeRename(menuCall[r])
      <4>1. \A p \in Stored : products[p] \in Product
        BY DEF MenuTypeOK, Stored
      <4>2. \A p \in Stored : [products[p] EXCEPT !.category = menuCall[r].patch.name] \in Product
        BY <2>2, <4>1 DEF Product
      <4>3. NoValue \notin CategoryNames /\ NoValue \notin Product
        BY MenuAssumption
      <4> QED BY <2>2, <3>2, <4>2, <4>3 DEF Grows, MenuTypeOK, CascadeRename, Stored
    <3> QED BY <1>5, <3>1, <3>2 DEF WriteCategory, Doc
  <2> QED BY <2>1, <2>3, ReturnFits DEF MenuTypeOK, Grows
<1> QED BY <1>1, <1>2, <1>3, <1>4, <1>5 DEF CategoryNext

\* A request that goes on with its call at another step.
LEMMA ProductTypes ==
    ASSUME MenuInv, NEW r \in MenuCalls, ProductNext(r)
    PROVE  MenuInv'
<1> USE DEF MenuInv
<1>1. ASSUME NEW p \in Products, NEW new \in Patch, CreateProduct(r, p, new) PROVE MenuInv'
  <2> DEFINE c == [NoMenuCall EXCEPT !.step = "product.insert", !.doc = p, !.patch = new]
  <2>1. c \in MenuCall
    BY NoCallFits DEF MenuCall, NoMenuCall, MenuSteps, Telling
  <2>2. menuCall' = [menuCall EXCEPT ![r] = c] /\ UNCHANGED <<categories, products, menuHistory, menuFaults>>
    BY <1>1 DEF CreateProduct, MenuBegin
  <2>3. new.name \in CategoryNames /\ new.sku \in Skus /\ new.low \in BOOLEAN
    BY <1>1 DEF CreateProduct, Patch
  <2>4. menuCall'[r] = c
    BY <2>2 DEF MenuTypeOK
  <2>5. Fits(r)'
    BY <2>3, <2>4 DEF Fits, CategoryFits, InsertFits, UpdateFits, Step, Doc, CategorySteps, Updating, NoMenuCall
  <2> QED BY <2>1, <2>2, <2>5, OthersFit, SameGrows DEF MenuTypeOK, menuHistory
<1>2. ASSUME NEW p \in Products, NEW patch \in Patches, UpdateProduct(r, p, patch) PROVE MenuInv'
  <2> DEFINE c == [NoMenuCall EXCEPT !.doc = p, !.patch = patch, !.old = products[p].low,
                     !.step = IF patch.sku \in {NoValue, products[p].sku} THEN "product.update"
                              ELSE "product.conflict"]
  <2>1. products[p] \in Product /\ p \in Stored
    BY <1>2 DEF UpdateProduct, Stored, MenuTypeOK
  <2>2. c \in MenuCall
    BY <2>1, MenuAssumption DEF MenuCall, NoMenuCall, MenuSteps, Product
  <2>3. menuCall' = [menuCall EXCEPT ![r] = c] /\ UNCHANGED <<categories, products, menuHistory, menuFaults>>
    BY <1>2 DEF UpdateProduct, MenuBegin
  <2>4. menuCall'[r] = c
    BY <2>3 DEF MenuTypeOK
  <2>5. Fits(r)'
    BY <2>1, <2>3, <2>4 DEF Fits, CategoryFits, InsertFits, UpdateFits, Step, Doc, CategorySteps, Updating,
       NoMenuCall, Stored, Product
  <2> QED BY <2>2, <2>3, <2>5, OthersFit, SameGrows DEF MenuTypeOK, menuHistory
<1>3. ASSUME NEW p \in Products, DeleteProduct(r, p) PROVE MenuInv'
  <2>1. PICK step \in {"product.deactivate", "publish"} :
            menuCall' = [menuCall EXCEPT ![r] = [NoMenuCall EXCEPT !.doc = p, !.step = step]]
    BY <1>3 DEF DeleteProduct, MenuBegin
  <2> DEFINE c == [NoMenuCall EXCEPT !.doc = p, !.step = step]
  <2>2. c \in MenuCall
    BY NoCallFits DEF MenuCall, NoMenuCall, MenuSteps, Telling
  <2>3. menuCall'[r] = c
    BY <2>1 DEF MenuTypeOK
  <2>4. Fits(r)'
    BY <2>3 DEF Fits, CategoryFits, InsertFits, UpdateFits, Step, CategorySteps, Updating, NoMenuCall
  <2> QED BY <1>3, <2>1, <2>2, <2>4, OthersFit, SameGrows DEF DeleteProduct, MenuTypeOK, menuHistory
<1>4. ASSUME NEW p \in Products, ReorderOne(r, p) PROVE MenuInv'
  <2> DEFINE c == [menuCall[r] EXCEPT !.items = @ \ {p}]
  <2>1. c \in MenuCall
    BY DEF MenuCall, MenuTypeOK
  <2>2. menuCall' = [menuCall EXCEPT ![r] = c] /\ Step(r) = "reorder"
    BY <1>4 DEF ReorderOne
  <2>3. menuCall'[r] = c /\ c.step = "reorder"
    BY <2>2 DEF MenuTypeOK, MenuCall, Step
  <2>4. Fits(r)'
    BY <2>3 DEF Fits, CategoryFits, InsertFits, UpdateFits, Step, CategorySteps, Updating
  <2> QED BY <1>4, <2>1, <2>2, <2>4, OthersFit, SameGrows DEF ReorderOne, MenuTypeOK
<1>5. ASSUME NEW ps \in SUBSET Products, ReorderProducts(r, ps) PROVE MenuInv'
  <2> DEFINE c == [NoMenuCall EXCEPT !.step = "reorder", !.items = ps]
  <2>1. c \in MenuCall
    BY NoCallFits DEF MenuCall, NoMenuCall, MenuSteps, Telling
  <2>2. menuCall' = [menuCall EXCEPT ![r] = c]
    BY <1>5 DEF ReorderProducts, MenuBegin
  <2>3. menuCall'[r] = c
    BY <2>2 DEF MenuTypeOK
  <2>4. Fits(r)'
    BY <2>3 DEF Fits, CategoryFits, InsertFits, UpdateFits, Step, CategorySteps, Updating, NoMenuCall
  <2> QED BY <1>5, <2>1, <2>2, <2>4, OthersFit, SameGrows DEF ReorderProducts, MenuTypeOK, menuHistory
<1>6. CASE InsertProduct(r)
  <2>1. /\ Doc(r) \in Products
        /\ menuCall[r].patch.name \in CategoryNames
        /\ menuCall[r].patch.sku \in Skus
        /\ menuCall[r].patch.low \in BOOLEAN
    BY <1>6 DEF InsertProduct, Fits, InsertFits, Step
  <2>2. CASE SkuTaken(menuCall[r].patch.sku, Doc(r))
    BY <1>6, <2>2, ReturnFits, SameGrows DEF InsertProduct, Doc, MenuTypeOK
  <2>3. CASE ~SkuTaken(menuCall[r].patch.sku, Doc(r))
    <3> DEFINE new == [category |-> menuCall[r].patch.name, sku |-> menuCall[r].patch.sku,
                       low |-> menuCall[r].patch.low]
               c   == [NoMenuCall EXCEPT !.step = "publish", !.doc = Doc(r)]
    <3>1. new \in Product /\ new # NoValue
      BY <2>1, MenuAssumption DEF Product
    <3>2. /\ products' = [products EXCEPT ![Doc(r)] = new]
          /\ menuCall' = [menuCall EXCEPT ![r] = c]
          /\ untold' = "yes" /\ UNCHANGED <<categories, lowAlert, menuFaults>>
          /\ detached' \in BOOLEAN
      BY <1>6, <2>3 DEF InsertProduct, Doc, Detaches, MenuTypeOK
    <3>3. Grows
      BY <2>1, <3>1, <3>2 DEF Grows, MenuTypeOK
    <3>4. c \in MenuCall
      BY <2>1, NoCallFits DEF MenuCall, NoMenuCall, MenuSteps, Telling
    <3>5. menuCall'[r] = c
      BY <3>2 DEF MenuTypeOK
    <3>6. Fits(r)'
      BY <3>5 DEF Fits, CategoryFits, InsertFits, UpdateFits, Step, CategorySteps, Updating, NoMenuCall
    <3> QED BY <3>2, <3>3, <3>4, <3>6, OthersFit DEF MenuTypeOK, Grows
  <2> QED BY <2>2, <2>3
<1>7. CASE ProductConflict(r)
  <2>1. UNCHANGED <<categories, products, detached, untold, menuFaults>> /\ Grows
    BY <1>7, SameGrows DEF ProductConflict
  <2>2. lowAlert' \in {"settled", "due", "spurious", "excused"}
    BY <1>7 DEF ProductConflict, Rest, MenuTypeOK
  <2>3. CASE MenuReturn(r)
    BY <2>1, <2>2, <2>3, ReturnFits DEF MenuTypeOK
  <2>4. CASE MenuGoto(r, "product.update")
    <3> DEFINE c == [menuCall[r] EXCEPT !.step = "product.update"]
    <3>1. c \in MenuCall
      BY DEF MenuCall, MenuSteps, MenuTypeOK
    <3>2. menuCall' = [menuCall EXCEPT ![r] = c]
      BY <2>4 DEF MenuGoto
    <3>3. menuCall'[r] = c /\ c.step = "product.update" /\ c.doc = Doc(r) /\ c.old = menuCall[r].old
      BY <3>2 DEF MenuTypeOK, MenuCall, Doc
    <3>4. Doc(r) \in Stored /\ menuCall[r].old \in BOOLEAN
      BY <1>7 DEF ProductConflict, Fits, UpdateFits, Updating, Step
    <3>5. Fits(r)'
      BY <2>1, <3>3, <3>4 DEF Fits, CategoryFits, InsertFits, UpdateFits, Step, Doc, CategorySteps,
         Updating, Stored
    <3> QED BY <2>1, <2>2, <3>1, <3>2, <3>5, OthersFit DEF MenuTypeOK
  <2> QED BY <1>7, <2>3, <2>4 DEF ProductConflict
<1>8. CASE WriteProduct(r)
  <2> DEFINE p   == menuCall[r].doc
             new == Patched(products[p], menuCall[r].patch)
             c   == [menuCall[r] EXCEPT !.step = "product.reread", !.patch = NoPatch]
  <2>1. p \in Stored /\ menuCall[r].old \in BOOLEAN /\ products[p] \in Product /\ p \in Products
    BY <1>8 DEF WriteProduct, Fits, UpdateFits, Updating, Step, Doc, Stored, MenuTypeOK
  <2>2. new \in Product
    <3>1. menuCall[r].patch \in Patch
      BY DEF MenuTypeOK, MenuCall
    <3> QED BY <2>1, <3>1 DEF Patched, Patch, Product
  <2>3. /\ UNCHANGED <<categories, menuFaults>> /\ detached' \in BOOLEAN
        /\ untold' \in {"no", "yes", "lost"}
    BY <1>8 DEF WriteProduct, Detaches, MenuTypeOK
  <2>4. lowAlert' \in {"settled", "due", "spurious", "excused"}
    BY <1>8 DEF WriteProduct, Rest, Alert, MenuTypeOK
  <2>5. CASE MenuReturn(r) /\ UNCHANGED products
    BY <2>3, <2>4, <2>5, ReturnFits, SameGrows DEF MenuTypeOK
  <2>6. CASE /\ products' = [products EXCEPT ![p] = new]
             /\ menuCall' = [menuCall EXCEPT ![r].step = "product.reread", ![r].patch = NoPatch]
    <3>1. c \in MenuCall
      BY NoCallFits DEF MenuCall, MenuSteps, Telling, MenuTypeOK
    <3>2. menuCall' = [menuCall EXCEPT ![r] = c]
      BY <2>6 DEF MenuTypeOK
    <3>3. menuCall'[r] = c /\ c.step = "product.reread" /\ c.doc = p /\ c.old = menuCall[r].old
      BY <3>2 DEF MenuTypeOK, MenuCall
    <3>4. Grows
      BY <2>1, <2>2, <2>3, <2>6, MenuAssumption DEF Grows, MenuTypeOK
    <3>5. p \in Stored'
      BY <2>1, <3>4 DEF Grows, Stored
    <3>6. Fits(r)'
      BY <2>1, <3>3, <3>5 DEF Fits, CategoryFits, InsertFits, UpdateFits, Step, Doc, CategorySteps, Updating
    <3> QED BY <2>3, <2>4, <3>1, <3>2, <3>4, <3>6, OthersFit DEF MenuTypeOK, Grows
  <2> QED BY <1>8, <2>5, <2>6 DEF WriteProduct
<1>9. CASE RereadProduct(r)
  <2> DEFINE low == BecameLow(menuCall[r].old, products[menuCall[r].doc].low)
             c   == [menuCall[r] EXCEPT !.step = "publish", !.old = NoValue, !.patch.low = low]
  <2>1. UNCHANGED <<categories, products, menuHistory, menuFaults>> /\ Grows
    BY <1>9, SameGrows DEF RereadProduct
  <2>2. low \in BOOLEAN
    BY DEF BecameLow
  <2>3. c \in MenuCall
    <3>1. menuCall[r] \in MenuCall /\ menuCall[r].patch \in Patch
      BY DEF MenuCall, MenuTypeOK
    <3>2. [menuCall[r].patch EXCEPT !.low = low] \in Patch
      BY <2>2, <3>1 DEF Patch
    <3>3. c = [menuCall[r] EXCEPT !.step = "publish", !.old = NoValue,
                                  !.patch = [menuCall[r].patch EXCEPT !.low = low]]
      BY <3>1 DEF MenuCall
    <3> HIDE DEF low, c
    <3> QED BY <3>1, <3>2, <3>3 DEF MenuCall, MenuSteps, Telling
  <2>4. menuCall' = [menuCall EXCEPT ![r] = c]
    BY <1>9 DEF RereadProduct, MenuTypeOK
  <2>5. menuCall'[r] = c /\ c.step = "publish"
    BY <2>4 DEF MenuTypeOK, MenuCall
  <2>6. Fits(r)'
    BY <2>5 DEF Fits, CategoryFits, InsertFits, UpdateFits, Step, CategorySteps, Updating
  <2> QED BY <2>1, <2>3, <2>4, <2>6, OthersFit DEF MenuTypeOK, menuHistory
<1>10. ASSUME NEW step \in {"publish", "product.alert"}, MenuGoto(r, step), UNCHANGED <<categories, products>>
      PROVE  menuCall' \in [MenuCalls -> MenuCall] /\ \A s \in MenuCalls : Fits(s)'
  <2> DEFINE c == [menuCall[r] EXCEPT !.step = step]
  <2>1. c \in MenuCall
    BY DEF MenuCall, MenuSteps, Telling, MenuTypeOK
  <2>2. menuCall' = [menuCall EXCEPT ![r] = c]
    BY <1>10 DEF MenuGoto
  <2>3. menuCall'[r] = c /\ c.step = step
    BY <2>2 DEF MenuTypeOK, MenuCall
  <2>4. Fits(r)'
    BY <2>3 DEF Fits, CategoryFits, InsertFits, UpdateFits, Step, CategorySteps, Updating
  <2> QED BY <1>10, <2>1, <2>2, <2>4, OthersFit, SameGrows
<1>11. CASE DeactivateProduct(r)
  BY <1>10, <1>11 DEF DeactivateProduct, MenuTypeOK
<1>12. CASE ReorderDone(r)
  BY <1>10, <1>12, ReturnFits, SameGrows DEF ReorderDone, Lost, MenuTypeOK
<1>13. CASE PublishProductEvent(r, TRUE)
  <2>1. UNCHANGED <<categories, products, detached, menuFaults>> /\ untold' = "no"
    BY <1>13 DEF PublishProductEvent
  <2>2. lowAlert' \in {"settled", "due", "spurious", "excused"}
    BY <1>13 DEF PublishProductEvent, Rest, MenuTypeOK
  <2>3. MenuReturn(r) \/ MenuGoto(r, "product.alert")
    BY <1>13 DEF PublishProductEvent
  <2> QED BY <1>10, <2>1, <2>2, <2>3, ReturnFits, SameGrows DEF MenuTypeOK
<1>14. CASE PublishLowStock(r)
  BY <1>14, ReturnFits, SameGrows DEF PublishLowStock, Rest, MenuTypeOK
<1> QED BY <1>1, <1>2, <1>3, <1>4, <1>5, <1>6, <1>7, <1>8, <1>9, <1>11, <1>12, <1>13, <1>14 DEF ProductNext

LEMMA FaultTypes ==
    ASSUME MenuInv, NEW r \in MenuCalls, PublishProductEvent(r, FALSE) \/ MenuFail(r)
    PROVE  MenuInv'
<1> USE DEF MenuInv
<1>1. CASE MenuFail(r)
  BY <1>1, ReturnFits, SameGrows DEF MenuFail, Lost, MenuTypeOK
<1>2. CASE PublishProductEvent(r, FALSE)
  <2>1. UNCHANGED <<categories, products, detached>> /\ untold' \in {"no", "yes", "lost"} /\ menuFaults' \in Nat
    BY <1>2 DEF PublishProductEvent, Lost, MenuTypeOK
  <2>2. lowAlert' \in {"settled", "due", "spurious", "excused"}
    BY <1>2 DEF PublishProductEvent, Rest, MenuTypeOK
  <2>3. CASE MenuReturn(r)
    BY <2>1, <2>2, <2>3, ReturnFits, SameGrows DEF MenuTypeOK
  <2>4. CASE MenuGoto(r, "product.alert")
    <3> DEFINE c == [menuCall[r] EXCEPT !.step = "product.alert"]
    <3>1. c \in MenuCall
      BY DEF MenuCall, MenuSteps, MenuTypeOK
    <3>2. menuCall' = [menuCall EXCEPT ![r] = c]
      BY <2>4 DEF MenuGoto
    <3>3. menuCall'[r] = c /\ c.step = "product.alert"
      BY <3>2 DEF MenuTypeOK, MenuCall
    <3>4. Fits(r)'
      BY <3>3 DEF Fits, CategoryFits, InsertFits, UpdateFits, Step, CategorySteps, Updating
    <3> QED BY <2>1, <2>2, <3>1, <3>2, <3>4, OthersFit, SameGrows DEF MenuTypeOK
  <2> QED BY <1>2, <2>3, <2>4 DEF PublishProductEvent
<1> QED BY <1>1, <1>2

LEMMA MenuInductive == MenuInv /\ [MenuNext]_menuVars => MenuInv'
<1> SUFFICES ASSUME MenuInv, [MenuNext]_menuVars PROVE MenuInv'
  OBVIOUS
<1>1. CASE UNCHANGED menuVars
  BY <1>1 DEF menuVars, menuHistory, MenuInv, MenuTypeOK, Fits, CategoryFits, InsertFits, UpdateFits,
     Step, Doc, Stored
<1>2. CASE MenuNext
  BY <1>2, CategoryTypes, ProductTypes, FaultTypes DEF MenuNext
<1> QED BY <1>1, <1>2

\* Every variable keeps its type: a request that is past its reads has whole fields and a
\* stored document (services/categories.ts, services/products.ts).
THEOREM MenuTypes == MenuSpec => []MenuTypeOK
<1>1. MenuSpec => []MenuInv
  BY TypesInitially, MenuInductive, PTL DEF MenuSpec
<1>2. MenuInv => MenuTypeOK
  BY DEF MenuInv
<1> QED BY <1>1, <1>2, PTL

----------------------------------------------------------------------------
(* Events: a change that nobody has been told of has a request that will.  *)

\* A step of r, whichever it is.
Moves(r) == \/ CategoryNext(r) \/ ProductNext(r)
            \/ PublishProductEvent(r, FALSE) \/ MenuFail(r)

LEMMA OneMoves ==
    ASSUME MenuInv, NEW r \in MenuCalls, Moves(r)
    PROVE  \A s \in MenuCalls \ {r} : menuCall'[s] = menuCall[s]
<1>1. menuCall \in [MenuCalls -> MenuCall]
  BY DEF MenuInv, MenuTypeOK
<1>2. CASE CategoryNext(r)
  BY <1>1, <1>2 DEF CategoryNext, CreateCategory, UpdateCategory, InsertCategory, CategoryConflict, WriteCategory,
     MenuBegin, MenuGoto, MenuReturn
<1>3. CASE ProductNext(r)
  <2>1. CASE \/ \E p \in Products, new \in Patch : CreateProduct(r, p, new)
             \/ \E p \in Products, patch \in Patches : UpdateProduct(r, p, patch)
             \/ \E p \in Products : DeleteProduct(r, p) \/ ReorderOne(r, p)
             \/ \E ps \in SUBSET Products : ReorderProducts(r, ps)
    BY <1>1, <2>1 DEF CreateProduct, UpdateProduct, DeleteProduct, ReorderOne, ReorderProducts, MenuBegin
  <2>2. CASE \/ InsertProduct(r) \/ ProductConflict(r) \/ WriteProduct(r) \/ RereadProduct(r)
             \/ DeactivateProduct(r) \/ ReorderDone(r)
             \/ PublishProductEvent(r, TRUE) \/ PublishLowStock(r)
    BY <1>1, <2>2 DEF InsertProduct, ProductConflict, WriteProduct, RereadProduct, DeactivateProduct,
       ReorderDone, PublishProductEvent, PublishLowStock, MenuGoto, MenuReturn
  <2> QED BY <1>3, <2>1, <2>2 DEF ProductNext
<1>4. CASE PublishProductEvent(r, FALSE) \/ MenuFail(r)
  BY <1>1, <1>4 DEF PublishProductEvent, MenuFail, MenuGoto, MenuReturn
<1> QED BY <1>2, <1>3, <1>4 DEF Moves

\* What a step of r does to the news: none pending, r has yet to tell, or r had none.
LEMMA NewsKept ==
    ASSUME MenuInv, NEW r \in MenuCalls, Moves(r)
    PROVE  untold' # "yes" \/ Step(r)' \in Telling \/ (untold' = untold /\ Step(r) \notin Telling)
<1> USE DEF Step, Telling
<1>1. menuCall \in [MenuCalls -> MenuCall] /\ menuCall[r] \in MenuCall
  BY DEF MenuInv, MenuTypeOK
<1>2. CASE CategoryNext(r)
  BY <1>2 DEF CategoryNext, CreateCategory, UpdateCategory, InsertCategory, CategoryConflict, WriteCategory,
     MenuBegin, menuHistory
<1>3. CASE ProductNext(r)
  <2>1. CASE \/ \E p \in Products, new \in Patch : CreateProduct(r, p, new)
             \/ \E p \in Products, patch \in Patches : UpdateProduct(r, p, patch)
             \/ \E p \in Products : DeleteProduct(r, p)
             \/ \E ps \in SUBSET Products : ReorderProducts(r, ps)
    BY <2>1 DEF CreateProduct, UpdateProduct, DeleteProduct, ReorderProducts, MenuBegin, menuHistory
  <2>2. CASE \E p \in Products : ReorderOne(r, p)
    BY <1>1, <2>2 DEF ReorderOne, MenuCall
  <2>3. CASE InsertProduct(r)
    BY <1>1, <2>3 DEF InsertProduct, NoMenuCall, MenuReturn
  <2>4. CASE WriteProduct(r)
    BY <1>1, <2>4 DEF WriteProduct, MenuCall
  <2>5. CASE RereadProduct(r)
    BY <1>1, <2>5 DEF RereadProduct, MenuCall
  <2>6. CASE DeactivateProduct(r) \/ ReorderDone(r)
    BY <1>1, <2>6 DEF DeactivateProduct, ReorderDone, MenuGoto, Lost, MenuCall
  <2>7. CASE ProductConflict(r) \/ PublishLowStock(r) \/ PublishProductEvent(r, TRUE)
    BY <2>7 DEF ProductConflict, PublishLowStock, PublishProductEvent
  <2> QED BY <1>3, <2>1, <2>2, <2>3, <2>4, <2>5, <2>6, <2>7 DEF ProductNext
<1>4. CASE PublishProductEvent(r, FALSE) \/ MenuFail(r)
  BY <1>4 DEF PublishProductEvent, MenuFail, Lost
<1> QED BY <1>2, <1>3, <1>4 DEF Moves

\* However the requests that create, update, delete and reorder products interleave, no
\* write is the last word on the branch's channel, but for a publish that failed, a
\* request that died and a reorder that answers 400.
THEOREM EveryChangeAnnounced == MenuSpec => []ChangesAnnounced
<1>1. MenuInit => ChangesAnnounced
  BY DEF MenuInit, ChangesAnnounced
<1>2. MenuInv /\ ChangesAnnounced /\ [MenuNext]_menuVars => ChangesAnnounced'
  <2> SUFFICES ASSUME MenuInv, ChangesAnnounced, [MenuNext]_menuVars PROVE ChangesAnnounced'
    OBVIOUS
  <2>1. CASE UNCHANGED menuVars
    BY <2>1 DEF menuVars, menuHistory, ChangesAnnounced, Step
  <2>2. ASSUME NEW r \in MenuCalls, Moves(r) PROVE ChangesAnnounced'
    <3>1. \A s \in MenuCalls \ {r} : Step(s)' = Step(s)
      BY <2>2, OneMoves DEF Step
    <3> QED BY <2>2, <3>1, NewsKept DEF ChangesAnnounced
  <2> QED BY <2>1, <2>2 DEF MenuNext, Moves
<1>3. MenuSpec => []MenuInv
  BY TypesInitially, MenuInductive, PTL DEF MenuSpec
<1> QED BY <1>1, <1>2, <1>3, PTL DEF MenuSpec

----------------------------------------------------------------------------
(* Drafts: a document about to be inserted is in no collection yet, and no *)
(* other request is about to insert it.                                    *)

Drafted(step, stored) ==
    \A r \in MenuCalls :
        Step(r) = step =>
            /\ stored[Doc(r)] = NoValue
            /\ \A s \in MenuCalls \ {r} : Step(s) = step => Doc(s) # Doc(r)

CategoryDrafts == Drafted("category.insert", categories)
ProductDrafts  == Drafted("product.insert", products)

\* Where a step of a product's request leads.
LEMMA StepsOfProducts ==
    ASSUME MenuInv, NEW r \in MenuCalls, ProductNext(r)
    PROVE  /\ Step(r)' # "category.insert"
           /\ (\E p \in Products, new \in Patch : CreateProduct(r, p, new)) \/ Step(r)' # "product.insert"
<1> USE DEF Step
<1>1. menuCall \in [MenuCalls -> MenuCall] /\ menuCall[r] \in MenuCall
  BY DEF MenuInv, MenuTypeOK
<1>2. CASE \E p \in Products, new \in Patch : CreateProduct(r, p, new)
  BY <1>1, <1>2 DEF CreateProduct, MenuBegin, NoMenuCall
<1>3. CASE \/ \E p \in Products, patch \in Patches : UpdateProduct(r, p, patch)
           \/ \E p \in Products : DeleteProduct(r, p)
           \/ \E ps \in SUBSET Products : ReorderProducts(r, ps)
  BY <1>1, <1>3 DEF UpdateProduct, DeleteProduct, ReorderProducts, MenuBegin, NoMenuCall
<1>4. CASE \E p \in Products : ReorderOne(r, p)
  BY <1>1, <1>4 DEF ReorderOne, MenuCall
<1>5. CASE InsertProduct(r)
  <2>1. menuCall'[r] \in {NoMenuCall, [NoMenuCall EXCEPT !.step = "publish", !.doc = menuCall[r].doc]}
    BY <1>1, <1>5 DEF InsertProduct, MenuReturn
  <2>2. NoMenuCall.step = "idle" /\ [NoMenuCall EXCEPT !.step = "publish", !.doc = menuCall[r].doc].step = "publish"
    BY DEF NoMenuCall
  <2> QED BY <2>1, <2>2
<1>9. CASE ProductConflict(r) \/ DeactivateProduct(r) \/ ReorderDone(r)
  BY <1>1, <1>9 DEF ProductConflict, DeactivateProduct, ReorderDone, MenuGoto, MenuReturn, NoMenuCall, MenuCall
<1>6. CASE WriteProduct(r)
  BY <1>1, <1>6 DEF WriteProduct, MenuReturn, NoMenuCall, MenuCall
<1>7. CASE RereadProduct(r)
  BY <1>1, <1>7 DEF RereadProduct, MenuCall
<1>8. CASE PublishProductEvent(r, TRUE) \/ PublishLowStock(r)
  BY <1>1, <1>8 DEF PublishProductEvent, PublishLowStock, MenuGoto, MenuReturn, NoMenuCall, MenuCall
<1> QED BY <1>2, <1>3, <1>4, <1>5, <1>6, <1>7, <1>8, <1>9 DEF ProductNext

LEMMA CategoryDraftsKept ==
    ASSUME MenuInv, CategoryDrafts, NEW r \in MenuCalls, Moves(r)
    PROVE  CategoryDrafts'
<1> USE DEF Step, Doc
<1>1. menuCall \in [MenuCalls -> MenuCall] /\ menuCall[r] \in MenuCall
  BY DEF MenuInv, MenuTypeOK
<1>2. \A s \in MenuCalls \ {r} : menuCall'[s] = menuCall[s]
  BY OneMoves
<1>3. ASSUME Step(r)' # "category.insert",
             \A s \in MenuCalls \ {r} : Step(s) = "category.insert" => categories'[Doc(s)] = categories[Doc(s)]
      PROVE  CategoryDrafts'
  BY <1>2, <1>3 DEF CategoryDrafts, Drafted
<1>4. CASE CategoryNext(r)
  <2>1. ASSUME NEW k \in Categories, NEW n \in CategoryNames, CreateCategory(r, k, n) PROVE CategoryDrafts'
    <3>1. menuCall'[r].doc = k /\ Fresh(k) /\ categories[k] = NoValue /\ UNCHANGED categories
      BY <1>1, <2>1 DEF CreateCategory, MenuBegin, NoMenuCall
    <3> QED BY <1>2, <3>1 DEF CategoryDrafts, Drafted, Fresh
  <2>2. ASSUME NEW k \in Categories, NEW n \in CategoryNames, UpdateCategory(r, k, n) PROVE CategoryDrafts'
    BY <1>1, <1>3, <2>2 DEF UpdateCategory, MenuBegin, NoMenuCall
  <2>3. CASE InsertCategory(r)
    BY <1>1, <1>3, <2>3 DEF InsertCategory, MenuReturn, NoMenuCall, CategoryDrafts, Drafted, MenuInv, MenuTypeOK,
       Fits, CategoryFits, CategorySteps
  <2>4. CASE CategoryConflict(r)
    BY <1>1, <1>3, <2>4 DEF CategoryConflict, MenuReturn, MenuGoto, NoMenuCall, MenuCall
  <2>5. CASE WriteCategory(r)
    <3>1. Doc(r) \in Categories /\ categories[Doc(r)] # NoValue
      BY <2>5 DEF WriteCategory, MenuInv, Fits, CategoryFits, CategorySteps
    <3>2. \A k \in Categories : k # Doc(r) => categories'[k] = categories[k]
      BY <2>5 DEF WriteCategory, MenuInv, MenuTypeOK
    <3>3. \A s \in MenuCalls : Step(s) = "category.insert" => Doc(s) \in Categories /\ Doc(s) # Doc(r)
      BY <3>1 DEF CategoryDrafts, Drafted, MenuInv, Fits, CategoryFits, CategorySteps
    <3>4. Step(r)' # "category.insert"
      BY <1>1, <2>5 DEF WriteCategory, MenuReturn, NoMenuCall
    <3> QED BY <1>3, <3>2, <3>3, <3>4
  <2> QED BY <1>4, <2>1, <2>2, <2>3, <2>4, <2>5 DEF CategoryNext
<1>5. CASE ProductNext(r)
  <2>1. UNCHANGED categories
    BY <1>5 DEF ProductNext, CreateProduct, UpdateProduct, DeleteProduct, ReorderOne, ReorderProducts, InsertProduct,
       ProductConflict, WriteProduct, RereadProduct, DeactivateProduct, ReorderDone, PublishProductEvent,
       PublishLowStock
  <2>2. Step(r)' # "category.insert"
    BY <1>5, StepsOfProducts
  <2> QED BY <1>3, <2>1, <2>2
<1>6. CASE PublishProductEvent(r, FALSE) \/ MenuFail(r)
  BY <1>1, <1>3, <1>6 DEF PublishProductEvent, MenuFail, MenuGoto, MenuReturn, NoMenuCall, MenuCall
<1> QED BY <1>4, <1>5, <1>6 DEF Moves

LEMMA ProductDraftsKept ==
    ASSUME MenuInv, ProductDrafts, NEW r \in MenuCalls, Moves(r)
    PROVE  ProductDrafts'
<1> USE DEF Step, Doc
<1>1. menuCall \in [MenuCalls -> MenuCall] /\ menuCall[r] \in MenuCall
  BY DEF MenuInv, MenuTypeOK
<1>2. \A s \in MenuCalls \ {r} : menuCall'[s] = menuCall[s]
  BY OneMoves
<1>3. ASSUME Step(r)' # "product.insert",
             \A s \in MenuCalls \ {r} : Step(s) = "product.insert" => products'[Doc(s)] = products[Doc(s)]
      PROVE  ProductDrafts'
  BY <1>2, <1>3 DEF ProductDrafts, Drafted
<1>4. \A s \in MenuCalls : Step(s) = "product.insert" => Doc(s) \in Products /\ products[Doc(s)] = NoValue
  BY DEF ProductDrafts, Drafted, MenuInv, Fits, InsertFits
<1>5. CASE CategoryNext(r)
  <2>1. CASE \E k \in Categories, n \in CategoryNames : CreateCategory(r, k, n) \/ UpdateCategory(r, k, n)
    <3>1. PICK k \in Categories, n \in CategoryNames : CreateCategory(r, k, n) \/ UpdateCategory(r, k, n)
      BY <2>1
    <3>2. CASE CreateCategory(r, k, n)
      BY <1>1, <1>3, <3>2 DEF CreateCategory, MenuBegin, NoMenuCall
    <3>3. CASE UpdateCategory(r, k, n)
      BY <1>1, <1>3, <3>3 DEF UpdateCategory, MenuBegin, NoMenuCall
    <3> QED BY <3>1, <3>2, <3>3
  <2>2. CASE InsertCategory(r) \/ CategoryConflict(r)
    BY <1>1, <1>3, <2>2 DEF InsertCategory, CategoryConflict, MenuReturn, MenuGoto, NoMenuCall, MenuCall
  <2>3. CASE WriteCategory(r)
    <3>1. Step(r)' # "product.insert"
      BY <1>1, <2>3 DEF WriteCategory, MenuReturn, NoMenuCall
    <3>2. \A p \in Products : products[p] = NoValue => products'[p] = NoValue
      BY <2>3 DEF WriteCategory, CascadeRename, Stored
    <3> QED BY <1>3, <1>4, <3>1, <3>2
  <2> QED BY <1>5, <2>1, <2>2, <2>3 DEF CategoryNext
<1>6. CASE ProductNext(r)
  <2>1. ASSUME NEW p \in Products, NEW new \in Patch, CreateProduct(r, p, new) PROVE ProductDrafts'
    <3>1. menuCall'[r].doc = p /\ Fresh(p) /\ products[p] = NoValue /\ UNCHANGED products
      BY <1>1, <2>1 DEF CreateProduct, MenuBegin, NoMenuCall
    <3> QED BY <1>2, <3>1 DEF ProductDrafts, Drafted, Fresh
  <2>2. CASE Step(r)' # "product.insert"
    <3>1. \A s \in MenuCalls \ {r} : Step(s) = "product.insert" => products'[Doc(s)] = products[Doc(s)]
      <4>1. CASE InsertProduct(r)
        BY <1>4, <4>1 DEF InsertProduct, ProductDrafts, Drafted, MenuInv, MenuTypeOK
      <4>2. CASE WriteProduct(r)
        <5>1. products[Doc(r)] # NoValue
          BY <4>2 DEF WriteProduct, MenuInv, Fits, UpdateFits, Updating, Stored
        <5> QED BY <1>4, <4>2, <5>1 DEF WriteProduct, MenuInv, MenuTypeOK
      <4>3. CASE UNCHANGED products
        BY <4>3
      <4> QED BY <1>6, <4>1, <4>2, <4>3 DEF ProductNext, CreateProduct, UpdateProduct, DeleteProduct, ReorderOne,
            ReorderProducts, ProductConflict, RereadProduct, DeactivateProduct, ReorderDone, PublishProductEvent,
            PublishLowStock, Step
    <3> QED BY <1>3, <2>2, <3>1
  <2> QED BY <1>6, <2>1, <2>2, StepsOfProducts
<1>7. CASE PublishProductEvent(r, FALSE) \/ MenuFail(r)
  BY <1>1, <1>3, <1>7 DEF PublishProductEvent, MenuFail, MenuGoto, MenuReturn, NoMenuCall, MenuCall
<1> QED BY <1>5, <1>6, <1>7 DEF Moves

DraftedInv == MenuInv /\ CategoryDrafts /\ ProductDrafts

LEMMA DraftedInductive == MenuSpec => []DraftedInv
<1>1. MenuInit => DraftedInv
  BY TypesInitially DEF MenuInit, DraftedInv, CategoryDrafts, ProductDrafts, Drafted, Step, NoMenuCall
<1>2. DraftedInv /\ [MenuNext]_menuVars => DraftedInv'
  <2> SUFFICES ASSUME DraftedInv, [MenuNext]_menuVars PROVE DraftedInv'
    OBVIOUS
  <2>1. MenuInv'
    BY MenuInductive DEF DraftedInv
  <2>2. CASE UNCHANGED menuVars
    BY <2>1, <2>2 DEF menuVars, DraftedInv, CategoryDrafts, ProductDrafts, Drafted, Step, Doc
  <2>3. ASSUME NEW r \in MenuCalls, Moves(r) PROVE DraftedInv'
    BY <2>1, <2>3, CategoryDraftsKept, ProductDraftsKept DEF DraftedInv
  <2> QED BY <2>2, <2>3 DEF MenuNext, Moves
<1> QED BY <1>1, <1>2, PTL DEF MenuSpec

----------------------------------------------------------------------------
(* Names: the category that a product names exists.                        *)

LEMMA NamesKept ==
    ASSUME DraftedInv, CategoryNamesResolve, NEW r \in MenuCalls, Moves(r)
    PROVE  CategoryNamesResolve'
<1> USE DEF DraftedInv, MenuInv, MenuTypeOK, Step, Doc
<1>1. ASSUME products'[Watched] = products[Watched], detached' = detached, Names \subseteq Names'
      PROVE  CategoryNamesResolve'
  BY <1>1 DEF CategoryNamesResolve, Stored
<1>2. CASE CategoryNext(r)
  <2>1. CASE InsertCategory(r)
    <3>1. Doc(r) \in Categories /\ categories[Doc(r)] = NoValue
      BY <2>1 DEF InsertCategory, CategoryDrafts, Drafted, Fits, CategoryFits, CategorySteps
    <3>2. \A k \in Categories : categories[k] # NoValue => categories'[k] = categories[k]
      BY <2>1, <3>1 DEF InsertCategory
    <3>3. Names \subseteq Names'
      BY <3>2 DEF Names
    <3> QED BY <1>1, <2>1, <3>3 DEF InsertCategory, menuHistory
  <2>2. CASE WriteCategory(r)
    <3> DEFINE k == Doc(r)
               n == menuCall[r].patch.name
    <3>1. k \in Categories /\ categories[k] # NoValue /\ n \in CategoryNames /\ n # NoValue
      BY <2>2, MenuAssumption DEF WriteCategory, Fits, CategoryFits, CategorySteps
    <3>2. CASE UNCHANGED <<categories, products, detached>>
      BY <1>1, <3>2 DEF Names
    <3>3. CASE /\ categories' = [categories EXCEPT ![k] = n]
               /\ products' = CascadeRename(menuCall[r])
               /\ detached' = \/ detached
                              \/ /\ categories[k] \notin {menuCall[r].old, n}
                                 /\ Watched \in Stored /\ products[Watched].category = categories[k]
      <4>1. n \in Names'
        BY <3>1, <3>3 DEF Names
      <4>2. \A m \in Names : m # categories[k] => m \in Names'
        BY <3>1, <3>3 DEF Names
      <4> SUFFICES ASSUME Watched \in Stored', ~detached' PROVE products'[Watched].category \in Names'
        BY DEF CategoryNamesResolve
      <4>3. Watched \in Stored /\ products[Watched] \in Product /\ ~detached
        BY <3>3, MenuAssumption DEF CascadeRename, Stored
      <4>4. products[Watched].category \in Names
        BY <4>3 DEF CategoryNamesResolve
      <4>5. CASE products[Watched].category = menuCall[r].old
        BY <3>3, <4>1, <4>3, <4>5, MenuAssumption DEF CascadeRename, Product
      <4>6. CASE products[Watched].category # menuCall[r].old
        <5>1. products'[Watched] = products[Watched]
          BY <3>3, <4>6, MenuAssumption DEF CascadeRename
        <5>2. products[Watched].category = categories[k] => categories[k] = n
          BY <3>3, <4>3, <4>6
        <5> QED BY <4>1, <4>2, <4>4, <5>1, <5>2
      <4> QED BY <4>5, <4>6
    <3> QED BY <2>2, <3>2, <3>3 DEF WriteCategory
  <2>3. CASE UNCHANGED <<categories, products, detached>>
    BY <1>1, <2>3 DEF Names
  <2> QED BY <1>2, <2>1, <2>2, <2>3 DEF CategoryNext, CreateCategory, UpdateCategory, CategoryConflict, menuHistory
<1>3. CASE ProductNext(r)
  <2>1. CASE InsertProduct(r)
    <3>1. UNCHANGED categories /\ Doc(r) \in Products
      BY <2>1 DEF InsertProduct, Fits, InsertFits
    <3>2. Names' = Names
      BY <3>1 DEF Names
    <3>3. CASE UNCHANGED <<products, detached>>
      BY <1>1, <3>2, <3>3
    <3>4. CASE /\ products' = [products EXCEPT ![Doc(r)] =
                                  [category |-> menuCall[r].patch.name, sku |-> menuCall[r].patch.sku,
                                   low |-> menuCall[r].patch.low]]
               /\ detached' = IF Doc(r) = Watched THEN menuCall[r].patch.name \notin Names ELSE detached
      <4>1. CASE Doc(r) = Watched
        BY <3>1, <3>2, <3>4, <4>1 DEF CategoryNamesResolve
      <4>2. CASE Doc(r) # Watched
        BY <1>1, <3>1, <3>2, <3>4, <4>2
      <4> QED BY <4>1, <4>2
    <3> QED BY <2>1, <3>3, <3>4 DEF InsertProduct, Detaches
  <2>2. CASE WriteProduct(r)
    <3>1. UNCHANGED categories /\ Doc(r) \in Stored
      BY <2>2 DEF WriteProduct, Fits, UpdateFits, Updating
    <3>2. Names' = Names
      BY <3>1 DEF Names
    <3>3. CASE UNCHANGED <<products, detached>>
      BY <1>1, <3>2, <3>3
    <3>4. CASE /\ products' = [products EXCEPT ![Doc(r)] = Patched(products[Doc(r)], menuCall[r].patch)]
               /\ detached' = IF menuCall[r].patch.name # NoValue /\ Doc(r) = Watched
                               THEN menuCall[r].patch.name \notin Names ELSE detached
      <4>1. CASE Doc(r) = Watched
        <5>1. Watched \in Stored /\ products'[Watched].category =
                  IF menuCall[r].patch.name = NoValue THEN products[Watched].category ELSE menuCall[r].patch.name
          BY <3>1, <3>4, <4>1 DEF Patched, Stored
        <5>2. CASE menuCall[r].patch.name = NoValue
          <6>1. detached' = detached /\ products'[Watched].category = products[Watched].category
            BY <3>4, <5>1, <5>2
          <6> QED BY <3>2, <5>1, <6>1 DEF CategoryNamesResolve
        <5>3. CASE menuCall[r].patch.name # NoValue
          <6>1. detached' = (products'[Watched].category \notin Names)
            BY <3>4, <4>1, <5>1, <5>3
          <6> QED BY <3>2, <6>1 DEF CategoryNamesResolve
        <5> QED BY <5>2, <5>3
      <4>2. CASE Doc(r) # Watched
        BY <1>1, <3>1, <3>2, <3>4, <4>2
      <4> QED BY <4>1, <4>2
    <3>5. CASE menuCall[r].patch.name = NoValue
      <4>1. products' = products \/ products' = [products EXCEPT ![Doc(r)] = Patched(products[Doc(r)], menuCall[r].patch)]
        BY <2>2 DEF WriteProduct
      <4>2. detached' = detached
        BY <2>2, <3>5 DEF WriteProduct
      <4> QED BY <3>3, <3>4, <3>5, <4>1, <4>2
    <3>6. CASE menuCall[r].patch.name # NoValue
      BY <2>2, <3>3, <3>4, <3>6 DEF WriteProduct, Detaches
    <3> QED BY <3>5, <3>6
  <2>3. CASE UNCHANGED <<categories, products, detached>>
    BY <1>1, <2>3 DEF Names
  <2> QED BY <1>3, <2>1, <2>2, <2>3 DEF ProductNext, CreateProduct, UpdateProduct, DeleteProduct, ReorderOne,
        ReorderProducts, ProductConflict, RereadProduct, DeactivateProduct, ReorderDone, PublishProductEvent,
        PublishLowStock, menuHistory
<1>4. CASE PublishProductEvent(r, FALSE) \/ MenuFail(r)
  BY <1>1, <1>4 DEF PublishProductEvent, MenuFail, Names
<1> QED BY <1>2, <1>3, <1>4 DEF Moves

\* A product names a category that exists, however the requests interleave, unless a save
\* of it or an overtaken update of its category, renaming or not, has detached it
\* (updateCategory's transaction).
THEOREM NamesResolve == MenuSpec => []CategoryNamesResolve
<1>1. MenuInit => CategoryNamesResolve
  BY MenuAssumption DEF MenuInit, CategoryNamesResolve, Stored
<1>2. DraftedInv /\ CategoryNamesResolve /\ [MenuNext]_menuVars => CategoryNamesResolve'
  <2> SUFFICES ASSUME DraftedInv, CategoryNamesResolve, [MenuNext]_menuVars PROVE CategoryNamesResolve'
    OBVIOUS
  <2>1. CASE UNCHANGED menuVars
    BY <2>1 DEF menuVars, menuHistory, CategoryNamesResolve, Stored, Names
  <2> QED BY <2>1, NamesKept DEF MenuNext, Moves
<1> QED BY <1>1, <1>2, DraftedInductive, PTL DEF MenuSpec

----------------------------------------------------------------------------
(* Low stock: the alert that is due is carried by one request.             *)

\* The request will alert: what it began with is not low and what it reads back is.
Carrying(r) ==
    /\ Doc(r) = Watched
    /\ \/ Step(r) = "product.reread" /\ ~menuCall[r].old /\ products[Watched].low
       \/ Step(r) = "publish" /\ menuCall[r].patch.low = TRUE
       \/ Step(r) = "product.alert"

\* What a request to write Watched began with is what it will find.
Current(r) ==
    Doc(r) = Watched /\ Step(r) \in {"product.conflict", "product.update"} =>
        menuCall[r].old = products[Watched].low

\* Other ways to publish carry no alert.
PlainFits(r) ==
    /\ Step(r) = "product.deactivate" => menuCall[r].patch.low = NoValue
    /\ Step(r) = "reorder" => Doc(r) = NoValue

Accounted ==
    /\ \A r \in MenuCalls : Current(r)
    /\ \A r \in MenuCalls : Carrying(r) => lowAlert = "due" /\ \A s \in MenuCalls \ {r} : ~Carrying(s)
    /\ lowAlert = "due" => \E r \in MenuCalls : Carrying(r)

LowInv ==
    /\ \A r \in MenuCalls : PlainFits(r)
    /\ lowAlert # "spurious"
    /\ lowAlert # "excused" => Accounted

\* The requests other than r see nothing of its step, if Watched's stock is left alone.
LEMMA OthersAccounted ==
    ASSUME LowInv, NEW r \in MenuCalls, \A s \in MenuCalls \ {r} : menuCall'[s] = menuCall[s],
           PlainFits(r)'
    PROVE  /\ \A s \in MenuCalls : PlainFits(s)'
           /\ products'[Watched].low = products[Watched].low =>
                 \A s \in MenuCalls \ {r} : (Carrying(s)' <=> Carrying(s)) /\ (Current(s) => Current(s)')
BY DEF LowInv, PlainFits, Carrying, Current, Step, Doc

\* A step of r that leaves the alerts and Watched's stock alone, and carries on or carries nothing.
LEMMA QuietStep ==
    ASSUME LowInv, NEW r \in MenuCalls, \A s \in MenuCalls \ {r} : menuCall'[s] = menuCall[s],
           PlainFits(r)', products'[Watched].low = products[Watched].low, lowAlert' = lowAlert,
           lowAlert # "excused" => Current(r)', (Carrying(r)' <=> Carrying(r))
    PROVE  LowInv'
<1>1. \A s \in MenuCalls : PlainFits(s)'
  BY OthersAccounted
<1>2. ASSUME lowAlert # "excused" PROVE Accounted'
  <2>1. Accounted
    BY <1>2 DEF LowInv
  <2>2. \A s \in MenuCalls : (Carrying(s)' <=> Carrying(s)) /\ Current(s)'
    BY <1>2, <2>1, OthersAccounted DEF Accounted
  <2> QED BY <2>1, <2>2 DEF Accounted
<1> QED BY <1>1, <1>2 DEF LowInv

\* Nobody is at work on Watched when r, alone, is done with it.
LEMMA DoneAlone ==
    ASSUME NEW r \in MenuCalls, \A s \in MenuCalls \ {r} : menuCall'[s] = menuCall[s],
           menuCall'[r] = NoMenuCall, Alone(r)
    PROVE  \A s \in MenuCalls : Doc(s)' # Watched
BY MenuAssumption DEF Alone, Doc, NoMenuCall

\* A request that carries nothing returns.
LEMMA QuietReturn ==
    ASSUME LowInv, NEW r \in MenuCalls, \A s \in MenuCalls \ {r} : menuCall'[s] = menuCall[s],
           menuCall'[r] = NoMenuCall, products'[Watched].low = products[Watched].low,
           ~Carrying(r), lowAlert' \in {lowAlert, Rest(r, Doc(r))}
    PROVE  LowInv'
<1>1. PlainFits(r)' /\ Current(r)' /\ ~Carrying(r)'
  BY MenuAssumption DEF PlainFits, Current, Carrying, NoMenuCall, Step, Doc
<1>2. CASE lowAlert' = lowAlert
  BY <1>1, <1>2, QuietStep
<1>3. CASE lowAlert' # lowAlert
  <2>1. Doc(r) = Watched /\ Alone(r) /\ lowAlert' = "settled"
    BY <1>3 DEF Rest
  <2>2. \A s \in MenuCalls : Doc(s)' # Watched
    BY <2>1, DoneAlone
  <2> QED BY <1>1, <2>1, <2>2, OthersAccounted DEF LowInv, Accounted, Carrying, Current, Doc
<1> QED BY <1>2, <1>3

LEMMA LowByCategories ==
    ASSUME DraftedInv, LowInv, NEW r \in MenuCalls, CategoryNext(r)
    PROVE  LowInv'
<1> USE DEF Step, Doc
<1>1. menuCall \in [MenuCalls -> MenuCall] /\ menuCall[r] \in MenuCall
  BY DEF DraftedInv, MenuInv, MenuTypeOK
<1>2. \A s \in MenuCalls \ {r} : menuCall'[s] = menuCall[s]
  BY OneMoves DEF DraftedInv, Moves
<1>3. lowAlert' = lowAlert
  BY DEF CategoryNext, CreateCategory, UpdateCategory, InsertCategory, CategoryConflict, WriteCategory,
     menuHistory
<1>4. products'[Watched].low = products[Watched].low
  <2>1. CASE UNCHANGED products
    BY <2>1
  <2>2. CASE products' = CascadeRename(menuCall[r])
    <3>1. Watched \in Stored => products[Watched] \in Product
      BY MenuAssumption DEF Stored, DraftedInv, MenuInv, MenuTypeOK
    <3> QED BY <2>2, <3>1, MenuAssumption DEF CascadeRename, Product
  <2> QED BY <2>1, <2>2 DEF CategoryNext, CreateCategory, UpdateCategory, InsertCategory, CategoryConflict,
        WriteCategory
<1>5. Step(r) \in {"idle"} \cup CategorySteps /\ Step(r)' \in {"idle"} \cup CategorySteps
  <2>1. CASE \E k \in Categories, n \in CategoryNames : CreateCategory(r, k, n) \/ UpdateCategory(r, k, n)
    <3>1. PICK k \in Categories, n \in CategoryNames : CreateCategory(r, k, n) \/ UpdateCategory(r, k, n)
      BY <2>1
    <3>2. CASE CreateCategory(r, k, n)
      BY <1>1, <3>2 DEF CreateCategory, MenuBegin, NoMenuCall, CategorySteps
    <3>3. CASE UpdateCategory(r, k, n)
      BY <1>1, <3>3 DEF UpdateCategory, MenuBegin, NoMenuCall, CategorySteps
    <3> QED BY <3>1, <3>2, <3>3
  <2>2. CASE InsertCategory(r)
    BY <1>1, <2>2 DEF InsertCategory, MenuReturn, NoMenuCall, CategorySteps
  <2>3. CASE CategoryConflict(r)
    BY <1>1, <2>3 DEF CategoryConflict, MenuReturn, MenuGoto, NoMenuCall, MenuCall, CategorySteps
  <2>4. CASE WriteCategory(r)
    BY <1>1, <2>4 DEF WriteCategory, MenuReturn, NoMenuCall, CategorySteps
  <2> QED BY <2>1, <2>2, <2>3, <2>4 DEF CategoryNext
<1>6. PlainFits(r)' /\ Current(r)' /\ ~Carrying(r)' /\ ~Carrying(r)
  BY <1>5 DEF PlainFits, Current, Carrying, CategorySteps
<1> QED BY <1>2, <1>3, <1>4, <1>6, QuietStep

\* A request on another document that leaves Watched and the alerts alone.
LEMMA Elsewhere ==
    ASSUME LowInv, NEW r \in MenuCalls, \A s \in MenuCalls \ {r} : menuCall'[s] = menuCall[s],
           PlainFits(r)', products'[Watched] = products[Watched], lowAlert' = lowAlert,
           Doc(r) # Watched, Doc(r)' # Watched
    PROVE  LowInv'
BY QuietStep DEF Current, Carrying, Doc

\* The first step of a request on a product, and the writes of a reorder.
LEMMA LowByBegin ==
    ASSUME DraftedInv, LowInv, NEW r \in MenuCalls,
           \A s \in MenuCalls \ {r} : menuCall'[s] = menuCall[s],
           \/ \E p \in Products, new \in Patch : CreateProduct(r, p, new)
           \/ \E p \in Products, patch \in Patches : UpdateProduct(r, p, patch)
           \/ \E p \in Products : DeleteProduct(r, p) \/ ReorderOne(r, p)
           \/ \E ps \in SUBSET Products : ReorderProducts(r, ps)
    PROVE  LowInv'
<1> USE DEF Step, Doc
<1>1. menuCall \in [MenuCalls -> MenuCall] /\ menuCall[r] \in MenuCall
  BY DEF DraftedInv, MenuInv, MenuTypeOK
<1>2. UNCHANGED <<products, lowAlert>>
  BY DEF CreateProduct, UpdateProduct, DeleteProduct, ReorderOne, ReorderProducts, menuHistory
<1>3. ASSUME PlainFits(r)', Current(r)', ~Carrying(r), ~Carrying(r)' PROVE LowInv'
  BY <1>2, <1>3, QuietStep
<1>4. CASE \E p \in Products, new \in Patch : CreateProduct(r, p, new)
  <2>1. Step(r) = "idle" /\ Step(r)' = "product.insert"
    BY <1>1, <1>4 DEF CreateProduct, MenuBegin, NoMenuCall
  <2> QED BY <1>3, <2>1 DEF PlainFits, Current, Carrying
<1>5. ASSUME NEW p \in Products, NEW patch \in Patches, UpdateProduct(r, p, patch) PROVE LowInv'
  <2>1. /\ Step(r) = "idle" /\ Step(r)' \in {"product.update", "product.conflict"}
        /\ Doc(r)' = p /\ menuCall'[r].old = products[p].low
    BY <1>1, <1>5 DEF UpdateProduct, MenuBegin, NoMenuCall
  <2> QED BY <1>2, <1>3, <2>1 DEF PlainFits, Current, Carrying
<1>6. ASSUME NEW p \in Products, DeleteProduct(r, p) PROVE LowInv'
  <2>1. PICK step \in {"product.deactivate", "publish"} :
            menuCall' = [menuCall EXCEPT ![r] = [NoMenuCall EXCEPT !.doc = p, !.step = step]]
    BY <1>6 DEF DeleteProduct, MenuBegin
  <2>2. Step(r) = "idle" /\ Step(r)' = step /\ menuCall'[r].patch.low = NoValue
    BY <1>1, <1>6, <2>1 DEF DeleteProduct, MenuBegin, NoMenuCall, NoPatch
  <2> QED BY <1>3, <2>2, MenuAssumption DEF PlainFits, Current, Carrying
<1>7. CASE \E ps \in SUBSET Products : ReorderProducts(r, ps)
  <2>1. Step(r) = "idle" /\ Step(r)' = "reorder" /\ Doc(r)' = NoValue
    BY <1>1, <1>7 DEF ReorderProducts, MenuBegin, NoMenuCall
  <2> QED BY <1>3, <2>1 DEF PlainFits, Current, Carrying
<1>8. CASE \E p \in Products : ReorderOne(r, p)
  <2>1. Step(r) = "reorder" /\ Step(r)' = "reorder" /\ Doc(r)' = Doc(r)
    BY <1>1, <1>8 DEF ReorderOne, MenuCall
  <2> QED BY <1>3, <2>1 DEF PlainFits, Current, Carrying, LowInv
<1> QED BY <1>4, <1>5, <1>6, <1>7, <1>8

LEMMA LowByInsert ==
    ASSUME DraftedInv, LowInv, NEW r \in MenuCalls,
           \A s \in MenuCalls \ {r} : menuCall'[s] = menuCall[s], InsertProduct(r)
    PROVE  LowInv'
<1> USE DEF Step, Doc
<1>1. menuCall \in [MenuCalls -> MenuCall] /\ menuCall[r] \in MenuCall
  BY DEF DraftedInv, MenuInv, MenuTypeOK
<1>2. /\ Step(r) = "product.insert" /\ Doc(r) \in Products /\ products[Doc(r)] = NoValue
      /\ UNCHANGED lowAlert /\ ~Carrying(r)
  BY DEF InsertProduct, DraftedInv, ProductDrafts, Drafted, MenuInv, Fits, InsertFits, Carrying
<1>3. CASE MenuReturn(r) /\ UNCHANGED products
  BY <1>1, <1>2, <1>3, QuietReturn DEF MenuReturn
<1>4. CASE /\ menuCall' = [menuCall EXCEPT ![r] = [NoMenuCall EXCEPT !.step = "publish", !.doc = menuCall[r].doc]]
           /\ \A p \in Products \ {Doc(r)} : products'[p] = products[p]
  <2>1. Step(r)' = "publish" /\ menuCall'[r].patch.low = NoValue
    BY <1>1, <1>4 DEF NoMenuCall, NoPatch
  <2>2. PlainFits(r)' /\ Current(r)' /\ ~Carrying(r)'
    BY <2>1, MenuAssumption DEF PlainFits, Current, Carrying
  <2>3. CASE Doc(r) # Watched
    BY <1>2, <1>4, <2>2, <2>3, QuietStep, MenuAssumption
  <2>4. CASE Doc(r) = Watched
    <3>1. \A s \in MenuCalls : Doc(s) = Watched => Step(s) \notin Updating
      BY <1>2, <2>4 DEF DraftedInv, MenuInv, Fits, UpdateFits, Stored
    <3>2. \A s \in MenuCalls \ {r} : (Carrying(s)' <=> Carrying(s)) /\ Current(s)'
      BY <3>1 DEF Carrying, Current, Updating
    <3> QED BY <1>2, <2>2, <3>2, OthersAccounted DEF LowInv, Accounted
  <2> QED BY <2>3, <2>4
<1>5. products' = [products EXCEPT ![Doc(r)] = [category |-> menuCall[r].patch.name, sku |-> menuCall[r].patch.sku,
                                               low |-> menuCall[r].patch.low]]
      => \A p \in Products \ {Doc(r)} : products'[p] = products[p]
  BY DEF DraftedInv, MenuInv, MenuTypeOK
<1> QED BY <1>3, <1>4, <1>5 DEF InsertProduct

LEMMA LowByWrite ==
    ASSUME DraftedInv, LowInv, NEW r \in MenuCalls,
           \A s \in MenuCalls \ {r} : menuCall'[s] = menuCall[s], WriteProduct(r)
    PROVE  LowInv'
<1> USE DEF Step, Doc
<1> DEFINE p   == Doc(r)
           new == Patched(products[p], menuCall[r].patch)
           alert == IF products[p].low THEN lowAlert ELSE IF new.low THEN "due" ELSE "settled"
<1>1. menuCall \in [MenuCalls -> MenuCall] /\ menuCall[r] \in MenuCall
  BY DEF DraftedInv, MenuInv, MenuTypeOK
<1>2. Step(r) = "product.update" /\ p \in Products /\ ~Carrying(r)
  BY DEF WriteProduct, DraftedInv, MenuInv, Fits, UpdateFits, Updating, Carrying, Stored
<1>3. CASE MenuReturn(r) /\ UNCHANGED products /\ lowAlert' = Rest(r, p)
  BY <1>1, <1>2, <1>3, QuietReturn DEF MenuReturn
<1>4. CASE /\ products' = [products EXCEPT ![p] = new]
           /\ lowAlert' = Alert(r, p, alert)
           /\ menuCall' = [menuCall EXCEPT ![r].step = "product.reread", ![r].patch = NoPatch]
  <2>1. Step(r)' = "product.reread" /\ Doc(r)' = p /\ menuCall'[r].old = menuCall[r].old
    BY <1>1, <1>4 DEF MenuCall
  <2>2. PlainFits(r)' /\ Current(r)'
    BY <2>1 DEF PlainFits, Current
  <2>3. CASE p # Watched
    <3> HIDE DEF new, alert, p
    <3>1. products'[Watched] = products[Watched] /\ lowAlert' = lowAlert
      BY <1>4, <2>3, MenuAssumption DEF Alert, DraftedInv, MenuInv, MenuTypeOK
    <3> QED BY <2>1, <2>2, <2>3, <3>1, Elsewhere DEF p
  <2>4. CASE lowAlert' = "excused"
    BY <2>2, <2>4, OthersAccounted DEF LowInv
  <2>5. CASE p = Watched /\ Alone(r) /\ lowAlert # "excused"
    <3>1. \A s \in MenuCalls \ {r} : Doc(s) # Watched /\ Doc(s)' # Watched /\ ~Carrying(s) /\ ~Carrying(s)'
      BY <2>5 DEF Alone, Carrying
    <3>2. lowAlert \notin {"due", "spurious"} /\ menuCall[r].old = products[p].low
      BY <1>2, <2>5, <3>1 DEF LowInv, Accounted, Current
    <3>3. products'[Watched].low = new.low /\ lowAlert' = alert
      BY <1>4, <2>5, MenuAssumption DEF Alert, DraftedInv, MenuInv, MenuTypeOK
    <3>4. Carrying(r)' <=> (~products[p].low /\ new.low)
      BY <2>1, <2>5, <3>2, <3>3 DEF Carrying
    <3>5. (Carrying(r)' <=> lowAlert' = "due") /\ lowAlert' # "spurious"
      BY <3>2, <3>3, <3>4
    <3>6. Accounted'
      BY <2>2, <3>1, <3>5 DEF Accounted, Current
    <3> QED BY <2>2, <3>5, <3>6, OthersAccounted DEF LowInv
  <2>6. CASE p = Watched /\ ~(Alone(r) /\ lowAlert # "excused")
    <3> HIDE DEF alert, p
    <3>1. lowAlert' = "excused"
      BY <1>4, <2>6 DEF Alert
    <3> QED BY <2>4, <3>1
  <2> QED BY <2>3, <2>5, <2>6
<1> QED BY <1>3, <1>4 DEF WriteProduct

LEMMA LowByPublish ==
    ASSUME DraftedInv, LowInv, NEW r \in MenuCalls, NEW ok \in BOOLEAN,
           \A s \in MenuCalls \ {r} : menuCall'[s] = menuCall[s], PublishProductEvent(r, ok)
    PROVE  LowInv'
<1> USE DEF Step, Doc
<1>1. menuCall \in [MenuCalls -> MenuCall] /\ menuCall[r] \in MenuCall
  BY DEF DraftedInv, MenuInv, MenuTypeOK
<1>2. Step(r) = "publish" /\ UNCHANGED products
  BY DEF PublishProductEvent
<1>3. CASE menuCall[r].patch.low = TRUE
  <2>1. Step(r)' = "product.alert" /\ Doc(r)' = Doc(r) /\ UNCHANGED lowAlert
    BY <1>1, <1>3 DEF PublishProductEvent, MenuGoto, MenuCall
  <2>2. PlainFits(r)' /\ Current(r)' /\ (Carrying(r)' <=> Carrying(r))
    BY <1>2, <1>3, <2>1 DEF PlainFits, Current, Carrying
  <2> QED BY <1>2, <2>1, <2>2, QuietStep
<1>4. CASE menuCall[r].patch.low # TRUE
  <2>1. menuCall'[r] = NoMenuCall /\ lowAlert' = Rest(r, Doc(r))
    BY <1>1, <1>4 DEF PublishProductEvent, MenuReturn
  <2>2. ~Carrying(r)
    BY <1>2, <1>4 DEF Carrying
  <2> QED BY <1>2, <2>1, <2>2, QuietReturn
<1> QED BY <1>3, <1>4

LEMMA LowByAlert ==
    ASSUME DraftedInv, LowInv, NEW r \in MenuCalls,
           \A s \in MenuCalls \ {r} : menuCall'[s] = menuCall[s], PublishLowStock(r)
    PROVE  LowInv'
<1> USE DEF Step, Doc
<1>1. menuCall'[r] = NoMenuCall /\ Step(r) = "product.alert" /\ UNCHANGED products
  BY DEF PublishLowStock, MenuReturn, DraftedInv, MenuInv, MenuTypeOK
<1>2. CASE Doc(r) # Watched
  BY <1>1, <1>2, QuietReturn DEF PublishLowStock, Carrying
<1>3. CASE Doc(r) = Watched
  <2>1. Carrying(r)
    BY <1>1, <1>3 DEF Carrying
  <2>2. PlainFits(r)' /\ Current(r)' /\ ~Carrying(r)'
    BY <1>1, MenuAssumption DEF PlainFits, Current, Carrying, NoMenuCall
  <2>3. CASE lowAlert = "excused"
    <3>1. lowAlert' = Rest(r, Doc(r))
      BY <1>3, <2>3 DEF PublishLowStock
    <3>2. CASE lowAlert' = "excused"
      BY <2>2, <3>2, OthersAccounted DEF LowInv
    <3>3. CASE lowAlert' # "excused"
      <4>1. Alone(r) /\ lowAlert' = "settled"
        BY <2>3, <3>1, <3>3 DEF Rest
      <4>2. \A s \in MenuCalls : Doc(s)' # Watched
        BY <1>1, <4>1, DoneAlone
      <4> QED BY <2>2, <4>1, <4>2, OthersAccounted DEF LowInv, Accounted, Carrying, Current
    <3> QED BY <3>2, <3>3
  <2>4. CASE lowAlert # "excused"
    <3>1. lowAlert = "due" /\ (\A s \in MenuCalls \ {r} : ~Carrying(s)) /\ \A s \in MenuCalls : Current(s)
      BY <2>1, <2>4 DEF LowInv, Accounted
    <3>2. lowAlert' = "settled"
      BY <1>3, <3>1 DEF PublishLowStock
    <3> QED BY <1>1, <2>2, <3>1, <3>2, OthersAccounted DEF LowInv, Accounted
  <2> QED BY <2>3, <2>4
<1> QED BY <1>2, <1>3

LEMMA LowByFail ==
    ASSUME DraftedInv, LowInv, NEW r \in MenuCalls,
           \A s \in MenuCalls \ {r} : menuCall'[s] = menuCall[s], MenuFail(r)
    PROVE  LowInv'
<1> USE DEF Doc
<1>1. menuCall'[r] = NoMenuCall /\ UNCHANGED products
  BY DEF MenuFail, MenuReturn, DraftedInv, MenuInv, MenuTypeOK
<1>2. PlainFits(r)' /\ Current(r)' /\ ~Carrying(r)'
  BY <1>1, MenuAssumption DEF PlainFits, Current, Carrying, NoMenuCall, Step
<1>3. CASE Doc(r) # Watched
  BY <1>1, <1>3, QuietReturn DEF MenuFail, Carrying
<1>4. CASE Doc(r) = Watched /\ Alone(r)
  <2>1. lowAlert' = "settled"
    BY <1>4 DEF MenuFail
  <2>2. \A s \in MenuCalls : Doc(s)' # Watched
    BY <1>1, <1>4, DoneAlone
  <2> QED BY <1>2, <2>1, <2>2, OthersAccounted DEF LowInv, Accounted, Carrying, Current
<1>5. CASE Doc(r) = Watched /\ ~Alone(r)
  <2>1. lowAlert' = "excused"
    BY <1>5 DEF MenuFail
  <2> QED BY <1>2, <2>1, OthersAccounted DEF LowInv
<1> QED BY <1>3, <1>4, <1>5

LEMMA LowByProducts ==
    ASSUME DraftedInv, LowInv, NEW r \in MenuCalls,
           ProductNext(r) \/ PublishProductEvent(r, FALSE) \/ MenuFail(r)
    PROVE  LowInv'
<1> USE DEF Step, Doc
<1>1. menuCall \in [MenuCalls -> MenuCall] /\ menuCall[r] \in MenuCall
  BY DEF DraftedInv, MenuInv, MenuTypeOK
<1>2. \A s \in MenuCalls \ {r} : menuCall'[s] = menuCall[s]
  BY OneMoves DEF DraftedInv, Moves
<1>3. CASE ProductConflict(r)
  <2>1. Step(r) = "product.conflict" /\ UNCHANGED products /\ ~Carrying(r)
    BY <1>3 DEF ProductConflict, Carrying
  <2>2. CASE MenuReturn(r) /\ lowAlert' = Rest(r, Doc(r))
    BY <1>1, <1>2, <2>1, <2>2, QuietReturn DEF MenuReturn
  <2>3. CASE MenuGoto(r, "product.update") /\ UNCHANGED lowAlert
    <3>1. Step(r)' = "product.update" /\ Doc(r)' = Doc(r) /\ menuCall'[r].old = menuCall[r].old
      BY <1>1, <2>3 DEF MenuGoto, MenuCall
    <3>2. PlainFits(r)' /\ ~Carrying(r)' /\ (Current(r) => Current(r)')
      BY <2>1, <3>1 DEF PlainFits, Carrying, Current
    <3> QED BY <1>2, <2>1, <2>3, <3>2, QuietStep DEF LowInv, Accounted
  <2> QED BY <1>3, <2>2, <2>3 DEF ProductConflict
<1>4. CASE RereadProduct(r)
  <2> DEFINE low == products[Doc(r)].low
  <2>1. Step(r) = "product.reread" /\ UNCHANGED <<products, lowAlert>>
    BY <1>4 DEF RereadProduct, menuHistory
  <2>2. Step(r)' = "publish" /\ Doc(r)' = Doc(r) /\ menuCall'[r].patch.low = (~menuCall[r].old /\ low)
    BY <1>1, <1>4 DEF RereadProduct, BecameLow, MenuCall, Patch
  <2>3. Carrying(r)' <=> Carrying(r)
    BY <2>1, <2>2 DEF Carrying
  <2>4. PlainFits(r)' /\ Current(r)'
    BY <2>2 DEF PlainFits, Current
  <2> QED BY <1>2, <2>1, <2>3, <2>4, QuietStep
<1>5. CASE DeactivateProduct(r)
  <2>1. /\ Step(r) = "product.deactivate" /\ UNCHANGED <<products, lowAlert>>
        /\ Step(r)' = "publish" /\ menuCall'[r].patch = menuCall[r].patch
    BY <1>1, <1>5 DEF DeactivateProduct, MenuGoto, MenuCall
  <2>2. menuCall[r].patch.low = NoValue
    BY <2>1 DEF LowInv, PlainFits
  <2>3. PlainFits(r)' /\ Current(r)' /\ ~Carrying(r)' /\ ~Carrying(r)
    BY <2>1, <2>2, MenuAssumption DEF PlainFits, Current, Carrying
  <2> QED BY <1>2, <2>1, <2>3, QuietStep
<1>6. CASE ReorderDone(r)
  <2>1. Step(r) = "reorder" /\ UNCHANGED <<products, lowAlert>> /\ Doc(r) # Watched /\ ~Carrying(r)
    BY <1>6, MenuAssumption DEF ReorderDone, LowInv, PlainFits, Carrying
  <2>2. CASE MenuReturn(r)
    BY <1>1, <1>2, <2>1, <2>2, QuietReturn DEF MenuReturn
  <2>3. CASE MenuGoto(r, "publish")
    <3>1. Step(r)' = "publish" /\ Doc(r)' = Doc(r)
      BY <1>1, <2>3 DEF MenuGoto, MenuCall
    <3> QED BY <1>2, <2>1, <3>1, Elsewhere DEF PlainFits
  <2> QED BY <1>6, <2>2, <2>3 DEF ReorderDone
<1> QED BY <1>2, <1>3, <1>4, <1>5, <1>6, LowByBegin, LowByInsert, LowByWrite, LowByPublish, LowByAlert, LowByFail
        DEF ProductNext

\* A product that became low is announced so, once, and none that did not, however the
\* other requests interleave with the one request at work on it (updateProduct).
THEOREM LowStockOnce == MenuSpec => []LowStockAnnounced
<1>1. MenuInit => LowInv
  BY MenuAssumption DEF MenuInit, LowInv, Accounted, PlainFits, Current, Carrying, Step, Doc, NoMenuCall
<1>2. DraftedInv /\ LowInv /\ [MenuNext]_menuVars => LowInv'
  <2> SUFFICES ASSUME DraftedInv, LowInv, [MenuNext]_menuVars PROVE LowInv'
    OBVIOUS
  <2>1. CASE UNCHANGED menuVars
    BY <2>1 DEF menuVars, menuHistory, LowInv, Accounted, PlainFits, Current, Carrying, Step, Doc
  <2> QED BY <2>1, LowByCategories, LowByProducts DEF MenuNext
<1>3. LowInv => LowStockAnnounced
  BY DEF LowInv, Accounted, Carrying, LowStockAnnounced
<1> QED BY <1>1, <1>2, <1>3, DraftedInductive, PTL DEF MenuSpec
=============================================================================
