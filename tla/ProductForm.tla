------------------------------ MODULE ProductForm ------------------------------
(***************************************************************************)
(* The form of a product (pages/ProductFormPage.tsx) from the moment it    *)
(* opens to the answer that closes it, with the uploads of its images      *)
(* (lib/upload-image.ts) and what createProduct and updateProduct make of  *)
(* its payload.                                                            *)
(*                                                                         *)
(* An element of Forms is one browser tab.  Of the fields there are the    *)
(* SKU, the image (the other optional fields are treated alike) and the    *)
(* variants, of which only their rows count.  The category that a submit   *)
(* may create first, and the star, are left out. No input is disabled      *)
(* while a save is under way, and none but the image's own while an image  *)
(* is.                                                                     *)
(*                                                                         *)
(* `meant', `submitted', `crossedForms', `made' and `retyped' are history: *)
(* no guard reads them.                                                    *)
(***************************************************************************)
EXTENDS Integers, FiniteSets

CONSTANTS Forms, Shelf, FormSkus, Rows,
          Blank,      \* an empty field, and no product
          MaxMishaps  \* bound: answers lost and requests that fail

Fields == [sku : FormSkus \cup {Blank}, image : {Blank, "url"}, rows : SUBSET Rows]

ASSUME ProductFormAssumption ==
    /\ Blank \notin Shelf \cup FormSkus \cup Rows \cup Fields
    /\ MaxMishaps \in Nat

VARIABLES
    shelf,        \* the products of the branch
    form,         \* the tabs' forms
    payload,      \* what each tab's request carries
    imageUpload,  \* forms whose image is on its way
    rowUploads,   \* images of variants on their way, with the variants as they stood
    meant,        \* history: the form as its user left it, were no edit ever lost
    submitted,    \* history: what the user meant when the button was pressed
    crossedForms, \* history: forms with a variant edited while an image of one was on its way
    made,         \* history: the products each form created
    retyped,      \* history: forms whose SKU, or that of a product of theirs, was changed
                  \* after it had been submitted
    mishaps

formHistory == <<meant, submitted, crossedForms, made, retyped, mishaps>>
formVars == <<shelf, form, payload, imageUpload, rowUploads, formHistory>>

initialForm == [sku |-> Blank, image |-> Blank, rows |-> {}]
FormSteps == {"closed", "loading", "ready", "saving", "saved", "refused"}
Form      == [step : FormSteps, id : Shelf \cup {Blank}, fields : Fields]
ClosedForm == [step |-> "closed", id |-> Blank, fields |-> initialForm]
RowUpload == [row : Rows, rows : SUBSET Rows]

ProductFormTypeOK ==
    /\ shelf \in [Shelf -> Fields \cup {Blank}]
    /\ form \in [Forms -> Form] /\ payload \in [Forms -> Fields]
    /\ meant \in [Forms -> Fields] /\ submitted \in [Forms -> Fields]
    /\ imageUpload \subseteq Forms /\ crossedForms \subseteq Forms /\ retyped \subseteq Forms
    /\ rowUploads \in [Forms -> SUBSET RowUpload]
    /\ made \in [Forms -> SUBSET Shelf]
    /\ mishaps \in Nat

ProductFormInit ==
    /\ shelf = [p \in Shelf |-> Blank]
    /\ form = [f \in Forms |-> ClosedForm]
    /\ payload = [f \in Forms |-> initialForm]
    /\ meant = [f \in Forms |-> initialForm] /\ submitted = [f \in Forms |-> initialForm]
    /\ imageUpload = {} /\ rowUploads = [f \in Forms |-> {}]
    /\ crossedForms = {} /\ made = [f \in Forms |-> {}] /\ retyped = {} /\ mishaps = 0

OnShelf    == {p \in Shelf : shelf[p] # Blank}
FieldsOf(f) == form[f].fields
Editing(f) == form[f].step \notin {"closed", "loading"}
Goto(f, step) == form' = [form EXCEPT ![f].step = step]

\* The page is left: answers that come later find no form.
Leave(f) ==
    /\ form' = [form EXCEPT ![f] = ClosedForm]
    /\ meant' = [meant EXCEPT ![f] = initialForm]
    /\ imageUpload' = imageUpload \ {f} /\ rowUploads' = [rowUploads EXCEPT ![f] = {}]
    /\ crossedForms' = crossedForms \ {f} /\ retyped' = retyped \ {f}
    /\ made' = [made EXCEPT ![f] = {}]

----------------------------------------------------------------------------
(* Opening.                                                                *)

OpenNew(f) ==
    /\ form[f].step = "closed"
    /\ Goto(f, "ready")
    /\ UNCHANGED <<shelf, payload, imageUpload, rowUploads, formHistory>>

OpenEdit(f, p) ==
    /\ form[f].step = "closed"
    /\ p \in OnShelf
    /\ form' = [form EXCEPT ![f] = [ClosedForm EXCEPT !.step = "loading", !.id = p]]
    /\ UNCHANGED <<shelf, payload, imageUpload, rowUploads, formHistory>>

productToForm(p) == p

Loaded(f) ==
    /\ form[f].step = "loading"
    /\ form' = [form EXCEPT ![f].step = "ready", ![f].fields = productToForm(shelf[form[f].id])]
    /\ meant' = [meant EXCEPT ![f] = shelf[form[f].id]]
    /\ UNCHANGED <<shelf, payload, imageUpload, rowUploads, submitted, crossedForms, made,
                   retyped, mishaps>>

----------------------------------------------------------------------------
(* Editing.                                                                *)

Edit(f, fields, asMeant) ==
    /\ Editing(f) /\ fields # FieldsOf(f)
    /\ form' = [form EXCEPT ![f].fields = fields]
    /\ meant' = [meant EXCEPT ![f] = asMeant]

\* By hand, or by autoSku until it was touched.
TypeSku(f, sku) ==
    /\ Edit(f, [FieldsOf(f) EXCEPT !.sku = sku], [meant[f] EXCEPT !.sku = sku])
    /\ retyped' = IF made[f] # {} \/ form[f].step = "saving" THEN retyped \cup {f} ELSE retyped
    /\ UNCHANGED <<shelf, payload, imageUpload, rowUploads, submitted, crossedForms, made,
                   mishaps>>

RemoveImage(f) ==
    /\ f \notin imageUpload
    /\ Edit(f, [FieldsOf(f) EXCEPT !.image = Blank], [meant[f] EXCEPT !.image = Blank])
    /\ UNCHANGED <<shelf, payload, imageUpload, rowUploads, submitted, crossedForms, made,
                   retyped, mishaps>>

\* addVariant, updateVariant and removeVariant, on the variants of the last render.
EditRow(f, r) ==
    LET Toggled(x) == IF r \in x.rows THEN [x EXCEPT !.rows = @ \ {r}]
                      ELSE [x EXCEPT !.rows = @ \cup {r}] IN
    /\ Edit(f, Toggled(FieldsOf(f)), Toggled(meant[f]))
    /\ crossedForms' = IF rowUploads[f] # {} THEN crossedForms \cup {f} ELSE crossedForms
    /\ UNCHANGED <<shelf, payload, imageUpload, rowUploads, submitted, made, retyped, mishaps>>

\* handleImagePick: generateUploadUrl, then the PUT.
PickImage(f) ==
    /\ Editing(f) /\ f \notin imageUpload
    /\ imageUpload' = imageUpload \cup {f}
    /\ UNCHANGED <<shelf, form, payload, rowUploads, formHistory>>

ImageUploaded(f) ==
    /\ f \in imageUpload
    /\ imageUpload' = imageUpload \ {f}
    /\ form' = [form EXCEPT ![f].fields.image = "url"]
    /\ meant' = [meant EXCEPT ![f].image = "url"]
    /\ UNCHANGED <<shelf, payload, rowUploads, submitted, crossedForms, made, retyped, mishaps>>

\* VariantRow.handlePick; the row of an upload takes no other.
PickRowImage(f, r) ==
    /\ Editing(f) /\ r \in FieldsOf(f).rows
    /\ \A x \in rowUploads[f] : x.row # r
    /\ rowUploads' = [rowUploads EXCEPT ![f] = @ \cup {[row |-> r, rows |-> FieldsOf(f).rows]}]
    /\ crossedForms' = IF rowUploads[f] # {} THEN crossedForms \cup {f} ELSE crossedForms
    /\ UNCHANGED <<shelf, form, payload, imageUpload, meant, submitted, made, retyped, mishaps>>

\* updateVariant of the render in which the file was picked: its variants come back.
RowImageUploaded(f, x) ==
    /\ x \in rowUploads[f]
    /\ rowUploads' = [rowUploads EXCEPT ![f] = @ \ {x}]
    /\ form' = [form EXCEPT ![f].fields.rows = x.rows]
    /\ UNCHANGED <<shelf, payload, imageUpload, formHistory>>

Mishap == mishaps < MaxMishaps /\ mishaps' = mishaps + 1

UploadFails(f) ==
    /\ Mishap
    /\ \/ f \in imageUpload /\ imageUpload' = imageUpload \ {f} /\ UNCHANGED rowUploads
       \/ /\ \E x \in rowUploads[f] : rowUploads' = [rowUploads EXCEPT ![f] = @ \ {x}]
          /\ UNCHANGED imageUpload
    /\ UNCHANGED <<shelf, form, payload, meant, submitted, crossedForms, made, retyped>>

----------------------------------------------------------------------------
(* Saving.                                                                 *)

\* handleSubmit, once validateClientSide finds nothing missing.
Submit(f) ==
    /\ form[f].step = "ready"
    /\ FieldsOf(f).sku # Blank
    /\ Goto(f, "saving")
    /\ payload' = [payload EXCEPT ![f] = FieldsOf(f)]
    /\ submitted' = [submitted EXCEPT ![f] = meant[f]]
    /\ UNCHANGED <<shelf, imageUpload, rowUploads, meant, crossedForms, made, retyped, mishaps>>

\* Fault: the unique index on SKUs is missing.
ShelfSkuNever(sku, p) == FALSE

\* SKU_ALREADY_EXISTS.
ShelfSkuTaken(sku, p) == \E q \in OnShelf \ {p} : shelf[q].sku = sku

Answered(f) ==
    /\ payload' = [payload EXCEPT ![f] = initialForm]
    /\ submitted' = [submitted EXCEPT ![f] = initialForm]

ServerRefuses(f) ==
    /\ form[f].step = "saving"
    /\ ShelfSkuTaken(payload[f].sku, form[f].id)
    /\ Goto(f, "refused") /\ Answered(f)
    /\ UNCHANGED <<shelf, imageUpload, rowUploads, meant, crossedForms, made, retyped, mishaps>>

\* The next id.
FreeOnShelf == CHOOSE p \in Shelf : p \notin OnShelf

\* formToCreatePayload.
ServerCreates(f) ==
    LET p == FreeOnShelf IN
    /\ form[f].step = "saving" /\ form[f].id = Blank
    /\ OnShelf # Shelf
    /\ ~ShelfSkuTaken(payload[f].sku, p)
    /\ shelf' = [shelf EXCEPT ![p] = payload[f]]
    /\ made' = [made EXCEPT ![f] = @ \cup {p}]
    /\ Goto(f, "saved") /\ Answered(f)
    /\ UNCHANGED <<imageUpload, rowUploads, meant, crossedForms, retyped, mishaps>>

\* Fault: the payload of an update leaves the variants out.
UpdatedBare(old, new) ==
    [new EXCEPT !.image = IF @ = Blank THEN old.image ELSE @, !.rows = old.rows]

\* formToUpdatePayload: an empty field is undefined, which the request leaves out and
\* updateProduct leaves alone.
Updated(old, new) ==
    [sku    |-> new.sku,
     image  |-> IF new.image = Blank THEN old.image ELSE new.image,
     rows   |-> IF new.rows = {} THEN old.rows ELSE new.rows]

ServerUpdates(f) ==
    LET p == form[f].id IN
    /\ form[f].step = "saving" /\ p # Blank
    /\ ~ShelfSkuTaken(payload[f].sku, p)
    /\ shelf' = [shelf EXCEPT ![p] = Updated(@, payload[f])]
    /\ retyped' = IF payload[f].sku = shelf[p].sku THEN retyped
                  ELSE retyped \cup {g \in Forms : p \in made[g]}
    /\ Goto(f, "saved") /\ Answered(f)
    /\ UNCHANGED <<imageUpload, rowUploads, meant, crossedForms, made, mishaps>>

\* navigate('/products').
SaveAnswered(f) ==
    /\ form[f].step = "saved"
    /\ Leave(f)
    /\ UNCHANGED <<shelf, payload, submitted, mishaps>>

\* The user leaves the page.
Abandon(f) ==
    /\ form[f].step \in {"loading", "ready"}
    /\ Leave(f)
    /\ UNCHANGED <<shelf, payload, submitted, mishaps>>

SaveRefused(f) ==
    /\ form[f].step = "refused"
    /\ Goto(f, "ready")
    /\ UNCHANGED <<shelf, payload, imageUpload, rowUploads, formHistory>>

\* The request, or its answer, is lost: the form stays, with an error.
SaveLost(f) ==
    /\ form[f].step \in {"saving", "saved", "refused"}
    /\ Mishap
    /\ Goto(f, "ready") /\ Answered(f)
    /\ UNCHANGED <<shelf, imageUpload, rowUploads, meant, crossedForms, made, retyped>>

ProductFormNext ==
    \E f \in Forms :
        \/ OpenNew(f) \/ Loaded(f) \/ ServerCreates(f) \/ \E p \in Shelf : OpenEdit(f, p)
        \/ \E sku \in FormSkus : TypeSku(f, sku)
        \/ RemoveImage(f) \/ PickImage(f) \/ ImageUploaded(f)
        \/ \E r \in Rows : EditRow(f, r) \/ PickRowImage(f, r)
        \/ \E x \in rowUploads[f] : RowImageUploaded(f, x)
        \/ UploadFails(f)
        \/ Submit(f) \/ ServerRefuses(f) \/ ServerUpdates(f)
        \/ SaveAnswered(f) \/ SaveRefused(f) \/ SaveLost(f) \/ Abandon(f)

ProductFormSpec == ProductFormInit /\ [][ProductFormNext]_formVars

----------------------------------------------------------------------------
\* However often its answer is lost and the button pressed again, a form creates one
\* product - unless its user, told that the SKU is taken, corrected it, or another tab
\* gave that product another SKU.
OneProductPerForm == \A f \in Forms : Cardinality(made[f]) > 1 => f \in retyped

FormShowsEdits ==
    \A f \in Forms :
        /\ f \notin crossedForms => FieldsOf(f) = meant[f]
        /\ \A x \in {"sku", "image"} : FieldsOf(f)[x] = meant[f][x]

\* Product p has, in what was saved as f's, the field x that its user meant; an empty one
\* leaves an old product as it was.
HasField(f, p, x, empty) ==
    \/ shelf'[p][x] = submitted[f][x]
    \/ /\ submitted[f][x] = empty /\ p = form[f].id
       /\ shelf'[p][x] = shelf[p][x]

SavedAsMeant(f, p) ==
    /\ p \in {form[f].id} \cup (made'[f] \ made[f])
    /\ \A q \in Shelf \ {p} : shelf'[q] = shelf[q]
    /\ shelf'[p].sku = submitted[f].sku
    /\ HasField(f, p, "image", Blank)
    /\ f \notin crossedForms => HasField(f, p, "rows", {})

SavesAsMeant ==
    \A f \in Forms :
        form[f].step = "saving" /\ form'[f].step = "saved" => \E p \in Shelf : SavedAsMeant(f, p)

\* A form shows every edit and every image it was given, whatever was on its way meanwhile;
\* and a save that succeeds gives its own product, and no other, what the user meant when
\* the button was pressed, whatever was edited, uploaded or came back since.  But for: the
\* variants edited while an image of one was on its way, whose answer puts the others back
\* as they were (VariantsCard); and, in an edit, what the user emptied, an image removed or
\* the last variant, which the payload leaves out and the product keeps.  Edits made and
\* images that come after the button was pressed are shown, and not in that save.
EditsAreKept == []FormShowsEdits /\ [][SavesAsMeant]_formVars
=============================================================================
