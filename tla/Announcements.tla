---------------------------- MODULE Announcements ----------------------------
(***************************************************************************)
(* The two services that change one field of a document and announce it:   *)
(* setFeatured (services/product-preferences.ts) and updateOrderStatus     *)
(* (services/orders.ts).  Both read the document, write it, and publish    *)
(* the new value on the branch's channel; setFeatured publishes only a     *)
(* change, and decides that from the document it read first.               *)
(*                                                                         *)
(* An element of Setters is one request past its 404s and 403s.  `told',   *)
(* `doubtful' and `overlapped' are history: no guard reads them.           *)
(***************************************************************************)
EXTENDS Integers

CONSTANTS Preferences,  \* featured flags: one per branch and product
          Orders,
          Statuses,     \* OrderStatus, "pending" among them
          Setters,
          Unset,        \* no document
          MaxSetterFaults  \* bound: publishes that fail and requests that die

Flags == {"featured", "plain"}

ASSUME AnnouncementsAssumption ==
    /\ "pending" \in Statuses
    /\ Unset \notin Statuses \cup Flags
    /\ Preferences \cap Orders = {} /\ Unset \notin Preferences \cup Orders
    /\ MaxSetterFaults \in Nat

VARIABLES
    field,       \* the featured flag, or the status, that the database holds
    setter,      \* the requests in flight
    told,        \* history: the value that the branch knows
    doubtful,    \* history: documents whose value the branch may have wrong
    overlapped,  \* history: requests that met another one on their document
    setterFaults

announcementVars == <<field, setter, told, doubtful, overlapped, setterFaults>>

Announced  == Preferences \cup Orders
FieldValue == Statuses \cup Flags \cup {Unset}
Setter     == [step : {"idle", "write", "publish"}, doc : Announced \cup {Unset},
               value : FieldValue, existing : FieldValue]
NoSetter   == [step |-> "idle", doc |-> Unset, value |-> Unset, existing |-> Unset]

AnnouncementsTypeOK ==
    /\ field \in [Announced -> FieldValue]
    /\ setter \in [Setters -> Setter]
    /\ told \in [Announced -> FieldValue]
    /\ doubtful \subseteq Announced /\ overlapped \subseteq Setters
    /\ setterFaults \in Nat

AnnouncementsInit ==
    /\ field = [d \in Announced |-> Unset]
    /\ setter = [s \in Setters |-> NoSetter]
    /\ told = [d \in Announced |-> Unset]
    /\ doubtful = {} /\ overlapped = {}
    /\ setterFaults = 0

AtWorkOn(d) == {s \in Setters : setter[s].doc = d}

\* Ends the call.  An event that nothing disturbed settles the document, whatever went
\* wrong before; one cut short, or another request at work, leaves it in doubt.
Finish(s, outcome) ==
    LET d == setter[s].doc IN
    /\ setter' = [setter EXCEPT ![s] = NoSetter]
    /\ overlapped' = overlapped \ {s}
    /\ doubtful' = CASE s \in overlapped \/ outcome = "lost" -> doubtful \cup {d}
                     [] s \notin overlapped /\ outcome = "told" -> doubtful \ {d}
                     [] OTHER -> doubtful

\* createOrder inserts the order as pending and sends no event: who lists it reads that.
CreateOrder(d) ==
    /\ field[d] = Unset
    /\ field' = [field EXCEPT ![d] = "pending"]
    /\ told' = [told EXCEPT ![d] = "pending"]
    /\ UNCHANGED <<setter, doubtful, overlapped, setterFaults>>

\* `existing' is read.
BeginSetter(s, d, v) ==
    /\ setter[s].step = "idle"
    /\ setter' = [setter EXCEPT ![s] = [step |-> "write", doc |-> d, value |-> v,
                                        existing |-> field[d]]]
    /\ overlapped' = IF AtWorkOn(d) = {} THEN overlapped
                     ELSE overlapped \cup AtWorkOn(d) \cup {s}
    /\ UNCHANGED <<field, told, doubtful, setterFaults>>

SetFeatured(s, d, flag) == BeginSetter(s, d, flag)

UpdateOrderStatus(s, d, status) == field[d] # Unset /\ BeginSetter(s, d, status)

\* Fault: a first featuring counts as no change.
StateChangedIfKnown(d, existing, v) == d \in Orders \/ (existing # Unset /\ existing # v)

\* The publish decision: setFeatured's stateChanged; an order's event is always sent.
StateChanged(d, existing, v) == d \in Orders \/ existing = Unset \/ existing # v

\* The upsert, or the updateOne.
WriteField(s) ==
    LET call == setter[s] IN
    /\ call.step = "write"
    /\ field' = [field EXCEPT ![call.doc] = call.value]
    /\ IF StateChanged(call.doc, call.existing, call.value)
         THEN /\ setter' = [setter EXCEPT ![s].step = "publish", ![s].existing = Unset]
              /\ UNCHANGED <<doubtful, overlapped>>
         ELSE Finish(s, "unchanged")
    /\ UNCHANGED <<told, setterFaults>>

\* publishToChannel, whose errors are logged and swallowed.
PublishField(s, ok) ==
    LET call == setter[s] IN
    /\ call.step = "publish"
    /\ told' = IF ok THEN [told EXCEPT ![call.doc] = call.value] ELSE told
    /\ Finish(s, IF ok THEN "told" ELSE "lost")
    /\ setterFaults' = IF ok THEN setterFaults ELSE setterFaults + 1
    /\ UNCHANGED field

\* An awaited call throws, or the invocation dies.
FailSetter(s) ==
    /\ setter[s].step # "idle"
    /\ Finish(s, IF setter[s].step = "write" THEN "unchanged" ELSE "lost")
    /\ setterFaults' = setterFaults + 1
    /\ UNCHANGED <<field, told>>

AnnouncementsNext ==
    \/ \E d \in Orders : CreateOrder(d)
    \/ \E s \in Setters :
          \/ \E d \in Preferences, v \in Flags : SetFeatured(s, d, v)
          \/ \E d \in Orders, v \in Statuses : UpdateOrderStatus(s, d, v)
          \/ WriteField(s)
          \/ PublishField(s, TRUE)
          \/ setterFaults < MaxSetterFaults /\ (PublishField(s, FALSE) \/ FailSetter(s))

AnnouncementsSpec == AnnouncementsInit /\ [][AnnouncementsNext]_announcementVars

----------------------------------------------------------------------------
\* Once nothing is at work on it, the branch knows a document's value - unless two
\* requests overlapped on it or one was cut short after its write, and no undisturbed
\* event has followed (the try around publishToChannel in both services).
BranchKnows ==
    \A d \in Announced \ doubtful : AtWorkOn(d) = {} => told[d] = field[d]
=============================================================================
