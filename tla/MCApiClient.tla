---------------------------- MODULE MCApiClient ----------------------------
(***************************************************************************)
(* ApiClient with its users in one of two habits: one call at a time in    *)
(* every tab, or several calls in one tab.  Both at once is out of reach.  *)
(***************************************************************************)
EXTENDS ApiClient, TLC

VARIABLE active     \* the calls that may be made

MCInit ==
    /\ Init
    /\ active \in {Tabs \X {s} : s \in Slots} \cup {{t} \X Slots : t \in Tabs}

MCNext ==
    /\ Next
    /\ UNCHANGED active
    /\ \A c \in Calls \ active : call'[c] = Idle
    /\ \A t \in Tabs \ {c[1] : c \in active} : status'[t] = "unauthenticated"

MCSpec == MCInit /\ [][MCNext]_<<vars, active>>

\* Tabs, slots and session values are interchangeable.
Symmetry == Permutations(Tabs) \cup Permutations(Slots) \cup Permutations(Pairs)
=============================================================================
