------------------------------- MODULE MCAuth -------------------------------
(***************************************************************************)
(* AuthService with its callers in one of two habits: any operation with   *)
(* the right password, or logins that guess the password, through a lock   *)
(* and its expiry.  Both at once is out of reach.                          *)
(***************************************************************************)
EXTENDS AuthService, TLC

VARIABLE habit

RightPassword == CHOOSE p \in Passwords : TRUE

MCInit ==
    /\ Init
    /\ habit \in {"sessions", "guessing"}
    /\ \A u \in Accounts : users[u].passwordHash = RightPassword

PasswordKnown == \A r \in Reqs : call'[r].password \in {None, RightPassword}

LoginsOnly ==
    /\ \A r \in Reqs : pc'[r] \in {"idle"} \cup LoginSteps
    /\ UNCHANGED users
    /\ Cardinality(issued') <= 1

MCNext ==
    /\ Next
    /\ UNCHANGED habit
    /\ IF habit = "sessions" THEN PasswordKnown ELSE LoginsOnly

MCSpec == MCInit /\ [][MCNext]_<<vars, habit>>

\* Invocations are interchangeable, and so are random values.
Symmetry == Permutations(Reqs) \cup Permutations(Tokens)
=============================================================================
