------------------------------ MODULE MCSignIn ------------------------------
EXTENDS SignIn

Bound(time, signIns, accountChanges) ==
    [time |-> time, attempts |-> signIns, changes |-> accountChanges]

\* Many sign-ins; sign-ins while an account changes; long-lived sessions.
AllBounds == {Bound(3, 3, 0), Bound(3, 2, 1), Bound(6, 1, 2)}

Symmetry == Permutations(Clients)
=============================================================================
