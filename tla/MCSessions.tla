----------------------------- MODULE MCSessions -----------------------------
(* Sessions on a small instance: ids and requests are interchangeable.     *)
EXTENDS Sessions, TLC

\* To halve the state space an account with a password is entered by it, one without by
\* OAuth.  The two ways differ only in what openedWith records.
MCNext ==
    /\ Next
    /\ \A u \in User, r \in Request : Exchange(r, u) => passwordHash[u] = 0

MCSpec == Init /\ [][MCNext]_vars

Symmetry == Permutations(Family) \cup Permutations(Token) \cup Permutations(Request)
=============================================================================
