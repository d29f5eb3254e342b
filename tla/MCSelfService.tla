--------------------------- MODULE MCSelfService ---------------------------
(* The four parts write disjoint tables and columns, so a behaviour        *)
(* exercises one of them, with the changes of users and companies that it  *)
(* depends on: the state space is their sum and not their product.  c2 may *)
(* have no row.                                                            *)
EXTENDS SelfService, TLC

CONSTANTS c1, c2

VARIABLE part   \* the part that the clients of this behaviour use

MCInit ==
    /\ Init
    /\ part \in {"connections", "saved", "profiles", "mfa"}
    /\ Exists(c1)
    /\ part # "profiles" => ~Exists(c2)

MCNext ==
    /\ UNCHANGED part
    /\ \/ part = "connections" /\ ConnStep
       \/ part = "saved" /\ SavedStep
       \/ part = "profiles" /\ (ProfileStep \/ DirectoryStep)
       \/ part = "connections" /\ DirectoryStep /\ UNCHANGED memberOf
       \/ part = "mfa" /\ MfaStep

MCSpec == MCInit /\ [][MCNext]_<<vars, part>>

Symmetry == Permutations(Edge) \cup Permutations(Request) \cup Permutations(User)
=============================================================================
