-------------------------- MODULE MCSessionsReuse --------------------------
(* Sessions with a history variable: the families on which a RevokeFamily  *)
(* has been executed, by a reuse, a refused user or a Logout.              *)
EXTENDS Sessions

VARIABLE revoked

HistInit == Init /\ revoked = {}

HistNext ==
    /\ Next
    /\ revoked' = revoked \cup
           {f \in Family : \E r \in Request : req[r].family = f /\ RevokeFamily(r)}

HistSpec == HistInit /\ [][HistNext]_<<vars, revoked>>

\* "The loser (ok=false) detects reuse, revokes the family, and returns
\* ErrRefreshReuse - defeating replay even under concurrent requests", and
\* "Logout revokes the presented refresh token's family": once RevokeFamily has
\* been executed on a family, the family has no live token.
RevokedFamilyHasNoLiveToken == \A f \in revoked : Live(f) = {}
=============================================================================
