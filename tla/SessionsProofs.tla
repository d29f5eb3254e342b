--------------------------- MODULE SessionsProofs ---------------------------
(* Proofs of the safety properties of Sessions, and that it implements     *)
(* SessionLine, for every set of users, families, tokens and requests and  *)
(* every bound on token_version.                                           *)
EXTENDS Sessions, TLAPS

\* Init establishes the types: no row, no request, version 0 for every user.
LEMMA InitTypes == Init => TypeOK
  BY DEF Init, TypeOK, NoRow, Row, Status, Idle, Req

\* Opening a family (Login, Exchange) keeps the types.
LEMMA OpenFamilyTypes ==
    ASSUME TypeOK, NEW r \in Request, NEW u \in User, NEW opened \in Nat,
           OpenFamily(r, u, opened)
    PROVE  TypeOK'
  <1>1. PICK f \in Family :
            req' = [req EXCEPT ![r] =
               [pc |-> "issue", token |-> None, user |-> u, family |-> f,
                version |-> tokenVersion[u], openedWith |-> opened]]
    BY DEF OpenFamily
  <1>2. [pc |-> "issue", token |-> None, user |-> u, family |-> f,
         version |-> tokenVersion[u], openedWith |-> opened] \in Req
    BY DEF TypeOK, Req
  <1>3. req' \in [Request -> Req]
    BY <1>1, <1>2 DEF TypeOK
  <1> QED
    BY <1>3 DEF TypeOK, OpenFamily, userVars

\* Every step keeps the types of the five variables.
LEMMA NextTypes == TypeOK /\ [Next]_vars => TypeOK'
  <1> SUFFICES ASSUME TypeOK, [Next]_vars PROVE TypeOK'
    OBVIOUS
  <1>1. ASSUME NEW r \in Request, NEW u \in User, Login(r, u) PROVE TypeOK'
    <2>1. passwordHash[u] \in Nat /\ OpenFamily(r, u, passwordHash[u])
      BY <1>1 DEF Login, TypeOK
    <2> QED BY <2>1, OpenFamilyTypes
  <1>2. ASSUME NEW r \in Request, NEW u \in User, Exchange(r, u) PROVE TypeOK'
    <2>1. 0 \in Nat /\ OpenFamily(r, u, 0)
      BY <1>2 DEF Exchange
    <2> QED BY <2>1, OpenFamilyTypes
  <1>3. ASSUME NEW r \in Request, NEW t \in Token, RefreshRead(r, t) PROVE TypeOK'
    BY <1>3 DEF RefreshRead, TypeOK, Row, Req, userVars
  <1>4. ASSUME NEW r \in Request, NEW t \in Token, LogoutRead(r, t) PROVE TypeOK'
    BY <1>4 DEF LogoutRead, TypeOK, Row, Req, userVars
  <1>5. ASSUME NEW r \in Request, MarkUsed(r) PROVE TypeOK'
    BY <1>5 DEF MarkUsed, TypeOK, Row, Req, Status, userVars
  <1>6. ASSUME NEW r \in Request, ValidateUserForRefresh(r) PROVE TypeOK'
    BY <1>6 DEF ValidateUserForRefresh, TypeOK, Req, userVars
  <1>7. ASSUME NEW r \in Request, IssueTokenPair(r) PROVE TypeOK'
    BY <1>7 DEF IssueTokenPair, IssuedVersion, TypeOK, Row, Req, Idle, Status, userVars
  <1>8. ASSUME NEW r \in Request, RevokeFamily(r) PROVE TypeOK'
    BY <1>8 DEF RevokeFamily, TypeOK, Row, Req, Idle, Status, userVars
  <1>9. ASSUME NEW r \in Request, Abort(r) PROVE TypeOK'
    BY <1>9 DEF Abort, TypeOK, Req, Idle, userVars
  <1>10. ASSUME NEW u \in User, LogoutAll(u) PROVE TypeOK'
    BY <1>10 DEF LogoutAll, BumpTokenVersion, Bump, TypeOK
  <1>11. ASSUME NEW u \in User, ResetPassword(u) PROVE TypeOK'
    BY <1>11 DEF ResetPassword, BumpTokenVersion, Bump, TypeOK
  <1>12. ASSUME NEW u \in User, NEW b \in BOOLEAN, SetSuspended(u, b) PROVE TypeOK'
    BY <1>12 DEF SetSuspended, TypeOK
  <1>13. ASSUME NEW t \in Token, Expire(t) PROVE TypeOK'
    BY <1>13 DEF Expire, TypeOK, Row, userVars
  <1>14. ASSUME NEW t \in Token, Purge(t) PROVE TypeOK'
    BY <1>14 DEF Purge, TypeOK, Row, Status, userVars
  <1>15. CASE UNCHANGED vars
    BY <1>15 DEF vars, TypeOK
  <1> QED
    BY <1>1, <1>2, <1>3, <1>4, <1>5, <1>6, <1>7, <1>8, <1>9, <1>10, <1>11, <1>12,
       <1>13, <1>14, <1>15 DEF Next

\* Type correctness of the refresh-token tables and of the requests on them.
THEOREM TypeCorrect == Spec => []TypeOK
  BY InitTypes, NextTypes, PTL DEF Spec

-----------------------------------------------------------------------------
(* The inductive invariant.                                                *)

\* The columns that no UPDATE of refresh_tokens touches are the same after a step.
SameColumns(s) ==
    /\ row'[s].user = row[s].user /\ row'[s].family = row[s].family
    /\ row'[s].prev = row[s].prev /\ row'[s].version = row[s].version
    /\ row'[s].openedWith = row[s].openedWith

\* prev_id is NULL or a token id.
LEMMA PrevTyped == ASSUME IInv, NEW s \in Token, row[s].prev # None
                   PROVE  row[s].prev \in Token
  BY DEF IInv, TypeOK, Row

\* The token a request was given is NULL or a token id.
LEMMA TokenTyped == ASSUME IInv, NEW q \in Request, req[q].token # None
                    PROVE  req[q].token \in Token
  BY DEF IInv, TypeOK, Req

\* No row and no request: every part of the invariant holds trivially.
LEMMA InitIInv == Init => IInv
  <1> SUFFICES ASSUME Init PROVE IInv
    OBVIOUS
  <1> USE DEF Init, NoRow, Idle
  <1>1. TypeOK BY InitTypes
  <1>2. RowsWellFormed BY DEF RowsWellFormed
  <1>3. SuccessorsOfUsed BY DEF SuccessorsOfUsed
  <1>4. ReqsWellFormed BY DEF ReqsWellFormed
  <1>5. HoldersConsumed BY DEF HoldersConsumed
  <1>6. LoginsFresh BY DEF LoginsFresh
  <1>7. Epochs BY DEF Epochs
  <1>8. OneLivePerFamily BY DEF OneLivePerFamily, Live, InFamily, Holds
  <1>9. RotatedAtMostOnce BY DEF RotatedAtMostOnce
  <1> QED
    BY <1>1, <1>2, <1>3, <1>4, <1>5, <1>6, <1>7, <1>8, <1>9 DEF IInv

\* Login and Exchange: the new request is the only one with its family, and
\* its version and hash are those of the user row at this moment.
LEMMA OpenFamilyStep ==
    ASSUME IInv, NEW r \in Request, NEW u \in User, NEW opened \in Nat,
           req[r].pc = "idle",
           opened # 0 => opened = passwordHash[u],
           OpenFamily(r, u, opened)
    PROVE  IInv'
  <1> DEFINE new(f) == [pc |-> "issue", token |-> None, user |-> u, family |-> f,
                        version |-> tokenVersion[u], openedWith |-> opened]
  <1>1. PICK f \in Family :
            /\ InFamily(f) = {}
            /\ \A q \in Request : req[q].family # f
            /\ req' = [req EXCEPT ![r] = new(f)]
    BY DEF OpenFamily
  <1>2. UNCHANGED <<tokenVersion, passwordHash, suspended, row>>
    BY DEF OpenFamily, userVars
  <1>3. /\ req'[r] = new(f)
        /\ \A q \in Request : q # r => req'[q] = req[q]
    BY <1>1 DEF IInv, TypeOK
  <1> HIDE DEF new
  <1>4. /\ new(f).pc = "issue" /\ new(f).token = None /\ new(f).user = u
        /\ new(f).family = f /\ new(f).version = tokenVersion[u]
        /\ new(f).openedWith = opened
    BY DEF new
  <1>5. TypeOK'
    BY OpenFamilyTypes DEF IInv
  <1>6. RowsWellFormed' /\ SuccessorsOfUsed' /\ RotatedAtMostOnce'
    BY <1>2 DEF IInv, RowsWellFormed, SuccessorsOfUsed, RotatedAtMostOnce
  <1>7. ReqsWellFormed'
    BY <1>2, <1>3, <1>4 DEF IInv, ReqsWellFormed, CopyOf
  <1>8. HoldersConsumed'
    BY <1>2, <1>3, <1>4 DEF IInv, HoldersConsumed
  <1>9. LoginsFresh'
    BY <1>1, <1>2, <1>3, <1>4 DEF IInv, LoginsFresh, InFamily
  <1>10. Epochs'
    BY <1>2, <1>3, <1>4 DEF IInv, Epochs, TypeOK
  <1>11. OneLivePerFamily'
    BY <1>1, <1>2, <1>3, <1>4 DEF IInv, OneLivePerFamily, Live, InFamily, Holds
  <1> QED
    BY <1>5, <1>6, <1>7, <1>8, <1>9, <1>10, <1>11 DEF IInv

\* RefreshRead and LogoutRead: the request only takes a copy of a stored row,
\* and does not hold the family yet.
LEMMA ReadStep ==
    ASSUME IInv, NEW r \in Request, NEW t \in Token,
           RefreshRead(r, t) \/ LogoutRead(r, t)
    PROVE  IInv'
  <1>1. TypeOK'
    BY NextTypes DEF IInv, Next
  <1>2. UNCHANGED <<tokenVersion, passwordHash, suspended, row>>
    BY DEF RefreshRead, LogoutRead, userVars
  <1>3. /\ \A q \in Request : q # r => req'[q] = req[q]
        /\ req[r].pc = "idle"
        /\ req'[r].pc \in {"cas", "revoke"} /\ req'[r].token = t
        /\ req'[r].user = row[t].user /\ req'[r].family = row[t].family
        /\ req'[r].version = row[t].version /\ req'[r].openedWith = row[t].openedWith
        /\ row[t].status # "absent"
    BY DEF RefreshRead, LogoutRead, Stored, IInv, TypeOK
  <1>4. row[t].user \in User /\ row[t].family \in Family /\ t # None
    BY <1>3, NoneAssumption DEF IInv, RowsWellFormed
  <1>5. RowsWellFormed' /\ SuccessorsOfUsed' /\ RotatedAtMostOnce'
    BY <1>2 DEF IInv, RowsWellFormed, SuccessorsOfUsed, RotatedAtMostOnce
  <1>6. ReqsWellFormed'
    BY <1>2, <1>3, <1>4 DEF IInv, ReqsWellFormed, CopyOf
  <1>7. HoldersConsumed'
    BY <1>2, <1>3 DEF IInv, HoldersConsumed
  <1>8. LoginsFresh'
    BY <1>2, <1>3, <1>4 DEF IInv, LoginsFresh
  <1>9. Epochs'
    BY <1>2, <1>3 DEF IInv, Epochs
  <1>10. OneLivePerFamily'
    BY <1>2, <1>3 DEF IInv, OneLivePerFamily, Live, InFamily, Holds
  <1> QED
    BY <1>1, <1>5, <1>6, <1>7, <1>8, <1>9, <1>10 DEF IInv

\* MarkUsed: the winner turns the family's live token into the right to issue
\* its successor; the loser changes no row.
LEMMA MarkUsedStep ==
    ASSUME IInv, NEW r \in Request, MarkUsed(r)
    PROVE  IInv'
  <1> DEFINE t == req[r].token
             f == req[r].family
  <1>1. TypeOK'
    BY NextTypes DEF IInv, Next
  <1>2. UNCHANGED <<tokenVersion, passwordHash, suspended>>
    BY DEF MarkUsed, userVars
  <1>3. /\ req[r].pc = "cas" /\ t \in Token /\ t # None
        /\ CopyOf(r, t) /\ f \in Family
    BY DEF MarkUsed, IInv, ReqsWellFormed, TypeOK, Req
  <1>4. CASE CasMatches(t)
    <2>1. /\ row[t].status = "live"
          /\ row' = [row EXCEPT ![t].status = "used"]
          /\ req' = [req EXCEPT ![r].pc = "validate"]
      BY <1>4 DEF MarkUsed, CasMatches
    <2>2. \A s \in Token :
              row'[s] = IF s = t THEN [row[s] EXCEPT !.status = "used"] ELSE row[s]
      BY <2>1, <1>3 DEF IInv, TypeOK
    <2>3. \A s \in Token :
            /\ row'[s].status = IF s = t THEN "used" ELSE row[s].status
            /\ SameColumns(s)
      BY <2>2 DEF IInv, TypeOK, Row, SameColumns
    <2>4. /\ \A q \in Request : q # r => req'[q] = req[q]
          /\ req'[r] = [req[r] EXCEPT !.pc = "validate"]
      BY <2>1 DEF IInv, TypeOK
    <2>5. /\ req'[r].pc = "validate" /\ req'[r].token = t /\ req'[r].family = f
          /\ req'[r].user = req[r].user /\ req'[r].version = req[r].version
          /\ req'[r].openedWith = req[r].openedWith
      BY <2>4 DEF IInv, TypeOK, Req
    <2> HIDE DEF t, f
    <2>6. RowsWellFormed'
      BY <2>1, <2>2, <2>3 DEF IInv, RowsWellFormed, SameColumns
    <2>7. SuccessorsOfUsed'
      BY <2>3, PrevTyped DEF IInv, SuccessorsOfUsed, SameColumns
    <2>8. ReqsWellFormed'
      <3> SUFFICES ASSUME NEW q \in Request PROVE ReqsWellFormed!(q)'
        BY DEF ReqsWellFormed
      <3>1. CASE q = r
        BY <3>1, <2>3, <2>5, <1>3 DEF IInv, ReqsWellFormed, CopyOf, SameColumns, f, t
      <3>2. CASE q # r
        BY <3>2, <2>3, <2>4, TokenTyped DEF IInv, ReqsWellFormed, CopyOf, SameColumns
      <3> QED BY <3>1, <3>2
    <2>9. \A s \in Token : row[s].prev # t
      BY <2>1, <1>3 DEF IInv, SuccessorsOfUsed
    <2>10. HoldersConsumed'
      <3> SUFFICES ASSUME NEW q \in Request PROVE HoldersConsumed!(q)'
        BY DEF HoldersConsumed
      <3>1. CASE q = r
        BY <3>1, <2>3, <2>5, <2>9, <1>3 DEF SameColumns
      <3>2. CASE q # r
        BY <3>2, <2>3, <2>4, TokenTyped DEF IInv, HoldersConsumed, SameColumns
      <3> QED BY <3>1, <3>2
    <2>11. \A g : InFamily(g)' = InFamily(g)
      BY <2>3 DEF InFamily, SameColumns
    <2>12. LoginsFresh'
      <3>1. \A q \in Request :
              /\ req'[q].family = req[q].family
              /\ req'[q].token = req[q].token
              /\ req'[q].pc = "issue" => req[q].pc = "issue"
        BY <2>4, <2>5 DEF f, t
      <3> QED BY <3>1, <2>3 DEF IInv, LoginsFresh, SameColumns
    <2>13. Epochs'
      BY <1>2, <1>3, <2>1, <2>3, <2>4, <2>5 DEF IInv, Epochs, SameColumns
    <2>14. t \in Live(f)
      BY <2>1, <1>3 DEF Live, InFamily, CopyOf, f, t
    <2>15. /\ \A q \in Request : ~Holds(q, f)
           /\ \A s \in Live(f) : s = t
      BY <2>14, <1>3 DEF IInv, OneLivePerFamily
    <2>16. \A g \in Family : Live(g)' = Live(g) \ {t}
      BY <2>3, <2>11 DEF Live, InFamily
    <2>17. \A q \in Request, g \in Family :
              Holds(q, g)' <=> (Holds(q, g) \/ (q = r /\ g = f))
      BY <2>4, <2>5, <1>3 DEF Holds, f
    <2>18. OneLivePerFamily'
      BY <2>15, <2>16, <2>17 DEF IInv, OneLivePerFamily
    <2>19. RotatedAtMostOnce'
      BY <2>3 DEF IInv, RotatedAtMostOnce, SameColumns
    <2> QED
      BY <1>1, <2>6, <2>7, <2>8, <2>10, <2>12, <2>13, <2>18, <2>19 DEF IInv
  <1>5. CASE ~CasMatches(t)
    <2>1. row' = row /\ req' = [req EXCEPT ![r].pc = "revoke"]
      BY <1>5 DEF MarkUsed
    <2>2. /\ \A q \in Request : q # r => req'[q] = req[q]
          /\ req'[r].pc = "revoke" /\ req'[r].token = t /\ req'[r].family = f
          /\ req'[r].user = req[r].user /\ req'[r].version = req[r].version
          /\ req'[r].openedWith = req[r].openedWith
      BY <2>1 DEF IInv, TypeOK, Req
    <2>3. RowsWellFormed' /\ SuccessorsOfUsed' /\ RotatedAtMostOnce'
      BY <2>1 DEF IInv, RowsWellFormed, SuccessorsOfUsed, RotatedAtMostOnce
    <2>4. ReqsWellFormed'
      BY <2>1, <2>2, <1>3 DEF IInv, ReqsWellFormed, CopyOf
    <2>5. HoldersConsumed'
      BY <2>1, <2>2 DEF IInv, HoldersConsumed
    <2>6. LoginsFresh'
      BY <2>1, <2>2 DEF IInv, LoginsFresh
    <2>7. Epochs'
      BY <1>2, <1>3, <2>1, <2>2 DEF IInv, Epochs
    <2>8. OneLivePerFamily'
      BY <1>3, <2>1, <2>2 DEF IInv, OneLivePerFamily, Live, InFamily, Holds
    <2> QED
      BY <1>1, <2>3, <2>4, <2>5, <2>6, <2>7, <2>8 DEF IInv
  <1> QED
    BY <1>4, <1>5

\* Steps that end requests and move rows towards "purged" keep the invariant:
\* Abort, RevokeFamily, Expire and Purge.
LEMMA DemoteStep ==
    ASSUME IInv, TypeOK', UNCHANGED <<tokenVersion, passwordHash>>,
           \A s \in Token :
              /\ SameColumns(s)
              /\ row[s].status = "absent" => row'[s] = row[s]
              /\ row[s].status # "absent" => row'[s].status # "absent"
              /\ row'[s].status = "live" => row[s].status = "live"
              /\ row[s].status \in {"used", "purged"} => row'[s].status \in {"used", "purged"},
           \A q \in Request : req'[q] = req[q] \/ req'[q] = Idle
    PROVE  IInv'
  <1>1. RowsWellFormed'
    BY DEF IInv, RowsWellFormed, SameColumns
  <1>2. SuccessorsOfUsed'
    BY PrevTyped DEF IInv, SuccessorsOfUsed, SameColumns
  <1>3. ReqsWellFormed'
    <2> SUFFICES ASSUME NEW q \in Request PROVE ReqsWellFormed!(q)'
      BY DEF ReqsWellFormed
    <2>1. CASE req'[q] = req[q]
      BY <2>1, TokenTyped DEF IInv, ReqsWellFormed, CopyOf, SameColumns
    <2>2. CASE req'[q] = Idle
      BY <2>2 DEF Idle
    <2> QED BY <2>1, <2>2
  <1>4. HoldersConsumed'
    <2> SUFFICES ASSUME NEW q \in Request PROVE HoldersConsumed!(q)'
      BY DEF HoldersConsumed
    <2>1. CASE req'[q] = req[q]
      BY <2>1, TokenTyped DEF IInv, HoldersConsumed, SameColumns
    <2>2. CASE req'[q] = Idle
      BY <2>2 DEF Idle
    <2> QED BY <2>1, <2>2
  <1>5. LoginsFresh'
    <2> SUFFICES ASSUME NEW p \in Request, req'[p].pc = "issue", req'[p].token = None
                 PROVE  /\ \A s \in Token : row'[s].family # req'[p].family
                        /\ \A q \in Request : req'[q].family = req'[p].family => q = p
      BY DEF LoginsFresh
    <2>1. req'[p] = req[p]
      BY DEF Idle
    <2>2. req[p].family \in Family /\ None \notin Family
      BY <2>1, NoneAssumption DEF IInv, ReqsWellFormed
    <2> QED
      BY <2>1, <2>2 DEF IInv, LoginsFresh, SameColumns, Idle
  <1>6. Epochs'
    BY DEF IInv, Epochs, SameColumns, Idle
  <1>7. \A g \in Family : \A s \in Live(g)' : s \in Live(g)
    BY DEF Live, InFamily, SameColumns
  <1>8. \A q \in Request, g \in Family : Holds(q, g)' => Holds(q, g)
    BY DEF Holds, Idle
  <1>9. OneLivePerFamily'
    BY <1>7, <1>8 DEF IInv, OneLivePerFamily
  <1>10. RotatedAtMostOnce'
    BY DEF IInv, RotatedAtMostOnce, SameColumns
  <1> QED
    BY <1>1, <1>2, <1>3, <1>4, <1>5, <1>6, <1>9, <1>10 DEF IInv

\* A request that dies takes its right to issue with it.
LEMMA AbortStep == ASSUME IInv, NEW r \in Request, Abort(r) PROVE IInv'
  <1>1. TypeOK'
    BY NextTypes DEF IInv, Next
  <1>2. \A q \in Request : req'[q] = req[q] \/ req'[q] = Idle
    BY DEF Abort, IInv, TypeOK
  <1>3. \A s \in Token : row'[s] = row[s]
    BY DEF Abort
  <1>4. UNCHANGED <<tokenVersion, passwordHash>>
    BY DEF Abort, userVars
  <1> QED BY <1>1, <1>2, <1>3, <1>4, DemoteStep DEF SameColumns

\* RevokeFamily moves the family's live row, if any, to revoked.
LEMMA RevokeStep == ASSUME IInv, NEW r \in Request, RevokeFamily(r) PROVE IInv'
  <1>1. TypeOK'
    BY NextTypes DEF IInv, Next
  <1>2. \A q \in Request : req'[q] = req[q] \/ req'[q] = Idle
    BY DEF RevokeFamily, IInv, TypeOK
  <1>3. \A s \in Token :
           row'[s] = IF row[s].family = req[r].family /\ row[s].status = "live"
                     THEN [row[s] EXCEPT !.status = "revoked"] ELSE row[s]
    BY DEF RevokeFamily, Live, InFamily
  <1>4. \A s \in Token :
          /\ SameColumns(s)
          /\ row'[s] = row[s] \/ (row[s].status = "live" /\ row'[s].status = "revoked")
    BY <1>3 DEF IInv, TypeOK, Row, SameColumns
  <1>5. UNCHANGED <<tokenVersion, passwordHash>>
    BY DEF RevokeFamily, userVars
  <1> QED BY <1>1, <1>2, <1>4, <1>5, DemoteStep

\* Expiry and db:gc touch neither the immutable columns nor any request.
LEMMA ExpirePurgeStep ==
    ASSUME IInv, NEW t \in Token, Expire(t) \/ Purge(t) PROVE IInv'
  <1>1. TypeOK'
    BY NextTypes DEF IInv, Next
  <1>2. \A q \in Request : req'[q] = req[q]
    BY DEF Expire, Purge
  <1>3. row[t].status # "absent"
    BY DEF Expire, Purge, Stored
  <1>4. \/ row' = [row EXCEPT ![t].expired = TRUE]
        \/ row' = [row EXCEPT ![t].status = "purged"]
    BY DEF Expire, Purge
  <1>5. \A s \in Token :
          /\ SameColumns(s)
          /\ s # t => row'[s] = row[s]
          /\ s = t => row'[s].status \in {row[s].status, "purged"}
    BY <1>4 DEF IInv, TypeOK, Row, SameColumns
  <1>6. UNCHANGED <<tokenVersion, passwordHash>>
    BY DEF Expire, Purge, userVars
  <1> QED BY <1>1, <1>2, <1>3, <1>5, <1>6, DemoteStep

\* The check of the user row after the CAS: the request keeps the family, or
\* gives it up.
LEMMA ValidateStep ==
    ASSUME IInv, NEW r \in Request, ValidateUserForRefresh(r) PROVE IInv'
  <1>1. TypeOK'
    BY NextTypes DEF IInv, Next
  <1>2. UNCHANGED <<tokenVersion, passwordHash, suspended, row>>
    BY DEF ValidateUserForRefresh, userVars
  <1>3. /\ req[r].pc = "validate" /\ req[r].token # None
        /\ \/ req' = [req EXCEPT ![r].pc = "issue"]
           \/ req' = [req EXCEPT ![r].pc = "revoke"]
    BY DEF ValidateUserForRefresh, IInv, ReqsWellFormed
  <1>4. \A q \in Request :
          /\ req'[q].token = req[q].token /\ req'[q].family = req[q].family
          /\ req'[q].user = req[q].user /\ req'[q].version = req[q].version
          /\ req'[q].openedWith = req[q].openedWith
          /\ q # r => req'[q] = req[q]
          /\ q = r => req'[q].pc \in {"issue", "revoke"}
    BY <1>3 DEF IInv, TypeOK, Req
  <1>5. RowsWellFormed' /\ SuccessorsOfUsed' /\ RotatedAtMostOnce'
    BY <1>2 DEF IInv, RowsWellFormed, SuccessorsOfUsed, RotatedAtMostOnce
  <1>6. ReqsWellFormed'
    BY <1>2, <1>3, <1>4 DEF IInv, ReqsWellFormed, CopyOf
  <1>7. HoldersConsumed'
    BY <1>2, <1>3, <1>4 DEF IInv, HoldersConsumed
  <1>8. LoginsFresh'
    BY <1>2, <1>3, <1>4 DEF IInv, LoginsFresh
  <1>9. Epochs'
    BY <1>2, <1>3, <1>4 DEF IInv, Epochs
  <1>10. \A q \in Request, g \in Family : Holds(q, g)' => Holds(q, g)
    BY <1>3, <1>4 DEF Holds
  <1>11. \A g \in Family : Live(g)' = Live(g)
    BY <1>2 DEF Live, InFamily
  <1>12. OneLivePerFamily'
    BY <1>10, <1>11 DEF IInv, OneLivePerFamily
  <1> QED
    BY <1>1, <1>5, <1>6, <1>7, <1>8, <1>9, <1>12 DEF IInv

\* The INSERT of a new pair spends the request's right: the new row is the only
\* live one of its family and the only successor of the consumed token.
LEMMA IssueStep ==
    ASSUME IInv, NEW r \in Request, IssueTokenPair(r) PROVE IInv'
  <1>1. TypeOK'
    BY NextTypes DEF IInv, Next
  <1>2. UNCHANGED <<tokenVersion, passwordHash, suspended>>
    BY DEF IssueTokenPair, userVars
  <1> DEFINE f == req[r].family
             p == req[r].token
             new == [status |-> "live", expired |-> FALSE, user |-> req[r].user,
                     family |-> f, prev |-> p,
                     version |-> req[r].version, openedWith |-> req[r].openedWith]
  <1>3. PICK t \in Token : row[t].status = "absent" /\ row' = [row EXCEPT ![t] = new]
    BY DEF IssueTokenPair, IssuedVersion
  <1>4. /\ row'[t].status = "live" /\ row'[t].user = req[r].user
        /\ row'[t].family = f /\ row'[t].prev = p
        /\ row'[t].version = req[r].version /\ row'[t].openedWith = req[r].openedWith
        /\ \A s \in Token : s # t => row'[s] = row[s]
    BY <1>3 DEF IInv, TypeOK
  <1>5. /\ \A q \in Request : q # r => req'[q] = req[q]
        /\ req'[r] = Idle
    BY DEF IssueTokenPair, IInv, TypeOK
  <1>6. /\ req[r].pc = "issue" /\ req[r].user \in User /\ f \in Family
        /\ f # None /\ t # None
        /\ row[t] = NoRow
    BY <1>3, NoneAssumption DEF IssueTokenPair, IInv, ReqsWellFormed, RowsWellFormed
  <1>7. \A s \in Token : row[s].prev # t
    BY <1>3, <1>6 DEF IInv, SuccessorsOfUsed
  <1>8. p # None => /\ p \in Token /\ p # t
                    /\ row[p].status \in {"used", "purged"}
                    /\ \A s \in Token : row[s].prev # p
    BY <1>3, <1>6, TokenTyped DEF IInv, HoldersConsumed
  <1> HIDE DEF f, p, new
  <1>9. RowsWellFormed'
    BY <1>4, <1>6 DEF IInv, RowsWellFormed
  <1>10. SuccessorsOfUsed'
    BY <1>4, <1>7, <1>8, PrevTyped DEF IInv, SuccessorsOfUsed
  <1>11. RotatedAtMostOnce'
    BY <1>4, <1>8 DEF IInv, RotatedAtMostOnce
  <1>12. ReqsWellFormed'
    <2> SUFFICES ASSUME NEW q \in Request PROVE ReqsWellFormed!(q)'
      BY DEF ReqsWellFormed
    <2>1. CASE q = r
      BY <2>1, <1>5 DEF Idle
    <2>2. CASE q # r
      <3>1. req[q].token # None => req[q].token # t /\ req[q].token \in Token
        BY <1>3, TokenTyped DEF IInv, ReqsWellFormed, CopyOf
      <3> QED BY <2>2, <3>1, <1>4, <1>5 DEF IInv, ReqsWellFormed, CopyOf
    <2> QED BY <2>1, <2>2
  <1>13. \A q \in Request : q # r => ~Holds(q, f)
    BY <1>6 DEF IInv, OneLivePerFamily, Holds, f
  <1>14. HoldersConsumed'
    <2> SUFFICES ASSUME NEW q \in Request PROVE HoldersConsumed!(q)'
      BY DEF HoldersConsumed
    <2>1. CASE q = r
      BY <2>1, <1>5 DEF Idle
    <2>2. CASE q # r
      <3> SUFFICES ASSUME req[q].pc \in {"validate", "issue"}, req[q].token # None
                   PROVE  /\ row'[req[q].token].status \in {"used", "purged"}
                          /\ \A s \in Token : row'[s].prev # req[q].token
        BY <2>2, <1>5
      <3>1. /\ req[q].token \in Token /\ req[q].token # t
            /\ row[req[q].token].status \in {"used", "purged"}
            /\ \A s \in Token : row[s].prev # req[q].token
            /\ row[req[q].token].family = req[q].family
        BY <1>3, TokenTyped DEF IInv, HoldersConsumed, ReqsWellFormed, CopyOf
      <3>2. req[q].token # p
        <4>1. req[q].family # f
          BY <2>2, <1>13 DEF Holds
        <4>2. p # None => row[p].family = f
          BY DEF IInv, ReqsWellFormed, CopyOf, p, f
        <4> QED BY <3>1, <4>1, <4>2
      <3> QED BY <3>1, <3>2, <1>4
    <2> QED BY <2>1, <2>2
  <1>15. LoginsFresh'
    <2> SUFFICES ASSUME NEW q \in Request, req'[q].pc = "issue", req'[q].token = None
                 PROVE  /\ \A s \in Token : row'[s].family # req'[q].family
                        /\ \A o \in Request : req'[o].family = req'[q].family => o = q
      BY DEF LoginsFresh
    <2>1. q # r /\ req'[q] = req[q] /\ req[q].family \in Family /\ None \notin Family
      BY <1>5, NoneAssumption DEF Idle, IInv, ReqsWellFormed
    <2>2. req[q].family # f
      BY <2>1, <1>13 DEF Holds
    <2> QED BY <2>1, <2>2, <1>4, <1>5 DEF IInv, LoginsFresh, Idle
  <1>16. Epochs'
    BY <1>2, <1>4, <1>5, <1>6 DEF IInv, Epochs, Idle
  <1>17. \A g \in Family : \A s : s \in Live(g)' <=> s \in Live(g) \/ (s = t /\ g = f)
    <2>1. \A g \in Family, s \in Token :
            row'[s].family = g /\ row'[s].status = "live" <=>
                (row[s].family = g /\ row[s].status = "live") \/ (s = t /\ g = f)
      BY <1>3, <1>4
    <2> QED BY <2>1 DEF Live, InFamily
  <1>18. Live(f) = {}
    BY <1>6 DEF IInv, OneLivePerFamily, Holds, f
  <1>19. \A q \in Request, g \in Family : Holds(q, g)' => Holds(q, g) /\ q # r
    BY <1>5 DEF Holds, Idle
  <1>20. OneLivePerFamily'
    <2> SUFFICES ASSUME NEW g \in Family PROVE OneLivePerFamily!(g)'
      BY DEF OneLivePerFamily
    <2>1. \A q, o \in Request : Holds(q, g)' /\ Holds(o, g)' => q = o
      BY <1>19 DEF IInv, OneLivePerFamily
    <2>2. CASE g = f
      BY <2>1, <2>2, <1>13, <1>17, <1>18, <1>19
    <2>3. CASE g # f
      BY <2>1, <2>3, <1>17, <1>19 DEF IInv, OneLivePerFamily
    <2> QED BY <2>2, <2>3
  <1> QED
    BY <1>1, <1>9, <1>10, <1>11, <1>12, <1>14, <1>15, <1>16, <1>20 DEF IInv

\* LogoutAll, ResetPassword and SetSuspended change the user row only; a bump
\* makes the version of every older token and request outdated.
LEMMA UserStep ==
    ASSUME IInv, NEW u \in User,
           \/ LogoutAll(u)
           \/ ResetPassword(u)
           \/ \E b \in BOOLEAN : SetSuspended(u, b)
    PROVE  IInv'
  <1>1. TypeOK'
    BY NextTypes DEF IInv, Next
  <1>2. UNCHANGED <<row, req>>
    BY DEF LogoutAll, ResetPassword, SetSuspended
  <1>3. /\ RowsWellFormed' /\ SuccessorsOfUsed' /\ RotatedAtMostOnce'
        /\ HoldersConsumed' /\ LoginsFresh'
    BY <1>2 DEF IInv, RowsWellFormed, SuccessorsOfUsed, RotatedAtMostOnce,
                HoldersConsumed, LoginsFresh
  <1>4. ReqsWellFormed'
    BY <1>2 DEF IInv, ReqsWellFormed, CopyOf
  <1>5. OneLivePerFamily'
    BY <1>2 DEF IInv, OneLivePerFamily, Live, InFamily, Holds
  <1>6. \A v \in User :
          \/ tokenVersion'[v] = tokenVersion[v] /\ passwordHash'[v] = passwordHash[v]
          \/ tokenVersion'[v] = tokenVersion[v] + 1
    BY DEF LogoutAll, ResetPassword, SetSuspended, BumpTokenVersion, Bump, IInv, TypeOK
  <1>7. /\ \A v \in User : tokenVersion[v] \in Nat
        /\ \A t \in Token : row[t].version \in Nat
        /\ \A r \in Request : req[r].version \in Nat
    BY DEF IInv, TypeOK, Row, Req
  <1>8. Epochs'
    BY <1>2, <1>6, <1>7 DEF IInv, Epochs, RowsWellFormed, ReqsWellFormed
  <1> QED
    BY <1>1, <1>3, <1>4, <1>5, <1>8 DEF IInv

\* Every step of every request, of the user row and of db:gc keeps IInv.
LEMMA NextIInv == IInv /\ [Next]_vars => IInv'
  <1> SUFFICES ASSUME IInv, [Next]_vars PROVE IInv'
    OBVIOUS
  <1>1. ASSUME NEW r \in Request, NEW u \in User, Login(r, u) PROVE IInv'
    <2>1. /\ req[r].pc = "idle" /\ passwordHash[u] \in Nat
          /\ OpenFamily(r, u, passwordHash[u])
      BY <1>1 DEF Login, IInv, TypeOK
    <2> QED BY <2>1, OpenFamilyStep
  <1>2. ASSUME NEW r \in Request, NEW u \in User, Exchange(r, u) PROVE IInv'
    <2>1. req[r].pc = "idle" /\ 0 \in Nat /\ OpenFamily(r, u, 0)
      BY <1>2 DEF Exchange
    <2> QED BY <2>1, OpenFamilyStep
  <1>3. CASE UNCHANGED vars
    <2>1. TypeOK' BY NextTypes DEF IInv
    <2> QED
      BY <1>3, <2>1 DEF vars, IInv, RowsWellFormed, SuccessorsOfUsed, ReqsWellFormed, CopyOf,
         HoldersConsumed, LoginsFresh, Epochs, OneLivePerFamily, Live, InFamily, Holds,
         RotatedAtMostOnce
  <1> QED
    BY <1>1, <1>2, <1>3, ReadStep, MarkUsedStep, ValidateStep, IssueStep, RevokeStep,
       AbortStep, UserStep, ExpirePurgeStep DEF Next

\* The inductive invariant holds in every reachable state.
THEOREM InvariantHolds == Spec => []IInv
  BY InitIInv, NextIInv, PTL DEF Spec

\* MarkUsed hands a family to one request only: never two live tokens, and none
\* while a rotation is between its CAS and its INSERT.
THEOREM OneLiveTheorem == Spec => []OneLivePerFamily
  <1>1. IInv => OneLivePerFamily
    BY DEF IInv
  <1> QED BY <1>1, InvariantHolds, PTL

\* A refresh token has at most one successor.
THEOREM RotatedOnceTheorem == Spec => []RotatedAtMostOnce
  <1>1. IInv => RotatedAtMostOnce
    BY DEF IInv
  <1> QED BY <1>1, InvariantHolds, PTL

\* No session opened with a replaced password passes the version check.
THEOREM OldPasswordTheorem == Spec => []OldPasswordSessionsDie
  <1>1. IInv => OldPasswordSessionsDie
    BY DEF IInv, Epochs, OldPasswordSessionsDie
  <1> QED BY <1>1, InvariantHolds, PTL


-----------------------------------------------------------------------------
(* Action properties: what a single step can do to a row and to a request. *)

\* A row keeps its owner, family and version, or is inserted in this step by a
\* request that was past its last check.
LEMMA RowChange ==
    ASSUME IInv, [Next]_vars, NEW t \in Token
    PROVE  \/ SameColumns(t)
           \/ \E r \in Request :
                 /\ req[r].pc = "issue" /\ row[t].status = "absent"
                 /\ row'[t].family = req[r].family
                 /\ row'[t].user = req[r].user
  <1>1. ASSUME NEW r \in Request, MarkUsed(r) PROVE SameColumns(t)
    BY <1>1 DEF MarkUsed, SameColumns, IInv, TypeOK, Row, Req
  <1>2. ASSUME NEW r \in Request, RevokeFamily(r) PROVE SameColumns(t)
    BY <1>2 DEF RevokeFamily, SameColumns, IInv, TypeOK, Row
  <1>3. ASSUME NEW s \in Token, Expire(s) \/ Purge(s) PROVE SameColumns(t)
    BY <1>3 DEF Expire, Purge, SameColumns, IInv, TypeOK, Row
  <1>4. ASSUME NEW r \in Request, IssueTokenPair(r)
        PROVE  \/ SameColumns(t)
               \/ /\ req[r].pc = "issue" /\ row[t].status = "absent"
                  /\ row'[t].family = req[r].family
                  /\ row'[t].user = req[r].user
    BY <1>4 DEF IssueTokenPair, SameColumns, IInv, TypeOK
  <1>5. row' = row => SameColumns(t)
    BY DEF SameColumns
  <1>6. \/ \E r \in Request : MarkUsed(r) \/ RevokeFamily(r) \/ IssueTokenPair(r)
        \/ \E s \in Token : Expire(s) \/ Purge(s)
        \/ row' = row
    BY DEF Next, vars, Login, Exchange, OpenFamily, RefreshRead, LogoutRead,
           ValidateUserForRefresh, Abort, LogoutAll, ResetPassword, SetSuspended
  <1> QED
    BY <1>1, <1>2, <1>3, <1>4, <1>5, <1>6

\* A request gets to its INSERT by opening an unused family for a user who is
\* not suspended, or by passing validateUserForRefresh.
LEMMA IssuerChange ==
    ASSUME IInv, [Next]_vars, NEW r \in Request, req'[r].pc = "issue"
    PROVE  \/ req'[r] = req[r]
           \/ /\ \A t \in Token : row[t].family # req'[r].family
              /\ ~suspended[req'[r].user]
           \/ /\ req[r].pc = "validate" /\ UserMayRefresh(r)
              /\ req'[r].family = req[r].family
              /\ req'[r].user = req[r].user
  <1> USE DEF IInv, TypeOK
  <1>1. ASSUME NEW q \in Request, NEW u \in User, Login(q, u) \/ Exchange(q, u)
        PROVE  \/ req'[r] = req[r]
               \/ /\ \A t \in Token : row[t].family # req'[r].family
                  /\ ~suspended[req'[r].user]
    <2>1. PICK f \in Family, n \in Nat :
            /\ ~suspended[u]
            /\ InFamily(f) = {}
            /\ req' = [req EXCEPT ![q] =
                 [pc |-> "issue", token |-> None, user |-> u, family |-> f,
                  version |-> tokenVersion[u], openedWith |-> n]]
      BY <1>1 DEF Login, Exchange, OpenFamily
    <2> QED BY <2>1 DEF InFamily
  <1>2. ASSUME NEW q \in Request, NEW t \in Token, RefreshRead(q, t) \/ LogoutRead(q, t)
        PROVE  req'[r] = req[r]
    BY <1>2 DEF RefreshRead, LogoutRead
  <1>3. ASSUME NEW q \in Request, MarkUsed(q) PROVE req'[r] = req[r]
    BY <1>3 DEF MarkUsed, Req
  <1>4. ASSUME NEW q \in Request, ValidateUserForRefresh(q)
        PROVE  \/ req'[r] = req[r]
               \/ /\ req[r].pc = "validate" /\ UserMayRefresh(r)
                  /\ req'[r].family = req[r].family
                  /\ req'[r].user = req[r].user
    BY <1>4 DEF ValidateUserForRefresh, Req
  <1>5. ASSUME NEW q \in Request, IssueTokenPair(q) \/ RevokeFamily(q) \/ Abort(q)
        PROVE  req'[r] = req[r]
    BY <1>5 DEF IssueTokenPair, RevokeFamily, Abort, Idle
  <1>6. \/ req' = req
        \/ \E q \in Request :
             \/ \E u \in User : Login(q, u) \/ Exchange(q, u)
             \/ \E t \in Token : RefreshRead(q, t) \/ LogoutRead(q, t)
             \/ MarkUsed(q) \/ ValidateUserForRefresh(q)
             \/ IssueTokenPair(q) \/ RevokeFamily(q) \/ Abort(q)
    BY DEF Next, vars, LogoutAll, ResetPassword, SetSuspended, Expire, Purge
  <1> QED
    BY <1>1, <1>2, <1>3, <1>4, <1>5, <1>6

\* users.token_version never decreases.
LEMMA VersionsGrow ==
    ASSUME IInv, [Next]_vars, NEW u \in User
    PROVE  tokenVersion'[u] \in Nat /\ tokenVersion'[u] >= tokenVersion[u]
  <1>1. ASSUME NEW v \in User, BumpTokenVersion(v)
        PROVE  tokenVersion'[u] \in Nat /\ tokenVersion'[u] >= tokenVersion[u]
    BY <1>1 DEF BumpTokenVersion, Bump, IInv, TypeOK
  <1>2. tokenVersion' = tokenVersion \/ \E v \in User : BumpTokenVersion(v)
    BY DEF Next, vars, userVars, Login, Exchange, OpenFamily, RefreshRead, LogoutRead,
           ValidateUserForRefresh, Abort, LogoutAll, ResetPassword, SetSuspended, MarkUsed,
           IssueTokenPair, RevokeFamily, Expire, Purge
  <1> QED BY <1>1, <1>2 DEF IInv, TypeOK

\* LogoutAll and ResetPassword are final for a family with no validated request:
\* the version of its tokens is behind for good, and every later refresh is
\* refused by validateUserForRefresh.
THEOREM LogoutAllTheorem == Spec => LogoutAllIsFinal
  <1>1. ASSUME IInv, [Next]_vars, NEW f \in Family, CutOff(f)
        PROVE  CutOff(f)' /\ InFamily(f)' = InFamily(f)
    <2>1. /\ \A t \in Token : row[t].family = f => row[t].version # tokenVersion[row[t].user]
          /\ \A r \in Request : ~(req[r].pc = "issue" /\ req[r].family = f)
          /\ \E t \in Token : row[t].family = f
      BY <1>1 DEF CutOff, InFamily
    <2>2. ASSUME NEW t \in Token, row[t].family = f
          PROVE  /\ row[t].status # "absent" /\ row[t].user \in User
                 /\ row[t].version =< tokenVersion[row[t].user]
                 /\ row[t].version \in Nat /\ tokenVersion[row[t].user] \in Nat
      BY <1>1, <2>2, NoneAssumption DEF IInv, RowsWellFormed, NoRow, Epochs, TypeOK, Row
    <2>3. ASSUME NEW t \in Token, row'[t].family = f \/ row[t].family = f
          PROVE  SameColumns(t)
      BY <1>1, <2>1, <2>2, <2>3, RowChange
    <2>4. \A t \in Token : row'[t].family = f <=> row[t].family = f
      BY <2>3 DEF SameColumns
    <2>5. \A t \in Token : row'[t].family = f => row'[t].version # tokenVersion'[row'[t].user]
      <3> SUFFICES ASSUME NEW t \in Token, row'[t].family = f
                   PROVE  row'[t].version # tokenVersion'[row'[t].user]
        OBVIOUS
      <3>1. row[t].family = f /\ row'[t].user = row[t].user /\ row'[t].version = row[t].version
        BY <2>3, <2>4 DEF SameColumns
      <3>2. row[t].version # tokenVersion[row[t].user]
        BY <2>1, <3>1
      <3>3. /\ tokenVersion'[row[t].user] \in Nat
            /\ tokenVersion'[row[t].user] >= tokenVersion[row[t].user]
        BY <1>1, <2>2, <3>1, VersionsGrow
      <3> QED BY <2>2, <3>1, <3>2, <3>3
    <2>6. ASSUME NEW r \in Request, req'[r].pc = "issue", req'[r].family = f PROVE FALSE
      <3>1. req'[r] # req[r]
        BY <2>1, <2>6
      <3>2. ~ \A t \in Token : row[t].family # req'[r].family
        BY <2>1, <2>6
      <3>3. req[r].pc = "validate" /\ req[r].family = f /\ UserMayRefresh(r)
        BY <1>1, <2>6, <3>1, <3>2, IssuerChange
      <3>4. req[r].token # None /\ req[r].token \in Token /\ CopyOf(r, req[r].token)
        BY <1>1, <3>3, TokenTyped DEF IInv, ReqsWellFormed
      <3> QED
        BY <2>1, <3>3, <3>4 DEF CopyOf, UserMayRefresh
    <2>7. InFamily(f)' = InFamily(f)
      BY <2>4 DEF InFamily
    <2>8. CutOff(f)'
      BY <2>1, <2>4, <2>5, <2>6 DEF CutOff, InFamily
    <2> QED BY <2>7, <2>8
  <1>2. IInv /\ [Next]_vars =>
          [\A f \in Family : CutOff(f) => CutOff(f)' /\ InFamily(f)' = InFamily(f)]_vars
    BY <1>1
  <1> QED BY <1>2, InvariantHolds, PTL DEF Spec, LogoutAllIsFinal

\* While a user stays suspended, and once the requests already past their check
\* are done, nothing is issued to that user.
THEOREM SuspensionTheorem == Spec => SuspensionBars
  <1>1. ASSUME IInv, [Next]_vars, NEW u \in User, Barred(u), suspended'[u]
        PROVE  Barred(u)' /\ \A t \in Token : row'[t].user = u => row[t].user = u
    <2>1. /\ suspended[u]
          /\ \A r \in Request : ~(req[r].pc = "issue" /\ req[r].user = u)
      BY <1>1 DEF Barred
    <2>2. ASSUME NEW t \in Token, row'[t].user = u PROVE row[t].user = u
      BY <1>1, <2>1, <2>2, RowChange DEF SameColumns
    <2>3. ASSUME NEW r \in Request, req'[r].pc = "issue", req'[r].user = u PROVE FALSE
      BY <1>1, <2>1, <2>3, IssuerChange DEF UserMayRefresh
    <2> QED BY <1>1, <2>2, <2>3 DEF Barred
  <1>2. IInv /\ [Next]_vars =>
          [\A u \in User : Barred(u) /\ suspended'[u] =>
             /\ Barred(u)'
             /\ \A t \in Token : row'[t].user = u => row[t].user = u]_vars
    BY <1>1
  <1> QED BY <1>2, InvariantHolds, PTL DEF Spec, SuspensionBars

-----------------------------------------------------------------------------
(* Sessions implements SessionLine: every step of a request is a step of   *)
(* one line of tokens or leaves all lines as they are.                     *)

\* The two variables of SessionLine as Sessions shows them.
Lines == [f \in Family |-> LineOf(f)]
Spent == {t \in Token : row[t].status \in {"used", "revoked", "purged"}}

\* Every family but f looks the same after the step.
OthersSame(f) == \A g \in Family : g # f => LineOf(g)' = LineOf(g)

-----------------------------------------------------------------------------
(* The steps of SessionLine, in terms of LineOf.                           *)

\* A step that changes the look of one family changes that one line.
LEMMA LinesChange ==
    ASSUME NEW f \in Family, OthersSame(f)
    PROVE  Lines' = [Lines EXCEPT ![f] = LineOf(f)']
  BY DEF Lines, OthersSame

\* No line changes: a stutter.
LEMMA StutterStep ==
    ASSUME \A f \in Family : LineOf(f)' = LineOf(f), Spent' = Spent
    PROVE  UNCHANGED Line!vars
  <1>1. Lines' = Lines
    BY DEF Lines
  <1> QED
    BY <1>1 DEF Line!vars, Lines, Spent

\* A family without a valid token, new or consumed, gets one that never was valid.
LEMMA GrantStep ==
    ASSUME NEW f \in Family, NEW t \in Token, OthersSame(f),
           LineOf(f).phase \in {"none", "busy"},
           LineOf(f)' = [phase |-> "live", valid |-> {t}],
           t \notin Spent, \A g \in Family : t \notin LineOf(g).valid,
           Spent' = Spent
    PROVE  Line!Next
  <1>1. Lines' = [Lines EXCEPT ![f] = [phase |-> "live", valid |-> {t}]]
    BY LinesChange
  <1>2. Lines[f].phase \in {"none", "busy"}
    BY DEF Lines
  <1>3. t \in Token \ (Spent \cup UNION {Lines[g].valid : g \in Family})
    BY DEF Lines
  <1>4. Line!Grant(f)
    BY <1>1, <1>2, <1>3 DEF Line!Grant, Line!Holding, Line!Unused, Lines, Spent
  <1> QED
    BY <1>4 DEF Line!Next

\* The valid token of a family is consumed, and the family is busy or has ended.
LEMMA LeaveStep ==
    ASSUME NEW f \in Family, NEW t \in Token, NEW p \in {"busy", "ended"}, OthersSame(f),
           LineOf(f).phase = "live", LineOf(f).valid = {t},
           LineOf(f)' = [phase |-> p, valid |-> {}],
           Spent' = Spent \cup {t}
    PROVE  Line!Next
  <1>1. Lines' = [Lines EXCEPT ![f] = [phase |-> p, valid |-> {}]]
    BY LinesChange
  <1>2. Lines[f].phase = "live" /\ Spent' = Spent \cup Lines[f].valid
    BY DEF Lines
  <1>3. Line!Leave(f)
    BY <1>1, <1>2 DEF Line!Leave, Line!Empty, Lines, Spent
  <1> QED
    BY <1>3 DEF Line!Next

\* A family whose token was consumed ends without a successor.
LEMMA GiveUpStep ==
    ASSUME NEW f \in Family, OthersSame(f),
           LineOf(f).phase = "busy", LineOf(f)' = [phase |-> "ended", valid |-> {}],
           Spent' = Spent
    PROVE  Line!Next
  <1>1. Lines' = [Lines EXCEPT ![f] = [phase |-> "ended", valid |-> {}]]
    BY LinesChange
  <1>2. Lines[f].phase = "busy"
    BY DEF Lines
  <1>3. Line!GiveUp(f)
    BY <1>1, <1>2 DEF Line!GiveUp, Line!Empty, Lines, Spent
  <1> QED
    BY <1>3 DEF Line!Next

-----------------------------------------------------------------------------
(* How families look.                                                      *)

\* Some request owns the right to insert the next token of f.
Held(f) == \E r \in Request : Holds(r, f)

\* A family looks the same if its rows do and, where that shows, its holder stays.
LEMMA SameLook ==
    ASSUME NEW g \in Family, InFamily(g)' = InFamily(g), Live(g)' = Live(g),
           InFamily(g) # {} /\ Live(g) = {} => (Held(g)' <=> Held(g))
    PROVE  LineOf(g)' = LineOf(g)
  <1>1. CASE InFamily(g) # {} /\ Live(g) = {}
    BY <1>1 DEF LineOf, Held
  <1>2. CASE ~(InFamily(g) # {} /\ Live(g) = {})
    <2>1. CASE Live(g) # {}
      BY <2>1 DEF LineOf
    <2>2. CASE Live(g) = {} /\ InFamily(g) = {}
      BY <2>2 DEF LineOf
    <2> QED BY <1>2, <2>1, <2>2
  <1> QED BY <1>1, <1>2

\* A step is a stutter if it makes no token valid or invalid and moves no claim that
\* shows.
LEMMA RowsSame ==
    ASSUME \A s \in Token :
              /\ row'[s].family = row[s].family
              /\ \/ row'[s].status = row[s].status
                 \/ {row[s].status, row'[s].status} \subseteq {"used", "revoked", "purged"},
           \A g \in Family : InFamily(g) # {} => (Held(g)' <=> Held(g))
    PROVE  UNCHANGED Line!vars
  <1>1. \A g \in Family : InFamily(g)' = InFamily(g) /\ Live(g)' = Live(g)
    BY DEF InFamily, Live
  <1>2. Spent' = Spent
    BY DEF Spent
  <1> QED
    BY <1>1, <1>2, SameLook, StutterStep

\* A live token is the valid token of its line, and nobody holds the family.
LEMMA LiveLook ==
    ASSUME IInv, NEW t \in Token, row[t].status = "live"
    PROVE  /\ row[t].family \in Family
           /\ Live(row[t].family) = {t}
           /\ ~Held(row[t].family)
           /\ LineOf(row[t].family).phase = "live" /\ LineOf(row[t].family).valid = {t}
  <1> DEFINE f == row[t].family
  <1>1. f \in Family
    BY DEF IInv, RowsWellFormed
  <1>2. t \in Live(f)
    BY DEF Live, InFamily
  <1> HIDE DEF f
  <1>3. Live(f) = {t} /\ ~Held(f)
    BY <1>1, <1>2 DEF IInv, OneLivePerFamily, Held
  <1>4. LineOf(f).phase = "live" /\ LineOf(f).valid = {t}
    BY <1>2, <1>3 DEF LineOf
  <1> QED
    BY <1>1, <1>3, <1>4 DEF f

\* A live token is consumed: the CAS, RevokeFamily or db:gc.  Its line is busy or over,
\* according to whether somebody holds the family now.
LEMMA Consume ==
    ASSUME IInv, NEW t \in Token, row[t].status = "live",
           \A s \in Token : row'[s].family = row[s].family,
           \A s \in Token : s # t => row'[s].status = row[s].status,
           row'[t].status \in {"used", "revoked", "purged"},
           \A g \in Family : g # row[t].family => (Held(g)' <=> Held(g))
    PROVE  Line!Next
  <1>1. PICK f \in Family :
            /\ f = row[t].family /\ Live(f) = {t}
            /\ LineOf(f).phase = "live" /\ LineOf(f).valid = {t}
    BY LiveLook
  <1>2. \A g \in Family : InFamily(g)' = InFamily(g)
    BY DEF InFamily
  <1>3. \A g \in Family : g # f => Live(g)' = Live(g)
    BY <1>1 DEF InFamily, Live
  <1>4. Live(f)' = {} /\ t \in InFamily(f)'
    BY <1>1 DEF Live, InFamily
  <1>5. OthersSame(f)
    BY <1>1, <1>2, <1>3, SameLook DEF OthersSame
  <1>6. \E p \in {"busy", "ended"} : LineOf(f)' = [phase |-> p, valid |-> {}]
    BY <1>4 DEF LineOf
  <1>7. Spent' = Spent \cup {t}
    BY DEF Spent
  <1> QED
    BY <1>1, <1>5, <1>6, <1>7, LeaveStep

\* A request that holds a family gives it up.  If the family has tokens its line is
\* over; a login that never inserted one leaves no trace.
LEMMA Release ==
    ASSUME IInv, row' = row, NEW r \in Request, ~(req'[r].pc \in {"validate", "issue"}),
           \A q \in Request : q # r => req'[q] = req[q]
    PROVE  Line!Next \/ UNCHANGED Line!vars
  <1>1. \A g \in Family : InFamily(g)' = InFamily(g) /\ Live(g)' = Live(g)
    BY DEF InFamily, Live
  <1>2. \A g \in Family : ~Holds(r, g)' /\ \A q \in Request : q # r => (Holds(q, g)' <=> Holds(q, g))
    BY DEF Holds
  <1>3. CASE \A f \in Family : ~(Holds(r, f) /\ InFamily(f) # {})
    <2>1. \A g \in Family : InFamily(g) # {} => (Held(g)' <=> Held(g))
      BY <1>2, <1>3 DEF Held, Holds
    <2> QED
      BY <2>1, RowsSame
  <1>4. ASSUME NEW f \in Family, Holds(r, f), InFamily(f) # {} PROVE Line!Next
    <2>1. Live(f) = {} /\ \A q \in Request : Holds(q, f) => q = r
      BY <1>4 DEF IInv, OneLivePerFamily
    <2>2. Held(f) /\ ~Held(f)'
      BY <1>2, <1>4, <2>1 DEF Held
    <2>3. \A g \in Family : g # f => (Held(g)' <=> Held(g))
      BY <1>2, <1>4 DEF Held, Holds
    <2>4. OthersSame(f)
      BY <1>1, <2>3, SameLook DEF OthersSame
    <2>5. LineOf(f).phase = "busy"
      BY <1>4, <2>1, <2>2 DEF LineOf, Held
    <2>6. LineOf(f)' = [phase |-> "ended", valid |-> {}]
      BY <1>1, <1>4, <2>1, <2>2 DEF LineOf, Held
    <2>7. Spent' = Spent
      BY DEF Spent
    <2> QED
      BY <2>4, <2>5, <2>6, <2>7, GiveUpStep
  <1> QED BY <1>3, <1>4

-----------------------------------------------------------------------------
(* The actions of Sessions.                                                *)

\* A login claims a family that has no token yet: it shows only once there is one.
LEMMA OpenFamilyLine ==
    ASSUME IInv, NEW r \in Request, NEW u \in User, NEW opened,
           req[r].pc = "idle", OpenFamily(r, u, opened)
    PROVE  UNCHANGED Line!vars
  <1>1. PICK f \in Family :
            /\ InFamily(f) = {}
            /\ req' = [req EXCEPT ![r] =
                  [pc |-> "issue", token |-> None, user |-> u, family |-> f,
                   version |-> tokenVersion[u], openedWith |-> opened]]
    BY DEF OpenFamily
  <1>2. row' = row
    BY DEF OpenFamily
  <1>3. /\ req'[r].family = f /\ \A q \in Request : q # r => req'[q] = req[q]
    BY <1>1 DEF IInv, TypeOK
  <1>4. \A g \in Family : InFamily(g) # {} => (Held(g)' <=> Held(g))
    BY <1>1, <1>3 DEF Held, Holds
  <1> QED
    BY <1>2, <1>4, RowsSame

\* The CAS: the winner consumes the valid token and holds its family, the loser
\* changes nothing that shows.
LEMMA MarkUsedLine ==
    ASSUME IInv, NEW r \in Request, MarkUsed(r)
    PROVE  Line!Next \/ UNCHANGED Line!vars
  <1>1. PICK t \in Token : t = req[r].token /\ CopyOf(r, t) /\ req[r].pc = "cas"
    BY TokenTyped DEF MarkUsed, IInv, ReqsWellFormed
  <1>2. CASE CasMatches(t)
    <2>1. /\ row[t].status = "live"
          /\ row' = [row EXCEPT ![t].status = "used"] /\ req' = [req EXCEPT ![r].pc = "validate"]
      BY <1>1, <1>2 DEF MarkUsed, CasMatches
    <2>2. /\ \A s \in Token : row'[s].family = row[s].family
          /\ \A s \in Token : s # t => row'[s].status = row[s].status
          /\ row'[t].status = "used"
      BY <2>1 DEF IInv, TypeOK, Row
    <2>3. /\ \A q \in Request : q # r => req'[q] = req[q]
          /\ req'[r].family = row[t].family
      BY <1>1, <2>1 DEF IInv, TypeOK, Req, CopyOf
    <2>4. \A g \in Family : g # row[t].family => (Held(g)' <=> Held(g))
      BY <1>1, <2>3 DEF Held, Holds
    <2> QED
      BY <2>1, <2>2, <2>4, Consume
  <1>3. CASE ~CasMatches(t)
    <2>1. row' = row /\ req' = [req EXCEPT ![r].pc = "revoke"]
      BY <1>1, <1>3 DEF MarkUsed
    <2>2. req'[r].pc = "revoke" /\ \A q \in Request : q # r => req'[q] = req[q]
      BY <2>1 DEF IInv, TypeOK, Req
    <2> QED
      BY <2>1, <2>2, Release
  <1> QED BY <1>2, <1>3

\* A user that may not refresh makes the request give its family up.
LEMMA ValidateLine ==
    ASSUME IInv, NEW r \in Request, ValidateUserForRefresh(r)
    PROVE  Line!Next \/ UNCHANGED Line!vars
  <1>1. row' = row /\ req[r].pc = "validate"
    BY DEF ValidateUserForRefresh
  <1>2. CASE UserMayRefresh(r)
    <2>1. req' = [req EXCEPT ![r].pc = "issue"]
      BY <1>2 DEF ValidateUserForRefresh
    <2>2. /\ req'[r].pc = "issue" /\ req'[r].family = req[r].family
          /\ \A q \in Request : q # r => req'[q] = req[q]
      BY <2>1 DEF IInv, TypeOK, Req
    <2>3. \A g \in Family : Held(g)' <=> Held(g)
      BY <1>1, <2>2 DEF Held, Holds
    <2> QED
      BY <1>1, <2>3, RowsSame
  <1>3. CASE ~UserMayRefresh(r)
    <2>1. req' = [req EXCEPT ![r].pc = "revoke"]
      BY <1>3 DEF ValidateUserForRefresh
    <2>2. req'[r].pc = "revoke" /\ \A q \in Request : q # r => req'[q] = req[q]
      BY <2>1 DEF IInv, TypeOK, Req
    <2> QED
      BY <1>1, <2>2, Release
  <1> QED BY <1>2, <1>3

\* The INSERT of a login or a rotation hands out a token that was never valid.
LEMMA IssueLine ==
    ASSUME IInv, NEW r \in Request, IssueTokenPair(r)
    PROVE  Line!Next
  <1>1. PICK f \in Family : f = req[r].family /\ Holds(r, f)
    BY DEF IssueTokenPair, IInv, ReqsWellFormed, Holds
  <1>2. PICK t \in Token :
            /\ row[t].status = "absent"
            /\ row' = [row EXCEPT ![t] =
                  [status |-> "live", expired |-> FALSE, user |-> req[r].user,
                   family |-> req[r].family, prev |-> req[r].token,
                   version |-> IssuedVersion(r), openedWith |-> req[r].openedWith]]
    BY DEF IssueTokenPair
  <1>3. req' = [req EXCEPT ![r] = Idle]
    BY DEF IssueTokenPair
  <1>4. /\ row'[t].status = "live" /\ row'[t].family = f
        /\ \A s \in Token : s # t => row'[s] = row[s]
    BY <1>1, <1>2 DEF IInv, TypeOK
  <1>5. row[t].family = None /\ None \notin Family
    BY <1>2, NoneAssumption DEF IInv, RowsWellFormed, NoRow
  <1>6. /\ \A q \in Request : q # r => req'[q] = req[q]
        /\ req'[r].pc = "idle"
    BY <1>3 DEF IInv, TypeOK, Idle
  <1>7. Live(f) = {} /\ Held(f)
    BY <1>1 DEF IInv, OneLivePerFamily, Held
  <1>8. LineOf(f).phase \in {"none", "busy"}
    BY <1>7 DEF LineOf, Held
  <1>9. Live(f)' = {t}
    BY <1>4, <1>7 DEF Live, InFamily
  <1>10. LineOf(f)' = [phase |-> "live", valid |-> {t}]
    BY <1>9 DEF LineOf
  <1>11. OthersSame(f)
    <2> SUFFICES ASSUME NEW g \in Family, g # f PROVE LineOf(g)' = LineOf(g)
      BY DEF OthersSame
    <2>1. InFamily(g)' = InFamily(g) /\ Live(g)' = Live(g)
      BY <1>4, <1>5 DEF InFamily, Live
    <2>2. Held(g)' <=> Held(g)
      BY <1>1, <1>6 DEF Held, Holds
    <2> QED
      BY <2>1, <2>2, SameLook
  <1>12. t \notin Spent /\ Spent' = Spent
    BY <1>2, <1>4 DEF Spent
  <1>13. \A g \in Family : t \notin LineOf(g).valid
    BY <1>2 DEF LineOf, Live
  <1> QED
    BY <1>8, <1>10, <1>11, <1>12, <1>13, GrantStep

\* RevokeFamily ends a line that has a valid token and no other.
LEMMA RevokeLine ==
    ASSUME IInv, NEW r \in Request, RevokeFamily(r)
    PROVE  Line!Next \/ UNCHANGED Line!vars
  <1>1. PICK f \in Family : f = req[r].family
    BY DEF RevokeFamily, IInv, ReqsWellFormed
  <1>2. /\ req[r].pc = "revoke" /\ req' = [req EXCEPT ![r] = Idle]
        /\ row' = [t \in Token |-> IF t \in Live(f)
                                   THEN [row[t] EXCEPT !.status = "revoked"] ELSE row[t]]
    BY <1>1 DEF RevokeFamily
  <1>3. /\ \A q \in Request : q # r => req'[q] = req[q]
        /\ req'[r].pc = "idle"
    BY <1>2 DEF IInv, TypeOK, Idle
  <1>4. CASE Live(f) = {}
    <2>1. row' = row
      BY <1>2, <1>4 DEF IInv, TypeOK
    <2> QED
      BY <1>3, <2>1, Release
  <1>5. ASSUME NEW t \in Live(f) PROVE Line!Next
    <2>1. t \in Token /\ row[t].status = "live" /\ row[t].family = f
      BY DEF Live, InFamily
    <2>2. Live(f) = {t}
      BY <2>1, LiveLook
    <2>3. /\ \A s \in Token : row'[s].family = row[s].family
          /\ \A s \in Token : s # t => row'[s].status = row[s].status
          /\ row'[t].status = "revoked"
      BY <1>2, <2>1, <2>2 DEF IInv, TypeOK, Row
    <2>4. \A g \in Family : Held(g)' <=> Held(g)
      BY <1>2, <1>3 DEF Held, Holds
    <2> QED
      BY <2>1, <2>3, <2>4, Consume
  <1> QED BY <1>4, <1>5

\* db:gc takes a valid token only when its line is over with it.
LEMMA PurgeLine ==
    ASSUME IInv, NEW t \in Token, Purge(t)
    PROVE  Line!Next \/ UNCHANGED Line!vars
  <1>1. /\ row' = [row EXCEPT ![t].status = "purged"] /\ req' = req
        /\ row[t].status \in {"live", "used", "revoked"}
    BY DEF Purge, Stored
  <1>2. /\ \A s \in Token : row'[s].family = row[s].family
        /\ \A s \in Token : s # t => row'[s].status = row[s].status
        /\ row'[t].status = "purged"
    BY <1>1 DEF IInv, TypeOK, Row
  <1>3. \A g \in Family : Held(g)' <=> Held(g)
    BY <1>1 DEF Held, Holds
  <1>4. CASE row[t].status = "live"
    BY <1>2, <1>3, <1>4, Consume
  <1>5. CASE row[t].status # "live"
    <2>1. {row[t].status, row'[t].status} \subseteq {"used", "revoked", "purged"}
      BY <1>1, <1>2, <1>5
    <2> QED
      BY <1>2, <1>3, <2>1, RowsSame
  <1> QED BY <1>4, <1>5

\* Every step of Sessions is a step or a stutter of SessionLine.
LEMMA LineStep == IInv /\ [Next]_vars => [Line!Next]_(Line!vars)
  <1> SUFFICES ASSUME IInv, [Next]_vars PROVE Line!Next \/ UNCHANGED Line!vars
    OBVIOUS
  <1>1. ASSUME NEW r \in Request, NEW u \in User, Login(r, u) \/ Exchange(r, u)
        PROVE  UNCHANGED Line!vars
    BY <1>1, OpenFamilyLine DEF Login, Exchange
  <1>2. ASSUME NEW r \in Request, NEW t \in Token, RefreshRead(r, t) \/ LogoutRead(r, t)
        PROVE  Line!Next \/ UNCHANGED Line!vars
    <2>1. /\ row' = row /\ req'[r].pc \in {"cas", "revoke"}
          /\ \A q \in Request : q # r => req'[q] = req[q]
      BY <1>2 DEF RefreshRead, LogoutRead, IInv, TypeOK
    <2> QED
      BY <2>1, Release
  <1>3. ASSUME NEW r \in Request, Abort(r) PROVE Line!Next \/ UNCHANGED Line!vars
    <2>1. /\ row' = row /\ req'[r].pc = "idle"
          /\ \A q \in Request : q # r => req'[q] = req[q]
      BY <1>3 DEF Abort, IInv, TypeOK, Idle
    <2> QED
      BY <2>1, Release
  <1>4. ASSUME NEW u \in User, LogoutAll(u) \/ ResetPassword(u) \/ \E b \in BOOLEAN : SetSuspended(u, b)
        PROVE  UNCHANGED Line!vars
    <2>1. row' = row /\ req' = req
      BY <1>4 DEF LogoutAll, ResetPassword, SetSuspended
    <2> QED
      BY <2>1, RowsSame DEF Held, Holds
  <1>5. ASSUME NEW t \in Token, Expire(t) PROVE UNCHANGED Line!vars
    <2>1. /\ \A s \in Token : row'[s].family = row[s].family /\ row'[s].status = row[s].status
          /\ req' = req
      BY <1>5 DEF Expire, IInv, TypeOK, Row
    <2> QED
      BY <2>1, RowsSame DEF Held, Holds
  <1>6. CASE UNCHANGED vars
    BY <1>6, RowsSame DEF vars, Held, Holds
  <1> QED
    BY <1>1, <1>2, <1>3, <1>4, <1>5, <1>6, MarkUsedLine, ValidateLine, IssueLine, RevokeLine,
       PurgeLine DEF Next

\* At first every family is unused.
LEMMA LineInit == Init => Line!Init
  <1> SUFFICES ASSUME Init PROVE Line!Init
    OBVIOUS
  <1>1. \A f \in Family : InFamily(f) = {} /\ Live(f) = {}
    BY NoneAssumption DEF Init, NoRow, InFamily, Live
  <1>2. \A f \in Family : LineOf(f) = [phase |-> "none", valid |-> {}]
    BY <1>1 DEF LineOf
  <1>3. Spent = {}
    BY DEF Init, NoRow, Spent
  <1> QED
    BY <1>2, <1>3 DEF Line!Init, Line!Empty, Spent

\* Rotation as the code does it, statement by statement, with failures, housekeeping
\* and any interleaving of requests, implements lines of tokens: one valid token at a
\* time, none valid twice, and no token for a line that has ended.
THEOREM ImplementsLineTheorem == Spec => ImplementsLine
  BY LineInit, LineStep, InvariantHolds, PTL DEF Spec, ImplementsLine, Line!Spec
=============================================================================
