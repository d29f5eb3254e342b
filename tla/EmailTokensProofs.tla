------------------------- MODULE EmailTokensProofs -------------------------
(* Proofs of the safety properties of EmailTokens, for every set of        *)
(* accounts and requests, and every finite set of reset links.             *)
EXTENDS EmailTokens, FiniteSetTheorems, TLAPS

\* Init establishes the types: no account, no link, no request.
LEMMA InitTypes == Init => TypeOK
  BY MaxTierAssumption
  DEF Init, TypeOK, NoAccount, Account, NoLink, Link, Idle, Req

\* The table that a request works on is one of the two token tables.
LEMMA RowsAreTokens == \A table : Rows(table) \subseteq Token
  BY DEF Rows, Token

\* A freshly inserted link is a link.
LEMMA NewLinkTyped == \A u \in User : NewLink(u) \in Link
  BY DEF NewLink, Link

\* Redeeming a link leaves a link.
LEMMA RedeemedLinkTyped == \A l \in Link : RedeemedLink(l) \in Link
  <1> TAKE l \in Link
  <1>1. [l EXCEPT !.status = "consumed"] \in Link
    BY DEF Link
  <1>2. \A m \in Link : [m EXCEPT !.redeemed = TRUE] \in Link
    BY DEF Link
  <1> QED BY <1>1, <1>2 DEF RedeemedLink

\* Both commits leave an account: the tier stays within its bound.
LEMMA CommittedAccountTyped ==
    \A a \in Account : SetEmailVerified(a) \in Account /\ SetPasswordHash(a) \in Account
  <1> TAKE a \in Account
  <1>1. Promote(a.tier) \in 0..MaxTier
    BY MaxTierAssumption DEF Promote, Account
  <1>2. [a EXCEPT !.verified = TRUE] \in Account
    BY DEF Account
  <1>3. \A c \in Account, tier \in 0..MaxTier : [c EXCEPT !.tier = tier] \in Account
    BY DEF Account
  <1>4. SetEmailVerified(a) \in Account
    BY <1>1, <1>2, <1>3 DEF SetEmailVerified, Account
  <1>5. \A c \in Account, n \in Nat : /\ [c EXCEPT !.hash = n] \in Account
                                      /\ [c EXCEPT !.version = n] \in Account
                                      /\ [c EXCEPT !.logouts = n] \in Account
    BY DEF Account
  <1>6. a.hash + 1 \in Nat /\ a.version + 1 \in Nat
    BY DEF Account
  <1>7. SetPasswordHash(a) \in Account
    BY <1>5, <1>6 DEF SetPasswordHash, Account
  <1> QED BY <1>4, <1>7

\* A freshly inserted account is an account.
LEMMA NewAccountTyped == \A b \in BOOLEAN, n \in Nat : NewAccount(b, n) \in Account
  BY MaxTierAssumption DEF NewAccount, Account

\* LogoutAll writes two fields of one row.
LEMMA LogoutWrites ==
    ASSUME account \in [User -> Account], NEW u \in User, LogoutAll(u)
    PROVE  account' = [account EXCEPT ![u] = [account[u] EXCEPT !.version = account[u].version + 1,
                                                                !.logouts = account[u].logouts + 1]]
  <1>1. account' = [[account EXCEPT ![u].version = @ + 1] EXCEPT ![u].logouts = @ + 1]
    BY DEF LogoutAll
  <1>2. account[u] \in Account /\ account \in [User -> Account]
    OBVIOUS
  <1> QED BY <1>1, <1>2 DEF Account

\* Every step keeps the types of the three variables.
LEMMA NextTypes == TypeOK /\ [Next]_vars => TypeOK'
  <1> SUFFICES ASSUME TypeOK, [Next]_vars PROVE TypeOK'
    OBVIOUS
  <1> USE MaxTierAssumption
  <1>1. ASSUME NEW u \in User, Register(u) PROVE TypeOK'
    <2>1. PICK t \in VerificationToken : link' = [link EXCEPT ![t] = NewLink(u)]
      BY <1>1 DEF Register
    <2>2. link' \in [Token -> Link]
      BY <2>1, NewLinkTyped DEF TypeOK
    <2>3. account' \in [User -> Account]
      BY <1>1, NewAccountTyped DEF Register, TypeOK
    <2> QED BY <1>1, <2>2, <2>3 DEF Register, TypeOK
  <1>2. ASSUME NEW u \in User, NEW b \in BOOLEAN, CreateOAuthUser(u, b) PROVE TypeOK'
    BY <1>2, NewAccountTyped DEF CreateOAuthUser, TypeOK
  <1>3. ASSUME NEW u \in User, NEW b \in BOOLEAN, SetSuspended(u, b) PROVE TypeOK'
    BY <1>3 DEF SetSuspended, TypeOK, Account
  <1>4. ASSUME NEW u \in User, NEW tier \in 1..MaxTier, UpdateKYCTier(u, tier) PROVE TypeOK'
    BY <1>4 DEF UpdateKYCTier, TypeOK, Account
  <1>5. ASSUME NEW r \in Request, NEW u \in User, OAuthRegister(r, u) PROVE TypeOK'
    BY <1>5, NewAccountTyped DEF OAuthRegister, TypeOK, Req
  <1>14. ASSUME NEW u \in User, LogoutAll(u) PROVE TypeOK'
    <2>1. account[u] \in Account /\ account[u].version + 1 \in Nat /\ account[u].logouts + 1 \in Nat
      BY DEF TypeOK, Account
    <2>2. \A c \in Account, m, n \in Nat :
              [c EXCEPT !.version = m, !.logouts = n] \in Account
      BY DEF Account
    <2>3. [account[u] EXCEPT !.version = account[u].version + 1,
                             !.logouts = account[u].logouts + 1] \in Account
      BY <2>1, <2>2
    <2>4. account' = [account EXCEPT ![u] = [account[u] EXCEPT !.version = account[u].version + 1,
                                                               !.logouts = account[u].logouts + 1]]
      BY <1>14, LogoutWrites DEF TypeOK
    <2> QED BY <1>14, <2>3, <2>4 DEF LogoutAll, TypeOK
  <1>6. ASSUME NEW r \in Request, NEW u \in User, ResendRead(r, u) \/ ForgotRead(r, u)
        PROVE TypeOK'
    BY <1>6 DEF ResendRead, ForgotRead, TypeOK, Req
  <1>7. ASSUME NEW r \in Request, InvalidateForUser(r) PROVE TypeOK'
    <2>1. \A l \in Link : [l EXCEPT !.status = "consumed"] \in Link
      BY DEF Link
    <2>2. link' \in [Token -> Link]
      BY <1>7, <2>1 DEF InvalidateForUser, TypeOK
    <2> QED BY <1>7, <2>2 DEF InvalidateForUser, TypeOK, Req
  <1>8. ASSUME NEW r \in Request, Create(r) PROVE TypeOK'
    <2>1. req[r].user \in User \cup {None}
      BY DEF TypeOK, Req
    <2>2. NewLink(req[r].user) \in Link
      BY <2>1 DEF NewLink, Link
    <2> QED BY <1>8, <2>2, RowsAreTokens DEF Create, TypeOK, Idle, Req
  <1>9. ASSUME NEW r \in Request, NEW t \in Token, VerifyRead(r, t) \/ ResetRead(r, t)
        PROVE TypeOK'
    BY <1>9 DEF VerifyRead, ResetRead, TypeOK, Req, Link
  <1>10. ASSUME NEW r \in Request, HashPassword(r) \/ Mark(r) \/ WriteUser(r) \/ Abort(r)
         PROVE TypeOK'
    BY <1>10 DEF HashPassword, Mark, WriteUser, Abort, TypeOK, Req, Idle
  <1>11. ASSUME NEW r \in Request, Commit(r) PROVE TypeOK'
    <2>1. req' \in [Request -> Req]
      BY <1>11 DEF Commit, TypeOK, Req, Idle
    <2>4. link' \in [Token -> Link]
      BY <1>11, RedeemedLinkTyped DEF Commit, TypeOK
    <2>2. \A a \in Account : SetEmailVerified(a) \in Account /\ SetPasswordHash(a) \in Account
      BY CommittedAccountTyped
    <2>3. account' \in [User -> Account]
      BY <1>11, <2>2 DEF Commit, TypeOK
    <2> QED BY <2>1, <2>3, <2>4 DEF TypeOK
  <1>12. ASSUME NEW t \in Token, Deliver(t) \/ Expire(t) \/ Purge(t) PROVE TypeOK'
    <2>1. \A l \in Link : /\ [l EXCEPT !.delivered = TRUE] \in Link
                          /\ [l EXCEPT !.expired = TRUE] \in Link
                          /\ [l EXCEPT !.status = "purged"] \in Link
      BY DEF Link
    <2> QED BY <1>12, <2>1 DEF Deliver, Expire, Purge, TypeOK
  <1>13. CASE UNCHANGED vars
    BY <1>13 DEF vars, TypeOK
  <1> QED
    BY <1>1, <1>2, <1>3, <1>4, <1>5, <1>6, <1>7, <1>8, <1>9, <1>10, <1>11, <1>12, <1>13, <1>14
    DEF Next, Token

\* Type correctness of the two token tables, the accounts and the requests.
THEOREM TypeCorrect == Spec => []TypeOK
  BY InitTypes, NextTypes, PTL DEF Spec

-----------------------------------------------------------------------------
(* The inductive invariant.                                                *)

\* No account, no link and no request: every part of the invariant holds.
LEMMA InitIInv == Init => IInv
  <1> SUFFICES ASSUME Init PROVE IInv
    OBVIOUS
  <1> USE DEF Init, NoAccount, NoLink, Idle
  <1>1. TypeOK BY InitTypes
  <1>2. \A u \in User, table \in {"verification", "reset"} : Redeemed(u, table) = {}
    BY DEF Redeemed, Rows, Token
  <1>3. VerifiedByLink BY <1>2 DEF VerifiedByLink
  <1>4. ResetsAccounted
    <2>1. \A u \in User : Cardinality(Redeemed(u, "reset")) = 0
      BY <1>2, FS_EmptySet
    <2>2. \A u \in User : account[u].version = 0 /\ account[u].logouts = 0 /\ account[u].hash = 0
      OBVIOUS
    <2> HIDE DEF Init
    <2> QED BY <2>1, <2>2 DEF ResetsAccounted
  <1>5. ResetNeedsPassword BY DEF ResetNeedsPassword, Token
  <1>6. AccountsWellFormed BY DEF AccountsWellFormed
  <1>7. LinksWellFormed BY DEF LinksWellFormed
  <1>8. ReqsWellFormed BY DEF ReqsWellFormed
  <1>9. LocksHeld BY DEF LocksHeld
  <1>10. ForgotEligible BY DEF ForgotEligible
  <1> QED
    BY <1>1, <1>3, <1>4, <1>5, <1>6, <1>7, <1>8, <1>9, <1>10 DEF IInv

\* A user has finitely many redeemed reset links.
LEMMA RedeemedFinite == \A u \in User : IsFiniteSet(Redeemed(u, "reset"))
  BY FiniteAssumption, FS_Subset DEF Redeemed, Rows

\* The parts that do not mention requests survive a step that changes only them.
LEMMA OnlyRequests ==
    ASSUME IInv, UNCHANGED <<account, link>>
    PROVE  /\ AccountsWellFormed' /\ LinksWellFormed' /\ VerifiedByLink'
           /\ ResetsAccounted' /\ ResetNeedsPassword'
  <1>1. \A u \in User, table \in {"verification", "reset"} :
            Redeemed(u, table)' = Redeemed(u, table)
    BY DEF Redeemed
  <1> QED
    BY <1>1 DEF IInv, AccountsWellFormed, LinksWellFormed, VerifiedByLink,
                ResetsAccounted, ResetNeedsPassword

\* ResendRead, ForgotRead, VerifyRead and ResetRead: a request starts with what
\* it has just read, and holds no lock.
LEMMA ReadStep ==
    ASSUME IInv, NEW r \in Request,
           \/ \E u \in User : ResendRead(r, u) \/ ForgotRead(r, u)
           \/ \E t \in VerificationToken : VerifyRead(r, t)
           \/ \E t \in ResetToken : ResetRead(r, t)
    PROVE  IInv'
  <1>1. TypeOK'
    BY NextTypes DEF IInv, Next
  <1>2. UNCHANGED <<account, link>>
    BY DEF ResendRead, ForgotRead, VerifyRead, ResetRead
  <1>3. \A q \in Request : q # r => req'[q] = req[q]
    BY DEF ResendRead, ForgotRead, VerifyRead, ResetRead, IInv, TypeOK
  <1>4. \/ \E u \in User : /\ account[u].exists
                           /\ req'[r].user = u /\ req'[r].token = None
                           /\ req'[r].pc = "invalidate"
                           /\ req'[r].table \in {"verification", "reset"}
                           /\ req'[r].table = "reset" => MayReset(u)
        \/ \E t \in Token : /\ link[t].status = "outstanding"
                            /\ req'[r].user = link[t].user /\ req'[r].token = t
                            /\ req'[r].pc \in {"hash", "mark"}
                            /\ req'[r].table \in {"verification", "reset"}
                            /\ t \in Rows(req'[r].table)
                            /\ req'[r].table = "reset" => t \in ResetToken
    BY DEF ResendRead, ForgotRead, VerifyRead, ResetRead, IInv, TypeOK, Rows, Token
  <1>5. ReqsWellFormed'
    BY <1>2, <1>3, <1>4 DEF IInv, ReqsWellFormed, LinksWellFormed
  <1>6. LocksHeld'
    BY <1>2, <1>3, <1>4 DEF IInv, LocksHeld
  <1>7. ForgotEligible'
    BY <1>2, <1>3, <1>4 DEF IInv, ForgotEligible, MayReset, ResetNeedsPassword
  <1> QED
    BY <1>1, <1>2, <1>5, <1>6, <1>7, OnlyRequests DEF IInv

\* HashPassword, Mark, WriteUser and Abort: a request moves on, or ends.
LEMMA ProgressStep ==
    ASSUME IInv, NEW r \in Request, HashPassword(r) \/ Mark(r) \/ WriteUser(r) \/ Abort(r)
    PROVE  IInv'
  <1>1. TypeOK'
    BY NextTypes DEF IInv, Next
  <1>2. UNCHANGED <<account, link>>
    BY DEF HashPassword, Mark, WriteUser, Abort
  <1>3. \A q \in Request : q # r => req'[q] = req[q]
    BY DEF HashPassword, Mark, WriteUser, Abort, IInv, TypeOK
  <1>4. \/ req'[r] = Idle
        \/ /\ req'[r].user = req[r].user /\ req'[r].table = req[r].table
           /\ req'[r].token = req[r].token
           /\ \/ req[r].pc = "hash" /\ req'[r].pc = "mark"
              \/ /\ req[r].pc = "mark" /\ req'[r].pc = "marked"
                 /\ ~TokenLocked(req[r].token) /\ link[req[r].token].status = "outstanding"
              \/ /\ req[r].pc = "marked" /\ req'[r].pc = "written"
                 /\ ~UserLocked(req[r].user)
    BY DEF HashPassword, Mark, MarkMatches, WriteUser, Abort, IInv, TypeOK, Req
  <1>5. ReqsWellFormed'
    BY <1>2, <1>3, <1>4 DEF IInv, ReqsWellFormed, Idle
  <1>6. LocksHeld'
    BY <1>2, <1>3, <1>4 DEF IInv, LocksHeld, Idle, TokenLocked, UserLocked
  <1>7. ForgotEligible'
    BY <1>2, <1>3, <1>4 DEF IInv, ForgotEligible, Idle
  <1> QED
    BY <1>1, <1>2, <1>5, <1>6, <1>7, OnlyRequests DEF IInv

\* CreateOAuthUser, SetSuspended, UpdateKYCTier and LogoutAll write one user row and
\* neither the verification nor the password of an existing account.
LEMMA AccountStep ==
    ASSUME IInv, NEW u \in User,
           \/ \E b \in BOOLEAN : CreateOAuthUser(u, b) \/ SetSuspended(u, b)
           \/ \E tier \in 1..MaxTier : UpdateKYCTier(u, tier)
           \/ LogoutAll(u)
    PROVE  IInv'
  <1>1. TypeOK'
    BY NextTypes DEF IInv, Next
  <1>2. UNCHANGED <<link, req>>
    BY DEF CreateOAuthUser, SetSuspended, UpdateKYCTier, LogoutAll
  <1>3. \A v \in User : v # u => account'[v] = account[v]
    BY DEF CreateOAuthUser, SetSuspended, UpdateKYCTier, LogoutAll, IInv, TypeOK
  <1>4. \A v \in User, table \in {"verification", "reset"} :
            Redeemed(v, table)' = Redeemed(v, table)
    BY <1>2 DEF Redeemed
  <1>5. \/ /\ account[u].exists /\ account'[u].exists
           /\ account'[u].verified = account[u].verified
           /\ account'[u].trusted = account[u].trusted
           /\ account'[u].hash = account[u].hash
           /\ \/ /\ account'[u].version = account[u].version
                 /\ account'[u].logouts = account[u].logouts
              \/ /\ account'[u].version = account[u].version + 1
                 /\ account'[u].logouts = account[u].logouts + 1
           /\ account'[u].tier >= account[u].tier
        \/ /\ ~account[u].exists /\ account'[u].exists
           /\ account'[u].verified = account'[u].trusted
           /\ account'[u].hash = 0 /\ account'[u].version = 0 /\ account'[u].logouts = 0
    <2>1. account \in [User -> Account] /\ account[u] \in Account
      BY DEF IInv, TypeOK
    <2>2. CASE \E b \in BOOLEAN : CreateOAuthUser(u, b)
      BY <2>1, <2>2 DEF CreateOAuthUser, NewAccount
    <2>3. CASE \E b \in BOOLEAN : SetSuspended(u, b)
      BY <2>1, <2>3 DEF SetSuspended, Account
    <2>4. CASE \E tier \in 1..MaxTier : UpdateKYCTier(u, tier)
      <3>1. PICK tier \in 1..MaxTier : UpdateKYCTier(u, tier)
        BY <2>4
      <3>2. account'[u] = [account[u] EXCEPT !.tier = tier]
        BY <2>1, <3>1 DEF UpdateKYCTier
      <3>3. account[u].exists /\ account[u].tier < tier
        BY <3>1 DEF UpdateKYCTier
      <3> QED BY <2>1, <3>2, <3>3, MaxTierAssumption DEF Account
    <2>5. CASE LogoutAll(u)
      <3>1. account'[u] = [account[u] EXCEPT !.version = account[u].version + 1,
                                             !.logouts = account[u].logouts + 1]
        BY <2>1, <2>5, LogoutWrites
      <3> QED BY <2>1, <2>5, <3>1, MaxTierAssumption DEF LogoutAll, Account
    <2> QED BY <2>2, <2>3, <2>4, <2>5
  <1>6. ~account[u].exists => \A table \in {"verification", "reset"} : Redeemed(u, table) = {}
    BY RowsAreTokens DEF IInv, LinksWellFormed, Redeemed
  <1>7. AccountsWellFormed'
    BY <1>3, <1>5 DEF IInv, AccountsWellFormed
  <1>8. LinksWellFormed'
    BY <1>2, <1>3, <1>5 DEF IInv, LinksWellFormed
  <1>9. ReqsWellFormed' /\ LocksHeld'
    BY <1>2, <1>3, <1>5 DEF IInv, ReqsWellFormed, LocksHeld
  <1>10. ForgotEligible'
    BY <1>2, <1>3, <1>5 DEF IInv, ForgotEligible, ReqsWellFormed, Idle
  <1>11. VerifiedByLink'
    BY <1>1, <1>3, <1>4, <1>5, <1>6 DEF IInv, VerifiedByLink, TypeOK, Account
  <1>12. ResetsAccounted'
    <2>1. \A v \in User : Cardinality(Redeemed(v, "reset")) \in Nat
      BY RedeemedFinite, FS_CardinalityType
    <2>2. account[u].version \in Nat /\ account[u].logouts \in Nat
      BY DEF IInv, TypeOK, Account
    <2>3. ASSUME NEW v \in User
          PROVE  /\ account'[v].version = Cardinality(Redeemed(v, "reset")) + account'[v].logouts
                 /\ account'[v].hash # 0 => account'[v].hash = 1 + Cardinality(Redeemed(v, "reset"))
      <3>1. CASE v # u \/ account[u].exists
        BY <1>3, <1>5, <2>1, <2>2, <3>1 DEF IInv, ResetsAccounted
      <3>2. CASE v = u /\ ~account[u].exists
        BY <1>5, <1>6, <3>2, FS_EmptySet
      <3> QED BY <3>1, <3>2
    <2> QED BY <1>4, <2>3 DEF ResetsAccounted
  <1>13. ResetNeedsPassword'
    BY <1>2, <1>3, <1>5 DEF IInv, ResetNeedsPassword, LinksWellFormed, Token
  <1> QED
    BY <1>1, <1>7, <1>8, <1>9, <1>10, <1>11, <1>12, <1>13 DEF IInv

\* OAuthRegister: a new account without links, and a request that will insert
\* its verification link.
LEMMA OAuthRegisterStep ==
    ASSUME IInv, NEW r \in Request, NEW u \in User, OAuthRegister(r, u)
    PROVE  IInv'
  <1>1. TypeOK'
    BY NextTypes DEF IInv, Next
  <1>2. /\ UNCHANGED link
        /\ \A q \in Request : q # r => req'[q] = req[q]
        /\ req'[r] = [pc |-> "create", table |-> "verification", user |-> u, token |-> None]
        /\ \A v \in User : v # u => account'[v] = account[v]
        /\ account'[u] = NewAccount(FALSE, 0)
        /\ ~account[u].exists
    BY DEF OAuthRegister, IInv, TypeOK
  <1>3. /\ account'[u].exists /\ ~account'[u].verified /\ ~account'[u].trusted
        /\ account'[u].hash = 0 /\ account'[u].version = 0 /\ account'[u].logouts = 0
    BY <1>2 DEF NewAccount
  <1>4. \A v \in User, table \in {"verification", "reset"} :
            Redeemed(v, table)' = Redeemed(v, table)
    BY <1>2 DEF Redeemed
  <1>5. \A table \in {"verification", "reset"} : Redeemed(u, table) = {}
    BY <1>2, RowsAreTokens DEF IInv, LinksWellFormed, Redeemed
  <1>6. AccountsWellFormed'
    BY <1>2, <1>3 DEF IInv, AccountsWellFormed
  <1>7. LinksWellFormed'
    BY <1>2, <1>3 DEF IInv, LinksWellFormed
  <1>8. ReqsWellFormed' /\ LocksHeld'
    <2>1. ReqsWellFormed'
      <3>1. /\ req'[r].pc = "create" /\ req'[r].table = "verification"
            /\ req'[r].user = u /\ req'[r].token = None
        BY <1>2
      <3>2. \A v \in User : account[v].exists => account'[v].exists
        BY <1>2, <1>3
      <3>3. \A q \in Request : q # r => req'[q] = req[q]
        BY <1>2
      <3>4. link' = link
        BY <1>2
      <3> QED BY <1>3, <3>1, <3>2, <3>3, <3>4 DEF IInv, ReqsWellFormed
    <2>2. LocksHeld'
      BY <1>2 DEF IInv, LocksHeld
    <2> QED BY <2>1, <2>2
  <1>9. ForgotEligible'
    BY <1>2, <1>3 DEF IInv, ForgotEligible, ReqsWellFormed, Idle
  <1>10. VerifiedByLink'
    BY <1>2, <1>3, <1>4, <1>5 DEF IInv, VerifiedByLink
  <1>11. ResetsAccounted'
    <2>1. Cardinality(Redeemed(u, "reset")) = 0
      BY <1>5, FS_EmptySet
    <2>2. \A v \in User : Redeemed(v, "reset")' = Redeemed(v, "reset")
      BY <1>4
    <2>3. ASSUME NEW v \in User
          PROVE  /\ account'[v].version = Cardinality(Redeemed(v, "reset")) + account'[v].logouts
                 /\ account'[v].hash # 0 => account'[v].hash = 1 + Cardinality(Redeemed(v, "reset"))
      <3>1. CASE v = u
        BY <1>3, <2>1, <3>1
      <3>2. CASE v # u
        BY <1>2, <3>2 DEF IInv, ResetsAccounted
      <3> QED BY <3>1, <3>2
    <2> QED BY <2>2, <2>3 DEF ResetsAccounted
  <1>12. ResetNeedsPassword'
    BY <1>2, <1>3 DEF IInv, ResetNeedsPassword, LinksWellFormed, Token
  <1> QED
    BY <1>1, <1>6, <1>7, <1>8, <1>9, <1>10, <1>11, <1>12 DEF IInv

\* Inserting a link of an existing account redeems none, and touches no row that
\* a request has read.
LEMMA InsertLink ==
    ASSUME IInv, NEW t \in Token, NEW u \in User, link[t].status = "absent",
           link' = [link EXCEPT ![t] = NewLink(u)]
    PROVE  /\ \A s \in Token : s # t => link'[s] = link[s]
           /\ link'[t].status = "outstanding" /\ link'[t].user = u
           /\ ~link'[t].redeemed /\ ~link[t].redeemed
           /\ \A v \in User, table \in {"verification", "reset"} :
                  Redeemed(v, table)' = Redeemed(v, table)
           /\ \A r \in Request : req[r].pc \in {"hash", "mark", "marked", "written"} =>
                  /\ req[r].token \in Token
                  /\ link'[req[r].token] = link[req[r].token]
  <1>1. /\ \A s \in Token : s # t => link'[s] = link[s]
        /\ link'[t] = NewLink(u)
    BY DEF IInv, TypeOK
  <1>2. /\ link'[t].status = "outstanding" /\ link'[t].user = u
        /\ ~link'[t].redeemed /\ ~link[t].redeemed
    BY <1>1 DEF NewLink, NoLink, IInv, LinksWellFormed
  <1>3. ASSUME NEW v \in User, NEW table \in {"verification", "reset"}
        PROVE  Redeemed(v, table)' = Redeemed(v, table)
    <2>1. \A s \in Token : link'[s].redeemed => link'[s] = link[s]
      BY <1>1, <1>2
    <2>2. \A s \in Token : link[s].redeemed => link'[s] = link[s]
      BY <1>1, <1>2
    <2> QED BY <2>1, <2>2, RowsAreTokens DEF Redeemed
  <1>4. \A r \in Request : req[r].pc \in {"hash", "mark", "marked", "written"} =>
                  /\ req[r].token \in Token
                  /\ link'[req[r].token] = link[req[r].token]
    BY <1>1, RowsAreTokens DEF IInv, ReqsWellFormed
  <1> QED BY <1>1, <1>2, <1>3, <1>4

\* Register: an account with a password and its first verification link.
LEMMA RegisterStep ==
    ASSUME IInv, NEW u \in User, Register(u)
    PROVE  IInv'
  <1>1. TypeOK'
    BY NextTypes DEF IInv, Next
  <1>2. /\ UNCHANGED req
        /\ \A v \in User : v # u => account'[v] = account[v]
        /\ account'[u] = NewAccount(FALSE, 1)
        /\ ~account[u].exists
    BY DEF Register, IInv, TypeOK
  <1>3. /\ account'[u].exists /\ ~account'[u].verified /\ ~account'[u].trusted
        /\ account'[u].hash = 1 /\ account'[u].version = 0 /\ account'[u].logouts = 0
    BY <1>2 DEF NewAccount
  <1>4. PICK t \in VerificationToken : /\ link[t].status = "absent"
                                       /\ link' = [link EXCEPT ![t] = NewLink(u)]
    BY DEF Register
  <1>5. t \in Token /\ t \notin ResetToken
    BY TokenAssumption DEF Token
  <1>6. /\ \A s \in Token : s # t => link'[s] = link[s]
        /\ link'[t].status = "outstanding" /\ link'[t].user = u
        /\ ~link'[t].redeemed
        /\ \A v \in User, table \in {"verification", "reset"} :
               Redeemed(v, table)' = Redeemed(v, table)
        /\ \A r \in Request : req[r].pc \in {"hash", "mark", "marked", "written"} =>
               link'[req[r].token] = link[req[r].token]
    BY <1>4, <1>5, InsertLink
  <1>7. \A table \in {"verification", "reset"} : Redeemed(u, table) = {}
    BY <1>2, RowsAreTokens DEF IInv, LinksWellFormed, Redeemed
  <1>8. AccountsWellFormed'
    BY <1>2, <1>3 DEF IInv, AccountsWellFormed
  <1>9. LinksWellFormed'
    <2>1. \A s \in Token : account[link[s].user].exists => account'[link[s].user] = account[link[s].user]
                             \/ link[s].user \notin User
      BY <1>2
    <2>2. ASSUME NEW s \in Token, s # t
          PROVE  /\ link'[s].status = "absent" => link'[s] = NoLink
                 /\ link'[s].status # "absent" => link'[s].user \in User /\ account'[link'[s].user].exists
                 /\ link'[s].redeemed => link'[s].status \in {"consumed", "purged"}
      BY <1>6, <2>1, <2>2 DEF IInv, LinksWellFormed
    <2>3. NoLink' = NoLink
      BY DEF NoLink
    <2> QED BY <1>3, <1>6, <2>2, <2>3 DEF LinksWellFormed
  <1>10. ReqsWellFormed'
    BY <1>2, <1>3, <1>6 DEF IInv, ReqsWellFormed
  <1>11. LocksHeld'
    BY <1>2, <1>6 DEF IInv, LocksHeld
  <1>12. ForgotEligible'
    BY <1>2, <1>3 DEF IInv, ForgotEligible, ReqsWellFormed, Idle
  <1>13. VerifiedByLink'
    BY <1>2, <1>3, <1>6, <1>7 DEF IInv, VerifiedByLink
  <1>14. ResetsAccounted'
    <2>1. Redeemed(u, "reset")' = {} /\ Cardinality({}) = 0
      BY <1>6, <1>7, FS_EmptySet
    <2>2. account'[u].version = Cardinality(Redeemed(u, "reset")') + account'[u].logouts
      BY <1>3, <2>1
    <2>3. account'[u].hash = 1 + Cardinality(Redeemed(u, "reset")')
      BY <1>3, <2>1
    <2>4. \A v \in User : v # u =>
            /\ account'[v].version = Cardinality(Redeemed(v, "reset")') + account'[v].logouts
            /\ account'[v].hash # 0 => account'[v].hash = 1 + Cardinality(Redeemed(v, "reset")')
      BY <1>2, <1>6 DEF IInv, ResetsAccounted
    <2> QED BY <2>2, <2>3, <2>4 DEF ResetsAccounted
  <1>15. ResetNeedsPassword'
    BY <1>2, <1>3, <1>5, <1>6 DEF IInv, ResetNeedsPassword, LinksWellFormed, Token
  <1> QED
    BY <1>1, <1>8, <1>9, <1>10, <1>11, <1>12, <1>13, <1>14, <1>15 DEF IInv

\* Create: the account that ForgotPassword or ResendVerification has read still
\* qualifies, because an account never loses its password or its verification.
LEMMA CreateStep ==
    ASSUME IInv, NEW r \in Request, Create(r)
    PROVE  IInv'
  <1> DEFINE u == req[r].user
  <1>1. TypeOK'
    BY NextTypes DEF IInv, Next
  <1>2. /\ UNCHANGED account
        /\ \A q \in Request : q # r => req'[q] = req[q]
        /\ req'[r] = Idle
        /\ u \in User /\ account[u].exists /\ req[r].table \in {"verification", "reset"}
    BY DEF Create, IInv, TypeOK, Req, ReqsWellFormed
  <1>3. PICK t \in Rows(req[r].table) : /\ link[t].status = "absent"
                                        /\ link' = [link EXCEPT ![t] = NewLink(u)]
    BY DEF Create
  <1>4. t \in Token /\ (t \in ResetToken => req[r].table = "reset")
    BY <1>2, TokenAssumption DEF Token, Rows
  <1>5. /\ \A s \in Token : s # t => link'[s] = link[s]
        /\ link'[t].status = "outstanding" /\ link'[t].user = u
        /\ ~link'[t].redeemed
        /\ \A v \in User, table \in {"verification", "reset"} :
               Redeemed(v, table)' = Redeemed(v, table)
        /\ \A q \in Request : req[q].pc \in {"hash", "mark", "marked", "written"} =>
               link'[req[q].token] = link[req[q].token]
    BY <1>2, <1>3, <1>4, InsertLink
  <1>6. AccountsWellFormed'
    BY <1>2 DEF IInv, AccountsWellFormed
  <1>7. LinksWellFormed'
    BY <1>2, <1>5 DEF IInv, LinksWellFormed
  <1>8. ReqsWellFormed'
    BY <1>2, <1>5 DEF IInv, ReqsWellFormed, Idle
  <1>9. LocksHeld'
    BY <1>2, <1>5 DEF IInv, LocksHeld, Idle
  <1>10. ForgotEligible'
    BY <1>2 DEF IInv, ForgotEligible, Idle
  <1>11. VerifiedByLink' /\ ResetsAccounted'
    BY <1>2, <1>5 DEF IInv, VerifiedByLink, ResetsAccounted
  <1>12. ResetNeedsPassword'
    BY <1>2, <1>4, <1>5 DEF IInv, ResetNeedsPassword, ForgotEligible, Token
  <1> QED
    BY <1>1, <1>6, <1>7, <1>8, <1>9, <1>10, <1>11, <1>12 DEF IInv

\* InvalidateForUser, Deliver, Expire and Purge: no link is inserted or redeemed,
\* and no link that a transaction has locked, or that a request may still read,
\* changes its status in a way that matters to it.
LEMMA HousekeepingStep ==
    ASSUME IInv,
           \/ \E r \in Request : InvalidateForUser(r)
           \/ \E t \in Token : Deliver(t) \/ Expire(t) \/ Purge(t)
    PROVE  IInv'
  <1>1. TypeOK'
    BY NextTypes DEF IInv, Next
  <1>2. /\ UNCHANGED account
        /\ \A q \in Request :
             /\ req'[q].user = req[q].user /\ req'[q].table = req[q].table
             /\ req'[q].token = req[q].token
             /\ \/ req'[q] = req[q]
                \/ req[q].pc = "invalidate" /\ req'[q].pc = "create"
    BY DEF InvalidateForUser, Deliver, Expire, Purge, IInv, TypeOK, Req
  <1>3. \A s \in Token : /\ link'[s].user = link[s].user
                         /\ link'[s].redeemed = link[s].redeemed
                         /\ link[s].status = "absent" => link'[s] = link[s]
                         /\ link[s].status # "absent" => link'[s].status # "absent"
                         /\ link[s].status \in {"consumed", "purged"} =>
                               link'[s].status \in {"consumed", "purged"}
    BY DEF InvalidateForUser, Outstanding, Deliver, Expire, Purge, IInv, TypeOK, Link
  <1>4. \A q \in Request : req[q].pc \in {"hash", "mark", "marked", "written"} =>
            /\ req[q].token \in Token
            /\ link'[req[q].token].status \in {"outstanding", "consumed"}
    BY RowsAreTokens DEF InvalidateForUser, Outstanding, Deliver, Expire, Purge,
                         IInv, TypeOK, Link, ReqsWellFormed
  <1>5. \A q \in Request : req[q].pc \in {"marked", "written"} =>
            link'[req[q].token].status = "outstanding"
    BY RowsAreTokens DEF InvalidateForUser, TokenLocked, Deliver, Expire, Purge,
                         IInv, TypeOK, Link, ReqsWellFormed, LocksHeld
  <1>6. \A v \in User, table \in {"verification", "reset"} :
            Redeemed(v, table)' = Redeemed(v, table)
    BY <1>3, RowsAreTokens DEF Redeemed
  <1>7. AccountsWellFormed'
    BY <1>2 DEF IInv, AccountsWellFormed
  <1>8. LinksWellFormed'
    BY <1>2, <1>3 DEF IInv, LinksWellFormed
  <1>9. ReqsWellFormed'
    BY <1>2, <1>3, <1>4 DEF IInv, ReqsWellFormed
  <1>10. LocksHeld'
    BY <1>2, <1>5 DEF IInv, LocksHeld
  <1>11. ForgotEligible'
    BY <1>2 DEF IInv, ForgotEligible
  <1>12. VerifiedByLink' /\ ResetsAccounted'
    BY <1>2, <1>6 DEF IInv, VerifiedByLink, ResetsAccounted
  <1>13. ResetNeedsPassword'
    BY <1>2, <1>3 DEF IInv, ResetNeedsPassword, Token
  <1> QED
    BY <1>1, <1>7, <1>8, <1>9, <1>10, <1>11, <1>12, <1>13 DEF IInv

\* Commit of either transaction: the request's row lock means that exactly one
\* outstanding link becomes redeemed, together with the change of its account.
LEMMA CommitStep ==
    ASSUME IInv, NEW r \in Request, Commit(r)
    PROVE  IInv'
  <1>0. PICK t \in Token, u \in User, a \in {"verification", "reset"} :
            t = req[r].token /\ u = req[r].user /\ a = req[r].table
    BY RowsAreTokens DEF Commit, IInv, TypeOK, Req, ReqsWellFormed
  <1>1. TypeOK'
    BY NextTypes DEF IInv, Next
  <1>2. /\ req[r].pc = "written"
        /\ account[u].exists
        /\ t \in Rows(a) /\ link[t].user = u
        /\ link[t].status = "outstanding" /\ ~link[t].redeemed
        /\ account[u] \in Account /\ link[t] \in Link
    BY <1>0
    DEF Commit, IInv, TypeOK, Req, ReqsWellFormed, LocksHeld, LinksWellFormed
  <1>3. /\ \A q \in Request : q # r => req'[q] = req[q]
        /\ req'[r] = Idle
        /\ \A s \in Token : s # t => link'[s] = link[s]
        /\ link'[t] = RedeemedLink(link[t])
        /\ \A v \in User : v # u => account'[v] = account[v]
        /\ \/ a = "verification" /\ account'[u] = SetEmailVerified(account[u])
           \/ a = "reset" /\ account'[u] = SetPasswordHash(account[u])
    BY <1>0 DEF Commit, IInv, TypeOK
  <1>4. link'[t].status = "consumed" /\ link'[t].redeemed /\ link'[t].user = u
    BY <1>2, <1>3 DEF RedeemedLink, Link
  <1>5. \/ /\ a = "verification" /\ account'[u].exists
           /\ account'[u].verified /\ account'[u].tier >= 1
           /\ account'[u].hash = account[u].hash
           /\ account'[u].version = account[u].version
           /\ account'[u].logouts = account[u].logouts
        \/ /\ a = "reset" /\ account'[u].exists
           /\ account'[u].verified = account[u].verified
           /\ account'[u].trusted = account[u].trusted
           /\ account'[u].tier = account[u].tier
           /\ account'[u].hash = account[u].hash + 1
           /\ account'[u].version = account[u].version + 1
           /\ account'[u].logouts = account[u].logouts
    <2>1. CASE a = "verification"
      <3>1. account'[u] = [account[u] EXCEPT !.verified = TRUE, !.tier = Promote(@)]
        BY <1>3, <2>1 DEF SetEmailVerified
      <3>2. Promote(account[u].tier) >= 1
        BY <1>2 DEF Promote, Account
      <3> QED BY <1>2, <2>1, <3>1, <3>2 DEF Account
    <2>2. CASE a = "reset"
      BY <1>2, <1>3, <2>2 DEF SetPasswordHash, Account
    <2> QED BY <2>1, <2>2
  <1>6. /\ Redeemed(u, a)' = Redeemed(u, a) \cup {t}
        /\ t \notin Redeemed(u, a)
    BY <1>2, <1>3, <1>4, RowsAreTokens DEF Redeemed
  <1>7. \A v \in User, b \in {"verification", "reset"} :
            v # u \/ b # a => Redeemed(v, b)' = Redeemed(v, b)
    <2>1. \A v \in User, b \in {"verification", "reset"} : b # a => t \notin Rows(b)
      BY <1>2, TokenAssumption DEF Rows
    <2> QED BY <1>2, <1>3, <1>4, <2>1, RowsAreTokens DEF Redeemed
  <1>8. AccountsWellFormed'
    BY <1>3, <1>5 DEF IInv, AccountsWellFormed
  <1>9. LinksWellFormed'
    <2>1. \A v \in User : account[v].exists => account'[v].exists
      BY <1>3, <1>5
    <2> QED BY <1>2, <1>3, <1>4, <2>1 DEF IInv, LinksWellFormed
  <1>10. ReqsWellFormed'
    <2>1. \A v \in User : account[v].exists => account'[v].exists
      BY <1>3, <1>5
    <2>2. \A s \in Token : /\ link'[s].user = link[s].user
                           /\ link[s].status \in {"outstanding", "consumed"} =>
                                link'[s].status \in {"outstanding", "consumed"}
      BY <1>2, <1>3, <1>4
    <2> QED BY <1>3, <2>1, <2>2, RowsAreTokens DEF IInv, ReqsWellFormed, Idle
  <1>11. LocksHeld'
    <2>1. \A q \in Request : q # r /\ req[q].pc \in {"marked", "written"} =>
              req[q].token \in Token /\ req[q].token # t
      BY <1>0, <1>2, RowsAreTokens DEF IInv, LocksHeld, ReqsWellFormed
    <2> QED BY <1>3, <2>1 DEF IInv, LocksHeld, Idle
  <1>12. ForgotEligible'
    <2>1. \A v \in User : /\ account[v].verified => account'[v].verified
                          /\ account[v].hash # 0 => account'[v].hash # 0
      BY <1>2, <1>3, <1>5 DEF Account
    <2> QED BY <1>3, <2>1 DEF IInv, ForgotEligible, ReqsWellFormed, Idle
  <1>13. VerifiedByLink'
    <2>1. ASSUME NEW v \in User, v # u \/ a = "reset"
          PROVE  /\ account'[v].verified <=> account'[v].trusted \/ Redeemed(v, "verification")' # {}
                 /\ Redeemed(v, "verification")' # {} => account'[v].tier >= 1
      <3>1. Redeemed(v, "verification")' = Redeemed(v, "verification")
        BY <1>7, <2>1
      <3>2. /\ account'[v].verified = account[v].verified
            /\ account'[v].trusted = account[v].trusted
            /\ account'[v].tier = account[v].tier
        BY <1>3, <1>5, <2>1
      <3> QED BY <3>1, <3>2 DEF IInv, VerifiedByLink
    <2>2. ASSUME a = "verification"
          PROVE  /\ account'[u].verified /\ Redeemed(u, "verification")' # {}
                 /\ account'[u].tier >= 1
      BY <1>5, <1>6, <2>2
    <2> QED BY <1>2, <2>1, <2>2 DEF VerifiedByLink
  <1>14. ResetsAccounted'
    <2>1. ASSUME NEW v \in User, v # u \/ a = "verification"
          PROVE  /\ account'[v].version = Cardinality(Redeemed(v, "reset")') + account'[v].logouts
                 /\ account'[v].hash # 0 => account'[v].hash = 1 + Cardinality(Redeemed(v, "reset")')
      <3>1. Redeemed(v, "reset")' = Redeemed(v, "reset")
        BY <1>7, <2>1
      <3>2. /\ account'[v].hash = account[v].hash /\ account'[v].version = account[v].version
            /\ account'[v].logouts = account[v].logouts
        BY <1>3, <1>5, <2>1
      <3> QED BY <3>1, <3>2 DEF IInv, ResetsAccounted
    <2>2. ASSUME a = "reset"
          PROVE  /\ account'[u].version = Cardinality(Redeemed(u, "reset")') + account'[u].logouts
                 /\ account'[u].hash = 1 + Cardinality(Redeemed(u, "reset")')
      <3>1. IsFiniteSet(Redeemed(u, "reset"))
        BY <1>2, RedeemedFinite
      <3>2. Cardinality(Redeemed(u, "reset")') = Cardinality(Redeemed(u, "reset")) + 1
        BY <1>6, <2>2, <3>1, FS_AddElement
      <3>3. account[u].hash # 0
        BY <1>0, <1>2, <2>2 DEF IInv, ForgotEligible
      <3>4. /\ account[u].version = Cardinality(Redeemed(u, "reset")) + account[u].logouts
            /\ account[u].hash = 1 + Cardinality(Redeemed(u, "reset"))
            /\ account[u].logouts \in Nat /\ Cardinality(Redeemed(u, "reset")) \in Nat
        BY <1>2, <3>1, <3>3, FS_CardinalityType DEF IInv, ResetsAccounted, Account
      <3> QED BY <1>5, <2>2, <3>2, <3>4
    <2> QED BY <1>2, <2>1, <2>2 DEF ResetsAccounted
  <1>15. ResetNeedsPassword'
    <2>1. \A v \in User : /\ account[v].verified => account'[v].verified
                          /\ account[v].hash # 0 => account'[v].hash # 0
      BY <1>2, <1>3, <1>5 DEF Account
    <2>2. \A s \in Token : /\ link'[s].user = link[s].user
                           /\ link'[s].status = "absent" <=> link[s].status = "absent"
      BY <1>2, <1>3, <1>4
    <2> QED BY <2>1, <2>2 DEF IInv, ResetNeedsPassword, LinksWellFormed, Token
  <1> QED
    BY <1>1, <1>8, <1>9, <1>10, <1>11, <1>12, <1>13, <1>14, <1>15 DEF IInv

\* Every step preserves the inductive invariant.
LEMMA NextIInv == IInv /\ [Next]_vars => IInv'
  <1> SUFFICES ASSUME IInv, [Next]_vars PROVE IInv'
    OBVIOUS
  <1>1. CASE UNCHANGED vars
    <2>1. UNCHANGED <<account, link>> /\ UNCHANGED req
      BY <1>1 DEF vars
    <2>2. TypeOK' /\ ReqsWellFormed' /\ LocksHeld' /\ ForgotEligible'
      BY <2>1 DEF IInv, TypeOK, ReqsWellFormed, LocksHeld, ForgotEligible
    <2> QED BY <2>1, <2>2, OnlyRequests DEF IInv
  <1> QED
    BY <1>1, ReadStep, ProgressStep, AccountStep, OAuthRegisterStep, RegisterStep,
       CreateStep, HousekeepingStep, CommitStep DEF Next

\* The inductive invariant of EmailTokens.
THEOREM InvariantHolds == Spec => []IInv
  BY InitIInv, NextIInv, PTL DEF Spec

\* No crash or race leaves a consumed verification link without a verified account.
THEOREM VerifiedByLinkTheorem == Spec => []VerifiedByLink
  <1>1. IInv => VerifiedByLink BY DEF IInv
  <1> QED BY <1>1, InvariantHolds, PTL

\* Every redeemed reset link stands for exactly one new password and one bump,
\* and every LogoutAll for one bump more.
THEOREM ResetsAccountedTheorem == Spec => []ResetsAccounted
  <1>1. IInv => ResetsAccounted BY DEF IInv
  <1> QED BY <1>1, InvariantHolds, PTL

\* Reset links exist only for verified accounts with a password.
THEOREM ResetNeedsPasswordTheorem == Spec => []ResetNeedsPassword
  <1>1. IInv => ResetNeedsPassword BY DEF IInv
  <1> QED BY <1>1, InvariantHolds, PTL

-----------------------------------------------------------------------------
(* Action properties: what a single step can do to a link and to a request. *)

\* What a step can do to a link that exists: it stays consumed and expired once
\* it is, and only a transaction that has written both rows redeems it.
LEMMA LinkChange ==
    ASSUME IInv, [Next]_vars, NEW t \in Token, link[t].status # "absent"
    PROVE  /\ link'[t].status # "absent"
           /\ link[t].status \in {"consumed", "purged"} =>
                 link'[t].status \in {"consumed", "purged"}
           /\ link[t].expired => link'[t].expired
           /\ \/ link'[t].redeemed = link[t].redeemed
              \/ \E r \in Request : req[r].pc = "written" /\ req[r].token = t
  <1> USE DEF IInv, TypeOK, Link
  <1>1. CASE link' = link
    BY <1>1
  <1>2. CASE \E u \in User : Register(u)
    <2>1. PICK s \in Token, u \in User : /\ link[s].status = "absent"
                                         /\ link' = [link EXCEPT ![s] = NewLink(u)]
      BY <1>2 DEF Register, Token
    <2>2. link'[t] = link[t]
      BY <2>1
    <2> QED BY <2>2
  <1>3. CASE \E r \in Request : Create(r)
    <2>1. link'[t] = link[t]
      BY <1>3, RowsAreTokens DEF Create
    <2> QED BY <2>1
  <1>4. CASE \E r \in Request : InvalidateForUser(r)
    BY <1>4 DEF InvalidateForUser, Outstanding
  <1>5. CASE \E r \in Request : Commit(r)
    <2>1. PICK r \in Request : /\ req[r].pc = "written"
                               /\ link' = [link EXCEPT ![req[r].token] = RedeemedLink(@)]
      BY <1>5 DEF Commit
    <2>2. CASE req[r].token = t
      BY <2>1, <2>2 DEF RedeemedLink
    <2>3. CASE req[r].token # t
      BY <2>1, <2>3
    <2> QED BY <2>2, <2>3
  <1>6. CASE \E s \in Token : Deliver(s) \/ Expire(s) \/ Purge(s)
    BY <1>6 DEF Deliver, Expire, Purge
  <1>7. \/ link' = link
        \/ \E u \in User : Register(u)
        \/ \E r \in Request : Create(r) \/ InvalidateForUser(r) \/ Commit(r)
        \/ \E s \in Token : Deliver(s) \/ Expire(s) \/ Purge(s)
    BY DEF Next, vars, CreateOAuthUser, SetSuspended, UpdateKYCTier, LogoutAll, OAuthRegister, ResendRead,
           ForgotRead, VerifyRead, ResetRead, HashPassword, Mark, WriteUser, Abort
  <1> QED BY <1>1, <1>2, <1>3, <1>4, <1>5, <1>6, <1>7

\* No request gets past the last expiry check of a link that has expired:
\* VerifyEmail checks when it reads, MarkUsed against the now taken after hashing.
LEMMA LateChange ==
    ASSUME IInv, [Next]_vars, NEW t \in Token, NEW r \in Request, link[t].expired,
           req'[r].token = t, req'[r].pc \in {"mark", "marked", "written"}
    PROVE  req[r].token = t /\ req[r].pc \in {"mark", "marked", "written"}
  <1> USE DEF IInv, TypeOK, Req
  <1>1. ASSUME NEW q \in Request, NEW u \in User,
               ResendRead(q, u) \/ ForgotRead(q, u) \/ OAuthRegister(q, u)
        PROVE  req'[r] = req[r]
    <2>1. PICK m \in {"invalidate", "create"}, table \in {"verification", "reset"} :
              req' = [req EXCEPT ![q] = [pc |-> m, table |-> table, user |-> u, token |-> None]]
      BY <1>1 DEF ResendRead, ForgotRead, OAuthRegister
    <2> QED BY <2>1
  <1>2. ASSUME NEW q \in Request, NEW s \in Token, VerifyRead(q, s) \/ ResetRead(q, s)
        PROVE  req'[r] = req[r]
    BY <1>2 DEF VerifyRead, ResetRead
  <1>3. ASSUME NEW q \in Request, HashPassword(q)
        PROVE  req'[r] = req[r]
    BY <1>3 DEF HashPassword, HashedInTime, Idle
  <1>4. ASSUME NEW q \in Request, Mark(q) \/ WriteUser(q)
        PROVE  req[r].token = t /\ req[r].pc \in {"mark", "marked", "written"}
    BY <1>4 DEF Mark, WriteUser, Idle
  <1>5. ASSUME NEW q \in Request, InvalidateForUser(q) \/ Create(q) \/ Commit(q) \/ Abort(q)
        PROVE  req'[r] = req[r]
    <2>1. q = r => req'[r] = Idle \/ req'[r].pc = "create"
      BY <1>5 DEF InvalidateForUser, Create, Commit, Abort
    <2>2. q # r
      BY <2>1 DEF Idle
    <2> QED BY <1>5, <2>2 DEF InvalidateForUser, Create, Commit, Abort
  <1>6. \/ req' = req
        \/ \E q \in Request :
             \/ \E u \in User : ResendRead(q, u) \/ ForgotRead(q, u) \/ OAuthRegister(q, u)
             \/ \E s \in Token : VerifyRead(q, s) \/ ResetRead(q, s)
             \/ HashPassword(q) \/ Mark(q) \/ WriteUser(q)
             \/ InvalidateForUser(q) \/ Create(q) \/ Commit(q) \/ Abort(q)
    BY DEF Next, vars, Token, Register, CreateOAuthUser, SetSuspended, UpdateKYCTier,
           LogoutAll, Deliver, Expire, Purge
  <1> QED BY <1>1, <1>2, <1>3, <1>4, <1>5, <1>6

\* A superseded link is dead at once, an expired one as soon as no request is
\* past its check, and neither is ever redeemed.
THEOREM DeadLinksTheorem == Spec => DeadLinksStayDead
  <1>1. ASSUME IInv, [Next]_vars, NEW t \in Token, Dead(t) PROVE Dead(t)'
    <2>1. /\ link'[t].status # "absent"
          /\ link[t].status \in {"consumed", "purged"} =>
                 link'[t].status \in {"consumed", "purged"}
          /\ link[t].expired => link'[t].expired
          /\ \/ link'[t].redeemed = link[t].redeemed
             \/ \E r \in Request : req[r].pc = "written" /\ req[r].token = t
      BY <1>1, LinkChange DEF Dead
    <2>2. ~ \E r \in Request : req[r].pc = "written" /\ req[r].token = t
      BY <1>1 DEF Dead, IInv, LocksHeld
    <2>3. ~link'[t].redeemed
      BY <1>1, <2>1, <2>2 DEF Dead
    <2>4. CASE link[t].status \in {"consumed", "purged"}
      BY <2>1, <2>3, <2>4 DEF Dead
    <2>5. CASE /\ link[t].expired
               /\ \A r \in Request :
                     req[r].token = t => req[r].pc \notin {"mark", "marked", "written"}
      <3>1. \A r \in Request : req'[r].token = t => req'[r].pc \notin {"mark", "marked", "written"}
        BY <1>1, <2>5, LateChange
      <3> QED BY <2>1, <2>3, <2>5, <3>1 DEF Dead
    <2> QED BY <1>1, <2>4, <2>5 DEF Dead
  <1>2. IInv /\ [Next]_vars => [\A t \in Token : Dead(t) => Dead(t)']_vars
    BY <1>1
  <1> QED BY <1>2, InvariantHolds, PTL DEF Spec, DeadLinksStayDead

\* kyc_tier and token_version never decrease, whoever writes the user's row.
THEOREM TierTheorem == Spec => TierNeverDrops
  <1>1. ASSUME IInv, [Next]_vars, NEW u \in User
        PROVE  /\ account[u].tier =< account'[u].tier
               /\ account[u].version =< account'[u].version
    <2> DEFINE Grows(c, d) == c.tier =< d.tier /\ c.version =< d.version
    <2>1. account[u] \in Account /\ account'[u] \in Account
      BY <1>1, NextTypes DEF IInv, TypeOK
    <2>2. account[u].tier \in Nat /\ account[u].version \in Nat
      BY <2>1, MaxTierAssumption DEF Account
    <2>3. ASSUME ~account[u].exists PROVE Grows(account[u], account'[u])
      <3>1. account[u].tier = 0 /\ account[u].version = 0
        BY <1>1, <2>3 DEF IInv, AccountsWellFormed, NoAccount
      <3> QED BY <2>1, <3>1, MaxTierAssumption DEF Account
    <2>4. ASSUME NEW v \in User, NEW tier \in 1..MaxTier, UpdateKYCTier(v, tier)
          PROVE  Grows(account[u], account'[u])
      BY <1>1, <2>1, <2>2, <2>4 DEF UpdateKYCTier, IInv, TypeOK, Account
    <2>5. ASSUME NEW v \in User, NEW b \in BOOLEAN, SetSuspended(v, b)
          PROVE  Grows(account[u], account'[u])
      BY <1>1, <2>1, <2>2, <2>5 DEF SetSuspended, IInv, TypeOK, Account
    <2>6. ASSUME NEW r \in Request, Commit(r) PROVE Grows(account[u], account'[u])
      <3>1. \/ account'[u] = account[u]
            \/ account'[u] = SetEmailVerified(account[u])
            \/ account'[u] = SetPasswordHash(account[u])
        BY <1>1, <2>6 DEF Commit, IInv, TypeOK
      <3>2. Grows(account[u], account[u])
        BY <2>2
      <3>3. Grows(account[u], SetEmailVerified(account[u]))
        <4>1. /\ SetEmailVerified(account[u]).tier = Promote(account[u].tier)
              /\ SetEmailVerified(account[u]).version = account[u].version
          BY <2>1 DEF SetEmailVerified, Account
        <4> QED BY <2>2, <4>1 DEF Promote
      <3>4. Grows(account[u], SetPasswordHash(account[u]))
        BY <2>1, <2>2 DEF SetPasswordHash, Account
      <3> QED BY <3>1, <3>2, <3>3, <3>4
    <2>7. ASSUME NEW v \in User, Register(v), account[u].exists
          PROVE  account'[u] = account[u]
      BY <1>1, <2>7 DEF Register, IInv, TypeOK
    <2>8. ASSUME NEW v \in User, NEW b \in BOOLEAN, CreateOAuthUser(v, b), account[u].exists
          PROVE  account'[u] = account[u]
      BY <1>1, <2>8 DEF CreateOAuthUser, IInv, TypeOK
    <2>9. ASSUME NEW v \in User, NEW r \in Request, OAuthRegister(r, v), account[u].exists
           PROVE  account'[u] = account[u]
      BY <1>1, <2>9 DEF OAuthRegister, IInv, TypeOK
    <2>13. ASSUME NEW v \in User, LogoutAll(v) PROVE Grows(account[u], account'[u])
      <3>1. \/ account'[u] = account[u]
            \/ account'[u] = [account[u] EXCEPT !.version = account[u].version + 1,
                                                !.logouts = account[u].logouts + 1]
        BY <1>1, <2>13, LogoutWrites DEF IInv, TypeOK
      <3>2. \/ account'[u] = account[u]
            \/ account'[u].tier = account[u].tier /\ account'[u].version = account[u].version + 1
        BY <2>1, <3>1 DEF Account
      <3> QED BY <2>2, <3>2
    <2>10. account'[u] = account[u] => Grows(account[u], account'[u])
      BY <2>2
    <2>11. \/ account' = account
           \/ \E v \in User : \/ Register(v) \/ LogoutAll(v)
                              \/ \E b \in BOOLEAN : CreateOAuthUser(v, b) \/ SetSuspended(v, b)
                              \/ \E tier \in 1..MaxTier : UpdateKYCTier(v, tier)
                              \/ \E r \in Request : OAuthRegister(r, v)
           \/ \E r \in Request : Commit(r)
      BY <1>1 DEF Next, vars, ResendRead, ForgotRead, InvalidateForUser, Create, VerifyRead,
             ResetRead, HashPassword, Mark, WriteUser, Abort, Deliver, Expire, Purge
    <2> HIDE DEF Grows
    <2>12. Grows(account[u], account'[u])
      BY <2>3, <2>4, <2>5, <2>6, <2>7, <2>8, <2>9, <2>10, <2>11, <2>13
    <2> QED BY <2>12 DEF Grows
  <1>2. IInv /\ [Next]_vars =>
          [\A u \in User : /\ account[u].tier =< account'[u].tier
                           /\ account[u].version =< account'[u].version]_vars
    BY <1>1
  <1> QED BY <1>2, InvariantHolds, PTL DEF Spec, TierNeverDrops
=============================================================================
