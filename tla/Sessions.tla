------------------------------ MODULE Sessions ------------------------------
(***************************************************************************)
(* Refresh-token sessions: the refresh_tokens table, the columns of users  *)
(* that guard it, and the HTTP requests that work on both at once.         *)
(*                                                                         *)
(* Every request is a goroutine that makes one SQL statement at a time, so *)
(* one action below is one statement together with the local checks that   *)
(* follow it.  Between two statements any other request may run, and the   *)
(* request itself may end (database error, canceled context, crash).       *)
(***************************************************************************)
EXTENDS Naturals, FiniteSets

CONSTANTS
    User,        \* users.id
    Family,      \* refresh_tokens.family_id values that uuid.New() can return
    Token,       \* refresh_tokens.id values that refresh.Generate() can return
    Request,     \* goroutines serving requests
    None,        \* SQL NULL / Go nil
    MaxVersion   \* bound on users.token_version, so that the state space is finite

ASSUME NoneAssumption == None \notin User \cup Family \cup Token
ASSUME MaxVersionAssumption == MaxVersion \in Nat

VARIABLES
    tokenVersion,  \* users.token_version
    passwordHash,  \* users.password_hash: 0 is NULL, n > 0 the n-th hash ever stored
    suspended,     \* users.status = SUSPENDED
    row,           \* refresh_tokens, by id
    req            \* what each request still has to do, and what it has read

vars == <<tokenVersion, passwordHash, suspended, row, req>>
userVars == <<tokenVersion, passwordHash, suspended>>

-----------------------------------------------------------------------------
(* State.                                                                  *)

\* used_at and revoked_at of a row: MarkUsed sets both ("used"), RevokeFamily
\* only revoked_at ("revoked"), and neither is ever cleared.  "absent" is an id
\* not generated yet, "purged" a row that db:gc has deleted.
Status == {"absent", "live", "used", "revoked", "purged"}

\* openedWith is a history field: the password hash that the login of this
\* token's family was checked against, 0 for an OAuth login.
Row == [status: Status, expired: BOOLEAN,
        user: User \cup {None}, family: Family \cup {None}, prev: Token \cup {None},
        version: Nat, openedWith: Nat]

NoRow == [status |-> "absent", expired |-> FALSE, user |-> None, family |-> None,
          prev |-> None, version |-> 0, openedWith |-> 0]

\* idle: no request.   cas: Refresh has read its token and will call MarkUsed.
\* validate: it won, and will read the user.   issue: a new token pair will be
\* inserted.   revoke: RevokeFamily will be called, then the request ends.
Req == [pc: {"idle", "cas", "validate", "issue", "revoke"},
        token: Token \cup {None}, user: User \cup {None}, family: Family \cup {None},
        version: Nat, openedWith: Nat]

Idle == [pc |-> "idle", token |-> None, user |-> None, family |-> None,
         version |-> 0, openedWith |-> 0]

TypeOK ==
    /\ tokenVersion \in [User -> Nat]
    /\ passwordHash \in [User -> Nat]
    /\ suspended \in [User -> BOOLEAN]
    /\ row \in [Token -> Row]
    /\ req \in [Request -> Req]

\* Users exist with or without a password (OAuth-only accounts have none).
Init ==
    /\ tokenVersion = [u \in User |-> 0]
    /\ passwordHash \in [User -> {0, 1}]
    /\ suspended = [u \in User |-> FALSE]
    /\ row = [t \in Token |-> NoRow]
    /\ req = [r \in Request |-> Idle]

InFamily(f) == {t \in Token : row[t].family = f}
Live(f) == {t \in InFamily(f) : row[t].status = "live"}
Stored(t) == row[t].status \in {"live", "used", "revoked"}

\* A request that owns the right to insert the next token of family f.
Holds(r, f) == req[r].pc \in {"validate", "issue"} /\ req[r].family = f

-----------------------------------------------------------------------------
(* Opening a session.                                                      *)

\* What issueTokenPair is handed by a login: the user row as it was read, and
\* a family that uuid.New() has just made.
OpenFamily(r, u, opened) ==
    \E f \in Family :
        /\ InFamily(f) = {}
        /\ \A q \in Request : req[q].family # f
        /\ req' = [req EXCEPT ![r] =
               [pc |-> "issue", token |-> None, user |-> u, family |-> f,
                version |-> tokenVersion[u], openedWith |-> opened]]
        /\ UNCHANGED <<userVars, row>>

\* Login: one read of the user row gives hash, status and token_version; the
\* password and the status are then checked on that copy.  A wrong password, a
\* NULL hash or a suspended account end the request with nothing changed.
Login(r, u) ==
    /\ req[r].pc = "idle"
    /\ passwordHash[u] # 0
    /\ ~suspended[u]
    /\ OpenFamily(r, u, passwordHash[u])

\* OAuth Exchange: the one-time code named the user, whose row is read here.
Exchange(r, u) ==
    /\ req[r].pc = "idle"
    /\ ~suspended[u]
    /\ OpenFamily(r, u, 0)

\* The token_version column of a new row is the one of the user row that the
\* request has read, not the current one.
IssuedVersion(r) == req[r].version

\* issueTokenPair / issueTokens: INSERT of a row with a fresh id.
IssueTokenPair(r) ==
    /\ req[r].pc = "issue"
    /\ \E t \in Token :
        /\ row[t].status = "absent"
        /\ row' = [row EXCEPT ![t] =
               [status |-> "live", expired |-> FALSE, user |-> req[r].user,
                family |-> req[r].family, prev |-> req[r].token,
                version |-> IssuedVersion(r), openedWith |-> req[r].openedWith]]
    /\ req' = [req EXCEPT ![r] = Idle]
    /\ UNCHANGED userVars

-----------------------------------------------------------------------------
(* Rotating a session.                                                     *)

\* Refresh up to MarkUsed: the row is read by id, and its hash and expiry are
\* checked on the copy.  The columns copied into req never change.
RefreshRead(r, t) ==
    /\ req[r].pc = "idle"
    /\ Stored(t)
    /\ ~row[t].expired
    /\ req' = [req EXCEPT ![r] =
           [pc |-> "cas", token |-> t, user |-> row[t].user, family |-> row[t].family,
            version |-> row[t].version, openedWith |-> row[t].openedWith]]
    /\ UNCHANGED <<userVars, row>>

\* The WHERE clause of MarkUsed.  A row that db:gc has deleted is not matched.
CasMatchesAny(t) == Stored(t)
CasMatchesUnused(t) == row[t].status \in {"live", "revoked"}
CasMatches(t) == row[t].status = "live"

\* The compare-and-swap and its two outcomes.  The loser goes on to revoke.
MarkUsed(r) ==
    /\ req[r].pc = "cas"
    /\ \/ /\ CasMatches(req[r].token)
          /\ row' = [row EXCEPT ![req[r].token].status = "used"]
          /\ req' = [req EXCEPT ![r].pc = "validate"]
       \/ /\ ~CasMatches(req[r].token)
          /\ row' = row
          /\ req' = [req EXCEPT ![r].pc = "revoke"]
    /\ UNCHANGED userVars

\* The two checks of validateUserForRefresh on the user row read after the CAS.
UserMayRefreshIfActive(r) == ~suspended[req[r].user]
UserMayRefreshIfCurrent(r) == req[r].version = tokenVersion[req[r].user]
UserMayRefresh(r) ==
    /\ ~suspended[req[r].user]
    /\ req[r].version = tokenVersion[req[r].user]

\* validateUserForRefresh: a refused user has the whole family revoked.
ValidateUserForRefresh(r) ==
    /\ req[r].pc = "validate"
    /\ \/ UserMayRefresh(r) /\ req' = [req EXCEPT ![r].pc = "issue"]
       \/ ~UserMayRefresh(r) /\ req' = [req EXCEPT ![r].pc = "revoke"]
    /\ UNCHANGED <<userVars, row>>

\* RevokeFamily: one UPDATE of the family's rows that are not revoked yet.
RevokeFamily(r) ==
    /\ req[r].pc = "revoke"
    /\ row' = [t \in Token |-> IF t \in Live(req[r].family)
                               THEN [row[t] EXCEPT !.status = "revoked"] ELSE row[t]]
    /\ req' = [req EXCEPT ![r] = Idle]
    /\ UNCHANGED userVars

\* Logout up to its RevokeFamily: the row is read by id and its hash checked.
LogoutRead(r, t) ==
    /\ req[r].pc = "idle"
    /\ Stored(t)
    /\ req' = [req EXCEPT ![r] =
           [pc |-> "revoke", token |-> t, user |-> row[t].user, family |-> row[t].family,
            version |-> row[t].version, openedWith |-> row[t].openedWith]]
    /\ UNCHANGED <<userVars, row>>

\* Any statement of a request may fail, its context may be canceled or the
\* process may die.  Whatever it had committed stays.
Abort(r) ==
    /\ req[r].pc # "idle"
    /\ req' = [req EXCEPT ![r] = Idle]
    /\ UNCHANGED <<userVars, row>>

-----------------------------------------------------------------------------
(* The user row, time and housekeeping.                                    *)

BumpDown(v) == v - 1
Bump(v) == v + 1

BumpTokenVersion(u) ==
    /\ tokenVersion[u] < MaxVersion
    /\ tokenVersion' = [tokenVersion EXCEPT ![u] = Bump(@)]

\* LogoutAll is one UPDATE.
LogoutAll(u) ==
    /\ BumpTokenVersion(u)
    /\ UNCHANGED <<passwordHash, suspended, row, req>>

\* The transaction of ResetPassword as other statements see it: the new hash
\* and the new version become visible together.  Reset tokens are only sent to
\* accounts that have a password.
ResetPasswordWithoutBump(u) ==
    /\ passwordHash[u] # 0
    /\ tokenVersion[u] < MaxVersion
    /\ passwordHash' = [passwordHash EXCEPT ![u] = @ + 1]
    /\ UNCHANGED <<tokenVersion, suspended, row, req>>
ResetPassword(u) ==
    /\ passwordHash[u] # 0
    /\ BumpTokenVersion(u)
    /\ passwordHash' = [passwordHash EXCEPT ![u] = @ + 1]
    /\ UNCHANGED <<suspended, row, req>>

\* users.status is written by operators, outside this service.
SetSuspended(u, b) ==
    /\ suspended[u] # b
    /\ suspended' = [suspended EXCEPT ![u] = b]
    /\ UNCHANGED <<tokenVersion, passwordHash, row, req>>

\* expires_at passes.
Expire(t) ==
    /\ Stored(t)
    /\ ~row[t].expired
    /\ row' = [row EXCEPT ![t].expired = TRUE]
    /\ UNCHANGED <<userVars, req>>

\* task db:gc deletes expired rows, and used rows after seven days: longer than
\* any request that consumed them is still running.
Purge(t) ==
    /\ \/ Stored(t) /\ row[t].expired
       \/ row[t].status = "used" /\ \A r \in Request : req[r].token # t
    /\ row' = [row EXCEPT ![t].status = "purged"]
    /\ UNCHANGED <<userVars, req>>

Next ==
    \/ \E r \in Request :
        \/ \E u \in User : Login(r, u) \/ Exchange(r, u)
        \/ \E t \in Token : RefreshRead(r, t) \/ LogoutRead(r, t)
        \/ MarkUsed(r)
        \/ ValidateUserForRefresh(r)
        \/ IssueTokenPair(r)
        \/ RevokeFamily(r)
        \/ Abort(r)
    \/ \E u \in User :
        \/ LogoutAll(u)
        \/ ResetPassword(u)
        \/ \E b \in BOOLEAN : SetSuspended(u, b)
    \/ \E t \in Token : Expire(t) \/ Purge(t)

Spec == Init /\ [][Next]_vars

-----------------------------------------------------------------------------
(* Properties.                                                             *)

\* A family never has two live refresh tokens, and has none while a request
\* that consumed one is still about to insert its successor: however Refresh,
\* Logout and db:gc interleave, MarkUsed hands a family to one request only.
OneLivePerFamily ==
    \A f \in Family :
        /\ \A s, t \in Live(f) : s = t
        /\ \A q, r \in Request : Holds(q, f) /\ Holds(r, f) => q = r
        /\ \A r \in Request : Holds(r, f) => Live(f) = {}

\* A refresh token is exchanged for at most one successor: prev_id never names
\* the same token twice, so a family is a chain and not a tree.
RotatedAtMostOnce ==
    \A s, t \in Token : row[s].prev # None /\ row[s].prev = row[t].prev => s = t

\* A token that still passes validateUserForRefresh belongs to a session that
\* was opened with the current password: ResetPassword ends every session
\* opened with an older one, also those whose Login had read the old hash but
\* had not inserted its token when the reset committed.
OldPasswordSessionsDie ==
    \A t \in Token :
        row[t].status = "live" /\ row[t].openedWith # 0
                               /\ row[t].version = tokenVersion[row[t].user]
            => row[t].openedWith = passwordHash[row[t].user]

\* A family with a token, all of whose tokens carry an outdated version, and
\* that no request is past validating.
CutOff(f) ==
    /\ InFamily(f) # {}
    /\ \A t \in InFamily(f) : row[t].version # tokenVersion[row[t].user]
    /\ \A r \in Request : ~(req[r].pc = "issue" /\ req[r].family = f)

\* LogoutAll and ResetPassword are final: once they have cut a family off, no
\* request ever gets another token in it.
LogoutAllIsFinal ==
    [][\A f \in Family : CutOff(f) => CutOff(f)' /\ InFamily(f)' = InFamily(f)]_vars

\* A suspended user for whom no request is past its status check.
Barred(u) ==
    /\ suspended[u]
    /\ \A r \in Request : ~(req[r].pc = "issue" /\ req[r].user = u)

\* As long as a barred user stays suspended no request gets past its status
\* check and no token of the user is inserted, by password, OAuth or refresh.
SuspensionBars ==
    [][\A u \in User : Barred(u) /\ suspended'[u] =>
          /\ Barred(u)'
          /\ \A t \in Token : row'[t].user = u => row[t].user = u]_vars

-----------------------------------------------------------------------------
(* The rows and requests of a family, seen as a line of SessionLine.       *)

LineOf(f) ==
    LET valid == Live(f) IN
    [phase |-> IF valid # {} THEN "live"
               ELSE IF InFamily(f) = {} THEN "none"
               ELSE IF \E r \in Request : Holds(r, f) THEN "busy" ELSE "ended",
     valid |-> valid]

Line == INSTANCE SessionLine WITH
            line <- [f \in Family |-> LineOf(f)],
            spent <- {t \in Token : row[t].status \in {"used", "revoked", "purged"}}

\* Rotation by MarkUsed, RevokeFamily and INSERT implements SessionLine: a family
\* is a line, and one that was revoked, given up or purged never gets a token.
ImplementsLine == Line!Spec

-----------------------------------------------------------------------------
(* The inductive invariant behind the properties above.                    *)

\* A row is blank until it is inserted, and then has an owner and a family.
RowsWellFormed ==
    \A t \in Token :
        /\ row[t].status = "absent" => row[t] = NoRow
        /\ row[t].status # "absent" => row[t].user \in User /\ row[t].family \in Family

\* A successor exists only for a token that a CAS has consumed.
SuccessorsOfUsed ==
    \A t \in Token : row[t].prev # None => row[row[t].prev].status \in {"used", "purged"}

\* The copy that a request carries of its token's immutable columns.
CopyOf(r, t) ==
    /\ row[t].status # "absent"
    /\ req[r].family = row[t].family
    /\ req[r].user = row[t].user
    /\ req[r].version = row[t].version
    /\ req[r].openedWith = row[t].openedWith

ReqsWellFormed ==
    \A r \in Request :
        /\ req[r].pc = "idle" => req[r] = Idle
        /\ req[r].pc # "idle" => req[r].user \in User /\ req[r].family \in Family
        /\ req[r].pc \in {"cas", "validate", "revoke"} => req[r].token # None
        /\ req[r].token # None => CopyOf(r, req[r].token)

\* A request past its CAS is the only one that can give its token a successor.
HoldersConsumed ==
    \A r \in Request :
        req[r].pc \in {"validate", "issue"} /\ req[r].token # None =>
            /\ row[req[r].token].status \in {"used", "purged"}
            /\ \A t \in Token : row[t].prev # req[r].token

\* A login that has not inserted its token yet has its family for itself.
LoginsFresh ==
    \A r \in Request :
        req[r].pc = "issue" /\ req[r].token = None =>
            /\ \A t \in Token : row[t].family # req[r].family
            /\ \A q \in Request : req[q].family = req[r].family => q = r

\* Versions only grow, and a version stands for one password hash.
Epochs ==
    /\ \A t \in Token : row[t].status # "absent" =>
          /\ row[t].version =< tokenVersion[row[t].user]
          /\ row[t].openedWith # 0 /\ row[t].version = tokenVersion[row[t].user]
                => row[t].openedWith = passwordHash[row[t].user]
    /\ \A r \in Request : req[r].pc # "idle" =>
          /\ req[r].version =< tokenVersion[req[r].user]
          /\ req[r].openedWith # 0 /\ req[r].version = tokenVersion[req[r].user]
                => req[r].openedWith = passwordHash[req[r].user]

IInv ==
    /\ TypeOK
    /\ RowsWellFormed
    /\ SuccessorsOfUsed
    /\ ReqsWellFormed
    /\ HoldersConsumed
    /\ LoginsFresh
    /\ Epochs
    /\ OneLivePerFamily
    /\ RotatedAtMostOnce
=============================================================================
