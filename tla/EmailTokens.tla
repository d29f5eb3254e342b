---------------------------- MODULE EmailTokens ----------------------------
(***************************************************************************)
(* Links sent by email: the tables email_verification_tokens and           *)
(* password_reset_tokens, the account they act on, the detached goroutine  *)
(* that mails a link, and the requests that issue and redeem links.        *)
(*                                                                         *)
(* One action is one SQL statement (or one commit) together with the local *)
(* checks that follow it.  A statement of an open transaction holds a row  *)
(* lock: its effect is invisible to others until the commit, and another   *)
(* statement that needs the row waits.                                     *)
(***************************************************************************)
EXTENDS Naturals, FiniteSets

CONSTANTS
    User,               \* accounts, one per email address (users_email_unique)
    VerificationToken,  \* ids that email_verification_tokens can hold
    ResetToken,         \* ids that password_reset_tokens can hold
    Request,            \* goroutines serving requests
    None,               \* Go nil
    MaxTier,            \* largest kyc_tier
    MaxLogouts          \* bound: how often one user logs out everywhere

ASSUME TokenAssumption == VerificationToken \cap ResetToken = {}
ASSUME NoneAssumption == None \notin User \cup VerificationToken \cup ResetToken
ASSUME FiniteAssumption == IsFiniteSet(ResetToken)
ASSUME MaxTierAssumption == MaxTier \in Nat \ {0}

VARIABLES
    account,  \* users, by email address
    link,     \* both token tables, by id
    req       \* what each request still has to do

vars == <<account, link, req>>

Token == VerificationToken \cup ResetToken

-----------------------------------------------------------------------------
(* State.                                                                  *)

\* hash is password_hash: 0 for NULL, n > 0 for the n-th hash stored.  trusted
\* and logouts are history fields: the OAuth provider vouched for the address
\* when the account was made; how often LogoutAll bumped the version.
Account == [exists: BOOLEAN, verified: BOOLEAN, trusted: BOOLEAN, suspended: BOOLEAN,
            hash: Nat, version: Nat, logouts: Nat, tier: 0..MaxTier]

NoAccount == [exists |-> FALSE, verified |-> FALSE, trusted |-> FALSE,
              suspended |-> FALSE, hash |-> 0, version |-> 0, logouts |-> 0, tier |-> 0]

NewAccount(trusted, hash) ==
    [exists |-> TRUE, verified |-> trusted, trusted |-> trusted,
     suspended |-> FALSE, hash |-> hash, version |-> 0, logouts |-> 0, tier |-> 0]

\* "consumed": consumed_at (used_at) is set, by a redemption or because a newer
\* link was asked for; the history field redeemed tells the two apart.
\* delivered: the mail with the raw token has arrived, so it can be presented.
Link == [status: {"absent", "outstanding", "consumed", "purged"},
         user: User \cup {None}, expired: BOOLEAN, delivered: BOOLEAN,
         redeemed: BOOLEAN]

NoLink == [status |-> "absent", user |-> None, expired |-> FALSE,
           delivered |-> FALSE, redeemed |-> FALSE]

\* Issuing a link: invalidate, then create.  Redeeming one: hash (the new
\* password is being hashed), mark, marked (first statement of the transaction
\* done), written (second one done), and the commit.
Req == [pc: {"idle", "invalidate", "create", "hash", "mark", "marked", "written"},
        table: {"none", "verification", "reset"},
        user: User \cup {None}, token: Token \cup {None}]

Idle == [pc |-> "idle", table |-> "none", user |-> None, token |-> None]

TypeOK ==
    /\ account \in [User -> Account]
    /\ link \in [Token -> Link]
    /\ req \in [Request -> Req]

Init ==
    /\ account = [u \in User |-> NoAccount]
    /\ link = [t \in Token |-> NoLink]
    /\ req = [r \in Request |-> Idle]

Rows(table) == IF table = "reset" THEN ResetToken ELSE VerificationToken
Outstanding(u, table) ==
    {t \in Rows(table) : link[t].user = u /\ link[t].status = "outstanding"}
Redeemed(u, table) == {t \in Rows(table) : link[t].user = u /\ link[t].redeemed}

\* Rows that an open transaction has written.
TokenLocked(t) == \E r \in Request : req[r].pc \in {"marked", "written"} /\ req[r].token = t
UserLocked(u) == \E r \in Request : req[r].pc = "written" /\ req[r].user = u

NewLink(u) == [status |-> "outstanding", user |-> u, expired |-> FALSE,
               delivered |-> FALSE, redeemed |-> FALSE]

RedeemedLink(l) == [l EXCEPT !.status = "consumed", !.redeemed = TRUE]

-----------------------------------------------------------------------------
(* Accounts.                                                               *)

\* Register and persistRegistration: user, company and verification token are
\* inserted in one transaction, then the mail is dispatched.  The unique index
\* on the email refuses a second account for an address, and the transaction.
Register(u) ==
    /\ ~account[u].exists
    /\ account' = [account EXCEPT ![u] = NewAccount(FALSE, 1)]
    /\ \E t \in VerificationToken :
        /\ link[t].status = "absent"
        /\ link' = [link EXCEPT ![t] = NewLink(u)]
    /\ UNCHANGED req

\* createOAuthUser with the address that the provider reported: no password,
\* and verified if the provider says so.
CreateOAuthUser(u, trusted) ==
    /\ ~account[u].exists
    /\ account' = [account EXCEPT ![u] = NewAccount(trusted, 0)]
    /\ UNCHANGED <<link, req>>

\* OAuth Register: the account is committed unverified before its verification
\* token is inserted by a statement of its own.
OAuthRegister(r, u) ==
    /\ req[r].pc = "idle"
    /\ ~account[u].exists
    /\ account' = [account EXCEPT ![u] = NewAccount(FALSE, 0)]
    /\ req' = [req EXCEPT ![r] =
           [pc |-> "create", table |-> "verification", user |-> u, token |-> None]]
    /\ UNCHANGED link

\* UpdateKYCTier, for an approved verification: only ever upwards.
UpdateKYCTier(u, tier) ==
    /\ account[u].exists
    /\ ~UserLocked(u)
    /\ account[u].tier < tier
    /\ account' = [account EXCEPT ![u].tier = tier]
    /\ UNCHANGED <<link, req>>

\* LogoutAll: BumpTokenVersion outside a transaction.  It waits for the row.
LogoutAll(u) ==
    /\ account[u].exists
    /\ account[u].logouts < MaxLogouts
    /\ ~UserLocked(u)
    /\ account' = [account EXCEPT ![u].version = @ + 1, ![u].logouts = @ + 1]
    /\ UNCHANGED <<link, req>>

\* users.status is written by operators, outside this service.
SetSuspended(u, b) ==
    /\ account[u].exists
    /\ ~UserLocked(u)
    /\ account[u].suspended # b
    /\ account' = [account EXCEPT ![u].suspended = b]
    /\ UNCHANGED <<link, req>>

-----------------------------------------------------------------------------
(* Issuing a link.                                                         *)

\* ResendVerification up to InvalidateForUser.
ResendRead(r, u) ==
    /\ req[r].pc = "idle"
    /\ account[u].exists
    /\ ~account[u].verified
    /\ req' = [req EXCEPT ![r] =
           [pc |-> "invalidate", table |-> "verification", user |-> u, token |-> None]]
    /\ UNCHANGED <<account, link>>

\* The policy gates of ForgotPassword.
MayResetIfVerified(u) == account[u].verified /\ ~account[u].suspended
MayReset(u) == account[u].verified /\ account[u].hash # 0 /\ ~account[u].suspended

\* ForgotPassword up to InvalidateForUser.
ForgotRead(r, u) ==
    /\ req[r].pc = "idle"
    /\ account[u].exists
    /\ MayReset(u)
    /\ req' = [req EXCEPT ![r] =
           [pc |-> "invalidate", table |-> "reset", user |-> u, token |-> None]]
    /\ UNCHANGED <<account, link>>

\* InvalidateForUser: one UPDATE of the user's unconsumed rows, expired or not.
InvalidateForUser(r) ==
    /\ req[r].pc = "invalidate"
    /\ \A t \in Outstanding(req[r].user, req[r].table) : ~TokenLocked(t)
    /\ link' = [t \in Token |->
           IF t \in Outstanding(req[r].user, req[r].table)
           THEN [link[t] EXCEPT !.status = "consumed"] ELSE link[t]]
    /\ req' = [req EXCEPT ![r].pc = "create"]
    /\ UNCHANGED account

\* Create: the new row is inserted and the mail dispatched.
Create(r) ==
    /\ req[r].pc = "create"
    /\ \E t \in Rows(req[r].table) :
        /\ link[t].status = "absent"
        /\ link' = [link EXCEPT ![t] = NewLink(req[r].user)]
    /\ req' = [req EXCEPT ![r] = Idle]
    /\ UNCHANGED account

\* The detached goroutine gets the mail through.  A mail that fails, or that a
\* shutdown drops, is one for which this never happens.
Deliver(t) ==
    /\ link[t].status # "absent"
    /\ ~link[t].delivered
    /\ link' = [link EXCEPT ![t].delivered = TRUE]
    /\ UNCHANGED <<account, req>>

-----------------------------------------------------------------------------
(* Redeeming a link.                                                       *)

\* VerifyEmail up to its transaction: the row is read by hash and checked.
VerifyRead(r, t) ==
    /\ req[r].pc = "idle"
    /\ link[t].delivered
    /\ link[t].status = "outstanding"
    /\ ~link[t].expired
    /\ req' = [req EXCEPT ![r] =
           [pc |-> "mark", table |-> "verification", user |-> link[t].user, token |-> t]]
    /\ UNCHANGED <<account, link>>

\* ResetPassword up to the hashing of the new password.
ResetRead(r, t) ==
    /\ req[r].pc = "idle"
    /\ link[t].delivered
    /\ link[t].status = "outstanding"
    /\ ~link[t].expired
    /\ req' = [req EXCEPT ![r] =
           [pc |-> "hash", table |-> "reset", user |-> link[t].user, token |-> t]]
    /\ UNCHANGED <<account, link>>

\* The hash is computed and now is taken.  expires_at never changes, so MarkUsed
\* of password_reset_tokens, which compares it with this now, has its verdict
\* on expiry here; a late one updates no row and the request ends.
HashedAnyTime(r) == TRUE
HashedInTime(r) == ~link[req[r].token].expired
HashPassword(r) ==
    /\ req[r].pc = "hash"
    /\ \/ HashedInTime(r) /\ req' = [req EXCEPT ![r].pc = "mark"]
       \/ ~HashedInTime(r) /\ req' = [req EXCEPT ![r] = Idle]
    /\ UNCHANGED <<account, link>>

\* WHERE consumed_at IS NULL (used_at IS NULL).
MarkMatchesAny(t) == link[t].status \in {"outstanding", "consumed"}
MarkMatches(t) == link[t].status = "outstanding"

\* What a plain statement in place of the transaction would do: the row is
\* consumed for all to see.
MarkOutsideTx(r) ==
    /\ req[r].pc = "mark"
    /\ ~TokenLocked(req[r].token)
    /\ \/ /\ MarkMatches(req[r].token)
          /\ link' = [link EXCEPT ![req[r].token] = RedeemedLink(@)]
          /\ req' = [req EXCEPT ![r].pc = "marked"]
       \/ /\ ~MarkMatches(req[r].token)
          /\ req' = [req EXCEPT ![r] = Idle]
          /\ UNCHANGED link
    /\ UNCHANGED account

\* MarkConsumed / MarkUsed, first statement of the transaction.  It waits for
\* another transaction on the row, and ends the request if no row matches.
Mark(r) ==
    /\ req[r].pc = "mark"
    /\ ~TokenLocked(req[r].token)
    /\ \/ MarkMatches(req[r].token) /\ req' = [req EXCEPT ![r].pc = "marked"]
       \/ ~MarkMatches(req[r].token) /\ req' = [req EXCEPT ![r] = Idle]
    /\ UNCHANGED <<account, link>>

\* SetEmailVerified, or SetPasswordHash and BumpTokenVersion: the transaction
\* now holds the user's row.
WriteUser(r) ==
    /\ req[r].pc = "marked"
    /\ ~UserLocked(req[r].user)
    /\ req' = [req EXCEPT ![r].pc = "written"]
    /\ UNCHANGED <<account, link>>

\* SET kyc_tier = GREATEST(kyc_tier, 1).
PromoteToOne(tier) == 1
PromoteByOne(tier) == tier + 1
Promote(tier) == IF tier < 1 THEN 1 ELSE tier

\* The two transactions' effect on the user's row.
SetEmailVerified(a) == [a EXCEPT !.verified = TRUE, !.tier = Promote(@)]
SetPasswordHash(a) == [a EXCEPT !.hash = @ + 1, !.version = @ + 1]

Commit(r) ==
    /\ req[r].pc = "written"
    /\ link' = [link EXCEPT ![req[r].token] = RedeemedLink(@)]
    /\ \/ /\ req[r].table = "verification"
          /\ account' = [account EXCEPT ![req[r].user] = SetEmailVerified(@)]
       \/ /\ req[r].table = "reset"
          /\ account' = [account EXCEPT ![req[r].user] = SetPasswordHash(@)]
    /\ req' = [req EXCEPT ![r] = Idle]

\* A statement fails, the context is canceled or the process dies: an open
\* transaction is rolled back, committed statements stay.
Abort(r) ==
    /\ req[r].pc # "idle"
    /\ req' = [req EXCEPT ![r] = Idle]
    /\ UNCHANGED <<account, link>>

-----------------------------------------------------------------------------
(* Time.                                                                   *)

\* expires_at passes.
Expire(t) ==
    /\ link[t].status \in {"outstanding", "consumed"}
    /\ ~link[t].expired
    /\ link' = [link EXCEPT ![t].expired = TRUE]
    /\ UNCHANGED <<account, req>>

\* The two db:gc tasks delete rows seven days after their expiry: longer than
\* any request that has read the row runs.
Purge(t) ==
    /\ link[t].status \in {"outstanding", "consumed"}
    /\ link[t].expired
    /\ \A r \in Request : req[r].token # t
    /\ link' = [link EXCEPT ![t].status = "purged"]
    /\ UNCHANGED <<account, req>>

Next ==
    \/ \E u \in User :
        \/ Register(u) \/ LogoutAll(u)
        \/ \E b \in BOOLEAN : CreateOAuthUser(u, b) \/ SetSuspended(u, b)
        \/ \E tier \in 1..MaxTier : UpdateKYCTier(u, tier)
    \/ \E r \in Request :
        \/ \E u \in User : OAuthRegister(r, u) \/ ResendRead(r, u) \/ ForgotRead(r, u)
        \/ InvalidateForUser(r)
        \/ Create(r)
        \/ \E t \in VerificationToken : VerifyRead(r, t)
        \/ \E t \in ResetToken : ResetRead(r, t)
        \/ HashPassword(r)
        \/ Mark(r)
        \/ WriteUser(r)
        \/ Commit(r)
        \/ Abort(r)
    \/ \E t \in Token : Deliver(t) \/ Expire(t) \/ Purge(t)

Spec == Init /\ [][Next]_vars

-----------------------------------------------------------------------------
(* Properties.                                                             *)

\* A verification link is never lost to a crash: an address is verified exactly
\* when its provider vouched for it or one of its links was redeemed, and then
\* it has reached tier 1.  A link that VerifyEmail has consumed without
\* verifying the account would lock the user out.
VerifiedByLink ==
    \A u \in User :
        /\ account[u].verified
              <=> account[u].trusted \/ Redeemed(u, "verification") # {}
        /\ Redeemed(u, "verification") # {} => account[u].tier >= 1

\* Every reset link sets the password exactly once and with it ends the
\* sessions: the hashes stored are one more than the links redeemed, and the
\* version was bumped once for each of them and once for each LogoutAll, however
\* requests for the same or for two links and logouts interleave or die.
ResetsAccounted ==
    \A u \in User :
        /\ account[u].version = Cardinality(Redeemed(u, "reset")) + account[u].logouts
        /\ account[u].hash # 0 =>
              account[u].hash = 1 + Cardinality(Redeemed(u, "reset"))

\* ForgotPassword checks its policy on a copy of the account; still no reset
\* link ever exists for an account that is unverified or has no password, so
\* an OAuth-only account never gets one this way.
ResetNeedsPassword ==
    \A t \in ResetToken : link[t].status # "absent" =>
        account[link[t].user].verified /\ account[link[t].user].hash # 0

\* A link that was superseded, or has expired with no request past its check.
Dead(t) ==
    /\ link[t].status # "absent"
    /\ ~link[t].redeemed
    /\ \/ link[t].status \in {"consumed", "purged"}
       \/ /\ link[t].expired
          /\ \A r \in Request :
                req[r].token = t => req[r].pc \notin {"mark", "marked", "written"}

\* Dead links stay dead: no interleaving of a resend, a slow password hash and
\* the expiry lets a request redeem one.
DeadLinksStayDead == [][\A t \in Token : Dead(t) => Dead(t)']_vars

\* A KYC event, an email verification, a reset and a LogoutAll that race for the
\* user's row never lower its tier or its token version.
TierNeverDrops ==
    [][\A u \in User : /\ account[u].tier =< account'[u].tier
                       /\ account[u].version =< account'[u].version]_vars

\* "Invalidate prior outstanding tokens so only the newest token is usable":
\* an account never has two outstanding links of a kind.
OnlyNewestUsable ==
    \A u \in User, table \in {"verification", "reset"} :
        \A s, t \in Outstanding(u, table) : s = t

-----------------------------------------------------------------------------
(* The inductive invariant behind the properties above.                    *)

\* A row is blank until it is inserted, and then belongs to an account.
LinksWellFormed ==
    \A t \in Token :
        /\ link[t].status = "absent" => link[t] = NoLink
        /\ link[t].status # "absent" => link[t].user \in User /\ account[link[t].user].exists
        /\ link[t].redeemed => link[t].status \in {"consumed", "purged"}

\* What a request carries agrees with the rows it has read.
ReqsWellFormed ==
    \A r \in Request :
        /\ req[r].pc = "idle" => req[r] = Idle
        /\ req[r].pc # "idle" => /\ req[r].user \in User
                                 /\ account[req[r].user].exists
                                 /\ req[r].table # "none"
        /\ req[r].pc \in {"invalidate", "create"} => req[r].token = None
        /\ req[r].pc \in {"hash", "mark", "marked", "written"} =>
              /\ req[r].token \in Rows(req[r].table)
              /\ link[req[r].token].user = req[r].user
              /\ link[req[r].token].status \in {"outstanding", "consumed"}

\* An open transaction has its token row, and a written user row, to itself.
LocksHeld ==
    \A r \in Request :
        /\ req[r].pc \in {"marked", "written"} =>
              /\ link[req[r].token].status = "outstanding"
              /\ \A q \in Request : req[q].pc \in {"marked", "written"}
                                       /\ req[q].token = req[r].token => q = r
        /\ req[r].pc = "written" =>
              \A q \in Request : req[q].pc = "written" /\ req[q].user = req[r].user => q = r

\* A request that is about to create a reset link has seen an eligible account.
ForgotEligible ==
    \A r \in Request : req[r].table = "reset" =>
        account[req[r].user].verified /\ account[req[r].user].hash # 0

\* An account that does not exist yet is blank.
AccountsWellFormed == \A u \in User : ~account[u].exists => account[u] = NoAccount

IInv ==
    /\ TypeOK
    /\ AccountsWellFormed
    /\ LinksWellFormed
    /\ ReqsWellFormed
    /\ LocksHeld
    /\ ForgotEligible
    /\ VerifiedByLink
    /\ ResetsAccounted
    /\ ResetNeedsPassword
=============================================================================
