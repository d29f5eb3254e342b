----------------------------- MODULE Directory -----------------------------
(***************************************************************************)
(* The rows of users and companies that connections, bookmarks and public  *)
(* profiles refer to.  There are no foreign keys: every service looks the  *)
(* row up first and writes its own table later.                            *)
(***************************************************************************)
EXTENDS Handlers

CONSTANTS
    User,      \* rows of users
    Company    \* ids of companies, of rows that exist and of rows that do not

ASSUME NoneIsNoRow == None \notin User \cup Company

VARIABLES
    deleted,   \* users with deleted_at set
    owner,     \* companies.owner_user_id, None where there is no row
    memberOf   \* users.company_id

directoryVars == <<deleted, owner, memberOf>>

DirectoryTypeOK ==
    /\ deleted \subseteq User
    /\ owner \in [Company -> User \cup {None}]
    /\ memberOf \in [User -> Company \cup {None}]

\* persistRegistration writes a company with its owner and leaves the owner's
\* company_id NULL.
DirectoryInit ==
    /\ deleted = {}
    /\ owner \in [Company -> User \cup {None}]
    /\ memberOf = [u \in User |-> None]

\* GetByID of the two stores: a soft-deleted user is not found.
Live(u) == u \notin deleted
Exists(c) == owner[c] # None

\* Nothing in the service sets deleted_at or company_id of an existing row: an
\* operator does.
DeleteUser(u) ==
    /\ Live(u)
    /\ deleted' = deleted \cup {u}
    /\ UNCHANGED <<owner, memberOf>>

LinkCompany(u, c) ==
    /\ Exists(c)
    /\ memberOf' = [memberOf EXCEPT ![u] = c]
    /\ UNCHANGED <<deleted, owner>>

DirectoryNext == \E u \in User : DeleteUser(u) \/ \E c \in Company : LinkCompany(u, c)
=============================================================================
