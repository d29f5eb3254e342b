-------------------------- MODULE OAuthIdentities --------------------------
(***************************************************************************)
(* Social login without auto-linking ("Design A"): the auth_identities     *)
(* table, the accounts it leads to, the single-use entries in Redis that   *)
(* carry a flow from one HTTP request to the next, and the requests.       *)
(*                                                                         *)
(* One action is one SQL statement or Redis command with the local checks  *)
(* that follow it.  Any request may end between two of them.               *)
(***************************************************************************)
EXTENDS Naturals, FiniteSets

CONSTANTS
    User,      \* accounts, one per email address (users_email_unique)
    Provider,  \* google, line
    Subject,   \* provider_subject values
    Key,       \* keys of the Redis entries that are of use at the same time
    Request,   \* goroutines serving requests
    None       \* Go nil, empty string

Identity == Provider \X Subject

ASSUME NoneAssumption == None \notin User \cup Identity \cup Key \cup Provider

VARIABLES
    account,   \* users, by email address: none, password or oauth (password_hash NULL)
    identity,  \* auth_identities: user_id by (provider, provider_subject)
    redis,     \* state, one-time code and registration entries, by key
    req,       \* what each request still has to do
    consent,   \* history: providers that the owner of an account chose for it
    linked,    \* history: accounts that have had an identity
    entered,   \* history: accounts for which a session was opened by OAuth
    effect     \* history: sessions opened, accounts made and identities bound by a key

vars == <<account, identity, redis, req, consent, linked, entered, effect>>
history == <<consent, linked, entered, effect>>

-----------------------------------------------------------------------------
(* State.                                                                  *)

\* bind is ForBind of a state entry, user the account of a one-time code and
\* identity the one that a registration waits for.
Entry == [kind: {"absent", "state", "code", "reg"}, provider: Provider \cup {None},
          bind: User \cup {None}, user: User \cup {None}, identity: Identity \cup {None}]

NoEntry == [kind |-> "absent", provider |-> None, bind |-> None, user |-> None,
            identity |-> None]

StateEntry(p, u) == [NoEntry EXCEPT !.kind = "state", !.provider = p, !.bind = u]
RegEntry(i) == [NoEntry EXCEPT !.kind = "reg", !.identity = i]
CodeEntry(u) == [NoEntry EXCEPT !.kind = "code", !.user = u]

\* key is the entry that started the request, email the address it works with
\* and verified what the provider says of it, user the account it acts on.
Req == [pc: {"idle", "lookup", "collision", "regtoken", "insertUser", "insertIdentity",
             "code", "session", "bindCheck", "insertBound", "delete"},
        key: Key \cup {None}, identity: Identity \cup {None}, email: User \cup {None},
        verified: BOOLEAN, user: User \cup {None}, provider: Provider \cup {None}]

Idle == [pc |-> "idle", key |-> None, identity |-> None, email |-> None,
         verified |-> FALSE, user |-> None, provider |-> None]

TypeOK ==
    /\ account \in [User -> {"none", "password", "oauth"}]
    /\ identity \in [Identity -> User \cup {None}]
    /\ redis \in [Key -> Entry]
    /\ \A k \in Key : redis[k].kind = "code" => redis[k].user # None
    /\ req \in [Request -> Req]
    /\ consent \in [User -> SUBSET Provider]
    /\ linked \subseteq User
    /\ entered \subseteq User
    /\ effect \in [Key -> Nat]

Init ==
    /\ account = [u \in User |-> "none"]
    /\ identity = [i \in Identity |-> None]
    /\ redis = [k \in Key |-> NoEntry]
    /\ req = [r \in Request |-> Idle]
    /\ consent = [u \in User |-> {}]
    /\ linked = {}
    /\ entered = {}
    /\ effect = [k \in Key |-> 0]

Bound(u) == {i \in Identity : identity[i] = u}
HasLoginMethod(u) == account[u] = "password" \/ Bound(u) # {}

\* Requests under /v1/me need an access token, from a password login or from
\* an Exchange.
Authenticated(u) == account[u] = "password" \/ u \in entered

\* SET of a key that randBase64URL32 has just made.  Nobody holds it: a key that
\* is neither in Redis nor in a request stands for a new one.
Put(e) ==
    \E k \in Key :
        /\ redis[k].kind = "absent"
        /\ \A r \in Request : req[r].key # k
        /\ redis' = [redis EXCEPT ![k] = e]
        /\ effect' = [effect EXCEPT ![k] = 0]

\* GETDEL: what is read is deleted in the same command.
TakenByGet(k) == redis
Taken(k) == [redis EXCEPT ![k] = NoEntry]

\* The request ends, or goes on as q.
Goto(r, q) == req' = [req EXCEPT ![r] = q]
End(r) == Goto(r, Idle)

-----------------------------------------------------------------------------
(* Starting a flow.                                                        *)

\* AuthService.Register, as far as this module is concerned.
RegisterPassword(u) ==
    /\ account[u] = "none"
    /\ account' = [account EXCEPT ![u] = "password"]
    /\ UNCHANGED <<identity, redis, req, history>>

Start(p) ==
    /\ Put(StateEntry(p, None))
    /\ UNCHANGED <<account, identity, req, consent, linked, entered>>

BindStart(u, p) ==
    /\ Authenticated(u)
    /\ Put(StateEntry(p, u))
    /\ consent' = [consent EXCEPT ![u] = @ \cup {p}]
    /\ UNCHANGED <<account, identity, req, linked, entered>>

\* entry.Provider != provider.
RouteMatchesAny(k, p) == TRUE
RouteMatches(k, p) == redis[k].provider = p

\* HandleCallback up to FetchIdentity: the state is taken even if the route is
\* the wrong one.  The provider then names a subject, and an address or none.
Callback(r, k, i, email, verified) ==
    /\ req[r].pc = "idle"
    /\ redis[k].kind = "state"
    /\ redis' = Taken(k)
    /\ \/ ~RouteMatches(k, i[1]) /\ End(r)
       \/ /\ RouteMatches(k, i[1])
          /\ Goto(r, [Idle EXCEPT
                 !.pc = IF redis[k].bind = None THEN "lookup" ELSE "bindCheck",
                 !.key = k, !.identity = i, !.email = email, !.verified = verified,
                 !.user = redis[k].bind])
    /\ UNCHANGED <<account, identity, history>>

-----------------------------------------------------------------------------
(* The login flow.                                                         *)

\* What a callback does when the address belongs to an account: nothing.
LinkToExisting(r) == Goto(r, [req[r] EXCEPT !.pc = "insertIdentity", !.user = req[r].email])
RefuseCollision(r) == End(r)

\* resolveLoginIdentity, GetByProvider: a known identity logs in; otherwise only
\* an address that the provider vouches for is looked up first.
Lookup(r) ==
    /\ req[r].pc = "lookup"
    /\ \/ /\ identity[req[r].identity] # None
          /\ Goto(r, [req[r] EXCEPT !.pc = "code", !.user = identity[req[r].identity]])
       \/ /\ identity[req[r].identity] = None
          /\ Goto(r, [req[r] EXCEPT !.pc =
                 IF req[r].email = None THEN "regtoken"
                 ELSE IF req[r].verified THEN "collision" ELSE "insertUser"])
    /\ UNCHANGED <<account, identity, redis, history>>

\* GetByEmail of resolveLoginIdentity and of Register.
Collision(r) ==
    /\ req[r].pc = "collision"
    /\ \/ account[req[r].email] # "none" /\ RefuseCollision(r)
       \/ /\ account[req[r].email] = "none"
          /\ Goto(r, [req[r] EXCEPT !.pc = "insertUser"])
    /\ UNCHANGED <<account, identity, redis, history>>

IssueRegToken(r) ==
    /\ req[r].pc = "regtoken"
    /\ Put(RegEntry(req[r].identity))
    /\ End(r)
    /\ UNCHANGED <<account, identity, consent, linked, entered>>

\* Register: the registration token is taken, the client supplies the address.
Register(r, k, email) ==
    /\ req[r].pc = "idle"
    /\ redis[k].kind = "reg"
    /\ redis' = Taken(k)
    /\ Goto(r, [Idle EXCEPT !.pc = "collision", !.key = k,
                            !.identity = redis[k].identity, !.email = email])
    /\ UNCHANGED <<account, identity, history>>

\* createOAuthUser, users.Create: the unique index on the address decides.
InsertUser(r) ==
    /\ req[r].pc = "insertUser"
    /\ \/ /\ account[req[r].email] # "none"
          /\ End(r)
          /\ UNCHANGED <<account, consent>>
       \/ /\ account[req[r].email] = "none"
          /\ account' = [account EXCEPT ![req[r].email] = "oauth"]
          /\ consent' = [consent EXCEPT ![req[r].email] = @ \cup {req[r].identity[1]}]
          /\ Goto(r, [req[r] EXCEPT !.pc = "insertIdentity", !.user = req[r].email])
    /\ UNCHANGED <<identity, redis, linked, entered, effect>>

\* identities.Create of a new account (next: the code) and of a bind (the end).
\* The unique index on (provider, provider_subject) decides; an account that has
\* been inserted for an identity which is taken meanwhile stays without one.
InsertIdentity(r) ==
    /\ req[r].pc \in {"insertIdentity", "insertBound"}
    /\ \/ /\ identity[req[r].identity] # None
          /\ End(r)
          /\ UNCHANGED <<identity, linked, effect>>
       \/ /\ identity[req[r].identity] = None
          /\ identity' = [identity EXCEPT ![req[r].identity] = req[r].user]
          /\ linked' = linked \cup {req[r].user}
          /\ effect' = [effect EXCEPT ![req[r].key] = @ + 1]
          /\ \/ req[r].pc = "insertBound" /\ End(r)
             \/ req[r].pc = "insertIdentity" /\ Goto(r, [req[r] EXCEPT !.pc = "code"])
    /\ UNCHANGED <<account, redis, consent, entered>>

\* The account that a one-time code names.
CodeUserNil(r) == None
CodeUser(r) == req[r].user

IssueOneTimeCode(r) ==
    /\ req[r].pc = "code"
    /\ Put(CodeEntry(CodeUser(r)))
    /\ End(r)
    /\ UNCHANGED <<account, identity, consent, linked, entered>>

\* Exchange: the code is taken, then the user is read and the tokens inserted.
Exchange(r, k) ==
    /\ req[r].pc = "idle"
    /\ redis[k].kind = "code"
    /\ redis' = Taken(k)
    /\ Goto(r, [Idle EXCEPT !.pc = "session", !.key = k, !.user = redis[k].user])
    /\ UNCHANGED <<account, identity, history>>

IssueTokens(r) ==
    /\ req[r].pc = "session"
    /\ entered' = entered \cup {req[r].user}
    /\ effect' = [effect EXCEPT ![req[r].key] = @ + 1]
    /\ End(r)
    /\ UNCHANGED <<account, identity, redis, consent, linked>>

-----------------------------------------------------------------------------
(* Binding and unbinding.                                                  *)

\* handleBindCallback: the identity must not be bound to anybody.
BindCheck(r) ==
    /\ req[r].pc = "bindCheck"
    /\ \/ identity[req[r].identity] # None /\ End(r)
       \/ /\ identity[req[r].identity] = None
          /\ Goto(r, [req[r] EXCEPT !.pc = "insertBound"])
    /\ UNCHANGED <<account, identity, redis, history>>

\* The guard of Unbind: a password, or an identity of another provider.
KeepsLoginMethod(u, p) == account[u] = "password" \/ \E i \in Bound(u) : i[1] # p

\* Unbind up to the DELETE.  Whether an account has a password never changes, so
\* GetByID and ListByUserID are one step.
UnbindRead(r, u, p) ==
    /\ req[r].pc = "idle"
    /\ Authenticated(u)
    /\ KeepsLoginMethod(u, p)
    /\ Goto(r, [Idle EXCEPT !.pc = "delete", !.user = u, !.provider = p])
    /\ UNCHANGED <<account, identity, redis, history>>

DeleteByUserAndProvider(r) ==
    /\ req[r].pc = "delete"
    /\ identity' = [i \in Identity |->
           IF identity[i] = req[r].user /\ i[1] = req[r].provider THEN None ELSE identity[i]]
    /\ End(r)
    /\ UNCHANGED <<account, redis, history>>

-----------------------------------------------------------------------------

\* A statement or command fails, the provider refuses the code, the account is
\* suspended, the context is canceled or the process dies.
Abort(r) ==
    /\ req[r].pc # "idle"
    /\ End(r)
    /\ UNCHANGED <<account, identity, redis, history>>

\* The lifetime of an entry ends.
Expire(k) ==
    /\ redis[k].kind # "absent"
    /\ redis' = [redis EXCEPT ![k] = NoEntry]
    /\ UNCHANGED <<account, identity, req, history>>

Next ==
    \/ \E u \in User :
        \/ RegisterPassword(u)
        \/ \E p \in Provider : BindStart(u, p)
    \/ \E p \in Provider : Start(p)
    \/ \E r \in Request :
        \/ \E k \in Key, i \in Identity, email \in User \cup {None}, verified \in BOOLEAN :
            Callback(r, k, i, email, verified)
        \/ Lookup(r)
        \/ Collision(r)
        \/ IssueRegToken(r)
        \/ \E k \in Key, email \in User : Register(r, k, email)
        \/ InsertUser(r)
        \/ InsertIdentity(r)
        \/ IssueOneTimeCode(r)
        \/ \E k \in Key : Exchange(r, k)
        \/ IssueTokens(r)
        \/ BindCheck(r)
        \/ \E u \in User, p \in Provider : UnbindRead(r, u, p)
        \/ DeleteByUserAndProvider(r)
        \/ Abort(r)
    \/ \E k \in Key : Expire(k)

Spec == Init /\ [][Next]_vars

-----------------------------------------------------------------------------
(* Properties.                                                             *)

\* Design A, "NEVER auto-link": an identity leads to an account only because the
\* account was made from it, or because the owner of the account has started a
\* bind for that very provider; no address, race or mixed-up route links them.
BoundByConsent == \A i \in Identity : identity[i] # None => i[1] \in consent[identity[i]]

\* A state, a registration token and a one-time code work once: two requests
\* that present the same one open one session, make one account or bind one
\* identity between them.
WorksOnce == \A k \in Key : effect[k] =< 1

\* An account that nobody has entered, with neither password nor identity, and
\* with no code or request on its way to it.
Closed(u) ==
    /\ account[u] = "oauth"
    /\ u \notin entered
    /\ Bound(u) = {}
    /\ \A k \in Key : redis[k].bind # u /\ redis[k].user # u
    /\ \A r \in Request : req[r].user # u

\* What createOAuthUser leaves behind when it stops between its two inserts
\* cannot be entered by anybody: a later login with the same address, even one
\* that the provider vouches for, never takes the account over.
ClosedStaysClosed == [][\A u \in User : Closed(u) => Closed(u)']_vars

\* Unbind "rejects if doing so would leave the user with no login method": an
\* account that has had an identity always has a way to log in.
LastLoginMethodKept == \A u \in linked : HasLoginMethod(u)
-----------------------------------------------------------------------------
(* The inductive invariant behind the properties above.                    *)

\* Whatever carries a flow to the insert of an identity was chosen by the owner
\* of the account.
FlowsByConsent ==
    /\ \A k \in Key : redis[k].bind # None => redis[k].provider \in consent[redis[k].bind]
    /\ \A r \in Request :
        req[r].pc \in {"insertIdentity", "bindCheck", "insertBound"} =>
            req[r].user \in User /\ req[r].identity[1] \in consent[req[r].user]

\* A request has what its next step needs.
ReqsWellFormed ==
    \A r \in Request :
        /\ req[r].pc \notin {"idle", "delete"} => req[r].key \in Key
        /\ req[r].pc \in {"lookup", "collision", "regtoken", "insertUser", "insertIdentity",
                          "bindCheck", "insertBound"} => req[r].identity \in Identity
        /\ req[r].pc \in {"collision", "insertUser"} => req[r].email \in User
        /\ req[r].pc \in {"code", "session", "delete"} => req[r].user \in User

EntriesWellFormed ==
    \A k \in Key :
        /\ redis[k].kind = "absent" => redis[k] = NoEntry
        /\ redis[k].kind = "state" => redis[k].provider \in Provider
        /\ redis[k].kind = "reg" => redis[k].identity \in Identity

\* A key is in Redis or with one request, and has had no effect as long as it is
\* in Redis or its request has yet to act on it.
KeysUnspent ==
    /\ \A k \in Key : redis[k].kind # "absent" =>
          effect[k] = 0 /\ \A r \in Request : req[r].key # k
    /\ \A q, r \in Request : req[q].key # None /\ req[q].key = req[r].key => q = r
    /\ \A r \in Request : req[r].key # None /\ req[r].pc # "code" => effect[req[r].key] = 0

IInv ==
    /\ TypeOK
    /\ ReqsWellFormed
    /\ EntriesWellFormed
    /\ FlowsByConsent
    /\ KeysUnspent
    /\ BoundByConsent
    /\ WorksOnce
=============================================================================
