----------------------- MODULE OAuthIdentitiesProofs -----------------------
(* Proofs of the safety properties of OAuthIdentities, for every set of    *)
(* accounts, providers, subjects, keys and requests.                       *)
EXTENDS OAuthIdentities, TLAPS

\* What the invariant asks of one request.
ReqOK(q) ==
    /\ q.pc \notin {"idle", "delete"} => q.key \in Key
    /\ q.pc \in {"lookup", "collision", "regtoken", "insertUser", "insertIdentity",
                 "bindCheck", "insertBound"} => q.identity \in Identity
    /\ q.pc \in {"collision", "insertUser"} => q.email \in User
    /\ q.pc \in {"code", "session", "delete"} => q.user \in User

FlowOK(q, c) ==
    q.pc \in {"insertIdentity", "bindCheck", "insertBound"} =>
        q.user \in User /\ q.identity[1] \in c[q.user]

\* What it asks of one entry in Redis.
EntryOK(e, c) ==
    /\ e.kind = "code" => e.user # None
    /\ e.kind = "absent" => e = NoEntry
    /\ e.kind = "state" => e.provider \in Provider
    /\ e.kind = "reg" => e.identity \in Identity
    /\ e.bind # None => e.provider \in c[e.bind]

\* The owners' choices only become more.
Grows(c, d) == \A u \in User : c[u] \subseteq d[u]

-----------------------------------------------------------------------------
(* Requests and entries.                                                   *)

\* A request that has ended satisfies everything.
LEMMA IdleOK == Idle \in Req /\ Idle.key = None /\ ReqOK(Idle) /\ \A c : FlowOK(Idle, c)
  BY DEF Idle, Req, ReqOK, FlowOK

\* So does an entry that is not there.
LEMMA NoEntryOK == NoEntry \in Entry /\ \A c : EntryOK(NoEntry, c)
  BY DEF NoEntry, Entry, EntryOK

\* The identity of a provider and a subject names that provider.
LEMMA IdentityProvider == \A i \in Identity : i[1] \in Provider
  BY DEF Identity

\* The invariant, request by request and entry by entry.
LEMMA Pointwise ==
    ASSUME IInv
    PROVE  /\ \A r \in Request : req[r] \in Req /\ ReqOK(req[r]) /\ FlowOK(req[r], consent)
           /\ \A k \in Key : redis[k] \in Entry /\ EntryOK(redis[k], consent)
  BY DEF IInv, TypeOK, ReqsWellFormed, EntriesWellFormed, FlowsByConsent, ReqOK, FlowOK,
         EntryOK

\* Init establishes the invariant: no account, no identity, no entry, no request.
LEMMA InitIInv == Init => IInv
  <1> SUFFICES ASSUME Init PROVE IInv
    OBVIOUS
  <1> USE DEF Init
  <1>1. TypeOK BY IdleOK, NoEntryOK DEF TypeOK, EntryOK
  <1>2. ReqsWellFormed BY DEF ReqsWellFormed, Idle
  <1>3. EntriesWellFormed BY DEF EntriesWellFormed, NoEntry
  <1>4. FlowsByConsent BY DEF FlowsByConsent, Idle, NoEntry
  <1>5. KeysUnspent BY DEF KeysUnspent, Idle, NoEntry
  <1>6. BoundByConsent /\ WorksOnce BY DEF BoundByConsent, WorksOnce
  <1> QED BY <1>1, <1>2, <1>3, <1>4, <1>5, <1>6 DEF IInv

\* A request goes on as q with the key it has, or ends; accounts may be made.
LEMMA GoOn ==
    ASSUME IInv, NEW r \in Request, NEW q \in Req, Goto(r, q),
           q.key = req[r].key \/ q.key = None,
           q.key # None /\ q.pc # "code" => effect[q.key] = 0,
           ReqOK(q), FlowOK(q, consent'),
           account' \in [User -> {"none", "password", "oauth"}],
           consent' \in [User -> SUBSET Provider], Grows(consent, consent'),
           UNCHANGED <<identity, redis, linked, entered, effect>>
    PROVE  IInv'
  <1>1. \A s \in Request : req'[s] = IF s = r THEN q ELSE req[s]
    BY DEF Goto, IInv, TypeOK
  <1>2. TypeOK'
    BY DEF Goto, IInv, TypeOK
  <1>3. ReqsWellFormed'
    BY <1>1 DEF IInv, ReqsWellFormed, ReqOK
  <1>4. EntriesWellFormed' /\ WorksOnce'
    BY DEF IInv, EntriesWellFormed, WorksOnce
  <1>5. FlowsByConsent'
    <2>1. \A k \in Key : redis[k].bind \in User \cup {None}
      BY DEF IInv, TypeOK, Entry
    <2>2. \A k \in Key : redis[k].bind # None => redis[k].provider \in consent'[redis[k].bind]
      BY <2>1 DEF IInv, FlowsByConsent, Grows
    <2>3. \A s \in Request : FlowOK(req'[s], consent')
      BY <1>1 DEF IInv, FlowsByConsent, FlowOK, Grows
    <2> QED BY <2>2, <2>3 DEF FlowsByConsent, FlowOK
  <1>6. KeysUnspent'
    <2>1. \A k \in Key : redis[k].kind # "absent" =>
             effect[k] = 0 /\ \A s \in Request : req'[s].key # k
      BY <1>1, NoneAssumption DEF IInv, KeysUnspent
    <2>2. \A s, t \in Request : req'[s].key # None /\ req'[s].key = req'[t].key => s = t
      BY <1>1 DEF IInv, KeysUnspent
    <2>3. \A s \in Request : req'[s].key # None /\ req'[s].pc # "code" => effect[req'[s].key] = 0
      BY <1>1 DEF IInv, KeysUnspent
    <2> QED BY <2>1, <2>2, <2>3 DEF KeysUnspent
  <1>7. BoundByConsent'
    BY DEF IInv, TypeOK, BoundByConsent, Grows
  <1> QED BY <1>2, <1>3, <1>4, <1>5, <1>6, <1>7 DEF IInv

\* A request takes an entry out of Redis and goes on as q.
LEMMA Takes ==
    ASSUME IInv, NEW r \in Request, NEW k \in Key, NEW q \in Req, Goto(r, q),
           redis[k].kind # "absent", redis' = Taken(k),
           q.key = k \/ q.key = None, ReqOK(q), FlowOK(q, consent),
           UNCHANGED <<account, identity, history>>
    PROVE  IInv'
  <1>1. \A s \in Request : req'[s] = IF s = r THEN q ELSE req[s]
    BY DEF Goto, IInv, TypeOK
  <1>2. \A j \in Key : redis'[j] = IF j = k THEN NoEntry ELSE redis[j]
    BY DEF Taken, IInv, TypeOK
  <1>3. UNCHANGED <<account, identity, consent, linked, entered, effect>>
    BY DEF history
  <1>4. TypeOK'
    <2>1. redis' \in [Key -> Entry]
      BY NoEntryOK DEF Taken, IInv, TypeOK
    <2>2. req' \in [Request -> Req]
      BY DEF Goto, IInv, TypeOK
    <2>3. \A j \in Key : redis'[j].kind = "code" => redis'[j].user # None
      BY <1>2, NoEntryOK DEF EntryOK, IInv, TypeOK
    <2> QED BY <1>3, <2>1, <2>2, <2>3 DEF IInv, TypeOK
  <1>5. ReqsWellFormed'
    BY <1>1 DEF IInv, ReqsWellFormed, ReqOK
  <1>6. EntriesWellFormed' /\ WorksOnce'
    BY <1>2, <1>3, NoEntryOK DEF IInv, EntriesWellFormed, WorksOnce, EntryOK
  <1>7. FlowsByConsent'
    <2>1. \A j \in Key : redis'[j].bind # None => redis'[j].provider \in consent[redis'[j].bind]
      BY <1>2, NoEntryOK DEF IInv, FlowsByConsent, EntryOK
    <2>2. \A s \in Request : FlowOK(req'[s], consent)
      BY <1>1 DEF IInv, FlowsByConsent, FlowOK
    <2> QED BY <1>3, <2>1, <2>2 DEF FlowsByConsent, FlowOK
  <1>8. KeysUnspent'
    <2>1. effect[k] = 0 /\ \A s \in Request : req[s].key # k
      BY DEF IInv, KeysUnspent
    <2>2. \A j \in Key : redis'[j].kind # "absent" =>
             effect[j] = 0 /\ \A s \in Request : req'[s].key # j
      BY <1>1, <1>2, NoneAssumption DEF IInv, KeysUnspent, NoEntry
    <2>3. \A s, t \in Request : req'[s].key # None /\ req'[s].key = req'[t].key => s = t
      BY <1>1, <2>1 DEF IInv, KeysUnspent
    <2>4. \A s \in Request : req'[s].key # None /\ req'[s].pc # "code" => effect[req'[s].key] = 0
      BY <1>1, <2>1 DEF IInv, KeysUnspent
    <2> QED BY <1>3, <2>2, <2>3, <2>4 DEF KeysUnspent
  <1>9. BoundByConsent'
    BY <1>3 DEF IInv, BoundByConsent
  <1> QED BY <1>4, <1>5, <1>6, <1>7, <1>8, <1>9 DEF IInv

\* An entry is put under a key that nobody holds; a request may end with it.
LEMMA Puts ==
    ASSUME IInv, NEW e \in Entry, Put(e), EntryOK(e, consent'), e.kind # "absent",
           req' \in [Request -> Req],
           \A s \in Request : req'[s] = req[s] \/ req'[s] = Idle,
           consent' \in [User -> SUBSET Provider], Grows(consent, consent'),
           UNCHANGED <<account, identity, linked, entered>>
    PROVE  IInv'
  <1>1. PICK k \in Key : /\ redis[k].kind = "absent"
                         /\ \A s \in Request : req[s].key # k
                         /\ redis' = [redis EXCEPT ![k] = e]
                         /\ effect' = [effect EXCEPT ![k] = 0]
    BY DEF Put
  <1>2. \A j \in Key : redis'[j] = IF j = k THEN e ELSE redis[j]
    BY <1>1 DEF IInv, TypeOK
  <1>3. \A j \in Key : effect'[j] = IF j = k THEN 0 ELSE effect[j]
    BY <1>1 DEF IInv, TypeOK
  <1>4. TypeOK'
    <2>1. redis' \in [Key -> Entry] /\ effect' \in [Key -> Nat]
      BY <1>1 DEF IInv, TypeOK
    <2>2. \A j \in Key : redis'[j].kind = "code" => redis'[j].user # None
      BY <1>2 DEF EntryOK, IInv, TypeOK
    <2> QED BY <2>1, <2>2 DEF IInv, TypeOK
  <1>5. ReqsWellFormed'
    BY IdleOK DEF IInv, ReqsWellFormed, ReqOK
  <1>6. EntriesWellFormed'
    BY <1>2 DEF IInv, EntriesWellFormed, EntryOK
  <1>7. FlowsByConsent'
    <2>1. \A j \in Key : redis[j].bind \in User \cup {None}
      BY DEF IInv, TypeOK, Entry
    <2>2. \A j \in Key : redis'[j].bind # None => redis'[j].provider \in consent'[redis'[j].bind]
      BY <1>2, <2>1 DEF IInv, FlowsByConsent, Grows, EntryOK
    <2>3. \A s \in Request : FlowOK(req'[s], consent')
      BY IdleOK DEF IInv, FlowsByConsent, FlowOK, Grows
    <2> QED BY <2>2, <2>3 DEF FlowsByConsent, FlowOK
  <1>8. KeysUnspent'
    <2>1. \A s \in Request : req'[s].key = req[s].key \/ req'[s].key = None
      BY IdleOK
    <2>2. \A s \in Request : req'[s].key \in Key \cup {None}
      BY DEF Req
    <2>3. \A j \in Key : redis'[j].kind # "absent" =>
             effect'[j] = 0 /\ \A s \in Request : req'[s].key # j
      BY <1>1, <1>2, <1>3, <2>1, NoneAssumption DEF IInv, KeysUnspent
    <2>4. \A s, t \in Request : req'[s].key # None /\ req'[s].key = req'[t].key => s = t
      BY <2>1 DEF IInv, KeysUnspent
    <2>5. \A s \in Request : req'[s].key # None /\ req'[s].pc # "code" => effect'[req'[s].key] = 0
      BY <1>3, <2>2, IdleOK DEF IInv, KeysUnspent
    <2> QED BY <2>3, <2>4, <2>5 DEF KeysUnspent
  <1>9. BoundByConsent'
    BY DEF IInv, TypeOK, BoundByConsent, Grows
  <1>10. WorksOnce'
    BY <1>3 DEF IInv, WorksOnce
  <1> QED BY <1>4, <1>5, <1>6, <1>7, <1>8, <1>9, <1>10 DEF IInv

-----------------------------------------------------------------------------
(* The steps.                                                              *)

\* Steps that put an entry: a flow starts, a callback ends with a token or code.
LEMMA PutStep ==
    ASSUME IInv,
           \/ \E p \in Provider : Start(p)
           \/ \E u \in User, p \in Provider : BindStart(u, p)
           \/ \E r \in Request : IssueRegToken(r) \/ IssueOneTimeCode(r)
    PROVE  IInv'
  <1> USE NoneAssumption
  <1>1. req \in [Request -> Req] /\ consent \in [User -> SUBSET Provider]
    BY DEF IInv, TypeOK
  <1>2. \A c : Grows(c, c)
    BY DEF Grows
  <1>3. ASSUME NEW p \in Provider, Start(p) PROVE IInv'
    <2>1. StateEntry(p, None) \in Entry /\ StateEntry(p, None).kind # "absent"
      BY DEF StateEntry, NoEntry, Entry
    <2>2. EntryOK(StateEntry(p, None), consent')
      BY DEF StateEntry, NoEntry, EntryOK
    <2> QED BY <1>1, <1>2, <1>3, <2>1, <2>2, Puts DEF Start
  <1>4. ASSUME NEW u \in User, NEW p \in Provider, BindStart(u, p) PROVE IInv'
    <2>1. StateEntry(p, u) \in Entry /\ StateEntry(p, u).kind # "absent"
      BY DEF StateEntry, NoEntry, Entry
    <2>2. consent' \in [User -> SUBSET Provider] /\ Grows(consent, consent') /\ p \in consent'[u]
      BY <1>1, <1>4 DEF BindStart, Grows
    <2>3. EntryOK(StateEntry(p, u), consent')
      BY <2>2 DEF StateEntry, NoEntry, EntryOK
    <2> QED BY <1>1, <1>4, <2>1, <2>2, <2>3, Puts DEF BindStart
  <1>5. ASSUME NEW r \in Request, Goto(r, Idle)
        PROVE  req' \in [Request -> Req] /\ \A s \in Request : req'[s] = req[s] \/ req'[s] = Idle
    BY <1>1, <1>5, IdleOK DEF Goto
  <1>6. ASSUME NEW r \in Request, IssueRegToken(r) PROVE IInv'
    <2>1. req[r].identity \in Identity
      BY <1>6, Pointwise DEF IssueRegToken, ReqOK
    <2>2. RegEntry(req[r].identity) \in Entry /\ RegEntry(req[r].identity).kind # "absent"
      BY <2>1 DEF RegEntry, NoEntry, Entry
    <2>3. EntryOK(RegEntry(req[r].identity), consent')
      BY <2>1 DEF RegEntry, NoEntry, EntryOK
    <2> QED BY <1>1, <1>2, <1>5, <1>6, <2>2, <2>3, Puts DEF IssueRegToken, End
  <1>7. ASSUME NEW r \in Request, IssueOneTimeCode(r) PROVE IInv'
    <2>1. req[r].user \in User
      BY <1>7, Pointwise DEF IssueOneTimeCode, ReqOK
    <2>2. CodeEntry(req[r].user) \in Entry /\ CodeEntry(req[r].user).kind # "absent"
      BY <2>1 DEF CodeEntry, NoEntry, Entry
    <2>3. EntryOK(CodeEntry(req[r].user), consent')
      BY <2>1 DEF CodeEntry, NoEntry, EntryOK
    <2> QED BY <1>1, <1>2, <1>5, <1>7, <2>2, <2>3, Puts DEF IssueOneTimeCode, End, CodeUser
  <1> QED BY <1>3, <1>4, <1>6, <1>7

\* Steps that take an entry: whoever gets it is the only one to act on it.
LEMMA TakeStep ==
    ASSUME IInv, NEW r \in Request, NEW k \in Key,
           \/ \E i \in Identity, email \in User \cup {None}, verified \in BOOLEAN :
                 Callback(r, k, i, email, verified)
           \/ \E email \in User : Register(r, k, email)
           \/ Exchange(r, k)
    PROVE  IInv'
  <1> USE NoneAssumption
  <1>1. redis[k] \in Entry /\ EntryOK(redis[k], consent)
    BY Pointwise
  <1>2. ASSUME NEW i \in Identity, NEW email \in User \cup {None}, NEW verified \in BOOLEAN,
               Callback(r, k, i, email, verified)
        PROVE  IInv'
    <2>1. CASE ~RouteMatches(k, i[1])
      BY <1>2, <2>1, IdleOK, Takes DEF Callback, End
    <2>2. CASE RouteMatches(k, i[1])
      <3>1. PICK q : /\ Goto(r, q)
                     /\ q = [Idle EXCEPT
                            !.pc = IF redis[k].bind = None THEN "lookup" ELSE "bindCheck",
                            !.key = k, !.identity = i, !.email = email,
                            !.verified = verified, !.user = redis[k].bind]
        BY <1>2, <2>2 DEF Callback
      <3>2. q = [pc |-> IF redis[k].bind = None THEN "lookup" ELSE "bindCheck", key |-> k,
                 identity |-> i, email |-> email, verified |-> verified,
                 user |-> redis[k].bind, provider |-> None]
        BY <3>1 DEF Idle
      <3>3. redis[k].bind \in User \cup {None} /\ redis[k].provider = i[1]
        BY <1>1, <2>2 DEF Entry, RouteMatches
      <3>4. q \in Req
        BY <3>2, <3>3 DEF Req
      <3>5. ReqOK(q)
        BY <3>2 DEF ReqOK
      <3>6. FlowOK(q, consent)
        BY <1>1, <3>2, <3>3 DEF FlowOK, EntryOK
      <3> QED BY <1>2, <3>1, <3>2, <3>4, <3>5, <3>6, Takes DEF Callback
    <2> QED BY <2>1, <2>2
  <1>3. ASSUME NEW u \in User, Register(r, k, u) PROVE IInv'
    <2>1. PICK q : /\ Goto(r, q)
                   /\ q = [Idle EXCEPT !.pc = "collision", !.key = k,
                                       !.identity = redis[k].identity, !.email = u]
      BY <1>3 DEF Register
    <2>2. q = [pc |-> "collision", key |-> k, identity |-> redis[k].identity, email |-> u,
               verified |-> FALSE, user |-> None, provider |-> None]
      BY <2>1 DEF Idle
    <2>3. redis[k].identity \in Identity
      BY <1>1, <1>3 DEF Register, EntryOK
    <2>4. q \in Req /\ ReqOK(q) /\ FlowOK(q, consent)
      BY <2>2, <2>3 DEF Req, ReqOK, FlowOK
    <2> QED BY <1>3, <2>1, <2>2, <2>4, Takes DEF Register
  <1>4. CASE Exchange(r, k)
    <2>1. PICK q : /\ Goto(r, q)
                   /\ q = [Idle EXCEPT !.pc = "session", !.key = k, !.user = redis[k].user]
      BY <1>4 DEF Exchange
    <2>2. q = [pc |-> "session", key |-> k, identity |-> None, email |-> None,
               verified |-> FALSE, user |-> redis[k].user, provider |-> None]
      BY <2>1 DEF Idle
    <2>3. redis[k].user \in User
      BY <1>1, <1>4 DEF Exchange, EntryOK, Entry
    <2>4. q \in Req /\ ReqOK(q) /\ FlowOK(q, consent)
      BY <2>2, <2>3 DEF Req, ReqOK, FlowOK
    <2> QED BY <1>4, <2>1, <2>2, <2>4, Takes DEF Exchange
  <1> QED BY <1>2, <1>3, <1>4

\* A request that ends without changing a table keeps the invariant.
LEMMA EndStep ==
    ASSUME IInv, NEW r \in Request, End(r), UNCHANGED <<account, identity, redis, history>>
    PROVE  IInv'
  <1>1. \A c : Grows(c, c)
    BY DEF Grows
  <1>2. account' \in [User -> {"none", "password", "oauth"}] /\ consent' \in [User -> SUBSET Provider]
    BY DEF IInv, TypeOK, history
  <1> QED BY <1>1, <1>2, IdleOK, GoOn DEF End, history

\* Steps that read: the look-ups of the login flow, of a bind and of Unbind.
LEMMA ReadStep ==
    ASSUME IInv, NEW r \in Request,
           \/ Lookup(r) \/ Collision(r) \/ BindCheck(r)
           \/ \E u \in User, p \in Provider : UnbindRead(r, u, p)
    PROVE  IInv'
  <1> USE NoneAssumption
  <1>1. req[r] \in Req /\ ReqOK(req[r]) /\ FlowOK(req[r], consent)
    BY Pointwise
  <1>2. Grows(consent, consent)
    BY DEF Grows
  <1>3. UNCHANGED <<account, identity, redis, consent, linked, entered, effect>>
    BY DEF Lookup, Collision, BindCheck, UnbindRead, history
  <1>4. account' \in [User -> {"none", "password", "oauth"}] /\ consent' \in [User -> SUBSET Provider]
    BY <1>3 DEF IInv, TypeOK
  <1>5. ASSUME NEW q \in Req, Goto(r, q), q.key = req[r].key \/ q.key = None,
               q.key = None \/ q.pc = "code" \/ req[r].pc # "code",
               ReqOK(q), FlowOK(q, consent)
        PROVE  IInv'
    <2>1. q.key # None /\ q.pc # "code" => effect[q.key] = 0
      BY <1>5 DEF IInv, KeysUnspent
    <2> QED BY <1>2, <1>3, <1>4, <1>5, <2>1, GoOn
  <1>6. CASE Lookup(r)
    <2>1. req[r].identity \in Identity
      BY <1>1, <1>6 DEF Lookup, ReqOK
    <2>2. CASE identity[req[r].identity] # None
      <3>1. PICK q : /\ Goto(r, q)
                     /\ q = [req[r] EXCEPT !.pc = "code", !.user = identity[req[r].identity]]
        BY <1>6, <2>2 DEF Lookup
      <3>2. identity[req[r].identity] \in User
        BY <2>1, <2>2 DEF IInv, TypeOK
      <3>3. q \in Req /\ q.pc = "code" /\ q.key = req[r].key /\ q.user \in User
        BY <1>1, <3>1, <3>2 DEF Req
      <3>4. ReqOK(q) /\ FlowOK(q, consent)
        BY <1>1, <1>6, <3>3 DEF Lookup, ReqOK, FlowOK
      <3> QED BY <1>5, <3>1, <3>3, <3>4
    <2>3. CASE identity[req[r].identity] = None
      <3>1. PICK pc \in {"collision", "regtoken", "insertUser"} :
                /\ Goto(r, [req[r] EXCEPT !.pc = pc])
                /\ pc # "regtoken" => req[r].email # None
        BY <1>6, <2>3 DEF Lookup
      <3>2. PICK q : q = [req[r] EXCEPT !.pc = pc]
        OBVIOUS
      <3>3. q \in Req /\ q.pc = pc /\ q.key = req[r].key /\ q.identity = req[r].identity
            /\ q.email = req[r].email
        BY <1>1, <3>2 DEF Req
      <3>4. req[r].email \in User \cup {None}
        BY <1>1 DEF Req
      <3>5. ReqOK(q) /\ FlowOK(q, consent)
        BY <1>1, <1>6, <2>1, <3>1, <3>3, <3>4 DEF Lookup, ReqOK, FlowOK
      <3> QED BY <1>5, <1>6, <3>1, <3>2, <3>3, <3>5 DEF Lookup
    <2> QED BY <2>2, <2>3
  <1>7. ASSUME End(r) PROVE IInv'
    BY <1>3, <1>7, EndStep DEF history
  <1>8. CASE Collision(r)
    <2>1. CASE Goto(r, [req[r] EXCEPT !.pc = "insertUser"])
      <3>1. PICK q : q = [req[r] EXCEPT !.pc = "insertUser"]
        OBVIOUS
      <3>2. q \in Req /\ q.pc = "insertUser" /\ q.key = req[r].key
            /\ q.identity = req[r].identity /\ q.email = req[r].email
        BY <1>1, <3>1 DEF Req
      <3>3. ReqOK(q) /\ FlowOK(q, consent)
        BY <1>1, <1>8, <3>2 DEF Collision, ReqOK, FlowOK
      <3> QED BY <1>5, <1>8, <2>1, <3>1, <3>2, <3>3 DEF Collision
    <2> QED BY <1>7, <1>8, <2>1 DEF Collision, RefuseCollision
  <1>9. CASE BindCheck(r)
    <2>1. CASE Goto(r, [req[r] EXCEPT !.pc = "insertBound"])
      <3>1. PICK q : q = [req[r] EXCEPT !.pc = "insertBound"]
        OBVIOUS
      <3>2. q \in Req /\ q.pc = "insertBound" /\ q.key = req[r].key
            /\ q.identity = req[r].identity /\ q.user = req[r].user
        BY <1>1, <3>1 DEF Req
      <3>3. ReqOK(q) /\ FlowOK(q, consent)
        BY <1>1, <1>9, <3>2 DEF BindCheck, ReqOK, FlowOK
      <3> QED BY <1>5, <1>9, <2>1, <3>1, <3>2, <3>3 DEF BindCheck
    <2> QED BY <1>7, <1>9, <2>1 DEF BindCheck
  <1>10. ASSUME NEW u \in User, NEW p \in Provider, UnbindRead(r, u, p) PROVE IInv'
    <2>1. PICK q : q = [Idle EXCEPT !.pc = "delete", !.user = u, !.provider = p]
      OBVIOUS
    <2>2. q = [pc |-> "delete", key |-> None, identity |-> None, email |-> None,
               verified |-> FALSE, user |-> u, provider |-> p]
      BY <2>1 DEF Idle
    <2>3. q \in Req /\ ReqOK(q) /\ FlowOK(q, consent)
      BY <2>2 DEF Req, ReqOK, FlowOK
    <2> QED BY <1>5, <1>10, <2>1, <2>2, <2>3 DEF UnbindRead
  <1> QED BY <1>6, <1>8, <1>9, <1>10

\* createOAuthUser inserts the account: its maker has chosen the provider.
LEMMA InsertUserStep ==
    ASSUME IInv, NEW r \in Request, InsertUser(r) PROVE IInv'
  <1>1. req[r] \in Req /\ ReqOK(req[r]) /\ req[r].pc = "insertUser"
    BY Pointwise DEF InsertUser
  <1>2. req[r].email \in User /\ req[r].identity \in Identity /\ req[r].key \in Key
    BY <1>1 DEF ReqOK
  <1>3. UNCHANGED <<identity, redis, linked, entered, effect>>
    BY DEF InsertUser
  <1>4. CASE End(r) /\ UNCHANGED <<account, consent>>
    BY <1>3, <1>4, EndStep DEF history
  <1>5. CASE /\ account[req[r].email] = "none"
             /\ account' = [account EXCEPT ![req[r].email] = "oauth"]
             /\ consent' = [consent EXCEPT ![req[r].email] = @ \cup {req[r].identity[1]}]
             /\ Goto(r, [req[r] EXCEPT !.pc = "insertIdentity", !.user = req[r].email])
    <2>1. account' \in [User -> {"none", "password", "oauth"}]
      BY <1>2, <1>5 DEF IInv, TypeOK
    <2>2. consent' \in [User -> SUBSET Provider] /\ Grows(consent, consent')
          /\ req[r].identity[1] \in consent'[req[r].email]
      BY <1>2, <1>5, IdentityProvider DEF IInv, TypeOK, Grows
    <2>3. PICK q : q = [req[r] EXCEPT !.pc = "insertIdentity", !.user = req[r].email]
      OBVIOUS
    <2>4. q \in Req /\ q.pc = "insertIdentity" /\ q.key = req[r].key
          /\ q.identity = req[r].identity /\ q.user = req[r].email
      BY <1>1, <1>2, <2>3 DEF Req
    <2>5. ReqOK(q) /\ FlowOK(q, consent')
      BY <1>2, <2>2, <2>4 DEF ReqOK, FlowOK
    <2>6. q.key # None /\ q.pc # "code" => effect[q.key] = 0
      BY <1>1, <2>4 DEF IInv, KeysUnspent
    <2> QED BY <1>3, <1>5, <2>1, <2>2, <2>3, <2>4, <2>5, <2>6, GoOn
  <1> QED BY <1>4, <1>5 DEF InsertUser

\* The key of a request has its effect, after which the request has only a code
\* to issue, or nothing.
LEMMA Spends ==
    ASSUME IInv, NEW r \in Request, NEW q \in Req, Goto(r, q), req[r].key \in Key,
           req[r].pc # "code", effect' = [effect EXCEPT ![req[r].key] = @ + 1],
           ReqOK(q), q.key # None => q.key = req[r].key /\ q.pc = "code",
           BoundByConsent', identity' \in [Identity -> User \cup {None}],
           linked' \subseteq User, entered' \subseteq User,
           UNCHANGED <<account, redis, consent>>
    PROVE  IInv'
  <1>1. \A s \in Request : req'[s] = IF s = r THEN q ELSE req[s]
    BY DEF Goto, IInv, TypeOK
  <1>2. effect[req[r].key] = 0
    BY NoneAssumption DEF IInv, KeysUnspent
  <1>3. effect' \in [Key -> Nat] /\ \A k \in Key : effect'[k] = IF k = req[r].key THEN 1 ELSE effect[k]
    BY <1>2 DEF IInv, TypeOK
  <1>4. TypeOK'
    <2>1. req' \in [Request -> Req]
      BY DEF Goto, IInv, TypeOK
    <2> QED BY <1>3, <2>1 DEF IInv, TypeOK
  <1>5. ReqsWellFormed'
    BY <1>1 DEF IInv, ReqsWellFormed, ReqOK
  <1>6. EntriesWellFormed'
    BY DEF IInv, EntriesWellFormed
  <1>7. FlowsByConsent'
    <2>1. FlowOK(q, consent)
      BY NoneAssumption DEF FlowOK, ReqOK
    <2>2. \A s \in Request : FlowOK(req'[s], consent)
      BY <1>1, <2>1 DEF IInv, FlowsByConsent, FlowOK
    <2> QED BY <2>2 DEF IInv, FlowsByConsent, FlowOK
  <1>8. KeysUnspent'
    <2>1. \A k \in Key : redis[k].kind # "absent" =>
             effect'[k] = 0 /\ \A s \in Request : req'[s].key # k
      BY <1>1, <1>3, NoneAssumption DEF IInv, KeysUnspent
    <2>2. \A s, t \in Request : req'[s].key # None /\ req'[s].key = req'[t].key => s = t
      BY <1>1 DEF IInv, KeysUnspent
    <2>3. \A s \in Request : req[s].key \in Key \cup {None}
      BY DEF IInv, TypeOK, Req
    <2>4. \A s \in Request : req'[s].key # None /\ req'[s].pc # "code" => effect'[req'[s].key] = 0
      BY <1>1, <1>3, <2>3, NoneAssumption DEF IInv, KeysUnspent
    <2> QED BY <2>1, <2>2, <2>4 DEF KeysUnspent
  <1>9. WorksOnce'
    BY <1>3 DEF IInv, WorksOnce
  <1> QED BY <1>4, <1>5, <1>6, <1>7, <1>8, <1>9 DEF IInv

\* The identity is inserted under the unique index, or the tokens are.
LEMMA EffectStep ==
    ASSUME IInv, NEW r \in Request, InsertIdentity(r) \/ IssueTokens(r) PROVE IInv'
  <1> USE NoneAssumption
  <1>1. req[r] \in Req /\ ReqOK(req[r]) /\ FlowOK(req[r], consent)
    BY Pointwise
  <1>2. CASE IssueTokens(r)
    <2>1. req[r].user \in User /\ req[r].key \in Key /\ req[r].pc # "code"
      BY <1>1, <1>2 DEF IssueTokens, ReqOK
    <2>2. BoundByConsent' /\ identity' \in [Identity -> User \cup {None}]
          /\ linked' \subseteq User /\ entered' \subseteq User
      BY <1>2, <2>1 DEF IssueTokens, IInv, TypeOK, BoundByConsent
    <2>3. PICK q \in Req : Goto(r, q) /\ ReqOK(q) /\ q.key = None
      BY <1>2, IdleOK DEF IssueTokens, End
    <2>4. effect' = [effect EXCEPT ![req[r].key] = @ + 1] /\ UNCHANGED <<account, redis, consent>>
      BY <1>2 DEF IssueTokens
    <2> QED BY <2>1, <2>2, <2>3, <2>4, Spends
  <1>3. CASE InsertIdentity(r)
    <2>1. /\ req[r].pc \in {"insertIdentity", "insertBound"}
          /\ UNCHANGED <<account, redis, consent, entered>>
      BY <1>3 DEF InsertIdentity
    <2>2. req[r].user \in User /\ req[r].key \in Key /\ req[r].identity \in Identity
          /\ req[r].identity[1] \in consent[req[r].user]
      BY <1>1, <2>1 DEF ReqOK, FlowOK
    <2>3. CASE End(r) /\ UNCHANGED <<identity, linked, effect>>
      BY <2>1, <2>3, EndStep DEF history
    <2>4. CASE /\ identity[req[r].identity] = None
               /\ identity' = [identity EXCEPT ![req[r].identity] = req[r].user]
               /\ linked' = linked \cup {req[r].user}
               /\ effect' = [effect EXCEPT ![req[r].key] = @ + 1]
               /\ \/ End(r)
                  \/ Goto(r, [req[r] EXCEPT !.pc = "code"])
      <3>1. identity' \in [Identity -> User \cup {None}]
        BY <2>2, <2>4 DEF IInv, TypeOK
      <3>2. linked' \subseteq User /\ entered' \subseteq User
        BY <2>1, <2>2, <2>4 DEF IInv, TypeOK
      <3>3. \A i \in Identity :
               identity'[i] = IF i = req[r].identity THEN req[r].user ELSE identity[i]
        BY <2>2, <2>4 DEF IInv, TypeOK
      <3>4. BoundByConsent'
        BY <2>1, <2>2, <3>3 DEF IInv, BoundByConsent
      <3>5. CASE End(r)
        <4>1. PICK q \in Req : Goto(r, q) /\ ReqOK(q) /\ q.key = None
          BY <3>5, IdleOK DEF End
        <4> QED BY <2>1, <2>2, <2>4, <3>1, <3>2, <3>4, <4>1, Spends
      <3>6. CASE Goto(r, [req[r] EXCEPT !.pc = "code"])
        <4>1. PICK q : q = [req[r] EXCEPT !.pc = "code"]
          OBVIOUS
        <4>2. q \in Req /\ q.pc = "code" /\ q.key = req[r].key /\ q.user = req[r].user
          BY <1>1, <4>1 DEF Req
        <4>3. ReqOK(q)
          BY <2>2, <4>2 DEF ReqOK
        <4> QED BY <2>1, <2>2, <2>4, <3>1, <3>2, <3>4, <3>6, <4>1, <4>2, <4>3, Spends
      <3> QED BY <2>4, <3>5, <3>6
    <2> QED BY <1>3, <2>3, <2>4 DEF InsertIdentity
  <1> QED BY <1>2, <1>3

\* Rows of auth_identities go.
LEMMA DeleteStep ==
    ASSUME IInv, NEW r \in Request, DeleteByUserAndProvider(r) PROVE IInv'
  <1>1. \A i \in Identity : identity'[i] = identity[i] \/ identity'[i] = None
    BY DEF DeleteByUserAndProvider
  <1>2. UNCHANGED <<account, redis, consent, linked, entered, effect>>
    BY DEF DeleteByUserAndProvider, history
  <1>3. req' = [req EXCEPT ![r] = Idle]
    BY DEF DeleteByUserAndProvider, End, Goto
  <1>4. \A s \in Request : req'[s] = IF s = r THEN Idle ELSE req[s]
    BY <1>3 DEF IInv, TypeOK
  <1>5. TypeOK'
    <2>1. identity' \in [Identity -> User \cup {None}]
      BY DEF DeleteByUserAndProvider, IInv, TypeOK
    <2>2. req' \in [Request -> Req]
      BY <1>3, IdleOK DEF IInv, TypeOK
    <2> QED BY <1>2, <2>1, <2>2 DEF IInv, TypeOK
  <1>6. ReqsWellFormed'
    BY <1>4, IdleOK DEF IInv, ReqsWellFormed, ReqOK
  <1>7. EntriesWellFormed' /\ WorksOnce'
    BY <1>2 DEF IInv, EntriesWellFormed, WorksOnce
  <1>8. FlowsByConsent'
    BY <1>2, <1>4, IdleOK DEF IInv, FlowsByConsent, FlowOK
  <1>9. KeysUnspent'
    BY <1>2, <1>4, IdleOK, NoneAssumption DEF IInv, KeysUnspent
  <1>10. BoundByConsent'
    BY <1>1, <1>2 DEF IInv, BoundByConsent
  <1> QED BY <1>5, <1>6, <1>7, <1>8, <1>9, <1>10 DEF IInv

\* An entry expires.
LEMMA ExpireStep ==
    ASSUME IInv, NEW k \in Key, Expire(k) PROVE IInv'
  <1>1. \A j \in Key : redis'[j] = IF j = k THEN NoEntry ELSE redis[j]
    BY DEF Expire, IInv, TypeOK
  <1>2. UNCHANGED <<account, identity, req, consent, linked, entered, effect>>
    BY DEF Expire, history
  <1>3. TypeOK'
    <2>1. redis' \in [Key -> Entry]
      BY NoEntryOK DEF Expire, IInv, TypeOK
    <2>2. \A j \in Key : redis'[j].kind = "code" => redis'[j].user # None
      BY <1>1, NoEntryOK DEF EntryOK, IInv, TypeOK
    <2> QED BY <1>2, <2>1, <2>2 DEF IInv, TypeOK
  <1>4. EntriesWellFormed'
    BY <1>1, NoEntryOK DEF IInv, EntriesWellFormed, EntryOK
  <1>5. FlowsByConsent'
    BY <1>1, <1>2, NoEntryOK DEF IInv, FlowsByConsent, EntryOK
  <1>6. KeysUnspent'
    BY <1>1, <1>2 DEF IInv, KeysUnspent, NoEntry
  <1>7. ReqsWellFormed' /\ BoundByConsent' /\ WorksOnce'
    BY <1>2 DEF IInv, ReqsWellFormed, BoundByConsent, WorksOnce
  <1> QED BY <1>3, <1>4, <1>5, <1>6, <1>7 DEF IInv

\* Every step keeps the invariant.
LEMMA NextIInv == IInv /\ [Next]_vars => IInv'
  <1> SUFFICES ASSUME IInv, [Next]_vars PROVE IInv'
    OBVIOUS
  <1>1. ASSUME NEW u \in User, RegisterPassword(u) PROVE IInv'
    BY <1>1 DEF RegisterPassword, history, IInv, TypeOK, ReqsWellFormed, EntriesWellFormed,
                FlowsByConsent, KeysUnspent, BoundByConsent, WorksOnce
  <1>2. ASSUME NEW u \in User, NEW p \in Provider, BindStart(u, p) PROVE IInv'
    BY <1>2, PutStep
  <1>3. ASSUME NEW p \in Provider, Start(p) PROVE IInv'
    BY <1>3, PutStep
  <1>4. ASSUME NEW r \in Request, NEW k \in Key, NEW i \in Identity,
               NEW email \in User \cup {None}, NEW verified \in BOOLEAN,
               Callback(r, k, i, email, verified)
        PROVE  IInv'
    BY <1>4, TakeStep
  <1>5. ASSUME NEW r \in Request, NEW k \in Key, NEW email \in User, Register(r, k, email)
        PROVE  IInv'
    BY <1>5, TakeStep
  <1>6. ASSUME NEW r \in Request, NEW k \in Key, Exchange(r, k) PROVE IInv'
    BY <1>6, TakeStep
  <1>7. ASSUME NEW r \in Request, Lookup(r) \/ Collision(r) \/ BindCheck(r) PROVE IInv'
    BY <1>7, ReadStep
  <1>8. ASSUME NEW r \in Request, NEW u \in User, NEW p \in Provider, UnbindRead(r, u, p)
        PROVE  IInv'
    BY <1>8, ReadStep
  <1>9. ASSUME NEW r \in Request, IssueRegToken(r) \/ IssueOneTimeCode(r) PROVE IInv'
    BY <1>9, PutStep
  <1>10. ASSUME NEW r \in Request, InsertUser(r) PROVE IInv'
    BY <1>10, InsertUserStep
  <1>11. ASSUME NEW r \in Request, InsertIdentity(r) \/ IssueTokens(r) PROVE IInv'
    BY <1>11, EffectStep
  <1>12. ASSUME NEW r \in Request, DeleteByUserAndProvider(r) PROVE IInv'
    BY <1>12, DeleteStep
  <1>13. ASSUME NEW r \in Request, Abort(r) PROVE IInv'
    BY <1>13, EndStep DEF Abort
  <1>14. ASSUME NEW k \in Key, Expire(k) PROVE IInv'
    BY <1>14, ExpireStep
  <1>15. CASE UNCHANGED vars
    BY <1>15 DEF vars, IInv, TypeOK, ReqsWellFormed, EntriesWellFormed, FlowsByConsent,
                 KeysUnspent, BoundByConsent, WorksOnce
  <1> QED
    BY <1>1, <1>2, <1>3, <1>4, <1>5, <1>6, <1>7, <1>8, <1>9, <1>10, <1>11, <1>12, <1>13,
       <1>14, <1>15
    DEF Next

-----------------------------------------------------------------------------
(* The theorems.                                                           *)

\* The invariant holds in every state.
THEOREM InvariantHolds == Spec => []IInv
  BY InitIInv, NextIInv, PTL DEF Spec

\* Type correctness: in particular a one-time code always names an account.
THEOREM TypeCorrect == Spec => []TypeOK
  <1>1. IInv => TypeOK BY DEF IInv
  <1> QED BY <1>1, InvariantHolds, PTL

\* Design A for any number of accounts, providers, flows and requests: every row
\* of auth_identities was chosen by the owner of the account it leads to.
THEOREM BoundByConsentTheorem == Spec => []BoundByConsent
  <1>1. IInv => BoundByConsent BY DEF IInv
  <1> QED BY <1>1, InvariantHolds, PTL

\* GETDEL makes every state, registration token and one-time code work once,
\* however many requests present it.
THEOREM WorksOnceTheorem == Spec => []WorksOnce
  <1>1. IInv => WorksOnce BY DEF IInv
  <1> QED BY <1>1, InvariantHolds, PTL

\* A closed account stays closed in a step that puts an entry.
LEMMA ClosedPut ==
    ASSUME IInv, NEW u \in User, Closed(u), NEW e, Put(e), e.bind # u, e.user # u,
           \A r \in Request : req'[r] = req[r] \/ req'[r] = Idle,
           UNCHANGED <<account, identity, entered>>
    PROVE  Closed(u)'
  <1>1. \A k \in Key : redis'[k] = redis[k] \/ redis'[k] = e
    BY DEF Put, IInv, TypeOK
  <1>2. \A r \in Request : req'[r].user # u
    BY NoneAssumption DEF Closed, Idle
  <1> QED BY <1>1, <1>2 DEF Closed, Bound

\* And in a step in which a request goes on with another account.
LEMMA ClosedGoto ==
    ASSUME IInv, NEW u \in User, Closed(u), NEW r \in Request, NEW q, Goto(r, q), q.user # u,
           \A k \in Key : redis'[k] = redis[k] \/ redis'[k] = NoEntry,
           account'[u] = account[u], Bound(u)' \subseteq Bound(u), u \notin entered'
    PROVE  Closed(u)'
  <1>1. \A s \in Request : req'[s].user # u
    BY DEF Closed, Goto, IInv, TypeOK
  <1>2. \A k \in Key : redis'[k].bind # u /\ redis'[k].user # u
    BY NoneAssumption DEF Closed, NoEntry
  <1> QED BY <1>1, <1>2 DEF Closed

\* No step opens a closed account.
LEMMA ClosedStep ==
    ASSUME IInv, [Next]_vars, NEW u \in User, Closed(u) PROVE Closed(u)'
  <1> USE NoneAssumption
  <1>1. /\ account[u] = "oauth" /\ ~Authenticated(u)
        /\ \A i \in Identity : identity[i] # u
        /\ \A k \in Key : redis[k].bind # u /\ redis[k].user # u
        /\ \A r \in Request : req[r].user # u
    BY DEF Closed, Bound, Authenticated
  <1>2. \A r \in Request : req[r] \in Req /\ ReqOK(req[r])
    BY Pointwise
  <1>3. Idle.user # u /\ NoEntry.bind # u /\ NoEntry.user # u
    BY DEF Idle, NoEntry
  <1>4. \A r \in Request : End(r) => \A s \in Request : req'[s] = req[s] \/ req'[s] = Idle
    BY DEF End, Goto, IInv, TypeOK
  <1>5. ASSUME NEW v \in User, RegisterPassword(v) PROVE Closed(u)'
    BY <1>1, <1>5 DEF RegisterPassword, Closed, Bound, history, IInv, TypeOK
  <1>6. ASSUME NEW p \in Provider, Start(p) PROVE Closed(u)'
    <2>1. StateEntry(p, None).bind # u /\ StateEntry(p, None).user # u
      BY DEF StateEntry, NoEntry
    <2> QED BY <1>6, <2>1, ClosedPut DEF Start
  <1>7. ASSUME NEW v \in User, NEW p \in Provider, BindStart(v, p) PROVE Closed(u)'
    <2>1. StateEntry(p, v).bind # u /\ StateEntry(p, v).user # u
      BY <1>1, <1>7 DEF BindStart, StateEntry, NoEntry
    <2> QED BY <1>7, <2>1, ClosedPut DEF BindStart
  <1>8. ASSUME NEW r \in Request, IssueRegToken(r) PROVE Closed(u)'
    <2>1. RegEntry(req[r].identity).bind # u /\ RegEntry(req[r].identity).user # u
      BY DEF RegEntry, NoEntry
    <2> QED BY <1>4, <1>8, <2>1, ClosedPut DEF IssueRegToken
  <1>9. ASSUME NEW r \in Request, IssueOneTimeCode(r) PROVE Closed(u)'
    <2>1. CodeEntry(req[r].user).bind # u /\ CodeEntry(req[r].user).user # u
      BY <1>1 DEF CodeEntry, NoEntry
    <2> QED BY <1>4, <1>9, <2>1, ClosedPut DEF IssueOneTimeCode, CodeUser
  <1>10. ASSUME NEW r \in Request, NEW q, Goto(r, q), q.user # u,
                UNCHANGED <<account, identity, entered>>,
                \A k \in Key : redis'[k] = redis[k] \/ redis'[k] = NoEntry
         PROVE  Closed(u)'
    BY <1>10, ClosedGoto DEF Closed, Bound
  <1>11. \A k \in Key : redis' = Taken(k) => \A j \in Key : redis'[j] = redis[j] \/ redis'[j] = NoEntry
    BY DEF Taken, IInv, TypeOK
  <1>12. ASSUME NEW r \in Request, NEW k \in Key, NEW i \in Identity,
                NEW email \in User \cup {None}, NEW verified \in BOOLEAN,
                Callback(r, k, i, email, verified)
         PROVE  Closed(u)'
    <2>1. PICK q : /\ Goto(r, q)
                   /\ \/ q = Idle
                      \/ q = [Idle EXCEPT
                             !.pc = IF redis[k].bind = None THEN "lookup" ELSE "bindCheck",
                             !.key = k, !.identity = i, !.email = email,
                             !.verified = verified, !.user = redis[k].bind]
      BY <1>12 DEF Callback, End
    <2>2. \/ q = Idle
          \/ q = [pc |-> IF redis[k].bind = None THEN "lookup" ELSE "bindCheck", key |-> k,
                  identity |-> i, email |-> email, verified |-> verified,
                  user |-> redis[k].bind, provider |-> None]
      BY <2>1 DEF Idle
    <2>3. q.user # u
      BY <1>1, <1>3, <2>2
    <2> QED BY <1>10, <1>11, <1>12, <2>1, <2>3 DEF Callback, history
  <1>13. ASSUME NEW r \in Request, NEW k \in Key, NEW email \in User, Register(r, k, email)
         PROVE  Closed(u)'
    <2>1. PICK q : /\ Goto(r, q)
                   /\ q = [Idle EXCEPT !.pc = "collision", !.key = k,
                                       !.identity = redis[k].identity, !.email = email]
      BY <1>13 DEF Register
    <2>2. q.user # u
      BY <2>1 DEF Idle
    <2> QED BY <1>10, <1>11, <1>13, <2>1, <2>2 DEF Register, history
  <1>14. ASSUME NEW r \in Request, NEW k \in Key, Exchange(r, k) PROVE Closed(u)'
    <2>1. PICK q : /\ Goto(r, q)
                   /\ q = [Idle EXCEPT !.pc = "session", !.key = k, !.user = redis[k].user]
      BY <1>14 DEF Exchange
    <2>2. q.user # u
      BY <1>1, <2>1 DEF Idle
    <2> QED BY <1>10, <1>11, <1>14, <2>1, <2>2 DEF Exchange, history
  <1>15. ASSUME NEW r \in Request, Lookup(r) \/ Collision(r) \/ BindCheck(r) \/ Abort(r)
         PROVE  Closed(u)'
    <2>1. req[r].pc = "lookup" => req[r].identity \in Identity
      BY <1>2 DEF ReqOK
    <2>2. \A pc : [req[r] EXCEPT !.pc = pc].user # u
      BY <1>1, <1>2 DEF Req
    <2>3. Lookup(r) => \/ \E pc : Goto(r, [req[r] EXCEPT !.pc = pc])
                       \/ \E v \in User : v # u /\ Goto(r, [req[r] EXCEPT !.pc = "code", !.user = v])
      BY <1>1, <2>1 DEF Lookup, IInv, TypeOK
    <2>4. Collision(r) \/ BindCheck(r) \/ Abort(r) =>
             Goto(r, Idle) \/ \E pc : Goto(r, [req[r] EXCEPT !.pc = pc])
      BY DEF Collision, RefuseCollision, BindCheck, Abort, End
    <2>5. \A v \in User : v # u => [req[r] EXCEPT !.pc = "code", !.user = v].user # u
      BY <1>2 DEF Req
    <2>6. PICK q : Goto(r, q) /\ q.user # u
      BY <1>3, <1>15, <2>2, <2>3, <2>4, <2>5
    <2> QED BY <1>10, <1>15, <2>6 DEF Lookup, Collision, BindCheck, Abort, history
  <1>16. ASSUME NEW r \in Request, NEW v \in User, NEW p \in Provider, UnbindRead(r, v, p)
         PROVE  Closed(u)'
    <2>1. PICK q : /\ Goto(r, q)
                   /\ q = [Idle EXCEPT !.pc = "delete", !.user = v, !.provider = p]
      BY <1>16 DEF UnbindRead
    <2>2. q.user # u
      BY <1>1, <1>16, <2>1 DEF UnbindRead, Idle
    <2> QED BY <1>10, <1>16, <2>1, <2>2 DEF UnbindRead, history
  <1>17. ASSUME NEW r \in Request, InsertUser(r) PROVE Closed(u)'
    <2>1. req[r].email \in User /\ account \in [User -> {"none", "password", "oauth"}]
      BY <1>2, <1>17 DEF InsertUser, ReqOK, IInv, TypeOK
    <2>2. account'[u] = account[u]
      BY <1>1, <1>17, <2>1 DEF InsertUser
    <2>3. PICK q : /\ Goto(r, q)
                   /\ \/ q = Idle
                      \/ /\ account[req[r].email] = "none"
                         /\ q = [req[r] EXCEPT !.pc = "insertIdentity", !.user = req[r].email]
      BY <1>17 DEF InsertUser, End
    <2>4. q.user # u
      BY <1>1, <1>2, <1>3, <2>3 DEF Req
    <2> QED BY <1>17, <2>2, <2>3, <2>4, ClosedGoto DEF InsertUser, Closed, Bound
  <1>18. ASSUME NEW r \in Request, InsertIdentity(r) PROVE Closed(u)'
    <2>1. Bound(u)' \subseteq Bound(u)
      BY <1>1, <1>18 DEF InsertIdentity, Bound, IInv, TypeOK
    <2>2. PICK q : Goto(r, q) /\ (q = Idle \/ q = [req[r] EXCEPT !.pc = "code"])
      BY <1>18 DEF InsertIdentity, End
    <2>3. q.user # u
      BY <1>1, <1>2, <1>3, <2>2 DEF Req
    <2> QED BY <1>18, <2>1, <2>2, <2>3, ClosedGoto DEF InsertIdentity, Closed
  <1>19. ASSUME NEW r \in Request, IssueTokens(r) PROVE Closed(u)'
    BY <1>1, <1>3, <1>19, ClosedGoto DEF IssueTokens, End, Closed, Bound
  <1>20. ASSUME NEW r \in Request, DeleteByUserAndProvider(r) PROVE Closed(u)'
    <2>1. Bound(u)' \subseteq Bound(u)
      BY <1>1, <1>20 DEF DeleteByUserAndProvider, Bound
    <2> QED BY <1>3, <1>20, <2>1, ClosedGoto DEF DeleteByUserAndProvider, End, Closed, history
  <1>21. ASSUME NEW k \in Key, Expire(k) PROVE Closed(u)'
    BY <1>1, <1>3, <1>21 DEF Expire, Closed, Bound, history, IInv, TypeOK
  <1>22. CASE UNCHANGED vars
    BY <1>22 DEF vars, Closed, Bound
  <1> QED
    BY <1>5, <1>6, <1>7, <1>8, <1>9, <1>12, <1>13, <1>14, <1>15, <1>16, <1>17, <1>18, <1>19,
       <1>20, <1>21, <1>22
    DEF Next

\* What createOAuthUser leaves behind between its two inserts is never taken over.
THEOREM ClosedTheorem == Spec => ClosedStaysClosed
  <1>1. IInv /\ [Next]_vars => [\A u \in User : Closed(u) => Closed(u)']_vars
    BY ClosedStep
  <1> QED BY <1>1, InvariantHolds, PTL DEF Spec, ClosedStaysClosed
=============================================================================
