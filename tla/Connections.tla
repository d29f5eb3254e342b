---------------------------- MODULE Connections ----------------------------
(***************************************************************************)
(* The connection graph: an invite is a row of connections that its        *)
(* addressee answers once.  The checks of SendInvite come before its       *)
(* INSERT, so the partial unique index alone decides between two users who *)
(* invite each other.  An answer commits before it is acknowledged, and    *)
(* the list of pending invites is read with two statements.                *)
(***************************************************************************)
EXTENDS Directory

CONSTANT Edge   \* ids of connections, drawn by uuid.New

VARIABLES
    conns,      \* the table connections, by id
    invite,     \* the invite that a request is about to insert
    reply,      \* answers that are committed, their 200 on the way
    answered,   \* history: answers that were acknowledged with 200
    listing     \* a call of ListPendingForUser; calls only read, so one is enough

connVars == <<conns, invite, reply, answered, listing>>

Status == {"pending", "accepted", "declined"}
Row == [requester: User, addressee: User, status: Status]
NoRow == [requester |-> None, addressee |-> None, status |-> "none"]
Answer == [edge: Edge, by: User, status: Status]

\* A call has read nothing, the invites received, or both lists.
Listing == [read: {"incoming", "both"}, user: User,
            incoming: SUBSET Edge, outgoing: SUBSET Edge]
NoListing == [read |-> "nothing", user |-> None, incoming |-> {}, outgoing |-> {}]

ConnTypeOK ==
    /\ conns \in [Edge -> Row \cup {NoRow}]
    /\ invite \in [Request -> (User \X User) \cup {<<>>}]
    /\ reply \subseteq Answer
    /\ answered \subseteq Answer
    /\ listing \in Listing \cup {NoListing}

ConnInit ==
    /\ conns = [e \in Edge |-> NoRow]
    /\ invite = [r \in Request |-> <<>>]
    /\ reply = {}
    /\ answered = {}
    /\ listing = NoListing

-----------------------------------------------------------------------------
(* Operations.                                                             *)

Pair(e) == {conns[e].requester, conns[e].addressee}

\* mutant: the index is on (requester_id, addressee_id)
PairFreeOrdered(u, v) ==
    \A e \in Edge : conns[e].status \in {"pending", "accepted"}
        => <<conns[e].requester, conns[e].addressee>> # <<u, v>>

\* connections_pair_live_uniq: LEAST and GREATEST make the pair unordered, and a
\* declined invite does not stand in the way of a new one.
PairFree(u, v) ==
    \A e \in Edge : conns[e].status \in {"pending", "accepted"} => Pair(e) # {u, v}

\* Nobody invites himself, and the addressee is live when he is looked up.
SendInvite(r, u, v) ==
    /\ invite[r] = <<>>
    /\ u # v
    /\ Live(v)
    /\ invite' = [invite EXCEPT ![r] = <<u, v>>]
    /\ UNCHANGED <<conns, reply, answered, listing>>

\* The INSERT, which the index may refuse (409).
CreateEdge(r) ==
    /\ invite[r] # <<>>
    /\ invite' = [invite EXCEPT ![r] = <<>>]
    /\ LET u == invite[r][1]
           v == invite[r][2]
       IN  \/ /\ PairFree(u, v)
              /\ \E e \in Edge :
                  /\ conns[e] = NoRow
                  /\ conns' = [conns EXCEPT ![e] = [requester |-> u, addressee |-> v, status |-> "pending"]]
           \/ ~PairFree(u, v) /\ UNCHANGED conns
    /\ UNCHANGED <<reply, answered, listing>>

\* The request ends before its INSERT: a failed query or a client that left.
AbandonInvite(r) ==
    /\ invite[r] # <<>>
    /\ invite' = [invite EXCEPT ![r] = <<>>]
    /\ UNCHANGED <<conns, reply, answered, listing>>

\* mutant: the pending guard is dropped
ResolvableAgain(e, u) == conns[e].addressee = u

\* The rows that a guarded UPDATE of resolvePendingInvite matches.
Resolvable(e, u) == conns[e].addressee = u /\ conns[e].status = "pending"

\* The UPDATE commits.  Anything else is 404 or 409 and changes nothing.
resolvePendingInvite(e, u, newStatus) ==
    /\ Resolvable(e, u)
    /\ conns' = [conns EXCEPT ![e].status = newStatus]
    /\ reply' = reply \cup {[edge |-> e, by |-> u, status |-> newStatus]}
    /\ UNCHANGED <<invite, answered, listing>>

AcceptInvite(e, u) == resolvePendingInvite(e, u, "accepted")
DeclineInvite(e, u) == resolvePendingInvite(e, u, "declined")

\* The 200 arrives, or the answer of Postgres or of the handler is lost.
Acknowledge(a) ==
    /\ a \in reply
    /\ reply' = reply \ {a}
    /\ answered' = answered \cup {a}
    /\ UNCHANGED <<conns, invite, listing>>

LoseAnswer(a) ==
    /\ a \in reply
    /\ reply' = reply \ {a}
    /\ UNCHANGED <<conns, invite, answered, listing>>

-----------------------------------------------------------------------------
(* The lists a user is shown: the other party of every row, by id.         *)

Other(e, u) == IF conns[e].requester = u THEN conns[e].addressee ELSE conns[e].requester

ListAcceptedForUser(u) ==
    {e \in Edge : u \in Pair(e) /\ conns[e].status = "accepted" /\ Live(Other(e, u))}

\* The rows of the two queries of ListPendingForUser.
Incoming(u) ==
    {e \in Edge : conns[e].addressee = u /\ conns[e].status = "pending" /\ Live(conns[e].requester)}
Outgoing(u) ==
    {e \in Edge : conns[e].requester = u /\ conns[e].status = "pending" /\ Live(conns[e].addressee)}

\* ListPendingForUser: two statements without a common snapshot, and its return
\* (a failed query included).
ListIncoming(u) ==
    /\ listing = NoListing
    /\ listing' = [read |-> "incoming", user |-> u, incoming |-> Incoming(u), outgoing |-> {}]
    /\ UNCHANGED <<conns, invite, reply, answered>>

ListOutgoing ==
    /\ listing.read = "incoming"
    /\ listing' = [listing EXCEPT !.read = "both", !.outgoing = Outgoing(listing.user)]
    /\ UNCHANGED <<conns, invite, reply, answered>>

ListReturns ==
    /\ listing # NoListing
    /\ listing' = NoListing
    /\ UNCHANGED <<conns, invite, reply, answered>>

ConnNext ==
    \/ \E r \in Request :
        \/ \E u, v \in User : SendInvite(r, u, v)
        \/ CreateEdge(r)
        \/ AbandonInvite(r)
    \/ \E e \in Edge, u \in User : AcceptInvite(e, u) \/ DeclineInvite(e, u)
    \/ \E a \in reply : Acknowledge(a) \/ LoseAnswer(a)
    \/ (\E u \in User : ListIncoming(u)) \/ ListOutgoing \/ ListReturns

-----------------------------------------------------------------------------
(* Properties.                                                             *)

\* A list shows nobody twice.
OnceEach(list, u) == \A e, f \in list : Other(e, u) = Other(f, u) => e = f

\* However invites of two users cross, each of them sees the other at most once in a list,
\* and as invited and inviting in one answer of ListPendingForUser only when the invite
\* received was declined between its two SELECTs: never because both invites are open
\* (ListAcceptedForUser and ListPendingForUser over the rows that concurrent calls of
\* Create left).
ListedOnce ==
    /\ \A u \in User : OnceEach(ListAcceptedForUser(u), u)
    /\ OnceEach(listing.incoming, listing.user)
    /\ OnceEach(listing.outgoing, listing.user)
    /\ \A e \in listing.incoming, f \in listing.outgoing :
          Other(e, listing.user) = Other(f, listing.user) => conns[e].status = "declined"

\* An answer that was acknowledged stands, however late its 200 arrives: of accepts and
\* declines that race for an invite one at most is told 200, it came from the addressee,
\* and the row says what it said (resolvePendingInvite).  An answer that is lost on its
\* way has changed the row all the same.
AnswersStand ==
    \A a \in answered :
        conns[a.edge].addressee = a.by /\ conns[a.edge].status = a.status

-----------------------------------------------------------------------------
(* The inductive invariant of the two.                                     *)

\* What connections_pair_live_uniq guarantees of the rows, in whichever direction
\* and by however many requests they were inserted.
OneLivePerPair ==
    \A e, f \in Edge :
        /\ conns[e].status \in {"pending", "accepted"}
        /\ conns[f].status \in {"pending", "accepted"}
        /\ Pair(e) = Pair(f)
        => e = f

\* The service refuses an invite to oneself before anything is written.
NobodyTwice ==
    /\ \A e \in Edge : conns[e].status # "none" => conns[e].requester # conns[e].addressee
    /\ \A r \in Request : invite[r] # <<>> => invite[r][1] # invite[r][2]

\* AnswersStand for the answers on their way.  An answer is a final one.
RepliesStand ==
    /\ \A a \in reply : conns[a.edge].addressee = a.by /\ conns[a.edge].status = a.status
    /\ \A a \in reply \cup answered : a.status \in {"accepted", "declined"}

\* What a call of ListPendingForUser has read were rows of its user, each other party
\* once, and rows stay.
ListsRead ==
    /\ \A e \in listing.incoming : /\ conns[e].status # "none"
                                   /\ conns[e].addressee = listing.user
    /\ \A e \in listing.outgoing : /\ conns[e].status # "none"
                                   /\ conns[e].requester = listing.user
    /\ \A e, f \in listing.incoming : conns[e].requester = conns[f].requester => e = f
    /\ \A e, f \in listing.outgoing : conns[e].addressee = conns[f].addressee => e = f
    /\ \A e \in listing.incoming, f \in listing.outgoing :
          conns[e].requester = conns[f].addressee => conns[e].status = "declined"

ConnIInv ==
    ConnTypeOK /\ OneLivePerPair /\ NobodyTwice /\ AnswersStand /\ RepliesStand /\ ListsRead
=============================================================================
