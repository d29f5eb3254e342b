------------------------- MODULE SelfServiceProofs -------------------------
(* Proofs of the safety properties of SelfService, for every set of users, *)
(* companies, connections, jobs, handles, secrets and code sets, every     *)
(* finite set of requests and every cap.                                   *)
EXTENDS SelfService, FiniteSetTheorems, TLAPS

-----------------------------------------------------------------------------
(* Users and companies.                                                    *)

\* An operator deletes a user or links him to a company.
LEMMA DirectoryTypes == DirectoryTypeOK /\ DirectoryNext => DirectoryTypeOK'
  BY DEF DirectoryTypeOK, DirectoryNext, DeleteUser, LinkCompany

-----------------------------------------------------------------------------
(* Connections.                                                            *)

\* No row, no invite, no answer, no list.
LEMMA ConnInitInv == ConnInit => ConnIInv
  BY DEF ConnInit, ConnIInv, ConnTypeOK, OneLivePerPair, NobodyTwice, AnswersStand,
         RepliesStand, ListsRead, NoRow, NoListing

\* The columns of a row, as an index or an UPDATE sees them.
LEMMA RowTyped ==
    ASSUME ConnTypeOK, NEW e \in Edge
    PROVE  /\ conns[e].status \in Status \cup {"none"}
           /\ conns[e].status = "none" <=> conns[e] = NoRow
           /\ conns[e].status # "none" => conns[e] \in Row /\ conns[e].requester \in User
                                          /\ conns[e].addressee \in User
  <1>1. conns[e] \in Row \/ conns[e] = NoRow
    BY DEF ConnTypeOK
  <1> QED
    BY <1>1 DEF Row, NoRow, Status

\* What a list shows are ids of rows.
LEMMA ListTyped ==
    ConnTypeOK => listing.incoming \subseteq Edge /\ listing.outgoing \subseteq Edge
  BY DEF ConnTypeOK, Listing, NoListing

\* An answer names a row.
LEMMA AnswerTyped == ConnTypeOK => \A a \in reply \cup answered : a.edge \in Edge
  BY DEF ConnTypeOK, Answer

\* A request that gives up or only begins touches no row.
LEMMA InviteStep ==
    ASSUME ConnIInv, UNCHANGED <<conns, reply, answered, listing>>,
           invite' \in [Request -> (User \X User) \cup {<<>>}],
           \A r \in Request : invite'[r] # <<>> => invite'[r][1] # invite'[r][2]
    PROVE  ConnIInv'
  BY DEF ConnIInv, ConnTypeOK, OneLivePerPair, Pair, NobodyTwice, AnswersStand,
         RepliesStand, ListsRead

\* A row keeps its two users, and a declined one its status: what was listed stays so.
LEMMA ListsStay ==
    ASSUME ConnIInv, UNCHANGED listing,
           \A e \in Edge : conns[e].status # "none" =>
              /\ conns'[e].requester = conns[e].requester
              /\ conns'[e].addressee = conns[e].addressee
              /\ conns'[e].status # "none"
              /\ conns[e].status = "declined" => conns'[e].status = "declined"
    PROVE  ListsRead'
  <1>1. listing.incoming \subseteq Edge /\ listing.outgoing \subseteq Edge
    BY ListTyped DEF ConnIInv
  <1>2. \A e \in listing.incoming \cup listing.outgoing :
            /\ conns[e].status # "none" /\ conns'[e].status # "none"
            /\ conns'[e].requester = conns[e].requester
            /\ conns'[e].addressee = conns[e].addressee
            /\ conns[e].status = "declined" => conns'[e].status = "declined"
    BY <1>1 DEF ConnIInv, ListsRead
  <1> QED
    BY <1>2 DEF ConnIInv, ListsRead

\* The INSERT of an invite: the index has seen to it that no live row has the pair.
LEMMA CreateEdgeStep ==
    ASSUME ConnIInv, NEW r \in Request, CreateEdge(r)
    PROVE  ConnIInv'
  <1>1. /\ invite[r] \in User \X User /\ UNCHANGED <<reply, answered, listing>>
        /\ invite[r][1] # invite[r][2]
        /\ invite' \in [Request -> (User \X User) \cup {<<>>}]
        /\ \A q \in Request : invite'[q] # <<>> => invite'[q] = invite[q]
    BY DEF CreateEdge, ConnIInv, ConnTypeOK, NobodyTwice
  <1>2. \A q \in Request : invite'[q] # <<>> => invite'[q][1] # invite'[q][2]
    BY <1>1 DEF ConnIInv, NobodyTwice
  <1>3. CASE UNCHANGED conns
    BY <1>1, <1>2, <1>3, InviteStep
  <1>4. CASE ~ UNCHANGED conns
    <2>1. PICK u \in User, v \in User : u = invite[r][1] /\ v = invite[r][2] /\ u # v
      BY <1>1
    <2> DEFINE new == [requester |-> u, addressee |-> v, status |-> "pending"]
    <2>2. PICK n \in Edge :
              /\ PairFree(u, v)
              /\ conns[n] = NoRow
              /\ conns' = [conns EXCEPT ![n] = new]
      BY <1>4, <2>1 DEF CreateEdge
    <2>3. /\ new \in Row /\ new.requester = u /\ new.addressee = v /\ new.status = "pending"
          /\ conns[n].status = "none"
      BY <2>2 DEF Row, Status, NoRow
    <2> HIDE DEF new
    <2>4. /\ conns' \in [Edge -> Row \cup {NoRow}] /\ conns'[n] = new
          /\ \A e \in Edge : e # n => conns'[e] = conns[e]
      BY <2>2, <2>3 DEF ConnIInv, ConnTypeOK
    <2>5. ConnTypeOK'
      BY <1>1, <2>4 DEF ConnIInv, ConnTypeOK
    <2>6. OneLivePerPair'
      <3> SUFFICES ASSUME NEW e \in Edge, NEW f \in Edge,
                          conns'[e].status \in {"pending", "accepted"},
                          conns'[f].status \in {"pending", "accepted"},
                          {conns'[e].requester, conns'[e].addressee}
                            = {conns'[f].requester, conns'[f].addressee}
                   PROVE  e = f
        BY DEF OneLivePerPair, Pair
      <3>1. CASE e # n /\ f # n
        BY <2>4, <3>1 DEF ConnIInv, OneLivePerPair, Pair
      <3>2. CASE e = n /\ f # n
        BY <2>2, <2>3, <2>4, <3>2 DEF PairFree, Pair
      <3>3. CASE e # n /\ f = n
        BY <2>2, <2>3, <2>4, <3>3 DEF PairFree, Pair
      <3> QED BY <3>1, <3>2, <3>3
    <2>7. NobodyTwice'
      BY <1>2, <2>1, <2>3, <2>4 DEF ConnIInv, NobodyTwice
    <2>8. AnswersStand' /\ RepliesStand'
      <3>1. \A a \in reply \cup answered :
                a.edge \in Edge /\ a.status # "none" /\ conns[a.edge].status = a.status
        BY AnswerTyped DEF ConnIInv, AnswersStand, RepliesStand
      <3>2. \A a \in reply \cup answered : conns'[a.edge] = conns[a.edge]
        BY <2>3, <2>4, <3>1
      <3> QED
        BY <1>1, <3>2 DEF ConnIInv, AnswersStand, RepliesStand
    <2>9. ListsRead'
      BY <1>1, <2>3, <2>4, ListsStay
    <2> QED
      BY <2>5, <2>6, <2>7, <2>8, <2>9 DEF ConnIInv
  <1> QED BY <1>3, <1>4

\* An answer commits: the row was pending, so no other answer was on its way or
\* acknowledged.
LEMMA ResolveStep ==
    ASSUME ConnIInv, NEW n \in Edge, NEW u \in User, NEW s \in {"accepted", "declined"},
           resolvePendingInvite(n, u, s)
    PROVE  ConnIInv'
  <1> DEFINE ans == [edge |-> n, by |-> u, status |-> s]
  <1>1. /\ conns[n].addressee = u /\ conns[n].status = "pending"
        /\ conns' = [conns EXCEPT ![n].status = s]
        /\ reply' = reply \cup {ans}
        /\ UNCHANGED <<invite, answered, listing>>
    BY DEF resolvePendingInvite, Resolvable
  <1>2. conns[n] \in Row
    BY <1>1, RowTyped DEF ConnIInv
  <1>3. PICK row \in Row :
            /\ conns' = [conns EXCEPT ![n] = row]
            /\ row.requester = conns[n].requester /\ row.addressee = u /\ row.status = s
    <2>1. [conns[n] EXCEPT !.status = s] \in Row
      BY <1>2 DEF Row, Status
    <2> QED
      BY <1>1, <1>2, <2>1 DEF ConnIInv, ConnTypeOK, Row
  <1>4. /\ conns' \in [Edge -> Row \cup {NoRow}] /\ conns'[n] = row
        /\ \A e \in Edge : e # n => conns'[e] = conns[e]
    BY <1>3 DEF ConnIInv, ConnTypeOK
  <1>5. ans \in Answer /\ ans.edge = n /\ ans.by = u /\ ans.status = s
    BY DEF Answer, Status
  <1> HIDE DEF ans
  <1>6. ConnTypeOK'
    BY <1>1, <1>4, <1>5 DEF ConnIInv, ConnTypeOK
  <1>7. OneLivePerPair'
    <2> SUFFICES ASSUME NEW e \in Edge, NEW f \in Edge,
                        conns'[e].status \in {"pending", "accepted"},
                        conns'[f].status \in {"pending", "accepted"},
                        {conns'[e].requester, conns'[e].addressee}
                          = {conns'[f].requester, conns'[f].addressee}
                 PROVE  e = f
      BY DEF OneLivePerPair, Pair
    <2>1. ASSUME NEW d \in Edge, conns'[d].status \in {"pending", "accepted"}
          PROVE  /\ conns[d].status \in {"pending", "accepted"}
                 /\ conns'[d].requester = conns[d].requester
                 /\ conns'[d].addressee = conns[d].addressee
      BY <1>1, <1>3, <1>4, <2>1
    <2> QED
      BY <2>1 DEF ConnIInv, OneLivePerPair, Pair
  <1>8. NobodyTwice'
    BY <1>1, <1>3, <1>4 DEF ConnIInv, NobodyTwice
  <1>9. AnswersStand' /\ RepliesStand'
    <2>1. \A a \in reply \cup answered : a.edge \in Edge /\ conns[a.edge].status # "pending"
      BY AnswerTyped DEF ConnIInv, AnswersStand, RepliesStand
    <2>2. \A a \in reply \cup answered : conns'[a.edge] = conns[a.edge]
      BY <1>1, <1>4, <2>1
    <2> QED
      BY <1>1, <1>3, <1>4, <1>5, <2>2 DEF ConnIInv, AnswersStand, RepliesStand
  <1>10. ListsRead'
    BY <1>1, <1>3, <1>4, ListsStay
  <1> QED
    BY <1>6, <1>7, <1>8, <1>9, <1>10 DEF ConnIInv

\* The 200 arrives or is lost: the rows stay as they are.
LEMMA ReplyStep ==
    ASSUME ConnIInv, NEW a \in reply, Acknowledge(a) \/ LoseAnswer(a)
    PROVE  ConnIInv'
  <1>1. /\ UNCHANGED <<conns, invite, listing>> /\ reply' \subseteq reply
        /\ answered' \subseteq answered \cup {a}
    BY DEF Acknowledge, LoseAnswer
  <1>2. ConnTypeOK'
    BY <1>1 DEF ConnIInv, ConnTypeOK
  <1>3. AnswersStand' /\ RepliesStand'
    BY <1>1 DEF ConnIInv, AnswersStand, RepliesStand
  <1> QED
    BY <1>1, <1>2, <1>3 DEF ConnIInv, OneLivePerPair, Pair, NobodyTwice, ListsRead

\* The first SELECT of ListPendingForUser: every invite it finds is live.
LEMMA ListIncomingStep ==
    ASSUME ConnIInv, NEW u \in User, ListIncoming(u)
    PROVE  ConnIInv'
  <1>1. /\ UNCHANGED <<conns, invite, reply, answered>>
        /\ listing' = [read |-> "incoming", user |-> u, incoming |-> Incoming(u), outgoing |-> {}]
    BY DEF ListIncoming
  <1>2. /\ listing' \in Listing /\ listing'.user = u
        /\ listing'.incoming = Incoming(u) /\ listing'.outgoing = {}
    BY <1>1 DEF Listing, Incoming
  <1>3. \A e \in Incoming(u) : /\ e \in Edge /\ conns[e].addressee = u
                               /\ conns[e].status = "pending"
    BY DEF Incoming
  <1>4. \A e, f \in Incoming(u) : conns[e].requester = conns[f].requester => e = f
    BY <1>3 DEF ConnIInv, OneLivePerPair, Pair
  <1>5. ListsRead'
    BY <1>1, <1>2, <1>3, <1>4 DEF ListsRead
  <1> QED
    BY <1>1, <1>2, <1>5
    DEF ConnIInv, ConnTypeOK, OneLivePerPair, Pair, NobodyTwice, AnswersStand, RepliesStand

\* The second SELECT: an invite in the other direction can be open only if the one that
\* was listed is not, and an accepted one is as live as a pending one.
LEMMA ListOutgoingStep ==
    ASSUME ConnIInv, ListOutgoing
    PROVE  ConnIInv'
  <1> DEFINE u == listing.user
  <1>1. /\ UNCHANGED <<conns, invite, reply, answered>>
        /\ listing' = [listing EXCEPT !.read = "both", !.outgoing = Outgoing(u)]
        /\ listing.read = "incoming"
    BY DEF ListOutgoing
  <1>2. listing \in Listing
    BY <1>1 DEF ConnIInv, ConnTypeOK, NoListing
  <1>3. /\ listing' \in Listing /\ listing'.user = u
        /\ listing'.incoming = listing.incoming /\ listing'.outgoing = Outgoing(u)
    BY <1>1, <1>2 DEF Listing, Outgoing
  <1>4. \A e \in Outgoing(u) : /\ e \in Edge /\ conns[e].requester = u
                               /\ conns[e].status = "pending"
    BY DEF Outgoing
  <1>5. \A e, f \in Outgoing(u) : conns[e].addressee = conns[f].addressee => e = f
    BY <1>4 DEF ConnIInv, OneLivePerPair, Pair
  <1>6. ASSUME NEW e \in listing.incoming, NEW f \in Outgoing(u),
               conns[e].requester = conns[f].addressee
        PROVE  conns[e].status = "declined"
    <2>1. e \in Edge /\ conns[e].addressee = u /\ conns[e].status # "none"
      BY <1>2 DEF Listing, ConnIInv, ListsRead
    <2>2. f \in Edge /\ conns[f].requester = u /\ conns[f].status = "pending"
      BY <1>4
    <2>3. e # f
      BY <1>6, <2>1, <2>2 DEF ConnIInv, NobodyTwice
    <2>4. conns[e].status \notin {"pending", "accepted"}
      BY <1>6, <2>1, <2>2, <2>3 DEF ConnIInv, OneLivePerPair, Pair
    <2> QED
      BY <2>1, <2>4, RowTyped DEF ConnIInv, Status
  <1>7. ListsRead'
    <2>1. /\ \A e \in listing.incoming : conns[e].status # "none" /\ conns[e].addressee = u
          /\ \A e, f \in listing.incoming : conns[e].requester = conns[f].requester => e = f
      BY DEF ConnIInv, ListsRead
    <2> QED
      BY <1>1, <1>3, <1>4, <1>5, <1>6, <2>1 DEF ListsRead
  <1> QED
    BY <1>1, <1>3, <1>7
    DEF ConnIInv, ConnTypeOK, OneLivePerPair, Pair, NobodyTwice, AnswersStand, RepliesStand

\* The list is returned, or a query of it failed.
LEMMA ListReturnsStep == ConnIInv /\ ListReturns => ConnIInv'
  <1> SUFFICES ASSUME ConnIInv, ListReturns PROVE ConnIInv'
    OBVIOUS
  <1>1. UNCHANGED <<conns, invite, reply, answered>> /\ listing' = NoListing
    BY DEF ListReturns
  <1>2. ListsRead'
    BY <1>1 DEF ListsRead, NoListing
  <1>3. ConnTypeOK'
    BY <1>1 DEF ConnIInv, ConnTypeOK
  <1> QED
    BY <1>1, <1>2, <1>3
    DEF ConnIInv, OneLivePerPair, Pair, NobodyTwice, AnswersStand, RepliesStand

\* Every step of the connection service.
LEMMA ConnStepInv == ConnIInv /\ ConnNext => ConnIInv'
  <1> SUFFICES ASSUME ConnIInv, ConnNext PROVE ConnIInv'
    OBVIOUS
  <1>1. ASSUME NEW r \in Request, NEW u \in User, NEW v \in User, SendInvite(r, u, v) PROVE ConnIInv'
    <2>1. invite' = [invite EXCEPT ![r] = <<u, v>>] /\ u # v
      BY <1>1 DEF SendInvite
    <2>2. \A q \in Request : invite'[q] # <<>> => invite'[q][1] # invite'[q][2]
      BY <2>1 DEF ConnIInv, ConnTypeOK, NobodyTwice
    <2> QED
      BY <1>1, <2>1, <2>2, InviteStep DEF SendInvite, ConnIInv, ConnTypeOK
  <1>2. ASSUME NEW r \in Request, AbandonInvite(r) PROVE ConnIInv'
    <2>1. invite' = [invite EXCEPT ![r] = <<>>]
      BY <1>2 DEF AbandonInvite
    <2>2. \A q \in Request : invite'[q] # <<>> => invite'[q][1] # invite'[q][2]
      BY <2>1 DEF ConnIInv, ConnTypeOK, NobodyTwice
    <2> QED
      BY <1>2, <2>1, <2>2, InviteStep DEF AbandonInvite, ConnIInv, ConnTypeOK
  <1>3. ASSUME NEW r \in Request, CreateEdge(r) PROVE ConnIInv'
    BY <1>3, CreateEdgeStep
  <1>4. ASSUME NEW e \in Edge, NEW u \in User, AcceptInvite(e, u) \/ DeclineInvite(e, u) PROVE ConnIInv'
    BY <1>4, ResolveStep DEF AcceptInvite, DeclineInvite
  <1> QED
    BY <1>1, <1>2, <1>3, <1>4, ReplyStep, ListIncomingStep, ListOutgoingStep, ListReturnsStep
    DEF ConnNext

-----------------------------------------------------------------------------
(* Saved items.                                                            *)

\* The bookmarks of a user and type.
Rows(u, type) == {b \in saved : b[1] = u /\ b[2][1] = type}

\* What the two counts of the property are, with the bounds that hold in any state.
LEMMA Counts ==
    ASSUME IsFiniteSet(saved), NEW u, NEW type
    PROVE  /\ IsFiniteSet(Rows(u, type))
           /\ CountByUserAndType(u, type) = Cardinality(Rows(u, type))
           /\ CountByUserAndType(u, type) \in Nat
           /\ IsFiniteSet(PastTheCap(u, type))
           /\ Cardinality(PastTheCap(u, type)) \in Nat
           /\ Cap \in Nat /\ Cap >= 1
  <1>1. Rows(u, type) \subseteq saved /\ PastTheCap(u, type) \subseteq Request
    BY DEF Rows, PastTheCap
  <1>2. IsFiniteSet(Rows(u, type)) /\ IsFiniteSet(PastTheCap(u, type))
    BY <1>1, RequestsFinite, FS_Subset
  <1>4. CountByUserAndType(u, type) = Cardinality(Rows(u, type))
    BY DEF CountByUserAndType, Rows
  <1> QED
    BY <1>2, <1>4, CapAssumption, FS_CardinalityType

\* What the property allows.
Bound(u, type) == IF peak[<<u, type>>] = 0 THEN 0 ELSE Cap + peak[<<u, type>>] - 1

\* It is a number, and one that only a new peak changes.
LEMMA BoundTyped ==
    ASSUME SavedTypeOK, NEW u \in User, NEW type \in ItemType
    PROVE  peak[<<u, type>>] \in Nat /\ Bound(u, type) \in Int
  <1>1. peak[<<u, type>>] \in Nat
    BY DEF SavedTypeOK
  <1> QED BY <1>1, CapAssumption DEF Bound

\* No row and no request past the cap.
LEMMA SavedInitInv == SavedInit => SavedIInv
  <1> SUFFICES ASSUME SavedInit PROVE SavedIInv
    OBVIOUS
  <1>1. SavedTypeOK /\ IsFiniteSet(saved)
    BY FS_EmptySet DEF SavedInit, SavedTypeOK, SaveReq
  <1>2. ASSUME NEW u \in User, NEW type \in ItemType
        PROVE  CountByUserAndType(u, type) + Cardinality(PastTheCap(u, type)) <= Bound(u, type)
    <2>1. Rows(u, type) = {} /\ PastTheCap(u, type) = {} /\ Bound(u, type) = 0
      BY DEF SavedInit, Rows, PastTheCap, NoSave, Bound
    <2>2. CountByUserAndType(u, type) = 0 /\ Cardinality(PastTheCap(u, type)) = 0
      BY <1>1, <2>1, Counts, FS_EmptySet
    <2> QED
      BY <2>1, <2>2
  <1> QED
    BY <1>1, <1>2 DEF SavedIInv, SavedWithinOvershoot, Bound

\* A request in hand has a user and an item.
LEMMA SaveTyped ==
    ASSUME SavedTypeOK, NEW r \in Request, save[r].pc # "idle"
    PROVE  /\ save[r] \in [pc: {"count", "insert"}, user: User, item: Item]
           /\ save[r].user \in User /\ save[r].item \in Item
  <1>1. save[r] \in SaveReq
    BY DEF SavedTypeOK
  <1> QED
    BY <1>1 DEF SaveReq, NoSave

\* A step that inserts nothing and lets nobody past the cap.
LEMMA ShrinkStep ==
    ASSUME SavedIInv, SavedTypeOK', saved' \subseteq saved,
           \A q \in Request : save'[q].pc = "insert" => save'[q] = save[q],
           UNCHANGED peak
    PROVE  SavedIInv'
  <1>1. IsFiniteSet(saved) /\ IsFiniteSet(saved')
    BY FS_Subset DEF SavedIInv
  <1>2. ASSUME NEW u \in User, NEW type \in ItemType
        PROVE  CountByUserAndType(u, type)' + Cardinality(PastTheCap(u, type)') <= Bound(u, type)'
    <2>0. Bound(u, type)' = Bound(u, type) /\ Bound(u, type) \in Int
      BY BoundTyped DEF Bound, SavedIInv
    <2>1. Rows(u, type)' \subseteq Rows(u, type)
      BY DEF Rows
    <2>2. PastTheCap(u, type)' \subseteq PastTheCap(u, type)
      BY DEF PastTheCap
    <2>3. /\ IsFiniteSet(Rows(u, type)) /\ IsFiniteSet(PastTheCap(u, type))
          /\ CountByUserAndType(u, type) = Cardinality(Rows(u, type))
          /\ CountByUserAndType(u, type) \in Nat /\ Cardinality(PastTheCap(u, type)) \in Nat
      BY <1>1, Counts
    <2>4. /\ IsFiniteSet(Rows(u, type)') /\ Cardinality(Rows(u, type)') =< Cardinality(Rows(u, type))
          /\ IsFiniteSet(PastTheCap(u, type)')
          /\ Cardinality(PastTheCap(u, type)') =< Cardinality(PastTheCap(u, type))
      BY <2>1, <2>2, <2>3, FS_Subset
    <2>5. Cardinality(Rows(u, type)') \in Nat /\ Cardinality(PastTheCap(u, type)') \in Nat
      BY <2>4, FS_CardinalityType
    <2>6. CountByUserAndType(u, type)' = Cardinality(Rows(u, type)')
      BY DEF CountByUserAndType, Rows
    <2>7. CountByUserAndType(u, type) + Cardinality(PastTheCap(u, type)) <= Bound(u, type)
      BY DEF SavedIInv, SavedWithinOvershoot, Bound
    <2> QED
      BY <2>0, <2>3, <2>4, <2>5, <2>6, <2>7
  <1> QED
    BY <1>1, <1>2 DEF SavedIInv, SavedWithinOvershoot, Bound

\* The count: who gets past the cap does so while there is room, and the peak is at least
\* the number of those past it.
LEMMA CountStep ==
    ASSUME SavedIInv, NEW r \in Request, CountForCap(r)
    PROVE  SavedIInv'
  <1> DEFINE who == save[r].user
             what == save[r].item[1]
             together == Cardinality(PastTheCap(who, what)) + 1
             key == <<who, what>>
  <1>1. save[r].pc = "count" /\ saved' = saved
    BY DEF CountForCap
  <1>2. /\ save[r] \in [pc: {"count", "insert"}, user: User, item: Item]
        /\ who \in User /\ what \in ItemType /\ key \in User \X ItemType
    BY <1>1, SaveTyped DEF SavedIInv, Item, ItemType
  <1>3. IsFiniteSet(saved) /\ SavedTypeOK
    BY DEF SavedIInv
  <1>4. CASE AtCap(CountByUserAndType(who, what))
    <2>1. save' = [save EXCEPT ![r] = NoSave] /\ UNCHANGED peak
      BY <1>4 DEF CountForCap
    <2>2. SavedTypeOK' /\ \A q \in Request : save'[q].pc = "insert" => save'[q] = save[q]
      BY <1>1, <1>3, <2>1 DEF SavedTypeOK, SaveReq, NoSave
    <2> QED
      BY <1>1, <2>1, <2>2, ShrinkStep
  <1>5. CASE ~ AtCap(CountByUserAndType(who, what))
    <2>1. /\ save' = [save EXCEPT ![r].pc = "insert"]
          /\ peak' = [peak EXCEPT ![key] = IF peak[key] < together THEN together ELSE peak[key]]
      BY <1>5 DEF CountForCap
    <2>2. together \in Nat /\ peak[key] \in Nat
      BY <1>2, <1>3, Counts, BoundTyped
    <2>3. PICK new \in [pc: {"count", "insert"}, user: User, item: Item] :
              new.pc = "insert" /\ new.user = who /\ new.item = save[r].item
              /\ save' = [save EXCEPT ![r] = new]
      <3>1. [save[r] EXCEPT !.pc = "insert"] \in [pc: {"count", "insert"}, user: User, item: Item]
        BY <1>2
      <3> QED BY <1>2, <1>3, <2>1, <3>1 DEF SavedTypeOK
    <2>4. SavedTypeOK'
      BY <1>1, <1>3, <2>1, <2>2, <2>3 DEF SavedTypeOK, SaveReq
    <2>5. /\ save'[r].pc = "insert" /\ save'[r].user = who /\ save'[r].item[1] = what
          /\ \A q \in Request : q # r => save'[q] = save[q]
      BY <1>3, <2>3 DEF SavedTypeOK
    <2>6. ASSUME NEW u \in User, NEW type \in ItemType
          PROVE  CountByUserAndType(u, type)' + Cardinality(PastTheCap(u, type)') <= Bound(u, type)'
      <3>1. CountByUserAndType(u, type)' = CountByUserAndType(u, type)
        BY <1>1 DEF CountByUserAndType
      <3>2. CountByUserAndType(u, type) \in Nat /\ Cap \in Nat /\ IsFiniteSet(PastTheCap(u, type))
        BY <1>3, Counts
      <3>3. CASE u = who /\ type = what
        <4>1. CountByUserAndType(u, type) < Cap
          BY <1>5, <3>2, <3>3 DEF AtCap
        <4>2. PastTheCap(u, type)' = PastTheCap(u, type) \cup {r} /\ r \notin PastTheCap(u, type)
          BY <1>1, <2>5, <3>3 DEF PastTheCap
        <4>3. Cardinality(PastTheCap(u, type)') = together
          BY <3>2, <3>3, <4>2, FS_AddElement
        <4>4. peak'[key] \in Nat /\ peak'[key] >= together /\ peak'[key] # 0
          <5>1. peak'[key] = IF peak[key] < together THEN together ELSE peak[key]
            BY <1>2, <1>3, <2>1 DEF SavedTypeOK
          <5>2. together >= 1
            BY <1>3, Counts
          <5> HIDE DEF together, key
          <5> QED BY <2>2, <5>1, <5>2
        <4>5. Bound(u, type)' = Cap + peak'[key] - 1
          BY <3>3, <4>4 DEF Bound
        <4> HIDE DEF together, key
        <4> QED
          BY <2>2, <3>1, <3>2, <4>1, <4>3, <4>4, <4>5
      <3>4. CASE ~(u = who /\ type = what)
        <4>1. PastTheCap(u, type)' = PastTheCap(u, type)
          BY <1>1, <2>5, <3>4 DEF PastTheCap
        <4>2. <<u, type>> \in User \X ItemType /\ <<u, type>> # key
          BY <3>4
        <4>3. peak'[<<u, type>>] = peak[<<u, type>>]
          BY <1>3, <2>1, <4>2 DEF SavedTypeOK
        <4>4. Bound(u, type)' = Bound(u, type)
          BY <4>3 DEF Bound
        <4> QED
          BY <3>1, <4>1, <4>4 DEF SavedIInv, SavedWithinOvershoot, Bound
      <3> QED BY <3>3, <3>4
    <2> QED
      BY <1>1, <1>3, <2>4, <2>6 DEF SavedIInv, SavedWithinOvershoot, Bound
  <1> QED BY <1>4, <1>5

\* The INSERT: one more row at most, one request fewer that is past the cap.
LEMMA CreateBookmarkStep ==
    ASSUME SavedIInv, NEW r \in Request, CreateBookmark(r)
    PROVE  SavedIInv'
  <1> DEFINE who == save[r].user
             it == save[r].item
  <1>1. /\ save[r].pc = "insert" /\ saved' = saved \cup {<<who, it>>}
        /\ save' = [save EXCEPT ![r] = NoSave] /\ UNCHANGED peak
    BY DEF CreateBookmark
  <1>2. who \in User /\ it \in Item
    BY <1>1, SaveTyped DEF SavedIInv
  <1> HIDE DEF who, it
  <1>3. SavedTypeOK'
    BY <1>1, <1>2 DEF SavedIInv, SavedTypeOK, SaveReq, Bookmark
  <1>4. IsFiniteSet(saved) /\ IsFiniteSet(saved')
    BY <1>1, FS_AddElement DEF SavedIInv
  <1>5. save'[r].pc = "idle" /\ \A q \in Request : q # r => save'[q] = save[q]
    BY <1>1 DEF SavedIInv, SavedTypeOK, NoSave
  <1>6. ASSUME NEW u \in User, NEW type \in ItemType
        PROVE  CountByUserAndType(u, type)' + Cardinality(PastTheCap(u, type)') <= Bound(u, type)'
    <2>0. Bound(u, type)' = Bound(u, type) /\ Bound(u, type) \in Int
      BY <1>1, BoundTyped DEF Bound, SavedIInv
    <2>1. /\ IsFiniteSet(Rows(u, type)) /\ IsFiniteSet(PastTheCap(u, type))
          /\ CountByUserAndType(u, type) = Cardinality(Rows(u, type))
          /\ CountByUserAndType(u, type) \in Nat /\ Cardinality(PastTheCap(u, type)) \in Nat
      BY <1>4, Counts
    <2>2. CountByUserAndType(u, type)' = Cardinality(Rows(u, type)')
      BY DEF CountByUserAndType, Rows
    <2>3. CountByUserAndType(u, type) + Cardinality(PastTheCap(u, type)) <= Bound(u, type)
      BY DEF SavedIInv, SavedWithinOvershoot, Bound
    <2>4. CASE u = who /\ type = it[1]
      <3>1. Rows(u, type)' = Rows(u, type) \cup {<<who, it>>}
        BY <1>1, <2>4 DEF Rows
      <3>2. r \in PastTheCap(u, type) /\ PastTheCap(u, type)' = PastTheCap(u, type) \ {r}
        BY <1>1, <1>5, <2>4 DEF PastTheCap, who, it
      <3>3. Cardinality(Rows(u, type)') \in {Cardinality(Rows(u, type)), Cardinality(Rows(u, type)) + 1}
        BY <2>1, <3>1, FS_AddElement
      <3>4. Cardinality(PastTheCap(u, type)') = Cardinality(PastTheCap(u, type)) - 1
        BY <2>1, <3>2, FS_RemoveElement
      <3> QED
        BY <2>0, <2>1, <2>2, <2>3, <3>3, <3>4
    <2>5. CASE ~(u = who /\ type = it[1])
      <3>1. Rows(u, type)' = Rows(u, type)
        BY <1>1, <2>5 DEF Rows
      <3>2. PastTheCap(u, type)' = PastTheCap(u, type)
        BY <1>1, <1>5, <2>5 DEF PastTheCap, who, it
      <3> QED
        BY <2>0, <2>1, <2>2, <2>3, <3>1, <3>2
    <2> QED BY <2>4, <2>5
  <1> QED
    BY <1>3, <1>4, <1>6 DEF SavedIInv, SavedWithinOvershoot, Bound

\* Every step of the saved-item service.
LEMMA SavedStepInv == SavedIInv /\ SavedNext => SavedIInv'
  <1> SUFFICES ASSUME SavedIInv, SavedNext PROVE SavedIInv'
    OBVIOUS
  <1>1. ASSUME NEW r \in Request, NEW u \in User, NEW item \in Item, Save(r, u, item)
        PROVE  SavedIInv'
    <2>1. [pc |-> "count", user |-> u, item |-> item] \in SaveReq
      BY DEF SaveReq
    <2>2. SavedTypeOK' /\ saved' = saved /\ peak' = peak
      BY <1>1, <2>1 DEF Save, SavedIInv, SavedTypeOK
    <2>3. \A q \in Request : save'[q].pc = "insert" => save'[q] = save[q]
      BY <1>1 DEF Save, SavedIInv, SavedTypeOK
    <2> QED
      BY <2>2, <2>3, ShrinkStep
  <1>2. ASSUME NEW r \in Request, AbandonSave(r) PROVE SavedIInv'
    <2>1. SavedTypeOK' /\ saved' = saved /\ peak' = peak
      BY <1>2 DEF AbandonSave, SavedIInv, SavedTypeOK, SaveReq
    <2>2. \A q \in Request : save'[q].pc = "insert" => save'[q] = save[q]
      BY <1>2 DEF AbandonSave, SavedIInv, SavedTypeOK, NoSave
    <2> QED
      BY <2>1, <2>2, ShrinkStep
  <1>3. ASSUME NEW r \in Request, CountForCap(r) PROVE SavedIInv'
    BY <1>3, CountStep
  <1>4. ASSUME NEW r \in Request, CreateBookmark(r) PROVE SavedIInv'
    BY <1>4, CreateBookmarkStep
  <1>5. ASSUME NEW u \in User, NEW item \in Item, Unsave(u, item) PROVE SavedIInv'
    <2>1. SavedTypeOK' /\ saved' \subseteq saved /\ save' = save /\ peak' = peak
      BY <1>5 DEF Unsave, SavedIInv, SavedTypeOK
    <2> QED
      BY <2>1, ShrinkStep
  <1> QED
    BY <1>1, <1>2, <1>3, <1>4, <1>5 DEF SavedNext

-----------------------------------------------------------------------------
(* Public profiles.                                                        *)

\* normalizeHandle gives NULL or a handle that nobody reserved.
LEMMA NormalizedTyped ==
    ASSUME NEW raw \in RawHandle, ValidHandle(raw)
    PROVE  normalizeHandle(raw) \in Handle
  BY DEF RawHandle, ValidHandle, normalizeHandle, Handle

\* Every step of the profile and company services stores only such handles.
LEMMA ProfileTypes ==
    ASSUME ProfileTypeOK, DirectoryTypeOK, ProfileNext
    PROVE  ProfileTypeOK'
  <1>1. ASSUME NEW u \in User, NEW raw \in RawHandle, UpdateProfile(u, raw)
        PROVE  ProfileTypeOK'
    BY <1>1, NormalizedTyped DEF UpdateProfile, ProfileTypeOK
  <1>2. ASSUME NEW r \in Request, NEW u \in User, NEW raw \in RawHandle, UpdateMyCompany(r, u, raw)
        PROVE  ProfileTypeOK'
    <2>1. memberOf[u] \in Company /\ normalizeHandle(raw) \in Handle
      BY <1>2, NormalizedTyped DEF UpdateMyCompany, DirectoryTypeOK
    <2> QED
      BY <1>2, <2>1 DEF UpdateMyCompany, ProfileTypeOK
  <1>3. ASSUME NEW r \in Request, UpdateCompany(r) PROVE ProfileTypeOK'
    <2>1. edit[r] \in [company: Company, handle: Handle]
      BY <1>3 DEF UpdateCompany, ProfileTypeOK
    <2>2. PICK c \in Company, h \in Handle : c = edit[r].company /\ h = edit[r].handle
      BY <2>1
    <2>3. /\ companyHandle' = [companyHandle EXCEPT ![c] =
                                  IF CompanyHandleFree(c, h) THEN h ELSE companyHandle[c]]
          /\ edit' = [edit EXCEPT ![r] = NoEdit] /\ UNCHANGED handle
      BY <1>3, <2>2 DEF UpdateCompany, ProfileTypeOK
    <2> QED
      BY <2>3 DEF ProfileTypeOK
  <1>4. ASSUME NEW r \in Request, AbandonEdit(r) PROVE ProfileTypeOK'
    BY <1>4 DEF AbandonEdit, ProfileTypeOK
  <1> QED
    BY <1>1, <1>2, <1>3, <1>4 DEF ProfileNext

-----------------------------------------------------------------------------
(* Two-factor authentication.                                              *)

\* MFA is off and nothing was generated.
LEMMA MfaInitInv == MfaInit => MfaIInv
  BY NoneIsNoCode
  DEF MfaInit, MfaIInv, MfaTypeOK, MfaRow, MfaReq, NoMFA, NoMfaReq, CodesHeldAreStored, CodesOnTheWay

\* A step that leaves the row alone and puts no codes on their way.
LEMMA MfaRequestStep ==
    ASSUME MfaIInv, UNCHANGED <<mfa, shown, handed, cleared, checked>>,
           mfaReq' \in [Request -> MfaReq],
           \A r \in Request : mfaReq'[r].pc = "answer" => mfaReq'[r] = mfaReq[r]
    PROVE  MfaIInv'
  BY DEF MfaIInv, MfaTypeOK, CodesHeldAreStored, CodesOnTheWay

\* EnrollRead, ConfirmRead, DisableRead and AbortMfa only move a request.
LEMMA MfaReadStep ==
    ASSUME MfaIInv, NEW r \in Request,
           EnrollRead(r) \/ ConfirmRead(r) \/ DisableRead(r) \/ AbortMfa(r)
    PROVE  MfaIInv'
  <1>1. UNCHANGED <<mfa, shown, handed, cleared, checked>>
    BY DEF EnrollRead, ConfirmRead, DisableRead, AbortMfa
  <1>2. mfa.secret \in Secret \cup {None} /\ mfaReq \in [Request -> MfaReq]
    BY DEF MfaIInv, MfaTypeOK, MfaRow
  <1>3. PICK new \in MfaReq : new.pc # "answer" /\ mfaReq' = [mfaReq EXCEPT ![r] = new]
    <2>1. CASE ConfirmRead(r)
      <3>1. [pc |-> "confirm", secret |-> mfa.secret, codes |-> None] \in MfaReq
        BY <1>2 DEF MfaReq
      <3> QED BY <2>1, <3>1 DEF ConfirmRead
    <2>2. CASE AbortMfa(r)
      BY <2>2 DEF AbortMfa, MfaReq, NoMfaReq
    <2>3. ASSUME NEW p \in {"enroll", "disable"}, mfaReq' = [mfaReq EXCEPT ![r].pc = p]
          PROVE  \E new \in MfaReq : new.pc # "answer" /\ mfaReq' = [mfaReq EXCEPT ![r] = new]
      <3>1. [mfaReq[r] EXCEPT !.pc = p] \in MfaReq /\ [mfaReq[r] EXCEPT !.pc = p].pc = p
        BY <1>2 DEF MfaReq
      <3> QED BY <1>2, <2>3, <3>1
    <2> QED BY <2>1, <2>2, <2>3 DEF EnrollRead, DisableRead
  <1>4. /\ mfaReq' \in [Request -> MfaReq]
        /\ \A q \in Request : mfaReq'[q].pc = "answer" => mfaReq'[q] = mfaReq[q]
    BY <1>2, <1>3
  <1> QED
    BY <1>1, <1>4, MfaRequestStep

\* SetPendingTOTPSecret replaces the secret and touches no codes.
LEMMA SetPendingStep ==
    ASSUME MfaIInv, NEW r \in Request, SetPendingTOTPSecret(r)
    PROVE  MfaIInv'
  <1>1. PICK s \in Secret : mfa' = [mfa EXCEPT !.secret = s] /\ shown' = shown \cup {s}
    BY DEF SetPendingTOTPSecret
  <1>2. /\ mfaReq' = [mfaReq EXCEPT ![r] = NoMfaReq] /\ UNCHANGED <<handed, cleared, checked>>
        /\ mfa \in MfaRow /\ mfaReq \in [Request -> MfaReq]
    BY DEF SetPendingTOTPSecret, MfaIInv, MfaTypeOK
  <1>3. mfa' \in MfaRow /\ mfa'.codes = mfa.codes /\ mfa'.enabled = mfa.enabled
    BY <1>1, <1>2 DEF MfaRow
  <1>4. MfaTypeOK'
    BY <1>1, <1>2, <1>3 DEF MfaIInv, MfaTypeOK, MfaReq, NoMfaReq
  <1>5. \A q \in Request : mfaReq'[q].pc = "answer" => mfaReq'[q] = mfaReq[q]
    BY <1>2 DEF NoMfaReq
  <1> QED
    BY <1>1, <1>2, <1>3, <1>4, <1>5 DEF MfaIInv, CodesHeldAreStored, CodesOnTheWay

\* EnableMFA: the codes that the winner stores were never generated before, and none
\* were stored.
LEMMA EnableStep ==
    ASSUME MfaIInv, NEW r \in Request, EnableMFA(r)
    PROVE  MfaIInv'
  <1>1. CASE ~EnableMatches
    <2>1. /\ mfaReq' = [mfaReq EXCEPT ![r] = NoMfaReq]
          /\ UNCHANGED <<mfa, shown, handed, cleared, checked>>
      BY <1>1 DEF EnableMFA
    <2>2. /\ mfaReq' \in [Request -> MfaReq]
          /\ \A q \in Request : mfaReq'[q].pc = "answer" => mfaReq'[q] = mfaReq[q]
      BY <2>1 DEF MfaIInv, MfaTypeOK, MfaReq, NoMfaReq
    <2> QED
      BY <2>1, <2>2, MfaRequestStep
  <1>2. CASE EnableMatches
    <2> DEFINE new(c) == [pc |-> "answer", secret |-> None, codes |-> c]
    <2>1. PICK c \in CodeSet \ shown :
              /\ mfa' = EnabledWith(c) /\ shown' = shown \cup {c}
              /\ mfaReq' = [mfaReq EXCEPT ![r] = new(c)]
      BY <1>2 DEF EnableMFA
    <2>2. /\ checked' = mfaReq[r].secret /\ UNCHANGED <<handed, cleared>>
          /\ mfa \in MfaRow /\ mfaReq \in [Request -> MfaReq]
      BY <1>2 DEF EnableMFA, MfaIInv, MfaTypeOK
    <2>3. mfa.codes = None
      BY <1>2 DEF EnableMatches, MfaIInv, CodesHeldAreStored
    <2>4. mfa' \in MfaRow /\ mfa'.codes = c /\ mfa'.enabled = TRUE
      BY <2>1, <2>2 DEF EnabledWith, MfaRow
    <2>5. new(c) \in MfaReq /\ new(c).codes = c
      BY DEF MfaReq
    <2> HIDE DEF new
    <2>6. MfaTypeOK'
      BY <2>1, <2>2, <2>4, <2>5 DEF MfaIInv, MfaTypeOK, MfaReq
    <2>7. c # None /\ c \notin cleared
      BY <2>1, NoneIsNoCode DEF MfaIInv, CodesOnTheWay
    <2>8. None \notin handed /\ None \notin cleared
      BY NoneIsNoCode DEF MfaIInv, MfaTypeOK
    <2>9. CodesHeldAreStored'
      BY <2>2, <2>3, <2>4, <2>7, <2>8 DEF MfaIInv, CodesHeldAreStored
    <2>10. ASSUME NEW q \in Request, mfaReq'[q].pc = "answer"
           PROVE  mfaReq'[q].codes # None /\ mfaReq'[q].codes \in {mfa'.codes} \cup cleared'
      <3>1. CASE q = r
        BY <2>1, <2>2, <2>4, <2>5, <2>7, <3>1
      <3>2. CASE q # r
        BY <2>1, <2>2, <2>3, <2>10, <3>2 DEF MfaIInv, CodesOnTheWay
      <3> QED BY <3>1, <3>2
    <2>11. ({mfa'.codes} \cup cleared') \ {None} \subseteq shown'
      BY <2>1, <2>2, <2>4 DEF MfaIInv, CodesOnTheWay
    <2> QED
      BY <2>6, <2>9, <2>10, <2>11 DEF MfaIInv, CodesOnTheWay
  <1> QED BY <1>1, <1>2

\* The codes of a confirm arrive, however late.
LEMMA ReturnCodesStep ==
    ASSUME MfaIInv, NEW r \in Request, ReturnCodes(r)
    PROVE  MfaIInv'
  <1>1. /\ mfaReq[r].pc = "answer" /\ handed' = handed \cup {mfaReq[r].codes}
        /\ mfaReq' = [mfaReq EXCEPT ![r] = NoMfaReq]
        /\ UNCHANGED <<mfa, shown, cleared, checked>>
    BY DEF ReturnCodes
  <1>2. mfaReq[r].codes \in {mfa.codes} \cup cleared /\ mfaReq[r].codes # None
    BY <1>1 DEF MfaIInv, CodesOnTheWay
  <1>3. mfaReq[r].codes \in CodeSet
    BY <1>2 DEF MfaIInv, MfaTypeOK, MfaRow
  <1>4. MfaTypeOK'
    BY <1>1, <1>3 DEF MfaIInv, MfaTypeOK, MfaReq, NoMfaReq
  <1>5. \A q \in Request : mfaReq'[q].pc = "answer" => mfaReq'[q] = mfaReq[q]
    BY <1>1 DEF MfaIInv, MfaTypeOK, NoMfaReq
  <1> QED
    BY <1>1, <1>2, <1>4, <1>5 DEF MfaIInv, CodesHeldAreStored, CodesOnTheWay

\* DisableMFA: what was stored is cleared.
LEMMA DisableStep ==
    ASSUME MfaIInv, NEW r \in Request, DisableMFA(r)
    PROVE  MfaIInv'
  <1>1. /\ mfa' = NoMFA /\ cleared' = cleared \cup ({mfa.codes} \ {None}) /\ checked' = None
        /\ mfaReq' = [mfaReq EXCEPT ![r] = NoMfaReq] /\ UNCHANGED <<shown, handed>>
    BY DEF DisableMFA
  <1>2. mfa.codes \in CodeSet \cup {None} /\ None \notin CodeSet
    BY NoneIsNoCode DEF MfaIInv, MfaTypeOK, MfaRow
  <1>3. mfa' \in MfaRow /\ mfa'.codes = None /\ mfa'.enabled = FALSE
    BY <1>1 DEF NoMFA, MfaRow
  <1>4. MfaTypeOK'
    BY <1>1, <1>2, <1>3 DEF MfaIInv, MfaTypeOK, MfaReq, NoMfaReq
  <1>5. CodesHeldAreStored'
    BY <1>1, <1>2, <1>3 DEF MfaIInv, MfaTypeOK, CodesHeldAreStored
  <1>6. \A q \in Request : mfaReq'[q].pc = "answer" => mfaReq'[q] = mfaReq[q]
    BY <1>1 DEF MfaIInv, MfaTypeOK, NoMfaReq
  <1> QED
    BY <1>1, <1>3, <1>4, <1>5, <1>6 DEF MfaIInv, CodesOnTheWay

\* Every step of the MFA service.
LEMMA MfaStepInv == MfaIInv /\ MfaNext => MfaIInv'
  BY MfaReadStep, SetPendingStep, EnableStep, ReturnCodesStep, DisableStep DEF MfaNext

-----------------------------------------------------------------------------
(* The theorems.                                                           *)

\* The initial tables are empty but for the companies.
LEMMA InitInv == Init => IInv
  <1>1. ProfileInit => ProfileTypeOK
    BY DEF ProfileInit, ProfileTypeOK, Handle
  <1> QED
    BY <1>1, ConnInitInv, SavedInitInv, MfaInitInv
    DEF Init, IInv, DirectoryInit, DirectoryTypeOK

\* A part that a step leaves alone keeps its invariant.
LEMMA ConnStutter == ConnIInv /\ UNCHANGED connVars => ConnIInv'
  BY InviteStep DEF connVars, ConnIInv, ConnTypeOK, NobodyTwice

\* The same for the bookmarks.
LEMMA SavedStutter == SavedIInv /\ UNCHANGED savedVars => SavedIInv'
  BY ShrinkStep DEF savedVars, SavedIInv, SavedTypeOK

\* The same for the handles.
LEMMA ProfileStutter == ProfileTypeOK /\ UNCHANGED profileVars => ProfileTypeOK'
  BY DEF profileVars, ProfileTypeOK

\* The same for the MFA columns.
LEMMA MfaStutter == MfaIInv /\ UNCHANGED mfaVars => MfaIInv'
  BY MfaRequestStep DEF mfaVars, MfaIInv, MfaTypeOK

\* Every step keeps the invariant.
LEMMA IInvStep == IInv /\ [Next]_vars => IInv'
  <1> SUFFICES ASSUME IInv, [Next]_vars PROVE IInv'
    OBVIOUS
  <1>1. DirectoryTypeOK /\ ConnIInv /\ SavedIInv /\ ProfileTypeOK /\ MfaIInv
    BY DEF IInv
  <1>2. UNCHANGED directoryVars => DirectoryTypeOK'
    BY <1>1 DEF directoryVars, DirectoryTypeOK
  <1>3. CASE ConnStep
    BY <1>1, <1>2, <1>3, ConnStepInv, SavedStutter, ProfileStutter, MfaStutter DEF ConnStep, IInv
  <1>4. CASE SavedStep
    BY <1>1, <1>2, <1>4, SavedStepInv, ConnStutter, ProfileStutter, MfaStutter DEF SavedStep, IInv
  <1>5. CASE ProfileStep
    BY <1>1, <1>2, <1>5, ProfileTypes, ConnStutter, SavedStutter, MfaStutter DEF ProfileStep, IInv
  <1>6. CASE MfaStep
    BY <1>1, <1>2, <1>6, MfaStepInv, ConnStutter, SavedStutter, ProfileStutter DEF MfaStep, IInv
  <1>7. CASE DirectoryStep
    BY <1>1, <1>7, DirectoryTypes, ConnStutter, SavedStutter, ProfileStutter, MfaStutter
    DEF DirectoryStep, IInv
  <1>8. CASE UNCHANGED vars
    BY <1>1, <1>2, <1>8, ConnStutter, SavedStutter, ProfileStutter, MfaStutter DEF vars, IInv
  <1> QED
    BY <1>3, <1>4, <1>5, <1>6, <1>7, <1>8 DEF Next

\* The inductive invariant of connections, bookmarks, profiles and MFA holds in every state.
THEOREM InvariantHolds == Spec => []IInv
  BY InitInv, IInvStep, PTL DEF Spec

\* Type correctness of the tables and of the requests on them.
THEOREM TypeCorrect == Spec => []TypeOK
  <1>1. IInv => TypeOK
    BY DEF IInv, ConnIInv, SavedIInv, MfaIInv, TypeOK
  <1> QED
    BY <1>1, InvariantHolds, PTL

\* No list shows a user twice, and the two lists of pending invites share one only when
\* the invite received was declined between the two SELECTs.
THEOREM NeverListedTwice == Spec => []ListedOnce
  <1>1. IInv => ListedOnce
    <2> SUFFICES ASSUME IInv PROVE ListedOnce
      OBVIOUS
    <2> DEFINE u == listing.user
    <2>1. ASSUME NEW v \in User, NEW e \in ListAcceptedForUser(v), NEW f \in ListAcceptedForUser(v),
                 Other(e, v) = Other(f, v)
          PROVE  e = f
      <3>1. /\ e \in Edge /\ conns[e].status = "accepted" /\ Pair(e) = {v, Other(e, v)}
            /\ f \in Edge /\ conns[f].status = "accepted" /\ Pair(f) = {v, Other(f, v)}
        BY DEF ListAcceptedForUser, Other, Pair
      <3> QED BY <2>1, <3>1 DEF IInv, ConnIInv, OneLivePerPair
    <2>2. listing.incoming \subseteq Edge /\ listing.outgoing \subseteq Edge
      BY ListTyped DEF IInv, ConnIInv
    <2>3. \A e \in listing.incoming : Other(e, u) = conns[e].requester
      BY <2>2 DEF IInv, ConnIInv, ListsRead, NobodyTwice, Other
    <2>4. \A e \in listing.outgoing : Other(e, u) = conns[e].addressee
      BY DEF IInv, ConnIInv, ListsRead, Other
    <2>5. OnceEach(listing.incoming, u) /\ OnceEach(listing.outgoing, u)
      BY <2>3, <2>4 DEF IInv, ConnIInv, ListsRead, OnceEach
    <2>6. \A e \in listing.incoming, f \in listing.outgoing :
              Other(e, u) = Other(f, u) => conns[e].status = "declined"
      BY <2>3, <2>4 DEF IInv, ConnIInv, ListsRead
    <2> QED
      BY <2>1, <2>5, <2>6 DEF ListedOnce, OnceEach
  <1> QED
    BY <1>1, InvariantHolds, PTL

\* An acknowledged answer stands and is the addressee's, so there is one per invite.
THEOREM AnswersAreFinal == Spec => []AnswersStand
  <1>1. IInv => AnswersStand
    BY DEF IInv, ConnIInv
  <1> QED
    BY <1>1, InvariantHolds, PTL

\* maxSavedPerUserPerType is exceeded at most by the other saves that were past the check
\* at the same moment.
THEOREM CapBoundsGrowth == Spec => []SavedWithinOvershoot
  <1>1. IInv => SavedWithinOvershoot
    BY DEF IInv, SavedIInv
  <1> QED
    BY <1>1, InvariantHolds, PTL

\* The conditional UPDATE of EnableMFA: whatever Enrolls, Confirms and Disables run at
\* once and whichever answers are late or lost, the backup codes a client was handed are
\* the stored ones until a Disable removes them.
THEOREM CodesHeldTheorem == Spec => []CodesHeldAreStored
  <1>1. IInv => CodesHeldAreStored
    BY DEF IInv, MfaIInv
  <1> QED
    BY <1>1, InvariantHolds, PTL
=============================================================================
