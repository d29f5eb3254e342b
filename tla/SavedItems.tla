----------------------------- MODULE SavedItems -----------------------------
(***************************************************************************)
(* Bookmarks of jobs and companies.  Save looks up a company, counts the   *)
(* user's bookmarks and inserts one, in three statements of which only the *)
(* last is guarded by an index.                                            *)
(***************************************************************************)
EXTENDS Directory, Naturals, FiniteSets

CONSTANTS
    Job,   \* ids of jobs, which live in another service
    Cap    \* maxSavedPerUserPerType

ASSUME CapAssumption == Cap \in Nat \ {0}
\* A server runs finitely many goroutines.
ASSUME RequestsFinite == IsFiniteSet(Request)

VARIABLES
    saved,   \* the table saved_items
    save,    \* what a request still has to do
    peak     \* history: by user and item_type, the most saves past the cap check at once

savedVars == <<saved, save, peak>>

ItemType == {"job", "company"}
Item == ({"job"} \X Job) \cup ({"company"} \X Company)   \* item_type, item_id
Bookmark == User \X Item
NoSave == [pc |-> "idle", user |-> None, item |-> <<>>]
SaveReq == [pc: {"count", "insert"}, user: User, item: Item] \cup {NoSave}

SavedTypeOK ==
    /\ saved \subseteq Bookmark
    /\ save \in [Request -> SaveReq]
    /\ peak \in [User \X ItemType -> Nat]

SavedInit ==
    /\ saved = {}
    /\ save = [r \in Request |-> NoSave]
    /\ peak = [k \in User \X ItemType |-> 0]

-----------------------------------------------------------------------------
(* Operations.                                                             *)

CountByUserAndType(u, type) == Cardinality({b \in saved : b[1] = u /\ b[2][1] = type})

\* A company must exist, a job is not looked up.
Save(r, u, item) ==
    /\ save[r] = NoSave
    /\ item[1] = "company" => Exists(item[2])
    /\ save' = [save EXCEPT ![r] = [pc |-> "count", user |-> u, item |-> item]]
    /\ UNCHANGED <<saved, peak>>

\* mutant: > for >=
AtCapOffByOne(n) == n > Cap

AtCap(n) == n >= Cap

\* Saves of one user and type that the cap has let through and that are still to insert.
PastTheCap(u, type) ==
    {r \in Request : save[r].pc = "insert" /\ save[r].user = u /\ save[r].item[1] = type}

CountForCap(r) ==
    /\ save[r].pc = "count"
    /\ LET u == save[r].user
           type == save[r].item[1]
           together == Cardinality(PastTheCap(u, type)) + 1
       IN  \/ /\ AtCap(CountByUserAndType(u, type))
              /\ save' = [save EXCEPT ![r] = NoSave]
              /\ UNCHANGED peak
           \/ /\ ~AtCap(CountByUserAndType(u, type))
              /\ save' = [save EXCEPT ![r].pc = "insert"]
              /\ peak' = [peak EXCEPT ![<<u, type>>] = IF @ < together THEN together ELSE @]
    /\ UNCHANGED saved

\* The INSERT; a row that is there already violates saved_items_user_item_uniq (409)
\* and stays as it is.
CreateBookmark(r) ==
    /\ save[r].pc = "insert"
    /\ saved' = saved \cup {<<save[r].user, save[r].item>>}
    /\ save' = [save EXCEPT ![r] = NoSave]
    /\ UNCHANGED peak

\* A failed query or a client that left.
AbandonSave(r) ==
    /\ save[r] # NoSave
    /\ save' = [save EXCEPT ![r] = NoSave]
    /\ UNCHANGED <<saved, peak>>

\* DeleteByUserAndItem; removing what is not there is no error.
Unsave(u, item) ==
    /\ saved' = saved \ {<<u, item>>}
    /\ UNCHANGED <<save, peak>>

SavedNext ==
    \/ \E r \in Request :
        \/ \E u \in User, item \in Item : Save(r, u, item)
        \/ CountForCap(r) \/ CreateBookmark(r) \/ AbandonSave(r)
    \/ \E u \in User, item \in Item : Unsave(u, item)

-----------------------------------------------------------------------------
(* Properties.                                                             *)

\* "maxSavedPerUserPerType is the hard ceiling on how many bookmarks a single user may
\* hold for one item_type".  Two saves that both count before either inserts pass it.
CapIsHard == \A u \in User, type \in ItemType : CountByUserAndType(u, type) <= Cap

\* How far they pass it: a user's bookmarks of a type, with those about to be inserted,
\* exceed the cap at most by the other saves of that user and type that were past the
\* check at the same moment, whatever was saved and removed before.  Saves that come one
\* after the other never exceed it (CountByUserAndType, Create).
SavedWithinOvershoot ==
    \A u \in User, type \in ItemType :
        CountByUserAndType(u, type) + Cardinality(PastTheCap(u, type))
            <= IF peak[<<u, type>>] = 0 THEN 0 ELSE Cap + peak[<<u, type>>] - 1

\* The inductive invariant: to be counted, the rows must be finitely many.
SavedIInv == SavedTypeOK /\ IsFiniteSet(saved) /\ SavedWithinOvershoot
=============================================================================
