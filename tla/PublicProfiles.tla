--------------------------- MODULE PublicProfiles ---------------------------
(***************************************************************************)
(* The public profiles of users and companies, as far as one write depends *)
(* on another: the handle.  Every other field is validated by itself and   *)
(* replaced as a whole; a field out of bounds ends the request before it   *)
(* writes.                                                                 *)
(***************************************************************************)
EXTENDS Directory

CONSTANTS
    Name,      \* handles in lower case, of 3 to 30 letters, digits or underscores
    Reserved   \* me, admin, api, profile, settings

ASSUME ReservedAssumption == Reserved \subseteq Name /\ None \notin Name

VARIABLES
    handle,          \* users.handle
    companyHandle,   \* companies.handle
    edit             \* the UPDATE of companies that a request is about to run

profileVars == <<handle, companyHandle, edit>>

\* What a client may send: nothing or blanks, a handle in either case, or something
\* that is no handle.
RawHandle == [kind: {"blank", "malformed"}] \cup [kind: {"lower", "upper"}, name: Name]
Handle == (Name \ Reserved) \cup {None}
NoEdit == [company |-> None, handle |-> None]

ProfileTypeOK ==
    /\ handle \in [User -> Handle]
    /\ companyHandle \in [Company -> Handle]
    /\ edit \in [Request -> [company: Company, handle: Handle] \cup {NoEdit}]

ProfileInit ==
    /\ handle = [u \in User |-> None]
    /\ companyHandle = [c \in Company |-> None]
    /\ edit = [r \in Request |-> NoEdit]

-----------------------------------------------------------------------------
(* Operations.                                                             *)

\* mutant: reserved words are let through
ValidHandleReserved(raw) == raw.kind # "malformed"

\* normalizeHandle: what is refused, and the handle that the rest stands for.
ValidHandle(raw) ==
    \/ raw.kind = "blank"
    \/ raw.kind \in {"lower", "upper"} /\ raw.name \notin Reserved
normalizeHandle(raw) == IF raw.kind = "blank" THEN None ELSE raw.name

\* users_handle_unique: live rows with a handle.
UserHandleFree(u, h) == \A v \in User \ {u} : h = None \/ ~Live(v) \/ handle[v] # h

\* companies_handle_unique: rows with a handle.
CompanyHandleFree(c, h) == \A d \in Company \ {c} : h = None \/ companyHandle[d] # h

\* UpdateProfile is one UPDATE of a live row.
UpdateProfile(u, raw) ==
    /\ ValidHandle(raw)
    /\ Live(u)
    /\ UserHandleFree(u, normalizeHandle(raw))
    /\ handle' = [handle EXCEPT ![u] = normalizeHandle(raw)]
    /\ UNCHANGED <<companyHandle, edit>>

\* GetMyCompany, the owner gate and the validation of UpdateMyCompany.
UpdateMyCompany(r, u, raw) ==
    /\ edit[r] = NoEdit
    /\ Live(u)
    /\ memberOf[u] # None
    /\ owner[memberOf[u]] = u
    /\ ValidHandle(raw)
    /\ edit' = [edit EXCEPT ![r] = [company |-> memberOf[u], handle |-> normalizeHandle(raw)]]
    /\ UNCHANGED <<handle, companyHandle>>

\* Its UPDATE, which the index may refuse (409).
UpdateCompany(r) ==
    /\ edit[r] # NoEdit
    /\ LET c == edit[r].company
       IN  companyHandle' = [companyHandle EXCEPT ![c] =
               IF CompanyHandleFree(c, edit[r].handle) THEN edit[r].handle ELSE @]
    /\ edit' = [edit EXCEPT ![r] = NoEdit]
    /\ UNCHANGED handle

\* A failed query or a client that left.
AbandonEdit(r) ==
    /\ edit[r] # NoEdit
    /\ edit' = [edit EXCEPT ![r] = NoEdit]
    /\ UNCHANGED <<handle, companyHandle>>

ProfileNext ==
    \/ \E u \in User, raw \in RawHandle : UpdateProfile(u, raw)
    \/ \E r \in Request :
        \/ \E u \in User, raw \in RawHandle : UpdateMyCompany(r, u, raw)
        \/ UpdateCompany(r) \/ AbandonEdit(r)
=============================================================================
