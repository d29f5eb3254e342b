---------------------------- MODULE SelfService ----------------------------
(***************************************************************************)
(* What a signed-in user does under /v1/me: connections, bookmarks, public *)
(* profiles and the two-factor settings of an account, side by side.  They *)
(* write disjoint tables and columns; what one does to the others goes     *)
(* through Directory alone.                                                *)
(***************************************************************************)
EXTENDS Connections, SavedItems, PublicProfiles, MFA

vars == <<directoryVars, connVars, savedVars, profileVars, mfaVars>>

TypeOK == DirectoryTypeOK /\ ConnTypeOK /\ SavedTypeOK /\ ProfileTypeOK /\ MfaTypeOK

Init == DirectoryInit /\ ConnInit /\ SavedInit /\ ProfileInit /\ MfaInit

ConnStep == ConnNext /\ UNCHANGED <<directoryVars, savedVars, profileVars, mfaVars>>
SavedStep == SavedNext /\ UNCHANGED <<directoryVars, connVars, profileVars, mfaVars>>
ProfileStep == ProfileNext /\ UNCHANGED <<directoryVars, connVars, savedVars, mfaVars>>
MfaStep == MfaNext /\ UNCHANGED <<directoryVars, connVars, savedVars, profileVars>>
DirectoryStep == DirectoryNext /\ UNCHANGED <<connVars, savedVars, profileVars, mfaVars>>

Next == ConnStep \/ SavedStep \/ ProfileStep \/ MfaStep \/ DirectoryStep

Spec == Init /\ [][Next]_vars

\* The inductive invariant of the four and of the rows they refer to.
IInv == DirectoryTypeOK /\ ConnIInv /\ SavedIInv /\ ProfileTypeOK /\ MfaIInv
=============================================================================
