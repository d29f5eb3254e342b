-------------------------------- MODULE MFA --------------------------------
(***************************************************************************)
(* TOTP two-factor authentication: the MFA columns of one users row and    *)
(* the enroll, confirm and disable requests of its owner.  Each request    *)
(* reads the row, decides, and then writes it with one UPDATE; requests of *)
(* several devices of the owner run at the same time.  A confirm answers   *)
(* with the backup codes after its UPDATE has committed, so the codes can  *)
(* be stored and never arrive.                                             *)
(***************************************************************************)
EXTENDS Handlers

CONSTANTS
    Secret,   \* TOTP secrets that totp.Generate can return
    CodeSet   \* sets of backup codes that generateBackupCodes can return

ASSUME NoneIsNoCode == None \notin Secret \cup CodeSet

VARIABLES
    mfa,      \* mfa_enabled, totp_secret_enc and mfa_backup_codes_enc
    mfaReq,   \* what each request still has to do
    shown,    \* history: secrets and code sets generated so far
    handed,   \* history: code sets that arrived at a client
    cleared,  \* history: code sets that DisableMFA removed from the row
    checked   \* history: the secret against which the code that enabled MFA was checked

mfaVars == <<mfa, mfaReq, shown, handed, cleared, checked>>

MfaRow == [enabled: BOOLEAN, secret: Secret \cup {None}, codes: CodeSet \cup {None}]
MfaReq == [pc: {"idle", "enroll", "confirm", "answer", "disable"},
           secret: Secret \cup {None}, codes: CodeSet \cup {None}]

NoMFA == [enabled |-> FALSE, secret |-> None, codes |-> None]
NoMfaReq == [pc |-> "idle", secret |-> None, codes |-> None]

MfaTypeOK ==
    /\ mfa \in MfaRow
    /\ mfaReq \in [Request -> MfaReq]
    /\ shown \subseteq Secret \cup CodeSet
    /\ handed \subseteq CodeSet
    /\ cleared \subseteq CodeSet
    /\ checked \in Secret \cup {None}

MfaInit ==
    /\ mfa = NoMFA
    /\ mfaReq = [r \in Request |-> NoMfaReq]
    /\ shown = {} /\ handed = {} /\ cleared = {}
    /\ checked = None

-----------------------------------------------------------------------------
(* Operations.                                                             *)

\* Enroll up to its UPDATE: an account with MFA enabled is refused.
EnrollRead(r) ==
    /\ mfaReq[r].pc = "idle"
    /\ ~mfa.enabled
    /\ mfaReq' = [mfaReq EXCEPT ![r].pc = "enroll"]
    /\ UNCHANGED <<mfa, shown, handed, cleared, checked>>

\* SetPendingTOTPSecret: a fresh secret replaces whatever is there, with no
\* condition on mfa_enabled.  The secret is then shown to the client; if that
\* answer is lost, nobody confirms it, and ConfirmRead need not happen.
SetPendingTOTPSecret(r) ==
    /\ mfaReq[r].pc = "enroll"
    /\ \E s \in Secret \ shown :
        /\ mfa' = [mfa EXCEPT !.secret = s]
        /\ shown' = shown \cup {s}
    /\ mfaReq' = [mfaReq EXCEPT ![r] = NoMfaReq]
    /\ UNCHANGED <<handed, cleared, checked>>

\* Confirm up to its UPDATE: the code is valid for the pending secret just read.
ConfirmRead(r) ==
    /\ mfaReq[r].pc = "idle"
    /\ ~mfa.enabled
    /\ mfa.secret # None
    /\ mfaReq' = [mfaReq EXCEPT ![r] = [pc |-> "confirm", secret |-> mfa.secret, codes |-> None]]
    /\ UNCHANGED <<mfa, shown, handed, cleared, checked>>

\* WHERE ... mfa_enabled = false.
EnableMatchesAny == TRUE
EnableMatches == ~mfa.enabled

\* SET mfa_enabled = true, mfa_backup_codes_enc = $2; the secret stays.
EnabledWith(c) == [mfa EXCEPT !.enabled = TRUE, !.codes = c]

\* EnableMFA: the UPDATE of a confirm.  The winner stores its freshly generated
\* codes and has them to return; the loser ends with ErrMFAAlreadyEnabled.
EnableMFA(r) ==
    /\ mfaReq[r].pc = "confirm"
    /\ \/ /\ EnableMatches
          /\ \E c \in CodeSet \ shown :
              /\ mfa' = EnabledWith(c)
              /\ shown' = shown \cup {c}
              /\ mfaReq' = [mfaReq EXCEPT ![r] = [pc |-> "answer", secret |-> None, codes |-> c]]
          /\ checked' = mfaReq[r].secret
       \/ /\ ~EnableMatches
          /\ mfaReq' = [mfaReq EXCEPT ![r] = NoMfaReq]
          /\ UNCHANGED <<mfa, shown, checked>>
    /\ UNCHANGED <<handed, cleared>>

\* The answer of Postgres and then that of Confirm arrive.
ReturnCodes(r) ==
    /\ mfaReq[r].pc = "answer"
    /\ handed' = handed \cup {mfaReq[r].codes}
    /\ mfaReq' = [mfaReq EXCEPT ![r] = NoMfaReq]
    /\ UNCHANGED <<mfa, shown, cleared, checked>>

\* Disable up to its UPDATE: MFA is enabled, a secret is stored, and the code is
\* valid for that secret or is one of the backup codes.
DisableRead(r) ==
    /\ mfaReq[r].pc = "idle"
    /\ mfa.enabled
    /\ mfa.secret # None
    /\ mfaReq' = [mfaReq EXCEPT ![r].pc = "disable"]
    /\ UNCHANGED <<mfa, shown, handed, cleared, checked>>

\* DisableMFA: every MFA column is cleared, with no condition on its value.
DisableMFA(r) ==
    /\ mfaReq[r].pc = "disable"
    /\ mfa' = NoMFA
    /\ cleared' = cleared \cup ({mfa.codes} \ {None})
    /\ checked' = None
    /\ mfaReq' = [mfaReq EXCEPT ![r] = NoMfaReq]
    /\ UNCHANGED <<shown, handed>>

\* A statement fails, the context is canceled or the process dies.  Before the
\* UPDATE nothing has changed; at "answer" the row has, and the codes are lost.
AbortMfa(r) ==
    /\ mfaReq[r].pc # "idle"
    /\ mfaReq' = [mfaReq EXCEPT ![r] = NoMfaReq]
    /\ UNCHANGED <<mfa, shown, handed, cleared, checked>>

MfaNext ==
    \E r \in Request :
        \/ EnrollRead(r)
        \/ SetPendingTOTPSecret(r)
        \/ ConfirmRead(r)
        \/ EnableMFA(r)
        \/ ReturnCodes(r)
        \/ DisableRead(r)
        \/ DisableMFA(r)
        \/ AbortMfa(r)

-----------------------------------------------------------------------------
(* Properties.                                                             *)

\* The backup codes that a client holds work, until MFA is disabled: every set
\* that Confirm has returned is the stored one or was removed by DisableMFA, and
\* a removed set is never stored again; codes are stored exactly while MFA is on.
\* The stored set may have arrived nowhere: a Confirm whose answer is lost leaves
\* MFA on with codes nobody holds.
CodesHeldAreStored ==
    /\ handed \subseteq {mfa.codes} \cup cleared
    /\ mfa.codes \notin cleared
    /\ mfa.enabled <=> mfa.codes # None

\* "The pending secret already in totp_secret_enc becomes the active secret.
\* Called by confirm only after the submitted code verified": while MFA is on,
\* the active secret is the one whose code enabled it.
ActiveSecretConfirmed == mfa.enabled => mfa.secret = checked

-----------------------------------------------------------------------------
(* The inductive invariant behind CodesHeldAreStored.                      *)

\* A set on its way to a client is stored or was removed, and generated sets are
\* never generated again.
CodesOnTheWay ==
    /\ \A r \in Request : mfaReq[r].pc = "answer" =>
          mfaReq[r].codes # None /\ mfaReq[r].codes \in {mfa.codes} \cup cleared
    /\ ({mfa.codes} \cup cleared) \ {None} \subseteq shown

MfaIInv == MfaTypeOK /\ CodesHeldAreStored /\ CodesOnTheWay
=============================================================================
