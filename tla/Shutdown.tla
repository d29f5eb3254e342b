------------------------------ MODULE Shutdown ------------------------------
(***************************************************************************)
(* The life of one server process and the e-mails it sends: run() in       *)
(* cmd/server/main.go, the detached sends of AuthService and OAuthService, *)
(* and the mailers' time-outs.                                             *)
(*                                                                         *)
(* Registering, resending and forgot-password answer the caller at once    *)
(* and leave the e-mail to a goroutine of its own, counted by the sendWG   *)
(* of the service.  On SIGTERM, run() stops the HTTP server, which waits   *)
(* for the handlers, and then waits for each WaitGroup.  However it ends,  *)
(* the deferred pool.Close() comes last: it refuses new connections and    *)
(* waits, without a bound, until those in use have been given back.        *)
(***************************************************************************)
EXTENDS Deployment

CONSTANT Handler   \* HTTP handlers that one instance may be running

\* The services that send mail, each with its own sendWG.
Service == {"auth", "oauth"}

VARIABLES
    oauthEnabled,  \* configuration: a provider is set, so there is an OAuthService
    phase,         \* by instance: where run() is
    handling,      \* by instance and handler: the service it calls, none when free
    holding,       \* by instance: the handlers that hold a connection of the pool
    sending        \* by instance and service: the handlers whose mail is being sent

serverVars == <<oauthEnabled, phase, handling, holding, sending>>

\* draining: in srv.Shutdown.   waitAuth, waitOAuth: in WaitForPendingSends.
\* closing, aborting: in pool.Close, after "return nil" or after the time-out.
\* stopped: run() returned nil.   down: not started, or ended in any other way.
Phase == {"down", "serving", "draining", "waitAuth", "waitOAuth", "closing", "aborting", "stopped"}

ServerTypeOK ==
    /\ oauthEnabled \in BOOLEAN
    /\ phase \in [Instance -> Phase]
    /\ handling \in [Instance -> [Handler -> Service \cup {"none"}]]
    /\ holding \in [Instance -> SUBSET Handler]
    /\ sending \in [Instance -> [Service -> SUBSET Handler]]

NoHandlers == [h \in Handler |-> "none"]
NoSends == [s \in Service |-> {}]

ServerInit ==
    /\ oauthEnabled \in BOOLEAN
    /\ phase = [i \in Instance |-> "down"]
    /\ handling = [i \in Instance |-> NoHandlers]
    /\ holding = [i \in Instance |-> {}]
    /\ sending = [i \in Instance |-> NoSends]

PoolOpen(i) == phase[i] \in {"serving", "draining", "waitAuth", "waitOAuth"}
PoolCloses(i) == phase[i] \in {"closing", "aborting"}
Running(i) == PoolOpen(i) \/ PoolCloses(i)

-----------------------------------------------------------------------------
(* Handlers and their e-mails.                                             *)

\* A request that will send mail through service s is accepted.  Bound: a handler
\* stands for one request and its mail, so it is free again when both are over.
Accept(i, h, s) ==
    /\ phase[i] = "serving"
    /\ s = "oauth" => oauthEnabled
    /\ handling[i][h] = "none"
    /\ \A t \in Service : h \notin sending[i][t]
    /\ handling' = [handling EXCEPT ![i][h] = s]
    /\ UNCHANGED <<oauthEnabled, phase, holding, sending>>

\* The handler begins a query or a transaction, which needs a connection; a pool
\* that closes gives none, and the handler sees an error.
Acquire(i, h) ==
    /\ PoolOpen(i)
    /\ handling[i][h] \in Service
    /\ h \notin holding[i]
    /\ holding' = [holding EXCEPT ![i] = @ \cup {h}]
    /\ UNCHANGED <<oauthEnabled, phase, handling, sending>>

\* The query is over, or the transaction is committed or rolled back.
Release(i, h) ==
    /\ h \in holding[i]
    /\ holding' = [holding EXCEPT ![i] = @ \ {h}]
    /\ UNCHANGED <<oauthEnabled, phase, handling, sending>>

\* dispatchVerificationEmail / dispatchPasswordResetEmail: sendWG.Add(1), then the
\* goroutine, all after the transaction and before the handler returns.
Dispatch(i, h) ==
    /\ Running(i)
    /\ handling[i][h] \in Service
    /\ h \notin holding[i]
    /\ sending' = [sending EXCEPT ![i][handling[i][h]] = @ \cup {h}]
    /\ handling' = [handling EXCEPT ![i][h] = "none"]
    /\ UNCHANGED <<oauthEnabled, phase, holding>>

\* The handler returns without a mail (an error, an unknown address, a throttled
\* caller).
Reply(i, h) ==
    /\ Running(i)
    /\ handling[i][h] \in Service
    /\ h \notin holding[i]
    /\ handling' = [handling EXCEPT ![i][h] = "none"]
    /\ UNCHANGED <<oauthEnabled, phase, holding, sending>>

\* SendVerification / SendPasswordReset return, because the mail server or the comms
\* service has answered or because the mailer's time-out is over; then sendWG.Done.
SendEnds(i, s, h) ==
    /\ Running(i)
    /\ h \in sending[i][s]
    /\ sending' = [sending EXCEPT ![i][s] = @ \ {h}]
    /\ UNCHANGED <<oauthEnabled, phase, handling, holding>>

-----------------------------------------------------------------------------
(* run(), up to its end.                                                   *)

\* The store, services, consumer and router are built and the server listens.
StartServer(i) ==
    /\ phase' = [phase EXCEPT ![i] = "serving"]
    /\ handling' = [handling EXCEPT ![i] = NoHandlers]
    /\ holding' = [holding EXCEPT ![i] = {}]
    /\ sending' = [sending EXCEPT ![i] = NoSends]
    /\ UNCHANGED oauthEnabled

\* SIGINT or SIGTERM.
Quit(i) ==
    /\ phase[i] = "serving"
    /\ phase' = [phase EXCEPT ![i] = "draining"]
    /\ UNCHANGED <<oauthEnabled, handling, holding, sending>>

\* srv.Shutdown returns nil once every handler has returned.
ShutdownReturnsEarly(i) ==
    /\ phase[i] = "draining"
    /\ phase' = [phase EXCEPT ![i] = "waitAuth"]
    /\ UNCHANGED <<oauthEnabled, handling, holding, sending>>
ShutdownReturns(i) ==
    /\ phase[i] = "draining"
    /\ handling[i] = NoHandlers
    /\ phase' = [phase EXCEPT ![i] = "waitAuth"]
    /\ UNCHANGED <<oauthEnabled, handling, holding, sending>>

\* authSvc.WaitForPendingSends().
AuthSendsDone(i) ==
    /\ phase[i] = "waitAuth"
    /\ sending[i]["auth"] = {}
    /\ phase' = [phase EXCEPT ![i] = "waitOAuth"]
    /\ UNCHANGED <<oauthEnabled, handling, holding, sending>>

\* oauthSvc.WaitForPendingSends(), when there is one; then "return nil".
OAuthSendsDone(i) ==
    /\ phase[i] = "waitOAuth"
    /\ oauthEnabled => sending[i]["oauth"] = {}
    /\ phase' = [phase EXCEPT ![i] = "closing"]
    /\ UNCHANGED <<oauthEnabled, handling, holding, sending>>

\* The 30 s of shutdownCtx are over first: run() returns an error and waits for no
\* mail, but its handlers run on while pool.Close waits.
ShutdownNeverTimesOut(i) ==
    /\ phase[i] = "draining"
    /\ phase[i] # "draining"
    /\ phase' = [phase EXCEPT ![i] = "aborting"]
    /\ UNCHANGED <<oauthEnabled, handling, holding, sending>>
ShutdownTimesOut(i) ==
    /\ phase[i] = "draining"
    /\ handling[i] # NoHandlers
    /\ phase' = [phase EXCEPT ![i] = "aborting"]
    /\ UNCHANGED <<oauthEnabled, handling, holding, sending>>

\* pool.Close() returns once no handler holds a connection, and run() returns nil.
CloseReturns(i) ==
    /\ phase[i] = "closing"
    /\ holding[i] = {}
    /\ phase' = [phase EXCEPT ![i] = "stopped"]
    /\ UNCHANGED <<oauthEnabled, handling, holding, sending>>

\* The memory of a process that ends in any other way is gone, mails included.
Lost(i) ==
    /\ phase' = [phase EXCEPT ![i] = "down"]
    /\ handling' = [handling EXCEPT ![i] = NoHandlers]
    /\ holding' = [holding EXCEPT ![i] = {}]
    /\ sending' = [sending EXCEPT ![i] = NoSends]
    /\ UNCHANGED oauthEnabled

\* pool.Close() returns after a time-out: run() returns the error, main exits.
AbortReturns(i) ==
    /\ phase[i] = "aborting"
    /\ holding[i] = {}
    /\ Lost(i)

\* ListenAndServe fails (os.Exit), the process is killed or the host is lost.
CrashServer(i) ==
    /\ Running(i)
    /\ Lost(i)

\* Steps that leave the process running.
ServerNext ==
    \E i \in Instance :
        \/ Quit(i) \/ ShutdownReturns(i) \/ ShutdownTimesOut(i)
        \/ AuthSendsDone(i) \/ OAuthSendsDone(i)
        \/ \E h \in Handler :
            \/ Acquire(i, h) \/ Release(i, h)
            \/ Dispatch(i, h) \/ Reply(i, h)
            \/ \E s \in Service : Accept(i, h, s) \/ SendEnds(i, s, h)

-----------------------------------------------------------------------------
(* Properties.                                                             *)

\* A process that stopped cleanly has sent, or given up after the time-out, every
\* e-mail it ever promised: no handler is cut off and no goroutine is left behind
\* (the order Shutdown, then the two WaitForPendingSends).
CleanStopSendsAll ==
    \A i \in Instance : phase[i] = "stopped" =>
        handling[i] = NoHandlers /\ sending[i] = NoSends

-----------------------------------------------------------------------------
(* The inductive invariant that CleanStopSendsAll rests on.                *)

\* What each wait of run() leaves behind: after srv.Shutdown no handler runs, after
\* the first WaitForPendingSends no goroutine of AuthService, after the second none
\* of OAuthService.
WaitedFor ==
    \A i \in Instance :
        /\ phase[i] \in {"waitAuth", "waitOAuth", "closing", "stopped"} => handling[i] = NoHandlers
        /\ phase[i] \in {"waitOAuth", "closing", "stopped"} => sending[i]["auth"] = {}
        /\ phase[i] \in {"closing", "stopped"} => sending[i]["oauth"] = {}

\* run() waits for OAuthService only if there is one; without one, nothing of it runs.
NoOAuthWork ==
    ~oauthEnabled => \A i \in Instance :
        /\ \A h \in Handler : handling[i][h] # "oauth"
        /\ sending[i]["oauth"] = {}

ServerIInv == ServerTypeOK /\ WaitedFor /\ NoOAuthWork
=============================================================================
