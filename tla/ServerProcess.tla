--------------------------- MODULE ServerProcess ---------------------------
(***************************************************************************)
(* The processes of the service as a whole: the HTTP side with its detached*)
(* e-mails (Shutdown) and the event consumer (KycConsumer) start together  *)
(* and end together, and an instance that ended is started again.  What    *)
(* survives is in Redis (dedup) and Postgres (kycTier).                    *)
(***************************************************************************)
EXTENDS KycConsumer, Shutdown

vars == <<kycVars, serverVars>>

TypeOK == KycTypeOK /\ ServerTypeOK

Init == KycInit /\ ServerInit

\* run(): if the ping fails the Redis client is dropped for the life of the
\* process.  The consumer is then off, and buildOAuthService refuses to start
\* when an OAuth provider is configured.
Start(i, pong) ==
    /\ phase[i] \in {"down", "stopped"}
    /\ oauthEnabled => pong
    /\ StartServer(i)
    /\ StartConsumer(i, pong)

\* The consumer takes its connections from the pool of the process.
AcquireConn(i) == PoolOpen(i) /\ AcquireForUpdate(i)

\* The three ways in which run() or the process ends.  pool.Close waits for the
\* connection of the consumer as for any other.
Stop(i) == CloseReturns(i) /\ job[i].pc # "query" /\ KillConsumer(i)
GiveUp(i) == AbortReturns(i) /\ job[i].pc # "query" /\ KillConsumer(i)
Crash(i) == CrashServer(i) /\ KillConsumer(i)

Next ==
    \/ KycNext /\ UNCHANGED serverVars
    \/ ServerNext /\ UNCHANGED kycVars
    \/ \E i \in Instance :
        \/ AcquireConn(i) /\ UNCHANGED serverVars
        \/ \E pong \in BOOLEAN : Start(i, pong)
        \/ Stop(i) \/ GiveUp(i) \/ Crash(i)

\* What is left of handleKYCTierChanged after the dedup check.
ApplyStep(i) == AcquireConn(i) \/ DropTier(i) \/ UpdateTier(i) \/ UpdateTierFails(i)

\* Go runs every goroutine that can run.  Handlers may hang, with a connection or
\* without, and clients, relays and signals do what they like, so nothing is
\* assumed of them.
Fairness ==
    \A i \in Instance :
        /\ WF_vars(Subscribe(i) /\ UNCHANGED serverVars)
        /\ WF_vars(Receive(i) /\ UNCHANGED serverVars)
        /\ WF_vars((MarkEvent(i) \/ MarkEventFails(i)) /\ UNCHANGED serverVars)
        /\ WF_vars(ApplyStep(i) /\ UNCHANGED serverVars)
        /\ \A s \in Service : \A h \in Handler : WF_vars(SendEnds(i, s, h) /\ UNCHANGED kycVars)
        /\ WF_vars(ShutdownReturns(i) /\ UNCHANGED kycVars)
        /\ WF_vars(ShutdownTimesOut(i) /\ UNCHANGED kycVars)
        /\ WF_vars(AuthSendsDone(i) /\ UNCHANGED kycVars)
        /\ WF_vars(OAuthSendsDone(i) /\ UNCHANGED kycVars)
        /\ WF_vars(Stop(i))
        /\ WF_vars(GiveUp(i))

Spec == Init /\ [][Next]_vars /\ Fairness

-----------------------------------------------------------------------------
(* Properties of the two together.                                         *)

\* A consumer that has a Redis client never goes deaf while its process runs: after
\* every closed channel, failed call or bad message it listens again (Run's loop).
KeepsListening ==
    \A i \in Instance :
        []<>(sub[i] = "off" \/ ~Running(i) \/ (sub[i] = "subscribed" /\ job[i] = NoJob))

\* A process that was told to quit ends, or waits forever in pool.Close for a
\* connection that somebody still holds: this one wait of run() has no bound.  The
\* time-outs of Shutdown and of the mailers bound the others, and a hung handler
\* that holds no connection, a hung mail relay or a consumer that keeps getting
\* events stops nothing.
ConnectionHeld(i) == holding[i] # {} \/ job[i].pc = "query"
QuitEnds ==
    \A i \in Instance :
        phase[i] \in {"draining", "waitAuth", "waitOAuth"} ~>
            \/ phase[i] \in {"stopped", "down"}
            \/ [](PoolCloses(i) /\ ConnectionHeld(i))

\* The inductive invariant: no part of it relates the two.
IInv == KycIInv /\ ServerIInv
=============================================================================
