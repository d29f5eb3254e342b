-------------------------- MODULE MCServerProcess --------------------------
(* A behaviour is about one of two things.  Events: two instances that may *)
(* crash and be restarted at any time get e1 and e2 while time passes.  e1 *)
(* is signed one tick ahead of the services' clock and can pass for fresh  *)
(* until its key is about to expire; e2 comes late and brings a lower      *)
(* tier.  The process: one instance with its handlers, e-mails, shutdown   *)
(* and pool gets e1, e3 (out of bounds) and e4 (not signed) while the      *)
(* clock stands still and the user's e-mail address is verified.           *)
EXTENDS ServerProcess, TLC

CONSTANTS e1, e2, e3, e4, i1

MCOccurredAt == (e1 :> 1) @@ (e2 :> 5) @@ (e3 :> 1) @@ (e4 :> 1)
MCNewTier == (e1 :> 2) @@ (e2 :> 1) @@ (e3 :> 4) @@ (e4 :> 3)

VARIABLE part   \* what this behaviour is about

MCInit ==
    /\ Init
    /\ part \in {"events", "process"}
    /\ part = "events" => ~oauthEnabled

\* The steps of the consumer of an instance that has received something.
HandleStep(i) ==
    Receive(i) \/ MarkEvent(i) \/ MarkEventFails(i) \/ ApplyStep(i)

\* While events are followed, a process has no other end than a crash.
EventStep ==
    \/ /\ \/ Tick
          \/ Publish(e1) \/ Publish(e2)
          \/ \E i \in Instance : Subscribe(i) \/ ChannelClosed(i) \/ HandleStep(i)
       /\ UNCHANGED serverVars
    \/ \E i \in Instance : Start(i, TRUE) \/ Crash(i)

\* The whole life of i1; what another instance does, it cannot see.
ProcessStep ==
    \/ ServerNext /\ UNCHANGED kycVars
    \/ /\ \/ SetEmailVerified
          \/ Publish(e1) \/ Publish(e3) \/ Publish(e4)
          \/ Subscribe(i1) \/ ChannelClosed(i1) \/ HandleStep(i1)
       /\ UNCHANGED serverVars
    \/ \E pong \in BOOLEAN : Start(i1, pong)
    \/ Stop(i1) \/ GiveUp(i1) \/ Crash(i1)

MCNext ==
    /\ UNCHANGED part
    /\ \/ part = "events" /\ EventStep
       \/ part = "process" /\ ProcessStep

MCSpec == MCInit /\ [][MCNext]_<<vars, part>> /\ Fairness
=============================================================================
