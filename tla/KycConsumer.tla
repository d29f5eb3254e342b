---------------------------- MODULE KycConsumer ----------------------------
(***************************************************************************)
(* The consumer of kyc.tier_changed events: every instance of the service  *)
(* subscribes to one Redis pub/sub channel and raises users.kyc_tier.      *)
(*                                                                         *)
(* Redis pub/sub keeps nothing: whoever is not subscribed misses a         *)
(* message, and the publisher may send an event again.  Against replays    *)
(* the consumer checks the age of an event, then marks its id with SETNX.  *)
(* The two happen at different instants, on clocks that differ from the    *)
(* publisher's, so time is modelled: now is the services' clock.           *)
(*                                                                         *)
(* All events are about one user; kycTier is that user's column, which the *)
(* verification of the e-mail address writes too.                          *)
(***************************************************************************)
EXTENDS Deployment, Integers, Sequences

CONSTANTS
    Event,        \* event ids that the KYC service uses
    OccurredAt,   \* by event: the signed timestamp, on the publisher's clock
    NewTier,      \* by event: data.newTier
    Signed,       \* events that are well formed and carry a valid signature
    Lead,         \* how far ahead of the services' clock a publisher's may be
    Latency,      \* longest time from the age check to Redis running SETNX, retries included
    MaxEventAge,  \* maxEventAge
    EventDedupTTL,\* eventDedupTTL
    MaxTime,      \* bound on the clock, so that the state space is finite
    MaxInbox      \* bound on the messages waiting in a subscription's Go channel

MinKYCTier == 0
MaxKYCTier == 3

ASSUME EventAssumption ==
    /\ OccurredAt \in [Event -> Nat]
    /\ NewTier \in [Event -> Int]
    /\ Signed \subseteq Event
ASSUME TimeAssumption ==
    /\ Lead \in Nat /\ Latency \in Nat /\ MaxEventAge \in Nat /\ EventDedupTTL \in Nat
    /\ MaxTime \in Nat /\ MaxInbox \in Nat
\* The code's 5 and 10 minutes leave 5 minutes for clock lead and Redis latency.
ASSUME WindowAssumption == Lead + MaxEventAge + Latency =< EventDedupTTL

VARIABLES
    now,       \* the clock of the services and of Redis
    kycTier,   \* users.kyc_tier
    dedup,     \* by event: the last instant of its dedup key, -1 when never set
    sub,       \* by instance: down, off (no Redis client), waiting to subscribe, subscribed
    inbox,     \* by instance: messages received and not handled
    job,       \* by instance: the message that handleKYCTierChanged is working on
    passed,    \* history: how often an event got past the dedup check
    raised,    \* history: events whose UPDATE was committed
    cut,       \* history: events that a reported failure or the end of the process
               \* stopped after their key was set
    silent,    \* history: events that ended as a duplicate of themselves
    verified   \* history: users.email_verified

history == <<passed, raised, cut, silent, verified>>
kycVars == <<now, kycTier, dedup, sub, inbox, job, history>>

\* mark: the event is fresh, SETNX comes next and runs no later than "by".
\* update: the key is new, the bounds check and the pool's Acquire come next.
\* query: the UPDATE runs, on a connection of the pool.
Job == [pc: {"mark", "update", "query"}, event: Event, by: Nat]
NoJob == [pc |-> "none"]

KycTypeOK ==
    /\ now \in 0..MaxTime
    /\ kycTier \in MinKYCTier..MaxKYCTier
    /\ dedup \in [Event -> Int]
    /\ sub \in [Instance -> {"down", "off", "waiting", "subscribed"}]
    /\ inbox \in [Instance -> Seq(Event)]
    /\ job \in [Instance -> Job \cup {NoJob}]
    /\ passed \in [Event -> Nat]
    /\ raised \in SUBSET Event
    /\ cut \in SUBSET Event
    /\ silent \in SUBSET Event
    /\ verified \in BOOLEAN

KycInit ==
    /\ now = 0
    /\ kycTier = MinKYCTier
    /\ dedup = [e \in Event |-> -1]
    /\ sub = [i \in Instance |-> "down"]
    /\ inbox = [i \in Instance |-> <<>>]
    /\ job = [i \in Instance |-> NoJob]
    /\ passed = [e \in Event |-> 0]
    /\ raised = {}
    /\ cut = {}
    /\ silent = {}
    /\ verified = FALSE

-----------------------------------------------------------------------------
(* Time, the publisher and the subscription.                               *)

\* A SETNX that is on its way runs before its latency is over.
Tick ==
    /\ now < MaxTime
    /\ \A i \in Instance : job[i].pc = "mark" => now < job[i].by
    /\ now' = now + 1
    /\ UNCHANGED <<kycTier, dedup, sub, inbox, job, history>>

\* The KYC service publishes e, for the first time or again.  Some of the
\* subscribed instances get it; an instance that is not, never does.
Publish(e) ==
    /\ now >= OccurredAt[e] - Lead
    /\ \E got \in SUBSET {i \in Instance : sub[i] = "subscribed" /\ Len(inbox[i]) < MaxInbox} :
        /\ got # {}
        /\ inbox' = [i \in Instance |-> IF i \in got THEN Append(inbox[i], e) ELSE inbox[i]]
    /\ UNCHANGED <<now, kycTier, dedup, sub, job, history>>

\* go consumer.Run at start-up: with no Redis client it parks for good.
StartConsumer(i, hasRedis) ==
    /\ sub' = [sub EXCEPT ![i] = IF hasRedis THEN "waiting" ELSE "off"]
    /\ UNCHANGED <<now, kycTier, dedup, inbox, job, history>>

\* runSubscription subscribes, at start-up or after the back-off.  How long the
\* back-off is (1 s to 30 s) is left out: it ends.
Subscribe(i) ==
    /\ sub[i] = "waiting"
    /\ sub' = [sub EXCEPT ![i] = "subscribed"]
    /\ UNCHANGED <<now, kycTier, dedup, inbox, job, history>>

\* The channel is closed after its last message: Run goes round its loop again.
ChannelClosedStops(i) ==
    /\ sub[i] = "subscribed"
    /\ job[i] = NoJob
    /\ inbox[i] = <<>>
    /\ sub' = [sub EXCEPT ![i] = "down"]
    /\ UNCHANGED <<now, kycTier, dedup, inbox, job, history>>
ChannelClosed(i) ==
    /\ sub[i] = "subscribed"
    /\ job[i] = NoJob
    /\ inbox[i] = <<>>
    /\ sub' = [sub EXCEPT ![i] = "waiting"]
    /\ UNCHANGED <<now, kycTier, dedup, inbox, job, history>>

\* An event passed the dedup check and its UPDATE is not over.
BeingApplied(i) == job[i].pc \in {"update", "query"}

\* What the end of the process does to its consumer: the context it was given is
\* never canceled, and only a running UPDATE is waited for (by pool.Close).
KillConsumer(i) ==
    /\ sub' = [sub EXCEPT ![i] = "down"]
    /\ inbox' = [inbox EXCEPT ![i] = <<>>]
    /\ job' = [job EXCEPT ![i] = NoJob]
    /\ cut' = IF BeingApplied(i) THEN cut \cup {job[i].event} ELSE cut
    /\ UNCHANGED <<now, kycTier, dedup, passed, raised, silent, verified>>

-----------------------------------------------------------------------------
(* handleKYCTierChanged.                                                   *)

\* |now - occurredAt| =< maxEventAge.
Fresh(e) ==
    LET age == now - OccurredAt[e] IN age =< MaxEventAge /\ -age =< MaxEventAge

\* handle, the envelope, the signature and the age of the next message.
ReceiveMarkFirst(i) ==
    /\ sub[i] = "subscribed"
    /\ job[i] = NoJob
    /\ inbox[i] # <<>>
    /\ LET e == Head(inbox[i])
           passes == Fresh(e) /\ dedup[e] < now
       IN
        /\ e \in Signed
        /\ dedup' = [dedup EXCEPT ![e] = now + EventDedupTTL]
        /\ passed' = [passed EXCEPT ![e] = IF passes THEN @ + 1 ELSE @]
        /\ job' = [job EXCEPT ![i] = IF passes THEN [pc |-> "update", event |-> e, by |-> now]
                                     ELSE NoJob]
    /\ inbox' = [inbox EXCEPT ![i] = Tail(@)]
    /\ UNCHANGED <<now, kycTier, sub, raised, cut, silent, verified>>
Receive(i) ==
    /\ sub[i] = "subscribed"
    /\ job[i] = NoJob
    /\ inbox[i] # <<>>
    /\ LET e == Head(inbox[i]) IN
        job' = [job EXCEPT ![i] = IF e \in Signed /\ Fresh(e)
                                  THEN [pc |-> "mark", event |-> e, by |-> now + Latency]
                                  ELSE NoJob]
    /\ inbox' = [inbox EXCEPT ![i] = Tail(@)]
    /\ UNCHANGED <<now, kycTier, dedup, sub, history>>

\* A dedup key is there up to its last instant.
Marked(e) == now =< dedup[e]

\* SETNX with a TTL from now on.
DedupUntilAgeOnly == now + MaxEventAge
DedupUntil == now + EventDedupTTL

\* SETNX: a new key lets the event pass, a present one makes it a duplicate.  When
\* the answer for a new key is lost, go-redis sends the command again (its default
\* MaxRetries), which finds the key just set: a duplicate too, and no error.
MarkEvent(i) ==
    /\ job[i].pc = "mark"
    /\ LET e == job[i].event IN
        \/ /\ ~Marked(e)
           /\ dedup' = [dedup EXCEPT ![e] = DedupUntil]
           /\ passed' = [passed EXCEPT ![e] = @ + 1]
           /\ job' = [job EXCEPT ![i].pc = "update"]
           /\ UNCHANGED silent
        \/ /\ Marked(e)
           /\ job' = [job EXCEPT ![i] = NoJob]
           /\ UNCHANGED <<dedup, passed, silent>>
        \/ /\ ~Marked(e)
           /\ dedup' = [dedup EXCEPT ![e] = DedupUntil]
           /\ silent' = silent \cup {e}
           /\ job' = [job EXCEPT ![i] = NoJob]
           /\ UNCHANGED passed
    /\ UNCHANGED <<now, kycTier, sub, inbox, raised, cut, verified>>

\* SETNX returns an error after the last retry, and the event is dropped.  Redis may
\* have run it.
MarkEventFails(i) ==
    /\ job[i].pc = "mark"
    /\ LET e == job[i].event IN
        \/ UNCHANGED <<dedup, cut>>
        \/ /\ ~Marked(e)
           /\ dedup' = [dedup EXCEPT ![e] = DedupUntil]
           /\ cut' = cut \cup {e}
    /\ job' = [job EXCEPT ![i] = NoJob]
    /\ UNCHANGED <<now, kycTier, sub, inbox, passed, raised, silent, verified>>

\* minKYCTier =< newTier =< maxKYCTier.
InBoundsAny(e) == TRUE
InBounds(e) == NewTier[e] \in MinKYCTier..MaxKYCTier

\* UpdateKYCTier: the WHERE clause only lets the tier grow.
RaisedTierAny(e) == NewTier[e]
RaisedTier(e) == IF kycTier < NewTier[e] THEN NewTier[e] ELSE kycTier

\* The bounds check drops the event.
DropTier(i) ==
    /\ job[i].pc = "update"
    /\ ~InBounds(job[i].event)
    /\ job' = [job EXCEPT ![i] = NoJob]
    /\ UNCHANGED <<now, kycTier, dedup, sub, inbox, history>>

\* UpdateKYCTier gets a connection from the pool.
AcquireForUpdate(i) ==
    /\ job[i].pc = "update"
    /\ InBounds(job[i].event)
    /\ job' = [job EXCEPT ![i].pc = "query"]
    /\ UNCHANGED <<now, kycTier, dedup, sub, inbox, history>>

\* The UPDATE.
UpdateTier(i) ==
    /\ job[i].pc = "query"
    /\ kycTier' = RaisedTier(job[i].event)
    /\ raised' = raised \cup {job[i].event}
    /\ job' = [job EXCEPT ![i] = NoJob]
    /\ UNCHANGED <<now, dedup, sub, inbox, passed, cut, silent, verified>>

\* UpdateKYCTier returns an error (no connection, database down, no such user):
\* logged, and the key stays.  The statement, if it was sent, may have been
\* committed before its answer was lost.
UpdateTierFails(i) ==
    /\ BeingApplied(i)
    /\ LET e == job[i].event IN
        /\ InBounds(e)
        /\ \/ UNCHANGED <<kycTier, raised>>
           \/ /\ job[i].pc = "query"
              /\ kycTier' = RaisedTier(e)
              /\ raised' = raised \cup {e}
        /\ cut' = cut \cup {e}
    /\ job' = [job EXCEPT ![i] = NoJob]
    /\ UNCHANGED <<now, dedup, sub, inbox, passed, silent, verified>>

\* The other writer of kyc_tier: a redeemed verification link makes it at least 1.
SetEmailVerified ==
    /\ kycTier' = IF kycTier < 1 THEN 1 ELSE kycTier
    /\ verified' = TRUE
    /\ UNCHANGED <<now, dedup, sub, inbox, job, passed, raised, cut, silent>>

\* Every step but AcquireForUpdate, which depends on the pool of the process.
KycNext ==
    \/ Tick
    \/ SetEmailVerified
    \/ \E e \in Event : Publish(e)
    \/ \E i \in Instance :
        \/ Subscribe(i) \/ ChannelClosed(i)
        \/ Receive(i)
        \/ MarkEvent(i) \/ MarkEventFails(i)
        \/ DropTier(i) \/ UpdateTier(i) \/ UpdateTierFails(i)

-----------------------------------------------------------------------------
(* Properties.                                                             *)

\* An event gets past the dedup check at most once, however often it is sent and to
\* however many instances: within WindowAssumption, and with one clock for the
\* services and Redis, its key outlives the last instant at which it can still be
\* found fresh (handleKYCTierChanged).
PassedOnce == \A e \in Event : passed[e] =< 1

\* Why an event whose key is set may never be applied: either no handler passed the
\* dedup check, because the answer to the SETNX that set the key was lost (reported
\* as an error, or silently, through the client's retry), or exactly one did, and it
\* applied the event, found it out of bounds, is still at it, or failed or died
\* before the UPDATE was known to be committed.  No check of handleKYCTierChanged
\* stops an event once its key is set.  A lost event stays lost: sent again it is a
\* duplicate, which the comment at the SETNX overlooks.
SkippedIsAccountedFor ==
    \A e \in Event : dedup[e] # -1 =>
        \/ passed[e] = 0 /\ e \in cut \cup silent
        \/ /\ passed[e] = 1
           /\ \/ e \in raised \/ ~InBounds(e) \/ e \in cut
              \/ \E i \in Instance : BeingApplied(i) /\ job[i].event = e

\* kyc_tier is the highest of the tiers that its two writers put there, whichever
\* came first: those of the events applied, which are signed and within bounds, and
\* the 1 of a verified address.  Neither writer undoes what the other did.
TierIsHighestRaised ==
    /\ \A e \in raised : e \in Signed /\ InBounds(e) /\ NewTier[e] =< kycTier
    /\ verified => kycTier >= 1
    /\ kycTier # MinKYCTier =>
        \/ verified /\ kycTier = 1
        \/ \E e \in raised : NewTier[e] = kycTier

-----------------------------------------------------------------------------
(* The inductive invariant that PassedOnce, SkippedIsAccountedFor and      *)
(* TierIsHighestRaised rest on.                                            *)

\* A message that waits in a channel was published no earlier than the lead of
\* the publisher's clock allows.
ArrivedOnTime ==
    \A i \in Instance : \A n \in 1..Len(inbox[i]) : now >= OccurredAt[inbox[i][n]] - Lead

\* What the checks before SETNX establish about the event being handled.
LastFresh(e) == OccurredAt[e] + MaxEventAge + Latency
JobsChecked ==
    \A i \in Instance :
        /\ job[i].pc # "none" => job[i].event \in Signed
        /\ job[i].pc = "query" => InBounds(job[i].event)
        /\ job[i].pc = "mark" =>
            /\ now =< job[i].by
            /\ job[i].by =< LastFresh(job[i].event)
            /\ now >= OccurredAt[job[i].event] - Lead

\* A dedup key, once set, lasts for as long as a SETNX for its event can run, and
\* no event passed without one.
KeysLastLongEnough ==
    \A e \in Event :
        /\ dedup[e] # -1 => dedup[e] >= LastFresh(e)
        /\ passed[e] # 0 => dedup[e] # -1

KycIInv ==
    /\ KycTypeOK
    /\ ArrivedOnTime /\ JobsChecked /\ KeysLastLongEnough
    /\ PassedOnce /\ SkippedIsAccountedFor /\ TierIsHighestRaised
=============================================================================
