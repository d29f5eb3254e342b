------------------------ MODULE ServerProcessProofs ------------------------
(* Proofs of the safety properties of ServerProcess, for every set of      *)
(* instances, handlers and events, every timestamp and tier, and every     *)
(* window that satisfies WindowAssumption.                                 *)
EXTENDS ServerProcess, SequenceTheorems, TLAPS

-----------------------------------------------------------------------------
(* The event consumer.                                                     *)

\* No message, no key, no job: every part holds trivially.
LEMMA KycInitInv == KycInit => KycIInv
  <1> SUFFICES ASSUME KycInit PROVE KycIInv
    OBVIOUS
  <1> USE DEF KycInit
  <1>1. KycTypeOK
    <2>1. verified \in BOOLEAN
      BY Zenon
    <2> QED
      BY <2>1, TimeAssumption DEF KycTypeOK, MinKYCTier, MaxKYCTier
  <1>2. ArrivedOnTime /\ JobsChecked
    BY DEF ArrivedOnTime, JobsChecked, NoJob
  <1>3. KeysLastLongEnough /\ PassedOnce /\ SkippedIsAccountedFor /\ TierIsHighestRaised
    BY DEF KeysLastLongEnough, PassedOnce, SkippedIsAccountedFor, TierIsHighestRaised
  <1> QED
    BY <1>1, <1>2, <1>3 DEF KycIInv

\* What an instance works on has the fields of a job, or there is none.
LEMMA JobTyped ==
    ASSUME KycTypeOK, NEW i \in Instance
    PROVE  /\ job[i].pc \in {"none", "mark", "update", "query"}
           /\ job[i].pc = "none" <=> job[i] = NoJob
           /\ job[i].pc # "none" => job[i] \in Job /\ job[i].event \in Event /\ job[i].by \in Nat
  <1>1. job[i] \in Job \/ job[i] = NoJob
    BY DEF KycTypeOK
  <1> QED
    BY <1>1 DEF Job, NoJob

\* Time passes: a message stays on time, and a SETNX that is on its way holds the
\* clock back until it has run.
LEMMA TickStep == KycIInv /\ Tick => KycIInv'
  <1> SUFFICES ASSUME KycIInv, Tick PROVE KycIInv'
    OBVIOUS
  <1>1. /\ now \in Int /\ now' = now + 1 /\ now' \in 0..MaxTime
        /\ \A i \in Instance : job[i].pc = "mark" => now < job[i].by
        /\ UNCHANGED <<kycTier, dedup, sub, inbox, job, passed, raised, cut, silent, verified>>
    BY TimeAssumption DEF Tick, KycIInv, KycTypeOK, history
  <1>2. KycTypeOK'
    BY <1>1 DEF KycIInv, KycTypeOK
  <1>3. ArrivedOnTime'
    <2> SUFFICES ASSUME NEW i \in Instance, NEW n \in 1..Len(inbox[i])
                 PROVE  now' >= OccurredAt[inbox[i][n]] - Lead
      BY <1>1 DEF ArrivedOnTime
    <2>1. inbox[i] \in Seq(Event) /\ inbox[i][n] \in Event
      BY DEF KycIInv, KycTypeOK
    <2> QED
      BY <1>1, <2>1, EventAssumption, TimeAssumption DEF KycIInv, ArrivedOnTime
  <1>4. JobsChecked'
    <2> SUFFICES ASSUME NEW i \in Instance
                 PROVE  /\ job[i].pc # "none" => job[i].event \in Signed
                        /\ job[i].pc = "query" => InBounds(job[i].event)
                        /\ job[i].pc = "mark" =>
                            /\ now' =< job[i].by
                            /\ job[i].by =< LastFresh(job[i].event)
                            /\ now' >= OccurredAt[job[i].event] - Lead
      BY <1>1 DEF JobsChecked, LastFresh, InBounds
    <2>1. job[i].pc = "mark" => job[i].event \in Event /\ job[i].by \in Nat
      BY JobTyped DEF KycIInv
    <2> QED
      BY <1>1, <2>1, EventAssumption, TimeAssumption DEF KycIInv, JobsChecked
  <1>5. KeysLastLongEnough' /\ PassedOnce' /\ SkippedIsAccountedFor' /\ TierIsHighestRaised'
    BY <1>1 DEF KycIInv, KeysLastLongEnough, LastFresh, PassedOnce, SkippedIsAccountedFor,
                BeingApplied, TierIsHighestRaised, InBounds
  <1> QED
    BY <1>2, <1>3, <1>4, <1>5 DEF KycIInv

\* Publishing adds the message at the end of some channels, not before its time.
LEMMA PublishStep ==
    ASSUME KycIInv, NEW e \in Event, Publish(e)
    PROVE  KycIInv'
  <1>1. PICK got \in SUBSET Instance :
            inbox' = [i \in Instance |-> IF i \in got THEN Append(inbox[i], e) ELSE inbox[i]]
    BY DEF Publish
  <1>2. /\ now >= OccurredAt[e] - Lead
        /\ UNCHANGED <<now, kycTier, dedup, sub, job, passed, raised, cut, silent, verified>>
    BY DEF Publish, history
  <1>3. KycTypeOK'
    BY <1>1, <1>2 DEF KycIInv, KycTypeOK
  <1>4. ArrivedOnTime'
    <2> SUFFICES ASSUME NEW i \in Instance, NEW n \in 1..Len(inbox'[i])
                 PROVE  now >= OccurredAt[inbox'[i][n]] - Lead
      BY <1>2 DEF ArrivedOnTime
    <2>1. inbox[i] \in Seq(Event)
      BY DEF KycIInv, KycTypeOK
    <2>2. CASE i \notin got
      BY <1>1, <2>2 DEF KycIInv, ArrivedOnTime
    <2>3. CASE i \in got
      <3>1. inbox'[i] = Append(inbox[i], e)
        BY <1>1, <2>3
      <3>2. \/ n \in 1..Len(inbox[i]) /\ inbox'[i][n] = inbox[i][n]
            \/ inbox'[i][n] = e
        BY <2>1, <3>1
      <3> QED
        BY <1>2, <3>2 DEF KycIInv, ArrivedOnTime
    <2> QED BY <2>2, <2>3
  <1>5. JobsChecked' /\ KeysLastLongEnough' /\ PassedOnce' /\ SkippedIsAccountedFor' /\ TierIsHighestRaised'
    BY <1>2 DEF KycIInv, JobsChecked, KeysLastLongEnough, LastFresh, PassedOnce,
                SkippedIsAccountedFor, BeingApplied, TierIsHighestRaised, InBounds
  <1> QED
    BY <1>3, <1>4, <1>5 DEF KycIInv

\* Coming and going of a subscription does not touch messages, keys or jobs.
LEMMA SubscriptionStep ==
    ASSUME KycIInv, NEW i \in Instance,
           \/ Subscribe(i) \/ ChannelClosed(i)
           \/ \E b \in BOOLEAN : StartConsumer(i, b)
    PROVE  KycIInv'
  <1>1. /\ sub' \in [Instance -> {"down", "off", "waiting", "subscribed"}]
        /\ UNCHANGED <<now, kycTier, dedup, inbox, job, passed, raised, cut, silent, verified>>
    BY DEF Subscribe, ChannelClosed, StartConsumer, history, KycIInv, KycTypeOK
  <1>2. KycTypeOK'
    BY <1>1 DEF KycIInv, KycTypeOK
  <1> QED
    BY <1>1, <1>2 DEF KycIInv, ArrivedOnTime, JobsChecked, KeysLastLongEnough, LastFresh,
             PassedOnce, SkippedIsAccountedFor, BeingApplied, TierIsHighestRaised, InBounds

\* An instance that is through with its job leaves the jobs of the others alone.
LEMMA JobEnds ==
    ASSUME KycTypeOK, NEW i \in Instance, job' = [job EXCEPT ![i] = NoJob]
    PROVE  /\ job' \in [Instance -> Job \cup {NoJob}]
           /\ job'[i].pc = "none"
           /\ \A k \in Instance : job'[k].pc # "none" => k # i /\ job'[k] = job[k]
           /\ \A k \in Instance : k # i => job'[k] = job[k]
  BY DEF KycTypeOK, NoJob

\* So the checks made before SETNX still hold of every job that is left.
LEMMA JobEndsChecked ==
    ASSUME KycIInv, NEW i \in Instance, job' = [job EXCEPT ![i] = NoJob], now' = now
    PROVE  JobsChecked'
  <1> SUFFICES ASSUME NEW k \in Instance, job'[k].pc # "none"
               PROVE  /\ job'[k].event \in Signed
                      /\ job'[k].pc = "query" => InBounds(job'[k].event)
                      /\ job'[k].pc = "mark" =>
                          /\ now =< job'[k].by
                          /\ job'[k].by =< LastFresh(job'[k].event)
                          /\ now >= OccurredAt[job'[k].event] - Lead
    BY DEF JobsChecked, LastFresh, InBounds
  <1>1. job'[k] = job[k]
    BY JobEnds DEF KycIInv
  <1> QED
    BY <1>1 DEF KycIInv, JobsChecked

\* handleKYCTierChanged up to the age check.  An event that is found fresh now is
\* marked, if at all, no later than LastFresh says.
LEMMA ReceiveStep ==
    ASSUME KycIInv, NEW i \in Instance, Receive(i)
    PROVE  KycIInv'
  <1> DEFINE e == Head(inbox[i])
             new == [pc |-> "mark", event |-> e, by |-> now + Latency]
  <1>1. /\ job[i] = NoJob /\ inbox[i] # <<>>
        /\ job' = [job EXCEPT ![i] = IF e \in Signed /\ Fresh(e) THEN new ELSE NoJob]
        /\ inbox' = [inbox EXCEPT ![i] = Tail(inbox[i])]
        /\ UNCHANGED <<now, kycTier, dedup, sub, passed, raised, cut, silent, verified>>
    BY DEF Receive, history, KycIInv, KycTypeOK
  <1>2. /\ inbox[i] \in Seq(Event) /\ now \in Nat
        /\ job \in [Instance -> Job \cup {NoJob}] /\ inbox \in [Instance -> Seq(Event)]
    BY TimeAssumption DEF KycIInv, KycTypeOK
  <1>3. /\ e \in Event /\ e = inbox[i][1] /\ 1 \in 1..Len(inbox[i])
        /\ Tail(inbox[i]) \in Seq(Event)
        /\ \A n \in 1..Len(Tail(inbox[i])) :
               n+1 \in 1..Len(inbox[i]) /\ Tail(inbox[i])[n] = inbox[i][n+1]
    BY <1>1, <1>2
  <1>4. now >= OccurredAt[e] - Lead
    BY <1>3 DEF KycIInv, ArrivedOnTime
  <1>5. new \in Job /\ new.pc = "mark" /\ new.event = e /\ new.by = now + Latency
    BY <1>2, <1>3, TimeAssumption DEF Job
  <1>6. NoJob \in Job \cup {NoJob} /\ NoJob.pc = "none"
    BY DEF NoJob
  <1> HIDE DEF e, new
  <1>7. KycTypeOK'
    <2>1. job' \in [Instance -> Job \cup {NoJob}]
      BY <1>1, <1>2, <1>5
    <2>2. inbox' \in [Instance -> Seq(Event)]
      BY <1>1, <1>2, <1>3
    <2> QED
      BY <1>1, <2>1, <2>2 DEF KycIInv, KycTypeOK
  <1>8. ArrivedOnTime'
    <2> SUFFICES ASSUME NEW k \in Instance, NEW n \in 1..Len(inbox'[k])
                 PROVE  now >= OccurredAt[inbox'[k][n]] - Lead
      BY <1>1 DEF ArrivedOnTime
    <2>1. CASE k # i
      BY <1>1, <1>2, <2>1 DEF KycIInv, ArrivedOnTime
    <2>2. CASE k = i
      <3>1. inbox'[k] = Tail(inbox[i])
        BY <1>1, <1>2, <2>2
      <3>2. n+1 \in 1..Len(inbox[i]) /\ inbox'[k][n] = inbox[i][n+1]
        BY <1>3, <3>1
      <3> QED
        BY <3>2 DEF KycIInv, ArrivedOnTime
    <2> QED BY <2>1, <2>2
  <1>9. JobsChecked'
    <2> SUFFICES ASSUME NEW k \in Instance, job'[k].pc # "none"
                 PROVE  /\ job'[k].event \in Signed
                        /\ job'[k].pc = "query" => InBounds(job'[k].event)
                        /\ job'[k].pc = "mark" =>
                            /\ now =< job'[k].by
                            /\ job'[k].by =< LastFresh(job'[k].event)
                            /\ now >= OccurredAt[job'[k].event] - Lead
      BY <1>1 DEF JobsChecked, LastFresh, InBounds
    <2>1. CASE k # i
      BY <1>1, <1>2, <2>1 DEF KycIInv, JobsChecked
    <2>2. CASE k = i
      <3>1. job'[k] = new /\ e \in Signed /\ Fresh(e)
        BY <1>1, <1>2, <1>6, <2>2
      <3>2. now - OccurredAt[e] =< MaxEventAge
        BY <3>1 DEF Fresh
      <3>3. OccurredAt[e] \in Nat
        BY <1>3, EventAssumption
      <3>4. now =< now + Latency /\ now + Latency =< OccurredAt[e] + MaxEventAge + Latency
        BY <1>2, <3>2, <3>3, TimeAssumption
      <3> QED
        BY <1>4, <1>5, <3>1, <3>4 DEF LastFresh
    <2> QED BY <2>1, <2>2
  <1>10. SkippedIsAccountedFor'
    <2>1. \A k \in Instance : BeingApplied(k) => job'[k] = job[k]
      BY <1>1, <1>2, <1>6 DEF BeingApplied
    <2> QED
      BY <1>1, <2>1 DEF KycIInv, SkippedIsAccountedFor, BeingApplied, InBounds
  <1>11. KeysLastLongEnough' /\ PassedOnce' /\ TierIsHighestRaised'
    BY <1>1 DEF KycIInv, KeysLastLongEnough, LastFresh, PassedOnce, TierIsHighestRaised, InBounds
  <1> QED
    BY <1>7, <1>8, <1>9, <1>10, <1>11 DEF KycIInv

\* The SETNX of a job, if it sets the key, finds an event without one that never
\* passed before, and sets it for long enough.
LEMMA KeySet ==
    ASSUME KycIInv, NEW i \in Instance, job[i].pc = "mark", ~Marked(job[i].event)
    PROVE  /\ job[i].event \in Event
           /\ dedup[job[i].event] = -1 /\ passed[job[i].event] = 0
           /\ DedupUntil \in Int /\ DedupUntil # -1
           /\ DedupUntil >= LastFresh(job[i].event)
  <1> DEFINE e == job[i].event
  <1>1. e \in Event /\ job[i].by \in Nat
    BY JobTyped DEF KycIInv
  <1>2. now \in Nat /\ dedup[e] \in Int /\ passed[e] \in Nat /\ OccurredAt[e] \in Nat
    BY <1>1, EventAssumption DEF KycIInv, KycTypeOK
  <1>3. now =< job[i].by /\ job[i].by =< LastFresh(e) /\ now >= OccurredAt[e] - Lead
    BY DEF KycIInv, JobsChecked
  <1>4. dedup[e] < now
    BY <1>2 DEF Marked
  <1>5. dedup[e] # -1 => dedup[e] >= LastFresh(e)
    BY <1>1 DEF KycIInv, KeysLastLongEnough
  <1> HIDE DEF e
  <1>6. dedup[e] = -1
    BY <1>1, <1>2, <1>3, <1>4, <1>5, TimeAssumption DEF LastFresh
  <1>7. passed[e] = 0
    BY <1>1, <1>6 DEF KycIInv, KeysLastLongEnough
  <1>8. DedupUntil \in Nat /\ DedupUntil >= LastFresh(e)
    BY <1>2, <1>3, TimeAssumption, WindowAssumption DEF DedupUntil, LastFresh
  <1>9. DedupUntil # -1
    BY <1>8
  <1> QED
    BY <1>1, <1>6, <1>7, <1>8, <1>9 DEF e

\* A handler ends at its SETNX without having passed: a duplicate, an error, or a key
\* that it set and does not know of.  In the last case the event counts as lost.
LEMMA NotPassedStep ==
    ASSUME KycIInv, NEW i \in Instance, job[i].pc = "mark",
           job' = [job EXCEPT ![i] = NoJob],
           UNCHANGED <<now, kycTier, sub, inbox, passed, raised, verified>>,
           cut \subseteq cut', cut' \in SUBSET Event,
           silent \subseteq silent', silent' \in SUBSET Event,
           \/ UNCHANGED dedup
           \/ /\ ~Marked(job[i].event)
              /\ dedup' = [dedup EXCEPT ![job[i].event] = DedupUntil]
              /\ job[i].event \in cut' \cup silent'
    PROVE  KycIInv'
  <1> DEFINE e == job[i].event
  <1>1. e \in Event
    BY JobTyped DEF KycIInv
  <1>2. ~Marked(e) => /\ passed[e] = 0 /\ DedupUntil \in Int
                      /\ DedupUntil # -1 /\ DedupUntil >= LastFresh(e)
    BY KeySet
  <1> HIDE DEF e
  <1>3. /\ dedup' \in [Event -> Int]
        /\ \A d \in Event :
            \/ dedup'[d] = dedup[d]
            \/ /\ dedup'[d] # -1 /\ dedup'[d] >= LastFresh(d)
               /\ passed[d] = 0 /\ d \in cut' \cup silent'
    BY <1>1, <1>2 DEF KycIInv, KycTypeOK, e
  <1>4. KycTypeOK'
    BY <1>3, JobEnds DEF KycIInv, KycTypeOK
  <1>5. ArrivedOnTime' /\ PassedOnce' /\ TierIsHighestRaised'
    BY DEF KycIInv, ArrivedOnTime, PassedOnce, TierIsHighestRaised, InBounds
  <1>6. JobsChecked'
    BY JobEndsChecked
  <1>7. KeysLastLongEnough'
    BY <1>3 DEF KycIInv, KeysLastLongEnough, LastFresh
  <1>8. SkippedIsAccountedFor'
    <2>1. \A k \in Instance : BeingApplied(k) => job'[k] = job[k]
      BY JobEnds DEF KycIInv, BeingApplied
    <2> SUFFICES ASSUME NEW d \in Event, dedup'[d] # -1
                 PROVE  \/ passed[d] = 0 /\ d \in cut' \cup silent'
                        \/ /\ passed[d] = 1
                           /\ \/ d \in raised \/ ~InBounds(d) \/ d \in cut'
                              \/ \E k \in Instance : BeingApplied(k)' /\ job'[k].event = d
      BY DEF SkippedIsAccountedFor, InBounds
    <2>2. CASE dedup'[d] = dedup[d]
      BY <2>1, <2>2 DEF KycIInv, SkippedIsAccountedFor, BeingApplied
    <2>3. CASE dedup'[d] # dedup[d]
      BY <1>3, <2>3
    <2> QED BY <2>2, <2>3
  <1> QED
    BY <1>4, <1>5, <1>6, <1>7, <1>8 DEF KycIInv

\* SETNX answers.  Only a new key lets the handler go on.
LEMMA MarkEventStep ==
    ASSUME KycIInv, NEW i \in Instance, MarkEvent(i)
    PROVE  KycIInv'
  <1> DEFINE e == job[i].event
  <1>1. /\ job[i].pc = "mark" /\ job[i] \in Job /\ e \in Event
        /\ UNCHANGED <<now, kycTier, sub, inbox, raised, cut, verified>>
    BY JobTyped DEF MarkEvent, KycIInv
  <1>2. cut \in SUBSET Event /\ silent \in SUBSET Event
    BY DEF KycIInv, KycTypeOK
  <1>3. CASE /\ ~Marked(e)
             /\ dedup' = [dedup EXCEPT ![e] = DedupUntil]
             /\ passed' = [passed EXCEPT ![e] = @ + 1]
             /\ job' = [job EXCEPT ![i].pc = "update"]
             /\ UNCHANGED silent
    <2>1. ArrivedOnTime' /\ TierIsHighestRaised'
      BY <1>1 DEF KycIInv, ArrivedOnTime, TierIsHighestRaised, InBounds
    <2>2. /\ dedup[e] = -1 /\ passed[e] = 0
          /\ DedupUntil \in Int /\ DedupUntil # -1 /\ DedupUntil >= LastFresh(e)
      BY <1>1, <1>3, KeySet
    <2>3. /\ dedup \in [Event -> Int] /\ passed \in [Event -> Nat]
          /\ job \in [Instance -> Job \cup {NoJob}]
      BY DEF KycIInv, KycTypeOK
    <2>4. PICK j \in Job :
            /\ job' = [job EXCEPT ![i] = j]
            /\ j.pc = "update" /\ j.event = e
      <3>1. [job[i] EXCEPT !.pc = "update"] \in Job
        BY <1>1 DEF Job
      <3> QED
        BY <1>1, <1>3, <2>3, <3>1 DEF Job
    <2> HIDE DEF e
    <2>5. /\ dedup'[e] = DedupUntil /\ passed'[e] = 1
          /\ \A d \in Event : d # e => dedup'[d] = dedup[d] /\ passed'[d] = passed[d]
          /\ job'[i] = j /\ \A k \in Instance : k # i => job'[k] = job[k]
      BY <1>1, <1>3, <2>2, <2>3, <2>4
    <2>6. KycTypeOK'
      <3>1. dedup' \in [Event -> Int] /\ passed' \in [Event -> Nat]
        BY <1>1, <1>3, <2>2, <2>3
      <3>2. job' \in [Instance -> Job \cup {NoJob}]
        BY <2>3, <2>4
      <3> QED
        BY <1>1, <1>3, <3>1, <3>2 DEF KycIInv, KycTypeOK
    <2>7. JobsChecked'
      <3>1. e \in Signed
        BY <1>1 DEF KycIInv, JobsChecked, e
      <3> QED
        BY <1>1, <2>4, <2>5, <3>1 DEF KycIInv, JobsChecked, LastFresh, InBounds
    <2>8. KeysLastLongEnough' /\ PassedOnce'
      BY <1>1, <2>2, <2>5 DEF KycIInv, KeysLastLongEnough, LastFresh, PassedOnce
    <2>9. SkippedIsAccountedFor'
      <3> SUFFICES ASSUME NEW d \in Event, dedup'[d] # -1
                   PROVE  \/ passed'[d] = 0 /\ d \in cut \cup silent
                          \/ /\ passed'[d] = 1
                             /\ \/ d \in raised \/ ~InBounds(d) \/ d \in cut
                                \/ \E k \in Instance : BeingApplied(k)' /\ job'[k].event = d
        BY <1>1, <1>3 DEF SkippedIsAccountedFor, InBounds
      <3>1. CASE d = e
        BY <2>4, <2>5, <3>1 DEF BeingApplied
      <3>2. CASE d # e
        <4>1. dedup[d] # -1 /\ passed'[d] = passed[d]
          BY <2>5, <3>2
        <4>2. \A k \in Instance : BeingApplied(k) => job'[k] = job[k]
          BY <1>1, <2>5 DEF BeingApplied
        <4> QED
          BY <4>1, <4>2 DEF KycIInv, SkippedIsAccountedFor, BeingApplied
      <3> QED BY <3>1, <3>2
    <2> QED
      BY <2>1, <2>6, <2>7, <2>8, <2>9 DEF KycIInv
  <1>4. CASE /\ job' = [job EXCEPT ![i] = NoJob]
             /\ UNCHANGED <<dedup, passed, silent>>
    BY <1>1, <1>2, <1>4, NotPassedStep
  <1>5. CASE /\ ~Marked(e)
             /\ dedup' = [dedup EXCEPT ![e] = DedupUntil]
             /\ silent' = silent \cup {e}
             /\ job' = [job EXCEPT ![i] = NoJob]
             /\ UNCHANGED passed
    BY <1>1, <1>2, <1>5, NotPassedStep
  <1> QED
    BY <1>3, <1>4, <1>5 DEF MarkEvent

\* SETNX fails: if Redis ran it all the same, the event counts as cut short.
LEMMA MarkEventFailsStep ==
    ASSUME KycIInv, NEW i \in Instance, MarkEventFails(i)
    PROVE  KycIInv'
  <1>1. /\ job[i].pc = "mark" /\ job[i].event \in Event
        /\ job' = [job EXCEPT ![i] = NoJob]
        /\ UNCHANGED <<now, kycTier, sub, inbox, passed, raised, silent, verified>>
        /\ cut \in SUBSET Event /\ silent \in SUBSET Event
    BY JobTyped DEF MarkEventFails, KycIInv, KycTypeOK
  <1>2. \/ UNCHANGED <<dedup, cut>>
        \/ /\ ~Marked(job[i].event)
           /\ dedup' = [dedup EXCEPT ![job[i].event] = DedupUntil]
           /\ cut' = cut \cup {job[i].event}
    BY DEF MarkEventFails
  <1> QED
    BY <1>1, <1>2, NotPassedStep

\* UpdateKYCTier gets a connection: the event is within bounds and still being applied.
LEMMA AcquireForUpdateStep ==
    ASSUME KycIInv, NEW i \in Instance, AcquireForUpdate(i)
    PROVE  KycIInv'
  <1>1. /\ job[i].pc = "update" /\ job[i] \in Job /\ InBounds(job[i].event)
        /\ job[i].event \in Signed
        /\ job' = [job EXCEPT ![i].pc = "query"]
        /\ UNCHANGED <<now, kycTier, dedup, sub, inbox, passed, raised, cut, silent, verified>>
    BY JobTyped DEF AcquireForUpdate, history, KycIInv, JobsChecked
  <1>2. PICK j \in Job :
            /\ job' = [job EXCEPT ![i] = j]
            /\ j.pc = "query" /\ j.event = job[i].event
    <2>1. [job[i] EXCEPT !.pc = "query"] \in Job
      BY <1>1 DEF Job
    <2> QED
      BY <1>1, <2>1 DEF Job, KycIInv, KycTypeOK
  <1>3. /\ job' \in [Instance -> Job \cup {NoJob}]
        /\ job'[i] = j /\ \A k \in Instance : k # i => job'[k] = job[k]
    BY <1>2 DEF KycIInv, KycTypeOK
  <1>4. KycTypeOK'
    BY <1>1, <1>3 DEF KycIInv, KycTypeOK
  <1>5. JobsChecked'
    BY <1>1, <1>2, <1>3 DEF KycIInv, JobsChecked, LastFresh, InBounds
  <1>6. SkippedIsAccountedFor'
    <2>1. \A k \in Instance : BeingApplied(k) => BeingApplied(k)' /\ job'[k].event = job[k].event
      BY <1>2, <1>3 DEF BeingApplied
    <2> QED
      BY <1>1, <2>1 DEF KycIInv, SkippedIsAccountedFor, InBounds
  <1>7. ArrivedOnTime' /\ KeysLastLongEnough' /\ PassedOnce' /\ TierIsHighestRaised'
    BY <1>1 DEF KycIInv, ArrivedOnTime, KeysLastLongEnough, LastFresh, PassedOnce,
                TierIsHighestRaised, InBounds
  <1> QED
    BY <1>4, <1>5, <1>6, <1>7 DEF KycIInv

\* A verified address raises the tier to 1 at least, and lowers nothing.
LEMMA SetEmailVerifiedStep == KycIInv /\ SetEmailVerified => KycIInv'
  <1> SUFFICES ASSUME KycIInv, SetEmailVerified PROVE KycIInv'
    OBVIOUS
  <1>1. /\ verified' = TRUE
        /\ UNCHANGED <<now, dedup, sub, inbox, job, passed, raised, cut, silent>>
    BY DEF SetEmailVerified
  <1>2. /\ kycTier \in 0..3 /\ kycTier' \in 0..3 /\ kycTier =< kycTier' /\ kycTier' >= 1
        /\ kycTier' = kycTier \/ kycTier' = 1
    BY DEF SetEmailVerified, KycIInv, KycTypeOK, MinKYCTier, MaxKYCTier
  <1>3. KycTypeOK'
    BY <1>1, <1>2 DEF KycIInv, KycTypeOK, MinKYCTier, MaxKYCTier
  <1>4. TierIsHighestRaised'
    <2>1. \A d \in raised : d \in Signed /\ InBounds(d) /\ NewTier[d] =< kycTier'
      <3> SUFFICES ASSUME NEW d \in raised
                   PROVE  d \in Signed /\ InBounds(d) /\ NewTier[d] =< kycTier'
        OBVIOUS
      <3>1. d \in Signed /\ InBounds(d) /\ NewTier[d] =< kycTier
        BY DEF KycIInv, TierIsHighestRaised
      <3>2. NewTier[d] \in Int
        BY EventAssumption DEF KycIInv, KycTypeOK
      <3> QED
        BY <1>2, <3>1, <3>2
    <2>2. kycTier' = 1 \/ \E d \in raised : NewTier[d] = kycTier'
      BY <1>2 DEF KycIInv, TierIsHighestRaised, MinKYCTier
    <2> QED
      BY <1>1, <1>2, <2>1, <2>2 DEF TierIsHighestRaised, InBounds
  <1>5. ArrivedOnTime' /\ JobsChecked' /\ KeysLastLongEnough' /\ PassedOnce' /\ SkippedIsAccountedFor'
    BY <1>1 DEF KycIInv, ArrivedOnTime, JobsChecked, KeysLastLongEnough, LastFresh, PassedOnce,
                SkippedIsAccountedFor, BeingApplied, InBounds
  <1> QED
    BY <1>3, <1>4, <1>5 DEF KycIInv

\* The end of a job whose key is set: the bounds check, the UPDATE, its failure, or
\* the end of the process.  What is written comes from a signed event within bounds.
LEMMA JobOverStep ==
    ASSUME KycIInv, NEW i \in Instance,
           job' = [job EXCEPT ![i] = NoJob],
           UNCHANGED <<now, dedup, passed, silent, verified>>,
           sub' \in [Instance -> {"down", "off", "waiting", "subscribed"}],
           inbox' \in [Instance -> Seq(Event)], ArrivedOnTime',
           cut \subseteq cut', cut' \in SUBSET Event,
           \/ UNCHANGED <<kycTier, raised>>
           \/ /\ BeingApplied(i) /\ InBounds(job[i].event)
              /\ kycTier' = RaisedTier(job[i].event)
              /\ raised' = raised \cup {job[i].event},
           BeingApplied(i) =>
              job[i].event \in raised' \/ ~InBounds(job[i].event) \/ job[i].event \in cut'
    PROVE  KycIInv'
  <1> DEFINE e == job[i].event
  <1>1. BeingApplied(i) => e \in Event /\ e \in Signed /\ NewTier[e] \in Int
    BY JobTyped, EventAssumption DEF KycIInv, JobsChecked, BeingApplied
  <1>2. /\ kycTier \in 0..3 /\ raised \in SUBSET Event
        /\ \A d \in Event : NewTier[d] \in Int
    BY EventAssumption DEF KycIInv, KycTypeOK, MinKYCTier, MaxKYCTier
  <1>3. \A k \in Instance : k # i => job'[k] = job[k]
    BY JobEnds DEF KycIInv
  <1>4. raised \subseteq raised'
    OBVIOUS
  <1>5. KycTypeOK' /\ TierIsHighestRaised'
    <2>1. CASE UNCHANGED <<kycTier, raised>>
      BY <2>1, JobEnds DEF KycIInv, KycTypeOK, TierIsHighestRaised, InBounds
    <2>2. CASE /\ BeingApplied(i) /\ InBounds(e)
               /\ kycTier' = RaisedTier(e)
               /\ raised' = raised \cup {e}
      <3> HIDE DEF e
      <3>1. /\ NewTier[e] \in 0..3 /\ kycTier' \in 0..3
            /\ kycTier =< kycTier' /\ NewTier[e] =< kycTier'
            /\ kycTier' = kycTier \/ kycTier' = NewTier[e]
        BY <1>1, <1>2, <2>2 DEF InBounds, RaisedTier, MinKYCTier, MaxKYCTier
      <3>2. raised' \in SUBSET Event
        BY <1>1, <1>2, <2>2
      <3>3. KycTypeOK'
        BY <3>1, <3>2, JobEnds DEF KycIInv, KycTypeOK, MinKYCTier, MaxKYCTier
      <3>4. \A d \in raised' : d \in Signed /\ InBounds(d) /\ NewTier[d] =< kycTier'
        <4> SUFFICES ASSUME NEW d \in raised'
                     PROVE  d \in Signed /\ InBounds(d) /\ NewTier[d] =< kycTier'
          OBVIOUS
        <4>1. CASE d = e
          BY <1>1, <2>2, <3>1, <4>1
        <4>2. CASE d \in raised
          BY <1>2, <3>1, <4>2 DEF KycIInv, TierIsHighestRaised
        <4> QED BY <2>2, <4>1, <4>2
      <3>5. kycTier' # MinKYCTier =>
                \/ verified /\ kycTier' = 1
                \/ \E d \in raised' : NewTier[d] = kycTier'
        BY <2>2, <3>1 DEF KycIInv, TierIsHighestRaised
      <3>6. verified => kycTier' >= 1
        BY <1>2, <3>1 DEF KycIInv, TierIsHighestRaised
      <3> QED
        BY <3>3, <3>4, <3>5, <3>6 DEF TierIsHighestRaised, InBounds
    <2> QED BY <2>1, <2>2
  <1>6. JobsChecked'
    BY JobEndsChecked
  <1>7. KeysLastLongEnough' /\ PassedOnce'
    BY DEF KycIInv, KeysLastLongEnough, LastFresh, PassedOnce
  <1>8. SkippedIsAccountedFor'
    <2> SUFFICES ASSUME NEW d \in Event, dedup[d] # -1
                 PROVE  \/ passed[d] = 0 /\ d \in cut' \cup silent
                        \/ /\ passed[d] = 1
                           /\ \/ d \in raised' \/ ~InBounds(d) \/ d \in cut'
                              \/ \E k \in Instance : BeingApplied(k)' /\ job'[k].event = d
      BY DEF SkippedIsAccountedFor, InBounds
    <2> QED
      BY <1>3, <1>4 DEF KycIInv, SkippedIsAccountedFor, BeingApplied
  <1> QED
    BY <1>5, <1>6, <1>7, <1>8 DEF KycIInv

\* The bounds check, the UPDATE, and its failure.
LEMMA UpdateTierStep ==
    ASSUME KycIInv, NEW i \in Instance, DropTier(i) \/ UpdateTier(i) \/ UpdateTierFails(i)
    PROVE  KycIInv'
  <1>1. /\ BeingApplied(i) /\ job[i].event \in Event
        /\ job' = [job EXCEPT ![i] = NoJob]
        /\ UNCHANGED <<now, dedup, passed, silent, verified, sub, inbox>>
    BY JobTyped DEF DropTier, UpdateTier, UpdateTierFails, BeingApplied, history, KycIInv
  <1>2. sub' \in [Instance -> {"down", "off", "waiting", "subscribed"}]
    BY <1>1 DEF KycIInv, KycTypeOK
  <1>3. inbox' \in [Instance -> Seq(Event)] /\ ArrivedOnTime'
    BY <1>1 DEF KycIInv, KycTypeOK, ArrivedOnTime
  <1>4. cut \in SUBSET Event
    BY DEF KycIInv, KycTypeOK
  <1>5. CASE DropTier(i)
    <2>1. UNCHANGED <<kycTier, raised, cut>> /\ ~InBounds(job[i].event)
      BY <1>5 DEF DropTier, history
    <2> QED
      BY <1>1, <1>2, <1>3, <1>4, <2>1, JobOverStep
  <1>6. CASE UpdateTier(i)
    <2>1. /\ kycTier' = RaisedTier(job[i].event)
          /\ raised' = raised \cup {job[i].event}
          /\ UNCHANGED cut
      BY <1>6 DEF UpdateTier
    <2>2. InBounds(job[i].event)
      BY <1>6 DEF UpdateTier, KycIInv, JobsChecked
    <2> QED
      BY <1>1, <1>2, <1>3, <1>4, <2>1, <2>2, JobOverStep
  <1>7. CASE UpdateTierFails(i)
    <2>1. cut' = cut \cup {job[i].event}
      BY <1>7 DEF UpdateTierFails
    <2>2. /\ InBounds(job[i].event)
          /\ \/ UNCHANGED <<kycTier, raised>>
             \/ /\ kycTier' = RaisedTier(job[i].event)
                /\ raised' = raised \cup {job[i].event}
      BY <1>7 DEF UpdateTierFails
    <2> QED
      BY <1>1, <1>2, <1>3, <1>4, <2>1, <2>2, JobOverStep
  <1> QED BY <1>5, <1>6, <1>7

\* The end of the process cuts short the event whose UPDATE had not run.
LEMMA KillConsumerStep ==
    ASSUME KycIInv, NEW i \in Instance, KillConsumer(i)
    PROVE  KycIInv'
  <1>1. /\ job' = [job EXCEPT ![i] = NoJob]
        /\ inbox' = [inbox EXCEPT ![i] = <<>>]
        /\ UNCHANGED <<now, dedup, passed, silent, verified>> /\ UNCHANGED <<kycTier, raised>>
    BY DEF KillConsumer
  <1>2. sub' \in [Instance -> {"down", "off", "waiting", "subscribed"}]
    BY DEF KillConsumer, KycIInv, KycTypeOK
  <1>3. inbox' \in [Instance -> Seq(Event)] /\ ArrivedOnTime'
    <2>1. inbox \in [Instance -> Seq(Event)]
      BY DEF KycIInv, KycTypeOK
    <2>2. /\ inbox'[i] = <<>> /\ Len(inbox'[i]) = 0
          /\ \A k \in Instance : k # i => inbox'[k] = inbox[k]
      BY <1>1, <2>1
    <2>3. ArrivedOnTime'
      BY <1>1, <2>2 DEF KycIInv, ArrivedOnTime
    <2> QED
      BY <1>1, <2>1, <2>3
  <1>4. /\ cut \subseteq cut' /\ cut' \in SUBSET Event
        /\ BeingApplied(i) => job[i].event \in cut'
    BY JobTyped DEF KillConsumer, BeingApplied, KycIInv, KycTypeOK
  <1> QED
    BY <1>1, <1>2, <1>3, <1>4, JobOverStep

\* Every step of the consumers, of the publisher and of the clock.
LEMMA KycStep ==
    ASSUME KycIInv, KycNext
    PROVE  KycIInv'
  BY TickStep, SetEmailVerifiedStep, PublishStep, SubscriptionStep, ReceiveStep, MarkEventStep,
     MarkEventFailsStep, UpdateTierStep DEF KycNext

\* A step of the HTTP side is a stutter here.
LEMMA KycStutter == KycIInv /\ UNCHANGED kycVars => KycIInv'
  BY DEF KycIInv, kycVars, history, KycTypeOK, ArrivedOnTime, JobsChecked, KeysLastLongEnough,
         LastFresh, PassedOnce, SkippedIsAccountedFor, BeingApplied, TierIsHighestRaised, InBounds

-----------------------------------------------------------------------------
(* The HTTP side and its e-mails.                                          *)

\* Nothing runs before the first start.
LEMMA ServerInitInv == ServerInit => ServerIInv
  BY DEF ServerInit, ServerIInv, ServerTypeOK, WaitedFor, NoOAuthWork, Phase, Service,
         NoHandlers, NoSends

\* A process starts, or ends with all its memory: handlers and mails are gone.
LEMMA FreshMemoryStep ==
    ASSUME ServerIInv, NEW i \in Instance, StartServer(i) \/ Lost(i)
    PROVE  ServerIInv'
  <1>1. /\ handling' = [handling EXCEPT ![i] = NoHandlers]
        /\ holding' = [holding EXCEPT ![i] = {}]
        /\ sending' = [sending EXCEPT ![i] = NoSends]
        /\ oauthEnabled' = oauthEnabled
        /\ \E p \in {"serving", "down"} : phase' = [phase EXCEPT ![i] = p]
    BY DEF StartServer, Lost
  <1>2. /\ NoHandlers \in [Handler -> Service \cup {"none"}]
        /\ \A h \in Handler : NoHandlers[h] # "oauth"
        /\ NoSends \in [Service -> SUBSET Handler]
        /\ NoSends["auth"] = {} /\ NoSends["oauth"] = {}
    BY DEF NoHandlers, NoSends, Service
  <1>3. ServerTypeOK'
    BY <1>1, <1>2 DEF ServerIInv, ServerTypeOK, Phase
  <1>4. WaitedFor'
    BY <1>1, <1>2 DEF ServerIInv, ServerTypeOK, WaitedFor
  <1>5. NoOAuthWork'
    BY <1>1, <1>2 DEF ServerIInv, ServerTypeOK, NoOAuthWork
  <1> QED
    BY <1>3, <1>4, <1>5 DEF ServerIInv

\* run() goes on to the next wait only when the one before is over.  Only after a
\* time-out does it close the pool with handlers still there.
LEMMA PhaseStep ==
    ASSUME ServerIInv, NEW i \in Instance,
           \/ Quit(i) \/ ShutdownReturns(i) \/ ShutdownTimesOut(i)
           \/ AuthSendsDone(i) \/ OAuthSendsDone(i) \/ CloseReturns(i)
    PROVE  ServerIInv'
  <1> USE DEF Quit, ShutdownReturns, ShutdownTimesOut, AuthSendsDone, OAuthSendsDone, CloseReturns
  <1>1. UNCHANGED <<oauthEnabled, handling, holding, sending>>
    OBVIOUS
  <1>2. PICK p \in Phase :
            /\ phase' = [phase EXCEPT ![i] = p]
            /\ p \in {"waitAuth", "waitOAuth", "closing", "stopped"} => handling[i] = NoHandlers
            /\ p \in {"waitOAuth", "closing", "stopped"} => sending[i]["auth"] = {}
            /\ p \in {"closing", "stopped"} => (oauthEnabled => sending[i]["oauth"] = {})
    BY DEF ServerIInv, WaitedFor, Phase
  <1>3. ServerTypeOK' /\ NoOAuthWork'
    BY <1>1, <1>2 DEF ServerIInv, ServerTypeOK, NoOAuthWork
  <1>4. WaitedFor'
    BY <1>1, <1>2 DEF ServerIInv, ServerTypeOK, WaitedFor, NoOAuthWork
  <1> QED
    BY <1>3, <1>4 DEF ServerIInv

\* A handler runs, or begins to, only where srv.Shutdown has not returned; its mail
\* is handed to the service it called.
LEMMA HandlerStep ==
    ASSUME ServerIInv, NEW i \in Instance, NEW h \in Handler,
           \/ \E s \in Service : Accept(i, h, s)
           \/ Dispatch(i, h) \/ Reply(i, h)
    PROVE  ServerIInv'
  <1>1. UNCHANGED <<oauthEnabled, phase, holding>>
    BY DEF Accept, Dispatch, Reply
  <1>2. phase[i] \notin {"waitAuth", "waitOAuth", "closing", "stopped"}
    <2>1. CASE \E s \in Service : Accept(i, h, s)
      BY <2>1 DEF Accept
    <2>2. CASE Dispatch(i, h) \/ Reply(i, h)
      <3>1. handling[i][h] \in Service
        BY <2>2 DEF Dispatch, Reply
      <3>2. handling[i] # NoHandlers
        BY <3>1 DEF NoHandlers, Service
      <3> QED
        BY <3>2 DEF ServerIInv, WaitedFor
    <2> QED BY <2>1, <2>2
  <1>3. PICK s \in Service \cup {"none"} :
            /\ handling' = [handling EXCEPT ![i][h] = s]
            /\ s = "oauth" => oauthEnabled
    BY DEF Accept, Dispatch, Reply
  <1>4. \/ sending' = sending
        \/ \E t \in Service :
             /\ sending' = [sending EXCEPT ![i][t] = sending[i][t] \cup {h}]
             /\ t = "oauth" => oauthEnabled
    <2>1. CASE Dispatch(i, h)
      <3>1. handling[i][h] \in Service
        BY <2>1 DEF Dispatch
      <3>2. sending' = [sending EXCEPT ![i][handling[i][h]] = sending[i][handling[i][h]] \cup {h}]
        BY <2>1, <3>1 DEF Dispatch, ServerIInv, ServerTypeOK
      <3>3. handling[i][h] = "oauth" => oauthEnabled
        BY DEF ServerIInv, NoOAuthWork
      <3> QED BY <3>1, <3>2, <3>3
    <2> QED
      BY <2>1 DEF Accept, Reply
  <1>5. /\ handling' \in [Instance -> [Handler -> Service \cup {"none"}]]
        /\ handling'[i][h] = s
        /\ \A g \in Handler : g # h => handling'[i][g] = handling[i][g]
        /\ \A k \in Instance : k # i => handling'[k] = handling[k]
    BY <1>3 DEF ServerIInv, ServerTypeOK
  <1>6. /\ sending' \in [Instance -> [Service -> SUBSET Handler]]
        /\ \A k \in Instance : k # i => sending'[k] = sending[k]
        /\ ~oauthEnabled => sending'[i]["oauth"] = sending[i]["oauth"]
    <2>1. sending \in [Instance -> [Service -> SUBSET Handler]]
      BY DEF ServerIInv, ServerTypeOK
    <2>2. ASSUME NEW t \in Service, t = "oauth" => oauthEnabled,
                 sending' = [sending EXCEPT ![i][t] = sending[i][t] \cup {h}]
          PROVE  /\ sending' \in [Instance -> [Service -> SUBSET Handler]]
                 /\ \A k \in Instance : k # i => sending'[k] = sending[k]
                 /\ ~oauthEnabled => sending'[i]["oauth"] = sending[i]["oauth"]
      <3>1. sending' \in [Instance -> [Service -> SUBSET Handler]]
        BY <2>1, <2>2
      <3>2. "oauth" \in Service
        BY DEF Service
      <3>3. \A u \in Service : u # t => sending'[i][u] = sending[i][u]
        BY <2>1, <2>2
      <3> QED
        BY <2>1, <2>2, <3>1, <3>2, <3>3
    <2> QED
      BY <1>4, <2>1, <2>2
  <1>7. ServerTypeOK'
    BY <1>1, <1>5, <1>6 DEF ServerIInv, ServerTypeOK
  <1>8. WaitedFor'
    BY <1>1, <1>2, <1>5, <1>6 DEF ServerIInv, WaitedFor
  <1>9. NoOAuthWork'
    <2> SUFFICES ASSUME ~oauthEnabled, NEW k \in Instance
                 PROVE  /\ \A g \in Handler : handling'[k][g] # "oauth"
                        /\ sending'[k]["oauth"] = {}
      BY <1>1 DEF NoOAuthWork
    <2>1. (\A g \in Handler : handling[k][g] # "oauth") /\ sending[k]["oauth"] = {}
      BY DEF ServerIInv, NoOAuthWork
    <2> QED
      BY <1>3, <1>5, <1>6, <2>1
  <1> QED
    BY <1>7, <1>8, <1>9 DEF ServerIInv

\* A connection comes from the pool or goes back to it; no wait but pool.Close sees it.
LEMMA ConnectionStep ==
    ASSUME ServerIInv, NEW i \in Instance, NEW h \in Handler, Acquire(i, h) \/ Release(i, h)
    PROVE  ServerIInv'
  <1>1. /\ UNCHANGED <<oauthEnabled, phase, handling, sending>>
        /\ holding' \in [Instance -> SUBSET Handler]
    BY DEF Acquire, Release, ServerIInv, ServerTypeOK
  <1> QED
    BY <1>1 DEF ServerIInv, ServerTypeOK, WaitedFor, NoOAuthWork

\* A send that ends only empties a WaitGroup.
LEMMA SendEndsStep ==
    ASSUME ServerIInv, NEW i \in Instance, NEW h \in Handler, NEW s \in Service,
           SendEnds(i, s, h)
    PROVE  ServerIInv'
  <1>1. /\ UNCHANGED <<oauthEnabled, phase, handling, holding>>
        /\ sending' = [sending EXCEPT ![i][s] = sending[i][s] \ {h}]
    BY DEF SendEnds, ServerIInv, ServerTypeOK
  <1>2. /\ sending' \in [Instance -> [Service -> SUBSET Handler]]
        /\ \A k \in Instance, t \in Service : sending'[k][t] \subseteq sending[k][t]
    BY <1>1 DEF ServerIInv, ServerTypeOK
  <1>3. "auth" \in Service /\ "oauth" \in Service
    BY DEF Service
  <1>4. ServerTypeOK'
    BY <1>1, <1>2 DEF ServerIInv, ServerTypeOK
  <1>5. WaitedFor'
    BY <1>1, <1>2, <1>3 DEF ServerIInv, WaitedFor
  <1>6. NoOAuthWork'
    BY <1>1, <1>2, <1>3 DEF ServerIInv, NoOAuthWork
  <1> QED
    BY <1>4, <1>5, <1>6 DEF ServerIInv

\* Every step that leaves the process running.
LEMMA ServerStep ==
    ASSUME ServerIInv, ServerNext
    PROVE  ServerIInv'
  BY PhaseStep, HandlerStep, ConnectionStep, SendEndsStep DEF ServerNext

\* A step of the consumer is a stutter here.
LEMMA ServerStutter == ServerIInv /\ UNCHANGED serverVars => ServerIInv'
  BY DEF ServerIInv, serverVars, ServerTypeOK, WaitedFor, NoOAuthWork

-----------------------------------------------------------------------------
(* The two together.                                                       *)

\* The process starts and ends with both of its halves.
LEMMA IInvStep == IInv /\ [Next]_vars => IInv'
  <1> SUFFICES ASSUME IInv, [Next]_vars PROVE IInv'
    OBVIOUS
  <1>1. KycIInv /\ ServerIInv
    BY DEF IInv
  <1>2. CASE KycNext /\ UNCHANGED serverVars
    BY <1>1, <1>2, KycStep, ServerStutter DEF IInv
  <1>3. CASE ServerNext /\ UNCHANGED kycVars
    BY <1>1, <1>3, ServerStep, KycStutter DEF IInv
  <1>4. ASSUME NEW i \in Instance, AcquireConn(i), UNCHANGED serverVars PROVE IInv'
    BY <1>1, <1>4, AcquireForUpdateStep, ServerStutter DEF IInv, AcquireConn
  <1>5. ASSUME NEW i \in Instance, NEW pong \in BOOLEAN, Start(i, pong) PROVE IInv'
    BY <1>1, <1>5, FreshMemoryStep, SubscriptionStep DEF IInv, Start
  <1>6. ASSUME NEW i \in Instance, Stop(i) PROVE IInv'
    BY <1>1, <1>6, PhaseStep, KillConsumerStep DEF IInv, Stop
  <1>7. ASSUME NEW i \in Instance, GiveUp(i) PROVE IInv'
    BY <1>1, <1>7, FreshMemoryStep, KillConsumerStep DEF IInv, GiveUp, AbortReturns
  <1>8. ASSUME NEW i \in Instance, Crash(i) PROVE IInv'
    BY <1>1, <1>8, FreshMemoryStep, KillConsumerStep DEF IInv, Crash, CrashServer
  <1>9. CASE UNCHANGED vars
    BY <1>1, <1>9, KycStutter, ServerStutter DEF IInv, vars
  <1> QED
    BY <1>2, <1>3, <1>4, <1>5, <1>6, <1>7, <1>8, <1>9 DEF Next

\* The inductive invariant of the processes holds in every state.
THEOREM InvariantHolds == Spec => []IInv
  <1>1. Init => IInv
    BY KycInitInv, ServerInitInv DEF Init, IInv
  <1> QED
    BY <1>1, IInvStep, PTL DEF Spec

\* Type correctness of the consumer's and the server's state, kyc_tier between its
\* bounds included.
THEOREM TypeCorrect == Spec => []TypeOK
  <1>1. IInv => TypeOK
    BY DEF IInv, KycIInv, ServerIInv, TypeOK
  <1> QED
    BY <1>1, InvariantHolds, PTL

\* An event passes the dedup check of handleKYCTierChanged at most once, for any
\* number of instances, replays and restarts and any clocks within WindowAssumption.
THEOREM EventsPassOnce == Spec => []PassedOnce
  <1>1. IInv => PassedOnce
    BY DEF IInv, KycIInv
  <1> QED
    BY <1>1, InvariantHolds, PTL

\* An event whose dedup key is set and that was not applied is out of bounds, is being
\* handled, or is the victim of a fault: the answer to its SETNX was lost, its UPDATE
\* failed or its process ended.  No check of handleKYCTierChanged loses it.
THEOREM LostOnlyByFault == Spec => []SkippedIsAccountedFor
  <1>1. IInv => SkippedIsAccountedFor
    BY DEF IInv, KycIInv
  <1> QED
    BY <1>1, InvariantHolds, PTL

\* users.kyc_tier is the highest of the tiers of the events applied and of the 1 that a
\* verified e-mail address brings, whatever the order of the writes.
THEOREM TierFollowsEvents == Spec => []TierIsHighestRaised
  <1>1. IInv => TierIsHighestRaised
    BY DEF IInv, KycIInv
  <1> QED
    BY <1>1, InvariantHolds, PTL

\* run() returns nil only when no handler and no goroutine of either sendWG is left.
THEOREM CleanStopWaits == Spec => []CleanStopSendsAll
  <1>1. IInv => CleanStopSendsAll
    <2> SUFFICES ASSUME IInv, NEW i \in Instance, phase[i] = "stopped"
                 PROVE  handling[i] = NoHandlers /\ sending[i] = NoSends
      BY DEF CleanStopSendsAll
    <2>1. handling[i] = NoHandlers /\ sending[i]["auth"] = {} /\ sending[i]["oauth"] = {}
      BY DEF IInv, ServerIInv, WaitedFor
    <2>2. sending[i] \in [Service -> SUBSET Handler]
      BY DEF IInv, ServerIInv, ServerTypeOK
    <2> QED
      BY <2>1, <2>2 DEF NoSends, Service
  <1> QED
    BY <1>1, InvariantHolds, PTL
=============================================================================
