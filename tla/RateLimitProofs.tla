-------------------------- MODULE RateLimitProofs --------------------------
(* Proofs of the properties of RateLimit, for every set of instances and   *)
(* every limit, window, burst, clock error and number of Redis errors and  *)
(* evictions.                                                              *)
EXTENDS RateLimit, FiniteSetTheorems, TLAPS

-----------------------------------------------------------------------------
(* Operators of the model.                                                 *)

\* The constants as integers, and the capacity of a bucket as a number.
LEMMA Constants ==
    /\ Limit \in Nat /\ Limit >= 1 /\ Window \in Nat /\ Window >= 1
    /\ Ahead \in Nat /\ Lag \in Nat /\ MaxTime \in Nat /\ MaxErrors \in Nat /\ MaxEvictions \in Nat
    /\ Error \in Nat /\ Error = Ahead + Lag /\ Full \in Nat
  BY LimitAssumption DEF Error, Full

\* Counting one more of the same.
LEMMA OneMore == \A a, b \in Int : (a + 1) * b = a * b + b
  OBVIOUS

\* The products in the balance of a bucket are integers.
LEMMA Products ==
    ASSUME TypeOK, NEW i \in Instance
    PROVE  /\ spent[i] * Window \in Int /\ (1 + evicted[i]) * Full \in Int
           /\ Limit * now \in Int /\ tokens[i] \in 0..Full
  <1>1. spent[i] \in Int /\ 1 + evicted[i] \in Int /\ now \in Int /\ tokens[i] \in 0..Full
    BY DEF TypeOK
  <1> QED
    BY <1>1, Constants

\* A request that is on its way has a stamp and a deadline.
LEMMA JobTyped ==
    ASSUME TypeOK, NEW i \in Instance, job[i].pc = "stamped"
    PROVE  job[i].now \in Int /\ job[i].by \in Nat
  <1>1. job[i] \in Job \cup {NoJob}
    BY DEF TypeOK
  <1> QED
    BY <1>1 DEF Job, NoJob

\* Members are records of integers.
LEMMA MemberTyped ==
    ASSUME TypeOK, NEW m \in zset \cup counted
    PROVE  m \in Member /\ m.at \in Int /\ m.score \in Int /\ m.nr \in Int
  BY DEF TypeOK, Member

\* The stamp of a request misses the present by Lag and Ahead at most.
LEMMA StampBounds ==
    ASSUME LimitInv, NEW i \in Instance, job[i].pc = "stamped"
    PROVE  /\ job[i].now \in Int /\ now \in Int
           /\ now - Lag =< job[i].now /\ job[i].now =< now + Ahead
  <1>1. now \in Int /\ job[i].now \in Int /\ job[i].by \in Nat
    BY JobTyped DEF LimitInv, TypeOK
  <1>2. /\ now =< job[i].by /\ job[i].by - Lag =< now
        /\ job[i].by - Lag =< job[i].now /\ job[i].now =< job[i].by - Lag + Ahead
    BY DEF LimitInv, StampsClose
  <1> QED
    BY <1>1, <1>2, Constants

\* ZREMRANGEBYSCORE leaves every young member and only members that still count.
LEMMA InWindowBounds ==
    ASSUME LimitInv, NEW s \in Int, now - Lag =< s, s =< now + Ahead
    PROVE  /\ InWindow(s) \subseteq zset
           /\ \A m \in zset : now - (Window - Error) < m.at => m \in InWindow(s)
           /\ InWindow(s) \subseteq Within(now, Window + Error)
  <1>1. now \in Int
    BY DEF LimitInv, TypeOK
  <1>2. ASSUME NEW m \in zset
        PROVE  /\ m.at \in Int /\ m.score \in Int /\ m.at =< now
               /\ m.at - Lag =< m.score /\ m.score =< m.at + Ahead
    BY <1>2, MemberTyped DEF LimitInv, ScoresClose
  <1>3. ASSUME NEW m \in zset, now - (Window - Error) < m.at
        PROVE  m \in InWindow(s)
    <2>1. m.score > s - Window
      BY <1>1, <1>2, <1>3, Constants
    <2> QED BY <2>1 DEF InWindow
  <1>4. ASSUME NEW m \in InWindow(s)
        PROVE  m \in Within(now, Window + Error)
    <2>1. m \in zset /\ m.score > s - Window
      BY <1>4 DEF InWindow
    <2>2. now - (Window + Error) < m.at /\ m.at =< now
      BY <1>1, <1>2, <2>1, Constants
    <2>3. m \in counted
      BY <2>1, <2>2 DEF LimitInv, KeptCounted
    <2> QED
      BY <2>2, <2>3 DEF Within
  <1> QED
    BY <1>3, <1>4 DEF InWindow

-----------------------------------------------------------------------------
(* The inductive invariant.                                                *)

\* Nothing counted, nothing on its way, the buckets full.
LEMMA LimitInit == Init => LimitInv
  <1> SUFFICES ASSUME Init PROVE LimitInv
    OBVIOUS
  <1> USE DEF Init
  <1>1. TypeOK
    BY Constants DEF TypeOK
  <1>2. StampsClose /\ ScoresClose /\ YoungKept /\ KeptCounted /\ KeyOutlives
    BY DEF StampsClose, ScoresClose, YoungKept, KeptCounted, KeyOutlives, NoJob
  <1>3. MembersNumbered
    BY FS_EmptySet DEF MembersNumbered
  <1>4. BucketsBalance
    <2>1. 0 * Window = 0 /\ Limit * 0 = 0 /\ (1 + 0) * Full = Full
      BY Constants
    <2>2. \A i \in Instance : spent[i] = 0 /\ tokens[i] = Full /\ evicted[i] = 0 /\ now = 0
      OBVIOUS
    <2>3. 0 + Full =< Full + 0
      BY Constants
    <2> QED
      BY <2>1, <2>2, <2>3, Zenon DEF BucketsBalance
  <1>5. AtMostLimit
    <2>1. \A t \in 0..MaxTime : Within(t, Window - Error) = {}
      BY DEF Within
    <2> QED
      BY <2>1, FS_EmptySet, Constants DEF AtMostLimit
  <1> QED
    BY <1>1, <1>2, <1>3, <1>4, <1>5 DEF LimitInv

\* Time passes.  Only members that are no longer young leave the sorted set.
LEMMA TickStep == LimitInv /\ Tick => LimitInv'
  <1> SUFFICES ASSUME LimitInv, Tick PROVE LimitInv'
    OBVIOUS
  <1>1. /\ now \in Int /\ now >= 0 /\ now < MaxTime /\ now' = now + 1
        /\ zset' = IF expiry < now + 1 THEN {} ELSE zset
        /\ counted' = {m \in counted : now + 1 - (Window + Error) < m.at}
        /\ tokens' = [i \in Instance |-> Refill(tokens[i])]
        /\ UNCHANGED <<policy, offset, expiry, errors, job, evicted, spent, free>>
        /\ expiry \in Int
    BY DEF Tick, LimitInv, TypeOK
  <1>2. zset' \subseteq zset /\ counted' \subseteq counted
    BY <1>1
  <1>3. \A i \in Instance : Refill(tokens[i]) \in 0..Full /\ Refill(tokens[i]) =< tokens[i] + Limit
    BY Constants DEF LimitInv, TypeOK, Refill
  <1>4. \A m \in zset \cup counted : m \in Member /\ m.at \in Int /\ m.score \in Int
    BY MemberTyped DEF LimitInv
  <1>5. TypeOK'
    <2>1. tokens' \in [Instance -> 0..Full]
      BY <1>1, <1>3
    <2>2. now' \in 0..MaxTime
      BY <1>1, Constants
    <2>3. zset' \subseteq Member /\ counted' \subseteq Member
      BY <1>2 DEF LimitInv, TypeOK
    <2> QED
      BY <1>1, <2>1, <2>2, <2>3 DEF LimitInv, TypeOK
  <1>6. StampsClose'
    <2> SUFFICES ASSUME NEW i \in Instance, job[i].pc = "stamped"
                 PROVE  /\ now + 1 =< job[i].by /\ job[i].by - Lag =< now + 1
                        /\ job[i].by - Lag =< job[i].now /\ job[i].now =< job[i].by - Lag + Ahead
      BY <1>1 DEF StampsClose
    <2>1. now < job[i].by
      BY DEF Tick
    <2> QED
      BY <1>1, <2>1, JobTyped, Constants DEF LimitInv, StampsClose
  <1>7. ScoresClose'
    BY <1>1, <1>2, <1>4 DEF LimitInv, ScoresClose
  <1>8. YoungKept'
    <2> SUFFICES ASSUME NEW m \in counted', now' - (Window - Error) < m.at
                 PROVE  m \in zset'
      BY DEF YoungKept, Error
    <2>1. m \in counted /\ m.at \in Int
      BY <1>2, <1>4
    <2>2. now - (Window - Error) < m.at
      BY <1>1, <2>1, Constants
    <2>3. m \in zset
      BY <2>1, <2>2 DEF LimitInv, YoungKept
    <2>4. m.at + Window =< expiry
      BY <2>3 DEF LimitInv, KeyOutlives
    <2>5. ~(expiry < now + 1)
      BY <1>1, <2>1, <2>4, Constants
    <2> QED
      BY <1>1, <2>3, <2>5
  <1>9. KeptCounted' /\ KeyOutlives'
    <2>1. ASSUME NEW m \in zset', now' - (Window + Error) < m.at
          PROVE  m \in counted'
      <3>1. m \in zset /\ m.at \in Int
        BY <1>2, <1>4
      <3>2. now - (Window + Error) < m.at
        BY <1>1, <2>1, <3>1, Constants
      <3>3. m \in counted
        BY <3>1, <3>2 DEF LimitInv, KeptCounted
      <3>4. now + 1 - (Window + Error) < m.at
        BY <1>1, <2>1, <3>1, Constants
      <3> QED
        BY <1>1, <3>3, <3>4
    <2> QED
      <3>1. KeptCounted'
        BY <2>1 DEF KeptCounted, Error
      <3>2. KeyOutlives'
        BY <1>1, <1>2 DEF LimitInv, KeyOutlives
      <3> QED BY <3>1, <3>2
  <1>10. MembersNumbered'
    <2>1. IsFiniteSet(zset') /\ IsFiniteSet(counted')
      BY <1>2, FS_Subset DEF LimitInv, MembersNumbered
    <2>2. ASSUME NEW m \in counted'
          PROVE  {x \in counted' : x.at = m.at /\ x.score = m.score}
                 = {x \in counted : x.at = m.at /\ x.score = m.score}
      BY <1>1, <2>2
    <2> QED
      BY <1>2, <2>1, <2>2 DEF LimitInv, MembersNumbered
  <1>11. BucketsBalance'
    <2> SUFFICES ASSUME NEW i \in Instance
                 PROVE  spent[i] * Window + Refill(tokens[i]) =< (1 + evicted[i]) * Full + Limit * (now + 1)
      BY <1>1 DEF BucketsBalance
    <2>1. Limit * (now + 1) = Limit * now + Limit
      BY <1>1, Constants
    <2>2. spent[i] * Window + tokens[i] =< (1 + evicted[i]) * Full + Limit * now
      BY DEF LimitInv, BucketsBalance
    <2>3. /\ spent[i] * Window \in Int /\ (1 + evicted[i]) * Full \in Int
          /\ Limit * now \in Int /\ tokens[i] \in 0..Full
      BY Products DEF LimitInv
    <2> QED
      BY <1>3, <2>1, <2>2, <2>3, Constants
  <1>12. AtMostLimit'
    <2> SUFFICES ASSUME NEW t \in 0..MaxTime
                 PROVE  Cardinality(Within(t, Window - Error)') =< Limit
      BY DEF AtMostLimit
    <2>1. Within(t, Window - Error)' \subseteq Within(t, Window - Error)
      BY <1>2 DEF Within
    <2>2. IsFiniteSet(Within(t, Window - Error))
      BY FS_Subset DEF Within, LimitInv, MembersNumbered
    <2>3. Cardinality(Within(t, Window - Error)) =< Limit
      BY DEF LimitInv, AtMostLimit
    <2>4. IsFiniteSet(Within(t, Window - Error)')
      BY <2>1, <2>2, FS_Subset
    <2>5. Cardinality(Within(t, Window - Error)') =< Cardinality(Within(t, Window - Error))
      BY <2>1, <2>2, FS_Subset
    <2> QED
      BY <2>2, <2>3, <2>4, <2>5, FS_CardinalityType, Constants
  <1> QED
    BY <1>5, <1>6, <1>7, <1>8, <1>9, <1>10, <1>11, <1>12 DEF LimitInv

\* A request reads the clock: the stamp is as far ahead as the instance's clock is.
LEMMA StampStep ==
    ASSUME LimitInv, NEW i \in Instance, Stamp(i)
    PROVE  LimitInv'
  <1> DEFINE new == [pc |-> "stamped", now |-> now + offset[i], by |-> now + Lag]
  <1>1. /\ job' = [job EXCEPT ![i] = new]
        /\ UNCHANGED <<policy, offset, now, zset, expiry, counted, errors, tokens, evicted, spent, free>>
    BY DEF Stamp, limitVars, bucketVars
  <1>2. now \in Nat /\ offset[i] \in 0..Ahead /\ job \in [Instance -> Job \cup {NoJob}]
    BY DEF LimitInv, TypeOK
  <1>3. new \in Job /\ new.now = now + offset[i] /\ new.by = now + Lag
    BY <1>2, Constants DEF Job
  <1> HIDE DEF new
  <1>4. TypeOK'
    BY <1>1, <1>2, <1>3 DEF LimitInv, TypeOK
  <1>5. StampsClose'
    <2> SUFFICES ASSUME NEW k \in Instance, job'[k].pc = "stamped"
                 PROVE  /\ now =< job'[k].by /\ job'[k].by - Lag =< now
                        /\ job'[k].by - Lag =< job'[k].now
                        /\ job'[k].now =< job'[k].by - Lag + Ahead
      BY <1>1 DEF StampsClose
    <2>1. CASE k = i
      BY <1>1, <1>2, <1>3, <2>1, Constants
    <2>2. CASE k # i
      BY <1>1, <1>2, <2>2 DEF LimitInv, StampsClose
    <2> QED BY <2>1, <2>2
  <1>6. ScoresClose' /\ YoungKept' /\ KeptCounted' /\ KeyOutlives' /\ MembersNumbered'
    BY <1>1 DEF LimitInv, ScoresClose, YoungKept, KeptCounted, KeyOutlives, MembersNumbered, Error
  <1>7. BucketsBalance' /\ AtMostLimit'
    BY <1>1 DEF LimitInv, BucketsBalance, AtMostLimit, Within, Error, Full
  <1> QED
    BY <1>4, <1>5, <1>6, <1>7 DEF LimitInv

\* The sorted set and its key, as far as a run of the script concerns them.
WindowOK == /\ zset \subseteq Member /\ counted \subseteq Member /\ expiry \in Int
            /\ ScoresClose /\ YoungKept /\ KeptCounted /\ KeyOutlives /\ MembersNumbered
            /\ AtMostLimit

\* The script finds no room: nothing young is dropped, the key lives longer.
LEMMA RefuseKeeps ==
    ASSUME LimitInv, now' = now, NEW s \in Int, now - Lag =< s, s =< now + Ahead, Refuse(s)
    PROVE  WindowOK'
  <1>1. /\ zset' = InWindow(s) /\ counted' = counted /\ expiry' = now + Window
        /\ now \in Int /\ zset \subseteq Member /\ counted \subseteq Member
    BY DEF Refuse, LimitInv, TypeOK
  <1>2. /\ zset' \subseteq zset
        /\ \A m \in zset : now - (Window - Error) < m.at => m \in zset'
    BY <1>1, InWindowBounds
  <1>3. \A m \in zset : m.at \in Int /\ m.at =< now
    BY MemberTyped DEF LimitInv, ScoresClose
  <1>4. ScoresClose' /\ KeptCounted'
    BY <1>1, <1>2 DEF LimitInv, ScoresClose, KeptCounted, Error
  <1>5. YoungKept'
    BY <1>1, <1>2 DEF LimitInv, YoungKept, Error
  <1>6. KeyOutlives'
    BY <1>1, <1>2, <1>3, Constants DEF KeyOutlives
  <1>7. MembersNumbered'
    BY <1>1, <1>2, FS_Subset DEF LimitInv, MembersNumbered
  <1>8. AtMostLimit'
    BY <1>1 DEF LimitInv, AtMostLimit, Within, Error
  <1> QED
    BY <1>1, <1>2, <1>4, <1>5, <1>6, <1>7, <1>8, Constants DEF WindowOK

\* The script admits: together with the new member, whatever is young is among the
\* Limit members that the sorted set then holds.
LEMMA AddMemberKeeps ==
    ASSUME LimitInv, now' = now, NEW s \in Int, now - Lag =< s, s =< now + Ahead, AddMember(s)
    PROVE  WindowOK'
  <1> DEFINE same == {x \in counted : x.at = now /\ x.score = s}
             new == [score |-> s, at |-> now, nr |-> Cardinality(same)]
  <1>1. /\ Cardinality(InWindow(s)) < Limit
        /\ zset' = InWindow(s) \cup {new} /\ counted' = counted \cup {new}
        /\ expiry' = now + Window
    BY DEF AddMember
  <1>2. /\ now \in Nat /\ zset \subseteq Member /\ counted \subseteq Member
        /\ IsFiniteSet(zset) /\ IsFiniteSet(counted)
    BY DEF LimitInv, TypeOK, MembersNumbered
  <1>3. IsFiniteSet(same) /\ Cardinality(same) \in Nat
    BY <1>2, FS_Subset, FS_CardinalityType
  <1>4. new \in Member /\ new.at = now /\ new.score = s /\ new.nr = Cardinality(same)
    BY <1>2, <1>3 DEF Member
  <1> HIDE DEF new
  <1>5. /\ InWindow(s) \subseteq zset
        /\ \A m \in zset : now - (Window - Error) < m.at => m \in InWindow(s)
    BY InWindowBounds
  <1>6. zset' \subseteq Member /\ counted' \subseteq Member /\ expiry' \in Int
    BY <1>1, <1>2, <1>4, <1>5, Constants
  <1>7. \A m \in zset \cup counted : m.at \in Int /\ m.at =< now
    BY MemberTyped DEF LimitInv, ScoresClose
  <1>8. ScoresClose'
    <2> SUFFICES ASSUME NEW m \in zset' \cup counted'
                 PROVE  /\ m.at =< now
                        /\ m.at - Lag =< m.score /\ m.score =< m.at + Ahead
      BY DEF ScoresClose
    <2>1. CASE m = new
      BY <1>2, <1>4, <2>1
    <2>2. CASE m \in zset \cup counted
      BY <2>2 DEF LimitInv, ScoresClose
    <2> QED BY <1>1, <1>5, <2>1, <2>2
  <1>9. YoungKept'
    BY <1>1, <1>5 DEF LimitInv, YoungKept, Error
  <1>10. KeptCounted'
    BY <1>1, <1>5 DEF LimitInv, KeptCounted, Error
  <1>11. KeyOutlives'
    BY <1>1, <1>2, <1>4, <1>5, <1>7, Constants DEF KeyOutlives
  <1>12. /\ IsFiniteSet(InWindow(s)) /\ IsFiniteSet(zset') /\ IsFiniteSet(counted')
         /\ Cardinality(zset') =< Limit
    <2>1. IsFiniteSet(InWindow(s)) /\ Cardinality(InWindow(s)) \in Nat
      BY <1>2, <1>5, FS_Subset, FS_CardinalityType
    <2>2. IsFiniteSet(zset') /\ Cardinality(zset') \in {Cardinality(InWindow(s)), Cardinality(InWindow(s)) + 1}
      BY <1>1, <2>1, FS_AddElement
    <2>3. IsFiniteSet(counted')
      BY <1>1, <1>2, FS_AddElement
    <2> QED
      BY <1>1, <2>1, <2>2, <2>3, Constants
  <1>13. MembersNumbered'
    <2> SUFFICES ASSUME NEW m \in counted'
                 PROVE  m.nr < Cardinality({x \in counted' : x.at = m.at /\ x.score = m.score})
      BY <1>12 DEF MembersNumbered
    <2> DEFINE old == {x \in counted : x.at = m.at /\ x.score = m.score}
               all == {x \in counted' : x.at = m.at /\ x.score = m.score}
    <2>1. new \notin counted
      <3> SUFFICES ASSUME new \in counted PROVE FALSE
        OBVIOUS
      <3>1. new.nr < Cardinality({x \in counted : x.at = new.at /\ x.score = new.score})
        BY DEF LimitInv, MembersNumbered
      <3> QED
        BY <1>3, <1>4, <3>1
    <2>2. CASE m.at = now /\ m.score = s
      <3>1. old = same /\ all = same \cup {new} /\ new \notin same
        BY <1>1, <1>4, <2>1, <2>2
      <3>2. Cardinality(all) = Cardinality(same) + 1
        BY <1>3, <3>1, FS_AddElement
      <3>3. CASE m = new
        BY <1>3, <1>4, <3>2, <3>3
      <3>4. CASE m \in counted
        <4>1. m.nr < Cardinality(old) /\ m.nr \in Int
          BY <3>4, MemberTyped DEF LimitInv, MembersNumbered
        <4>2. Cardinality(old) = Cardinality(same)
          BY <3>1
        <4> HIDE DEF old, same, all
        <4>3. m.nr < Cardinality(all)
          BY <1>3, <3>2, <4>1, <4>2
        <4> QED
          BY <4>3 DEF all
      <3> QED
        BY <1>1, <3>3, <3>4
    <2>3. CASE ~(m.at = now /\ m.score = s)
      <3>1. m \in counted /\ all = old
        BY <1>1, <1>4, <2>3
      <3> QED
        BY <3>1 DEF LimitInv, MembersNumbered
    <2> QED BY <2>2, <2>3
  <1>14. AtMostLimit'
    <2> SUFFICES ASSUME NEW t \in 0..MaxTime
                 PROVE  Cardinality({m \in counted' : t - (Window - Error) < m.at /\ m.at =< t}) =< Limit
      BY DEF AtMostLimit, Within, Error
    <2> DEFINE stretch == {m \in counted' : t - (Window - Error) < m.at /\ m.at =< t}
    <2>1. CASE t < now
      <3>1. stretch = Within(t, Window - Error)
        BY <1>1, <1>2, <1>4, <2>1 DEF Within
      <3> QED
        BY <3>1 DEF LimitInv, AtMostLimit
    <2>2. CASE now =< t
      <3>1. stretch \subseteq zset'
        <4> SUFFICES ASSUME NEW m \in stretch PROVE m \in zset'
          OBVIOUS
        <4>1. CASE m = new
          BY <1>1, <4>1
        <4>2. CASE m \in counted
          <5>1. now - (Window - Error) < m.at
            BY <1>2, <1>7, <2>2, <4>2, Constants
          <5> QED
            BY <1>1, <1>5, <4>2, <5>1 DEF LimitInv, YoungKept
        <4> QED
          BY <1>1, <4>1, <4>2
      <3>2. IsFiniteSet(stretch) /\ Cardinality(stretch) =< Cardinality(zset')
        BY <1>12, <3>1, FS_Subset
      <3>3. Cardinality(stretch) \in Nat /\ Cardinality(zset') \in Nat
        BY <1>12, <3>2, FS_CardinalityType
      <3> QED
        BY <1>12, <3>2, <3>3, Constants
    <2> QED BY <1>2, <2>1, <2>2
  <1> QED
    BY <1>6, <1>8, <1>9, <1>10, <1>11, <1>13, <1>14 DEF WindowOK

\* A run of the script, or none, and the end of the wait for it.
LEMMA ScriptStep ==
    ASSUME LimitInv, NEW i \in Instance,
           Admitted(i) \/ Refused(i) \/ RedisError(i)
    PROVE  LimitInv'
  <1>1. /\ job[i].pc = "stamped"
        /\ UNCHANGED <<policy, offset, now, tokens, evicted, spent, free>>
        /\ \E j \in {NoJob, [pc |-> "failed"]} : job' = [job EXCEPT ![i] = j]
    BY DEF Admitted, Refused, RedisError, bucketVars
  <1>2. errors' \in 0..MaxErrors
    BY Constants DEF Admitted, Refused, RedisError, LimitInv, TypeOK
  <1>3. /\ job[i].now \in Int /\ now - Lag =< job[i].now /\ job[i].now =< now + Ahead
    BY <1>1, StampBounds
  <1>4. \/ UNCHANGED limitVars \/ AddMember(job[i].now) \/ Refuse(job[i].now)
    BY DEF Admitted, Refused, RedisError
  <1>5. WindowOK'
    <2>1. CASE UNCHANGED limitVars
      BY <1>1, <2>1 DEF limitVars, WindowOK, LimitInv, TypeOK, ScoresClose, YoungKept, KeptCounted,
                        KeyOutlives, MembersNumbered, AtMostLimit, Within, Error
    <2> QED
      BY <1>1, <1>3, <1>4, <2>1, AddMemberKeeps, RefuseKeeps
  <1>6. /\ job' \in [Instance -> Job \cup {NoJob}]
        /\ job'[i].pc # "stamped"
        /\ \A k \in Instance : k # i => job'[k] = job[k]
    BY <1>1 DEF LimitInv, TypeOK, Job, NoJob
  <1>7. TypeOK'
    BY <1>1, <1>2, <1>5, <1>6 DEF WindowOK, LimitInv, TypeOK
  <1>8. StampsClose'
    BY <1>1, <1>6 DEF LimitInv, StampsClose
  <1>9. BucketsBalance'
    BY <1>1 DEF LimitInv, BucketsBalance, Full
  <1> QED
    BY <1>5, <1>7, <1>8, <1>9 DEF WindowOK, LimitInv

\* What the limiter does without Redis concerns the bucket of the instance alone.
LEMMA BucketStep ==
    ASSUME LimitInv, UNCHANGED <<policy, offset, now, zset, expiry, counted, errors>>,
           NEW i \in Instance,
           \/ job' = job
           \/ job[i].pc = "failed" /\ job' = [job EXCEPT ![i] = NoJob],
           TypeOK', BucketsBalance'
    PROVE  LimitInv'
  <1>1. \A k \in Instance : job'[k].pc = "stamped" => job'[k] = job[k]
    BY DEF LimitInv, TypeOK, NoJob
  <1>2. StampsClose'
    BY <1>1 DEF LimitInv, StampsClose
  <1>3. ScoresClose' /\ YoungKept' /\ KeptCounted' /\ KeyOutlives' /\ MembersNumbered' /\ AtMostLimit'
    BY DEF LimitInv, ScoresClose, YoungKept, KeptCounted, KeyOutlives, MembersNumbered,
           AtMostLimit, Within, Error
  <1> QED
    BY <1>2, <1>3 DEF LimitInv

\* A token is taken from the bucket, or there is none.
LEMMA TakeTokenBalance ==
    ASSUME LimitInv, now' = now, NEW i \in Instance, TakeToken(i)
    PROVE  /\ BucketsBalance'
           /\ tokens' \in [Instance -> 0..Full] /\ evicted' \in [Instance -> 0..MaxEvictions]
           /\ spent' \in [Instance -> Nat]
  <1>1. /\ tokens \in [Instance -> 0..Full] /\ evicted \in [Instance -> 0..MaxEvictions]
        /\ spent \in [Instance -> Nat] /\ now \in Int
    BY DEF LimitInv, TypeOK
  <1>2. CASE UNCHANGED bucketVars
    BY <1>1, <1>2 DEF bucketVars, LimitInv, BucketsBalance, Full
  <1>3. CASE ~ UNCHANGED bucketVars
    <2>1. /\ tokens[i] >= Window
          /\ tokens' = [tokens EXCEPT ![i] = tokens[i] - Window]
          /\ spent' = [spent EXCEPT ![i] = spent[i] + 1]
          /\ evicted' = evicted
      BY <1>1, <1>3 DEF TakeToken
    <2>2. tokens' \in [Instance -> 0..Full] /\ spent' \in [Instance -> Nat]
      BY <1>1, <2>1, Constants
    <2>3. ASSUME NEW k \in Instance
          PROVE  spent'[k] * Window + tokens'[k] =< (1 + evicted[k]) * Full + Limit * now
      <3>1. spent[k] * Window + tokens[k] =< (1 + evicted[k]) * Full + Limit * now
        BY DEF LimitInv, BucketsBalance
      <3>2. CASE k # i
        BY <1>1, <2>1, <3>1, <3>2
      <3>3. CASE k = i
        <4>1. spent'[k] = spent[k] + 1 /\ tokens'[k] = tokens[k] - Window
          BY <1>1, <2>1, <3>3
        <4>2. (spent[k] + 1) * Window = spent[k] * Window + Window
          BY <1>1, Constants, OneMore
        <4>3. spent[k] * Window \in Int /\ tokens[k] \in Int
          BY Products DEF LimitInv
        <4>4. spent'[k] * Window + tokens'[k] = spent[k] * Window + tokens[k]
          BY <4>1, <4>2, <4>3, Constants
        <4> QED
          BY <3>1, <4>4
      <3> QED BY <3>2, <3>3
    <2>4. BucketsBalance'
      BY <2>1, <2>3 DEF BucketsBalance, Full
    <2> QED
      BY <1>1, <2>1, <2>2, <2>4
  <1> QED
    BY <1>2, <1>3

\* An eviction puts a full bucket in the place of one that was not.
LEMMA EvictBalance ==
    ASSUME LimitInv, NEW i \in Instance, Evict(i)
    PROVE  /\ BucketsBalance'
           /\ tokens' \in [Instance -> 0..Full] /\ evicted' \in [Instance -> 0..MaxEvictions]
  <1>1. /\ tokens \in [Instance -> 0..Full] /\ evicted \in [Instance -> 0..MaxEvictions]
        /\ spent \in [Instance -> Nat] /\ now \in Int
        /\ evicted[i] < MaxEvictions
        /\ tokens' = [tokens EXCEPT ![i] = Full]
        /\ evicted' = [evicted EXCEPT ![i] = evicted[i] + 1]
        /\ now' = now /\ spent' = spent
    BY DEF LimitInv, TypeOK, Evict
  <1>2. tokens' \in [Instance -> 0..Full] /\ evicted' \in [Instance -> 0..MaxEvictions]
    BY <1>1, Constants
  <1>3. ASSUME NEW k \in Instance
        PROVE  spent[k] * Window + tokens'[k] =< (1 + evicted'[k]) * Full + Limit * now
    <2>1. spent[k] * Window + tokens[k] =< (1 + evicted[k]) * Full + Limit * now
      BY DEF LimitInv, BucketsBalance
    <2>2. CASE k # i
      BY <1>1, <2>1, <2>2
    <2>3. CASE k = i
      <3>1. tokens'[k] = Full /\ evicted'[k] = evicted[k] + 1
        BY <1>1, <2>3
      <3>2. (1 + (evicted[k] + 1)) * Full = (1 + evicted[k]) * Full + Full
        BY <1>1, Constants, OneMore
      <3>3. /\ spent[k] * Window \in Int /\ (1 + evicted[k]) * Full \in Int
            /\ Limit * now \in Int /\ tokens[k] \in 0..Full
        BY Products DEF LimitInv
      <3>4. spent[k] * Window + Full =< (1 + evicted[k]) * Full + Full + Limit * now
        BY <2>1, <3>3, Constants
      <3> QED
        BY <3>1, <3>2, <3>4
    <2> QED BY <2>2, <2>3
  <1> QED
    BY <1>1, <1>2, <1>3 DEF BucketsBalance, Full

\* Every step keeps what the window and the buckets rest on.
LEMMA LimitStep == LimitInv /\ [Next]_vars => LimitInv'
  <1> SUFFICES ASSUME LimitInv, [Next]_vars PROVE LimitInv'
    OBVIOUS
  <1>1. CASE Tick
    BY <1>1, TickStep
  <1>2. ASSUME NEW i \in Instance, Stamp(i) PROVE LimitInv'
    BY <1>2, StampStep
  <1>3. ASSUME NEW i \in Instance, Admitted(i) \/ Refused(i) \/ RedisError(i) PROVE LimitInv'
    BY <1>3, ScriptStep
  <1>4. ASSUME NEW i \in Instance, AfterError(i) PROVE LimitInv'
    <2>1. /\ UNCHANGED <<policy, offset, now, zset, expiry, counted, errors>>
          /\ job[i].pc = "failed" /\ job' = [job EXCEPT ![i] = NoJob]
          /\ TakeToken(i) \/ UNCHANGED bucketVars
          /\ free' \in Nat
      BY <1>4 DEF AfterError, limitVars, LimitInv, TypeOK
    <2>2. /\ BucketsBalance'
          /\ tokens' \in [Instance -> 0..Full] /\ evicted' \in [Instance -> 0..MaxEvictions]
          /\ spent' \in [Instance -> Nat]
      <3>1. CASE UNCHANGED bucketVars
        BY <2>1, <3>1 DEF bucketVars, LimitInv, TypeOK, BucketsBalance, Full
      <3> QED
        BY <2>1, <3>1, TakeTokenBalance
    <2>3. TypeOK'
      BY <2>1, <2>2 DEF LimitInv, TypeOK
    <2> QED
      BY <2>1, <2>2, <2>3, BucketStep
  <1>5. ASSUME NEW i \in Instance, Local(i) PROVE LimitInv'
    <2>1. /\ UNCHANGED <<policy, offset, now, zset, expiry, counted, errors>>
          /\ job' = job /\ free' = free /\ TakeToken(i)
      BY <1>5 DEF Local, limitVars
    <2>2. TypeOK' /\ BucketsBalance'
      BY <2>1, TakeTokenBalance DEF LimitInv, TypeOK
    <2> QED
      BY <2>1, <2>2, BucketStep
  <1>6. ASSUME NEW i \in Instance, Evict(i) PROVE LimitInv'
    <2>1. /\ UNCHANGED <<policy, offset, now, zset, expiry, counted, errors>>
          /\ job' = job /\ spent' = spent /\ free' = free
      BY <1>6 DEF Evict, limitVars
    <2>2. TypeOK' /\ BucketsBalance'
      BY <1>6, <2>1, EvictBalance DEF LimitInv, TypeOK
    <2> QED
      BY <2>1, <2>2, BucketStep
  <1>7. CASE UNCHANGED vars
    BY <1>7 DEF vars, limitVars, bucketVars, LimitInv, TypeOK, StampsClose, ScoresClose, YoungKept,
                KeptCounted, KeyOutlives, MembersNumbered, BucketsBalance, AtMostLimit, Within,
                Error, Full
  <1> QED
    BY <1>1, <1>2, <1>3, <1>4, <1>5, <1>6, <1>7 DEF Next

\* An error puts one request among the failed; leaving them, it passes for free at most
\* once.  No other step touches them.
LEMMA FreePaidStep ==
    ASSUME LimitInv, FreePaid, [Next]_vars
    PROVE  FreePaid'
  <1>1. /\ job \in [Instance -> Job \cup {NoJob}]
        /\ free \in Nat /\ errors \in Nat /\ Cardinality(Failed) \in Nat
    BY FS_CardinalityType DEF LimitInv, TypeOK, FreePaid
  <1>2. CASE UNCHANGED <<policy, free, errors>> /\ Failed' = Failed
    BY <1>2 DEF FreePaid
  <1>3. ASSUME NEW i \in Instance, NEW j, j.pc # "failed", job[i].pc # "failed",
               job' = [job EXCEPT ![i] = j]
        PROVE  Failed' = Failed
    BY <1>1, <1>3 DEF Failed
  <1>4. CASE Tick \/ UNCHANGED vars
    BY <1>2, <1>4 DEF Tick, vars, Failed
  <1>5. ASSUME NEW i \in Instance, Stamp(i) \/ Admitted(i) \/ Refused(i) PROVE FreePaid'
    <2>1. UNCHANGED <<policy, free, errors>> /\ job[i].pc # "failed"
      BY <1>5 DEF Stamp, Admitted, Refused, NoJob
    <2>2. PICK j : j.pc # "failed" /\ job' = [job EXCEPT ![i] = j]
      BY <1>5 DEF Stamp, Admitted, Refused, NoJob
    <2>3. Failed' = Failed
      BY <1>3, <2>1, <2>2
    <2> QED
      BY <1>2, <2>1, <2>3
  <1>6. ASSUME NEW i \in Instance, RedisError(i) PROVE FreePaid'
    <2>1. /\ UNCHANGED <<policy, free>> /\ errors' = errors + 1
          /\ job[i].pc = "stamped" /\ job' = [job EXCEPT ![i] = [pc |-> "failed"]]
      BY <1>6 DEF RedisError
    <2>2. i \notin Failed /\ Failed' = Failed \cup {i}
      BY <1>1, <2>1 DEF Failed
    <2>3. IsFiniteSet(Failed') /\ Cardinality(Failed') = Cardinality(Failed) + 1
      BY <2>2, FS_AddElement DEF FreePaid
    <2> QED
      BY <1>1, <2>1, <2>3 DEF FreePaid
  <1>7. ASSUME NEW i \in Instance, AfterError(i) PROVE FreePaid'
    <2>1. /\ UNCHANGED <<policy, errors>> /\ job[i].pc = "failed"
          /\ job' = [job EXCEPT ![i] = NoJob]
          /\ free' = free \/ (free' = free + 1 /\ policy = "email")
      BY <1>7 DEF AfterError
    <2>2. i \in Failed /\ Failed' = Failed \ {i}
      BY <1>1, <2>1 DEF Failed, NoJob
    <2>3. IsFiniteSet(Failed') /\ Cardinality(Failed') = Cardinality(Failed) - 1
      BY <2>2, FS_RemoveElement DEF FreePaid
    <2> QED
      BY <1>1, <2>1, <2>3 DEF FreePaid
  <1>8. ASSUME NEW i \in Instance, Local(i) \/ Evict(i) PROVE FreePaid'
    BY <1>2, <1>8 DEF Local, Evict, Failed
  <1> QED
    BY <1>4, <1>5, <1>6, <1>7, <1>8 DEF Next

-----------------------------------------------------------------------------
(* The theorems.                                                           *)

\* The inductive invariant of the limiters holds in every state.
THEOREM InvariantHolds == Spec => []IInv
  <1>1. Init => IInv
    <2>1. ASSUME Init PROVE FreePaid
      <3>1. Failed = {} /\ free = 0 /\ errors = 0
        BY <2>1 DEF Init, Failed, NoJob
      <3> QED
        BY <3>1, FS_EmptySet DEF FreePaid
    <2> QED
      BY <2>1, LimitInit DEF IInv
  <1>2. IInv /\ [Next]_vars => IInv'
    BY LimitStep, FreePaidStep DEF IInv
  <1> QED
    BY <1>1, <1>2, PTL DEF Spec

\* Type correctness of the sorted set, the buckets and the requests on their way.
THEOREM TypeCorrect == Spec => []TypeOK
  <1>1. IInv => TypeOK
    BY DEF IInv, LimitInv
  <1> QED
    BY <1>1, InvariantHolds, PTL

\* No stretch of Window - Error counts more than Limit requests, for any number of
\* instances and any clock error: slidingWindowScript drops no young member.
THEOREM WindowHoldsLimit == Spec => []AtMostLimit
  <1>1. IInv => AtMostLimit
    BY DEF IInv, LimitInv
  <1> QED
    BY <1>1, InvariantHolds, PTL

\* Without an answer of Redis a token bucket never lets pass more than its burst, once
\* per eviction, and its refill, EmailLimiter no more than one request per error and
\* SubjectLimiter none.
THEOREM OutageHoldsLimit == Spec => []OutageBounded
  <1>1. IInv => OutageBounded
    <2>1. ASSUME IInv, NEW i \in Instance
          PROVE  spent[i] * Window =< (1 + evicted[i]) * Full + Limit * now
      <3>1. spent[i] * Window + tokens[i] =< (1 + evicted[i]) * Full + Limit * now
        BY <2>1 DEF IInv, LimitInv, BucketsBalance
      <3>2. /\ spent[i] * Window \in Int /\ (1 + evicted[i]) * Full \in Int
            /\ Limit * now \in Int /\ tokens[i] \in 0..Full
        BY <2>1, Products DEF IInv, LimitInv
      <3> QED
        BY <3>1, <3>2, Constants
    <2>2. ASSUME IInv PROVE free =< errors
      <3>1. free \in Nat /\ errors \in Nat /\ Cardinality(Failed) \in Nat
        BY <2>2, FS_CardinalityType DEF IInv, LimitInv, TypeOK, FreePaid
      <3> QED
        BY <2>2, <3>1 DEF IInv, FreePaid
    <2> QED
      BY <2>1, <2>2 DEF OutageBounded, IInv, FreePaid
  <1> QED
    BY <1>1, InvariantHolds, PTL

\* A request gets 429 from the script only if Limit requests were counted in the last
\* Window + Error: every member the script found was counted in that stretch.
THEOREM RefusalsJustified == Spec => RefusedOnlyIfBusy
  <1>1. IInv /\ [Next]_vars =>
          [\A i \in Instance : Refused(i) => Cardinality(Within(now, Window + Error)) >= Limit]_vars
    <2> SUFFICES ASSUME IInv, NEW i \in Instance, Refused(i)
                 PROVE  Cardinality(Within(now, Window + Error)) >= Limit
      OBVIOUS
    <2> DEFINE s == job[i].now
    <2>1. job[i].pc = "stamped" /\ Cardinality(InWindow(s)) >= Limit
      BY DEF Refused, Refuse
    <2>2. s \in Int /\ now - Lag =< s /\ s =< now + Ahead
      BY <2>1, StampBounds DEF IInv
    <2> HIDE DEF s
    <2>3. InWindow(s) \subseteq Within(now, Window + Error)
      BY <2>2, InWindowBounds DEF IInv
    <2>4. IsFiniteSet(Within(now, Window + Error))
      BY FS_Subset DEF Within, IInv, LimitInv, MembersNumbered
    <2>5. /\ IsFiniteSet(InWindow(s))
          /\ Cardinality(InWindow(s)) =< Cardinality(Within(now, Window + Error))
      BY <2>3, <2>4, FS_Subset
    <2>6. Cardinality(InWindow(s)) \in Nat /\ Cardinality(Within(now, Window + Error)) \in Nat
      BY <2>4, <2>5, FS_CardinalityType
    <2> QED
      BY <2>1, <2>5, <2>6, Constants
  <1> QED
    BY <1>1, InvariantHolds, PTL DEF Spec, RefusedOnlyIfBusy
=============================================================================
