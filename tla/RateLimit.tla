----------------------------- MODULE RateLimit -----------------------------
(***************************************************************************)
(* The rate limiters in front of the handlers, for one caller (one IP, one *)
(* e-mail or one JWT subject, that is one Redis key and one bucket).       *)
(*                                                                         *)
(* Three of the limiters run the same sliding-window script in Redis and   *)
(* differ in what an error of Redis means; two use a token bucket in the   *)
(* memory of the instance.  The script is atomic, but the times it is      *)
(* handed are read before the call, on the clock of the calling instance.  *)
(***************************************************************************)
EXTENDS Deployment, Integers, FiniteSets

CONSTANTS
    Limit,         \* requests that a window admits
    Window,        \* length of the window
    Burst,         \* capacity of a token bucket
    Ahead,         \* how far an instance's clock may be ahead of the slowest one
    Lag,           \* longest time from time.Now() to Redis running the script, retries included
    MaxTime,       \* bound on the clock
    MaxErrors,     \* bound on the errors that Redis returns
    MaxEvictions   \* bound on LRU evictions of the caller's bucket, by instance

ASSUME LimitAssumption ==
    /\ Limit \in Nat \ {0} /\ Window \in Nat \ {0} /\ Burst \in Nat
    /\ Ahead \in Nat /\ Lag \in Nat /\ MaxTime \in Nat
    /\ MaxErrors \in Nat /\ MaxEvictions \in Nat

\* By how much the score of a request can miss the instant at which it is counted.
Error == Ahead + Lag

\* window: RateLimiter with Redis, which falls back on its bucket.
\* email, subject: EmailLimiter and SubjectLimiter, which have no bucket: without an
\* answer of Redis the first lets the request pass, the second refuses it.
\* bucket: GeneralUserRateLimiter, and RateLimiter without Redis (the other two are
\* switched off without it).
Policy == {"window", "email", "subject", "bucket"}

VARIABLES
    policy,    \* the limiter in question, fixed
    offset,    \* by instance: how far its clock is ahead, fixed
    now,       \* time on the slowest clock
    zset,      \* the sorted set: the members that Redis holds for the key
    expiry,    \* last instant of the key, by PEXPIRE
    counted,   \* history: members added in the last Window + Error
    errors,    \* how many errors Redis has returned
    job,       \* by instance: the request whose script is on its way, or has failed
    tokens,    \* by instance: content of the bucket, in 1/Window tokens
    evicted,   \* history, by instance: evictions of the bucket
    spent,     \* history, by instance: requests that the bucket let pass
    free       \* history: requests that EmailLimiter let pass without an answer

limitVars == <<zset, expiry, counted>>
bucketVars == <<tokens, evicted, spent>>
vars == <<policy, offset, now, limitVars, errors, job, bucketVars, free>>

\* A member: its score, and (only for the properties) when it was added.  nr tells
\* members of the same instant apart, as randMember does.
Member == [score: Int, at: Nat, nr: Nat]
Job == [pc: {"stamped"}, now: Int, by: Nat] \cup [pc: {"failed"}]
NoJob == [pc |-> "none"]
Full == Burst * Window

TypeOK ==
    /\ policy \in Policy
    /\ offset \in [Instance -> 0..Ahead]
    /\ now \in 0..MaxTime
    /\ zset \subseteq Member
    /\ counted \subseteq Member
    /\ expiry \in Int
    /\ errors \in 0..MaxErrors
    /\ job \in [Instance -> Job \cup {NoJob}]
    /\ tokens \in [Instance -> 0..Full]
    /\ evicted \in [Instance -> 0..MaxEvictions]
    /\ spent \in [Instance -> Nat]
    /\ free \in Nat

Init ==
    /\ policy \in Policy
    /\ offset \in [Instance -> 0..Ahead]
    /\ now = 0
    /\ zset = {}
    /\ expiry = -1
    /\ counted = {}
    /\ errors = 0
    /\ job = [i \in Instance |-> NoJob]
    /\ tokens = [i \in Instance |-> Full]
    /\ evicted = [i \in Instance |-> 0]
    /\ spent = [i \in Instance |-> 0]
    /\ free = 0

Within(t, span) == {m \in counted : t - span < m.at /\ m.at =< t}

-----------------------------------------------------------------------------
(* The sliding window.                                                     *)

\* Time passes: the key expires and buckets fill at Limit per Window, up to Burst.
RefillUncapped(b) == b + Limit
Refill(b) == IF b + Limit > Full THEN Full ELSE b + Limit
Tick ==
    /\ now < MaxTime
    /\ \A i \in Instance : job[i].pc = "stamped" => now < job[i].by
    /\ now' = now + 1
    /\ zset' = IF expiry < now + 1 THEN {} ELSE zset
    /\ counted' = {m \in counted : now + 1 - (Window + Error) < m.at}
    /\ tokens' = [i \in Instance |-> Refill(tokens[i])]
    /\ UNCHANGED <<policy, offset, expiry, errors, job, evicted, spent, free>>

\* A request reads the clock and calls Redis.
Stamp(i) ==
    /\ policy # "bucket"
    /\ job[i] = NoJob
    /\ job' = [job EXCEPT ![i] = [pc |-> "stamped", now |-> now + offset[i], by |-> now + Lag]]
    /\ UNCHANGED <<policy, offset, now, limitVars, errors, bucketVars, free>>

\* ZREMRANGEBYSCORE: what is left of the set for a request stamped s.
InWindowHalf(s) == {m \in zset : m.score > s - (Window \div 2)}
InWindow(s) == {m \in zset : m.score > s - Window}

\* The rest of the script when there is room: ZADD and PEXPIRE.
AddMember(s) ==
    LET m == [score |-> s, at |-> now,
              nr |-> Cardinality({x \in counted : x.at = now /\ x.score = s})] IN
    /\ Cardinality(InWindow(s)) < Limit
    /\ zset' = InWindow(s) \cup {m}
    /\ counted' = counted \cup {m}
    /\ expiry' = now + Window

\* The rest of the script when there is none: only PEXPIRE.
RefuseCounting(s) ==
    LET m == [score |-> s, at |-> now,
              nr |-> Cardinality({x \in counted : x.at = now /\ x.score = s})] IN
    /\ Cardinality(InWindow(s)) >= Limit
    /\ zset' = InWindow(s) \cup {m}
    /\ counted' = counted
    /\ expiry' = now + Window
Refuse(s) ==
    /\ Cardinality(InWindow(s)) >= Limit
    /\ zset' = InWindow(s)
    /\ counted' = counted
    /\ expiry' = now + Window

\* The script ran and its answer arrived: the request goes on, or gets 429.
Admitted(i) ==
    /\ job[i].pc = "stamped"
    /\ AddMember(job[i].now)
    /\ job' = [job EXCEPT ![i] = NoJob]
    /\ UNCHANGED <<policy, offset, now, errors, bucketVars, free>>
Refused(i) ==
    /\ job[i].pc = "stamped"
    /\ Refuse(job[i].now)
    /\ job' = [job EXCEPT ![i] = NoJob]
    /\ UNCHANGED <<policy, offset, now, errors, bucketVars, free>>

\* The call returns an error, before or after Redis ran the script.
RedisError(i) ==
    /\ job[i].pc = "stamped"
    /\ errors < MaxErrors
    /\ errors' = errors + 1
    /\ \/ UNCHANGED limitVars
       \/ AddMember(job[i].now)
       \/ Refuse(job[i].now)
    /\ job' = [job EXCEPT ![i] = [pc |-> "failed"]]
    /\ UNCHANGED <<policy, offset, now, bucketVars, free>>

-----------------------------------------------------------------------------
(* What a limiter does without an answer of Redis.                         *)

\* fallbackLimiter.allow and GeneralUserRateLimiter.allow, under their mutex.
TakeTokenFresh(i) ==
    /\ spent' = [spent EXCEPT ![i] = @ + 1]
    /\ UNCHANGED <<tokens, evicted>>
TakeToken(i) ==
    \/ /\ tokens[i] >= Window
       /\ tokens' = [tokens EXCEPT ![i] = @ - Window]
       /\ spent' = [spent EXCEPT ![i] = @ + 1]
       /\ UNCHANGED evicted
    \/ /\ tokens[i] < Window
       /\ UNCHANGED bucketVars

\* RateLimiter.Handler asks the bucket; EmailLimiter.Allow returns true, fail-open;
\* SubjectLimiter.Handler answers 429, fail-closed.
AfterError(i) ==
    /\ job[i].pc = "failed"
    /\ job' = [job EXCEPT ![i] = NoJob]
    /\ \/ policy = "window" /\ TakeToken(i) /\ UNCHANGED free
       \/ policy = "email" /\ free' = free + 1 /\ UNCHANGED bucketVars
       \/ policy = "subject" /\ UNCHANGED <<bucketVars, free>>
    /\ UNCHANGED <<policy, offset, now, limitVars, errors>>

\* A request where no Redis is involved.
Local(i) ==
    /\ policy = "bucket"
    /\ TakeToken(i)
    /\ UNCHANGED <<policy, offset, now, limitVars, errors, job, free>>

\* The LRU cache drops the bucket for other callers': the next one is full.
Evict(i) ==
    /\ policy \in {"window", "bucket"}
    /\ evicted[i] < MaxEvictions
    /\ tokens[i] < Full
    /\ tokens' = [tokens EXCEPT ![i] = Full]
    /\ evicted' = [evicted EXCEPT ![i] = @ + 1]
    /\ UNCHANGED <<policy, offset, now, limitVars, errors, job, spent, free>>

Next ==
    \/ Tick
    \/ \E i \in Instance :
        \/ Stamp(i) \/ Admitted(i) \/ Refused(i) \/ RedisError(i)
        \/ AfterError(i) \/ Local(i) \/ Evict(i)

Spec == Init /\ [][Next]_vars

-----------------------------------------------------------------------------
(* Properties.                                                             *)

\* However the instances' clocks disagree and however late the script runs, no
\* stretch of Window - Error counts more than Limit requests: a late or fast stamp
\* never evicts a member that is still young (slidingWindowScript).
AtMostLimit ==
    \A t \in 0..MaxTime : Cardinality(Within(t, Window - Error)) =< Limit

\* A caller is refused only if Limit of his requests were counted in the last
\* Window + Error: refused requests are not counted, and neither they nor a
\* failing Redis prolong a refusal.
RefusedOnlyIfBusy ==
    [][\A i \in Instance : Refused(i) => Cardinality(Within(now, Window + Error)) >= Limit]_vars

\* What passes without an answer of Redis, through any sequence of errors: the bucket
\* of an instance lets pass no more than its burst, once per eviction, and its refill;
\* EmailLimiter no more than one request per error; SubjectLimiter, the only throttle
\* on guessing TOTP codes, none.  (A bucket and the window do not know each other's
\* counts: nothing bounds the two together by Limit.)
OutageBounded ==
    /\ \A i \in Instance :
        spent[i] * Window =< (1 + evicted[i]) * Full + Limit * now
    /\ free =< errors
    /\ policy # "email" => free = 0

-----------------------------------------------------------------------------
(* The inductive invariant that the three properties rest on.              *)

\* A stamp misses the instant at which its script runs by Lag at most on the one
\* side and by Ahead on the other.
StampsClose ==
    \A i \in Instance : job[i].pc = "stamped" =>
        /\ now =< job[i].by /\ job[i].by - Lag =< now
        /\ job[i].by - Lag =< job[i].now /\ job[i].now =< job[i].by - Lag + Ahead
ScoresClose ==
    \A m \in zset \cup counted :
        /\ m.at =< now
        /\ m.at - Lag =< m.score /\ m.score =< m.at + Ahead

\* The two ends of what Redis forgets: a young request is still in the sorted set,
\* and what is in the set was counted not long ago.  The key outlives its members.
YoungKept == \A m \in counted : now - (Window - Error) < m.at => m \in zset
KeptCounted == \A m \in zset : now - (Window + Error) < m.at => m \in counted
KeyOutlives == \A m \in zset : m.at + Window =< expiry

\* Sets of members are finite, and nr tells the members of one instant apart.
MembersNumbered ==
    /\ IsFiniteSet(zset) /\ IsFiniteSet(counted)
    /\ \A m \in counted :
        m.nr < Cardinality({x \in counted : x.at = m.at /\ x.score = m.score})

\* What was spent and what is left never exceed what was put into the bucket.
BucketsBalance ==
    \A i \in Instance :
        spent[i] * Window + tokens[i] =< (1 + evicted[i]) * Full + Limit * now

\* Every request that passed for free, and every one that still may, has its error.
Failed == {i \in Instance : job[i].pc = "failed"}
FreePaid ==
    /\ IsFiniteSet(Failed)
    /\ free + Cardinality(Failed) =< errors
    /\ policy # "email" => free = 0

LimitInv ==
    /\ TypeOK
    /\ StampsClose /\ ScoresClose
    /\ YoungKept /\ KeptCounted /\ KeyOutlives /\ MembersNumbered
    /\ BucketsBalance /\ AtMostLimit
IInv == LimitInv /\ FreePaid
=============================================================================
