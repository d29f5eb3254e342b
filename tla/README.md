# TLA+ specifications of the CoverOnes user service

The user service owns accounts, login sessions, email links and two-factor
authentication. It is a stateless Go process (several may run) over one PostgreSQL
database and one Redis. Every HTTP request is a goroutine that issues SQL statements
one at a time; apart from three transactions nothing ties the statements of a request
together. The hard behaviour of the service is therefore what the *statements of
different requests* do to each other, and that is the grain of the modules here: one
action is one statement (or one commit, one Redis command), with the local checks that
follow it. Where the code compares clocks (event age, nonces, rate windows), time is a
variable of the module.

Paths below are relative to `src/`.

## 1. Inventory

| Component | State | Operations | Talks to | What is hard | What makes it correct |
|---|---|---|---|---|---|
| Sessions (`internal/service/auth_service.go`, `refreshtoken_store.go`) | `refresh_tokens`; `users.token_version`, `status`, `password_hash` | Login, OAuth Exchange, Refresh, Logout, LogoutAll, gc | users, email links (a reset bumps the version) | two presentations of one token; revocation between a CAS and an INSERT; a reset or suspension under a request in flight | a family never forks; a reset, logout-all or suspension is final |
| Email links (`auth_service.go`, `verification_store.go`, `password_reset_store.go`, `tx.go`) | the two token tables; `email_verified`, `kyc_tier`, `password_hash`, `token_version` | Register, ResendVerification, VerifyEmail, ForgotPassword, ResetPassword, gc | mailer, sessions, KYC consumer | crash inside a redemption; double click; expiry during a slow hash; late mail | a redeemed link has its whole effect exactly once, a dead link none |
| MFA (`mfa_service.go`, `user_store.go`) | `mfa_enabled`, `totp_secret_enc`, `mfa_backup_codes_enc` | Enroll, Confirm, Verify, Disable | users | requests of several devices; a commit whose answer is lost | the codes and the secret a client holds are the active ones |
| OAuth (`oauth_service.go`, `auth_identity_store.go`) | `auth_identities`; state, one-time codes and registration tokens in Redis | Start, HandleCallback, Exchange, Bind, Unbind, Register | providers, sessions, email links | non-atomic account creation; replayed keys; two unbinds at once | nothing is linked without its owner; a key works once; an account always has a login method |
| KYC consumer (`internal/events/consumer.go`) | subscription, dedup keys in Redis | Run, handle | KYC service, users | lost or repeated events, dedup before the write, lost answers of Redis | an event passes at most once, only a fault costs one, and the tier never drops |
| Rate limits (`middleware/ratelimit.go`) | sorted sets in Redis, fallback counters | Allow, Handler | Redis | Redis outage, several clocks | at most *limit* admissions per window; what passes without Redis is bounded |
| Gateway replay cache (`middleware/gateway_signature.go`) | nonces in Redis | VerifyGatewaySignature | gateway | lifetime against skew window | a request id is accepted once |
| Connections, saved items, companies, profiles | their tables, `users.handle` | invite, accept, decline; save, remove; read, update | users | crossing invites; lists read with two statements; count then insert; answers lost after the commit | each user is listed once, an acknowledged answer stands; the cap is overshot by concurrent saves only |
| Mail and shutdown (`internal/mailer`, `cmd/server/main.go`) | detached goroutines in two wait groups | dispatch, WaitForPendingSends | email links | handlers that run on during Shutdown; its time-out; the wait of `pool.Close` | a clean stop leaves no mail behind, and a stop ends unless a connection is kept |
| JWT, Argon2, PII encryption, national-id check, config, handlers | none that interleaves | | | | |

`PROJECT.json` lists every component with its status, and under `hazards` each of the
behaviours above at its line.

## 2. Modules

| Module | Role |
|---|---|
| `Sessions` | refresh-token sessions, statement by statement |
| `SessionLine` | the abstract promise of rotation: a session is a line of tokens |
| `SessionsProofs` | theorems about `Sessions`, and that it implements `SessionLine` |
| `MCSessions`, `MCSessionsReuse` | instances for TLC; the second adds a history of revocations |
| `EmailTokens` | accounts, verification and reset links, transactions with row locks |
| `EmailTokensProofs`, `MCEmailTokens` | theorems; instance |
| `OAuthIdentities` | social login: the identities table, the single-use entries in Redis and the flows they carry |
| `OAuthIdentitiesProofs`, `MCOAuthIdentities` | theorems; instance |
| `Deployment` | the instances of the service, shared by the next four |
| `KycConsumer` | the consumer of KYC events, with its subscription, dedup keys and clocks |
| `Shutdown` | one server process: handlers, detached e-mails, the shutdown sequence |
| `ServerProcess`, `MCServerProcess` | the two composed: they start, crash and restart together; instance |
| `ServerProcessProofs` | theorems about both halves and their composition |
| `RateLimit`, `RateLimitProofs`, `MCRateLimit` | the sliding window, the fall-back bucket and the per-user bucket; theorems; instance |
| `GatewayReplay`, `GatewayReplayProofs` | the skew check and the nonce of a signed request; which TTL would be enough |
| `Handlers`, `Directory` | what the next four share: requests, and the rows of users and companies |
| `Connections`, `SavedItems`, `PublicProfiles` | invites and their answers; bookmarks and their cap; handles |
| `MFA` | the MFA columns of one user and the requests of its devices |
| `SelfService`, `SelfServiceProofs`, `MCSelfService` | the four side by side, as the routes under `/v1/me` offer them; theorems; instance |

### Sessions

`row[t]` is a row of `refresh_tokens`. `used_at` and `revoked_at` become one status,
because `MarkUsed` sets both and `RevokeFamily` only the second; `openedWith` is a
history field that no action reads. `req[r]` is a request with its program counter and
the copy it holds of what it has read. `Refresh` is `RefreshRead`, `MarkUsed`,
`ValidateUserForRefresh` and `IssueTokenPair`, with `RevokeFamily` on the paths that
refuse; any of them may be the last (`Abort`). The transaction of `ResetPassword` is one
step here, as other statements see it; `EmailTokens` opens it up. Operators suspend and
reactivate users by writing `users.status`, which this service never does:
`SetSuspended` is external. `Purge` is `task db:gc`. Its second clause, used rows older
than seven days, waits until no request carries the token: request time-outs are
seconds. The deletion of expired rows has no such margin and gets none.

`SessionLine` says what a client may rely on: a line is *none*, *live*, *busy* (its
token handed in) or *ended*; no token is granted twice and an ended line never gets one.
`ImplementsLine` maps rows and requests to it.

### EmailTokens

`account` is keyed by email address, so the unique index is the guard of the three actions
that make accounts. `token_version` has two writers: the commit of a reset, and
`LogoutAll`, whose single UPDATE waits for the row like any other; the history field
`logouts` counts the second, so that `ResetsAccounted` can say what each bump stands for.
`link` holds both token tables. A redemption is `VerifyRead` (or `ResetRead` and
`HashPassword`), `Mark`, `WriteUser`, `Commit`. The first two statements of the
transaction change nothing that others see: they take the row locks `TokenLocked` and
`UserLocked`, and a statement that needs a locked row waits, as under READ COMMITTED.
`Commit` makes the effects visible together; `Abort` drops them. `MarkUsed` of reset
tokens compares `expires_at` with a `now` that was taken after the hash, so the verdict on
expiry belongs to `HashPassword`; `MarkConsumed` does not look at the expiry again, and
the model does not either. `Deliver` is the arrival of a mail: late or never. The only
rows that `Purge` deletes have been expired for seven days, so no request that read them
still runs. `main.go` always wires the transactions (`WithVerification`,
`WithPasswordReset`), so the sequential fall-backs for unit tests are not modelled.

### MFA

One row, any number of requests. A code is valid for the secret that was read; the
arithmetic of TOTP is left out. `shown`, `handed`, `cleared` and `checked` are history.
`EnableMFA` is the UPDATE of a Confirm, `ReturnCodes` the answer that carries the backup
codes. Between the two the request may end (`AbortMfa`): MFA is then on with codes that
nobody holds, and `CodesHeldAreStored` speaks of the sets that arrived.
The code has a state without a way out, which is one reason why deadlock is not checked:
two Confirms read the pending secret, the first enables MFA, a Disable clears every
column, and the second Confirm finds `mfa_enabled = false` and enables MFA with a NULL
secret. From there `Enroll` answers *already enabled*, `Confirm` too, and `Disable`
*not enrolled*.

### OAuthIdentities

`account` is keyed by email address, `identity` by `(provider, provider_subject)`: the
two unique indexes. `redis` holds the three kinds of single-use entry. A login is
`Start`, `Callback` (GETDEL of the state, the guard on the route, the provider's answer:
any subject, any address or none, vouched for or not), `Lookup`, then one of: a code for
the known account; a registration token; `Collision` and the two inserts of
`createOAuthUser`; or straight to the inserts when the provider does not vouch for the
address. `Register` joins at `Collision`. `InsertIdentity` serves the new account and the
bind, which share `identities.Create`. `Unbind` is `UnbindRead` and
`DeleteByUserAndProvider`. Any request may stop at any point (`Abort`); a suspension that
a request finds on its way is one of the reasons.

Keys are random and never come back; the model has only as many as can be of use at the
same time, and a key that is neither in Redis nor with a request stands for a new one,
its `effect` count starting at 0. `consent`, `linked`, `entered` and `effect` are
history; only `entered` is read, as what an access token for `/v1/me` requires.
`RegisterPassword` is the password registration of `EmailTokens`, as far as the address
is concerned; the session that `Exchange` opens is followed in `Sessions`, the
verification link of `Register` in `EmailTokens`.

### KycConsumer, Shutdown and ServerProcess

`KycConsumer` is `Consumer.Run` and `handleKYCTierChanged` on every instance. Redis
pub/sub keeps nothing, so `Publish` reaches any non-empty set of the instances that are
subscribed; an instance that is not, misses the event. `Receive` is the envelope, the
signature and the age check; `MarkEvent` is SETNX; `DropTier` is the bounds check,
`AcquireForUpdate` the connection that the UPDATE needs and `UpdateTier` the UPDATE. The
Redis call and the UPDATE may fail before or after they took effect.

The go-redis client is built without an override of `MaxRetries`, so it sends a command
again when its answer is lost. A SETNX that is sent again finds the key that it set itself
and reports a duplicate: the third case of `MarkEvent`, recorded in `silent`. With an error
after the last retry the event is dropped as well, and its key may be set (`cut`). The
comment at `consumer.go:305-307` says of such a drop that "the publisher can re-send the
same eventID"; when the key is set, what is re-sent is skipped as a duplicate, until the
key has expired and the event is too old. `SkippedIsAccountedFor` is therefore a list of
faults and not a promise that re-sending helps.

`kyc_tier` has a second writer, the verification of the address, which makes it at least 1
(`SetEmailVerified`); `TierIsHighestRaised` counts both.

Three things make an event fresh for longer than `maxEventAge` after its key was set: the
publisher's clock may be ahead (`Lead`), the check accepts both signs of the age, and
SETNX runs later than the check (`Latency`). `WindowAssumption` says what the two
constants of the code must satisfy: `Lead + MaxEventAge + Latency <= EventDedupTTL`. The
comment at `consumer.go:47` asks only for a TTL of at least `maxEventAge`; the mutant of
`PassedOnce` is that value, and fails. The code's 5 and 10 minutes leave 5 minutes.
`PassedOnce` holds within this assumption and with one clock for the services and Redis.
The length of the back-off and its counter are left out.

`Shutdown` is `run()` from the listening server to its return. A handler dispatches its
mail before it returns, `srv.Shutdown` waits for handlers, and the two
`WaitForPendingSends` wait for mails; when the 30 s of `shutdownCtx` are over first,
`run()` returns an error and waits for no mail. Either way the deferred `pool.Close()`
comes last (phases `closing` and `aborting`): it gives out no more connections and waits,
without a time-out, until those in use (`holding`, and the consumer's UPDATE) are given
back. Handlers and mails that were not waited for run on meanwhile, and are lost when the
process ends. `QuitEnds` therefore has an exception, which does occur in the model: a
handler that hangs inside a query keeps `run()` in `pool.Close` for ever. The size of the
pool is left out: a handler that waits for a connection is one that has not acquired it
yet.

`ServerProcess` ties the two together: the consumer lives and dies with its process, takes
its connections from the same pool, and its context is never canceled; what survives a
restart is in Redis and PostgreSQL. When the ping at start-up fails the consumer is off for
the life of the process, and with an OAuth provider configured the process does not start.

### RateLimit

One caller, that is one Redis key and one bucket per instance. A request reads the clock
of its instance (`Stamp`) and Redis runs the script up to `Lag` later; clocks differ by up
to `Ahead`. `Error = Ahead + Lag` is therefore how far a score can miss the instant at
which it is counted, and the exact promise of the window is the pair `AtMostLimit` (for
windows shorter by `Error`) and `RefusedOnlyIfBusy` (for windows longer by `Error`).
`policy` selects the limiter, and with it what an error of Redis means (`AfterError`):
`RateLimiter` asks its bucket, `EmailLimiter` lets the request pass (fail-open),
`SubjectLimiter` refuses it (fail-closed), `GeneralUserRateLimiter` has a bucket only.
`OutageBounded` says what each of them lets pass without an answer; window and bucket do
not know each other's counts, and nothing bounds the two together by the limit. Bucket
contents are counted in 1/`Window` tokens, so that a refill is a whole number. The header
`Retry-After` is left out; note that `ceil(window / limit)` is not, as the comment at
`ratelimit.go:416` says, the time until the oldest request leaves the window. A script
that the client sends again carries the same member, so that a retry counts nothing twice;
it may be refused by a window that its own first run has filled. Retries are part of `Lag`
and this refusal is left out: `RefusedOnlyIfBusy` counts the first run then.

### GatewayReplay

The deliveries of one signed request. `Headers` is the skew check, `StoreNonce` the rest
of the middleware up to SETNX, once the body is in, which is at most `ReadTimeout` later.
`TTLCoversBody` is what the TTL of the nonce would have to satisfy,
`Lead + MaxGatewaySkew + ReadTimeout <= NonceTTL`. It is not an assumption: the code's
values do not satisfy it. It is the hypothesis of the one theorem about this module.

### Directory, Connections, SavedItems, PublicProfiles and SelfService

There are no foreign keys: each service looks its rows up and writes later. `Directory`
holds what they look up; soft deletion and `users.company_id` are written by no operation
of this service and are external actions. (`persistRegistration` creates a company and
leaves the owner's `company_id` NULL, so until somebody links the two, `GetMyCompany`
answers COMPANY_NOT_FOUND to the owner.) An invite is `SendInvite` and `CreateEdge`. Its
answer is one guarded UPDATE (`resolvePendingInvite`), and then the 200, which arrives
(`Acknowledge`) or does not (`LoseAnswer`): an answer that was lost has changed the row all
the same. `ListPendingForUser` is `ListIncoming` and `ListOutgoing`, two SELECTs without a
common snapshot, so somebody can be shown as inviting and as invited when the first invite
was declined and another sent in between; `ListedOnce` allows that case and no other. Calls
only read, so one at a time is enough. A save is `Save`, `CountForCap` and
`CreateBookmark`; a profile is one UPDATE, a company's update a read and an UPDATE.
`conns`, `saved` and the handles
are the tables with their unique indexes as guards. `RawHandle` is what a client may send
and `normalizeHandle` what becomes of it. The comment calls the cap of saved
items "the hard ceiling"; saves that run at the same time pass it together, which the run
`saved_cap` shows. `SavedWithinOvershoot` says by how much: the history variable `peak`
holds how many saves of one user and type were ever past the check at the same moment.

`SelfService` puts the three next to `MFA`. They write disjoint tables and columns, and
what one does to another goes through `Directory`.

## 3. Runs

| Run | Shows | Bounds | Distinct states |
|---|---|---|---|
| `sessions_safety` | the six properties of `Sessions`, and that it implements `SessionLine` | 1 user, 2 families, 3 tokens, 2 requests, 1 bump | about 330,000 |
| `sessions_reuse` | **violated**: a revoked family has no live token | 2 tokens, 2 requests | counterexample |
| `email_tokens` | the six properties of `EmailTokens` | 1 address, 2 + 2 links, 2 requests, 1 logout-all, tiers 0 to 2 | about 740,000 |
| `email_tokens_newest` | **violated**: only the newest link is usable | 2 reset links, 2 requests | counterexample |
| `mfa_confirmed` | **violated**: the active secret was confirmed | 2 secrets, 1 code set, 2 requests | counterexample |
| `oauth_identities` | the four properties of `OAuthIdentities` | 2 addresses, 2 providers with 1 subject each, 2 keys and 2 requests at a time | about 1,070,000 |
| `oauth_unbind` | **violated**: a login method is left | 1 address, otherwise the same | counterexample |
| `process` | events, mails and shutdown, with liveness | 2 instances (1 for the whole life of a process), 4 events, 2 handlers, clock to 4, 1 waiting message | about 230,000 |
| `rate_limit` | the window and the buckets | 2 instances, limit 2 in 4 ticks, burst 1, clock ahead by 1, lag 1, 2 errors, 1 eviction | about 1,960,000 |
| `gateway_replay` | **violated**: a signed request is accepted once | 2 deliveries; skew 6, TTL 7, read time-out 2 (the code's 30, 35 and 10 s) | counterexample |
| `self_service` | invites, answers, lists, the cap, backup codes | 2 users, 2 companies, 3 edges, 2 requests, cap 1, 3 secrets, 3 code sets | about 210,000 |
| `saved_cap` | **violated**: the cap on bookmarks is hard | 2 requests, cap 1 | counterexample |

Why the bounds are enough to make the interesting cases happen: every race in this code is
between two requests on one user, one family or one link, and needs at most three tokens
(a token, its successor, and a second login or a second successor). One bump separates an
old version from a new one, and two tiers above 0 separate "raised by verification" from
"raised by KYC". Two providers are what the service knows, and two addresses separate the
owner of an identity from somebody else. Symmetry is over ids and requests, which the code
only compares for equality. In `process` the key of `e1`, stamped one tick ahead, expires
at the very instant at which a slow SETNX for it can still run, and two instances race for
it; `e2` brings a lower tier, `e3` is out of bounds, `e4` not signed. Two instances, of
which one may be fast, two requests and a window of four ticks are enough for a late stamp
to meet a younger member. With a cap of 1 two saves overshoot it, and three edges between
two users are an invite, its opposite and one more after a decline. The proofs of section
4 remove the bounds for every safety property that holds, `MaxTime` and the other named
bounds included: they are constants like the rest.

Named bounds: `MaxVersion` caps `token_version` (guard of `BumpTokenVersion`),
`MaxLogouts` the logout-alls of `EmailTokens`, `MaxTier` is the largest KYC tier.
`MaxTime` ends the clocks, `MaxInbox` the messages that wait in a subscription,
`MaxErrors` and `MaxEvictions` the faults of a behaviour of `RateLimit`; a handler of
`Shutdown` serves one request at a time. The finite sets of tokens, families, secrets and
code sets stand for random ids; a spent id is never drawn again.

In `MCSessions` an account with a password is entered by it and one without by OAuth: the
two ways differ only in what `openedWith` records, and the proofs have no such restriction.

Two instances choose, in the initial state, which part of the system a behaviour is about
(`part`), so that the state space is the sum of the parts and not their product.
In `MCSelfService` these are connections, bookmarks, profiles or MFA, which write disjoint
state. In `MCServerProcess` they are the events (two instances that crash and restart while
time passes) or the process (the whole life of one instance, its handlers, mails, shutdown
and pool, with a consumer that gets events while the clock stands still). What two instances
share is Redis and PostgreSQL, and those are followed in the first part. The proofs are
about the specifications themselves and know no parts.

Deadlock is not checked where the system may rightly stop: in `MCSelfService` every row that
the bounds allow may exist and be answered, and a request that is refused changes nothing
(for MFA see section 2); in `MCGatewayReplay` every delivery has its answer and the clock
has ended.

### What the violated runs say

* `sessions_reuse`: the winner of a refresh consumes the token, and inserts the
  successor in a later statement that looks at nothing. A `RevokeFamily` between the two,
  by the loser of the same race or by a Logout, revokes the rows that exist; the successor
  is inserted live. The comment promises that the loser's revocation defeats replay "even
  under concurrent requests".
* `email_tokens_newest`: invalidate and create are two statements, so two resends leave
  two usable links, against "so only the newest token is usable". Each of them still has
  its effect once only (`ResetsAccounted`).
* `mfa_confirmed`: `SetPendingTOTPSecret` has no guard on `mfa_enabled`, so an Enroll that
  races a Confirm replaces the active secret.
* `oauth_unbind`: the guard of Unbind counts rows that it has read, and the DELETE is a
  later statement. Two Unbinds, one per provider, each count the other's identity.
* `gateway_replay`: the nonce outlives the skew window by 5 s, but the skew is checked at
  the headers and the nonce after the body, up to 10 s later. A second delivery whose
  headers arrive 30 s after the timestamp and whose body takes 6 s finds no nonce.
* `saved_cap`: the cap is a count followed by an INSERT, so two saves that count together
  leave one bookmark more than "the hard ceiling on how many bookmarks a single user may
  hold".

### Fairness

Only `ServerProcess` states any; everywhere else a request may stop at any statement and
every property is a safety property. There:

* weak fairness of `Subscribe`, `Receive`, `MarkEvent` or its failure, and `ApplyStep` (what
  follows the dedup check, its failures included): they are the loop of one goroutine, which
  Go schedules; a back-off is a timer, and a call of Redis or PostgreSQL that the consumer
  makes returns, with an answer or an error;
* weak fairness of `SendEnds`: both mailers bound a send by `SendTimeout`, 10 s;
* weak fairness of `ShutdownReturns` and `ShutdownTimesOut`: `srv.Shutdown` returns when the
  handlers are done or when the 30 s of its context are over; of `AuthSendsDone` and
  `OAuthSendsDone`, the return of a `Wait` whose counter is 0; and of `Stop` and `GiveUp`,
  the return of a `pool.Close` once no connection is in use.

Nothing is assumed of clients, handlers (they may hang for ever, with a connection or
without), the publisher, signals, crashes or restarts. `QuitEnds` and `KeepsListening` are
checked under this fairness.

## 4. Proofs

Every invariant, every action property and the refinement that a passing run checks is
also a theorem, for every value of the constants. The assumptions are, beyond the types of
the constants and that `None` is not an id:

* the two kinds of link are disjoint, and `ResetToken` is finite (`ResetsAccounted` counts);
* `WindowAssumption`, what the two durations of the consumer have to satisfy (section 2);
* `LimitAssumption`: a limiter has a positive limit and a positive window, as the
  constructors' callers pass them;
* `RequestsFinite`: a server runs finitely many goroutines at a time.

No proof uses a value of a bound. TLC checked each inductive invariant, on the instance of
its run, before it was proved.

* `SessionsProofs`. `OneLivePerFamily` alone is not inductive. The invariant `IInv` adds:
  rows and requests are well formed; a successor exists only of a consumed token
  (`SuccessorsOfUsed`); a request past its CAS is the only one that can give its token a
  successor (`HoldersConsumed`); a login that has not inserted has its family to itself
  (`LoginsFresh`); and versions only grow, a version standing for one password hash
  (`Epochs`), in rows *and* in the copies that requests carry, which is what makes a login
  that read the old hash harmless. From `IInv`: `TypeOK`, `OneLivePerFamily`,
  `RotatedAtMostOnce`, `OldPasswordSessionsDie`, and the action properties
  `LogoutAllIsFinal` and `SuspensionBars`.
* `EmailTokensProofs`. `IInv` adds that an open transaction has its link and its user row
  to itself and that the link is still outstanding (`LocksHeld`), that requests carry what
  they have read (`ReqsWellFormed`), and that a ForgotPassword past its policy check has
  seen an eligible account, whose eligibility never goes away (`ForgotEligible`).
  `ResetsAccounted` needs the cardinality of the redeemed links to grow by exactly one at
  each commit, from `FiniteSetTheorems`, and a logout-all to leave it alone. From `IInv`:
  all six properties of the run.
* `OAuthIdentitiesProofs`. `BoundByConsent` follows the choice of the owner through the
  flow: a bind state and every request on its way to an insert carry a provider that the
  owner has chosen (`FlowsByConsent`), which rests on the route guard. `WorksOnce` needs
  that a key is in Redis or with one request, never both, and is unspent until that
  request acts (`KeysUnspent`). The steps fall into four shapes (a request goes on, takes
  an entry, puts an entry, spends its key), each with a lemma of its own. The action
  property `ClosedStaysClosed` then goes action by action.
* `SessionsProofs`, the refinement. `ImplementsLine` maps a family to its line: *live*
  with its live rows (one, by `OneLivePerFamily`), *none* before its first row, *busy*
  while a request is between the CAS and the INSERT, *ended* otherwise. A step shows only
  if it makes a token valid or invalid or moves a claim on a family without a live token
  (`SameLook`, `RowsSame`, `LiveLook`). Each action then has one of four shapes: nothing
  shows (`StutterStep`), a token is handed out (`GrantStep`), the valid token goes
  (`LeaveStep`, by way of `Consume`), or a request gives a family up (`GiveUpStep`, by way
  of `Release`). One lemma per action names its shape, and `LineStep` puts them together.
* `ServerProcessProofs`. `PassedOnce` is about an instant that no state shows: the last
  one at which a SETNX for an event may still run, `LastFresh`. A waiting message was not
  published before the lead of the publisher's clock allows (`ArrivedOnTime`); a job
  between the age check and SETNX is bounded from both sides (`JobsChecked`); hence a key
  set by it reaches `LastFresh` (`KeysLastLongEnough`, the only use of
  `WindowAssumption`), and a second SETNX finds it. `SkippedIsAccountedFor` and
  `TierIsHighestRaised` are inductive with these; the first needs `PassedOnce`, since it
  tells an event that passed once from one that nobody let through. `CleanStopSendsAll`
  needs what every wait leaves behind (`WaitedFor`) and that nothing of OAuthService runs
  where there is none (`NoOAuthWork`), because `run()` then skips that wait. The two
  invariants are proved separately, over disjoint variables, and joined at starts and
  crashes.
* `RateLimitProofs`. Clock error is the whole difficulty: a stamp is close to the instant
  its script runs (`StampsClose`), so a score is close to the instant it was counted
  (`ScoresClose`). From that the two ends of what `ZREMRANGEBYSCORE` forgets: a request
  counted less than `Window - Error` ago is still in the set (`YoungKept`), provided that
  the key did not expire first (`KeyOutlives`); and what is in the set and not older than
  `Window + Error` was counted (`KeptCounted`). `AtMostLimit` is preserved by the first,
  the action property `RefusedOnlyIfBusy` follows from the second. Members of one instant
  are numbered, so that adding one adds one to the cardinality (`MembersNumbered`).
  `OutageBounded` follows from two conserved quantities: what was spent and what is left
  never exceed what was put into a bucket (`BucketsBalance`), and the requests that passed
  for free, with those that still may, never exceed the errors (`FreePaid`).
* `SelfServiceProofs`. `ListedOnce` speaks of lists, one of which was read in an earlier
  state; it follows from `OneLivePerPair`, what the partial index guarantees of the rows,
  and `ListsRead`, which carries what a call has read through the steps until it returns:
  a row in its first list can only have been answered since, and an accepted one still
  keeps its pair. `AnswersStand` needs the same of the answers whose 200 is on its way
  (`RepliesStand`), `CodesHeldAreStored` of the codes on their way (`CodesOnTheWay`).
  `SavedWithinOvershoot` is inductive with the types once the table is known to be finite.
  It counts with the requests that are past the check, and is proved for the cardinality
  of any finite set of requests.
* `GatewayReplayProofs`. The counterexample of `gateway_replay` says that the TTL is too
  short; `LongEnoughTTLTheorem` says by how much. Under `TTLCoversBody` a nonce lives
  until the last body of its request can be in (`NonceLasts`), and `AcceptedOnce` holds
  for any number of deliveries. The hypothesis is tight: on the instance of the run the
  property holds when the two sides are equal and fails when the TTL is one tick shorter.

Only model-checked: the liveness properties `QuitEnds` and `KeepsListening`, since temporal
reasoning under fairness is beyond the prover. The properties of the six violated runs are
false of the code and have no theorem; for one of them the theorem above says what would
make it true.

## 5. Plan

Modelling is complete along the inventory, and every safety property of a passing run is
proved. What could follow is what the other violated runs leave open: the condition under
which each promise would hold, as `LongEnoughTTLTheorem` states it for the nonce (a single
statement for invalidate and create, a guard on `mfa_enabled`, an Unbind that counts in
the statement that deletes, a save that counts in the statement that inserts, a successor
inserted only into a family that is not revoked).

## 6. Not modelled

Cryptography (JWT, Argon2id, AES-GCM, HMAC, TOTP arithmetic), request parsing, cookies,
error envelopes, configuration, logging and health probes: none of them has state that a
second request could disturb. Of the connection pool only its closing matters here. The
checksum of the national id is a pure function for which the repository holds no second
definition to compare with, and identity matching only reads. Soft deletion (`deleted_at`)
is read by every query but written by no operation of this service; it matters to handles
and lists and is an external action of `Directory`. The tier that `RequireTier` asks for
on two routes is a claim of the access token. `EmailLimiter` and `SubjectLimiter` without
a Redis client let everything pass, and so does the replay check: configurations for
development. Access tokens that were issued before a logout-all stay valid until they
expire by design; the models follow refresh tokens only. Liveness, `ENABLED` and what
recursive definitions compute are outside the prover's reach and stay with TLC.
