# A TLA+ model of backend-boilerplate

This directory models the stateful parts of the NestJS backend in `../src`, checks them with TLC
and proves theorems about every one of them with TLAPS. Paths below are relative to the repository;
`PROJECT.json` maps every definition to its source lines.

The application runs as several identical instances (three replicas in `k8s/deployment.yaml`) over one
PostgreSQL database (Prisma) and one Redis. Each instance is single-threaded JavaScript, so code
between two `await`s is atomic, and everything interesting happens at the awaits: another request, on
the same instance or another one, another cron task, a crash. **The general modelling rule is therefore:
one action per stretch of code between two awaits**, with the locals a handler keeps across an await
as the record of the request (`req[p]`, `att[p]`, `call[p]`, `event[s]`), and a request slot stands for a
request on any instance.

## 1. Inventory

| part | state | operations | interacts with | what is hard |
|---|---|---|---|---|
| refresh tokens (`domains/auth`) | table `refresh_tokens` | login, refresh, logout, nightly cleanup | accounts (cascade, `isActive`), events | concurrent refreshes, logout against refresh, crash between delete and insert, tokens equal within a second, a lifetime that is parsed twice |
| cron lock (`infra/schedule`) | a key in the cache | get, set, run, delete | cleanup tasks, cache | check-then-set, delete in `finally`, ttl, crash, instances that do not share a store |
| idempotency (`core/middlewares`) | table `idempotency_keys` | look-up, replay, purge, store on `finish`, hourly cleanup | every POST/PUT/PATCH handler | concurrent attempts, lost responses, purge races, a row in the way |
| feature flags (`domains/feature-flag`) | table `feature_flags`, cache entries | isEnabled, enable, disable, toggle, create, delete | cache, guard | late cache fills, lost invalidations, read-modify-write |
| accounts (`domains/user`) | table `users` | create, update, remove | auth, audit, events | check-then-insert, concurrent removals, events after the query |
| audit (`core/interceptors`, `infra/audit`) | table `audit_logs` | row after each mutation, weekly cleanup | accounts (SetNull) | row written after the response, by an actor who may be gone |
| queues (`infra/queue`, `infra/events`) | Bull's jobs in Redis, counters | emit, add, process, retry | accounts and auth (events), shutdown | attempts, stalls, lost events |
| WebSocket gateway (`infra/websocket`) | sockets, rooms, client map, gauge | connect, disconnect, five events, gracefulShutdown | JWT guard, shutdown | disconnection while the guard awaits |
| shutdown (`infra/shutdown`, `onModuleDestroy` hooks) | connections, timers, process | the signal's two coroutines | all of the above | two uncoordinated sequences, timeouts, missing parts, errors that are caught |
| paged listings (`findAll` of `domains/user` and `infra/audit`) | none of their own; two queries per page | count, findMany, `hasNext` | every writer of the two tables | rows that come, go and move between pages and between the two queries, equal values in the column, odd limits |
| files (`infra/upload`, `infra/streaming`) | the upload directory, the process | upload, download, delete, streamFile, streamVideo | multer, the file system | a deletion between two calls of another request, errors emitted when the handler has returned, descriptors, ranges |
| health, metrics, crypto, logging, decorators, configuration | none, or I/O | - | - | - |

What makes each part correct:

- *Refresh tokens*: a session is never forked; a token that is spent stays spent; deactivation and removal take
  hold; a row lives as long as its JWT, but for the local clock; expired rows go.
- *Cron lock*: no overlap, or only for known causes; a dead holder does not block the job; skipping does not
  starve it.
- *Idempotency*: only successes are replayed; a success is replayed for its lifetime, but for known causes; a settled key
  replays until it expires; no attempt hangs.
- *Feature flags*: coherence is not lost without cause, and staleness ends.
- *Accounts and audit*: every creation and deletion is announced once, but for faults; every audited request has its log, but for known causes.
- *Queues*: what is queued is not lost; it is recorded as done only when it was sent, and given up only at a limit; jobs end.
- *Listings*: who reads to the end has seen every row that was there all the while, and none twice, but for known causes; the walk ends, in a table of bounded size.
- *Files*: of concurrent deletions one succeeds; `Content-Length` is right; only the error of a read stream ends the process; requests end.
- *Gateway*: the gauge counts open sockets; registrations of closed sockets have one cause.
- *Shutdown*: the process exits; exit code 0 is orderly, but for known causes; a clean exit waits for jobs (it does not).

The hazards, each at its line, are listed in `PROJECT.json` with the properties aimed at them.

## 2. Modules

| module | models | theorems in |
|---|---|---|
| `Sessions` | abstract specification of refresh tokens: unopened, stored, in flight, ended | - |
| `RefreshTokens` | `AuthService`, `AuthRepository`, their table, and its other writers; refines `Sessions` | `RefreshTokensProofs` |
| `CronLock` | `withDistributedLock` | `CronLockProofs` |
| `Idempotency` | `IdempotencyMiddleware` and its cleanup | `IdempotencyProofs` |
| `FeatureFlags` | `FeatureFlagService`, guard, repository and cache | `FeatureFlagsProofs` |
| `Accounts` | `UserService`, `AuditInterceptor`, audit cleanup | `TablesProofs` |
| `Delivery` | abstract specification of a mail: asked, lost, kept, delivered, given up | - |
| `EmailQueue` | event handlers, `QueueService`, `EmailProcessor`, Bull's retries; refines `Delivery` | `EmailQueueProofs` |
| `Listing` | the paged `findAll` of `UserService` and `AuditService`, as a client meets them | `TablesProofs` |
| `Files` | `UploadController`, `UploadService`, `LocalStorageService`, the file routes of `StreamingController` | `FilesProofs` |
| `WebsocketGateway` | `WebsocketGateway`, `WsJwtGuard` | `LifecycleProofs` |
| `Shutdown` | `ShutdownService` and the `onModuleDestroy` hooks | `LifecycleProofs` |

Two proof modules serve two components each: `TablesProofs` extends `Accounts` and `Listing` (the same tables, their writers and
their readers), `LifecycleProofs` extends `Shutdown` and `WebsocketGateway` (`gracefulShutdown` is a step of the sequence). So that
both can be extended together, `Listing` and `WebsocketGateway` prefix the usual names: `ListingSpec`, `GatewaySpec`, and so on.

`MC*` modules hold only symmetry sets and the like; each `.cfg` beside them is one run. A definition whose
comment begins "Variant to refute" is a plausible bug: substituted for the definition after it, it must
break the property it names. It is no part of the specification.

### RefreshTokens

A refresh token is a JWT over `{sub, email, role}` and the second of signing: `Token` is the pair of account and
second. (The payload's address and role are left out: this makes more pairs of tokens collide than the
code does, never fewer.) `rows` is `refresh_tokens`; a row also carries its session as history, which is how
"the same login" can be spoken of. `issued` is what clients know. An instance's clock and the database's are one
clock. `login` is `LoginFind` (findByEmail), `LoginAccept` or `LoginRefuse` (argon2.verify, sign), `SaveRefreshToken` or
`SaveThrows`, `Reply`; `refresh` is `RefreshFind`, `DeleteOld` or `DeleteOldThrows`, then the same; `logout` is `LogoutBegin`
(the guard) and `DeleteRefreshTokens`. The second a token is signed in is taken in the turn that resumes
after the preceding await, before the next one, and so belongs to the action before it. The presentation of an access
token is abstracted to "u was given tokens less than `AccessTTL` ago". `logout`'s second query only serves an event.

What collisions mean here: a login that signs a token that is stored answers 500; a refresh that signs one
has already deleted its own row, so its session ends with a 401. A refresh within the second of the login signs the very string it
was given, and stores it again; another refresh with that string then succeeds as well. `OneHolder` is therefore a statement about
sessions, which are never forked, and `SpentTokensStaySpent` the one about strings: it begins when the second of the signing is over.

The lifetime of a row is not that of its JWT by definition. `JWT_REFRESH_EXPIRATION` is any string to `env.validation.ts`; jsonwebtoken
reads it in many forms, `saveRefreshToken` in one (`^\d+[dhms]$`), and it throws at the others: every login is then answered 500
(`SaveThrows`). Where both read it, they agree on its length (`lasts`: d, h, m and s mean the same to both), but not on how to add it:
jsonwebtoken adds seconds to `iat`, `saveRefreshToken` calls `setDate`, `setHours`, `setMinutes` or `setSeconds`, which count in local
time. `Local` and `Moment` are the two conversions of a `Date`, for a local clock that changes once in the run, by `shift` at `change`;
`CutShort` says exactly when the row is then the shorter-lived of the two. In UTC, and for a shift of 0, it never is.

### CronLock

One key, and every call of one wrapped method over all instances. `CacheModule` configures a Redis store, but passes it in the
form older versions of cache-manager take (`cache.module.ts:18`); under the installed versions each instance may in fact keep the key in its
own memory. `StoreOf` gives the store that the instance of a call uses, and the theorems hold for every such assignment: one Redis for
all, a memory for each, or any mixture. A memory rejects nothing, and goes with its process (`Crash`, which ends all the calls of that
instance). `CacheFails` is a rejected operation of a remote store, including one that was applied; a crash leaves its key. `why` is
history: it records what broke the exclusion of a running call within its store, so that `OverlapHasACause` can say that there are
exactly three ways, and a fourth, which is not to share a store. The job bodies take arbitrary time.

### Idempotency

`store[k]` is the row of key k. A response is the number of the attempt it answers. `life` is the time left until
`expiresAt`. `Lose` is a crash, or a connection that closes so that `finish` does not fire. `DbError` is a rejected query,
at each of the three places where one is awaited. `successes` and `unstored` are
history: the first holds the attempts whose handler succeeded, with the lifetime their row should have, the second the
attempts whose response is not kept. There are five ways into `unstored`: the response is lost; a database call
of the attempt is rejected; it meets the row of another attempt at the unique constraint; it went to purge an expired row that another
attempt had purged (the delete throws, and the hooks are not set); another attempt, sent to purge the expired row, takes the new one.
Methods and paths are not part of the key in the
code, nor here.

### FeatureFlags

One flag; the cache has one element per store. The runs use **two caches**, for the reason given under CronLock: what holds there
holds for a shared one too, which is the case of calls that all name one cache.

### Accounts

The guard's look-up and the handler's `findById` are one action (two reads with nothing written between). Of a user only what
other code reads is kept: address, role, `isActive`. `user.updated` has no listener and is left out. The initial rows are any set of
accounts, in the run the administrator and the user of `prisma/seed.ts`, for whom no event was emitted.

The insert and `user.created`, and the delete and `user.deleted`, are two actions each: the event is emitted when the query has
answered. `Fault` is a crash, or a query that is rejected, one that was applied included. `lost` and `unlogged` are history: the
events a fault has prevented, and why an audited request has no log. A log whose actor was removed in the meantime is refused by the
foreign key, and `createAuditLog`'s error only logged (`"orphan"`). `Grow` ages a log by 90 days.

### EmailQueue

Bull's state machine (`waiting`, `active`, `delayed`, `completed`, `failed`) with the options of `getBullConfig`, and
its recovery of stalled jobs, are external and modelled from their use. Each event is one job. Mails may be sent twice (a crash
after sending): the code has no protection against it and no document says otherwise, so no property does.

`Delivery` says what is left when queues, workers, backoff and stalls are taken away. Until `queue.add` has answered, the mail may
be lost; from then on it is kept, and it leaves only by having been sent or by reaching one of two limits. `Phase` maps all four
states Bull gives a job in progress to `"kept"`; sends, failing attempts and stalls map to themselves.

### Listing

One client asks for page 1, 2, ... as long as `meta.hasNext` says so. A page is `Count` and `FindMany`, with an await and no
transaction between them. Users are listed by the column the client names (`sortBy`), in either order, with a limit of at least one
(`QueryUserDto`); audit logs by `createdAt`, descending, with any limit `parseInt` yields. `walk.sortBy` is `"createdAt"`, whose values no
update changes, or `"other"`, any column that updates do change (`Move`), `updatedAt` included. `FindMany` returns any page that
some order allowed by the column has, since rows of one value may come in either order, and not in the same one the next time. A
limit of 0 gives empty pages and an infinite `totalPages`; a negative one makes Prisma take so many rows from the end, and `hasNext` false.

A row is in the list while the filter selects it. One that leaves the filter (a log whose actor is removed) is a row removed, and
when it comes back it is another row: so `Insert` takes any value up to now, which also covers instances whose clocks differ. `Rows` are
places: any number of rows come and go, so many at a time. `slid` and `pushed` are history: the rows that others, or their own update, may
have moved up or down in the order while the client walks.

### Files

The directory of one instance. Every synchronous call is an action of its own where the file
system, which works in other threads, can get between two of them. `MulterModule` is registered with `dest`: multer itself stores what
is uploaded, and leaves `file.buffer` unset, so that `LocalStorageService.upload` rejects, and every upload is answered 500 while
multer's file stays. The model says so (`Upload`). A range is any pair of what `parseInt` makes of a header, `NaN` included. A file
that is gone is not created again: names are random. A name may be that of a directory, which `existsSync` and `statSync` accept.

The read stream emits `'error'` after the handler has returned, and the exception ends the process: in `OpenFails`, when the file has gone or no descriptor
is left, and in `ReadFails`, when a read fails, which that of a directory always does. A stream whose client goes away keeps its
descriptor (`PipeAbandoned`, `leaked`): `pipe` does not destroy it. `Restart` finds the directory as it was, or, in a new container,
empty: the deployment mounts no volume for it.

### WebsocketGateway

Every event waits in the guard (`Receive`), and then is refused or accepted with its handler, which has no await of its own.
`connectedClients` is the set of the Map's keys (`sendToUser`, which only reads it, is left out), `connections` the
gauge. A socket's rooms are socket.io's: external.

### Shutdown

`svc` is `ShutdownService.shutdown`, `hooks` is Nest's sequence started by `enableShutdownHooks`: the two start at the same
signal. Nest's order of modules is not fixed by the repository, so every order is taken. A timer that is
due fires before time goes on. `setup` is what the process was started with: the parts `ShutdownService` finds (it goes on without a
gateway, a scheduler registry or a cache client), and `websocketCloseTimeout`, for which the validation takes any positive number. The
errors the code catches are outcomes: `sockets = "failed"` (gracefulShutdown rejected, a warning), `cron = "failed"` (a job that could not
be stopped goes on firing), `CloseQueueFails`, a cache that stays connected. `sockets = "closed"` means that gracefulShutdown has
disconnected the clients it knows, the authenticated ones.

## 3. Runs, bounds, results

Each run is one `.cfg`. A run with a liveness property uses the component's `FairSpec` (`FairListingSpec`), and then no
symmetry; `refresh_tokens`, `websocket` and `accounts` use symmetric sets of identities.

| run | instance | shows |
|---|---|---|
| `refresh_tokens` | 1 account, 3 requests, 2 sessions, 4 environments (a local clock that goes forward, one that goes back by more than a lifetime, UTC, a setting only jsonwebtoken reads), access lifetime 1, clock 0..2 | `OneHolder`, `RowOutlivesJwt`, `DeactivationHolds`, `SpentTokensStaySpent`; `ImplementsSessions`, the refinement of `Sessions` |
| `cron_lock` | 2 calls over Redis, 2 over the memory of one instance, ttl 3, 2 faults | `OverlapHasACause`; `LockNeverStuck`, `JobKeepsRunning` |
| `cron_lock_mutex` | 2 calls, one Redis, ttl 2, no fault | counterexample to `MutualExclusion` |
| `idempotency` | 1 key, 3 slots, ttl 2, 3 attempts, 1 loss, 1 database error | `OnlySuccessesStored`, `SuccessesAreReplayed`, `SettledKeysReplay`; `EveryAttemptEnds` |
| `feature_flags` | 3 calls, 2 caches, ttl 2, failures at any time | `CoherenceIsStable`; `StalenessEnds` |
| `websocket` | 3 sockets, 2 users, 1 room, 2 events in the guard | `GaugeCountsOpenSockets`, `GhostsWereLate` |
| `shutdown` | timeout 4, wait 2, `websocketCloseTimeout` 1 (below the wait) and 3, every set of parts, 1 piece of work of each kind | `ExitZeroIsOrderly`; `ExitsAnyway` |
| `shutdown_drain` | timeout 4, wait 1, `websocketCloseTimeout` 3, 1 piece of work of each kind | counterexample to `CleanExitDrainsQueues` |
| `accounts` | 3 identities (two are seeded), 2 addresses, 3 requests, 3 audited requests, 1 fault | `AnnouncedOnce`, `MutationsAreLogged` |
| `email_queue` | 2 mail jobs and 1 notification, 3 attempts, 1 stall, 3 crashes | `ImplementsDelivery`, the refinement of `Delivery`; `EmailJobsEnd` |
| `files` | 2 names, 2 requests, files of 0 or 1 bytes, ranges from 0..2, 1 file per upload, 2 descriptors | `DeletedOnce`, `LengthIsWhatIsSent`, `DiesOfItsStreams`; `RequestsEnd` |
| `listing` | 3 rows at a time, limits -1, 0, 1 and 2, clock and column values 0..2, cleanup age 1 | `SurvivorsAreListed`, `RepeatsHaveACause`; `WalksEnd` |

Every passing run also checks its component's type invariant (`TypeOK`, `ListingTypeOK`, `GatewayTypeOK`).

### The counterexamples

The two runs with a counterexample are disagreements of the program with its documents and tests;
`PROJECT.json` quotes the sentences under "findings". Neither needs a failure.

- `MutualExclusion`: two instances that share one Redis read no lock, both set it, both run the body.
- `CleanExitDrainsQueues`: `drainQueues` only logs. `process.exit(0)` comes about a second after the
  signal, with a job still active and Nest's hook still waiting for it.

### Other behaviour the models contain

These executions are in the models, though no run singles them out; some are deliberate, others
worth a look by whoever changes the code.

- A cron call that finds the lock held still runs `finally`, and deletes the holder's key (one of the causes of `OverlapHasACause`).
- Where the cache is the memory of each instance, every instance runs every job: the lock excludes nothing between them.
- A login and a refresh in one second: the payload has no random part, so the refresh signs the string it was given, deletes its row and
  stores it again, and the client gets back the token it presented. A second refresh with it, in the same second, succeeds too.
- A logout between the delete and the insert of a refresh finds nothing to delete, answers success, and the session survives it. A
  session may also be written for an account that was deactivated after the request had read it.
- A refresh token that is valid is refused, and its row cleaned up, up to an hour early, when daylight saving time began after it was stored;
  a `JWT_REFRESH_EXPIRATION` of `1w` makes every login fail.
- Two attempts with one idempotency key that both find no row both run the handler; the later response is not stored (one of the causes of `SuccessesAreReplayed`).
- A retry after a lost response runs the handler again: `finish` did not fire, and nothing was stored.
- `isEnabled` may fill a cache after `disable` invalidated it; the stale answer lasts until the ttl. Concurrent
  `toggle`s of one flag may amount to one.
- A socket that disconnects while the guard verifies its token is registered for good (`GhostsWereLate` states that this is the only way).
- `gracefulShutdown` closes the sockets of authenticated clients only. With a `websocketCloseTimeout` below its wait of one second it
  closes none before the exit. The hook that closes the database may run before connections are closed.
- Two concurrent registrations of one address end with a 500 of the unique constraint for one, in place of the 409 of the check.
- An account that removes itself leaves no audit row, nor does one that another administrator removes before its request is
  logged: the insert names an actor that is gone (one of the causes of `MutationsAreLogged`).
- A crash between the insert of an account and `user.created`, or the delete and `user.deleted`, loses the event, and with it the mail (the cause in `AnnouncedOnce`).
- The failure counter of mail jobs counts attempts, not jobs. Nothing processes the notification queue.
- Every upload is answered 500, and the file multer stored stays where it is.
- A range past the end of a file is announced with a `Content-Length` that the stream does not reach (the exception of `LengthIsWhatIsSent`).
- A file deleted between a stream's `statSync` and its opening ends the process, with every other request in it; so does a name that is a
  directory, and the first stream after clients that went away have used up the descriptors.
- A client that pages may miss a row when one before it is removed, and meet one twice when one is inserted before it; sorted by `updatedAt`,
  also when any row is updated. With a limit of 0 on audit logs, `hasNext` stays true; a negative limit yields one page, of the oldest logs. In a table that
  grows by a page for each page read, `hasNext` stays true as well.

Why these bounds are enough to meet the interesting cases: every race found or excluded here is between two
actors over one row or key, with a third to disturb them, so two or three slots and one or two keys; a lifetime of two ticks gives a row
a time before, at and after expiry, and the clock runs past it; one fault before and one after an action is
two faults. The three values of a column let a row come before, between and after two others. The mutants confirm it: each property is violated, within the bounds of its run, by a plausible bug.

`CHECK_DEADLOCK FALSE` stands where the model stops by itself: the clock, attempt or audit bounds are used up, every
job has ended, every socket has been opened and closed, the client has read to the end or given up, or the process has exited. Elsewhere (`cron_lock`, `feature_flags`, `files`) deadlock is checked.

### Fairness

- `LockNeverStuck`, `JobKeepsRunning`: time passes and calls in progress go on (the bodies are single queries or health checks). None
  for crashes, failures or the scheduler: `JobKeepsRunning` says that *if* calls keep coming, the body keeps being run.
- `EveryAttemptEnds`: a query answers **or** rejects, and the handler returns.
- `StalenessEnds`: calls in progress go on and time passes; failures are allowed at any time.
- `ExitsAnyway`: timers fire. Nothing is assumed of Redis, PostgreSQL, Bull, Nest or the work.
- `EmailJobsEnd`: some instance takes and processes jobs; failing is allowed every time.
- `RequestsEnd`: the file system answers or rejects, and a client reads on or goes away. Nothing is assumed of the container's restart.
- `WalksEnd`: the database answers or rejects, and the client goes on. Those who write may write for ever, but the table holds a bounded number of rows at a
  time: `MaxPage` follows from it, and without it the property is false.

## 4. Proofs

All theorems hold for every value of the constants that satisfies the named assumptions (positive lifetimes, natural
bounds, seeds that are accounts, a local clock that never shows a negative time, and that the null values are no members of the sets they
are added to). `Listing` has finitely many places for rows, since it counts them, and `Files` finitely many requests, since it counts their
descriptors. `WebsocketGateway` asks only that the lobby is a room: its clients need not be finitely many.

- `TypeCorrect` of each component, `GatewayTypeCorrect` and `ListingTypeCorrect`. The type invariant is inductive in six components. In four it
  is proved with a strengthening: `EmailQueue` needs `AttemptsLeft`, for the bound on attempts; `Files` needs `AllBounded`, for the range of a
  stream; `WebsocketGateway` needs `GaugeInv`, since a gauge that is too low could go below zero; `Listing` needs `NotesAreOfRows`, that what is noted about a walk
  is of rows that are there, and of a walk that has begun. `ListingTypeCorrect` includes that a client with a limit above 0 never comes to a
  page beyond the number of rows there can be at a time.
- `SessionsAreNotForked` (`OneHolder`). By itself it is not inductive: a new login must take a session nobody holds. The
  strengthening adds that rows and saving requests only carry sessions in `opened`. The delete
  hands the row's session to the request and takes the row away in one step, which keeps the holder unique.
- `SpentForGood` (`SpentTokensStaySpent`): a request about to store a string either signs it in this very step, with the present second, or was about
  to store it before (`NewTokens`). A string whose second is over is therefore not taken up again.
- `UniqueTokens`, `AccountIntegrity` (no row outlives its account): from the unique and foreign-key constraints as `Insertable` and the cascade state them.
- `RowsOutliveTheirJwt` (`RowOutlivesJwt`): strengthened by `Lifetime`, what the conversion to local time and back can take from a lifetime (`ExpiryLasts`),
  kept from the moment the row is written, and by "what is about to be saved was signed no later than now". `CleanupLogsOutByClockOnly` follows: a row the
  nightly cleanup deletes while its token still verifies was cut short by a change of the local clock, and by no more than that change.
- `Deactivation`: an action property, from the cases of `Next`, none of which starts or saves anything for an account that is quiet.
- `Refinement`: every step of the handlers maps to a step of `Sessions` or to a stutter, under the mapping `Place`. It
  needs `OneHolder`, so that the place of a session is a single one, and `UniqueTokens`, so that `Store` finds its string free.
- `OverlapOnlyWithCause`: strengthened by "a running call without a cause has its key in its store, and no call that shares the store is between get and
  set" (`UntouchedHoldsLock`).
- `ReplaysAreSuccesses`: strengthened by "an attempt that was answered with success is in `successes`".
- `RememberedSuccesses` (`SuccessesAreReplayed`): as it stands it says nothing of how long the row lives. The strengthening (`ReplayableInv`) is that the row
  lives at least as long as the success it answers for, and that an attempt whose response will not be captured is already in `unstored`. Of the steps only `Store`,
  `Purge`, the cleanup, the clock and the two failures can disturb it; each names its cause in `unstored`.
- `SettledReplay`, `StableCoherence`: action properties by cases.
- `Refinement` of `EmailQueueProofs`: every step of handlers, queue and processor is a step of `Delivery` or a stutter. It needs `ReturnedWereSent`
  (a job whose handler has returned has been sent), for the completion, and `AttemptsLeft` (a job that has not failed has an attempt
  left), for the failure that is the last one.
- `SingleAnnouncement` (`AnnouncedOnce`): strengthened by `Ledger`: of the requests that are about to emit an event there is one per event, the event
  is due, and it is not lost. What makes the request of a deletion the only one is that the delete throws for all others.
- `TrailIsComplete` (`MutationsAreLogged`): request n stays accounted for (`Accounted`) in every step, the SetNull of a removal, the insert that the
  foreign key refuses and each kind of fault included. `LogIntegrity`, that no log names an account that is gone,
  is inductive as it stands: it needs the foreign key's check at the insert and its SetNull at the removal, and that an update keeps the identity.
- `LengthsAreRight` (`LengthIsWhatIsSent`): strengthened by `Bounded`, what a stream's locals owe to `createReadStream`'s check of the range and to the size
  it read; the rest is the cardinality of an interval.
- `SingleDeletion`, `DeathsAreStreamErrors` (`DeletedOnce`, `DiesOfItsStreams`): strengthened by `Separate`: the names of an upload are its own, and a file somebody has
  looked at was there, so that a later upload or restart brings nothing back, and an opening fails only of a removal or of descriptors. Of
  those, the other requests hold one each at most (the cardinality of `Piping`); abandoned streams hold the rest.
- `CleanExit` (`ExitZeroIsOrderly`): strengthened by `Orderly`: once `NotifyWait` is over, gracefulShutdown has come to its end. It holds for
  every `websocketCloseTimeout`: one that is too short is an exception of the property, not an assumption.
- `GaugeIsRight` (`GaugeCountsOpenSockets`): strengthened by "the open sockets are finitely many". Only connections and `HandleDisconnect` can
  disturb it; the latter takes away a set of sockets, all of them open, so that what remains is counted by a difference of cardinalities.
- `GhostsHaveOneCause` (`GhostsWereLate`): strengthened by "an event in the guard is of a socket that is open or has closed, and if that event is
  an authenticate, a closed one is in `late`" (`EventsHaveSockets`): the registration happens several steps after the disconnection that makes it a ghost.
- `NothingElseIsMissed`, `NothingElseIsRepeated` (`SurvivorsAreListed`, `RepeatsHaveACause`): the invariants speak of the end of the walk, the argument
  of every moment in it. `MissedAreAhead`: a row the client is still owed has at least as many rows before it (`Preceding`) as the next
  query skips; `SentAreBehind`: a row it was sent has fewer. A page moves rows from one side to the other
  (`PageContents`: where a page lies in the order, without any tie), `hasNext` says no only when the count has nothing beyond the page
  (`HasNextMeansMore`, from the ceiling in `totalPages`), and each writer changes the number of rows before y only by making y `slid` or `pushed`
  (`InsertStep`, `DeleteStep`, `MoveStep`). A walk with a negative limit has one page, and its invariant is trivial but for the repeats (`NegativeStep`).
- `CleanupHidesNothing`: in descending order the weekly cleanup leaves `slid` alone for every row that survives it, so that `SurvivorsAreListed` grants it no
  exception: a row that comes after one the cleanup takes is at least as old, and is taken with it.
- The measures behind the liveness properties. Each names what the steps use up, which the type invariants bound, and proves that no step
  gives any of it back: pages (`WalksGoForward`), attempts, stalls and the stages of an attempt (`JobsGoForward`), time to live (`StalenessRunsOut`,
  `OnlyHoldersProlong`), the waiting points of a request (`AttemptsGoForward`, `RequestsGoForward`). That the steps are taken is fairness, and stays with
  TLC. For `ExitsAnyway` the measure is `elapsed`, whose bound is part of `TypeCorrect`; `JobKeepsRunning` is about calls that keep coming and has no
  measure.

Model-checked only: the liveness properties themselves (fairness and `ENABLED` are out of the prover's reach). Every
invariant and every action property of the runs is stated by a theorem.

## 5. Not modelled

Health probes and metrics endpoints (I/O without shared state); the two server-sent-event routes of `StreamingController` (a timer
per connection, no shared state, no end of their own); encryption and masking (pure functions of
strings); logging, decorators, configuration, rate limiting and the Bull board (libraries configured). Code without a caller: the S3 storage
(a stub), `sendToUser` of the gateway, `runTransaction` and `cleanDatabase` of `PrismaService`. Reads
of single rows. Within modelled parts: payloads, texts, argon2, encryption of phone numbers, HTTP headers other than `Range` and
`Content-Length`.

## 6. Plan

Done: the modules above in the order refresh tokens, cron lock, idempotency, feature flags, gateway, shutdown, accounts, queue,
files, listings, and the proofs of all the invariants and action properties.

Next, in this order:

1. An abstract lease for `CronLock`, and an abstract register for `FeatureFlags`, with refinements, checked in the runs of those components.
2. Readiness composed with `Shutdown`: requests that arrive between the signal and the failing probe.

The set of runs is kept at one per component and one per finding; a new module takes its place in it
when its question is worth more than one that is there.
