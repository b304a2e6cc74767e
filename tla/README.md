# LureMaster: specifications, model checking and proofs

LureMaster is a web application for lure anglers: they keep a catch book, whose
entries are bound to the weather and the tide of the moment, share fishing
spots, join clubs and book the slots of club activities. A Go backend
(`src/backend`) serves a React client (`src/frontend-user`) and keeps its state
in PostgreSQL; Redis gives short locks and counters, MinIO keeps photos.

This directory holds TLA+ models of the parts of the backend whose correctness
depends on the order in which things happen, the TLC instances that check
them, and theorems about them that TLAPS has checked for every value of the
constants.

## 1. The system

| Component | Source (below `src/backend`) | State | Operations |
|---|---|---|---|
| Booking: locker, state machine, store | `internal/booking/{lock,statemachine,postgres}.go` | tables `slots`, `slot_holds`, `checkins`, `activities`; Redis key `slot:<id>` | `Claim`, `Confirm`, `Release`, `CheckIn`, `ExpireDue` |
| Booking handlers | `internal/httpapi/handlers_booking.go` | none of their own | `CreateActivity`, `OpenActivity`, `slotOp`, `Checkin`, `ListActivities` |
| In-memory booking store | `internal/booking/memory.go` | maps behind a mutex | the same calls, for tests |
| Redis client | `internal/redisx/redisx.go` | keys with expiry | `TryLock` and its unlock, `IncrWindow` |
| Hydro worker and queue | `internal/hydro/worker.go` | tables `hydro_jobs`, `hydro_snapshots`, `catches.hydro_status` | `Tick`, `process`, `failOrRetry`, `EnqueueJob`, `Recovery` |
| Hydro engine | `internal/hydro/{engine,openmeteo,dag,pressure,tide,moon,wind}.go` | none | `Retro`: weather, tide, moon and bite score of a moment |
| Catches | `internal/httpapi/handlers_catch.go` | tables `catches`, `user_stats`; photos | `CreateCatch`, `GetCatch`, `ListCatches`, `UploadCatchPhoto` |
| Spots and visibility | `internal/httpapi/handlers_spot.go`, `internal/spot/privacy.go` | tables `spots`, `spot_depths`, `friendships` | `CreateSpot`, `ListSpots`, `NearbySpots`, `GetSpot` |
| Clubs, lure advice, statistics | `internal/httpapi/handlers_misc.go`, `internal/lure` | tables `clubs`, `club_members` | `CreateClub`, `JoinClub`, `RecommendLures`, `MyStats` |
| Accounts | `internal/httpapi/handlers_auth.go`, `internal/auth` | table `users`; stateless tokens | `Register`, `Login`, `Refresh`, `GetMe`, `PatchMe` |
| Object storage | `internal/storage` | files, or objects of a bucket | `Put`, `Get`, `URL` |
| Database pool, migrations | `internal/db/db.go`, `migrations/` | connections, an advisory lock, the schema | `Open`, `Migrate` |
| Seed | `internal/seed/seed.go` | rows of most tables | `Run` |
| Server process | `cmd/server/main.go` | the process | start-up order, background loop, shutdown |
| Web client | `src/frontend-user/src` | tokens in `localStorage`, the user shown | `api`, `tryRefresh`, `refreshMe`, `login`, `logout` |

How they interact. Every HTTP handler runs in a goroutine of its own and talks to
PostgreSQL statement by statement; only `slotOp`, `Checkin`, `CreateActivity`
and `CreateCatch` use a transaction (`withTx` of `router.go`). All handlers and
the background loop share one connection pool. The background loop of every
server ticks the hydro worker every 400 ms and sweeps expired slot locks every
30 s. Handlers and worker meet only in the tables: `CreateCatch` leaves a job
that the worker picks up, and nothing stops two servers from working on one
database. `CreateCatch` also counts on the angler's row of `user_stats`, which
`MyStats` does not read: it computes the same from the book. Redis is an
optimisation that the booking and the scan limit may lose. The client's tab and
the server share nothing but tokens, which the server does not remember.

What is hard. Requests for one slot interleave between any two database calls
and with the sweep; a Redis key may lapse while its holder works. A worker's
batch is old when a job's turn comes, and another server may have worked on it
since. Processes die between statements; transactions are lost; a provider
refuses with text that cannot be stored. Listings hold a connection while they
ask for another. Handlers without a transaction stop half way, and handlers that
read, merge and write overtake each other. Servers start together on an empty
database. In the browser several calls are refused together and each refreshes
the tokens, while the user logs out, logs in as another, or loads the page
again. `PROJECT.json` lists these hazards with the line
at which each bites and the properties that watch it.

## 2. The modules

| Module | What it is |
|---|---|
| `SlotHold` | abstract: what booking promises about one slot's stage and holder |
| `SlotBooking` | booking: handlers, locker, store, Redis key, sweep; implements `SlotHold` |
| `SlotBookingProofs` | theorems about `SlotBooking` |
| `HydroBinding` | abstract: a catch is tried a bounded number of times, then settled for good |
| `HydroJobs` | queue, worker and `CreateCatch`; implements `HydroBinding` |
| `HydroJobsProofs` | theorems about `HydroJobs` |
| `ConnPool`, `ConnPoolProofs` | the connection pool and its use by handlers |
| `SpotSight`, `SpotSightProofs` | spots and clubs: creation, listing, and who is shown what |
| `Startup`, `StartupProofs` | migrations and seed of servers that start together |
| `AnglerRecords`, `AnglerRecordsProofs` | account, profile, catch book with its statistics, photos |
| `Session`, `SessionProofs` | a tab of the web client, its tokens, and the server that checks them |
| `BiteScore`, `LureAdvice`, `ScoreProofs` | pure: the bite score of a catch, the advice of lures, and what is proved of both |
| `MCSlotBooking`, `MCHydroJobs`, `MCHydroRefusals`, `MCConnPool`, `MCSpotSight`, `MCStartup`, `MCAnglerRecords`, `MCSession` | instances for TLC |

Definitions whose name ends in `_Something` (`Commit_LateRelease`,
`Insert_Merges`) are *slips*: the definition of the same stem with a plausible
mistake. They belong to no specification. `PROJECT.json` pairs each with a
property that must fail when the slip takes the definition's place (a property
made of two named parts has a slip for each); that is how we know that the
property says something about the code.

### 2.1 SlotBooking

One action per database or Redis call; a request `r` stands between two calls at
`pc[r]`, and everything else may happen there. Correspondence:

| Model | Code |
|---|---|
| `slots`, `holds`, `checkins`, `activity` | the committed rows of `slots`, `slot_holds`, `checkins`, `activities.status` |
| `tx[r]` | the slot's two rows as `r`'s transaction has read and written them |
| `rowLock[s]` | `SELECT ... FOR UPDATE` in `GetForUpdate`, held until commit or rollback |
| `key[s]` | the Redis key `slot:<id>` with the token of the request that set it |
| `BeginSlotOp`, `BeginCheckin` | the handler up to its transaction: state of the activity in the path, distance |
| `TryLock`, `TryLockNoReply`, `Unlock`, `KeyLapse` | `redisx.TryLock`: SET NX PX, an error, the deferred compare-and-delete, the key's expiry |
| `GetForUpdate`, `GetNoRows`, `Apply` | `Locker.Claim/Confirm/Release/CheckIn` around `CanSlot`, `SaveClaim`, `ReleaseHold` |
| `Commit`, `Rollback`, `Fail` | `withTx`: commit on nil, rollback on any error, also after writes |
| `RecordCheckin`, `FindSlot` | `Checkin`'s INSERT outside the transaction and the lookup of the user's slot |
| `ExpireDue` | the sweep, one transaction over all lapsed rows |
| `Crash` | the process dies: open transactions vanish, Redis keys stay |

`Commit` and `Unlock` come in the code's order: the deferred unlock runs when
`Claim` returns, before `withTx` commits. Clock readings may be old (`ExpireDue(t)`
for any `t` up to now).

### 2.2 HydroJobs

Times are relative: `due` is `next_run_at - now()`, and `Second` counts every
`due` down, so the state space is finite without a clock. `SelectDue` is Tick's
query, which locks nothing; `Take` is the beginning of `process` (row lock,
RUNNING, attempt counted, all inside the transaction `tx[w]`); `Bind` and
`FailOrRetry` are the outcome of `Retro`; `Commit`, `LoseTx`, `RefusedUnstorably`
and `Crash` are the ends a transaction can come to. `Recovery` is in `Start`; that
its periodic runs do nothing is the content of `RunningNeverCommitted`.

### 2.3 ConnPool

Callers are requests and background loops. A caller holds no connection, one,
or two while a listing asks for the rows of an open query. `Grant` serves the
queue in order, as pgxpool does; `HangUp` is the cancelled context of a client
that has gone away, the only way a wait ends otherwise.

### 2.4 SpotSight

One action per statement. Three rules decide who sees what: the WHERE clause of
the listings (`Listed`), `CanListSpot` and `CanSeeExact`. The model asks each at the
moment the code asks it, on the tables as they are then; `Knows` and `Load` are the
helper queries, which take a failure for a no. `hitch[r]` remembers that one of
them failed. Coordinates are exact or fuzzed; depth samples are counted.

`NearbySpots` has the scan limit in front of it: `IncrWindow` and `Expire` are the
two commands of `redisx.IncrWindow`, `scans` is the counter of each caller,
`ending` says which counters have an expiry, `WindowEnds` is that expiry. A call
to Redis that fails lets the scan pass (`allowScan`), may have been counted all
the same, and is remembered in `lost`; `granted` counts the scans that the counter
has let pass since its window began.

### 2.5 Startup

`pc[s]` follows `main`: open, lock, read, apply, unlock, storage, count, seed,
serve. The migrations are one file and so one implicit transaction of
PostgreSQL. The seed is a row of `SeedRows` INSERTs of which the first
`UserRows` are refused when their email is there already; `rows[i]` counts how
often the i-th has taken effect. A statement may fail after it has taken effect.

### 2.6 AnglerRecords

One action per statement of `Register`, `PatchMe`, `CreateCatch`,
`UploadCatchPhoto`, `ListCatches` and `MyStats`; a request stands at `pc[r]` between
two of them. Whatever a request writes (a catch, an object, a field's value)
bears its name, so that a row tells who wrote it.

| Model | Code |
|---|---|
| `profile`, `draft[r]` | the four fields of `users` that `PatchMe` reads, merges and writes back whole |
| `book`, `jobs`, `stats` | `catches`, `hydro_jobs`, `user_stats`, as committed |
| `statsLock[u]`, `tx[r]` | the row lock of the UPSERT, and the row as the transaction will leave it |
| `UpsertStats`, `Commit` | the statements of `CreateCatch`'s transaction up to the UPSERT, and its end |
| `Put`, `PutBreaks`, `ShowPhoto` | `Store.Put`, a copy that breaks off, `UPDATE catches SET photo_key` |
| `Query`, `QueryBreaks` | one query and its loop; the loop that ends early because `rows.Err` is not asked |
| `Fail` | any statement fails, or its reply is lost, or the process dies; `withTx` or PostgreSQL rolls back |

`before[r]` is history: the requests that had ended when `r` began. With it the
properties say what a client may rely on that waits for one answer before it
asks the next thing.

### 2.7 Session

`client.ts` runs without interruption from one `await` to the next, so every
action of the tab ends at a `fetch`: `wire[c]` is the request of call `c` or its
answer. `Call`, `CallOn`, `Login` and `Load` send; `Serve` is the server's guard and
handler; `Succeed`, `SignIn`, `Denied`, `Refreshed` and `RefreshDenied` are the
continuations of `api`, `tryRefresh` and the `AuthProvider`; `Break` is a `fetch` that
is rejected or answered with another error. `IssueTokens` signs both tokens at
once and `setTokens` stores both, so a pair is its user and what is left of its
refresh token; `Tick` takes from all pairs alike. Four history variables say what
the properties need: who sent a call, as whom it was carried out, and whether
since the last quiet moment the tab changed hands under a call (`mixed`) or a
fetch broke or a refresh token lapsed (`faulty`).

### 2.8 BiteScore and LureAdvice

`LureAdvice` is `Recommend` of `recommender.go`: priors, boosts, the smoothed rate of
success, and the five best. A rounded score is either neighbour at a tie, where
the float error decides, and equal scores come in any order, as `sort.Slice`
leaves them. `RecommendLures` never sets `HydroHint.Frenzy`, so the bonus that
`Recommend` has for a frenzy takes no effect in the server; and there are always
eight priors, so `fallback` is never used.

`BiteScore`: operators without state, one for each function of `dag.go`, `pressure.go`,
`tide.go` and `wind.go` that decides something: the classes (`ClassifyPressure`,
`ClassifyTide`, `ShoreAspect`, `DayPeriod`), the bases, the bonuses of the six
edges, and the score. Floats become integers in units fine enough for every
threshold; thresholds are compared as the code compares them. `Context(q)` is
what `Retro` hands to `ScoreBite`. `HydroJobs` abstracts all of this to "the
snapshot is written".

## 3. What the runs check

All runs use `tlc -config <cfg> <module>`. "Fails" means that the property states
what a comment, a test or a message of the repository says, and TLC finds a
behaviour of the code that breaks it.

| Run | Instance | Properties |
|---|---|---|
| `booking_races` | 4 requests, 2 users, 1 slot | `TypeOK TablesMatch RowLockSuffices WinnersDiffer HolderConsent AnswerIsTrue ImplementsSlotHold` |
| `booking_liveness` | 2 requests, a slot in each of 2 activities | `EveryRequestAnswered LeaseEnds` |
| `booking_redis_away` | 3 requests | `TakenMeansContended` fails |
| `booking_late_confirm` | 2 requests of 1 user | `ExpiredConfirmReleases` fails |
| `booking_other_path` | 2 requests, 2 activities | `ClaimedWhileOpen` fails |
| `hydro_two_servers` | 2 servers, 2 catches, one with an unstorable refusal | `TypeOK OneStory RetriesKept SettledForGood ImplementsBinding EverySettles` |
| `hydro_refusals` | 1 server, 1 catch | `RefusalNotRetried` fails |
| `pool_small` | 3 listing callers, 2 plain ones, 3 connections | `TypeOK NothingLeaks OnlyListersStall ServedOrStalled` |
| `spot_sight` | 3 requests, 3 users, 2 clubs, 1 spot | `TypeOK DetailMeansAllowed ListedSeenExactly ClubSpotsOfMembers OkMeansWhole ScanWindow` |
| `startup` | 3 servers, 4 rows of which 2 are users' | `TypeOK MigrationsFirst SeededInOrder EveryoneServes` |
| `angler_records` | 3 requests, 2 anglers, one of them still to register | `TypeOK BookAgrees PhotosInPlace ReadYourWrites PatchStands EveryRequestAnswered` |
| `session` | 3 calls of a tab, 2 users | `TypeOK EnteredOnce ShownOwnsTokens StaysSignedIn NothingHangs` |

What they show:

* **Booking.** The row lock alone makes booking exclusive: whatever Redis does,
  neither the WHERE clause of the UPDATE nor the unique key of `slot_holds` ever
  has to refuse a write (`RowLockSuffices`), two successful claims of a slot were
  won one after the other (`WinnersDiffer`), nobody loses a slot that has not
  lapsed without having asked (`HolderConsent`), the three tables agree after every
  commit (`TablesMatch`), and an answer describes the tables at the moment it
  is given (`AnswerIsTrue`): OK means that the write is in force, a refusal that
  nothing was written and that the `Locker`, asked again, would give the same one.
* **Hydro.** Job, status and snapshot never disagree, a job is retried for
  transient failures only and at most `MaxAttempts` times, and what is settled
  stays so. As long as one server is alone no attempt comes before its backoff is
  over, and every catch whose answers can be stored settles in the end.
* **Pool.** Nothing leaks on any way out of a handler. Listing handlers hold a
  connection while they ask for another, and nothing limits their number: as many
  of them as there are connections can come to wait for each other (`Stalled`),
  which the instance reaches. It is the only standstill (`OnlyListersStall`), and as
  long as it does not happen everybody who waits is served (`ServedOrStalled`).
* **Spots.** The three rules agree although they are asked at different
  moments: whatever is listed is shown exactly unless a query failed, and
  nobody is shown more than allowed even when one did. In one window of the
  scan limit nobody is granted more than the limit, and it lifts again for
  everyone for whom no call to Redis has failed (`ScanWindow`).
* **Start-up.** The advisory lock keeps migrations apart; the one unique email
  at the head of the seed keeps the whole seed from coming twice.
* **Records.** The row of statistics never disagrees with the book, however
  transactions interleave, fail or lose their answer; a catch comes with its job
  or not at all; a photo that is shown is there in full and its owner's own; who
  has been told OK finds the catch, keeps the photo and keeps the changed field,
  unless another patch was under way that left this field alone.
* **Session.** A call is carried out once, and as its sender unless the tab changed
  hands on the way; any number of calls that refresh together sign nobody out;
  the tokens are those of the user who is shown; every call ends after one retry
  and every load of the page ends with pages.

The four disagreements (see "findings" in `PROJECT.json`):

1. `booking_redis_away`: `lock.go` says that a Redis error degrades to the row lock;
   `TryLock` tests the nil reply before the error, so the claim is refused as taken.
2. `booking_late_confirm`: a confirmation after the deadline is meant to free the
   slot, but returns an error, on which `withTx` rolls the release back.
3. `booking_other_path`: `slotOp` tests the state of the activity in the path, not
   that of the slot's activity.
4. `hydro_refusals`: a refusal whose text PostgreSQL cannot store is rolled back
   with its attempt and asked for again, without end.

Other limits of the code that the models contain and no document denies:

* A seed that is broken off after its first INSERT is skipped by every later
  start and stays half done.
* With two servers a job may be tried before its backoff is over.
* Two overlapping `PatchMe` of one angler that change different fields: one
  change is lost though both are answered OK.
* As many listing requests as the pool has connections can stop the server until
  one of their clients hangs up.
* A photo whose catch is not updated, or that is replaced, stays in the store.
* A listing that breaks off is answered OK and short.
* A counter of the scan limit whose `EXPIRE` fails has no end: `IncrWindow` sets the
  expiry at the count of one only.
* `user_stats.streak_days` is 1 for ever; nothing reads the table.
* After a login or logout between a call and its answer, a late refresh may bring
  the old user's tokens back, a refresh that fails may clear the new user's, and
  a retry may act as the new user. A load of the page that meets a broken
  connection signs out.

### Bounds

* `booking_races`: exclusion is about two contenders and one who interferes; four
  requests allow claim, confirm, check-in and a competitor, or two full claims
  around a release. One slot, because nothing but the sweep touches two; the
  sweep over two slots happens in `booking_liveness`. `MaxTime` = `TTL` = 1: a lock
  lapses and is swept, or is met lapsed. Finished requests are forgotten by the
  view `Footprint`, except winning claims, whose rows `WinnersDiffer` compares; no
  action reads what it forgets.
* Hydro: `MaxAttempts` is the code's 3; two catches, one of them with a refusal that
  cannot be stored, make a batch grow old on its first job and keep one job that
  never settles beside one that must; `MaxLag` = 1 merges all delays of more than a
  second, which no guard tells apart except by order; `MaxFaults` bounds crashes
  and lost transactions.
* Pool: as many listing callers as connections, so that all of them can get
  stuck, and two plain ones, which may hold a connection or wait beside those that
  are; two inner queries for an open one, so that a handler may come back for more.
* Spots: three requests are a creation, a new membership and a view of it; a
  seeded club saves the requests that would only create one. Requests are
  symmetric, users are not (they differ as friends and members). `ScanLimit` is 2
  instead of 60, which three scans exceed; counters of different callers have
  nothing to do with each other, so only cleo searches nearby; and she creates no spot,
  since ben is as much an outsider to anna's club.
* Start-up: three servers, so that two may race for the lock while a third dies;
  four rows, so that a gap could open behind the users' rows.
* Records: three requests are two that race and one that looks, or an entry, an
  upload and a competing one; two catches of which the shorter is the newer, a
  listing of one (`Limit` stands for 200), two fields. Requests begin in the order
  of their names, which renames no more than it leaves out.
* Session: three calls are two that are refused together and one that signs in or
  out between. An access token lapses at the first tick, a refresh token at the
  second; calls begin in the order of their names, and the user who is signed in
  at the start is Alice.

### Fairness

* Booking: a handler that has begun goes on (`Proceed`), because its goroutine runs
  and every database call returns; the sweep runs again and again with a fresh
  clock reading (`background` in `main.go`); time passes. Nothing makes requests
  arrive or Redis keys lapse.
* Hydro: every server works (`Work` includes its restart, by
  `restart: unless-stopped`), and time passes. The provider's answers are free, but
  `EverySettles` is asked only of catches whose refusals can be stored: of the
  others it is false (finding 4).
* Pool: the pool serves its queue, statements end. No client is forced to hang up.
* Start-up: every server takes its next step or is started again.
* Records: a handler that has begun goes on, because every statement returns.
  Nothing makes requests arrive or statements fail.
* Session: the server answers what it is asked and the script of an open page runs
  on. A fetch may break, but need not.
* Booking, records and session take for granted that the database answers, and so
  that the pool is not `Stalled`: while it is, requests wait, for as long as the
  clients that hold it up do (`StallEndsByHangUp`).

## 4. What is proved

TLAPS checks these for all values of the constants that satisfy the named
assumptions; the induction is the same each time, an invariant `IInv` with
`Init => IInv` and `IInv /\ [Next]_vars => IInv'`, from which the property follows.

* `SlotBookingProofs`: type correctness; `TablesMatch`, `RowLockSuffices`,
  `WinnersDiffer`; `HolderConsent`, `AnswerIsTrue`; and that
  the committed rows implement `SlotHold`. `IInv` adds to the properties that a
  request inside its transaction holds the row lock and has in `tx[r]` either the
  committed rows or these rows moved by one accepted step (`Exclusive`), that a
  check-in under way is on record (`Recorded`), and that the versions winners hold
  are those of the past (`Past`). These are needed because the properties speak
  of committed rows, which `Commit` takes from `tx`. Beyond the run:
  `ClaimedWhileOpenUnlessMixed` proves of finding 3 that the mix-up in the path is
  its whole cause: if every request names the activity of its slot,
  `ClaimedWhileOpen` holds.
* `HydroJobsProofs`: type correctness; `OneStory`, `RetriesKept`, `SettledForGood`;
  and the refinement of `HydroBinding`. `IInv` adds what a worker at work has in
  `tx` (`AtWork`). The backoff is kept while a server is alone (`Lone`), because only
  the commit of the job at hand moves a due time into the future, and that job
  is no longer in the batch. `NoAttemptForNothing` bounds the calls of the
  provider: each that ends is counted in the job, has cost one of the faults, or
  was a refusal that cannot be stored, which is finding 4.
* `ConnPoolProofs`: type correctness, `NothingLeaks` and `OnlyListersStall`, for any
  pool and any callers, without an assumption about how many of them list: when
  nobody can go on, each connection is held by a caller that waits for its second
  (`NothingLeaks` counts them), and only listing handlers want one (`RowsWanted`).
  A stall therefore takes as many listing requests as there are connections.
  `StallEndsByHangUp`: once there it lasts, whatever else happens, until the client
  of a stuck handler hangs up.
* `SpotSightProofs`: type correctness and all five properties of the run. `IInv`
  adds, for each place in a handler, what the tables already guarantee there; it
  holds because memberships, friendships and spots are never taken back: no step
  takes the sight of a spot from anybody (`SightLasts`), so a rule that was asked
  on one connection still holds when another is asked on the next.
* `StartupProofs`: type correctness and the safety properties of the run. The
  argument for `SeededInOrder`: at most one server is past the first INSERT
  (`OneWriter`), because the second to try is refused by the unique email, and
  what is there is exactly what this one has inserted. It needs `UserRows >= 1`
  (`RowsAssumption`).
* `AnglerRecordsProofs`: type correctness and the four safety properties of the
  run, for any anglers, requests, entries and limit. `IInv` adds that a request keeps to
  its handler, that a row of the book comes from the request it is named for,
  and that who is about to commit has the row of statistics to itself and in
  `tx[r]` the committed one with one catch counted (`LockedRow`): that is what makes
  counting apart from the book sound. `PatchStands` rests on the fact that a patch
  which begins after another was answered has read what it has written, or what a
  later one has, and that one under way beside it writes its own value over the
  field or, if it does not set it, is the exception that `PatchStands` names.
  `RecordsOnlyGrow`: an entered catch never changes but for its photo, which is
  never taken away, and totals and longest fish never shrink.
* `SessionProofs`: type correctness and the three safety properties, for any users,
  calls and lifetimes. `IInv` says what the message of a call tells about its having
  been carried out, that exactly one call asks who the tokens are of while the
  page loads, and whose the refreshes under way are.
* `ScoreProofs`: no run; these are facts about functions. The clamp of
  `ScoreBite` never takes effect, so what the client shows adds up
  (`ContributionsAddUp`); no sum is a tie for the rounding (`NoTies`); every score
  lies in 34.4 .. 90.1 (`ScoreBounds`); a rising barometer is
  never a frenzy (`NoFrenzyWhenRising`), and falling further never lowers the
  score (`FallNeverHurts`); the aspect of a shore is the angle between wind and
  shore for bearings up to 540 degrees (`AspectIsTheAngle`; beyond, `math.Mod` of a
  negative number turns it round: wind 0 on bearing 720 is called offshore); flood
  and ebb are never confused (`TideRunsItsWay`). Of the lures: the clamp of
  `recommender.go` never takes effect either (`NothingCapped`), one more catch with a
  lure never lowers its score (`CatchesNeverHurt`), and a lure with which alone an
  angler has had two catches is always among the five advised (`HabitIsAdvised`).

Only model-checked: everything under fairness (`EveryRequestAnswered`, `LeaseEnds`,
`EverySettles`, `ServedOrStalled`, `EveryoneServes`, `NothingHangs`), which this
prover cannot reach, and the failing runs, which are counterexamples.

Of these liveness properties the proofs give what single steps can say: nothing
goes round in circles, nobody waits for somebody who waits, and what has been
reached stays. Only the step from there to "in the end" rests on fairness, and
so on TLC.

| Liveness, by TLC | What is proved of it, for all constants |
|---|---|
| `EveryRequestAnswered` of booking | `NoCircleOfWaits`: who waits in FOR UPDATE waits for a request that waits for nobody. `HandlersAdvance`: eight steps of its own and a request has answered |
| `EverySettles` | `OneWorkerPerJob`: a locked job belongs to one busy worker, and workers are at different jobs. `DueAgainSoon`: no job is ever put off by more than sixteen seconds. `RetriesKept`, `NoAttemptForNothing`: attempts are limited and each one counts |
| `ServedOrStalled` | `NobodyOvertakes`: who is ahead in the queue of the pool stays ahead until served or gone. `OnlyListersStall`: somebody can go on unless listing handlers hold the whole pool |
| `EveryoneServes` | `LockComesFree`: only a server inside `Migrate` has the advisory lock. `StartsGoForward`: a step that is no failure goes forward in `main`, and tables and seed are never undone |
| `EveryRequestAnswered` of the records | `NoCircleOfWaits`: who waits for the row of statistics waits for one about to commit. `HandlersAdvance`: four steps of its own |
| `NothingHangs` | `CallsGoOnward`: a call is sent twice and refreshes once at most, and has ended after six steps |

`LeaseEnds` has no such half: that a lapsed lock is swept is the fairness of the
sweep itself.

## 5. What is not modelled

* The interpolation of the weather, the harmonic tide, the moon and the mock
  weather: arithmetic over floats. In `HydroJobs`, `Retro` is modelled by its
  outcome.
* The rankings of `MyStats` (top lures and spots), `streakDays`, `ListClubs` and
  `ListActivities`: reads without effect.
* The flush of a stored photo: `Local.Put` neither syncs the file nor looks at the
  error of `Close`. MinIO's put is taken for all or nothing.
* A second tab of the same browser, which shares `localStorage` and keeps a user of
  its own: it would be a second `Session` on the same tokens.
* Wrong passwords, signatures and hashes: taken to do what they are for.
* The in-memory booking store: only tests run it, and they only claim.
* Routing, validation, formatting, logging, configuration: no state.
* The connection lost at a commit that took effect (booking, hydro; in
  `AnglerRecords` it is part of `Fail`): the client
  is told an error about a write that happened; nothing in the code could know.
* Deadlines of the web server and client: nobody sets one.

## 6. Plan

1. Done: booking, hydro queue, pool, spots, clubs and the scan limit, start-up,
   accounts, catch book and photos, the client's session, bite score and lure
   advice, with their theorems.
2. State that is left: a second tab on the same tokens (above).
3. Pure parts that are left: `streakDays`, and `Interpolate` over a short series.
4. Every safety and action property of a passing run is a theorem. Proofs still
   worth having: more of what `LureAdvice` and `BiteScore` promise, and
   `streakDays` and `Interpolate` once they are modelled.
