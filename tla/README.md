# Formal models of facility-agent

facility-agent is a FastAPI service that keeps loan facility agreements, records covenant test
results and default events on them, and extracts structured data from documents with a language
model. This directory holds TLA+ models of its core, TLC configurations that check them on small
instances, and TLAPS proofs for every instance. Every definition follows the code under `src/app`;
`PROJECT.json` gives the lines of each.

## Inventory

| part | code | state | operations | what is hard | modelled in |
|---|---|---|---|---|---|
| extraction rate limiter | `rate_limit.py`, `config.py` | window start and count per key fingerprint, a lock | `check`, `enforce_extraction_rate_limit` | runs in pool threads; the clock is read before the lock is taken | `RateLimiter` |
| recording on an agreement, Postgres | `agreement_service.py`, `postgres_agreement_repository.py`, `orm_models.py` | three tables; a copy of the agreement per request | create, get, list, record result, record event | read - append - rewrite over two sessions without a version check; awaits in between; failures before, in and after COMMIT | `PostgresAgreements`, `AgreementLedger` |
| what an agreement says of itself | `domain.py` | base status, results, events; today's date | `status`, `is_in_covenant_breach`, `activate`, `terminate` | ties of dates, order of rows, priority of statuses, continuing events | `AgreementLifecycle` |
| extraction jobs | `extraction_job*.py`, `extraction_service.py`, `in_memory_extraction_job_repository.py` | a dict of jobs, background tasks | submit, poll, run | two nested retry loops, every kind of failure, a restart that forgets jobs | `ExtractionJobs` |
| authentication and roles | `auth.py`, `config.py` | the role of each key, loaded once and cached | identity, `require_role` | loaded at the first request, not at the start; a key listed under two roles gets the second | `ApiAccess`, `ExtractionApi` |
| extraction endpoint | `routers/extractions.py` with all of the above | none of its own | `POST /extractions`, `GET /extractions/{id}` | role check, quota, body, job and background task in this order, with other requests in between and restarts under changed settings | `ExtractionApi` |
| singletons of the process | `dependencies.py`, `rate_limit.py` | what `lru_cache` keeps | `get_agreement_repository`, `get_extraction_job_repository`, `get_rate_limiter` | first calls overlap in the thread pool | `SharedStore`, `ExtractionApi` |
| in-memory agreement store | `in_memory_agreement_repository.py` | a dict of agreements | add, get, list, update | aliasing: a reader holds the stored object | partly (`SharedStore`, `AgreementReads`) |
| listing of agreements | `agreement_service.py`, `routers/agreements.py` | none; the client's offset | `list_agreements` | every page is filtered and cut anew while agreements change; no ORDER BY | `AgreementReads` |
| validation of an agreement | `domain.py:171` | none | `create_agreement`, `_validate_agreement` | amortizing sums and date order | `AgreementTerms` |
| example scripts | `scripts/smoke_test_persistence.py`, `scripts/seed_example_data.py` | none | two sequences of calls | no test runs them | `ExampleScripts` |
| HTTP application | `main.py`, `routers/health.py`, `routers/schemas.py` | none | exception mapping, DTOs | - | only the status codes |
| logging | `logging.py` | a context variable | correlation id per request, job and tool call | - | no |
| MCP server | `mcp_server.py` | its own process and store | two read-only tools | - | no |
| migrations, other scripts, extraction targets | `alembic/`, `scripts/`, `extraction_targets/` | - | - | - | only the primary keys of the child tables |

How they interact. A request passes authentication and, on `POST /extractions`, the limiter; these
dependencies are synchronous functions and run in threads of a pool. The route handlers are
coroutines of one event loop: between two awaits a handler is alone, at an await any other handler
may run. `AgreementService` reads a whole agreement from the repository, changes the copy and writes
the whole agreement back. `POST /extractions` stores a pending job and leaves the work to a
background task in the same process; clients poll. With no database configured all stores are dicts
of the process.

The properties that make each part correct are named at each module below; the hazards they are
aimed at are listed with their lines in `PROJECT.json`.

## Modules

| module | extends / uses | what it is |
|---|---|---|
| `RateLimiter` | | `check()`, one step per access to shared state |
| `AgreementLedger` | | abstract: records are only ever added |
| `PostgresAgreements` | `AgreementLedger` (INSTANCE) | the recording handlers and `update()`, one step per await |
| `AgreementLifecycle` | | computed status and breach over the life of one agreement |
| `ExtractionJobs` | | jobs, their background tasks, the model's API and restarts |
| `ApiAccess` | | the role of a key, and what each route asks for (no variables) |
| `ExtractionApi` | `ExtractionJobs`, `ApiAccess` | the endpoint: role check, limiter, handler and jobs in one process |
| `ExampleScripts` | `ApiAccess` | two example scripts as clients of the API |
| `SharedStore` | | the first requests of a process and `lru_cache` |
| `AgreementReads` | | a client that reads `GET /agreements` page by page |
| `AgreementTerms` | | `POST /agreements`: what the model validator lets through |
| `RateLimiterProofs`, `PostgresAgreementsProofs`, `SharedStoreProofs` | the module + `TLAPS` | theorems |
| `FoldTheorems` | `FiniteSetsExt`, `TLAPS` and the library's theorems | induction over numbers and finite sets, folds over sets and sequences, sums |
| `AgreementLifecycleProofs`, `AgreementReadsProofs`, `AgreementTermsProofs` | the module + `FoldTheorems` | theorems that rest on what a loop computes |
| `ExtractionApiProofs` | `ExtractionApi`, `FoldTheorems` | theorems of the jobs, and of the endpoint from those of the jobs |
| `MCRateLimiter`, `MCPostgresAgreements`, `MCAgreementLifecycle`, `MCExtractionApi`, `MCSharedStore`, `MCAgreementReads`, `MCAgreementTerms` | the module (+ `TLC`) | symmetry sets, sets of integers, two settings |

A module also holds, next to a definition, the *mutants* of it: plausible bugs that every property
was checked against. They are not part of any specification.

### RateLimiter

A call is three steps: `ReadClock` (line 36), `Acquire` (the lock and the lookup, 37-38), and
`Admit` or `Refuse` (39-45). `Tick` lets time pass at any point of a call, as long as no call in
flight is older than `MaxStall`. `Current` is the window after the expiry test, `RetryAfter` the
value returned and `Header` the `Retry-After` header. `admitted`, `spent` and `answer` are history.

* `QuotaPerWindow`: no window is charged more than `MaxRequests`.
* `BurstBounded`: more than `2 * MaxRequests` admissions take longer than `Window - MaxStall`. This
  is the boundary burst that ADR-0028 accepts, and what a stale reading adds to it.
* `RefusedOnlyWhenSpent`: a refusal comes from the caller's own spent window.
* `WaitMatchesWindow`: a client that waits as long as it is told is not refused by the same window,
  and is told to wait at most the stall and the rounding longer than necessary.
* `WindowsNeverOverlap`: an entry is counted up, or replaced a whole window later.
The unit test `tests/test_rate_limit.py:47` asserts that the wait is never longer than the window. One
thread alone keeps to it; a thread that read the clock, lost the race for the lock and then finds a
window that opened after its reading announces more, and `WaitMatchesWindow` says by how much.

Settings that are zero or negative are legal for the code. `MaxRequests` is any integer in the
model; `Window` is positive, as a window of zero never refuses for longer than the same instant.

### AgreementLedger and PostgresAgreements

`Get`, `GetResults`, `GetEvents` are the three statements of the first session (parent row, and one
`selectinload` statement per child table; READ COMMITTED gives each a snapshot of its own). `Reject`
and `AppendRow` are the checks and the append. `LoadResults` and `LoadEvents` are the statements of
`update()`'s own session, `Commit` its flush and COMMIT, `Respond` the answer. `Fail` may happen at
any of these points. `Inserts`, `Deletes` and `Flushed` are what the unit of work makes of assigning
the collections: a difference to what *this* transaction loaded. `DuplicateKey` and `RowGone` are
the two conflicts the database or the ORM reports; of a rewritten row that is gone the ORM learns only
where its table has a single row to rewrite, as asyncpg gives no row count for several. A row is named by the request that made it; the
values of columns are left out, since nothing rewrites them with other values. `kept` and
`committed` are history.

* `OnlyCommittedRows`, `RowsInTheirPlace`, `CommitStoresOwnRow`: no phantom rows, no row on another
  agreement or in another table, no 201 without a row written.
* `StableRowsSurvive`: a commit removes only rows that were recorded, or removed, since its request
  began. This is the exact extent of the lost update ADR-0021 accepts.
* `IsLedger`: `Contended` is the set of agreements on which requests may overlap. On all the others
  (`Quiet`) a request waits for the one before it, though not for requests on other agreements. The
  tables of the quiet agreements implement `AgreementLedger`, with `recorded <- ` their part of `db`,
  whatever happens on the contended ones.
* `LastWriteWins` (violated): ADR-0021 and the docstring of `update()` say that the last writer's
  copy replaces the children; two overlapping transactions merge instead.

### AgreementLifecycle

One agreement, its records one after the other. `Status` and `IsInCovenantBreach` are the computed
fields, `Latest` the loop of `is_in_covenant_breach` as a fold over the list. `Reload` is the next
read: with Postgres the rows come back in any order (`keepsOrder = FALSE`), in memory the list is
the same; a run has both. `recorded` keeps the order of recording. `AssignRemediation` and
`AssignWaiver` are the in-place updates of a recorded event that ADR-0009 describes, in both directions,
since the domain model allows both. Like `activate()` and `terminate()` they have no handler yet.

* `BreachIsLatestFailure`: the loop computes the declarative rule of the PRD and ADR-0004, for lists
  that keep their order and, where no two results of a covenant share a date, in any order.
* `BreachNeedsLaterTest`: under the same condition a breach ends only by a new, later-dated,
  non-failing test of the covenant.
* `SameDatePassClearsNothing` (violated): ADR-0004's rule for two results of one date does not
  survive a read that returns them in the other order.
* `RepeatChangesNothing`: a client that got no answer sends its POST again, and the id is made on the
  server, so the record is stored twice. The repeat changes neither the breach of any covenant nor the
  status, even if other records came in between.
* `DefaultEndsWithItsLastEvent`: "an agreement can move from `defaulted` back to `active`" (section 4 of
  the PRD) only when its last continuing event is itself remedied or waived. A remedy recorded as
  another event, a termination, a test or a day that passes ends none, and what shows afterwards is
  maturity or the status set by hand in the meantime.
* `StatusFollowsTable` (violated): section 4 of the PRD says that the status changes only along its
  table. The derived statuses overlay drafts and terminated agreements as well, which the table does
  not list; and `terminate()` does not change the status of a defaulted or matured agreement, though
  the table lists "any" to `terminated`. The trace is a step of either kind.

That an overlapping `update()` on Postgres may delete an event, and so end a default, is the subject of
`PostgresAgreements` (`StableRowsSurvive` gives its extent); here the records come one after the other.

`Status` has `maturity <= today` as the code, the PRD and ADR-0011 do; ADR-0003 still says `<`.

### ExtractionJobs

The only await at which another task can run is the API call, so everything between two answers is
one step. `Send` is one HTTP request of the SDK, `Retry` the next attempt after a validation error;
`Succeed`, `GiveUp`, `TransportFails`, `WrongShape` and `Unexpected` are the five ends, `Restart`
clears the store and the tasks, and may happen any number of times. `shared` is the part of the store
that a GET reads: one of the first requests of a process may have been given a repository that is not
kept. `Seen` is what a GET returns, at any moment. `requests` is history. An exception out of
`model_dump` would not be caught by `run()` (it is in the else branch); the extraction targets are plain
data, which dumps, so that is left out.

* `PendingHasTask`: a job is pending exactly while a task works on it.
* `RequestsBounded`: at most `MaxAttempts * (TransportRetries + 1)` HTTP requests per job.
* `PollsMoveForward`: a terminal answer stays, and no id that was known becomes unknown unless all jobs
  are lost at the same moment, by a restart.

Its runs are those of `ExtractionApi`, of which it is the inner part.

### ApiAccess and ExtractionApi

`LoadRoleKeys` is the table of `_load_role_keys`: the officers' keys are entered last and overwrite.
`Judge` is `get_current_identity` followed by the check of `require_role`; `Admission` adds what each
route asks for. `ApiAccess` has no variables and serves two modules.

In `ExtractionApi`, job j is what request j asks for. A request is `Arrive`, then the steps (`Serve`) in
which FastAPI runs its dependencies and its handler, other requests being free to run between any two.

* Role check: `Anonymous` without a key, `Authenticate` with the cached table, or `LoadTable` and
  `CacheTable` when there is none yet: each of several first requests makes a table, of the settings at
  that moment; the first one ready stays.
* Limiter: `MissLimiter` and `MakeLimiter` when there is none yet. The first one ready is kept; a
  request that made another goes on with that one alone. `Enforce` charges the caller's window in the
  kept limiter or answers 429, `EnforceAlone` does so in a limiter that nobody else has.
* Job repository: `MissRepository` and `MakeRepository`, in the same way.
* `Handle` answers 422 to a body that does not fit the DTO, or submits the job, to the repository the
  request has, and answers 202. A body that is not JSON at all is answered 422 before any dependency
  runs (`ArriveUnreadable`): whoever sends it is neither judged nor charged.

`Get` is the GET of a job and `AskElsewhere` a request to any other route: they are there because they too
may make the first table, and `Get` the first job repository. Each is one step; how it may overlap is
in the settings it read, which are any since the process began. `Work` is a step of the background task
in `ExtractionJobs`. `Reconfigure` puts the next of `Deployments` in force, which a running process does
not see once it has a table. `Redeploy` is the restart: table, limiter, windows, repository, jobs, tasks
and the requests of the old process are gone, and everything but settings and clock is as in the
beginning. `checks` is what a limiter of this process said of a request, `since` which settings were in
force when the process began, and `early` the requests of the process that arrived before limiter and
repository had both been made; all three are history.

* `SpendPerWindow`: what one caller makes the process spend in one window on the model's API is at most
  `(MaxRequests + n) * MaxAttempts * (TransportRetries + 1)` requests, where n of its requests went by a
  limiter of their own, and only early ones do. The bound for which quota, attempts and retries exist
  together (docs/specs/rate_limit.md) is the case n = 0, which holds for every caller as soon as the
  process has a limiter and a repository and the requests that came before have been answered.
* `RefusedByOwnRequests`: a 429 is earned by `MaxRequests` requests of the caller itself in that
  window of that process, well-formed or not.
* `VerdictOfThisLife`: 401, 403 and admission agree with settings that were in force in the life of
  the process that answered. A key revoked before a restart is not let in after it (ADR-0026), though
  it may be until then.
* `AnswersAreTrue`: a job of this process is stored if and only if its request was answered 202, and
  nothing is spent on any other request. A stored job is where a GET finds it, unless its request was
  early: that one may be a 404 for ever after its 202.
* `EveryRequestEnds` (liveness): what a client began comes to an end. Its request is answered and, if
  that was a 202, its job leaves `pending`, or the process is restarted.

Fairness is `WF` of `Serve(j) \/ Work(j)` for each j: pool and event loop go on with every
request and task that can run, and every API call ends because the SDK puts a timeout on each request
and repeats it a bounded number of times. Nothing is assumed of clients, operators, the clock and
restarts.

What is one step here and several elsewhere: the limiter's `check()` (its threads, lock and stale
clock are `RateLimiter`). That FastAPI runs the dependencies in the order role check, limiter, service,
decodes the body before them and reports a body that does not fit after them, is behaviour of the
framework. A key stands for its fingerprint. Limiter and quota settings do not change with `Deployments`.

### ExampleScripts

The calls of `smoke_test_persistence.py` and `seed_example_data.py`, one after the other, against
the role checks of `ApiAccess` under any settings.

* `ScriptsGoThrough` (violated): where an analyst's key is configured, the scripts end without an
  error. Neither sends `X-API-Key`; the first POST of each is a 401.

### SharedStore

Requests whose dependency is made under `functools.lru_cache`. `Hit` finds the cached object; `Miss`
runs the function, and `Made` is its return: the cache keeps the object that was ready first, the
caller gets the one it made. `Post` adds a record, `Found` and `NotFound` are a GET of a record that
was answered before the GET was sent. A store is named by the request that made it.

* `LaterRecordsAreFound`: only a request that began before any store was cached can lose a record.
* `PostedIsFound` (violated): "One shared in-memory store ... for the process lifetime" does not hold
  for first requests that overlap. The rate limiter is made the same way; what that costs is in
  `ExtractionApi` (`SpendPerWindow`, `AnswersAreTrue`).

### AgreementReads

`ReadPage` is one GET: all agreements, filtered by what they say of themselves now (`Matching`), cut
by limit and offset (`Page`). The client goes on with the next offset until a page is not full. Between pages `Create`,
`Enters` and `Leaves` change the store and what matches the filter. `stayed`, `left` and `entered`
are history.

* `MissedOnlyAfterOneLeft`: an agreement that matched all the time is missing from the pages only if
  one created before it ceased to match in the meantime. New agreements hide none.
* `TwiceOnlyAfterOneEntered`: it is on two pages only if one created before it began to match.

Both are about a store that keeps the order of creation. The SELECT of the Postgres backend has no
ORDER BY; there (`keepsOrder = FALSE`) the pages promise nothing.

### AgreementTerms

One creation request over small dates and amounts. `PartiesPass`, `TermsPass` and `SchedulePasses`
are the checks of `_validate_agreement`, `Accept` and `Refuse` its two ends (no property depends on the
rules about the parties; they are there because a request they refuse is not stored). The properties do not
repeat the checks; they say what the checks are for. `Principal` is the loop that adds up the
installments; `PrincipalDue` and `Owed` belong to the properties.

* `RepaidByMaturity`: what is owed, counted day by day, is exactly nothing from the maturity date on,
  for bullet and amortizing schedules. Installments may be zero or negative, so what is owed may grow
  in between; no document excludes that.
* `InstallmentsAreACalendar`: after the n-th due date exactly the first n installments are paid,
  although the validator compares neighbours only.

The PRD (section 3.3) also asks that the rate of a fixed loan be positive. `FixedInterestTerms` has no such
check; interest terms are not modelled.

## Runs

| run | instance | states | shows |
|---|---|---|---|
| `RateLimiter` | 2 identities, 2 threads, quota 1, window 3, stall 2, time to 6 | 1.4 million | the six properties above |
| `Postgres` | 3 requests, 2 agreements, one of them contended, 1 covenant | 1.12 million | what overlap and failure cannot break; refinement of the ledger beside it |
| `PostgresLastWrite` | 2 requests on 1 contended agreement | violation | merge instead of last write |
| `Lifecycle` | 2 covenants, 2 dates, 3 records, both orders of reads | 686 thousand | breach flag, repeats and the end of a default |
| `LifecycleReorder` | 1 covenant, 1 date, 2 records | violation | the tie rule after a read |
| `LifecycleTransitions` | 1 covenant, 2 dates, 1 record | violation | status changes beside the table, and a listed one that does not happen |
| `ExtractionApi` | 2 requests, 2 keys or none, 2 settings, quota 1, window 1, 2 attempts, 1 transport retry, any number of restarts, time to 1 | 344 thousand | the endpoint and its jobs, safety and liveness |
| `ExampleScripts` | 2 scripts, every division of 2 keys | violation | scripts without a key |
| `SharedStore` | 5 requests | 810 | who can lose a record |
| `SharedStoreStart` | 3 requests | violation | a posted record that is not found |
| `AgreementReads` | 4 agreements, limit 2 | 79 thousand | pages while agreements change |
| `AgreementTerms` | 3 dates, 2 parties, 3 installments | 1.24 million | what is accepted is repaid |

Why the bounds are enough to be interesting. Two threads suffice for a stale reading, and a clock
that runs for more than two windows for the boundary burst and a window after it. Three requests let
one commit between the load and the commit of a second while a third still holds an older copy; a
duplicate key needs two, a row that is gone three. The three may be spread over both agreements in any
way, so that up to three overlap on the contended one and up to three follow one another on the quiet
one. Three results on two dates give a tie, an older
result recorded late, and a clearing one. Two requests to the endpoint,
with a quota of one, are the least of which one is refused; by two keys they show that a caller is not
refused for another, and the two settings revoke one key and list the other twice. Two are also what
it takes for a second limiter or repository: one of them is kept, the other is astray. One tick leaves
room for a window before and after it; restarts are not counted. Four
agreements fill two pages, so that one can leave before and one enter behind the offset. Three
installments are the least for which comparing neighbours is not comparing all pairs. In the
lifecycle runs time stops at `MaxDate`, in the limiter run at `MaxTime`. Deadlock is checked except where the requests are all
answered in the end and nothing more can happen (the `Postgres*`, `SharedStore*`, `AgreementTerms`
and `ExampleScripts` runs). Threads, identities, requests and covenants are
symmetric wherever a symmetry set is used; the one run with liveness uses none.

## Proofs

All theorems hold for any sets of identities, threads, agreements, covenants, keys and requests, under
the named assumptions of the modules: a sentinel is not an element of the set beside it; bounds are
naturals; a window is longer than zero; a page has at least one item; amounts and principals are
integers. Every type invariant, safety invariant and action property of the passing runs is proved.
TLC also
checked `BurstInv`, `Punctual`, `ReadsAll`, `PagesInStore`, `SweepInv` and `StoredIsValid` as invariants on the
instances of the runs.

* `RateLimiterProofs`. `TypeCorrect`. `QuotaHolds`: the inductive invariant `QuotaInv` says that the
  holder of the lock is the one thread in the section (`LockHeld`), that the entry it read is the
  stored one (`EntryIsFresh`), and that the count of a window is what was charged to it and nothing
  was charged to windows that start later (`CountIsSpent`). `QuotaPerWindow` alone is not inductive:
  without the link between count and history, a step that stores count + 1 says nothing of history.
  `WindowsDisjoint` and `RefusalsSpent` follow from the same invariant, step by step. `WaitsMatch`
  needs `Punctual`: the reading of a call is in the past by no more than its stall. `BurstsBounded`
  needs all three and `BurstInv`: the last `count` admissions of a caller were charged to its stored
  window, those up to a quota before them to windows that began a whole window earlier, and any
  before that to windows that began two windows earlier, so that an admission lies after its
  2 `MaxRequests`-th predecessor by a window less the stall.
* `PostgresAgreementsProofs`. `TypeCorrect`; `NoPhantomRows` from `Origin` (tables and copies hold
  rows of committed requests, and a copy its own row besides); `RowsStayInPlace` from `Places`;
  `CommitsStore` from `OwnRow`; `StableRowsKept` from `Seen` (what was there all along is in the copy
  once read), and `SerialIsLedger` from `Alone` and `UpToDate`: a request on a quiet agreement has it
  to itself and its copy is the table plus its own row, so `Commit` is `Record` of the ledger, and
  every other step is `Create` or a stutter, commits on contended agreements included.
* `AgreementLifecycleProofs`. `TypeCorrect`, also for rows that come back in another order;
  `DefaultsEnd` case by case: a new record is added behind the events there are (`NewEventEndsNothing`),
  an assignment changes one of them (`AssignedEvent`), and the other steps leave them alone. `LatestIsCurrent` is about the loop of
  `is_in_covenant_breach`: by induction over the results, the dict holds for each covenant its latest
  result, the first of its date (`HoldsCurrent`). `BreachInAnyOrder`: where no two results of a
  covenant share a date, the flag is the same for every order of the list. With `ReadsAll` (a read
  returns all that was recorded, in memory in the same order) these give `BreachIsLatest`,
  `BreachesEndLater` and `RepeatsChangeNothing`; the last holds without any condition on the order.
* `AgreementReadsProofs`. `MatchingIsFilter` and `PageItems`: the n-th matching agreement of the store is
  on a page if and only if n lies between its offset and its end. `TypeCorrect` needs `PagesInStore`: a
  client goes on only after a full page, so an open sweep has not read past the store. `NothingMissed`
  and `NothingTwice` from `SweepInv`: an agreement that has matched throughout and was not seen is not before
  the offset, unless an earlier one left (`UnseenAhead`); one that was seen is before it, unless an
  earlier one entered (`SeenBehind`).
* `AgreementTermsProofs`. `TypeCorrect`; `Repaid` and `Calendar` from `StoredIsValid` and the totals of
  the first k installments (`TotalsExist`, `DueTotalsExist`, `PaidByIsTotal`): what is paid by a day,
  added up day by day, is the total of the installments due by then in the order of the list. For
  `Calendar`, `DatesIncreaseThroughout` carries the validator's comparison of neighbours over to any two.
* `ExtractionApiProofs`, first part: the jobs. `TypeCorrect`; `NoOrphans`, which is inductive once types
  are known; `SpendBounded` from `Accounted`: the attempts before the current one have cost at most
  `TransportRetries + 1` each, and a job that is not being worked on has no call in progress;
  `PollsForward` step by step: only `Finish` changes a stored job, from pending, and only `Restart`
  takes jobs out of sight.
  Second part: `EndpointRunsJobs`, `ApiSpec` implements the `Spec` of `ExtractionJobs`, so the
  endpoint inherits these theorems (`JobsKept`, `PollsKept`). `ApiTypeCorrect`. `EarlyOnes` is what the
  overlap of first requests comes to: a request that is not early finds limiter and repository made, so
  it never works on one of its own; the early ones are finitely many, as each took a step to arrive.
  `AnswersTold` rests on it, and on `Submit` and the answer 202 being one step. `VerdictsInTime` from
  `TablesOfThisLife`: every table, cached or still in the hands of the request that made it, is of
  settings in force since the process began. `RefusalsEarned` from `Books`: the window in force counts
  just what was charged to it, nothing of this process was charged to a later one, and what was charged
  to any window never exceeds the quota, so that a full one stays full. `SpendBoundedPerWindow` puts
  `Books`, `EarlyOnes` and the bound per job together: a sum over at most `MaxRequests` jobs and those
  astray, none above its bound. It needs no assumption that the requests are finitely many.
* `SharedStoreProofs`. `TypeCorrect`; `OnlyEarlyRecordsAreLost` from `FoundInv`: a request that is
  not early works on the kept store, and that store has the records of all POSTs that were not early.

The loops of the code are folds in the models, and `FoldTheorems` is how the proofs reason about them.
No prover here can instantiate an induction theorem whose property is an operator parameter, so
`NatSetInduction` and `SubsetInduction` take the *set* of values that have the property; both are
proved from the well-foundedness theorems of the library. A fold chooses some recursive function;
`FoldExists` and `SeqFoldExists` show that there is one, given as a function too, and `SeqFoldRun` that
the results of a fold over the prefixes of a sequence follow one another by the step of the fold.
`SumUnrolled`, `SumBounded` and `SumUpdated` are the same for sums over a finite set.

Only model-checked: the liveness property `EveryRequestEnds`, since fairness and ENABLED are outside the prover's reach; and that the properties of the five violated runs fail.

## Abstractions

* Time is counted in ticks; `time.monotonic()` is a float, compared only through differences.
* One process, which may be restarted; several workers would each have their own limiter, role table
  and stores (ADR-0027, ADR-0028).
* Row locks: a flush and its COMMIT are one step, since the locks it takes are held to the end. A
  deadlock of two flushes is the `Fail` of one.
* What a document contains and why an answer does not validate is nondeterministic.
* Sums of installments are exact; Python's Decimal rounds a sum to 28 significant digits, so the two
  differ only for amounts that are longer.
* Pydantic's checks of field types are left out; the rules of the model validators are kept (a
  `covenant_breach` event needs a covenant, and those of `AgreementTerms`).

## Not modelled

* The mapping of exceptions to responses in `main.py` and the DTOs of `routers/schemas.py` are
  stateless; the models have the status codes and the fields that they tell apart.
* Logging and correlation ids change no state but a context variable that no decision reads.
* The MCP server offers two reads in a process of its own; reads are in `PostgresAgreements` and
  `AgreementReads`, and with the in-memory backend it has a store of its own, in which there is nothing
  to see.
* Extraction targets are plain data models: whether an answer fits one is nondeterministic.
* The parsing of environment variables; the running of migrations; the MCP and extraction smoke tests,
  which need a subprocess and the paid API.
* `update()` of the in-memory store: no await separates reading and writing, and what a reader holds
  is the stored object itself.

## Plan

Done: all modules above with their runs, and the proofs of all safety properties the passing runs check.

What is left, in this order:

1. `InMemoryAgreements`, with the aliasing of stored objects, as a second implementation of
   `AgreementLedger`; no await separates its steps, so it should implement the ledger with overlap too.
2. A caller of the endpoint over several processes, each with windows, table and jobs of its own.
3. Correlation ids of requests, jobs and tool calls.

Theorems worth proving next: `Quiet` agreements do not depend on the contended ones in
`PostgresAgreements`, as a refinement of one instance per agreement; that a sweep of `AgreementReads`
over a store that does not change returns exactly what matches.
