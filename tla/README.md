# Formal models of aeternixth-go-lib

TLA+ models of the parts of this Go library in which something can go wrong that a test would hardly
show: concurrent callers, deadlines, steps that fail half-way, calls in an unexpected order. TLC checks
the models on small instances; TLAPS proves every safety property they keep for every value of the
constants. Paths below are relative to the repository (`src/` in `PROJECT.json`).

- [Inventory](#inventory)
- [The modules](#the-modules)
- [Rate limiter](#ratelimiter) · [Readiness probe](#readinessprobe) · [Stack lifecycle](#stacklifecycle) ·
  [SQL files](#sqlfiles) · [Request pipeline](#requestpipeline)
- [Tracer](#tracer) · [Error texts](#errortexts) · [Set-up of a service](#servicesetup) · [Paging](#paging) ·
  [Environment of a stack](#stackenv) · [Upload](#upload) · [their run](#libraryparts)
- [Where code and documentation disagree](#where-code-and-documentation-disagree)
- [What is proved, and what is only checked](#what-is-proved-and-what-is-only-checked)
- [What is not modelled](#what-is-not-modelled)
- [Plan](#plan)

## Inventory

The repository is a library of loosely coupled Go packages. Four groups have behaviour of their own:
the rate limiter, the readiness probe, the tracer, and `itestkit`, which builds throw-away stacks of
containers for integration tests. A fifth, the path of an HTTP request through `middleware`, `jwt`, `fiber`,
`errors` and `response`, keeps little state but has many paths that must agree. Around them are small parts
that matter because of when they are called: registration before requests, a table that changes between two
pages, an upload whose answer is lost.

| Component | State it keeps | Operations | Interacts with | Hard behaviour | What makes it correct |
|---|---|---|---|---|---|
| `ratelimit.Limiter` | `sync.Map` from key to deadline | `Allow`, `Reset`; a ticker goroutine runs `cleanup` | any goroutine of the application | several map operations per call, interleaved with other calls and with the sweep; stale clock readings | one action per key and cooldown; exact retry times; expired keys go away |
| `observability/health` aggregator | per request: result map, mutex, errgroup, context | `runChecks` behind `/health/readyz` | one goroutine per `Pinger`, the client, the deadline | answers that race the deadline, hung dependencies | complete answer, earned verdict, bounded time |
| health adapters (gorm, redis, kafka) | none | `Ping` | aggregator, databases, brokers | which of them heed the context | an error means what it says |
| health server, logger | none | construction | `net/http`, `slog` | none | — |
| `itestkit` stack | six maps of resources, a Docker network, a cleanup closure | `StartStack`, `Cleanup`, `t.Cleanup` | Docker, six kinds of containers | any of some thirty calls may fail; cleanup more than once; random map order | nothing leaks; what is returned is ready; documented order |
| `itestkit` SQL files | none beyond a call | `CollectSQLFiles`, `splitSQL`, execution | disk, PostgreSQL, ClickHouse | partial application; quoting and comments | exactly an initial part of what was written is applied |
| `itestkit` set-up of one service | the files in a container, one call | WireMock stubs, MockServer expectations, LocalStack scripts, Kafka topics | Docker, the service | a failure between two pieces; files of one name share a place in the container | what was given takes effect in its order, each piece once |
| `itestkit` environment and names | the `Config` of a stack, the environment of the process | `buildAppTestConfig`, accessors, `ExportEnv`, `ApplyEnv` | the test, other tests | two names with one variable; two stacks; random map order | a test finds its own connections |
| `itestkit` fixture helpers | none | truncate, drop, execute a directory, Redis commands, debug output | one server each | a failure between two statements | as for SQL files and set-up |
| `observability/tracer` | three OpenTelemetry globals, one field | `New`, `Shutdown` | every package that traces | installing one global after the other, concurrent `Shutdown` | all or nothing; flushed once |
| `errors` | registries filled at start-up; package-level `*AppError` values | `New`, `WithDetails`, `GetStatusCode`, ... | handlers, `response`, `middleware` | pointers shared by all requests | details stay private; one error, one status |
| `errors` translation | registry of texts | `RegisterTranslations`, `ResolveMessage`, `ResolveLanguage` | as above | later registrations; replacement in map order | the documented chain of fallbacks, over what was registered last |
| `middleware`, `jwt`, `fiber/user.go` | `Locals("user")` of a request | two JWT middlewares, `RecoverMiddleware`, `ErrorHandler`, `GetUser` | Fiber, handlers | panics and errors after a response was begun; truncated times | a user is vouched for; a failure is answered as one |
| `response` | status and body of a request | `Success`, `Created`, `NoContent`, `Error` and shorthands | handlers | several writes to one response | status and body agree |
| `pagination`, `fiber` parsing | none | `CalculateOffset`, `CalculateTotalPages`, the parsers | list handlers, a table | integer edges; the table changes between pages | a walk meets each row once |
| `aws.Upload` | none; the bucket | `Upload` | S3 | overlapping calls, a failure after the object is stored, lost answers | a URL names the object that was sent |
| `gmail`, `decimal`, `defaults`, `null`, `password`, `timeutil`, `logutil`, `validator` | none | conversions and single calls | — | — | — |
| `proto` | — | generated code | — | — | — |

`PROJECT.json` lists the same components with their sources, and under `hazards` each place where one
of the hard behaviours bites, with the properties that watch it.

## The modules

| Module | Models | Properties in | Proofs in |
|---|---|---|---|
| `RateLimiter` | `ratelimit/ratelimit.go` | `RateLimiterProperties` | `RateLimiterProofs` |
| `AtomicCooldown` | the abstract limiter of its comments | (refined by `RateLimiter`) | `RateLimiterProofs` |
| `ReadinessProbe` | `observability/health/internal/core/core.go` and the adapters | `ReadinessProbeProperties` | `ReadinessProbeProofs` |
| `StackLifecycle` | `itestkit/stack.go` and the `startX`, `applyX`, `terminateX` it calls | `StackLifecycleProperties` | `StackLifecycleProofs` |
| `SqlFiles` | one turn of an `applyX` loop: `migration.go`, `fileutil`, `sqlrunner` | `SqlFilesProperties`, instantiated by `MCSqlFiles` | `SqlFilesProofs` |
| `RequestPipeline` | `middleware`, `jwt`, `fiber/user.go`, `response`, `errors` | `RequestPipelineProperties`, instantiated by `MCRequestPipeline` | `RequestPipelineProofs` |
| `Tracer` | `observability/tracer/tracer.go` | itself | `LibraryPartsProofs` |
| `ErrorTexts` | `errors`: registries, statuses, translation | itself | `LibraryPartsProofs` |
| `ServiceSetup` | `itestkit`: `httpmock.go`, `localstack.go`, `kafka.go`, `mockserver` expectations, `cleanup.go` | itself | `SetupProofs` |
| `Paging` | `pagination/pagination.go`, the parsers of `fiber` | itself | `PagingProofs` |
| `StackEnv` | `itestkit/env.go`, `result.go`, and the `Config` of a stack | itself | `SetupProofs` |
| `Upload` | `aws/aws.go` | itself | `LibraryPartsProofs` |
| `Maps` | writing the entries of one Go map into another, for `ErrorTexts` and `StackEnv` | — | — |
| `LibraryParts` | the six parts `Tracer` to `Upload`, side by side | (checks theirs) | `LibraryPartsProofs` |

The specification modules hold only what the code does. For the first five groups a properties module
extends them with what should follow, together with the inductive invariant of the proofs, so that TLC can
check it too; the six smaller modules end with their own one or two properties, and their inductive
invariants stand in the proof modules.

No two groups share state at run time, which is why they are separate specifications. `LibraryParts` does not
pretend otherwise: its variable `part` picks the one that moves. Where the code of one group calls another
(a set-up step of `StackLifecycle` is a behaviour of `SqlFiles` or `ServiceSetup`, and the stack it returns
is what `StackEnv` starts from), the caller's model has one step that succeeds or fails.

Operators such as `ExpiredEvenIfLive` or `ToUndoHeldOnly`, one line above the definition they vary, are
plausible bugs: `PROJECT.json` pairs each property with one of them, and with the variant in place of the
definition the run of that property fails. Nothing else uses them.

Variables marked "History" in a module (`promised`, `dropped`, `seen`, `asked`, `orphaned`, `failed`,
`garbled`, `written`, `told`, `late`, ...) have no counterpart in the code. No action reads them to decide anything.

## RateLimiter

`Limiter` is a `sync.Map` and a cooldown. `Allow` is not one step: it reads the clock, calls `LoadOrStore`,
compares, and on an expired entry calls `Store`. `cleanup` judges an entry in the callback of `Range` and
deletes by key. Each map operation is linearizable, and the model has one action per operation.

| Code (`ratelimit/ratelimit.go`) | Model |
|---|---|
| `time.Now()`, `time.Ticker` with its one-place channel | `clock`, `ticker`; `Tick` |
| `Limiter.store` | `store`, a function to a deadline or `Absent` |
| `Allow`: `now`, `newEntry` (92-94) | `Allow`, `NewEntry` |
| `LoadOrStore` without an entry (96-99) | `StoreNew` |
| `LoadOrStore` with one, not over (96-103) | `Deny`, `Remaining` |
| `LoadOrStore` with one that is over, then `Store` (101-109) | `LoadExpired`, then `Replace` |
| `Reset` (122-124) | `Reset` |
| `cleanup` (134-149) | `SweepStart`, `SweepKeep`, `SweepExpired`, `SweepDelete`, `SweepEnd` |

`promised` records the deadline of a key's last grant, `dropped` that cleanup deleted a live entry.

The comments promise that a key gets one action per cooldown. The code does not keep this in two
interleavings, and `SpacedUnlessRaced` states exactly which: the entry changed between a call's load and
its `Store`, or cleanup deleted the entry of the running window. Everything else the comments say holds:
a denial tells the exact rest of the window of the *last* grant (`DenialIsOwed`), only grants move an entry
(`OnlyGrantsExtend`), and an expired entry that a tick finds goes (`ExpiredAreEvicted`).

- Run **RateLimiter**: two callers, `Reset` and cleanup on one key. `MaxTime` 4 with `Cooldown` 1 and
  `Interval` 2 gives two sweeps and four windows: enough for a grant, its expiry, a sweep that judges it,
  a new grant under that sweep, and a third call. Keys share no state in the map, so a second key adds
  interleavings but no new case; the serial run and the proofs have more keys.
- Run **RateLimiterSerial**: operations do not overlap (`SerialSpec`). The limiter then implements
  `AtomicCooldown`, with `promised` as its deadline; that a key gets one action per cooldown is part of it.
  Two keys, `Cooldown` 2, `MaxTime` 6: three windows.
- Runs **RateLimiterRace** and **RateLimiterCleanup** show the two ways in which `OneActionPerCooldown`
  fails; `Interval` 5 keeps cleanup out of the first, a single caller keeps concurrency out of the second.

Fairness: weak fairness of `Sweep`. The Go scheduler starves no runnable goroutine and `NewLimiter` starts
this one for ever. Nobody owes a call of `Allow` or `Reset`, and time may stop.

## ReadinessProbe

One evaluation of `/health/readyz`. The world moves freely: each dependency is up, down or hung, and
changes at any moment; the client may leave. An adapter is what its code makes of its context: it heeds it
(gorm, redis), reports its own dial error (kafka), or ignores it (`deaf`: the contract forbids this, nothing
prevents it). That redis heeds it is taken from what `healthredis` hands on; go-redis itself is outside the
repository, and a client built without `ContextTimeoutEnabled` would be deaf until its own timeouts.

| Code (`observability/health/internal/core/core.go`) | Model |
|---|---|
| contexts and goroutines (77-91) | `StartChecks`, `DeadlineElapses`, `Cancelled` |
| `p.Ping(gctx)` (91), the adapters | `PingReturns`, `Outcomes`, `adapter` |
| `mu.Lock`, writing the result, `mu.Unlock`, `return nil` (92-99) | `Lock`, `Record`, `GoroutineFails` |
| `g.Wait`, the verdict loop, the status (102-) | `WaitOver`, `Status`, `Answer` |

`seen` collects what a dependency did during the evaluation; with it, `ReadyIsEarned` and `FailureIsEarned`
relate the answer to the world: a 200 means that every dependency was up at some moment of this request, a
failure has a cause of its own and never that of a sibling. `ResultsAreGuarded` excludes the concurrent
map writes on which Go kills the process. `AnswerIsComplete` says that no goroutine outlives the answer.

- Run **ReadinessProbe**: two checks, all adapters, all changes. Two checks are the least at which one can
  affect another (mutex, errgroup, verdict); the proofs are for any set.
- Run **ReadinessProbeDeaf**: with a deaf adapter the answer need not come, deadline or not, although the
  contract says that the aggregator does not wait.

Fairness: weak for starting, the timer, the answer, returning pings and recording; strong for `Lock`, since
`sync.Mutex` hands itself to a starved waiter. A ping that cannot return is not enabled, so a deaf ping of
a hung dependency owes nothing, nor do dependencies and client.

## StackLifecycle

A call of `StartStack` and the stack it returns. `Phases` is the sequence of fourteen loops in the code: six
that start containers, then migrations, seeds, flush, topics, expectations, init scripts. `pos` and `todo`
are the loop and what it has not visited; any element may be next, as in a Go map. `out` is the local map of
the running `startX`, `held` are the maps of the `Stack`. Each call to Docker or to a service may fail.

| Code (`itestkit/`) | Model |
|---|---|
| `validateOptions`, network (`stack.go`, `validation.go`) | `Refused`, `NetworkCreated` |
| `startPostgres` ... `startLocalStack` | the actions of these names, a turn of the loop each (`StartOne`) |
| `startOneX` succeeds; `Run` fails; host or port fails | `ContainerStarted`; `RunFails`; `EndpointFails` |
| `applyPostgresMigrations` ... `runLocalStackInitScripts`, `RedisFlushAll` | the actions of these names, a turn each (`SetUpOne`: `SetUp`, `SetUpFails`) |
| the end of a loop, the map becoming a field | `NextPhase`, `FreshMap` |
| `terminatePostgres` ... `terminateLocalStack` | the actions of these names (`Terminate`) |
| `terminate()` on a failure | `StepFails`, `ToUndo`, `Terminate`, `UndoRemovesNetwork` |
| the `cleanup` closure, `Stack.Cleanup`, `t.Cleanup` | `Cleanup`, `TestEnds`, `ToClean`, `Terminate`, `CleanupRemovesNetwork` |

`orphaned` are containers of a failed `Run`: testcontainers may hand one back with the error, and the code
drops it. `EndpointFails` terminates its container at once, whatever `KeepContainersOnFailure`
says. `asked` are those for which `TerminateContainer` was called; its failure is ignored by the code.

The properties: nothing leaks when a step fails, up to orphans and what Docker refuses to terminate
(`FailureLeavesNothing`). With `KeepContainersOnFailure`, every container that was started still runs, and its
network is there, except at most one: the container whose endpoint could not be found
(`FailureKeepsForInspection`; the comment of the option makes no exception, see
[below](#where-code-and-documentation-disagree)). A returned stack has every container running and every set-up
done (`ReturnedStackIsReady`); set-up follows all starts and seeds follow all migrations (`SetupInOrder`); a
`Cleanup` that returns nil left nothing running (`SilentCleanupIsComplete`: its only error is that of the
network, which Docker refuses to remove while it is in use); in the end everything is torn down
(`EventuallyTornDown`).

- Run **StackLifecycle**: two instances of any kinds and options, two explicit cleanups besides that of the
  test. Two instances give every pair: same kind (partial map of a `startX`), different kinds (earlier maps),
  migration of one before seed of the other. Two cleanups show a repeated one with and without an error.
- Run **StackLifecycleKept**: the debug flag for failures also disables an ordinary `Cleanup`.

Fairness: `StartStack`, `terminate` and `Cleanup` run on; each of their waits has a timeout. A test ends, if
need be by `go test`'s timeout. The holder of a stack owes no call of `Cleanup`.

## SqlFiles

One turn of a loop of `applyPostgresMigrations` or its siblings: the configured paths of one instance; or one
call of `ExecPostgresDir` or `ExecClickHouseDir` by a test. The
disk (`tree`) is any sequence of paths, each missing, unreadable, a file, or a directory of scripts and of
entries that are ignored. A script is a text, of characters as `splitSQL` tells them apart, together with the
lexemes that SQL reads in it: signs, quoted strings and identifiers, comments, each known by where it begins and
ends (`Lexed`). No action looks at the lexemes; they are what the scanner is measured by. A statement is the set
of places in the script that its characters come from.

| Code (`itestkit/`) | Model |
|---|---|
| no paths (`migration.go` 17, 49, 81, 107) | `PassOver` |
| drop of the schema, truncation (24-28, 56-60) | `Prepare`, `EmptyDatabase` |
| a loop without one; `ExecPostgresDir`, `ExecClickHouseDir` (`sqlhelpers.go`) | `ExecDir` |
| `CollectSQLFiles` (`sqlfiles.go` 28-72) | `CollectSQLFiles`, `Refused`, `Scripted`, `Precedes` |
| `execPostgresFile`, `execClickHouseFile`: reading a file, opening and pinging the database | `ExecFile` with `Contents`, then `ExecPostgresFile` or `ExecClickHouseFile`; or `Fail` |
| the locals of `splitSQL` (`clickhouse.go` 43-52) | `scan`: where it reads, its region, its buffer; `unsent`, its result |
| one turn of its loop, or its end (53-120) | `splitSQL`, with `Turn`, `Region`, `Opens`, `Closes`, `Flush`, `trimSpace` |
| `ExecContext` per statement, or per file for PostgreSQL; its answer lost | `ExecStatement`, or `Fail` |

`SqlFilesProperties!Statements` says what the statements of a script are without a scanner: it cuts at the
semicolons that are lexemes of their own. `AppliedAsWritten` compares: whatever fails, the database executed
an initial part of that, each statement whole and once. `FilesInOrder` is the documented order across
paths, ties included, without a gap; `DoneMeansAll` that success means everything.

- Run **SqlFiles**: `MCSqlFiles` builds every script of up to three lexemes out of words, single comment
  signs, white space, semicolons, and strings, identifiers and comments that hold semicolons and each
  other's signs (also `/*/`, which opens and does not close), with or without an unfinished one at the end.
  Pairs show whether one lexeme disturbs the next, and three give two statements with something between.
  `OneReadingAssumption` tries all texts of up to five characters: each has one reading, and only one, so that
  `Lexed` rules out no script. Two paths with two base names give equal names, both orders
  and an unreadable second path. Scripts vary only in a ClickHouse file that is the only path, since the
  order of files does not look at what is in them.

The model's lexemes know no backslash. ClickHouse reads `\'` within a string, and `splitSQL` does not: it takes
the string to be over there. (A doubled quote is two strings side by side to both, which moves no cut.) Likewise
a comment behind the last semicolon is sent as a statement of its own.

No fairness: nothing is said about termination, and a call that has returned stops (hence no deadlock check).

## RequestPipeline

Requests on their way through `RecoverMiddleware`, a JWT middleware or none, a handler, and `ErrorHandler`.
A handler is any sequence of up to `MaxCalls` calls into the library: it takes a package-level error, makes
one, attaches details, writes answers, and returns an error, nil, or panics. Requests interleave call by
call and share the clock and the error objects: `heap` has one object per package-level error and one
per request, `err` and `ptr` are the dynamic type and the pointer in the request's `error` value.

| Code | Model |
|---|---|
| `NewClaims`, `ValidateToken` with times in whole seconds | `NumericDate`, `Valid` |
| `JWTMiddleware`, `OptionalJWTMiddleware` (`middleware/jwt_middleware.go`) | `Admit`, `Pass`, `Refuse` |
| `errors.New`, `NewAppError` and the helpers over it, with any code and status (`errors/error.go` 151-177) | `NewError`; `UseSentinel` for one made at package level |
| `GetUser` without a user (`fiber/user.go` 33-45) | `GetUser` |
| `fiber.NewError`; `fmt.Errorf` and errors of other packages | `NewFiberError`; `OtherError` |
| `AppError.WithDetails` (`errors/error.go` 191-199) | `WithDetails` |
| `Success`, `Created`, `NoContent`, `Error` (`response/response.go`) | `Success`, `Created`, `NoContent`, `Error`, over `JSON` |
| the handler's end, `RecoverMiddleware` | `Return`, `Panic` |
| `ErrorHandler`, or none (`middleware/error_handler.go`) | `ErrorHandler`, `AnswerAsIs` |

The errors of the application are constants. `Made` says with which codes and statuses a handler makes them,
`AppCodes` which codes are not the library's, `Sentinels` which errors requests share, and `Registry` what
`RegisterCodes` was told. The one restriction is that own and registered statuses are those of errors
(`NewAppError(code, msg, 200)` is left out). A code alone does not tell the status: `New("CONFLICT", ...)` has
none of its own and is answered as registered, or with 500, and `NewConflict(...)` with 409. What the code does
keep is `OneErrorOneStatus`: an error with a status of its own goes out under it, and two errors of one code and
one own status go out under one status, whichever of `Error` and `ErrorHandler` answers them, in whichever
request, with details or without.

Values that cannot be encoded as JSON are part of the model (`encodable`), since the code returns the error
of `c.JSON` and an `ErrorHandler` that fails itself makes Fiber answer on its own; `garbled` marks such a
request (the value it answered with last could not be encoded), and the properties say what is left of them
there.

- Run **RequestPipeline** (module `MCRequestPipeline`): two requests, since every property is about one request
  or a pair, and one sentinel for them to share. `MCMade` and `MCRegistry` give one code in both ways an error
  may have a status, registered with another than `NewConflict`'s, and a code that is registered nowhere. Four
  calls, over both handlers together: three are the least at which a handler obtains an error, attaches details
  to it and writes an answer before it ends, and the fourth lets the other request take the same error in
  between. `Expiry` 3 is longer than `Second` 2 and no multiple of it, so that the truncation shows at both ends
  of a token's life, and `MaxTime` 3 reaches a token's expiry. Requests are symmetric, and no property of the
  run is a liveness property.
- Run **RequestPipelineSuccess**: a success written after an error goes out under the error's status.

No fairness, since nothing is said about progress.

## Tracer

`New` builds a Provider and sets three globals of OpenTelemetry; other goroutines trace through these globals
all the time. `Shutdown` takes the SDK's function out of a field without a lock, in the three statements the
model keeps apart. The SDK is external: a queue per Provider, emptied in the background and by its first
shutdown.

| Code (`observability/tracer/tracer.go`) | Model |
|---|---|
| `New`, disabled or with an exporter (138-189, 242-248) | `NewDisabled`, `New`, `Configured`, `buildSpanExporter` |
| the three globals (179-181) | `SetTracerProvider`, `SetMeterProvider`, `SetTextMapPropagator` |
| spans of anybody | `StartSpan`, `Inject`, `EndSpan`, `ExportBatch` |
| `Shutdown` (232-239) | `Shutdown`, `Take`, `Clear`, `CallFn`, `FlushEnds`, `FlushFails` |

`TracesHoldTogether`: the global provider is never one whose construction failed, and a span begun after some
`New` has returned is never sent on without a `traceparent`. `ShutdownIsHonest`: nil means that nothing
waits to be exported, unless another call holds the function or has given up; and only calls that overlap
can find nil to call, which panics.

## ErrorTexts

The registries of `errors`. At start-up `RegisterCodes` and `RegisterTranslations` may be called several times
and name a code again; then an error is answered: its status, the language of the header, the text with its
fallbacks (the default language, the message, the code), the placeholders in any order.
`AnswersAreRegistered` tells the answer from the list of calls instead. The *last* registration of a code
decides its status, for errors made before it too. The text is what the last registration of the code has in the
client's language, which is the first supported one of the header or else English; if it does not know that
language, its English text; else the error's message, else the code. The languages have different texts, so that
one in place of another shows. An empty text counts as none, but only at the end of the chain: one in the client's
language hides the English one, see [below](#where-code-and-documentation-disagree). An answer is blank only if the
code is, or a value that replaced a placeholder: a detail may be the empty string, and `{name}` alone then leaves
nothing (`translation.go:98`). The random order of the map does not show unless a detail's value contains
a placeholder itself. `ResolveMessage` is the lookup in the registries, and each turn of the code's last loop is a
`FillPlaceholder`, in any order. An error has up to two details; one with an empty value comes alone.

Quality values (`;q=`) are cut off by the code and not weighed, so the model's tags have none. Registration
while requests run is excluded by the comment at `error.go:130`, and by `Serve`.

## ServiceSetup

What is done to one instance that takes no SQL files, in the order of the code: a WireMock collects its stubs,
which Docker copies one by one before it starts; a LocalStack starts, collects its scripts, copies and runs them
one by one; a MockServer starts and takes its expectations; a Kafka is told its topics; a test drops or
truncates tables.

| Code (`itestkit/`) | Model |
|---|---|
| `collectFilesForContainer`, `expandLocalStackScripts` | `ExpandPath`, an entry at a time: `ReadEntry`, `NextPath`, `MayFail`, `Refused`, `Taken`; `Expanded` |
| defaults of an expectation or a topic | `FirstWork`, `Complete`, `Body`, `TopicSpec` |
| `startOneWireMock`, `startOneMockServer`, `startOneLocalStack` | the actions of these names, `StartFails`; a file of a WireMock is copied by `CopyFile` |
| `ContainerFilePath` (`httpmock.go` 206-229), the target of a script | `PlaceOf`, in `inbox` |
| `execLocalStackScript` | `CopyScript` (to the base name), `ExecScript` (what lies there) |
| `postMockServerExpectation`, `CreateKafkaTopics`, `TruncatePostgres`, `DropClickHouseTables` | the actions of these names |

Every step may fail, with its effect or without. `SetupIsAsGiven`: what was done is an initial part of what was
given, in its order (of topics a part), two scripts of one base name each run as themselves, and a call that ends
well has done all. Files of a WireMock go to a place by kind and name, whatever path they are from, so a later one
overwrites an earlier one of the same place, and that stub is lost; the property says that this is the only way in
which a copied file can be missing, and that it is the earlier one. A topic may be given twice: the code passes it
on twice, and the broker makes at most one. For WireMock the files visible in a hidden directory are copied, as
`WalkDir` is told to skip hidden files only; the model's folders stand for these too. No folder has the name of
a file.

## Paging

`CalculateOffset` and `CalculateTotalPages` as a list service uses them. The handlers are the application's and
external: one counts, then selects, and the table may change in between. `walk` is a client that asks for page
after page until the total it was last told. The parsers of `fiber` are the gates of the three handlers;
`tagged` says whether the query struct has the bounds its documentation shows. Integers wrap at `HalfWord`.

`PagesHoldTheTable`: a walk sees no row twice, even while rows come and go; it sees every row of its beginning
unless one is deleted; none of its requests is refused; and an answer lists rows only for a page that exists,
except when the page number is so large that the product in `CalculateOffset` overflows, which the code
lets through (`pagination.go:42`).

## StackEnv

How a test finds its stack: `StartStack` flattens the resources into a `Config` keyed by name, `ExportEnv` maps
each instance to variables, in the random order of Go maps, and `ApplyEnv` writes them into the environment of
the process, where a second stack with the same options does so too. `ConnectionsAreOnesOwn`: `Config` answers
for exactly the instances of its stack; the environment has a value for each, of the stack that applied last
(of either, if at once), and of that very instance, unless another shares its variable. Which do, `Shared` says:
names that differ by dash and underscore, and the native DSN of a ClickHouse `x-http` with the HTTP DSN of `x`.

## Upload

`Upload` in its steps, each of which may fail, with calls that overlap and a store whose answer may be lost.

| Code (`aws/aws.go`) | Model |
|---|---|
| `getExtension`, `setDefaultFileName`, `setDefaultContentType` | `CallUpload`, `setDefaultFileName`, `TypeSet` |
| decoding, credentials (193-203) | `Decode`, `GetCredentials` |
| `PutObject`, the presigned URL (205-232) | `PutObject`, `Presign` |

`UrlsNameTheirObjects`: a URL names an object with the data and the type that were sent, which no other call
overwrites; sources of different types get different ones, but for jpeg and jpg; an object without a URL
is that of a call in progress or failed; and the panic at line 153 is never reached. A source without a
comma is not refused: the whole of it is decoded, and stored if that works (`ItsHeader`).

## LibraryParts

Run **LibraryParts** checks the six modules above in one state space that is the sum of theirs, with a type
invariant that picks the right one by `part`. Bounds:

- `Tracer`: two Providers, since a second `New` replaces the globals of the first; two callers of `Shutdown`,
  the least that race; one worker, whose spans may begin and end in any of these states; a queue of one, so that
  it overflows. Providers and callers are symmetric; no property of the run is a liveness property.
- `ErrorTexts`: the codes `TAKEN` (an application's) and `CONFLICT` (also the library's own), two registrations
  and two tags: a second registration replaces the first, and a second tag is tried after an unsupported one.
- `ServiceSetup`: two base names and two given items, hence equal names in two paths and both orders, and a
  WireMock file that overwrites another.
- `Paging`: `HalfWord` 6, an `int` of -6..5, so that products overflow; pages of up to two rows, four rows ever.
- `StackEnv`: the names `x`, `x-http` and `x_http`, which collide in both ways, two instances, two stacks.
- `Upload`: two calls of every pair of sources, one payload.

The constants are bounds for TLC alone: the theorems hold for any number of codes, registrations, tags, given
items, names, calls and so on. Written into the models, and so into the theorems, are two stacks (any two), two
placeholders with their values, and names spelled with `x`, `http`, dash and underscore (`Tokens`), which is all
that the variables tell apart. A step of one part is a step of its own
specification and leaves the others alone, so what is proved of each holds side by side. There is no
fairness, since nothing is said about progress, and each part simply stops (hence no deadlock check).

## Where code and documentation disagree

Five runs expect a violation; each is a sentence of the documentation that the code does not keep.

| Run | Sentence | What happens |
|---|---|---|
| RateLimiterRace | `ratelimit.go:72` "atomically checks and updates" | two calls load the same expired entry and both return allowed |
| RateLimiterCleanup | `ratelimit.go:35-36` "blocked until the cooldown expires" | cleanup deletes a fresh entry in place of the one it judged |
| ReadinessProbeDeaf | `pinger-contract.md:48` "OR the deadline to elapse" | the aggregator waits for every ping |
| StackLifecycleKept | `result.go:6-7` "terminates every container" | under `KeepContainersOnFailure`, Cleanup of a sound stack does not |
| RequestPipelineSuccess | `response.go:37` "a standardized 200 OK" | the status is the one set before |

Three more have no run, since a property that holds states what is left of each sentence:

- "Install the OTel globals atomically" (`tracer.go:176`) is three assignments. A span begun within the first
  installation may be sent on without its `traceparent`; `TracesHoldTogether` is what is left of the atomicity.
- `KeepContainersOnFailure` "leaves containers running when StartStack fails" (`options.go:87-88`), but a container
  that was started and whose host or port cannot be looked up is terminated at once (`postgres.go:103-111` and its
  siblings for the other kinds). `FailureKeepsForInspection` says that it is at most this one.
- "Fallback chain: requested lang -> "en" -> appErr.Message -> appErr.Code" (`translation.go:70`): with an empty
  text registered in the client's language and one that is not empty in English, the answer is the message or the
  code, because the first two links go by presence (79-83) and the last by emptiness (87).
  `AnswersAreRegistered` states the chain with this difference.

## What is proved, and what is only checked

The theorems hold for every value of the constants that satisfies the named assumptions of the module
(`CooldownAssumption`: a natural number; `InstancesAssumption`: not empty; and so on), in particular for
any number of callers, keys, checks, instances and requests, and for clocks and call counts with any bound.
Each proof has the same shape: an invariant `IInv` holds initially, every action preserves it, and it
implies the property, or, for an action property, constrains each step enough.

- **RateLimiterProofs**. `SpacedUnlessRaced` says nothing of how the map relates to past grants;
  `StoreKeepsPromises` does: an entry is the promise of the last grant, a missing one means that this is over
  unless cleanup dropped it. That in turn needs, for a sweep that is about to delete, that it judged by a time
  that has been (`JudgementsAreSound`, a part of the invariant). `SerialInv` adds what quiet use guarantees,
  chiefly that a call meets the entry it loaded, and `SerialLimiterIsAtomic` is the refinement of
  `AtomicCooldown`: grants map to `Granted`, `Reset` to `Forgotten`, everything else stutters.
- **ReadinessProbeProofs**. `Progress` ties a goroutine's place to the mutex and the result, `Causes` its result
  to the world, `Verdict` the code to the results.
- **StackLifecycleProofs**. `StartedSoFar` and `SetUpSoFar` say what the loops before `pos` and the visited part
  of this one have done; `UndoneSoFar` that a teardown still has to visit what it has not asked for.
  `PhasesOrder` is the one fact about the order of the loops: starts before set-up, migrations before seeds.
  `StartStackSteps` and `TerminateSteps` bring the operations of six kinds down to the few steps they share.
- **SqlFilesProofs**. The files read and those waiting make up the collected set, and each one read precedes
  each one waiting (`Split`, `Sorted`): hence the order, the absence of gaps, and completeness of success. The
  scanner is measured against the lexemes: wherever it reads, it stands in one of them, in code at its beginning
  and in its region within it (`Stands`), so its buffer is what follows the last semicolon that is a lexeme
  (`Scanned`), and what it has cut is what these semicolons have ended (`Cut`). `TurnsWithin` is the one lemma
  about the syntax: a turn stays within its lexeme or leaves it at its end for code. `Queued` then carries the
  statements on: all that is wanted so far is applied, or waits behind what is, or is yet to be cut.
- **RequestPipelineProofs**. Sentinels are never written; a request points to a sentinel or to its own object
  (`Pointers`); a body fits the status it was written with, for any `Made` and `Registry` (`BodiesFit`, from
  which `OneErrorOneStatus` follows); tokens are not from the future (`IssuedBefore`, for the truncation of
  `nbf`).
- **LibraryPartsProofs**, `Tracer`. `TracerInv` follows a Provider: until `New` installs it nobody can have a
  span of it (`Construction`, `TracingInv`), and after `New` has returned either the field holds the function,
  or a call holds it, or the SDK was told (`CallInv`, `Field`). `Race` carries, for a call that found the field
  set and will find it nil, that another call was there at the same time.
- **PagingProofs**. The ids of a table grow with their positions. A walk has accounted for the positions up to
  `Beyond`; what lies past them is younger than what it has seen (`Ahead`), and unless a row is deleted it has
  seen every row of its beginning before them (`Covered`). It stops only when the total says that there is no
  further page. Under these lie facts of arithmetic that are theorems of their own: `OffsetIsExact` (a page
  within the total never overflows) and `EachRowOnOnePage`.
- **LibraryPartsProofs**, `Upload`. The object of a call is made of its own source (`Made`); the UUIDs given out
  are counted by the calls that have one, so a new one is no other call's (`Naming`); hence what was stored
  stays (`Stored`).
- **LibraryPartsProofs**, `ErrorTexts`. The registries hold what was told last of each code (`AsTold`; that
  there is a last one is `Least`, from the well-foundedness of the naturals), and the text of an answer is the
  template with those details filled that had their turn (`FilledSoFar`), in whatever order. `Template` is shown
  to be the one text that the chain, told from the calls, leads to.
- **LibraryPartsProofs**, the composition. `EachPartAsSpecified` shows that side by side every part behaves by
  its own specification, from which `PartsTypeCorrect` and all of the above follow for the whole.
- **SetupProofs**, `ServiceSetup`. `Walked` says what the walk over the paths has collected: the wanted files
  before the place it is at, in their order; `Standing` what each stand of the call means; `InTurn` that the
  effects are the beginning of the work; and what lies at a place of a WireMock is the last file copied there.
- **SetupProofs**, `StackEnv`. `EnvIInv`: each exported variable holds a value of an instance whose variable it
  is, and the environment what the last to apply exported. Under it lies a fact about names: two fields share a
  variable only as `Shared` says (`SharedVariables`), shown position by position.

Only model-checked: the liveness properties (`ExpiredAreEvicted`, `AnsweredUnlessDeaf`, `EventuallyTornDown`),
since TLAPS here does not reason about fairness or ENABLED. That every text has a reading
(`OneReadingAssumption`) would need an induction over texts, and is tried up to a length; the theorems about
`SqlFiles` do not use it. The five sentences under
[Where code and documentation disagree](#where-code-and-documentation-disagree) are refuted by TLC.

## What is not modelled

- Wording and layout: log lines, JSON layout, the message texts of the pipeline (it tells only where a message
  comes from; what it says is in `ErrorTexts`).
- `ToHTTPStatusCode` is not called in the library, and gives 0 for an error made by `errors.New`.
- The HTTP server of the probe, the liveness handler, and the construction of loggers: no state.
- Inside `itestkit`: how a container is configured, waited for and addressed (testcontainers does it),
  `NormalizeIdentifier`, which shapes default names for Docker, `ExecClickHouse`, `RedisSetJSON` and `RedisGetJSON`,
  each one command to a server, and debug output. `Network.Name` of the options is read only for an error text.
- Of the tracer: how a service is named and described (`buildResource`, `detectServiceName`) and sampled.
- The decoding inside the parsers of `fiber`: the framework and the validator do it.
- `gmail` sends with one call; `decimal`, `defaults`, `null`, `password`, `timeutil`, `logutil` and `validator`
  convert single values. Straight-line code without state.
- `proto` is generated, and most of the lines of the repository.

Left without a property, with the reason in `PROJECT.json`: a Kafka ping outliving its client, a `Ping` that
panics, the container of a failed `Run`, and quotes that ClickHouse escapes by a backslash.

## Plan

Done, in this order, the most concurrent first: `RateLimiter` with `AtomicCooldown`, `ReadinessProbe`,
`StackLifecycle`, `RequestPipeline`, `SqlFiles`; then `Tracer`, `ErrorTexts`, `ServiceSetup`, `Paging`, `StackEnv`
and `Upload`.

What would come next:

1. `SqlFiles` and `ServiceSetup` as implementations of one abstract set-up step, "all or an initial part", and
   that step in place of `SetUp` in `StackLifecycle`.
2. `splitSQL` on strings with backslash escapes, against `clickhouse.go:39`.
3. A refinement of `RequestPipeline`: an abstract "answer of a request" that is a success, an error or a
   refusal with one status and one body, with `ErrorTexts` for its text.
4. Pings that panic, and clients that leave, in `ReadinessProbe`.
