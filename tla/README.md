# A TLA+ model of the AI Developer Brand Copilot

The repository is a pnpm monorepo: a NestJS API (`apps/api`) that connects a
developer's GitHub repositories, synchronizes their commits and merged pull
requests in the background, turns that evidence into development events and a
project state with the help of an AI model, and detects and scores content
opportunities; a Next.js web application (`apps/web`) in front of it; and
packages for configuration, contracts and AI output schemas (`packages/*`).
All state is in PostgreSQL. Every API process hosts one polling worker, and the
database is the only means by which processes coordinate.

This directory holds specifications of that system, the instances on which TLC
checks them and proofs that TLAPS checks. `PROJECT.json` maps every definition
to the lines it stands for.

## Inventory

| Component | State | Operations | What is hard |
|---|---|---|---|
| Sync run queue and worker (`github-sync-worker.service.ts`, `github-commit-sync.service.ts`) | `SyncRun` rows, `ConnectedRepository.lastSuccessfulSyncAt`; per process: timer, current tick, `lastScheduleCheckAt` | the tick's statements (cancel, supersede, terminalize, requeue, schedule, claim), execution, heartbeat, success, failure, deferral, shutdown | interleaving of statements of several processes, leases, stale instants, crashes, retries |
| Manual start (`github-manual-sync.service.ts`) | none | check of the last run, enqueue | races with the scheduler and with requeueing |
| Connection (`github-connection.service.ts`) | `GitHubConnection`, `GitHubConnectionAttempt`, `ConnectedRepository` | start, callback, connect a repository, disconnect | one-time attempts, check-then-write, cascades under running work |
| Ingestion (`github-commit-sync.service.ts`) | `Commit`, `CommitFile`, `PullRequest`, links, reachability | upserts per commit, pull requests, reachability | partial attempts taken up again, two statements for one fact |
| GitHub API client (`github-api.service.ts`) | none (attempt counters of one call) | requests with retries, rate limits, paging | retry limits and horizons |
| Intelligence pipeline (`intelligence-pipeline*.service.ts`) | `IntelligenceRun` | follow a successful sync, reprocess, claim, execute, fail | versions during a rolling deploy, skipped sources, leases |
| Evidence grouping (`evidence-grouping.service.ts`) | none | group commits and pull requests | independence of the order of the input |
| Event interpreter (`development-event-interpreter.service.ts`) | `AIExecution`, `DevelopmentEvent` | attempts, repair, budget, reuse, persistence | crashed attempts, the daily budget, events of an earlier attempt |
| Project state (`project-state-projector.service.ts`) | `ProjectState`, `ProjectStateVersion` | project the authoritative events | replays, two versions, concurrent projections |
| Opportunity runs (`opportunity-run*.service.ts`) | `OpportunityRun` | follow an intelligence run, stale checks, claim, execute, fail | stale inputs, unfenced effects, starvation in the batch |
| Opportunity detection (`opportunity-detection.service.ts`) | `AIExecution`, `OpportunityDetectionResult` | attempts, reuse, repair | the budget shared with the interpreter, duplicate results |
| Opportunity scoring (`content-opportunity-scoring.service.ts`) | `ContentOpportunity` | score and persist | one current opportunity per candidate, identities that return |
| Feedback (`opportunity-feedback.service.ts`) | `OpportunityFeedback` | record feedback | idempotency keys, one current feedback, serialization retries |
| Daily summaries (`daily-development-summary.service.ts`, `developer-day.ts`) | `DailyDevelopmentSummary` | generate a version | one current version per day, day bounds at a clock change |
| Read models, AI clients, evaluation tools, auth, observability, configuration, contracts, web, CI | none that changes a shared state | | |

How they interact: a worker's tick first maintains and schedules the sync
queue and claims one run; an attempt ends in one transaction that moves the
repository's boundary. A succeeded sync is what the intelligence pipeline looks
for, and a succeeded intelligence run is what opportunity orchestration looks
for: three queues of the same shape, each polled by the same process, chained
by rows and never by messages. Users act on the same rows through the API:
they start runs, disconnect repositories and give feedback.

The hazards these parts have, each at its line, with the properties that cover
it or the reason why none does, are the `hazards` of `PROJECT.json`.

## Modules

| Module | What it is |
|---|---|
| `LeasedQueue` | the abstract queue: what a durable queue of runs promises, without leases, clocks or workers; what follows from it |
| `KeyedRecords` | the abstract table of answers: what it promises about rows, keys, current rows and callers, without transactions or calls; what follows from it |
| `SyncRuns` | the sync run queue, the workers, manual starts and the connections, as far as the queue sees them; its properties |
| `MCSyncRuns`, `MCConnectedSync` | the instances of `SyncRuns`; one of them with `Connections` |
| `SyncRunsProofs` | theorems about `SyncRuns` and their proofs |
| `IntelligenceRuns`, `MCIntelligenceRuns` | the second queue: one run per succeeded sync and processing version, its attempts and their effects on events and project state; its instances |
| `IntelligenceRunsProofs` | theorems about `IntelligenceRuns` and their proofs |
| `OpportunityRuns`, `MCOpportunityRuns` | the third queue: one run per succeeded intelligence run, selected input and version, its attempts and the opportunities they persist; its instances |
| `OpportunityRunsProofs` | theorems about `OpportunityRuns` and their proofs |
| `Connections` | GitHub connections: state tokens, the callback, connecting a repository to a project, disconnecting |
| `GitHubClient` | one operation of the API client: retries, delays, pages and limits |
| `Ingestion`, `MCIngestion` | what a sync attempt writes before and in its final transaction; an instance on its own |
| `EvidenceGrouping` | the grouping of evidence that grows and shrinks |
| `AIExecutions` | the model calls of both AI stages: attempts, repair, budget, reuse and persistence |
| `ProjectMemory`, `MCProjectMemory` | the projection of events to the project state and its versions; its instance, with the liveness of intelligence runs |
| `Feedback` | idempotent decisions of a user on opportunities |
| `DailySummary` | versions of the summary of a day |
| `DeveloperDay` | the bounds of a day in a time zone whose clocks change |
| `IngestionProofs` | theorems about what a sync reads and stores, `GitHubClient` and `Ingestion`, and their proofs |
| `InterpretationProofs` | theorems about how evidence becomes events, `EvidenceGrouping` and `AIExecutions`, and their proofs |
| `DashboardProofs` | theorems about what a user sees, connects and answers, `DailySummary`, `DeveloperDay`, `Feedback`, `Connections` and `ProjectMemory`, and their proofs |
| `MCComponents` | the instance of the seven modules above that are not queues, but for `ProjectMemory` and `Connections` |

The three queues differ in their keys, in what makes a row stale and in what an
attempt does; each is a module of its own, and each is shown to implement
`LeasedQueue`. Six tables are written by racing calls that look for a row before
they insert one. Each is shown to implement `KeyedRecords`:

| Table | Key | Subject with one current row | Callers answered |
|---|---|---|---|
| feedback (`Feedback`) | the user's idempotency key | the opportunity | calls of `record()` |
| summaries of a day (`DailySummary`) | the facts of the day | the day | requests while they answer |
| development events and detection results (`AIExecutions`) | the input | the input | calls of `interpret` and `detect` |
| versions of the memory (`ProjectMemory`) | the set of events | the project | none: the state is the answer |
| opportunities (`OpportunityRuns`) | the candidate and the input it was detected in | the candidate of a project | none |

What a row says is fixed when it is written; whether it is current is not, and
neither is an event's status. The abstract table says that the first never changes
and the second only ever goes one way. The property each run checks,
`...ImplementRecords`, is the refinement together with what else the module says of
its table: `FeedbackIsConsistent`, `CallersAgree`, of summaries
`CurrentSummaryIsLatest` and `AnsweredFromItsFacts`, of the memory
`VersionsMoveForward` and `CompletedFeaturesRest`. Of opportunities there is nothing
else to say: `OneCurrentPerCandidate` is part of `RecordsAreKeyed`.

How the modules fit together: a queue treats the work of an attempt as one
outcome, or as few steps, and another module opens it up. `Ingestion` is inside
an attempt of `SyncRuns`, with a queue of one row as far as an attempt depends
on it; `GitHubClient` is inside its listings. `EvidenceGrouping`,
`AIExecutions` and `ProjectMemory` are inside an attempt of `IntelligenceRuns`:
the groups, the interpretation of a group, the projection. `AIExecutions` is
also inside the detection of `OpportunityRuns`.

Some modules have operators whose comment begins with "Slip": the definition a
plausible bug would have instead of the one that follows. The specifications do
not use them; the `mutants` of `PROJECT.json` replace a definition by its slip
to show that a property would notice.

### SyncRuns

One action is one database statement or transaction. A Node process is
suspended at each `await`, so that the statements of one tick interleave with
those of other processes and of requests; between two statements nothing in a
process can change what another one sees. A worker's program counter names the
statement it executes next:

| pc | Statement | Action |
|---|---|---|
| idle | `runOnce` and the first instant of the tick | `BeginTick` |
| cancel, supersede, exhaust, requeue | the four maintenance statements | `CancelUnavailableRuns`, `CancelSupersededRetryableRuns`, `TerminalizeExhaustedRuns`, `RequeueEligibleRuns` |
| schedule, enqueue | the scheduling query and the loop over its result | `ListDueRepositories`, `EnqueueScheduled`, then `FindActiveRun`, `InsertRun` |
| enqueue | the claim | `ClaimNext`, or `EndSyncTick` |
| load, ingest | `executeClaimed`, `executePrepared` | `LoadClaimed`, `Complete`, `FailIngestion` |
| failing, defer | the catch block's update, then `deferRetry` | `RecordFailure`, `DeferRetry` |

`createQueuedRun` is shared by the scheduler and the manual start, and each
caller is in it on its own: `call[c]` holds the boundary it loaded and the next
of its two statements. `ExtendLease` is the heartbeat timer, `StatementFails` a
rejected or lost statement at each place where one is awaited, `Crash` the death
of a process, `Shutdown` and `Restart` an orderly one.

What is abstracted:

- **Tokens.** A claim draws a UUID and adds one to `workerAttemptCount`, which
  no statement resets; the model takes the attempt number for the token.
  Two claims of one run never share it, which is all a token is compared for.
- **Rows.** Run ids are handed out in the order of `createdAt` (the inserts of a
  repository are ordered by its unique index on active runs). A row deleted by
  the cascade becomes `deleted` and loses its repository, so that its id is
  never used again; a repository that is connected again after a disconnection
  is a new row, hence a new member of `Repos`.
- **Columns.** `failureCode`, `attemptCount` (HTTP requests) and the counters
  of an attempt are left out: no guard of the queue reads them.
- **Ingestion.** What GitHub returned is success, a permanent failure, or a
  retryable one with or without an instant to wait for. The evidence an attempt
  writes before its final transaction is in `Ingestion`.
- **Clock.** One clock for all processes and the database; `Tick` may happen
  between any two statements, so that every instant a process read may be
  arbitrarily old when it is used.
- **Schedule check.** `lastScheduleCheckAt` only makes a tick skip the
  scheduling pass; in the model any tick may skip it.
- **Manual start.** The two reads of `start` and `createQueuedRun`'s load of the
  repository are one step. Between them other processes may only add runs or
  change statuses, which the later statements (`FindActiveRun` and the unique
  index in `InsertRun`) read again, or move the boundary, which loading it later
  would only make fresher; an older boundary is covered because the two statements that
  follow are separate steps.
- **Availability.** `BecomeUnavailable` is external: the schema has the statuses
  that end synchronization, nothing under `src/` writes them.
- **Lost answers.** A claim that commits and whose answer is lost is the crash
  after the claim: no process holds the token. A final transaction whose answer
  is lost is followed by a fenced failure update that matches no row, which is
  the same as no update.

### IntelligenceRuns

| pc | Statement | Action |
|---|---|---|
| idle | `runOnce` and the first instant of the tick | `BeginTick` |
| exhaust, stale, requeue | the maintenance statements | `TerminalizeExhausted`, `TerminalizeStaleActiveRuns`, `RequeueEligible` |
| find, insert | `enqueueEligibleCompletedSync`: its query, then `createRun` | `FindSource`, `InsertRun` |
| claim | the claim | `ClaimNext`, or `EndIntelligenceTick` |
| load | `executeClaimed`: the look-up, the version, the grouping | `LoadClaimed` |
| groups | the loop over the evidence groups | `InterpretGroup`, `FailGroup`, `EndGroups` |
| counters, project, complete | `updateClaimed`, the projection, the final update | `UpdateClaimed`, `Project`, `Complete` |
| failing | `failClaimed` | `FailClaimed` |

What is abstracted:

- **Rows** are indexed by source and version, which the unique index makes their
  key; a run a disconnection deletes goes to `deleted` with its source.
- **Versions** are numbers in the order of their deployment. The code has only
  hashes and cannot know that order, and no guard of the model uses it.
- **Groups.** The interpretation of a group is one step, an outcome chosen: a
  durable decision (an event, or insufficient evidence), a permanent failure, or
  a retryable one with or without an instant to wait for. Groups of different
  sources are different. The executions, budget and repair behind a decision
  are in `AIExecutions`.
- **Projection** is one step that reads all decisions whose evidence is still
  there. Its versions and conflicts are in `ProjectMemory`.
- **Instants.** The requeue statement, the claim and the exhausted statement take
  the tick's instant; the stale statement, the heartbeat and `failClaimed` read
  the clock when they are executed.
- **Reprocessing** is called on any process, hence for any version. Its source
  may be any live sync of the project: the one it names, or the latest, which
  another sync may have replaced by the time of the insert.

### OpportunityRuns

| pc | Statement | Action |
|---|---|---|
| idle | `runOnce` and the first instant of the tick | `BeginTick` |
| exhaust, stale | two maintenance statements | `TerminalizeExhausted`, `TerminalizeStaleActiveRuns` |
| inputs, compare | `terminalizeStaleInputs`: the query, then a selection and an update per row | `ListActiveRuns`, `CompareInput`, `CompareFails`, `EndCompare` |
| requeue | the requeue statement | `RequeueEligible` |
| list, pick, insert | `enqueueEligibleIntelligenceCompletion`: the query, then a selection and a transaction per source | `ListSources`, `PickSource`, `InsertRun`, `EndSources` |
| claim | the claim | `ClaimNext`, or `EndOpportunityTick` |
| load, select | `executeClaimed` up to the detection | `LoadClaimed`, `SelectExpected` |
| detect, model | `detect` | `DetectCandidates`, `ModelAnswers`, `ModelFails` |
| check, reselect, score | the checks after it, then `scoreAndPersist`: its selection and its transaction | `CheckDetection`, `Reselect`, `ScoreAndPersist` |
| complete, failing | the final update, `failClaimed` | `Complete`, `FailClaimed` |

What is abstracted:

- **Input.** The fingerprint stands for everything the selection reads. The model
  keeps what makes two inputs differ: the source (its evaluation boundary, which
  fixes the day and the window of history), a revision number for the project's
  events and state, and the visible history, that is, which opportunities of
  earlier days there are and which of them are current. A source never sees the
  opportunities its own runs create, but it sees those they expire.
- **Facts** only move forward: a set of events that returns to an earlier one is
  not modelled here. With that, an input that was replaced never comes back,
  which is why a selection and the update or check next to it can be one step.
  Likewise a lease once lost is never regained, so that the later of two
  assertions around a selection stands for both.
- **Detection** is reuse of a persisted result, or an answer of the model, which
  is any set of candidates, or a failure. Executions, repair and the budget
  are in `AIExecutions`.
- **Candidates** are their keys. Scores, formats and topics are left out: no
  guard reads them except to compare a row with itself.
- **Versions** of this queue share the detector and the scorer, so that their
  results and opportunities collide as much as they can; the version of the
  intelligence pipeline is one.
- **`enqueueReprocessing`** is one step. Nothing under `src/` but tests calls it.

### AIExecutions

One process is in at most one call of `interpret` or `detect`. A serializable
transaction is two steps, a snapshot and a commit that is refused when something
it would have counted was committed in between.

| Statements | Actions |
|---|---|
| `interpret`: the look-ups of an event and of an earlier decision | `FindEvent`, `FindDecision` |
| `detect`: the look-up of a result | `FindReusableExecution` |
| the budget transaction of both stages | `StartAttempt`, `CommitAttempt`, `AttemptFails` |
| the model call | `ModelAnswers`, `ModelAnswersInvalid` (and the repair), `ModelFails` |
| `completeExecution` for insufficient evidence | `CloseInsufficient` |
| `persistEvent` | `PersistRead`, `PersistWrite`, `PersistFails`, `ReloadEvent` |
| `persistSuccessfulResult` | `PersistResult`, `PersistFails`, `FailPersistence`, `ReloadCanonical` |

What is abstracted: an input stands for its fingerprint, for one processing
version; selecting it and loading its evidence is part of the first look-up, and
evidence that is gone means that the call does not begin. The evidence of a
group is the set of its commits and pull requests.

What the model shows of the code, besides its properties:

- `persistEvent` runs at READ COMMITTED, so that two overlapping calls may leave
  an event and one that contains it both active; `SupersededIsContained` says
  what does hold;
- a call that finds the event of its input inside `persistEvent` leaves its
  execution running (`OnlyFaultsLeaveRunning` names the case);
- the day of the budget is the project's: a user with projects in two time zones
  can make more than the limit of attempts within one zone's day (`BudgetIsKept`).

### ProjectMemory

`project()` is one serializable transaction: `ReadUnchanged`, `ReadInconsistent`
or `ReadChanged` for what it reads, and `WriteState`, `WriteConflicts` or
`ProjectionFails` for how it ends. `InterpretEvent` and `ChangeReachability` are
what the interpreter and a sync do to the events meanwhile. The contents of a
state are active and completed features and recent milestones; a fingerprint is
the set of events. One type stands for all milestone types.

An event set that returns to an earlier version's cannot be projected again: the
version's fingerprint is found, the state's is another, and `project()` throws
`PROJECT_STATE_INCONSISTENT`, now and on every retry, although
`docs/product/PHASE_2_TRACKER.md:222` has every changed event set create the
next version. `StateFollowsEvents` leaves this case out by name.

### Connections, GitHubClient, Ingestion

`Connections` has `start` (`StartConnection`, `IssueToken`), `complete`
(`FindToken`, `ConsumeToken`, `UpsertConnection`), `connectRepository`
(`BeginConnecting`, `CheckProject`, `CheckRepository`, then `CreateRepository`
or `UpdateRepository` for its upsert) and `disconnectConnection`, statement by
statement; `RequestFails` ends a request anywhere. There is one installation,
which every user may use. The look-up and the delete of a disconnection are one
step. `SyncNames` is the part of a successful sync that corrects names: the
upsert writes only names, so that a request that raced another one of the same
project may leave its repository's names on the other's row until then
(`NamesAreItsOwn`). Two starts that overlap may leave two live tokens, each of
which can be consumed once.

`GitHubClient` is one operation after another; an action is one request with its
answer. Time is what is left of a delay. One page size and one limit stand for
those of all listings. A pull request that is updated while the pages are read
is refused as repeated, and the sync ends for good; a commit that a rewritten
branch drops can hide another one (`ListingIsComplete` leaves that case out by
name).

`Ingestion` follows `executePrepared`: `ListCommits`, `FindCommits`, one
`StoreCommit` per new commit, `MarkOrphans` and `ClearOrphans` for the two
statements of `updateReachability`, `ListPulls`, `StorePull`, then `FinishRun` or
`FinishRefused`. The queue is one row, which may be claimed again at any time:
when a lease expires is in `SyncRuns`, as is the check of the repository in the
final transaction. The counters of pull requests follow those of commits and are
left out. An attempt that was overtaken keeps writing, since only its last write
is fenced: it can mark a commit orphaned that was pushed after it listed the
branch, and put an older revision of a pull request over a newer one. The next
success makes the commits good (`SuccessReflectsBranch`).

### EvidenceGrouping, DeveloperDay

`EvidenceGrouping` is `groupEvidence` round by round: pull requests take their
commits (`GroupPullRequest`), the standalone ones are walked breadth first
(`VisitRoot`, `VisitNext`, `EndComponent`). A walk may begin anywhere, the code's
order being one of the model's. Its properties compare the result with the
definition of connected components, and one grouping with the next.

`DeveloperDay` is the arithmetic of `developerDayWindow`: local midnight found by
three corrections of a guess, in a zone whose offset may change once by a shift
either way. Where a midnight is skipped or repeated, an instant may lie up to a
shift outside the window the code gives it; `NowIsInItsDay` leaves these days
out.

### Feedback, DailySummary

`Feedback` is `record()`: up to `MaxTransactions` serializable transactions, each
with a snapshot, the locks of the project and the opportunity, and then the
replay of a key, a refusal, or the write (`WriteDecision`); after a unique
violation the winner is looked for (`FindPrior`). `ExpireOpportunity` is what
scoring does under the same lock. A serialization failure of the raw lock
statement may come under another error code than the one that is retried, so
that the call may also end there.

`DailySummary` is `getToday()`: the facts are read outside a transaction, the
summary of these facts is found or written in one, and after an error it is
looked for again. A slow reader may make a summary of older facts the current
one; versions and the current row stay consistent.

## What the runs check

Times are small numbers. What matters is their order: a lease can expire while
its worker is still executing, a backoff can be shorter or longer than a lease
and than what GitHub asks for, and the cadence can pass between two ticks.

| Run | Instance | Properties | States |
|---|---|---|---|
| `sync_lease` | 2 workers, 1 run, clock to 3, 1 fault, fairness | `TypeOK`, `RowConstraints`, `OutcomeIsFinal`, `LateWorkerKeepsStatus`, `ImplementsLeasedQueue`, `RunsSettle`, `UnavailableWorkEnds` | 0.9 million |
| `sync_two_runs` | 2 workers, 1 user, 2 runs, clock to 2; and connections, see below | `ActiveIsNewest`, `BoundaryOfNewestSuccess`, `NoHoleBeforeBoundary`, `RetryOnlyPostponed`, `TerminalFailureBlocksSchedule`, `ConnectionsAreExclusive` | 2.0 million |
| `sync_backoff` | 1 worker, 1 run | `RetryAfterBackoff` (violated) | |
| `components` | the seven modules of `MCComponents`, each on its own; see below | `ComponentsTypeOK`, `BudgetIsKept`, `ExecutionsAreSound`, `ExecutionsImplementRecords`, `FeedbackImplementsRecords`, `SummariesImplementRecords`, `ListingsAreSound`, `EvidenceFollowsBranch`, `GroupsAreSound`, `DaysAreWhole` | 1.6 million |
| `ingestion_counters` | 2 attempts, 3 commits, 3 pushes, 1 failure | `InsertedWithinDiscovered` (violated) | |
| `intelligence_lease` | 2 workers of one version, 1 source of 2 groups, clock to 3, 1 fault | `TypeOK`, `SucceededIsProjected`, `OutcomeIsFinal`, `LateWorkerWritesNothing`, `ImplementsLeasedQueue` | 2.5 million |
| `intelligence_starvation` | 1 worker, 2 projects, 2 syncs, 1 fault, fairness; and a project memory of 4 events, 2 processes, 4 changes, 1 failure | `LatestSyncIsProcessed`, `MemoryImplementsRecords`, `StateFollowsEvents` | 0.8 million |
| `intelligence_liveness` | 2 workers of 2 versions, 1 source, 1 fault, fairness | `RunsSettle` | 0.9 million |
| `opportunity_lease` | 2 workers of one version, 1 run, clock to 3, 1 fault | `TypeOK`, `LateWorkerWritesNothing`, `ImplementsLeasedQueue` | 2.2 million |
| `opportunity_persistence` | 2 workers of 2 versions, 2 sources, 2 runs, 2 candidates, clock to 1 | `SucceededIsPersisted`, `OpportunitiesImplementRecords` | 3.0 million |
| `opportunity_convergence` | 1 worker, 2 sources, 2 days, 2 revisions, up to 6 runs, 1 fault, fairness | `RerunsAreBounded`, `RunsSettle`, `LatestInputIsProcessed` | 1.6 million |
| `opportunity_crash` | 1 worker, 2 sources on 2 days, 1 fault | `PersistedRunsConverge` (violated) | |

Why the bounds are enough: two workers are what it takes for a late worker and
its successor, and two runs of a repository for every race between an old and a
new window; each lease can expire once and each run be claimed twice
(`MaxAttempts` 2), which reaches the exhausted attempt. One fault at any place
covers each crash point. `MaxRuns` limits the calls, not the statements: a
caller enters `createQueuedRun` only while a row is left for it, so that no
insert is refused by the bound.

The instances of the later queues follow the same rule. Two versions need two
workers and one source; what runs persist needs two sources, on two days where
one is to see the other's opportunities. The two sources of
`opportunity_convergence` never cause as many runs as `MaxRuns` allows, so that
the bound is not why they stop.

**The components.** The modules of `MCComponents` share no state with each other,
so that a behaviour of the run is about one of them, its `focus`, and the others
stay where they began; the number of states is the sum of theirs. `ProjectMemory`
is checked in the same way beside the intelligence runs, and `Connections` beside
the sync runs (`MCConnectedSync`).

| Module | Bounds, and what they reach |
|---|---|
| `AIExecutions` | two calls, a budget of 2, two days; two inputs at a time, or one input and a fault. The inputs are a group and the one it grows into (containment), and the grown group with a detection of another project in another time zone of the same user (the shared budget, two zones). The next day comes to the first pair once one of them has an event |
| `Feedback` | two calls, two keys, three requests: the same opportunity under two keys, the same key for two opportunities; two transactions each, so that the last is refused; one lost call |
| `DailySummary` | two requests, three kinds of facts that change three times: facts that return to an earlier version's among them |
| `GitHubClient` | listings of up to three items, pages of one, a limit of two: pages between which an item comes, goes or moves, and one item too many; two attempts; delays in the past, short, and beyond the longest one |
| `Ingestion` | two attempts, three commits in two windows that overlap, two changes of the branch or the pull request, one failure |
| `Connections` | two requests, two projects of one of two users, two repositories, two tokens, two connections |
| `EvidenceGrouping` | two histories of five commits, at most four in the evidence, six changes of it: a chain with a merge and a late commit, and a line with two pull requests that share a commit |
| `DeveloperDay` | four offsets, a shift either way or none, at any time of two days |

Workers of one version are interchangeable and symmetric in the lease runs, and
so are the two requests of the components. Deadlock is checked in the runs of
the queues: a worker can always take a step. It is not checked in the runs
`components` and `ingestion_counters`: there the environment of a component is
bounded, a user's tokens or the branch's changes, and when it is used up a
component may have nothing to do.

**Fairness.** `FairSpec` assumes that the clock advances and that each worker
keeps executing its statements. `schedulePoll` arms its timer in a `finally`,
and every request of an attempt has a timeout and a bounded number of retries,
so that no statement waits for ever. Nothing is assumed of heartbeats, users,
connections or faults. The clock of the liveness run is bounded; with
`LastTickIsForever` its last instant stands for all later time, at which every
deadline has passed, so that the bound does not keep a lease alive. The run has
no provider delays, which after that instant would have nothing to wait for.

The other two queues have the same `FairSpec`: their workers are called at the end
of every tick of the sync worker (`executeTick`, whose `schedulePoll` continues in
any case), and every model call has a timeout. The liveness properties say that
runs settle, never that they succeed: the model may always fail, and so may a
selection, which ends a run for good.

The fairness of `ProjectMemory` is that a process which projects does so again:
the pipeline projects at the end of every run, and a projection that conflicts or
fails is an error the run is retried for. Changes of events and failures are
bounded and are not assumed. The components have safety properties only: their
calls are one-time requests, which may fail at any statement.

**Disagreements.** Three statements of the documentation or the schema do not hold of the code;
each is a finding in `PROJECT.json` with the run that shows it:

- a retry of a sync *can* start before its backoff: the failure and its backoff
  are two statements, and the requeue statement falls back to the instant of
  failure when it finds no retry time in between (`sync_backoff`);
- a crash between scoring and the final update does *not* always converge: a run
  that expired a part of its own input is ended as stale by the next tick
  (`opportunity_crash`). The opportunities stay;
- the counters of a sync run do *not* always obey the table's CHECK that no more
  commits are inserted than discovered: a retried attempt keeps the number its
  predecessor inserted and takes the maximum of the numbers discovered, so that a
  branch rewritten in between yields more. The final write is then refused, and
  so is the failure's: the run stays running until its lease expires, and again
  until its attempts are used up (`ingestion_counters`).

What the code does elsewhere differs from the words of the documentation without
a run of its own; the properties in brackets say what holds instead:

- `deferRetry` names the run and its status but not the token, so that an expired
  worker writes over what a newer claim recorded; it never changes the status
  (`LateWorkerKeepsStatus`). The retry of a run that was claimed once is never
  brought forward (`RetryOnlyPostponed`); that of a run claimed again may be, by
  the late write itself, or by the newer attempt's own deferral, whose `GREATEST`
  is of a time computed before the late write postponed the row;
- "A terminal failure blocks automatic rescheduling until user intervention
  creates a new manual run" (`src/README.md:237`), but the query looks at runs of
  any age, so that a repository stays off the schedule after a newer manual run
  succeeded. `TerminalFailureBlocksSchedule` is what document and code agree on:
  while the run that failed is the newest, no tick queues the next one, except a
  tick that began before the run which failed was created. Of a repository that
  has a newer run it says nothing, neither that it is scheduled nor that it is not;
- a process that still runs an old processing version ends the intelligence runs
  of the new one, whose sources are then not queued again (`RunsSettle`);
- scoring persists opportunities without the lease; no candidate gets two current
  ones and no success is of another input (`OpportunitiesImplementRecords`,
  `SucceededIsPersisted`);
- an error of a selection counts as a changed input and ends a run, whose key
  stays taken (`CompareFails`);
- discovery reads the first 25 projects without an active run, those with nothing
  new included; projects behind them wait (`ListSources`).

A side result: the boundary of a repository can move backwards, when a run
created from a stale boundary succeeds after a newer one. This is harmless, since
runs succeed in creation order and almost no hole is left
(`BoundaryOfNewestSuccess`, `NoHoleBeforeBoundary`; windows are taken as half-open
unit intervals). The exception of `NoHoleBeforeBoundary`: a call that loaded no
boundary inserts a window that reaches back by the look-back only; if a run that
asked for an older window succeeded before, and that window ended more than the
look-back ago, what lies between the two is in no window.

## What is proved

`SyncRunsProofs` proves, for every value of the constants that the named
assumptions of `SyncRuns` admit (positive limits, windows ordered as in the
code, any finite or infinite sets of workers, users and repositories, where a
process is not a user):

| Theorem | Statement |
|---|---|
| `TypeCorrect` | `Spec => []TypeOK`: among others, no claim exceeds `MaxAttempts` |
| `ActiveRunIsNewest` | `Spec => []ActiveIsNewest` |
| `OneActiveRun` | no repository has two active runs |
| `OutcomesAreFinal` | `Spec => OutcomeIsFinal` |
| `SyncRunsImplementLeasedQueue` | `Spec => ImplementsLeasedQueue` |
| `RunsRunOut` | `Spec => Queue!EveryMoveCounts`: see "The abstract specifications" |
| `RowsSatisfyConstraints` | `Spec => []RowConstraints` |
| `LateWorkersKeepStatus` | `Spec => LateWorkerKeepsStatus` |
| `FirstRetryOnlyPostponed` | `Spec => RetryOnlyPostponed` |
| `FailuresBlockSchedule` | `Spec => TerminalFailureBlocksSchedule` |
| `NewestSuccessIsBoundary` | `Spec => []BoundaryOfNewestSuccess` |
| `NoHoleIsLeft` | `Spec => []NoHoleBeforeBoundary` |

**The inductive invariant.** `ActiveIsNewest` is not inductive: requeueing a
run needs to know that rows are created in the order of their ids, and that a
status other than `none` comes with a repository. `IInv` adds both
(`RowsInOrder`, `RowsHaveRepository`) to `TypeOK` and `ActiveIsNewest`.

**The argument.** The actions are first sorted by what they do to the rows
(`StepKinds`): one inserts a row, one deletes the rows of a repository, and all
others move each existing row by one of a few kinds of step (`RowStep`). The invariant, the finality of outcomes and
the refinement are then each proved once per kind and not once per action.

**Constraints and late workers.** Whether a row passes the CHECK constraints
depends on the instants with which late statements write, so `SoundRow` and
`SoundWorker` relate every stored instant to the clock and to each other: no
attempt started after its lease ended, no statement works with an instant from
the future. On top of them, `ClaimsSound` says what a claim, current or
overtaken, still implies about its run: no later token than the count of the
claims, and no queued or deferred row under the claim's own attempt but in its
defer step; `TokensDiffer`, that no two workers hold the same one.

**The boundary.** `HistoryInv` says where each boundary and each window comes
from: what a call loaded was the boundary once (`CallsLoadedSuccess`), hence the
end of a success; a window starts an overlap before the end of one or looks back
(`WindowsFollowSuccess`); and coverage is stated up to the end of every success
and not only of the newest (`HistoryExplained`), because the window of a stale
enqueue starts at an older one. Where the three properties about retries,
schedules and holes were first stated, for the bounds of the run only, the proof
failed and TLC found the counterexamples with other bounds: three attempts, three
workers, a clock beyond the look-back. They now say what holds for all.

`IntelligenceRunsProofs` proves, for every value of the constants that the
assumptions of `IntelligenceRuns` admit:

| Theorem | Statement |
|---|---|
| `TypeCorrect` | `Spec => []TypeOK` |
| `SucceededRunsAreProjected` | `Spec => []SucceededIsProjected` |
| `OutcomesAreFinal` | `Spec => OutcomeIsFinal` |
| `LateWorkersWriteNothing` | `Spec => LateWorkerWritesNothing` |
| `IntelligenceRunsImplementLeasedQueue` | `Spec => ImplementsLeasedQueue` |
| `RunsRunOut` | `Spec => Queue!EveryMoveCounts` |

**The inductive invariant.** That a succeeded run is projected depends on how
far each attempt has come, whether it still owns its run or not. `IInv` adds to
`TypeOK` and `SucceededIsProjected`:

- `ClaimsNameRuns`: a worker holds a run exactly while it executes an attempt;
  without it not even the types are inductive, since an interpreted group is
  recorded for the run held;
- `RowsInv`: the token of a running row is the number of its claims, which is
  what keeps late workers out; a row that is neither blank nor deleted has a
  living source;
- `SyncsHaveProject`: a sync that succeeded has a project;
- `ProgressInv`: what is decided and projected for the run held by an attempt
  that is at `groups`, `counters`, `project` or `complete`.

**The argument.** Every step moves every row along one of seven ways
(`RowStep`, `NextSteps`), syncs and decisions are only added (`HistoryGrows`),
and what was projected stays so while its source lives, since a projection
reads all decisions again (`ProjectedStays`). A worker that takes no step thus
keeps its part of the invariant (`SameAttemptInv`), and each statement of the
worker that does is one lemma. The theorems about rows follow from `RowStep`.

`OpportunityRunsProofs` proves, for every value of the constants that the
assumptions of `OpportunityRuns` admit (any set of projects, workers and
versions, a finite set of candidates):

| Theorem | Statement |
|---|---|
| `TypeCorrect` | `Spec => []TypeOK` |
| `CandidatesAreExclusive` | `Spec => []OneCurrentPerCandidate` |
| `SucceededRunsArePersisted` | `Spec => []SucceededIsPersisted` |
| `OutcomesAreFinal` | `Spec => OutcomeIsFinal` |
| `LateWorkersWriteNothing` | `Spec => LateWorkerWritesNothing` |
| `OpportunityRunsImplementLeasedQueue` | `Spec => ImplementsLeasedQueue` |
| `RunsRunOut` | `Spec => Queue!EveryMoveCounts` |
| `OpportunitiesAreRecords` | `Spec => OpportunitiesImplementRecords` |
| `OpportunitiesStayFinal` | `Spec => OpportunityRecords!AnswersAreFinal` |
| `RerunsStayBounded` | `Spec => []RerunsAreBounded` |

**The inductive invariant.** Opportunities are persisted by attempts that may have
lost their lease, for rows that a disconnection may have deleted since. `IInv` adds
to the properties what an attempt has done by each of its statements
(`WorkersInv`), that run keys and identities of opportunities are unique
(`KeysAreUnique`, `OppsAreIdentified`), and that every input for which something
is or will be persisted is one that some row was queued for
(`AdoptedFromRows`).

**Reruns.** What a run persists may change the input of its source. The inputs
that rows of a source have, or are about to, form a chain (`HeldInv`): the later
one was selected at a later revision, or has more opportunities expired, since
the opportunities a source can see are settled when it succeeds and none becomes
current again. A chain is as long as what can change, and a key has one row.

`InterpretationProofs` proves, for every value of the constants that the assumptions
of `AIExecutions` admit (finitely many workers, any inputs, at least one, and any
projects, users, offsets and limits):

| Theorem | Statement |
|---|---|
| `CallsTypeCorrect` | `Spec => []TypeOK` |
| `BudgetHolds` | `Spec => []BudgetIsKept` |
| `AnswersStay` | `Spec => CallersAgree` |
| `AuditIsSound` | `Spec => []ExecutionsAreSound` |
| `AnswersAreRecords` | `Spec => ExecutionsImplementRecords` |
| `EventsStayFinal` | `Spec => EventRecords!AnswersAreFinal` |

**The argument.** Every step but that of the clock is one call's, and of one of a
few kinds (`Step`, `Kind`, `StepKinds`): it begins, goes on, ends or crashes,
commits a new attempt, closes an attempt, or persists. `CallInv` says what a call
holds at each label, and that no two hold the same attempt. For the budget,
`Snapshot`: a call about to commit has counted less than the limit among the
attempts its snapshot had, so that a commit which no later attempt refuses stays
within it. For the answers, `AnswersKept`: an input has at most one event, or one
canonical result, and what was returned for it is that one. For the audit, `SoundnessInv` has the properties in
the form that a step keeps: that decisions stay within the number of processes
follows from counting the decided attempts together with the calls that may still
decide (`DecisionsBounded`), the same for repairs and invalid first outputs
(`RepairsBounded`), and an attempt is left running only if a fault is counted
(`Stray`).

The other components, for every value of the constants that the assumption of the
module admits:

| Theorem | Statement | Assumed of the constants |
|---|---|---|
| `IngestionProofs!ListingsStaySound` | `ClientSpec => []ListingsAreSound` | the listing has no item twice, limits and pages are positive |
| `IngestionProofs!EvidenceIsSound` | `IngestionSpec => []EvidenceFollowsBranch` | finitely many commits in an order, instants from zero on, at least one window |
| `InterpretationProofs!GroupsStaySound` | `GroupingSpec => GroupsAreSound` | a history has finitely many commits in an order, parents and merges of it among them |
| `DashboardProofs!MemoryStaysConsistent` | `MemorySpec => [](MemoryTypeOK /\ VersionsMoveForward /\ CompletedFeaturesRest)` | finitely many events in the order of their dates, a positive limit of milestones |
| `DashboardProofs!SummariesFollowFacts` | `SummarySpec => [](CurrentSummaryIsLatest /\ AnsweredFromItsFacts)` | there are facts |
| `DashboardProofs!DaysStayWhole` | `DaySpec => []DaysAreWhole` | offsets within a day, a change of at most one unit |
| `DashboardProofs!DecisionsAreConsistent` | `FeedbackSpec => FeedbackIsConsistent` | clicks are decisions, and there are some, every opportunity has a project, at least one transaction is tried |
| `DashboardProofs!ConnectionsStayExclusive` | `ConnectionsSpec => ConnectionsAreExclusive` | every project has an owner |
| `DashboardProofs!DecisionsAreRecords`, `DecisionsStayFinal` | `FeedbackSpec => FeedbackImplementsRecords`, `FeedbackSpec => DecisionRecords!AnswersAreFinal` | as for `DecisionsAreConsistent` |
| `DashboardProofs!SummariesAreRecords`, `SummariesStayFinal` | `SummarySpec => SummariesImplementRecords`, `SummarySpec => SummaryRecords!AnswersAreFinal` | as for `SummariesFollowFacts` |
| `DashboardProofs!VersionsAreRecords` | `MemorySpec => MemoryImplementsRecords` | as for `MemoryStaysConsistent` |

The types of these modules but `ProjectMemory`, whose invariant has them, are
theorems of their own: `ClientTypeCorrect`, `IngestionTypeCorrect`,
`GroupingTypeCorrect`, `SummaryTypeCorrect`, `DayTypeCorrect`,
`FeedbackTypeCorrect` and `ConnectionsTypeCorrect`. Most of them say more than that
values have their types: a feedback call makes no more transactions than it may, the
row of a repository is of the connection its owner has now (`OwnersInv`).

The assumptions are facts about the data. `compareCommits` orders commits totally,
so commits are numbers; GitHub does not show an item twice at one instant, though it
may in two pages; a queue has a window for each run; a change of the clocks is one
unit, since the unit is chosen to be that change.

In none of the modules is the property inductive. What it lacks is in each case what
a call may still rely on between its statements:

- `ClientInv`: what an operation has collected, against a listing that changes
  while it is read (`Collects`): the pages it has read were full; of commits and
  repositories it has whatever was there at the beginning and is now within those
  pages, since items only come in front; of pull requests, whose page is refused
  when it repeats one, it has as many different ones of the listing as the pages
  held. When a page is short, either means that nothing is missing (`Complete`).
  The listing stays without repeats through its changes (`ItemInFront`,
  `WithoutItem`), and an operation that has not ended waits at least as long as
  it was told to.
- `IngestionInv`: what each attempt knows at each of its labels, of the rows
  (`SoundAttempt`) and of the branch (`SoundReach`), the second only as long as
  no other attempt came between; the commits stored were on the branch at some time; a
  run's insertions are counted from rows that have its number; and two attempts
  at work overlap.
- `GroupingInv`: the groups so far are those of the pull requests and chains
  (`GroupsOf`), and the walk has visited whole chains and the part of one it is
  at (`WalksChains`). A chain is a set no part of which is without a neighbour
  in the rest (`Joined`), and which has no neighbour outside. Stated with cuts
  and not with paths, connectedness needs no induction over the graph: a set that
  is `Joined` stays on one side of any set without neighbours outside
  (`JoinedStays`), and a commit added with a neighbour in a joined set leaves it
  joined. Both halves of the property, that groups do not fall apart and that
  they do not touch, follow, and so does that they only grow: a chain is joined
  among more commits too, hence inside one chain of them.
- `MemoryInv`: that a version is of later events than all before does not follow
  from the compare-and-swap alone, which only shows that the state is the one the
  projection read. There is a function `evidence` from the changes of the events
  to what was authoritative after each; versions and projections are of a moment
  of it (`FollowsEvidence`), and a projection saw whatever the versions up to the
  state it read had seen (`SnapshotsAreRecent`). The new version is thus no
  earlier than the last, and its events are others, so it is later. The bound on
  milestones is a fact about finite sets (`MilestonesAreBounded`).
- `SummaryInv`: adds `Knows`: the rows of a snapshot are rows still and none of
  them is of the facts of a request that writes, and the row of an answer is of
  the facts the request read.
- `DayInv`: each window is that of the instant it was asked at. The rest is
  arithmetic: three corrections reach a midnight of the day when it has one,
  whichever side of the change the first guess is on, and midnights of later days
  are later.
- `FeedbackInv`: adds what a call knows at each label (`SoundCall`): no snapshot
  is of more rows than there are, one that is written from is fresh, and a row
  that is answered says what was asked; and that keys are unique and the rows
  answered for a key have it (`KeysAreUnique`, `AnswersHaveKey`).
- `ConnectionsInv`: adds, for tokens, that a live one was never redeemed
  (`TokensInv`); for rows, that they have a connection (`RowsBelong`); and for
  requests what their checks are worth once other requests ran
  (`SoundCaller`, `OverlapsAreNoted`): the row is as the check saw it unless
  another request connects the same project, and then both know.

Steps that only move a call on, or end it, share one lemma in each module; a
step that writes a row has its own, first what it does to the rows and then, part
by part, what it does to the invariant.

**The abstract specifications.** What follows from an abstract specification is
proved once, in its module, and holds of each implementation by its refinement:

| Theorem | Statement |
|---|---|
| `LeasedQueue!MovesRunOut` | `Spec => EveryMoveCounts`: every move of a run uses up one of its `3 * MaxStarts + 3` |
| `KeyedRecords!RecordsStayKeyed` | `RecordsSpec => []RecordsAreKeyed`: keys are unique, and so are the current rows of a subject; who asked for a key has its row |
| `KeyedRecords!AnswersStayFinal` | `RecordsSpec => AnswersAreFinal`: an answer never differs from an earlier one for its key, and a row that gave way stays so |

`MovesLeft` of `LeasedQueue` counts the moves: a run returns to the queue only from
a deferral or by another start, and starts are limited. The `RunsRunOut` of the
three queues is this theorem under the refinement mapping of the queue. It is the
part of their liveness which needs no fairness: recoveries, retries and stale
workers cannot keep a run going for ever. That a run which has moves left makes one
is `RunsSettle`, for TLC.

`KeyedRecords` is stated so that each step can be compared with a statement of the
code: a write only says that the keys it adds are those of no other row, and that
the rows it makes current leave no other current of their subject. That this keeps all keys and
subjects unique is the theorem. The refinements need the components' invariants:
that a snapshot is fresh when it is written from (`SoundCall`), that the events of a
projection are of no version (`MemoryInv`), that identities are unique
(`OppsAreIdentified`), that what was answered is what there is (`AnswersKept`). The
theorems named `...StayFinal` carry the second abstract theorem over. For events and
opportunities it says more than their own properties, none of which forbids a row
that was superseded or expired to return.

Only model-checked: the liveness properties `RunsSettle`, `UnavailableWorkEnds`,
`LatestSyncIsProcessed`, `LatestInputIsProcessed` and `StateFollowsEvents`, since
fairness and `ENABLED` are out of the prover's reach. `ComponentsTypeOK` of
`MCComponents` is the conjunction of seven types, each of which is proved of the
specification of its module. Every other property of a passing run is a theorem.

## Not modelled

- **Read models, web, observability, configuration and contracts, continuous
  integration**: they change no shared state, or are not part of the program.
- **AI clients and output contracts**: an answer of the model is valid, invalid
  or missing. How a value is parsed or a prompt is built is without state.
- **Evaluation tools**: offline programs over fixed data.
- **Authentication**: a library verifies tokens; the user is one upsert. The
  OAuth exchange with GitHub is one answer in `Connections`.
- **Row level security, owner triggers**: who may read or write a row is another
  question than the ones asked here; the unique indexes, foreign keys and CHECK
  constraints that a statement of the code can meet are in the modules.
- **Scores, formats, topics, truncation of the selected history**: no guard
  depends on them but by the input's fingerprint.

Three hazards have no property, and part of another has none: that a repository
repaired by a manual run stays off the schedule, where document and code disagree
(see above). The enqueue of opportunity runs reads the first
25 projects and leaves out none that is processed: the code gives those behind
them no guarantee to state. An input that returns with expired opportunities
ends its run for good, which is intended for an identity that is not current.
Whether an error of the database is permanent for a detection is one expression;
both outcomes are in `OpportunityRuns`.

The takeover of a deferred sync run is covered for its status
(`LateWorkerKeepsStatus`) and not for its retry time: `RetryOnlyPostponed` is about
a run that was claimed once, and above is said what happens to the others.

## Plan

Done: the three queues, the components, the two abstract specifications with their
refinements, and the proofs of every safety and action property the passing runs
check.

1. `OpportunityRuns` with facts that return to an earlier revision.
2. A composition of the three queues: what a successful sync promises about
   the opportunities that follow it, and its proof from the theorems about each.
