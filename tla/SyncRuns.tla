------------------------------ MODULE SyncRuns ------------------------------
(***************************************************************************)
(* The durable queue of GitHub synchronization runs: the SyncRun rows, the *)
(* polling worker of every API process (GitHubSyncWorker), the commit sync *)
(* service it calls, and the manual start of a run by a user.              *)
(*                                                                         *)
(* One action is one database statement or transaction: a worker is        *)
(* suspended at every await, so the statements of one tick interleave with *)
(* those of the other processes, and the instant a tick reads first (now)  *)
(* is old by the time its later statements use it.  What GitHub returned   *)
(* is abstracted to success or a kind of failure; the commits and pull     *)
(* requests an attempt writes are not part of this module.                 *)
(***************************************************************************)
EXTENDS Integers, FiniteSets

CONSTANTS
    Repos,            \* identities of ConnectedRepository rows
    Workers,          \* API processes, each hosting one polling worker
    Users,            \* manual start requests that may be in flight at once
    MaxRuns,          \* bound: SyncRun rows ever created
    MaxTime,          \* bound: the clock stops here
    MaxFaults,        \* bound: crashes, failed statements, lost repositories
    MaxAttempts,      \* options.maxAttempts
    LeaseDuration,    \* options.leaseDurationMs
    RetryBase,        \* options.retryBaseDelayMs
    Cadence,          \* options.scheduleCadenceMs
    BatchSize,        \* options.scheduleBatchSize
    ManualInterval,   \* manualSyncMinimumIntervalMs
    Overlap,          \* incrementalSyncOverlapMs
    Lookback,         \* initialSyncLookbackMs
    ProviderDelays,   \* delays GitHub asks for, counted from the failure
    LastTickIsForever \* TRUE: at MaxTime every deadline has passed (see Due)

ASSUME PositiveConstants ==
    /\ {MaxRuns, MaxAttempts, LeaseDuration, RetryBase, Cadence, BatchSize}
         \subseteq Nat \ {0}
    /\ {MaxTime, MaxFaults, ManualInterval, Lookback}
         \subseteq Nat
    /\ ProviderDelays \subseteq Nat \ {0}
    /\ LastTickIsForever \in BOOLEAN

\* One hour, 24 hours and 30 days.
ASSUME WindowLengths == Overlap \in Cadence..Lookback

ASSUME NoneIsNoRepository == "none" \notin Repos

\* A process of the API and a request of a user are different callers.
ASSUME DistinctCallers == Users \cap Workers = {}

RunIds  == 1..MaxRuns         \* in the order of createdAt
Time    == 0..MaxTime
NoTime  == -1                 \* SQL NULL in a timestamp column
NoRun   == 0
NoToken == 0                  \* SQL NULL in leaseToken

Statuses == {"none", "queued", "running", "succeeded", "failed_retryable",
             "failed_terminal", "cancelled", "deleted"}
Active  == {"queued", "running"}
Settled == {"succeeded", "failed_terminal", "cancelled"}

VARIABLES
    clock,                \* the wall clock, one for all processes
    repoStatus,           \* ConnectedRepository.status and its connection's
    lastSuccessfulSyncAt, \* ConnectedRepository.lastSuccessfulSyncAt
    runs,                 \* the SyncRun rows
    created,              \* how many rows were ever created
    worker,               \* the volatile state of each process's worker
    call,                 \* the createQueuedRun call each caller is in
    faults                \* how many of the events MaxFaults bounds

repoVars == <<repoStatus, lastSuccessfulSyncAt>>
runVars  == <<runs, created>>
vars     == <<clock, repoVars, runVars, worker, call, faults>>

\* leaseToken is the attempt number of the claim that drew it: a claim draws a
\* fresh UUID and adds one to workerAttemptCount, which nothing resets.
Row == [repo : Repos \cup {"none"}, status : Statuses,
        createdAt : Time \cup {NoTime},
        windowStart : Int, windowEnd : Int, attempts : 0..MaxAttempts,
        startedAt : Time \cup {NoTime}, finishedAt : Time \cup {NoTime},
        retryAfterAt : Int, leaseToken : 0..MaxAttempts, leaseExpiresAt : Int]

NoRow == [repo |-> "none", status |-> "none", createdAt |-> NoTime,
          windowStart |-> NoTime, windowEnd |-> NoTime, attempts |-> 0,
          startedAt |-> NoTime, finishedAt |-> NoTime,
          retryAfterAt |-> NoTime, leaseToken |-> NoToken,
          leaseExpiresAt |-> NoTime]

Maintenance == {"cancel", "supersede", "exhaust", "requeue", "schedule"}
Executing   == {"load", "ingest", "failing", "defer"}

Failure   == [retryable : BOOLEAN, retryAfterAt : Int]
Permanent == [retryable |-> FALSE, retryAfterAt |-> NoTime]
Claim     == [run : {NoRun} \cup RunIds, token : 0..MaxAttempts]
NoClaim   == [run |-> NoRun, token |-> NoToken]

WorkerState ==
    [pc : {"idle", "enqueue"} \cup Maintenance \cup Executing,
     now : Time \cup {NoTime},       \* the instant its tick started with
     todo : SUBSET Repos,            \* repositories left to schedule
     claim : Claim,                  \* the run it claimed and the lease token
     failure : Failure,              \* how the attempt ended
     stopping : BOOLEAN]

Fresh == [pc |-> "idle", now |-> NoTime, todo |-> {}, claim |-> NoClaim,
          failure |-> Permanent, stopping |-> FALSE]

\* A call of createQueuedRun between two of its awaits: the boundary it loaded,
\* the windowEnd (NoTime until a manual call reads its clock), the next statement.
Callers == Workers \cup Users
Call    == [repo : Repos, boundary : Int, windowEnd : Int,
            next : {"find", "insert"}]
NoCall  == [repo |-> "none", boundary |-> NoTime, windowEnd |-> NoTime,
            next |-> "find"]

Init ==
    /\ clock = 0
    /\ repoStatus = [r \in Repos |-> "absent"]
    /\ lastSuccessfulSyncAt = [r \in Repos |-> NoTime]
    /\ runs = [i \in RunIds |-> NoRow]
    /\ created = 0
    /\ worker = [w \in Workers |-> Fresh]
    /\ call = [c \in Callers |-> NoCall]
    /\ faults = 0

-----------------------------------------------------------------------------
(* Reading rows *)

Available(r) == repoStatus[r] = "active"
RunsOf(r)    == {i \in RunIds : runs[i].repo = r}
\* Slip: newer runs of the repository are not looked for.
NoneNewer(i) == {}

Newer(i) == {j \in RunsOf(runs[i].repo) : j > i}
HasActive(r) == \E i \in RunsOf(r) : runs[i].status \in Active

\* deadline <= instant.  Where LastTickIsForever, the last instant of the clock
\* stands for all the time after it, so that no deadline lies beyond it.
Due(deadline, instant) ==
    deadline <= instant \/ (LastTickIsForever /\ instant = MaxTime)

\* Slip: running rows are left to their worker.
NeverExpired(i, instant) == FALSE

Expired(i, instant) ==
    runs[i].status = "running" /\ Due(runs[i].leaseExpiresAt, instant)

\* retryBaseDelayMs * 2 ** max(0, workerAttemptCount - 1)
Backoff(attempt) == RetryBase * 2 ^ (IF attempt = 0 THEN 0 ELSE attempt - 1)

\* Slip: the local backoff replaces what GitHub asked for.
LocalOnly(a, b) == b

Later(a, b) == IF a > b THEN a ELSE b
Coalesce(a, b) == IF a = NoTime THEN b ELSE a

\* Slip: only the status is written.
ReleasedWithLease(row, status) == [row EXCEPT !.status = status]

\* The row once it left 'running' for status, with its lease columns NULL.
Released(row, status) ==
    [row EXCEPT !.status = status, !.leaseToken = NoToken,
                !.leaseExpiresAt = NoTime]

\* UPDATE "SyncRun": the rows of the runs in the domain of new are replaced.
Update(new) ==
    runs' = [i \in RunIds |-> IF i \in DOMAIN new THEN new[i] ELSE runs[i]]

\* The worker goes to the statement label of its tick.
Goto(w, label) == worker' = [worker EXCEPT ![w].pc = label]

\* executeTick returns or throws; the poll timer is armed again.
EndTick(w) ==
    worker' = [worker EXCEPT ![w] =
                 [Fresh EXCEPT !.stopping = worker[w].stopping]]

-----------------------------------------------------------------------------
(* The statements of executeTick before a run is claimed *)

BeginTick(w) ==
    /\ worker[w].pc = "idle"
    /\ ~worker[w].stopping
    /\ worker' = [worker EXCEPT ![w] = [@ EXCEPT !.pc = "cancel",
                                               !.now = clock]]
    /\ UNCHANGED <<clock, repoVars, runVars, call, faults>>

\* Slip: running work is left to its worker.
OrphanedQueued(i) == runs[i].status = "queued" /\ ~Available(runs[i].repo)

Orphaned(i) == runs[i].status \in Active /\ ~Available(runs[i].repo)

\* A row started after this tick's now cannot take it as finishedAt:
\* SyncRun_timestamp_order_check rejects the statement and the tick fails.
CancelUnavailableRuns(w) ==
    LET now == worker[w].now
        ids == {i \in RunIds : Orphaned(i)}
    IN  /\ worker[w].pc = "cancel"
        /\ \/ /\ \A i \in ids : runs[i].startedAt <= now
              /\ Update([i \in ids |->
                   [Released(runs[i], "cancelled") EXCEPT
                      !.finishedAt = now, !.retryAfterAt = NoTime]])
              /\ Goto(w, "supersede")
           \/ /\ \E i \in ids : runs[i].startedAt > now
              /\ EndTick(w)
              /\ UNCHANGED runs
        /\ UNCHANGED <<clock, repoVars, created, call, faults>>

CancelSupersededRetryableRuns(w) ==
    LET ids == {i \in RunIds : /\ runs[i].status = "failed_retryable"
                               /\ Newer(i) # {}}
    IN  /\ worker[w].pc = "supersede"
        /\ Update([i \in ids |->
             [Released(runs[i], "cancelled") EXCEPT
                !.finishedAt = Coalesce(runs[i].finishedAt, worker[w].now),
                !.retryAfterAt = NoTime]])
        /\ Goto(w, "exhaust")
        /\ UNCHANGED <<clock, repoVars, created, call, faults>>

TerminalizeExhaustedRuns(w) ==
    LET now == worker[w].now
        ids == {i \in RunIds : /\ runs[i].attempts >= MaxAttempts
                               /\ \/ runs[i].status = "failed_retryable"
                                  \/ Expired(i, now)}
    IN  /\ worker[w].pc = "exhaust"
        /\ Update([i \in ids |->
             [Released(runs[i], "failed_terminal") EXCEPT
                !.startedAt = Coalesce(runs[i].startedAt, now),
                !.finishedAt = Coalesce(runs[i].finishedAt, now),
                !.retryAfterAt = NoTime]])
        /\ Goto(w, "requeue")
        /\ UNCHANGED <<clock, repoVars, created, call, faults>>

\* The instant the requeue statement compares with now.
RetryDueAt(row) ==
    Coalesce(row.retryAfterAt, Coalesce(row.finishedAt, row.createdAt))

\* Slip: exhausted runs are left to the statement before.
RequeueableExhausted(i, instant) ==
    /\ runs[i].status = "failed_retryable"
    /\ Due(RetryDueAt(runs[i]), instant)
    /\ Available(runs[i].repo)
    /\ Newer(i) = {}

Requeueable(i, instant) ==
    /\ runs[i].status = "failed_retryable"
    /\ runs[i].attempts < MaxAttempts
    /\ Due(RetryDueAt(runs[i]), instant)
    /\ Available(runs[i].repo)
    /\ Newer(i) = {}

RequeueEligibleRuns(w) ==
    LET ids == {i \in RunIds : Requeueable(i, worker[w].now)}
    IN  /\ worker[w].pc = "requeue"
        /\ Update([i \in ids |->
             [Released(runs[i], "queued") EXCEPT
                !.startedAt = NoTime, !.finishedAt = NoTime,
                !.retryAfterAt = NoTime]])
        /\ Goto(w, "schedule")
        /\ UNCHANGED <<clock, repoVars, created, call, faults>>

-----------------------------------------------------------------------------
(* Creating runs: the scheduling pass of the worker and the manual start *)

\* Slip: a terminal failure is taken for an outcome like the others.
SchedulableAfterFailure(r, instant) ==
    /\ Available(r)
    /\ \A i \in RunsOf(r) :
         /\ runs[i].createdAt <= instant - Cadence
         /\ runs[i].status \notin {"queued", "running", "failed_retryable"}

\* The scheduling query: an active repository with no run younger than the
\* cadence and, of whatever age, none unfinished or failed for good.
Schedulable(r, instant) ==
    /\ Available(r)
    /\ \A i \in RunsOf(r) :
         /\ runs[i].createdAt <= instant - Cadence
         /\ runs[i].status \notin
              {"queued", "running", "failed_retryable", "failed_terminal"}

ScheduledWindowEnd(instant) == (instant \div Cadence) * Cadence

\* The scheduling pass is skipped when the last one is less than a minute old
\* (lastScheduleCheckAt is not modelled: any tick may skip it).  Otherwise the
\* repositories found wait in todo while the loop creates their runs in turn.
ListDueRepositories(w) ==
    LET due == {r \in Repos : Schedulable(r, worker[w].now)}
    IN  /\ worker[w].pc = "schedule"
        /\ \/ Goto(w, "enqueue")
           \/ \E batch \in SUBSET due :
                /\ \/ batch = due /\ Cardinality(due) <= BatchSize
                   \/ Cardinality(batch) = BatchSize
                /\ worker' = [worker EXCEPT ![w] =
                                 [@ EXCEPT !.pc = "enqueue", !.todo = batch]]
        /\ UNCHANGED <<clock, repoVars, runVars, call, faults>>

\* Bound: a caller asks for no run beyond MaxRuns.
Room == created + Cardinality({c \in Callers : call[c] # NoCall}) < MaxRuns

\* createQueuedRun loads the repository and its boundary.
LoadRepository(c, r, windowEnd) ==
    call' = [call EXCEPT ![c] = [repo |-> r, windowEnd |-> windowEnd,
                                 boundary |-> lastSuccessfulSyncAt[r],
                                 next |-> "find"]]

Return(c) == call' = [call EXCEPT ![c] = NoCall]

\* One turn of the scheduling loop up to the call.
EnqueueScheduled(w) ==
    /\ worker[w].pc = "enqueue"
    /\ call[w] = NoCall
    /\ ~worker[w].stopping
    /\ \E r \in worker[w].todo :
         /\ worker' = [worker EXCEPT ![w].todo = @ \ {r}]
         /\ \/ /\ Available(r) /\ Room
               /\ LoadRepository(w, r, ScheduledWindowEnd(worker[w].now))
            \/ ~(Available(r) /\ Room) /\ UNCHANGED call
    /\ UNCHANGED <<clock, repoVars, runVars, faults>>

\* GitHubManualSyncService.start up to the call: the repository is active, its
\* latest run is not in progress, and the minimum interval since that run and
\* GitHub's retry time have passed.
StartManually(u, r) ==
    /\ call[u] = NoCall
    /\ Available(r)
    /\ Room
    /\ \A i \in RunsOf(r) : Newer(i) = {} =>
         /\ runs[i].status \notin Active
         /\ runs[i].createdAt + ManualInterval <= clock
         /\ runs[i].retryAfterAt <= clock
    /\ LoadRepository(u, r, NoTime)
    /\ UNCHANGED <<clock, repoVars, runVars, worker, faults>>

\* The look-up of an active run: a conflict ends the call, otherwise the window
\* is fixed, a manual one up to the present.
FindActiveRun(c) ==
    /\ call[c] # NoCall
    /\ call[c].next = "find"
    /\ \/ HasActive(call[c].repo) /\ Return(c)
       \/ /\ ~HasActive(call[c].repo)
          /\ call' = [call EXCEPT ![c] =
                         [@ EXCEPT
                            !.next = "insert",
                            !.windowEnd = Coalesce(call[c].windowEnd, clock)]]
    /\ UNCHANGED <<clock, repoVars, runVars, worker, faults>>

\* Slip: the overlap is counted from the end of the window.
WindowStartFromEnd(c) ==
    IF c.boundary = NoTime THEN c.windowEnd - Lookback
                           ELSE c.windowEnd - Overlap

WindowStart(c) == IF c.boundary = NoTime THEN c.windowEnd - Lookback
                                         ELSE c.boundary - Overlap

\* Slip: the look-up of an active run is trusted, there is no unique index.
InsertableUnchecked(c) ==
    repoStatus[c.repo] # "deleted" /\ WindowStart(c) <= c.windowEnd

\* The insert fails on a unique index (one active run per repository, one run
\* per repository and window), on the order of the window or because the
\* repository row is gone.
Insertable(c) ==
    /\ repoStatus[c.repo] # "deleted"
    /\ WindowStart(c) <= c.windowEnd
    /\ ~HasActive(c.repo)
    /\ \A i \in RunsOf(c.repo) : \/ runs[i].windowStart # WindowStart(c)
                                 \/ runs[i].windowEnd # c.windowEnd

\* The row of the run a call creates.
NewRun(c) == [NoRow EXCEPT !.repo = c.repo, !.status = "queued",
                           !.createdAt = clock, !.windowEnd = c.windowEnd,
                           !.windowStart = WindowStart(c)]

InsertRun(c) ==
    /\ call[c] # NoCall
    /\ call[c].next = "insert"
    /\ \/ /\ Insertable(call[c])
          /\ created < MaxRuns
          /\ created' = created + 1
          /\ runs' = [runs EXCEPT ![created + 1] = NewRun(call[c])]
       \/ /\ ~Insertable(call[c])
          /\ UNCHANGED runVars
    /\ Return(c)
    /\ UNCHANGED <<clock, repoVars, worker, faults>>

-----------------------------------------------------------------------------
(* Claiming a run and executing it *)

\* Slip: exhausted leases are recovered like any other.
ClaimableExhausted(i, instant) ==
    /\ runs[i].status = "queued" \/ Expired(i, instant)
    /\ Available(runs[i].repo)

Claimable(i, instant) ==
    /\ runs[i].status = "queued" \/ Expired(i, instant)
    /\ runs[i].attempts < MaxAttempts
    /\ Available(runs[i].repo)

\* ORDER BY running first, then createdAt
ClaimedBefore(i, j) ==
    IF runs[i].status = runs[j].status THEN i <= j
                                       ELSE runs[i].status = "running"

ClaimNext(w) ==
    LET now == worker[w].now
        candidates == {i \in RunIds : Claimable(i, now)}
    IN  /\ worker[w].pc = "enqueue"
        /\ worker[w].todo = {}
        /\ call[w] = NoCall
        /\ ~worker[w].stopping
        /\ \E i \in candidates :
             LET attempt == runs[i].attempts + 1 IN
             /\ \A j \in candidates : ClaimedBefore(i, j)
             /\ runs' = [runs EXCEPT ![i] =
                  [@ EXCEPT !.status = "running",
                            !.startedAt = Coalesce(runs[i].startedAt, now),
                            !.finishedAt = NoTime, !.retryAfterAt = NoTime,
                            !.attempts = attempt, !.leaseToken = attempt,
                            !.leaseExpiresAt = now + LeaseDuration]]
             /\ worker' = [worker EXCEPT ![w] =
                  [@ EXCEPT !.pc = "load",
                            !.claim = [run |-> i, token |-> attempt]]]
        /\ UNCHANGED <<clock, repoVars, created, call, faults>>

\* Nothing to claim, or the process is stopping: the synchronization part of
\* the tick is over.
EndSyncTick(w) ==
    /\ worker[w].pc = "enqueue"
    /\ call[w] = NoCall
    /\ \/ worker[w].stopping
       \/ /\ worker[w].todo = {}
          /\ ~\E i \in RunIds : Claimable(i, worker[w].now)
    /\ EndTick(w)
    /\ UNCHANGED <<clock, repoVars, runVars, call, faults>>

\* Slip: updates name the run only.
OwnsRun(w) ==
    LET c == worker[w].claim IN
    c.run # NoRun /\ runs[c.run].status \notin {"none", "deleted"}

\* The fence of every update an attempt makes: WHERE status = 'running' AND
\* leaseToken = the token of the claim.
Owns(w) ==
    LET c == worker[w].claim IN
    /\ c.run # NoRun
    /\ runs[c.run].status = "running"
    /\ runs[c.run].leaseToken = c.token

\* executeClaimed looks the run up again; when it is lost, or its repository
\* is, it throws without touching the row.
LoadClaimed(w) ==
    LET found == Owns(w) /\ Available(runs[worker[w].claim.run].repo)
    IN  /\ worker[w].pc = "load"
        /\ Goto(w, IF found THEN "ingest" ELSE "defer")
        /\ UNCHANGED <<clock, repoVars, runVars, call, faults>>

\* The heartbeat timer fires while the attempt runs.
ExtendLease(w) ==
    /\ worker[w].pc \in Executing
    /\ Owns(w)
    /\ runs' = [runs EXCEPT ![worker[w].claim.run].leaseExpiresAt =
                  clock + LeaseDuration]
    /\ UNCHANGED <<clock, repoVars, created, worker, call, faults>>

Fail(w, f) ==
    worker' = [worker EXCEPT ![w] = [@ EXCEPT !.pc = "failing",
                                              !.failure = f]]

\* GitHub or the database fails the ingestion: for good, or retryably with or
\* without an instant GitHub asked to wait for.
FailIngestion(w) ==
    /\ worker[w].pc = "ingest"
    /\ \E f \in {Permanent}
              \cup [retryable : {TRUE},
                   retryAfterAt : {NoTime} \cup {clock + d : d \in ProviderDelays}] :
         Fail(w, f)
    /\ UNCHANGED <<clock, repoVars, runVars, call, faults>>

\* The final transaction: the run succeeds and the repository's boundary moves,
\* or neither when the lease is lost or the repository is not active.
Complete(w) ==
    LET i == worker[w].claim.run
        r == runs[i].repo
    IN  /\ worker[w].pc = "ingest"
        /\ \/ /\ Owns(w)
              /\ Available(r)
              /\ Update([j \in {i} |->
                   [Released(runs[i], "succeeded") EXCEPT
                      !.finishedAt = clock, !.retryAfterAt = NoTime]])
              /\ lastSuccessfulSyncAt' =
                   [lastSuccessfulSyncAt EXCEPT ![r] = runs[i].windowEnd]
              /\ EndTick(w)
           \/ /\ ~(Owns(w) /\ Available(r))
              /\ Fail(w, Permanent)
              /\ UNCHANGED <<runs, lastSuccessfulSyncAt>>
        /\ UNCHANGED <<clock, repoStatus, created, call, faults>>

\* The fenced update of the catch block.
RecordFailure(w) ==
    LET i == worker[w].claim.run
        f == worker[w].failure
    IN  /\ worker[w].pc = "failing"
        /\ \/ /\ Owns(w)
              /\ Update([j \in {i} |->
                   [Released(runs[i], IF f.retryable THEN "failed_retryable"
                                                     ELSE "failed_terminal")
                      EXCEPT !.finishedAt = clock,
                             !.retryAfterAt = f.retryAfterAt]])
           \/ /\ ~Owns(w)
              /\ UNCHANGED runs
        /\ Goto(w, "defer")
        /\ UNCHANGED <<clock, repoVars, created, call, faults>>

\* Slip: off by one.
LastAttemptEarly(attempt) == attempt + 1 >= MaxAttempts

LastAttempt(attempt) == attempt >= MaxAttempts

\* deferRetry: its WHERE clause names the run and failed_retryable, no token.
DeferRetry(w) ==
    LET i == worker[w].claim.run
        attempt == worker[w].claim.token
        retryAt == Later(worker[w].failure.retryAfterAt,
                         clock + Backoff(attempt))
    IN  /\ worker[w].pc = "defer"
        /\ \/ /\ runs[i].status = "failed_retryable"
              /\ runs' = [runs EXCEPT ![i] =
                   IF LastAttempt(attempt)
                   THEN [@ EXCEPT !.status = "failed_terminal",
                                  !.retryAfterAt = NoTime]
                   ELSE [@ EXCEPT !.retryAfterAt = retryAt]]
           \/ /\ runs[i].status # "failed_retryable"
              /\ UNCHANGED runs
        /\ EndTick(w)
        /\ UNCHANGED <<clock, repoVars, created, call, faults>>

-----------------------------------------------------------------------------
(* Faults, connections and time *)

\* A statement fails or its connection drops.  Before the claim and in the
\* defer step the exception leaves executeTick; in the scheduling loop it costs
\* a repository its turn; a failed look-up goes to the defer step; a failed
\* write of the catch block is swallowed.
StatementFails(w) ==
    /\ faults < MaxFaults
    /\ faults' = faults + 1
    /\ \/ /\ \/ worker[w].pc \in Maintenance \cup {"defer"}
             \/ /\ worker[w].pc = "enqueue"
                /\ worker[w].todo = {}
                /\ call[w] = NoCall
          /\ EndTick(w)
          /\ UNCHANGED call
       \/ /\ worker[w].pc = "enqueue"
          /\ call[w] = NoCall
          /\ \E r \in worker[w].todo :
               worker' = [worker EXCEPT ![w].todo = @ \ {r}]
          /\ UNCHANGED call
       \/ call[w] # NoCall /\ Return(w) /\ UNCHANGED worker
       \/ /\ worker[w].pc \in {"load", "failing"}
          /\ Goto(w, "defer")
          /\ UNCHANGED call
    /\ UNCHANGED <<clock, repoVars, runVars>>

\* The process dies and is started again: what it held in memory is lost.
Crash(w) ==
    /\ faults < MaxFaults
    /\ faults' = faults + 1
    /\ worker[w] # Fresh
    /\ worker' = [worker EXCEPT ![w] = Fresh]
    /\ Return(w)
    /\ UNCHANGED <<clock, repoVars, runVars>>

\* onApplicationShutdown: no new tick; the tick under way finishes first.
Shutdown(w) ==
    /\ faults < MaxFaults
    /\ faults' = faults + 1
    /\ ~worker[w].stopping
    /\ worker' = [worker EXCEPT ![w].stopping = TRUE]
    /\ UNCHANGED <<clock, repoVars, runVars, call>>

Restart(w) ==
    /\ worker[w].pc = "idle"
    /\ worker[w].stopping
    /\ worker' = [worker EXCEPT ![w] = Fresh]
    /\ UNCHANGED <<clock, repoVars, runVars, call, faults>>

\* connectRepository creates the row, or makes it active again.
ConnectRepository(r) ==
    /\ repoStatus[r] \in {"absent", "unavailable"}
    /\ repoStatus' = [repoStatus EXCEPT ![r] = "active"]
    /\ UNCHANGED <<clock, lastSuccessfulSyncAt, runVars, worker, call, faults>>

\* The status of the row or of its connection is changed to one of the other
\* values of the schema; nothing under src/ writes them.
BecomeUnavailable(r) ==
    /\ repoStatus[r] = "active"
    /\ faults < MaxFaults
    /\ faults' = faults + 1
    /\ repoStatus' = [repoStatus EXCEPT ![r] = "unavailable"]
    /\ UNCHANGED <<clock, lastSuccessfulSyncAt, runVars, worker, call>>

\* disconnectConnection deletes the connection; the repository row and its runs
\* go with it (ON DELETE CASCADE).  A later connection makes a new row.
Disconnect(r) ==
    /\ repoStatus[r] \in {"active", "unavailable"}
    /\ faults < MaxFaults
    /\ faults' = faults + 1
    /\ repoStatus' = [repoStatus EXCEPT ![r] = "deleted"]
    /\ lastSuccessfulSyncAt' = [lastSuccessfulSyncAt EXCEPT ![r] = NoTime]
    /\ Update([i \in RunsOf(r) |-> [NoRow EXCEPT !.status = "deleted"]])
    /\ UNCHANGED <<clock, created, worker, call>>

Tick ==
    /\ clock < MaxTime
    /\ clock' = clock + 1
    /\ UNCHANGED <<repoVars, runVars, worker, call, faults>>

\* Everything a worker does by itself.
WorkerStep(w) ==
    \/ BeginTick(w)
    \/ CancelUnavailableRuns(w)
    \/ CancelSupersededRetryableRuns(w)
    \/ TerminalizeExhaustedRuns(w)
    \/ RequeueEligibleRuns(w)
    \/ ListDueRepositories(w)
    \/ EnqueueScheduled(w)
    \/ FindActiveRun(w)
    \/ InsertRun(w)
    \/ ClaimNext(w)
    \/ EndSyncTick(w)
    \/ LoadClaimed(w)
    \/ FailIngestion(w)
    \/ Complete(w)
    \/ RecordFailure(w)
    \/ DeferRetry(w)
    \/ Restart(w)

Next ==
    \/ Tick
    \/ \E w \in Workers : \/ WorkerStep(w)
                          \/ ExtendLease(w)
                          \/ StatementFails(w)
                          \/ Crash(w)
                          \/ Shutdown(w)
    \/ \E u \in Users : \/ \E r \in Repos : StartManually(u, r)
                        \/ FindActiveRun(u)
                        \/ InsertRun(u)
    \/ \E r \in Repos : \/ ConnectRepository(r)
                        \/ BecomeUnavailable(r)
                        \/ Disconnect(r)

Spec == Init /\ [][Next]_vars

\* The poll timer is armed again after every tick and every await of an attempt
\* has a timeout, so a worker keeps taking steps; time passes.  Faults, users
\* and connections owe nothing, and the heartbeat may be late for ever.
FairSpec ==
    /\ Spec
    /\ WF_vars(Tick)
    /\ \A w \in Workers : WF_vars(WorkerStep(w))

-----------------------------------------------------------------------------
(* Properties *)

TypeOK ==
    /\ clock \in Time
    /\ repoStatus \in [Repos -> {"absent", "active", "unavailable", "deleted"}]
    /\ lastSuccessfulSyncAt \in [Repos -> Int]
    /\ runs \in [RunIds -> Row]
    /\ created \in 0..MaxRuns
    /\ worker \in [Workers -> WorkerState]
    /\ call \in [Callers -> Call \cup {NoCall}]
    /\ faults \in 0..MaxFaults

\* The queued or running run of a repository is the newest of its runs: a
\* requeued retry, a recovered run and a run created by a manual or scheduled
\* enqueue never coexist, and no older window is executed after a newer one
\* was asked for.  The unique index on active runs guards only the insert.
ActiveIsNewest ==
    \A i \in RunIds : runs[i].status \in Active => Newer(i) = {}

\* No statement produces a row that the CHECK constraints of the table refuse,
\* for any interleaving and however old its now is (the one statement that can
\* is CancelUnavailableRuns, whose failure is modelled).
RowConstraints ==
    \A i \in RunIds :
        LET row == runs[i] IN
        /\ row.status = "running" <=> row.leaseToken # NoToken
        /\ row.status = "running" <=> row.leaseExpiresAt # NoTime
        /\ row.retryAfterAt # NoTime => row.status = "failed_retryable"
        /\ row.status = "queued" => row.startedAt = NoTime
        /\ row.status \in {"running", "succeeded", "failed_retryable",
                           "failed_terminal"} => row.startedAt # NoTime
        /\ row.finishedAt # NoTime <=>
             row.status \in Settled \cup {"failed_retryable"}
        /\ row.finishedAt # NoTime => row.startedAt <= row.finishedAt
        /\ row.windowStart <= row.windowEnd

\* A run that succeeded, failed for good or was cancelled keeps that outcome,
\* whichever late worker still executes it, until its repository is deleted.
OutcomeIsFinal ==
    [][\A i \in RunIds : runs[i].status \in Settled =>
          runs'[i].status \in {runs[i].status, "deleted"}]_vars

\* A worker whose lease passed to a later claim never changes the status of
\* the run, not even in the defer step, which has no fence.
LateWorkerKeepsStatus ==
    [][\A w \in Workers :
          LET i == worker[w].claim.run IN
          /\ i # NoRun
          /\ worker'[w] # worker[w]
          /\ worker[w].claim.token < runs[i].attempts
          => runs'[i].status = runs[i].status]_vars

\* A failed attempt waits at least the exponential backoff of its attempt
\* number, counted from its failure, before it is queued again.
RetryAfterBackoff ==
    [][\A i \in RunIds :
          /\ runs[i].status = "failed_retryable"
          /\ runs'[i].status = "queued"
          => runs[i].finishedAt + Backoff(runs[i].attempts) <= clock]_vars

\* While a run that was claimed once waits for its retry, the retry is only ever
\* postponed: the worker's backoff never shortens what GitHub asked for.  Once a
\* run was claimed again, deferRetry, which has no fence, may bring it forward:
\* an expired worker writes over the newer attempt's time, or that attempt's own
\* deferral over the later one the expired worker left.
RetryOnlyPostponed ==
    [][\A i \in RunIds :
          /\ runs[i].status = "failed_retryable"
          /\ runs'[i].status = "failed_retryable"
          /\ runs'[i].retryAfterAt < runs[i].retryAfterAt
          => runs[i].attempts > 1]_vars

\* Runs of a repository succeed in the order they were created, so that its
\* success boundary is the window end of the newest run that succeeded: neither
\* a superseded retry nor a late worker can put an older one in its place.
BoundaryOfNewestSuccess ==
    \A r \in Repos :
        LET done == {i \in RunsOf(r) : runs[i].status = "succeeded"} IN
        \A i \in done : (\A j \in done : j <= i) =>
            lastSuccessfulSyncAt[r] = runs[i].windowEnd

\* The window of the run reaches as far back as that of a first synchronization.
LooksBack(i) == runs[i].windowStart = runs[i].windowEnd - Lookback

\* The time from the start of the first successful window of a repository to its
\* boundary is covered without a gap by the windows of succeeded runs: failed,
\* cancelled, overtaken or stale enqueues never leave a hole.  The one exception
\* is older than the look-back of a run that was created before the code saw any
\* success: its caller loaded no boundary, and a run that asked for a window
\* more than the look-back older succeeded before it inserted its own.
NoHoleBeforeBoundary ==
    \A r \in Repos :
        LET done == {i \in RunsOf(r) : runs[i].status = "succeeded"} IN
        \A i \in done : \A t \in runs[i].windowStart..lastSuccessfulSyncAt[r] - 1 :
            \/ \E j \in done : runs[j].windowStart <= t /\ t < runs[j].windowEnd
            \/ \E j, k \in done : /\ LooksBack(j)
                                  /\ runs[k].windowEnd <= t
                                  /\ t < runs[j].windowStart

\* While the newest run of a repository is one that failed for good, no tick
\* queues another: what follows it is a user's run, or one of a tick that began
\* before the failed run was created, whose pass may have listed the repository
\* then.  Once there is a newer run the README takes the block to be over, while
\* the query still finds the failure; of that case the property says nothing.
TerminalFailureBlocksSchedule ==
    [][\A w \in Workers :
          /\ created' # created
          /\ call'[w] # call[w]
          => \A i \in RunsOf(call[w].repo) :
               runs[i].status = "failed_terminal" /\ Newer(i) = {} =>
                 worker[w].now <= runs[i].createdAt]_vars

\* Every run that is created comes to an outcome, through crashes, lost leases
\* and deferred retries, unless its repository is or becomes unavailable.
RunsSettle ==
    \A i \in RunIds :
        runs[i].status \in Active \cup {"failed_retryable"} ~>
            \/ runs[i].status \in Settled \cup {"deleted"}
            \/ \E r \in Repos : runs[i].repo = r /\ repoStatus[r] = "unavailable"

\* The queued or running run of a repository that stays unavailable is
\* cancelled, also when a worker is executing it.
UnavailableWorkEnds ==
    \A r \in Repos :
        repoStatus[r] = "unavailable" ~>
            repoStatus[r] # "unavailable" \/ ~HasActive(r)

\* The queue promises what LeasedQueue states.
Phase(status) ==
    CASE status = "none" -> "unborn"
      [] status = "queued" -> "waiting"
      [] status = "running" -> "executing"
      [] status = "failed_retryable" -> "deferred"
      [] status = "deleted" -> "gone"
      [] OTHER -> "done"

Queue == INSTANCE LeasedQueue WITH
            Runs <- RunIds, MaxStarts <- MaxAttempts,
            phase <- [i \in RunIds |-> Phase(runs[i].status)],
            starts <- [i \in RunIds |-> runs[i].attempts]

ImplementsLeasedQueue == Queue!Spec
=============================================================================
