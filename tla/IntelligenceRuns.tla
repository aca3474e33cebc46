-------------------------- MODULE IntelligenceRuns --------------------------
(***************************************************************************)
(* The queue of IntelligenceRun rows: a worker in every API process looks  *)
(* for the latest succeeded sync of a project, queues one run for it and   *)
(* for its own processing version, claims runs, has every evidence group   *)
(* of the source interpreted and projects the result into the project's    *)
(* state.  Processes of different versions run side by side while a new    *)
(* version is rolled out.                                                  *)
(*                                                                         *)
(* One action is one statement.  A statement that takes the instant read   *)
(* just before it takes the current one; the instant a tick starts with    *)
(* may be old when its later statements use it.                            *)
(***************************************************************************)
EXTENDS Integers

CONSTANTS
    Projects,
    Workers,          \* API processes, each hosting one intelligence worker
    Versions,         \* processing versions, in the order of their deployment
    VersionOf,        \* the version of each process
    Groups,           \* the evidence groups of a source
    MaxSyncs,         \* bound: syncs that ever succeed
    MaxTime,          \* bound: the clock stops here
    MaxFaults,        \* bound: crashes, failed statements, disconnections
    MaxAttempts,      \* options.maxAttempts
    LeaseDuration,    \* options.leaseDurationMs
    RetryBase,        \* options.retryBaseDelayMs
    ProviderDelays,   \* delays the AI provider asks for
    LastTickIsForever \* TRUE: at MaxTime every deadline has passed (see Due)

ASSUME PositiveConstants ==
    /\ {MaxAttempts, LeaseDuration, RetryBase} \subseteq Nat \ {0}
    /\ {MaxSyncs, MaxTime, MaxFaults} \subseteq Nat
    /\ ProviderDelays \subseteq Nat
    /\ LastTickIsForever \in BOOLEAN

ASSUME DeployedVersions ==
    /\ Versions \subseteq Nat
    /\ VersionOf \in [Workers -> Versions]

ASSUME NoneIsNoProject == "none" \notin Projects

Syncs    == 1..MaxSyncs    \* succeeded SyncRun rows, in the order of finishedAt
Runs     == Syncs \X Versions   \* sourceSyncRunId, processingVersion: unique
Time     == 0..MaxTime
NoTime   == -1
NoSync   == 0
NoToken  == 0

Statuses == {"none", "queued", "running", "succeeded", "failed_retryable",
             "failed_terminal", "deleted"}
Active   == {"queued", "running", "failed_retryable"}
Settled  == {"succeeded", "failed_terminal"}

VARIABLES
    clock,
    projectOf,   \* the project of each succeeded sync
    synced,      \* how many syncs ever succeeded
    gone,        \* the syncs a disconnection deleted
    runs,        \* the IntelligenceRun rows
    decided,     \* run and group: interpreted, or rejected for good
    projected,   \* the decisions the state of each project was projected from
    worker,      \* the volatile state of each process's worker
    faults       \* how many of the events MaxFaults bounds

syncVars  == <<projectOf, synced, gone>>
eventVars == <<decided, projected>>
vars      == <<clock, syncVars, runs, eventVars, worker, faults>>

\* leaseToken is the attempt number of the claim that drew it.
Row == [status : Statuses, queuedAt : Time \cup {NoTime},
        attempts : 0..MaxAttempts, retryAfterAt : Int,
        leaseToken : 0..MaxAttempts, leaseExpiresAt : Int]

NoRow == [status |-> "none", queuedAt |-> NoTime, attempts |-> 0,
          retryAfterAt |-> NoTime, leaseToken |-> NoToken,
          leaseExpiresAt |-> NoTime]

NoRun   == <<NoSync, 0>>
Claim   == [run : Runs \cup {NoRun}, token : 0..MaxAttempts]
NoClaim == [run |-> NoRun, token |-> NoToken]

\* The error of an attempt: IntelligencePipelineError.
Failure   == [retryable : BOOLEAN, retryAfterAt : Int]
Permanent == [retryable |-> FALSE, retryAfterAt |-> NoTime]
Transient == [retryable |-> TRUE, retryAfterAt |-> NoTime]

Waiting   == {"exhaust", "stale", "requeue", "find", "insert", "claim"}
Executing == {"load", "groups", "counters", "project", "complete", "failing"}

WorkerState ==
    [pc : {"idle"} \cup Waiting \cup Executing,
     now : Time \cup {NoTime},     \* the instant its tick started with
     source : Syncs \cup {NoSync}, \* the source it is about to queue
     claim : Claim,
     todo : SUBSET Groups,         \* groups left to interpret
     deferring : BOOLEAN,          \* retryableFailure
     failing : BOOLEAN,            \* terminalFailure
     failure : Failure,            \* its retryAfterAt is the latest so far
     stopping : BOOLEAN]

Fresh == [pc |-> "idle", now |-> NoTime, source |-> NoSync, claim |-> NoClaim,
          todo |-> {}, deferring |-> FALSE, failing |-> FALSE,
          failure |-> Permanent, stopping |-> FALSE]

Init ==
    /\ clock = 0
    /\ projectOf = [k \in Syncs |-> "none"]
    /\ synced = 0
    /\ gone = {}
    /\ runs = [i \in Runs |-> NoRow]
    /\ decided = {}
    /\ projected = [p \in Projects |-> {}]
    /\ worker = [w \in Workers |-> Fresh]
    /\ faults = 0

-----------------------------------------------------------------------------
(* Reading rows *)

Live(k)   == k <= synced /\ k \notin gone
SyncsOf(p) == {k \in Syncs : Live(k) /\ projectOf[k] = p}

\* The latest succeeded sync of its project.
Latest(k) == Live(k) /\ \A j \in SyncsOf(projectOf[k]) : j <= k

RunsOf(p)    == {i \in Runs : i[1] \in SyncsOf(p)}
HasActive(p) == \E i \in RunsOf(p) : runs[i].status \in Active

\* deadline <= instant; where LastTickIsForever, the last instant stands for all
\* the time after it.
Due(deadline, instant) ==
    deadline <= instant \/ (LastTickIsForever /\ instant = MaxTime)

\* Slip: running rows are left to their worker.
NeverExpired(i, instant) == FALSE

Expired(i, instant) ==
    runs[i].status = "running" /\ Due(runs[i].leaseExpiresAt, instant)

Backoff(attempt) == RetryBase * 2 ^ (IF attempt = 0 THEN 0 ELSE attempt - 1)

Later(a, b) == IF a > b THEN a ELSE b

\* The row in status, with retryAfterAt and the lease columns NULL.
Cleared(row, status) ==
    [row EXCEPT !.status = status, !.retryAfterAt = NoTime,
                !.leaseToken = NoToken, !.leaseExpiresAt = NoTime]

\* UPDATE "IntelligenceRun": the rows of ids are put into status.
ClearAll(ids, status) ==
    runs' = [i \in Runs |-> IF i \in ids THEN Cleared(runs[i], status)
                                         ELSE runs[i]]

Goto(w, label) == worker' = [worker EXCEPT ![w].pc = label]

EndTick(w) ==
    worker' = [worker EXCEPT ![w] =
                 [Fresh EXCEPT !.stopping = worker[w].stopping]]

-----------------------------------------------------------------------------
(* The statements of executeTick before a run is claimed *)

BeginTick(w) ==
    /\ worker[w].pc = "idle"
    /\ ~worker[w].stopping
    /\ worker' = [worker EXCEPT ![w] = [@ EXCEPT !.pc = "exhaust",
                                               !.now = clock]]
    /\ UNCHANGED <<clock, syncVars, runs, eventVars, faults>>

TerminalizeExhausted(w) ==
    /\ worker[w].pc = "exhaust"
    /\ ClearAll({i \in Runs : /\ runs[i].attempts >= MaxAttempts
                              /\ \/ runs[i].status = "failed_retryable"
                                 \/ Expired(i, worker[w].now)},
                "failed_terminal")
    /\ Goto(w, "stale")
    /\ UNCHANGED <<clock, syncVars, eventVars, faults>>

\* Runs of another version, be it older or newer, that nobody is executing.
Stale(i, version, instant) ==
    /\ i[2] # version
    /\ \/ runs[i].status \in {"queued", "failed_retryable"}
       \/ Expired(i, instant)

TerminalizeStaleActiveRuns(w) ==
    /\ worker[w].pc = "stale"
    /\ ClearAll({i \in Runs : Stale(i, VersionOf[w], clock)},
                "failed_terminal")
    /\ Goto(w, "requeue")
    /\ UNCHANGED <<clock, syncVars, eventVars, faults>>

Requeueable(i, instant) ==
    /\ runs[i].status = "failed_retryable"
    /\ runs[i].attempts < MaxAttempts
    /\ Due(runs[i].retryAfterAt, instant)

RequeueEligible(w) ==
    /\ worker[w].pc = "requeue"
    /\ ClearAll({i \in Runs : Requeueable(i, worker[w].now)}, "queued")
    /\ Goto(w, "find")
    /\ UNCHANGED <<clock, syncVars, eventVars, faults>>

-----------------------------------------------------------------------------
(* Queueing a run for a succeeded sync *)

\* Slip: a source that was processed is offered again.
EligibleProcessed(k, version) == Latest(k) /\ ~HasActive(projectOf[k])

Eligible(k, version) ==
    /\ Latest(k)
    /\ runs[<<k, version>>].status = "none"
    /\ ~HasActive(projectOf[k])

\* The source that succeeded first of those eligible.
FindSource(w) ==
    LET eligible == {k \in Syncs : Eligible(k, VersionOf[w])}
    IN  /\ worker[w].pc = "find"
        /\ \/ eligible = {} /\ Goto(w, "claim")
           \/ \E k \in eligible :
                /\ \A j \in eligible : k <= j
                /\ worker' = [worker EXCEPT ![w] =
                                 [@ EXCEPT !.pc = "insert", !.source = k]]
        /\ UNCHANGED <<clock, syncVars, runs, eventVars, faults>>

\* Slip: a row that has come to its outcome is taken for a free one.
InsertableAgain(i) == ~HasActive(projectOf[i[1]])

\* createRun is refused by one of two unique indexes, one run per source and
\* version and one active run per project, or because the sync is gone.
Insertable(i) ==
    runs[i].status = "none" /\ ~HasActive(projectOf[i[1]])

Queued == [NoRow EXCEPT !.status = "queued", !.queuedAt = clock]

InsertRun(w) ==
    LET i == <<worker[w].source, VersionOf[w]>>
    IN  /\ worker[w].pc = "insert"
        /\ \/ /\ Live(i[1])
              /\ IF Insertable(i) THEN runs' = [runs EXCEPT ![i] = Queued]
                                  ELSE UNCHANGED runs
              /\ Goto(w, "claim")
           \/ /\ ~Live(i[1])
              /\ EndTick(w)
              /\ UNCHANGED runs
        /\ UNCHANGED <<clock, syncVars, eventVars, faults>>

\* enqueueReprocessing and enqueueReprocessingForSource: a source is queued again
\* for the version of the process that serves the call, unless it was already.
\* The source is the latest or one the caller names; the latest of a moment ago
\* may be any other by the time of the insert.
EnqueueReprocessing(p, version) ==
    /\ \E k \in SyncsOf(p) :
         /\ Insertable(<<k, version>>)
         /\ runs' = [runs EXCEPT ![<<k, version>>] = Queued]
    /\ UNCHANGED <<clock, syncVars, eventVars, worker, faults>>

-----------------------------------------------------------------------------
(* Claiming a run and executing it *)

\* Slip: exhausted leases are recovered like any other.
ClaimableExhausted(i, instant) ==
    runs[i].status = "queued" \/ Expired(i, instant)

Claimable(i, instant) ==
    /\ runs[i].status = "queued" \/ Expired(i, instant)
    /\ runs[i].attempts < MaxAttempts

\* ORDER BY running first, then queuedAt; the ids break ties either way.
ClaimedBefore(i, j) ==
    IF runs[i].status = runs[j].status THEN runs[i].queuedAt <= runs[j].queuedAt
                                       ELSE runs[i].status = "running"

ClaimNext(w) ==
    LET candidates == {i \in Runs : Claimable(i, worker[w].now)}
    IN  /\ worker[w].pc = "claim"
        /\ \E i \in candidates :
             LET attempt == runs[i].attempts + 1 IN
             /\ \A j \in candidates : ClaimedBefore(i, j)
             /\ runs' = [runs EXCEPT ![i] =
                  [@ EXCEPT !.status = "running", !.retryAfterAt = NoTime,
                            !.attempts = attempt, !.leaseToken = attempt,
                            !.leaseExpiresAt = worker[w].now + LeaseDuration]]
             /\ worker' = [worker EXCEPT ![w] =
                  [@ EXCEPT !.pc = "load",
                            !.claim = [run |-> i, token |-> attempt]]]
        /\ UNCHANGED <<clock, syncVars, eventVars, faults>>

\* Nothing to claim.
EndIntelligenceTick(w) ==
    /\ worker[w].pc = "claim"
    /\ ~\E i \in Runs : Claimable(i, worker[w].now)
    /\ EndTick(w)
    /\ UNCHANGED <<clock, syncVars, runs, eventVars, faults>>

\* Slip: updates name the run only.
OwnsRun(w) ==
    LET c == worker[w].claim IN
    c.run # NoRun /\ runs[c.run].status \notin {"none", "deleted"}

\* The fence of every update of an attempt.
Owns(w) ==
    LET c == worker[w].claim IN
    /\ c.run # NoRun
    /\ runs[c.run].status = "running"
    /\ runs[c.run].leaseToken = c.token

Fail(w, f) ==
    worker' = [worker EXCEPT ![w] = [@ EXCEPT !.pc = "failing",
                                              !.failure = f]]

\* executeClaimed looks the run up, refuses one of another version, and has the
\* evidence of the source grouped.
LoadClaimed(w) ==
    LET found == Owns(w) /\ worker[w].claim.run[2] = VersionOf[w]
    IN  /\ worker[w].pc = "load"
        /\ \/ /\ found
              /\ worker' = [worker EXCEPT ![w] =
                               [@ EXCEPT !.pc = "groups", !.todo = Groups]]
           \/ ~found /\ Fail(w, Permanent)
        /\ UNCHANGED <<clock, syncVars, runs, eventVars, faults>>

\* The heartbeat timer fires while the attempt runs.
ExtendLease(w) ==
    /\ worker[w].pc \in Executing
    /\ Owns(w)
    /\ runs' = [runs EXCEPT ![worker[w].claim.run].leaseExpiresAt =
                  clock + LeaseDuration]
    /\ UNCHANGED <<clock, syncVars, eventVars, worker, faults>>

\* A group is interpreted, now or by an earlier attempt, or found insufficient:
\* either is a durable decision.
InterpretGroup(w) ==
    /\ worker[w].pc = "groups"
    /\ \E g \in worker[w].todo :
         /\ decided' = decided \cup {<<worker[w].claim.run, g>>}
         /\ worker' = [worker EXCEPT ![w].todo = @ \ {g}]
    /\ UNCHANGED <<clock, syncVars, runs, projected, faults>>

\* A group fails; the loop goes on and remembers which kinds of failure it met
\* and the latest instant the provider asked to wait for.
FailGroup(w) ==
    /\ worker[w].pc = "groups"
    /\ \E g \in worker[w].todo :
         \/ worker' = [worker EXCEPT ![w] =
              [@ EXCEPT !.todo = worker[w].todo \ {g}, !.failing = TRUE]]
         \/ \E at \in {NoTime} \cup {clock + d : d \in ProviderDelays} :
              worker' = [worker EXCEPT ![w] =
                [@ EXCEPT !.todo = worker[w].todo \ {g}, !.deferring = TRUE,
                          !.failure = [retryable |-> TRUE, retryAfterAt |->
                             Later(worker[w].failure.retryAfterAt, at)]]]
    /\ UNCHANGED <<clock, syncVars, runs, eventVars, faults>>

\* Slip: a group to be retried does not hold back the projection.
AlwaysProject(w) == "project"

AfterGroups(w) == IF worker[w].deferring THEN "failing" ELSE "project"

\* updateClaimed stores the group counters under the lease.
UpdateClaimed(w) ==
    /\ worker[w].pc = "counters"
    /\ IF Owns(w) THEN Goto(w, AfterGroups(w)) ELSE Fail(w, Permanent)
    /\ UNCHANGED <<clock, syncVars, runs, eventVars, faults>>

EndGroups(w) ==
    /\ worker[w].pc = "groups"
    /\ worker[w].todo = {}
    /\ Goto(w, "counters")
    /\ UNCHANGED <<clock, syncVars, runs, eventVars, faults>>

\* The projector reads all that is decided for the project and still backed by
\* evidence.  The lease is not checked.
Project(w) ==
    LET p == projectOf[worker[w].claim.run[1]]
    IN  /\ worker[w].pc = "project"
        /\ projected' = [projected EXCEPT ![p] =
                           {d \in decided : d[1][1] \in SyncsOf(p)}]
        /\ IF worker[w].failing THEN Fail(w, Permanent) ELSE Goto(w, "complete")
        /\ UNCHANGED <<clock, syncVars, runs, decided, faults>>

Complete(w) ==
    /\ worker[w].pc = "complete"
    /\ \/ /\ Owns(w)
          /\ ClearAll({worker[w].claim.run}, "succeeded")
          /\ EndTick(w)
       \/ ~Owns(w) /\ Fail(w, Permanent) /\ UNCHANGED runs
    /\ UNCHANGED <<clock, syncVars, eventVars, faults>>

MayRetry(f, attempt) == f.retryable /\ attempt < MaxAttempts

\* failClaimed: one update under the lease sets the outcome and the retry time,
\* the provider's where it gave one.
FailClaimed(w) ==
    LET i == worker[w].claim.run
        f == worker[w].failure
        attempt == worker[w].claim.token
        retryAt == IF f.retryAfterAt = NoTime THEN clock + Backoff(attempt)
                                              ELSE f.retryAfterAt
    IN  /\ worker[w].pc = "failing"
        /\ \/ /\ Owns(w) /\ MayRetry(f, attempt)
              /\ runs' = [runs EXCEPT ![i] =
                   [Cleared(runs[i], "failed_retryable") EXCEPT
                      !.retryAfterAt = retryAt]]
           \/ /\ Owns(w) /\ ~MayRetry(f, attempt)
              /\ ClearAll({i}, "failed_terminal")
           \/ ~Owns(w) /\ UNCHANGED runs
        /\ EndTick(w)
        /\ UNCHANGED <<clock, syncVars, eventVars, faults>>

-----------------------------------------------------------------------------
(* Faults, the sync queue and time *)

\* A statement fails.  Before the claim and in failClaimed the exception leaves
\* executeTick; in an attempt any error is a reason to retry.
StatementFails(w) ==
    /\ faults < MaxFaults
    /\ faults' = faults + 1
    /\ \/ worker[w].pc \in Waiting \cup {"failing"} /\ EndTick(w)
       \/ worker[w].pc \in {"load", "counters", "project", "complete"}
            /\ Fail(w, Transient)
    /\ UNCHANGED <<clock, syncVars, runs, eventVars>>

\* The process dies and is started again.
Crash(w) ==
    /\ faults < MaxFaults
    /\ faults' = faults + 1
    /\ worker[w] # Fresh
    /\ worker' = [worker EXCEPT ![w] = Fresh]
    /\ UNCHANGED <<clock, syncVars, runs, eventVars>>

\* onApplicationShutdown: the tick under way finishes, with a claim if it finds
\* one.
Shutdown(w) ==
    /\ faults < MaxFaults
    /\ faults' = faults + 1
    /\ ~worker[w].stopping
    /\ worker' = [worker EXCEPT ![w].stopping = TRUE]
    /\ UNCHANGED <<clock, syncVars, runs, eventVars>>

Restart(w) ==
    /\ worker[w].pc = "idle"
    /\ worker[w].stopping
    /\ worker' = [worker EXCEPT ![w] = Fresh]
    /\ UNCHANGED <<clock, syncVars, runs, eventVars, faults>>

\* The sync queue finishes a run of the project's repository.
SyncSucceeds(p) ==
    /\ synced < MaxSyncs
    /\ synced' = synced + 1
    /\ projectOf' = [projectOf EXCEPT ![synced + 1] = p]
    /\ UNCHANGED <<clock, gone, runs, eventVars, worker, faults>>

\* disconnectConnection: the syncs of the repository are deleted, and with them
\* the runs they are the source of.
Disconnect(p) ==
    /\ faults < MaxFaults
    /\ faults' = faults + 1
    /\ SyncsOf(p) # {}
    /\ gone' = gone \cup SyncsOf(p)
    /\ runs' = [i \in Runs |-> IF i \in RunsOf(p)
                               THEN [NoRow EXCEPT !.status = "deleted"]
                               ELSE runs[i]]
    /\ UNCHANGED <<clock, projectOf, synced, eventVars, worker>>

Tick ==
    /\ clock < MaxTime
    /\ clock' = clock + 1
    /\ UNCHANGED <<syncVars, runs, eventVars, worker, faults>>

\* Everything a worker does by itself.
WorkerStep(w) ==
    \/ BeginTick(w)
    \/ TerminalizeExhausted(w)
    \/ TerminalizeStaleActiveRuns(w)
    \/ RequeueEligible(w)
    \/ FindSource(w)
    \/ InsertRun(w)
    \/ ClaimNext(w)
    \/ EndIntelligenceTick(w)
    \/ LoadClaimed(w)
    \/ InterpretGroup(w)
    \/ FailGroup(w)
    \/ EndGroups(w)
    \/ UpdateClaimed(w)
    \/ Project(w)
    \/ Complete(w)
    \/ FailClaimed(w)
    \/ Restart(w)

Next ==
    \/ Tick
    \/ \E w \in Workers : \/ WorkerStep(w)
                          \/ ExtendLease(w)
                          \/ StatementFails(w)
                          \/ Crash(w)
                          \/ Shutdown(w)
    \/ \E p \in Projects : \/ SyncSucceeds(p)
                           \/ Disconnect(p)
                           \/ \E v \in Versions : EnqueueReprocessing(p, v)

Spec == Init /\ [][Next]_vars

\* A tick of the sync worker whose own statements did not fail ends by calling
\* this worker, whether it claimed a run or not, and every await has a timeout.
FairSpec ==
    /\ Spec
    /\ WF_vars(Tick)
    /\ \A w \in Workers : WF_vars(WorkerStep(w))

-----------------------------------------------------------------------------
(* Properties *)

TypeOK ==
    /\ clock \in Time
    /\ projectOf \in [Syncs -> Projects \cup {"none"}]
    /\ synced \in 0..MaxSyncs
    /\ gone \subseteq Syncs
    /\ runs \in [Runs -> Row]
    /\ decided \subseteq Runs \X Groups
    /\ projected \in [Projects -> SUBSET (Runs \X Groups)]
    /\ worker \in [Workers -> WorkerState]
    /\ faults \in 0..MaxFaults

\* A run that succeeded has a durable decision for every evidence group of its
\* source, and the state of its project was projected from all of them, though
\* several attempts, some of them late, interpreted the groups and projected.
SucceededIsProjected ==
    \A i \in Runs : runs[i].status = "succeeded" =>
        \A g \in Groups : /\ <<i, g>> \in decided
                          /\ <<i, g>> \in projected[projectOf[i[1]]]

\* The row of a run is not written by a worker whose lease passed to a later
\* claim: unlike in the sync queue, every update of an attempt is fenced.
LateWorkerWritesNothing ==
    [][\A w \in Workers :
          LET i == worker[w].claim.run IN
          /\ i # NoRun
          /\ worker'[w] # worker[w]
          /\ worker[w].claim.token < runs[i].attempts
          => runs'[i] = runs[i]]_vars

\* A run that succeeded or failed for good keeps that outcome.
OutcomeIsFinal ==
    [][\A i \in Runs : runs[i].status \in Settled =>
          runs'[i].status \in {runs[i].status, "deleted"}]_vars

\* Every run that is queued comes to an outcome, through crashes, lost leases,
\* deferrals and the end of its version, or its source is deleted: since a
\* project has one active run at a time, it has none again and again.
RunsSettle == \A p \in Projects : []<>~HasActive(p)

\* The latest succeeded sync of each project is processed by every version
\* that stays deployed, unless a newer sync takes its place: no project waits
\* behind another for ever, though a tick queues one source only.
LatestSyncIsProcessed ==
    \A w \in Workers :
        []<>\A k \in Syncs :
              Latest(k) => runs[<<k, VersionOf[w]>>].status \in Settled

\* The queue promises what LeasedQueue states.
Phase(status) ==
    CASE status = "none" -> "unborn"
      [] status = "queued" -> "waiting"
      [] status = "running" -> "executing"
      [] status = "failed_retryable" -> "deferred"
      [] status = "deleted" -> "gone"
      [] OTHER -> "done"

Queue == INSTANCE LeasedQueue WITH
            MaxStarts <- MaxAttempts,
            phase <- [i \in Runs |-> Phase(runs[i].status)],
            starts <- [i \in Runs |-> runs[i].attempts]

ImplementsLeasedQueue == Queue!Spec
=============================================================================
