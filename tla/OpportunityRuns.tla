--------------------------- MODULE OpportunityRuns ---------------------------
(***************************************************************************)
(* The queue of OpportunityRun rows and what its runs do to the content    *)
(* opportunities of a project.  A worker in every API process queues a run *)
(* for the latest succeeded intelligence run (the source) of each project  *)
(* and for the input selected then; an attempt selects the input again,    *)
(* has the model detect candidates in it, and persists one opportunity per *)
(* candidate.  Opportunities of earlier days are part of the input, so     *)
(* that what one run persists changes the input of another, or its own.    *)
(*                                                                         *)
(* One action is one statement; the instant read just before a statement   *)
(* is the current one, the instant a tick starts with may be old.          *)
(***************************************************************************)
EXTENDS Integers, FiniteSets, Sequences

CONSTANTS
    Projects,         \* numbers: the order of the project ids
    Workers,          \* API processes, each hosting one opportunity worker
    Versions,         \* processing versions with the same detector and scorer
    VersionOf,        \* the version of each process
    Candidates,       \* candidate keys: what the model may detect
    BatchLimit,       \* limit of enqueueEligibleIntelligenceCompletion
    MaxSources,       \* bound: intelligence runs that ever succeed
    MaxRuns,          \* bound: rows of OpportunityRun
    MaxFacts,         \* bound: changes to the events and state of a project
    MaxDay,           \* bound: developer days
    MaxTime,          \* bound: the clock stops here
    MaxFaults,        \* bound: crashes, failed statements, disconnections
    MaxAttempts,      \* the 3 of the statements and of failClaimed
    LeaseDuration,    \* options.leaseDurationMs
    RetryBase,        \* the 60_000 of failClaimed
    ProviderDelays,   \* delays the AI provider or its budget asks for
    LastTickIsForever \* TRUE: at MaxTime every deadline has passed (see Due)

ASSUME PositiveConstants ==
    /\ {MaxAttempts, LeaseDuration, RetryBase, BatchLimit, MaxDay}
           \subseteq Nat \ {0}
    /\ {MaxSources, MaxRuns, MaxFacts, MaxTime, MaxFaults} \subseteq Nat
    /\ ProviderDelays \subseteq Nat
    /\ LastTickIsForever \in BOOLEAN

ASSUME DeployedVersions ==
    /\ Versions \subseteq Nat \ {0}
    /\ VersionOf \in [Workers -> Versions]

ASSUME ProjectOrder == Projects \subseteq Nat \ {0}

ASSUME FiniteCandidates == IsFiniteSet(Candidates)

Sources  == 1..MaxSources   \* in the order of finishedAt
Runs     == 1..MaxRuns      \* in the order of insertion
Days     == 1..MaxDay
Time     == 0..MaxTime
NoTime   == -1
None     == 0               \* no source, run, token, version, project or day

Statuses == {"none", "queued", "running", "succeeded", "failed_retryable",
             "failed_terminal", "deleted"}
Active   == {"queued", "running", "failed_retryable"}
Settled  == {"succeeded", "failed_terminal"}

VARIABLES
    clock,
    today,     \* the developer day
    projectOf, \* the project of each source
    dayOf,     \* the developer day of the source's evaluation boundary
    finished,  \* how many sources ever succeeded
    gone,      \* the sources a disconnection deleted
    facts,     \* the revision of each project's events and state
    runs,      \* the OpportunityRun rows
    results,   \* the OpportunityDetectionResult rows
    opps,      \* the ContentOpportunity rows, in the order of insertion
    worker,    \* the volatile state of each process's worker
    faults     \* how many of the events MaxFaults bounds

sourceVars == <<today, projectOf, dayOf, finished, gone, facts>>
effectVars == <<results, opps>>
vars       == <<clock, sourceVars, runs, effectVars, worker, faults>>

\* The selected input, identified by its fingerprint: what it reads besides the
\* source is the revision of the facts and the history, that is, which earlier
\* opportunities there are and whether each is still current.
OppIds  == 1..(MaxRuns * Cardinality(Candidates))
Input   == [source : Sources \cup {None}, facts : 0..MaxFacts,
            history : SUBSET (OppIds \X BOOLEAN)]
NoInput == [source |-> None, facts |-> 0, history |-> {}]

\* leaseToken is the attempt number of the claim that drew it.  The run key is
\* the project, source, input and version of the row.
Row == [status : Statuses, input : Input, version : Versions \cup {None},
        queuedAt : Time \cup {NoTime}, attempts : 0..MaxAttempts,
        retryAfterAt : Int, leaseToken : 0..MaxAttempts, leaseExpiresAt : Int]

NoRow == [status |-> "none", input |-> NoInput, version |-> None,
          queuedAt |-> NoTime, attempts |-> 0, retryAfterAt |-> NoTime,
          leaseToken |-> None, leaseExpiresAt |-> NoTime]

Result      == [input : Input, candidates : SUBSET Candidates]
Opportunity == [candidate : Candidates, input : Input, day : Days,
                isCurrent : BOOLEAN]

Claim   == [run : Runs \cup {None}, token : 0..MaxAttempts]
NoClaim == [run |-> None, token |-> None]

\* The error of an attempt: OpportunityRunError.
Failure   == [retryable : BOOLEAN, retryAfterAt : Int]
Permanent == [retryable |-> FALSE, retryAfterAt |-> NoTime]
Transient == [retryable |-> TRUE, retryAfterAt |-> NoTime]

Waiting   == {"exhaust", "stale", "inputs", "compare", "requeue", "list",
              "pick", "insert", "claim"}
Executing == {"load", "select", "detect", "model", "check", "reselect",
              "score", "complete", "failing"}

WorkerState ==
    [pc : {"idle"} \cup Waiting \cup Executing,
     now : Time \cup {NoTime},  \* the instant its tick started with
     rows : SUBSET Runs,        \* rows left in terminalizeStaleInputs
     rowsAt : Time \cup {NoTime},
     batch : SUBSET Sources,    \* sources left to queue
     input : Input,             \* the input it selected last
     claim : Claim,
     failure : Failure,
     stopping : BOOLEAN]

Fresh == [pc |-> "idle", now |-> NoTime, rows |-> {}, rowsAt |-> NoTime,
          batch |-> {}, input |-> NoInput, claim |-> NoClaim,
          failure |-> Permanent, stopping |-> FALSE]

Init ==
    /\ clock = 0
    /\ today = 1
    /\ projectOf = [k \in Sources |-> None]
    /\ dayOf = [k \in Sources |-> None]
    /\ finished = 0
    /\ gone = {}
    /\ facts = [p \in Projects |-> 0]
    /\ runs = [i \in Runs |-> NoRow]
    /\ results = {}
    /\ opps = <<>>
    /\ worker = [w \in Workers |-> Fresh]
    /\ faults = 0

-----------------------------------------------------------------------------
(* Reading rows *)

SourcesOf(p) ==
    {k \in Sources : k <= finished /\ k \notin gone /\ projectOf[k] = p}

\* isEligibleSource: the latest succeeded one of a project that is connected.
EligibleSource(k) ==
    /\ k \in Sources
    /\ k <= finished
    /\ k \notin gone
    /\ \A j \in SourcesOf(projectOf[k]) : j <= k

RunsOf(p)    == {i \in Runs : /\ runs[i].status \notin {"none", "deleted"}
                              /\ projectOf[runs[i].input.source] = p}
HasActive(p) == \E i \in RunsOf(p) : runs[i].status \in Active

\* The opportunities of the project from the days before the source's day.
Visible(k) ==
    {o \in DOMAIN opps : /\ projectOf[opps[o].input.source] = projectOf[k]
                         /\ opps[o].day < dayOf[k]}

\* Phase3OpportunityInputSelectorService.select, at the boundary of source k.
Select(k) ==
    [source |-> k, facts |-> facts[projectOf[k]],
     history |-> {<<o, opps[o].isCurrent>> : o \in Visible(k)}]

\* deadline <= instant; where LastTickIsForever, the last instant stands for all
\* the time after it.
Due(deadline, instant) ==
    deadline <= instant \/ (LastTickIsForever /\ instant = MaxTime)

\* Slip: running rows are left to their worker.
NeverExpired(i, instant) == FALSE

Expired(i, instant) ==
    runs[i].status = "running" /\ Due(runs[i].leaseExpiresAt, instant)

Backoff(attempt) == RetryBase * 2 ^ (IF attempt = 0 THEN 0 ELSE attempt - 1)

Later(a, b) == IF a > b THEN a ELSE b

\* The row in status, with retryAfterAt and the lease columns NULL.
Cleared(row, status) ==
    [row EXCEPT !.status = status, !.retryAfterAt = NoTime,
                !.leaseToken = None, !.leaseExpiresAt = NoTime]

ClearAll(ids, status) ==
    runs' = [i \in Runs |-> IF i \in ids THEN Cleared(runs[i], status)
                                         ELSE runs[i]]

Goto(w, label) == worker' = [worker EXCEPT ![w].pc = label]

EndTick(w) ==
    worker' = [worker EXCEPT ![w] =
                 [Fresh EXCEPT !.stopping = worker[w].stopping]]

-----------------------------------------------------------------------------
(* The statements of executeTick before a run is claimed *)

BeginTick(w) ==
    /\ worker[w].pc = "idle"
    /\ ~worker[w].stopping
    /\ worker' = [worker EXCEPT ![w] = [@ EXCEPT !.pc = "exhaust",
                                               !.now = clock]]
    /\ UNCHANGED <<clock, sourceVars, runs, effectVars, faults>>

TerminalizeExhausted(w) ==
    /\ worker[w].pc = "exhaust"
    /\ ClearAll({i \in Runs : /\ runs[i].attempts >= MaxAttempts
                              /\ \/ runs[i].status = "failed_retryable"
                                 \/ Expired(i, worker[w].now)},
                "failed_terminal")
    /\ Goto(w, "stale")
    /\ UNCHANGED <<clock, sourceVars, effectVars, faults>>

\* Rows that nobody is executing.
Idle(i, instant) ==
    runs[i].status \in {"queued", "failed_retryable"} \/ Expired(i, instant)

TerminalizeStaleActiveRuns(w) ==
    /\ worker[w].pc = "stale"
    /\ ClearAll({i \in Runs : /\ Idle(i, clock)
                              /\ \/ runs[i].version # VersionOf[w]
                                 \/ ~EligibleSource(runs[i].input.source)},
                "failed_terminal")
    /\ Goto(w, "inputs")
    /\ UNCHANGED <<clock, sourceVars, effectVars, faults>>

\* terminalizeStaleInputs reads the active rows of its version first.
ListActiveRuns(w) ==
    /\ worker[w].pc = "inputs"
    /\ worker' = [worker EXCEPT ![w] =
         [@ EXCEPT !.pc = "compare", !.rowsAt = clock,
                   !.rows = {i \in Runs : /\ runs[i].status \in Active
                                          /\ runs[i].version = VersionOf[w]}]]
    /\ UNCHANGED <<clock, sourceVars, runs, effectVars, faults>>

\* Then it selects the input of each and, where it is another, ends the row.
\* An input that was replaced never comes back, so that the selection and the
\* update that follows it are one step.
CompareInput(w) ==
    /\ worker[w].pc = "compare"
    /\ \E i \in worker[w].rows :
         /\ ClearAll(IF /\ Idle(i, worker[w].rowsAt)
                        /\ Select(runs[i].input.source) # runs[i].input
                     THEN {i} ELSE {}, "failed_terminal")
         /\ worker' = [worker EXCEPT ![w].rows = @ \ {i}]
    /\ UNCHANGED <<clock, sourceVars, effectVars, faults>>

\* The selection fails: any error counts as another input.
CompareFails(w) ==
    /\ worker[w].pc = "compare"
    /\ faults < MaxFaults
    /\ faults' = faults + 1
    /\ \E i \in worker[w].rows :
         /\ ClearAll(IF Idle(i, worker[w].rowsAt) THEN {i} ELSE {},
                     "failed_terminal")
         /\ worker' = [worker EXCEPT ![w].rows = @ \ {i}]
    /\ UNCHANGED <<clock, sourceVars, effectVars>>

EndCompare(w) ==
    /\ worker[w].pc = "compare"
    /\ worker[w].rows = {}
    /\ Goto(w, "requeue")
    /\ UNCHANGED <<clock, sourceVars, runs, effectVars, faults>>

Requeueable(i, version, instant) ==
    /\ runs[i].status = "failed_retryable"
    /\ runs[i].attempts < MaxAttempts
    /\ runs[i].version = version
    /\ Due(runs[i].retryAfterAt, instant)

RequeueEligible(w) ==
    /\ worker[w].pc = "requeue"
    /\ ClearAll({i \in Runs : Requeueable(i, VersionOf[w], worker[w].now)},
                "queued")
    /\ Goto(w, "list")
    /\ UNCHANGED <<clock, sourceVars, effectVars, faults>>

\* Slip: a source that was processed is left out, whatever its input is now.
DiscoverableOnce(k) ==
    /\ EligibleSource(k)
    /\ \A i \in RunsOf(projectOf[k]) :
         runs[i].status \notin Active /\ runs[i].input.source # k

\* Sources already processed are not left out.
Discoverable(k) == EligibleSource(k) /\ ~HasActive(projectOf[k])

\* enqueueEligibleIntelligenceCompletion: the first sources in the order of
\* their projects.
ListSources(w) ==
    LET found == {k \in Sources : Discoverable(k)}
        before(k) == {j \in found : projectOf[j] < projectOf[k]}
    IN  /\ worker[w].pc = "list"
        /\ worker' = [worker EXCEPT ![w] =
             [@ EXCEPT !.pc = "pick",
                !.batch = {k \in found : Cardinality(before(k)) < BatchLimit}]]
        /\ UNCHANGED <<clock, sourceVars, runs, effectVars, faults>>

\* enqueueSource selects the input outside of its transaction.
PickSource(w) ==
    /\ worker[w].pc = "pick"
    /\ \E k \in worker[w].batch :
         /\ \A j \in worker[w].batch : projectOf[k] <= projectOf[j]
         /\ worker' = [worker EXCEPT ![w] =
              [@ EXCEPT !.pc = "insert", !.input = Select(k),
                        !.batch = worker[w].batch \ {k}]]
    /\ UNCHANGED <<clock, sourceVars, runs, effectVars, faults>>

\* The loop is over; a process that is stopping claims nothing.
EndSources(w) ==
    /\ worker[w].pc = "pick"
    /\ worker[w].batch = {}
    /\ IF worker[w].stopping THEN EndTick(w) ELSE Goto(w, "claim")
    /\ UNCHANGED <<clock, sourceVars, runs, effectVars, faults>>

\* Slip: a run that failed for good is not an obstacle to another.
KeyTakenUnlessFailed(input, version) ==
    \E i \in Runs : /\ runs[i].input = input
                    /\ runs[i].version = version
                    /\ runs[i].status \notin {"none", "deleted",
                                              "failed_terminal"}

\* A row with this runKey exists; it is reused, whatever its status.
KeyTaken(input, version) ==
    \E i \in Runs : /\ runs[i].input = input
                    /\ runs[i].version = version
                    /\ runs[i].status \notin {"none", "deleted"}

Create(input, version) ==
    \E i \in Runs :
        /\ runs[i].status = "none"
        /\ \A j \in 1..(i - 1) : runs[j].status # "none"
        /\ runs' = [runs EXCEPT ![i] =
             [NoRow EXCEPT !.status = "queued", !.input = input,
                           !.version = version, !.queuedAt = clock]]

\* The serializable transaction of enqueueSource.  Within the bound MaxRuns; a
\* source that is not eligible any more is an error that ends the tick.
InsertRun(w) ==
    LET k == worker[w].input.source
        refused == \/ KeyTaken(worker[w].input, VersionOf[w])
                   \/ HasActive(projectOf[k])
                   \/ \A i \in Runs : runs[i].status # "none"
    IN  /\ worker[w].pc = "insert"
        /\ \/ /\ EligibleSource(k)
              /\ \/ refused /\ UNCHANGED runs
                 \/ ~refused /\ Create(worker[w].input, VersionOf[w])
              /\ worker' = [worker EXCEPT ![w] =
                   [@ EXCEPT !.pc = "pick", !.input = NoInput]]
           \/ /\ ~EligibleSource(k)
              /\ EndTick(w)
              /\ UNCHANGED runs
        /\ UNCHANGED <<clock, sourceVars, effectVars, faults>>

\* enqueueReprocessing, which nothing but tests calls yet: the same transaction
\* for the latest source of one project.
EnqueueReprocessing(p, version) ==
    /\ \E k \in SourcesOf(p) :
         /\ EligibleSource(k)
         /\ ~KeyTaken(Select(k), version)
         /\ ~HasActive(p)
         /\ Create(Select(k), version)
    /\ UNCHANGED <<clock, sourceVars, effectVars, worker, faults>>

-----------------------------------------------------------------------------
(* Claiming a run and executing it *)

\* Slip: exhausted leases are recovered like any other.
ClaimableExhausted(i, version, instant) ==
    /\ runs[i].status = "queued" \/ Expired(i, instant)
    /\ runs[i].version = version

\* Slip: a deferred row is claimed without having been requeued.
ClaimableDeferred(i, version, instant) ==
    /\ \/ runs[i].status \in {"queued", "failed_retryable"}
       \/ Expired(i, instant)
    /\ runs[i].attempts < MaxAttempts
    /\ runs[i].version = version

Claimable(i, version, instant) ==
    /\ runs[i].status = "queued" \/ Expired(i, instant)
    /\ runs[i].attempts < MaxAttempts
    /\ runs[i].version = version

\* ORDER BY running first, then queuedAt; the ids break ties either way.
ClaimedBefore(i, j) ==
    IF runs[i].status = runs[j].status THEN runs[i].queuedAt <= runs[j].queuedAt
                                       ELSE runs[i].status = "running"

ClaimNext(w) ==
    LET candidates == {i \in Runs : Claimable(i, VersionOf[w], worker[w].now)}
    IN  /\ worker[w].pc = "claim"
        /\ \E i \in candidates :
             LET attempt == runs[i].attempts + 1 IN
             /\ \A j \in candidates : ClaimedBefore(i, j)
             /\ runs' = [runs EXCEPT ![i] =
                  [@ EXCEPT !.status = "running", !.retryAfterAt = NoTime,
                            !.attempts = attempt, !.leaseToken = attempt,
                            !.leaseExpiresAt = worker[w].now + LeaseDuration]]
             /\ worker' = [worker EXCEPT ![w] =
                  [@ EXCEPT !.pc = "load",
                            !.claim = [run |-> i, token |-> attempt]]]
        /\ UNCHANGED <<clock, sourceVars, effectVars, faults>>

\* Nothing to claim.
EndOpportunityTick(w) ==
    /\ worker[w].pc = "claim"
    /\ ~\E i \in Runs : Claimable(i, VersionOf[w], worker[w].now)
    /\ EndTick(w)
    /\ UNCHANGED <<clock, sourceVars, runs, effectVars, faults>>

\* Slip: updates name the run only.
OwnsRun(w) ==
    LET c == worker[w].claim IN
    c.run # None /\ runs[c.run].status \notin {"none", "deleted"}

\* The fence of every update of the row, and assertLease.
Owns(w) ==
    LET c == worker[w].claim IN
    /\ c.run # None
    /\ runs[c.run].status = "running"
    /\ runs[c.run].leaseToken = c.token

Expected(w) == runs[worker[w].claim.run].input

Fail(w, f) ==
    worker' = [worker EXCEPT ![w] = [@ EXCEPT !.pc = "failing",
                                              !.failure = f]]

\* GoOn(w, ok, label): the attempt continues at label, or fails for good.
GoOn(w, ok, label) == IF ok THEN Goto(w, label) ELSE Fail(w, Permanent)

\* executeClaimed finds the row by its lease; its version and source are checked.
LoadClaimed(w) ==
    /\ worker[w].pc = "load"
    /\ GoOn(w, /\ Owns(w)
               /\ Expected(w).source # None
               /\ EligibleSource(Expected(w).source)
               /\ runs[worker[w].claim.run].version = VersionOf[w], "select")
    /\ UNCHANGED <<clock, sourceVars, runs, effectVars, faults>>

\* The heartbeat timer fires while the attempt runs.
ExtendLease(w) ==
    /\ worker[w].pc \in Executing
    /\ Owns(w)
    /\ runs' = [runs EXCEPT ![worker[w].claim.run].leaseExpiresAt =
                  clock + LeaseDuration]
    /\ UNCHANGED <<clock, sourceVars, effectVars, worker, faults>>

\* The selection between two checks of the lease.  A lease once lost is never
\* regained, so that the later check stands for both.
SelectExpected(w) ==
    /\ worker[w].pc = "select"
    /\ GoOn(w, Owns(w) /\ Select(Expected(w).source) = Expected(w), "detect")
    /\ UNCHANGED <<clock, sourceVars, runs, effectVars, faults>>

Detected(input) == \E r \in results : r.input = input

\* detect selects once more and looks for a result of that input; otherwise the
\* model is called.
DetectCandidates(w) ==
    /\ worker[w].pc = "detect"
    /\ \/ /\ Expected(w) # NoInput
          /\ LET input == Select(Expected(w).source) IN
             worker' = [worker EXCEPT ![w] =
               [@ EXCEPT !.pc = IF Detected(input) THEN "check" ELSE "model",
                         !.input = input]]
       \/ /\ Expected(w) = NoInput       \* the row is deleted
          /\ Fail(w, Permanent)
    /\ UNCHANGED <<clock, sourceVars, runs, effectVars, faults>>

\* The model answers and its result is persisted, unless another attempt was
\* first: then that result is loaded.
ModelAnswers(w) ==
    /\ worker[w].pc = "model"
    /\ IF Detected(worker[w].input)
       THEN UNCHANGED results
       ELSE \E cs \in SUBSET Candidates :
              results' = results \cup {[input |-> worker[w].input,
                                        candidates |-> cs]}
    /\ Goto(w, "check")
    /\ UNCHANGED <<clock, sourceVars, runs, opps, faults>>

\* The model, its budget or the persistence of the result fails.
ModelFails(w) ==
    /\ worker[w].pc = "model"
    /\ \/ Fail(w, Permanent)
       \/ \E at \in {NoTime} \cup {clock + d : d \in ProviderDelays} :
            Fail(w, [retryable |-> TRUE, retryAfterAt |-> at])
    /\ UNCHANGED <<clock, sourceVars, runs, effectVars, faults>>

\* The input detected in is compared, then the lease and the source are checked.
CheckDetection(w) ==
    /\ worker[w].pc = "check"
    /\ GoOn(w, /\ Owns(w)
               /\ worker[w].input = Expected(w)
               /\ EligibleSource(Expected(w).source), "reselect")
    /\ UNCHANGED <<clock, sourceVars, runs, effectVars, faults>>

\* scoreAndPersist selects a last time before its transaction.
Reselect(w) ==
    /\ worker[w].pc = "reselect"
    /\ GoOn(w, Select(worker[w].input.source) = worker[w].input, "score")
    /\ UNCHANGED <<clock, sourceVars, runs, effectVars, faults>>

\* Slip: an opportunity of the candidate is reused, whatever input it is of.
ReusesCandidate(o, c, input) ==
    /\ opps[o].candidate = c
    /\ projectOf[opps[o].input.source] = projectOf[input.source]
    /\ opps[o].isCurrent

\* The row with the identity of candidate c in input.
Identifies(o, c, input) == opps[o].candidate = c /\ opps[o].input = input

\* Slip: the current opportunity of another input stays.
ExpiresNothing(o, created, input) == FALSE

\* The current opportunities of the project that give way: those of the
\* candidates that get a new row, or all where nothing was detected.
Expires(o, created, input) ==
    /\ projectOf[opps[o].input.source] = projectOf[input.source]
    /\ opps[o].isCurrent
    /\ \/ opps[o].candidate \in created
       \/ \A r \in results : r.input = input => r.candidates = {}

\* The transaction of scoreAndPersist.  It locks the project and reads the
\* result; neither the lease nor the input is read again.  A row that has the
\* identity of a candidate is reused while it is current, else it is an error.
ScoreAndPersist(w) ==
    LET input == worker[w].input
        result == CHOOSE r \in results : r.input = input
        existing(c) == {o \in DOMAIN opps : Identifies(o, c, input)}
        created == {c \in result.candidates : existing(c) = {}}
        consistent == \A c \in result.candidates : \A o \in existing(c) :
                         opps[o].isCurrent
        row(c) == [candidate |-> c, input |-> input, day |-> today,
                   isCurrent |-> TRUE]
    IN  /\ worker[w].pc = "score"
        /\ \/ /\ consistent
              /\ \E order \in [1..Cardinality(created) -> created] :
                   /\ \A c \in created : \E n \in DOMAIN order : order[n] = c
                   /\ opps' =
                        [o \in DOMAIN opps |->
                           [opps[o] EXCEPT !.isCurrent =
                              @ /\ ~Expires(o, created, input)]]
                        \o [n \in DOMAIN order |-> row(order[n])]
              /\ Goto(w, "complete")
           \/ /\ ~consistent
              /\ Fail(w, Permanent)
              /\ UNCHANGED opps
        /\ UNCHANGED <<clock, sourceVars, runs, results, faults>>

Complete(w) ==
    /\ worker[w].pc = "complete"
    /\ \/ /\ Owns(w)
          /\ ClearAll({worker[w].claim.run}, "succeeded")
          /\ EndTick(w)
       \/ ~Owns(w) /\ Fail(w, Permanent) /\ UNCHANGED runs
    /\ UNCHANGED <<clock, sourceVars, effectVars, faults>>

MayRetry(f, attempt) == f.retryable /\ attempt < MaxAttempts

\* failClaimed: one update under the lease sets the outcome and the retry time,
\* the provider's where it is later than the backoff.
FailClaimed(w) ==
    LET i == worker[w].claim.run
        f == worker[w].failure
        attempt == worker[w].claim.token
    IN  /\ worker[w].pc = "failing"
        /\ \/ /\ Owns(w) /\ MayRetry(f, attempt)
              /\ runs' = [runs EXCEPT ![i] =
                   [Cleared(runs[i], "failed_retryable") EXCEPT
                      !.retryAfterAt = Later(f.retryAfterAt,
                                             clock + Backoff(attempt))]]
           \/ /\ Owns(w) /\ ~MayRetry(f, attempt)
              /\ ClearAll({i}, "failed_terminal")
           \/ ~Owns(w) /\ UNCHANGED runs
        /\ EndTick(w)
        /\ UNCHANGED <<clock, sourceVars, effectVars, faults>>

-----------------------------------------------------------------------------
(* Faults, the other queues and time *)

\* A statement fails.  Before the claim and in failClaimed the exception leaves
\* executeTick; in an attempt it is transient or not, except that detection
\* takes every error of the database for a permanent one.
StatementFails(w) ==
    /\ faults < MaxFaults
    /\ faults' = faults + 1
    /\ \/ worker[w].pc \in Waiting \cup {"failing"} /\ EndTick(w)
       \/ /\ worker[w].pc \in {"load", "select", "check", "reselect", "score",
                               "complete"}
          /\ Fail(w, Transient)
       \/ worker[w].pc \in Executing \ {"failing"} /\ Fail(w, Permanent)
    /\ UNCHANGED <<clock, sourceVars, runs, effectVars>>

\* The process dies and is started again.
Crash(w) ==
    /\ faults < MaxFaults
    /\ faults' = faults + 1
    /\ worker[w] # Fresh
    /\ worker' = [worker EXCEPT ![w] = Fresh]
    /\ UNCHANGED <<clock, sourceVars, runs, effectVars>>

Shutdown(w) ==
    /\ faults < MaxFaults
    /\ faults' = faults + 1
    /\ ~worker[w].stopping
    /\ worker' = [worker EXCEPT ![w].stopping = TRUE]
    /\ UNCHANGED <<clock, sourceVars, runs, effectVars>>

Restart(w) ==
    /\ worker[w].pc = "idle"
    /\ worker[w].stopping
    /\ worker' = [worker EXCEPT ![w] = Fresh]
    /\ UNCHANGED <<clock, sourceVars, runs, effectVars, faults>>

\* An intelligence run of the project succeeds; its window ended today or on an
\* earlier day.
SourceSucceeds(p) ==
    /\ finished < MaxSources
    /\ finished' = finished + 1
    /\ projectOf' = [projectOf EXCEPT ![finished + 1] = p]
    /\ \E d \in 1..today : dayOf' = [dayOf EXCEPT ![finished + 1] = d]
    /\ UNCHANGED <<clock, today, gone, facts, runs, effectVars, worker, faults>>

\* The events or the state of the project change.
FactsChange(p) ==
    /\ facts[p] < MaxFacts
    /\ facts' = [facts EXCEPT ![p] = @ + 1]
    /\ UNCHANGED <<clock, today, projectOf, dayOf, finished, gone, runs,
                   effectVars, worker, faults>>

\* disconnectConnection: the sources of the project are deleted, and with them
\* their runs; results and opportunities stay.
Disconnect(p) ==
    /\ faults < MaxFaults
    /\ faults' = faults + 1
    /\ SourcesOf(p) # {}
    /\ gone' = gone \cup SourcesOf(p)
    /\ runs' = [i \in Runs |-> IF i \in RunsOf(p)
                               THEN [NoRow EXCEPT !.status = "deleted"]
                               ELSE runs[i]]
    /\ UNCHANGED <<clock, today, projectOf, dayOf, finished, facts, effectVars,
                   worker>>

NextDay ==
    /\ today < MaxDay
    /\ today' = today + 1
    /\ UNCHANGED <<clock, projectOf, dayOf, finished, gone, facts, runs,
                   effectVars, worker, faults>>

Tick ==
    /\ clock < MaxTime
    /\ clock' = clock + 1
    /\ UNCHANGED <<sourceVars, runs, effectVars, worker, faults>>

\* The maintenance and scheduling statements of a tick.
Maintain(w) ==
    \/ BeginTick(w)
    \/ TerminalizeExhausted(w)
    \/ TerminalizeStaleActiveRuns(w)
    \/ ListActiveRuns(w)
    \/ CompareInput(w)
    \/ EndCompare(w)
    \/ RequeueEligible(w)
    \/ ListSources(w)
    \/ PickSource(w)
    \/ EndSources(w)
    \/ InsertRun(w)

\* The statements of an attempt.
Execute(w) ==
    \/ ClaimNext(w)
    \/ EndOpportunityTick(w)
    \/ LoadClaimed(w)
    \/ SelectExpected(w)
    \/ DetectCandidates(w)
    \/ ModelAnswers(w)
    \/ ModelFails(w)
    \/ CheckDetection(w)
    \/ Reselect(w)
    \/ ScoreAndPersist(w)
    \/ Complete(w)
    \/ FailClaimed(w)

WorkerStep(w) == Maintain(w) \/ Execute(w) \/ Restart(w)

Next ==
    \/ Tick
    \/ NextDay
    \/ \E w \in Workers : \/ WorkerStep(w)
                          \/ CompareFails(w)
                          \/ ExtendLease(w)
                          \/ StatementFails(w)
                          \/ Crash(w)
                          \/ Shutdown(w)
    \/ \E p \in Projects : \/ SourceSucceeds(p)
                           \/ FactsChange(p)
                           \/ Disconnect(p)
                           \/ \E v \in Versions : EnqueueReprocessing(p, v)

Spec == Init /\ [][Next]_vars

\* Every tick of the sync worker ends by calling this worker, and every await
\* has a timeout.
FairSpec ==
    /\ Spec
    /\ WF_vars(Tick)
    /\ \A w \in Workers : WF_vars(WorkerStep(w))

-----------------------------------------------------------------------------
(* Properties *)

TypeOK ==
    /\ clock \in Time
    /\ today \in Days
    /\ projectOf \in [Sources -> Projects \cup {None}]
    /\ dayOf \in [Sources -> Days \cup {None}]
    /\ finished \in 0..MaxSources
    /\ gone \subseteq Sources
    /\ facts \in [Projects -> 0..MaxFacts]
    /\ runs \in [Runs -> Row]
    /\ \A r \in results : r \in Result
    /\ opps \in Seq(Opportunity)
    /\ Len(opps) \in OppIds \cup {0}
    /\ worker \in [Workers -> WorkerState]
    /\ faults \in 0..MaxFaults

\* No candidate of a project has two current opportunities, whichever inputs and
\* attempts they come from: the unique index never refuses an insert.
OneCurrentPerCandidate ==
    \A o, q \in DOMAIN opps :
        /\ opps[o].isCurrent /\ opps[q].isCurrent
        /\ opps[o].candidate = opps[q].candidate
        /\ projectOf[opps[o].input.source] = projectOf[opps[q].input.source]
        => o = q

\* A run that succeeded has a detection result for the input it was queued for,
\* and an opportunity of exactly that input for every candidate in it, though
\* several attempts, each with several selections, led to it.
SucceededIsPersisted ==
    \A i \in Runs : runs[i].status = "succeeded" =>
        \E r \in results :
            /\ r.input = runs[i].input
            /\ \A c \in r.candidates : \E o \in DOMAIN opps :
                 opps[o].candidate = c /\ opps[o].input = r.input

\* What a run persists may change the input of its source and so cause another
\* run, but not for ever: a source has at most one run, itself of no more than
\* MaxAttempts attempts, per revision of the facts and earlier opportunity it can
\* still expire.
RerunsAreBounded ==
    \A k \in Sources : \A v \in Versions :
        Cardinality({i \in Runs : /\ runs[i].input.source = k
                                  /\ runs[i].version = v})
          <= (MaxFacts + 1) * (1 + Cardinality(Visible(k)))

\* A run that succeeded or failed for good keeps that outcome.
OutcomeIsFinal ==
    [][\A i \in Runs : runs[i].status \in Settled =>
          runs'[i].status \in {runs[i].status, "deleted"}]_vars

\* The row of a run is not written by a worker whose lease passed to a later
\* claim.
LateWorkerWritesNothing ==
    [][\A w \in Workers :
          LET i == worker[w].claim.run IN
          /\ i # None
          /\ worker'[w] # worker[w]
          /\ worker[w].claim.token < runs[i].attempts
          => runs'[i] = runs[i]]_vars

\* A run whose opportunities an attempt persisted before it crashed is not
\* ended for a stale input while the facts are what they were: the retry finds
\* the persisted result and converges.
PersistedRunsConverge ==
    [][\A w \in Workers : \A i \in Runs :
          /\ worker[w].pc = "compare"
          /\ worker'[w] # worker[w]
          /\ faults' = faults
          /\ runs[i].status \in Active
          /\ \E o \in DOMAIN opps : opps[o].input = runs[i].input
          /\ facts[projectOf[runs[i].input.source]] = runs[i].input.facts
          => runs'[i].status # "failed_terminal"]_vars

\* Every run that is queued comes to an outcome, or its source is deleted: since
\* a project has one active run at a time, it has none again and again.
RunsSettle == \A p \in Projects : []<>~HasActive(p)

\* A source has a settled run for the input it has now.
Processed(k) ==
    \E i \in Runs : runs[i].input = Select(k) /\ runs[i].status \in Settled

\* The latest source of each project is processed with its latest input, though
\* facts change under running attempts and runs change their own input, unless
\* a newer source takes its place.
LatestInputIsProcessed ==
    \A k \in Sources : []<>(EligibleSource(k) => Processed(k))

\* The queue promises what LeasedQueue states.
Phase(status) ==
    CASE status = "none" -> "unborn"
      [] status = "queued" -> "waiting"
      [] status = "running" -> "executing"
      [] status = "failed_retryable" -> "deferred"
      [] status = "deleted" -> "gone"
      [] OTHER -> "done"

Queue == INSTANCE LeasedQueue WITH
            MaxStarts <- MaxAttempts,
            phase <- [i \in Runs |-> Phase(runs[i].status)],
            starts <- [i \in Runs |-> runs[i].attempts]

ImplementsLeasedQueue == Queue!Spec

OpportunityRecords == INSTANCE KeyedRecords WITH
    rows <- [o \in DOMAIN opps |->
               [key |-> <<opps[o].candidate, opps[o].input>>,
                subject |-> <<opps[o].candidate, projectOf[opps[o].input.source]>>,
                day |-> opps[o].day]],
    current <- {o \in DOMAIN opps : opps[o].isCurrent},
    answers <- [c \in {} |-> {}]

\* Opportunities are recorded as KeyedRecords states: one per candidate and input,
\* never rewritten, one current per candidate of a project (OneCurrentPerCandidate
\* is RecordsAreKeyed of its current rows), and one that expired never returns,
\* whichever attempts persist.
OpportunitiesImplementRecords == OpportunityRecords!RecordsSpec
=============================================================================
