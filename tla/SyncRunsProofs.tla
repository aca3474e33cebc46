--------------------------- MODULE SyncRunsProofs ---------------------------
(***************************************************************************)
(* Theorems about SyncRuns, for every set of repositories, workers and     *)
(* users, every bound and every setting of the worker's options.           *)
(***************************************************************************)
EXTENDS SyncRuns, TLAPS

LEMMA ConstantTypes ==
    /\ MaxRuns \in Nat \ {0} /\ MaxAttempts \in Nat \ {0}
    /\ LeaseDuration \in Nat /\ RetryBase \in Nat /\ Cadence \in Nat \ {0}
    /\ MaxTime \in Nat /\ MaxFaults \in Nat /\ Lookback \in Nat
    /\ Overlap \in Int
    /\ ProviderDelays \subseteq Int
BY PositiveConstants, WindowLengths

LEMMA NullValues ==
    /\ NoToken \in 0..MaxAttempts
    /\ NoTime \in Time \cup {NoTime} /\ NoTime \in Int
    /\ 0 \in Time
    /\ \A t \in Time \cup {NoTime} : t \in Int
BY ConstantTypes DEF NoToken, NoTime, Time

\* What an update of a run's lease columns and outcome leaves of the row.
LEMMA ReleasedRow ==
    ASSUME NEW row \in Row, NEW status \in Statuses
    PROVE  /\ Released(row, status) \in Row
           /\ Released(row, status).status = status
           /\ Released(row, status).repo = row.repo
           /\ Released(row, status).attempts = row.attempts
BY NullValues DEF Released, Row

LEMMA OutcomeRow ==
    ASSUME NEW row \in Row, NEW f \in Time \cup {NoTime}, NEW t \in Int
    PROVE  LET new == [row EXCEPT !.finishedAt = f, !.retryAfterAt = t]
           IN  /\ new \in Row
               /\ new.status = row.status
               /\ new.repo = row.repo
               /\ new.attempts = row.attempts
BY DEF Row

LEMMA StartedRow ==
    ASSUME NEW row \in Row, NEW s \in Time \cup {NoTime}
    PROVE  LET new == [row EXCEPT !.startedAt = s]
           IN  /\ new \in Row
               /\ new.status = row.status
               /\ new.repo = row.repo
               /\ new.attempts = row.attempts
BY DEF Row

LEMMA UpdateType ==
    ASSUME runs \in [RunIds -> Row], NEW ids \in SUBSET RunIds,
           NEW new \in [ids -> Row], Update(new)
    PROVE  runs' \in [RunIds -> Row]
BY DEF Update

-----------------------------------------------------------------------------
(* Type correctness *)

Labels == {"idle", "enqueue"} \cup Maintenance \cup Executing

LEMMA WorkerType ==
    ASSUME TypeOK, NEW w \in Workers, NEW s \in WorkerState,
           worker' = [worker EXCEPT ![w] = s]
    PROVE  worker' \in [Workers -> WorkerState]
BY DEF TypeOK

LEMMA GotoType ==
    ASSUME TypeOK, NEW w \in Workers, NEW label \in Labels, Goto(w, label)
    PROVE  worker' \in [Workers -> WorkerState]
BY DEF TypeOK, Goto, WorkerState, Labels

LEMMA FailType ==
    ASSUME TypeOK, NEW w \in Workers, NEW f \in Failure, Fail(w, f)
    PROVE  worker' \in [Workers -> WorkerState]
<1>1. worker[w] \in WorkerState
  BY DEF TypeOK
<1>2. [worker[w] EXCEPT !.pc = "failing", !.failure = f] \in WorkerState
  BY <1>1 DEF WorkerState, Executing
<1> QED BY <1>2, WorkerType DEF Fail

LEMMA FreshType == Fresh \in WorkerState
BY NullValues DEF Fresh, WorkerState, Claim, NoClaim, NoRun, Failure, Permanent

LEMMA EndTickType ==
    ASSUME TypeOK, NEW w \in Workers, EndTick(w)
    PROVE  worker' \in [Workers -> WorkerState]
<1>1. [Fresh EXCEPT !.stopping = worker[w].stopping] \in WorkerState
  BY FreshType DEF TypeOK, WorkerState
<1> QED BY <1>1 DEF TypeOK, EndTick

LEMMA ReturnType ==
    ASSUME TypeOK, NEW c \in Callers, Return(c)
    PROVE  call' \in [Callers -> Call \cup {NoCall}]
BY DEF TypeOK, Return

LEMMA LoadRepositoryType ==
    ASSUME TypeOK, NEW c \in Callers, NEW r \in Repos, NEW end \in Int,
           LoadRepository(c, r, end)
    PROVE  call' \in [Callers -> Call \cup {NoCall}]
BY DEF TypeOK, LoadRepository, Call

LEMMA UpdateOneType ==
    ASSUME TypeOK, NEW i, NEW row, i \in RunIds => row \in Row,
           runs' = [runs EXCEPT ![i] = row]
    PROVE  runs' \in [RunIds -> Row]
BY DEF TypeOK

LEMMA InitTypeOK == Init => TypeOK
BY ConstantTypes DEF Init, TypeOK, Time, RunIds, Row, NoRow, Statuses, NoTime,
   NoToken, WorkerState, Fresh, Claim, NoClaim, NoRun, Failure, Permanent,
   Call, NoCall

LEMMA CancelUnavailableRunsType ==
    ASSUME TypeOK, NEW w \in Workers, CancelUnavailableRuns(w)
    PROVE  TypeOK'
<1> DEFINE ids == {i \in RunIds : Orphaned(i)}
           new == [i \in ids |->
                     [Released(runs[i], "cancelled") EXCEPT
                        !.finishedAt = worker[w].now, !.retryAfterAt = NoTime]]
<1>1. new \in [ids -> Row]
  BY ReleasedRow, OutcomeRow, NullValues DEF TypeOK, WorkerState, Statuses
<1>2. runs' \in [RunIds -> Row]
  BY <1>1, UpdateType DEF CancelUnavailableRuns, TypeOK
<1>3. worker' \in [Workers -> WorkerState]
  BY GotoType, EndTickType DEF CancelUnavailableRuns, Labels, Maintenance
<1> QED BY <1>2, <1>3 DEF TypeOK, CancelUnavailableRuns, repoVars

LEMMA CancelSupersededType ==
    ASSUME TypeOK, NEW w \in Workers, CancelSupersededRetryableRuns(w)
    PROVE  TypeOK'
<1> DEFINE ids == {i \in RunIds : /\ runs[i].status = "failed_retryable"
                                  /\ Newer(i) # {}}
           new == [i \in ids |->
                     [Released(runs[i], "cancelled") EXCEPT
                        !.finishedAt = Coalesce(runs[i].finishedAt,
                                                worker[w].now),
                        !.retryAfterAt = NoTime]]
<1>1. new \in [ids -> Row]
  <2> SUFFICES ASSUME NEW i \in ids
               PROVE  new[i] \in Row
    OBVIOUS
  <2>1. Coalesce(runs[i].finishedAt, worker[w].now) \in Time \cup {NoTime}
    BY DEF Coalesce, TypeOK, WorkerState, Row
  <2> QED BY <2>1, ReleasedRow, OutcomeRow, NullValues DEF TypeOK, Statuses
<1>2. runs' \in [RunIds -> Row]
  BY <1>1, UpdateType DEF CancelSupersededRetryableRuns, TypeOK
<1>3. worker' \in [Workers -> WorkerState]
  BY GotoType DEF CancelSupersededRetryableRuns, Labels, Maintenance
<1> QED BY <1>2, <1>3 DEF TypeOK, CancelSupersededRetryableRuns, repoVars

LEMMA TerminalizeExhaustedType ==
    ASSUME TypeOK, NEW w \in Workers, TerminalizeExhaustedRuns(w)
    PROVE  TypeOK'
<1> DEFINE now == worker[w].now
           ids == {i \in RunIds : /\ runs[i].attempts >= MaxAttempts
                                  /\ \/ runs[i].status = "failed_retryable"
                                     \/ Expired(i, now)}
           new == [i \in ids |->
                     [Released(runs[i], "failed_terminal") EXCEPT
                        !.startedAt = Coalesce(runs[i].startedAt, now),
                        !.finishedAt = Coalesce(runs[i].finishedAt, now),
                        !.retryAfterAt = NoTime]]
<1>1. new \in [ids -> Row]
  <2> SUFFICES ASSUME NEW i \in ids
               PROVE  new[i] \in Row
    OBVIOUS
  <2> DEFINE first == [Released(runs[i], "failed_terminal") EXCEPT
                         !.startedAt = Coalesce(runs[i].startedAt, now)]
  <2>1. /\ Coalesce(runs[i].startedAt, now) \in Time \cup {NoTime}
        /\ Coalesce(runs[i].finishedAt, now) \in Time \cup {NoTime}
    BY DEF Coalesce, TypeOK, WorkerState, Row
  <2>2. first \in Row
    BY <2>1, ReleasedRow, StartedRow DEF TypeOK, Statuses
  <2>3. [first EXCEPT !.finishedAt = Coalesce(runs[i].finishedAt, now),
                      !.retryAfterAt = NoTime] \in Row
    BY <2>1, <2>2, OutcomeRow, NullValues
  <2> QED BY <2>3
<1>2. runs' \in [RunIds -> Row]
  BY <1>1, UpdateType DEF TerminalizeExhaustedRuns, TypeOK
<1>3. worker' \in [Workers -> WorkerState]
  BY GotoType DEF TerminalizeExhaustedRuns, Labels, Maintenance
<1> QED BY <1>2, <1>3 DEF TypeOK, TerminalizeExhaustedRuns, repoVars

LEMMA RequeueEligibleType ==
    ASSUME TypeOK, NEW w \in Workers, RequeueEligibleRuns(w)
    PROVE  TypeOK'
<1> DEFINE ids == {i \in RunIds : Requeueable(i, worker[w].now)}
           new == [i \in ids |->
                     [Released(runs[i], "queued") EXCEPT
                        !.startedAt = NoTime, !.finishedAt = NoTime,
                        !.retryAfterAt = NoTime]]
<1>1. new \in [ids -> Row]
  <2> SUFFICES ASSUME NEW i \in ids
               PROVE  new[i] \in Row
    OBVIOUS
  <2> DEFINE first == [Released(runs[i], "queued") EXCEPT !.startedAt = NoTime]
  <2>1. first \in Row
    BY ReleasedRow, StartedRow, NullValues DEF TypeOK, Statuses
  <2>2. [first EXCEPT !.finishedAt = NoTime, !.retryAfterAt = NoTime] \in Row
    BY <2>1, OutcomeRow, NullValues
  <2> QED BY <2>2
<1>2. runs' \in [RunIds -> Row]
  BY <1>1, UpdateType DEF RequeueEligibleRuns, TypeOK
<1>3. worker' \in [Workers -> WorkerState]
  BY GotoType DEF RequeueEligibleRuns, Labels, Maintenance
<1> QED BY <1>2, <1>3 DEF TypeOK, RequeueEligibleRuns, repoVars

LEMMA ListDueRepositoriesType ==
    ASSUME TypeOK, NEW w \in Workers, ListDueRepositories(w)
    PROVE  TypeOK'
<1>1. worker' \in [Workers -> WorkerState]
  <2>1. CASE Goto(w, "enqueue")
    BY <2>1, GotoType DEF Labels
  <2>2. ASSUME NEW batch \in SUBSET Repos,
               worker' = [worker EXCEPT ![w] =
                            [@ EXCEPT !.pc = "enqueue", !.todo = batch]]
        PROVE  worker' \in [Workers -> WorkerState]
    <3>1. worker[w] \in WorkerState
      BY DEF TypeOK
    <3>2. [worker[w] EXCEPT !.pc = "enqueue", !.todo = batch] \in WorkerState
      BY <3>1 DEF WorkerState
    <3> QED BY <2>2, <3>2, WorkerType
  <2> QED BY <2>1, <2>2 DEF ListDueRepositories
<1> QED BY <1>1 DEF TypeOK, ListDueRepositories, repoVars, runVars

LEMMA EnqueueScheduledType ==
    ASSUME TypeOK, NEW w \in Workers, EnqueueScheduled(w)
    PROVE  TypeOK'
<1>1. PICK r \in worker[w].todo :
         /\ worker' = [worker EXCEPT ![w].todo = @ \ {r}]
         /\ \/ LoadRepository(w, r, ScheduledWindowEnd(worker[w].now))
            \/ UNCHANGED call
  BY DEF EnqueueScheduled
<1>2. worker' \in [Workers -> WorkerState]
  BY <1>1 DEF TypeOK, WorkerState
<1>3. r \in Repos
  BY <1>1 DEF TypeOK, WorkerState
<1>4. ScheduledWindowEnd(worker[w].now) \in Int
  <2>1. worker[w].now \in Int
    BY NullValues DEF TypeOK, WorkerState
  <2> QED BY <2>1, ConstantTypes DEF ScheduledWindowEnd
<1>5. call' \in [Callers -> Call \cup {NoCall}]
  BY <1>1, <1>3, <1>4, LoadRepositoryType DEF TypeOK, Callers
<1> QED BY <1>2, <1>5 DEF TypeOK, EnqueueScheduled, repoVars, runVars

LEMMA StartManuallyType ==
    ASSUME TypeOK, NEW u \in Users, NEW r \in Repos, StartManually(u, r)
    PROVE  TypeOK'
<1>1. call' \in [Callers -> Call \cup {NoCall}]
  BY LoadRepositoryType, NullValues DEF StartManually, Callers
<1> QED BY <1>1 DEF TypeOK, StartManually, repoVars, runVars

LEMMA FindActiveRunType ==
    ASSUME TypeOK, NEW c \in Callers, FindActiveRun(c)
    PROVE  TypeOK'
<1>1. clock \in Int
  BY NullValues DEF TypeOK
<1>2. call' \in [Callers -> Call \cup {NoCall}]
  <2>1. CASE Return(c)
    BY <2>1, ReturnType
  <2>2. CASE call' = [call EXCEPT ![c] =
                         [@ EXCEPT
                            !.next = "insert",
                            !.windowEnd = Coalesce(call[c].windowEnd, clock)]]
    <3>1. call[c] \in Call
      BY DEF FindActiveRun, TypeOK
    <3>2. Coalesce(call[c].windowEnd, clock) \in Int
      BY <1>1, <3>1 DEF Call, Coalesce
    <3> QED BY <2>2, <3>1, <3>2 DEF TypeOK, Call
  <2> QED BY <2>1, <2>2 DEF FindActiveRun
<1> QED BY <1>2 DEF TypeOK, FindActiveRun, repoVars, runVars

LEMMA NewRunType ==
    ASSUME TypeOK, NEW c \in Call
    PROVE  /\ NewRun(c) \in Row
           /\ NewRun(c).status = "queued"
           /\ NewRun(c).repo = c.repo
           /\ NewRun(c).attempts = 0
<1>1. WindowStart(c) \in Int
  BY ConstantTypes DEF WindowStart, Call
<1>2. NoRow \in Row
  BY NullValues, ConstantTypes DEF NoRow, Row, Statuses
<1> QED BY <1>1, <1>2 DEF NewRun, NoRow, Row, Call, TypeOK, Statuses

LEMMA InsertRunType ==
    ASSUME TypeOK, NEW c \in Callers, InsertRun(c)
    PROVE  TypeOK'
<1>1. call' \in [Callers -> Call \cup {NoCall}]
  BY ReturnType DEF InsertRun
<1>2. runs' \in [RunIds -> Row] /\ created' \in 0..MaxRuns
  <2>1. CASE UNCHANGED runVars
    BY <2>1 DEF runVars, TypeOK
  <2>2. CASE /\ created < MaxRuns
             /\ created' = created + 1
             /\ runs' = [runs EXCEPT ![created + 1] = NewRun(call[c])]
    <3>1. call[c] \in Call
      BY DEF InsertRun, TypeOK
    <3>2. runs' \in [RunIds -> Row]
      BY <2>2, <3>1, NewRunType, UpdateOneType
    <3>3. created' \in 0..MaxRuns
      BY <2>2, ConstantTypes DEF TypeOK
    <3> QED BY <3>2, <3>3
  <2> QED BY <2>1, <2>2 DEF InsertRun
<1> QED BY <1>1, <1>2 DEF TypeOK, InsertRun, repoVars

LEMMA ClaimNextType ==
    ASSUME TypeOK, NEW w \in Workers, ClaimNext(w)
    PROVE  TypeOK'
<1> DEFINE now == worker[w].now
           attempt(i) == runs[i].attempts + 1
           claimed(i) ==
             [runs[i] EXCEPT !.status = "running",
                             !.startedAt = Coalesce(runs[i].startedAt, now),
                             !.finishedAt = NoTime, !.retryAfterAt = NoTime,
                             !.attempts = attempt(i),
                             !.leaseToken = attempt(i),
                             !.leaseExpiresAt = now + LeaseDuration]
<1>1. PICK i \in RunIds :
         /\ Claimable(i, now)
         /\ runs' = [runs EXCEPT ![i] = claimed(i)]
         /\ worker' = [worker EXCEPT ![w] =
              [@ EXCEPT !.pc = "load",
                        !.claim = [run |-> i, token |-> attempt(i)]]]
  BY DEF ClaimNext
<1>2. attempt(i) \in 0..MaxAttempts
  BY <1>1, ConstantTypes DEF Claimable, TypeOK, Row
<1>3. claimed(i) \in Row
  <2>1. now \in Time \cup {NoTime} /\ now + LeaseDuration \in Int
    BY NullValues, ConstantTypes DEF TypeOK, WorkerState
  <2>2. Coalesce(runs[i].startedAt, now) \in Time \cup {NoTime}
    BY <2>1 DEF Coalesce, TypeOK, Row
  <2>3. /\ runs[i] \in Row
        /\ attempt(i) \in Int
        /\ "running" \in Statuses
    BY <1>2 DEF TypeOK, Statuses
  <2> QED BY <1>2, <2>1, <2>2, <2>3, NullValues DEF Row
<1>4. runs' \in [RunIds -> Row]
  BY <1>1, <1>3 DEF TypeOK
<1>5. worker' \in [Workers -> WorkerState]
  <2>1. [run |-> i, token |-> attempt(i)] \in Claim
    BY <1>2 DEF Claim
  <2>2. [worker[w] EXCEPT !.pc = "load",
                          !.claim = [run |-> i, token |-> attempt(i)]]
          \in WorkerState
    BY <2>1 DEF TypeOK, WorkerState, Executing
  <2> QED BY <1>1, <2>2, WorkerType
<1> QED BY <1>4, <1>5 DEF TypeOK, ClaimNext, repoVars

LEMMA ExtendLeaseType ==
    ASSUME TypeOK, NEW w \in Workers, ExtendLease(w)
    PROVE  TypeOK'
<1>1. clock + LeaseDuration \in Int
  BY NullValues, ConstantTypes DEF TypeOK
<1> DEFINE i == worker[w].claim.run
<1>2. runs' = [runs EXCEPT ![i] =
                 [@ EXCEPT !.leaseExpiresAt = clock + LeaseDuration]]
  BY DEF ExtendLease
<1>3. i \in RunIds =>
        [runs[i] EXCEPT !.leaseExpiresAt = clock + LeaseDuration] \in Row
  BY <1>1 DEF TypeOK, Row
<1>4. runs' \in [RunIds -> Row]
  BY <1>2, <1>3, UpdateOneType
<1> QED BY <1>4 DEF TypeOK, ExtendLease, repoVars

LEMMA FailIngestionType ==
    ASSUME TypeOK, NEW w \in Workers, FailIngestion(w)
    PROVE  TypeOK'
<1>1. PICK f \in {Permanent}
                 \cup [retryable : {TRUE},
                       retryAfterAt : {NoTime} \cup
                                      {clock + d : d \in ProviderDelays}] :
         Fail(w, f)
  BY DEF FailIngestion
<1>2. \A d \in ProviderDelays : clock + d \in Int
  <2>1. clock \in Int
    BY NullValues DEF TypeOK
  <2>2. \A d \in ProviderDelays : d \in Int
    BY ConstantTypes
  <2> QED BY <2>1, <2>2
<1>3. f \in Failure
  <2>1. CASE f = Permanent
    BY <2>1, NullValues DEF Failure, Permanent
  <2>2. CASE f \in [retryable : {TRUE},
                    retryAfterAt : {NoTime} \cup
                                   {clock + d : d \in ProviderDelays}]
    BY <2>2, <1>2, NullValues DEF Failure
  <2> QED BY <2>1, <2>2
<1> QED BY <1>1, <1>3, FailType DEF TypeOK, FailIngestion, repoVars, runVars

LEMMA CompleteType ==
    ASSUME TypeOK, NEW w \in Workers, Complete(w)
    PROVE  TypeOK'
<1> DEFINE i == worker[w].claim.run
           r == runs[i].repo
           new == [Released(runs[i], "succeeded") EXCEPT
                     !.finishedAt = clock, !.retryAfterAt = NoTime]
<1>1. CASE /\ Owns(w)
           /\ Update([j \in {i} |-> new])
           /\ lastSuccessfulSyncAt' =
                [lastSuccessfulSyncAt EXCEPT ![r] = runs[i].windowEnd]
           /\ EndTick(w)
  <2>1. i \in RunIds
    BY <1>1 DEF Owns, TypeOK, WorkerState, Claim
  <2>2. new \in Row
    BY <2>1, ReleasedRow, OutcomeRow, NullValues DEF TypeOK, Statuses
  <2>3. runs' \in [RunIds -> Row]
    BY <1>1, <2>1, <2>2 DEF TypeOK, Update
  <2>4. lastSuccessfulSyncAt' \in [Repos -> Int]
    BY <1>1, <2>1 DEF TypeOK, Row
  <2> QED BY <1>1, <2>3, <2>4, EndTickType DEF TypeOK, Complete
<1>2. CASE Fail(w, Permanent) /\ UNCHANGED <<runs, lastSuccessfulSyncAt>>
  <2>1. Permanent \in Failure
    BY NullValues DEF Permanent, Failure
  <2> QED BY <1>2, <2>1, FailType DEF TypeOK, Complete
<1> QED BY <1>1, <1>2 DEF Complete

LEMMA RecordFailureType ==
    ASSUME TypeOK, NEW w \in Workers, RecordFailure(w)
    PROVE  TypeOK'
<1> DEFINE i == worker[w].claim.run
           f == worker[w].failure
           status == IF f.retryable THEN "failed_retryable"
                                    ELSE "failed_terminal"
           new == [Released(runs[i], status) EXCEPT
                     !.finishedAt = clock, !.retryAfterAt = f.retryAfterAt]
<1>1. runs' \in [RunIds -> Row]
  <2>1. CASE Owns(w) /\ Update([j \in {i} |-> new])
    <3>1. i \in RunIds
      BY <2>1 DEF Owns, TypeOK, WorkerState, Claim
    <3>2. status \in Statuses
      BY DEF Statuses
    <3>3. f.retryAfterAt \in Int
      BY DEF TypeOK, WorkerState, Failure
    <3>4. new \in Row
      BY <3>1, <3>2, <3>3, ReleasedRow, OutcomeRow DEF TypeOK
    <3> QED BY <2>1, <3>1, <3>4 DEF TypeOK, Update
  <2>2. CASE UNCHANGED runs
    BY <2>2 DEF TypeOK
  <2> QED BY <2>1, <2>2 DEF RecordFailure
<1>2. worker' \in [Workers -> WorkerState]
  BY GotoType DEF RecordFailure, Labels, Executing
<1> QED BY <1>1, <1>2 DEF TypeOK, RecordFailure, repoVars

LEMMA BackoffType == ASSUME NEW a \in Nat PROVE Backoff(a) \in Int
BY ConstantTypes DEF Backoff

LEMMA DeferRetryType ==
    ASSUME TypeOK, NEW w \in Workers, DeferRetry(w)
    PROVE  TypeOK'
<1> DEFINE i == worker[w].claim.run
           attempt == worker[w].claim.token
           retryAt == Later(worker[w].failure.retryAfterAt,
                            clock + Backoff(attempt))
           new == IF LastAttempt(attempt)
                  THEN [runs[i] EXCEPT !.status = "failed_terminal",
                                       !.retryAfterAt = NoTime]
                  ELSE [runs[i] EXCEPT !.retryAfterAt = retryAt]
<1>1. retryAt \in Int
  <2>1. attempt \in Nat
    BY ConstantTypes DEF TypeOK, WorkerState, Claim
  <2>2. worker[w].failure.retryAfterAt \in Int
    BY DEF TypeOK, WorkerState, Failure
  <2>3. clock + Backoff(attempt) \in Int
    BY <2>1, BackoffType, NullValues DEF TypeOK
  <2> QED BY <2>2, <2>3 DEF Later
<1>2. i \in RunIds => new \in Row
  <2> HAVE i \in RunIds
  <2>1. runs[i] \in Row
    BY DEF TypeOK
  <2>2. [runs[i] EXCEPT !.status = "failed_terminal",
                        !.retryAfterAt = NoTime] \in Row
    BY <2>1, NullValues DEF Row, Statuses
  <2>3. \A t \in Int : [runs[i] EXCEPT !.retryAfterAt = t] \in Row
    BY <2>1 DEF Row
  <2> QED BY <1>1, <2>2, <2>3
<1>3. runs' \in [RunIds -> Row]
  <2>1. CASE runs' = [runs EXCEPT ![i] = new]
    BY <2>1, <1>2, UpdateOneType
  <2>2. CASE UNCHANGED runs
    BY <2>2 DEF TypeOK
  <2> QED BY <2>1, <2>2 DEF DeferRetry
<1>4. worker' \in [Workers -> WorkerState]
  BY EndTickType DEF DeferRetry
<1> QED BY <1>3, <1>4 DEF TypeOK, DeferRetry, repoVars

LEMMA StatementFailsType ==
    ASSUME TypeOK, NEW w \in Workers, StatementFails(w)
    PROVE  TypeOK'
<1>1. faults' \in 0..MaxFaults
  BY ConstantTypes DEF StatementFails, TypeOK
<1>2. worker' \in [Workers -> WorkerState]
  <2>1. CASE EndTick(w)
    BY <2>1, EndTickType
  <2>2. ASSUME NEW r,
               worker' = [worker EXCEPT ![w].todo = @ \ {r}]
        PROVE  worker' \in [Workers -> WorkerState]
    BY <2>2 DEF TypeOK, WorkerState
  <2>3. CASE Goto(w, "defer")
    BY <2>3, GotoType DEF Labels, Executing
  <2> QED BY <2>1, <2>2, <2>3 DEF StatementFails, TypeOK
<1>3. call' \in [Callers -> Call \cup {NoCall}]
  BY ReturnType DEF StatementFails, TypeOK, Callers
<1> QED BY <1>1, <1>2, <1>3 DEF TypeOK, StatementFails, repoVars, runVars

LEMMA FaultType ==
    ASSUME TypeOK, NEW w \in Workers, Crash(w) \/ Shutdown(w) \/ Restart(w)
    PROVE  TypeOK'
<1>1. CASE Crash(w)
  BY <1>1, ConstantTypes, FreshType, WorkerType, ReturnType
     DEF Crash, TypeOK, repoVars, runVars, Callers
<1>2. CASE Shutdown(w)
  <2>1. worker' \in [Workers -> WorkerState]
    <3>1. worker[w] \in WorkerState
      BY DEF TypeOK
    <3>2. [worker[w] EXCEPT !.stopping = TRUE] \in WorkerState
      BY <3>1 DEF WorkerState
    <3> QED BY <1>2, <3>2, WorkerType DEF Shutdown
  <2> QED BY <1>2, <2>1, ConstantTypes DEF Shutdown, TypeOK, repoVars, runVars
<1>3. CASE Restart(w)
  BY <1>3, FreshType, WorkerType DEF Restart, TypeOK, repoVars, runVars
<1> QED BY <1>1, <1>2, <1>3

LEMMA RepositoryType ==
    ASSUME TypeOK, NEW r \in Repos,
           ConnectRepository(r) \/ BecomeUnavailable(r) \/ Disconnect(r)
    PROVE  TypeOK'
<1>1. CASE ConnectRepository(r)
  BY <1>1 DEF ConnectRepository, TypeOK, runVars
<1>2. CASE BecomeUnavailable(r)
  BY <1>2, ConstantTypes DEF BecomeUnavailable, TypeOK, runVars
<1>3. CASE Disconnect(r)
  <2>1. [NoRow EXCEPT !.status = "deleted"] \in Row
    BY NullValues, ConstantTypes DEF NoRow, Row, Statuses
  <2>2. runs' \in [RunIds -> Row]
    BY <1>3, <2>1 DEF Disconnect, Update, TypeOK
  <2> QED BY <1>3, <2>2, NullValues, ConstantTypes DEF Disconnect, TypeOK
<1> QED BY <1>1, <1>2, <1>3

LEMMA ReadOnlyStepType ==
    ASSUME TypeOK, NEW w \in Workers,
           BeginTick(w) \/ EndSyncTick(w) \/ LoadClaimed(w)
    PROVE  TypeOK'
<1>1. CASE BeginTick(w)
  <2>1. worker' \in [Workers -> WorkerState]
    <3>1. worker[w] \in WorkerState /\ clock \in Time
      BY DEF TypeOK
    <3>2. \A pc \in Maintenance :
            [worker[w] EXCEPT !.pc = pc, !.now = clock] \in WorkerState
      BY <3>1 DEF WorkerState
    <3> QED BY <1>1, <3>2, WorkerType DEF BeginTick, Maintenance
  <2> QED BY <1>1, <2>1 DEF BeginTick, TypeOK, repoVars, runVars
<1>2. CASE EndSyncTick(w)
  BY <1>2, EndTickType DEF EndSyncTick, TypeOK, repoVars, runVars
<1>3. CASE LoadClaimed(w)
  BY <1>3, GotoType
     DEF LoadClaimed, Labels, Executing, TypeOK, repoVars, runVars
<1> QED BY <1>1, <1>2, <1>3

LEMMA NextType == TypeOK /\ [Next]_vars => TypeOK'
<1> SUFFICES ASSUME TypeOK, [Next]_vars
             PROVE  TypeOK'
  OBVIOUS
<1>1. ASSUME NEW w \in Workers, WorkerStep(w)
      PROVE  TypeOK'
  <2>1. w \in Callers
    BY DEF Callers
  <2> QED BY <1>1, <2>1, ReadOnlyStepType, CancelUnavailableRunsType,
             CancelSupersededType, TerminalizeExhaustedType,
             RequeueEligibleType, ListDueRepositoriesType,
             EnqueueScheduledType, FindActiveRunType, InsertRunType,
             ClaimNextType, FailIngestionType, CompleteType,
             RecordFailureType, DeferRetryType, FaultType
          DEF WorkerStep
<1>2. ASSUME NEW w \in Workers,
             ExtendLease(w) \/ StatementFails(w) \/ Crash(w) \/ Shutdown(w)
      PROVE  TypeOK'
  BY <1>2, ExtendLeaseType, StatementFailsType, FaultType
<1>3. ASSUME NEW u \in Users,
             \/ \E r \in Repos : StartManually(u, r)
             \/ FindActiveRun(u) \/ InsertRun(u)
      PROVE  TypeOK'
  BY <1>3, StartManuallyType, FindActiveRunType, InsertRunType DEF Callers
<1>4. ASSUME NEW r \in Repos,
             ConnectRepository(r) \/ BecomeUnavailable(r) \/ Disconnect(r)
      PROVE  TypeOK'
  BY <1>4, RepositoryType
<1>5. CASE Tick
  BY <1>5, ConstantTypes DEF Tick, TypeOK, Time, repoVars, runVars
<1>6. CASE UNCHANGED vars
  BY <1>6 DEF vars, repoVars, runVars, TypeOK
<1> QED BY <1>1, <1>2, <1>3, <1>4, <1>5, <1>6 DEF Next

\* Every variable keeps its type: in particular no claim ever counts an attempt
\* beyond MaxAttempts, whoever claims and however late (claimNext), and no
\* more than MaxRuns rows are created.
THEOREM TypeCorrect == Spec => []TypeOK
<1>1. Init => TypeOK
  BY InitTypeOK
<1>2. TypeOK /\ [Next]_vars => TypeOK'
  BY NextType
<1> QED BY <1>1, <1>2, PTL DEF Spec

-----------------------------------------------------------------------------
(* What a step may do to a row that exists                                   *)

\* The moves of a row that stays in its repository.
RowStep(i) ==
    LET old == runs[i]
        new == runs'[i]
    IN  /\ new.repo = old.repo
        /\ \/ /\ new.status = old.status
              /\ new.attempts = old.attempts
           \/ /\ old.status \in Active
              /\ new.status = "running"
              /\ old.attempts < MaxAttempts
              /\ new.attempts = old.attempts + 1
           \/ /\ old.status = "running"
              /\ new.status = "failed_retryable"
              /\ new.attempts = old.attempts
           \/ /\ old.status = "failed_retryable"
              /\ new.status = "queued"
              /\ old.attempts < MaxAttempts
              /\ new.attempts = old.attempts
              /\ Newer(i) = {}
           \/ /\ old.status \in Active \cup {"failed_retryable"}
              /\ new.status \in Settled
              /\ new.attempts = old.attempts

RowSteps == \A i \in RunIds : RowStep(i)

LEMMA UnchangedRows == ASSUME UNCHANGED runs PROVE RowSteps
BY DEF RowSteps, RowStep

\* The fields of a row after the updates the statements are built from.
LEMMA OutcomeFields ==
    ASSUME NEW row \in Row, NEW status, NEW f, NEW t
    PROVE  LET new == [Released(row, status) EXCEPT !.finishedAt = f,
                                                    !.retryAfterAt = t]
           IN  /\ new.status = status
               /\ new.repo = row.repo
               /\ new.attempts = row.attempts
BY DEF Row, Released

LEMMA RestartedFields ==
    ASSUME NEW row \in Row, NEW status, NEW s, NEW f, NEW t
    PROVE  LET new == [Released(row, status) EXCEPT !.startedAt = s,
                                                    !.finishedAt = f,
                                                    !.retryAfterAt = t]
           IN  /\ new.status = status
               /\ new.repo = row.repo
               /\ new.attempts = row.attempts
BY DEF Row, Released

LEMMA CancelSteps ==
    ASSUME TypeOK, NEW w \in Workers, CancelUnavailableRuns(w)
    PROVE  RowSteps
<1> DEFINE new(i) == [Released(runs[i], "cancelled") EXCEPT
                        !.finishedAt = worker[w].now, !.retryAfterAt = NoTime]
<1>1. CASE UNCHANGED runs
  BY <1>1, UnchangedRows
<1>2. CASE Update([i \in {i \in RunIds : Orphaned(i)} |-> new(i)])
  <2> SUFFICES ASSUME NEW i \in RunIds
               PROVE  RowStep(i)
    BY DEF RowSteps
  <2>1. runs'[i] = IF Orphaned(i) THEN new(i) ELSE runs[i]
    BY <1>2 DEF Update
  <2>2. /\ new(i).status = "cancelled"
        /\ new(i).repo = runs[i].repo
        /\ new(i).attempts = runs[i].attempts
    BY OutcomeFields DEF TypeOK
  <2> QED BY <2>1, <2>2 DEF RowStep, Orphaned, Settled
<1> QED BY <1>1, <1>2 DEF CancelUnavailableRuns

LEMMA SupersedeSteps ==
    ASSUME TypeOK, NEW w \in Workers, CancelSupersededRetryableRuns(w)
    PROVE  RowSteps
<1> DEFINE new(i) == [Released(runs[i], "cancelled") EXCEPT
                        !.finishedAt = Coalesce(runs[i].finishedAt,
                                                worker[w].now),
                        !.retryAfterAt = NoTime]
           chosen(i) == runs[i].status = "failed_retryable" /\ Newer(i) # {}
<1> SUFFICES ASSUME NEW i \in RunIds
             PROVE  RowStep(i)
  BY DEF RowSteps
<1>1. runs'[i] = IF chosen(i) THEN new(i) ELSE runs[i]
  BY DEF CancelSupersededRetryableRuns, Update
<1>2. /\ new(i).status = "cancelled"
      /\ new(i).repo = runs[i].repo
      /\ new(i).attempts = runs[i].attempts
  BY OutcomeFields DEF TypeOK
<1> QED BY <1>1, <1>2 DEF RowStep, Settled

LEMMA ExhaustSteps ==
    ASSUME TypeOK, NEW w \in Workers, TerminalizeExhaustedRuns(w)
    PROVE  RowSteps
<1> DEFINE now == worker[w].now
           new(i) == [Released(runs[i], "failed_terminal") EXCEPT
                        !.startedAt = Coalesce(runs[i].startedAt, now),
                        !.finishedAt = Coalesce(runs[i].finishedAt, now),
                        !.retryAfterAt = NoTime]
           chosen(i) == /\ runs[i].attempts >= MaxAttempts
                        /\ \/ runs[i].status = "failed_retryable"
                           \/ Expired(i, now)
<1> SUFFICES ASSUME NEW i \in RunIds
             PROVE  RowStep(i)
  BY DEF RowSteps
<1>1. runs'[i] = IF chosen(i) THEN new(i) ELSE runs[i]
  BY DEF TerminalizeExhaustedRuns, Update
<1>2. /\ new(i).status = "failed_terminal"
      /\ new(i).repo = runs[i].repo
      /\ new(i).attempts = runs[i].attempts
  BY RestartedFields DEF TypeOK
<1> HIDE DEF new
<1> QED BY <1>1, <1>2 DEF RowStep, Settled, Active, Expired

LEMMA RequeueSteps ==
    ASSUME TypeOK, NEW w \in Workers, RequeueEligibleRuns(w)
    PROVE  RowSteps
<1> DEFINE new(i) == [Released(runs[i], "queued") EXCEPT
                        !.startedAt = NoTime, !.finishedAt = NoTime,
                        !.retryAfterAt = NoTime]
<1> SUFFICES ASSUME NEW i \in RunIds
             PROVE  RowStep(i)
  BY DEF RowSteps
<1>1. runs'[i] = IF Requeueable(i, worker[w].now) THEN new(i) ELSE runs[i]
  BY DEF RequeueEligibleRuns, Update
<1>2. /\ new(i).status = "queued"
      /\ new(i).repo = runs[i].repo
      /\ new(i).attempts = runs[i].attempts
  BY RestartedFields DEF TypeOK
<1> HIDE DEF new
<1> QED BY <1>1, <1>2 DEF RowStep, Requeueable

LEMMA ClaimSteps ==
    ASSUME TypeOK, NEW w \in Workers, ClaimNext(w)
    PROVE  RowSteps
<1> DEFINE now == worker[w].now
           claimed(i) ==
             [runs[i] EXCEPT !.status = "running",
                             !.startedAt = Coalesce(runs[i].startedAt, now),
                             !.finishedAt = NoTime, !.retryAfterAt = NoTime,
                             !.attempts = runs[i].attempts + 1,
                             !.leaseToken = runs[i].attempts + 1,
                             !.leaseExpiresAt = now + LeaseDuration]
<1>1. PICK i \in RunIds :
         /\ Claimable(i, now)
         /\ runs' = [runs EXCEPT ![i] = claimed(i)]
  BY DEF ClaimNext
<1>2. \A j \in RunIds \ {i} : runs'[j] = runs[j]
  BY <1>1 DEF TypeOK
<1>3. runs'[i] = claimed(i)
  BY <1>1 DEF TypeOK
<1>4. /\ claimed(i).status = "running"
      /\ claimed(i).repo = runs[i].repo
      /\ claimed(i).attempts = runs[i].attempts + 1
  BY DEF TypeOK, Row
<1> HIDE DEF claimed
<1>5. RowStep(i)
  BY <1>1, <1>3, <1>4 DEF RowStep, Claimable, Expired, Active
<1> QED BY <1>2, <1>5 DEF RowSteps, RowStep

LEMMA ExtendLeaseSteps ==
    ASSUME TypeOK, NEW w \in Workers, ExtendLease(w)
    PROVE  RowSteps
<1> SUFFICES ASSUME NEW i \in RunIds
             PROVE  RowStep(i)
  BY DEF RowSteps
<1>1. CASE i = worker[w].claim.run
  BY <1>1 DEF ExtendLease, RowStep, TypeOK, Row
<1>2. CASE i # worker[w].claim.run
  BY <1>2 DEF ExtendLease, RowStep, TypeOK
<1> QED BY <1>1, <1>2

LEMMA CompleteSteps ==
    ASSUME TypeOK, NEW w \in Workers, Complete(w)
    PROVE  RowSteps
<1> DEFINE i == worker[w].claim.run
           new == [Released(runs[i], "succeeded") EXCEPT
                     !.finishedAt = clock, !.retryAfterAt = NoTime]
<1>1. CASE Owns(w) /\ Update([j \in {i} |-> new])
  <2>1. i \in RunIds /\ runs[i].status = "running"
    BY <1>1 DEF Owns, TypeOK, WorkerState, Claim
  <2>2. /\ new.status = "succeeded"
        /\ new.repo = runs[i].repo
        /\ new.attempts = runs[i].attempts
    BY <2>1, OutcomeFields DEF TypeOK
  <2>3. \A j \in RunIds : runs'[j] = IF j = i THEN new ELSE runs[j]
    BY <1>1 DEF Update
  <2> QED BY <2>1, <2>2, <2>3 DEF RowSteps, RowStep, Settled, Active
<1>2. CASE UNCHANGED runs
  BY <1>2, UnchangedRows
<1> QED BY <1>1, <1>2 DEF Complete

LEMMA RecordFailureSteps ==
    ASSUME TypeOK, NEW w \in Workers, RecordFailure(w)
    PROVE  RowSteps
<1> DEFINE i == worker[w].claim.run
           f == worker[w].failure
           status == IF f.retryable THEN "failed_retryable"
                                    ELSE "failed_terminal"
           new == [Released(runs[i], status) EXCEPT
                     !.finishedAt = clock, !.retryAfterAt = f.retryAfterAt]
<1>1. CASE Owns(w) /\ Update([j \in {i} |-> new])
  <2>1. i \in RunIds /\ runs[i].status = "running"
    BY <1>1 DEF Owns, TypeOK, WorkerState, Claim
  <2>2. /\ new.status = status
        /\ new.repo = runs[i].repo
        /\ new.attempts = runs[i].attempts
    BY <2>1, OutcomeFields DEF TypeOK
  <2>3. \A j \in RunIds : runs'[j] = IF j = i THEN new ELSE runs[j]
    BY <1>1 DEF Update
  <2> QED BY <2>1, <2>2, <2>3 DEF RowSteps, RowStep, Settled, Active
<1>2. CASE UNCHANGED runs
  BY <1>2, UnchangedRows
<1> QED BY <1>1, <1>2 DEF RecordFailure

LEMMA DeferRetrySteps ==
    ASSUME TypeOK, NEW w \in Workers, DeferRetry(w)
    PROVE  RowSteps
<1> DEFINE i == worker[w].claim.run
           last == [runs[i] EXCEPT !.status = "failed_terminal",
                                   !.retryAfterAt = NoTime]
<1>1. CASE UNCHANGED runs
  BY <1>1, UnchangedRows
<1>2. ASSUME NEW t, runs[i].status = "failed_retryable",
             \/ runs' = [runs EXCEPT ![i] = last]
             \/ runs' = [runs EXCEPT ![i] = [runs[i] EXCEPT
                                              !.retryAfterAt = t]]
      PROVE  RowSteps
  <2> SUFFICES ASSUME NEW j \in RunIds
               PROVE  RowStep(j)
    BY DEF RowSteps
  <2>1. CASE j = i
    <3>1. runs[i] \in Row
      BY <2>1 DEF TypeOK
    <3>2. runs'[i] = last \/ runs'[i] = [runs[i] EXCEPT !.retryAfterAt = t]
      BY <1>2, <2>1 DEF TypeOK
    <3>3. /\ runs'[i].repo = runs[i].repo
          /\ runs'[i].attempts = runs[i].attempts
          /\ runs'[i].status \in {"failed_terminal", runs[i].status}
      BY <3>1, <3>2 DEF Row
    <3> QED BY <1>2, <2>1, <3>3 DEF RowStep, Settled
  <2>2. CASE j # i
    BY <1>2, <2>2 DEF RowStep, TypeOK
  <2> QED BY <2>1, <2>2
<1> QED BY <1>1, <1>2 DEF DeferRetry

\* The insert of InsertRun takes place.
Inserts(c) ==
    /\ call[c] \in Call
    /\ Insertable(call[c])
    /\ created < MaxRuns
    /\ created' = created + 1
    /\ runs' = [runs EXCEPT ![created + 1] = NewRun(call[c])]

\* A step creates a run, deletes the runs of a repository, or moves rows.
LEMMA StepKinds ==
    ASSUME TypeOK, [Next]_vars
    PROVE  \/ RowSteps /\ UNCHANGED created
           \/ \E c \in Callers : Inserts(c)
           \/ \E r \in Repos : Disconnect(r)
<1>1. ASSUME NEW c \in Callers, InsertRun(c)
      PROVE  Inserts(c) \/ (RowSteps /\ UNCHANGED created)
  BY <1>1, UnchangedRows DEF InsertRun, Inserts, TypeOK, runVars
<1>2. ASSUME NEW c \in Callers, FindActiveRun(c)
      PROVE  RowSteps /\ UNCHANGED created
  BY <1>2, UnchangedRows DEF FindActiveRun, runVars
<1>3. ASSUME NEW w \in Workers, WorkerStep(w), ~InsertRun(w)
      PROVE  RowSteps /\ UNCHANGED created
  <2>1. CASE \/ BeginTick(w) \/ ListDueRepositories(w) \/ EnqueueScheduled(w)
             \/ EndSyncTick(w) \/ LoadClaimed(w) \/ FailIngestion(w)
             \/ Restart(w)
    BY <2>1, UnchangedRows
       DEF BeginTick, ListDueRepositories, EnqueueScheduled, EndSyncTick,
           LoadClaimed, FailIngestion, Restart, runVars
  <2>2. CASE FindActiveRun(w)
    BY <2>2, <1>2 DEF Callers
  <2>3. CASE CancelUnavailableRuns(w)
    BY <2>3, CancelSteps DEF CancelUnavailableRuns
  <2>4. CASE CancelSupersededRetryableRuns(w)
    BY <2>4, SupersedeSteps DEF CancelSupersededRetryableRuns
  <2>5. CASE TerminalizeExhaustedRuns(w)
    BY <2>5, ExhaustSteps DEF TerminalizeExhaustedRuns
  <2>6. CASE RequeueEligibleRuns(w)
    BY <2>6, RequeueSteps DEF RequeueEligibleRuns
  <2>7. CASE ClaimNext(w)
    BY <2>7, ClaimSteps DEF ClaimNext
  <2>8. CASE Complete(w)
    BY <2>8, CompleteSteps DEF Complete
  <2>9. CASE RecordFailure(w)
    BY <2>9, RecordFailureSteps DEF RecordFailure
  <2>10. CASE DeferRetry(w)
    BY <2>10, DeferRetrySteps DEF DeferRetry
  <2> QED BY <1>3, <2>1, <2>2, <2>3, <2>4, <2>5, <2>6, <2>7, <2>8, <2>9,
             <2>10 DEF WorkerStep
<1>4. ASSUME NEW w \in Workers,
             ExtendLease(w) \/ StatementFails(w) \/ Crash(w) \/ Shutdown(w)
      PROVE  RowSteps /\ UNCHANGED created
  <2>1. CASE ExtendLease(w)
    BY <2>1, ExtendLeaseSteps DEF ExtendLease
  <2>2. CASE StatementFails(w) \/ Crash(w) \/ Shutdown(w)
    BY <2>2, UnchangedRows DEF StatementFails, Crash, Shutdown, runVars
  <2> QED BY <1>4, <2>1, <2>2
<1>5. ASSUME NEW u \in Users, NEW r \in Repos, StartManually(u, r)
      PROVE  RowSteps /\ UNCHANGED created
  BY <1>5, UnchangedRows DEF StartManually, runVars
<1>6. ASSUME NEW r \in Repos, ConnectRepository(r) \/ BecomeUnavailable(r)
      PROVE  RowSteps /\ UNCHANGED created
  BY <1>6, UnchangedRows DEF ConnectRepository, BecomeUnavailable, runVars
<1>7. CASE Tick \/ UNCHANGED vars
  BY <1>7, UnchangedRows DEF Tick, vars, runVars
<1>8. CASE \E w \in Workers : WorkerStep(w)
  <2>1. PICK w \in Workers : WorkerStep(w)
    BY <1>8
  <2>2. w \in Callers
    BY DEF Callers
  <2> QED BY <2>1, <2>2, <1>1, <1>3
<1>9. CASE \E u \in Users : \/ \E r \in Repos : StartManually(u, r)
                           \/ FindActiveRun(u) \/ InsertRun(u)
  <2>1. Users \subseteq Callers
    BY DEF Callers
  <2> QED BY <1>9, <2>1, <1>1, <1>2, <1>5
<1> QED BY <1>4, <1>6, <1>7, <1>8, <1>9 DEF Next

-----------------------------------------------------------------------------
(* At most one active run of a repository, and none older than another run   *)

\* Rows that were not created yet are blank.
RowsInOrder ==
    \A i \in RunIds : i > created =>
        /\ runs[i].status = "none"
        /\ runs[i].repo = "none"
        /\ runs[i].attempts = 0

\* A row a disconnection blanked is a newer run of no other run.
RowsHaveRepository ==
    \A i \in RunIds :
        runs[i].status \notin {"none", "deleted"} => runs[i].repo \in Repos

IInv == TypeOK /\ ActiveIsNewest /\ RowsInOrder /\ RowsHaveRepository

LEMMA InitIInv == Init => IInv
BY InitTypeOK, ConstantTypes
   DEF Init, IInv, ActiveIsNewest, RowsInOrder, RowsHaveRepository, NoRow,
       Active

\* No move of existing rows makes a run active whose repository has a newer one.
LEMMA RowStepsIInv ==
    ASSUME IInv, TypeOK', RowSteps, UNCHANGED created
    PROVE  IInv'
<1>1. \A i \in RunIds : runs'[i].repo = runs[i].repo
  BY DEF RowSteps, RowStep
<1>2. \A i \in RunIds : Newer(i)' = Newer(i)
  BY <1>1 DEF Newer, RunsOf
<1>3. \A i \in RunIds : runs'[i].status \in Active =>
         runs[i].status \in Active \/ Newer(i) = {}
  BY DEF RowSteps, RowStep, Active, Settled
<1>4. ActiveIsNewest'
  BY <1>2, <1>3 DEF IInv, ActiveIsNewest
<1>5. RowsInOrder'
  BY <1>1 DEF IInv, RowsInOrder, RowSteps, RowStep, Active
<1>6. RowsHaveRepository'
  <2> SUFFICES ASSUME NEW i \in RunIds,
                      runs'[i].status \notin {"none", "deleted"}
               PROVE  runs[i].repo \in Repos
    BY <1>1 DEF RowsHaveRepository
  <2>1. runs[i].status \notin {"none", "deleted"}
    BY DEF RowSteps, RowStep, Active
  <2> QED BY <2>1 DEF IInv, RowsHaveRepository
<1> QED BY <1>4, <1>5, <1>6 DEF IInv

\* The unique index lets a run be created only where no run is active, and the
\* new run is the newest.
LEMMA InsertsIInv ==
    ASSUME IInv, TypeOK', NEW c \in Callers, Inserts(c)
    PROVE  IInv'
<1> DEFINE n == created + 1
           r == call[c].repo
<1>1. n \in RunIds /\ r \in Repos /\ r # "none"
  BY ConstantTypes, NoneIsNoRepository
     DEF IInv, TypeOK, Inserts, RunIds, Call
<1>2. /\ runs'[n].status = "queued"
      /\ runs'[n].repo = r
  BY <1>1, NewRunType DEF IInv, TypeOK, Inserts
<1>3. \A i \in RunIds \ {n} : runs'[i] = runs[i]
  BY DEF IInv, TypeOK, Inserts
<1>4. ActiveIsNewest'
  <2> SUFFICES ASSUME NEW i \in RunIds, runs'[i].status \in Active,
                      NEW j \in RunIds, j > i, runs'[j].repo = runs'[i].repo
               PROVE  FALSE
    BY DEF ActiveIsNewest, Newer, RunsOf
  <2>1. CASE i = n
    <3>1. j > created /\ j # n
      BY <2>1 DEF IInv, TypeOK, RunIds
    <3>2. runs'[j].repo = "none"
      BY <1>3, <3>1 DEF IInv, RowsInOrder
    <3> QED BY <1>1, <1>2, <2>1, <3>2
  <2>2. CASE i # n /\ j = n
    <3>1. i \in RunsOf(r) /\ runs[i].status \in Active
      BY <1>2, <1>3, <2>2 DEF RunsOf
    <3> QED BY <3>1 DEF Inserts, Insertable, HasActive
  <2>3. CASE i # n /\ j # n
    <3>1. j \in Newer(i) /\ runs[i].status \in Active
      BY <1>3, <2>3 DEF Newer, RunsOf
    <3> QED BY <3>1 DEF IInv, ActiveIsNewest
  <2> QED BY <2>1, <2>2, <2>3
<1>5. RowsInOrder'
  <2> SUFFICES ASSUME NEW i \in RunIds, i > created'
               PROVE  i # n /\ i > created
    BY <1>3 DEF IInv, RowsInOrder
  <2> QED BY DEF Inserts, IInv, TypeOK, RunIds
<1>6. RowsHaveRepository'
  BY <1>1, <1>2, <1>3 DEF IInv, RowsHaveRepository
<1> QED BY <1>4, <1>5, <1>6 DEF IInv

LEMMA DisconnectIInv ==
    ASSUME IInv, TypeOK', NEW r \in Repos, Disconnect(r)
    PROVE  IInv'
<1>1. \A i \in RunIds :
        \/ /\ runs[i].repo = r
           /\ runs'[i].status = "deleted"
           /\ runs'[i].repo = "none"
        \/ runs[i].repo # r /\ runs'[i] = runs[i]
  BY DEF Disconnect, Update, RunsOf, NoRow
<1>2. created' = created
  BY DEF Disconnect
<1>3. ActiveIsNewest'
  <2> SUFFICES ASSUME NEW i \in RunIds, runs'[i].status \in Active,
                      NEW j \in RunIds, j > i, runs'[j].repo = runs'[i].repo
               PROVE  FALSE
    BY DEF ActiveIsNewest, Newer, RunsOf
  <2>1. runs'[i] = runs[i] /\ runs[i].repo \in Repos
    BY <1>1 DEF Active, IInv, RowsHaveRepository
  <2>2. runs'[j] = runs[j]
    BY <1>1, <2>1, NoneIsNoRepository
  <2>3. j \in Newer(i)
    BY <2>1, <2>2 DEF Newer, RunsOf
  <2> QED BY <2>1, <2>3 DEF IInv, ActiveIsNewest
<1>4. RowsInOrder'
  BY <1>1, <1>2, NoneIsNoRepository DEF IInv, RowsInOrder
<1>5. RowsHaveRepository'
  BY <1>1 DEF IInv, RowsHaveRepository
<1> QED BY <1>3, <1>4, <1>5 DEF IInv

LEMMA NextIInv == IInv /\ [Next]_vars => IInv'
BY StepKinds, NextType, RowStepsIInv, InsertsIInv, DisconnectIInv DEF IInv

LEMMA IInvHolds == Spec => []IInv
<1>1. Init => IInv
  BY InitIInv
<1>2. IInv /\ [Next]_vars => IInv'
  BY NextIInv
<1> QED BY <1>1, <1>2, PTL DEF Spec

\* In every state, the queued or running run of a repository is its newest run.
\* Only the insert is guarded by a unique index; requeueEligibleRuns, which
\* makes a failed run active again, and claimNext rely on its NOT EXISTS.
THEOREM ActiveRunIsNewest == Spec => []ActiveIsNewest
<1>1. IInv => ActiveIsNewest
  BY DEF IInv
<1> QED BY <1>1, IInvHolds, PTL

\* A repository never has two active runs, whichever statement made them active.
THEOREM OneActiveRun ==
    Spec => [](\A i, j \in RunIds :
                 /\ runs[i].status \in Active
                 /\ runs[j].status \in Active
                 /\ runs[i].repo = runs[j].repo
                 => i = j)
<1>1. ActiveIsNewest =>
        \A i, j \in RunIds : /\ runs[i].status \in Active
                             /\ runs[j].status \in Active
                             /\ runs[i].repo = runs[j].repo
                             => i = j
  <2> SUFFICES ASSUME ActiveIsNewest, NEW i \in RunIds, NEW j \in RunIds,
                      runs[i].status \in Active, runs[j].status \in Active,
                      runs[i].repo = runs[j].repo
               PROVE  ~(i < j) /\ ~(j < i)
    BY DEF RunIds
  <2> QED BY DEF ActiveIsNewest, Newer, RunsOf
<1> QED BY <1>1, ActiveRunIsNewest, PTL

-----------------------------------------------------------------------------
(* Outcomes are final *)

LEMMA OutcomeStep ==
    ASSUME IInv, [Next]_vars, NEW i \in RunIds, runs[i].status \in Settled
    PROVE  runs'[i].status \in {runs[i].status, "deleted"}
<1>1. CASE RowSteps
  BY <1>1 DEF RowSteps, RowStep, Settled, Active
<1>2. ASSUME NEW c \in Callers, Inserts(c)
      PROVE  runs'[i] = runs[i]
  <2>1. i # created + 1
    BY <1>2 DEF IInv, RowsInOrder, Settled, TypeOK
  <2> QED BY <1>2, <2>1 DEF Inserts, IInv, TypeOK
<1>3. ASSUME NEW r \in Repos, Disconnect(r)
      PROVE  runs'[i] = runs[i] \/ runs'[i].status = "deleted"
  BY <1>3 DEF Disconnect, Update, RunsOf, NoRow
<1> QED BY <1>1, <1>2, <1>3, StepKinds DEF IInv

\* A run that succeeded, failed for good or was cancelled never takes another
\* status until its repository is deleted, though the maintenance statements
\* and the late worker's deferRetry hold no lease on it.
THEOREM OutcomesAreFinal == Spec => OutcomeIsFinal
<1>1. IInv /\ [Next]_vars =>
        [\A i \in RunIds : runs[i].status \in Settled =>
            runs'[i].status \in {runs[i].status, "deleted"}]_vars
  BY OutcomeStep
<1> QED BY <1>1, IInvHolds, PTL DEF Spec, OutcomeIsFinal

-----------------------------------------------------------------------------
(* The runs implement LeasedQueue *)

LEMMA InitImplements == Init => Queue!Init
BY DEF Init, Queue!Init, NoRow, Phase

\* Every move of a row is a move of the queue.
LEMMA RowStepImplements ==
    ASSUME NEW i \in RunIds, RowStep(i)
    PROVE  \/ Queue!Start(i) \/ Queue!Defer(i) \/ Queue!Retry(i)
           \/ Queue!Finish(i) \/ Queue!Stays(i)
<1> USE DEF Queue!Moves, Queue!KeepsStarts
<1>1. CASE /\ runs'[i].status = runs[i].status
           /\ runs'[i].attempts = runs[i].attempts
  BY <1>1 DEF Queue!Stays
<1>2. CASE /\ runs[i].status \in Active
           /\ runs'[i].status = "running"
           /\ runs[i].attempts < MaxAttempts
           /\ runs'[i].attempts = runs[i].attempts + 1
  BY <1>2 DEF Queue!Start, Phase, Active
<1>3. CASE /\ runs[i].status = "running"
           /\ runs'[i].status = "failed_retryable"
           /\ runs'[i].attempts = runs[i].attempts
  BY <1>3 DEF Queue!Defer, Phase
<1>4. CASE /\ runs[i].status = "failed_retryable"
           /\ runs'[i].status = "queued"
           /\ runs[i].attempts < MaxAttempts
           /\ runs'[i].attempts = runs[i].attempts
  BY <1>4 DEF Queue!Retry, Phase
<1>5. CASE /\ runs[i].status \in Active \cup {"failed_retryable"}
           /\ runs'[i].status \in Settled
           /\ runs'[i].attempts = runs[i].attempts
  BY <1>5 DEF Queue!Finish, Phase, Active, Settled
<1> QED BY <1>1, <1>2, <1>3, <1>4, <1>5 DEF RowStep

LEMMA StepImplements ==
    ASSUME IInv, TypeOK', [Next]_vars
    PROVE  Queue!Next
<1>1. /\ [i \in RunIds |-> Phase(runs'[i].status)]
           \in [RunIds -> Queue!Phases]
      /\ [i \in RunIds |-> runs'[i].attempts] \in [RunIds -> 0..MaxAttempts]
  BY DEF TypeOK, Row, Phase, Queue!Phases
<1>2. ASSUME NEW i \in RunIds
      PROVE  \/ Queue!Create(i) \/ Queue!Start(i) \/ Queue!Defer(i)
             \/ Queue!Retry(i) \/ Queue!Finish(i) \/ Queue!Remove(i)
             \/ Queue!Stays(i)
  <2>1. CASE RowSteps
    BY <2>1, RowStepImplements DEF RowSteps
  <2>2. ASSUME NEW c \in Callers, Inserts(c)
        PROVE  Queue!Create(i) \/ Queue!Stays(i)
    <3>1. CASE i = created + 1
      <4>1. runs[i].status = "none" /\ runs[i].attempts = 0
        BY <3>1 DEF IInv, RowsInOrder, TypeOK
      <4>2. runs'[i].status = "queued" /\ runs'[i].attempts = 0
        BY <2>2, <3>1, NewRunType DEF Inserts, IInv, TypeOK
      <4> QED BY <4>1, <4>2
              DEF Queue!Create, Queue!Moves, Queue!KeepsStarts, Phase
    <3>2. CASE i # created + 1
      BY <2>2, <3>2 DEF Inserts, IInv, TypeOK, Queue!Stays, Queue!KeepsStarts
    <3> QED BY <3>1, <3>2
  <2>3. ASSUME NEW r \in Repos, Disconnect(r)
        PROVE  Queue!Remove(i) \/ Queue!Stays(i)
    <3>1. \/ runs'[i] = runs[i]
          \/ runs'[i].status = "deleted" /\ runs'[i].attempts = 0
      BY <2>3 DEF Disconnect, Update, NoRow
    <3> QED BY <3>1 DEF Queue!Remove, Queue!Stays, Queue!KeepsStarts, Phase
  <2> QED BY <2>1, <2>2, <2>3, StepKinds DEF IInv
<1> QED BY <1>1, <1>2 DEF Queue!Next

\* The SyncRun rows behave as the abstract queue promises: a run starts at most
\* MaxAttempts times, only a deferred one is queued again, a finished one never
\* changes, for any interleaving of the statements of any number of workers.
THEOREM SyncRunsImplementLeasedQueue == Spec => ImplementsLeasedQueue
<1>1. Init => Queue!Init
  BY InitImplements
<1>2. IInv /\ IInv' /\ [Next]_vars => [Queue!Next]_(Queue!vars)
  BY StepImplements DEF IInv
<1> QED BY <1>1, <1>2, IInvHolds, PTL DEF Spec, ImplementsLeasedQueue, Queue!Spec

\* A run changes its status or is claimed at most 3 * MaxAttempts + 3 times in its
\* life, a worker that dies, is overtaken or defers the run included: no run goes
\* round for ever.
THEOREM RunsRunOut == Spec => Queue!EveryMoveCounts
<1>1. MaxAttempts \in Nat
  BY PositiveConstants
<1>2. Queue!Spec => Queue!EveryMoveCounts
  BY <1>1, Queue!MovesRunOut
<1> QED BY <1>2, SyncRunsImplementLeasedQueue, PTL DEF ImplementsLeasedQueue

-----------------------------------------------------------------------------
(* What each statement makes of a row, column by column                      *)

\* The row keeps what identifies it and takes the other columns as given.
Becomes(i, status, attempts, started, finished, retryAt, token, expires) ==
    /\ runs'[i].repo = runs[i].repo
    /\ runs'[i].createdAt = runs[i].createdAt
    /\ runs'[i].windowStart = runs[i].windowStart
    /\ runs'[i].windowEnd = runs[i].windowEnd
    /\ runs'[i].status = status
    /\ runs'[i].attempts = attempts
    /\ runs'[i].startedAt = started
    /\ runs'[i].finishedAt = finished
    /\ runs'[i].retryAfterAt = retryAt
    /\ runs'[i].leaseToken = token
    /\ runs'[i].leaseExpiresAt = expires

\* The row leaves for a status in which nobody holds a lease.
Settles(i, status, started, finished, retryAt) ==
    Becomes(i, status, runs[i].attempts, started, finished, retryAt,
            NoToken, NoTime)

LEMMA ReleasedBecomes ==
    ASSUME NEW i \in RunIds, runs[i] \in Row,
           NEW status, NEW s, NEW f, NEW t,
           runs'[i] = [Released(runs[i], status) EXCEPT
                         !.startedAt = s, !.finishedAt = f, !.retryAfterAt = t]
    PROVE  Settles(i, status, s, f, t)
<1> DEFINE a == Released(runs[i], status)
<1>1. /\ a = [runs[i] EXCEPT !.status = status, !.leaseToken = NoToken,
                             !.leaseExpiresAt = NoTime]
  BY DEF Released
<1>2. /\ DOMAIN a = DOMAIN runs[i]
      /\ a.status = status /\ a.leaseToken = NoToken
      /\ a.leaseExpiresAt = NoTime /\ a.attempts = runs[i].attempts
      /\ a.repo = runs[i].repo /\ a.createdAt = runs[i].createdAt
      /\ a.windowStart = runs[i].windowStart
      /\ a.windowEnd = runs[i].windowEnd
  BY <1>1 DEF Row
<1>3. DOMAIN runs[i] = {"repo", "status", "createdAt", "windowStart",
         "windowEnd", "attempts", "startedAt", "finishedAt", "retryAfterAt",
         "leaseToken", "leaseExpiresAt"}
  BY DEF Row
<1> HIDE DEF a
<1>4. runs'[i] = [a EXCEPT !.startedAt = s, !.finishedAt = f,
                           !.retryAfterAt = t]
  BY DEF a
<1>5. /\ runs'[i].startedAt = s /\ runs'[i].finishedAt = f
      /\ runs'[i].retryAfterAt = t
      /\ runs'[i].status = a.status /\ runs'[i].leaseToken = a.leaseToken
      /\ runs'[i].leaseExpiresAt = a.leaseExpiresAt
  BY <1>2, <1>3, <1>4
<1>6. /\ runs'[i].attempts = a.attempts
      /\ runs'[i].repo = a.repo /\ runs'[i].createdAt = a.createdAt
      /\ runs'[i].windowStart = a.windowStart
      /\ runs'[i].windowEnd = a.windowEnd
  BY <1>2, <1>3, <1>4
<1> QED BY <1>2, <1>5, <1>6 DEF Settles, Becomes

\* The same when the start of the attempt is left alone.
LEMMA ReleasedKeepsStart ==
    ASSUME NEW i \in RunIds, runs[i] \in Row,
           NEW status, NEW f, NEW t,
           runs'[i] = [Released(runs[i], status) EXCEPT
                         !.finishedAt = f, !.retryAfterAt = t]
    PROVE  Settles(i, status, runs[i].startedAt, f, t)
<1>1. [Released(runs[i], status) EXCEPT !.finishedAt = f, !.retryAfterAt = t]
        = [Released(runs[i], status) EXCEPT
             !.startedAt = runs[i].startedAt, !.finishedAt = f,
             !.retryAfterAt = t]
  BY DEF Released, Row
<1> QED BY <1>1, ReleasedBecomes

LEMMA CancelRows ==
    ASSUME TypeOK, NEW w \in Workers, CancelUnavailableRuns(w),
           NEW i \in RunIds
    PROVE  \/ runs'[i] = runs[i]
           \/ /\ Orphaned(i)
              /\ runs[i].startedAt <= worker[w].now
              /\ Settles(i, "cancelled", runs[i].startedAt, worker[w].now,
                         NoTime)
<1>1. CASE UNCHANGED runs
  BY <1>1
<1>2. CASE /\ \A j \in {j \in RunIds : Orphaned(j)} :
                runs[j].startedAt <= worker[w].now
           /\ Update([j \in {j \in RunIds : Orphaned(j)} |->
                [Released(runs[j], "cancelled") EXCEPT
                   !.finishedAt = worker[w].now, !.retryAfterAt = NoTime]])
  <2>1. CASE Orphaned(i)
    <3>1. runs'[i] = [Released(runs[i], "cancelled") EXCEPT
                        !.finishedAt = worker[w].now, !.retryAfterAt = NoTime]
      BY <1>2, <2>1 DEF Update
    <3> QED BY <1>2, <2>1, <3>1, ReleasedKeepsStart DEF TypeOK
  <2>2. CASE ~Orphaned(i)
    BY <1>2, <2>2 DEF Update
  <2> QED BY <2>1, <2>2
<1> QED BY <1>1, <1>2 DEF CancelUnavailableRuns

LEMMA SupersedeRows ==
    ASSUME TypeOK, NEW w \in Workers, CancelSupersededRetryableRuns(w),
           NEW i \in RunIds
    PROVE  \/ runs'[i] = runs[i]
           \/ /\ runs[i].status = "failed_retryable"
              /\ Settles(i, "cancelled", runs[i].startedAt,
                         Coalesce(runs[i].finishedAt, worker[w].now), NoTime)
<1> DEFINE chosen(j) == runs[j].status = "failed_retryable" /\ Newer(j) # {}
<1>1. CASE chosen(i)
  <2>1. runs'[i] = [Released(runs[i], "cancelled") EXCEPT
                      !.finishedAt = Coalesce(runs[i].finishedAt,
                                              worker[w].now),
                      !.retryAfterAt = NoTime]
    BY <1>1 DEF CancelSupersededRetryableRuns, Update
  <2> QED BY <1>1, <2>1, ReleasedKeepsStart DEF TypeOK
<1>2. CASE ~chosen(i)
  BY <1>2 DEF CancelSupersededRetryableRuns, Update
<1> QED BY <1>1, <1>2

LEMMA ExhaustRows ==
    ASSUME TypeOK, NEW w \in Workers, TerminalizeExhaustedRuns(w),
           NEW i \in RunIds
    PROVE  \/ runs'[i] = runs[i]
           \/ /\ \/ runs[i].status = "failed_retryable"
                 \/ Expired(i, worker[w].now)
              /\ Settles(i, "failed_terminal",
                         Coalesce(runs[i].startedAt, worker[w].now),
                         Coalesce(runs[i].finishedAt, worker[w].now), NoTime)
<1> DEFINE now == worker[w].now
           chosen(j) == /\ runs[j].attempts >= MaxAttempts
                        /\ \/ runs[j].status = "failed_retryable"
                           \/ Expired(j, now)
<1>1. CASE chosen(i)
  <2>1. runs'[i] = [Released(runs[i], "failed_terminal") EXCEPT
                      !.startedAt = Coalesce(runs[i].startedAt, now),
                      !.finishedAt = Coalesce(runs[i].finishedAt, now),
                      !.retryAfterAt = NoTime]
    BY <1>1 DEF TerminalizeExhaustedRuns, Update
  <2> QED BY <1>1, <2>1, ReleasedBecomes DEF TypeOK
<1>2. CASE ~chosen(i)
  BY <1>2 DEF TerminalizeExhaustedRuns, Update
<1> QED BY <1>1, <1>2

LEMMA RequeueRows ==
    ASSUME TypeOK, NEW w \in Workers, RequeueEligibleRuns(w), NEW i \in RunIds
    PROVE  \/ runs'[i] = runs[i]
           \/ /\ runs[i].status = "failed_retryable"
              /\ Settles(i, "queued", NoTime, NoTime, NoTime)
<1>1. CASE Requeueable(i, worker[w].now)
  <2>1. runs'[i] = [Released(runs[i], "queued") EXCEPT
                      !.startedAt = NoTime, !.finishedAt = NoTime,
                      !.retryAfterAt = NoTime]
    BY <1>1 DEF RequeueEligibleRuns, Update
  <2> QED BY <1>1, <2>1, ReleasedBecomes DEF TypeOK, Requeueable
<1>2. CASE ~Requeueable(i, worker[w].now)
  BY <1>2 DEF RequeueEligibleRuns, Update
<1> QED BY <1>1, <1>2

\* The claim: one row, the worker's new claim names it and its new token.
LEMMA ClaimRow ==
    ASSUME TypeOK, NEW w \in Workers, ClaimNext(w)
    PROVE  \E i \in RunIds :
             /\ Claimable(i, worker[w].now)
             /\ \A j \in RunIds \ {i} : runs'[j] = runs[j]
             /\ Becomes(i, "running", runs[i].attempts + 1,
                        Coalesce(runs[i].startedAt, worker[w].now),
                        NoTime, NoTime, runs[i].attempts + 1,
                        worker[w].now + LeaseDuration)
             /\ worker' = [worker EXCEPT ![w] = [worker[w] EXCEPT
                  !.pc = "load",
                  !.claim = [run |-> i, token |-> runs[i].attempts + 1]]]
<1> DEFINE now == worker[w].now
           n(i) == runs[i].attempts + 1
           s(i) == Coalesce(runs[i].startedAt, now)
           a(i) == [runs[i] EXCEPT !.status = "running", !.startedAt = s(i),
                                   !.finishedAt = NoTime,
                                   !.retryAfterAt = NoTime]
           claimed(i) ==
             [runs[i] EXCEPT !.status = "running", !.startedAt = s(i),
                             !.finishedAt = NoTime, !.retryAfterAt = NoTime,
                             !.attempts = n(i), !.leaseToken = n(i),
                             !.leaseExpiresAt = now + LeaseDuration]
<1>1. PICK i \in RunIds :
         /\ Claimable(i, now)
         /\ runs' = [runs EXCEPT ![i] = claimed(i)]
         /\ worker' = [worker EXCEPT ![w] = [worker[w] EXCEPT
              !.pc = "load", !.claim = [run |-> i, token |-> n(i)]]]
  BY DEF ClaimNext
<1>2. \A j \in RunIds \ {i} : runs'[j] = runs[j]
  BY <1>1 DEF TypeOK
<1>3. runs'[i] = claimed(i)
  BY <1>1 DEF TypeOK
<1>4. runs[i] \in Row
  BY DEF TypeOK
<1>5. Becomes(i, "running", n(i), s(i), NoTime, NoTime, n(i),
              now + LeaseDuration)
  <2>1. claimed(i) = [a(i) EXCEPT !.attempts = n(i), !.leaseToken = n(i),
                                  !.leaseExpiresAt = now + LeaseDuration]
    BY <1>4 DEF Row
  <2> HIDE DEF claimed
  <2>2. DOMAIN a(i) = {"repo", "status", "createdAt", "windowStart",
           "windowEnd", "attempts", "startedAt", "finishedAt", "retryAfterAt",
           "leaseToken", "leaseExpiresAt"}
    BY <1>4 DEF Row
  <2>3. /\ a(i).status = "running" /\ a(i).startedAt = s(i)
        /\ a(i).finishedAt = NoTime /\ a(i).retryAfterAt = NoTime
        /\ a(i).repo = runs[i].repo /\ a(i).createdAt = runs[i].createdAt
        /\ a(i).windowStart = runs[i].windowStart
        /\ a(i).windowEnd = runs[i].windowEnd
    BY <1>4 DEF Row
  <2> HIDE DEF a
  <2>4. /\ runs'[i].attempts = n(i) /\ runs'[i].leaseToken = n(i)
        /\ runs'[i].leaseExpiresAt = now + LeaseDuration
        /\ runs'[i].status = a(i).status
        /\ runs'[i].startedAt = a(i).startedAt
        /\ runs'[i].finishedAt = a(i).finishedAt
        /\ runs'[i].retryAfterAt = a(i).retryAfterAt
    BY <1>3, <2>1, <2>2
  <2>5. /\ runs'[i].repo = a(i).repo /\ runs'[i].createdAt = a(i).createdAt
        /\ runs'[i].windowStart = a(i).windowStart
        /\ runs'[i].windowEnd = a(i).windowEnd
    BY <1>3, <2>1, <2>2
  <2> QED BY <2>3, <2>4, <2>5 DEF Becomes
<1> QED BY <1>1, <1>2, <1>5

LEMMA ExtendRow ==
    ASSUME TypeOK, NEW w \in Workers, ExtendLease(w), NEW i \in RunIds
    PROVE  \/ runs'[i] = runs[i]
           \/ /\ runs[i].status = "running"
              /\ Becomes(i, "running", runs[i].attempts, runs[i].startedAt,
                         runs[i].finishedAt, runs[i].retryAfterAt,
                         runs[i].leaseToken, clock + LeaseDuration)
<1>1. CASE i = worker[w].claim.run
  <2>1. runs'[i] = [runs[i] EXCEPT !.leaseExpiresAt = clock + LeaseDuration]
    BY <1>1 DEF ExtendLease, TypeOK
  <2>2. runs[i] \in Row /\ runs[i].status = "running"
    BY <1>1 DEF TypeOK, ExtendLease, Owns
  <2> QED BY <2>1, <2>2 DEF Becomes, Row
<1>2. CASE i # worker[w].claim.run
  BY <1>2 DEF ExtendLease, TypeOK
<1> QED BY <1>1, <1>2

LEMMA CompleteRow ==
    ASSUME TypeOK, NEW w \in Workers, Complete(w), NEW i \in RunIds
    PROVE  \/ runs'[i] = runs[i]
           \/ /\ i = worker[w].claim.run
              /\ Owns(w)
              /\ Settles(i, "succeeded", runs[i].startedAt, clock, NoTime)
<1> DEFINE c == worker[w].claim.run
           new == [Released(runs[c], "succeeded") EXCEPT
                     !.finishedAt = clock, !.retryAfterAt = NoTime]
<1>1. CASE UNCHANGED runs
  BY <1>1
<1>2. CASE Owns(w) /\ Update([j \in {c} |-> new])
  <2>1. CASE i = c
    <3>1. runs'[i] = [Released(runs[i], "succeeded") EXCEPT
                        !.finishedAt = clock, !.retryAfterAt = NoTime]
      BY <1>2, <2>1 DEF Update
    <3> QED BY <1>2, <2>1, <3>1, ReleasedKeepsStart DEF TypeOK
  <2>2. CASE i # c
    BY <1>2, <2>2 DEF Update
  <2> QED BY <2>1, <2>2
<1> QED BY <1>1, <1>2 DEF Complete

FailedStatus(f) == IF f.retryable THEN "failed_retryable" ELSE "failed_terminal"

LEMMA FailedRow ==
    ASSUME TypeOK, NEW w \in Workers, RecordFailure(w), NEW i \in RunIds
    PROVE  \/ runs'[i] = runs[i]
           \/ /\ i = worker[w].claim.run
              /\ Owns(w)
              /\ Settles(i, FailedStatus(worker[w].failure), runs[i].startedAt,
                         clock, worker[w].failure.retryAfterAt)
<1> DEFINE c == worker[w].claim.run
           f == worker[w].failure
           new == [Released(runs[c], FailedStatus(f)) EXCEPT
                     !.finishedAt = clock, !.retryAfterAt = f.retryAfterAt]
<1>1. CASE UNCHANGED runs
  BY <1>1
<1>2. CASE Owns(w) /\ Update([j \in {c} |-> new])
  <2>1. CASE i = c
    <3>1. runs'[i] = [Released(runs[i], FailedStatus(f)) EXCEPT
                        !.finishedAt = clock, !.retryAfterAt = f.retryAfterAt]
      BY <1>2, <2>1 DEF Update
    <3> QED BY <1>2, <2>1, <3>1, ReleasedKeepsStart DEF TypeOK
  <2>2. CASE i # c
    BY <1>2, <2>2 DEF Update
  <2> QED BY <2>1, <2>2
<1> QED BY <1>1, <1>2 DEF RecordFailure, FailedStatus

\* The instant deferRetry writes.
RetryAt(w) == Later(worker[w].failure.retryAfterAt,
                    clock + Backoff(worker[w].claim.token))

\* The row is moved to another status, or postponed, and otherwise left alone.
LEMMA DeferredRow ==
    ASSUME TypeOK, NEW w \in Workers, DeferRetry(w), NEW i \in RunIds
    PROVE  \/ runs'[i] = runs[i]
           \/ /\ i = worker[w].claim.run
              /\ runs[i].status = "failed_retryable"
              /\ \/ /\ LastAttempt(worker[w].claim.token)
                    /\ Becomes(i, "failed_terminal", runs[i].attempts,
                               runs[i].startedAt, runs[i].finishedAt, NoTime,
                               runs[i].leaseToken, runs[i].leaseExpiresAt)
                 \/ /\ ~LastAttempt(worker[w].claim.token)
                    /\ Becomes(i, "failed_retryable", runs[i].attempts,
                               runs[i].startedAt, runs[i].finishedAt,
                               RetryAt(w), runs[i].leaseToken,
                               runs[i].leaseExpiresAt)
<1> DEFINE c == worker[w].claim.run
           last == LastAttempt(worker[w].claim.token)
<1>1. runs[i] \in Row
  BY DEF TypeOK
<1>2. CASE UNCHANGED runs \/ i # c
  BY <1>2 DEF DeferRetry, TypeOK
<1>3. CASE ~UNCHANGED runs /\ i = c /\ last
  <2>1. /\ runs[i].status = "failed_retryable"
        /\ runs'[i] = [runs[i] EXCEPT !.status = "failed_terminal",
                                      !.retryAfterAt = NoTime]
    BY <1>3 DEF DeferRetry, TypeOK
  <2> QED BY <1>1, <1>3, <2>1 DEF Becomes, Row
<1>4. CASE ~UNCHANGED runs /\ i = c /\ ~last
  <2>1. /\ runs[i].status = "failed_retryable"
        /\ runs'[i] = [runs[i] EXCEPT !.retryAfterAt = RetryAt(w)]
    BY <1>4 DEF DeferRetry, TypeOK, RetryAt
  <2> QED BY <1>1, <1>4, <2>1 DEF Becomes, Row
<1> QED BY <1>2, <1>3, <1>4

-----------------------------------------------------------------------------
(* The workers' own state                                                    *)

\* What the fields of a worker say of each other, at the time t.
SoundWorker(s, t) ==
    /\ s.now <= t
    /\ s.pc # "idle" => s.now # NoTime
    /\ ~s.failure.retryable => s.failure.retryAfterAt = NoTime
    /\ s.pc \in Executing => s.claim.run \in RunIds /\ s.claim.token >= 1
    /\ s.pc \notin Executing => s.claim = NoClaim
    /\ s.pc # "enqueue" => s.todo = {}

WorkersSound == \A w \in Workers : SoundWorker(worker[w], clock)

\* The steps a worker takes, or that happen to it.
OwnStep(w) == WorkerStep(w) \/ StatementFails(w) \/ Crash(w) \/ Shutdown(w)

LEMMA TimePasses ==
    ASSUME TypeOK, [Next]_vars
    PROVE  clock \in Int /\ clock' \in Int /\ clock <= clock'
<1>1. clock \in Int
  BY NullValues DEF TypeOK
<1>2. CASE Tick
  BY <1>1, <1>2 DEF Tick
<1>3. CASE ~Tick
  <2>1. ASSUME NEW w \in Workers, WorkerStep(w)
        PROVE  clock' = clock
    BY <2>1 DEF WorkerStep, BeginTick, CancelUnavailableRuns,
       CancelSupersededRetryableRuns, TerminalizeExhaustedRuns,
       RequeueEligibleRuns, ListDueRepositories, EnqueueScheduled,
       FindActiveRun, InsertRun, ClaimNext, EndSyncTick, LoadClaimed,
       FailIngestion, Complete, RecordFailure, DeferRetry, Restart
  <2>2. ASSUME NEW w \in Workers,
               ExtendLease(w) \/ StatementFails(w) \/ Crash(w) \/ Shutdown(w)
        PROVE  clock' = clock
    BY <2>2 DEF ExtendLease, StatementFails, Crash, Shutdown
  <2>3. ASSUME NEW u \in Users, \/ \E r \in Repos : StartManually(u, r)
                                \/ FindActiveRun(u) \/ InsertRun(u)
        PROVE  clock' = clock
    BY <2>3 DEF StartManually, FindActiveRun, InsertRun
  <2>4. ASSUME NEW r \in Repos,
               ConnectRepository(r) \/ BecomeUnavailable(r) \/ Disconnect(r)
        PROVE  clock' = clock
    BY <2>4 DEF ConnectRepository, BecomeUnavailable, Disconnect
  <2>5. ASSUME UNCHANGED vars
        PROVE  clock' = clock
    BY <2>5 DEF vars
  <2>6. clock' = clock
    BY <1>3, <2>1, <2>2, <2>3, <2>4, <2>5 DEF Next
  <2> QED BY <1>1, <2>6
<1> QED BY <1>2, <1>3

\* A worker's state is changed by its own steps only.
LEMMA WorkerMoves ==
    ASSUME TypeOK, [Next]_vars, NEW w \in Workers
    PROVE  worker'[w] = worker[w] \/ OwnStep(w)
<1>1. ASSUME NEW v \in Workers, v # w, WorkerStep(v)
      PROVE  worker'[w] = worker[w]
  BY <1>1 DEF TypeOK, Goto, EndTick, Fail, WorkerStep, BeginTick,
     CancelUnavailableRuns, CancelSupersededRetryableRuns,
     TerminalizeExhaustedRuns, RequeueEligibleRuns, ListDueRepositories,
     EnqueueScheduled, FindActiveRun, InsertRun, ClaimNext, EndSyncTick,
     LoadClaimed, FailIngestion, Complete, RecordFailure, DeferRetry, Restart
<1>2. ASSUME NEW v \in Workers, v # w,
             StatementFails(v) \/ Crash(v) \/ Shutdown(v)
      PROVE  worker'[w] = worker[w]
  BY <1>2 DEF StatementFails, Crash, Shutdown, TypeOK, EndTick, Goto
<1>3. ASSUME NEW v \in Workers, ExtendLease(v)
      PROVE  worker'[w] = worker[w]
  BY <1>3 DEF ExtendLease
<1>4. ASSUME NEW u \in Users, \/ \E r \in Repos : StartManually(u, r)
                              \/ FindActiveRun(u) \/ InsertRun(u)
      PROVE  worker'[w] = worker[w]
  BY <1>4 DEF StartManually, FindActiveRun, InsertRun
<1>5. ASSUME NEW r \in Repos,
             ConnectRepository(r) \/ BecomeUnavailable(r) \/ Disconnect(r)
      PROVE  worker'[w] = worker[w]
  BY <1>5 DEF ConnectRepository, BecomeUnavailable, Disconnect
<1>6. CASE Tick \/ UNCHANGED vars
  BY <1>6 DEF Tick, vars
<1> QED BY <1>1, <1>2, <1>3, <1>4, <1>5, <1>6 DEF Next, OwnStep

LEMMA FreshSound ==
    ASSUME NEW b, NEW t \in Time
    PROVE  SoundWorker(Fresh, t) /\ SoundWorker([Fresh EXCEPT !.stopping = b], t)
BY NullValues DEF SoundWorker, Fresh, Permanent, Executing, Time, NoTime

\* A worker that goes on to another statement stays sound if it keeps its claim
\* exactly while it executes.
LEMMA LabelSound ==
    ASSUME NEW s \in WorkerState, NEW t, SoundWorker(s, t), NEW label \in Labels,
           s.pc # "idle", s.pc \in Executing <=> label \in Executing,
           s.pc # "enqueue"
    PROVE  SoundWorker([s EXCEPT !.pc = label], t)
BY DEF SoundWorker, WorkerState

LEMMA GotoSound ==
    ASSUME TypeOK, WorkersSound, NEW w \in Workers, NEW label \in Labels,
           Goto(w, label), worker[w].pc # "idle", worker[w].pc # "enqueue",
           worker[w].pc \in Executing <=> label \in Executing
    PROVE  SoundWorker(worker'[w], clock)
<1>1. worker'[w] = [worker[w] EXCEPT !.pc = label]
  BY DEF Goto, TypeOK
<1> QED BY <1>1, LabelSound DEF WorkersSound, TypeOK

LEMMA EndTickSound ==
    ASSUME TypeOK, NEW w \in Workers, EndTick(w)
    PROVE  SoundWorker(worker'[w], clock)
BY FreshSound DEF EndTick, TypeOK

LEMMA FailSound ==
    ASSUME TypeOK, WorkersSound, NEW w \in Workers,
           NEW f, ~f.retryable => f.retryAfterAt = NoTime,
           worker[w].pc = "ingest", Fail(w, f)
    PROVE  SoundWorker(worker'[w], clock)
<1>1. worker'[w] = [worker[w] EXCEPT !.pc = "failing", !.failure = f]
  BY DEF Fail, TypeOK
<1> QED BY <1>1 DEF SoundWorker, WorkersSound, TypeOK, WorkerState, Executing

LEMMA TodoSound ==
    ASSUME TypeOK, WorkersSound, NEW w \in Workers, NEW todo,
           worker[w].pc = "enqueue",
           worker'[w] = [worker[w] EXCEPT !.todo = todo]
    PROVE  SoundWorker(worker'[w], clock)
BY DEF SoundWorker, WorkersSound, TypeOK, WorkerState

LEMMA MaintenanceSound ==
    ASSUME TypeOK, WorkersSound, NEW w \in Workers,
           \/ BeginTick(w) \/ CancelUnavailableRuns(w)
           \/ CancelSupersededRetryableRuns(w) \/ TerminalizeExhaustedRuns(w)
           \/ RequeueEligibleRuns(w) \/ ListDueRepositories(w)
    PROVE  SoundWorker(worker'[w], clock)
<1>1. CASE BeginTick(w)
  <2>1. worker'[w] = [worker[w] EXCEPT !.pc = "cancel", !.now = clock]
    BY <1>1 DEF BeginTick, TypeOK
  <2>2. clock <= clock /\ clock # NoTime
    BY NullValues DEF TypeOK, Time, NoTime
  <2> QED BY <1>1, <2>1, <2>2
          DEF BeginTick, SoundWorker, WorkersSound, TypeOK, WorkerState,
              Executing
<1>2. CASE CancelUnavailableRuns(w)
  BY <1>2, GotoSound, EndTickSound
     DEF CancelUnavailableRuns, Labels, Maintenance, Executing
<1>3. CASE \/ CancelSupersededRetryableRuns(w) \/ TerminalizeExhaustedRuns(w)
           \/ RequeueEligibleRuns(w)
  BY <1>3, GotoSound
     DEF CancelSupersededRetryableRuns, TerminalizeExhaustedRuns,
         RequeueEligibleRuns, Labels, Maintenance, Executing
<1>4. CASE ListDueRepositories(w)
  <2>1. worker[w].pc = "schedule"
    BY <1>4 DEF ListDueRepositories
  <2>2. CASE Goto(w, "enqueue")
    BY <2>1, <2>2, GotoSound DEF Labels, Executing
  <2>3. ASSUME NEW batch, worker' = [worker EXCEPT ![w] =
                            [@ EXCEPT !.pc = "enqueue", !.todo = batch]]
        PROVE  SoundWorker(worker'[w], clock)
    <3>1. worker'[w] = [worker[w] EXCEPT !.pc = "enqueue", !.todo = batch]
      BY <2>3 DEF TypeOK
    <3> QED BY <2>1, <3>1
            DEF SoundWorker, WorkersSound, TypeOK, WorkerState, Executing
  <2> QED BY <1>4, <2>2, <2>3 DEF ListDueRepositories
<1> QED BY <1>1, <1>2, <1>3, <1>4

LEMMA ExecutionSound ==
    ASSUME TypeOK, WorkersSound, NEW w \in Workers,
           \/ ClaimNext(w) \/ LoadClaimed(w) \/ FailIngestion(w) \/ Complete(w)
           \/ RecordFailure(w) \/ DeferRetry(w)
    PROVE  SoundWorker(worker'[w], clock)
<1>1. CASE ClaimNext(w)
  <2>1. PICK i \in RunIds :
           worker' = [worker EXCEPT ![w] = [worker[w] EXCEPT
                        !.pc = "load",
                        !.claim = [run |-> i, token |-> runs[i].attempts + 1]]]
    BY <1>1, ClaimRow
  <2> DEFINE claim == [run |-> i, token |-> runs[i].attempts + 1]
  <2>2. claim.run \in RunIds /\ claim.token >= 1
    BY ConstantTypes DEF TypeOK, Row
  <2>3. worker'[w] = [worker[w] EXCEPT !.pc = "load", !.claim = claim]
    BY <2>1 DEF TypeOK
  <2>4. worker[w].pc = "enqueue" /\ worker[w].todo = {}
    BY <1>1 DEF ClaimNext
  <2> HIDE DEF claim
  <2> QED BY <2>2, <2>3, <2>4
          DEF SoundWorker, WorkersSound, TypeOK, WorkerState, Executing
<1>2. CASE LoadClaimed(w)
  BY <1>2, GotoSound DEF LoadClaimed, Labels, Executing
<1>3. CASE FailIngestion(w)
  <2>1. PICK f \in {Permanent}
                   \cup [retryable : {TRUE},
                         retryAfterAt : {NoTime} \cup
                                        {clock + d : d \in ProviderDelays}] :
           Fail(w, f)
    BY <1>3 DEF FailIngestion
  <2>2. f = Permanent \/ f.retryable = TRUE
    BY <2>1
  <2>3. ~f.retryable => f.retryAfterAt = NoTime
    BY <2>2 DEF Permanent
  <2> QED BY <1>3, <2>1, <2>3, FailSound DEF FailIngestion
<1>4. CASE Complete(w)
  BY <1>4, EndTickSound, FailSound DEF Complete, Permanent
<1>5. CASE RecordFailure(w)
  BY <1>5, GotoSound DEF RecordFailure, Labels, Executing
<1>6. CASE DeferRetry(w)
  BY <1>6, EndTickSound DEF DeferRetry
<1> QED BY <1>1, <1>2, <1>3, <1>4, <1>5, <1>6

LEMMA OwnStepSound ==
    ASSUME TypeOK, WorkersSound, NEW w \in Workers, OwnStep(w)
    PROVE  SoundWorker(worker'[w], clock)
<1>1. CASE EnqueueScheduled(w)
  <2>1. PICK r \in worker[w].todo :
           worker' = [worker EXCEPT ![w].todo = worker[w].todo \ {r}]
    BY <1>1 DEF EnqueueScheduled
  <2>2. worker'[w] = [worker[w] EXCEPT !.todo = worker[w].todo \ {r}]
    BY <2>1 DEF TypeOK
  <2> QED BY <1>1, <2>2, TodoSound DEF EnqueueScheduled
<1>2. CASE FindActiveRun(w) \/ InsertRun(w)
  BY <1>2 DEF FindActiveRun, InsertRun, WorkersSound
<1>3. CASE EndSyncTick(w)
  BY <1>3, EndTickSound DEF EndSyncTick
<1>4. CASE StatementFails(w)
  <2>1. CASE EndTick(w) \/ UNCHANGED worker
    BY <2>1, EndTickSound DEF WorkersSound
  <2>2. ASSUME NEW r, worker[w].pc = "enqueue",
               worker' = [worker EXCEPT ![w].todo = worker[w].todo \ {r}]
        PROVE  SoundWorker(worker'[w], clock)
    <3>1. worker'[w] = [worker[w] EXCEPT !.todo = worker[w].todo \ {r}]
      BY <2>2 DEF TypeOK
    <3> QED BY <2>2, <3>1, TodoSound
  <2>3. CASE worker[w].pc \in {"load", "failing"} /\ Goto(w, "defer")
    BY <2>3, GotoSound DEF Labels, Executing
  <2> QED BY <1>4, <2>1, <2>2, <2>3 DEF StatementFails
<1>5. CASE Crash(w) \/ Restart(w)
  <2>1. worker'[w] = Fresh
    BY <1>5 DEF Crash, Restart, TypeOK
  <2> QED BY <2>1, FreshSound DEF TypeOK
<1>6. CASE Shutdown(w)
  <2>1. worker'[w] = [worker[w] EXCEPT !.stopping = TRUE]
    BY <1>6 DEF Shutdown, TypeOK
  <2> QED BY <2>1 DEF SoundWorker, WorkersSound, TypeOK, WorkerState
<1> QED BY <1>1, <1>2, <1>3, <1>4, <1>5, <1>6, MaintenanceSound,
           ExecutionSound DEF OwnStep, WorkerStep

\* A worker stays sound, and its instant is never ahead of the clock.
LEMMA WorkersStaySound ==
    ASSUME TypeOK, WorkersSound, [Next]_vars
    PROVE  WorkersSound'
<1> SUFFICES ASSUME NEW w \in Workers
             PROVE  SoundWorker(worker'[w], clock')
  BY DEF WorkersSound
<1>1. SoundWorker(worker'[w], clock)
  BY WorkerMoves, OwnStepSound DEF WorkersSound
<1>2. worker'[w].now \in Int
  BY NextType, NullValues DEF TypeOK, WorkerState
<1> QED BY <1>1, <1>2, TimePasses DEF SoundWorker

-----------------------------------------------------------------------------
(* The rows satisfy the CHECK constraints                                    *)

\* The constraints of a row, and what keeps them when a lease is recovered: the
\* token is the number of the attempt, and no attempt started after its lease
\* ended or after the time t.
SoundRow(row, t) ==
    /\ row.status = "running" <=> row.leaseToken # NoToken
    /\ row.status = "running" <=> row.leaseExpiresAt # NoTime
    /\ row.retryAfterAt # NoTime => row.status = "failed_retryable"
    /\ row.status = "queued" => row.startedAt = NoTime
    /\ row.status \in {"running", "succeeded", "failed_retryable",
                       "failed_terminal"} => row.startedAt # NoTime
    /\ row.finishedAt # NoTime <=>
         row.status \in Settled \cup {"failed_retryable"}
    /\ row.finishedAt # NoTime => row.startedAt <= row.finishedAt
    /\ row.windowStart <= row.windowEnd
    /\ row.status = "running" => /\ row.leaseToken = row.attempts
                                 /\ row.startedAt <= row.leaseExpiresAt
    /\ row.startedAt <= t

RowsSound == \A i \in RunIds : SoundRow(runs[i], clock)

LEMMA RowsSoundConstraints == RowsSound => RowConstraints
BY DEF RowsSound, SoundRow, RowConstraints

\* The type of a row's columns, as the arithmetic below needs it.
LEMMA RowTypes ==
    ASSUME NEW row \in Row
    PROVE  /\ row.startedAt \in Int /\ row.finishedAt \in Int
           /\ row.createdAt \in Int /\ row.retryAfterAt \in Int
           /\ row.windowStart \in Int /\ row.windowEnd \in Int
           /\ row.attempts \in Nat /\ row.attempts <= MaxAttempts
           /\ row.leaseToken \in Nat /\ row.leaseExpiresAt \in Int
           /\ row.startedAt \in Time \cup {NoTime}
           /\ row.finishedAt \in Time \cup {NoTime}
           /\ row.createdAt \in Time \cup {NoTime}
BY NullValues, ConstantTypes DEF Row

LEMMA LaterSound ==
    ASSUME NEW row \in Row, NEW t \in Int, NEW u \in Int, t <= u,
           SoundRow(row, t)
    PROVE  SoundRow(row, u)
BY RowTypes DEF SoundRow

\* A row that ends an attempt, or waits for its retry, with no lease.
LEMMA SettlesSound ==
    ASSUME NEW i \in RunIds, runs[i] \in Row, NEW t \in Int,
           SoundRow(runs[i], t),
           NEW status \in Settled \cup {"failed_retryable"},
           NEW s \in Time \cup {NoTime}, NEW f \in Time, NEW a \in Int,
           Settles(i, status, s, f, a),
           status # "cancelled" => s # NoTime,
           s <= f, s <= t, a # NoTime => status = "failed_retryable"
    PROVE  SoundRow(runs'[i], t)
<1>1. f # NoTime
  BY ConstantTypes DEF Time, NoTime
<1>2. status \notin {"running", "queued"}
  BY DEF Settled
<1> QED BY <1>1, <1>2 DEF SoundRow, Settles, Becomes

LEMMA NoTimeIsFirst == \A t \in Time : NoTime <= t /\ t # NoTime /\ t \in Int
BY ConstantTypes DEF Time, NoTime

LEMMA NowIsTime ==
    ASSUME TypeOK, WorkersSound, NEW w \in Workers, worker[w].pc # "idle"
    PROVE  /\ worker[w].now \in Time
           /\ worker[w].now <= clock
BY DEF TypeOK, WorkersSound, SoundWorker, WorkerState

LEMMA CancelSound ==
    ASSUME TypeOK, RowsSound, WorkersSound, NEW w \in Workers,
           CancelUnavailableRuns(w), NEW i \in RunIds
    PROVE  SoundRow(runs'[i], clock)
<1> DEFINE now == worker[w].now
<1>1. now \in Time /\ now <= clock
  BY NowIsTime DEF CancelUnavailableRuns
<1>2. runs[i] \in Row /\ SoundRow(runs[i], clock)
  BY DEF TypeOK, RowsSound
<1>3. CASE /\ Orphaned(i)
           /\ runs[i].startedAt <= now
           /\ Settles(i, "cancelled", runs[i].startedAt, now, NoTime)
  <2>1. runs[i].startedAt <= clock
    BY <1>2 DEF SoundRow
  <2> QED BY <1>1, <1>2, <1>3, <2>1, RowTypes, SettlesSound, NullValues
          DEF Settled, TypeOK
<1> QED BY <1>2, <1>3, CancelRows

LEMMA SupersedeSound ==
    ASSUME TypeOK, RowsSound, NEW w \in Workers,
           CancelSupersededRetryableRuns(w), NEW i \in RunIds
    PROVE  SoundRow(runs'[i], clock)
<1>1. runs[i] \in Row /\ SoundRow(runs[i], clock)
  BY DEF TypeOK, RowsSound
<1>2. CASE /\ runs[i].status = "failed_retryable"
           /\ Settles(i, "cancelled", runs[i].startedAt,
                      Coalesce(runs[i].finishedAt, worker[w].now), NoTime)
  <2>1. /\ runs[i].finishedAt # NoTime
        /\ runs[i].startedAt <= runs[i].finishedAt
        /\ runs[i].startedAt <= clock
    BY <1>1, <1>2 DEF SoundRow
  <2>2. Settles(i, "cancelled", runs[i].startedAt, runs[i].finishedAt, NoTime)
    BY <1>2, <2>1 DEF Coalesce
  <2>3. runs[i].finishedAt \in Time
    BY <1>1, <2>1, RowTypes
  <2> QED BY <1>1, <2>1, <2>2, <2>3, RowTypes, SettlesSound, NullValues
          DEF Settled, TypeOK
<1> QED BY <1>1, <1>2, SupersedeRows

\* A lease that has expired, in the eyes of a tick, began before the tick.
LEMMA ExpiredStarted ==
    ASSUME NEW i \in RunIds, runs[i] \in Row, NEW t, SoundRow(runs[i], t),
           NEW now \in Time, Expired(i, now)
    PROVE  runs[i].startedAt <= now
<1>1. /\ runs[i].startedAt <= runs[i].leaseExpiresAt
      /\ runs[i].leaseExpiresAt <= now \/ now = MaxTime
  BY DEF Expired, Due, SoundRow
<1>2. runs[i].startedAt <= MaxTime
  BY RowTypes, ConstantTypes DEF Time, NoTime
<1> QED BY <1>1, <1>2, RowTypes, NoTimeIsFirst

LEMMA ExhaustSound ==
    ASSUME TypeOK, RowsSound, WorkersSound, NEW w \in Workers,
           TerminalizeExhaustedRuns(w), NEW i \in RunIds
    PROVE  SoundRow(runs'[i], clock)
<1> DEFINE now == worker[w].now
           s == Coalesce(runs[i].startedAt, now)
           f == Coalesce(runs[i].finishedAt, now)
<1>1. now \in Time /\ now <= clock
  BY NowIsTime DEF TerminalizeExhaustedRuns
<1>2. runs[i] \in Row /\ SoundRow(runs[i], clock)
  BY DEF TypeOK, RowsSound
<1>3. CASE /\ \/ runs[i].status = "failed_retryable"
              \/ Expired(i, now)
           /\ Settles(i, "failed_terminal", s, f, NoTime)
  <2>1. s = runs[i].startedAt /\ s # NoTime /\ s <= clock
    BY <1>2, <1>3 DEF SoundRow, Coalesce, Expired
  <2>2. f \in Time /\ s <= f
    <3>1. CASE runs[i].status = "failed_retryable"
      BY <1>2, <2>1, <3>1, RowTypes DEF SoundRow, Coalesce
    <3>2. CASE Expired(i, now)
      <4>1. runs[i].finishedAt = NoTime
        BY <1>2, <3>2 DEF SoundRow, Expired, Settled
      <4> QED BY <1>1, <1>2, <2>1, <3>2, <4>1, ExpiredStarted DEF Coalesce
    <3> QED BY <1>3, <3>1, <3>2
  <2> HIDE DEF s, f
  <2>3. s \in Time \cup {NoTime}
    BY <1>2, <2>1, RowTypes DEF s
  <2> QED BY <1>2, <1>3, <2>1, <2>2, <2>3, SettlesSound, NullValues
          DEF Settled, TypeOK
<1> QED BY <1>2, <1>3, ExhaustRows

LEMMA RequeueSound ==
    ASSUME TypeOK, RowsSound, NEW w \in Workers, RequeueEligibleRuns(w),
           NEW i \in RunIds
    PROVE  SoundRow(runs'[i], clock)
<1>1. runs[i] \in Row /\ SoundRow(runs[i], clock)
  BY DEF TypeOK, RowsSound
<1>2. CASE Settles(i, "queued", NoTime, NoTime, NoTime)
  <2>1. NoTime <= clock
    BY NoTimeIsFirst DEF TypeOK
  <2> QED BY <1>1, <1>2, <2>1 DEF SoundRow, Settles, Becomes, Settled
<1> QED BY <1>1, <1>2, RequeueRows

LEMMA ClaimSound ==
    ASSUME TypeOK, RowsSound, WorkersSound, NEW w \in Workers, ClaimNext(w),
           NEW j \in RunIds
    PROVE  SoundRow(runs'[j], clock)
<1> DEFINE now == worker[w].now
<1>1. now \in Time /\ now <= clock
  BY NowIsTime DEF ClaimNext
<1>2. PICK i \in RunIds :
         /\ Claimable(i, now)
         /\ \A k \in RunIds \ {i} : runs'[k] = runs[k]
         /\ Becomes(i, "running", runs[i].attempts + 1,
                    Coalesce(runs[i].startedAt, now), NoTime, NoTime,
                    runs[i].attempts + 1, now + LeaseDuration)
  BY ClaimRow
<1>3. runs[i] \in Row /\ SoundRow(runs[i], clock)
  BY DEF TypeOK, RowsSound
<1> DEFINE s == Coalesce(runs[i].startedAt, now)
<1>4. s # NoTime /\ s <= now /\ s \in Int
  <2>1. CASE runs[i].startedAt = NoTime
    BY <1>1, <2>1, NoTimeIsFirst DEF Coalesce
  <2>2. CASE runs[i].startedAt # NoTime
    <3>1. Expired(i, now)
      BY <1>2, <1>3, <2>2 DEF Claimable, SoundRow
    <3> QED BY <1>1, <1>3, <2>2, <3>1, ExpiredStarted, RowTypes DEF Coalesce
  <2> QED BY <2>1, <2>2
<1> HIDE DEF s
<1>5. Becomes(i, "running", runs[i].attempts + 1, s, NoTime, NoTime,
              runs[i].attempts + 1, now + LeaseDuration)
  BY <1>2 DEF s
<1>6. /\ now + LeaseDuration # NoTime /\ s <= now + LeaseDuration
      /\ s <= clock /\ runs[i].attempts + 1 # NoToken
  BY <1>1, <1>3, <1>4, ConstantTypes, NullValues, RowTypes
     DEF Time, NoTime, NoToken, TypeOK
<1>7. SoundRow(runs'[i], clock)
  BY <1>3, <1>4, <1>5, <1>6 DEF SoundRow, Becomes, Settled
<1> QED BY <1>2, <1>7 DEF RowsSound

LEMMA ExtendSound ==
    ASSUME TypeOK, RowsSound, NEW w \in Workers, ExtendLease(w),
           NEW i \in RunIds
    PROVE  SoundRow(runs'[i], clock)
<1>1. runs[i] \in Row /\ SoundRow(runs[i], clock) /\ clock \in Time
  BY DEF TypeOK, RowsSound
<1>2. CASE /\ runs[i].status = "running"
           /\ Becomes(i, "running", runs[i].attempts, runs[i].startedAt,
                      runs[i].finishedAt, runs[i].retryAfterAt,
                      runs[i].leaseToken, clock + LeaseDuration)
  <2>1. /\ clock + LeaseDuration # NoTime
        /\ runs[i].startedAt <= clock + LeaseDuration
    BY <1>1, ConstantTypes, RowTypes DEF SoundRow, Time, NoTime
  <2> QED BY <1>1, <1>2, <2>1 DEF SoundRow, Becomes
<1> QED BY <1>1, <1>2, ExtendRow

\* A row that its own worker ends at the present time.
LEMMA EndedNowSound ==
    ASSUME TypeOK, RowsSound, NEW i \in RunIds, runs[i].status = "running",
           NEW status \in Settled \cup {"failed_retryable"}, NEW a \in Int,
           a # NoTime => status = "failed_retryable",
           Settles(i, status, runs[i].startedAt, clock, a)
    PROVE  SoundRow(runs'[i], clock)
<1>1. runs[i] \in Row /\ SoundRow(runs[i], clock) /\ clock \in Time
  BY DEF TypeOK, RowsSound
<1>2. runs[i].startedAt # NoTime /\ runs[i].startedAt <= clock
  BY <1>1 DEF SoundRow
<1> QED BY <1>1, <1>2, SettlesSound, RowTypes, NoTimeIsFirst

LEMMA CompleteSound ==
    ASSUME TypeOK, RowsSound, NEW w \in Workers, Complete(w), NEW i \in RunIds
    PROVE  SoundRow(runs'[i], clock)
BY CompleteRow, EndedNowSound, NullValues DEF Owns, RowsSound, Settled

LEMMA FailedSound ==
    ASSUME TypeOK, RowsSound, WorkersSound, NEW w \in Workers,
           RecordFailure(w), NEW i \in RunIds
    PROVE  SoundRow(runs'[i], clock)
<1> DEFINE f == worker[w].failure
<1>1. /\ f.retryAfterAt \in Int
      /\ f.retryAfterAt # NoTime => FailedStatus(f) = "failed_retryable"
  BY DEF TypeOK, WorkerState, Failure, WorkersSound, SoundWorker, FailedStatus
<1>2. FailedStatus(f) \in Settled \cup {"failed_retryable"}
  BY DEF FailedStatus, Settled
<1>3. CASE /\ i = worker[w].claim.run
           /\ Owns(w)
           /\ Settles(i, FailedStatus(f), runs[i].startedAt, clock,
                      f.retryAfterAt)
  BY <1>1, <1>2, <1>3, EndedNowSound DEF Owns
<1> QED BY <1>3, FailedRow DEF RowsSound

LEMMA DeferredSound ==
    ASSUME TypeOK, RowsSound, NEW w \in Workers, DeferRetry(w),
           NEW i \in RunIds
    PROVE  SoundRow(runs'[i], clock)
<1>1. runs[i] \in Row /\ SoundRow(runs[i], clock)
  BY DEF TypeOK, RowsSound
<1>2. CASE runs'[i] = runs[i]
  BY <1>1, <1>2
<1>3. CASE runs'[i] # runs[i]
  <2>1. /\ runs[i].status = "failed_retryable"
        /\ \/ Becomes(i, "failed_terminal", runs[i].attempts,
                      runs[i].startedAt, runs[i].finishedAt, NoTime,
                      runs[i].leaseToken, runs[i].leaseExpiresAt)
           \/ Becomes(i, "failed_retryable", runs[i].attempts,
                      runs[i].startedAt, runs[i].finishedAt, RetryAt(w),
                      runs[i].leaseToken, runs[i].leaseExpiresAt)
    BY <1>3, DeferredRow
  <2> QED BY <1>1, <2>1 DEF SoundRow, Becomes, Settled
<1> QED BY <1>2, <1>3

\* The statements of a worker that update existing rows.
Updates(w) ==
    \/ CancelUnavailableRuns(w) \/ CancelSupersededRetryableRuns(w)
    \/ TerminalizeExhaustedRuns(w) \/ RequeueEligibleRuns(w) \/ ClaimNext(w)
    \/ ExtendLease(w) \/ Complete(w) \/ RecordFailure(w) \/ DeferRetry(w)

LEMMA RowWriters ==
    ASSUME TypeOK, [Next]_vars
    PROVE  \/ UNCHANGED runs
           \/ \E w \in Workers : Updates(w)
           \/ \E c \in Callers : Inserts(c)
           \/ \E r \in Repos : Disconnect(r)
<1>1. ASSUME NEW c \in Callers, FindActiveRun(c) \/ InsertRun(c)
      PROVE  UNCHANGED runs \/ Inserts(c)
  BY <1>1 DEF FindActiveRun, InsertRun, Inserts, TypeOK, runVars
<1>2. ASSUME NEW w \in Workers,
             \/ WorkerStep(w) \/ ExtendLease(w) \/ StatementFails(w)
             \/ Crash(w) \/ Shutdown(w)
      PROVE  UNCHANGED runs \/ Updates(w) \/ Inserts(w)
  <2>1. w \in Callers
    BY DEF Callers
  <2>2. CASE \/ BeginTick(w) \/ ListDueRepositories(w) \/ EnqueueScheduled(w)
             \/ EndSyncTick(w) \/ LoadClaimed(w) \/ FailIngestion(w)
             \/ Restart(w) \/ StatementFails(w) \/ Crash(w) \/ Shutdown(w)
    BY <2>2 DEF BeginTick, ListDueRepositories, EnqueueScheduled, EndSyncTick,
           LoadClaimed, FailIngestion, Restart, StatementFails, Crash,
           Shutdown, runVars
  <2> QED BY <1>1, <1>2, <2>1, <2>2 DEF WorkerStep, Updates
<1>3. ASSUME NEW u \in Users, \/ \E r \in Repos : StartManually(u, r)
                              \/ FindActiveRun(u) \/ InsertRun(u)
      PROVE  UNCHANGED runs \/ Inserts(u)
  BY <1>1, <1>3 DEF StartManually, Callers, runVars
<1>4. ASSUME NEW r \in Repos, ConnectRepository(r) \/ BecomeUnavailable(r)
      PROVE  UNCHANGED runs
  BY <1>4 DEF ConnectRepository, BecomeUnavailable, runVars
<1>5. ASSUME Tick \/ UNCHANGED vars
      PROVE  UNCHANGED runs
  BY <1>5 DEF Tick, vars, runVars
<1> QED BY <1>2, <1>3, <1>4, <1>5 DEF Next, Callers

LEMMA NewRow ==
    ASSUME TypeOK, NEW c \in Callers, Inserts(c)
    PROVE  /\ created + 1 \in RunIds
           /\ \A j \in RunIds \ {created + 1} : runs'[j] = runs[j]
           /\ runs'[created + 1] = NewRun(call[c])
BY ConstantTypes DEF Inserts, TypeOK, RunIds

\* The columns of a row that createQueuedRun inserts.
LEMMA NewRunColumns ==
    ASSUME TypeOK, NEW c \in Call
    PROVE  LET row == NewRun(c)
           IN  /\ row.status = "queued" /\ row.repo = c.repo
               /\ row.attempts = 0 /\ row.createdAt = clock
               /\ row.startedAt = NoTime /\ row.finishedAt = NoTime
               /\ row.retryAfterAt = NoTime /\ row.leaseToken = NoToken
               /\ row.leaseExpiresAt = NoTime
               /\ row.windowStart = WindowStart(c)
               /\ row.windowEnd = c.windowEnd
BY DEF NewRun, NoRow

LEMMA InsertSound ==
    ASSUME TypeOK, RowsSound, NEW c \in Callers, Inserts(c), NEW i \in RunIds
    PROVE  SoundRow(runs'[i], clock)
<1>1. CASE i = created + 1
  <2>1. call[c] \in Call /\ WindowStart(call[c]) <= call[c].windowEnd
    BY DEF Inserts, Insertable
  <2>2. NoTime <= clock
    BY NoTimeIsFirst DEF TypeOK
  <2>3. SoundRow(NewRun(call[c]), clock)
    BY <2>1, <2>2, NewRunColumns DEF SoundRow, Settled
  <2> QED BY <1>1, <2>3, NewRow
<1>2. CASE i # created + 1
  BY <1>2, NewRow DEF RowsSound
<1> QED BY <1>1, <1>2

LEMMA DisconnectSound ==
    ASSUME TypeOK, RowsSound, NEW r \in Repos, Disconnect(r), NEW i \in RunIds
    PROVE  SoundRow(runs'[i], clock)
<1>1. CASE i \in RunsOf(r)
  <2>1. runs'[i] = [NoRow EXCEPT !.status = "deleted"]
    BY <1>1 DEF Disconnect, Update
  <2>2. NoTime <= clock
    BY NoTimeIsFirst DEF TypeOK
  <2> QED BY <2>1, <2>2 DEF SoundRow, NoRow, Settled, NoToken, NoTime
<1>2. CASE i \notin RunsOf(r)
  BY <1>2 DEF Disconnect, Update, RowsSound
<1> QED BY <1>1, <1>2

LEMMA RowsStaySound ==
    ASSUME TypeOK, RowsSound, WorkersSound, [Next]_vars
    PROVE  RowsSound'
<1> SUFFICES ASSUME NEW i \in RunIds
             PROVE  SoundRow(runs'[i], clock')
  BY DEF RowsSound
<1>1. SoundRow(runs'[i], clock)
  <2>1. ASSUME NEW w \in Workers, Updates(w)
        PROVE  SoundRow(runs'[i], clock)
    BY <2>1, CancelSound, SupersedeSound, ExhaustSound, RequeueSound,
       ClaimSound, ExtendSound, CompleteSound, FailedSound, DeferredSound
       DEF Updates
  <2> QED BY <2>1, InsertSound, DisconnectSound, RowWriters DEF RowsSound
<1>2. runs'[i] \in Row
  BY NextType DEF TypeOK
<1> QED BY <1>1, <1>2, TimePasses, LaterSound

LEMMA SoundHolds == Spec => [](RowsSound /\ WorkersSound)
<1>1. Init => RowsSound /\ WorkersSound
  <2> SUFFICES ASSUME Init
               PROVE  RowsSound /\ WorkersSound
    OBVIOUS
  <2>1. RowsSound
    BY DEF Init, RowsSound, SoundRow, NoRow, Settled, NoToken, NoTime
  <2>2. \A w \in Workers : worker[w] = Fresh
    BY DEF Init
  <2>3. 0 \in Time /\ clock = 0
    BY NullValues DEF Init
  <2> QED BY <2>1, <2>2, <2>3, FreshSound DEF WorkersSound
<1>2. TypeOK /\ (RowsSound /\ WorkersSound) /\ [Next]_vars
        => (RowsSound /\ WorkersSound)'
  BY RowsStaySound, WorkersStaySound
<1> QED BY <1>1, <1>2, TypeCorrect, PTL DEF Spec

\* No statement of any tick, however old the instant it works with, and no write
\* of a late worker produces a row the CHECK constraints of "SyncRun" refuse:
\* a lease is recovered, exhausted or extended only by what started before it.
THEOREM RowsSatisfyConstraints == Spec => []RowConstraints
BY SoundHolds, RowsSoundConstraints, PTL

-----------------------------------------------------------------------------
(* The claims of the workers                                                 *)

\* What the row of a claim can be while the worker s executes it.  Before the
\* failure is recorded, a run that nobody claimed since is not waiting; and what
\* the first attempt of a run left in it is no later than what it asked for.
SoundClaim(s, row) ==
    /\ row.status # "none"
    /\ row.status = "deleted" \/ s.claim.token <= row.attempts
    /\ s.pc # "defer" /\ row.attempts = s.claim.token =>
         row.status \notin {"queued", "failed_retryable"}
    /\ s.pc = "defer" /\ row.attempts = 1 /\ row.status = "failed_retryable" =>
         row.retryAfterAt <= s.failure.retryAfterAt

ClaimsSound ==
    \A w \in Workers : worker[w].pc \in Executing =>
        SoundClaim(worker[w], runs[worker[w].claim.run])

\* No two workers execute a run under the same token.
TokensDiffer ==
    \A v, w \in Workers :
        /\ v # w
        /\ worker[v].pc \in Executing /\ worker[w].pc \in Executing
        /\ worker[v].claim.run = worker[w].claim.run
        /\ runs[worker[w].claim.run].status # "deleted"
        => worker[v].claim.token # worker[w].claim.token

ExecInv == IInv /\ RowsSound /\ WorkersSound /\ ClaimsSound /\ TokensDiffer

LEMMA ExecutingClaim ==
    ASSUME ExecInv, NEW w \in Workers, worker[w].pc \in Executing
    PROVE  /\ worker[w].claim.run \in RunIds
           /\ worker[w].claim.token \in Nat /\ worker[w].claim.token >= 1
           /\ SoundClaim(worker[w], runs[worker[w].claim.run])
           /\ runs[worker[w].claim.run] \in Row
           /\ SoundRow(runs[worker[w].claim.run], clock)
BY ConstantTypes DEF ExecInv, IInv, TypeOK, WorkersSound, SoundWorker,
   ClaimsSound, RowsSound, WorkerState, Claim

LEMMA OwnedToken ==
    ASSUME ExecInv, NEW w \in Workers, Owns(w)
    PROVE  /\ worker[w].pc \in Executing
           /\ worker[w].claim.token = runs[worker[w].claim.run].attempts
<1>1. worker[w].pc \in Executing
  BY DEF ExecInv, WorkersSound, SoundWorker, Owns, NoClaim
<1> QED BY <1>1, ExecutingClaim DEF Owns, SoundRow

LEMMA DeletedStays ==
    ASSUME IInv, [Next]_vars, NEW i \in RunIds, runs[i].status = "deleted"
    PROVE  runs'[i].status = "deleted"
<1>1. CASE RowSteps
  BY <1>1 DEF RowSteps, RowStep, Active
<1>2. ASSUME NEW c \in Callers, Inserts(c)
      PROVE  runs'[i] = runs[i]
  BY <1>2, NewRow DEF IInv, RowsInOrder, TypeOK
<1>3. ASSUME NEW r \in Repos, Disconnect(r)
      PROVE  runs'[i] = runs[i] \/ runs'[i].status = "deleted"
  BY <1>3 DEF Disconnect, Update, RunsOf, NoRow
<1> QED BY <1>1, <1>2, <1>3, StepKinds DEF IInv

\* The steps that leave a worker executing: it claims a run, or keeps its claim
\* and goes on.
LEMMA ClaimKept ==
    ASSUME TypeOK, WorkersSound, NEW w \in Workers, OwnStep(w),
           worker'[w].pc \in Executing
    PROVE  \/ ClaimNext(w)
           \/ /\ worker[w].pc \in Executing
              /\ worker'[w].claim = worker[w].claim
<1> USE DEF Executing
<1>1. worker[w] \in WorkerState
  BY DEF TypeOK
<1>2. ~EndTick(w) /\ worker'[w] # Fresh
  BY DEF EndTick, Fresh, TypeOK
<1>3. \A label : Goto(w, label) => /\ worker'[w].claim = worker[w].claim
                                   /\ worker'[w].pc = label
  BY <1>1 DEF Goto, TypeOK, WorkerState
<1>4. \A f : Fail(w, f) => worker'[w].claim = worker[w].claim
  BY <1>1 DEF Fail, TypeOK, WorkerState
<1>5. \A todo : worker' = [worker EXCEPT ![w].todo = todo] =>
         worker'[w].pc = worker[w].pc /\ worker'[w].claim = worker[w].claim
  BY <1>1 DEF TypeOK, WorkerState
<1>6. CASE \/ BeginTick(w) \/ CancelUnavailableRuns(w)
           \/ CancelSupersededRetryableRuns(w) \/ TerminalizeExhaustedRuns(w)
           \/ RequeueEligibleRuns(w) \/ ListDueRepositories(w)
           \/ EnqueueScheduled(w)
  <2>1. ASSUME BeginTick(w) PROVE FALSE
    <3>1. worker'[w] = [worker[w] EXCEPT !.pc = "cancel", !.now = clock]
      BY <2>1 DEF BeginTick, TypeOK
    <3>2. worker'[w].pc = "cancel"
      BY <1>1, <3>1 DEF WorkerState
    <3> QED BY <3>2
  <2>2. ASSUME NEW batch,
               worker' = [worker EXCEPT ![w] =
                            [@ EXCEPT !.pc = "enqueue", !.todo = batch]]
        PROVE  FALSE
    <3>1. worker'[w] = [worker[w] EXCEPT !.pc = "enqueue", !.todo = batch]
      BY <2>2 DEF TypeOK
    <3>2. worker'[w].pc = "enqueue"
      BY <1>1, <3>1 DEF WorkerState
    <3> QED BY <3>2
  <2>3. \A label \in {"supersede", "exhaust", "requeue", "schedule",
                      "enqueue"} : ~Goto(w, label)
    BY <1>3
  <2>4. ~ListDueRepositories(w)
    BY <2>2, <2>3 DEF ListDueRepositories
  <2>5. ~EnqueueScheduled(w)
    BY <1>5 DEF EnqueueScheduled
  <2>6. CancelUnavailableRuns(w) => Goto(w, "supersede")
    BY <1>2 DEF CancelUnavailableRuns
  <2>7. /\ CancelSupersededRetryableRuns(w) => Goto(w, "exhaust")
        /\ TerminalizeExhaustedRuns(w) => Goto(w, "requeue")
        /\ RequeueEligibleRuns(w) => Goto(w, "schedule")
    BY DEF CancelSupersededRetryableRuns, TerminalizeExhaustedRuns,
           RequeueEligibleRuns
  <2> QED BY <1>6, <2>1, <2>3, <2>4, <2>5, <2>6, <2>7
<1>7. CASE \/ FindActiveRun(w) \/ InsertRun(w) \/ EndSyncTick(w)
           \/ LoadClaimed(w) \/ FailIngestion(w)
           \/ Complete(w) \/ RecordFailure(w) \/ DeferRetry(w)
  BY <1>2, <1>3, <1>4, <1>7
     DEF FindActiveRun, InsertRun, EndSyncTick, LoadClaimed, FailIngestion,
         Complete, RecordFailure, DeferRetry
<1>8. CASE Restart(w) \/ Crash(w)
  BY <1>2, <1>8 DEF Restart, Crash, TypeOK
<1>9. CASE Shutdown(w)
  BY <1>1, <1>9 DEF Shutdown, TypeOK, WorkerState
<1>10. CASE StatementFails(w)
  BY <1>2, <1>3, <1>5, <1>10 DEF StatementFails
<1> QED BY <1>6, <1>7, <1>8, <1>9, <1>10 DEF OwnStep, WorkerStep

LEMMA TokensStayDifferent ==
    ASSUME ExecInv, [Next]_vars
    PROVE  TokensDiffer'
<1>1. ASSUME NEW v \in Workers, NEW w \in Workers, v # w,
             worker'[v].pc \in Executing, worker'[w].pc \in Executing,
             worker'[v].claim.run = worker'[w].claim.run,
             runs'[worker'[w].claim.run].status # "deleted",
             ClaimNext(w)
      PROVE  worker'[v].claim.token # worker'[w].claim.token
  <2>1. PICK i \in RunIds :
           /\ Claimable(i, worker[w].now)
           /\ worker' = [worker EXCEPT ![w] = [worker[w] EXCEPT
                !.pc = "load",
                !.claim = [run |-> i, token |-> runs[i].attempts + 1]]]
    BY <1>1, ClaimRow DEF ExecInv, IInv
  <2>2. /\ worker'[v] = worker[v]
        /\ worker'[w].claim.run = i
        /\ worker'[w].claim.token = runs[i].attempts + 1
    BY <1>1, <2>1 DEF ExecInv, IInv, TypeOK, WorkerState
  <2>3. worker[v].claim.token <= runs[i].attempts
    BY <1>1, <2>1, <2>2, ExecutingClaim DEF SoundClaim, Claimable, Expired
  <2>4. worker[v].claim.token \in Int /\ runs[i].attempts \in Int
    BY <1>1, <2>1, <2>2, ExecutingClaim, RowTypes
  <2> QED BY <2>2, <2>3, <2>4
<1>2. \A w \in Workers : worker'[w].pc \in Executing =>
         \/ ClaimNext(w)
         \/ /\ worker[w].pc \in Executing
            /\ worker'[w].claim = worker[w].claim
  BY WorkerMoves, ClaimKept DEF ExecInv, IInv
<1> SUFFICES ASSUME NEW v \in Workers, NEW w \in Workers, v # w,
                    worker'[v].pc \in Executing, worker'[w].pc \in Executing,
                    worker'[v].claim.run = worker'[w].claim.run,
                    runs'[worker'[w].claim.run].status # "deleted"
             PROVE  worker'[v].claim.token # worker'[w].claim.token
  BY DEF TokensDiffer
<1>3. CASE ClaimNext(w)
  BY <1>1, <1>3
<1>4. CASE ClaimNext(v)
  BY <1>1, <1>4
<1>5. CASE ~ClaimNext(v) /\ ~ClaimNext(w)
  <2>1. /\ worker[v].pc \in Executing /\ worker'[v].claim = worker[v].claim
        /\ worker[w].pc \in Executing /\ worker'[w].claim = worker[w].claim
    BY <1>2, <1>5
  <2>2. runs[worker[w].claim.run].status # "deleted"
    BY <2>1, ExecutingClaim, DeletedStays DEF ExecInv
  <2> QED BY <2>1, <2>2 DEF ExecInv, TokensDiffer
<1> QED BY <1>3, <1>4, <1>5

\* The statements that move a row while another worker executes it.
LEMMA OtherWorkersKeepClaim ==
    ASSUME ExecInv, [Next]_vars, NEW w \in Workers,
           worker[w].pc \in Executing, worker'[w] = worker[w]
    PROVE  SoundClaim(worker[w], runs'[worker[w].claim.run])
<1> DEFINE i == worker[w].claim.run
           token == worker[w].claim.token
<1>1. /\ i \in RunIds /\ token \in Nat /\ token >= 1
      /\ SoundClaim(worker[w], runs[i])
      /\ runs[i] \in Row /\ SoundRow(runs[i], clock)
  BY ExecutingClaim
<1>2. TypeOK
  BY DEF ExecInv, IInv
<1>3. runs[i].attempts \in Nat
  BY <1>1, RowTypes
<1> HIDE DEF i, token
<1>4. ASSUME NEW v \in Workers, Updates(v)
      PROVE  SoundClaim(worker[w], runs'[i])
  <2>1. ASSUME runs[i].status # "deleted",
               NEW status \in Settled, NEW s, NEW f,
               Settles(i, status, s, f, NoTime)
        PROVE  SoundClaim(worker[w], runs'[i])
    BY <1>1, <2>1 DEF SoundClaim, Settles, Becomes, Settled, token, i
  <2>2. CASE CancelUnavailableRuns(v) \/ CancelSupersededRetryableRuns(v)
    <3>1. "cancelled" \in Settled
      BY DEF Settled
    <3>2. Orphaned(i) => runs[i].status # "deleted"
      BY DEF Orphaned, Active
    <3> QED BY <1>1, <1>2, <2>1, <2>2, <3>1, <3>2, CancelRows, SupersedeRows
            DEF i
  <2>3. CASE TerminalizeExhaustedRuns(v)
    <3>1. "failed_terminal" \in Settled
      BY DEF Settled
    <3>2. \A t : Expired(i, t) => runs[i].status # "deleted"
      BY DEF Expired
    <3> QED BY <1>1, <1>2, <2>1, <2>3, <3>1, <3>2, ExhaustRows DEF i
  <2>4. CASE RequeueEligibleRuns(v)
    <3>1. \/ runs'[i] = runs[i]
          \/ /\ runs[i].status = "failed_retryable"
             /\ Settles(i, "queued", NoTime, NoTime, NoTime)
      BY <1>1, <1>2, <2>4, RequeueRows
    <3> QED BY <1>1, <3>1 DEF SoundClaim, Settles, Becomes, token, i
  <2>5. CASE ClaimNext(v)
    <3>1. PICK j \in RunIds :
             /\ Claimable(j, worker[v].now)
             /\ \A k \in RunIds \ {j} : runs'[k] = runs[k]
             /\ Becomes(j, "running", runs[j].attempts + 1,
                        Coalesce(runs[j].startedAt, worker[v].now),
                        NoTime, NoTime, runs[j].attempts + 1,
                        worker[v].now + LeaseDuration)
      BY <1>2, <2>5, ClaimRow
    <3>2. CASE i = j
      <4>1. runs[i].status # "deleted"
        BY <3>1, <3>2 DEF Claimable, Expired
      <4>2. /\ runs'[i].status = "running"
            /\ runs'[i].attempts = runs[i].attempts + 1
            /\ token < runs[i].attempts + 1
        BY <1>1, <1>3, <3>1, <3>2, <4>1 DEF Becomes, SoundClaim, token, i
      <4> QED BY <1>1, <1>3, <4>2 DEF SoundClaim, token, i
    <3>3. CASE i # j
      BY <1>1, <3>1, <3>3 DEF i
    <3> QED BY <3>2, <3>3
  <2>6. CASE ExtendLease(v)
    <3>1. \/ runs'[i] = runs[i]
          \/ /\ runs'[i].status = "running" /\ runs[i].status = "running"
             /\ runs'[i].attempts = runs[i].attempts
      BY <1>1, <1>2, <2>6, ExtendRow DEF Becomes
    <3> QED BY <1>1, <3>1 DEF SoundClaim, token, i
  <2>7. CASE Complete(v)
    <3>1. "succeeded" \in Settled
      BY DEF Settled
    <3> QED BY <1>1, <1>2, <2>1, <2>7, <3>1, CompleteRow DEF Owns, i
  <2>8. CASE RecordFailure(v)
    <3>1. CASE runs'[i] = runs[i]
      BY <1>1, <3>1 DEF i
    <3>2. CASE runs'[i] # runs[i]
      <4>1. /\ i = worker[v].claim.run /\ Owns(v)
            /\ runs'[i].attempts = runs[i].attempts
            /\ runs'[i].status \in {"failed_terminal", "failed_retryable"}
        BY <1>1, <1>2, <2>8, <3>2, FailedRow
           DEF Settles, Becomes, FailedStatus
      <4>2. v # w
        BY <1>2, <2>8 DEF RecordFailure, Goto, TypeOK, WorkerState
      <4>3. /\ worker[v].pc \in Executing
            /\ worker[v].claim.token = runs[i].attempts
            /\ runs[i].status = "running"
        BY <4>1, OwnedToken DEF Owns
      <4>4. token # runs[i].attempts
        BY <4>1, <4>2, <4>3 DEF ExecInv, TokensDiffer, token, i
      <4>5. token <= runs[i].attempts /\ runs[i].attempts # 1
        BY <1>1, <1>3, <4>3, <4>4 DEF SoundClaim, token, i
      <4> QED BY <4>1, <4>4, <4>5 DEF SoundClaim, token, i
    <3> QED BY <3>1, <3>2
  <2>9. CASE DeferRetry(v)
    <3>1. CASE runs'[i] = runs[i]
      BY <1>1, <3>1 DEF i
    <3>2. CASE runs'[i] # runs[i]
      <4>1. /\ i = worker[v].claim.run
            /\ runs[i].status = "failed_retryable"
            /\ runs'[i].attempts = runs[i].attempts
            /\ runs'[i].status \in {"failed_terminal", "failed_retryable"}
        BY <1>1, <1>2, <2>9, <3>2, DeferredRow DEF Becomes
      <4>2. worker[v].pc \in Executing
        BY <2>9 DEF DeferRetry, Executing
      <4>3. v # w
        BY <1>2, <2>9 DEF DeferRetry, EndTick, Fresh, TypeOK, WorkerState
      <4>4. token # worker[v].claim.token
        BY <4>1, <4>2, <4>3 DEF ExecInv, TokensDiffer, i, token
      <4>5. runs[i].attempts # 1
        <5>1. /\ worker[v].claim.token \in Nat /\ worker[v].claim.token >= 1
              /\ worker[v].claim.token <= runs[i].attempts
          BY <4>1, <4>2, ExecutingClaim DEF SoundClaim
        <5>2. token <= runs[i].attempts
          BY <1>1, <4>1 DEF SoundClaim, i, token
        <5> QED BY <1>1, <1>3, <4>4, <5>1, <5>2
      <4>6. token <= runs[i].attempts
        BY <1>1, <4>1 DEF SoundClaim, i, token
      <4>7. worker[w].pc # "defer" => token # runs[i].attempts
        BY <1>1, <4>1 DEF SoundClaim, i, token
      <4> QED BY <4>1, <4>5, <4>6, <4>7 DEF SoundClaim, i, token
    <3> QED BY <3>1, <3>2
  <2> QED BY <1>4, <2>2, <2>3, <2>4, <2>5, <2>6, <2>7, <2>8, <2>9 DEF Updates
<1>5. ASSUME NEW c \in Callers, Inserts(c)
      PROVE  SoundClaim(worker[w], runs'[i])
  <2>1. i # created + 1
    BY <1>1, <1>2 DEF SoundClaim, ExecInv, IInv, RowsInOrder, TypeOK, i
  <2> QED BY <1>1, <1>2, <1>5, <2>1, NewRow DEF i
<1>6. ASSUME NEW r \in Repos, Disconnect(r)
      PROVE  SoundClaim(worker[w], runs'[i])
  <2>1. runs'[i] = runs[i] \/ runs'[i].status = "deleted"
    BY <1>1, <1>6 DEF Disconnect, Update, RunsOf, NoRow
  <2> QED BY <1>1, <2>1 DEF SoundClaim, i
<1>7. ASSUME UNCHANGED runs
      PROVE  SoundClaim(worker[w], runs'[i])
  BY <1>1, <1>7 DEF i
<1>8. \/ UNCHANGED runs
      \/ \E v \in Workers : Updates(v)
      \/ \E c \in Callers : Inserts(c)
      \/ \E r \in Repos : Disconnect(r)
  BY <1>2, RowWriters
<1>9. SoundClaim(worker[w], runs'[i])
  BY <1>4, <1>5, <1>6, <1>7, <1>8
<1> QED BY <1>9 DEF i

\* The steps that leave a worker executing keep what its claim says of the row.
LEMMA OwnStepKeepsClaim ==
    ASSUME ExecInv, [Next]_vars, NEW w \in Workers, OwnStep(w),
           worker'[w].pc \in Executing
    PROVE  SoundClaim(worker'[w], runs'[worker'[w].claim.run])
<1>1. TypeOK /\ WorkersSound /\ worker[w] \in WorkerState
  BY DEF ExecInv, IInv, TypeOK
<1>2. CASE ClaimNext(w)
  <2>1. PICK i \in RunIds :
           /\ Claimable(i, worker[w].now)
           /\ Becomes(i, "running", runs[i].attempts + 1,
                      Coalesce(runs[i].startedAt, worker[w].now),
                      NoTime, NoTime, runs[i].attempts + 1,
                      worker[w].now + LeaseDuration)
           /\ worker' = [worker EXCEPT ![w] = [worker[w] EXCEPT
                !.pc = "load",
                !.claim = [run |-> i, token |-> runs[i].attempts + 1]]]
    BY <1>1, <1>2, ClaimRow
  <2>2. /\ worker'[w].claim.run = i
        /\ worker'[w].claim.token = runs[i].attempts + 1
        /\ worker'[w].pc = "load"
    BY <1>1, <2>1 DEF TypeOK, WorkerState
  <2>3. runs[i].attempts \in Nat
    BY <1>1, RowTypes DEF TypeOK
  <2> QED BY <2>1, <2>2, <2>3 DEF SoundClaim, Becomes
<1>3. CASE ~ClaimNext(w)
  <2>1. worker[w].pc \in Executing /\ worker'[w].claim = worker[w].claim
    BY <1>1, <1>3, ClaimKept
  <2> DEFINE i == worker[w].claim.run
             token == worker[w].claim.token
  <2>2. /\ i \in RunIds /\ token \in Nat /\ token >= 1
        /\ SoundClaim(worker[w], runs[i])
        /\ runs[i] \in Row
    BY <2>1, ExecutingClaim
  <2>3. runs[i].attempts \in Nat
    BY <2>2, RowTypes
  <2> HIDE DEF i, token
  <2>4. ASSUME UNCHANGED runs, worker[w].pc # "defer"
        PROVE  SoundClaim(worker'[w], runs'[i])
    \* The only attempt of a run has the first token.
    <3>1. runs[i].attempts = 1 /\ runs[i].status # "deleted" => token = 1
      BY <2>2, <2>3 DEF SoundClaim, token, i
    <3>2. runs[i].attempts = 1 => runs[i].status # "failed_retryable"
      BY <2>2, <2>4, <3>1 DEF SoundClaim, token, i
    <3> QED BY <2>1, <2>2, <2>4, <3>2 DEF SoundClaim, token, i
  <2>5. CASE LoadClaimed(w) \/ FailIngestion(w)
    BY <2>1, <2>4, <2>5 DEF LoadClaimed, FailIngestion, runVars, i
  <2>6. CASE Complete(w)
    <3>1. ~EndTick(w)
      BY <1>1 DEF EndTick, Fresh, TypeOK, Executing
    <3> QED BY <2>1, <2>4, <2>6, <3>1 DEF Complete, i
  <2>7. CASE RecordFailure(w)
    <3>1. CASE runs' = runs
      BY <2>1, <2>4, <2>7, <3>1 DEF RecordFailure, i
    <3>2. CASE runs' # runs
      <4>1. Owns(w)
        BY <2>7, <3>2 DEF RecordFailure
      <4>2. \/ runs'[i] = runs[i]
            \/ Settles(i, FailedStatus(worker[w].failure), runs[i].startedAt,
                       clock, worker[w].failure.retryAfterAt)
        BY <1>1, <2>2, <2>7, FailedRow
      <4>3. runs[i].status = "running" /\ token <= runs[i].attempts
        BY <2>2, <4>1 DEF Owns, SoundClaim, i, token
      <4>4. /\ worker'[w].pc = "defer"
            /\ worker'[w].failure = worker[w].failure
        BY <1>1, <2>7 DEF RecordFailure, Goto, TypeOK, WorkerState
      <4>5. worker[w].failure.retryAfterAt \in Int
        BY <1>1 DEF WorkerState, Failure
      <4>6. SoundClaim(worker'[w], runs'[i])
        <5>1. CASE runs'[i] = runs[i]
          BY <2>1, <4>3, <4>4, <5>1 DEF SoundClaim, token
        <5>2. CASE Settles(i, FailedStatus(worker[w].failure),
                           runs[i].startedAt, clock,
                           worker[w].failure.retryAfterAt)
          BY <2>1, <4>3, <4>4, <4>5, <5>2
             DEF SoundClaim, token, Settles, Becomes, FailedStatus
        <5> QED BY <4>2, <5>1, <5>2
      <4> QED BY <2>1, <4>6 DEF i
    <3> QED BY <3>1, <3>2
  <2>8. CASE DeferRetry(w)
    BY <1>1, <2>8 DEF DeferRetry, EndTick, Fresh, TypeOK, Executing
  <2>9. CASE StatementFails(w)
    <3>1. CASE UNCHANGED worker
      BY <2>1, <3>1, OtherWorkersKeepClaim
    <3>2. CASE worker[w].pc \in {"load", "failing"}
      BY <2>1, <2>4, <2>9, <3>2 DEF StatementFails, runVars, i
    <3>3. ~EndTick(w)
      BY <1>1 DEF EndTick, Fresh, TypeOK, Executing
    <3> QED BY <2>1, <2>9, <3>1, <3>2, <3>3 DEF StatementFails, Executing
  <2>10. CASE Shutdown(w)
    <3>1. worker'[w].pc = worker[w].pc /\ worker'[w].failure = worker[w].failure
      BY <1>1, <2>10 DEF Shutdown, TypeOK, WorkerState
    <3> QED BY <2>1, <2>2, <2>10, <3>1
            DEF Shutdown, runVars, SoundClaim, i, token
  <2>11. CASE Crash(w) \/ Restart(w)
    BY <1>1, <2>11 DEF Crash, Restart, Fresh, TypeOK, Executing
  <2>12. worker[w].pc \in {"load", "ingest", "failing", "defer"}
    BY <2>1 DEF Executing
  <2>13. CASE FindActiveRun(w) \/ InsertRun(w)
    <3>1. worker'[w] = worker[w]
      BY <2>13 DEF FindActiveRun, InsertRun
    <3> QED BY <2>1, <3>1, OtherWorkersKeepClaim
  <2> QED BY <1>3, <2>5, <2>6, <2>7, <2>8, <2>9, <2>10, <2>11, <2>12, <2>13
          DEF OwnStep, WorkerStep, BeginTick, CancelUnavailableRuns,
              CancelSupersededRetryableRuns, TerminalizeExhaustedRuns,
              RequeueEligibleRuns, ListDueRepositories, EnqueueScheduled,
              EndSyncTick
<1> QED BY <1>2, <1>3

LEMMA ClaimsStaySound ==
    ASSUME ExecInv, [Next]_vars
    PROVE  ClaimsSound'
<1> SUFFICES ASSUME NEW w \in Workers, worker'[w].pc \in Executing
             PROVE  SoundClaim(worker'[w], runs'[worker'[w].claim.run])
  BY DEF ClaimsSound
<1>1. CASE worker'[w] = worker[w]
  BY <1>1, OtherWorkersKeepClaim
<1>2. CASE OwnStep(w)
  BY <1>2, OwnStepKeepsClaim
<1> QED BY <1>1, <1>2, WorkerMoves DEF ExecInv, IInv

LEMMA ExecInvHolds == Spec => []ExecInv
<1>1. Init => ClaimsSound /\ TokensDiffer
  BY DEF Init, Fresh, ClaimsSound, TokensDiffer, Executing
<1>2. IInv /\ (RowsSound /\ WorkersSound) /\ (ClaimsSound /\ TokensDiffer)
        /\ [Next]_vars => (ClaimsSound /\ TokensDiffer)'
  BY ClaimsStaySound, TokensStayDifferent DEF ExecInv
<1>3. IInv /\ (RowsSound /\ WorkersSound) /\ (ClaimsSound /\ TokensDiffer)
        <=> ExecInv
  BY DEF ExecInv
<1> QED BY <1>1, <1>2, <1>3, IInvHolds, SoundHolds, PTL DEF Spec

-----------------------------------------------------------------------------
(* Late workers, and the time of a retry                                     *)

\* A step of a worker whose run was claimed again leaves the run's status.
LEMMA LateStep ==
    ASSUME ExecInv, [Next]_vars, NEW w \in Workers,
           worker[w].claim.run # NoRun, worker'[w] # worker[w],
           worker[w].claim.token < runs[worker[w].claim.run].attempts
    PROVE  runs'[worker[w].claim.run].status
             = runs[worker[w].claim.run].status
<1> DEFINE i == worker[w].claim.run
<1>1. TypeOK /\ WorkersSound /\ OwnStep(w)
  BY WorkerMoves DEF ExecInv, IInv
<1>2. worker[w].pc \in Executing
  BY <1>1 DEF WorkersSound, SoundWorker, NoClaim
<1>3. /\ i \in RunIds /\ runs[i] \in Row
      /\ worker[w].claim.token \in Nat
  BY <1>2, ExecutingClaim
<1>4. ~Owns(w)
  BY <1>3, OwnedToken, RowTypes
<1>5. ~LastAttempt(worker[w].claim.token)
  BY <1>3, RowTypes, ConstantTypes DEF LastAttempt
<1>6. ASSUME UNCHANGED runs
      PROVE  runs'[i].status = runs[i].status
  BY <1>6
<1>7. CASE DeferRetry(w)
  BY <1>1, <1>3, <1>5, <1>7, DeferredRow DEF Becomes
<1>8. CASE \/ LoadClaimed(w) \/ FailIngestion(w) \/ Complete(w)
           \/ RecordFailure(w) \/ Restart(w)
           \/ StatementFails(w) \/ Crash(w) \/ Shutdown(w)
  BY <1>4, <1>6, <1>8
     DEF LoadClaimed, FailIngestion, Complete, RecordFailure, Restart,
         StatementFails, Crash, Shutdown, runVars
<1>9. CASE FindActiveRun(w) \/ InsertRun(w)
  BY <1>9 DEF FindActiveRun, InsertRun
<1> QED BY <1>1, <1>2, <1>7, <1>8, <1>9
        DEF OwnStep, WorkerStep, BeginTick, CancelUnavailableRuns,
            CancelSupersededRetryableRuns, TerminalizeExhaustedRuns,
            RequeueEligibleRuns, ListDueRepositories, EnqueueScheduled,
            EndSyncTick, ClaimNext, Executing, Maintenance

\* A worker whose lease another claim took over never changes the status of the
\* run, for any number of workers and attempts: its fenced writes miss the row,
\* and deferRetry, which names no token, takes it for failed only at the last
\* attempt, which a late worker's is not.
THEOREM LateWorkersKeepStatus == Spec => LateWorkerKeepsStatus
<1>1. ExecInv /\ [Next]_vars =>
        [\A w \in Workers :
            LET i == worker[w].claim.run IN
            /\ i # NoRun
            /\ worker'[w] # worker[w]
            /\ worker[w].claim.token < runs[i].attempts
            => runs'[i].status = runs[i].status]_vars
  BY LateStep
<1> QED BY <1>1, ExecInvHolds, PTL DEF Spec, LateWorkerKeepsStatus

LEMMA PostponeStep ==
    ASSUME ExecInv, [Next]_vars, NEW i \in RunIds,
           runs[i].status = "failed_retryable",
           runs'[i].status = "failed_retryable",
           runs'[i].retryAfterAt < runs[i].retryAfterAt
    PROVE  runs[i].attempts > 1
<1>1. TypeOK /\ runs[i] \in Row /\ runs[i].attempts \in Nat
  BY RowTypes DEF ExecInv, IInv, TypeOK
<1>2. runs'[i] # runs[i]
  BY <1>1, RowTypes
<1>3. ASSUME NEW c \in Callers, Inserts(c)
      PROVE  FALSE
  BY <1>1, <1>2, <1>3, NewRow DEF ExecInv, IInv, RowsInOrder, TypeOK
<1>4. ASSUME NEW r \in Repos, Disconnect(r)
      PROVE  FALSE
  BY <1>2, <1>4 DEF Disconnect, Update, NoRow
<1>5. PICK w \in Workers : Updates(w)
  BY <1>1, <1>2, <1>3, <1>4, RowWriters
<1>6. DeferRetry(w)
  <2>1. \A status, s, f, a : Settles(i, status, s, f, a) =>
           status = "failed_retryable"
    BY DEF Settles, Becomes
  <2>2. ~CancelUnavailableRuns(w)
    BY <1>1, <1>2, <2>1, CancelRows
  <2>3. ~CancelSupersededRetryableRuns(w)
    BY <1>1, <1>2, <2>1, SupersedeRows
  <2>4. ~TerminalizeExhaustedRuns(w)
    BY <1>1, <1>2, <2>1, ExhaustRows
  <2>5. ~RequeueEligibleRuns(w)
    BY <1>1, <1>2, <2>1, RequeueRows
  <2>6. ~ClaimNext(w)
    <3> SUFFICES ASSUME ClaimNext(w)
                 PROVE  FALSE
      OBVIOUS
    <3>1. PICK j \in RunIds :
             /\ Claimable(j, worker[w].now)
             /\ \A k \in RunIds \ {j} : runs'[k] = runs[k]
      BY <1>1, ClaimRow
    <3> QED BY <1>2, <3>1 DEF Claimable, Expired
  <2>7. ~ExtendLease(w)
    BY <1>1, <1>2, ExtendRow
  <2>8. ~Complete(w) /\ ~RecordFailure(w)
    BY <1>1, <1>2, CompleteRow, FailedRow DEF Owns
  <2> QED BY <1>5, <2>2, <2>3, <2>4, <2>5, <2>6, <2>7, <2>8 DEF Updates
<1>7. /\ i = worker[w].claim.run
      /\ runs'[i].retryAfterAt = RetryAt(w)
  BY <1>1, <1>2, <1>6, DeferredRow DEF Becomes
<1>8. worker[w].pc = "defer"
  BY <1>6 DEF DeferRetry
<1>9. SoundClaim(worker[w], runs[i]) /\ worker[w].claim.token >= 1
      /\ worker[w].claim.token \in Nat
  BY <1>7, <1>8, ExecutingClaim DEF Executing
<1>10. CASE runs[i].attempts = 1
  <2>1. runs[i].retryAfterAt <= worker[w].failure.retryAfterAt
    BY <1>8, <1>9, <1>10 DEF SoundClaim
  <2>2. worker[w].failure.retryAfterAt \in Int
    BY <1>1 DEF TypeOK, WorkerState, Failure
  <2>3. clock + Backoff(worker[w].claim.token) \in Int
    BY <1>1, <1>9, BackoffType, NullValues DEF TypeOK
  <2>4. worker[w].failure.retryAfterAt <= RetryAt(w) /\ RetryAt(w) \in Int
    BY <2>2, <2>3 DEF RetryAt, Later
  <2> QED BY <1>1, <1>7, <2>1, <2>2, <2>4, RowTypes
<1>11. runs[i].attempts >= 1
  BY <1>1, <1>9 DEF SoundClaim
<1> QED BY <1>1, <1>10, <1>11

\* The backoff of deferRetry never brings the retry of a run that was claimed
\* once before the instant GitHub asked for, whatever the two delays are.
THEOREM FirstRetryOnlyPostponed == Spec => RetryOnlyPostponed
<1>1. ExecInv /\ [Next]_vars =>
        [\A i \in RunIds :
            /\ runs[i].status = "failed_retryable"
            /\ runs'[i].status = "failed_retryable"
            /\ runs'[i].retryAfterAt < runs[i].retryAfterAt
            => runs[i].attempts > 1]_vars
  BY PostponeStep
<1> QED BY <1>1, ExecInvHolds, PTL DEF Spec, RetryOnlyPostponed

-----------------------------------------------------------------------------
(* What a step does to the rows and to the calls, as the rest needs it       *)

\* Statuses that keep a repository off the schedule.
Blocking == {"queued", "running", "failed_retryable", "failed_terminal"}

\* The rows keep what identifies them, none succeeds, none starts to block.
QuietRow(i) ==
    /\ runs'[i].repo = runs[i].repo
    /\ runs'[i].createdAt = runs[i].createdAt
    /\ runs'[i].windowStart = runs[i].windowStart
    /\ runs'[i].windowEnd = runs[i].windowEnd
    /\ runs'[i].status = "succeeded" <=> runs[i].status = "succeeded"
    /\ runs'[i].status \in Blocking => runs[i].status \in Blocking

QuietRows == \A i \in RunIds : QuietRow(i)

\* The final transaction of a run takes place.
Completes(w) ==
    LET i == worker[w].claim.run
        r == runs[i].repo
    IN  /\ Owns(w)
        /\ Available(r)
        /\ i \in RunIds
        /\ Settles(i, "succeeded", runs[i].startedAt, clock, NoTime)
        /\ \A j \in RunIds \ {i} : runs'[j] = runs[j]
        /\ lastSuccessfulSyncAt' =
             [lastSuccessfulSyncAt EXCEPT ![r] = runs[i].windowEnd]
        /\ UNCHANGED <<repoStatus, call>>

LEMMA QuietUnchanged == ASSUME UNCHANGED runs PROVE QuietRows
BY DEF QuietRows, QuietRow

LEMMA SettlesQuiet ==
    ASSUME NEW i \in RunIds, NEW status, NEW s, NEW f, NEW a,
           Settles(i, status, s, f, a), status # "succeeded",
           runs[i].status \in Blocking
    PROVE  QuietRow(i)
BY DEF Settles, Becomes, QuietRow, Blocking

LEMMA UpdatesQuiet ==
    ASSUME TypeOK, NEW w \in Workers, Updates(w), ~Complete(w)
    PROVE  QuietRows
<1> SUFFICES ASSUME NEW i \in RunIds
             PROVE  QuietRow(i)
  BY DEF QuietRows
<1>1. CASE runs'[i] = runs[i]
  BY <1>1 DEF QuietRow
<1>2. CASE runs'[i] # runs[i]
  <2>1. CASE CancelUnavailableRuns(w)
    <3>1. Orphaned(i) => runs[i].status \in Blocking
      BY DEF Orphaned, Active, Blocking
    <3> QED BY <1>2, <2>1, <3>1, CancelRows, SettlesQuiet
  <2>2. "failed_retryable" \in Blocking /\ "running" \in Blocking
    BY DEF Blocking
  <2>3. CASE CancelSupersededRetryableRuns(w)
    BY <1>2, <2>2, <2>3, SupersedeRows, SettlesQuiet
  <2>4. CASE TerminalizeExhaustedRuns(w)
    <3>1. Expired(i, worker[w].now) => runs[i].status = "running"
      BY DEF Expired
    <3> QED BY <1>2, <2>2, <2>4, <3>1, ExhaustRows, SettlesQuiet
  <2>5. CASE RequeueEligibleRuns(w)
    BY <1>2, <2>2, <2>5, RequeueRows, SettlesQuiet
  <2>6. CASE ClaimNext(w)
    <3>1. PICK j \in RunIds :
             /\ Claimable(j, worker[w].now)
             /\ \A k \in RunIds \ {j} : runs'[k] = runs[k]
             /\ Becomes(j, "running", runs[j].attempts + 1,
                        Coalesce(runs[j].startedAt, worker[w].now),
                        NoTime, NoTime, runs[j].attempts + 1,
                        worker[w].now + LeaseDuration)
      BY <2>6, ClaimRow
    <3>2. i = j
      BY <1>2, <3>1
    <3> QED BY <3>1, <3>2
            DEF Becomes, QuietRow, Claimable, Expired, Blocking
  <2>7. CASE ExtendLease(w)
    BY <1>2, <2>7, ExtendRow DEF Becomes, QuietRow
  <2>8. CASE RecordFailure(w)
    <3>1. FailedStatus(worker[w].failure) # "succeeded"
      BY DEF FailedStatus
    <3> QED BY <1>2, <2>2, <2>8, <3>1, FailedRow, SettlesQuiet DEF Owns
  <2>9. CASE DeferRetry(w)
    BY <1>2, <2>9, DeferredRow DEF Becomes, QuietRow, Blocking
  <2> QED BY <2>1, <2>3, <2>4, <2>5, <2>6, <2>7, <2>8, <2>9 DEF Updates
<1> QED BY <1>1, <1>2

LEMMA CompleteKinds ==
    ASSUME TypeOK, NEW w \in Workers, Complete(w)
    PROVE  Completes(w) \/ UNCHANGED <<runs, lastSuccessfulSyncAt>>
<1> DEFINE i == worker[w].claim.run
           new == [Released(runs[i], "succeeded") EXCEPT
                     !.finishedAt = clock, !.retryAfterAt = NoTime]
<1>1. CASE UNCHANGED <<runs, lastSuccessfulSyncAt>>
  BY <1>1
<1>2. CASE /\ Owns(w)
           /\ Available(runs[i].repo)
           /\ Update([j \in {i} |-> new])
           /\ lastSuccessfulSyncAt' =
                [lastSuccessfulSyncAt EXCEPT ![runs[i].repo]
                   = runs[i].windowEnd]
  <2>1. i \in RunIds /\ runs[i] \in Row
    BY <1>2 DEF Owns, TypeOK, WorkerState, Claim
  <2>2. runs'[i] = new /\ \A j \in RunIds \ {i} : runs'[j] = runs[j]
    BY <1>2, <2>1 DEF Update
  <2>3. Settles(i, "succeeded", runs[i].startedAt, clock, NoTime)
    BY <2>1, <2>2, ReleasedKeepsStart
  <2> QED BY <1>2, <2>1, <2>2, <2>3 DEF Completes, Complete
<1> QED BY <1>1, <1>2 DEF Complete

\* The insert, with what it leaves alone.
InsertsRun(c) ==
    /\ Inserts(c)
    /\ Return(c)
    /\ UNCHANGED <<clock, repoVars, worker>>

LEMMA StepHistory ==
    ASSUME TypeOK, [Next]_vars
    PROVE  \/ QuietRows /\ UNCHANGED <<lastSuccessfulSyncAt, created>>
           \/ \E w \in Workers : Completes(w) /\ EndTick(w) /\ UNCHANGED created
           \/ \E c \in Callers : InsertsRun(c)
           \/ \E r \in Repos : Disconnect(r)
<1> DEFINE Quiet == QuietRows /\ UNCHANGED <<lastSuccessfulSyncAt, created>>
<1>1. ASSUME NEW c \in Callers, InsertRun(c)
      PROVE  Quiet \/ InsertsRun(c)
  BY <1>1, QuietUnchanged
     DEF InsertRun, InsertsRun, Inserts, TypeOK, runVars, repoVars
<1>2. ASSUME NEW w \in Workers, WorkerStep(w), ~InsertRun(w), ~Complete(w)
      PROVE  Quiet
  <2>1. CASE \/ BeginTick(w) \/ ListDueRepositories(w) \/ EnqueueScheduled(w)
             \/ FindActiveRun(w) \/ EndSyncTick(w) \/ LoadClaimed(w)
             \/ FailIngestion(w) \/ Restart(w)
    BY <2>1, QuietUnchanged
       DEF BeginTick, ListDueRepositories, EnqueueScheduled, FindActiveRun,
           EndSyncTick, LoadClaimed, FailIngestion, Restart, runVars, repoVars
  <2>2. CASE \/ CancelUnavailableRuns(w) \/ CancelSupersededRetryableRuns(w)
             \/ TerminalizeExhaustedRuns(w) \/ RequeueEligibleRuns(w)
             \/ ClaimNext(w) \/ RecordFailure(w) \/ DeferRetry(w)
    <3>1. QuietRows
      BY <1>2, <2>2, UpdatesQuiet DEF Updates
    <3> QED BY <2>2, <3>1
            DEF CancelUnavailableRuns, CancelSupersededRetryableRuns,
                TerminalizeExhaustedRuns, RequeueEligibleRuns, ClaimNext,
                RecordFailure, DeferRetry, repoVars
  <2> QED BY <1>2, <2>1, <2>2 DEF WorkerStep
<1>3. ASSUME NEW w \in Workers, Complete(w)
      PROVE  Quiet \/ (Completes(w) /\ EndTick(w) /\ UNCHANGED created)
  <2>1. CASE UNCHANGED <<runs, lastSuccessfulSyncAt>>
    BY <1>3, <2>1, QuietUnchanged DEF Complete
  <2>2. CASE Completes(w)
    BY <1>3, <2>2 DEF Complete, Completes
  <2> QED BY <1>3, <2>1, <2>2, CompleteKinds
<1>4. ASSUME NEW w \in Workers,
             ExtendLease(w) \/ StatementFails(w) \/ Crash(w) \/ Shutdown(w)
      PROVE  Quiet
  <2>1. CASE ExtendLease(w)
    <3>1. QuietRows
      BY <2>1, ExtendRow DEF Becomes, QuietRows, QuietRow
    <3> QED BY <2>1, <3>1 DEF ExtendLease, repoVars
  <2>2. CASE StatementFails(w) \/ Crash(w) \/ Shutdown(w)
    BY <2>2, QuietUnchanged
       DEF StatementFails, Crash, Shutdown, runVars, repoVars
  <2> QED BY <1>4, <2>1, <2>2
<1>5. ASSUME NEW u \in Users, \/ \E r \in Repos : StartManually(u, r)
                              \/ FindActiveRun(u)
      PROVE  Quiet
  BY <1>5, QuietUnchanged DEF StartManually, FindActiveRun, runVars, repoVars
<1>6. ASSUME NEW r \in Repos, ConnectRepository(r) \/ BecomeUnavailable(r)
      PROVE  Quiet
  BY <1>6, QuietUnchanged DEF ConnectRepository, BecomeUnavailable, runVars
<1>7. ASSUME Tick \/ UNCHANGED vars
      PROVE  Quiet
  BY <1>7, QuietUnchanged DEF Tick, vars, runVars, repoVars
<1> HIDE DEF Quiet
<1>8. ASSUME NEW w \in Workers, WorkerStep(w)
      PROVE  \/ Quiet \/ InsertsRun(w)
             \/ Completes(w) /\ EndTick(w) /\ UNCHANGED created
  <2>1. w \in Callers
    BY DEF Callers
  <2> QED BY <1>1, <1>2, <1>3, <1>8, <2>1
<1>9. \/ Quiet
      \/ \E w \in Workers : Completes(w) /\ EndTick(w) /\ UNCHANGED created
      \/ \E c \in Callers : InsertsRun(c)
      \/ \E r \in Repos : Disconnect(r)
  BY <1>1, <1>4, <1>5, <1>6, <1>7, <1>8 DEF Next, Callers
<1> QED BY <1>9 DEF Quiet

-----------------------------------------------------------------------------
(* A run that failed for good keeps its repository off the schedule          *)

\* The repositories a pass of the worker still has to create a run for.
Listed(w) ==
    worker[w].todo \cup {r \in Repos : call[w] # NoCall /\ call[w].repo = r}

\* A worker calls createQueuedRun while it schedules, and only then.
CallsWhileScheduling ==
    \A w \in Workers : worker[w].pc # "enqueue" => call[w] = NoCall

\* A repository is listed when it has no blocking run, so that a blocking run of
\* a listed repository was created since the tick began.
ListedBeforeBlocked ==
    \A w \in Workers : \A i \in RunIds :
        /\ runs[i].repo \in Listed(w)
        /\ runs[i].status \in Blocking
        => worker[w].now <= runs[i].createdAt

\* A caller's call is changed by its own steps only.
LEMMA CallMoves ==
    ASSUME TypeOK, [Next]_vars, NEW c \in Callers
    PROVE  \/ call'[c] = call[c]
           \/ call'[c] = NoCall
           \/ /\ call[c] # NoCall /\ call'[c] # NoCall
              /\ call'[c].repo = call[c].repo
              /\ call'[c].boundary = call[c].boundary
              /\ UNCHANGED worker
           \/ \E r \in Repos, end \in Int :
                 /\ Available(r)
                 /\ call'[c] = [repo |-> r, windowEnd |-> end,
                                boundary |-> lastSuccessfulSyncAt[r],
                                next |-> "find"]
                 /\ UNCHANGED <<repoVars, runVars>>
                 /\ \/ c \in Users
                    \/ /\ c \in Workers
                       /\ r \in worker[c].todo
                       /\ worker' = [worker EXCEPT
                                       ![c].todo = worker[c].todo \ {r}]
                       /\ worker[c].pc = "enqueue"
<1>1. ASSUME NEW d \in Callers, FindActiveRun(d)
      PROVE  \/ call'[c] = call[c]
             \/ call'[c] = NoCall
             \/ /\ call[c] # NoCall /\ call'[c] # NoCall
                /\ call'[c].repo = call[c].repo
                /\ call'[c].boundary = call[c].boundary
                /\ UNCHANGED worker
  <2>1. CASE Return(d)
    BY <2>1 DEF Return, TypeOK
  <2>2. CASE call' = [call EXCEPT ![d] =
                         [@ EXCEPT
                            !.next = "insert",
                            !.windowEnd = Coalesce(call[d].windowEnd, clock)]]
    <3>1. CASE c # d
      BY <2>2, <3>1 DEF TypeOK
    <3>2. CASE c = d
      <4>1. call[c] # NoCall /\ call[c] \in Call /\ UNCHANGED worker
        BY <1>1, <3>2 DEF FindActiveRun, TypeOK
      <4>2. call'[c] = [call[c] EXCEPT
                          !.next = "insert",
                          !.windowEnd = Coalesce(call[c].windowEnd, clock)]
        BY <2>2, <3>2 DEF TypeOK
      <4>3. /\ call'[c].repo = call[c].repo
            /\ call'[c].boundary = call[c].boundary
            /\ call'[c].next = "insert"
        BY <4>1, <4>2 DEF Call
      <4> QED BY <4>1, <4>3 DEF NoCall
    <3> QED BY <3>1, <3>2
  <2> QED BY <1>1, <2>1, <2>2 DEF FindActiveRun
<1>2. ASSUME NEW d \in Callers, InsertRun(d)
      PROVE  call'[c] = call[c] \/ call'[c] = NoCall
  BY <1>2 DEF InsertRun, Return, TypeOK
<1>3. ASSUME NEW w \in Workers, EnqueueScheduled(w)
      PROVE  \/ call'[c] = call[c]
             \/ \E r \in Repos, end \in Int :
                   /\ Available(r)
                   /\ call'[c] = [repo |-> r, windowEnd |-> end,
                                  boundary |-> lastSuccessfulSyncAt[r],
                                  next |-> "find"]
                   /\ UNCHANGED <<repoVars, runVars>>
                   /\ c \in Workers /\ r \in worker[c].todo
                   /\ worker' = [worker EXCEPT
                                   ![c].todo = worker[c].todo \ {r}]
                   /\ worker[c].pc = "enqueue"
  <2>1. PICK r \in worker[w].todo :
           /\ worker' = [worker EXCEPT ![w].todo = worker[w].todo \ {r}]
           /\ \/ /\ Available(r)
                 /\ LoadRepository(w, r, ScheduledWindowEnd(worker[w].now))
              \/ UNCHANGED call
    BY <1>3 DEF EnqueueScheduled
  <2>2. r \in Repos /\ w \in Callers
    BY <2>1 DEF TypeOK, WorkerState, Callers
  <2>3. ScheduledWindowEnd(worker[w].now) \in Int
    <3>1. worker[w].now \in Int
      BY NullValues DEF TypeOK, WorkerState
    <3> QED BY <3>1, ConstantTypes DEF ScheduledWindowEnd
  <2> QED BY <1>3, <2>1, <2>2, <2>3, ZenonT(30) DEF EnqueueScheduled, LoadRepository, TypeOK
<1>4. ASSUME NEW u \in Users, NEW r \in Repos, StartManually(u, r)
      PROVE  \/ call'[c] = call[c]
             \/ /\ Available(r)
                /\ call'[c] = [repo |-> r, windowEnd |-> NoTime,
                               boundary |-> lastSuccessfulSyncAt[r],
                               next |-> "find"]
                /\ UNCHANGED <<repoVars, runVars>>
                /\ c \in Users
  BY <1>4 DEF StartManually, LoadRepository, TypeOK, Callers
<1>5. ASSUME NEW w \in Workers,
             \/ BeginTick(w) \/ CancelUnavailableRuns(w)
             \/ CancelSupersededRetryableRuns(w) \/ TerminalizeExhaustedRuns(w)
             \/ RequeueEligibleRuns(w) \/ ListDueRepositories(w)
             \/ ClaimNext(w) \/ EndSyncTick(w) \/ LoadClaimed(w)
             \/ FailIngestion(w) \/ Complete(w) \/ RecordFailure(w)
             \/ DeferRetry(w) \/ Restart(w) \/ ExtendLease(w) \/ Shutdown(w)
      PROVE  call'[c] = call[c]
  BY <1>5 DEF BeginTick, CancelUnavailableRuns, CancelSupersededRetryableRuns,
     TerminalizeExhaustedRuns, RequeueEligibleRuns, ListDueRepositories,
     ClaimNext, EndSyncTick, LoadClaimed, FailIngestion, Complete,
     RecordFailure, DeferRetry, Restart, ExtendLease, Shutdown
<1>6. ASSUME NEW w \in Workers, StatementFails(w) \/ Crash(w)
      PROVE  call'[c] = call[c] \/ call'[c] = NoCall
  BY <1>6 DEF StatementFails, Crash, Return, TypeOK, Callers
<1>7. ASSUME NEW r \in Repos,
             ConnectRepository(r) \/ BecomeUnavailable(r) \/ Disconnect(r)
      PROVE  call'[c] = call[c]
  BY <1>7 DEF ConnectRepository, BecomeUnavailable, Disconnect
<1>8. ASSUME Tick \/ UNCHANGED vars
      PROVE  call'[c] = call[c]
  BY <1>8 DEF Tick, vars
<1>9. CASE \E w \in Workers : \/ WorkerStep(w) \/ ExtendLease(w)
                              \/ StatementFails(w) \/ Crash(w) \/ Shutdown(w)
  <2>1. PICK w \in Workers : \/ WorkerStep(w) \/ ExtendLease(w)
                             \/ StatementFails(w) \/ Crash(w) \/ Shutdown(w)
    BY <1>9
  <2>2. w \in Callers
    BY DEF Callers
  <2>3. CASE EnqueueScheduled(w)
    BY <1>3, <2>3
  <2>4. CASE FindActiveRun(w) \/ InsertRun(w)
    BY <1>1, <1>2, <2>2, <2>4
  <2>5. CASE StatementFails(w) \/ Crash(w)
    BY <1>6, <2>5
  <2> QED BY <1>5, <2>1, <2>3, <2>4, <2>5 DEF WorkerStep
<1>10. CASE \E u \in Users : \/ \E r \in Repos : StartManually(u, r)
                             \/ FindActiveRun(u) \/ InsertRun(u)
  <2>1. PICK u \in Users : \/ \E r \in Repos : StartManually(u, r)
                           \/ FindActiveRun(u) \/ InsertRun(u)
    BY <1>10
  <2>2. u \in Callers /\ NoTime \in Int
    BY NullValues DEF Callers
  <2>3. CASE FindActiveRun(u) \/ InsertRun(u)
    BY <1>1, <1>2, <2>2, <2>3
  <2>4. CASE \E r \in Repos : StartManually(u, r)
    BY <1>4, <2>2, <2>4
  <2> QED BY <2>1, <2>3, <2>4
<1> QED BY <1>7, <1>8, <1>9, <1>10 DEF Next

LEMMA PcMoves ==
    ASSUME TypeOK, NEW w \in Workers
    PROVE  /\ \A label : Goto(w, label) => worker'[w].pc = label
           /\ \A f : Fail(w, f) => worker'[w].pc = "failing"
           /\ EndTick(w) => worker'[w].pc = "idle"
           /\ worker' = [worker EXCEPT ![w] = Fresh] => worker'[w].pc = "idle"
           /\ ClaimNext(w) => worker'[w].pc = "load"
           /\ BeginTick(w) => worker'[w].pc = "cancel"
<1>1. worker[w] \in WorkerState
  BY DEF TypeOK
<1>2. \A label : Goto(w, label) => worker'[w].pc = label
  BY <1>1 DEF Goto, TypeOK, WorkerState
<1>3. \A f : Fail(w, f) => worker'[w].pc = "failing"
  BY <1>1 DEF Fail, TypeOK, WorkerState
<1>4. EndTick(w) => worker'[w].pc = "idle"
  BY DEF EndTick, Fresh, TypeOK
<1>5. worker' = [worker EXCEPT ![w] = Fresh] => worker'[w].pc = "idle"
  BY DEF Fresh, TypeOK
<1>6. ClaimNext(w) => worker'[w].pc = "load"
  <2> HAVE ClaimNext(w)
  <2>1. PICK i \in RunIds :
           worker' = [worker EXCEPT ![w] = [worker[w] EXCEPT
                        !.pc = "load",
                        !.claim = [run |-> i, token |-> runs[i].attempts + 1]]]
    BY ClaimRow
  <2> QED BY <1>1, <2>1 DEF TypeOK, WorkerState
<1>7. BeginTick(w) => worker'[w].pc = "cancel"
  BY <1>1 DEF BeginTick, TypeOK, WorkerState
<1> QED BY <1>2, <1>3, <1>4, <1>5, <1>6, <1>7

\* The steps that leave a worker in its scheduling loop.
LEMMA StaysScheduling ==
    ASSUME TypeOK, NEW w \in Workers, OwnStep(w), worker'[w].pc = "enqueue"
    PROVE  \/ worker'[w] = worker[w]
           \/ ListDueRepositories(w)
           \/ /\ worker[w].pc = "enqueue"
              /\ worker'[w].todo \subseteq worker[w].todo
              /\ worker'[w].now = worker[w].now
<1>1. worker[w] \in WorkerState
  BY DEF TypeOK
<1>2. ASSUME NEW r, worker' = [worker EXCEPT ![w].todo = worker[w].todo \ {r}]
      PROVE  /\ worker[w].pc = "enqueue"
             /\ worker'[w].todo \subseteq worker[w].todo
             /\ worker'[w].now = worker[w].now
  BY <1>1, <1>2 DEF TypeOK, WorkerState
<1>3. CASE EnqueueScheduled(w)
  BY <1>2, <1>3 DEF EnqueueScheduled
<1>4. CASE StatementFails(w)
  BY <1>2, <1>4, PcMoves DEF StatementFails
<1>5. CASE Shutdown(w)
  BY <1>1, <1>5 DEF Shutdown, TypeOK, WorkerState
<1>6. CASE FindActiveRun(w) \/ InsertRun(w)
  BY <1>6 DEF FindActiveRun, InsertRun
<1>7. ~Goto(w, "supersede") /\ ~Goto(w, "exhaust") /\ ~Goto(w, "requeue")
      /\ ~Goto(w, "schedule") /\ ~Goto(w, "defer") /\ ~EndTick(w)
      /\ ~BeginTick(w) /\ ~ClaimNext(w)
      /\ worker' # [worker EXCEPT ![w] = Fresh]
  BY PcMoves
<1>8. /\ ~CancelUnavailableRuns(w) /\ ~CancelSupersededRetryableRuns(w)
      /\ ~TerminalizeExhaustedRuns(w) /\ ~RequeueEligibleRuns(w)
  BY <1>7 DEF CancelUnavailableRuns, CancelSupersededRetryableRuns,
     TerminalizeExhaustedRuns, RequeueEligibleRuns
<1>9. /\ ~EndSyncTick(w) /\ ~RecordFailure(w) /\ ~DeferRetry(w)
      /\ ~Restart(w) /\ ~Crash(w)
  BY <1>7 DEF EndSyncTick, RecordFailure, DeferRetry, Restart, Crash
<1>10. ~LoadClaimed(w) /\ ~FailIngestion(w) /\ ~Complete(w)
  BY PcMoves DEF LoadClaimed, FailIngestion, Complete
<1> QED BY <1>3, <1>4, <1>5, <1>6, <1>7, <1>8, <1>9, <1>10
        DEF OwnStep, WorkerStep

\* A worker leaves the loop between two calls, or loses the call it is in.
LEMMA LeavesScheduling ==
    ASSUME TypeOK, NEW w \in Workers, OwnStep(w), worker[w].pc = "enqueue",
           worker'[w].pc # "enqueue"
    PROVE  call[w] = NoCall \/ call'[w] = NoCall
<1>1. w \in Callers /\ worker[w] \in WorkerState
  BY DEF Callers, TypeOK
<1>2. CASE Crash(w)
  BY <1>1, <1>2 DEF Crash, Return, TypeOK
<1>3. CASE FindActiveRun(w) \/ InsertRun(w)
  BY <1>3 DEF FindActiveRun, InsertRun
<1>4. CASE Shutdown(w)
  BY <1>1, <1>4 DEF Shutdown, TypeOK, WorkerState
<1>5. CASE StatementFails(w)
  BY <1>1, <1>5 DEF StatementFails, Return, TypeOK, Maintenance
<1> QED BY <1>2, <1>3, <1>4, <1>5
        DEF OwnStep, WorkerStep, BeginTick, CancelUnavailableRuns,
            CancelSupersededRetryableRuns, TerminalizeExhaustedRuns,
            RequeueEligibleRuns, ListDueRepositories, EnqueueScheduled,
            ClaimNext, EndSyncTick, LoadClaimed, FailIngestion, Complete,
            RecordFailure, DeferRetry, Restart

LEMMA CallsStayScheduling ==
    ASSUME TypeOK, WorkersSound, CallsWhileScheduling, [Next]_vars
    PROVE  CallsWhileScheduling'
<1> SUFFICES ASSUME NEW w \in Workers, worker'[w].pc # "enqueue"
             PROVE  call'[w] = NoCall
  BY DEF CallsWhileScheduling
<1>1. w \in Callers /\ w \notin Users
  BY DistinctCallers DEF Callers
<1>2. CASE call'[w] = call[w]
  BY <1>2, WorkerMoves, LeavesScheduling DEF CallsWhileScheduling
<1>3. CASE call[w] # NoCall /\ UNCHANGED worker
  BY <1>3 DEF CallsWhileScheduling
<1>4. ASSUME NEW r, worker' = [worker EXCEPT ![w].todo = worker[w].todo \ {r}],
             worker[w].pc = "enqueue"
      PROVE  FALSE
  BY <1>4 DEF TypeOK, WorkerState
<1> QED BY <1>1, <1>2, <1>3, <1>4, CallMoves

LEMMA ListedMoves ==
    ASSUME TypeOK, WorkersSound, CallsWhileScheduling, [Next]_vars,
           NEW w \in Workers, NEW r, r \in Listed(w)'
    PROVE  /\ worker'[w].now = worker[w].now
           /\ \/ r \in Listed(w)
              \/ UNCHANGED runs /\ Schedulable(r, worker[w].now)
<1>1. w \in Callers /\ w \notin Users
  BY DistinctCallers DEF Callers
<1>2. worker'[w].pc = "enqueue"
  BY WorkersStaySound, CallsStayScheduling
     DEF Listed, WorkersSound, SoundWorker, CallsWhileScheduling
<1>3. CASE ListDueRepositories(w)
  <2>1. call'[w] = NoCall /\ UNCHANGED runs
    BY <1>3 DEF ListDueRepositories, CallsWhileScheduling, runVars
  <2>2. r \in worker'[w].todo
    BY <2>1 DEF Listed
  <2>3. CASE Goto(w, "enqueue")
    <3>1. worker'[w].todo = worker[w].todo
      BY <2>3 DEF Goto, TypeOK, WorkerState
    <3> QED BY <1>3, <2>2, <3>1 DEF WorkersSound, SoundWorker,
               ListDueRepositories
  <2>4. ASSUME NEW batch \in SUBSET {q \in Repos :
                                       Schedulable(q, worker[w].now)},
               worker' = [worker EXCEPT ![w] =
                            [@ EXCEPT !.pc = "enqueue", !.todo = batch]]
        PROVE  Schedulable(r, worker[w].now) /\ worker'[w].now = worker[w].now
    <3>1. worker'[w] = [worker[w] EXCEPT !.pc = "enqueue", !.todo = batch]
      BY <2>4 DEF TypeOK
    <3>2. worker'[w].todo = batch /\ worker'[w].now = worker[w].now
      BY <3>1 DEF TypeOK, WorkerState
    <3> QED BY <2>2, <2>4, <3>2
  <2> QED BY <1>3, <2>1, <2>3, <2>4 DEF ListDueRepositories
<1>4. CASE ~ListDueRepositories(w)
  <2>1. \/ worker'[w] = worker[w]
        \/ /\ worker'[w].todo \subseteq worker[w].todo
           /\ worker'[w].now = worker[w].now
    BY <1>2, <1>4, WorkerMoves, StaysScheduling
  <2>2. CASE r \in worker'[w].todo
    BY <2>1, <2>2 DEF Listed
  <2>3. CASE r \in Repos /\ call'[w] # NoCall /\ call'[w].repo = r
    <3>1. CASE \/ call'[w] = call[w]
               \/ call[w] # NoCall /\ call'[w].repo = call[w].repo
      BY <2>1, <2>3, <3>1 DEF Listed
    <3>2. ASSUME NEW q \in worker[w].todo, call'[w].repo = q
          PROVE  r \in Listed(w)
      BY <2>3, <3>2 DEF Listed
    <3>3. ASSUME NEW q \in Repos, NEW end,
                 call'[w] = [repo |-> q, windowEnd |-> end,
                             boundary |-> lastSuccessfulSyncAt[q],
                             next |-> "find"],
                 q \in worker[w].todo
          PROVE  r \in Listed(w)
      BY <3>2, <3>3
    <3>4. \/ call'[w] = call[w]
          \/ call[w] # NoCall /\ call'[w].repo = call[w].repo
          \/ r \in Listed(w)
      BY <1>1, <2>3, <3>3, CallMoves
    <3> QED BY <2>1, <3>1, <3>4
  <2> QED BY <2>2, <2>3 DEF Listed
<1> QED BY <1>3, <1>4

LEMMA ListedStaysBefore ==
    ASSUME ExecInv, CallsWhileScheduling, ListedBeforeBlocked, [Next]_vars
    PROVE  ListedBeforeBlocked'
<1> SUFFICES ASSUME NEW w \in Workers, NEW i \in RunIds,
                    runs'[i].repo \in Listed(w)', runs'[i].status \in Blocking
             PROVE  worker'[w].now <= runs'[i].createdAt
  BY DEF ListedBeforeBlocked
<1> DEFINE r == runs'[i].repo
<1>1. TypeOK /\ WorkersSound
  BY DEF ExecInv, IInv
<1>2. /\ worker'[w].now = worker[w].now
      /\ \/ r \in Listed(w)
         \/ UNCHANGED runs /\ Schedulable(r, worker[w].now)
  BY <1>1, ListedMoves
<1>3. CASE QuietRow(i)
  <2>1. /\ runs[i].repo = r /\ runs[i].status \in Blocking
        /\ runs'[i].createdAt = runs[i].createdAt
    BY <1>3 DEF QuietRow
  <2>2. CASE r \in Listed(w)
    BY <1>2, <2>1, <2>2 DEF ListedBeforeBlocked
  <2>3. CASE Schedulable(r, worker[w].now)
    BY <2>1, <2>3 DEF Schedulable, RunsOf, Blocking
  <2> QED BY <1>2, <2>2, <2>3
<1>4. ASSUME NEW v \in Workers, Completes(v)
      PROVE  QuietRow(i)
  <2>1. i # worker[v].claim.run
    BY <1>4 DEF Completes, Settles, Becomes, Blocking
  <2> QED BY <1>4, <2>1 DEF Completes, QuietRow
<1>5. ASSUME NEW c \in Callers, InsertsRun(c)
      PROVE  QuietRow(i) \/ worker'[w].now <= runs'[i].createdAt
  <2>1. CASE i = created + 1
    <3>1. runs'[i].createdAt = clock
      BY <1>1, <1>5, <2>1, NewRow, NewRunColumns, ZenonT(30) DEF InsertsRun, Inserts
    <3> QED BY <1>1, <1>2, <3>1 DEF WorkersSound, SoundWorker
  <2>2. CASE i # created + 1
    BY <1>1, <1>5, <2>2, NewRow DEF InsertsRun, QuietRow
  <2> QED BY <2>1, <2>2
<1>6. ASSUME NEW q \in Repos, Disconnect(q)
      PROVE  QuietRow(i)
  <2>1. runs'[i] = runs[i] \/ runs'[i].status = "deleted"
    BY <1>6 DEF Disconnect, Update, RunsOf, NoRow
  <2> QED BY <2>1 DEF QuietRow, Blocking
<1> QED BY <1>1, <1>3, <1>4, <1>5, <1>6, StepHistory DEF QuietRows

LEMMA SchedulingHolds == Spec => [](CallsWhileScheduling /\ ListedBeforeBlocked)
<1>1. Init => CallsWhileScheduling /\ ListedBeforeBlocked
  BY DEF Init, CallsWhileScheduling, ListedBeforeBlocked, NoRow, Blocking,
     Callers
<1>2. ExecInv /\ (CallsWhileScheduling /\ ListedBeforeBlocked) /\ [Next]_vars
        => (CallsWhileScheduling /\ ListedBeforeBlocked)'
  BY ListedStaysBefore, CallsStayScheduling DEF ExecInv, IInv
<1> QED BY <1>1, <1>2, ExecInvHolds, PTL DEF Spec

LEMMA BlockedStep ==
    ASSUME ExecInv, ListedBeforeBlocked, [Next]_vars, NEW w \in Workers,
           created' # created, call'[w] # call[w],
           NEW i \in RunsOf(call[w].repo), runs[i].status = "failed_terminal"
    PROVE  worker[w].now <= runs[i].createdAt
<1>1. TypeOK
  BY DEF ExecInv, IInv
<1>2. PICK c \in Callers : InsertsRun(c)
  BY <1>1, StepHistory DEF Disconnect
<1>3. c = w
  BY <1>1, <1>2 DEF InsertsRun, Return, TypeOK, Callers
<1>4. call[w] # NoCall /\ call[w].repo \in Repos
  BY <1>2, <1>3, NoneIsNoRepository DEF InsertsRun, Inserts, Call, NoCall
<1>5. runs[i].repo \in Listed(w)
  BY <1>4 DEF Listed, RunsOf
<1> QED BY <1>5 DEF ListedBeforeBlocked, RunsOf, Blocking

\* No tick queues the successor of a run that failed for good, unless that run
\* was created after the tick began: between the scheduling query and the insert
\* nothing old can fail.
THEOREM FailuresBlockSchedule == Spec => TerminalFailureBlocksSchedule
<1>1. ExecInv /\ (CallsWhileScheduling /\ ListedBeforeBlocked) /\ [Next]_vars =>
        [\A w \in Workers :
            /\ created' # created
            /\ call'[w] # call[w]
            => \A i \in RunsOf(call[w].repo) :
                 runs[i].status = "failed_terminal" /\ Newer(i) = {} =>
                   worker[w].now <= runs[i].createdAt]_vars
  BY BlockedStep
<1> QED BY <1>1, ExecInvHolds, SchedulingHolds, PTL
        DEF Spec, TerminalFailureBlocksSchedule

-----------------------------------------------------------------------------
(* The success boundary of a repository and the windows behind it            *)

Done(r) == {i \in RunsOf(r) : runs[i].status = "succeeded"}

KeepsWindow(i) ==
    /\ runs'[i].windowStart = runs[i].windowStart
    /\ runs'[i].windowEnd = runs[i].windowEnd

\* What a step does to the successes of a repository: nothing; the newest of
\* its runs succeeds; or the repository is deleted with its runs.
SameHistory(r) ==
    /\ Done(r)' = Done(r)
    /\ lastSuccessfulSyncAt'[r] = lastSuccessfulSyncAt[r]
    /\ \A i \in RunsOf(r) : KeepsWindow(i)

Succeeds(r, n) ==
    /\ n \in RunsOf(r) \ Done(r)
    /\ Newer(n) = {}
    /\ Done(r)' = Done(r) \cup {n}
    /\ lastSuccessfulSyncAt'[r] = runs[n].windowEnd
    /\ \A i \in RunsOf(r) : KeepsWindow(i)

Deleted(r) ==
    /\ RunsOf(r)' = {}
    /\ lastSuccessfulSyncAt'[r] = NoTime
    /\ repoStatus'[r] = "deleted"

LEMMA CompletesHistory ==
    ASSUME IInv, NEW w \in Workers, Completes(w), NEW r \in Repos
    PROVE  SameHistory(r) \/ Succeeds(r, worker[w].claim.run)
<1> DEFINE n == worker[w].claim.run
<1>1. /\ n \in RunIds
      /\ runs'[n].repo = runs[n].repo
      /\ runs'[n].status = "succeeded" /\ runs[n].status = "running"
      /\ KeepsWindow(n)
      /\ \A j \in RunIds \ {n} : runs'[j] = runs[j]
  BY DEF Completes, Settles, Becomes, Owns, KeepsWindow
<1>2. Newer(n) = {}
  BY <1>1 DEF IInv, ActiveIsNewest, Active
<1>3. \A i \in RunIds : KeepsWindow(i) /\ runs'[i].repo = runs[i].repo
  BY <1>1 DEF KeepsWindow
<1>4. lastSuccessfulSyncAt' = [lastSuccessfulSyncAt EXCEPT ![runs[n].repo]
                                 = runs[n].windowEnd]
  BY DEF Completes
<1>5. CASE runs[n].repo = r
  <2>1. n \in RunsOf(r) \ Done(r) /\ Done(r)' = Done(r) \cup {n}
    BY <1>1, <1>3, <1>5 DEF Done, RunsOf
  <2>2. lastSuccessfulSyncAt'[r] = runs[n].windowEnd
    BY <1>4, <1>5 DEF IInv, TypeOK
  <2> QED BY <1>2, <1>3, <2>1, <2>2 DEF Succeeds, RunsOf
<1>6. CASE runs[n].repo # r
  <2>1. Done(r)' = Done(r)
    BY <1>1, <1>3, <1>6 DEF Done, RunsOf
  <2>2. lastSuccessfulSyncAt'[r] = lastSuccessfulSyncAt[r]
    BY <1>4, <1>6 DEF IInv, TypeOK
  <2> QED BY <1>3, <2>1, <2>2 DEF SameHistory, RunsOf
<1> QED BY <1>5, <1>6

LEMMA InsertHistory ==
    ASSUME IInv, NEW c \in Callers, InsertsRun(c), NEW r \in Repos
    PROVE  SameHistory(r)
<1>1. /\ created + 1 \in RunIds
      /\ \A j \in RunIds \ {created + 1} : runs'[j] = runs[j]
      /\ runs'[created + 1].status = "queued"
  BY NewRow, NewRunColumns DEF InsertsRun, Inserts, IInv
<1>2. runs[created + 1].repo = "none"
  BY <1>1 DEF IInv, RowsInOrder, TypeOK
<1>3. created + 1 \notin RunsOf(r)
  BY <1>2, NoneIsNoRepository DEF RunsOf
<1>4. Done(r)' = Done(r)
  BY <1>1, <1>3 DEF Done, RunsOf
<1> QED BY <1>1, <1>3, <1>4
        DEF InsertsRun, repoVars, SameHistory, KeepsWindow, RunsOf

LEMMA DisconnectHistory ==
    ASSUME IInv, NEW q \in Repos, Disconnect(q), NEW r \in Repos
    PROVE  SameHistory(r) \/ Deleted(r)
<1>1. CASE q = r
  <2>1. RunsOf(r)' = {}
    BY <1>1, NoneIsNoRepository DEF Disconnect, Update, RunsOf, NoRow
  <2> QED BY <1>1, <2>1 DEF Disconnect, Deleted, IInv, TypeOK
<1>2. CASE q # r
  <2>1. \A i \in RunsOf(q) : runs'[i].repo = "none" /\ runs[i].repo = q
    BY DEF Disconnect, Update, RunsOf, NoRow
  <2>2. \A i \in RunIds \ RunsOf(q) : runs'[i] = runs[i]
    BY DEF Disconnect, Update
  <2>3. Done(r)' = Done(r)
    BY <1>2, <2>1, <2>2, NoneIsNoRepository DEF Done, RunsOf
  <2>4. lastSuccessfulSyncAt'[r] = lastSuccessfulSyncAt[r]
    BY <1>2 DEF Disconnect, IInv, TypeOK
  <2>5. \A i \in RunsOf(r) : KeepsWindow(i)
    BY <1>2, <2>2 DEF RunsOf, KeepsWindow
  <2> QED BY <2>3, <2>4, <2>5 DEF SameHistory
<1> QED BY <1>1, <1>2

LEMMA HistoryMoves ==
    ASSUME IInv, [Next]_vars, NEW r \in Repos
    PROVE  \/ SameHistory(r)
           \/ \E n \in RunIds : Succeeds(r, n)
           \/ Deleted(r)
<1>1. ASSUME QuietRows, UNCHANGED lastSuccessfulSyncAt
      PROVE  SameHistory(r)
  <2>1. \A i \in RunIds : /\ runs'[i].repo = runs[i].repo
                          /\ runs'[i].status = "succeeded" <=>
                               runs[i].status = "succeeded"
                          /\ KeepsWindow(i)
    BY <1>1 DEF QuietRows, QuietRow, KeepsWindow
  <2>2. Done(r)' = Done(r)
    BY <2>1 DEF Done, RunsOf
  <2> QED BY <1>1, <2>1, <2>2 DEF SameHistory, RunsOf
<1>2. ASSUME NEW w \in Workers, Completes(w)
      PROVE  SameHistory(r) \/ \E n \in RunIds : Succeeds(r, n)
  BY <1>2, CompletesHistory DEF Completes
<1> QED BY <1>1, <1>2, InsertHistory, DisconnectHistory, StepHistory DEF IInv

\* A run of a repository after a step is one it had, or the one inserted.
LEMMA RunMoves ==
    ASSUME IInv, [Next]_vars, NEW r \in Repos, NEW i \in RunsOf(r)'
    PROVE  \/ i \in RunsOf(r)
           \/ \E c \in Callers :
                 /\ call[c] \in Call /\ call[c].repo = r
                 /\ repoStatus[r] # "deleted"
                 /\ runs'[i].windowStart = WindowStart(call[c])
                 /\ runs'[i].windowEnd = call[c].windowEnd
                 /\ SameHistory(r)
<1>1. i \in RunIds /\ runs'[i].repo = r
  BY DEF RunsOf
<1>2. ASSUME QuietRows
      PROVE  i \in RunsOf(r)
  BY <1>1, <1>2 DEF QuietRows, QuietRow, RunsOf
<1>3. ASSUME NEW w \in Workers, Completes(w)
      PROVE  i \in RunsOf(r)
  BY <1>1, <1>3 DEF Completes, Settles, Becomes, RunsOf
<1>4. ASSUME NEW q \in Repos, Disconnect(q)
      PROVE  i \in RunsOf(r)
  BY <1>1, <1>4, NoneIsNoRepository DEF Disconnect, Update, RunsOf, NoRow
<1>5. ASSUME NEW c \in Callers, InsertsRun(c), i \notin RunsOf(r)
      PROVE  /\ call[c] \in Call /\ call[c].repo = r
             /\ repoStatus[r] # "deleted"
             /\ runs'[i].windowStart = WindowStart(call[c])
             /\ runs'[i].windowEnd = call[c].windowEnd
             /\ SameHistory(r)
  <2>1. call[c] \in Call /\ repoStatus[call[c].repo] # "deleted"
    BY <1>5 DEF InsertsRun, Inserts, Insertable
  <2>2. i = created + 1 /\ runs'[i] = NewRun(call[c])
    BY <1>1, <1>5, NewRow DEF InsertsRun, IInv, RunsOf
  <2>3. /\ call[c].repo = r
        /\ runs'[i].windowStart = WindowStart(call[c])
        /\ runs'[i].windowEnd = call[c].windowEnd
    BY <1>1, <2>1, <2>2, NewRunColumns DEF IInv
  <2> QED BY <1>5, <2>1, <2>3, InsertHistory
<1> QED BY <1>2, <1>3, <1>4, <1>5, StepHistory DEF IInv

LEMMA DeletedForGood ==
    ASSUME TypeOK, [Next]_vars, NEW r \in Repos, repoStatus[r] = "deleted"
    PROVE  repoStatus'[r] = "deleted"
<1>1. ASSUME NEW q \in Repos,
             ConnectRepository(q) \/ BecomeUnavailable(q) \/ Disconnect(q)
      PROVE  repoStatus'[r] = "deleted"
  BY <1>1 DEF ConnectRepository, BecomeUnavailable, Disconnect, TypeOK
<1>2. ASSUME NEW w \in Workers, WorkerStep(w)
      PROVE  UNCHANGED repoStatus
  BY <1>2 DEF WorkerStep, BeginTick, CancelUnavailableRuns,
     CancelSupersededRetryableRuns, TerminalizeExhaustedRuns,
     RequeueEligibleRuns, ListDueRepositories, EnqueueScheduled, FindActiveRun,
     InsertRun, ClaimNext, EndSyncTick, LoadClaimed, FailIngestion, Complete,
     RecordFailure, DeferRetry, Restart, repoVars
<1>3. ASSUME NEW w \in Workers,
             ExtendLease(w) \/ StatementFails(w) \/ Crash(w) \/ Shutdown(w)
      PROVE  UNCHANGED repoStatus
  BY <1>3 DEF ExtendLease, StatementFails, Crash, Shutdown, repoVars
<1>4. ASSUME NEW u \in Users, \/ \E q \in Repos : StartManually(u, q)
                              \/ FindActiveRun(u) \/ InsertRun(u)
      PROVE  UNCHANGED repoStatus
  BY <1>4 DEF StartManually, FindActiveRun, InsertRun, repoVars
<1>5. ASSUME Tick \/ UNCHANGED vars
      PROVE  UNCHANGED repoStatus
  BY <1>5 DEF Tick, vars, repoVars
<1> QED BY <1>1, <1>2, <1>3, <1>4, <1>5 DEF Next

\* A repository without a success has no boundary; another one has the end of
\* the window of one of its successes.
BoundaryIsSuccess ==
    \A r \in Repos : \/ Done(r) = {} /\ lastSuccessfulSyncAt[r] = NoTime
                     \/ \E k \in Done(r) :
                          lastSuccessfulSyncAt[r] = runs[k].windowEnd

\* What a call loaded was the boundary once.
CallsLoadedSuccess ==
    \A c \in Callers :
        /\ call[c] # NoCall
        /\ repoStatus[call[c].repo] # "deleted"
        => \/ call[c].boundary = NoTime
           \/ \E k \in Done(call[c].repo) : call[c].boundary = runs[k].windowEnd

WindowsFollowSuccess ==
    \A r \in Repos : \A i \in RunsOf(r) :
        \/ LooksBack(i)
        \/ \E k \in Done(r) : runs[i].windowStart = runs[k].windowEnd - Overlap

SomeSuccessLooksBack ==
    \A r \in Repos : Done(r) # {} => \E j \in Done(r) : LooksBack(j)

\* The instant lies in a window of D, or between one of D and one that looks
\* back from there.
ExplainedBy(D, t) ==
    \/ \E j \in D : runs[j].windowStart <= t /\ t < runs[j].windowEnd
    \/ \E j, k \in D : /\ LooksBack(j)
                       /\ runs[k].windowEnd <= t /\ t < runs[j].windowStart

\* Not only up to the boundary: up to the end of any success.
HistoryExplained ==
    \A r \in Repos : \A i, k \in Done(r) :
        \A t \in runs[i].windowStart..runs[k].windowEnd - 1 :
            ExplainedBy(Done(r), t)

HistoryInv == /\ BoundaryIsSuccess
              /\ BoundaryOfNewestSuccess
              /\ CallsLoadedSuccess
              /\ WindowsFollowSuccess
              /\ SomeSuccessLooksBack
              /\ HistoryExplained

\* Nothing is taken from the successes of the repository.
HistoryGrows(r) == /\ Done(r) \subseteq Done(r)'
                   /\ \A i \in RunsOf(r) : KeepsWindow(i)

LEMMA Grows ==
    ASSUME NEW r \in Repos, SameHistory(r) \/ \E n \in RunIds : Succeeds(r, n)
    PROVE  HistoryGrows(r)
BY DEF SameHistory, Succeeds, HistoryGrows

LEMMA LooksBackKept ==
    ASSUME NEW i, KeepsWindow(i), LooksBack(i)
    PROVE  LooksBack(i)'
BY DEF KeepsWindow, LooksBack

LEMMA BoundaryStaysSuccess ==
    ASSUME IInv, BoundaryIsSuccess, [Next]_vars
    PROVE  BoundaryIsSuccess'
<1> SUFFICES ASSUME NEW r \in Repos
             PROVE  \/ Done(r)' = {} /\ lastSuccessfulSyncAt'[r] = NoTime
                    \/ \E k \in Done(r)' :
                         lastSuccessfulSyncAt'[r] = runs'[k].windowEnd
  BY DEF BoundaryIsSuccess
<1>1. CASE SameHistory(r)
  BY <1>1 DEF BoundaryIsSuccess, SameHistory, KeepsWindow, Done
<1>2. ASSUME NEW n \in RunIds, Succeeds(r, n)
      PROVE  n \in Done(r)' /\ lastSuccessfulSyncAt'[r] = runs'[n].windowEnd
  BY <1>2 DEF Succeeds, KeepsWindow
<1>3. CASE Deleted(r)
  BY <1>3 DEF Deleted, Done
<1> QED BY <1>1, <1>2, <1>3, HistoryMoves

LEMMA BoundaryStaysNewest ==
    ASSUME IInv, BoundaryOfNewestSuccess, [Next]_vars
    PROVE  BoundaryOfNewestSuccess'
<1> SUFFICES ASSUME NEW r \in Repos, NEW i \in Done(r)',
                    \A j \in Done(r)' : j <= i
             PROVE  lastSuccessfulSyncAt'[r] = runs'[i].windowEnd
  BY DEF BoundaryOfNewestSuccess, Done
<1>1. CASE SameHistory(r)
  <2>1. i \in Done(r) /\ \A j \in Done(r) : j <= i
    BY <1>1 DEF SameHistory
  <2>2. lastSuccessfulSyncAt[r] = runs[i].windowEnd
    BY <2>1 DEF BoundaryOfNewestSuccess, Done
  <2> QED BY <1>1, <2>1, <2>2 DEF SameHistory, KeepsWindow, Done
<1>2. ASSUME NEW n \in RunIds, Succeeds(r, n)
      PROVE  lastSuccessfulSyncAt'[r] = runs'[i].windowEnd
  <2>1. n <= i /\ i \in RunsOf(r) /\ i \in RunIds
    BY <1>2 DEF Succeeds, Done, RunsOf
  <2>2. ~ (i > n)
    BY <1>2, <2>1 DEF Succeeds, Newer, RunsOf
  <2>3. i = n
    BY <2>1, <2>2, ConstantTypes DEF RunIds
  <2> QED BY <1>2, <2>3 DEF Succeeds, KeepsWindow
<1>3. CASE Deleted(r)
  BY <1>3 DEF Deleted, Done
<1> QED BY <1>1, <1>2, <1>3, HistoryMoves

LEMMA CallsStayLoaded ==
    ASSUME IInv, BoundaryIsSuccess, CallsLoadedSuccess, [Next]_vars
    PROVE  CallsLoadedSuccess'
<1> SUFFICES ASSUME NEW c \in Callers, NEW r, call'[c] # NoCall,
                    r = call'[c].repo, repoStatus'[r] # "deleted",
                    call'[c].boundary # NoTime
             PROVE  \E k \in Done(r)' : call'[c].boundary = runs'[k].windowEnd
  BY DEF CallsLoadedSuccess
<1>1. TypeOK /\ TypeOK'
  BY NextType DEF IInv
<1>2. r \in Repos
  BY <1>1 DEF TypeOK, Call
<1>3. repoStatus[r] # "deleted"
  BY <1>1, <1>2, DeletedForGood
<1>4. HistoryGrows(r)
  BY <1>2, HistoryMoves, Grows DEF Deleted
<1>5. ASSUME NEW k \in Done(r), call'[c].boundary = runs[k].windowEnd
      PROVE  k \in Done(r)' /\ call'[c].boundary = runs'[k].windowEnd
  BY <1>4, <1>5 DEF HistoryGrows, KeepsWindow, Done
<1>6. CASE /\ call[c] # NoCall /\ call'[c].repo = call[c].repo
           /\ call'[c].boundary = call[c].boundary
  BY <1>3, <1>5, <1>6 DEF CallsLoadedSuccess
<1>7. ASSUME NEW q \in Repos, NEW end,
             call'[c] = [repo |-> q, windowEnd |-> end,
                         boundary |-> lastSuccessfulSyncAt[q], next |-> "find"]
      PROVE  \E k \in Done(r)' : call'[c].boundary = runs'[k].windowEnd
  <2>1. q = r /\ call'[c].boundary = lastSuccessfulSyncAt[r]
    BY <1>7
  <2> QED BY <1>2, <1>5, <2>1 DEF BoundaryIsSuccess
<1> QED BY <1>1, <1>6, <1>7, CallMoves

LEMMA WindowsStayFollowing ==
    ASSUME IInv, CallsLoadedSuccess, WindowsFollowSuccess, [Next]_vars
    PROVE  WindowsFollowSuccess'
<1> SUFFICES ASSUME NEW r \in Repos, NEW i \in RunsOf(r)'
             PROVE  \/ LooksBack(i)'
                    \/ \E k \in Done(r)' :
                         runs'[i].windowStart = runs'[k].windowEnd - Overlap
  BY DEF WindowsFollowSuccess
<1>1. HistoryGrows(r)
  BY HistoryMoves, Grows DEF Deleted
<1>2. \A k \in Done(r) : k \in Done(r)' /\ runs'[k].windowEnd = runs[k].windowEnd
  BY <1>1 DEF HistoryGrows, KeepsWindow, Done
<1>3. CASE i \in RunsOf(r)
  <2>1. KeepsWindow(i)
    BY <1>1, <1>3 DEF HistoryGrows
  <2> QED BY <1>2, <1>3, <2>1, LooksBackKept
          DEF WindowsFollowSuccess, KeepsWindow
<1>4. ASSUME NEW c \in Callers, call[c] \in Call, call[c].repo = r,
             repoStatus[r] # "deleted",
             runs'[i].windowStart = WindowStart(call[c]),
             runs'[i].windowEnd = call[c].windowEnd
      PROVE  \/ LooksBack(i)'
             \/ \E k \in Done(r)' :
                  runs'[i].windowStart = runs'[k].windowEnd - Overlap
  <2>1. CASE call[c].boundary = NoTime
    BY <1>4, <2>1 DEF WindowStart, LooksBack
  <2>2. CASE call[c].boundary # NoTime
    <3>1. call[c] # NoCall
      BY <2>2 DEF NoCall
    <3>2. PICK k \in Done(r) : call[c].boundary = runs[k].windowEnd
      BY <1>4, <2>2, <3>1 DEF CallsLoadedSuccess
    <3> QED BY <1>2, <1>4, <2>2, <3>2 DEF WindowStart
  <2> QED BY <2>1, <2>2
<1> QED BY <1>3, <1>4, RunMoves

LEMMA SuccessStaysLookingBack ==
    ASSUME IInv, WindowsFollowSuccess, SomeSuccessLooksBack, [Next]_vars
    PROVE  SomeSuccessLooksBack'
<1> SUFFICES ASSUME NEW r \in Repos, Done(r)' # {}
             PROVE  \E j \in Done(r)' : LooksBack(j)'
  BY DEF SomeSuccessLooksBack
<1>1. ~Deleted(r)
  BY DEF Deleted, Done
<1>2. HistoryGrows(r)
  BY <1>1, HistoryMoves, Grows
<1>3. CASE Done(r) # {}
  <2>1. PICK j \in Done(r) : LooksBack(j)
    BY <1>3 DEF SomeSuccessLooksBack
  <2>2. j \in Done(r)' /\ KeepsWindow(j)
    BY <1>2, <2>1 DEF HistoryGrows, Done
  <2> QED BY <2>1, <2>2, LooksBackKept
<1>4. ASSUME Done(r) = {}, NEW n \in RunIds, Succeeds(r, n)
      PROVE  \E j \in Done(r)' : LooksBack(j)'
  <2>1. n \in RunsOf(r) /\ n \in Done(r)' /\ KeepsWindow(n)
    BY <1>4 DEF Succeeds
  <2>2. LooksBack(n)
    BY <1>4, <2>1 DEF WindowsFollowSuccess
  <2> QED BY <2>1, <2>2, LooksBackKept
<1>5. CASE SameHistory(r)
  BY <1>3, <1>5 DEF SameHistory
<1> QED BY <1>1, <1>3, <1>4, <1>5, HistoryMoves

\* A success more keeps the time between the successes explained.
LEMMA SuccessExplained ==
    ASSUME TypeOK, NEW D \in SUBSET RunIds, NEW n \in RunIds,
           \A i, k \in D : \A t \in runs[i].windowStart..runs[k].windowEnd - 1 :
               ExplainedBy(D, t),
           D # {} => \E j \in D : LooksBack(j),
           LooksBack(n) \/ \E k \in D :
               runs[n].windowStart = runs[k].windowEnd - Overlap,
           NEW i \in D \cup {n}, NEW k \in D \cup {n}, NEW t \in Int,
           runs[i].windowStart <= t, t < runs[k].windowEnd
    PROVE  ExplainedBy(D \cup {n}, t)
<1>1. /\ \A j \in RunIds : runs[j].windowStart \in Int /\ runs[j].windowEnd \in Int
      /\ Overlap \in Nat
  BY ConstantTypes, WindowLengths DEF TypeOK, Row
<1>2. ASSUME NEW j \in D, NEW l \in D,
             runs[j].windowStart <= t, t < runs[l].windowEnd
      PROVE  ExplainedBy(D \cup {n}, t)
  <2>1. t \in runs[j].windowStart..runs[l].windowEnd - 1
    BY <1>1, <1>2
  <2>2. ExplainedBy(D, t)
    BY <2>1
  <2> QED BY <2>2 DEF ExplainedBy
<1>3. ASSUME NEW j \in D \cup {n}, runs[j].windowStart <= t, t < runs[j].windowEnd
      PROVE  ExplainedBy(D \cup {n}, t)
  BY <1>3 DEF ExplainedBy
<1>4. ASSUME NEW j \in D \cup {n}, NEW l \in D \cup {n}, LooksBack(j),
             runs[l].windowEnd <= t, t < runs[j].windowStart
      PROVE  ExplainedBy(D \cup {n}, t)
  BY <1>4 DEF ExplainedBy
<1>5. CASE i \in D /\ k \in D
  BY <1>2, <1>5
<1>6. CASE i = n /\ k = n
  BY <1>3, <1>6
<1>7. CASE i = n /\ k \in D
  <2>1. PICK j \in D : LooksBack(j)
    BY <1>7
  <2>2. CASE t < runs[n].windowEnd
    BY <1>3, <1>7, <2>2
  <2>3. CASE runs[j].windowStart <= t
    BY <1>2, <1>7, <2>1, <2>3
  <2>4. CASE runs[n].windowEnd <= t /\ t < runs[j].windowStart
    BY <1>4, <2>1, <2>4
  <2> QED BY <1>1, <2>1, <2>2, <2>3, <2>4
<1>8. CASE i \in D /\ k = n
  <2>1. CASE runs[n].windowStart <= t
    BY <1>3, <1>8, <2>1
  <2>2. CASE t < runs[i].windowEnd
    BY <1>3, <2>2
  <2>3. CASE LooksBack(n) /\ t < runs[n].windowStart /\ runs[i].windowEnd <= t
    BY <1>4, <2>3
  <2>4. ASSUME NEW l \in D, t < runs[n].windowStart,
               runs[n].windowStart = runs[l].windowEnd - Overlap
        PROVE  ExplainedBy(D \cup {n}, t)
    <3>1. t < runs[l].windowEnd
      BY <1>1, <2>4
    <3> QED BY <1>2, <1>8, <2>4, <3>1
  <2>5. CASE LooksBack(n)
    BY <1>1, <1>8, <2>1, <2>2, <2>3, <2>5
  <2>6. ASSUME NEW l \in D, runs[n].windowStart = runs[l].windowEnd - Overlap
        PROVE  ExplainedBy(D \cup {n}, t)
    <3>1. runs[n].windowStart <= t \/ t < runs[n].windowStart
      BY <1>1
    <3>2. CASE t < runs[n].windowStart
      BY <2>4, <2>6, <3>2
    <3> QED BY <2>1, <3>1, <3>2
  <2> QED BY <2>5, <2>6
<1> QED BY <1>5, <1>6, <1>7, <1>8

LEMMA ExplainedKept ==
    ASSUME NEW D, \A i \in D : KeepsWindow(i), NEW t, ExplainedBy(D, t)
    PROVE  ExplainedBy(D, t)'
BY DEF ExplainedBy, KeepsWindow, LooksBack

LEMMA HistoryStaysExplained ==
    ASSUME IInv, WindowsFollowSuccess, SomeSuccessLooksBack, HistoryExplained,
           [Next]_vars
    PROVE  HistoryExplained'
<1> SUFFICES ASSUME NEW r \in Repos, NEW D, D = Done(r)',
                    NEW i \in D, NEW k \in D,
                    NEW t \in runs'[i].windowStart..runs'[k].windowEnd - 1
             PROVE  ExplainedBy(D, t)'
  BY DEF HistoryExplained
<1>1. ~Deleted(r)
  BY DEF Deleted, Done
<1>2. TypeOK
  BY DEF IInv
<1>3. \A j \in D : j \in RunsOf(r) /\ KeepsWindow(j) /\ j \in RunIds
  BY <1>1, HistoryMoves DEF SameHistory, Succeeds, Done, RunsOf
<1>4. t \in runs[i].windowStart..runs[k].windowEnd - 1
  BY <1>3 DEF KeepsWindow
<1>5. CASE SameHistory(r)
  <2>1. ExplainedBy(D, t)
    BY <1>4, <1>5 DEF SameHistory, HistoryExplained
  <2> QED BY <1>3, <2>1, ExplainedKept
<1>6. ASSUME NEW n \in RunIds, Succeeds(r, n)
      PROVE  ExplainedBy(D, t)'
  <2>1. D = Done(r) \cup {n} /\ n \in RunsOf(r) /\ Done(r) \in SUBSET RunIds
    BY <1>6 DEF Succeeds, Done, RunsOf
  <2>2. t \in Int /\ runs[i].windowStart <= t /\ t < runs[k].windowEnd
    <3>1. runs[i].windowStart \in Int /\ runs[k].windowEnd \in Int
      BY <1>2, <1>3 DEF TypeOK, Row
    <3> QED BY <1>4, <3>1
  <2>3. \A j, l \in Done(r) :
            \A u \in runs[j].windowStart..runs[l].windowEnd - 1 :
                ExplainedBy(Done(r), u)
    BY DEF HistoryExplained
  <2>4. Done(r) # {} => \E j \in Done(r) : LooksBack(j)
    BY DEF SomeSuccessLooksBack
  <2>5. \/ LooksBack(n)
        \/ \E l \in Done(r) : runs[n].windowStart = runs[l].windowEnd - Overlap
    BY <2>1 DEF WindowsFollowSuccess
  <2>6. ExplainedBy(D, t)
    BY <1>2, <2>1, <2>2, <2>3, <2>4, <2>5, SuccessExplained
  <2> QED BY <1>3, <2>6, ExplainedKept
<1> QED BY <1>1, <1>5, <1>6, HistoryMoves

LEMMA HistoryHolds == Spec => []HistoryInv
<1>1. Init => HistoryInv
  <2> SUFFICES ASSUME Init
               PROVE  HistoryInv
    OBVIOUS
  <2>1. \A r \in Repos : RunsOf(r) = {}
    BY NoneIsNoRepository DEF Init, RunsOf, NoRow
  <2>2. \A r \in Repos : Done(r) = {}
    BY <2>1 DEF Done
  <2>3. BoundaryIsSuccess
    BY <2>2 DEF Init, BoundaryIsSuccess
  <2>4. CallsLoadedSuccess
    BY DEF Init, CallsLoadedSuccess
  <2> QED BY <2>1, <2>2, <2>3, <2>4
          DEF HistoryInv, BoundaryOfNewestSuccess, WindowsFollowSuccess,
              SomeSuccessLooksBack, HistoryExplained
<1>2. IInv /\ HistoryInv /\ [Next]_vars => HistoryInv'
  BY BoundaryStaysSuccess, BoundaryStaysNewest, CallsStayLoaded,
     WindowsStayFollowing, SuccessStaysLookingBack, HistoryStaysExplained
     DEF HistoryInv
<1> QED BY <1>1, <1>2, IInvHolds, PTL DEF Spec

\* The boundary of a repository is the window end of its newest success: a
\* completing run is the newest of its repository, so successes come in order.
THEOREM NewestSuccessIsBoundary == Spec => []BoundaryOfNewestSuccess
BY HistoryHolds, PTL DEF HistoryInv

\* Up to the boundary the windows of the successes leave no hole but before the
\* look-back of a success that was enqueued before any other was seen: a window
\* starts an overlap before the end of an earlier success, or looks back.
THEOREM NoHoleIsLeft == Spec => []NoHoleBeforeBoundary
<1>1. HistoryInv => NoHoleBeforeBoundary
  <2> SUFFICES ASSUME HistoryInv, NEW r \in Repos, NEW i \in Done(r),
                      NEW t \in runs[i].windowStart..lastSuccessfulSyncAt[r] - 1
               PROVE  ExplainedBy(Done(r), t)
    BY DEF NoHoleBeforeBoundary, ExplainedBy, Done
  <2>1. PICK k \in Done(r) : lastSuccessfulSyncAt[r] = runs[k].windowEnd
    BY DEF HistoryInv, BoundaryIsSuccess
  <2> QED BY <2>1 DEF HistoryInv, HistoryExplained
<1> QED BY <1>1, HistoryHolds, PTL
=============================================================================
