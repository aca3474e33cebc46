----------------------- MODULE IntelligenceRunsProofs -----------------------
(***************************************************************************)
(* Theorems about IntelligenceRuns, for every set of projects, workers,    *)
(* versions and groups, every bound and every setting of the options.      *)
(***************************************************************************)
EXTENDS IntelligenceRuns, TLAPS

LEMMA ConstantTypes ==
    /\ MaxAttempts \in Nat \ {0} /\ LeaseDuration \in Nat \ {0}
    /\ RetryBase \in Nat \ {0}
    /\ MaxSyncs \in Nat /\ MaxTime \in Nat /\ MaxFaults \in Nat
    /\ ProviderDelays \subseteq Nat
    /\ Versions \subseteq Nat
    /\ \A w \in Workers : VersionOf[w] \in Versions
BY PositiveConstants, DeployedVersions

LEMMA NullValues ==
    /\ NoToken \in 0..MaxAttempts
    /\ NoTime \in Time \cup {NoTime} /\ NoTime \in Int
    /\ 0 \in Time
    /\ \A t \in Time \cup {NoTime} : t \in Int
BY ConstantTypes DEF NoToken, NoTime, Time

LEMMA RunTypes ==
    /\ \A i \in Runs : i[1] \in Syncs /\ i[2] \in Versions
    /\ \A k \in Syncs : \A v \in Versions : <<k, v>> \in Runs
    /\ NoRun \notin Runs
    /\ NoSync \notin Syncs
BY ConstantTypes DEF Runs, NoRun, NoSync, Syncs

\* A row that an update clears keeps its attempts.
LEMMA ClearedRow ==
    ASSUME NEW row \in Row, NEW status \in Statuses
    PROVE  /\ Cleared(row, status) \in Row
           /\ Cleared(row, status).status = status
           /\ Cleared(row, status).attempts = row.attempts
BY NullValues DEF Cleared, Row

LEMMA BlankRow == NoRow \in Row /\ NoRow.attempts = 0
BY NullValues, ConstantTypes DEF NoRow, Row, Statuses

LEMMA ClearAllType ==
    ASSUME TypeOK, NEW ids, NEW status \in Statuses, ClearAll(ids, status)
    PROVE  runs' \in [Runs -> Row]
BY ClearedRow DEF TypeOK, ClearAll

LEMMA BackoffType == ASSUME NEW a \in Nat PROVE Backoff(a) \in Int
BY ConstantTypes DEF Backoff

-----------------------------------------------------------------------------
(* Type correctness *)

Labels == {"idle"} \cup Waiting \cup Executing

LEMMA GotoType ==
    ASSUME TypeOK, NEW w \in Workers, NEW label \in Labels, Goto(w, label)
    PROVE  worker' \in [Workers -> WorkerState]
BY DEF TypeOK, Goto, WorkerState, Labels

LEMMA WorkerType ==
    ASSUME TypeOK, NEW w \in Workers, NEW s \in WorkerState,
           worker' = [worker EXCEPT ![w] = s]
    PROVE  worker' \in [Workers -> WorkerState]
BY DEF TypeOK

\* The record of a worker, for the leaves that update some of its fields.
LEMMA WorkerTypes ==
    ASSUME TypeOK, NEW w \in Workers
    PROVE  worker[w] \in WorkerState
BY DEF TypeOK

LEMMA FailType ==
    ASSUME TypeOK, NEW w \in Workers, NEW f \in Failure, Fail(w, f)
    PROVE  worker' \in [Workers -> WorkerState]
<1>1. [worker[w] EXCEPT !.pc = "failing", !.failure = f] \in WorkerState
  BY WorkerTypes DEF WorkerState, Executing
<1> QED BY <1>1, WorkerType DEF Fail

LEMMA Failures == Permanent \in Failure /\ Transient \in Failure
BY NullValues DEF Failure, Permanent, Transient

LEMMA FreshType == Fresh \in WorkerState
BY NullValues, Failures DEF Fresh, WorkerState, Claim, NoClaim

LEMMA EndTickType ==
    ASSUME TypeOK, NEW w \in Workers, EndTick(w)
    PROVE  worker' \in [Workers -> WorkerState]
<1>1. [Fresh EXCEPT !.stopping = worker[w].stopping] \in WorkerState
  BY FreshType DEF TypeOK, WorkerState
<1> QED BY <1>1 DEF TypeOK, EndTick

LEMMA QueuedType ==
    ASSUME TypeOK
    PROVE  /\ Queued \in Row
           /\ Queued.status = "queued"
           /\ Queued.attempts = 0
BY BlankRow DEF Queued, NoRow, Row, TypeOK, Statuses

LEMMA InitTypeOK == Init => TypeOK
BY ConstantTypes, BlankRow, FreshType
   DEF Init, TypeOK, Time

LEMMA MaintenanceType ==
    ASSUME TypeOK, NEW w \in Workers,
           \/ TerminalizeExhausted(w)
           \/ TerminalizeStaleActiveRuns(w)
           \/ RequeueEligible(w)
    PROVE  TypeOK'
<1>1. runs' \in [Runs -> Row]
  BY ClearAllType DEF TerminalizeExhausted, TerminalizeStaleActiveRuns,
                      RequeueEligible, Statuses
<1>2. worker' \in [Workers -> WorkerState]
  BY GotoType DEF TerminalizeExhausted, TerminalizeStaleActiveRuns,
                  RequeueEligible, Labels, Waiting
<1> QED BY <1>1, <1>2 DEF TypeOK, TerminalizeExhausted,
           TerminalizeStaleActiveRuns, RequeueEligible, syncVars, eventVars

LEMMA FindSourceType ==
    ASSUME TypeOK, NEW w \in Workers, FindSource(w)
    PROVE  TypeOK'
<1>1. worker' \in [Workers -> WorkerState]
  <2>1. CASE Goto(w, "claim")
    BY <2>1, GotoType DEF Labels, Waiting
  <2>2. ASSUME NEW k \in Syncs,
               worker' = [worker EXCEPT ![w] =
                            [@ EXCEPT !.pc = "insert", !.source = k]]
        PROVE  worker' \in [Workers -> WorkerState]
    <3>1. [worker[w] EXCEPT !.pc = "insert", !.source = k] \in WorkerState
      BY WorkerTypes DEF WorkerState, Waiting
    <3> QED BY <2>2, <3>1, WorkerType
  <2> QED BY <2>1, <2>2 DEF FindSource
<1> QED BY <1>1 DEF TypeOK, FindSource, syncVars, eventVars

LEMMA InsertRunType ==
    ASSUME TypeOK, NEW w \in Workers, InsertRun(w)
    PROVE  TypeOK'
<1>1. runs' \in [Runs -> Row]
  BY QueuedType DEF TypeOK, InsertRun
<1>2. worker' \in [Workers -> WorkerState]
  BY GotoType, EndTickType DEF InsertRun, Labels, Waiting
<1> QED BY <1>1, <1>2 DEF TypeOK, InsertRun, syncVars, eventVars

LEMMA EnqueueReprocessingType ==
    ASSUME TypeOK, NEW p \in Projects, NEW v \in Versions,
           EnqueueReprocessing(p, v)
    PROVE  TypeOK'
<1>1. runs' \in [Runs -> Row]
  BY QueuedType DEF TypeOK, EnqueueReprocessing
<1> QED BY <1>1 DEF TypeOK, EnqueueReprocessing, syncVars, eventVars

LEMMA ClaimNextType ==
    ASSUME TypeOK, NEW w \in Workers, ClaimNext(w)
    PROVE  TypeOK'
<1> DEFINE now == worker[w].now
           attempt(i) == runs[i].attempts + 1
           claimed(i) ==
             [runs[i] EXCEPT !.status = "running", !.retryAfterAt = NoTime,
                             !.attempts = attempt(i), !.leaseToken = attempt(i),
                             !.leaseExpiresAt = now + LeaseDuration]
<1>1. PICK i \in Runs :
         /\ Claimable(i, now)
         /\ runs' = [runs EXCEPT ![i] = claimed(i)]
         /\ worker' = [worker EXCEPT ![w] =
              [@ EXCEPT !.pc = "load",
                        !.claim = [run |-> i, token |-> attempt(i)]]]
  BY DEF ClaimNext
<1>2. attempt(i) \in 0..MaxAttempts
  BY <1>1, ConstantTypes DEF Claimable, TypeOK, Row
<1>3. claimed(i) \in Row
  <2>1. now + LeaseDuration \in Int
    BY NullValues, ConstantTypes DEF TypeOK, WorkerState
  <2>2. runs[i] \in Row /\ "running" \in Statuses
    BY DEF TypeOK, Statuses
  <2> QED BY <1>2, <2>1, <2>2, NullValues DEF Row
<1>4. runs' \in [Runs -> Row]
  BY <1>1, <1>3 DEF TypeOK
<1>5. worker' \in [Workers -> WorkerState]
  <2>1. [run |-> i, token |-> attempt(i)] \in Claim
    BY <1>2 DEF Claim
  <2>2. [worker[w] EXCEPT !.pc = "load",
                          !.claim = [run |-> i, token |-> attempt(i)]]
          \in WorkerState
    BY <2>1, WorkerTypes DEF WorkerState, Executing
  <2> QED BY <1>1, <2>2, WorkerType
<1> QED BY <1>4, <1>5 DEF TypeOK, ClaimNext, syncVars, eventVars

LEMMA ExtendLeaseType ==
    ASSUME TypeOK, NEW w \in Workers, ExtendLease(w)
    PROVE  TypeOK'
<1> DEFINE i == worker[w].claim.run
<1>1. clock + LeaseDuration \in Int
  BY NullValues, ConstantTypes DEF TypeOK
<1>2. i \in Runs =>
        [runs[i] EXCEPT !.leaseExpiresAt = clock + LeaseDuration] \in Row
  BY <1>1 DEF TypeOK, Row
<1>3. runs' \in [Runs -> Row]
  BY <1>2 DEF TypeOK, ExtendLease
<1> QED BY <1>3 DEF TypeOK, ExtendLease, syncVars, eventVars

LEMMA LoadClaimedType ==
    ASSUME TypeOK, NEW w \in Workers, LoadClaimed(w)
    PROVE  TypeOK'
<1>1. CASE Fail(w, Permanent)
  BY <1>1, FailType, Failures DEF TypeOK, LoadClaimed, syncVars, eventVars
<1>2. CASE worker' = [worker EXCEPT ![w] =
                        [@ EXCEPT !.pc = "groups", !.todo = Groups]]
  <2>1. [worker[w] EXCEPT !.pc = "groups", !.todo = Groups] \in WorkerState
    BY WorkerTypes DEF WorkerState, Executing
  <2> QED BY <1>2, <2>1, WorkerType
          DEF TypeOK, LoadClaimed, syncVars, eventVars
<1> QED BY <1>1, <1>2 DEF LoadClaimed

LEMMA InterpretGroupType ==
    ASSUME TypeOK, NEW w \in Workers, InterpretGroup(w),
           worker[w].claim.run \in Runs
    PROVE  TypeOK'
<1>1. PICK g \in worker[w].todo :
         /\ decided' = decided \cup {<<worker[w].claim.run, g>>}
         /\ worker' = [worker EXCEPT ![w].todo = @ \ {g}]
  BY DEF InterpretGroup
<1>2. g \in Groups
  BY DEF TypeOK, WorkerState
<1>3. decided' \subseteq Runs \X Groups
  BY <1>1, <1>2 DEF TypeOK
<1>4. worker' \in [Workers -> WorkerState]
  BY <1>1 DEF TypeOK, WorkerState
<1> QED BY <1>3, <1>4 DEF TypeOK, InterpretGroup, syncVars

LEMMA FailGroupType ==
    ASSUME TypeOK, NEW w \in Workers, FailGroup(w)
    PROVE  TypeOK'
<1>1. worker' \in [Workers -> WorkerState]
  <2>1. ASSUME NEW g \in worker[w].todo,
               worker' = [worker EXCEPT ![w] =
                 [@ EXCEPT !.todo = worker[w].todo \ {g}, !.failing = TRUE]]
        PROVE  worker' \in [Workers -> WorkerState]
    <3>1. [worker[w] EXCEPT !.todo = worker[w].todo \ {g}, !.failing = TRUE]
            \in WorkerState
      BY WorkerTypes DEF WorkerState
    <3> QED BY <2>1, <3>1, WorkerType
  <2>2. ASSUME NEW g \in worker[w].todo,
               NEW at \in {NoTime} \cup {clock + d : d \in ProviderDelays},
               worker' = [worker EXCEPT ![w] =
                 [@ EXCEPT !.todo = worker[w].todo \ {g}, !.deferring = TRUE,
                           !.failure = [retryable |-> TRUE, retryAfterAt |->
                              Later(worker[w].failure.retryAfterAt, at)]]]
        PROVE  worker' \in [Workers -> WorkerState]
    <3> DEFINE later == Later(worker[w].failure.retryAfterAt, at)
               f     == [retryable |-> TRUE, retryAfterAt |-> later]
    <3>1. at \in Int
      BY NullValues, ConstantTypes DEF TypeOK
    <3>2. later \in Int
      BY <3>1 DEF TypeOK, WorkerState, Failure, Later
    <3>3. f \in Failure
      BY <3>2 DEF Failure
    <3> HIDE DEF f
    <3>4. [worker[w] EXCEPT !.todo = worker[w].todo \ {g}, !.deferring = TRUE,
                            !.failure = f] \in WorkerState
      BY <3>3, WorkerTypes DEF WorkerState
    <3> QED BY <2>2, <3>4, WorkerType DEF f
  <2> QED BY <2>1, <2>2 DEF FailGroup
<1> QED BY <1>1 DEF TypeOK, FailGroup, syncVars, eventVars

LEMMA UpdateClaimedType ==
    ASSUME TypeOK, NEW w \in Workers, EndGroups(w) \/ UpdateClaimed(w)
    PROVE  TypeOK'
<1>1. CASE EndGroups(w)
  BY <1>1, GotoType
     DEF TypeOK, EndGroups, Labels, Executing, syncVars, eventVars
<1>2. CASE UpdateClaimed(w)
  <2>1. AfterGroups(w) \in Labels
    BY DEF AfterGroups, Labels, Executing
  <2>2. worker' \in [Workers -> WorkerState]
    BY <1>2, <2>1, GotoType, FailType, Failures DEF UpdateClaimed
  <2> QED BY <1>2, <2>2 DEF TypeOK, UpdateClaimed, syncVars, eventVars
<1> QED BY <1>1, <1>2

LEMMA ProjectType ==
    ASSUME TypeOK, NEW w \in Workers, Project(w)
    PROVE  TypeOK'
<1>1. worker' \in [Workers -> WorkerState]
  BY GotoType, FailType, Failures DEF Project, Labels, Executing
<1>2. projected' \in [Projects -> SUBSET (Runs \X Groups)]
  BY DEF TypeOK, Project
<1> QED BY <1>1, <1>2 DEF TypeOK, Project, syncVars

LEMMA CompleteType ==
    ASSUME TypeOK, NEW w \in Workers, Complete(w)
    PROVE  TypeOK'
<1>1. CASE Owns(w) /\ ClearAll({worker[w].claim.run}, "succeeded")
                   /\ EndTick(w)
  <2>1. runs' \in [Runs -> Row]
    BY <1>1, ClearAllType DEF Statuses
  <2> QED BY <1>1, <2>1, EndTickType
          DEF TypeOK, Complete, syncVars, eventVars
<1>2. CASE Fail(w, Permanent) /\ UNCHANGED runs
  BY <1>2, FailType, Failures DEF TypeOK, Complete, syncVars, eventVars
<1> QED BY <1>1, <1>2 DEF Complete

LEMMA FailClaimedType ==
    ASSUME TypeOK, NEW w \in Workers, FailClaimed(w)
    PROVE  TypeOK'
<1> DEFINE i == worker[w].claim.run
           f == worker[w].failure
           attempt == worker[w].claim.token
           retryAt == IF f.retryAfterAt = NoTime THEN clock + Backoff(attempt)
                                                 ELSE f.retryAfterAt
<1>1. retryAt \in Int
  <2>1. attempt \in Nat /\ f.retryAfterAt \in Int
    BY ConstantTypes DEF TypeOK, WorkerState, Claim, Failure
  <2>2. clock + Backoff(attempt) \in Int
    BY <2>1, BackoffType, NullValues DEF TypeOK
  <2> QED BY <2>1, <2>2
<1> HIDE DEF retryAt
<1>2. runs' \in [Runs -> Row]
  <2>1. CASE runs' = [runs EXCEPT ![i] =
                        [Cleared(runs[i], "failed_retryable") EXCEPT
                           !.retryAfterAt = retryAt]]
    <3>1. i \in Runs => Cleared(runs[i], "failed_retryable") \in Row
      BY ClearedRow DEF TypeOK, Statuses
    <3>2. i \in Runs => [Cleared(runs[i], "failed_retryable") EXCEPT
                           !.retryAfterAt = retryAt] \in Row
      BY <1>1, <3>1 DEF Row
    <3> QED BY <2>1, <3>2 DEF TypeOK
  <2>2. CASE ClearAll({i}, "failed_terminal")
    BY <2>2, ClearAllType DEF Statuses
  <2>3. CASE UNCHANGED runs
    BY <2>3 DEF TypeOK
  <2> QED BY <2>1, <2>2, <2>3 DEF FailClaimed, retryAt
<1>3. worker' \in [Workers -> WorkerState]
  BY EndTickType DEF FailClaimed
<1> QED BY <1>2, <1>3 DEF TypeOK, FailClaimed, syncVars, eventVars

LEMMA FaultType ==
    ASSUME TypeOK, NEW w \in Workers,
           StatementFails(w) \/ Crash(w) \/ Shutdown(w) \/ Restart(w)
    PROVE  TypeOK'
<1>1. CASE StatementFails(w)
  BY <1>1, ConstantTypes, EndTickType, FailType, Failures
     DEF StatementFails, TypeOK, syncVars, eventVars
<1>2. CASE Crash(w)
  BY <1>2, ConstantTypes, FreshType, WorkerType
     DEF Crash, TypeOK, syncVars, eventVars
<1>3. CASE Shutdown(w)
  <2>1. [worker[w] EXCEPT !.stopping = TRUE] \in WorkerState
    BY DEF TypeOK, WorkerState
  <2>2. worker' \in [Workers -> WorkerState]
    BY <1>3, <2>1, WorkerType DEF Shutdown
  <2> QED BY <1>3, <2>2, ConstantTypes
          DEF Shutdown, TypeOK, syncVars, eventVars
<1>4. CASE Restart(w)
  BY <1>4, FreshType, WorkerType DEF Restart, TypeOK, syncVars, eventVars
<1> QED BY <1>1, <1>2, <1>3, <1>4

LEMMA BeginEndType ==
    ASSUME TypeOK, NEW w \in Workers, BeginTick(w) \/ EndIntelligenceTick(w)
    PROVE  TypeOK'
<1>1. CASE BeginTick(w)
  <2>1. [worker[w] EXCEPT !.pc = "exhaust", !.now = clock] \in WorkerState
    <3>1. clock \in Time
      BY DEF TypeOK
    <3> QED BY <3>1, WorkerTypes DEF WorkerState, Waiting
  <2>2. worker' \in [Workers -> WorkerState]
    BY <1>1, <2>1, WorkerType DEF BeginTick
  <2> QED BY <1>1, <2>2 DEF BeginTick, TypeOK, syncVars, eventVars
<1>2. CASE EndIntelligenceTick(w)
  BY <1>2, EndTickType DEF EndIntelligenceTick, TypeOK, syncVars, eventVars
<1> QED BY <1>1, <1>2

LEMMA SyncQueueType ==
    ASSUME TypeOK, NEW p \in Projects, SyncSucceeds(p) \/ Disconnect(p)
    PROVE  TypeOK'
<1>1. CASE SyncSucceeds(p)
  <2>1. synced' \in 0..MaxSyncs
    BY <1>1, ConstantTypes DEF SyncSucceeds, TypeOK
  <2>2. projectOf' \in [Syncs -> Projects \cup {"none"}]
    BY <1>1 DEF SyncSucceeds, TypeOK
  <2> QED BY <1>1, <2>1, <2>2 DEF SyncSucceeds, TypeOK, eventVars
<1>2. CASE Disconnect(p)
  <2>1. [NoRow EXCEPT !.status = "deleted"] \in Row
    BY NullValues, ConstantTypes DEF NoRow, Row, Statuses
  <2>2. runs' \in [Runs -> Row]
    BY <1>2, <2>1 DEF Disconnect, TypeOK
  <2>3. gone' \subseteq Syncs
    BY <1>2 DEF Disconnect, TypeOK, SyncsOf
  <2> QED BY <1>2, <2>2, <2>3, ConstantTypes DEF Disconnect, TypeOK, eventVars
<1> QED BY <1>1, <1>2

\* An attempt has claimed a run; between attempts a worker has none.
ClaimsNameRuns ==
    \A w \in Workers :
        IF worker[w].pc \in Executing THEN worker[w].claim.run \in Runs
                                      ELSE worker[w].claim = NoClaim

LEMMA NextType ==
    ASSUME TypeOK, ClaimsNameRuns, [Next]_vars
    PROVE  TypeOK'
<1>1. ASSUME NEW w \in Workers, WorkerStep(w)
      PROVE  TypeOK'
  <2>1. InterpretGroup(w) => worker[w].claim.run \in Runs
    BY DEF InterpretGroup, ClaimsNameRuns, Executing
  <2> QED BY <1>1, <2>1, BeginEndType, MaintenanceType, FindSourceType,
             InsertRunType, ClaimNextType, LoadClaimedType, InterpretGroupType,
             FailGroupType, UpdateClaimedType, ProjectType, CompleteType,
             FailClaimedType, FaultType
          DEF WorkerStep
<1>2. ASSUME NEW w \in Workers,
             ExtendLease(w) \/ StatementFails(w) \/ Crash(w) \/ Shutdown(w)
      PROVE  TypeOK'
  BY <1>2, ExtendLeaseType, FaultType
<1>3. ASSUME NEW p \in Projects,
             \/ SyncSucceeds(p) \/ Disconnect(p)
             \/ \E v \in Versions : EnqueueReprocessing(p, v)
      PROVE  TypeOK'
  BY <1>3, SyncQueueType, EnqueueReprocessingType
<1>4. CASE Tick
  BY <1>4, ConstantTypes DEF Tick, TypeOK, Time, syncVars, eventVars
<1>5. CASE UNCHANGED vars
  BY <1>5 DEF vars, syncVars, eventVars, TypeOK
<1> QED BY <1>1, <1>2, <1>3, <1>4, <1>5 DEF Next

-----------------------------------------------------------------------------
(* What a step may do to a row                                               *)

\* What has been decided for a run, and what of it the state of its project
\* was projected from.
Decided(i)   == \A g \in Groups : <<i, g>> \in decided
Projected(i) ==
    \A g \in Groups : /\ <<i, g>> \in decided
                      /\ <<i, g>> \in projected[projectOf[i[1]]]

\* A worker completes the run it holds.
Completes(i) ==
    \E w \in Workers : Complete(w) /\ worker[w].claim.run = i

RowStep(i) ==
    LET old == runs[i]
        new == runs'[i]
    IN  \/ /\ new.status = old.status
           /\ new.attempts = old.attempts
           /\ new.leaseToken = old.leaseToken
        \/ /\ old.status = "none"
           /\ new.status = "queued"
           /\ new.attempts = 0
           /\ Live(i[1])
        \/ /\ old.status \in {"queued", "running"}
           /\ old.attempts < MaxAttempts
           /\ new.status = "running"
           /\ new.attempts = old.attempts + 1
           /\ new.leaseToken = new.attempts
        \/ /\ old.status = "running"
           /\ new.status = "failed_retryable"
           /\ new.attempts = old.attempts
           /\ old.leaseToken < MaxAttempts
        \/ /\ old.status = "failed_retryable"
           /\ new.status = "queued"
           /\ new.attempts = old.attempts
           /\ old.attempts < MaxAttempts
        \/ /\ old.status \in Active
           /\ \/ new.status = "failed_terminal"
              \/ new.status = "succeeded" /\ old.status = "running"
                 /\ Completes(i)
           /\ new.attempts = old.attempts
        \/ /\ new.status = "deleted"
           /\ new.attempts = 0
           /\ \E p \in Projects : Disconnect(p) /\ i \in RunsOf(p)

RowSteps == \A i \in Runs : RowStep(i)

LEMMA UnchangedRows == ASSUME UNCHANGED runs PROVE RowSteps
BY DEF RowSteps, RowStep

LEMMA MaintenanceSteps ==
    ASSUME TypeOK, NEW w \in Workers,
           \/ TerminalizeExhausted(w)
           \/ TerminalizeStaleActiveRuns(w)
           \/ RequeueEligible(w)
    PROVE  RowSteps
<1> SUFFICES ASSUME NEW i \in Runs
             PROVE  RowStep(i)
  BY DEF RowSteps
<1>1. runs[i] \in Row
  BY DEF TypeOK
<1>2. CASE runs'[i] = runs[i]
  BY <1>2 DEF RowStep
<1>3. ASSUME runs[i].status \in Active,
             runs'[i] = Cleared(runs[i], "failed_terminal")
      PROVE  RowStep(i)
  BY <1>1, <1>3, ClearedRow DEF RowStep, Statuses
<1>4. CASE TerminalizeExhausted(w)
  BY <1>2, <1>3, <1>4
     DEF TerminalizeExhausted, ClearAll, Expired, Active
<1>5. CASE TerminalizeStaleActiveRuns(w)
  BY <1>2, <1>3, <1>5
     DEF TerminalizeStaleActiveRuns, ClearAll, Stale, Expired, Active
<1>6. CASE RequeueEligible(w)
  <2>1. CASE Requeueable(i, worker[w].now)
    <3>1. runs'[i] = Cleared(runs[i], "queued")
      BY <1>6, <2>1 DEF RequeueEligible, ClearAll
    <3> QED BY <1>1, <2>1, <3>1, ClearedRow
            DEF RowStep, Requeueable, Statuses
  <2>2. CASE ~Requeueable(i, worker[w].now)
    BY <1>2, <1>6, <2>2 DEF RequeueEligible, ClearAll
  <2> QED BY <2>1, <2>2
<1> QED BY <1>4, <1>5, <1>6

\* The insert of a run, by the worker or by a caller.
LEMMA InsertSteps ==
    ASSUME TypeOK, NEW j, Live(j[1]), Insertable(j),
           runs' = [runs EXCEPT ![j] = Queued]
    PROVE  RowSteps
<1> SUFFICES ASSUME NEW i \in Runs
             PROVE  RowStep(i)
  BY DEF RowSteps
<1>1. CASE i = j
  BY <1>1, QueuedType DEF TypeOK, Insertable, RowStep
<1>2. CASE i # j
  BY <1>2 DEF TypeOK, RowStep
<1> QED BY <1>1, <1>2

LEMMA InsertRunSteps ==
    ASSUME TypeOK, NEW w \in Workers, InsertRun(w)
    PROVE  RowSteps
<1> DEFINE i == <<worker[w].source, VersionOf[w]>>
<1>1. CASE UNCHANGED runs
  BY <1>1, UnchangedRows
<1>2. CASE Live(i[1]) /\ Insertable(i) /\ runs' = [runs EXCEPT ![i] = Queued]
  BY <1>2, InsertSteps
<1> QED BY <1>1, <1>2 DEF InsertRun

LEMMA EnqueueReprocessingSteps ==
    ASSUME TypeOK, NEW p \in Projects, NEW v \in Versions,
           EnqueueReprocessing(p, v)
    PROVE  RowSteps
<1>1. PICK k \in SyncsOf(p) :
         /\ Insertable(<<k, v>>)
         /\ runs' = [runs EXCEPT ![<<k, v>>] = Queued]
  BY DEF EnqueueReprocessing
<1>2. Live(<<k, v>>[1])
  BY DEF SyncsOf
<1> QED BY <1>1, <1>2, InsertSteps

LEMMA ClaimSteps ==
    ASSUME TypeOK, NEW w \in Workers, ClaimNext(w)
    PROVE  RowSteps
<1> DEFINE now == worker[w].now
           attempt(i) == runs[i].attempts + 1
           claimed(i) ==
             [runs[i] EXCEPT !.status = "running", !.retryAfterAt = NoTime,
                             !.attempts = attempt(i), !.leaseToken = attempt(i),
                             !.leaseExpiresAt = now + LeaseDuration]
<1>1. PICK i \in Runs :
         /\ Claimable(i, now)
         /\ runs' = [runs EXCEPT ![i] = claimed(i)]
  BY DEF ClaimNext
<1>2. \A j \in Runs \ {i} : runs'[j] = runs[j]
  BY <1>1 DEF TypeOK
<1>3. /\ runs'[i].status = "running"
      /\ runs'[i].attempts = runs[i].attempts + 1
      /\ runs'[i].leaseToken = runs'[i].attempts
  BY <1>1 DEF TypeOK, Row
<1>4. RowStep(i)
  BY <1>1, <1>3 DEF RowStep, Claimable, Expired
<1> QED BY <1>2, <1>4 DEF RowSteps, RowStep

LEMMA ExtendLeaseSteps ==
    ASSUME TypeOK, NEW w \in Workers, ExtendLease(w)
    PROVE  RowSteps
<1> SUFFICES ASSUME NEW i \in Runs
             PROVE  RowStep(i)
  BY DEF RowSteps
<1>1. CASE i = worker[w].claim.run
  BY <1>1 DEF ExtendLease, RowStep, TypeOK, Row
<1>2. CASE i # worker[w].claim.run
  BY <1>2 DEF ExtendLease, RowStep, TypeOK
<1> QED BY <1>1, <1>2

LEMMA CompleteSteps ==
    ASSUME TypeOK, NEW w \in Workers, Complete(w)
    PROVE  RowSteps
<1> DEFINE i == worker[w].claim.run
<1>1. CASE Owns(w) /\ ClearAll({i}, "succeeded")
  <2> SUFFICES ASSUME NEW j \in Runs
               PROVE  RowStep(j)
    BY DEF RowSteps
  <2>1. CASE j = i
    <3>1. /\ runs'[j].status = "succeeded"
          /\ runs'[j].attempts = runs[j].attempts
      BY <1>1, <2>1, ClearedRow DEF ClearAll, TypeOK, Statuses
    <3>2. runs[j].status = "running" /\ Completes(j)
      BY <1>1, <2>1 DEF Owns, Completes
    <3> QED BY <3>1, <3>2 DEF RowStep, Active
  <2>2. CASE j # i
    BY <1>1, <2>2 DEF ClearAll, RowStep
  <2> QED BY <2>1, <2>2
<1>2. CASE UNCHANGED runs
  BY <1>2, UnchangedRows
<1> QED BY <1>1, <1>2 DEF Complete

LEMMA FailClaimedSteps ==
    ASSUME TypeOK, NEW w \in Workers, FailClaimed(w)
    PROVE  RowSteps
<1> DEFINE i == worker[w].claim.run
           deferred(t) == [Cleared(runs[i], "failed_retryable") EXCEPT
                             !.retryAfterAt = t]
<1>1. ASSUME NEW t, Owns(w), worker[w].claim.token < MaxAttempts,
             runs' = [runs EXCEPT ![i] = deferred(t)]
      PROVE  RowSteps
  <2> SUFFICES ASSUME NEW j \in Runs
               PROVE  RowStep(j)
    BY DEF RowSteps
  <2>1. CASE j = i
    <3>1. Cleared(runs[i], "failed_retryable") \in Row
      BY <2>1, ClearedRow DEF TypeOK, Statuses
    <3>2. /\ Cleared(runs[i], "failed_retryable").status = "failed_retryable"
          /\ Cleared(runs[i], "failed_retryable").attempts = runs[i].attempts
      BY <2>1, ClearedRow DEF TypeOK, Statuses
    <3>3. runs'[i] = deferred(t)
      BY <1>1, <2>1 DEF TypeOK
    <3>4. /\ runs'[i].status = "failed_retryable"
          /\ runs'[i].attempts = runs[i].attempts
      BY <3>1, <3>2, <3>3 DEF Row
    <3> QED BY <1>1, <2>1, <3>4 DEF RowStep, Owns
  <2>2. CASE j # i
    BY <1>1, <2>2 DEF TypeOK, RowStep
  <2> QED BY <2>1, <2>2
<1>2. CASE Owns(w) /\ ClearAll({i}, "failed_terminal")
  <2> SUFFICES ASSUME NEW j \in Runs
               PROVE  RowStep(j)
    BY DEF RowSteps
  <2>1. CASE j = i
    <3>1. runs[j].status = "running"
      BY <1>2, <2>1 DEF Owns
    <3>2. runs'[j] = Cleared(runs[j], "failed_terminal")
      BY <1>2, <2>1 DEF ClearAll
    <3>3. runs[j] \in Row /\ "failed_terminal" \in Statuses
      BY DEF TypeOK, Statuses
    <3> QED BY <3>1, <3>2, <3>3, ClearedRow DEF RowStep, Active
  <2>2. CASE j # i
    BY <1>2, <2>2 DEF ClearAll, RowStep
  <2> QED BY <2>1, <2>2
<1>3. CASE UNCHANGED runs
  BY <1>3, UnchangedRows
<1> QED BY <1>1, <1>2, <1>3 DEF FailClaimed, MayRetry

LEMMA DisconnectSteps ==
    ASSUME TypeOK, NEW p \in Projects, Disconnect(p)
    PROVE  RowSteps
<1> SUFFICES ASSUME NEW i \in Runs
             PROVE  RowStep(i)
  BY DEF RowSteps
<1>1. CASE i \in RunsOf(p)
  <2>1. runs'[i].status = "deleted" /\ runs'[i].attempts = 0
    BY <1>1 DEF Disconnect, NoRow
  <2> QED BY <1>1, <2>1 DEF RowStep
<1>2. CASE i \notin RunsOf(p)
  BY <1>2 DEF Disconnect, RowStep
<1> QED BY <1>1, <1>2

\* Every step moves every row along one of these ways.
LEMMA NextSteps ==
    ASSUME TypeOK, [Next]_vars
    PROVE  RowSteps
<1>1. ASSUME NEW w \in Workers, WorkerStep(w)
      PROVE  RowSteps
  <2>1. CASE \/ BeginTick(w) \/ FindSource(w) \/ EndIntelligenceTick(w)
             \/ LoadClaimed(w) \/ InterpretGroup(w) \/ FailGroup(w)
             \/ EndGroups(w) \/ UpdateClaimed(w) \/ Project(w) \/ Restart(w)
    BY <2>1, UnchangedRows
       DEF BeginTick, FindSource, EndIntelligenceTick, LoadClaimed,
           InterpretGroup, FailGroup, EndGroups, UpdateClaimed, Project,
           Restart
  <2> QED BY <1>1, <2>1, MaintenanceSteps, InsertRunSteps, ClaimSteps,
             CompleteSteps, FailClaimedSteps
          DEF WorkerStep
<1>2. ASSUME NEW w \in Workers,
             ExtendLease(w) \/ StatementFails(w) \/ Crash(w) \/ Shutdown(w)
      PROVE  RowSteps
  BY <1>2, ExtendLeaseSteps, UnchangedRows
     DEF StatementFails, Crash, Shutdown
<1>3. ASSUME NEW p \in Projects,
             \/ SyncSucceeds(p) \/ Disconnect(p)
             \/ \E v \in Versions : EnqueueReprocessing(p, v)
      PROVE  RowSteps
  BY <1>3, DisconnectSteps, EnqueueReprocessingSteps, UnchangedRows
     DEF SyncSucceeds
<1>4. CASE Tick \/ UNCHANGED vars
  BY <1>4, UnchangedRows DEF Tick, vars
<1> QED BY <1>1, <1>2, <1>3, <1>4 DEF Next

-----------------------------------------------------------------------------
(* The inductive invariant *)

\* A blank row was never claimed, the token of a running row is the count of
\* its claims, a deferred row has a claim left, and the source of a row lives.
RowsInv ==
    \A i \in Runs :
        /\ runs[i].status = "none" => runs[i].attempts = 0
        /\ runs[i].status = "running" => runs[i].leaseToken = runs[i].attempts
        /\ runs[i].status = "failed_retryable" => runs[i].attempts < MaxAttempts
        /\ runs[i].status \notin {"none", "deleted"} => Live(i[1])

SyncsHaveProject == \A k \in Syncs : k <= synced => projectOf[k] \in Projects

\* What an attempt has done by the time it is at each of its statements.
Progress(w) ==
    LET i  == worker[w].claim.run
        pc == worker[w].pc
    IN  /\ pc \in Executing => i[1] <= synced
        /\ pc = "groups" /\ ~worker[w].deferring /\ ~worker[w].failing =>
             \A g \in Groups \ worker[w].todo : <<i, g>> \in decided
        /\ pc = "counters" /\ ~worker[w].deferring /\ ~worker[w].failing =>
             Decided(i)
        /\ pc = "project" /\ ~worker[w].failing => Decided(i)
        /\ pc = "complete" /\ Live(i[1]) => Projected(i)

ProgressInv == \A w \in Workers : Progress(w)

IInv == /\ TypeOK
        /\ ClaimsNameRuns
        /\ RowsInv
        /\ SyncsHaveProject
        /\ ProgressInv
        /\ SucceededIsProjected

LEMMA InitIInv == Init => IInv
<1> SUFFICES ASSUME Init
             PROVE  IInv
  OBVIOUS
<1>1. \A i \in Runs : runs[i].status = "none" /\ runs[i].attempts = 0
  BY DEF Init, NoRow
<1>2. \A w \in Workers : worker[w] = Fresh
  BY DEF Init
<1>3. Fresh.pc = "idle" /\ Fresh.claim = NoClaim
  BY DEF Fresh
<1>4. ClaimsNameRuns /\ ProgressInv
  BY <1>2, <1>3 DEF ClaimsNameRuns, ProgressInv, Progress, Executing
<1>5. SyncsHaveProject
  BY ConstantTypes DEF SyncsHaveProject, Init, Syncs
<1> QED BY <1>1, <1>4, <1>5, InitTypeOK
        DEF IInv, RowsInv, SucceededIsProjected

\* Only the sync queue and a disconnection change the syncs.
LEMMA SyncSteps ==
    ASSUME [Next]_vars
    PROVE  \/ UNCHANGED syncVars
           \/ \E p \in Projects : SyncSucceeds(p) \/ Disconnect(p)
<1>1. ASSUME NEW w \in Workers, WorkerStep(w)
      PROVE  UNCHANGED syncVars
  <2>1. CASE \/ BeginTick(w) \/ TerminalizeExhausted(w)
             \/ TerminalizeStaleActiveRuns(w) \/ RequeueEligible(w)
             \/ FindSource(w) \/ InsertRun(w) \/ ClaimNext(w)
             \/ EndIntelligenceTick(w)
    BY <2>1 DEF BeginTick, TerminalizeExhausted, TerminalizeStaleActiveRuns,
       RequeueEligible, FindSource, InsertRun, ClaimNext, EndIntelligenceTick
  <2>2. CASE \/ LoadClaimed(w) \/ InterpretGroup(w) \/ FailGroup(w)
             \/ EndGroups(w) \/ UpdateClaimed(w) \/ Project(w) \/ Complete(w)
             \/ FailClaimed(w) \/ Restart(w)
    BY <2>2 DEF LoadClaimed, InterpretGroup, FailGroup, EndGroups,
       UpdateClaimed, Project, Complete, FailClaimed, Restart
  <2> QED BY <1>1, <2>1, <2>2 DEF WorkerStep
<1>2. ASSUME NEW w \in Workers,
             ExtendLease(w) \/ StatementFails(w) \/ Crash(w) \/ Shutdown(w)
      PROVE  UNCHANGED syncVars
  BY <1>2 DEF ExtendLease, StatementFails, Crash, Shutdown
<1>3. ASSUME NEW p \in Projects, NEW v \in Versions, EnqueueReprocessing(p, v)
      PROVE  UNCHANGED syncVars
  BY <1>3 DEF EnqueueReprocessing
<1>4. CASE Tick \/ UNCHANGED vars
  BY <1>4 DEF Tick, vars
<1> QED BY <1>1, <1>2, <1>3, <1>4 DEF Next

\* Only an attempt that interprets or projects changes what that produced.
LEMMA EventSteps ==
    ASSUME [Next]_vars
    PROVE  \/ UNCHANGED eventVars
           \/ \E w \in Workers : InterpretGroup(w) \/ Project(w)
<1>1. ASSUME NEW w \in Workers, WorkerStep(w),
             ~InterpretGroup(w), ~Project(w)
      PROVE  UNCHANGED eventVars
  <2>1. CASE \/ BeginTick(w) \/ TerminalizeExhausted(w)
             \/ TerminalizeStaleActiveRuns(w) \/ RequeueEligible(w)
             \/ FindSource(w) \/ InsertRun(w) \/ ClaimNext(w)
             \/ EndIntelligenceTick(w)
    BY <2>1 DEF BeginTick, TerminalizeExhausted, TerminalizeStaleActiveRuns,
       RequeueEligible, FindSource, InsertRun, ClaimNext, EndIntelligenceTick
  <2>2. CASE \/ LoadClaimed(w) \/ FailGroup(w) \/ EndGroups(w)
             \/ UpdateClaimed(w) \/ Complete(w) \/ FailClaimed(w) \/ Restart(w)
    BY <2>2 DEF LoadClaimed, FailGroup, EndGroups, UpdateClaimed, Complete,
       FailClaimed, Restart
  <2> QED BY <1>1, <2>1, <2>2 DEF WorkerStep
<1>2. ASSUME NEW w \in Workers,
             ExtendLease(w) \/ StatementFails(w) \/ Crash(w) \/ Shutdown(w)
      PROVE  UNCHANGED eventVars
  BY <1>2 DEF ExtendLease, StatementFails, Crash, Shutdown
<1>3. ASSUME NEW p \in Projects,
             \/ SyncSucceeds(p) \/ Disconnect(p)
             \/ \E v \in Versions : EnqueueReprocessing(p, v)
      PROVE  UNCHANGED eventVars
  BY <1>3 DEF SyncSucceeds, Disconnect, EnqueueReprocessing
<1>4. CASE Tick \/ UNCHANGED vars
  BY <1>4 DEF Tick, vars
<1> QED BY <1>1, <1>2, <1>3, <1>4 DEF Next

\* Syncs are only added, or deleted by a disconnection; decisions are only
\* added.
LEMMA HistoryGrows ==
    ASSUME TypeOK, [Next]_vars
    PROVE  /\ synced <= synced'
           /\ gone \subseteq gone'
           /\ decided \subseteq decided'
           /\ \A k \in Syncs : k <= synced => projectOf'[k] = projectOf[k]
<1>1. synced \in Int
  BY ConstantTypes DEF TypeOK
<1>2. decided \subseteq decided'
  BY EventSteps DEF eventVars, InterpretGroup, Project
<1>3. CASE UNCHANGED syncVars
  BY <1>1, <1>2, <1>3 DEF syncVars
<1>4. ASSUME NEW p \in Projects, SyncSucceeds(p)
      PROVE  /\ synced <= synced'
             /\ UNCHANGED gone
             /\ \A k \in Syncs : k <= synced => projectOf'[k] = projectOf[k]
  BY <1>1, <1>4, ConstantTypes DEF SyncSucceeds, TypeOK, Syncs
<1>5. ASSUME NEW p \in Projects, Disconnect(p)
      PROVE  UNCHANGED <<projectOf, synced>> /\ gone \subseteq gone'
  BY <1>5 DEF Disconnect
<1> QED BY <1>1, <1>2, <1>3, <1>4, <1>5, SyncSteps

\* A sync comes to life only when it succeeds, and stays alive until its
\* project is disconnected.
LEMMA LivesOnce ==
    ASSUME TypeOK, TypeOK', [Next]_vars,
           NEW k \in Syncs, k <= synced, Live(k)'
    PROVE  Live(k)
BY HistoryGrows, ConstantTypes DEF Live

LEMMA LivesOn ==
    ASSUME TypeOK, TypeOK', [Next]_vars,
           NEW k \in Syncs, Live(k), ~Live(k)'
    PROVE  \E p \in Projects : Disconnect(p) /\ k \in SyncsOf(p)
<1>1. synced <= synced' /\ synced \in Int /\ k \in Int /\ k <= synced
  BY HistoryGrows DEF TypeOK, Live, Syncs
<1>2. synced' \in Int
  BY DEF TypeOK
<1>3. k \in gone' \ gone
  BY <1>1, <1>2 DEF Live
<1>4. \/ UNCHANGED gone
      \/ \E p \in Projects : Disconnect(p)
  BY SyncSteps DEF syncVars, SyncSucceeds
<1> QED BY <1>3, <1>4 DEF Disconnect

LEMMA NextRowsInv ==
    ASSUME IInv, TypeOK', [Next]_vars
    PROVE  RowsInv'
<1> SUFFICES ASSUME NEW i \in Runs
             PROVE  /\ runs'[i].status = "none" => runs'[i].attempts = 0
                    /\ runs'[i].status = "running" =>
                         runs'[i].leaseToken = runs'[i].attempts
                    /\ runs'[i].status = "failed_retryable" =>
                         runs'[i].attempts < MaxAttempts
                    /\ runs'[i].status \notin {"none", "deleted"} => Live(i[1])'
  BY DEF RowsInv
<1>1. RowStep(i) /\ TypeOK
  BY NextSteps DEF IInv, RowSteps
<1>2. /\ runs[i].status = "none" => runs[i].attempts = 0
      /\ runs[i].status = "running" => runs[i].leaseToken = runs[i].attempts
      /\ runs[i].status = "failed_retryable" => runs[i].attempts < MaxAttempts
      /\ runs[i].status \notin {"none", "deleted"} => Live(i[1])
  BY DEF IInv, RowsInv
<1>3. /\ runs'[i].status = "none" => runs'[i].attempts = 0
      /\ runs'[i].status = "running" =>
           runs'[i].leaseToken = runs'[i].attempts
      /\ runs'[i].status = "failed_retryable" =>
           runs'[i].attempts < MaxAttempts
  BY <1>1, <1>2 DEF RowStep, Active
<1>4. ASSUME runs'[i].status \notin {"none", "deleted"}
      PROVE  Live(i[1])'
  <2>1. Live(i[1])
    BY <1>1, <1>2, <1>4 DEF RowStep, Active
  <2>2. ASSUME NEW p \in Projects, Disconnect(p), i[1] \in SyncsOf(p)
        PROVE  FALSE
    BY <1>4, <2>2 DEF Disconnect, RunsOf, NoRow
  <2> QED BY <1>1, <2>1, <2>2, LivesOn, RunTypes
<1> QED BY <1>3, <1>4

LEMMA NextSyncsHaveProject ==
    ASSUME IInv, TypeOK', [Next]_vars
    PROVE  SyncsHaveProject'
<1> SUFFICES ASSUME NEW k \in Syncs, k <= synced'
             PROVE  projectOf'[k] \in Projects
  BY DEF SyncsHaveProject
<1>1. CASE k <= synced
  BY <1>1, HistoryGrows DEF IInv, SyncsHaveProject
<1>2. CASE ~(k <= synced)
  <2>1. synced' # synced
    BY <1>2
  <2>2. PICK p \in Projects : SyncSucceeds(p)
    BY <2>1, SyncSteps DEF syncVars, Disconnect
  <2>3. k = synced + 1
    BY <1>2, <2>2, ConstantTypes DEF SyncSucceeds, IInv, TypeOK, Syncs
  <2> QED BY <2>2, <2>3 DEF SyncSucceeds, IInv, TypeOK
<1> QED BY <1>1, <1>2

\* What a project's state was projected from stays in it: a later projection
\* reads every decision about the project's living sources again.
LEMMA ProjectedStays ==
    ASSUME IInv, TypeOK', [Next]_vars,
           NEW i \in Runs, Live(i[1]), Projected(i)
    PROVE  Projected(i)'
<1> DEFINE p == projectOf[i[1]]
<1>1. i[1] \in Syncs /\ i[1] <= synced
  BY RunTypes DEF Live
<1>2. p \in Projects /\ projectOf'[i[1]] = p
  BY <1>1, HistoryGrows DEF IInv, SyncsHaveProject
<1>3. \A g \in Groups : <<i, g>> \in decided /\ <<i, g>> \in decided'
  BY HistoryGrows DEF Projected, IInv
<1>4. \A g \in Groups : <<i, g>> \in projected'[p]
  <2>1. CASE UNCHANGED projected
    BY <2>1 DEF Projected
  <2>2. ASSUME NEW w \in Workers, Project(w)
        PROVE  \A g \in Groups : <<i, g>> \in projected'[p]
    <3> DEFINE q == projectOf[worker[w].claim.run[1]]
    <3>1. CASE p = q
      <4>1. projected'[p] = {d \in decided : d[1][1] \in SyncsOf(p)}
        BY <2>2, <3>1, <1>2 DEF Project, IInv, TypeOK
      <4>2. i[1] \in SyncsOf(p)
        BY <1>1 DEF SyncsOf
      <4>3. \A g \in Groups : <<i, g>>[1][1] = i[1]
        OBVIOUS
      <4> QED BY <1>3, <4>1, <4>2, <4>3
    <3>2. CASE p # q
      BY <2>2, <3>2, <1>2 DEF Project, Projected, IInv, TypeOK
    <3> QED BY <3>1, <3>2
  <2>3. UNCHANGED projected \/ \E w \in Workers : Project(w)
    BY EventSteps DEF eventVars, InterpretGroup
  <2> QED BY <2>1, <2>2, <2>3
<1> QED BY <1>2, <1>3, <1>4 DEF Projected

\* What holds of a worker, and is kept while its attempt stays where it is.
WorkerInv(w) ==
    /\ IF worker[w].pc \in Executing THEN worker[w].claim.run \in Runs
                                     ELSE worker[w].claim = NoClaim
    /\ Progress(w)

SameAttempt(w) ==
    /\ worker'[w].pc = worker[w].pc
    /\ worker'[w].claim = worker[w].claim
    /\ worker'[w].todo = worker[w].todo
    /\ worker'[w].deferring = worker[w].deferring
    /\ worker'[w].failing = worker[w].failing

LEMMA WorkersInv == IInv => \A w \in Workers : WorkerInv(w)
BY DEF IInv, ClaimsNameRuns, ProgressInv, WorkerInv

LEMMA SourceStays ==
    ASSUME IInv, TypeOK', [Next]_vars, NEW w \in Workers,
           worker[w].pc \in Executing
    PROVE  /\ worker[w].claim.run \in Runs
           /\ worker[w].claim.run[1] \in Syncs
           /\ worker[w].claim.run[1] <= synced
           /\ worker[w].claim.run[1] <= synced'
<1>1. /\ worker[w].claim.run \in Runs
      /\ worker[w].claim.run[1] \in Syncs
      /\ worker[w].claim.run[1] <= synced
  BY WorkersInv, RunTypes DEF WorkerInv, Progress
<1>2. synced \in Int /\ synced' \in Int /\ synced <= synced'
  BY HistoryGrows DEF IInv, TypeOK
<1> QED BY <1>1, <1>2 DEF Syncs

LEMMA SameAttemptInv ==
    ASSUME IInv, TypeOK', [Next]_vars, NEW w \in Workers, SameAttempt(w)
    PROVE  WorkerInv(w)'
<1> DEFINE pc == worker[w].pc
<1>0. PICK i : i = worker[w].claim.run
  OBVIOUS
<1>1. WorkerInv(w) /\ TypeOK
  BY WorkersInv DEF IInv
<1>2. decided \subseteq decided'
  BY <1>1, HistoryGrows
<1>3. ASSUME pc = "complete", Live(i[1])'
      PROVE  Projected(i)'
  <2>1. pc \in Executing
    BY <1>3 DEF Executing
  <2>2. i \in Runs /\ i[1] \in Syncs /\ i[1] <= synced
    BY <1>0, <2>1, SourceStays
  <2>3. Live(i[1])
    BY <1>1, <1>3, <2>2, LivesOnce
  <2>4. Projected(i)
    BY <1>0, <1>1, <1>3, <2>3 DEF WorkerInv, Progress
  <2> QED BY <2>2, <2>3, <2>4, ProjectedStays
<1>4. Decided(i) => Decided(i)'
  BY <1>2 DEF Decided
<1>5. pc \in Executing => i[1] <= synced'
  BY <1>0, SourceStays
<1>6. Progress(w)'
  BY <1>0, <1>1, <1>2, <1>3, <1>4, <1>5
     DEF WorkerInv, Progress, SameAttempt
<1> QED BY <1>1, <1>6 DEF WorkerInv, SameAttempt

\* A worker between attempts, and one that gives its attempt up.
LEMMA NoAttemptInv ==
    ASSUME NEW w \in Workers,
           worker'[w].pc \notin Executing, worker'[w].claim = NoClaim
    PROVE  WorkerInv(w)'
BY DEF WorkerInv, Progress, Executing

LEMMA FailingInv ==
    ASSUME IInv, TypeOK', [Next]_vars, NEW w \in Workers,
           worker[w].pc \in Executing, worker'[w].pc = "failing",
           worker'[w].claim = worker[w].claim
    PROVE  WorkerInv(w)'
BY SourceStays DEF WorkerInv, Progress, Executing

LEMMA EndTickInv ==
    ASSUME TypeOK, NEW w \in Workers, EndTick(w)
    PROVE  /\ WorkerInv(w)'
           /\ \A v \in Workers \ {w} : worker'[v] = worker[v]
<1>1. worker'[w].pc = "idle" /\ worker'[w].claim = NoClaim
  BY DEF TypeOK, EndTick, Fresh
<1>2. WorkerInv(w)'
  BY <1>1, NoAttemptInv DEF Executing, Waiting
<1> QED BY <1>2 DEF TypeOK, EndTick

LEMMA GotoEffect ==
    ASSUME TypeOK, NEW w \in Workers, NEW label, Goto(w, label)
    PROVE  /\ worker'[w].pc = label
           /\ worker'[w].claim = worker[w].claim
           /\ worker'[w].todo = worker[w].todo
           /\ worker'[w].deferring = worker[w].deferring
           /\ worker'[w].failing = worker[w].failing
           /\ \A v \in Workers \ {w} : worker'[v] = worker[v]
BY DEF TypeOK, Goto, WorkerState

LEMMA FailInv ==
    ASSUME IInv, TypeOK', [Next]_vars, NEW w \in Workers, NEW f,
           worker[w].pc \in Executing, Fail(w, f)
    PROVE  /\ WorkerInv(w)'
           /\ \A v \in Workers \ {w} : worker'[v] = worker[v]
<1>1. /\ worker'[w].pc = "failing"
      /\ worker'[w].claim = worker[w].claim
  BY DEF IInv, TypeOK, Fail, WorkerState
<1> QED BY <1>1, FailingInv DEF IInv, TypeOK, Fail

OthersStay(w) == \A v \in Workers \ {w} : worker'[v] = worker[v]

\* The statements before a claim, and those that end a tick.
LEMMA WaitingInv ==
    ASSUME IInv, TypeOK', [Next]_vars, NEW w \in Workers,
           \/ BeginTick(w) \/ TerminalizeExhausted(w)
           \/ TerminalizeStaleActiveRuns(w) \/ RequeueEligible(w)
           \/ FindSource(w) \/ InsertRun(w) \/ EndIntelligenceTick(w)
           \/ FailClaimed(w) \/ Restart(w) \/ Crash(w)
    PROVE  WorkerInv(w)' /\ OthersStay(w)
<1> USE DEF OthersStay
<1>0. TypeOK /\ WorkerInv(w)
  BY WorkersInv DEF IInv
<1>1. ASSUME NEW label \in Waiting, worker[w].pc \notin Executing,
             Goto(w, label)
      PROVE  WorkerInv(w)' /\ OthersStay(w)
  BY <1>0, <1>1, GotoEffect, NoAttemptInv DEF WorkerInv, Waiting, Executing
<1>2. CASE EndTick(w)
  BY <1>0, <1>2, EndTickInv
<1>3. CASE worker' = [worker EXCEPT ![w] = Fresh]
  <2>1. worker'[w] = Fresh /\ OthersStay(w)
    BY <1>0, <1>3 DEF TypeOK
  <2>2. Fresh.pc \notin Executing /\ Fresh.claim = NoClaim
    BY DEF Fresh, Executing
  <2> QED BY <2>1, <2>2, NoAttemptInv
<1>4. CASE BeginTick(w)
  <2>1. /\ worker'[w].pc = "exhaust"
        /\ worker'[w].claim = worker[w].claim
        /\ OthersStay(w)
    BY <1>0, <1>4 DEF BeginTick, TypeOK, WorkerState
  <2>2. worker[w].claim = NoClaim
    BY <1>0, <1>4 DEF BeginTick, WorkerInv, Executing
  <2> QED BY <2>1, <2>2, NoAttemptInv DEF Executing
<1>5. CASE FindSource(w)
  <2>1. worker[w].pc \notin Executing
    BY <1>5 DEF FindSource, Executing
  <2>2. CASE Goto(w, "claim")
    BY <1>1, <2>1, <2>2 DEF Waiting
  <2>3. ASSUME NEW k \in Syncs,
               worker' = [worker EXCEPT ![w] =
                            [@ EXCEPT !.pc = "insert", !.source = k]]
        PROVE  WorkerInv(w)' /\ OthersStay(w)
    <3>1. /\ worker'[w].pc = "insert"
          /\ worker'[w].claim = worker[w].claim
          /\ OthersStay(w)
      BY <1>0, <2>3 DEF TypeOK, WorkerState
    <3>2. worker[w].claim = NoClaim
      BY <1>0, <2>1 DEF WorkerInv
    <3> QED BY <3>1, <3>2, NoAttemptInv DEF Executing
  <2> QED BY <1>5, <2>2, <2>3 DEF FindSource
<1>6. CASE \/ TerminalizeExhausted(w) \/ TerminalizeStaleActiveRuns(w)
           \/ RequeueEligible(w)
  <2>1. worker[w].pc \notin Executing
    BY <1>6 DEF TerminalizeExhausted, TerminalizeStaleActiveRuns,
                RequeueEligible, Executing
  <2> QED BY <1>1, <1>6, <2>1
          DEF TerminalizeExhausted, TerminalizeStaleActiveRuns,
              RequeueEligible, Waiting
<1>7. CASE InsertRun(w)
  <2>1. worker[w].pc \notin Executing
    BY <1>7 DEF InsertRun, Executing
  <2> QED BY <1>1, <1>2, <1>7, <2>1 DEF InsertRun, Waiting
<1>8. CASE EndIntelligenceTick(w) \/ FailClaimed(w)
  BY <1>2, <1>8 DEF EndIntelligenceTick, FailClaimed
<1>9. CASE Restart(w) \/ Crash(w)
  BY <1>3, <1>9 DEF Restart, Crash
<1> QED BY <1>4, <1>5, <1>6, <1>7, <1>8, <1>9

LEMMA ClaimNextInv ==
    ASSUME IInv, TypeOK', [Next]_vars, NEW w \in Workers, ClaimNext(w)
    PROVE  WorkerInv(w)' /\ OthersStay(w)
<1>1. PICK i \in Runs :
         /\ Claimable(i, worker[w].now)
         /\ worker' = [worker EXCEPT ![w] =
              [@ EXCEPT !.pc = "load",
                        !.claim = [run |-> i, token |-> runs[i].attempts + 1]]]
  BY DEF ClaimNext
<1>2. /\ worker'[w].pc = "load"
      /\ worker'[w].claim.run = i
      /\ OthersStay(w)
  BY <1>1 DEF IInv, TypeOK, WorkerState, OthersStay
<1>3. i[1] <= synced
  BY <1>1 DEF Claimable, Expired, IInv, RowsInv, Live
<1>4. i[1] <= synced'
  BY <1>3, RunTypes DEF ClaimNext, syncVars
<1> QED BY <1>2, <1>4 DEF WorkerInv, Progress, Executing

LEMMA LoadClaimedInv ==
    ASSUME IInv, TypeOK', [Next]_vars, NEW w \in Workers, LoadClaimed(w)
    PROVE  WorkerInv(w)' /\ OthersStay(w)
<1>1. worker[w].pc \in Executing
  BY DEF LoadClaimed, Executing
<1>2. CASE Fail(w, Permanent)
  BY <1>1, <1>2, FailInv DEF OthersStay
<1>3. CASE worker' = [worker EXCEPT ![w] =
                        [@ EXCEPT !.pc = "groups", !.todo = Groups]]
  <2>1. /\ worker'[w].pc = "groups"
        /\ worker'[w].todo = Groups
        /\ worker'[w].claim = worker[w].claim
        /\ OthersStay(w)
    BY <1>3 DEF IInv, TypeOK, WorkerState, OthersStay
  <2> QED BY <1>1, <2>1, SourceStays DEF WorkerInv, Progress, Executing
<1> QED BY <1>2, <1>3 DEF LoadClaimed

LEMMA GroupInv ==
    ASSUME IInv, TypeOK', [Next]_vars, NEW w \in Workers,
           InterpretGroup(w) \/ FailGroup(w)
    PROVE  WorkerInv(w)' /\ OthersStay(w)
<1>0. PICK i : i = worker[w].claim.run
  OBVIOUS
<1>1. worker[w].pc = "groups" /\ worker[w].pc \in Executing
  BY DEF InterpretGroup, FailGroup, Executing
<1>2. i \in Runs /\ i[1] <= synced'
  BY <1>0, <1>1, SourceStays
<1>3. ~worker[w].deferring /\ ~worker[w].failing =>
        \A g \in Groups \ worker[w].todo : <<i, g>> \in decided
  BY <1>0, <1>1, WorkersInv DEF WorkerInv, Progress
<1>4. CASE InterpretGroup(w)
  <2>1. PICK g \in worker[w].todo :
           /\ decided' = decided \cup {<<i, g>>}
           /\ worker' = [worker EXCEPT ![w].todo = @ \ {g}]
    BY <1>0, <1>4 DEF InterpretGroup
  <2>2. /\ worker'[w].pc = "groups"
        /\ worker'[w].claim.run = i
        /\ worker'[w].todo = worker[w].todo \ {g}
        /\ worker'[w].deferring = worker[w].deferring
        /\ worker'[w].failing = worker[w].failing
        /\ OthersStay(w)
    BY <1>0, <1>1, <2>1 DEF IInv, TypeOK, WorkerState, OthersStay
  <2>3. ~worker[w].deferring /\ ~worker[w].failing =>
          \A h \in Groups \ worker'[w].todo : <<i, h>> \in decided'
    BY <1>3, <2>1, <2>2
  <2> QED BY <1>2, <2>2, <2>3 DEF WorkerInv, Progress, Executing
<1>5. CASE FailGroup(w)
  <2> DEFINE Failed == /\ worker'[w].pc = "groups"
                       /\ worker'[w].claim.run = i
                       /\ worker'[w].deferring \/ worker'[w].failing
                       /\ OthersStay(w)
  <2>1. Failed
    <3>1. worker[w] \in WorkerState /\ worker \in [Workers -> WorkerState]
      BY DEF IInv, TypeOK
    <3>2. ASSUME NEW g,
                 worker' = [worker EXCEPT ![w] =
                   [@ EXCEPT !.todo = worker[w].todo \ {g}, !.failing = TRUE]]
          PROVE  Failed
      BY <1>0, <1>1, <3>1, <3>2 DEF WorkerState, OthersStay
    <3>3. ASSUME NEW g, NEW f,
                 worker' = [worker EXCEPT ![w] =
                   [@ EXCEPT !.todo = worker[w].todo \ {g}, !.deferring = TRUE,
                             !.failure = f]]
          PROVE  Failed
      BY <1>0, <1>1, <3>1, <3>3 DEF WorkerState, OthersStay
    <3> QED BY <1>5, <3>2, <3>3 DEF FailGroup
  <2> QED BY <1>2, <2>1 DEF WorkerInv, Progress, Executing
<1> QED BY <1>4, <1>5

LEMMA CountersInv ==
    ASSUME IInv, TypeOK', [Next]_vars, NEW w \in Workers,
           EndGroups(w) \/ UpdateClaimed(w)
    PROVE  WorkerInv(w)' /\ OthersStay(w)
<1>0. PICK i : i = worker[w].claim.run
  OBVIOUS
<1>1. worker[w].pc \in Executing
  BY DEF EndGroups, UpdateClaimed, Executing
<1>2. i \in Runs /\ i[1] <= synced'
  BY <1>0, <1>1, SourceStays
<1>3. TypeOK /\ Progress(w)
  BY WorkersInv DEF IInv, WorkerInv
<1>4. UNCHANGED decided
  BY DEF EndGroups, UpdateClaimed, eventVars
<1>5. CASE EndGroups(w)
  <2>1. Goto(w, "counters")
    BY <1>5 DEF EndGroups
  <2>2. ~worker[w].deferring /\ ~worker[w].failing => Decided(i)'
    BY <1>0, <1>3, <1>4, <1>5 DEF EndGroups, Progress, Decided
  <2> QED BY <1>0, <1>2, <1>3, <2>1, <2>2, GotoEffect
          DEF WorkerInv, Progress, OthersStay, Executing
<1>6. CASE UpdateClaimed(w)
  <2>1. CASE Fail(w, Permanent)
    BY <1>1, <2>1, FailInv DEF OthersStay
  <2>2. CASE worker[w].deferring /\ Goto(w, "failing")
    BY <1>1, <1>3, <2>2, GotoEffect, FailingInv DEF OthersStay
  <2>3. CASE ~worker[w].deferring /\ Goto(w, "project")
    <3>1. ~worker[w].failing => Decided(i)'
      BY <1>0, <1>3, <1>4, <1>6, <2>3 DEF UpdateClaimed, Progress, Decided
    <3> QED BY <1>0, <1>2, <1>3, <2>3, <3>1, GotoEffect
            DEF WorkerInv, Progress, OthersStay, Executing
  <2> QED BY <1>6, <2>1, <2>2, <2>3 DEF UpdateClaimed, AfterGroups
<1> QED BY <1>5, <1>6

\* The state projected now holds every decision of a run whose source lives.
LEMMA ProjectInv ==
    ASSUME IInv, TypeOK', [Next]_vars, NEW w \in Workers, Project(w)
    PROVE  WorkerInv(w)' /\ OthersStay(w)
<1>0. PICK i : i = worker[w].claim.run
  OBVIOUS
<1>1. worker[w].pc \in Executing
  BY DEF Project, Executing
<1>2. i \in Runs /\ i[1] \in Syncs /\ i[1] <= synced /\ i[1] <= synced'
  BY <1>0, <1>1, SourceStays
<1>3. CASE Fail(w, Permanent)
  BY <1>1, <1>3, FailInv DEF OthersStay
<1>4. CASE ~worker[w].failing /\ Goto(w, "complete")
  <2>1. Decided(i)
    BY <1>0, <1>4, WorkersInv DEF Project, WorkerInv, Progress
  <2>2. Decided(i)' /\ projectOf' = projectOf /\ (Live(i[1])' => Live(i[1]))
    BY <2>1 DEF Project, syncVars, Decided, Live
  <2>3. ASSUME Live(i[1])
        PROVE  Projected(i)'
    <3>1. PICK p \in Projects : p = projectOf[i[1]]
      BY <1>2 DEF IInv, SyncsHaveProject
    <3>2. projected'[p] = {d \in decided : d[1][1] \in SyncsOf(p)}
      BY <1>0, <3>1 DEF Project, IInv, TypeOK
    <3>3. i[1] \in SyncsOf(p)
      BY <1>2, <2>3, <3>1 DEF SyncsOf
    <3>4. \A g \in Groups : <<i, g>> \in projected'[p]
      <4>1. \A g \in Groups : <<i, g>>[1][1] = i[1]
        OBVIOUS
      <4> QED BY <2>1, <3>2, <3>3, <4>1 DEF Decided
    <3> QED BY <2>2, <3>1, <3>4 DEF Projected, Decided
  <2>4. Live(i[1])' => Projected(i)'
    BY <2>2, <2>3
  <2> QED BY <1>0, <1>2, <1>4, <2>4, GotoEffect
          DEF WorkerInv, Progress, OthersStay, Executing, IInv
<1> QED BY <1>3, <1>4 DEF Project

LEMMA CompleteInv ==
    ASSUME IInv, TypeOK', [Next]_vars, NEW w \in Workers, Complete(w)
    PROVE  WorkerInv(w)' /\ OthersStay(w)
<1>1. worker[w].pc \in Executing
  BY DEF Complete, Executing
<1>2. CASE EndTick(w)
  BY <1>2, EndTickInv DEF IInv, OthersStay
<1>3. CASE Fail(w, Permanent)
  BY <1>1, <1>3, FailInv DEF OthersStay
<1> QED BY <1>2, <1>3 DEF Complete

LEMMA FaultInv ==
    ASSUME IInv, TypeOK', [Next]_vars, NEW w \in Workers,
           StatementFails(w) \/ Shutdown(w)
    PROVE  WorkerInv(w)' /\ OthersStay(w)
<1>1. CASE EndTick(w)
  BY <1>1, EndTickInv DEF IInv, OthersStay
<1>2. CASE worker[w].pc \in Executing /\ Fail(w, Transient)
  BY <1>2, FailInv DEF OthersStay
<1>3. CASE Shutdown(w)
  <2>1. SameAttempt(w) /\ OthersStay(w)
    BY <1>3
       DEF Shutdown, IInv, TypeOK, WorkerState, SameAttempt, OthersStay
  <2> QED BY <2>1, SameAttemptInv
<1> QED BY <1>1, <1>2, <1>3 DEF StatementFails, Executing

LEMMA NextWorkersInv ==
    ASSUME IInv, TypeOK', [Next]_vars
    PROVE  \A w \in Workers : WorkerInv(w)'
<1>1. ASSUME UNCHANGED worker
      PROVE  \A w \in Workers : WorkerInv(w)'
  BY <1>1, SameAttemptInv DEF SameAttempt
<1>2. ASSUME NEW v \in Workers, WorkerInv(v)', OthersStay(v)
      PROVE  \A w \in Workers : WorkerInv(w)'
  <2> SUFFICES ASSUME NEW w \in Workers, w # v
               PROVE  WorkerInv(w)'
    BY <1>2
  <2>1. SameAttempt(w)
    BY <1>2 DEF OthersStay, SameAttempt
  <2> QED BY <2>1, SameAttemptInv
<1>3. ASSUME NEW v \in Workers,
             WorkerStep(v) \/ StatementFails(v) \/ Crash(v) \/ Shutdown(v)
      PROVE  WorkerInv(v)' /\ OthersStay(v)
  BY <1>3, WaitingInv, ClaimNextInv, LoadClaimedInv, GroupInv, CountersInv,
     ProjectInv, CompleteInv, FaultInv
     DEF WorkerStep
<1>4. \/ UNCHANGED worker
      \/ \E v \in Workers : \/ WorkerStep(v) \/ StatementFails(v)
                            \/ Crash(v) \/ Shutdown(v)
  BY DEF Next, Tick, ExtendLease, SyncSucceeds, Disconnect,
         EnqueueReprocessing, vars
<1> QED BY <1>1, <1>2, <1>3, <1>4

LEMMA NextSucceededIsProjected ==
    ASSUME IInv, TypeOK', RowsInv', [Next]_vars
    PROVE  SucceededIsProjected'
<1> SUFFICES ASSUME NEW i \in Runs, runs'[i].status = "succeeded"
             PROVE  Projected(i)'
  BY DEF SucceededIsProjected, Projected
<1>1. RowStep(i)
  BY NextSteps DEF IInv, RowSteps
<1>2. Live(i[1])
  BY <1>1 DEF RowStep, IInv, RowsInv, Active
<1>3. Projected(i)
  <2>1. CASE runs[i].status = "succeeded"
    BY <2>1 DEF IInv, SucceededIsProjected, Projected
  <2>2. CASE Completes(i)
    BY <1>2, <2>2, WorkersInv DEF Completes, Complete, WorkerInv, Progress
  <2> QED BY <1>1, <2>1, <2>2 DEF RowStep
<1> QED BY <1>2, <1>3, ProjectedStays

LEMMA NextIInv == IInv /\ [Next]_vars => IInv'
<1> SUFFICES ASSUME IInv, [Next]_vars
             PROVE  IInv'
  OBVIOUS
<1>1. TypeOK'
  BY NextType DEF IInv
<1>2. RowsInv' /\ SyncsHaveProject'
  BY <1>1, NextRowsInv, NextSyncsHaveProject
<1>3. ClaimsNameRuns' /\ ProgressInv'
  BY <1>1, NextWorkersInv DEF ClaimsNameRuns, ProgressInv, WorkerInv
<1>4. SucceededIsProjected'
  BY <1>1, <1>2, NextSucceededIsProjected
<1> QED BY <1>1, <1>2, <1>3, <1>4 DEF IInv

LEMMA IInvHolds == Spec => []IInv
<1> QED BY InitIInv, NextIInv, PTL DEF Spec

-----------------------------------------------------------------------------
(* The theorems                                                              *)

\* Every variable keeps its type: in particular no claim ever counts an attempt
\* beyond MaxAttempts, whichever process claims and however late (claimNext).
THEOREM TypeCorrect == Spec => []TypeOK
<1>1. IInv => TypeOK
  BY DEF IInv
<1> QED BY <1>1, IInvHolds, PTL

\* A run that succeeded has a durable decision for every evidence group, and
\* the state of its project was projected from all of them, whichever attempts
\* of whichever processes decided and projected, and whoever projected since.
THEOREM SucceededRunsAreProjected == Spec => []SucceededIsProjected
<1>1. IInv => SucceededIsProjected
  BY DEF IInv
<1> QED BY <1>1, IInvHolds, PTL

\* A run that succeeded or failed for good keeps that outcome until its source
\* is deleted, though processes of other versions terminalize and requeue runs
\* they hold no lease on.
THEOREM OutcomesAreFinal == Spec => OutcomeIsFinal
<1>1. IInv /\ [Next]_vars =>
        [\A i \in Runs : runs[i].status \in Settled =>
            runs'[i].status \in {runs[i].status, "deleted"}]_vars
  <2> SUFFICES ASSUME IInv, [Next]_vars, NEW i \in Runs,
                      runs[i].status \in Settled
               PROVE  runs'[i].status \in {runs[i].status, "deleted"}
    OBVIOUS
  <2> QED BY NextSteps DEF IInv, RowSteps, RowStep, Settled, Active
<1> QED BY <1>1, IInvHolds, PTL DEF Spec, OutcomeIsFinal

LEMMA LateWorkerStep ==
    ASSUME IInv, TypeOK', [Next]_vars, NEW w \in Workers, NEW i,
           i = worker[w].claim.run, i # NoRun, worker'[w] # worker[w],
           worker[w].claim.token < runs[i].attempts
    PROVE  runs'[i] = runs[i]
<1>1. worker[w].pc \in Executing /\ i \in Runs
  BY WorkersInv DEF WorkerInv, NoClaim
<1>2. ~Owns(w)
  <2> SUFFICES ASSUME Owns(w)
               PROVE  FALSE
    OBVIOUS
  <2>1. runs[i].attempts = worker[w].claim.token
    BY <1>1 DEF Owns, IInv, RowsInv
  <2>2. runs[i].attempts \in Int
    BY <1>1, ConstantTypes DEF IInv, TypeOK, Row
  <2> QED BY <2>1, <2>2
<1>3. ASSUME NEW v \in Workers, WorkerStep(v)
      PROVE  v = w
  <2>1. OthersStay(v)
    BY <1>3, WaitingInv, ClaimNextInv, LoadClaimedInv, GroupInv,
       CountersInv, ProjectInv, CompleteInv
       DEF WorkerStep
  <2> QED BY <2>1 DEF OthersStay
<1>4. ASSUME WorkerStep(w)
      PROVE  UNCHANGED runs
  BY <1>1, <1>2, <1>4
     DEF WorkerStep, Executing, BeginTick, TerminalizeExhausted,
         TerminalizeStaleActiveRuns, RequeueEligible, FindSource, InsertRun,
         ClaimNext, EndIntelligenceTick, LoadClaimed, InterpretGroup,
         FailGroup, EndGroups, UpdateClaimed, Project, Complete, FailClaimed,
         Restart
<1>5. \/ UNCHANGED runs
      \/ UNCHANGED worker
      \/ \E v \in Workers : WorkerStep(v)
  BY DEF Next, vars, Tick, ExtendLease, StatementFails, Crash, Shutdown,
         SyncSucceeds, Disconnect, EnqueueReprocessing
<1> QED BY <1>3, <1>4, <1>5

\* A worker whose run was claimed again since writes nothing to its row:
\* neither its heartbeat nor its outcome passes the fence.
THEOREM LateWorkersWriteNothing == Spec => LateWorkerWritesNothing
<1>1. IInv /\ IInv' /\ [Next]_vars =>
        [\A w \in Workers :
           LET i == worker[w].claim.run IN
           /\ i # NoRun
           /\ worker'[w] # worker[w]
           /\ worker[w].claim.token < runs[i].attempts
           => runs'[i] = runs[i]]_vars
  BY LateWorkerStep DEF IInv
<1> QED BY <1>1, IInvHolds, PTL DEF Spec, LateWorkerWritesNothing

\* Every move of a row is a move of the abstract queue.
LEMMA RowStepImplements ==
    ASSUME IInv, NEW i \in Runs, RowStep(i)
    PROVE  \/ Queue!Create(i) \/ Queue!Start(i) \/ Queue!Defer(i)
           \/ Queue!Retry(i) \/ Queue!Finish(i) \/ Queue!Remove(i)
           \/ Queue!Stays(i)
<1> USE DEF Queue!Moves, Queue!KeepsStarts
<1> DEFINE old == runs[i]
           new == runs'[i]
<1>1. CASE new.status = old.status /\ new.attempts = old.attempts
  BY <1>1 DEF Queue!Stays
<1>2. CASE old.status = "none" /\ new.status = "queued" /\ new.attempts = 0
  BY <1>2 DEF Queue!Create, Phase, IInv, RowsInv
<1>3. CASE /\ old.status \in {"queued", "running"}
           /\ old.attempts < MaxAttempts
           /\ new.status = "running"
           /\ new.attempts = old.attempts + 1
  BY <1>3 DEF Queue!Start, Phase
<1>4. CASE /\ old.status = "running"
           /\ new.status = "failed_retryable"
           /\ new.attempts = old.attempts
  BY <1>4 DEF Queue!Defer, Phase
<1>5. CASE /\ old.status = "failed_retryable"
           /\ new.status = "queued"
           /\ new.attempts = old.attempts
           /\ old.attempts < MaxAttempts
  BY <1>5 DEF Queue!Retry, Phase
<1>6. CASE /\ old.status \in Active
           /\ new.status \in {"failed_terminal", "succeeded"}
           /\ new.attempts = old.attempts
  BY <1>6 DEF Queue!Finish, Phase, Active
<1>7. CASE new.status = "deleted" /\ new.attempts = 0
  BY <1>7 DEF Queue!Remove, Phase
<1> QED BY <1>1, <1>2, <1>3, <1>4, <1>5, <1>6, <1>7 DEF RowStep

\* The IntelligenceRun rows behave as the abstract queue promises, for any
\* interleaving of the statements of processes of any number of versions.
THEOREM IntelligenceRunsImplementLeasedQueue == Spec => ImplementsLeasedQueue
<1>1. Init => Queue!Init
  BY DEF Init, Queue!Init, NoRow, Phase
<1>2. ASSUME IInv, TypeOK', [Next]_vars
      PROVE  Queue!Next
  <2>1. /\ [i \in Runs |-> Phase(runs'[i].status)] \in [Runs -> Queue!Phases]
        /\ [i \in Runs |-> runs'[i].attempts] \in [Runs -> 0..MaxAttempts]
    BY <1>2 DEF TypeOK, Row, Phase, Queue!Phases
  <2> QED BY <1>2, <2>1, NextSteps, RowStepImplements
          DEF Queue!Next, IInv, RowSteps
<1>3. IInv /\ IInv' /\ [Next]_vars => [Queue!Next]_(Queue!vars)
  BY <1>2 DEF IInv
<1> QED BY <1>1, <1>3, IInvHolds, PTL
        DEF Spec, ImplementsLeasedQueue, Queue!Spec

\* A run changes its status or is claimed at most 3 * MaxAttempts + 3 times in its
\* life, the workers of another version and late attempts included: no run goes
\* round for ever.
THEOREM RunsRunOut == Spec => Queue!EveryMoveCounts
<1>1. MaxAttempts \in Nat
  BY PositiveConstants
<1>2. Queue!Spec => Queue!EveryMoveCounts
  BY <1>1, Queue!MovesRunOut
<1> QED BY <1>2, IntelligenceRunsImplementLeasedQueue, PTL DEF ImplementsLeasedQueue

=============================================================================
