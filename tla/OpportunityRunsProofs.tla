----------------------- MODULE OpportunityRunsProofs -----------------------
(***************************************************************************)
(* Theorems about OpportunityRuns, for every set of projects, workers and  *)
(* versions, every finite set of candidates, every bound and every setting *)
(* of the options.                                                         *)
(***************************************************************************)
EXTENDS OpportunityRuns, FiniteSetTheorems, TLAPS

LEMMA ConstantTypes ==
    /\ MaxAttempts \in Nat \ {0} /\ LeaseDuration \in Nat \ {0}
    /\ RetryBase \in Nat \ {0} /\ MaxDay \in Nat \ {0}
    /\ MaxSources \in Nat /\ MaxRuns \in Nat /\ MaxFacts \in Nat
    /\ MaxTime \in Nat /\ MaxFaults \in Nat
    /\ ProviderDelays \subseteq Nat
    /\ Versions \subseteq Nat \ {0}
    /\ \A w \in Workers : VersionOf[w] \in Versions
    /\ Projects \subseteq Nat \ {0}
    /\ Cardinality(Candidates) \in Nat
BY PositiveConstants, DeployedVersions, ProjectOrder, FiniteCandidates,
   FS_CardinalityType

LEMMA NullValues ==
    /\ None \in 0..MaxAttempts /\ None = 0
    /\ NoTime \in Time \cup {NoTime} /\ NoTime \in Int
    /\ 0 \in Time
    /\ \A t \in Time \cup {NoTime} : t \in Int
    /\ None \notin Runs /\ None \notin Sources /\ None \notin Versions
BY ConstantTypes DEF None, NoTime, Time, Runs, Sources

LEMMA BlankInput == NoInput \in Input /\ NoInput.source = None
BY ConstantTypes DEF NoInput, Input

\* A row that an update clears keeps its attempts, its input and its version.
LEMMA ClearedRow ==
    ASSUME NEW row \in Row, NEW status \in Statuses
    PROVE  /\ Cleared(row, status) \in Row
           /\ Cleared(row, status).status = status
           /\ Cleared(row, status).attempts = row.attempts
           /\ Cleared(row, status).input = row.input
           /\ Cleared(row, status).version = row.version
BY NullValues DEF Cleared, Row

LEMMA BlankRow == /\ NoRow \in Row
                  /\ NoRow.status = "none"
                  /\ NoRow.attempts = 0
                  /\ NoRow.input = NoInput
BY NullValues, ConstantTypes, BlankInput DEF NoRow, Row, Statuses

LEMMA DeletedRow ==
    /\ [NoRow EXCEPT !.status = "deleted"] \in Row
    /\ [NoRow EXCEPT !.status = "deleted"].status = "deleted"
    /\ [NoRow EXCEPT !.status = "deleted"].attempts = 0
    /\ [NoRow EXCEPT !.status = "deleted"].input = NoInput
<1>1. "deleted" \in Statuses
  BY DEF Statuses
<1> QED BY <1>1, BlankRow DEF Row

\* The row that Create inserts.
NewRow(input, version) ==
    [NoRow EXCEPT !.status = "queued", !.input = input, !.version = version,
                  !.queuedAt = clock]

LEMMA NewRowType ==
    ASSUME TypeOK, NEW e \in Input, NEW v \in Versions
    PROVE  /\ NewRow(e, v) \in Row
           /\ NewRow(e, v).status = "queued"
           /\ NewRow(e, v).attempts = 0
           /\ NewRow(e, v).input = e
           /\ NewRow(e, v).version = v
<1>1. "queued" \in Statuses /\ clock \in Time
  BY DEF Statuses, TypeOK
<1> DEFINE y == [NoRow EXCEPT !.status = "queued", !.input = e]
<1>2. /\ y \in Row /\ y.status = "queued" /\ y.input = e
      /\ y.attempts = 0
  BY <1>1, BlankRow DEF Row
<1>3. NewRow(e, v) = [y EXCEPT !.version = v, !.queuedAt = clock]
  BY DEF NewRow
<1> HIDE DEF y
<1> QED BY <1>1, <1>2, <1>3 DEF Row

LEMMA ClearAllType ==
    ASSUME TypeOK, NEW ids, NEW status \in Statuses, ClearAll(ids, status)
    PROVE  runs' \in [Runs -> Row]
BY ClearedRow DEF TypeOK, ClearAll

\* What Create does to the rows.
LEMMA CreateEffect ==
    ASSUME TypeOK, NEW e \in Input, NEW v \in Versions, Create(e, v)
    PROVE  \E i \in Runs : /\ runs[i].status = "none"
                           /\ runs' = [runs EXCEPT ![i] = NewRow(e, v)]
                           /\ runs'[i] = NewRow(e, v)
                           /\ \A j \in Runs \ {i} : runs'[j] = runs[j]
                           /\ runs' \in [Runs -> Row]
<1>1. PICK i \in Runs : /\ runs[i].status = "none"
                        /\ runs' = [runs EXCEPT ![i] = NewRow(e, v)]
  BY DEF Create, NewRow
<1>2. NewRow(e, v) \in Row /\ runs \in [Runs -> Row]
  BY NewRowType DEF TypeOK
<1>3. /\ runs'[i] = NewRow(e, v)
      /\ \A j \in Runs \ {i} : runs'[j] = runs[j]
      /\ runs' \in [Runs -> Row]
  BY <1>1, <1>2
<1> QED BY <1>1, <1>3

LEMMA BackoffType == ASSUME NEW a \in Nat PROVE Backoff(a) \in Int
BY ConstantTypes DEF Backoff

-----------------------------------------------------------------------------
(* The inductive invariant                                                   *)

Exists(i) == runs[i].status \notin {"none", "deleted"}

\* An input that was selected names a source that succeeded.
Known(e) == e.source \in Sources /\ e.source <= finished

\* The project of a source that succeeded, and its day.
SourcesInv ==
    \A k \in Sources : k <= finished =>
        projectOf[k] \in Projects /\ dayOf[k] \in 1..today

\* A row that does not exist was never claimed, the token of a running row is
\* the count of its claims, and a deferred row has a claim left.
RowInv(i) ==
    /\ ~Exists(i) => runs[i].attempts = 0 /\ runs[i].input = NoInput
    /\ runs[i].status = "running" => runs[i].leaseToken = runs[i].attempts
    /\ runs[i].status = "failed_retryable" => runs[i].attempts < MaxAttempts
    /\ Exists(i) => Known(runs[i].input) /\ runs[i].version \in Versions

RowsInv == \A i \in Runs : RowInv(i)

\* The unique index on the run key.
KeysAreUnique ==
    \A i, j \in Runs :
        /\ Exists(i) /\ Exists(j)
        /\ runs[i].input = runs[j].input
        /\ runs[i].version = runs[j].version
        => i = j

\* Every candidate of the result has an opportunity of the result's input.
Persisted(r) ==
    \A c \in r.candidates : \E o \in DOMAIN opps : Identifies(o, c, r.input)

Selected == {"insert", "model", "check", "reselect", "score", "complete"}
Checked  == {"reselect", "score", "complete"}

\* An attempt has claimed a run; between attempts a worker has none.  What the
\* attempt has done by the time it is at each of its statements.
WorkerInv(w) ==
    LET i  == worker[w].claim.run
        e  == worker[w].input
        pc == worker[w].pc
    IN  /\ IF pc \in Executing THEN i \in Runs /\ runs[i].status # "none"
                               ELSE worker[w].claim = NoClaim
        /\ \A k \in worker[w].batch : k \in Sources /\ k <= finished
        /\ pc \in Selected => Known(e)
        /\ pc \in Checked \cup {"check"} => Detected(e)
        /\ pc \in Checked /\ Exists(i) => runs[i].input = e
        /\ pc = "complete" => \E r \in results : r.input = e /\ Persisted(r)

WorkersInv == \A w \in Workers : WorkerInv(w)

\* The inputs that opportunities are or will be persisted for: one of a row
\* each, though a disconnection may have deleted the row since.
Adopted ==
    {opps[o].input : o \in DOMAIN opps}
      \cup {worker[w].input : w \in {v \in Workers : worker[v].pc \in Checked}}

AdoptedFromRows ==
    \E f \in [Runs -> Input] :
        /\ \A i \in Runs : Exists(i) => f[i] = runs[i].input
        /\ \A e \in Adopted : \E i \in Runs : runs[i].status # "none" /\ f[i] = e

OppsAreIdentified ==
    \A o, q \in DOMAIN opps :
        /\ opps[o].candidate = opps[q].candidate
        /\ opps[o].input = opps[q].input
        => o = q

OppsAreKnown == \A o \in DOMAIN opps : Known(opps[o].input)

IInv == /\ TypeOK
        /\ SourcesInv
        /\ RowsInv
        /\ KeysAreUnique
        /\ WorkersInv
        /\ AdoptedFromRows
        /\ OppsAreIdentified
        /\ OppsAreKnown
        /\ OneCurrentPerCandidate
        /\ SucceededIsPersisted

-----------------------------------------------------------------------------
(* Type correctness                                                          *)

Labels == {"idle"} \cup Waiting \cup Executing

LEMMA WorkerTypes ==
    ASSUME TypeOK, NEW w \in Workers
    PROVE  worker[w] \in WorkerState
BY DEF TypeOK

LEMMA GotoType ==
    ASSUME TypeOK, NEW w \in Workers, NEW label \in Labels, Goto(w, label)
    PROVE  worker' \in [Workers -> WorkerState]
BY SMTT(30) DEF TypeOK, Goto, WorkerState, Labels

LEMMA WorkerType ==
    ASSUME TypeOK, NEW w \in Workers, NEW s \in WorkerState,
           worker' = [worker EXCEPT ![w] = s]
    PROVE  worker' \in [Workers -> WorkerState]
BY DEF TypeOK

LEMMA FailType ==
    ASSUME TypeOK, NEW w \in Workers, NEW f \in Failure, Fail(w, f)
    PROVE  worker' \in [Workers -> WorkerState]
<1>1. [worker[w] EXCEPT !.pc = "failing", !.failure = f] \in WorkerState
  BY WorkerTypes DEF WorkerState, Executing
<1> QED BY <1>1, WorkerType DEF Fail

LEMMA Failures == Permanent \in Failure /\ Transient \in Failure
BY NullValues DEF Failure, Permanent, Transient

LEMMA FreshType == Fresh \in WorkerState
BY NullValues, Failures, BlankInput DEF Fresh, WorkerState, Claim, NoClaim

LEMMA EndTickType ==
    ASSUME TypeOK, NEW w \in Workers, EndTick(w)
    PROVE  worker' \in [Workers -> WorkerState]
<1>1. worker[w].stopping \in BOOLEAN
  BY WorkerTypes DEF WorkerState
<1>2. [Fresh EXCEPT !.stopping = worker[w].stopping] \in WorkerState
  BY <1>1, FreshType DEF WorkerState
<1> QED BY <1>2, WorkerType DEF EndTick

LEMMA InitTypeOK == Init => TypeOK
<1> SUFFICES ASSUME Init
             PROVE  TypeOK
  OBVIOUS
<1>1. /\ clock \in Time /\ today \in Days /\ finished \in 0..MaxSources
      /\ faults \in 0..MaxFaults
  BY ConstantTypes, NullValues DEF Init, Days
<1>2. /\ projectOf \in [Sources -> Projects \cup {None}]
      /\ dayOf \in [Sources -> Days \cup {None}]
      /\ facts \in [Projects -> 0..MaxFacts]
  BY ConstantTypes DEF Init
<1>3. runs \in [Runs -> Row] /\ worker \in [Workers -> WorkerState]
  BY BlankRow, FreshType DEF Init
<1>4. opps \in Seq(Opportunity) /\ Len(opps) = 0
  BY DEF Init
<1> QED BY <1>1, <1>2, <1>3, <1>4 DEF Init, TypeOK

LEMMA OppTypes ==
    ASSUME TypeOK
    PROVE  /\ Len(opps) \in Nat /\ DOMAIN opps = 1..Len(opps)
           /\ \A o \in DOMAIN opps :
                /\ opps[o] \in Opportunity
                /\ opps[o].candidate \in Candidates
                /\ opps[o].input \in Input
                /\ opps[o].day \in Days /\ opps[o].day \in Int
                /\ opps[o].isCurrent \in BOOLEAN
           /\ DOMAIN opps \subseteq OppIds
<1>1. opps \in Seq(Opportunity) /\ Len(opps) \in OppIds \cup {0}
  BY DEF TypeOK
<1>2. /\ Len(opps) \in Nat /\ DOMAIN opps = 1..Len(opps)
      /\ \A o \in DOMAIN opps : opps[o] \in Opportunity
  BY <1>1
<1>3. DOMAIN opps \subseteq OppIds
  <2>1. MaxRuns * Cardinality(Candidates) \in Nat
    BY ConstantTypes
  <2> QED BY <1>1, <1>2, <2>1 DEF OppIds
<1>4. \A o \in DOMAIN opps :
        /\ opps[o].candidate \in Candidates
        /\ opps[o].input \in Input
        /\ opps[o].day \in Days /\ opps[o].day \in Int
        /\ opps[o].isCurrent \in BOOLEAN
  BY <1>2, ConstantTypes DEF Opportunity, Days
<1> QED BY <1>2, <1>3, <1>4

\* An input's history names opportunities that there are.
LEMMA SelectType ==
    ASSUME TypeOK, SourcesInv, NEW k \in Sources, k <= finished
    PROVE  /\ Select(k) \in Input
           /\ Select(k).source = k
           /\ Select(k).facts = facts[projectOf[k]]
           /\ Select(k).history = {<<o, opps[o].isCurrent>> : o \in Visible(k)}
<1>1. facts[projectOf[k]] \in 0..MaxFacts
  BY DEF TypeOK, SourcesInv
<1>2. \A o \in Visible(k) : o \in OppIds /\ opps[o].isCurrent \in BOOLEAN
  BY OppTypes DEF Visible
<1>3. {<<o, opps[o].isCurrent>> : o \in Visible(k)}
        \subseteq OppIds \X BOOLEAN
  BY <1>2
<1> QED BY <1>1, <1>3 DEF Select, Input

LEMMA MaintenanceType ==
    ASSUME TypeOK, NEW w \in Workers,
           \/ TerminalizeExhausted(w)
           \/ TerminalizeStaleActiveRuns(w)
           \/ EndCompare(w)
           \/ RequeueEligible(w)
    PROVE  TypeOK'
<1>1. runs' \in [Runs -> Row]
  <2>1. {"queued", "failed_terminal"} \subseteq Statuses
    BY DEF Statuses
  <2> QED BY <2>1, ClearAllType
          DEF TerminalizeExhausted, TerminalizeStaleActiveRuns, EndCompare,
              RequeueEligible, TypeOK
<1>2. worker' \in [Workers -> WorkerState]
  BY GotoType DEF TerminalizeExhausted, TerminalizeStaleActiveRuns,
                  EndCompare, RequeueEligible, Labels, Waiting
<1> QED BY <1>1, <1>2 DEF TypeOK, TerminalizeExhausted,
           TerminalizeStaleActiveRuns, EndCompare, RequeueEligible,
           sourceVars, effectVars

LEMMA CompareType ==
    ASSUME TypeOK, NEW w \in Workers, CompareInput(w) \/ CompareFails(w)
    PROVE  TypeOK'
<1>1. PICK i \in worker[w].rows :
         /\ \E ids : ClearAll(ids, "failed_terminal")
         /\ worker' = [worker EXCEPT ![w].rows = @ \ {i}]
  BY DEF CompareInput, CompareFails
<1>2. runs' \in [Runs -> Row]
  BY <1>1, ClearAllType DEF Statuses
<1>3. worker' \in [Workers -> WorkerState]
  <2>1. worker[w] \in WorkerState
    BY DEF TypeOK
  <2>2. [worker[w] EXCEPT !.rows = @ \ {i}] \in WorkerState
    BY <2>1 DEF WorkerState
  <2> QED BY <1>1, <2>2, WorkerType
<1>4. faults' \in 0..MaxFaults
  BY ConstantTypes DEF TypeOK, CompareInput, CompareFails
<1> QED BY <1>2, <1>3, <1>4
        DEF TypeOK, CompareInput, CompareFails, sourceVars, effectVars

LEMMA ListActiveRunsType ==
    ASSUME TypeOK, NEW w \in Workers, ListActiveRuns(w)
    PROVE  TypeOK'
<1>1. PICK rows \in SUBSET Runs :
         worker' = [worker EXCEPT ![w] =
           [@ EXCEPT !.pc = "compare", !.rowsAt = clock, !.rows = rows]]
  BY DEF ListActiveRuns
<1>2. [worker[w] EXCEPT !.pc = "compare", !.rowsAt = clock, !.rows = rows]
        \in WorkerState
  <2>1. clock \in Time
    BY DEF TypeOK
  <2> QED BY <2>1, WorkerTypes DEF WorkerState, Waiting
<1>3. worker' \in [Workers -> WorkerState]
  BY <1>1, <1>2, WorkerType
<1> QED BY <1>3 DEF TypeOK, ListActiveRuns, sourceVars, effectVars

LEMMA ListSourcesType ==
    ASSUME TypeOK, NEW w \in Workers, ListSources(w)
    PROVE  TypeOK'
<1>1. PICK batch \in SUBSET Sources :
         worker' = [worker EXCEPT ![w] =
           [@ EXCEPT !.pc = "pick", !.batch = batch]]
  BY DEF ListSources
<1>2. [worker[w] EXCEPT !.pc = "pick", !.batch = batch] \in WorkerState
  BY WorkerTypes DEF WorkerState, Waiting
<1>3. worker' \in [Workers -> WorkerState]
  BY <1>1, <1>2, WorkerType
<1> QED BY <1>3 DEF TypeOK, ListSources, sourceVars, effectVars

LEMMA PickSourceType ==
    ASSUME TypeOK, SourcesInv, NEW w \in Workers, WorkerInv(w), PickSource(w)
    PROVE  TypeOK'
<1>1. PICK k \in worker[w].batch :
         worker' = [worker EXCEPT ![w] =
           [@ EXCEPT !.pc = "insert", !.input = Select(k),
                     !.batch = worker[w].batch \ {k}]]
  BY DEF PickSource
<1>2. Select(k) \in Input
  BY SelectType DEF WorkerInv
<1>3. PICK e \in Input : e = Select(k)
  BY <1>2
<1>4. [worker[w] EXCEPT !.pc = "insert", !.input = e,
                        !.batch = worker[w].batch \ {k}] \in WorkerState
  BY WorkerTypes DEF WorkerState, Waiting
<1>5. worker' = [worker EXCEPT ![w] =
        [worker[w] EXCEPT !.pc = "insert", !.input = e,
                          !.batch = worker[w].batch \ {k}]]
  BY <1>1, <1>3
<1>6. worker' \in [Workers -> WorkerState]
  BY <1>4, <1>5, WorkerType
<1> QED BY <1>6 DEF TypeOK, PickSource, sourceVars, effectVars

LEMMA EndSourcesType ==
    ASSUME TypeOK, NEW w \in Workers, EndSources(w) \/ EndOpportunityTick(w)
    PROVE  TypeOK'
<1>1. worker' \in [Workers -> WorkerState]
  BY GotoType, EndTickType
     DEF EndSources, EndOpportunityTick, Labels, Waiting
<1> QED BY <1>1
        DEF TypeOK, EndSources, EndOpportunityTick, sourceVars, effectVars

LEMMA InsertRunType ==
    ASSUME TypeOK, NEW w \in Workers, InsertRun(w)
    PROVE  TypeOK'
<1>1. /\ worker[w].input \in Input /\ VersionOf[w] \in Versions
  BY WorkerTypes, ConstantTypes DEF WorkerState
<1>2. runs' \in [Runs -> Row]
  <2>1. CASE Create(worker[w].input, VersionOf[w])
    BY <1>1, <2>1, CreateEffect
  <2>2. CASE UNCHANGED runs
    BY <2>2 DEF TypeOK
  <2> QED BY <2>1, <2>2 DEF InsertRun
<1>3. worker' \in [Workers -> WorkerState]
  <2>1. CASE EndTick(w)
    BY <2>1, EndTickType
  <2>2. CASE worker' = [worker EXCEPT ![w] =
               [@ EXCEPT !.pc = "pick", !.input = NoInput]]
    <3>1. [worker[w] EXCEPT !.pc = "pick", !.input = NoInput] \in WorkerState
      BY WorkerTypes, BlankInput DEF WorkerState, Waiting
    <3> QED BY <2>2, <3>1, WorkerType
  <2> QED BY <2>1, <2>2 DEF InsertRun
<1> QED BY <1>2, <1>3 DEF TypeOK, InsertRun, sourceVars, effectVars

LEMMA EnqueueReprocessingType ==
    ASSUME TypeOK, SourcesInv, NEW p \in Projects, NEW v \in Versions,
           EnqueueReprocessing(p, v)
    PROVE  TypeOK'
<1>1. PICK k \in SourcesOf(p) : Create(Select(k), v)
  BY DEF EnqueueReprocessing
<1>2. Select(k) \in Input
  BY SelectType DEF SourcesOf
<1>3. runs' \in [Runs -> Row]
  BY <1>1, <1>2, CreateEffect
<1> QED BY <1>3 DEF TypeOK, EnqueueReprocessing, sourceVars, effectVars

LEMMA ClaimNextEffect ==
    ASSUME TypeOK, NEW w \in Workers, ClaimNext(w)
    PROVE  \E i \in Runs :
             /\ Claimable(i, VersionOf[w], worker[w].now)
             /\ runs' \in [Runs -> Row]
             /\ runs'[i].status = "running"
             /\ runs'[i].attempts = runs[i].attempts + 1
             /\ runs'[i].leaseToken = runs'[i].attempts
             /\ runs'[i].input = runs[i].input
             /\ runs'[i].version = runs[i].version
             /\ \A j \in Runs \ {i} : runs'[j] = runs[j]
             /\ worker' \in [Workers -> WorkerState]
             /\ worker'[w].pc = "load"
             /\ worker'[w].claim.run = i
             /\ worker'[w].batch = worker[w].batch
             /\ worker'[w].input = worker[w].input
             /\ \A v \in Workers \ {w} : worker'[v] = worker[v]
<1> DEFINE now == worker[w].now
           attempt(i) == runs[i].attempts + 1
           claimed(i) ==
             [runs[i] EXCEPT !.status = "running", !.retryAfterAt = NoTime,
                             !.attempts = attempt(i), !.leaseToken = attempt(i),
                             !.leaseExpiresAt = now + LeaseDuration]
<1>1. PICK i \in Runs :
         /\ Claimable(i, VersionOf[w], now)
         /\ runs' = [runs EXCEPT ![i] = claimed(i)]
         /\ worker' = [worker EXCEPT ![w] =
              [@ EXCEPT !.pc = "load",
                        !.claim = [run |-> i, token |-> attempt(i)]]]
  BY DEF ClaimNext
<1>2. attempt(i) \in 0..MaxAttempts
  BY <1>1, ConstantTypes, SMTT(30) DEF Claimable, TypeOK, Row
<1>3. claimed(i) \in Row
  <2>1. now + LeaseDuration \in Int
    BY NullValues, ConstantTypes DEF TypeOK, WorkerState
  <2>2. runs[i] \in Row /\ "running" \in Statuses
    BY DEF TypeOK, Statuses
  <2> QED BY <1>2, <2>1, <2>2, NullValues DEF Row
<1>4. runs \in [Runs -> Row] /\ worker \in [Workers -> WorkerState]
  BY DEF TypeOK
<1>5. /\ runs' \in [Runs -> Row]
      /\ runs'[i] = claimed(i)
      /\ \A j \in Runs \ {i} : runs'[j] = runs[j]
  BY <1>1, <1>3, <1>4
<1>6. /\ claimed(i).status = "running"
      /\ claimed(i).attempts = runs[i].attempts + 1
      /\ claimed(i).leaseToken = claimed(i).attempts
      /\ claimed(i).input = runs[i].input
      /\ claimed(i).version = runs[i].version
  BY <1>4 DEF Row
<1> DEFINE holder == [worker[w] EXCEPT !.pc = "load",
                        !.claim = [run |-> i, token |-> attempt(i)]]
<1>7. [run |-> i, token |-> attempt(i)] \in Claim
  BY <1>2 DEF Claim
<1>8. /\ holder \in WorkerState
      /\ holder.pc = "load" /\ holder.claim.run = i
      /\ holder.batch = worker[w].batch
      /\ holder.input = worker[w].input
  BY <1>4, <1>7 DEF WorkerState, Executing
<1>9. worker' = [worker EXCEPT ![w] = holder]
  BY <1>1
<1> HIDE DEF claimed, holder
<1>10. /\ worker' \in [Workers -> WorkerState]
       /\ worker'[w] = holder
       /\ \A v \in Workers \ {w} : worker'[v] = worker[v]
  BY <1>4, <1>8, <1>9
<1> QED BY <1>1, <1>5, <1>6, <1>8, <1>10

LEMMA ClaimNextType ==
    ASSUME TypeOK, NEW w \in Workers, ClaimNext(w)
    PROVE  TypeOK'
<1>1. runs' \in [Runs -> Row] /\ worker' \in [Workers -> WorkerState]
  BY ClaimNextEffect
<1> QED BY <1>1 DEF TypeOK, ClaimNext, sourceVars, effectVars

LEMMA ExtendLeaseType ==
    ASSUME TypeOK, NEW w \in Workers, ExtendLease(w)
    PROVE  TypeOK'
<1> DEFINE i == worker[w].claim.run
<1>1. clock + LeaseDuration \in Int
  BY NullValues, ConstantTypes DEF TypeOK
<1>2. i \in Runs =>
        [runs[i] EXCEPT !.leaseExpiresAt = clock + LeaseDuration] \in Row
  BY <1>1 DEF TypeOK, Row
<1>3. runs' \in [Runs -> Row]
  BY <1>2 DEF TypeOK, ExtendLease
<1> QED BY <1>3 DEF TypeOK, ExtendLease, sourceVars, effectVars

-----------------------------------------------------------------------------
(* What the transaction of scoreAndPersist writes                            *)

\* A sequence as long as the set it lists has nothing twice.
LEMMA ListsOnce ==
    ASSUME NEW T, IsFiniteSet(T), NEW f \in [1..Cardinality(T) -> T],
           \A t \in T : \E n \in DOMAIN f : f[n] = t
    PROVE  \A m, n \in 1..Cardinality(T) : f[m] = f[n] => m = n
<1>1. Cardinality(T) \in Nat
  BY FS_CardinalityType
<1> DEFINE N == 1..Cardinality(T)
<1>2. IsFiniteSet(N) /\ Cardinality(N) = Cardinality(T)
  BY <1>1, FS_Interval
<1>3. f \in Surjection(N, T)
  BY DEF Surjection
<1>4. f \in Injection(N, T)
  BY <1>2, <1>3, FS_SurjSameCardinalityImpliesInj
<1> QED BY <1>4 DEF Injection, IsInjective

\* One row per created candidate is added; the current opportunities of the
\* created candidates in the project, and perhaps others, expire; and then every
\* candidate of the result has an opportunity.
Writes(w, created) ==
    LET e    == worker[w].input
        new  == DOMAIN opps' \ DOMAIN opps
    IN  /\ opps' \in Seq(Opportunity)
        /\ DOMAIN opps \subseteq DOMAIN opps'
        /\ \A o \in DOMAIN opps :
             /\ opps'[o].candidate = opps[o].candidate
             /\ opps'[o].input = opps[o].input
             /\ opps'[o].day = opps[o].day
             /\ opps'[o].isCurrent =>
                  /\ opps[o].isCurrent
                  /\ \/ projectOf[opps[o].input.source] # projectOf[e.source]
                     \/ opps[o].candidate \notin created
             /\ opps[o].input = e => opps[o].candidate \notin created
        /\ \A o \in new : /\ opps'[o].candidate \in created
                          /\ opps'[o].input = e
                          /\ opps'[o].day = today
        /\ \A o, q \in new : opps'[o].candidate = opps'[q].candidate => o = q
        /\ \E r \in results : r.input = e /\ Persisted(r)'

LEMMA ScoreEffect ==
    ASSUME TypeOK, NEW w \in Workers, WorkerInv(w), ScoreAndPersist(w)
    PROVE  \/ Fail(w, Permanent) /\ UNCHANGED opps
           \/ /\ Goto(w, "complete")
              /\ \E created \in SUBSET Candidates : Writes(w, created)
<1> DEFINE e == worker[w].input
           result == CHOOSE r \in results : r.input = e
           existing(c) == {o \in DOMAIN opps : Identifies(o, c, e)}
           created == {c \in result.candidates : existing(c) = {}}
           kept(o) == opps[o].isCurrent /\ ~Expires(o, created, e)
           old == [o \in DOMAIN opps |-> [opps[o] EXCEPT !.isCurrent = kept(o)]]
           row(c) == [candidate |-> c, input |-> e, day |-> today,
                      isCurrent |-> TRUE]
           added(order) == [n \in DOMAIN order |-> row(order[n])]
<1>1. SUFFICES ASSUME NEW order \in [1..Cardinality(created) -> created],
                      \A c \in created : \E n \in DOMAIN order : order[n] = c,
                      opps' = old \o added(order),
                      Goto(w, "complete")
               PROVE  Writes(w, created) /\ created \in SUBSET Candidates
  <2>1. CASE Fail(w, Permanent) /\ UNCHANGED opps
    BY <2>1
  <2>2. CASE \E order \in [1..Cardinality(created) -> created] :
               /\ \A c \in created : \E n \in DOMAIN order : order[n] = c
               /\ opps' = old \o added(order)
               /\ Goto(w, "complete")
    BY <1>1, <2>2
  <2> QED BY <2>1, <2>2 DEF ScoreAndPersist
<1>2. /\ worker[w].pc = "score"
      /\ UNCHANGED <<results, projectOf>>
  BY DEF ScoreAndPersist, sourceVars
<1>3. result \in results /\ result.input = e
  BY <1>2 DEF WorkerInv, Detected, Checked
<1>4. PICK r \in results : r = result /\ r.input = e
  BY <1>3
<1>5. created \in SUBSET Candidates /\ IsFiniteSet(created)
  <2>1. result.candidates \in SUBSET Candidates
    BY <1>3 DEF TypeOK, Result
  <2> QED BY <2>1, FiniteCandidates, FS_Subset
<1>6. Cardinality(created) \in Nat
  BY <1>5, FS_CardinalityType
<1>7. \A m, n \in DOMAIN order : order[m] = order[n] => m = n
  <2> HIDE DEF created
  <2>1. DOMAIN order = 1..Cardinality(created)
    OBVIOUS
  <2> QED BY <1>1, <1>5, <2>1, ListsOnce
<1>8. \A c \in r.candidates \ created :
         \E o \in DOMAIN opps : opps[o].candidate = c /\ opps[o].input = e
  BY <1>4 DEF Identifies
<1>9. \A o \in DOMAIN opps : opps[o].input = e => opps[o].candidate \notin created
  BY DEF Identifies
<1> DEFINE size == Len(opps)
<1>10. /\ size \in Nat /\ DOMAIN opps = 1..size
       /\ \A o \in DOMAIN opps : opps[o] \in Opportunity
  BY OppTypes
<1>11. \A o \in DOMAIN opps : kept(o) \in BOOLEAN
  OBVIOUS
<1>12. \A o \in DOMAIN opps :
         kept(o) => /\ opps[o].isCurrent
                    /\ \/ projectOf[opps[o].input.source] # projectOf[e.source]
                       \/ opps[o].candidate \notin created
  BY DEF Expires
<1> HIDE DEF kept
<1>13. \A o \in 1..size : /\ old[o] \in Opportunity
                          /\ old[o].isCurrent = kept(o)
                          /\ old[o].candidate = opps[o].candidate
                          /\ old[o].input = opps[o].input
                          /\ old[o].day = opps[o].day
  BY <1>10, <1>11 DEF Opportunity
<1>14. e \in Input /\ today \in Days
  BY WorkerTypes DEF WorkerState, TypeOK
<1>15. \A c \in created : row(c) \in Opportunity
  BY <1>5, <1>14 DEF Opportunity
<1> DEFINE g == added(order)
           count == Cardinality(created)
<1>16. \A n \in 1..count : /\ g[n] \in Opportunity
                           /\ g[n].candidate = order[n]
                           /\ g[n].input = e
                           /\ g[n].day = today
                           /\ order[n] \in created
  BY <1>15
<1>17. old \in [1..size -> Opportunity] /\ g \in [1..count -> Opportunity]
  BY <1>10, <1>13, <1>16
<1> HIDE DEF old, g, created
<1>18. /\ old \in Seq(Opportunity) /\ Len(old) = size
       /\ g \in Seq(Opportunity) /\ Len(g) = count
  BY <1>6, <1>10, <1>17
<1>19. opps' = old \o g
  BY <1>1 DEF g, created
<1>20. /\ opps' \in Seq(Opportunity)
       /\ DOMAIN opps' = 1..(size + count)
       /\ \A o \in 1..size : opps'[o] = old[o]
       /\ \A o \in (size + 1)..(size + count) : opps'[o] = g[o - size]
  BY <1>6, <1>10, <1>18, <1>19
<1>21. DOMAIN opps \subseteq DOMAIN opps'
  BY <1>6, <1>10, <1>20
<1>22. \A o \in DOMAIN opps' \ DOMAIN opps :
         /\ o - size \in 1..count
         /\ opps'[o] = g[o - size]
  BY <1>6, <1>10, <1>20
<1>23. \A n \in 1..count : size + n \in DOMAIN opps' /\ opps'[size + n] = g[n]
  BY <1>6, <1>10, <1>20
<1>24. \A o, q \in DOMAIN opps' \ DOMAIN opps :
         opps'[o].candidate = opps'[q].candidate => o = q
  <2> SUFFICES ASSUME NEW o \in DOMAIN opps' \ DOMAIN opps,
                      NEW q \in DOMAIN opps' \ DOMAIN opps,
                      opps'[o].candidate = opps'[q].candidate
               PROVE  o = q
    OBVIOUS
  <2>1. order[o - size] = order[q - size]
    BY <1>16, <1>22
  <2>2. o - size = q - size
    BY <1>7, <1>22, <2>1
  <2>3. o \in Int /\ q \in Int
    BY <1>6, <1>10, <1>20
  <2> QED BY <1>10, <2>2, <2>3
<1>25. Persisted(r)'
  <2> SUFFICES ASSUME NEW c \in r.candidates
               PROVE  \E o \in DOMAIN opps' :
                        opps'[o].candidate = c /\ opps'[o].input = r.input
    BY DEF Persisted, Identifies
  <2>1. CASE c \in created
    <3>1. PICK n \in 1..count : order[n] = c
      BY <1>1, <2>1
    <3> QED BY <1>4, <1>16, <1>23, <3>1
  <2>2. CASE c \notin created
    <3>1. PICK o \in DOMAIN opps : opps[o].candidate = c /\ opps[o].input = e
      BY <1>8, <2>2
    <3>2. opps'[o].candidate = c /\ opps'[o].input = e
      BY <1>10, <1>13, <1>20, <3>1
    <3> QED BY <1>4, <1>21, <3>2
  <2> QED BY <2>1, <2>2
<1>26. \A o \in DOMAIN opps :
         /\ opps'[o].candidate = opps[o].candidate
         /\ opps'[o].input = opps[o].input
         /\ opps'[o].day = opps[o].day
         /\ opps'[o].isCurrent =>
              /\ opps[o].isCurrent
              /\ \/ projectOf[opps[o].input.source] # projectOf[e.source]
                 \/ opps[o].candidate \notin created
  BY <1>10, <1>12, <1>13, <1>20
<1>27. \A o \in DOMAIN opps' \ DOMAIN opps :
         /\ opps'[o].candidate \in created
         /\ opps'[o].input = e
         /\ opps'[o].day = today
  BY <1>16, <1>22
<1> QED BY <1>4, <1>5, <1>9, <1>20, <1>21, <1>24, <1>25, <1>26, <1>27
        DEF Writes

\* Opportunities with different identities, each for the input of a row, are at
\* most as many as the rows times the candidates.
LEMMA LengthBound ==
    ASSUME NEW s \in Seq(Opportunity), NEW f,
           \A o \in DOMAIN s : \E i \in Runs : f[i] = s[o].input,
           \A o, q \in DOMAIN s : /\ s[o].candidate = s[q].candidate
                                  /\ s[o].input = s[q].input
                                  => o = q
    PROVE  Len(s) \in OppIds \cup {0}
<1> DEFINE S == DOMAIN s
           T == Runs \X Candidates
           rowOf(o) == CHOOSE i \in Runs : f[i] = s[o].input
           h == [o \in S |-> <<rowOf(o), s[o].candidate>>]
<1>1. Len(s) \in Nat /\ S = 1..Len(s)
  OBVIOUS
<1>2. \A o \in S : s[o] \in Opportunity
  OBVIOUS
<1>3. \A o \in S : s[o].candidate \in Candidates
  BY <1>2 DEF Opportunity
<1>4. \A o \in S : rowOf(o) \in Runs /\ f[rowOf(o)] = s[o].input
  OBVIOUS
<1> HIDE DEF rowOf
<1>5. h \in [S -> T]
  BY <1>3, <1>4
<1>6. \A o, q \in S : h[o] = h[q] => o = q
  BY <1>4
<1> HIDE DEF h
<1>7. h \in Injection(S, T)
  BY <1>5, <1>6 DEF Injection, IsInjective
<1>8. IsFiniteSet(Runs) /\ Cardinality(Runs) = MaxRuns
  <2>1. 1 \in Int /\ MaxRuns \in Int /\ MaxRuns >= 0
    BY ConstantTypes
  <2>2. /\ IsFiniteSet(1..MaxRuns)
        /\ Cardinality(1..MaxRuns) = IF 1 > MaxRuns THEN 0 ELSE MaxRuns - 1 + 1
    BY <2>1, FS_Interval
  <2> QED BY <2>1, <2>2 DEF Runs
<1>9. IsFiniteSet(T) /\ Cardinality(T) = MaxRuns * Cardinality(Candidates)
  BY <1>8, FiniteCandidates, FS_Product
<1>10. Cardinality(S) <= Cardinality(T)
  BY <1>7, <1>9, FS_Injection
<1>11. Cardinality(S) = Len(s)
  BY <1>1, FS_Interval
<1>12. MaxRuns * Cardinality(Candidates) \in Nat
  BY ConstantTypes
<1> QED BY <1>1, <1>9, <1>10, <1>11, <1>12 DEF OppIds

LEMMA ScoreType ==
    ASSUME TypeOK, NEW w \in Workers, WorkerInv(w), ScoreAndPersist(w),
           OppsAreIdentified, AdoptedFromRows
    PROVE  TypeOK'
<1>1. CASE Fail(w, Permanent) /\ UNCHANGED opps
  BY <1>1, FailType, Failures DEF TypeOK, ScoreAndPersist, sourceVars
<1>2. ASSUME NEW created \in SUBSET Candidates, Writes(w, created),
             Goto(w, "complete")
      PROVE  TypeOK'
  <2>1. worker' \in [Workers -> WorkerState]
    BY <1>2, GotoType DEF Labels, Executing
  <2>2. opps' \in Seq(Opportunity)
    BY <1>2 DEF Writes
  <2>3. PICK f \in [Runs -> Input] :
          \A e \in Adopted : \E i \in Runs : f[i] = e
    BY DEF AdoptedFromRows
  <2>4. \A o \in DOMAIN opps' : opps'[o].input \in Adopted
    <3> SUFFICES ASSUME NEW o \in DOMAIN opps'
                 PROVE  opps'[o].input \in Adopted
      OBVIOUS
    <3>1. CASE o \in DOMAIN opps
      BY <1>2, <3>1 DEF Writes, Adopted
    <3>2. CASE o \notin DOMAIN opps
      <4>1. opps'[o].input = worker[w].input
        BY <1>2, <3>2 DEF Writes
      <4>2. worker[w].pc \in Checked
        BY DEF ScoreAndPersist, Checked
      <4> QED BY <4>1, <4>2 DEF Adopted
    <3> QED BY <3>1, <3>2
  <2>5. \A o, q \in DOMAIN opps' : /\ opps'[o].candidate = opps'[q].candidate
                                   /\ opps'[o].input = opps'[q].input
                                   => o = q
    <3> SUFFICES ASSUME NEW o \in DOMAIN opps', NEW q \in DOMAIN opps',
                        opps'[o].candidate = opps'[q].candidate,
                        opps'[o].input = opps'[q].input
                 PROVE  o = q
      OBVIOUS
    <3>1. CASE o \in DOMAIN opps /\ q \in DOMAIN opps
      BY <1>2, <3>1 DEF Writes, OppsAreIdentified
    <3>2. CASE o \notin DOMAIN opps /\ q \notin DOMAIN opps
      BY <1>2, <3>2 DEF Writes
    <3>3. CASE o \in DOMAIN opps /\ q \notin DOMAIN opps
      BY <1>2, <3>3 DEF Writes
    <3>4. CASE o \notin DOMAIN opps /\ q \in DOMAIN opps
      BY <1>2, <3>4 DEF Writes
    <3> QED BY <3>1, <3>2, <3>3, <3>4
  <2>6. ASSUME NEW s, s = opps'
        PROVE  Len(s) \in OppIds \cup {0}
    <3>1. s \in Seq(Opportunity)
      BY <2>2, <2>6
    <3>2. \A o \in DOMAIN s : \E i \in Runs : f[i] = s[o].input
      BY <2>3, <2>4, <2>6
    <3>3. \A o, q \in DOMAIN s : /\ s[o].candidate = s[q].candidate
                                 /\ s[o].input = s[q].input
                                 => o = q
      BY <2>5, <2>6
    <3> QED BY <3>1, <3>2, <3>3, LengthBound
  <2>7. Len(opps') \in OppIds \cup {0}
    BY <2>6
  <2> QED BY <2>1, <2>2, <2>7 DEF TypeOK, ScoreAndPersist, sourceVars
<1> QED BY <1>1, <1>2, ScoreEffect

LEMMA GoOnType ==
    ASSUME TypeOK, NEW w \in Workers, NEW ok, NEW label \in Labels,
           GoOn(w, ok, label)
    PROVE  worker' \in [Workers -> WorkerState]
BY GotoType, FailType, Failures DEF GoOn

LEMMA ChecksType ==
    ASSUME TypeOK, NEW w \in Workers,
           \/ LoadClaimed(w) \/ SelectExpected(w)
           \/ CheckDetection(w) \/ Reselect(w)
    PROVE  TypeOK'
<1>1. worker' \in [Workers -> WorkerState]
  <2>1. {"select", "detect", "reselect", "score"} \subseteq Labels
    BY DEF Labels, Executing
  <2> QED BY <2>1, GoOnType
          DEF LoadClaimed, SelectExpected, CheckDetection, Reselect
<1> QED BY <1>1 DEF TypeOK, LoadClaimed, SelectExpected, CheckDetection,
           Reselect, sourceVars, effectVars

\* An attempt selects for the source of its row, unless the row is deleted.
LEMMA ExpectedKnown ==
    ASSUME TypeOK, RowsInv, NEW w \in Workers, WorkerInv(w),
           worker[w].pc = "detect", Expected(w) # NoInput
    PROVE  Known(Expected(w))
<1>1. worker[w].claim.run \in Runs
  BY DEF WorkerInv, Executing
<1> QED BY <1>1 DEF RowsInv, RowInv, Expected

LEMMA DetectType ==
    ASSUME TypeOK, SourcesInv, RowsInv, NEW w \in Workers, WorkerInv(w),
           DetectCandidates(w)
    PROVE  TypeOK'
<1>1. CASE Fail(w, Permanent)
  BY <1>1, FailType, Failures
     DEF TypeOK, DetectCandidates, sourceVars, effectVars
<1>2. ASSUME Expected(w) # NoInput,
             NEW e, e = Select(Expected(w).source),
             NEW label \in {"check", "model"},
             worker' = [worker EXCEPT ![w] =
               [@ EXCEPT !.pc = label, !.input = e]]
      PROVE  TypeOK'
  <2>1. e \in Input
    BY <1>2, ExpectedKnown, SelectType DEF Known, DetectCandidates
  <2>2. [worker[w] EXCEPT !.pc = label, !.input = e] \in WorkerState
    BY <2>1, WorkerTypes DEF WorkerState, Executing
  <2>3. worker' \in [Workers -> WorkerState]
    BY <1>2, <2>2, WorkerType
  <2> QED BY <2>3 DEF TypeOK, DetectCandidates, sourceVars, effectVars
<1> QED BY <1>1, <1>2 DEF DetectCandidates

LEMMA ModelType ==
    ASSUME TypeOK, NEW w \in Workers, ModelAnswers(w) \/ ModelFails(w)
    PROVE  TypeOK'
<1>1. CASE ModelAnswers(w)
  <2>1. worker' \in [Workers -> WorkerState]
    BY <1>1, GotoType DEF ModelAnswers, Labels, Executing
  <2>2. \A r \in results' : r \in Result
    <3>1. worker[w].input \in Input
      BY WorkerTypes DEF WorkerState
    <3>2. \A cs \in SUBSET Candidates :
            [input |-> worker[w].input, candidates |-> cs] \in Result
      BY <3>1 DEF Result
    <3>3. \/ UNCHANGED results
          \/ \E cs \in SUBSET Candidates :
               results' = results \cup {[input |-> worker[w].input,
                                         candidates |-> cs]}
      BY <1>1 DEF ModelAnswers
    <3> QED BY <3>2, <3>3 DEF TypeOK
  <2> QED BY <1>1, <2>1, <2>2 DEF TypeOK, ModelAnswers, sourceVars
<1>2. CASE ModelFails(w)
  <2>1. ASSUME NEW at \in {NoTime} \cup {clock + d : d \in ProviderDelays}
        PROVE  [retryable |-> TRUE, retryAfterAt |-> at] \in Failure
    <3>1. clock \in Int /\ NoTime \in Int /\ ProviderDelays \subseteq Int
      BY NullValues, ConstantTypes DEF TypeOK
    <3>2. \A d \in ProviderDelays : clock + d \in Int
      BY <3>1
    <3>3. at \in Int
      BY <3>1, <3>2
    <3> QED BY <3>3 DEF Failure
  <2>2. worker' \in [Workers -> WorkerState]
    BY <1>2, <2>1, FailType, Failures DEF ModelFails
  <2> QED BY <1>2, <2>2 DEF TypeOK, ModelFails, sourceVars, effectVars
<1> QED BY <1>1, <1>2

LEMMA CompleteType ==
    ASSUME TypeOK, NEW w \in Workers, Complete(w)
    PROVE  TypeOK'
<1>1. CASE ClearAll({worker[w].claim.run}, "succeeded") /\ EndTick(w)
  <2>1. runs' \in [Runs -> Row]
    BY <1>1, ClearAllType DEF Statuses
  <2> QED BY <1>1, <2>1, EndTickType
          DEF TypeOK, Complete, sourceVars, effectVars
<1>2. CASE Fail(w, Permanent) /\ UNCHANGED runs
  BY <1>2, FailType, Failures DEF TypeOK, Complete, sourceVars, effectVars
<1> QED BY <1>1, <1>2 DEF Complete

LEMMA FailClaimedType ==
    ASSUME TypeOK, NEW w \in Workers, FailClaimed(w)
    PROVE  TypeOK'
<1> DEFINE i == worker[w].claim.run
           f == worker[w].failure
           attempt == worker[w].claim.token
           retryAt == Later(f.retryAfterAt, clock + Backoff(attempt))
<1>1. retryAt \in Int
  <2>1. attempt \in Nat /\ f.retryAfterAt \in Int
    BY ConstantTypes DEF TypeOK, WorkerState, Claim, Failure
  <2>2. clock + Backoff(attempt) \in Int
    BY <2>1, BackoffType, NullValues DEF TypeOK
  <2> QED BY <2>1, <2>2 DEF Later
<1> HIDE DEF retryAt
<1>2. runs' \in [Runs -> Row]
  <2>1. CASE runs' = [runs EXCEPT ![i] =
                        [Cleared(runs[i], "failed_retryable") EXCEPT
                           !.retryAfterAt = retryAt]]
    <3>1. i \in Runs => Cleared(runs[i], "failed_retryable") \in Row
      BY ClearedRow DEF TypeOK, Statuses
    <3>2. i \in Runs => [Cleared(runs[i], "failed_retryable") EXCEPT
                           !.retryAfterAt = retryAt] \in Row
      BY <1>1, <3>1 DEF Row
    <3> QED BY <2>1, <3>2 DEF TypeOK
  <2>2. CASE ClearAll({i}, "failed_terminal")
    BY <2>2, ClearAllType DEF Statuses
  <2>3. CASE UNCHANGED runs
    BY <2>3 DEF TypeOK
  <2> QED BY <2>1, <2>2, <2>3 DEF FailClaimed, retryAt
<1>3. worker' \in [Workers -> WorkerState]
  BY EndTickType DEF FailClaimed
<1> QED BY <1>2, <1>3 DEF TypeOK, FailClaimed, sourceVars, effectVars

LEMMA FaultType ==
    ASSUME TypeOK, NEW w \in Workers,
           StatementFails(w) \/ Crash(w) \/ Shutdown(w) \/ Restart(w)
    PROVE  TypeOK'
<1>1. CASE StatementFails(w)
  BY <1>1, ConstantTypes, EndTickType, FailType, Failures
     DEF StatementFails, TypeOK, sourceVars, effectVars
<1>2. CASE Crash(w)
  BY <1>2, ConstantTypes, FreshType, WorkerType
     DEF Crash, TypeOK, sourceVars, effectVars
<1>3. CASE Shutdown(w)
  <2>1. [worker[w] EXCEPT !.stopping = TRUE] \in WorkerState
    BY WorkerTypes DEF WorkerState
  <2>2. worker' \in [Workers -> WorkerState]
    BY <1>3, <2>1, WorkerType DEF Shutdown
  <2>3. faults' \in 0..MaxFaults
    BY <1>3, ConstantTypes DEF Shutdown, TypeOK
  <2> QED BY <1>3, <2>2, <2>3 DEF Shutdown, TypeOK, sourceVars, effectVars
<1>4. CASE Restart(w)
  BY <1>4, FreshType, WorkerType
     DEF Restart, TypeOK, sourceVars, effectVars
<1> QED BY <1>1, <1>2, <1>3, <1>4

LEMMA BeginTickType ==
    ASSUME TypeOK, NEW w \in Workers, BeginTick(w)
    PROVE  TypeOK'
<1>1. [worker[w] EXCEPT !.pc = "exhaust", !.now = clock] \in WorkerState
  <2>1. clock \in Time
    BY DEF TypeOK
  <2> QED BY <2>1, WorkerTypes DEF WorkerState, Waiting
<1>2. worker' \in [Workers -> WorkerState]
  BY <1>1, WorkerType DEF BeginTick
<1> QED BY <1>2 DEF BeginTick, TypeOK, sourceVars, effectVars

LEMMA SourceType ==
    ASSUME TypeOK, NEW p \in Projects,
           SourceSucceeds(p) \/ FactsChange(p) \/ Disconnect(p)
    PROVE  TypeOK'
<1>1. CASE SourceSucceeds(p)
  <2>1. finished' \in 0..MaxSources
    BY <1>1, ConstantTypes DEF SourceSucceeds, TypeOK
  <2>2. projectOf' \in [Sources -> Projects \cup {None}]
    <3>1. projectOf' = [projectOf EXCEPT ![finished + 1] = p]
      BY <1>1 DEF SourceSucceeds
    <3> QED BY <3>1 DEF TypeOK
  <2>3. PICK d \in 1..today : dayOf' = [dayOf EXCEPT ![finished + 1] = d]
    BY <1>1 DEF SourceSucceeds
  <2>4. d \in Days
    BY ConstantTypes DEF TypeOK, Days
  <2>5. dayOf' \in [Sources -> Days \cup {None}]
    BY <2>3, <2>4 DEF TypeOK
  <2> QED BY <1>1, <2>1, <2>2, <2>5 DEF SourceSucceeds, TypeOK, effectVars
<1>2. CASE FactsChange(p)
  <2>1. facts' \in [Projects -> 0..MaxFacts]
    BY <1>2, ConstantTypes DEF FactsChange, TypeOK
  <2> QED BY <1>2, <2>1 DEF FactsChange, TypeOK, effectVars
<1>3. CASE Disconnect(p)
  <2>1. runs' \in [Runs -> Row]
    BY <1>3, DeletedRow DEF Disconnect, TypeOK
  <2>2. gone' \subseteq Sources
    <3>1. gone' = gone \cup SourcesOf(p)
      BY <1>3 DEF Disconnect
    <3>2. SourcesOf(p) \subseteq Sources
      BY DEF SourcesOf
    <3> QED BY <3>1, <3>2 DEF TypeOK
  <2>3. faults' \in 0..MaxFaults
    BY <1>3, ConstantTypes DEF Disconnect, TypeOK
  <2>4. UNCHANGED <<clock, today, projectOf, dayOf, finished, facts, results,
                    opps, worker>>
    BY <1>3 DEF Disconnect, effectVars
  <2> QED BY <2>1, <2>2, <2>3, <2>4 DEF TypeOK
<1> QED BY <1>1, <1>2, <1>3

LEMMA NextType ==
    ASSUME IInv, [Next]_vars
    PROVE  TypeOK'
<1> USE DEF IInv
<1>1. ASSUME NEW w \in Workers, Maintain(w) \/ Restart(w) \/ CompareFails(w)
      PROVE  TypeOK'
  <2>1. WorkerInv(w)
    BY DEF WorkersInv
  <2> QED BY <1>1, <2>1, BeginTickType, MaintenanceType, CompareType,
             ListActiveRunsType, ListSourcesType, PickSourceType,
             EndSourcesType, InsertRunType, FaultType
          DEF Maintain
<1>2. ASSUME NEW w \in Workers, Execute(w)
      PROVE  TypeOK'
  <2>1. WorkerInv(w)
    BY DEF WorkersInv
  <2> QED BY <1>2, <2>1, ClaimNextType, EndSourcesType, ChecksType,
             DetectType, ModelType, ScoreType, CompleteType, FailClaimedType
          DEF Execute
<1>3. ASSUME NEW w \in Workers,
             ExtendLease(w) \/ StatementFails(w) \/ Crash(w) \/ Shutdown(w)
      PROVE  TypeOK'
  BY <1>3, ExtendLeaseType, FaultType
<1>4. ASSUME NEW p \in Projects,
             \/ SourceSucceeds(p) \/ FactsChange(p) \/ Disconnect(p)
             \/ \E v \in Versions : EnqueueReprocessing(p, v)
      PROVE  TypeOK'
  BY <1>4, SourceType, EnqueueReprocessingType
<1>5. CASE Tick
  BY <1>5, ConstantTypes DEF Tick, TypeOK, Time, sourceVars, effectVars
<1>6. CASE NextDay
  BY <1>6, ConstantTypes DEF NextDay, TypeOK, Days, effectVars
<1>7. CASE UNCHANGED vars
  BY <1>7 DEF vars, sourceVars, effectVars, TypeOK
<1> QED BY <1>1, <1>2, <1>3, <1>4, <1>5, <1>6, <1>7 DEF Next, WorkerStep

-----------------------------------------------------------------------------
(* What a step may do to a row                                               *)

KeepsRun(i) == /\ runs'[i].input = runs[i].input
               /\ runs'[i].version = runs[i].version

\* The inputs that a row may be inserted for.
Proposed(e) ==
    \/ \E w \in Workers : worker[w].pc = "insert" /\ worker[w].input = e
    \/ \E k \in Sources : k <= finished /\ e = Select(k)

Creates(i) ==
    LET new == runs'[i]
    IN  /\ runs[i].status = "none"
        /\ new.status = "queued"
        /\ new.attempts = 0
        /\ Known(new.input) /\ new.version \in Versions
        /\ ~KeyTaken(new.input, new.version)
        /\ Proposed(new.input)
        /\ \A j \in Runs \ {i} : runs'[j] = runs[j]
        /\ UNCHANGED <<sourceVars, effectVars>>

\* A worker completes the run it holds.
Completes(i) ==
    \E w \in Workers : Complete(w) /\ Owns(w) /\ worker[w].claim.run = i

RowStep(i) ==
    LET old == runs[i]
        new == runs'[i]
    IN  \/ /\ KeepsRun(i)
           /\ new.status = old.status
           /\ new.attempts = old.attempts
           /\ new.leaseToken = old.leaseToken
        \/ Creates(i)
        \/ /\ KeepsRun(i)
           /\ old.status \in {"queued", "running"}
           /\ old.attempts < MaxAttempts
           /\ new.status = "running"
           /\ new.attempts = old.attempts + 1
           /\ new.leaseToken = new.attempts
        \/ /\ KeepsRun(i)
           /\ old.status = "running"
           /\ new.status = "failed_retryable"
           /\ new.attempts = old.attempts
           /\ old.leaseToken < MaxAttempts
        \/ /\ KeepsRun(i)
           /\ old.status = "failed_retryable"
           /\ new.status = "queued"
           /\ new.attempts = old.attempts
           /\ old.attempts < MaxAttempts
        \/ /\ KeepsRun(i)
           /\ old.status \in Active
           /\ \/ new.status = "failed_terminal"
              \/ new.status = "succeeded" /\ old.status = "running"
                 /\ Completes(i)
           /\ new.attempts = old.attempts
        \/ /\ Exists(i)
           /\ new.status = "deleted"
           /\ new.attempts = 0
           /\ new.input = NoInput

RowSteps == \A i \in Runs : RowStep(i)

LEMMA UnchangedRows == ASSUME UNCHANGED runs PROVE RowSteps
BY DEF RowSteps, RowStep, KeepsRun

LEMMA TerminalSteps ==
    ASSUME TypeOK, NEW ids, ClearAll(ids, "failed_terminal"),
           \A i \in ids \cap Runs : runs[i].status \in Active
    PROVE  RowSteps
<1> SUFFICES ASSUME NEW i \in Runs
             PROVE  RowStep(i)
  BY DEF RowSteps
<1>1. runs[i] \in Row /\ "failed_terminal" \in Statuses
  BY DEF TypeOK, Statuses
<1>2. CASE i \in ids
  <2>1. runs'[i] = Cleared(runs[i], "failed_terminal")
    BY <1>2 DEF ClearAll
  <2> QED BY <1>1, <1>2, <2>1, ClearedRow DEF RowStep, KeepsRun
<1>3. CASE i \notin ids
  BY <1>3 DEF ClearAll, RowStep, KeepsRun
<1> QED BY <1>2, <1>3

LEMMA MaintenanceSteps ==
    ASSUME TypeOK, NEW w \in Workers,
           \/ TerminalizeExhausted(w)
           \/ TerminalizeStaleActiveRuns(w)
           \/ CompareInput(w)
           \/ CompareFails(w)
           \/ RequeueEligible(w)
    PROVE  RowSteps
<1>1. CASE TerminalizeExhausted(w)
  BY <1>1, TerminalSteps DEF TerminalizeExhausted, Expired, Active
<1>2. CASE TerminalizeStaleActiveRuns(w)
  BY <1>2, TerminalSteps DEF TerminalizeStaleActiveRuns, Idle, Expired, Active
<1>3. CASE CompareInput(w) \/ CompareFails(w)
  <2>1. PICK i \in worker[w].rows :
          \/ ClearAll({}, "failed_terminal")
          \/ ClearAll({i}, "failed_terminal") /\ Idle(i, worker[w].rowsAt)
    BY <1>3 DEF CompareInput, CompareFails
  <2> QED BY <2>1, TerminalSteps DEF Idle, Expired, Active
<1>4. CASE RequeueEligible(w)
  <2> SUFFICES ASSUME NEW i \in Runs
               PROVE  RowStep(i)
    BY DEF RowSteps
  <2>1. runs[i] \in Row /\ "queued" \in Statuses
    BY DEF TypeOK, Statuses
  <2>2. CASE Requeueable(i, VersionOf[w], worker[w].now)
    <3>1. runs'[i] = Cleared(runs[i], "queued")
      BY <1>4, <2>2 DEF RequeueEligible, ClearAll
    <3> QED BY <2>1, <2>2, <3>1, ClearedRow DEF RowStep, KeepsRun, Requeueable
  <2>3. CASE ~Requeueable(i, VersionOf[w], worker[w].now)
    BY <1>4, <2>3 DEF RequeueEligible, ClearAll, RowStep, KeepsRun
  <2> QED BY <2>2, <2>3
<1> QED BY <1>1, <1>2, <1>3, <1>4

\* The insert of a run, by the worker or by a caller.
LEMMA CreateSteps ==
    ASSUME TypeOK, NEW e \in Input, NEW v \in Versions, Create(e, v),
           EligibleSource(e.source), ~KeyTaken(e, v), Proposed(e),
           UNCHANGED <<sourceVars, effectVars>>
    PROVE  RowSteps
<1>1. PICK j \in Runs : /\ runs[j].status = "none"
                        /\ runs'[j] = NewRow(e, v)
                        /\ \A i \in Runs \ {j} : runs'[i] = runs[i]
  BY CreateEffect
<1>2. /\ runs'[j].status = "queued"
      /\ runs'[j].attempts = 0
      /\ runs'[j].input = e
      /\ runs'[j].version = v
  BY <1>1, NewRowType
<1>3. Known(e)
  BY DEF Known, EligibleSource
<1>4. Creates(j)
  BY <1>1, <1>2, <1>3 DEF Creates
<1> QED BY <1>1, <1>4 DEF RowSteps, RowStep, KeepsRun

LEMMA InsertRunSteps ==
    ASSUME TypeOK, NEW w \in Workers, InsertRun(w)
    PROVE  RowSteps
<1>1. CASE UNCHANGED runs
  BY <1>1, UnchangedRows
<1>2. ASSUME NEW e, e = worker[w].input, EligibleSource(e.source),
             ~KeyTaken(e, VersionOf[w]), Create(e, VersionOf[w])
      PROVE  RowSteps
  <2>1. e \in Input /\ VersionOf[w] \in Versions
    BY <1>2, WorkerTypes, ConstantTypes DEF WorkerState
  <2>2. Proposed(e)
    BY <1>2 DEF InsertRun, Proposed
  <2>3. UNCHANGED <<sourceVars, effectVars>>
    BY DEF InsertRun
  <2> QED BY <1>2, <2>1, <2>2, <2>3, CreateSteps
<1> QED BY <1>1, <1>2 DEF InsertRun

LEMMA EnqueueReprocessingSteps ==
    ASSUME TypeOK, SourcesInv, NEW p \in Projects, NEW v \in Versions,
           EnqueueReprocessing(p, v)
    PROVE  RowSteps
<1>1. PICK k \in SourcesOf(p) : /\ EligibleSource(k)
                                /\ ~KeyTaken(Select(k), v)
                                /\ Create(Select(k), v)
  BY DEF EnqueueReprocessing
<1>2. k \in Sources /\ k <= finished
  BY DEF SourcesOf
<1>3. PICK e \in Input : e = Select(k) /\ e.source = k
  BY <1>2, SelectType
<1>4. Proposed(e)
  BY <1>2, <1>3 DEF Proposed
<1>5. UNCHANGED <<sourceVars, effectVars>>
  BY DEF EnqueueReprocessing
<1> QED BY <1>1, <1>3, <1>4, <1>5, CreateSteps

LEMMA ClaimSteps ==
    ASSUME TypeOK, NEW w \in Workers, ClaimNext(w)
    PROVE  RowSteps
<1>1. PICK i \in Runs :
        /\ Claimable(i, VersionOf[w], worker[w].now)
        /\ runs'[i].status = "running"
        /\ runs'[i].attempts = runs[i].attempts + 1
        /\ runs'[i].leaseToken = runs'[i].attempts
        /\ runs'[i].input = runs[i].input
        /\ runs'[i].version = runs[i].version
        /\ \A j \in Runs \ {i} : runs'[j] = runs[j]
  BY ClaimNextEffect
<1>2. RowStep(i)
  BY <1>1 DEF RowStep, KeepsRun, Claimable, Expired
<1> QED BY <1>1, <1>2 DEF RowSteps, RowStep, KeepsRun

LEMMA ExtendLeaseSteps ==
    ASSUME TypeOK, NEW w \in Workers, ExtendLease(w)
    PROVE  RowSteps
<1> SUFFICES ASSUME NEW i \in Runs
             PROVE  RowStep(i)
  BY DEF RowSteps
<1>1. CASE i = worker[w].claim.run
  BY <1>1 DEF ExtendLease, RowStep, KeepsRun, TypeOK, Row
<1>2. CASE i # worker[w].claim.run
  BY <1>2 DEF ExtendLease, RowStep, KeepsRun, TypeOK
<1> QED BY <1>1, <1>2

LEMMA CompleteSteps ==
    ASSUME TypeOK, NEW w \in Workers, Complete(w)
    PROVE  RowSteps
<1> DEFINE i == worker[w].claim.run
<1>1. CASE Owns(w) /\ ClearAll({i}, "succeeded")
  <2> SUFFICES ASSUME NEW j \in Runs
               PROVE  RowStep(j)
    BY DEF RowSteps
  <2>1. CASE j = i
    <3>1. runs'[j] = Cleared(runs[j], "succeeded")
      BY <1>1, <2>1 DEF ClearAll
    <3>2. runs[j] \in Row /\ "succeeded" \in Statuses
      BY DEF TypeOK, Statuses
    <3>3. runs[j].status = "running" /\ Completes(j)
      BY <1>1, <2>1 DEF Owns, Completes
    <3> QED BY <3>1, <3>2, <3>3, ClearedRow DEF RowStep, KeepsRun, Active
  <2>2. CASE j # i
    BY <1>1, <2>2 DEF ClearAll, RowStep, KeepsRun
  <2> QED BY <2>1, <2>2
<1>2. CASE UNCHANGED runs
  BY <1>2, UnchangedRows
<1> QED BY <1>1, <1>2 DEF Complete

LEMMA FailClaimedSteps ==
    ASSUME TypeOK, NEW w \in Workers, FailClaimed(w)
    PROVE  RowSteps
<1> DEFINE i == worker[w].claim.run
           deferred(t) == [Cleared(runs[i], "failed_retryable") EXCEPT
                             !.retryAfterAt = t]
<1>1. ASSUME NEW t, Owns(w), worker[w].claim.token < MaxAttempts,
             runs' = [runs EXCEPT ![i] = deferred(t)]
      PROVE  RowSteps
  <2> SUFFICES ASSUME NEW j \in Runs
               PROVE  RowStep(j)
    BY DEF RowSteps
  <2>1. CASE j = i
    <3>1. PICK y \in Row : y = Cleared(runs[i], "failed_retryable")
      BY <2>1, ClearedRow DEF TypeOK, Statuses
    <3>2. /\ y.status = "failed_retryable"
          /\ y.attempts = runs[i].attempts
          /\ y.input = runs[i].input
          /\ y.version = runs[i].version
      BY <2>1, <3>1, ClearedRow DEF TypeOK, Statuses
    <3>3. runs'[i] = [y EXCEPT !.retryAfterAt = t]
      BY <1>1, <2>1, <3>1 DEF TypeOK
    <3>4. /\ runs'[i].status = "failed_retryable"
          /\ runs'[i].attempts = runs[i].attempts
          /\ runs'[i].input = runs[i].input
          /\ runs'[i].version = runs[i].version
      BY <3>2, <3>3 DEF Row
    <3> QED BY <1>1, <2>1, <3>4 DEF RowStep, KeepsRun, Owns
  <2>2. CASE j # i
    BY <1>1, <2>2 DEF TypeOK, RowStep, KeepsRun
  <2> QED BY <2>1, <2>2
<1>2. CASE Owns(w) /\ ClearAll({i}, "failed_terminal")
  BY <1>2, TerminalSteps DEF Owns, Active
<1>3. CASE UNCHANGED runs
  BY <1>3, UnchangedRows
<1> QED BY <1>1, <1>2, <1>3 DEF FailClaimed, MayRetry

LEMMA DisconnectSteps ==
    ASSUME TypeOK, NEW p \in Projects, Disconnect(p)
    PROVE  RowSteps
<1> SUFFICES ASSUME NEW i \in Runs
             PROVE  RowStep(i)
  BY DEF RowSteps
<1>1. CASE i \in RunsOf(p)
  <2>1. runs'[i] = [NoRow EXCEPT !.status = "deleted"]
    BY <1>1 DEF Disconnect
  <2>2. Exists(i)
    BY <1>1 DEF RunsOf, Exists
  <2> QED BY <2>1, <2>2, DeletedRow DEF RowStep
<1>2. CASE i \notin RunsOf(p)
  BY <1>2 DEF Disconnect, RowStep, KeepsRun
<1> QED BY <1>1, <1>2

\* Every step moves every row along one of these ways.
LEMMA NextSteps ==
    ASSUME IInv, [Next]_vars
    PROVE  RowSteps
<1>0. TypeOK /\ SourcesInv
  BY DEF IInv
<1>1. ASSUME NEW w \in Workers, Maintain(w)
      PROVE  RowSteps
  <2>1. CASE \/ BeginTick(w) \/ ListActiveRuns(w) \/ EndCompare(w)
             \/ ListSources(w) \/ PickSource(w) \/ EndSources(w)
    BY <2>1, UnchangedRows
       DEF BeginTick, ListActiveRuns, EndCompare, ListSources, PickSource,
           EndSources
  <2> QED BY <1>0, <1>1, <2>1, MaintenanceSteps, InsertRunSteps DEF Maintain
<1>2. ASSUME NEW w \in Workers, Execute(w)
      PROVE  RowSteps
  <2>1. CASE \/ EndOpportunityTick(w) \/ LoadClaimed(w) \/ SelectExpected(w)
             \/ DetectCandidates(w) \/ ModelAnswers(w) \/ ModelFails(w)
             \/ CheckDetection(w) \/ Reselect(w) \/ ScoreAndPersist(w)
    BY <2>1, UnchangedRows
       DEF EndOpportunityTick, LoadClaimed, SelectExpected, DetectCandidates,
           ModelAnswers, ModelFails, CheckDetection, Reselect, ScoreAndPersist
  <2> QED BY <1>0, <1>2, <2>1, ClaimSteps, CompleteSteps, FailClaimedSteps
          DEF Execute
<1>3. ASSUME NEW w \in Workers,
             \/ Restart(w) \/ CompareFails(w) \/ ExtendLease(w)
             \/ StatementFails(w) \/ Crash(w) \/ Shutdown(w)
      PROVE  RowSteps
  BY <1>0, <1>3, MaintenanceSteps, ExtendLeaseSteps, UnchangedRows
     DEF Restart, StatementFails, Crash, Shutdown
<1>4. ASSUME NEW p \in Projects,
             \/ SourceSucceeds(p) \/ FactsChange(p) \/ Disconnect(p)
             \/ \E v \in Versions : EnqueueReprocessing(p, v)
      PROVE  RowSteps
  BY <1>0, <1>4, DisconnectSteps, EnqueueReprocessingSteps, UnchangedRows
     DEF SourceSucceeds, FactsChange
<1>5. CASE Tick \/ NextDay \/ UNCHANGED vars
  BY <1>5, UnchangedRows DEF Tick, NextDay, vars
<1> QED BY <1>1, <1>2, <1>3, <1>4, <1>5 DEF Next, WorkerStep

-----------------------------------------------------------------------------
(* What a step may do to the sources, the results and the opportunities      *)

\* Sources are added at the end, or deleted by a disconnection; days pass and
\* revisions grow.
LEMMA SourceSteps ==
    ASSUME [Next]_vars
    PROVE  \/ UNCHANGED sourceVars
           \/ \E p \in Projects :
                SourceSucceeds(p) \/ FactsChange(p) \/ Disconnect(p)
           \/ NextDay
<1>1. ASSUME NEW w \in Workers, Maintain(w)
      PROVE  UNCHANGED sourceVars
  BY <1>1 DEF Maintain, BeginTick, TerminalizeExhausted,
     TerminalizeStaleActiveRuns, ListActiveRuns, CompareInput, EndCompare,
     RequeueEligible, ListSources, PickSource, EndSources, InsertRun
<1>2. ASSUME NEW w \in Workers, Execute(w)
      PROVE  UNCHANGED sourceVars
  BY <1>2 DEF Execute, ClaimNext, EndOpportunityTick, LoadClaimed,
     SelectExpected, DetectCandidates, ModelAnswers, ModelFails,
     CheckDetection, Reselect, ScoreAndPersist, Complete, FailClaimed
<1>3. ASSUME NEW w \in Workers,
             \/ Restart(w) \/ CompareFails(w) \/ ExtendLease(w)
             \/ StatementFails(w) \/ Crash(w) \/ Shutdown(w)
      PROVE  UNCHANGED sourceVars
  BY <1>3 DEF Restart, CompareFails, ExtendLease, StatementFails, Crash,
     Shutdown
<1>4. ASSUME NEW p \in Projects, NEW v \in Versions, EnqueueReprocessing(p, v)
      PROVE  UNCHANGED sourceVars
  BY <1>4 DEF EnqueueReprocessing
<1>5. CASE Tick \/ UNCHANGED vars
  BY <1>5 DEF Tick, vars
<1> QED BY <1>1, <1>2, <1>3, <1>4, <1>5 DEF Next, WorkerStep

LEMMA SourcesGrow ==
    ASSUME TypeOK, [Next]_vars
    PROVE  /\ finished \in Int /\ finished' \in Int /\ finished <= finished'
           /\ today \in Int /\ today' \in Int /\ today <= today'
           /\ \A k \in Sources : k <= finished =>
                projectOf'[k] = projectOf[k] /\ dayOf'[k] = dayOf[k]
           /\ \A p \in Projects : facts[p] <= facts'[p]
<1>1. finished \in Int /\ today \in Int /\ \A p \in Projects : facts[p] \in Int
  BY ConstantTypes DEF TypeOK, Days
<1>2. CASE UNCHANGED sourceVars
  BY <1>1, <1>2 DEF sourceVars
<1>3. ASSUME NEW p \in Projects, SourceSucceeds(p)
      PROVE  /\ finished' = finished + 1
             /\ UNCHANGED <<today, facts>>
             /\ \A k \in Sources : k <= finished =>
                  projectOf'[k] = projectOf[k] /\ dayOf'[k] = dayOf[k]
  <2>1. PICK d : dayOf' = [dayOf EXCEPT ![finished + 1] = d]
    BY <1>3 DEF SourceSucceeds
  <2>2. projectOf' = [projectOf EXCEPT ![finished + 1] = p]
    BY <1>3 DEF SourceSucceeds
  <2>3. \A k \in Sources : k <= finished => k # finished + 1
    BY <1>1, ConstantTypes DEF Sources
  <2>4. \A k \in Sources : k <= finished =>
          projectOf'[k] = projectOf[k] /\ dayOf'[k] = dayOf[k]
    BY <2>1, <2>2, <2>3 DEF TypeOK
  <2> QED BY <1>3, <2>4 DEF SourceSucceeds
<1>4. ASSUME NEW p \in Projects, FactsChange(p)
      PROVE  /\ UNCHANGED <<today, projectOf, dayOf, finished>>
             /\ \A q \in Projects : facts[q] <= facts'[q]
  <2>1. facts' = [facts EXCEPT ![p] = facts[p] + 1]
    BY <1>4 DEF FactsChange
  <2>2. \A q \in Projects : facts[q] <= facts'[q]
    BY <1>1, <2>1 DEF TypeOK
  <2> QED BY <1>4, <2>2 DEF FactsChange
<1>5. ASSUME NEW p \in Projects, Disconnect(p)
      PROVE  UNCHANGED <<today, projectOf, dayOf, finished, facts>>
  BY <1>5 DEF Disconnect
<1>6. CASE NextDay
  BY <1>1, <1>6 DEF NextDay
<1> QED BY <1>1, <1>2, <1>3, <1>4, <1>5, <1>6, SourceSteps

LEMMA KnownStays ==
    ASSUME TypeOK, [Next]_vars, NEW e, Known(e)
    PROVE  /\ Known(e)'
           /\ projectOf'[e.source] = projectOf[e.source]
           /\ dayOf'[e.source] = dayOf[e.source]
<1>1. e.source \in Sources /\ e.source <= finished /\ e.source \in Int
  BY ConstantTypes DEF Known, Sources
<1> QED BY <1>1, SourcesGrow DEF Known

\* Only an attempt adds results and opportunities.
LEMMA EffectSteps ==
    ASSUME [Next]_vars
    PROVE  \/ UNCHANGED effectVars
           \/ \E w \in Workers : ModelAnswers(w) \/ ScoreAndPersist(w)
<1>1. ASSUME NEW w \in Workers, Maintain(w)
      PROVE  UNCHANGED effectVars
  BY <1>1 DEF Maintain, BeginTick, TerminalizeExhausted,
     TerminalizeStaleActiveRuns, ListActiveRuns, CompareInput, EndCompare,
     RequeueEligible, ListSources, PickSource, EndSources, InsertRun
<1>2. ASSUME NEW w \in Workers, Execute(w), ~ModelAnswers(w),
             ~ScoreAndPersist(w)
      PROVE  UNCHANGED effectVars
  BY <1>2 DEF Execute, ClaimNext, EndOpportunityTick, LoadClaimed,
     SelectExpected, DetectCandidates, ModelFails,
     CheckDetection, Reselect, Complete, FailClaimed
<1>3. ASSUME NEW w \in Workers,
             \/ Restart(w) \/ CompareFails(w) \/ ExtendLease(w)
             \/ StatementFails(w) \/ Crash(w) \/ Shutdown(w)
      PROVE  UNCHANGED effectVars
  BY <1>3 DEF Restart, CompareFails, ExtendLease, StatementFails, Crash,
     Shutdown
<1>4. ASSUME NEW p \in Projects,
             \/ SourceSucceeds(p) \/ FactsChange(p) \/ Disconnect(p)
             \/ \E v \in Versions : EnqueueReprocessing(p, v)
      PROVE  UNCHANGED effectVars
  BY <1>4 DEF SourceSucceeds, FactsChange, Disconnect, EnqueueReprocessing
<1>5. CASE Tick \/ NextDay \/ UNCHANGED vars
  BY <1>5 DEF Tick, NextDay, vars
<1> QED BY <1>1, <1>2, <1>3, <1>4, <1>5 DEF Next, WorkerStep

\* What is there stays, whoever writes; opportunities may only expire.
LEMMA EffectsGrow ==
    ASSUME IInv, [Next]_vars
    PROVE  /\ results \subseteq results'
           /\ DOMAIN opps \subseteq DOMAIN opps'
           /\ \A o \in DOMAIN opps :
                /\ opps'[o].candidate = opps[o].candidate
                /\ opps'[o].input = opps[o].input
                /\ opps'[o].day = opps[o].day
                /\ opps'[o].isCurrent => opps[o].isCurrent
<1>1. CASE UNCHANGED effectVars
  BY <1>1 DEF effectVars
<1>2. ASSUME NEW w \in Workers, ModelAnswers(w)
      PROVE  UNCHANGED opps /\ results \subseteq results'
  BY <1>2 DEF ModelAnswers
<1>3. ASSUME NEW w \in Workers, NEW created, Writes(w, created)
      PROVE  /\ DOMAIN opps \subseteq DOMAIN opps'
             /\ \A o \in DOMAIN opps :
                  /\ opps'[o].candidate = opps[o].candidate
                  /\ opps'[o].input = opps[o].input
                  /\ opps'[o].day = opps[o].day
                  /\ opps'[o].isCurrent => opps[o].isCurrent
  BY <1>3 DEF Writes
<1>4. ASSUME NEW w \in Workers, ScoreAndPersist(w)
      PROVE  /\ UNCHANGED results
             /\ UNCHANGED opps \/ \E created : Writes(w, created)
  BY <1>4, ScoreEffect DEF IInv, WorkersInv, ScoreAndPersist
<1> QED BY <1>1, <1>2, <1>3, <1>4, EffectSteps

LEMMA DetectedStays ==
    ASSUME IInv, [Next]_vars, NEW e, Detected(e)
    PROVE  Detected(e)'
BY EffectsGrow DEF Detected

LEMMA PersistedStays ==
    ASSUME IInv, [Next]_vars, NEW r, Persisted(r)
    PROVE  Persisted(r)'
<1> SUFFICES ASSUME NEW c \in r.candidates
             PROVE  \E o \in DOMAIN opps' :
                      opps'[o].candidate = c /\ opps'[o].input = r.input
  BY DEF Persisted, Identifies
<1>1. PICK o \in DOMAIN opps : opps[o].candidate = c /\ opps[o].input = r.input
  BY DEF Persisted, Identifies
<1> QED BY <1>1, EffectsGrow

\* A row that was inserted stays a row of that input until it is deleted.
LEMMA RowStays ==
    ASSUME IInv, [Next]_vars, NEW i \in Runs, runs[i].status # "none"
    PROVE  /\ runs'[i].status # "none"
           /\ Exists(i)' => Exists(i) /\ KeepsRun(i)
<1>1. RowStep(i)
  BY NextSteps DEF RowSteps
<1> QED BY <1>1 DEF RowStep, Creates, Exists, Active

-----------------------------------------------------------------------------
(* What a step may do to a worker                                            *)

OthersStay(w) == \A v \in Workers \ {w} : worker'[v] = worker[v]

Keeps(w) == /\ worker'[w].claim = worker[w].claim
            /\ worker'[w].input = worker[w].input
            /\ worker'[w].batch = worker[w].batch

\* From one statement of an attempt to the next.
Goes(w, from, to) == worker[w].pc = from /\ worker'[w].pc = to /\ Keeps(w)

Stays(w) == worker'[w].pc = worker[w].pc /\ Keeps(w)

\* Outside of an attempt, or out of it.
Waits(w) ==
    /\ worker'[w].pc \notin Executing \cup {"insert"}
    /\ \/ worker'[w].claim = NoClaim
       \/ worker[w].pc \notin Executing /\ worker'[w].claim = worker[w].claim
    /\ \A k \in worker'[w].batch : \/ k \in worker[w].batch
                                   \/ k \in Sources /\ k <= finished

Picks(w) ==
    /\ worker[w].pc = "pick" /\ worker'[w].pc = "insert"
    /\ worker'[w].claim = worker[w].claim
    /\ \E k \in worker[w].batch : worker'[w].input = Select(k)
    /\ worker'[w].batch \subseteq worker[w].batch

Claims(w) ==
    /\ worker'[w].pc = "load"
    /\ worker'[w].claim.run \in Runs
    /\ runs[worker'[w].claim.run].status # "none"
    /\ worker'[w].batch = worker[w].batch

GivesUp(w) ==
    /\ worker[w].pc \in Executing /\ worker'[w].pc = "failing"
    /\ Keeps(w)

Detects(w) ==
    /\ worker[w].pc = "detect"
    /\ worker'[w].claim = worker[w].claim
    /\ worker'[w].batch = worker[w].batch
    /\ Known(Expected(w))
    /\ worker'[w].input = Select(Expected(w).source)
    /\ \/ worker'[w].pc = "model"
       \/ worker'[w].pc = "check" /\ Detected(worker'[w].input)

Answers(w) ==
    /\ Goes(w, "model", "check")
    /\ \E r \in results' : r.input = worker[w].input

Checks(w) ==
    /\ Goes(w, "check", "reselect")
    /\ Owns(w)
    /\ worker[w].input = Expected(w)

Scores(w) ==
    /\ Goes(w, "score", "complete")
    /\ \E created \in SUBSET Candidates : Writes(w, created)

Move(w) == \/ Stays(w) \/ Waits(w) \/ Picks(w) \/ Claims(w) \/ GivesUp(w)
           \/ Goes(w, "load", "select") \/ Goes(w, "select", "detect")
           \/ Detects(w) \/ Answers(w) \/ Checks(w)
           \/ Goes(w, "reselect", "score") \/ Scores(w)

Moves(w) == Move(w) /\ OthersStay(w)

LEMMA GotoEffect ==
    ASSUME TypeOK, NEW w \in Workers, NEW label, Goto(w, label)
    PROVE  /\ worker'[w].pc = label
           /\ Keeps(w)
           /\ OthersStay(w)
BY DEF TypeOK, Goto, WorkerState, Keeps, OthersStay

LEMMA FailEffect ==
    ASSUME TypeOK, NEW w \in Workers, NEW f, Fail(w, f),
           worker[w].pc \in Executing
    PROVE  GivesUp(w) /\ OthersStay(w)
<1>1. worker[w] \in WorkerState /\ worker \in [Workers -> WorkerState]
  BY DEF TypeOK
<1> DEFINE s == [worker[w] EXCEPT !.pc = "failing", !.failure = f]
<1>2. /\ s.pc = "failing" /\ s.claim = worker[w].claim
      /\ s.input = worker[w].input /\ s.batch = worker[w].batch
  BY <1>1 DEF WorkerState
<1>3. worker' = [worker EXCEPT ![w] = s]
  BY DEF Fail
<1> HIDE DEF s
<1>4. worker'[w] = s /\ OthersStay(w)
  BY <1>1, <1>3 DEF OthersStay
<1> QED BY <1>2, <1>4 DEF GivesUp, Keeps

LEMMA EndTickEffect ==
    ASSUME TypeOK, NEW w \in Workers, EndTick(w)
    PROVE  Waits(w) /\ OthersStay(w)
<1> DEFINE s == [Fresh EXCEPT !.stopping = worker[w].stopping]
<1>1. s.pc = "idle" /\ s.claim = NoClaim /\ s.batch = {}
  BY DEF Fresh
<1>2. worker' = [worker EXCEPT ![w] = s]
  BY DEF EndTick
<1> HIDE DEF s
<1>3. worker'[w] = s /\ OthersStay(w)
  BY <1>2 DEF OthersStay, TypeOK
<1> QED BY <1>1, <1>3 DEF Waits, Executing

LEMMA FreshEffect ==
    ASSUME TypeOK, NEW w \in Workers, worker' = [worker EXCEPT ![w] = Fresh]
    PROVE  Waits(w) /\ OthersStay(w)
<1>1. worker'[w] = Fresh /\ OthersStay(w)
  BY DEF OthersStay, TypeOK
<1>2. Fresh.pc = "idle" /\ Fresh.claim = NoClaim /\ Fresh.batch = {}
  BY DEF Fresh
<1> QED BY <1>1, <1>2 DEF Waits, Executing

LEMMA MaintainMoves ==
    ASSUME TypeOK, NEW w \in Workers, Maintain(w) \/ CompareFails(w)
    PROVE  Moves(w)
<1>0. worker[w] \in WorkerState /\ worker \in [Workers -> WorkerState]
  BY DEF TypeOK
<1>1. ASSUME NEW label \in Waiting \ {"insert"}, worker[w].pc \notin Executing,
             Goto(w, label)
      PROVE  Moves(w)
  <2>1. label \notin Executing \cup {"insert"}
    BY DEF Waiting, Executing
  <2> QED BY <1>1, <2>1, GotoEffect DEF Moves, Move, Waits, Keeps
<1>2. CASE EndTick(w)
  BY <1>2, EndTickEffect DEF Moves, Move
<1>3. CASE BeginTick(w)
  <2>1. /\ worker'[w].pc = "exhaust"
        /\ Keeps(w)
        /\ OthersStay(w)
    BY <1>0, <1>3 DEF BeginTick, WorkerState, Keeps, OthersStay
  <2> QED BY <1>3, <2>1 DEF BeginTick, Moves, Move, Waits, Keeps, Executing
<1>4. CASE \/ TerminalizeExhausted(w) \/ TerminalizeStaleActiveRuns(w)
           \/ EndCompare(w) \/ RequeueEligible(w)
  <2>1. worker[w].pc \notin Executing
    BY <1>4 DEF TerminalizeExhausted, TerminalizeStaleActiveRuns, EndCompare,
                RequeueEligible, Executing
  <2> QED BY <1>1, <1>4, <2>1
          DEF TerminalizeExhausted, TerminalizeStaleActiveRuns, EndCompare,
              RequeueEligible, Waiting
<1>5. CASE ListActiveRuns(w)
  <2>1. PICK rows : worker' = [worker EXCEPT ![w] =
          [@ EXCEPT !.pc = "compare", !.rowsAt = clock, !.rows = rows]]
    BY <1>5 DEF ListActiveRuns
  <2>2. /\ worker'[w].pc = "compare"
        /\ Keeps(w)
        /\ OthersStay(w)
    BY <1>0, <2>1 DEF WorkerState, Keeps, OthersStay
  <2> QED BY <1>5, <2>2 DEF ListActiveRuns, Moves, Move, Waits, Keeps, Executing
<1>6. CASE CompareInput(w) \/ CompareFails(w)
  <2>1. PICK rows : worker' = [worker EXCEPT ![w].rows = rows]
    BY <1>6 DEF CompareInput, CompareFails
  <2>2. Stays(w) /\ OthersStay(w)
    BY <1>0, <2>1 DEF WorkerState, Stays, Keeps, OthersStay
  <2> QED BY <2>2 DEF Moves, Move
<1>7. CASE ListSources(w)
  <2>1. PICK batch \in SUBSET {k \in Sources : Discoverable(k)} :
          worker' = [worker EXCEPT ![w] =
            [@ EXCEPT !.pc = "pick", !.batch = batch]]
    BY <1>7 DEF ListSources
  <2>2. /\ worker'[w].pc = "pick"
        /\ worker'[w].claim = worker[w].claim
        /\ worker'[w].batch = batch
        /\ OthersStay(w)
    BY <1>0, <2>1 DEF WorkerState, OthersStay
  <2>3. \A k \in batch : k \in Sources /\ k <= finished
    BY DEF Discoverable, EligibleSource
  <2>4. worker[w].pc \notin Executing
    BY <1>7 DEF ListSources, Executing
  <2> QED BY <2>2, <2>3, <2>4 DEF Moves, Move, Waits, Executing
<1>8. CASE PickSource(w)
  <2>1. PICK k \in worker[w].batch :
          worker' = [worker EXCEPT ![w] =
            [@ EXCEPT !.pc = "insert", !.input = Select(k),
                      !.batch = worker[w].batch \ {k}]]
    BY <1>8 DEF PickSource
  <2>2. PICK e : e = Select(k)
    OBVIOUS
  <2>3. /\ worker'[w].pc = "insert"
        /\ worker'[w].claim = worker[w].claim
        /\ worker'[w].input = e
        /\ worker'[w].batch = worker[w].batch \ {k}
        /\ OthersStay(w)
    BY <1>0, <2>1, <2>2 DEF WorkerState, OthersStay
  <2> QED BY <1>8, <2>2, <2>3 DEF PickSource, Moves, Move, Picks
<1>9. CASE EndSources(w)
  <2>1. worker[w].pc \notin Executing
    BY <1>9 DEF EndSources, Executing
  <2> QED BY <1>1, <1>2, <1>9, <2>1 DEF EndSources, Waiting
<1>10. CASE InsertRun(w)
  <2>1. CASE worker' = [worker EXCEPT ![w] =
               [@ EXCEPT !.pc = "pick", !.input = NoInput]]
    <3>1. /\ worker'[w].pc = "pick"
          /\ worker'[w].claim = worker[w].claim
          /\ worker'[w].batch = worker[w].batch
          /\ OthersStay(w)
      BY <1>0, <2>1 DEF WorkerState, OthersStay
    <3> QED BY <1>10, <3>1 DEF InsertRun, Moves, Move, Waits, Executing
  <2> QED BY <1>2, <1>10, <2>1 DEF InsertRun
<1> QED BY <1>3, <1>4, <1>5, <1>6, <1>7, <1>8, <1>9, <1>10 DEF Maintain

LEMMA GoOnMoves ==
    ASSUME TypeOK, NEW w \in Workers, NEW ok, NEW label, NEW from \in Executing,
           worker[w].pc = from, GoOn(w, ok, label)
    PROVE  /\ OthersStay(w)
           /\ GivesUp(w) \/ (ok /\ Goes(w, from, label))
BY GotoEffect, FailEffect DEF GoOn, Goes

LEMMA ChecksMoves ==
    ASSUME TypeOK, NEW w \in Workers,
           \/ LoadClaimed(w) \/ SelectExpected(w)
           \/ CheckDetection(w) \/ Reselect(w)
    PROVE  Moves(w)
<1> USE DEF Moves, Move
<1>1. CASE LoadClaimed(w)
  <2>1. "load" \in Executing
    BY DEF Executing
  <2> QED BY <1>1, <2>1, GoOnMoves DEF LoadClaimed
<1>2. CASE SelectExpected(w)
  <2>1. "select" \in Executing
    BY DEF Executing
  <2> QED BY <1>2, <2>1, GoOnMoves DEF SelectExpected
<1>3. CASE CheckDetection(w)
  <2>1. "check" \in Executing
    BY DEF Executing
  <2>2. /\ OthersStay(w)
        /\ \/ GivesUp(w)
           \/ /\ Owns(w) /\ worker[w].input = Expected(w)
              /\ Goes(w, "check", "reselect")
    BY <1>3, <2>1, GoOnMoves DEF CheckDetection
  <2> QED BY <2>2 DEF Checks
<1>4. CASE Reselect(w)
  <2>1. "reselect" \in Executing
    BY DEF Executing
  <2> QED BY <1>4, <2>1, GoOnMoves DEF Reselect
<1> QED BY <1>1, <1>2, <1>3, <1>4

LEMMA DetectMoves ==
    ASSUME TypeOK, RowsInv, NEW w \in Workers, WorkerInv(w),
           DetectCandidates(w)
    PROVE  Moves(w)
<1>1. worker[w].pc = "detect" /\ worker[w].pc \in Executing
  BY DEF DetectCandidates, Executing
<1>2. CASE Fail(w, Permanent)
  BY <1>1, <1>2, FailEffect DEF Moves, Move
<1>3. ASSUME Expected(w) # NoInput,
             NEW e, e = Select(Expected(w).source),
             NEW label, label = IF Detected(e) THEN "check" ELSE "model",
             worker' = [worker EXCEPT ![w] =
               [@ EXCEPT !.pc = label, !.input = e]]
      PROVE  Moves(w)
  <2>1. Known(Expected(w))
    BY <1>1, <1>3, ExpectedKnown
  <2>2. /\ worker'[w].pc = label
        /\ worker'[w].input = e
        /\ worker'[w].claim = worker[w].claim
        /\ worker'[w].batch = worker[w].batch
        /\ OthersStay(w)
    BY <1>3 DEF TypeOK, WorkerState, OthersStay
  <2> QED BY <1>1, <1>3, <2>1, <2>2 DEF Moves, Move, Detects
<1> QED BY <1>2, <1>3 DEF DetectCandidates

LEMMA ModelMoves ==
    ASSUME TypeOK, NEW w \in Workers, ModelAnswers(w) \/ ModelFails(w)
    PROVE  Moves(w)
<1>1. CASE ModelAnswers(w)
  <2>1. Goes(w, "model", "check") /\ OthersStay(w)
    BY <1>1, GotoEffect DEF ModelAnswers, Goes
  <2>2. \E r \in results' : r.input = worker[w].input
    <3>1. ASSUME NEW r, r.input = worker[w].input, results' = results \cup {r}
          PROVE  \E q \in results' : q.input = worker[w].input
      BY <3>1
    <3>2. CASE Detected(worker[w].input) /\ results' = results
      BY <3>2 DEF Detected
    <3> QED BY <1>1, <3>1, <3>2 DEF ModelAnswers
  <2> QED BY <2>1, <2>2 DEF Moves, Move, Answers
<1>2. CASE ModelFails(w)
  <2>1. worker[w].pc \in Executing /\ \E f : Fail(w, f)
    BY <1>2 DEF ModelFails, Executing
  <2> QED BY <2>1, FailEffect DEF Moves, Move
<1> QED BY <1>1, <1>2

LEMMA ScoreMoves ==
    ASSUME TypeOK, NEW w \in Workers, WorkerInv(w), ScoreAndPersist(w)
    PROVE  Moves(w)
<1>1. worker[w].pc = "score" /\ worker[w].pc \in Executing
  BY DEF ScoreAndPersist, Executing
<1> QED BY <1>1, ScoreEffect, GotoEffect, FailEffect
        DEF Moves, Move, Scores, Goes

LEMMA EndMoves ==
    ASSUME TypeOK, NEW w \in Workers,
           \/ EndOpportunityTick(w) \/ Complete(w) \/ FailClaimed(w)
           \/ Restart(w) \/ Crash(w) \/ StatementFails(w)
    PROVE  Moves(w)
<1>1. CASE EndTick(w)
  BY <1>1, EndTickEffect DEF Moves, Move
<1>2. ASSUME NEW f, worker[w].pc \in Executing, Fail(w, f)
      PROVE  Moves(w)
  BY <1>2, FailEffect DEF Moves, Move
<1>3. CASE Restart(w) \/ Crash(w)
  BY <1>3, FreshEffect DEF Restart, Crash, Moves, Move
<1>4. CASE Complete(w)
  BY <1>1, <1>2, <1>4 DEF Complete, Executing
<1>5. CASE StatementFails(w)
  BY <1>1, <1>2, <1>5 DEF StatementFails, Executing
<1> QED BY <1>1, <1>3, <1>4, <1>5 DEF EndOpportunityTick, FailClaimed

LEMMA ClaimMoves ==
    ASSUME IInv, NEW w \in Workers, ClaimNext(w)
    PROVE  Moves(w)
<1>1. PICK i \in Runs :
        /\ Claimable(i, VersionOf[w], worker[w].now)
        /\ worker'[w].pc = "load"
        /\ worker'[w].claim.run = i
        /\ worker'[w].batch = worker[w].batch
        /\ \A v \in Workers \ {w} : worker'[v] = worker[v]
  BY ClaimNextEffect DEF IInv
<1>2. runs[i].status # "none"
  BY <1>1 DEF Claimable, Expired
<1> QED BY <1>1, <1>2 DEF Moves, Move, Claims, OthersStay

LEMMA ShutdownMoves ==
    ASSUME TypeOK, NEW w \in Workers, Shutdown(w)
    PROVE  Moves(w)
BY DEF Shutdown, TypeOK, WorkerState, Moves, Move, Stays, Keeps, OthersStay

\* A step moves one worker at most.
LEMMA NextMoves ==
    ASSUME IInv, [Next]_vars
    PROVE  UNCHANGED worker \/ \E w \in Workers : Moves(w)
<1>0. /\ TypeOK /\ RowsInv
      /\ \A w \in Workers : WorkerInv(w)
  BY DEF IInv, WorkersInv
<1>1. ASSUME NEW w \in Workers,
             \/ Maintain(w) \/ Execute(w) \/ Restart(w) \/ CompareFails(w)
             \/ StatementFails(w) \/ Crash(w) \/ Shutdown(w)
      PROVE  Moves(w)
  BY <1>0, <1>1, MaintainMoves, ChecksMoves, DetectMoves, ModelMoves,
     ScoreMoves, EndMoves, ClaimMoves, ShutdownMoves DEF Execute
<1>2. ASSUME NEW w \in Workers, ExtendLease(w)
      PROVE  UNCHANGED worker
  BY <1>2 DEF ExtendLease
<1>3. ASSUME NEW p \in Projects,
             \/ SourceSucceeds(p) \/ FactsChange(p) \/ Disconnect(p)
             \/ \E v \in Versions : EnqueueReprocessing(p, v)
      PROVE  UNCHANGED worker
  BY <1>3 DEF SourceSucceeds, FactsChange, Disconnect, EnqueueReprocessing
<1>4. CASE Tick \/ NextDay \/ UNCHANGED vars
  BY <1>4 DEF Tick, NextDay, vars
<1> QED BY <1>1, <1>2, <1>3, <1>4 DEF Next, WorkerStep

-----------------------------------------------------------------------------
(* The invariant is inductive                                                *)

LEMMA InitIInv == Init => IInv
<1> SUFFICES ASSUME Init
             PROVE  IInv
  OBVIOUS
<1>1. TypeOK
  BY InitTypeOK
<1>2. \A i \in Runs : runs[i] = NoRow
  BY DEF Init
<1>3. DOMAIN opps = {} /\ \A w \in Workers : worker[w] = Fresh
  BY DEF Init
<1>4. SourcesInv
  BY ConstantTypes DEF Init, SourcesInv, Sources
<1>5. /\ RowsInv /\ KeysAreUnique /\ SucceededIsPersisted
  BY <1>2, BlankRow DEF RowsInv, RowInv, KeysAreUnique, Exists,
     SucceededIsPersisted
<1>6. WorkersInv
  BY <1>3 DEF WorkersInv, WorkerInv, Fresh, Executing, Selected, Checked
<1>7. AdoptedFromRows
  <2>1. Adopted = {}
    BY <1>3 DEF Adopted, Fresh, Checked
  <2>2. [i \in Runs |-> NoInput] \in [Runs -> Input]
    BY BlankInput
  <2> QED BY <1>2, <2>1, <2>2, BlankRow DEF AdoptedFromRows, Exists
<1>8. OppsAreIdentified /\ OppsAreKnown /\ OneCurrentPerCandidate
  BY <1>3 DEF OppsAreIdentified, OppsAreKnown, OneCurrentPerCandidate
<1> QED BY <1>1, <1>4, <1>5, <1>6, <1>7, <1>8 DEF IInv

LEMMA NextSourcesInv ==
    ASSUME IInv, TypeOK', [Next]_vars
    PROVE  SourcesInv'
<1> SUFFICES ASSUME NEW k \in Sources, k <= finished'
             PROVE  projectOf'[k] \in Projects /\ dayOf'[k] \in 1..today'
  BY DEF SourcesInv
<1>1. TypeOK /\ SourcesInv
  BY DEF IInv
<1>2. k \in Int /\ finished \in Int /\ today \in Int /\ today' \in Int
      /\ today <= today'
  BY <1>1, ConstantTypes, SourcesGrow DEF Sources
<1>3. CASE k <= finished
  <2>1. projectOf[k] \in Projects /\ dayOf[k] \in 1..today
    BY <1>1, <1>3 DEF SourcesInv
  <2> QED BY <1>1, <1>2, <1>3, <2>1, SourcesGrow
<1>4. ASSUME NEW p \in Projects, SourceSucceeds(p), k = finished + 1
      PROVE  projectOf'[k] \in Projects /\ dayOf'[k] \in 1..today'
  <2>1. PICK d \in 1..today : dayOf' = [dayOf EXCEPT ![finished + 1] = d]
    BY <1>4 DEF SourceSucceeds
  <2>2. /\ projectOf' = [projectOf EXCEPT ![finished + 1] = p]
        /\ today' = today
    BY <1>4 DEF SourceSucceeds
  <2> QED BY <1>1, <1>4, <2>1, <2>2 DEF TypeOK
<1>5. CASE ~(k <= finished)
  <2>1. finished' # finished
    BY <1>2, <1>5
  <2>2. PICK p \in Projects : SourceSucceeds(p)
    BY <2>1, SourceSteps DEF FactsChange, Disconnect, NextDay, sourceVars
  <2>3. k = finished + 1
    BY <1>2, <1>5, <2>2 DEF SourceSucceeds
  <2> QED BY <1>4, <2>2, <2>3
<1> QED BY <1>3, <1>5

LEMMA NextRowsInv ==
    ASSUME IInv, TypeOK', [Next]_vars
    PROVE  RowsInv'
<1> SUFFICES ASSUME NEW i \in Runs
             PROVE  RowInv(i)'
  BY DEF RowsInv
<1>1. RowStep(i) /\ RowInv(i) /\ TypeOK
  BY NextSteps DEF RowSteps, IInv, RowsInv
<1> DEFINE KnownNow(e) == e.source \in Sources /\ e.source <= finished'
<1>2. \A e : Known(e) => KnownNow(e)
  BY <1>1, KnownStays DEF Known
<1>3. CASE Creates(i)
  BY <1>2, <1>3 DEF Creates, RowInv, Exists, Known
<1>4. CASE /\ Exists(i)
           /\ runs'[i].status = "deleted" /\ runs'[i].attempts = 0
           /\ runs'[i].input = NoInput
  BY <1>4 DEF RowInv, Exists
<1>5. ASSUME KeepsRun(i), Exists(i)
      PROVE  KnownNow(runs'[i].input) /\ runs'[i].version \in Versions
  BY <1>1, <1>2, <1>5 DEF RowInv, KeepsRun
<1>6. CASE /\ KeepsRun(i)
           /\ runs'[i].status = runs[i].status
           /\ runs'[i].attempts = runs[i].attempts
           /\ runs'[i].leaseToken = runs[i].leaseToken
  BY <1>1, <1>5, <1>6 DEF RowInv, KeepsRun, Exists, Known
<1>7. CASE KeepsRun(i) /\ runs[i].status \in Active
  BY <1>1, <1>5, <1>7 DEF RowStep, RowInv, KeepsRun, Exists, Known, Active,
                          Creates
<1> QED BY <1>1, <1>3, <1>4, <1>6, <1>7 DEF RowStep, Active

\* Two rows of one key would have been two of it before, or one of them is new.
LEMMA NextKeysAreUnique ==
    ASSUME IInv, [Next]_vars
    PROVE  KeysAreUnique'
<1> SUFFICES ASSUME NEW i \in Runs, NEW j \in Runs,
                    Exists(i)', Exists(j)',
                    runs'[i].input = runs'[j].input,
                    runs'[i].version = runs'[j].version
             PROVE  i = j
  BY DEF KeysAreUnique
<1>1. \A l \in Runs :
        Exists(l)' => Creates(l) \/ (Exists(l) /\ KeepsRun(l))
  <2> SUFFICES ASSUME NEW l \in Runs, Exists(l)'
               PROVE  Creates(l) \/ (Exists(l) /\ KeepsRun(l))
    OBVIOUS
  <2>1. RowStep(l)
    BY NextSteps DEF RowSteps
  <2> QED BY <2>1 DEF RowStep, Exists, Active
<1>2. ASSUME NEW l \in Runs, NEW m \in Runs, l # m, Creates(l),
             Exists(m) /\ KeepsRun(m),
             runs'[l].input = runs'[m].input,
             runs'[l].version = runs'[m].version
      PROVE  FALSE
  BY <1>2 DEF Creates, KeyTaken, KeepsRun, Exists
<1>3. CASE Creates(i) /\ Creates(j)
  BY <1>3 DEF Creates
<1>4. CASE Exists(i) /\ KeepsRun(i) /\ Exists(j) /\ KeepsRun(j)
  BY <1>4 DEF IInv, KeysAreUnique, KeepsRun
<1> QED BY <1>1, <1>2, <1>3, <1>4

LEMMA ClaimStays ==
    ASSUME IInv, [Next]_vars, NEW w \in Workers, worker[w].pc \in Executing,
           NEW i, i = worker[w].claim.run
    PROVE  /\ i \in Runs /\ runs'[i].status # "none"
           /\ Exists(i)' => Exists(i) /\ runs'[i].input = runs[i].input
<1>1. i \in Runs /\ runs[i].status # "none"
  BY DEF IInv, WorkersInv, WorkerInv
<1> QED BY <1>1, RowStays DEF KeepsRun

\* From one statement of an attempt to the next, with the input it selected.
GoesOn(w) == \/ Answers(w) \/ Checks(w)
             \/ Goes(w, "reselect", "score") \/ Scores(w)

\* The moves, by what they do to the input the worker has selected.
LEMMA MoveKinds ==
    ASSUME NEW w \in Workers, Move(w)
    PROVE  \/ Stays(w)
           \/ GoesOn(w)
           \/ Picks(w)
           \/ Detects(w)
           \/ worker'[w].pc \notin Selected
BY DEF Move, GoesOn, Waits, Claims, GivesUp, Goes, Selected, Executing

LEMMA MoveKeepsClaim ==
    ASSUME IInv, [Next]_vars, NEW w \in Workers, Move(w)
    PROVE  IF worker'[w].pc \in Executing
           THEN /\ worker'[w].claim.run \in Runs
                /\ runs'[worker'[w].claim.run].status # "none"
           ELSE worker'[w].claim = NoClaim
<1>1. WorkerInv(w)
  BY DEF IInv, WorkersInv
<1>2. CASE Claims(w)
  BY <1>2, RowStays DEF Claims, Executing
<1>3. CASE Waits(w)
  BY <1>1, <1>3 DEF Waits, WorkerInv
<1>4. CASE Picks(w)
  BY <1>1, <1>4 DEF Picks, WorkerInv, Executing
<1>5. CASE Stays(w)
  BY <1>1, <1>5, ClaimStays DEF Stays, Keeps, WorkerInv
<1>6. CASE /\ worker[w].pc \in Executing /\ worker'[w].pc \in Executing
           /\ worker'[w].claim = worker[w].claim
  BY <1>6, ClaimStays
<1> QED BY <1>2, <1>3, <1>4, <1>5, <1>6
        DEF Move, GivesUp, Goes, Detects, Answers, Checks, Scores, Keeps,
            Executing

LEMMA MoveKeepsBatch ==
    ASSUME IInv, [Next]_vars, NEW w \in Workers, Move(w),
           NEW k \in worker'[w].batch
    PROVE  k \in Sources /\ k <= finished'
<1>1. k \in Sources /\ k <= finished
  BY DEF IInv, WorkersInv, WorkerInv, Move, Stays, Waits, Picks, Claims,
     GivesUp, Goes, Detects, Answers, Checks, Scores, Keeps
<1> QED BY <1>1, SourcesGrow, ConstantTypes DEF IInv, Sources

LEMMA MoveKeepsKnown ==
    ASSUME IInv, [Next]_vars, NEW w \in Workers, Move(w),
           worker'[w].pc \in Selected
    PROVE  /\ worker'[w].input.source \in Sources
           /\ worker'[w].input.source <= finished'
<1>1. /\ WorkerInv(w) /\ TypeOK /\ SourcesInv
  BY DEF IInv, WorkersInv
<1>2. \A e : Known(e) => e.source \in Sources /\ e.source <= finished'
  BY <1>1, KnownStays DEF Known
<1>3. CASE Stays(w) \/ GoesOn(w)
  BY <1>1, <1>2, <1>3 DEF Stays, GoesOn, Answers, Checks, Scores, Goes, Keeps,
     WorkerInv, Selected
<1>4. CASE Picks(w)
  <2>1. PICK k \in worker[w].batch : worker'[w].input = Select(k)
    BY <1>4 DEF Picks
  <2>2. k \in Sources /\ k <= finished
    BY <1>1 DEF WorkerInv
  <2>3. Known(worker'[w].input)
    BY <1>1, <2>1, <2>2, SelectType DEF Known
  <2> QED BY <1>2, <2>3
<1>5. CASE Detects(w)
  <2>1. Known(Expected(w)) /\ worker'[w].input = Select(Expected(w).source)
    BY <1>5 DEF Detects
  <2>2. Known(worker'[w].input)
    BY <1>1, <2>1, SelectType DEF Known
  <2> QED BY <1>2, <2>2
<1> QED BY <1>3, <1>4, <1>5, MoveKinds

LEMMA MoveKeepsDetected ==
    ASSUME IInv, [Next]_vars, NEW w \in Workers, Move(w),
           worker'[w].pc \in Checked \cup {"check"}
    PROVE  \E r \in results' : r.input = worker'[w].input
<1>1. WorkerInv(w) /\ results \subseteq results'
  BY EffectsGrow DEF IInv, WorkersInv
<1>2. worker'[w].pc \in Selected
  BY DEF Checked, Selected
<1>3. CASE Stays(w)
  BY <1>1, <1>3 DEF Stays, Keeps, WorkerInv, Detected
<1>4. CASE Answers(w)
  BY <1>4 DEF Answers, Goes, Keeps
<1>5. CASE Checks(w) \/ Goes(w, "reselect", "score") \/ Scores(w)
  BY <1>1, <1>5 DEF Checks, Scores, Goes, Keeps, WorkerInv, Detected, Checked
<1>6. CASE Detects(w)
  BY <1>1, <1>6 DEF Detects, Detected, Checked
<1>7. ~Picks(w)
  BY DEF Picks, Checked
<1> QED BY <1>2, <1>3, <1>4, <1>5, <1>6, <1>7, MoveKinds DEF GoesOn

LEMMA MoveKeepsInput ==
    ASSUME IInv, [Next]_vars, NEW w \in Workers, Move(w),
           worker'[w].pc \in Checked, NEW i, i = worker'[w].claim.run,
           Exists(i)'
    PROVE  runs'[i].input = worker'[w].input
<1>1. WorkerInv(w)
  BY DEF IInv, WorkersInv
<1>2. worker'[w].pc \in Selected /\ Checked \subseteq Executing
  BY DEF Checked, Selected, Executing
<1>3. /\ worker[w].pc \in Executing
      /\ worker'[w].claim = worker[w].claim
      /\ worker'[w].input = worker[w].input
      /\ worker[w].pc \in Checked \/ worker[w].input = Expected(w)
  <2>1. CASE Stays(w)
    BY <1>2, <2>1 DEF Stays, Keeps
  <2>2. CASE Checks(w) \/ Goes(w, "reselect", "score") \/ Scores(w)
    BY <2>2 DEF Checks, Scores, Goes, Keeps, Checked, Executing
  <2>3. ~Picks(w) /\ ~Detects(w) /\ ~Answers(w)
    BY DEF Picks, Detects, Answers, Goes, Checked
  <2> QED BY <1>2, <2>1, <2>2, <2>3, MoveKinds DEF GoesOn
<1>4. Exists(i) /\ runs'[i].input = runs[i].input
  BY <1>3, ClaimStays
<1> QED BY <1>1, <1>3, <1>4 DEF WorkerInv, Expected

LEMMA MoveKeepsPersisted ==
    ASSUME IInv, [Next]_vars, NEW w \in Workers, Move(w),
           worker'[w].pc = "complete"
    PROVE  \E r \in results' : r.input = worker'[w].input /\ Persisted(r)'
<1>1. WorkerInv(w) /\ results \subseteq results'
  BY EffectsGrow DEF IInv, WorkersInv
<1>2. CASE Stays(w)
  BY <1>1, <1>2, PersistedStays DEF Stays, Keeps, WorkerInv
<1>3. CASE Scores(w)
  BY <1>1, <1>3 DEF Scores, Goes, Keeps, Writes
<1>4. /\ ~Picks(w) /\ ~Detects(w) /\ ~Answers(w) /\ ~Checks(w)
      /\ ~Goes(w, "reselect", "score")
  BY DEF Picks, Detects, Answers, Checks, Goes
<1> QED BY <1>2, <1>3, <1>4, MoveKinds DEF GoesOn, Selected

LEMMA NextWorkersInv ==
    ASSUME IInv, [Next]_vars
    PROVE  WorkersInv'
<1> SUFFICES ASSUME NEW w \in Workers
             PROVE  WorkerInv(w)'
  BY DEF WorkersInv
<1>1. Move(w)
  BY NextMoves DEF Moves, OthersStay, Move, Stays, Keeps
<1>2. /\ IF worker'[w].pc \in Executing
         THEN /\ worker'[w].claim.run \in Runs
              /\ runs'[worker'[w].claim.run].status # "none"
         ELSE worker'[w].claim = NoClaim
      /\ \A k \in worker'[w].batch : k \in Sources /\ k <= finished'
  BY <1>1, MoveKeepsClaim, MoveKeepsBatch
<1>3. /\ worker'[w].pc \in Selected =>
           /\ worker'[w].input.source \in Sources
           /\ worker'[w].input.source <= finished'
      /\ worker'[w].pc \in Checked \cup {"check"} =>
           \E r \in results' : r.input = worker'[w].input
  BY <1>1, MoveKeepsKnown, MoveKeepsDetected
<1>4. worker'[w].pc \in Checked
        /\ runs'[worker'[w].claim.run].status \notin {"none", "deleted"}
      => runs'[worker'[w].claim.run].input = worker'[w].input
  <2>1. PICK i : i = worker'[w].claim.run
    OBVIOUS
  <2> QED BY <1>1, <2>1, MoveKeepsInput DEF Exists
<1>5. worker'[w].pc = "complete" =>
        \E r \in results' : r.input = worker'[w].input /\ Persisted(r)'
  BY <1>1, MoveKeepsPersisted
<1> QED BY <1>2, <1>3, <1>4, <1>5 DEF WorkerInv, Known, Detected, Exists

\* An opportunity was there, or it is written for the input of an attempt that
\* has been checked.
LEMMA OppSteps ==
    ASSUME IInv, [Next]_vars
    PROVE  \/ /\ DOMAIN opps' = DOMAIN opps
              /\ \A o \in DOMAIN opps :
                   /\ opps'[o].candidate = opps[o].candidate
                   /\ opps'[o].input = opps[o].input
                   /\ opps'[o].isCurrent => opps[o].isCurrent
           \/ \E w \in Workers : /\ worker[w].pc = "score"
                                 /\ Known(worker[w].input)
                                 /\ \E created : Writes(w, created)
<1>1. CASE UNCHANGED opps
  BY <1>1
<1>2. ASSUME NEW w \in Workers, ModelAnswers(w)
      PROVE  UNCHANGED opps
  BY <1>2 DEF ModelAnswers
<1>3. ASSUME NEW w \in Workers, ScoreAndPersist(w)
      PROVE  \/ UNCHANGED opps
             \/ /\ worker[w].pc = "score" /\ Known(worker[w].input)
                /\ \E created : Writes(w, created)
  <2>1. WorkerInv(w) /\ worker[w].pc = "score" /\ TypeOK
    BY <1>3 DEF IInv, WorkersInv, ScoreAndPersist
  <2>2. Known(worker[w].input)
    BY <2>1 DEF WorkerInv, Selected
  <2> QED BY <1>3, <2>1, <2>2, ScoreEffect
<1> QED BY <1>1, <1>2, <1>3, EffectSteps DEF effectVars

LEMMA AdoptedSteps ==
    ASSUME IInv, [Next]_vars, NEW e, e \in Adopted'
    PROVE  \/ e \in Adopted
           \/ \E i \in Runs : Exists(i) /\ runs[i].input = e
<1>1. ASSUME NEW o \in DOMAIN opps', e = opps'[o].input
      PROVE  e \in Adopted
  <2>1. ASSUME NEW w \in Workers, worker[w].pc = "score",
               NEW created, Writes(w, created)
        PROVE  e \in Adopted
    <3>1. CASE o \in DOMAIN opps
      BY <1>1, <2>1, <3>1 DEF Writes, Adopted
    <3>2. CASE o \notin DOMAIN opps
      <4>1. e = worker[w].input
        BY <1>1, <2>1, <3>2 DEF Writes
      <4> QED BY <2>1, <4>1 DEF Adopted, Checked
    <3> QED BY <3>1, <3>2
  <2>2. CASE /\ DOMAIN opps' = DOMAIN opps
             /\ \A q \in DOMAIN opps : opps'[q].input = opps[q].input
    BY <1>1, <2>2 DEF Adopted
  <2> QED BY <2>1, <2>2, OppSteps
<1>2. ASSUME NEW w \in Workers, worker'[w].pc \in Checked,
             e = worker'[w].input
      PROVE  \/ e \in Adopted
             \/ \E i \in Runs : Exists(i) /\ runs[i].input = e
  <2>1. Move(w)
    BY NextMoves DEF Moves, OthersStay, Move, Stays, Keeps
  <2>2. worker'[w].pc \in Selected
    BY <1>2 DEF Checked, Selected
  <2>3. CASE Stays(w)
    BY <1>2, <2>3 DEF Stays, Keeps, Adopted
  <2>4. CASE Goes(w, "reselect", "score") \/ Scores(w)
    <3>1. worker[w].pc \in Checked /\ worker[w].input = e
      BY <1>2, <2>4 DEF Goes, Scores, Keeps, Checked
    <3> QED BY <3>1 DEF Adopted
  <2>5. CASE Checks(w)
    <3>1. PICK i : i = worker[w].claim.run
      OBVIOUS
    <3>2. i \in Runs /\ runs[i].status = "running" /\ runs[i].input = e
      BY <1>2, <2>5, <3>1
         DEF Checks, Goes, Keeps, Owns, Expected, IInv, WorkersInv, WorkerInv,
             Executing
    <3> QED BY <3>2 DEF Exists
  <2>6. ~Picks(w) /\ ~Detects(w) /\ ~Answers(w)
    BY <1>2 DEF Picks, Detects, Answers, Goes, Checked
  <2> QED BY <2>1, <2>2, <2>3, <2>4, <2>5, <2>6, MoveKinds DEF GoesOn
<1> QED BY <1>1, <1>2 DEF Adopted

LEMMA NextAdoptedFromRows ==
    ASSUME IInv, TypeOK', [Next]_vars
    PROVE  AdoptedFromRows'
<1>1. PICK f \in [Runs -> Input] :
        /\ \A i \in Runs : Exists(i) => f[i] = runs[i].input
        /\ \A e \in Adopted :
             \E i \in Runs : runs[i].status # "none" /\ f[i] = e
  BY DEF IInv, AdoptedFromRows
<1>2. \A e \in Adopted' : \E i \in Runs :
        /\ runs[i].status # "none" /\ runs'[i].status # "none"
        /\ f[i] = e
  <2> SUFFICES ASSUME NEW e, e \in Adopted'
               PROVE  \E i \in Runs : /\ runs[i].status # "none"
                                      /\ runs'[i].status # "none"
                                      /\ f[i] = e
    OBVIOUS
  <2>1. PICK i \in Runs : runs[i].status # "none" /\ f[i] = e
    BY <1>1, AdoptedSteps DEF Exists
  <2> QED BY <2>1, RowStays
<1>3. CASE \A i \in Runs : ~Creates(i)
  <2>1. ASSUME NEW i \in Runs, Exists(i)'
        PROVE  f[i] = runs'[i].input
    <3>1. RowStep(i) /\ ~Creates(i)
      BY <1>3, NextSteps DEF RowSteps
    <3>2. runs[i].status # "none"
      BY <2>1, <3>1 DEF RowStep, Exists, Active
    <3>3. Exists(i) /\ KeepsRun(i)
      BY <2>1, <3>2, RowStays
    <3> QED BY <1>1, <3>3 DEF KeepsRun
  <2> QED BY <1>2, <2>1 DEF AdoptedFromRows
<1>4. ASSUME NEW j \in Runs, Creates(j)
      PROVE  AdoptedFromRows'
  <2>1. PICK d \in Input : d = runs'[j].input
    BY DEF TypeOK, Row
  <2>2. PICK g \in [Runs -> Input] : g = [f EXCEPT ![j] = d]
    OBVIOUS
  <2>3. g[j] = d /\ \A i \in Runs \ {j} : g[i] = f[i]
    BY <2>2
  <2>4. ASSUME NEW i \in Runs, Exists(i)'
        PROVE  g[i] = runs'[i].input
    BY <1>1, <1>4, <2>1, <2>3, <2>4 DEF Creates, Exists
  <2>5. \A e \in Adopted' : \E i \in Runs : runs'[i].status # "none" /\ g[i] = e
    BY <1>2, <1>4, <2>3 DEF Creates
  <2> QED BY <2>4, <2>5 DEF AdoptedFromRows
<1> QED BY <1>3, <1>4

\* No two opportunities of one identity, and no two current ones of a candidate
\* of a project: what the transaction leaves of the old ones and what it adds
\* exclude each other.
LEMMA NextOpps ==
    ASSUME IInv, [Next]_vars
    PROVE  /\ OppsAreIdentified' /\ OppsAreKnown'
           /\ OneCurrentPerCandidate'
<1>0. /\ TypeOK /\ OppsAreIdentified /\ OppsAreKnown
      /\ OneCurrentPerCandidate
  BY DEF IInv
<1> DEFINE KnownNow(e) == /\ e.source \in Sources
                          /\ e.source <= finished'
                          /\ projectOf'[e.source] = projectOf[e.source]
<1>1. \A e : Known(e) => KnownNow(e)
  BY <1>0, KnownStays DEF Known
<1> DEFINE Same(o, q) == /\ opps'[o].candidate = opps'[q].candidate
                         /\ opps'[o].input = opps'[q].input
           Both(o, q) ==
             /\ opps'[o].isCurrent /\ opps'[q].isCurrent
             /\ opps'[o].candidate = opps'[q].candidate
             /\ projectOf'[opps'[o].input.source]
                  = projectOf'[opps'[q].input.source]
<1> SUFFICES /\ \A o, q \in DOMAIN opps' : Same(o, q) \/ Both(o, q) => o = q
             /\ \A o \in DOMAIN opps' : KnownNow(opps'[o].input)
  BY DEF OppsAreIdentified, OppsAreKnown, OneCurrentPerCandidate, Known
<1>2. CASE /\ DOMAIN opps' = DOMAIN opps
           /\ \A o \in DOMAIN opps :
                /\ opps'[o].candidate = opps[o].candidate
                /\ opps'[o].input = opps[o].input
                /\ opps'[o].isCurrent => opps[o].isCurrent
  <2>1. \A o \in DOMAIN opps' : KnownNow(opps'[o].input)
    BY <1>0, <1>1, <1>2 DEF OppsAreKnown
  <2>2. ASSUME NEW o \in DOMAIN opps', NEW q \in DOMAIN opps',
               Same(o, q) \/ Both(o, q)
        PROVE  o = q
    BY <1>0, <1>2, <2>1, <2>2 DEF OppsAreIdentified, OneCurrentPerCandidate
  <2> QED BY <2>1, <2>2
<1>3. ASSUME NEW w \in Workers, Known(worker[w].input),
             NEW created, Writes(w, created)
      PROVE  /\ \A o, q \in DOMAIN opps' : Same(o, q) \/ Both(o, q) => o = q
             /\ \A o \in DOMAIN opps' : KnownNow(opps'[o].input)
  <2> DEFINE e == worker[w].input
             new == DOMAIN opps' \ DOMAIN opps
  <2>1. \A o \in new : /\ opps'[o].candidate \in created
                       /\ opps'[o].input = e
    BY <1>3 DEF Writes
  <2>2. \A o \in DOMAIN opps :
          /\ opps'[o].candidate = opps[o].candidate
          /\ opps'[o].input = opps[o].input
          /\ opps'[o].isCurrent =>
               /\ opps[o].isCurrent
               /\ \/ projectOf[opps[o].input.source] # projectOf[e.source]
                  \/ opps[o].candidate \notin created
          /\ opps[o].input = e => opps[o].candidate \notin created
    BY <1>3 DEF Writes
  <2>3. \A o, q \in new : opps'[o].candidate = opps'[q].candidate => o = q
    BY <1>3 DEF Writes
  <2>4. \A o \in DOMAIN opps' : KnownNow(opps'[o].input)
    BY <1>0, <1>1, <1>3, <2>1, <2>2 DEF OppsAreKnown
  <2>5. ASSUME NEW o \in DOMAIN opps, NEW q \in new
        PROVE  ~Same(o, q) /\ ~Both(o, q) /\ ~Same(q, o) /\ ~Both(q, o)
    BY <1>1, <1>3, <2>1, <2>2, <2>4, <2>5 DEF Writes
  <2>6. ASSUME NEW o \in DOMAIN opps, NEW q \in DOMAIN opps,
               Same(o, q) \/ Both(o, q)
        PROVE  o = q
    <3>1. /\ projectOf'[opps[o].input.source] = projectOf[opps[o].input.source]
          /\ projectOf'[opps[q].input.source] = projectOf[opps[q].input.source]
      BY <1>0, <1>1 DEF OppsAreKnown
    <3> QED BY <1>0, <2>2, <2>6, <3>1
            DEF OppsAreIdentified, OneCurrentPerCandidate
  <2> QED BY <2>1, <2>3, <2>4, <2>5, <2>6
<1> QED BY <1>2, <1>3, OppSteps

LEMMA NextSucceededIsPersisted ==
    ASSUME IInv, [Next]_vars
    PROVE  SucceededIsPersisted'
<1> SUFFICES ASSUME NEW i \in Runs, runs'[i].status = "succeeded"
             PROVE  \E r \in results' : r.input = runs'[i].input /\ Persisted(r)'
  BY DEF SucceededIsPersisted, Persisted, Identifies
<1>1. RowStep(i)
  BY NextSteps DEF RowSteps
<1>2. KeepsRun(i) /\ (runs[i].status = "succeeded" \/ Completes(i))
  BY <1>1 DEF RowStep, Creates
<1>3. PICK r \in results : r.input = runs[i].input /\ Persisted(r)
  <2>1. CASE runs[i].status = "succeeded"
    BY <2>1 DEF IInv, SucceededIsPersisted, Persisted, Identifies
  <2>2. CASE Completes(i)
    <3>1. PICK w \in Workers : Complete(w) /\ Owns(w) /\ worker[w].claim.run = i
      BY <2>2 DEF Completes
    <3>2. /\ WorkerInv(w) /\ worker[w].pc = "complete" /\ Exists(i)
      BY <3>1 DEF IInv, WorkersInv, Complete, Owns, Exists
    <3> QED BY <3>1, <3>2 DEF WorkerInv, Checked
  <2> QED BY <1>2, <2>1, <2>2
<1>4. Persisted(r)' /\ r \in results'
  BY <1>3, PersistedStays, EffectsGrow
<1> QED BY <1>2, <1>3, <1>4 DEF KeepsRun

LEMMA NextIInv == IInv /\ [Next]_vars => IInv'
<1> SUFFICES ASSUME IInv, [Next]_vars
             PROVE  IInv'
  OBVIOUS
<1>1. TypeOK'
  BY NextType
<1>2. SourcesInv' /\ RowsInv' /\ KeysAreUnique'
  BY <1>1, NextSourcesInv, NextRowsInv, NextKeysAreUnique
<1>3. WorkersInv' /\ AdoptedFromRows'
  BY <1>1, NextWorkersInv, NextAdoptedFromRows
<1>4. /\ OppsAreIdentified' /\ OppsAreKnown' /\ OneCurrentPerCandidate'
      /\ SucceededIsPersisted'
  BY NextOpps, NextSucceededIsPersisted
<1> QED BY <1>1, <1>2, <1>3, <1>4 DEF IInv

LEMMA IInvHolds == Spec => []IInv
<1> QED BY InitIInv, NextIInv, PTL DEF Spec

-----------------------------------------------------------------------------
(* The theorems                                                              *)

\* Every variable keeps its type: in particular no claim counts an attempt
\* beyond MaxAttempts, and there is never more than one opportunity for each
\* candidate of each run (claimNext, scoreAndPersist).
THEOREM TypeCorrect == Spec => []TypeOK
<1>1. IInv => TypeOK
  BY DEF IInv
<1> QED BY <1>1, IInvHolds, PTL

\* Whichever attempts of whichever processes persist, for whichever inputs and
\* however stale, the partial unique index on current opportunities never
\* refuses an insert (scoreAndPersist).
THEOREM CandidatesAreExclusive == Spec => []OneCurrentPerCandidate
<1>1. IInv => OneCurrentPerCandidate
  BY DEF IInv
<1> QED BY <1>1, IInvHolds, PTL

\* A run that succeeded has a result of the input it was queued for, and an
\* opportunity of that input for every candidate in it, whichever attempts
\* detected, persisted and completed.
THEOREM SucceededRunsArePersisted == Spec => []SucceededIsPersisted
<1>1. IInv => SucceededIsPersisted
  BY DEF IInv
<1> QED BY <1>1, IInvHolds, PTL

\* A run that succeeded or failed for good keeps that outcome until its source
\* is deleted, though processes of every version terminalize, end for a stale
\* input and requeue runs they hold no lease on.
THEOREM OutcomesAreFinal == Spec => OutcomeIsFinal
<1>1. IInv /\ [Next]_vars =>
        [\A i \in Runs : runs[i].status \in Settled =>
            runs'[i].status \in {runs[i].status, "deleted"}]_vars
  <2> SUFFICES ASSUME IInv, [Next]_vars, NEW i \in Runs,
                      runs[i].status \in Settled
               PROVE  runs'[i].status \in {runs[i].status, "deleted"}
    OBVIOUS
  <2>1. RowStep(i)
    BY NextSteps DEF RowSteps
  <2> QED BY <2>1 DEF RowStep, Creates, Settled, Active
<1> QED BY <1>1, IInvHolds, PTL DEF Spec, OutcomeIsFinal

LEMMA LateWorkerStep ==
    ASSUME IInv, [Next]_vars, NEW w \in Workers, NEW i,
           i = worker[w].claim.run, i # None, worker'[w] # worker[w],
           worker[w].claim.token < runs[i].attempts
    PROVE  runs'[i] = runs[i]
<1>0. TypeOK /\ RowsInv /\ WorkerInv(w) /\ \A v \in Workers : WorkerInv(v)
  BY DEF IInv, WorkersInv
<1>1. worker[w].pc \in Executing /\ i \in Runs
  BY <1>0 DEF WorkerInv, NoClaim
<1>2. ~Owns(w)
  <2> SUFFICES ASSUME Owns(w)
               PROVE  FALSE
    OBVIOUS
  <2>1. runs[i].attempts = worker[w].claim.token
    BY <1>0, <1>1 DEF Owns, RowsInv, RowInv
  <2>2. runs[i].attempts \in Int
    BY <1>0, <1>1, ConstantTypes DEF TypeOK, Row
  <2> QED BY <2>1, <2>2
<1>3. ASSUME NEW v \in Workers, v # w, Maintain(v) \/ Execute(v) \/ Restart(v)
                                       \/ CompareFails(v)
      PROVE  FALSE
  <2>1. Moves(v)
    BY <1>0, <1>3, MaintainMoves, ChecksMoves, DetectMoves, ModelMoves,
       ScoreMoves, EndMoves, ClaimMoves DEF Execute
  <2> QED BY <1>3, <2>1 DEF Moves, OthersStay
<1>4. ASSUME Maintain(w) \/ CompareFails(w)
      PROVE  FALSE
  BY <1>1, <1>4
     DEF Executing, Maintain, BeginTick, TerminalizeExhausted,
         TerminalizeStaleActiveRuns, ListActiveRuns, CompareInput,
         CompareFails, EndCompare, RequeueEligible, ListSources, PickSource,
         EndSources, InsertRun
<1>5. ASSUME Execute(w) \/ Restart(w)
      PROVE  UNCHANGED runs
  BY <1>1, <1>2, <1>5
     DEF Executing, Execute, ClaimNext, EndOpportunityTick, LoadClaimed,
         SelectExpected, DetectCandidates, ModelAnswers, ModelFails,
         CheckDetection, Reselect, ScoreAndPersist, Complete, FailClaimed,
         Restart
<1>6. \/ UNCHANGED runs
      \/ UNCHANGED worker
      \/ \E v \in Workers : \/ Maintain(v) \/ Execute(v) \/ Restart(v)
                            \/ CompareFails(v)
  BY DEF Next, WorkerStep, vars, Tick, NextDay, ExtendLease, StatementFails,
         Crash, Shutdown, SourceSucceeds, FactsChange, Disconnect,
         EnqueueReprocessing
<1> QED BY <1>3, <1>4, <1>5, <1>6

\* A worker whose run was claimed again since writes nothing to its row:
\* neither its heartbeat nor its outcome passes the fence.
THEOREM LateWorkersWriteNothing == Spec => LateWorkerWritesNothing
<1>1. IInv /\ [Next]_vars =>
        [\A w \in Workers :
           LET i == worker[w].claim.run IN
           /\ i # None
           /\ worker'[w] # worker[w]
           /\ worker[w].claim.token < runs[i].attempts
           => runs'[i] = runs[i]]_vars
  BY LateWorkerStep
<1> QED BY <1>1, IInvHolds, PTL DEF Spec, LateWorkerWritesNothing

\* Every move of a row is a move of the abstract queue.
LEMMA RowStepImplements ==
    ASSUME IInv, NEW i \in Runs, RowStep(i)
    PROVE  \/ Queue!Create(i) \/ Queue!Start(i) \/ Queue!Defer(i)
           \/ Queue!Retry(i) \/ Queue!Finish(i) \/ Queue!Remove(i)
           \/ Queue!Stays(i)
<1> USE DEF Queue!Moves, Queue!KeepsStarts
<1> DEFINE old == runs[i]
           new == runs'[i]
<1>1. CASE new.status = old.status /\ new.attempts = old.attempts
  BY <1>1 DEF Queue!Stays
<1>2. CASE Creates(i)
  <2>1. /\ old.status = "none" /\ new.status = "queued"
        /\ new.attempts = 0 /\ old.attempts = 0
    BY <1>2 DEF Creates, IInv, RowsInv, RowInv, Exists
  <2> QED BY <2>1 DEF Queue!Create, Phase
<1>3. CASE /\ old.status \in {"queued", "running"}
           /\ old.attempts < MaxAttempts
           /\ new.status = "running"
           /\ new.attempts = old.attempts + 1
  BY <1>3 DEF Queue!Start, Phase
<1>4. CASE /\ old.status = "running"
           /\ new.status = "failed_retryable"
           /\ new.attempts = old.attempts
  BY <1>4 DEF Queue!Defer, Phase
<1>5. CASE /\ old.status = "failed_retryable"
           /\ new.status = "queued"
           /\ new.attempts = old.attempts
           /\ old.attempts < MaxAttempts
  BY <1>5 DEF Queue!Retry, Phase
<1>6. CASE /\ old.status \in Active
           /\ new.status \in {"failed_terminal", "succeeded"}
           /\ new.attempts = old.attempts
  BY <1>6 DEF Queue!Finish, Phase, Active
<1>7. CASE new.status = "deleted" /\ new.attempts = 0
  BY <1>7 DEF Queue!Remove, Phase
<1> QED BY <1>1, <1>2, <1>3, <1>4, <1>5, <1>6, <1>7 DEF RowStep

\* The OpportunityRun rows behave as the abstract queue promises, for any
\* interleaving of the statements of processes of any number of versions, and
\* whatever runs do to the inputs of each other.
THEOREM OpportunityRunsImplementLeasedQueue == Spec => ImplementsLeasedQueue
<1>1. Init => Queue!Init
  BY BlankRow DEF Init, Queue!Init, Phase
<1>2. ASSUME IInv, TypeOK', [Next]_vars
      PROVE  Queue!Next
  <2>1. /\ [i \in Runs |-> Phase(runs'[i].status)] \in [Runs -> Queue!Phases]
        /\ [i \in Runs |-> runs'[i].attempts] \in [Runs -> 0..MaxAttempts]
    BY <1>2 DEF TypeOK, Row, Phase, Queue!Phases
  <2> QED BY <1>2, <2>1, NextSteps, RowStepImplements
          DEF Queue!Next, RowSteps
<1>3. IInv /\ IInv' /\ [Next]_vars => [Queue!Next]_(Queue!vars)
  BY <1>2 DEF IInv
<1> QED BY <1>1, <1>3, IInvHolds, PTL
        DEF Spec, ImplementsLeasedQueue, Queue!Spec

\* A run changes its status or is claimed at most 3 * MaxAttempts + 3 times in its
\* life, runs that end each other as stale and late attempts included: no run
\* goes round for ever.
THEOREM RunsRunOut == Spec => Queue!EveryMoveCounts
<1>1. MaxAttempts \in Nat
  BY PositiveConstants
<1>2. Queue!Spec => Queue!EveryMoveCounts
  BY <1>1, Queue!MovesRunOut
<1> QED BY <1>2, OpportunityRunsImplementLeasedQueue, PTL DEF ImplementsLeasedQueue

-----------------------------------------------------------------------------
(* Opportunities are records *)

\* Opportunities are records: what is there stays but that it may expire, and
\* what is added is another identity and the only current one of its candidate.
LEMMA OpportunitiesRecorded ==
    IInv /\ IInv' /\ [Next]_vars => OpportunityRecords!RecordsNext
<1> SUFFICES ASSUME IInv, IInv', [Next]_vars
             PROVE  OpportunityRecords!RecordsNext
  OBVIOUS
<1>1. \A o \in DOMAIN opps :
         /\ o \in DOMAIN opps'
         /\ opps'[o].candidate = opps[o].candidate
         /\ opps'[o].input = opps[o].input
         /\ opps'[o].day = opps[o].day
         /\ opps'[o].isCurrent => opps[o].isCurrent
         /\ projectOf'[opps'[o].input.source] = projectOf[opps[o].input.source]
  <2>1. \A o \in DOMAIN opps :
           /\ o \in DOMAIN opps'
           /\ opps'[o].candidate = opps[o].candidate
           /\ opps'[o].input = opps[o].input
           /\ opps'[o].day = opps[o].day
           /\ opps'[o].isCurrent => opps[o].isCurrent
    BY EffectsGrow
  <2>2. \A o \in DOMAIN opps : Known(opps[o].input)
    BY DEF IInv, OppsAreKnown
  <2>3. \A e : Known(e) => projectOf'[e.source] = projectOf[e.source]
    BY KnownStays DEF IInv
  <2> QED BY <2>1, <2>2, <2>3
<1>2. \A o, q \in DOMAIN opps' :
         opps'[o].candidate = opps'[q].candidate /\ opps'[o].input = opps'[q].input
         => o = q
  BY DEF IInv, OppsAreIdentified
<1>3. \A o, q \in DOMAIN opps' :
         /\ opps'[o].isCurrent /\ opps'[q].isCurrent
         /\ opps'[o].candidate = opps'[q].candidate
         /\ projectOf'[opps'[o].input.source] = projectOf'[opps'[q].input.source]
         => o = q
  BY DEF IInv, OneCurrentPerCandidate
<1>4. OpportunityRecords!Written = DOMAIN opps' \ DOMAIN opps
  BY DEF OpportunityRecords!Written
<1>5. OpportunityRecords!WriteRows
  BY <1>1, <1>2, <1>4 DEF OpportunityRecords!WriteRows
<1>6. OpportunityRecords!GiveWay
  BY <1>1, <1>3, <1>4 DEF OpportunityRecords!GiveWay
<1>7. OpportunityRecords!AnswerCallers
  BY DEF OpportunityRecords!AnswerCallers
<1> QED BY <1>5, <1>6, <1>7 DEF OpportunityRecords!RecordsNext

\* Candidates keep one current opportunity and opportunities are recorded as
\* KeyedRecords states, whichever attempts of whichever processes persist late.
THEOREM OpportunitiesAreRecords == Spec => OpportunitiesImplementRecords
<1>1. Init => OpportunityRecords!RecordsInit
  BY DEF Init, effectVars, OpportunityRecords!RecordsInit
<1> QED BY <1>1, IInvHolds, OpportunitiesRecorded, PTL
        DEF Spec, OpportunitiesImplementRecords, OpportunityRecords!RecordsSpec

\* An opportunity that expired is never current again, though an attempt may
\* persist the same candidates once more: a late result revives nothing.
THEOREM OpportunitiesStayFinal == Spec => OpportunityRecords!AnswersAreFinal
BY OpportunitiesAreRecords, OpportunityRecords!AnswersStayFinal, PTL
   DEF OpportunitiesImplementRecords

-----------------------------------------------------------------------------
(* How often a source is run                                                 *)
(*                                                                           *)
(* The inputs of a source that rows have, or are about to, form a chain: the *)
(* later one was selected at a later revision or has more opportunities      *)
(* expired, since the opportunities that a source sees are settled when it   *)
(* succeeds and none of them is ever current again.                          *)

\* The opportunities of the history that were no longer current.
Spent(e) == {o \in OppIds : <<o, FALSE>> \in e.history}

\* What the input says of the opportunities and the facts was so.
WasSelected(e) ==
    /\ e.history = {<<o, o \notin Spent(e)>> : o \in Visible(e.source)}
    /\ Spent(e) \subseteq {o \in Visible(e.source) : ~opps[o].isCurrent}
    /\ e.facts <= facts[projectOf[e.source]]

Before(e, d) == e.facts <= d.facts /\ Spent(e) \subseteq Spent(d)

Held ==
    {runs[i].input : i \in {j \in Runs : Exists(j)}}
      \cup {worker[w].input : w \in {v \in Workers : worker[v].pc = "insert"}}

HeldInv ==
    /\ \A e \in Held : Known(e) /\ WasSelected(e)
    /\ \A e, d \in Held : e.source = d.source => Before(e, d) \/ Before(d, e)

\* A new opportunity is of today, which is no day before that of a source.
LEMMA VisibleStays ==
    ASSUME IInv, [Next]_vars, NEW k \in Sources, k <= finished
    PROVE  /\ Visible(k)' = Visible(k)
           /\ projectOf'[k] = projectOf[k] /\ dayOf'[k] = dayOf[k]
<1>1. /\ TypeOK /\ SourcesInv /\ OppsAreKnown
      /\ projectOf'[k] = projectOf[k] /\ dayOf'[k] = dayOf[k]
  BY SourcesGrow DEF IInv
<1>2. /\ DOMAIN opps \subseteq DOMAIN opps'
      /\ \A o \in DOMAIN opps : /\ opps'[o].input = opps[o].input
                                /\ opps'[o].day = opps[o].day
                                /\ projectOf'[opps'[o].input.source]
                                     = projectOf[opps[o].input.source]
  BY <1>1, EffectsGrow, KnownStays DEF OppsAreKnown
<1>3. \A o \in DOMAIN opps' \ DOMAIN opps : ~(opps'[o].day < dayOf'[k])
  <2> SUFFICES ASSUME NEW o \in DOMAIN opps' \ DOMAIN opps
               PROVE  ~(opps'[o].day < dayOf'[k])
    OBVIOUS
  <2>1. opps'[o].day = today
    BY OppSteps DEF Writes
  <2>2. dayOf[k] \in 1..today /\ today \in Int
    BY <1>1, SourcesGrow DEF SourcesInv
  <2> QED BY <1>1, <2>1, <2>2
<1>4. Visible(k)' = {o \in DOMAIN opps' :
        /\ projectOf'[opps'[o].input.source] = projectOf'[k]
        /\ opps'[o].day < dayOf'[k]}
  BY DEF Visible
<1> QED BY <1>1, <1>2, <1>3, <1>4 DEF Visible

LEMMA WasSelectedStays ==
    ASSUME IInv, [Next]_vars, NEW e, Known(e), WasSelected(e), e.facts \in Int
    PROVE  WasSelected(e)'
<1>0. /\ TypeOK /\ SourcesInv
      /\ e.source \in Sources /\ e.source <= finished
  BY DEF IInv, Known
<1>1. /\ Visible(e.source)' = Visible(e.source)
      /\ projectOf'[e.source] = projectOf[e.source]
  BY <1>0, VisibleStays
<1>2. \A o \in Visible(e.source) : opps'[o].isCurrent => opps[o].isCurrent
  BY EffectsGrow DEF Visible
<1>3. e.facts <= facts'[projectOf'[e.source]]
  <2>1. projectOf[e.source] \in Projects
    BY <1>0 DEF SourcesInv
  <2>2. PICK p \in Projects : p = projectOf[e.source]
    BY <2>1
  <2>3. facts[p] <= facts'[p] /\ e.facts <= facts[p]
    BY <1>0, <2>2, SourcesGrow DEF WasSelected
  <2>4. facts[p] \in Int /\ facts'[p] \in Int
    BY <1>0, <2>2, NextType, ConstantTypes DEF TypeOK
  <2> QED BY <1>1, <2>2, <2>3, <2>4
<1>4. e.history = {<<o, o \notin Spent(e)>> : o \in Visible(e.source)'}
  BY <1>1 DEF WasSelected
<1>5. Spent(e) \subseteq {o \in Visible(e.source)' : ~opps'[o].isCurrent}
  BY <1>1, <1>2 DEF WasSelected
<1> QED BY <1>3, <1>4, <1>5 DEF WasSelected

\* What is selected now comes after whatever was selected.
LEMMA SelectedNow ==
    ASSUME IInv, NEW k \in Sources, k <= finished, NEW e, e = Select(k)
    PROVE  /\ Known(e) /\ WasSelected(e) /\ e \in Input
           /\ \A d : WasSelected(d) /\ d.source = k => Before(d, e)
<1>0. /\ TypeOK /\ SourcesInv
  BY DEF IInv
<1>1. /\ e.source = k /\ e \in Input /\ e.facts = facts[projectOf[k]]
      /\ e.history = {<<o, opps[o].isCurrent>> : o \in Visible(k)}
  BY <1>0, SelectType
<1>2. \A o \in Visible(k) : o \in OppIds /\ opps[o].isCurrent \in BOOLEAN
  BY <1>0, OppTypes DEF Visible
<1>3. Spent(e) = {o \in Visible(k) : ~opps[o].isCurrent}
  <2>1. ASSUME NEW o \in Spent(e)
        PROVE  o \in Visible(k) /\ ~opps[o].isCurrent
    BY <1>1, <2>1 DEF Spent
  <2>2. ASSUME NEW o \in Visible(k), ~opps[o].isCurrent
        PROVE  o \in Spent(e)
    <3>1. opps[o].isCurrent = FALSE
      BY <1>2, <2>2
    <3> QED BY <1>1, <1>2, <3>1 DEF Spent
  <2> QED BY <2>1, <2>2
<1>4. e.history = {<<o, o \notin Spent(e)>> : o \in Visible(k)}
  <2>1. ASSUME NEW o \in Visible(k)
        PROVE  opps[o].isCurrent = (o \notin Spent(e))
    BY <1>2, <1>3, Zenon
  <2> QED BY <1>1, <2>1
<1>5. facts[projectOf[k]] \in Int
  <2>1. projectOf[k] \in Projects /\ facts \in [Projects -> 0..MaxFacts]
    BY <1>0 DEF TypeOK, SourcesInv
  <2> QED BY <2>1
<1>6. WasSelected(e)
  BY <1>1, <1>3, <1>4, <1>5 DEF WasSelected
<1>7. ASSUME NEW d, WasSelected(d), d.source = k
      PROVE  Before(d, e)
  BY <1>1, <1>3, <1>7 DEF WasSelected, Before
<1> QED BY <1>1, <1>6, <1>7 DEF Known

LEMMA HeldTypes ==
    ASSUME IInv, NEW e \in Held
    PROVE  e \in Input /\ Known(e) /\ e.facts \in Int
<1>1. e \in Input
  BY DEF IInv, TypeOK, Row, WorkerState, Held
<1>2. Known(e)
  BY DEF IInv, RowsInv, RowInv, WorkersInv, WorkerInv, Held, Selected
<1> QED BY <1>1, <1>2, ConstantTypes DEF Input

LEMMA HeldSteps ==
    ASSUME IInv, [Next]_vars, NEW e, e \in Held'
    PROVE  e \in Held \/ \E k \in Sources : k <= finished /\ e = Select(k)
<1>1. ASSUME NEW i \in Runs, Exists(i)', e = runs'[i].input
      PROVE  e \in Held \/ \E k \in Sources : k <= finished /\ e = Select(k)
  <2>1. RowStep(i)
    BY NextSteps DEF RowSteps
  <2>2. CASE Creates(i)
    BY <1>1, <2>2 DEF Creates, Proposed, Held
  <2>3. CASE ~Creates(i)
    <3>1. Exists(i) /\ KeepsRun(i)
      BY <1>1, <2>1, <2>3 DEF RowStep, Exists, Active
    <3> QED BY <1>1, <3>1 DEF KeepsRun, Held
  <2> QED BY <2>2, <2>3
<1>2. ASSUME NEW w \in Workers, worker'[w].pc = "insert", e = worker'[w].input
      PROVE  e \in Held \/ \E k \in Sources : k <= finished /\ e = Select(k)
  <2>1. Move(w)
    BY NextMoves DEF Moves, OthersStay, Move, Stays, Keeps
  <2>2. CASE Stays(w)
    BY <1>2, <2>2 DEF Stays, Keeps, Held
  <2>3. CASE Picks(w)
    BY <1>2, <2>3 DEF Picks, IInv, WorkersInv, WorkerInv
  <2> QED BY <1>2, <2>1, <2>2, <2>3, MoveKinds
          DEF GoesOn, Answers, Checks, Scores, Goes, Detects, Selected
<1> QED BY <1>1, <1>2 DEF Held

LEMMA NextHeldInv ==
    ASSUME IInv, HeldInv, [Next]_vars
    PROVE  HeldInv'
<1>1. ASSUME NEW e, e \in Held'
      PROVE  /\ Known(e) /\ WasSelected(e) /\ e.facts \in Int
             /\ \/ e \in Held
                \/ \A d : WasSelected(d) /\ d.source = e.source => Before(d, e)
  <2>1. CASE e \in Held
    BY <2>1, HeldTypes DEF HeldInv
  <2>2. ASSUME NEW k \in Sources, k <= finished, e = Select(k)
        PROVE  /\ Known(e) /\ WasSelected(e) /\ e.facts \in Int
               /\ \A d : WasSelected(d) /\ d.source = e.source => Before(d, e)
    <3>1. /\ Known(e) /\ WasSelected(e) /\ e \in Input
          /\ \A d : WasSelected(d) /\ d.source = k => Before(d, e)
      BY <2>2, SelectedNow
    <3>2. e.source = k
      BY <2>2 DEF Select
    <3> QED BY <3>1, <3>2, ConstantTypes DEF Input
  <2> QED BY <1>1, <2>1, <2>2, HeldSteps
<1>2. \A e \in Held' : Known(e)' /\ WasSelected(e)'
  BY <1>1, KnownStays, WasSelectedStays DEF IInv
<1>3. \A e, d \in Held' : e.source = d.source => Before(e, d) \/ Before(d, e)
  BY <1>1 DEF HeldInv
<1> QED BY <1>2, <1>3 DEF HeldInv

LEMMA HeldHolds == Spec => [](IInv /\ HeldInv)
<1>1. Init => HeldInv
  BY BlankRow DEF Init, HeldInv, Held, Exists, Fresh
<1> QED BY <1>1, NextHeldInv, InitIInv, NextIInv, PTL DEF Spec

\* The inputs of one source that rows have differ in the revision or in how
\* many of the visible opportunities had expired.
LEMMA RerunsBound ==
    ASSUME IInv, HeldInv, NEW k \in Sources, NEW v \in Versions
    PROVE  Cardinality({i \in Runs : /\ runs[i].input.source = k
                                     /\ runs[i].version = v})
             <= (MaxFacts + 1) * (1 + Cardinality(Visible(k)))
<1> DEFINE S == {i \in Runs : /\ runs[i].input.source = k
                              /\ runs[i].version = v}
           V == Visible(k)
           n == Cardinality(V)
           T == (0..MaxFacts) \X (0..n)
           f == [i \in S |-> <<runs[i].input.facts,
                               Cardinality(Spent(runs[i].input))>>]
<1>0. TypeOK /\ RowsInv /\ KeysAreUnique
  BY DEF IInv
<1>1. IsFiniteSet(V) /\ n \in Nat
  <2>1. Len(opps) \in Nat /\ DOMAIN opps = 1..Len(opps)
    BY <1>0, OppTypes
  <2>2. IsFiniteSet(DOMAIN opps)
    BY <2>1, FS_Interval
  <2>3. V \in SUBSET DOMAIN opps
    BY DEF Visible
  <2> QED BY <2>2, <2>3, FS_Subset, FS_CardinalityType
<1>2. IsFiniteSet(T) /\ Cardinality(T) = (MaxFacts + 1) * (1 + n)
  <2>1. 0 \in Int /\ MaxFacts \in Nat /\ n \in Nat
    BY <1>1, ConstantTypes
  <2>2. /\ IsFiniteSet(0..MaxFacts) /\ Cardinality(0..MaxFacts) = MaxFacts + 1
        /\ IsFiniteSet(0..n) /\ Cardinality(0..n) = 1 + n
    BY <2>1, FS_Interval
  <2> QED BY <2>2, FS_Product, ZenonT(30)
<1>3. ASSUME NEW i \in S
      PROVE  /\ Exists(i) /\ runs[i].input \in Held
             /\ runs[i].input \in Input
             /\ WasSelected(runs[i].input)
             /\ Spent(runs[i].input) \in SUBSET V
  <2>1. Exists(i)
    BY <1>0, NullValues, BlankInput DEF RowsInv, RowInv
  <2>2. runs[i].input \in Held
    BY <2>1 DEF Held
  <2> QED BY <2>1, <2>2, HeldTypes DEF HeldInv, WasSelected
<1>4. f \in [S -> T]
  <2> SUFFICES ASSUME NEW i \in S
               PROVE  <<runs[i].input.facts,
                        Cardinality(Spent(runs[i].input))>> \in T
    OBVIOUS
  <2>1. runs[i].input.facts \in 0..MaxFacts
    BY <1>3 DEF Input
  <2>2. Cardinality(Spent(runs[i].input)) \in 0..n
    BY <1>1, <1>3, FS_Subset, FS_CardinalityType
  <2> QED BY <2>1, <2>2
<1>5. ASSUME NEW i \in S, NEW j \in S, f[i] = f[j]
      PROVE  i = j
  <2>1. PICK e \in Input : e = runs[i].input
    BY <1>3
  <2>2. PICK d \in Input : d = runs[j].input
    BY <1>3
  <2>3. /\ e.facts = d.facts /\ e.source = k /\ d.source = k
        /\ Cardinality(Spent(e)) = Cardinality(Spent(d))
    BY <1>5, <2>1, <2>2
  <2>4. /\ e \in Held /\ d \in Held /\ WasSelected(e) /\ WasSelected(d)
        /\ IsFiniteSet(Spent(e)) /\ IsFiniteSet(Spent(d))
    BY <1>1, <1>3, <2>1, <2>2, FS_Subset
  <2>5. Spent(e) \subseteq Spent(d) \/ Spent(d) \subseteq Spent(e)
    BY <2>3, <2>4 DEF HeldInv, Before
  <2>6. Spent(e) = Spent(d)
    BY <2>3, <2>4, <2>5, FS_Subset
  <2>7. e.history = d.history
    BY <2>3, <2>4, <2>6 DEF WasSelected
  <2>8. e = d
    BY <2>3, <2>7 DEF Input
  <2> QED BY <1>0, <1>3, <2>1, <2>2, <2>8 DEF KeysAreUnique
<1>6. f \in Injection(S, T)
  BY <1>4, <1>5 DEF Injection, IsInjective
<1>7. Cardinality(S) <= Cardinality(T)
  BY <1>2, <1>6, FS_Injection
<1> QED BY <1>2, <1>7

\* A source has at most one run per version, revision of its facts and number of
\* expired opportunities that it sees: what runs persist cannot cause runs of
\* the same source for ever (enqueueEligibleIntelligenceCompletion).
THEOREM RerunsStayBounded == Spec => []RerunsAreBounded
<1>1. IInv /\ HeldInv => RerunsAreBounded
  BY RerunsBound DEF RerunsAreBounded
<1> QED BY <1>1, HeldHolds, PTL
=============================================================================
