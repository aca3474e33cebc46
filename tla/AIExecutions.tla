---------------------------- MODULE AIExecutions ----------------------------
(* The calls of the two AI stages: interpret() of the development event       *)
(* interpreter and detect() of the opportunity detector. Both write their     *)
(* attempts to AIExecution, under one daily budget per user, and both answer  *)
(* an input once: with a development event (or insufficient evidence), or     *)
(* with a canonical detection result. One action is one statement or          *)
(* transaction; a serializable transaction is a snapshot and a commit.        *)
EXTENDS Integers, Sequences, FiniteSets

CONSTANTS
    Workers,        \* processes, each in at most one call
    Inputs,         \* what a fingerprint identifies, for one version
    StageOf,        \* the stage of an input
    ProjectOf,      \* the project of an input
    EvidenceOf,     \* the commits and pull requests of an interpreted group
    UserOf,         \* the owner of a project
    OffsetOf,       \* the offset of a project's time zone
    DayLength,
    DailyLimit,     \* dailyAttemptLimit
    MaxTime,        \* bound on the clock
    MaxFaults       \* bound on crashes and lost statements

Interpretation == "development_event_interpretation"
Detection == "opportunity_detection"

ASSUME InputsAssumption ==
    /\ Inputs # {}
    /\ StageOf \in [Inputs -> {Interpretation, Detection}]
    /\ \A i \in Inputs : ProjectOf[i] \in DOMAIN UserOf
    /\ DOMAIN OffsetOf = DOMAIN UserOf
    /\ \A p \in DOMAIN OffsetOf : OffsetOf[p] \in Int
ASSUME LimitsAssumption ==
    /\ IsFiniteSet(Workers)
    /\ DayLength \in Nat \ {0}
    /\ DailyLimit \in Nat \ {0}
    /\ MaxTime \in Nat
    /\ MaxFaults \in Nat

VARIABLES
    executions,     \* AIExecution rows, in the order of their commits
    events,         \* DevelopmentEvent rows, in the order of their commits
    worker,         \* the call each process is in
    returned,       \* history: the last event or result returned for an input
    clock,
    faults

vars == <<executions, events, worker, returned, clock, faults>>

None == 0

\* The answer insufficient_evidence names no event.
Insufficient == None

\* repair is isRepairAttempt; the row of an interpretation does not keep it.
Execution == [input : Inputs, number : Nat \ {0}, repair : BOOLEAN,
              startedAt : Nat,
              status : {"running", "succeeded", "failed", "rejected"},
              validation : {"pending", "invalid", "valid"}]

Event == [input : Inputs, status : {"active", "superseded", "rejected"},
          supersedes : Nat]

Call == [pc : {"idle", "decided", "start", "commit", "ask", "close",
               "read", "write", "lost", "reload"},
         input : Inputs, repair : BOOLEAN, startedAt : Nat, seen : Nat,
         execution : Nat, answer : {"none", "active", "rejected", "result"},
         superseded : SUBSET Nat]

NoCall(i) == [pc |-> "idle", input |-> i, repair |-> FALSE, startedAt |-> 0,
              seen |-> 0, execution |-> None, answer |-> "none",
              superseded |-> {}]

\* The input of an idle process has no meaning; any one will do.
AnyInput == CHOOSE i \in Inputs : TRUE

Init ==
    /\ executions = <<>>
    /\ events = <<>>
    /\ worker = [w \in Workers |-> NoCall(AnyInput)]
    /\ returned = [i \in Inputs |-> None]
    /\ clock = 0
    /\ faults = 0

-----------------------------------------------------------------------------
(* What statements look for *)

Owner(i) == UserOf[ProjectOf[i]]

\* The developer day of a project that an instant lies in.
Day(p, t) == (t + OffsetOf[p]) \div DayLength

\* The attempts that count against the budget of a project's owner on a day.
Attempts(p, day) ==
    {e \in DOMAIN executions : /\ Owner(executions[e].input) = UserOf[p]
                               /\ Day(p, executions[e].startedAt) = day}

\* The attempts of one identity, whatever became of them.
AttemptsOf(i) == {e \in DOMAIN executions : executions[e].input = i}

EventsOf(i) == {v \in DOMAIN events : events[v].input = i}

Decided(e) == executions[e].status \in {"succeeded", "rejected"}
              /\ executions[e].validation = "valid"

\* A valid decision that there is not enough evidence.
InsufficientDecisions(i) ==
    {e \in AttemptsOf(i) : executions[e].status = "rejected" /\ Decided(e)}

\* The succeeded execution of a detection input, with its result.
Canonical(i) == {e \in AttemptsOf(i) : executions[e].status = "succeeded"}

-----------------------------------------------------------------------------
(* The steps of a call *)

Goto(w, pc) == worker' = [worker EXCEPT ![w].pc = pc]

End(w) == worker' = [worker EXCEPT ![w] = NoCall(AnyInput)]

\* The call is answered; callers keep an event or a result by its id.
Return(w, i, answer) ==
    /\ returned' = IF answer = Insufficient THEN returned
                   ELSE [returned EXCEPT ![i] = answer]
    /\ End(w)

\* The next local attempt takes its instant before its transaction.
BeginAttempt(w, i, repair) ==
    worker' = [worker EXCEPT ![w] =
        [@ EXCEPT !.pc = "start", !.input = i, !.repair = repair, !.startedAt = clock,
                  !.execution = None]]

Close(w, status, validation) ==
    executions' = [executions EXCEPT ![worker[w].execution] =
        [@ EXCEPT !.status = status, !.validation = validation]]

\* interpret: a group is selected, its evidence loaded, and an event of the same
\* input reused. A group that is gone ends the call, as if it had not begun.
FindEvent(w, i) ==
    LET found == EventsOf(i) IN
    /\ worker[w].pc = "idle"
    /\ StageOf[i] = Interpretation
    /\ \/ \E v \in found : Return(w, i, v)
       \/ /\ found = {}
          /\ worker' = [worker EXCEPT ![w] =
                [@ EXCEPT !.pc = "decided", !.input = i]]
          /\ UNCHANGED returned
    /\ UNCHANGED <<executions, events, clock, faults>>

PriorDecisions(i) == InsufficientDecisions(i)

\* interpret: an earlier decision that the evidence is insufficient is reused.
FindDecision(w) ==
    LET found == PriorDecisions(worker[w].input) IN
    /\ worker[w].pc = "decided"
    /\ \/ found # {} /\ Return(w, worker[w].input, Insufficient)
       \/ found = {} /\ BeginAttempt(w, worker[w].input, FALSE) /\ UNCHANGED returned
    /\ UNCHANGED <<executions, events, clock, faults>>

\* detect: an input is selected, and a complete result of the same input reused.
FindReusableExecution(w, i) ==
    LET found == Canonical(i) IN
    /\ worker[w].pc = "idle"
    /\ StageOf[i] = Detection
    /\ \/ \E e \in found : Return(w, i, e)
       \/ found = {} /\ BeginAttempt(w, i, FALSE) /\ UNCHANGED returned
    /\ UNCHANGED <<executions, events, clock, faults>>

\* The budget transaction takes its snapshot and counts; over the limit the
\* call ends with AI_BUDGET_EXHAUSTED.
StartAttempt(w) ==
    LET c == worker[w]
        p == ProjectOf[c.input]
    IN  /\ c.pc = "start"
        /\ \/ /\ Cardinality(Attempts(p, Day(p, c.startedAt))) >= DailyLimit
              /\ End(w)
           \/ /\ Cardinality(Attempts(p, Day(p, c.startedAt))) < DailyLimit
              /\ worker' = [worker EXCEPT ![w] =
                    [@ EXCEPT !.pc = "commit", !.seen = Len(executions)]]
        /\ UNCHANGED <<executions, events, returned, clock, faults>>

\* Slip: the transaction is not serializable; its identity is still unique.
ReadCommitted(w) ==
    \A e \in worker[w].seen + 1 .. Len(executions) :
        executions[e].input # worker[w].input

\* Serializable: nothing either count would see was committed since.
NoPhantom(w) ==
    LET p == ProjectOf[worker[w].input] IN
    \A e \in worker[w].seen + 1 .. Len(executions) :
        /\ executions[e].input # worker[w].input
        /\ e \notin Attempts(p, Day(p, worker[w].startedAt))

\* Slip: numbered from zero.
NumberFromZero(i) == Cardinality(AttemptsOf(i))

NextNumber(i) == Cardinality(AttemptsOf(i)) + 1

\* The attempt is created with the next number of its identity.
CommitAttempt(w) ==
    LET c == worker[w] IN
    /\ c.pc = "commit"
    /\ NoPhantom(w)
    /\ executions' = Append(executions,
          [input |-> c.input, number |-> NextNumber(c.input),
           repair |-> c.repair, startedAt |-> c.startedAt,
           status |-> "running", validation |-> "pending"])
    /\ worker' = [worker EXCEPT ![w] =
          [@ EXCEPT !.pc = "ask", !.seen = 0, !.startedAt = 0,
                    !.execution = Len(executions) + 1]]
    /\ UNCHANGED <<events, returned, clock, faults>>

\* The budget transaction is refused as not serializable, or fails: the call
\* ends without an attempt.
AttemptFails(w) ==
    /\ worker[w].pc \in {"start", "commit"}
    /\ End(w)
    /\ UNCHANGED <<executions, events, returned, clock, faults>>

\* The provider fails: the attempt is failed and the call with it.
ModelFails(w) ==
    /\ worker[w].pc = "ask"
    /\ Close(w, "failed", "pending")
    /\ End(w)
    /\ UNCHANGED <<events, returned, clock, faults>>

MayRepair(c) == ~c.repair

\* The output does not parse or cites what was not supplied: the attempt is
\* rejected, and the first one is repaired once.
ModelAnswersInvalid(w) ==
    /\ worker[w].pc = "ask"
    /\ Close(w, "rejected", "invalid")
    /\ \/ MayRepair(worker[w]) /\ BeginAttempt(w, worker[w].input, TRUE)
       \/ ~MayRepair(worker[w]) /\ End(w)
    /\ UNCHANGED <<events, returned, clock, faults>>

\* A valid output: candidates, an event of high or low confidence, or
\* insufficient evidence.
ModelAnswers(w) ==
    /\ worker[w].pc = "ask"
    /\ \/ /\ StageOf[worker[w].input] = Detection
          /\ worker' = [worker EXCEPT ![w] =
                [@ EXCEPT !.pc = "write", !.answer = "result"]]
       \/ /\ StageOf[worker[w].input] = Interpretation
          /\ \/ \E status \in {"active", "rejected"} :
                  worker' = [worker EXCEPT ![w] =
                     [@ EXCEPT !.pc = "read", !.answer = status]]
             \/ Goto(w, "close")
    /\ UNCHANGED <<executions, events, returned, clock, faults>>

\* interpret: the decision that the evidence is insufficient is kept.
CloseInsufficient(w) ==
    /\ worker[w].pc = "close"
    /\ Close(w, "rejected", "valid")
    /\ Return(w, worker[w].input, Insufficient)
    /\ UNCHANGED <<events, clock, faults>>

\* Slip: any shared evidence will do.
Overlaps(v, i) == EvidenceOf[events[v].input] \cap EvidenceOf[i] # {}

\* candidateIsContained: the complete evidence of the earlier event is part of
\* the new one's.
Contained(v, i) == EvidenceOf[events[v].input] \subseteq EvidenceOf[i]

\* The active events of the project that an event of this input replaces.
Replaced(i, status) ==
    {v \in DOMAIN events :
        /\ status = "active"
        /\ events[v].status = "active"
        /\ ProjectOf[events[v].input] = ProjectOf[i]
        /\ Contained(v, i)}

\* persistEvent reads: an event another call persisted meanwhile is returned,
\* and the execution stays as it is.
PersistRead(w) ==
    LET c == worker[w]
        found == EventsOf(c.input)
    IN  /\ c.pc = "read"
        /\ \/ \E v \in found : Return(w, worker[w].input, v)
           \/ /\ found = {}
              /\ worker' = [worker EXCEPT ![w] =
                    [@ EXCEPT !.pc = "write",
                              !.superseded = Replaced(c.input, c.answer)]]
              /\ UNCHANGED returned
        /\ UNCHANGED <<executions, events, clock, faults>>

\* The newest of the replaced events: findMany orders them by createdAt.
Newest(S) == IF S = {} THEN None ELSE CHOOSE v \in S : \A u \in S : u <= v

\* The unique indexes on an event's input and on the event it supersedes.
EventInsertable(c) ==
    /\ EventsOf(c.input) = {}
    /\ \A v \in DOMAIN events :
         events[v].supersedes # None => events[v].supersedes # Newest(c.superseded)

\* persistEvent writes, in one commit: the event, the end of those it replaces
\* and the success of the attempt.
PersistWrite(w) ==
    LET c == worker[w] IN
    /\ c.pc = "write"
    /\ c.answer # "result"
    /\ \/ /\ EventInsertable(c)
          /\ events' = Append(
                [v \in DOMAIN events |->
                   IF v \in c.superseded /\ events[v].status = "active"
                   THEN [events[v] EXCEPT !.status = "superseded"]
                   ELSE events[v]],
                [input |-> c.input, status |-> c.answer,
                 supersedes |-> Newest(c.superseded)])
          /\ Close(w, "succeeded", "valid")
          /\ Return(w, worker[w].input, Len(events) + 1)
       \/ /\ ~EventInsertable(c)
          /\ Goto(w, "reload")
          /\ UNCHANGED <<executions, events, returned>>
    /\ UNCHANGED <<clock, faults>>

\* Slip: no unique index on canonical results.
AlwaysInsertable(i) == TRUE

\* The partial unique index on succeeded detection executions.
ResultInsertable(i) == Canonical(i) = {}

\* persistSuccessfulResult: the attempt succeeds with its result, or neither.
PersistResult(w) ==
    LET c == worker[w] IN
    /\ c.pc = "write"
    /\ c.answer = "result"
    /\ \/ /\ ResultInsertable(c.input)
          /\ Close(w, "succeeded", "valid")
          /\ Return(w, worker[w].input, c.execution)
       \/ /\ ~ResultInsertable(c.input)
          /\ Goto(w, "lost")
          /\ UNCHANGED <<executions, returned>>
    /\ UNCHANGED <<events, clock, faults>>

\* A persisting transaction fails for another reason than a unique index.
PersistFails(w) ==
    /\ worker[w].pc \in {"read", "write"}
    /\ Goto(w, "lost")
    /\ UNCHANGED <<executions, events, returned, clock, faults>>

\* interpret: after a unique violation the event of the input is looked for;
\* the attempt succeeds with it, or fails when the index was the other one.
ReloadEvent(w) ==
    LET c == worker[w]
        found == EventsOf(c.input)
    IN  /\ c.pc = "reload"
        /\ c.answer # "result"
        /\ \/ \E v \in found : Close(w, "succeeded", "valid") /\ Return(w, worker[w].input, v)
           \/ found = {} /\ Goto(w, "lost") /\ UNCHANGED <<executions, returned>>
        /\ UNCHANGED <<events, clock, faults>>

\* completeExecution with a valid output, or failPersistence.
CloseFailed(w) ==
    Close(w, "failed", IF worker[w].answer = "result" THEN "pending" ELSE "valid")

\* The attempt that could not persist is failed; detect then looks for the
\* winner's result.
FailPersistence(w) ==
    /\ worker[w].pc = "lost"
    /\ CloseFailed(w)
    /\ IF worker[w].answer = "result" THEN Goto(w, "reload") ELSE End(w)
    /\ UNCHANGED <<events, returned, clock, faults>>

\* detect: the canonical result is returned, or the call fails.
ReloadCanonical(w) ==
    LET found == Canonical(worker[w].input) IN
    /\ worker[w].pc = "reload"
    /\ worker[w].answer = "result"
    /\ \/ \E e \in found : Return(w, worker[w].input, e)
       \/ found = {} /\ End(w) /\ UNCHANGED returned
    /\ UNCHANGED <<executions, events, clock, faults>>

-----------------------------------------------------------------------------
(* Faults and time *)

\* The process dies, or the statement that would close an attempt fails: the
\* call is gone and its attempt stays running.
Crash(w) ==
    /\ faults < MaxFaults
    /\ worker[w].pc # "idle"
    /\ faults' = faults + 1
    /\ End(w)
    /\ UNCHANGED <<executions, events, returned, clock>>

Tick ==
    /\ clock < MaxTime
    /\ clock' = clock + 1
    /\ UNCHANGED <<executions, events, worker, returned, faults>>

InterpretStep(w) ==
    (\E i \in Inputs : FindEvent(w, i)) \/ FindDecision(w) \/ CloseInsufficient(w)
    \/ PersistRead(w) \/ PersistWrite(w) \/ ReloadEvent(w)

DetectStep(w) ==
    (\E i \in Inputs : FindReusableExecution(w, i)) \/ PersistResult(w) \/ ReloadCanonical(w)

AttemptStep(w) ==
    StartAttempt(w) \/ CommitAttempt(w) \/ AttemptFails(w)
    \/ ModelFails(w) \/ ModelAnswersInvalid(w) \/ ModelAnswers(w)
    \/ PersistFails(w) \/ FailPersistence(w)

Next ==
    \/ \E w \in Workers :
         \/ InterpretStep(w)
         \/ DetectStep(w)
         \/ AttemptStep(w)
         \/ Crash(w)
    \/ Tick

Spec == Init /\ [][Next]_vars

-----------------------------------------------------------------------------
(* Properties *)

TypeOK ==
    /\ executions \in Seq(Execution)
    /\ events \in Seq(Event)
    /\ worker \in [Workers -> Call]
    /\ \A w \in Workers : worker[w].execution \in {None} \cup DOMAIN executions
    /\ returned \in [Inputs -> Nat]
    /\ clock \in 0 .. MaxTime
    /\ faults \in 0 .. MaxFaults

\* On no developer day do the projects of one time zone start more attempts
\* for their owner than the daily limit, over both stages, repairs, races and
\* crashes. Projects of other time zones have other days.
BudgetIsKept ==
    \A p \in DOMAIN UserOf : \A t \in 0 .. MaxTime :
        Cardinality({e \in Attempts(p, Day(p, t)) :
            OffsetOf[ProjectOf[executions[e].input]] = OffsetOf[p]}) <= DailyLimit

\* The attempts of one identity are numbered from one without gap or repeat,
\* in the order of their commits.
AttemptsAreNumbered ==
    \A e \in DOMAIN executions :
        executions[e].number =
            Cardinality({f \in AttemptsOf(executions[e].input) : f <= e})

\* All calls that answer one input give the same event, or the same canonical
\* result, however they raced, lost or were repeated.
CallersAgree ==
    [][\A i \in Inputs : returned[i] # None => returned'[i] = returned[i]]_vars

\* A decided input is not asked about again: an input has at most one decided
\* attempt for each process that was asking when the first decision fell.
DecisionsAreReused ==
    \A i \in Inputs :
        Cardinality({e \in AttemptsOf(i) : Decided(e)}) <= Cardinality(Workers)

\* An event is superseded only by a later one that was active and has all of
\* its evidence: neither a partial overlap nor a doubtful event removes it.
SupersededIsContained ==
    \A v \in DOMAIN events : events[v].status = "superseded" =>
        \E u \in DOMAIN events :
            /\ v < u
            /\ events[u].status # "rejected"
            /\ ProjectOf[events[u].input] = ProjectOf[events[v].input]
            /\ EvidenceOf[events[v].input] \subseteq EvidenceOf[events[u].input]

\* Repairs are owed: only an invalid first output is repaired, and once.
RepairsAreOwed ==
    \A i \in Inputs :
        Cardinality({e \in AttemptsOf(i) : executions[e].repair}) <=
        Cardinality({e \in AttemptsOf(i) : /\ ~executions[e].repair
                                           /\ executions[e].validation = "invalid"})

\* Only a fault leaves an attempt running that no call works on, but for the
\* interpretation that finds its input's event when it persists.
OnlyFaultsLeaveRunning ==
    Cardinality({e \in DOMAIN executions :
        /\ executions[e].status = "running"
        /\ \A w \in Workers : worker[w].execution # e
        /\ EventsOf(executions[e].input) = {}}) <= faults

\* What the audit of the model calls says can be relied on: numbers without
\* gaps, no second decision but by racing calls, one repair per invalid output,
\* open attempts only where a fault left them, and the evidence of a superseded
\* event kept by a later one.
ExecutionsAreSound ==
    /\ AttemptsAreNumbered
    /\ DecisionsAreReused
    /\ RepairsAreOwed
    /\ OnlyFaultsLeaveRunning
    /\ SupersededIsContained

InterpreterInputs == {i \in Inputs : StageOf[i] = Interpretation}

DetectorInputs == {i \in Inputs : StageOf[i] = Detection}

\* Events are recorded as KeyedRecords states: one per input, whose evidence is
\* never rewritten and which never becomes active again, and calls of the
\* interpreter are answered with it.
EventRecords == INSTANCE KeyedRecords WITH
    rows <- [v \in DOMAIN events |->
               [key |-> events[v].input, subject |-> events[v].input,
                supersedes |-> events[v].supersedes]],
    current <- {v \in DOMAIN events : events[v].status = "active"},
    answers <- [i \in InterpreterInputs |->
                  {returned[i]} \ {None}]

\* Detection results are: the one succeeded execution of an input, which calls
\* of the detector are answered with.
CanonicalExecutions ==
    {e \in DOMAIN executions : /\ StageOf[executions[e].input] = Detection
                               /\ executions[e].status = "succeeded"}

ResultRecords == INSTANCE KeyedRecords WITH
    rows <- [e \in CanonicalExecutions |->
               [key |-> executions[e].input, subject |-> executions[e].input,
                number |-> executions[e].number]],
    current <- CanonicalExecutions,
    answers <- [i \in DetectorInputs |->
                  {returned[i]} \ {None}]

\* Callers agree, and what both stages persist are records as KeyedRecords states
\* them, however calls race, crash or lose.
ExecutionsImplementRecords ==
    /\ CallersAgree
    /\ EventRecords!RecordsSpec
    /\ ResultRecords!RecordsSpec
=============================================================================
