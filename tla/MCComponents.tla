---------------------------- MODULE MCComponents ----------------------------
(* Small instances of the components that share no state with the queues or   *)
(* with each other. A behaviour is about one of them, its focus; the others   *)
(* stay in an initial state.                                                  *)
EXTENDS AIExecutions, Feedback, DailySummary, GitHubClient, Ingestion,
        EvidenceGrouping, DeveloperDay, TLC

CONSTANTS
    one, two,   \* two processes, calls or requests, whatever the focus is
    Foci        \* the components that are looked at

-----------------------------------------------------------------------------
(* AIExecutions: one user with two projects in two time zones, a group and    *)
(* the group it grows into, and one detection input.                          *)

GroupsAndDetection == {"group", "grown", "detection"}
Stages == [group |-> Interpretation, grown |-> Interpretation,
           detection |-> Detection]
ProjectsOfInputs == [group |-> "p1", grown |-> "p1", detection |-> "p2"]
Evidence == [group |-> {"a"}, grown |-> {"a", "b"}, detection |-> {}]
UsersOfProjects == [p1 |-> "u1", p2 |-> "u1"]
Offsets == [p1 |-> 1, p2 |-> 0]

\* What the calls of a behaviour are about: two inputs, or one with a fault.
\* The next day comes to a group and its growth once one of them has an event.
AskedTogether == {{"group", "grown"}, {"grown", "detection"},
                  {"group"}, {"detection"}}

(* Feedback: two keys, two opportunities of two projects.                     *)

Click(key, opportunity, action) ==
    [key |-> key, opportunity |-> opportunity, action |-> action, isCurrent |-> TRUE]
ThreeClicks == {Click("k1", "o1", "accepted"), Click("k2", "o1", "dismissed"),
                Click("k1", "o2", "accepted")}
TwoProjects == [o1 |-> "p1", o2 |-> "p2"]

(* GitHubClient: two items, later up to three of at most two, on pages of     *)
(* one, and headers from the past, the near and the far future.               *)

TwoItems == <<1, 2>>
Headers == {-2, 1, 9}

(* Ingestion: the last commit is in the second run's window only.             *)

CommitDates == <<1, 3, 4>>
TwoWindows == <<3, 4>>

(* EvidenceGrouping: a chain with a merge and a commit days later, and a line *)
(* with two pull requests that share a commit.                                *)

MergedChain == [at      |-> <<0, 0, 1, 1, 3>>,
                parents |-> <<{}, {1}, {1}, {2, 3}, {4}>>,
                paths   |-> <<{"a"}, {"a"}, {"a", "b"}, {"a", "b"}, {"a"}>>,
                merges  |-> [p |-> {3, 4}]]
Line == [at      |-> <<0, 0, 1, 3, 3>>,
         parents |-> <<{}, {1}, {2}, {3}, {4, 1}>>,
         paths   |-> <<{"a"}, {"a"}, {"a", "b"}, {"b"}, {"b"}>>,
         merges  |-> [p |-> {2}, q |-> {2, 3}]]
TwoHistories == {MergedChain, Line}

(* DeveloperDay: offsets to the west and east of UTC, and a change of the     *)
(* clocks by one unit either way at any time of two days, or none.            *)

Clocks == {z \in [before : {-3, -1, 0, 2}, after : -4 .. 3, at : 4 .. 12] :
             z.after - z.before \in {-1, 0, 1}}

Symmetry == Permutations({one, two})

-----------------------------------------------------------------------------

VARIABLES
    focus,      \* the component a behaviour is about
    asked       \* the inputs its model calls are about

Only(f) ==
    /\ focus = f
    /\ IF f = "executions" THEN TRUE ELSE UNCHANGED vars
    /\ IF f = "feedback" THEN TRUE ELSE UNCHANGED feedbackVars
    /\ IF f = "summary" THEN TRUE ELSE UNCHANGED summaryVars
    /\ IF f = "client" THEN TRUE ELSE UNCHANGED clientVars
    /\ IF f = "ingestion" THEN TRUE ELSE UNCHANGED ingestionVars
    /\ IF f = "grouping" THEN TRUE ELSE UNCHANGED groupingVars
    /\ IF f = "day" THEN TRUE ELSE UNCHANGED dayVars
    /\ UNCHANGED <<focus, asked>>

ComponentsInit ==
    /\ Init /\ FeedbackInit /\ SummaryInit /\ ClientInit
    /\ IngestionInit /\ GroupingInit /\ DayInit
    /\ focus \in Foci
    /\ asked \in AskedTogether
    /\ focus # "executions" => asked = {"group"}
    /\ focus # "summary" => facts = AnyFacts
    /\ focus # "client" => client = NewOperation("commits")
    /\ focus # "grouping" => history = Line
    /\ focus # "day" => zone = [before |-> 0, after |-> 0, at |-> 4]

ExecutionsNext ==
    /\ Next
    /\ \A w \in Workers : worker'[w].pc # "idle" => worker'[w].input \in asked
    /\ faults' > 0 => Cardinality(asked) = 1
    /\ clock' > clock => (asked # {"group", "grown"} \/ events # <<>>)

ComponentsNext ==
    \/ Only("executions") /\ ExecutionsNext
    \/ Only("feedback") /\ FeedbackNext
    \/ Only("summary") /\ SummaryNext
    \/ Only("client") /\ ClientNext
    \/ Only("ingestion") /\ IngestionNext
    \/ Only("grouping") /\ GroupingNext
    \/ Only("day") /\ DayNext

ComponentsSpec ==
    ComponentsInit
    /\ [][ComponentsNext]_<<focus, asked, vars, feedbackVars, summaryVars, clientVars,
                            ingestionVars, groupingVars, dayVars>>

\* Type correctness of each component.
ComponentsTypeOK ==
    /\ TypeOK /\ FeedbackTypeOK /\ SummaryTypeOK /\ ClientTypeOK
    /\ IngestionTypeOK /\ GroupingTypeOK /\ DayTypeOK
=============================================================================
