---------------------------- MODULE ProjectMemory ----------------------------
(* The memory of a project: project() of the project state projector. The     *)
(* authoritative events of a project are projected to its one current state   *)
(* and to an append-only history of versions, in a serializable transaction:  *)
(* a snapshot, and a commit that must find the state as the snapshot had it.  *)
(* Events change meanwhile: interpretation adds and supersedes them, and a    *)
(* sync takes their commits out of reach or back.                             *)
EXTENDS Integers, Sequences, FiniteSets

CONSTANTS
    Projectors,         \* processes that project
    MaxEvent,           \* events 1..MaxEvent, in the order projection reads them
    TypeOf,             \* the type of an event
    FeaturesOf,         \* relatedFeatureIds
    OccurredAt,
    CommitsOf,          \* the commits that support an event
    MergedPulls,        \* events a merged pull request supports
    MilestoneWindow,    \* recentMilestoneWindowMs
    MilestoneLimit,     \* recentMilestoneLimit
    MaxChanges,         \* bound on changes of the events
    MaxFailures         \* bound on projections that fail

ProjectEvents == 1 .. MaxEvent

ASSUME MemoryAssumption ==
    /\ MaxEvent \in Nat \ {0}
    /\ MilestoneLimit \in Nat \ {0}
    /\ MaxChanges \in Nat /\ MaxFailures \in Nat
    /\ MergedPulls \subseteq ProjectEvents
    /\ \A e \in ProjectEvents : OccurredAt[e] \in Nat
    /\ \A e, f \in ProjectEvents : e < f => OccurredAt[e] <= OccurredAt[f]

Commits == UNION {CommitsOf[e] : e \in ProjectEvents}

VARIABLES
    eventStatus,    \* status of each DevelopmentEvent
    orphaned,       \* commits out of reach
    state,          \* the ProjectState row
    versions,       \* the ProjectStateVersion rows
    projector,      \* the projection each process is in
    changes,        \* how often the events changed
    failures

evidenceVars == <<eventStatus, orphaned, changes>>
memoryVars == <<evidenceVars, state, versions, projector, failures>>

NoState == [version |-> 0, events |-> {}]

Projection == [version : Nat, events : SUBSET ProjectEvents]

Idle == [pc |-> "idle", version |-> 0, events |-> {}, seen |-> 0]

MemoryInit ==
    /\ eventStatus = [e \in ProjectEvents |-> "none"]
    /\ orphaned = {}
    /\ state = NoState
    /\ versions = <<>>
    /\ projector = [p \in Projectors |-> Idle]
    /\ changes = 0
    /\ failures = 0

-----------------------------------------------------------------------------
(* What is projected *)

\* authoritativeDevelopmentEventWhere: active, and supported by a commit within
\* reach or by a merged pull request.
Authoritative ==
    {e \in ProjectEvents : /\ eventStatus[e] = "active"
                           /\ e \in MergedPulls \/ ~(CommitsOf[e] \subseteq orphaned)}

\* Slip: only the newest event is covered.
NewestOnly(S) == {e \in S : \A f \in S : f <= e}

\* The fingerprint of the events; distinct sets have distinct ones.
Fingerprint(S) == S

OfType(S, type) == {e \in S : TypeOf[e] = type}

CompletedFeatures(S) == UNION {FeaturesOf[e] : e \in OfType(S, "feature_completed")}

\* The events of started features none of which is completed.
ActiveFeatures(S) ==
    {e \in OfType(S, "feature_started") : FeaturesOf[e] \cap CompletedFeatures(S) = {}}

\* lastUpdatedAt: of the newest event, or of the project's creation.
LastUpdatedAt(S) ==
    IF S = {} THEN 0 ELSE CHOOSE t \in {OccurredAt[e] : e \in S} :
                              \A e \in S : OccurredAt[e] <= t

\* The newest milestones of the window, at most MilestoneLimit; the one type
\* stands for milestoneTypes.
RecentMilestones(S) ==
    LET recent == {e \in OfType(S, "project_milestone") :
                      OccurredAt[e] >= LastUpdatedAt(S) - MilestoneWindow}
    IN  {e \in recent : Cardinality({f \in recent : f > e}) < MilestoneLimit}

-----------------------------------------------------------------------------
(* project() *)

EndProjection(p) == projector' = [projector EXCEPT ![p] = Idle]

\* A version of these events exists.
ReplayExists(S) ==
    \E n \in DOMAIN versions : Fingerprint(versions[n].events) = Fingerprint(S)

\* The transaction reads the events and the state: an unchanged replay ends it.
ReadUnchanged(p) ==
    /\ projector[p].pc = "idle"
    /\ state # NoState
    /\ Fingerprint(state.events) = Fingerprint(Authoritative)
    /\ UNCHANGED memoryVars

\* PROJECT_STATE_INCONSISTENT: the events are those of an earlier version.
ReadInconsistent(p) ==
    /\ projector[p].pc = "idle"
    /\ state # NoState
    /\ Fingerprint(state.events) # Fingerprint(Authoritative)
    /\ ReplayExists(Authoritative)
    /\ UNCHANGED memoryVars

ReadChanged(p) ==
    /\ projector[p].pc = "idle"
    /\ ~ReplayExists(Authoritative)
    /\ projector' = [projector EXCEPT ![p] =
          [pc |-> "write", version |-> state.version, events |-> Authoritative,
           seen |-> changes]]
    /\ UNCHANGED <<evidenceVars, state, versions, failures>>

\* Slip: the state is replaced whatever its version.
AnyVersion(p) == ~ReplayExists(projector[p].events)

\* The compare-and-swap on the state's version and the unique indexes: one
\* state per project, one version per number and per fingerprint.
StateUnchanged(p) ==
    /\ state.version = projector[p].version
    /\ ~ReplayExists(projector[p].events)

\* The state and its version are written in one commit.
WriteState(p) ==
    LET next == [version |-> projector[p].version + 1,
                 events |-> projector[p].events]
    IN  /\ projector[p].pc = "write"
        /\ StateUnchanged(p)
        /\ state' = next
        /\ versions' = Append(versions,
              [events |-> next.events, seen |-> projector[p].seen,
               active |-> ActiveFeatures(next.events),
               completed |-> CompletedFeatures(next.events),
               milestones |-> RecentMilestones(next.events)])
        /\ EndProjection(p)
        /\ UNCHANGED <<evidenceVars, failures>>

\* PROJECT_STATE_CONFLICT: another projection was first; the run is retried.
WriteConflicts(p) ==
    /\ projector[p].pc = "write"
    /\ ~StateUnchanged(p)
    /\ EndProjection(p)
    /\ UNCHANGED <<evidenceVars, state, versions, failures>>

\* PROJECT_STATE_PERSISTENCE_FAILED, a refused transaction or a crash.
ProjectionFails(p) ==
    /\ projector[p].pc = "write"
    /\ failures < MaxFailures
    /\ failures' = failures + 1
    /\ EndProjection(p)
    /\ UNCHANGED <<evidenceVars, state, versions>>

-----------------------------------------------------------------------------
(* What happens to events meanwhile *)

EventsChange ==
    /\ changes < MaxChanges
    /\ changes' = changes + 1
    /\ UNCHANGED <<state, versions, projector, failures>>

\* An event is persisted, or superseded by one of a grown group.
InterpretEvent(e) ==
    /\ EventsChange
    /\ eventStatus[e] \in {"none", "active"}
    /\ eventStatus' = [eventStatus EXCEPT ![e] =
          IF @ = "none" THEN "active" ELSE "superseded"]
    /\ UNCHANGED orphaned

\* A sync finds a commit out of reach, or within reach again.
ChangeReachability(c) ==
    /\ EventsChange
    /\ orphaned' = IF c \in orphaned THEN orphaned \ {c} ELSE orphaned \cup {c}
    /\ UNCHANGED eventStatus

ProjectStep(p) ==
    \/ ReadUnchanged(p) \/ ReadInconsistent(p) \/ ReadChanged(p)
    \/ WriteState(p) \/ WriteConflicts(p)

MemoryNext ==
    \/ \E p \in Projectors : ProjectStep(p) \/ ProjectionFails(p)
    \/ \E e \in ProjectEvents : InterpretEvent(e)
    \/ \E c \in Commits : ChangeReachability(c)

\* The pipeline projects after every run and retries what conflicted or failed.
MemoryFairness == \A p \in Projectors : WF_memoryVars(ProjectStep(p))

MemorySpec == MemoryInit /\ [][MemoryNext]_memoryVars /\ MemoryFairness

-----------------------------------------------------------------------------
(* Properties *)

MemoryTypeOK ==
    /\ eventStatus \in [ProjectEvents -> {"none", "active", "superseded"}]
    /\ orphaned \subseteq Commits
    /\ state \in Projection
    /\ \A n \in DOMAIN versions :
          /\ versions[n].events \subseteq ProjectEvents
          /\ Cardinality(versions[n].milestones) <= MilestoneLimit
    /\ \A p \in Projectors :
          /\ projector[p].pc \in {"idle", "write"}
          /\ [version |-> projector[p].version,
              events |-> projector[p].events] \in Projection
    /\ changes \in 0 .. MaxChanges
    /\ failures \in 0 .. MaxFailures

\* Versions are numbered without gap, the state has the newest, and a later
\* version is of later events: a projection that was overtaken never
\* replaces the state by what the project was before.
VersionsMoveForward ==
    /\ state.version = Len(versions)
    /\ \A m, n \in DOMAIN versions : m < n => versions[m].seen < versions[n].seen

\* A feature completed in one version is active in a later one only if the
\* completion has lost its support or was superseded in between.
CompletedFeaturesRest ==
    \A m, n \in DOMAIN versions : m < n =>
        \A e \in versions[n].active : \A f \in versions[m].events :
            (/\ TypeOf[f] = "feature_completed"
             /\ FeaturesOf[e] \cap FeaturesOf[f] # {}) => f \notin versions[n].events

\* The state comes to be of the project's authoritative events, unless these
\* are once more the events of an earlier version: those cannot be projected
\* again.
StateFollowsEvents ==
    <>[](\/ state.events = Authoritative
         \/ \E n \in DOMAIN versions : versions[n].events = Authoritative)

VersionRecords == INSTANCE KeyedRecords WITH
    rows <- [n \in DOMAIN versions |->
               [key |-> Fingerprint(versions[n].events), subject |-> "state",
                version |-> versions[n]]],
    current <- {state.version} \ {NoState.version},
    answers <- [c \in {} |-> {}]

\* The memory is one line of versions of bounded states, and these are recorded as
\* KeyedRecords states: one per set of events, never rewritten, and the one the state has is current,
\* which no overtaken projection brings back.
MemoryImplementsRecords ==
    /\ [](MemoryTypeOK /\ VersionsMoveForward /\ CompletedFeaturesRest)
    /\ VersionRecords!RecordsSpec
=============================================================================
