-------------------------- MODULE EvidenceGrouping --------------------------
(* The grouping of a project's evidence: selectAndGroup() of the evidence     *)
(* grouping service. Each merged pull request takes its commits; the others   *)
(* are grouped by a breadth-first walk over neighbours. Evidence grows, and   *)
(* shrinks, from one grouping to the next, and the interpreter relates the    *)
(* groups it gets to the ones it had.                                         *)
EXTENDS Integers, FiniteSets, Sequences

CONSTANTS
    Histories,          \* what a repository's history may be
    Adjacency,          \* standaloneAdjacencyMs
    MaxRecords,         \* maximumEvidenceRecordsPerKind
    MaxArrivals         \* bound on changes of the evidence

VARIABLES
    history,            \* the history this repository has; it never changes
    evidence,           \* commits and pull requests in the window
    walk,               \* the grouping under way, with its groups so far
    groups,             \* the groups of the last grouping
    grouped,            \* history: the evidence of the last grouping
    arrivals

groupingVars == <<history, evidence, walk, groups, grouped, arrivals>>

\* A history: commits 1..n in the order of compareCommits, with their parents,
\* paths and instants, and pull requests with the commits they merge.
History(h) ==
    /\ IsFiniteSet(DOMAIN h.paths) /\ DOMAIN h.paths \subseteq Nat
    /\ DOMAIN h.parents = DOMAIN h.paths /\ DOMAIN h.at = DOMAIN h.paths
    /\ \A c \in DOMAIN h.at : h.at[c] \in Int
    /\ \A c \in DOMAIN h.parents : h.parents[c] \subseteq DOMAIN h.paths
    /\ \A p \in DOMAIN h.merges : h.merges[p] \subseteq DOMAIN h.paths

ASSUME GroupingAssumption ==
    /\ \A h \in Histories : History(h)
    /\ {Adjacency, MaxRecords} \subseteq Nat /\ MaxArrivals \in Nat

NoEvidence == [commits |-> {}, pulls |-> {}]

NoWalk == [pc |-> "idle", evidence |-> NoEvidence, groups |-> {}, claimed |-> {},
           todo |-> {}, pending |-> <<>>, component |-> {}, visited |-> {}]

GroupingInit ==
    /\ history \in Histories
    /\ evidence = NoEvidence
    /\ walk = NoWalk
    /\ groups = {}
    /\ grouped = NoEvidence
    /\ arrivals = 0

-----------------------------------------------------------------------------
(* What belongs together *)

\* Commits of a pull request that are in the evidence.
Related(p) == history.merges[p] \cap walk.evidence.commits

\* Commits that no pull request claimed, without merges of such commits.
StandaloneOf(S) ==
    {c \in S : Cardinality(history.parents[c]) < 2 \/ history.parents[c] \cap S = {}}

Standalone == StandaloneOf(walk.evidence.commits \ walk.claimed)

\* Slip: a walk goes from a commit to its parents only.
ParentOf(c, d) ==
    /\ d \in history.parents[c]
    /\ history.paths[c] \cap history.paths[d] # {}

\* areStandaloneNeighbors
Neighbors(c, d) ==
    /\ history.at[c] - history.at[d] \in -Adjacency .. Adjacency
    /\ c \in history.parents[d] \/ d \in history.parents[c]
    /\ history.paths[c] \cap history.paths[d] # {}

-----------------------------------------------------------------------------
(* groupEvidence() *)

\* EvidenceSelectionLimitError otherwise.
WithinLimit ==
    /\ Cardinality(evidence.commits) <= MaxRecords
    /\ Cardinality(evidence.pulls) <= MaxRecords

\* The evidence is selected in one query.
SelectEvidence ==
    /\ walk.pc = "idle"
    /\ WithinLimit
    /\ walk' = [NoWalk EXCEPT !.pc = "pulls", !.evidence = evidence,
                              !.todo = evidence.pulls]
    /\ UNCHANGED <<history, evidence, groups, grouped, arrivals>>

Claimed(p) == Related(p)

\* A pull request takes its commits, also those another one took.
GroupPullRequest(p) ==
    /\ walk.pc = "pulls"
    /\ p \in walk.todo
    /\ walk' = [walk EXCEPT !.todo = @ \ {p},
                            !.claimed = @ \cup Claimed(p),
                            !.groups = @ \cup {[pulls |-> {p}, commits |-> Related(p)]}]
    /\ UNCHANGED <<history, evidence, groups, grouped, arrivals>>

BeginStandalone ==
    /\ walk.pc = "pulls"
    /\ walk.todo = {}
    /\ walk' = [walk EXCEPT !.pc = "roots", !.todo = Standalone]
    /\ UNCHANGED <<history, evidence, groups, grouped, arrivals>>

\* The next root, in any order: the outcome does not depend on it.
VisitRoot(c) ==
    /\ walk.pc = "roots"
    /\ c \in walk.todo \ walk.visited
    /\ walk' = [walk EXCEPT !.pc = "walk", !.pending = <<c>>, !.component = {},
                            !.visited = @ \cup {c}]
    /\ UNCHANGED <<history, evidence, groups, grouped, arrivals>>

\* One round of the walk: the first commit waiting joins the component, and its
\* neighbours wait after the others.
VisitNext ==
    LET c == Head(walk.pending)
        near == {d \in walk.todo \ walk.visited : Neighbors(c, d)}
    IN  /\ walk.pc = "walk"
        /\ walk.pending # <<>>
        /\ \E order \in [1 .. Cardinality(near) -> near] :
              /\ \A i, j \in DOMAIN order : i < j => order[i] < order[j]
              /\ walk' = [walk EXCEPT !.component = @ \cup {c},
                                      !.visited = @ \cup near,
                                      !.pending = Tail(@) \o order]
        /\ UNCHANGED <<history, evidence, groups, grouped, arrivals>>

EndComponent ==
    /\ walk.pc = "walk"
    /\ walk.pending = <<>>
    /\ walk' = [walk EXCEPT !.pc = "roots", !.component = {},
                  !.groups = @ \cup {[pulls |-> {}, commits |-> walk.component]}]
    /\ UNCHANGED <<history, evidence, groups, grouped, arrivals>>

\* All is visited; the groups are returned.
EndGrouping ==
    /\ walk.pc = "roots"
    /\ walk.todo \subseteq walk.visited
    /\ groups' = walk.groups
    /\ grouped' = walk.evidence
    /\ walk' = NoWalk
    /\ UNCHANGED <<history, evidence, arrivals>>

-----------------------------------------------------------------------------
(* Syncs: commits and pull requests come, commits go out of reach. A grouping *)
(* has what it selected, so only what changes between groupings matters.      *)

EvidenceChanges(commits, pulls) ==
    /\ walk.pc = "idle"
    /\ arrivals < MaxArrivals
    /\ arrivals' = arrivals + 1
    /\ evidence' = [commits |-> commits, pulls |-> pulls]
    /\ UNCHANGED <<history, walk, groups, grouped>>

CommitArrives(c) == /\ c \notin evidence.commits
                    /\ EvidenceChanges(evidence.commits \cup {c}, evidence.pulls)

CommitOrphaned(c) == /\ c \in evidence.commits
                     /\ EvidenceChanges(evidence.commits \ {c}, evidence.pulls)

PullArrives(p) == /\ p \notin evidence.pulls
                  /\ EvidenceChanges(evidence.commits, evidence.pulls \cup {p})

GroupingStep ==
    \/ SelectEvidence \/ BeginStandalone \/ VisitNext \/ EndComponent \/ EndGrouping
    \/ \E p \in DOMAIN history.merges : GroupPullRequest(p)
    \/ \E c \in DOMAIN history.paths : VisitRoot(c)

GroupingNext ==
    \/ GroupingStep
    \/ \E c \in DOMAIN history.paths : CommitArrives(c) \/ CommitOrphaned(c)
    \/ \E p \in DOMAIN history.merges : PullArrives(p)

GroupingSpec == GroupingInit /\ [][GroupingNext]_groupingVars

-----------------------------------------------------------------------------
(* Properties *)

CommitsIn(S) == UNION {g.commits : g \in S}

PullGroups == {g \in groups : g.pulls # {}}
ChainGroups == {g \in groups : g.pulls = {}}

\* Type correctness; groups are of the evidence selected, within its limit.
GroupingTypeOK ==
    /\ evidence.commits \subseteq DOMAIN history.paths
    /\ evidence.pulls \subseteq DOMAIN history.merges
    /\ walk.pc \in {"idle", "pulls", "roots", "walk"}
    /\ walk.component \subseteq walk.visited
    /\ walk.pc # "pulls" => walk.visited \subseteq walk.todo
    /\ \A g \in groups : g.pulls = {} => g.commits # {}
    /\ CommitsIn(groups) \subseteq grouped.commits
    /\ Cardinality(grouped.commits) <= MaxRecords

\* Two commits near each other, as the requirements have it: not over a day
\* apart, one the other's parent, with a path in common.
Near(c, d) ==
    /\ history.at[c] <= history.at[d] + Adjacency
    /\ history.at[d] <= history.at[c] + Adjacency
    /\ d \in history.parents[c] \/ c \in history.parents[d]
    /\ \E path \in history.paths[c] : path \in history.paths[d]

\* Whatever the order of the walk, standalone groups are the connected
\* components of their commits: disjoint, with no neighbours in different
\* groups, and none falls apart.
ChainsAreComponents ==
    /\ \A g, h \in ChainGroups : g # h =>
          /\ g.commits \cap h.commits = {}
          /\ \A c \in g.commits, d \in h.commits : ~Near(c, d)
    /\ \A g \in ChainGroups : \A S \in (SUBSET g.commits) \ {{}, g.commits} :
          \E c \in S, d \in g.commits \ S : Near(c, d)

\* Of the evidence only a merge of standalone commits is in no group, and no
\* commit of a pull request is also in a chain: it would be interpreted twice.
CommitsArePlaced ==
    /\ CommitsIn(PullGroups) \cap CommitsIn(ChainGroups) = {}
    /\ \A c \in grouped.commits \ CommitsIn(groups) :
          /\ Cardinality(history.parents[c]) > 1
          /\ history.parents[c] \cap (grouped.commits \ CommitsIn(PullGroups)) # {}

\* From one grouping to the next with more commits, each group is part of a
\* group, so that an event of a group is found contained in one of the grown
\* group; only a merge can fall out of a chain, and divide it, when a parent of
\* it arrives.
GroupsGrow ==
    [][(/\ groups' # groups
        /\ grouped.commits \subseteq grouped'.commits
        /\ grouped.pulls = grouped'.pulls) =>
          \A g \in groups :
              \/ \E h \in groups' : g.pulls = h.pulls /\ g.commits \subseteq h.commits
              \/ \E c \in g.commits : Cardinality(history.parents[c]) > 1]_groupingVars

\* Groups are components, no commit is interpreted twice, and evidence that
\* grows only makes groups grow.
GroupsAreSound ==
    /\ [](ChainsAreComponents /\ CommitsArePlaced)
    /\ GroupsGrow
=============================================================================
