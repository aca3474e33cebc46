------------------------ MODULE InterpretationProofs ------------------------
(***************************************************************************)
(* Theorems about how a project's evidence becomes events: the grouping of *)
(* its commits (EvidenceGrouping), for every set of histories, and the     *)
(* calls of the model for a group (AIExecutions), for every set of calls,  *)
(* inputs, projects and users, any budget, day and number of faults.       *)
(***************************************************************************)
EXTENDS EvidenceGrouping, AIExecutions, SequencesExt, FiniteSetTheorems,
        SequenceTheorems, TLAPS

-----------------------------------------------------------------------------
(* EvidenceGrouping: chains of a history                                     *)

\* Neighbors, of the history h.
Beside(h, c, d) ==
    /\ h.at[c] - h.at[d] \in -Adjacency .. Adjacency
    /\ c \in h.parents[d] \/ d \in h.parents[c]
    /\ h.paths[c] \cap h.paths[d] # {}

\* No part of X is without a neighbour in the rest.
Joined(h, X) ==
    \A S \in (SUBSET X) \ {{}, X} : \E c \in S, d \in X \ S : Beside(h, c, d)

\* X is a component of C.
Chain(h, X, C) ==
    /\ X \subseteq C /\ X # {}
    /\ Joined(h, X)
    /\ \A c \in X, d \in C : Beside(h, c, d) => d \in X

LEMMA HistoryTypes ==
    ASSUME NEW h \in Histories
    PROVE  /\ IsFiniteSet(DOMAIN h.paths) /\ DOMAIN h.paths \subseteq Nat
           /\ \A c \in DOMAIN h.paths : h.at[c] \in Int
           /\ \A c \in DOMAIN h.paths : h.parents[c] \subseteq DOMAIN h.paths
           /\ \A p \in DOMAIN h.merges : h.merges[p] \subseteq DOMAIN h.paths
           /\ Adjacency \in Nat /\ MaxRecords \in Nat /\ MaxArrivals \in Nat
BY GroupingAssumption DEF History

\* Neighbours are so of each other, and as the requirements have it.
LEMMA BesideIsNear ==
    ASSUME history \in Histories, NEW c \in DOMAIN history.paths,
           NEW d \in DOMAIN history.paths
    PROVE  /\ Beside(history, c, d) <=> Beside(history, d, c)
           /\ Beside(history, c, d) <=> Near(c, d)
<1>1. /\ history.at[c] \in Int /\ history.at[d] \in Int /\ Adjacency \in Nat
  BY HistoryTypes
<1> DEFINE x == history.at[c]
           y == history.at[d]
<1>2. /\ x - y \in -Adjacency .. Adjacency <=> y - x \in -Adjacency .. Adjacency
      /\ x - y \in -Adjacency .. Adjacency
           <=> x <= y + Adjacency /\ y <= x + Adjacency
  <2>1. x \in Int /\ y \in Int
    BY <1>1
  <2> HIDE DEF x, y
  <2> QED BY <1>1, <2>1
<1>3. history.paths[c] \cap history.paths[d] # {}
        <=> \E path \in history.paths[c] : path \in history.paths[d]
  OBVIOUS
<1>4. history.paths[c] \cap history.paths[d] = history.paths[d] \cap history.paths[c]
  OBVIOUS
<1>5. /\ history.at[c] - history.at[d] \in -Adjacency .. Adjacency
           <=> history.at[d] - history.at[c] \in -Adjacency .. Adjacency
      /\ history.at[c] - history.at[d] \in -Adjacency .. Adjacency
           <=> /\ history.at[c] <= history.at[d] + Adjacency
               /\ history.at[d] <= history.at[c] + Adjacency
  BY <1>2
<1>6. Beside(history, c, d) <=> Beside(history, d, c)
  BY <1>4, <1>5, Zenon DEF Beside
<1>7. Beside(history, c, d) <=> Near(c, d)
  BY <1>3, <1>5, Zenon DEF Beside, Near
<1> QED BY <1>6, <1>7

\* A joined set stays one with neighbours of one of its members.
LEMMA JoinedGrows ==
    ASSUME history \in Histories, NEW X \in SUBSET DOMAIN history.paths,
           NEW N \in SUBSET DOMAIN history.paths, NEW c \in X,
           Joined(history, X), \A d \in N : Beside(history, c, d)
    PROVE  Joined(history, X \cup N)
<1> SUFFICES ASSUME NEW S \in SUBSET (X \cup N), S # {}, S # X \cup N
             PROVE  \E a \in S, b \in (X \cup N) \ S : Beside(history, a, b)
  BY DEF Joined
<1>1. CASE S \cap X # {} /\ S \cap X # X
  <2>1. S \cap X \in (SUBSET X) \ {{}, X}
    BY <1>1
  <2>2. PICK a \in S \cap X, b \in X \ (S \cap X) : Beside(history, a, b)
    BY <2>1 DEF Joined
  <2> QED BY <2>2
<1>2. CASE S \cap X = X
  <2>1. PICK b \in N : b \notin S
    BY <1>2
  <2> QED BY <1>2, <2>1
<1>3. CASE S \cap X = {}
  <2>1. PICK a \in N : a \in S
    BY <1>3
  <2>2. Beside(history, a, c)
    BY <2>1, BesideIsNear
  <2> QED BY <1>3, <2>1, <2>2
<1> QED BY <1>1, <1>2, <1>3

LEMMA JoinedOne == ASSUME NEW h, NEW c PROVE Joined(h, {c})
BY DEF Joined

\* A joined part of C that meets a component of C is within it.
LEMMA JoinedStays ==
    ASSUME NEW h, NEW C, NEW X \in SUBSET C, NEW Y,
           Joined(h, X), Chain(h, Y, C), X \cap Y # {}
    PROVE  X \subseteq Y
<1> SUFFICES ASSUME X \cap Y # X PROVE FALSE
  OBVIOUS
<1>1. X \cap Y \in (SUBSET X) \ {{}, X}
  OBVIOUS
<1>2. PICK c \in X \cap Y, d \in X \ (X \cap Y) : Beside(h, c, d)
  BY <1>1 DEF Joined
<1> QED BY <1>2 DEF Chain

-----------------------------------------------------------------------------
(* EvidenceGrouping: what a grouping comes to                                *)

Unclaimed(h, e) == e.commits \ UNION {h.merges[p] : p \in e.pulls}

Standing(h, e) ==
    {c \in Unclaimed(h, e) : \/ Cardinality(h.parents[c]) < 2
                             \/ h.parents[c] \cap Unclaimed(h, e) = {}}

PullGroup(h, e, p) == [pulls |-> {p}, commits |-> h.merges[p] \cap e.commits]

ChainGroup(X) == [pulls |-> {}, commits |-> X]

\* The groups gs are of the evidence e: its pull requests with their commits, and
\* components of what stands alone.
GroupsOf(h, e, gs) ==
    /\ \A p \in e.pulls : PullGroup(h, e, p) \in gs
    /\ \A g \in gs : \/ \E p \in e.pulls : g = PullGroup(h, e, p)
                     \/ g = ChainGroup(g.commits) /\ Chain(h, g.commits, Standing(h, e))

\* And nothing that stands alone is missing.
AllGroupsOf(h, e, gs) ==
    /\ GroupsOf(h, e, gs)
    /\ \A c \in Standing(h, e) : \E g \in gs : g.pulls = {} /\ c \in g.commits

Evidence(h) == [commits : SUBSET DOMAIN h.paths, pulls : SUBSET DOMAIN h.merges]

Walk(h) == [pc : {"idle", "pulls", "roots", "walk"}, evidence : Evidence(h),
            groups : SUBSET [pulls : SUBSET DOMAIN h.merges,
                             commits : SUBSET DOMAIN h.paths],
            claimed : SUBSET DOMAIN h.paths,
            todo : SUBSET (DOMAIN h.paths \cup DOMAIN h.merges),
            pending : Seq(DOMAIN h.paths), component : SUBSET DOMAIN h.paths,
            visited : SUBSET DOMAIN h.paths]

\* What waits or has joined the component.
Reached(w) == w.component \cup ToSet(w.pending)

\* The pull requests that are done have their groups.
TakesPulls(h, w) ==
    LET taken == w.evidence.pulls \ w.todo IN
    /\ w.todo \subseteq w.evidence.pulls
    /\ w.visited = {} /\ w.component = {} /\ w.pending = <<>>
    /\ w.groups = {PullGroup(h, w.evidence, p) : p \in taken}
    /\ w.claimed = UNION {h.merges[p] \cap w.evidence.commits : p \in taken}

\* What is visited is in a chain or in the component under way, and no neighbour
\* of a commit that joined it was overlooked.
WalksChains(h, w) ==
    /\ w.todo = Standing(h, w.evidence)
    /\ w.visited \subseteq w.todo
    /\ GroupsOf(h, w.evidence, w.groups)
    /\ Reached(w) \subseteq w.visited
    /\ \A g \in w.groups : g.pulls = {} =>
         g.commits \subseteq w.visited /\ g.commits \cap Reached(w) = {}
    /\ \A c \in w.visited :
         c \in Reached(w) \/ \E g \in w.groups : g.pulls = {} /\ c \in g.commits
    /\ \A c \in w.component, d \in w.todo : Beside(h, c, d) => d \in Reached(w)
    /\ w.pc = "roots" => w.component = {} /\ w.pending = <<>>
    /\ w.pc = "walk" => Reached(w) # {} /\ Joined(h, Reached(w))

SoundWalk(h, w) ==
    /\ w \in Walk(h)
    /\ Cardinality(w.evidence.commits) <= MaxRecords
    /\ w.pc = "pulls" => TakesPulls(h, w)
    /\ w.pc \in {"roots", "walk"} => WalksChains(h, w)
    /\ w.pc = "idle" => w.component = {} /\ w.visited = {}

GroupingInv ==
    /\ history \in Histories
    /\ evidence \in Evidence(history) /\ grouped \in Evidence(history)
    /\ Cardinality(grouped.commits) <= MaxRecords
    /\ AllGroupsOf(history, grouped, groups)
    /\ SoundWalk(history, walk)

LEMMA NothingGrouped ==
    ASSUME NEW h \in Histories
    PROVE  /\ NoEvidence \in Evidence(h) /\ Cardinality(NoEvidence.commits) <= MaxRecords
           /\ SoundWalk(h, NoWalk)
           /\ AllGroupsOf(h, NoEvidence, {})
<1>1. /\ NoEvidence \in Evidence(h) /\ NoEvidence.commits = {}
      /\ NoEvidence.pulls = {}
  BY DEF NoEvidence, Evidence
<1>2. Cardinality(NoEvidence.commits) <= MaxRecords
  BY <1>1, FS_EmptySet, HistoryTypes
<1>3. <<>> \in Seq(DOMAIN h.paths)
  BY EmptySeq
<1>4. /\ NoWalk.pc = "idle" /\ NoWalk.evidence = NoEvidence /\ NoWalk.groups = {}
      /\ NoWalk.component = {} /\ NoWalk.visited = {}
  BY DEF NoWalk
<1>5. NoWalk \in Walk(h)
  BY <1>1, <1>3 DEF NoWalk, Walk
<1>6. SoundWalk(h, NoWalk)
  BY <1>2, <1>4, <1>5 DEF SoundWalk
<1>7. Standing(h, NoEvidence) = {}
  BY <1>1 DEF Standing, Unclaimed
<1>8. AllGroupsOf(h, NoEvidence, {})
  BY <1>1, <1>7 DEF AllGroupsOf, GroupsOf
<1> QED BY <1>1, <1>2, <1>6, <1>8

LEMMA GroupingStarts == GroupingInit => GroupingInv
<1> SUFFICES ASSUME GroupingInit PROVE GroupingInv
  OBVIOUS
<1>1. /\ history \in Histories /\ evidence = NoEvidence /\ walk = NoWalk
      /\ groups = {} /\ grouped = NoEvidence
  BY DEF GroupingInit
<1> QED BY <1>1, NothingGrouped DEF GroupingInv

LEMMA SelectKeeps == GroupingInv /\ SelectEvidence => GroupingInv'
<1> SUFFICES ASSUME GroupingInv, SelectEvidence PROVE GroupingInv'
  OBVIOUS
<1> DEFINE h == history
           b == [NoWalk EXCEPT !.pc = "pulls", !.evidence = evidence,
                               !.todo = evidence.pulls]
<1>1. /\ h \in Histories /\ evidence \in Evidence(h) /\ NoWalk \in Walk(h)
      /\ Cardinality(evidence.commits) <= MaxRecords
  BY NothingGrouped DEF GroupingInv, SoundWalk, SelectEvidence, WithinLimit
<1>2. walk' = b /\ UNCHANGED <<history, evidence, groups, grouped>>
  BY DEF SelectEvidence
<1>3. /\ b.pc = "pulls" /\ b.evidence = evidence /\ b.todo = evidence.pulls
      /\ b.groups = {} /\ b.claimed = {} /\ b.pending = <<>>
      /\ b.component = {} /\ b.visited = {}
  BY DEF NoWalk
<1>4. b \in Walk(h)
  <2>1. evidence.pulls \in SUBSET (DOMAIN h.paths \cup DOMAIN h.merges)
    BY <1>1 DEF Evidence
  <2> HIDE DEF h
  <2> QED BY <1>1, <2>1 DEF Walk
<1> HIDE DEF b
<1>5. TakesPulls(h, b)
  BY <1>3 DEF TakesPulls
<1>6. SoundWalk(h, b)
  BY <1>1, <1>3, <1>4, <1>5 DEF SoundWalk
<1> QED BY <1>2, <1>6 DEF GroupingInv

LEMMA PullKeeps ==
    ASSUME GroupingInv, NEW p \in DOMAIN history.merges, GroupPullRequest(p)
    PROVE  GroupingInv'
<1> DEFINE h == history
           e == walk.evidence
           b == [walk EXCEPT !.todo = @ \ {p}, !.claimed = @ \cup Related(p),
                   !.groups = @ \cup {[pulls |-> {p}, commits |-> Related(p)]}]
<1>1. /\ h \in Histories /\ walk \in Walk(h) /\ walk.pc = "pulls"
      /\ Cardinality(e.commits) <= MaxRecords
      /\ TakesPulls(h, walk) /\ p \in walk.todo
  BY DEF GroupingInv, SoundWalk, GroupPullRequest
<1>2. walk' = b /\ UNCHANGED <<history, evidence, groups, grouped>>
  BY DEF GroupPullRequest, Claimed
<1>3. Related(p) = h.merges[p] \cap e.commits
  BY DEF Related
<1> DEFINE m == h.merges[p] \cap e.commits
           q == [pulls |-> {p}, commits |-> m]
<1>4. b = [walk EXCEPT !.todo = @ \ {p}, !.claimed = @ \cup m, !.groups = @ \cup {q}]
  BY <1>3
<1>5. /\ m \in SUBSET DOMAIN h.paths
      /\ q \in [pulls : SUBSET DOMAIN h.merges, commits : SUBSET DOMAIN h.paths]
  BY <1>1 DEF Walk, Evidence
<1>6. q = PullGroup(h, e, p)
  BY DEF PullGroup
<1> HIDE DEF m, q, h, b
<1>7. /\ b \in Walk(h) /\ b.pc = "pulls" /\ b.evidence = e
      /\ b.todo = walk.todo \ {p} /\ b.claimed = walk.claimed \cup m
      /\ b.groups = walk.groups \cup {q}
      /\ b.visited = walk.visited /\ b.component = walk.component
      /\ b.pending = walk.pending
  BY <1>1, <1>4, <1>5 DEF Walk
<1>8. TakesPulls(h, b)
  <2>1. e.pulls \ b.todo = (e.pulls \ walk.todo) \cup {p}
    BY <1>1, <1>7 DEF TakesPulls
  <2>2. b.groups = {PullGroup(h, e, r) : r \in e.pulls \ b.todo}
    <3>1. walk.groups = {PullGroup(h, e, r) : r \in e.pulls \ walk.todo}
      BY <1>1 DEF TakesPulls
    <3> QED BY <1>6, <1>7, <2>1, <3>1
  <2>3. b.claimed = UNION {h.merges[r] \cap e.commits : r \in e.pulls \ b.todo}
    <3>1. walk.claimed = UNION {h.merges[r] \cap e.commits : r \in e.pulls \ walk.todo}
      BY <1>1 DEF TakesPulls
    <3> QED BY <1>7, <2>1, <3>1 DEF m
  <2> QED BY <1>1, <1>7, <2>2, <2>3 DEF TakesPulls
<1>9. SoundWalk(h, b)
  BY <1>1, <1>7, <1>8 DEF SoundWalk
<1> QED BY <1>2, <1>9 DEF GroupingInv, h

LEMMA BeginKeeps == GroupingInv /\ BeginStandalone => GroupingInv'
<1> SUFFICES ASSUME GroupingInv, BeginStandalone PROVE GroupingInv'
  OBVIOUS
<1> DEFINE h == history
           e == walk.evidence
           b == [walk EXCEPT !.pc = "roots", !.todo = Standalone]
<1>1. /\ h \in Histories /\ walk \in Walk(h) /\ walk.pc = "pulls"
      /\ Cardinality(e.commits) <= MaxRecords
      /\ TakesPulls(h, walk) /\ walk.todo = {}
  BY DEF GroupingInv, SoundWalk, BeginStandalone
<1>2. walk' = b /\ UNCHANGED <<history, evidence, groups, grouped>>
  BY DEF BeginStandalone
<1>3. Standalone = Standing(h, e)
  <2>1. e.commits \ walk.claimed = Unclaimed(h, e)
    BY <1>1 DEF TakesPulls, Unclaimed
  <2> QED BY <2>1 DEF Standalone, StandaloneOf, Standing
<1>4. Standing(h, e) \in SUBSET (DOMAIN h.paths \cup DOMAIN h.merges)
  BY <1>1 DEF Standing, Unclaimed, Walk, Evidence
<1>5. b = [walk EXCEPT !.pc = "roots", !.todo = Standing(h, e)]
  BY <1>3
<1> HIDE DEF h, b
<1>6. /\ b \in Walk(h) /\ b.pc = "roots" /\ b.evidence = e
      /\ b.todo = Standing(h, e) /\ b.groups = walk.groups
      /\ b.visited = {} /\ b.component = {} /\ b.pending = <<>>
  BY <1>1, <1>4, <1>5 DEF Walk, TakesPulls
<1>7. b.groups = {PullGroup(h, e, p) : p \in e.pulls}
  BY <1>1, <1>6 DEF TakesPulls
<1>8. GroupsOf(h, e, b.groups)
  BY <1>7 DEF GroupsOf
<1>9. Reached(b) = {}
  BY <1>6 DEF Reached, ToSet
<1>10. \A g \in b.groups : g.pulls # {}
  BY <1>7 DEF PullGroup
<1>11. WalksChains(h, b)
  BY <1>6, <1>8, <1>9, <1>10 DEF WalksChains
<1>12. SoundWalk(h, b)
  BY <1>1, <1>6, <1>11 DEF SoundWalk
<1> QED BY <1>2, <1>12 DEF GroupingInv, h

LEMMA ToSetOfConcat ==
    ASSUME NEW S, NEW s \in Seq(S), NEW t \in Seq(S)
    PROVE  ToSet(s \o t) = ToSet(s) \cup ToSet(t)
<1>1. Range(s \o t) = Range(s) \cup Range(t)
  BY RangeConcatenation
<1>2. \A u : Range(u) = ToSet(u)
  BY DEF Range, ToSet
<1> QED BY <1>1, <1>2

\* Of the fields of a walk, what a set of groups and a component need.
LEMMA WalkFields ==
    ASSUME NEW h \in Histories, NEW w \in Walk(h)
    PROVE  /\ w.evidence.commits \subseteq DOMAIN h.paths
           /\ w.evidence.pulls \subseteq DOMAIN h.merges
           /\ w.pending \in Seq(DOMAIN h.paths)
           /\ Reached(w) \subseteq DOMAIN h.paths
           /\ Standing(h, w.evidence) \subseteq DOMAIN h.paths
           /\ IsFiniteSet(w.evidence.commits)
<1>1. /\ w.evidence.commits \subseteq DOMAIN h.paths
      /\ w.evidence.pulls \subseteq DOMAIN h.merges
      /\ w.pending \in Seq(DOMAIN h.paths) /\ w.component \subseteq DOMAIN h.paths
  BY DEF Walk, Evidence
<1>2. ToSet(w.pending) \subseteq DOMAIN h.paths
  BY <1>1, LenProperties, ElementOfSeq DEF ToSet
<1>3. Standing(h, w.evidence) \subseteq DOMAIN h.paths
  BY <1>1 DEF Standing, Unclaimed
<1>4. IsFiniteSet(w.evidence.commits)
  BY <1>1, HistoryTypes, FS_Subset
<1> QED BY <1>1, <1>2, <1>3, <1>4 DEF Reached

LEMMA RootKeeps ==
    ASSUME GroupingInv, NEW c \in DOMAIN history.paths, VisitRoot(c)
    PROVE  GroupingInv'
<1> DEFINE h == history
           e == walk.evidence
           b == walk'
<1>1. /\ h \in Histories /\ walk \in Walk(h) /\ walk.pc = "roots"
      /\ Cardinality(e.commits) <= MaxRecords /\ c \in DOMAIN h.paths
      /\ WalksChains(h, walk) /\ c \in walk.todo /\ c \notin walk.visited
  BY DEF GroupingInv, SoundWalk, VisitRoot
<1>2. UNCHANGED <<history, evidence, groups, grouped>>
  BY DEF VisitRoot
<1>3. walk' = [walk EXCEPT !.pc = "walk", !.pending = <<c>>, !.component = {},
                           !.visited = @ \cup {c}]
  BY DEF VisitRoot
<1>4. <<c>> \in Seq(DOMAIN h.paths) /\ ToSet(<<c>>) = {c}
  BY <1>1 DEF ToSet
<1>5. walk.visited \cup {c} \in SUBSET DOMAIN h.paths
  BY <1>1 DEF Walk
<1> HIDE DEF h
<1>6. /\ b.pc = "walk" /\ b.evidence = e /\ b.groups = walk.groups
      /\ b.claimed = walk.claimed /\ b.todo = walk.todo
      /\ b.pending = <<c>> /\ b.component = {}
      /\ b.visited = walk.visited \cup {c}
  BY <1>1, <1>3 DEF Walk
<1>7. b \in Walk(h)
  <2>1. b = [pc |-> "walk", evidence |-> e, groups |-> walk.groups,
             claimed |-> walk.claimed, todo |-> walk.todo, pending |-> <<c>>,
             component |-> {}, visited |-> walk.visited \cup {c}]
    BY <1>1, <1>3 DEF Walk
  <2>2. /\ e \in Evidence(h) /\ walk.claimed \in SUBSET DOMAIN h.paths
        /\ walk.groups \in SUBSET [pulls : SUBSET DOMAIN h.merges,
                                   commits : SUBSET DOMAIN h.paths]
        /\ walk.todo \in SUBSET (DOMAIN h.paths \cup DOMAIN h.merges)
    BY <1>1 DEF Walk
  <2> HIDE DEF b
  <2> QED BY <1>4, <1>5, <2>1, <2>2 DEF Walk
<1> HIDE DEF b
<1>8. Reached(b) = {c}
  BY <1>4, <1>6 DEF Reached
<1>9. Reached(walk) = {}
  BY <1>1 DEF WalksChains, Reached, ToSet
<1>10. Joined(h, {c})
  BY JoinedOne
<1>11. WalksChains(h, b)
  <2>1. /\ b.todo = Standing(h, b.evidence) /\ b.visited \subseteq b.todo
        /\ GroupsOf(h, b.evidence, b.groups) /\ Reached(b) \subseteq b.visited
    BY <1>1, <1>6, <1>8 DEF WalksChains
  <2>2. \A g \in b.groups : g.pulls = {} =>
           g.commits \subseteq b.visited /\ g.commits \cap Reached(b) = {}
    BY <1>1, <1>6, <1>8 DEF WalksChains
  <2>3. \A d \in b.visited :
           d \in Reached(b) \/ \E g \in b.groups : g.pulls = {} /\ d \in g.commits
    BY <1>1, <1>6, <1>8, <1>9 DEF WalksChains
  <2> QED BY <1>6, <1>8, <1>10, <2>1, <2>2, <2>3 DEF WalksChains
<1>12. SoundWalk(h, b)
  BY <1>1, <1>6, <1>7, <1>11 DEF SoundWalk
<1> QED BY <1>2, <1>12 DEF GroupingInv, h, b

\* A set in its order, as a sequence.
LEMMA OrderedSet ==
    ASSUME NEW T \in SUBSET Nat, IsFiniteSet(T),
           NEW q \in [1 .. Cardinality(T) -> T],
           \A i, j \in DOMAIN q : i < j => q[i] < q[j]
    PROVE  q \in Seq(T) /\ ToSet(q) = T
<1> DEFINE n == Cardinality(T)
<1>1. n \in Nat
  BY FS_CardinalityType
<1>2. IsFiniteSet(1 .. n) /\ Cardinality(1 .. n) = n
  <2>1. 1 \in Int /\ n \in Int
    BY <1>1
  <2>2. /\ IsFiniteSet(1 .. n)
        /\ Cardinality(1 .. n) = IF 1 > n THEN 0 ELSE n - 1 + 1
    BY <2>1, FS_Interval
  <2> HIDE DEF n
  <2> QED BY <1>1, <2>2
<1> HIDE DEF n
<1>3. q \in [1 .. n -> T] /\ DOMAIN q = 1 .. n
  BY DEF n
<1>4. ASSUME NEW i \in 1 .. n, NEW j \in 1 .. n, q[i] = q[j]
      PROVE  i = j
  <2>1. q[i] \in Nat /\ q[j] \in Nat
    BY <1>3
  <2>2. ~(i < j) /\ ~(j < i)
    BY <1>3, <1>4, <2>1
  <2> QED BY <1>1, <2>2
<1>5. q \in Injection(1 .. n, T)
  BY <1>3, <1>4 DEF Injection, IsInjective
<1>6. q \in Surjection(1 .. n, T)
  BY <1>2, <1>5, FS_Injection DEF n
<1>7. ToSet(q) = T
  BY <1>3, <1>6 DEF Surjection, ToSet
<1>8. q \in Seq(T)
  BY <1>1, <1>3, SeqDef
<1> QED BY <1>7, <1>8

LEMMA HeadAndTail ==
    ASSUME NEW S, NEW s \in Seq(S), s # <<>>
    PROVE  /\ Head(s) \in S /\ Tail(s) \in Seq(S)
           /\ ToSet(s) = {Head(s)} \cup ToSet(Tail(s))
<1>1. /\ Head(s) \in S /\ Tail(s) \in Seq(S) /\ Len(Tail(s)) = Len(s) - 1
      /\ \A i \in 1 .. Len(Tail(s)) : Tail(s)[i] = s[i + 1]
  BY HeadTailProperties
<1>2. /\ DOMAIN s = 1 .. Len(s) /\ DOMAIN Tail(s) = 1 .. Len(Tail(s))
      /\ Len(s) \in Nat /\ Len(s) # 0 /\ Head(s) = s[1]
  BY <1>1, LenProperties, EmptySeq
<1> DEFINE t == Tail(s)
<1> HIDE DEF t
<1>3. ASSUME NEW x \in ToSet(s) PROVE x \in {Head(s)} \cup ToSet(t)
  <2>1. PICK i \in 1 .. Len(s) : x = s[i]
    BY <1>2, <1>3 DEF ToSet
  <2>2. CASE i = 1
    BY <1>2, <2>1, <2>2
  <2>3. CASE i # 1
    <3>1. i - 1 \in 1 .. Len(t) /\ i - 1 + 1 = i
      BY <1>1, <1>2, <2>3 DEF t
    <3>2. t[i - 1] = x
      BY <1>1, <2>1, <3>1 DEF t
    <3> QED BY <1>2, <3>1, <3>2 DEF ToSet, t
  <2> QED BY <2>2, <2>3
<1>4. ASSUME NEW x \in ToSet(t) PROVE x \in ToSet(s)
  <2>1. PICK i \in 1 .. Len(t) : x = t[i]
    BY <1>2, <1>4 DEF ToSet, t
  <2>2. i + 1 \in DOMAIN s /\ x = s[i + 1]
    BY <1>1, <1>2, <2>1 DEF t
  <2> QED BY <2>2 DEF ToSet
<1>5. Head(s) \in ToSet(s)
  BY <1>2 DEF ToSet
<1> QED BY <1>1, <1>3, <1>4, <1>5 DEF t

\* The neighbours of the next commit are reached with it.
LEMMA NextKeeps == GroupingInv /\ VisitNext => GroupingInv'
<1> SUFFICES ASSUME GroupingInv, VisitNext PROVE GroupingInv'
  OBVIOUS
<1> DEFINE h == history
           e == walk.evidence
           b == walk'
           c == Head(walk.pending)
           near == {d \in walk.todo \ walk.visited : Neighbors(c, d)}
<1>1. /\ h \in Histories /\ walk \in Walk(h) /\ walk.pc = "walk"
      /\ Cardinality(e.commits) <= MaxRecords
      /\ WalksChains(h, walk) /\ walk.pending # <<>>
  BY DEF GroupingInv, SoundWalk, VisitNext
<1>2. UNCHANGED <<history, evidence, groups, grouped>>
  BY DEF VisitNext
<1>3. PICK order \in [1 .. Cardinality(near) -> near] :
         /\ \A i, j \in DOMAIN order : i < j => order[i] < order[j]
         /\ walk' = [walk EXCEPT !.component = @ \cup {c},
                                 !.visited = @ \cup near,
                                 !.pending = Tail(@) \o order]
  BY DEF VisitNext
<1>4. near = {d \in walk.todo \ walk.visited : Beside(h, c, d)}
  BY DEF Neighbors, Beside
<1> DEFINE q == Tail(walk.pending) \o order
<1>5. walk' = [walk EXCEPT !.component = @ \cup {c}, !.visited = @ \cup near,
                           !.pending = q]
  BY <1>3
<1> HIDE DEF h, near, c
<1>6. /\ walk.pending \in Seq(DOMAIN h.paths)
      /\ walk.todo \subseteq DOMAIN h.paths
      /\ Reached(walk) \subseteq DOMAIN h.paths
  BY <1>1, WalkFields DEF WalksChains
<1>7. /\ near \subseteq DOMAIN h.paths /\ near \in SUBSET Nat /\ IsFiniteSet(near)
      /\ near \subseteq walk.todo /\ near \cap walk.visited = {}
  <2>1. near \subseteq DOMAIN h.paths /\ near \subseteq walk.todo
        /\ near \cap walk.visited = {}
    BY <1>4, <1>6
  <2> QED BY <1>1, <2>1, HistoryTypes, FS_Subset
<1>8. order \in Seq(near) /\ ToSet(order) = near
  BY <1>3, <1>7, OrderedSet
<1>9. /\ c \in DOMAIN h.paths /\ Tail(walk.pending) \in Seq(DOMAIN h.paths)
      /\ ToSet(walk.pending) = {c} \cup ToSet(Tail(walk.pending))
  BY <1>1, <1>6, HeadAndTail DEF c
<1>10. order \in Seq(DOMAIN h.paths)
  BY <1>7, <1>8, SeqMonotonic
<1>11. q \in Seq(DOMAIN h.paths) /\ ToSet(q) = ToSet(Tail(walk.pending)) \cup near
  <2>1. Tail(walk.pending) \in Seq(DOMAIN h.paths) /\ order \in Seq(DOMAIN h.paths)
    BY <1>9, <1>10
  <2>2. q \in Seq(DOMAIN h.paths)
    BY <2>1, ConcatProperties
  <2>3. ToSet(q) = ToSet(Tail(walk.pending)) \cup ToSet(order)
    BY <2>1, ToSetOfConcat
  <2> HIDE DEF q
  <2> QED BY <1>8, <2>2, <2>3
<1> HIDE DEF q
<1>12. /\ b.pc = "walk" /\ b.evidence = e /\ b.groups = walk.groups
       /\ b.todo = walk.todo /\ b.pending = q
       /\ b.component = walk.component \cup {c}
       /\ b.visited = walk.visited \cup near
  BY <1>1, <1>5 DEF Walk
<1>13. b \in Walk(h)
  <2>1. /\ walk.component \cup {c} \in SUBSET DOMAIN h.paths
        /\ walk.visited \cup near \in SUBSET DOMAIN h.paths
    BY <1>1, <1>7, <1>9 DEF Walk
  <2> HIDE DEF b
  <2> QED BY <1>1, <1>5, <1>11, <2>1 DEF Walk, b
<1> HIDE DEF b
<1>14. Reached(b) = Reached(walk) \cup near /\ c \in Reached(walk)
  BY <1>9, <1>11, <1>12 DEF Reached
<1>15. \A d \in near : Beside(h, c, d)
  BY <1>4
<1>16. Joined(h, Reached(b))
  <2>1. Joined(h, Reached(walk))
    BY <1>1 DEF WalksChains
  <2> QED BY <1>1, <1>6, <1>7, <1>14, <1>15, <2>1, JoinedGrows DEF h
\* A neighbour that was visited before is in no chain, or its chain had c.
<1>17. ASSUME NEW d \in walk.todo, Beside(h, c, d)
       PROVE  d \in Reached(b)
  <2>1. CASE d \notin walk.visited
    <3>1. d \in near
      BY <1>4, <1>17, <2>1
    <3> QED BY <1>14, <3>1
  <2>2. CASE d \in walk.visited /\ d \notin Reached(walk)
    <3>1. PICK g \in walk.groups : g.pulls = {} /\ d \in g.commits
      BY <1>1, <2>2 DEF WalksChains
    <3>2. Chain(h, g.commits, walk.todo)
      <4>1. \A p \in e.pulls : g # PullGroup(h, e, p)
        BY <3>1 DEF PullGroup
      <4> QED BY <1>1, <3>1, <4>1 DEF WalksChains, GroupsOf
    <3>3. c \in walk.todo /\ Beside(h, d, c)
      <4>1. c \in walk.todo
        BY <1>1, <1>14 DEF WalksChains
      <4> QED BY <1>1, <1>6, <1>9, <1>17, <4>1, BesideIsNear DEF h
    <3>4. c \in g.commits
      BY <3>1, <3>2, <3>3 DEF Chain
    <3>5. g.commits \cap Reached(walk) = {}
      BY <1>1, <3>1 DEF WalksChains
    <3> QED BY <1>14, <3>4, <3>5
  <2>3. CASE d \in Reached(walk)
    BY <1>14, <2>3
  <2> QED BY <2>1, <2>2, <2>3
<1>18. WalksChains(h, b)
  <2>1. /\ b.todo = Standing(h, b.evidence) /\ b.visited \subseteq b.todo
        /\ GroupsOf(h, b.evidence, b.groups) /\ Reached(b) \subseteq b.visited
    BY <1>1, <1>7, <1>12, <1>14 DEF WalksChains
  <2>2. \A g \in b.groups : g.pulls = {} =>
           g.commits \subseteq b.visited /\ g.commits \cap Reached(b) = {}
    BY <1>1, <1>7, <1>12, <1>14 DEF WalksChains
  <2>3. \A d \in b.visited :
           d \in Reached(b) \/ \E g \in b.groups : g.pulls = {} /\ d \in g.commits
    BY <1>1, <1>12, <1>14 DEF WalksChains
  <2>4. \A x \in b.component, d \in b.todo : Beside(h, x, d) => d \in Reached(b)
    BY <1>1, <1>12, <1>14, <1>17 DEF WalksChains
  <2> QED BY <1>12, <1>14, <1>16, <2>1, <2>2, <2>3, <2>4 DEF WalksChains
<1>19. SoundWalk(h, b)
  BY <1>1, <1>12, <1>13, <1>18 DEF SoundWalk
<1> QED BY <1>2, <1>19 DEF GroupingInv, h, b

LEMMA ComponentKeeps == GroupingInv /\ EndComponent => GroupingInv'
<1> SUFFICES ASSUME GroupingInv, EndComponent PROVE GroupingInv'
  OBVIOUS
<1> DEFINE h == history
           e == walk.evidence
           b == walk'
           X == walk.component
<1>1. /\ h \in Histories /\ walk \in Walk(h) /\ walk.pc = "walk"
      /\ Cardinality(e.commits) <= MaxRecords
      /\ WalksChains(h, walk) /\ walk.pending = <<>>
  BY DEF GroupingInv, SoundWalk, EndComponent
<1>2. UNCHANGED <<history, evidence, groups, grouped>>
  BY DEF EndComponent
<1>3. walk' = [walk EXCEPT !.pc = "roots", !.component = {},
                           !.groups = @ \cup {ChainGroup(X)}]
  BY DEF EndComponent, ChainGroup
<1> HIDE DEF h
<1>4. Reached(walk) = X
  BY <1>1 DEF Reached, ToSet
<1>5. Chain(h, X, walk.todo)
  BY <1>1, <1>4 DEF WalksChains, Chain
<1>6. ChainGroup(X) \in [pulls : SUBSET DOMAIN h.merges, commits : SUBSET DOMAIN h.paths]
  BY <1>1 DEF ChainGroup, Walk
<1>7. /\ ChainGroup(X).pulls = {} /\ ChainGroup(X).commits = X
  BY DEF ChainGroup
<1> DEFINE k == ChainGroup(X)
<1> HIDE DEF k
<1>8. walk' = [walk EXCEPT !.pc = "roots", !.component = {}, !.groups = @ \cup {k}]
  BY <1>3 DEF k
<1>9. k \in [pulls : SUBSET DOMAIN h.merges, commits : SUBSET DOMAIN h.paths]
  BY <1>6 DEF k
<1>10. /\ b \in Walk(h) /\ b.pc = "roots" /\ b.evidence = e
       /\ b.groups = walk.groups \cup {k} /\ b.todo = walk.todo
       /\ b.pending = <<>> /\ b.component = {} /\ b.visited = walk.visited
  BY <1>1, <1>8, <1>9 DEF Walk
<1> HIDE DEF b
<1>11. k = ChainGroup(k.commits) /\ k.pulls = {} /\ k.commits = X
  BY <1>7 DEF k
<1>12. Reached(b) = {}
  BY <1>10 DEF Reached, ToSet
<1> HIDE DEF X
<1>13. WalksChains(h, b)
  <2>1. /\ b.todo = Standing(h, b.evidence) /\ b.visited \subseteq b.todo
        /\ Reached(b) \subseteq b.visited
    BY <1>1, <1>10, <1>12 DEF WalksChains
  <2>2. GroupsOf(h, e, b.groups)
    <3>1. GroupsOf(h, e, walk.groups) /\ walk.todo = Standing(h, e)
      BY <1>1 DEF WalksChains
    <3>2. Chain(h, k.commits, Standing(h, e))
      BY <1>5, <1>11, <3>1
    <3> QED BY <1>10, <1>11, <3>1, <3>2 DEF GroupsOf
  <2>3. \A g \in b.groups : g.pulls = {} =>
           g.commits \subseteq b.visited /\ g.commits \cap Reached(b) = {}
    BY <1>1, <1>4, <1>10, <1>11, <1>12 DEF WalksChains
  <2>4. \A d \in b.visited : \E g \in b.groups : g.pulls = {} /\ d \in g.commits
    <3> SUFFICES ASSUME NEW d \in walk.visited
                 PROVE  \E g \in walk.groups \cup {k} : g.pulls = {} /\ d \in g.commits
      BY <1>10
    <3>1. CASE d \in X
      BY <1>11, <3>1
    <3>2. CASE d \notin X
      BY <1>1, <1>4, <3>2 DEF WalksChains
    <3> QED BY <3>1, <3>2
  <2> QED BY <1>10, <2>1, <2>2, <2>3, <2>4 DEF WalksChains
<1>14. SoundWalk(h, b)
  BY <1>1, <1>10, <1>13 DEF SoundWalk
<1> QED BY <1>2, <1>14 DEF GroupingInv, h, b

\* What an ended grouping has.
LEMMA EndsWithAll ==
    ASSUME GroupingInv, EndGrouping
    PROVE  AllGroupsOf(history, walk.evidence, walk.groups)
<1>1. /\ walk.pc = "roots" /\ walk.todo \subseteq walk.visited
      /\ WalksChains(history, walk)
  BY DEF GroupingInv, SoundWalk, EndGrouping
<1>2. Reached(walk) = {}
  BY <1>1 DEF WalksChains, Reached, ToSet
<1>3. \A c \in Standing(history, walk.evidence) :
         \E g \in walk.groups : g.pulls = {} /\ c \in g.commits
  BY <1>1, <1>2 DEF WalksChains
<1> QED BY <1>1, <1>3 DEF WalksChains, AllGroupsOf

LEMMA EndKeeps == GroupingInv /\ EndGrouping => GroupingInv'
<1> SUFFICES ASSUME GroupingInv, EndGrouping PROVE GroupingInv'
  OBVIOUS
<1>1. /\ groups' = walk.groups /\ grouped' = walk.evidence /\ walk' = NoWalk
      /\ history' = history /\ evidence' = evidence
  BY DEF EndGrouping
<1>2. /\ history \in Histories /\ evidence \in Evidence(history)
      /\ walk.evidence \in Evidence(history)
      /\ Cardinality(walk.evidence.commits) <= MaxRecords
  BY DEF GroupingInv, SoundWalk, Walk
<1> QED BY <1>1, <1>2, EndsWithAll, NothingGrouped DEF GroupingInv

LEMMA ChangeKeeps ==
    ASSUME GroupingInv,
           \/ \E c \in DOMAIN history.paths : CommitArrives(c) \/ CommitOrphaned(c)
           \/ \E p \in DOMAIN history.merges : PullArrives(p)
    PROVE  GroupingInv'
<1>1. evidence \in Evidence(history)
  BY DEF GroupingInv
<1>2. ASSUME NEW commits \in SUBSET DOMAIN history.paths,
             NEW pulls \in SUBSET DOMAIN history.merges,
             EvidenceChanges(commits, pulls)
      PROVE  GroupingInv'
  <2>1. /\ evidence' = [commits |-> commits, pulls |-> pulls]
        /\ UNCHANGED <<history, walk, groups, grouped>>
    BY <1>2 DEF EvidenceChanges
  <2>2. evidence' \in Evidence(history)
    BY <2>1 DEF Evidence
  <2> QED BY <2>1, <2>2 DEF GroupingInv
<1>3. /\ evidence.commits \in SUBSET DOMAIN history.paths
      /\ evidence.pulls \in SUBSET DOMAIN history.merges
  BY <1>1 DEF Evidence
<1>4. ASSUME NEW c \in DOMAIN history.paths, CommitArrives(c) \/ CommitOrphaned(c)
      PROVE  GroupingInv'
  <2>1. /\ evidence.commits \cup {c} \in SUBSET DOMAIN history.paths
        /\ evidence.commits \ {c} \in SUBSET DOMAIN history.paths
    BY <1>3
  <2> QED BY <1>2, <1>3, <1>4, <2>1 DEF CommitArrives, CommitOrphaned
<1>5. ASSUME NEW p \in DOMAIN history.merges, PullArrives(p)
      PROVE  GroupingInv'
  <2>1. evidence.pulls \cup {p} \in SUBSET DOMAIN history.merges
    BY <1>3
  <2> QED BY <1>2, <1>3, <1>5, <2>1 DEF PullArrives
<1> QED BY <1>4, <1>5

LEMMA GroupingInvHolds == GroupingSpec => []GroupingInv
<1>1. GroupingInv /\ [GroupingNext]_groupingVars => GroupingInv'
  <2> SUFFICES ASSUME GroupingInv, [GroupingNext]_groupingVars PROVE GroupingInv'
    OBVIOUS
  <2>1. CASE UNCHANGED groupingVars
    BY <2>1 DEF groupingVars, GroupingInv
  <2> QED BY <2>1, SelectKeeps, PullKeeps, BeginKeeps, RootKeeps, NextKeeps,
             ComponentKeeps, EndKeeps, ChangeKeeps DEF GroupingNext, GroupingStep
<1> QED BY <1>1, GroupingStarts, PTL DEF GroupingSpec

-----------------------------------------------------------------------------
(* EvidenceGrouping: what the groups of an evidence are                      *)

\* A group is of a pull request, or a chain.
LEMMA GroupKinds ==
    ASSUME NEW h, NEW e, NEW gs, GroupsOf(h, e, gs), NEW g \in gs
    PROVE  /\ g.pulls # {} => \E p \in e.pulls : g = PullGroup(h, e, p)
           /\ g.pulls = {} => /\ g = ChainGroup(g.commits)
                              /\ Chain(h, g.commits, Standing(h, e))
<1>1. \/ \E p \in e.pulls : g = PullGroup(h, e, p)
      \/ g = ChainGroup(g.commits) /\ Chain(h, g.commits, Standing(h, e))
  BY DEF GroupsOf
<1>2. CASE \E p \in e.pulls : g = PullGroup(h, e, p)
  <2>1. g.pulls # {}
    BY <1>2 DEF PullGroup
  <2> QED BY <1>2, <2>1
<1>3. CASE g = ChainGroup(g.commits) /\ Chain(h, g.commits, Standing(h, e))
  <2>1. ChainGroup(g.commits).pulls = {}
    BY DEF ChainGroup
  <2>2. g.pulls = {}
    BY <1>3, <2>1
  <2> QED BY <1>3, <2>2
<1> QED BY <1>1, <1>2, <1>3

LEMMA TypesOfGroups == GroupingInv => GroupingTypeOK
<1> SUFFICES ASSUME GroupingInv PROVE GroupingTypeOK
  OBVIOUS
<1>1. /\ history \in Histories /\ evidence \in Evidence(history)
      /\ GroupsOf(history, grouped, groups) /\ SoundWalk(history, walk)
      /\ Cardinality(grouped.commits) <= MaxRecords
  BY DEF GroupingInv, AllGroupsOf
<1>2. /\ evidence.commits \subseteq DOMAIN history.paths
      /\ evidence.pulls \subseteq DOMAIN history.merges
  BY <1>1 DEF Evidence
<1>3. walk.pc \in {"idle", "pulls", "roots", "walk"}
  BY <1>1 DEF SoundWalk, Walk
<1>4. /\ walk.component \subseteq walk.visited
      /\ walk.pc # "pulls" => walk.visited \subseteq walk.todo
  <2>1. CASE walk.pc \in {"roots", "walk"}
    BY <1>1, <2>1 DEF SoundWalk, WalksChains, Reached
  <2>2. CASE walk.pc = "pulls"
    BY <1>1, <2>2 DEF SoundWalk, TakesPulls
  <2>3. CASE walk.pc = "idle"
    BY <1>1, <2>3 DEF SoundWalk
  <2> QED BY <1>3, <2>1, <2>2, <2>3
<1>5. \A g \in groups : /\ g.pulls = {} => g.commits # {}
                        /\ g.commits \subseteq grouped.commits
  <2> SUFFICES ASSUME NEW g \in groups
               PROVE  /\ g.pulls = {} => g.commits # {}
                      /\ g.commits \subseteq grouped.commits
    OBVIOUS
  <2>1. CASE g.pulls = {}
    <3>1. Chain(history, g.commits, Standing(history, grouped))
      BY <1>1, <2>1, GroupKinds
    <3> QED BY <3>1 DEF Chain, Standing, Unclaimed
  <2>2. CASE g.pulls # {}
    BY <1>1, <2>2, GroupKinds DEF PullGroup
  <2> QED BY <2>1, <2>2
<1>6. CommitsIn(groups) \subseteq grouped.commits
  BY <1>5 DEF CommitsIn
<1> QED BY <1>1, <1>2, <1>3, <1>4, <1>5, <1>6 DEF GroupingTypeOK

LEMMA ComponentsFound == GroupingInv => ChainsAreComponents
<1> SUFFICES ASSUME GroupingInv PROVE ChainsAreComponents
  OBVIOUS
<1> DEFINE C == Standing(history, grouped)
<1>1. /\ history \in Histories /\ GroupsOf(history, grouped, groups)
      /\ C \subseteq DOMAIN history.paths
  BY DEF GroupingInv, AllGroupsOf, Standing, Unclaimed, Evidence
<1>2. \A g \in ChainGroups : /\ g = ChainGroup(g.commits)
                             /\ Chain(history, g.commits, C)
  BY <1>1, GroupKinds DEF ChainGroups
<1> HIDE DEF C
<1>3. ASSUME NEW g \in ChainGroups, NEW i \in ChainGroups, g # i
      PROVE  /\ g.commits \cap i.commits = {}
             /\ \A c \in g.commits, d \in i.commits : ~Near(c, d)
  <2>1. g.commits \cap i.commits = {}
    <3> SUFFICES ASSUME g.commits \cap i.commits # {} PROVE FALSE
      OBVIOUS
    <3>1. /\ Chain(history, g.commits, C) /\ Chain(history, i.commits, C)
          /\ g = ChainGroup(g.commits) /\ i = ChainGroup(i.commits)
      BY <1>2, <1>3
    <3>2. /\ g.commits \in SUBSET C /\ Joined(history, g.commits)
          /\ i.commits \in SUBSET C /\ Joined(history, i.commits)
      BY <3>1 DEF Chain
    <3>3. g.commits \subseteq i.commits
      BY <3>1, <3>2, JoinedStays
    <3>4. i.commits \subseteq g.commits
      <4>1. i.commits \cap g.commits # {}
        OBVIOUS
      <4> QED BY <3>1, <3>2, <4>1, JoinedStays
    <3>5. g.commits = i.commits
      BY <3>3, <3>4
    <3> QED BY <1>3, <3>1, <3>5
  <2>2. ASSUME NEW c \in g.commits, NEW d \in i.commits, Near(c, d) PROVE FALSE
    <3>1. /\ Chain(history, g.commits, C) /\ d \in C /\ c \in C
      BY <1>2 DEF Chain
    <3>2. Beside(history, c, d)
      BY <1>1, <2>2, <3>1, BesideIsNear
    <3>3. d \in g.commits
      BY <3>1, <3>2 DEF Chain
    <3> QED BY <2>1, <3>3
  <2> QED BY <2>1, <2>2
<1>4. ASSUME NEW g \in ChainGroups, NEW S \in (SUBSET g.commits) \ {{}, g.commits}
      PROVE  \E c \in S, d \in g.commits \ S : Near(c, d)
  <2>1. Chain(history, g.commits, C)
    BY <1>2
  <2>2. PICK c \in S, d \in g.commits \ S : Beside(history, c, d)
    BY <2>1 DEF Chain, Joined
  <2>3. c \in DOMAIN history.paths /\ d \in DOMAIN history.paths
    BY <1>1, <2>1 DEF Chain
  <2> QED BY <1>1, <2>2, <2>3, BesideIsNear
<1> QED BY <1>3, <1>4 DEF ChainsAreComponents

LEMMA CommitsFound == GroupingInv => CommitsArePlaced
<1> SUFFICES ASSUME GroupingInv PROVE CommitsArePlaced
  OBVIOUS
<1> DEFINE e == grouped
           U == Unclaimed(history, e)
<1>1. /\ history \in Histories /\ e \in Evidence(history)
      /\ GroupsOf(history, e, groups)
      /\ \A c \in Standing(history, e) : \E g \in groups : g.pulls = {} /\ c \in g.commits
  BY DEF GroupingInv, AllGroupsOf
<1>2. CommitsIn(PullGroups) = UNION {history.merges[p] \cap e.commits : p \in e.pulls}
  <2>1. ASSUME NEW c \in CommitsIn(PullGroups)
        PROVE  \E p \in e.pulls : c \in history.merges[p] \cap e.commits
    <3>1. PICK g \in PullGroups : c \in g.commits
      BY <2>1 DEF CommitsIn
    <3>2. PICK p \in e.pulls : g = PullGroup(history, e, p)
      BY <1>1, <3>1, GroupKinds DEF PullGroups
    <3> QED BY <3>1, <3>2 DEF PullGroup
  <2>2. ASSUME NEW p \in e.pulls
        PROVE  history.merges[p] \cap e.commits \subseteq CommitsIn(PullGroups)
    <3>1. PullGroup(history, e, p) \in PullGroups
      BY <1>1 DEF GroupsOf, PullGroups, PullGroup
    <3>2. PullGroup(history, e, p).commits = history.merges[p] \cap e.commits
      BY DEF PullGroup
    <3> QED BY <3>1, <3>2 DEF CommitsIn
  <2> QED BY <2>1, <2>2
<1>3. e.commits \ CommitsIn(PullGroups) = U
  BY <1>2 DEF Unclaimed
<1>4. \A g \in ChainGroups : g.commits \subseteq Standing(history, e)
  BY <1>1, GroupKinds DEF ChainGroups, Chain
<1>5. Standing(history, e) \subseteq U
  BY DEF Standing
<1> HIDE DEF U, e
<1>6. CommitsIn(PullGroups) \cap CommitsIn(ChainGroups) = {}
  BY <1>3, <1>4, <1>5 DEF CommitsIn
<1>7. ASSUME NEW c \in e.commits \ CommitsIn(groups)
      PROVE  /\ Cardinality(history.parents[c]) > 1
             /\ history.parents[c] \cap U # {}
  <2>1. c \in U
    <3>1. c \notin CommitsIn(PullGroups)
      BY <1>7 DEF CommitsIn, PullGroups
    <3> QED BY <1>3, <1>7, <3>1
  <2>2. c \notin Standing(history, e)
    BY <1>1, <1>7 DEF CommitsIn
  <2>3. /\ ~(Cardinality(history.parents[c]) < 2)
        /\ history.parents[c] \cap U # {}
    BY <2>1, <2>2 DEF Standing, U
  <2>4. Cardinality(history.parents[c]) \in Nat
    <3>1. c \in DOMAIN history.paths
      BY <1>1, <1>7 DEF Evidence
    <3>2. IsFiniteSet(history.parents[c])
      BY <1>1, <3>1, HistoryTypes, FS_Subset
    <3> QED BY <3>2, FS_CardinalityType
  <2> QED BY <2>3, <2>4
<1> QED BY <1>3, <1>6, <1>7 DEF CommitsArePlaced, e

\* Commits that stand alone and are no merges do so also among more commits of the
\* same pull requests.
LEMMA StandingStays ==
    ASSUME NEW h \in Histories, NEW e \in Evidence(h), NEW f,
           e.commits \subseteq f.commits, e.pulls = f.pulls,
           NEW X \in SUBSET Standing(h, e),
           \A c \in X : ~(Cardinality(h.parents[c]) > 1)
    PROVE  X \subseteq Standing(h, f)
<1> SUFFICES ASSUME NEW c \in X PROVE c \in Standing(h, f)
  OBVIOUS
<1>1. c \in Unclaimed(h, e) /\ c \in DOMAIN h.paths
  BY DEF Standing, Unclaimed, Evidence
<1>2. c \in Unclaimed(h, f)
  BY <1>1 DEF Unclaimed
<1>3. Cardinality(h.parents[c]) \in Nat
  BY <1>1, HistoryTypes, FS_Subset, FS_CardinalityType
<1>4. Cardinality(h.parents[c]) < 2
  BY <1>3
<1> QED BY <1>2, <1>4 DEF Standing

\* The chain that meets joined commits which stand alone has all of them.
LEMMA ChainHolds ==
    ASSUME NEW h, NEW f, NEW gs, AllGroupsOf(h, f, gs),
           NEW X \in SUBSET Standing(h, f), X # {}, Joined(h, X)
    PROVE  \E g \in gs : g.pulls = {} /\ X \subseteq g.commits
<1>2. PICK c \in X : TRUE
  OBVIOUS
<1>3. PICK g \in gs : g.pulls = {} /\ c \in g.commits
  BY <1>2 DEF AllGroupsOf
<1>4. Chain(h, g.commits, Standing(h, f))
  BY <1>3, GroupKinds DEF AllGroupsOf
<1>5. X \cap g.commits # {}
  BY <1>2, <1>3
<1>6. X \subseteq g.commits
  BY <1>4, <1>5, JoinedStays
<1> QED BY <1>3, <1>6

LEMMA GroupsOnlyGrow ==
    ASSUME GroupingInv, GroupingInv', [GroupingNext]_groupingVars,
           groups' # groups, grouped.commits \subseteq grouped'.commits,
           grouped.pulls = grouped'.pulls, NEW g \in groups
    PROVE  \/ \E i \in groups' : g.pulls = i.pulls /\ g.commits \subseteq i.commits
           \/ \E c \in g.commits : Cardinality(history.parents[c]) > 1
<1> DEFINE h == history
           gs == groups'
           f == grouped'
<1>1. h \in Histories /\ h' = h
  BY DEF GroupingInv, GroupingNext, GroupingStep, groupingVars, SelectEvidence,
         BeginStandalone, VisitNext, EndComponent, EndGrouping, GroupPullRequest,
         VisitRoot, CommitArrives, CommitOrphaned, PullArrives, EvidenceChanges
<1>2. /\ grouped \in Evidence(h) /\ GroupsOf(h, grouped, groups)
  BY DEF GroupingInv, AllGroupsOf
<1>3. f \in Evidence(h) /\ AllGroupsOf(h, f, gs)
  BY <1>1 DEF GroupingInv
<1>4. CASE g.pulls # {}
  <2>1. PICK p \in grouped.pulls : g = PullGroup(h, grouped, p)
    BY <1>2, <1>4, GroupKinds
  <2>2. PullGroup(h, f, p) \in gs
    BY <1>3, <2>1 DEF AllGroupsOf, GroupsOf
  <2>3. /\ PullGroup(h, f, p).pulls = {p} /\ g.pulls = {p}
        /\ PullGroup(h, f, p).commits = h.merges[p] \cap f.commits
        /\ g.commits = h.merges[p] \cap grouped.commits
    BY <2>1 DEF PullGroup
  <2> QED BY <2>2, <2>3
<1>5. CASE g.pulls = {} /\ \A c \in g.commits : ~(Cardinality(h.parents[c]) > 1)
  <2>1. Chain(h, g.commits, Standing(h, grouped))
    BY <1>2, <1>5, GroupKinds
  <2>2. \E i \in gs : i.pulls = {} /\ g.commits \subseteq i.commits
    <3>1. h \in Histories /\ grouped \in Evidence(h) /\ f \in Evidence(h)
      BY <1>1, <1>2, <1>3
    <3>2. grouped.commits \subseteq f.commits /\ grouped.pulls = f.pulls
      OBVIOUS
    <3>3. /\ \A c \in g.commits : ~(Cardinality(h.parents[c]) > 1)
          /\ AllGroupsOf(h, f, gs)
      BY <1>3, <1>5
    <3>4. g.commits \in SUBSET Standing(h, grouped) /\ g.commits # {}
          /\ Joined(h, g.commits)
      BY <2>1 DEF Chain
    <3> HIDE DEF h, f, gs
    <3>5. g.commits \in SUBSET Standing(h, f)
      BY <3>1, <3>2, <3>3, <3>4, StandingStays
    <3> QED BY <3>3, <3>4, <3>5, ChainHolds
  <2> QED BY <1>5, <2>2
<1> QED BY <1>4, <1>5

\* What is grouped, and what a grouping under way has, keeps its type.
THEOREM GroupingTypeCorrect == GroupingSpec => []GroupingTypeOK
BY GroupingInvHolds, TypesOfGroups, PTL

\* For every history, whatever order the walk takes: chains are the connected
\* components of what stands alone, every commit but a merge is placed, none of a
\* pull request twice, and groups only grow with the evidence.
THEOREM GroupsStaySound == GroupingSpec => GroupsAreSound
<1>1. GroupingInv => ChainsAreComponents /\ CommitsArePlaced
  BY ComponentsFound, CommitsFound
<1>2. GroupingInv /\ GroupingInv' /\ [GroupingNext]_groupingVars =>
        [(/\ groups' # groups
          /\ grouped.commits \subseteq grouped'.commits
          /\ grouped.pulls = grouped'.pulls) =>
            \A g \in groups :
                \/ \E h \in groups' : g.pulls = h.pulls /\ g.commits \subseteq h.commits
                \/ \E c \in g.commits : Cardinality(history.parents[c]) > 1]_groupingVars
  BY GroupsOnlyGrow
<1>3. GroupingSpec => GroupsGrow
  BY <1>2, GroupingInvHolds, PTL DEF GroupingSpec, GroupsGrow
<1> QED BY <1>1, <1>3, GroupingInvHolds, PTL DEF GroupsAreSound

-----------------------------------------------------------------------------
(* AIExecutions: what holds of a call                                        *)

Unborn == {"idle", "decided", "start", "commit"}

\* The call works on an attempt that is still open.
Holds(c) ==
    \/ c.pc \in {"ask", "close", "read", "write", "lost"}
    \/ c.pc = "reload" /\ c.answer # "result"

AnswersOf(i) ==
    IF StageOf[i] = Detection THEN {"result"} ELSE {"active", "rejected"}

\* What the steps of a call leave in it: a stage comes to its own labels and
\* answers only, and only an active event replaces others.
SoundCall(c) ==
    /\ c.pc \in Unborn => c.execution = None
    /\ c.pc \in {"decided", "close", "read"} =>
         StageOf[c.input] = Interpretation
    /\ c.pc \in {"read", "write", "lost", "reload"} =>
         c.answer \in AnswersOf(c.input)
    /\ c.superseded # {} =>
         c.pc \in {"write", "lost", "reload"} /\ c.answer = "active"

\* The row of the attempt the call works on, of the rows xs.
HeldRow(c, xs) ==
    /\ c.execution \in DOMAIN xs
    /\ xs[c.execution].input = c.input
    /\ xs[c.execution].repair = c.repair
    /\ xs[c.execution].status = "running"
    /\ xs[c.execution].validation = "pending"

\* Every event to be replaced is one of vs, of the project, with less evidence.
SoundReplacement(c, vs) ==
    \A v \in c.superseded :
        /\ v \in DOMAIN vs
        /\ ProjectOf[vs[v].input] = ProjectOf[c.input]
        /\ EvidenceOf[vs[v].input] \subseteq EvidenceOf[c.input]

CallsSound ==
    \A w \in Workers :
        /\ SoundCall(worker[w])
        /\ Holds(worker[w]) => HeldRow(worker[w], executions)
        /\ SoundReplacement(worker[w], events)

\* No two calls work on one attempt.
AttemptsApart ==
    \A v, w \in Workers :
        v # w /\ Holds(worker[v]) /\ Holds(worker[w]) =>
            worker[v].execution # worker[w].execution

CallInv == TypeOK /\ CallsSound /\ AttemptsApart

-----------------------------------------------------------------------------
(* Rows and events                                                           *)

LEMMA ExecutionRows ==
    ASSUME TypeOK
    PROVE  /\ Len(executions) \in Nat
           /\ DOMAIN executions = 1..Len(executions)
           /\ \A e \in DOMAIN executions : executions[e] \in Execution
           /\ Len(events) \in Nat
           /\ DOMAIN events = 1..Len(events)
           /\ \A v \in DOMAIN events : events[v] \in Event
BY LenProperties, ElementOfSeq DEF TypeOK

LEMMA Stages ==
    /\ Interpretation # Detection
    /\ \A i \in Inputs : StageOf[i] \in {Interpretation, Detection}
    /\ AnyInput \in Inputs
BY InputsAssumption DEF Interpretation, Detection, AnyInput

\* The row of the attempt e is closed.
ClosesRow(e, status, validation) ==
    /\ executions' \in Seq(Execution)
    /\ DOMAIN executions' = DOMAIN executions
    /\ \A f \in DOMAIN executions : f # e => executions'[f] = executions[f]
    /\ executions'[e].input = executions[e].input
    /\ executions'[e].number = executions[e].number
    /\ executions'[e].repair = executions[e].repair
    /\ executions'[e].startedAt = executions[e].startedAt
    /\ executions'[e].status = status
    /\ executions'[e].validation = validation

LEMMA CloseCloses ==
    ASSUME TypeOK, NEW w \in Workers, worker[w].execution \in DOMAIN executions,
           NEW status \in {"succeeded", "failed", "rejected"},
           NEW validation \in {"pending", "invalid", "valid"},
           Close(w, status, validation)
    PROVE  ClosesRow(worker[w].execution, status, validation)
<1> DEFINE e == worker[w].execution
           row == [executions[e] EXCEPT !.status = status,
                                        !.validation = validation]
<1>1. executions[e] \in Execution /\ e \in 1..Len(executions)
  BY ExecutionRows
<1>2. /\ row \in Execution
      /\ row.input = executions[e].input /\ row.number = executions[e].number
      /\ row.repair = executions[e].repair
      /\ row.startedAt = executions[e].startedAt
      /\ row.status = status /\ row.validation = validation
  BY <1>1 DEF Execution
<1> HIDE DEF row
<1>3. executions' = [executions EXCEPT ![e] = row]
  BY DEF Close, row
<1>4. executions \in Seq(Execution)
  BY DEF TypeOK
<1>5. /\ executions' \in Seq(Execution)
      /\ Len(executions') = Len(executions)
      /\ \A f \in 1..Len(executions) :
            executions'[f] = IF f = e THEN row ELSE executions[f]
  BY <1>1, <1>2, <1>3, <1>4, ExceptSeq
<1>6. DOMAIN executions' = DOMAIN executions
  BY <1>3
<1> QED BY <1>1, <1>2, <1>5, <1>6, ExecutionRows DEF ClosesRow

\* A row is added after the others.
AddsRow(row) ==
    /\ executions' \in Seq(Execution)
    /\ DOMAIN executions' = DOMAIN executions \cup {Len(executions) + 1}
    /\ Len(executions) + 1 \notin DOMAIN executions
    /\ \A f \in DOMAIN executions : executions'[f] = executions[f]
    /\ executions'[Len(executions) + 1] = row

LEMMA AppendAdds ==
    ASSUME TypeOK, NEW row \in Execution, executions' = Append(executions, row)
    PROVE  AddsRow(row)
<1>1. executions \in Seq(Execution)
  BY DEF TypeOK
<1>2. /\ executions' \in Seq(Execution)
      /\ Len(executions') = Len(executions) + 1
      /\ \A f \in 1..Len(executions) : executions'[f] = executions[f]
      /\ executions'[Len(executions) + 1] = row
  BY <1>1, AppendProperties
<1>3. DOMAIN executions' = 1..Len(executions) + 1
  BY <1>2, LenProperties
<1> QED BY <1>2, <1>3, ExecutionRows DEF AddsRow

-----------------------------------------------------------------------------
(* The kinds of steps                                                        *)

Labels == {"idle", "decided", "start", "commit", "ask", "close", "read",
           "write", "lost", "reload"}

\* The steps of w leave the other calls alone.
Others(w) ==
    /\ worker' \in [Workers -> Call]
    /\ \A v \in Workers \ {w} : worker'[v] = worker[v]

\* A call is made, for an input that has no answer yet.
Begins(w) ==
    /\ worker[w].pc = "idle"
    /\ \/ /\ worker'[w].pc = "decided"
          /\ StageOf[worker'[w].input] = Interpretation
          /\ EventsOf(worker'[w].input) = {}
       \/ /\ worker'[w].pc = "start" /\ ~worker'[w].repair
          /\ StageOf[worker'[w].input] = Detection
          /\ Canonical(worker'[w].input) = {}
    /\ UNCHANGED <<executions, events, returned, faults>>

\* The call goes on with its input and the attempt it works on.
GoesOn(w) ==
    /\ worker[w].pc # "idle" /\ worker'[w].pc \notin {"idle", "decided"}
    /\ worker'[w].pc \in {"start", "commit"} \/ Holds(worker'[w])
    /\ worker'[w].input = worker[w].input
    /\ worker'[w].execution = worker[w].execution
    /\ Holds(worker'[w]) <=> Holds(worker[w])
    /\ Holds(worker[w]) => worker'[w].repair = worker[w].repair
    /\ worker'[w].pc \in {"start", "commit"} /\ worker'[w].repair =>
         worker[w].pc \in {"start", "commit"} /\ worker[w].repair
    /\ worker[w].pc = "decided" =>
         InsufficientDecisions(worker[w].input) = {}
    /\ worker'[w].pc = "commit" =>
         LET p == ProjectOf[worker'[w].input] IN
         /\ worker'[w].seen = Len(executions)
         /\ Cardinality(Attempts(p, Day(p, worker'[w].startedAt))) < DailyLimit
    /\ UNCHANGED <<executions, events, returned, faults>>

\* What there is to answer an input with.
Found(i) == IF StageOf[i] = Detection THEN Canonical(i) ELSE EventsOf(i)

\* The call is over without a write; an open attempt is left when there is an
\* event of its input.
Ends(w) ==
    /\ worker'[w] = NoCall(AnyInput)
    /\ Holds(worker[w]) => EventsOf(worker[w].input) # {}
    /\ \/ UNCHANGED returned
       \/ \E i \in Inputs : \E v \in Found(i) :
             returned' = [returned EXCEPT ![i] = v]
    /\ UNCHANGED <<executions, events, faults>>

Crashes(w) ==
    /\ worker'[w] = NoCall(AnyInput)
    /\ faults' = faults + 1
    /\ UNCHANGED <<executions, events, returned>>

Commits(w) ==
    LET c == worker[w] IN
    /\ c.pc = "commit" /\ NoPhantom(w)
    /\ AddsRow([input |-> c.input, number |-> NextNumber(c.input),
                repair |-> c.repair, startedAt |-> c.startedAt,
                status |-> "running", validation |-> "pending"])
    /\ worker'[w].pc = "ask" /\ worker'[w].input = c.input
    /\ worker'[w].repair = c.repair
    /\ worker'[w].execution = Len(executions) + 1
    /\ UNCHANGED <<events, returned, faults>>

\* The attempt is closed without an answer; detect goes on to reload.
Fails(w) ==
    /\ Holds(worker[w])
    /\ \E validation \in {"pending", "valid"} :
         ClosesRow(worker[w].execution, "failed", validation)
    /\ \/ worker'[w] = NoCall(AnyInput)
       \/ /\ worker'[w].pc = "reload" /\ worker'[w].answer = "result"
          /\ worker'[w].input = worker[w].input
          /\ worker'[w].execution = worker[w].execution
    /\ UNCHANGED <<events, returned, faults>>

\* The attempt is rejected as invalid, and repaired when it is no repair.
Rejects(w) ==
    /\ Holds(worker[w])
    /\ ClosesRow(worker[w].execution, "rejected", "invalid")
    /\ \/ worker'[w] = NoCall(AnyInput)
       \/ /\ ~worker[w].repair
          /\ worker'[w].pc = "start" /\ worker'[w].input = worker[w].input
    /\ UNCHANGED <<events, returned, faults>>

\* The three ways an attempt is decided without a new event.
DecidesInsufficient(w) ==
    /\ Holds(worker[w])
    /\ StageOf[worker[w].input] = Interpretation
    /\ ClosesRow(worker[w].execution, "rejected", "valid")
    /\ worker'[w] = NoCall(AnyInput)
    /\ UNCHANGED <<events, returned, faults>>

DecidesEvent(w) ==
    /\ Holds(worker[w])
    /\ StageOf[worker[w].input] = Interpretation
    /\ ClosesRow(worker[w].execution, "succeeded", "valid")
    /\ worker'[w] = NoCall(AnyInput)
    /\ \E v \in EventsOf(worker[w].input) :
         returned' = [returned EXCEPT ![worker[w].input] = v]
    /\ UNCHANGED <<events, faults>>

DecidesResult(w) ==
    /\ Holds(worker[w])
    /\ StageOf[worker[w].input] = Detection
    /\ Canonical(worker[w].input) = {}
    /\ ClosesRow(worker[w].execution, "succeeded", "valid")
    /\ worker'[w] = NoCall(AnyInput)
    /\ returned' = [returned EXCEPT ![worker[w].input] = worker[w].execution]
    /\ UNCHANGED <<events, faults>>

\* An event is added; those it replaces are superseded.
AddsEvent(c) ==
    /\ events' \in Seq(Event)
    /\ DOMAIN events' = DOMAIN events \cup {Len(events) + 1}
    /\ Len(events) + 1 \notin DOMAIN events
    /\ \A v \in DOMAIN events :
         /\ events'[v].input = events[v].input
         /\ events'[v].supersedes = events[v].supersedes
         /\ events'[v].status = events[v].status
            \/ (v \in c.superseded /\ events'[v].status = "superseded")
    /\ events'[Len(events) + 1].input = c.input
    /\ events'[Len(events) + 1].status = c.answer

Persists(w) ==
    /\ worker[w].pc = "write"
    /\ StageOf[worker[w].input] = Interpretation
    /\ EventsOf(worker[w].input) = {}
    /\ AddsEvent(worker[w])
    /\ ClosesRow(worker[w].execution, "succeeded", "valid")
    /\ worker'[w] = NoCall(AnyInput)
    /\ returned' = [returned EXCEPT ![worker[w].input] = Len(events) + 1]
    /\ UNCHANGED faults

Kind(w) ==
    \/ Begins(w) \/ GoesOn(w) \/ Ends(w) \/ Crashes(w) \/ Commits(w)
    \/ Fails(w) \/ Rejects(w) \/ Persists(w)
    \/ DecidesInsufficient(w) \/ DecidesEvent(w) \/ DecidesResult(w)

\* A step of w, with what it leaves in the call.
Step(w) ==
    /\ Others(w)
    /\ SoundCall(worker'[w])
    /\ SoundReplacement(worker'[w], events')
    /\ worker'[w].execution \in {None} \cup DOMAIN executions'
    /\ Kind(w)

LEMMA OverCall ==
    /\ NoCall(AnyInput) \in Call
    /\ NoCall(AnyInput).pc = "idle" /\ NoCall(AnyInput).execution = None
    /\ NoCall(AnyInput).superseded = {} /\ NoCall(AnyInput).repair = FALSE
    /\ SoundCall(NoCall(AnyInput))
    /\ \A vs : SoundReplacement(NoCall(AnyInput), vs)
    /\ ~Holds(NoCall(AnyInput))
BY Stages DEF NoCall, Call, None, SoundCall, SoundReplacement, Holds, Unborn

LEMMA EndMoves ==
    ASSUME TypeOK, NEW w \in Workers, End(w)
    PROVE  Others(w) /\ worker'[w] = NoCall(AnyInput)
BY OverCall DEF End, Others, TypeOK

\* The call d follows that of w.
LEMMA CallMoves ==
    ASSUME TypeOK, NEW w \in Workers, NEW d \in Call,
           worker' = [worker EXCEPT ![w] = d]
    PROVE  Others(w) /\ worker'[w] = d
BY DEF Others, TypeOK

LEMMA GotoMoves ==
    ASSUME TypeOK, NEW w \in Workers, NEW label \in Labels, Goto(w, label)
    PROVE  /\ Others(w) /\ worker'[w].pc = label
           /\ worker'[w].input = worker[w].input
           /\ worker'[w].repair = worker[w].repair
           /\ worker'[w].execution = worker[w].execution
           /\ worker'[w].answer = worker[w].answer
           /\ worker'[w].superseded = worker[w].superseded
<1> DEFINE d == [worker[w] EXCEPT !.pc = label]
<1>1. worker[w] \in Call
  BY DEF TypeOK
<1>2. /\ d \in Call /\ d.pc = label
      /\ d.input = worker[w].input /\ d.repair = worker[w].repair
      /\ d.execution = worker[w].execution /\ d.answer = worker[w].answer
      /\ d.superseded = worker[w].superseded
  BY <1>1 DEF Call, Labels
<1>3. worker' = [worker EXCEPT ![w] = d]
  BY DEF Goto, TypeOK
<1> HIDE DEF d
<1> QED BY <1>2, <1>3, CallMoves

LEMMA BeginMoves ==
    ASSUME TypeOK, NEW w \in Workers, NEW i \in Inputs, NEW repair \in BOOLEAN,
           BeginAttempt(w, i, repair)
    PROVE  /\ Others(w) /\ worker'[w].pc = "start"
           /\ worker'[w].input = i
           /\ worker'[w].repair = repair
           /\ worker'[w].execution = None
           /\ worker'[w].superseded = worker[w].superseded
<1> DEFINE d == [worker[w] EXCEPT !.pc = "start", !.input = i]
           e == [d EXCEPT !.repair = repair, !.startedAt = clock,
                          !.execution = None]
<1>1. worker[w] \in Call /\ clock \in Nat /\ None \in Nat
  BY DEF TypeOK, None
<1>2. /\ d \in Call /\ d.pc = "start" /\ d.input = i
      /\ d.superseded = worker[w].superseded
  BY <1>1 DEF Call
<1>3. d = [worker[w] EXCEPT !.pc = "start", !.input = i]
  OBVIOUS
<1> HIDE DEF d
<1>4. /\ e \in Call /\ e.pc = d.pc /\ e.input = d.input
      /\ e.superseded = d.superseded
      /\ e.repair = repair /\ e.execution = None
  BY <1>1, <1>2 DEF Call
<1>5. e = [worker[w] EXCEPT !.pc = "start", !.input = i, !.repair = repair,
                            !.startedAt = clock, !.execution = None]
  BY <1>1, <1>3 DEF Call
<1> HIDE DEF e
<1>6. worker' = [worker EXCEPT ![w] = e]
  BY <1>5 DEF BeginAttempt
<1> QED BY <1>2, <1>4, <1>6, CallMoves

-----------------------------------------------------------------------------
(* Every action is a step of a kind                                          *)

LEMMA AnswerKinds ==
    ASSUME NEW i \in Inputs
    PROVE  /\ StageOf[i] = Interpretation \/ StageOf[i] = Detection
           /\ StageOf[i] = Detection => Found(i) = Canonical(i)
           /\ StageOf[i] = Interpretation => Found(i) = EventsOf(i)
           /\ StageOf[i] = Detection <=> "result" \in AnswersOf(i)
           /\ StageOf[i] = Interpretation <=> "active" \in AnswersOf(i)
           /\ StageOf[i] = Interpretation => AnswersOf(i) = {"active", "rejected"}
           /\ StageOf[i] = Detection => AnswersOf(i) = {"result"}
BY Stages DEF Found, AnswersOf

\* A call that ends.
LEMMA OverSteps ==
    ASSUME TypeOK, NEW w \in Workers, End(w), Kind(w)
    PROVE  Step(w)
BY EndMoves, OverCall DEF Step

\* A call that goes to another statement, without a write.
LEMMA GotoGoesOn ==
    ASSUME CallInv, NEW w \in Workers, NEW label \in Labels, Goto(w, label),
           worker[w].pc \notin {"idle", "decided"},
           label \notin {"idle", "decided", "start", "commit"},
           Holds(worker[w]), Holds(worker'[w]) <=> Holds(worker[w]),
           SoundCall(worker'[w]),
           UNCHANGED <<executions, events, returned, faults>>
    PROVE  Step(w)
<1>1. TypeOK /\ SoundReplacement(worker[w], events)
  BY DEF CallInv, CallsSound
<1>2. GoesOn(w)
  BY <1>1, GotoMoves DEF GoesOn
<1>3. SoundReplacement(worker'[w], events')
  BY <1>1, GotoMoves DEF SoundReplacement
<1> QED BY <1>1, <1>2, <1>3, GotoMoves DEF Step, Kind, TypeOK

LEMMA Input ==
    ASSUME TypeOK, NEW w \in Workers
    PROVE  worker[w] \in Call /\ worker[w].input \in Inputs
BY DEF TypeOK, Call

LEMMA FindEventSteps ==
    ASSUME CallInv, NEW w \in Workers, NEW i \in Inputs, FindEvent(w, i)
    PROVE  Step(w)
<1>1. TypeOK /\ SoundCall(worker[w]) /\ ~Holds(worker[w])
      /\ worker[w].execution = None /\ worker[w].superseded = {}
  BY DEF CallInv, CallsSound, FindEvent, Holds, SoundCall, Unborn
<1>2. ASSUME NEW v \in EventsOf(i), Return(w, i, v)
      PROVE  Step(w)
  <2>1. returned' = [returned EXCEPT ![i] = v] \/ UNCHANGED returned
    BY <1>2 DEF Return
  <2>2. v \in Found(i)
    BY <1>2, AnswerKinds DEF FindEvent
  <2>3. Ends(w)
    BY <1>1, <1>2, <2>1, <2>2, EndMoves DEF Ends, Return, FindEvent
  <2> QED BY <1>1, <1>2, <2>3, OverSteps DEF Kind, Return
<1>3. ASSUME EventsOf(i) = {}, UNCHANGED returned,
             worker' = [worker EXCEPT ![w] =
                           [@ EXCEPT !.pc = "decided", !.input = i]]
      PROVE  Step(w)
  <2> DEFINE d == [worker[w] EXCEPT !.pc = "decided", !.input = i]
  <2>1. /\ d \in Call /\ d.pc = "decided" /\ d.input = i
        /\ d.execution = worker[w].execution
        /\ d.superseded = worker[w].superseded
    BY <1>1, Input DEF Call
  <2>2. worker' = [worker EXCEPT ![w] = d]
    BY <1>3
  <2> HIDE DEF d
  <2>3. Others(w) /\ worker'[w] = d
    BY <1>1, <2>1, <2>2, CallMoves
  <2>4. Begins(w)
    BY <1>3, <2>1, <2>3 DEF Begins, FindEvent
  <2>5. SoundCall(worker'[w]) /\ SoundReplacement(worker'[w], events')
    BY <1>1, <2>1, <2>3 DEF SoundCall, SoundReplacement, Unborn, FindEvent
  <2> QED BY <1>1, <2>1, <2>3, <2>4, <2>5 DEF Step, Kind
<1> QED BY <1>2, <1>3 DEF FindEvent

LEMMA FindDecisionSteps ==
    ASSUME CallInv, NEW w \in Workers, FindDecision(w)
    PROVE  Step(w)
<1>1. /\ TypeOK /\ ~Holds(worker[w]) /\ worker[w].superseded = {}
      /\ worker[w].execution = None /\ worker[w].input \in Inputs
  BY Input DEF CallInv, CallsSound, FindDecision, Holds, SoundCall, Unborn
<1>2. CASE Return(w, worker[w].input, Insufficient)
  <2>1. Ends(w)
    BY <1>1, <1>2, EndMoves DEF Ends, Return, FindDecision
  <2> QED BY <1>1, <1>2, <2>1, OverSteps DEF Kind, Return
<1>3. CASE /\ PriorDecisions(worker[w].input) = {}
           /\ BeginAttempt(w, worker[w].input, FALSE) /\ UNCHANGED returned
  <2>1. /\ Others(w) /\ worker'[w].pc = "start" /\ worker'[w].execution = None
        /\ worker'[w].input = worker[w].input /\ worker'[w].repair = FALSE
        /\ worker'[w].superseded = {}
    BY <1>1, <1>3, BeginMoves
  <2>2. GoesOn(w)
    BY <1>1, <1>3, <2>1 DEF GoesOn, FindDecision, PriorDecisions, Holds
  <2>3. SoundCall(worker'[w]) /\ SoundReplacement(worker'[w], events')
    BY <2>1 DEF SoundCall, SoundReplacement, Unborn
  <2> QED BY <2>1, <2>2, <2>3 DEF Step, Kind
<1> QED BY <1>2, <1>3 DEF FindDecision

LEMMA FindReusableSteps ==
    ASSUME CallInv, NEW w \in Workers, NEW i \in Inputs,
           FindReusableExecution(w, i)
    PROVE  Step(w)
<1>1. /\ TypeOK /\ ~Holds(worker[w]) /\ worker[w].superseded = {}
      /\ StageOf[i] = Detection
  BY DEF CallInv, CallsSound, FindReusableExecution, Holds, SoundCall
<1>2. ASSUME NEW e \in Canonical(i), Return(w, i, e)
      PROVE  Step(w)
  <2>1. returned' = [returned EXCEPT ![i] = e] \/ UNCHANGED returned
    BY <1>2 DEF Return
  <2>2. e \in Found(i)
    BY <1>1, <1>2, AnswerKinds
  <2>3. Ends(w)
    BY <1>1, <1>2, <2>1, <2>2, EndMoves
       DEF Ends, Return, FindReusableExecution
  <2> QED BY <1>1, <1>2, <2>3, OverSteps DEF Kind, Return
<1>3. CASE Canonical(i) = {} /\ BeginAttempt(w, i, FALSE) /\ UNCHANGED returned
  <2>1. /\ Others(w) /\ worker'[w].pc = "start" /\ worker'[w].execution = None
        /\ worker'[w].input = i /\ worker'[w].repair = FALSE
        /\ worker'[w].superseded = {}
    BY <1>1, <1>3, BeginMoves
  <2>2. Begins(w)
    BY <1>1, <1>3, <2>1 DEF Begins, FindReusableExecution
  <2>3. SoundCall(worker'[w]) /\ SoundReplacement(worker'[w], events')
    BY <2>1 DEF SoundCall, SoundReplacement, Unborn
  <2> QED BY <2>1, <2>2, <2>3 DEF Step, Kind
<1> QED BY <1>2, <1>3 DEF FindReusableExecution

LEMMA StartAttemptSteps ==
    ASSUME CallInv, NEW w \in Workers, StartAttempt(w)
    PROVE  Step(w)
<1> DEFINE c == worker[w]
           p == ProjectOf[c.input]
<1>1. /\ TypeOK /\ ~Holds(c) /\ c.superseded = {} /\ c.pc = "start"
      /\ c.execution = None /\ c \in Call
      /\ UNCHANGED <<executions, events, returned, faults>>
  BY Input DEF CallInv, CallsSound, StartAttempt, Holds, SoundCall, Unborn
<1>2. CASE End(w)
  <2>1. Ends(w)
    BY <1>1, <1>2, EndMoves DEF Ends
  <2> QED BY <1>1, <1>2, <2>1, OverSteps DEF Kind
<1>3. CASE /\ Cardinality(Attempts(p, Day(p, c.startedAt))) < DailyLimit
           /\ worker' = [worker EXCEPT ![w] =
                [@ EXCEPT !.pc = "commit", !.seen = Len(executions)]]
  <2> DEFINE d == [c EXCEPT !.pc = "commit", !.seen = Len(executions)]
  <2>1. /\ d \in Call /\ d.pc = "commit" /\ d.seen = Len(executions)
        /\ d.input = c.input /\ d.execution = c.execution
        /\ d.startedAt = c.startedAt /\ d.repair = c.repair
        /\ d.superseded = c.superseded
    BY <1>1, ExecutionRows DEF Call
  <2>2. worker' = [worker EXCEPT ![w] = d]
    BY <1>3
  <2> HIDE DEF d
  <2>3. Others(w) /\ worker'[w] = d
    BY <1>1, <2>1, <2>2, CallMoves
  <2>4. GoesOn(w)
    BY <1>1, <1>3, <2>1, <2>3 DEF GoesOn, Holds
  <2>5. SoundCall(worker'[w]) /\ SoundReplacement(worker'[w], events')
    BY <1>1, <2>1, <2>3 DEF SoundCall, SoundReplacement, Unborn
  <2> QED BY <1>1, <2>1, <2>3, <2>4, <2>5 DEF Step, Kind
<1> QED BY <1>2, <1>3 DEF StartAttempt

LEMMA CommitAttemptSteps ==
    ASSUME CallInv, NEW w \in Workers, CommitAttempt(w)
    PROVE  Step(w)
<1> DEFINE c == worker[w]
           row == [input |-> c.input, number |-> NextNumber(c.input),
                   repair |-> c.repair, startedAt |-> c.startedAt,
                   status |-> "running", validation |-> "pending"]
           d == [c EXCEPT !.pc = "ask", !.seen = 0]
           e == [d EXCEPT !.startedAt = 0, !.execution = Len(executions) + 1]
<1>1. /\ TypeOK /\ c.superseded = {} /\ c.pc = "commit" /\ c \in Call
      /\ Len(executions) \in Nat
      /\ UNCHANGED <<events, returned, faults>>
  BY Input, ExecutionRows DEF CallInv, CallsSound, CommitAttempt, SoundCall
<1>2. NextNumber(c.input) \in Nat \ {0}
  <2>1. AttemptsOf(c.input) \in SUBSET (1..Len(executions))
    BY <1>1, ExecutionRows DEF AttemptsOf
  <2>2. IsFiniteSet(1..Len(executions))
    BY <1>1, FS_Interval
  <2>3. Cardinality(AttemptsOf(c.input)) \in Nat
    BY <2>1, <2>2, FS_Subset, FS_CardinalityType
  <2> QED BY <2>3 DEF NextNumber
<1>3. row \in Execution
  BY <1>1, <1>2 DEF Execution, Call
<1>4. AddsRow(row)
  BY <1>1, <1>3, AppendAdds DEF CommitAttempt
<1>5. /\ d \in Call /\ d.pc = "ask" /\ d.input = c.input
      /\ d.repair = c.repair /\ d.superseded = {}
  BY <1>1 DEF Call
<1>6. d = [c EXCEPT !.pc = "ask", !.seen = 0]
  OBVIOUS
<1> HIDE DEF row, d
<1>7. e \in Call /\ e.execution = Len(executions) + 1
  <2>1. Len(executions) + 1 \in Nat
    BY <1>1
  <2> QED BY <1>5, <2>1 DEF Call
<1>8. /\ e.pc = "ask" /\ e.input = c.input
      /\ e.superseded = {}
  BY <1>1, <1>5 DEF Call
<1>9. e.repair = c.repair
  BY <1>1, <1>5 DEF Call
<1>10. e = [c EXCEPT !.pc = "ask", !.seen = 0, !.startedAt = 0,
                    !.execution = Len(executions) + 1]
  BY <1>1, <1>6 DEF Call
<1> HIDE DEF e
<1>11. worker' = [worker EXCEPT ![w] = e]
  BY <1>10 DEF CommitAttempt
<1>12. Others(w) /\ worker'[w] = e
  BY <1>1, <1>7, <1>11, CallMoves
<1>13. Commits(w)
  BY <1>1, <1>4, <1>7, <1>8, <1>9, <1>12 DEF Commits, CommitAttempt, row
<1>14. SoundCall(worker'[w]) /\ SoundReplacement(worker'[w], events')
  BY <1>7, <1>8, <1>9, <1>12 DEF SoundCall, SoundReplacement, Unborn
<1> QED BY <1>4, <1>7, <1>8, <1>9, <1>12, <1>13, <1>14 DEF Step, Kind, AddsRow

LEMMA AttemptFailsSteps ==
    ASSUME CallInv, NEW w \in Workers, AttemptFails(w)
    PROVE  Step(w)
<1>1. TypeOK /\ ~Holds(worker[w])
  BY DEF CallInv, AttemptFails, Holds
<1>2. Ends(w)
  BY <1>1, EndMoves DEF Ends, AttemptFails
<1> QED BY <1>1, <1>2, OverSteps DEF Kind, AttemptFails

\* The attempt of a call that holds one can be closed.
LEMMA HeldCloses ==
    ASSUME CallInv, NEW w \in Workers, Holds(worker[w]),
           NEW status \in {"succeeded", "failed", "rejected"},
           NEW validation \in {"pending", "invalid", "valid"},
           Close(w, status, validation)
    PROVE  /\ TypeOK
           /\ ClosesRow(worker[w].execution, status, validation)
BY CloseCloses DEF CallInv, CallsSound, HeldRow

LEMMA ModelFailsSteps ==
    ASSUME CallInv, NEW w \in Workers, ModelFails(w)
    PROVE  Step(w)
<1>1. Holds(worker[w])
  BY DEF ModelFails, Holds
<1>2. TypeOK /\ ClosesRow(worker[w].execution, "failed", "pending")
  BY <1>1, HeldCloses DEF ModelFails
<1>3. Fails(w)
  BY <1>1, <1>2, EndMoves DEF Fails, ModelFails
<1> QED BY <1>2, <1>3, OverSteps DEF Kind, ModelFails

LEMMA ModelAnswersInvalidSteps ==
    ASSUME CallInv, NEW w \in Workers, ModelAnswersInvalid(w)
    PROVE  Step(w)
<1>1. /\ Holds(worker[w]) /\ SoundCall(worker[w]) /\ worker[w].pc = "ask"
      /\ worker[w].superseded = {}
  BY DEF ModelAnswersInvalid, Holds, CallInv, CallsSound, SoundCall
<1>2. /\ TypeOK /\ ClosesRow(worker[w].execution, "rejected", "invalid")
      /\ worker[w].input \in Inputs
  BY <1>1, HeldCloses, Input DEF ModelAnswersInvalid
<1>3. CASE End(w)
  <2>1. Rejects(w)
    BY <1>1, <1>2, <1>3, EndMoves DEF Rejects, ModelAnswersInvalid
  <2> QED BY <1>2, <1>3, <2>1, OverSteps DEF Kind
<1>4. CASE MayRepair(worker[w]) /\ BeginAttempt(w, worker[w].input, TRUE)
  <2>1. /\ Others(w) /\ worker'[w].pc = "start" /\ worker'[w].execution = None
        /\ worker'[w].input = worker[w].input
        /\ worker'[w].superseded = {}
    BY <1>1, <1>2, <1>4, BeginMoves
  <2>2. Rejects(w)
    BY <1>1, <1>2, <1>4, <2>1 DEF Rejects, ModelAnswersInvalid, MayRepair
  <2>3. SoundCall(worker'[w]) /\ SoundReplacement(worker'[w], events')
    BY <2>1 DEF SoundCall, SoundReplacement, Unborn
  <2> QED BY <2>1, <2>2, <2>3 DEF Step, Kind
<1> QED BY <1>3, <1>4 DEF ModelAnswersInvalid

\* The call takes the answer of the model to a statement that persists it.
LEMMA AnswerSteps ==
    ASSUME CallInv, NEW w \in Workers, worker[w].pc = "ask",
           NEW label \in {"read", "write"},
           NEW answer \in AnswersOf(worker[w].input),
           label = "read" => StageOf[worker[w].input] = Interpretation,
           worker' = [worker EXCEPT ![w] =
                         [@ EXCEPT !.pc = label, !.answer = answer]],
           UNCHANGED <<executions, events, returned, faults>>
    PROVE  Step(w)
<1> DEFINE c == worker[w]
           d == [c EXCEPT !.pc = label, !.answer = answer]
<1>1. /\ TypeOK /\ c \in Call /\ c.superseded = {} /\ Holds(c)
  BY Input DEF CallInv, CallsSound, SoundCall, Holds
<1>2. answer \in {"none", "active", "rejected", "result"}
  BY DEF AnswersOf
<1>3. /\ d \in Call /\ d.pc = label /\ d.answer = answer
      /\ d.input = c.input /\ d.repair = c.repair
      /\ d.execution = c.execution /\ d.superseded = {}
  BY <1>1, <1>2 DEF Call
<1>4. worker' = [worker EXCEPT ![w] = d]
  OBVIOUS
<1> HIDE DEF d
<1>5. Others(w) /\ worker'[w] = d
  BY <1>1, <1>3, <1>4, CallMoves
<1>6. GoesOn(w)
  BY <1>1, <1>3, <1>5 DEF GoesOn, Holds
<1>7. SoundCall(worker'[w]) /\ SoundReplacement(worker'[w], events')
  BY <1>3, <1>5 DEF SoundCall, SoundReplacement, Unborn
<1> QED BY <1>1, <1>3, <1>5, <1>6, <1>7 DEF Step, Kind, TypeOK

LEMMA ModelAnswersSteps ==
    ASSUME CallInv, NEW w \in Workers, ModelAnswers(w)
    PROVE  Step(w)
<1>1. /\ TypeOK /\ SoundCall(worker[w]) /\ worker[w].pc = "ask"
      /\ worker[w].input \in Inputs /\ worker[w].superseded = {}
      /\ UNCHANGED <<executions, events, returned, faults>>
  BY Input DEF ModelAnswers, CallInv, CallsSound, SoundCall
<1>2. CASE /\ StageOf[worker[w].input] = Detection
           /\ worker' = [worker EXCEPT ![w] =
                [@ EXCEPT !.pc = "write", !.answer = "result"]]
  <2>1. "result" \in AnswersOf(worker[w].input)
    BY <1>1, <1>2, AnswerKinds
  <2> QED BY <1>1, <1>2, <2>1, AnswerSteps
<1>3. ASSUME StageOf[worker[w].input] = Interpretation,
             NEW status \in {"active", "rejected"},
             worker' = [worker EXCEPT ![w] =
                [@ EXCEPT !.pc = "read", !.answer = status]]
      PROVE  Step(w)
  <2>1. status \in AnswersOf(worker[w].input)
    BY <1>1, <1>3, AnswerKinds
  <2> QED BY <1>1, <1>3, <2>1, AnswerSteps
<1>4. CASE StageOf[worker[w].input] = Interpretation /\ Goto(w, "close")
  <2>1. /\ worker'[w].pc = "close" /\ worker'[w].input = worker[w].input
        /\ worker'[w].superseded = {}
    BY <1>1, <1>4, GotoMoves DEF Labels
  <2>2. SoundCall(worker'[w]) /\ Holds(worker[w]) /\ Holds(worker'[w])
    BY <1>1, <1>4, <2>1 DEF SoundCall, Holds, Unborn
  <2> QED BY <1>1, <1>4, <2>2, GotoGoesOn DEF Labels
<1> QED BY <1>2, <1>3, <1>4 DEF ModelAnswers

LEMMA CloseInsufficientSteps ==
    ASSUME CallInv, NEW w \in Workers, CloseInsufficient(w)
    PROVE  Step(w)
<1>1. /\ Holds(worker[w])
      /\ StageOf[worker[w].input] = Interpretation
  BY DEF CloseInsufficient, Holds, CallInv, CallsSound, SoundCall
<1>2. TypeOK /\ ClosesRow(worker[w].execution, "rejected", "valid")
  BY <1>1, HeldCloses DEF CloseInsufficient
<1>3. UNCHANGED returned /\ End(w)
  BY DEF CloseInsufficient, Return
<1>4. DecidesInsufficient(w)
  BY <1>1, <1>2, <1>3, EndMoves DEF DecidesInsufficient, CloseInsufficient
<1> QED BY <1>2, <1>3, <1>4, OverSteps DEF Kind

\* A set of events there are has a newest one.
LEMMA NewestEvent ==
    ASSUME NEW n \in Nat, NEW S \in SUBSET (1..n)
    PROVE  Newest(S) \in Nat
<1>1. CASE S = {}
  BY <1>1 DEF Newest, None
<1>2. CASE S # {}
  <2> DEFINE R == OpToRel(<, Nat)
             T == {n - v : v \in S}
  <2>1. IsWellFoundedOn(R, Nat)
    BY NatLessThanWellFounded
  <2>2. \A x, y \in Nat : y < x => <<y, x>> \in R
    BY DEF OpToRel
  <2>3. T \subseteq Nat /\ T # {}
    <3>1. \A v \in S : v \in 1..n /\ n - v \in Nat /\ n - v \in T
      OBVIOUS
    <3>2. T \subseteq Nat
      BY <3>1
    <3>3. PICK v \in S : TRUE
      BY <1>2
    <3>4. n - v \in T
      BY <3>1
    <3> HIDE DEF T
    <3> QED BY <3>2, <3>4
  <2> HIDE DEF R
  <2>4. PICK x \in T : \A y \in T : ~(<<y, x>> \in R)
    BY <2>1, <2>3, WFMin
  <2>5. \A y \in T : ~(y < x)
    BY <2>2, <2>3, <2>4
  <2>6. PICK v \in S : x = n - v
    BY <2>4
  <2>7. \A u \in S : ~(n - u < n - v)
    BY <2>5, <2>6
  <2>8. \A u \in S : u <= v
    BY <2>7
  <2> HIDE DEF T
  <2>9. \E u : u \in S /\ \A t \in S : t <= u
    BY <2>8
  <2>10. Newest(S) \in S
    BY <1>2, <2>9, Zenon DEF Newest
  <2>11. S \subseteq Nat
    OBVIOUS
  <2> QED BY <2>10, <2>11, Zenon
<1> QED BY <1>1, <1>2

LEMMA PersistReadSteps ==
    ASSUME CallInv, NEW w \in Workers, PersistRead(w)
    PROVE  Step(w)
<1> DEFINE c == worker[w]
<1>1. /\ TypeOK /\ c \in Call /\ c.pc = "read" /\ Holds(c) /\ c.input \in Inputs
      /\ StageOf[c.input] = Interpretation /\ c.answer \in AnswersOf(c.input)
      /\ UNCHANGED <<executions, events, faults>>
  BY Input DEF CallInv, CallsSound, PersistRead, SoundCall, Holds
<1>2. ASSUME NEW v \in EventsOf(c.input), Return(w, c.input, v)
      PROVE  Step(w)
  <2>1. returned' = [returned EXCEPT ![c.input] = v] \/ UNCHANGED returned
    BY <1>2 DEF Return
  <2>2. v \in Found(c.input)
    BY <1>1, <1>2, AnswerKinds
  <2>3. Ends(w)
    BY <1>1, <1>2, <2>1, <2>2, EndMoves DEF Ends, Return
  <2> QED BY <1>1, <1>2, <2>3, OverSteps DEF Kind, Return
<1>3. ASSUME UNCHANGED returned, NEW S, S = Replaced(c.input, c.answer),
             worker' = [worker EXCEPT ![w] =
                           [@ EXCEPT !.pc = "write", !.superseded = S]]
      PROVE  Step(w)
  <2> DEFINE d == [c EXCEPT !.pc = "write", !.superseded = S]
  <2>1. S \in SUBSET Nat
    BY <1>1, <1>3, ExecutionRows DEF Replaced
  <2>2. /\ d \in Call /\ d.pc = "write" /\ d.superseded = S
        /\ d.input = c.input /\ d.execution = c.execution
        /\ d.answer = c.answer
    BY <1>1, <2>1 DEF Call
  <2>3. d.repair = c.repair
    BY <1>1 DEF Call
  <2>4. worker' = [worker EXCEPT ![w] = d]
    BY <1>3
  <2> HIDE DEF d
  <2>5. Others(w) /\ worker'[w] = d
    BY <1>1, <2>2, <2>4, CallMoves
  <2>6. GoesOn(w)
    BY <1>1, <1>3, <2>2, <2>3, <2>5 DEF GoesOn, Holds
  <2>7. SoundCall(worker'[w])
    BY <1>1, <1>3, <2>2, <2>5 DEF SoundCall, Unborn, Replaced
  <2>8. SoundReplacement(worker'[w], events')
    BY <1>1, <1>3, <2>2, <2>5 DEF SoundReplacement, Replaced, Contained
  <2> QED BY <1>1, <2>2, <2>5, <2>6, <2>7, <2>8 DEF Step, Kind, TypeOK
<1> QED BY <1>2, <1>3 DEF PersistRead

LEMMA PersistWriteSteps ==
    ASSUME CallInv, NEW w \in Workers, PersistWrite(w)
    PROVE  Step(w)
<1> DEFINE c == worker[w]
<1>1. /\ TypeOK /\ c \in Call /\ c.pc = "write" /\ Holds(c) /\ c.input \in Inputs
      /\ c.answer # "result" /\ c.answer \in AnswersOf(c.input)
      /\ SoundCall(c) /\ SoundReplacement(c, events) /\ UNCHANGED faults
  BY Input DEF CallInv, CallsSound, PersistWrite, SoundCall, Holds
<1>2. StageOf[c.input] = Interpretation /\ c.answer \in {"active", "rejected"}
  BY <1>1, AnswerKinds
<1>3. CASE /\ EventInsertable(c)
           /\ events' = Append(
                [v \in DOMAIN events |->
                   IF v \in c.superseded /\ events[v].status = "active"
                   THEN [events[v] EXCEPT !.status = "superseded"]
                   ELSE events[v]],
                [input |-> c.input, status |-> c.answer,
                 supersedes |-> Newest(c.superseded)])
           /\ Close(w, "succeeded", "valid")
           /\ Return(w, c.input, Len(events) + 1)
  <2> DEFINE n == Len(events)
             old == [v \in DOMAIN events |->
                       IF v \in c.superseded /\ events[v].status = "active"
                       THEN [events[v] EXCEPT !.status = "superseded"]
                       ELSE events[v]]
             new == [input |-> c.input, status |-> c.answer,
                     supersedes |-> Newest(c.superseded)]
  <2>1. /\ n \in Nat /\ DOMAIN events = 1..n
        /\ \A v \in 1..n : events[v] \in Event
    BY <1>1, ExecutionRows
  <2>2. c.superseded \in SUBSET (1..n)
    BY <1>1, <2>1 DEF SoundReplacement
  <2>3. new \in Event
    BY <1>1, <1>2, <2>1, <2>2, NewestEvent DEF Event
  <2>4. \A v \in 1..n : /\ old[v] \in Event
                        /\ old[v].input = events[v].input
                        /\ old[v].supersedes = events[v].supersedes
                        /\ old[v].status = events[v].status
                           \/ (v \in c.superseded /\ old[v].status = "superseded")
    BY <2>1 DEF Event
  <2>5. old \in [1..n -> Event]
    BY <2>1, <2>4
  <2> HIDE DEF old, new
  <2>6. old \in Seq(Event)
    BY <2>1, <2>5, SeqDef
  <2>7. Len(old) = n
    BY <2>1, <2>5, <2>6, LenProperties
  <2>8. events' = Append(old, new)
    BY <1>3 DEF old, new
  <2>9. /\ events' \in Seq(Event) /\ Len(events') = n + 1
        /\ \A v \in 1..n : events'[v] = old[v]
        /\ events'[n + 1] = new
    BY <2>3, <2>6, <2>7, <2>8, AppendProperties
  <2>10. DOMAIN events' = 1..(n + 1)
    BY <2>9, LenProperties
  <2>11. new.input = c.input /\ new.status = c.answer
    BY DEF new
  <2>12. AddsEvent(c)
    BY <2>1, <2>4, <2>9, <2>10, <2>11 DEF AddsEvent
  <2>13. EventsOf(c.input) = {}
    BY <1>3 DEF EventInsertable
  <2>14. ClosesRow(c.execution, "succeeded", "valid")
    BY <1>1, <1>3, HeldCloses
  <2>15. returned' = [returned EXCEPT ![c.input] = n + 1]
    BY <1>3, <2>1 DEF Return, Insufficient, None
  <2>16. End(w)
    BY <1>3 DEF Return
  <2>17. Persists(w)
    BY <1>1, <1>2, <2>12, <2>13, <2>14, <2>15, <2>16, EndMoves DEF Persists
  <2> QED BY <1>1, <2>16, <2>17, OverSteps DEF Kind
<1>4. CASE /\ Goto(w, "reload")
           /\ UNCHANGED <<executions, events, returned>>
  <2>1. /\ worker'[w].pc = "reload" /\ worker'[w].input = c.input
        /\ worker'[w].answer = c.answer
        /\ worker'[w].superseded = c.superseded
    BY <1>1, <1>4, GotoMoves DEF Labels
  <2>2. SoundCall(worker'[w]) /\ (Holds(worker'[w]) <=> Holds(c))
    BY <1>1, <2>1 DEF SoundCall, Holds, Unborn
  <2> QED BY <1>1, <1>4, <2>2, GotoGoesOn DEF Labels
<1> QED BY <1>3, <1>4 DEF PersistWrite

LEMMA PersistResultSteps ==
    ASSUME CallInv, NEW w \in Workers, PersistResult(w)
    PROVE  Step(w)
<1> DEFINE c == worker[w]
<1>1. /\ TypeOK /\ c.pc = "write" /\ Holds(c) /\ c.input \in Inputs
      /\ c.answer = "result" /\ c.answer \in AnswersOf(c.input)
      /\ SoundCall(c) /\ HeldRow(c, executions) /\ UNCHANGED <<events, faults>>
  BY Input DEF CallInv, CallsSound, PersistResult, SoundCall, Holds
<1>2. StageOf[c.input] = Detection
  BY <1>1, AnswerKinds
<1>3. CASE /\ ResultInsertable(c.input)
           /\ Close(w, "succeeded", "valid")
           /\ Return(w, c.input, c.execution)
  <2>1. ClosesRow(c.execution, "succeeded", "valid")
    BY <1>1, <1>3, HeldCloses
  <2>2. returned' = [returned EXCEPT ![c.input] = c.execution]
    BY <1>1, <1>3, ExecutionRows DEF Return, Insufficient, None, HeldRow
  <2>3. DecidesResult(w)
    BY <1>1, <1>2, <1>3, <2>1, <2>2, EndMoves
       DEF DecidesResult, ResultInsertable, Return
  <2> QED BY <1>1, <1>3, <2>3, OverSteps DEF Kind, Return
<1>4. CASE Goto(w, "lost") /\ UNCHANGED <<executions, returned>>
  <2>1. /\ worker'[w].pc = "lost" /\ worker'[w].input = c.input
        /\ worker'[w].answer = c.answer
        /\ worker'[w].superseded = c.superseded
    BY <1>1, <1>4, GotoMoves DEF Labels
  <2>2. SoundCall(worker'[w]) /\ (Holds(worker'[w]) <=> Holds(c))
    BY <1>1, <2>1 DEF SoundCall, Holds, Unborn
  <2> QED BY <1>1, <1>4, <2>2, GotoGoesOn DEF Labels
<1> QED BY <1>3, <1>4 DEF PersistResult

LEMMA PersistFailsSteps ==
    ASSUME CallInv, NEW w \in Workers, PersistFails(w)
    PROVE  Step(w)
<1> DEFINE c == worker[w]
<1>1. /\ TypeOK /\ c.pc \in {"read", "write"} /\ Holds(c) /\ SoundCall(c)
      /\ Goto(w, "lost") /\ UNCHANGED <<executions, events, returned, faults>>
  BY DEF CallInv, CallsSound, PersistFails, Holds
<1>2. /\ worker'[w].pc = "lost" /\ worker'[w].input = c.input
      /\ worker'[w].answer = c.answer
      /\ worker'[w].superseded = c.superseded
  BY <1>1, GotoMoves DEF Labels
<1>3. SoundCall(worker'[w]) /\ (Holds(worker'[w]) <=> Holds(c))
  BY <1>1, <1>2 DEF SoundCall, Holds, Unborn
<1> QED BY <1>1, <1>3, GotoGoesOn DEF Labels

LEMMA ReloadEventSteps ==
    ASSUME CallInv, NEW w \in Workers, ReloadEvent(w)
    PROVE  Step(w)
<1> DEFINE c == worker[w]
<1>1. /\ TypeOK /\ c.pc = "reload" /\ Holds(c) /\ c.input \in Inputs
      /\ c.answer # "result" /\ c.answer \in AnswersOf(c.input)
      /\ SoundCall(c) /\ UNCHANGED <<events, faults>>
  BY Input DEF CallInv, CallsSound, ReloadEvent, SoundCall, Holds
<1>2. StageOf[c.input] = Interpretation
  BY <1>1, AnswerKinds
<1>3. ASSUME NEW v \in EventsOf(c.input), Close(w, "succeeded", "valid"),
             Return(w, c.input, v)
      PROVE  Step(w)
  <2>1. ClosesRow(c.execution, "succeeded", "valid")
    BY <1>1, <1>3, HeldCloses
  <2>2. returned' = [returned EXCEPT ![c.input] = v]
    BY <1>1, <1>3, ExecutionRows DEF Return, Insufficient, None, EventsOf
  <2>3. DecidesEvent(w)
    BY <1>1, <1>2, <1>3, <2>1, <2>2, EndMoves DEF DecidesEvent, Return
  <2> QED BY <1>1, <1>3, <2>3, OverSteps DEF Kind, Return
<1>4. CASE Goto(w, "lost") /\ UNCHANGED <<executions, returned>>
  <2>1. /\ worker'[w].pc = "lost" /\ worker'[w].input = c.input
        /\ worker'[w].answer = c.answer
        /\ worker'[w].superseded = c.superseded
    BY <1>1, <1>4, GotoMoves DEF Labels
  <2>2. SoundCall(worker'[w]) /\ (Holds(worker'[w]) <=> Holds(c))
    BY <1>1, <2>1 DEF SoundCall, Holds, Unborn
  <2> QED BY <1>1, <1>4, <2>2, GotoGoesOn DEF Labels
<1> QED BY <1>3, <1>4 DEF ReloadEvent

LEMMA FailPersistenceSteps ==
    ASSUME CallInv, NEW w \in Workers, FailPersistence(w)
    PROVE  Step(w)
<1> DEFINE c == worker[w]
<1>1. /\ TypeOK /\ c.pc = "lost" /\ Holds(c) /\ c.input \in Inputs
      /\ c.answer \in AnswersOf(c.input) /\ SoundCall(c)
      /\ SoundReplacement(c, events) /\ c.execution \in DOMAIN executions
      /\ UNCHANGED <<events, returned, faults>>
  BY Input DEF CallInv, CallsSound, FailPersistence, SoundCall, Holds, HeldRow
<1>2. CASE c.answer = "result" /\ Goto(w, "reload")
  <2>1. ClosesRow(c.execution, "failed", "pending")
    BY <1>1, <1>2, HeldCloses DEF FailPersistence, CloseFailed
  <2>2. /\ Others(w) /\ worker'[w].pc = "reload"
        /\ worker'[w].input = c.input /\ worker'[w].answer = c.answer
        /\ worker'[w].superseded = c.superseded
        /\ worker'[w].execution = c.execution
    BY <1>1, <1>2, GotoMoves DEF Labels
  <2>3. Fails(w)
    BY <1>1, <1>2, <2>1, <2>2 DEF Fails
  <2>4. SoundCall(worker'[w]) /\ SoundReplacement(worker'[w], events')
    BY <1>1, <2>2 DEF SoundCall, SoundReplacement, Unborn
  <2>5. worker'[w].execution \in DOMAIN executions'
    BY <1>1, <2>1, <2>2 DEF ClosesRow
  <2> QED BY <2>2, <2>3, <2>4, <2>5 DEF Step, Kind
<1>3. CASE c.answer # "result" /\ End(w)
  <2>1. ClosesRow(c.execution, "failed", "valid")
    BY <1>1, <1>3, HeldCloses DEF FailPersistence, CloseFailed
  <2>2. Fails(w)
    BY <1>1, <1>3, <2>1, EndMoves DEF Fails
  <2> QED BY <1>1, <1>3, <2>2, OverSteps DEF Kind
<1> QED BY <1>2, <1>3 DEF FailPersistence

LEMMA ReloadCanonicalSteps ==
    ASSUME CallInv, NEW w \in Workers, ReloadCanonical(w)
    PROVE  Step(w)
<1> DEFINE c == worker[w]
<1>1. /\ TypeOK /\ c.pc = "reload" /\ ~Holds(c) /\ c.input \in Inputs
      /\ c.answer = "result" /\ c.answer \in AnswersOf(c.input)
      /\ UNCHANGED <<executions, events, faults>>
  BY Input DEF CallInv, CallsSound, ReloadCanonical, SoundCall, Holds
<1>2. StageOf[c.input] = Detection
  BY <1>1, AnswerKinds
<1>3. ASSUME NEW e \in Canonical(c.input), Return(w, c.input, e)
      PROVE  Step(w)
  <2>1. returned' = [returned EXCEPT ![c.input] = e] \/ UNCHANGED returned
    BY <1>3 DEF Return
  <2>2. e \in Found(c.input)
    BY <1>1, <1>2, <1>3, AnswerKinds
  <2>3. Ends(w)
    BY <1>1, <1>3, <2>1, <2>2, EndMoves DEF Ends, Return
  <2> QED BY <1>1, <1>3, <2>3, OverSteps DEF Kind, Return
<1>4. CASE End(w) /\ UNCHANGED returned
  <2>1. Ends(w)
    BY <1>1, <1>4, EndMoves DEF Ends
  <2> QED BY <1>1, <1>4, <2>1, OverSteps DEF Kind
<1> QED BY <1>3, <1>4 DEF ReloadCanonical

LEMMA CrashSteps ==
    ASSUME CallInv, NEW w \in Workers, Crash(w)
    PROVE  Step(w) /\ faults' \in 0 .. MaxFaults
<1>1. TypeOK
  BY DEF CallInv
<1>2. Crashes(w)
  BY <1>1, EndMoves DEF Crashes, Crash
<1>3. faults' \in 0 .. MaxFaults
  BY <1>1, LimitsAssumption DEF Crash, TypeOK
<1> QED BY <1>1, <1>2, <1>3, OverSteps DEF Kind, Crash

LEMMA StepKinds ==
    ASSUME CallInv, [Next]_vars
    PROVE  /\ \/ \E w \in Workers : Step(w)
              \/ UNCHANGED <<executions, events, worker, returned, faults>>
           /\ clock' \in 0 .. MaxTime /\ faults' \in 0 .. MaxFaults
<1>1. TypeOK
  BY DEF CallInv
<1>2. ASSUME NEW w \in Workers, InterpretStep(w)
      PROVE  Step(w) /\ UNCHANGED <<clock, faults>>
  <2>1. UNCHANGED <<clock, faults>>
    BY <1>2 DEF InterpretStep, FindEvent, FindDecision, CloseInsufficient,
                PersistRead, PersistWrite, ReloadEvent
  <2> QED BY <1>2, <2>1, FindEventSteps, FindDecisionSteps,
             CloseInsufficientSteps, PersistReadSteps, PersistWriteSteps,
             ReloadEventSteps DEF InterpretStep
<1>3. ASSUME NEW w \in Workers, DetectStep(w)
      PROVE  Step(w) /\ UNCHANGED <<clock, faults>>
  <2>1. UNCHANGED <<clock, faults>>
    BY <1>3 DEF DetectStep, FindReusableExecution, PersistResult, ReloadCanonical
  <2> QED BY <1>3, <2>1, FindReusableSteps, PersistResultSteps,
             ReloadCanonicalSteps DEF DetectStep
<1>4. ASSUME NEW w \in Workers, AttemptStep(w)
      PROVE  Step(w) /\ UNCHANGED <<clock, faults>>
  <2>1. UNCHANGED <<clock, faults>>
    BY <1>4 DEF AttemptStep, StartAttempt, CommitAttempt, AttemptFails,
                ModelFails, ModelAnswersInvalid, ModelAnswers, PersistFails,
                FailPersistence
  <2> QED BY <1>4, <2>1, StartAttemptSteps, CommitAttemptSteps,
             AttemptFailsSteps, ModelFailsSteps, ModelAnswersInvalidSteps,
             ModelAnswersSteps, PersistFailsSteps, FailPersistenceSteps
             DEF AttemptStep
<1>5. ASSUME NEW w \in Workers, Crash(w)
      PROVE  Step(w) /\ UNCHANGED clock /\ faults' \in 0 .. MaxFaults
  BY <1>5, CrashSteps DEF Crash
<1>6. CASE Tick
  BY <1>1, <1>6, LimitsAssumption DEF Tick, TypeOK
<1>7. CASE UNCHANGED vars
  BY <1>1, <1>7 DEF vars, TypeOK
<1>8. clock \in 0 .. MaxTime /\ faults \in 0 .. MaxFaults
  BY <1>1 DEF TypeOK
<1> QED BY <1>2, <1>3, <1>4, <1>5, <1>6, <1>7, <1>8 DEF Next

-----------------------------------------------------------------------------
(* What every step keeps                                                     *)

\* The attempt of w, and no other row, is closed.
ClosesOwn(w) ==
    /\ Holds(worker[w])
    /\ \E status \in {"succeeded", "failed", "rejected"},
          validation \in {"pending", "invalid", "valid"} :
            ClosesRow(worker[w].execution, status, validation)

\* Rows are added, and closed by the call that works on them.
RowsKept(w) ==
    /\ executions' \in Seq(Execution)
    /\ DOMAIN executions \subseteq DOMAIN executions'
    /\ \A e \in DOMAIN executions :
         /\ executions'[e].input = executions[e].input
         /\ executions'[e].number = executions[e].number
         /\ executions'[e].repair = executions[e].repair
         /\ executions'[e].startedAt = executions[e].startedAt
         /\ e # worker[w].execution \/ ~Holds(worker[w]) =>
              executions'[e] = executions[e]

\* Events are added, and superseded by the call that replaces them.
EventsKept ==
    /\ events' \in Seq(Event)
    /\ DOMAIN events \subseteq DOMAIN events'
    /\ \A v \in DOMAIN events :
         /\ events'[v].input = events[v].input
         /\ events'[v].status # events[v].status =>
              events'[v].status = "superseded"

LEMMA StepRows ==
    ASSUME TypeOK, NEW w \in Workers, Step(w)
    PROVE  /\ executions' = executions \/ Commits(w) \/ ClosesOwn(w)
           /\ events' = events \/ Persists(w)
           /\ RowsKept(w) /\ EventsKept
<1>1. executions' = executions \/ Commits(w) \/ ClosesOwn(w)
  BY DEF Step, Kind, Begins, GoesOn, Ends, Crashes, Fails, Rejects, Persists,
         DecidesInsufficient, DecidesEvent, DecidesResult, ClosesOwn, Holds
<1>2. events' = events \/ Persists(w)
  BY DEF Step, Kind, Begins, GoesOn, Ends, Crashes, Commits, Fails, Rejects,
         DecidesInsufficient, DecidesEvent, DecidesResult
<1>3. RowsKept(w)
  <2>1. CASE executions' = executions
    BY <2>1 DEF RowsKept, TypeOK
  <2>2. CASE Commits(w)
    <3>1. PICK row : AddsRow(row)
      BY <2>2 DEF Commits
    <3> QED BY <3>1 DEF RowsKept, AddsRow
  <2>3. CASE ClosesOwn(w)
    <3>1. PICK status, validation : ClosesRow(worker[w].execution, status, validation)
      BY <2>3 DEF ClosesOwn
    <3>2. Holds(worker[w])
      BY <2>3 DEF ClosesOwn
    <3> QED BY <3>1, <3>2 DEF RowsKept, ClosesRow
  <2> QED BY <1>1, <2>1, <2>2, <2>3
<1>4. EventsKept
  <2>1. CASE events' = events
    BY <2>1 DEF EventsKept, TypeOK
  <2>2. CASE Persists(w)
    BY <2>2 DEF EventsKept, Persists, AddsEvent
  <2> QED BY <1>2, <2>1, <2>2
<1> QED BY <1>1, <1>2, <1>3, <1>4

\* What a call that keeps its attempt knows of the row.
LEMMA GoesOnHolds ==
    ASSUME CallInv, NEW w \in Workers, GoesOn(w), Holds(worker'[w])
    PROVE  HeldRow(worker'[w], executions')
<1>1. HeldRow(worker[w], executions)
  BY DEF GoesOn, CallInv, CallsSound
<1>2. /\ worker'[w].input = worker[w].input
      /\ worker'[w].execution = worker[w].execution
      /\ executions' = executions
  BY DEF GoesOn
<1>3. worker'[w].repair = worker[w].repair
  BY DEF GoesOn
<1> QED BY <1>1, <1>2, <1>3 DEF HeldRow

LEMMA OwnAttempt ==
    ASSUME CallInv, NEW w \in Workers, Step(w), Holds(worker'[w])
    PROVE  /\ GoesOn(w) \/ Commits(w)
           /\ HeldRow(worker'[w], executions')
           /\ GoesOn(w) => worker'[w].execution = worker[w].execution
                           /\ Holds(worker[w])
           /\ Commits(w) => worker'[w].execution \notin DOMAIN executions
<1>1. GoesOn(w) \/ Commits(w)
  BY OverCall DEF Step, Kind, Begins, Ends, Crashes, Fails, Rejects, Persists,
                  DecidesInsufficient, DecidesEvent, DecidesResult, Holds
<1>2. CASE GoesOn(w)
  <2>1. /\ worker'[w].execution = worker[w].execution
        /\ Holds(worker[w]) /\ Holds(worker'[w])
    BY <1>2 DEF GoesOn
  <2>2. ~Commits(w)
    BY <2>1 DEF Commits, Holds
  <2> QED BY <1>2, <2>1, <2>2, GoesOnHolds
<1>3. CASE Commits(w)
  <2> DEFINE c == worker[w]
             row == [input |-> c.input, number |-> NextNumber(c.input),
                     repair |-> c.repair, startedAt |-> c.startedAt,
                     status |-> "running", validation |-> "pending"]
  <2>1. /\ row.input = c.input /\ row.status = "running"
        /\ row.validation = "pending"
    OBVIOUS
  <2>2. row.repair = c.repair
    OBVIOUS
  <2>3. AddsRow(row)
    BY <1>3 DEF Commits
  <2>4. /\ worker'[w].input = c.input
        /\ worker'[w].execution = Len(executions) + 1
    BY <1>3 DEF Commits
  <2>5. worker'[w].repair = c.repair
    BY <1>3 DEF Commits
  <2> HIDE DEF row
  <2>6. /\ worker'[w].execution \in DOMAIN executions'
        /\ worker'[w].execution \notin DOMAIN executions
        /\ executions'[worker'[w].execution] = row
    BY <2>3, <2>4 DEF AddsRow
  <2>7. HeldRow(worker'[w], executions')
    BY <2>1, <2>2, <2>4, <2>5, <2>6 DEF HeldRow
  <2>8. ~GoesOn(w)
    BY <1>3 DEF GoesOn, Commits, Holds
  <2> QED BY <1>3, <2>6, <2>7, <2>8
<1> QED BY <1>1, <1>2, <1>3

LEMMA StepKeepsCallInv ==
    ASSUME CallInv, NEW w \in Workers, Step(w),
           clock' \in 0 .. MaxTime, faults' \in 0 .. MaxFaults
    PROVE  CallInv'
<1>1. TypeOK /\ CallsSound /\ AttemptsApart /\ Others(w) /\ RowsKept(w) /\ EventsKept
  BY StepRows DEF CallInv, Step
<1>2. ASSUME NEW v \in Workers, v # w, Holds(worker[v])
      PROVE  HeldRow(worker[v], executions')
  <2>1. HeldRow(worker[v], executions)
    BY <1>1, <1>2 DEF CallsSound
  <2>2. worker[v].execution # worker[w].execution \/ ~Holds(worker[w])
    BY <1>1, <1>2 DEF AttemptsApart
  <2>3. executions'[worker[v].execution] = executions[worker[v].execution]
        /\ worker[v].execution \in DOMAIN executions'
    BY <1>1, <2>1, <2>2 DEF RowsKept, HeldRow
  <2> QED BY <2>1, <2>3 DEF HeldRow
<1>3. ASSUME NEW v \in Workers, v # w
      PROVE  SoundReplacement(worker[v], events')
  BY <1>1, <1>3 DEF CallsSound, SoundReplacement, EventsKept
<1>4. CallsSound'
  <2>1. ASSUME NEW v \in Workers
        PROVE  /\ SoundCall(worker'[v])
               /\ Holds(worker'[v]) => HeldRow(worker'[v], executions')
               /\ SoundReplacement(worker'[v], events')
    <3>1. CASE v = w
      BY <3>1, OwnAttempt DEF Step
    <3>2. CASE v # w
      <4>1. worker'[v] = worker[v]
        BY <1>1, <3>2 DEF Others
      <4> QED BY <1>1, <1>2, <1>3, <3>2, <4>1 DEF CallsSound
    <3> QED BY <3>1, <3>2
  <2> QED BY <2>1 DEF CallsSound
<1>5. ASSUME NEW v \in Workers, v # w, Holds(worker[v]), Holds(worker'[w])
      PROVE  worker[v].execution # worker'[w].execution
  <2>1. worker[v].execution \in DOMAIN executions
    BY <1>1, <1>5 DEF CallsSound, HeldRow
  <2>2. GoesOn(w) => worker'[w].execution = worker[w].execution /\ Holds(worker[w])
    BY <1>5, OwnAttempt
  <2>3. Commits(w) => worker'[w].execution \notin DOMAIN executions
    BY <1>5, OwnAttempt
  <2>4. GoesOn(w) \/ Commits(w)
    BY <1>5, OwnAttempt
  <2> QED BY <1>1, <1>5, <2>1, <2>2, <2>3, <2>4 DEF AttemptsApart
<1>6. AttemptsApart'
  <2>1. ASSUME NEW u \in Workers, NEW v \in Workers, u # v,
               Holds(worker'[u]), Holds(worker'[v])
        PROVE  worker'[u].execution # worker'[v].execution
    <3>1. \A x \in Workers : x # w => worker'[x] = worker[x]
      BY <1>1 DEF Others
    <3>2. CASE u = w
      BY <1>5, <2>1, <3>1, <3>2
    <3>3. CASE v = w
      BY <1>5, <2>1, <3>1, <3>3
    <3>4. CASE u # w /\ v # w
      BY <1>1, <2>1, <3>1, <3>4 DEF AttemptsApart
    <3> QED BY <3>2, <3>3, <3>4
  <2> QED BY <2>1 DEF AttemptsApart
<1>7. ASSUME NEW v \in Workers
      PROVE  worker'[v].execution \in {None} \cup DOMAIN executions'
  <2>1. CASE v = w
    BY <2>1 DEF Step
  <2>2. CASE v # w
    BY <1>1, <2>2 DEF Others, RowsKept, TypeOK
  <2> QED BY <2>1, <2>2
<1>8. returned' \in [Inputs -> Nat]
  <2>1. ASSUME NEW i \in Inputs, NEW a \in Nat
        PROVE  [returned EXCEPT ![i] = a] \in [Inputs -> Nat]
    BY <1>1 DEF TypeOK
  <2>2. \A i \in Inputs : EventsOf(i) \subseteq Nat /\ Found(i) \subseteq Nat
    BY <1>1, ExecutionRows DEF Found, EventsOf, Canonical, AttemptsOf
  <2>3. \/ UNCHANGED returned
        \/ \E i \in Inputs : \E a \in Nat : returned' = [returned EXCEPT ![i] = a]
    <3>1. /\ worker[w].input \in Inputs /\ Len(events) + 1 \in Nat
          /\ worker[w].execution \in Nat
      BY <1>1, Input, ExecutionRows DEF Call
    <3>2. CASE Ends(w)
      BY <2>2, <3>2 DEF Ends
    <3>3. CASE Persists(w)
      BY <3>1, <3>3 DEF Persists
    <3>4. CASE DecidesEvent(w)
      BY <2>2, <3>1, <3>4 DEF DecidesEvent
    <3>5. CASE DecidesResult(w)
      BY <3>1, <3>5 DEF DecidesResult
    <3>6. CASE ~(Ends(w) \/ Persists(w) \/ DecidesEvent(w) \/ DecidesResult(w))
      BY <3>6 DEF Step, Kind, Begins, GoesOn, Crashes, Commits, Fails, Rejects,
                  DecidesInsufficient
    <3> QED BY <3>2, <3>3, <3>4, <3>5, <3>6
  <2>4. returned \in [Inputs -> Nat]
    BY <1>1 DEF TypeOK
  <2> QED BY <2>1, <2>3, <2>4
<1>9. TypeOK'
  BY <1>1, <1>7, <1>8 DEF TypeOK, RowsKept, EventsKept, Others
<1> QED BY <1>4, <1>6, <1>9 DEF CallInv

LEMMA CallInvHolds == Spec => []CallInv
<1>1. Init => CallInv
  <2> SUFFICES ASSUME Init PROVE CallInv
    OBVIOUS
  <2>1. TypeOK
    <3>1. /\ executions = <<>> /\ events = <<>> /\ clock = 0 /\ faults = 0
          /\ worker = [w \in Workers |-> NoCall(AnyInput)]
          /\ returned = [i \in Inputs |-> None]
      BY DEF Init
    <3>2. worker \in [Workers -> Call] /\ returned \in [Inputs -> Nat]
      BY <3>1, OverCall DEF None
    <3>3. \A w \in Workers : worker[w].execution \in {None} \cup DOMAIN executions
      BY <3>1, OverCall
    <3>4. executions \in Seq(Execution) /\ events \in Seq(Event)
      BY <3>1
    <3>5. clock \in 0 .. MaxTime /\ faults \in 0 .. MaxFaults
      BY <3>1, LimitsAssumption
    <3> QED BY <3>2, <3>3, <3>4, <3>5 DEF TypeOK
  <2>2. \A w \in Workers : worker[w] = NoCall(AnyInput)
    BY DEF Init
  <2> QED BY <2>1, <2>2, OverCall DEF CallInv, CallsSound, AttemptsApart
<1>2. CallInv /\ [Next]_vars => CallInv'
  <2> SUFFICES ASSUME CallInv, [Next]_vars PROVE CallInv'
    OBVIOUS
  <2>1. /\ clock' \in 0 .. MaxTime /\ faults' \in 0 .. MaxFaults
    BY StepKinds
  <2>2. CASE \E w \in Workers : Step(w)
    BY <2>1, <2>2, StepKeepsCallInv
  <2>3. CASE UNCHANGED <<executions, events, worker, returned, faults>>
    BY <2>1, <2>3 DEF CallInv, TypeOK, CallsSound, AttemptsApart
  <2> QED BY <2>2, <2>3, StepKinds
<1> QED BY <1>1, <1>2, PTL DEF Spec

\* The rows, events and calls of the AI stages keep their types: every call
\* works on an attempt there is.
THEOREM CallsTypeCorrect == Spec => []TypeOK
<1>1. CallInv => TypeOK
  BY DEF CallInv
<1> QED BY <1>1, CallInvHolds, PTL

-----------------------------------------------------------------------------
(* The daily budget                                                          *)

\* The attempts of a day, of the rows xs, that the snapshot n has.
Counted(xs, p, day, n) ==
    {e \in DOMAIN xs : /\ e <= n
                       /\ Owner(xs[e].input) = UserOf[p]
                       /\ Day(p, xs[e].startedAt) = day}

\* A call about to commit has counted less than the limit.
Snapshot ==
    \A w \in Workers : worker[w].pc = "commit" =>
        LET c == worker[w]
            p == ProjectOf[c.input]
        IN  /\ c.seen <= Len(executions)
            /\ Cardinality(Counted(executions, p, Day(p, c.startedAt), c.seen))
                 < DailyLimit

\* What BudgetIsKept counts.
Spent(p, t) ==
    {e \in Attempts(p, Day(p, t)) :
        OffsetOf[ProjectOf[executions[e].input]] = OffsetOf[p]}

BudgetInv == CallInv /\ Snapshot /\ BudgetIsKept

LEMMA RowsFinite ==
    ASSUME TypeOK
    PROVE  IsFiniteSet(DOMAIN executions) /\ IsFiniteSet(DOMAIN events)
BY ExecutionRows, FS_Interval

LEMMA CountedKept ==
    ASSUME CallInv, NEW w \in Workers, Step(w),
           NEW p, NEW day, NEW n \in Nat, n <= Len(executions)
    PROVE  /\ Counted(executions', p, day, n) = Counted(executions, p, day, n)
           /\ n <= Len(executions')
<1>1. TypeOK /\ RowsKept(w)
  BY StepRows DEF CallInv
<1>2. /\ DOMAIN executions = 1..Len(executions) /\ Len(executions) \in Nat
  BY <1>1, ExecutionRows
<1>3. DOMAIN executions' = 1..Len(executions') /\ Len(executions') \in Nat
  BY <1>1, LenProperties DEF RowsKept
<1>4. n <= Len(executions')
  BY <1>1, <1>2, <1>3 DEF RowsKept
<1>5. \A e : e \in DOMAIN executions' /\ e <= n => e \in DOMAIN executions
  BY <1>2, <1>3
<1>6. \A e \in DOMAIN executions :
         /\ e \in DOMAIN executions'
         /\ executions'[e].input = executions[e].input
         /\ executions'[e].startedAt = executions[e].startedAt
  BY <1>1 DEF RowsKept
<1>7. ASSUME NEW e
      PROVE  e \in Counted(executions', p, day, n)
             <=> e \in Counted(executions, p, day, n)
  BY <1>5, <1>6 DEF Counted
<1> QED BY <1>4, <1>7

LEMMA StepKeepsSnapshot ==
    ASSUME CallInv, Snapshot, NEW w \in Workers, Step(w)
    PROVE  Snapshot'
<1>1. TypeOK /\ Others(w)
  BY DEF CallInv, Step
<1>2. \A v \in Workers : worker[v].seen \in Nat
  BY <1>1, Input DEF Call
<1>3. ASSUME NEW v \in Workers, worker'[v].pc = "commit"
      PROVE  LET c == worker'[v]
                 p == ProjectOf[c.input]
             IN  /\ c.seen <= Len(executions')
                 /\ Cardinality(Counted(executions', p, Day(p, c.startedAt), c.seen))
                      < DailyLimit
  <2>1. CASE v # w
    <3>1. worker'[v] = worker[v]
      BY <1>1, <2>1 DEF Others
    <3> QED BY <1>2, <1>3, <3>1, CountedKept DEF Snapshot
  <2>2. CASE v = w
    <3> DEFINE c == worker'[w]
               p == ProjectOf[c.input]
    <3>1. GoesOn(w)
      BY <1>3, <2>2, OverCall
         DEF Step, Kind, Begins, Ends, Crashes, Commits, Fails, Rejects,
             Persists, DecidesInsufficient, DecidesEvent, DecidesResult
    <3>2. /\ c.seen = Len(executions)
          /\ Cardinality(Attempts(p, Day(p, c.startedAt))) < DailyLimit
          /\ executions' = executions
      BY <1>3, <2>2, <3>1 DEF GoesOn
    <3>3. \A day : Counted(executions, p, day, Len(executions)) = Attempts(p, day)
      BY <1>1, ExecutionRows DEF Counted, Attempts
    <3>4. Len(executions) \in Nat /\ Len(executions) <= Len(executions)
      BY <1>1, ExecutionRows
    <3> QED BY <2>2, <3>2, <3>3, <3>4
  <2> QED BY <2>1, <2>2
<1> QED BY <1>3 DEF Snapshot

\* Projects of one time zone have the same days.
LEMMA SameDays ==
    ASSUME NEW p \in DOMAIN UserOf, NEW q \in DOMAIN UserOf,
           OffsetOf[p] = OffsetOf[q], NEW t
    PROVE  Day(p, t) = Day(q, t)
BY DEF Day

\* Only a commit adds to what was spent, and it adds one attempt.
LEMMA SpentGrows ==
    ASSUME CallInv, NEW w \in Workers, Step(w), ~Commits(w), NEW p, NEW t
    PROVE  Spent(p, t)' = Spent(p, t)
<1>1. TypeOK /\ RowsKept(w)
  BY StepRows DEF CallInv
<1>2. DOMAIN executions' = DOMAIN executions
  <2>1. CASE executions' = executions
    BY <2>1
  <2>2. CASE ClosesOwn(w)
    BY <2>2 DEF ClosesOwn, ClosesRow
  <2> QED BY <1>1, <2>1, <2>2, StepRows
<1>3. ASSUME NEW e
      PROVE  e \in Spent(p, t)' <=> e \in Spent(p, t)
  BY <1>1, <1>2 DEF RowsKept, Spent, Attempts, Owner
<1> QED BY <1>3

LEMMA CommitSpends ==
    ASSUME BudgetInv, NEW w \in Workers, Step(w), Commits(w),
           NEW p \in DOMAIN UserOf, NEW t \in 0 .. MaxTime
    PROVE  Cardinality(Spent(p, t)') <= DailyLimit
<1> DEFINE c == worker[w]
           q == ProjectOf[c.input]
           n == Len(executions)
           row == [input |-> c.input, number |-> NextNumber(c.input),
                   repair |-> c.repair, startedAt |-> c.startedAt,
                   status |-> "running", validation |-> "pending"]
           same == /\ UserOf[q] = UserOf[p] /\ OffsetOf[q] = OffsetOf[p]
                   /\ Day(p, c.startedAt) = Day(p, t)
<1>1. /\ TypeOK /\ CallInv /\ c \in Call /\ c.input \in Inputs
      /\ q \in DOMAIN UserOf /\ n \in Nat /\ DOMAIN executions = 1..n
      /\ c.pc = "commit" /\ NoPhantom(w) /\ AddsRow(row)
  BY Input, ExecutionRows, InputsAssumption DEF BudgetInv, CallInv, Commits
<1>2. row.input = c.input /\ row.startedAt = c.startedAt
  OBVIOUS
<1> HIDE DEF row
<1>3. /\ IsFiniteSet(Spent(p, t)) /\ Cardinality(Spent(p, t)) \in Nat
      /\ n + 1 \notin Spent(p, t)
  <2>1. Spent(p, t) \subseteq DOMAIN executions
    BY DEF Spent, Attempts
  <2> QED BY <1>1, <2>1, RowsFinite, FS_Subset, FS_CardinalityType
<1>4. ASSUME NEW e
      PROVE  e \in Spent(p, t)' <=> e \in Spent(p, t) \/ (e = n + 1 /\ same)
  <2>1. DOMAIN executions' = DOMAIN executions \cup {n + 1}
    BY <1>1 DEF AddsRow
  <2>2. CASE e = n + 1
    <3>1. executions'[e].input = c.input /\ executions'[e].startedAt = c.startedAt
      BY <1>1, <1>2, <2>2 DEF AddsRow
    <3> QED BY <1>3, <2>1, <2>2, <3>1 DEF Spent, Attempts, Owner
  <2>3. CASE e # n + 1
    <3>1. e \in DOMAIN executions => executions'[e] = executions[e]
      BY <1>1 DEF AddsRow
    <3> QED BY <2>1, <2>3, <3>1 DEF Spent, Attempts, Owner
  <2> QED BY <2>2, <2>3
<1>5. CASE ~same
  <2>1. Spent(p, t)' = Spent(p, t)
    BY <1>4, <1>5
  <2> QED BY <2>1 DEF BudgetInv, BudgetIsKept, Spent
<1>6. CASE same
  <2> DEFINE day == Day(q, c.startedAt)
             counted == Counted(executions, q, day, c.seen)
  <2>1. Spent(p, t)' = Spent(p, t) \cup {n + 1}
    BY <1>4, <1>6
  <2>2. Cardinality(Spent(p, t)') = Cardinality(Spent(p, t)) + 1
    BY <1>3, <2>1, FS_AddElement
  <2>3. Spent(p, t) \subseteq counted
    <3>1. \A s : Day(p, s) = Day(q, s)
      BY <1>1, <1>6, SameDays
    <3>2. ASSUME NEW e \in Spent(p, t)
          PROVE  e \in counted
      <4>1. e \in Attempts(q, day) /\ e \in 1..n
        BY <1>1, <1>6, <3>1, <3>2 DEF Spent, Attempts
      <4>2. ~(e \in c.seen + 1 .. n)
        BY <1>1, <4>1 DEF NoPhantom
      <4>3. c.seen \in Nat
        BY <1>1 DEF Call
      <4>4. e <= c.seen
        BY <1>1, <4>1, <4>2, <4>3
      <4> QED BY <4>1, <4>4 DEF Counted, Attempts
    <3> QED BY <3>2
  <2>4. Cardinality(counted) < DailyLimit
    <3>1. Snapshot /\ worker[w].pc = "commit"
      BY <1>1 DEF BudgetInv
    <3> QED BY <3>1 DEF Snapshot
  <2>5. IsFiniteSet(counted) /\ Cardinality(counted) \in Nat
    <3>1. counted \subseteq DOMAIN executions
      BY DEF Counted
    <3> QED BY <1>1, <3>1, RowsFinite, FS_Subset, FS_CardinalityType
  <2> HIDE DEF counted
  <2>6. Cardinality(Spent(p, t)) <= Cardinality(counted)
    BY <2>3, <2>5, FS_Subset
  <2> QED BY <1>3, <2>2, <2>4, <2>5, <2>6, LimitsAssumption
<1> QED BY <1>5, <1>6

LEMMA BudgetInvHolds == Spec => []BudgetInv
<1>1. Init => Snapshot /\ BudgetIsKept
  <2> SUFFICES ASSUME Init PROVE Snapshot /\ BudgetIsKept
    OBVIOUS
  <2>1. \A w \in Workers : worker[w].pc = "idle"
    BY OverCall DEF Init
  <2>2. \A p, t : Spent(p, t) = {}
    BY DEF Init, Spent, Attempts
  <2>3. \A p, t : Cardinality(Spent(p, t)) <= DailyLimit
    BY <2>2, FS_EmptySet, LimitsAssumption
  <2>4. BudgetIsKept
    BY <2>3 DEF BudgetIsKept, Spent
  <2> QED BY <2>1, <2>4 DEF Snapshot
<1>2. CallInv /\ BudgetInv /\ [Next]_vars => Snapshot' /\ BudgetIsKept'
  <2> SUFFICES ASSUME BudgetInv, [Next]_vars PROVE Snapshot' /\ BudgetIsKept'
    OBVIOUS
  <2>1. CallInv /\ Snapshot /\ BudgetIsKept
    BY DEF BudgetInv
  <2>2. ASSUME NEW w \in Workers, Step(w)
        PROVE  Snapshot' /\ BudgetIsKept'
    <3>1. ASSUME NEW p \in DOMAIN UserOf, NEW t \in 0 .. MaxTime
          PROVE  Cardinality(Spent(p, t)') <= DailyLimit
      <4>1. CASE Commits(w)
        BY <2>2, <3>1, <4>1, CommitSpends
      <4>2. CASE ~Commits(w)
        <5>1. Spent(p, t)' = Spent(p, t)
          BY <2>1, <2>2, <4>2, SpentGrows
        <5> QED BY <2>1, <5>1 DEF BudgetIsKept, Spent
      <4> QED BY <4>1, <4>2
    <3>2. BudgetIsKept'
      BY <3>1 DEF BudgetIsKept, Spent
    <3> QED BY <2>1, <2>2, <3>2, StepKeepsSnapshot
  <2>3. CASE UNCHANGED <<executions, events, worker, returned, faults>>
    <3>1. Snapshot'
      BY <2>1, <2>3 DEF Snapshot
    <3>2. \A p, t : Spent(p, t)' = Spent(p, t)
      BY <2>3 DEF Spent, Attempts, Owner
    <3> QED BY <2>1, <3>1, <3>2 DEF BudgetIsKept, Spent
  <2> QED BY <2>1, <2>2, <2>3, StepKinds
<1> QED BY <1>1, <1>2, CallInvHolds, PTL DEF Spec, BudgetInv

\* No day sees more attempts of an owner's projects of one time zone than the
\* daily limit, however calls of both stages race for the last one.
THEOREM BudgetHolds == Spec => []BudgetIsKept
<1>1. BudgetInv => BudgetIsKept
  BY DEF BudgetInv
<1> QED BY <1>1, BudgetInvHolds, PTL

-----------------------------------------------------------------------------
(* One answer for an input                                                   *)

\* An input has one answer, and what was returned for it is that one.
AnswersKept ==
    \A i \in Inputs :
        /\ returned[i] # None => returned[i] \in Found(i)
        /\ \A u, v \in Found(i) : u = v

LEMMA EventsMove ==
    ASSUME CallInv, NEW w \in Workers, Step(w), NEW i \in Inputs
    PROVE  /\ Persists(w) /\ i = worker[w].input =>
                EventsOf(i) = {} /\ EventsOf(i)' = {Len(events) + 1}
           /\ ~(Persists(w) /\ i = worker[w].input) => EventsOf(i)' = EventsOf(i)
<1>1. TypeOK
  BY DEF CallInv
<1>2. CASE events' = events /\ ~Persists(w)
  BY <1>2 DEF EventsOf
<1>3. CASE Persists(w)
  <2>1. /\ EventsOf(worker[w].input) = {} /\ AddsEvent(worker[w])
        /\ DOMAIN events' = DOMAIN events \cup {Len(events) + 1}
        /\ Len(events) + 1 \notin DOMAIN events
    BY <1>3 DEF Persists, AddsEvent
  <2>2. ASSUME NEW v
        PROVE  v \in EventsOf(i)' <=>
                 v \in EventsOf(i) \/ (v = Len(events) + 1 /\ i = worker[w].input)
    BY <2>1 DEF EventsOf, AddsEvent
  <2> QED BY <1>3, <2>1, <2>2
<1> QED BY <1>1, <1>2, <1>3, StepRows

\* The status of a closed row, as w leaves it.
LEMMA ClosedStatus ==
    ASSUME CallInv, NEW w \in Workers, Step(w), ClosesOwn(w)
    PROVE  LET e == worker[w].execution IN
           /\ HeldRow(worker[w], executions)
           /\ executions'[e].input = worker[w].input
           /\ executions'[e].status = "succeeded" =>
                DecidesResult(w) \/ (/\ DecidesEvent(w) \/ Persists(w)
                                     /\ StageOf[worker[w].input] = Interpretation)
           /\ DecidesResult(w) => executions'[e].status = "succeeded"
<1> DEFINE e == worker[w].execution
<1>1. Holds(worker[w]) /\ HeldRow(worker[w], executions)
  BY DEF ClosesOwn, CallInv, CallsSound
<1>2. executions'[e].input = worker[w].input
  BY <1>1 DEF ClosesOwn, ClosesRow, HeldRow
<1>3. executions[e].status = "running" /\ e \in DOMAIN executions
  BY <1>1 DEF HeldRow
<1>4. DecidesResult(w) => executions'[e].status = "succeeded"
  BY DEF DecidesResult, ClosesRow
<1>5. ASSUME executions'[e].status = "succeeded"
      PROVE  DecidesResult(w) \/ (/\ DecidesEvent(w) \/ Persists(w)
                                  /\ StageOf[worker[w].input] = Interpretation)
  <2>1. ~(executions' = executions)
    BY <1>3, <1>5
  <2>2. ~Commits(w)
    BY <1>1 DEF Commits, Holds
  <2>3. ~Fails(w) /\ ~Rejects(w) /\ ~DecidesInsufficient(w)
    BY <1>5 DEF Fails, Rejects, DecidesInsufficient, ClosesRow
  <2> QED BY <2>1, <2>2, <2>3
          DEF Step, Kind, Begins, GoesOn, Ends, Crashes, DecidesEvent, Persists
<1> QED BY <1>1, <1>2, <1>4, <1>5

LEMMA CanonicalMoves ==
    ASSUME CallInv, NEW w \in Workers, Step(w), NEW i \in Inputs,
           StageOf[i] = Detection
    PROVE  /\ DecidesResult(w) /\ i = worker[w].input =>
                Canonical(i) = {} /\ Canonical(i)' = {worker[w].execution}
           /\ ~(DecidesResult(w) /\ i = worker[w].input) =>
                Canonical(i)' = Canonical(i)
<1>1. TypeOK /\ RowsKept(w)
  BY StepRows DEF CallInv
<1>2. DecidesResult(w) => ClosesOwn(w) /\ Canonical(worker[w].input) = {}
  BY DEF DecidesResult, ClosesOwn
<1>3. CASE executions' = executions /\ ~ClosesOwn(w)
  BY <1>2, <1>3 DEF Canonical, AttemptsOf
<1>4. CASE Commits(w)
  <2>1. ~ClosesOwn(w)
    BY <1>4 DEF Commits, ClosesOwn, Holds
  <2> DEFINE row == [input |-> worker[w].input,
                     number |-> NextNumber(worker[w].input),
                     repair |-> worker[w].repair,
                     startedAt |-> worker[w].startedAt,
                     status |-> "running", validation |-> "pending"]
  <2>2. AddsRow(row)
    BY <1>4 DEF Commits
  <2>3. row.status = "running"
    OBVIOUS
  <2> HIDE DEF row
  <2>4. ASSUME NEW e
        PROVE  e \in Canonical(i)' <=> e \in Canonical(i)
    BY <2>2, <2>3 DEF AddsRow, Canonical, AttemptsOf
  <2> QED BY <1>2, <2>1, <2>4
<1>5. CASE ClosesOwn(w)
  <2> DEFINE e == worker[w].execution
  <2>1. /\ HeldRow(worker[w], executions)
        /\ executions'[e].input = worker[w].input
        /\ executions'[e].status = "succeeded" /\ worker[w].input = i =>
             DecidesResult(w)
        /\ DecidesResult(w) => executions'[e].status = "succeeded"
    BY <1>5, ClosedStatus, Stages
  <2>2. /\ DOMAIN executions' = DOMAIN executions
        /\ \A f \in DOMAIN executions : f # e => executions'[f] = executions[f]
    BY <1>5 DEF ClosesOwn, ClosesRow
  <2>3. ASSUME NEW f
        PROVE  f \in Canonical(i)' <=>
                 f \in Canonical(i) \/ (f = e /\ DecidesResult(w) /\ i = worker[w].input)
    <3>1. CASE f = e
      BY <2>1, <2>2, <3>1 DEF HeldRow, Canonical, AttemptsOf
    <3>2. CASE f # e
      BY <2>2, <3>2 DEF Canonical, AttemptsOf
    <3> QED BY <3>1, <3>2
  <2> QED BY <1>2, <2>3
<1> QED BY <1>1, <1>3, <1>4, <1>5, StepRows

LEMMA AnswersMove ==
    ASSUME CallInv, AnswersKept, NEW w \in Workers, Step(w), NEW i \in Inputs
    PROVE  /\ Found(i) \subseteq Found(i)'
           /\ \A u, v \in Found(i)' : u = v
           /\ returned'[i] = returned[i] \/ returned'[i] \in Found(i)'
<1>1. TypeOK /\ worker[w].input \in Inputs /\ returned \in [Inputs -> Nat]
  BY Input DEF CallInv, TypeOK
<1>2. Found(i) \subseteq Found(i)' /\ \A u, v \in Found(i)' : u = v
  <2>1. \A u, v \in Found(i) : u = v
    BY DEF AnswersKept
  <2>2. CASE StageOf[i] = Detection
    <3>1. Found(i) = Canonical(i) /\ Found(i)' = Canonical(i)'
      BY <2>2 DEF Found
    <3> QED BY <2>1, <2>2, <3>1, CanonicalMoves
  <2>3. CASE StageOf[i] # Detection
    <3>1. Found(i) = EventsOf(i) /\ Found(i)' = EventsOf(i)'
      BY <2>3 DEF Found
    <3> QED BY <2>1, <2>3, <3>1, EventsMove
  <2> QED BY <2>2, <2>3
<1>3. \A j \in Inputs : \A v : j # i => [returned EXCEPT ![j] = v][i] = returned[i]
  BY <1>1
<1>4. \A v : [returned EXCEPT ![i] = v][i] = v
  BY <1>1
<1>5. CASE Ends(w)
  BY <1>2, <1>3, <1>4, <1>5 DEF Ends
<1>6. CASE DecidesEvent(w)
  <2>1. Found(worker[w].input) = EventsOf(worker[w].input)
    BY <1>1, <1>6, AnswerKinds DEF DecidesEvent
  <2> QED BY <1>1, <1>2, <1>3, <1>4, <1>6, <2>1 DEF DecidesEvent
<1>7. CASE Persists(w)
  <2>1. CASE i = worker[w].input
    <3>1. Found(i)' = EventsOf(i)'
      BY <1>7, <2>1, Stages DEF Found, Persists
    <3>2. returned'[i] = Len(events) + 1
      BY <1>1, <1>7, <2>1 DEF Persists
    <3>3. EventsOf(i)' = {Len(events) + 1}
      BY <1>7, <2>1, EventsMove
    <3> QED BY <1>2, <3>1, <3>2, <3>3
  <2>2. CASE i # worker[w].input
    BY <1>1, <1>2, <1>3, <1>7, <2>2 DEF Persists
  <2> QED BY <2>1, <2>2
<1>8. CASE DecidesResult(w)
  <2>1. CASE i = worker[w].input
    <3>1. Found(i)' = Canonical(i)' /\ StageOf[i] = Detection
      BY <1>8, <2>1 DEF Found, DecidesResult
    <3>2. returned'[i] = worker[w].execution
      BY <1>1, <1>8, <2>1 DEF DecidesResult
    <3>3. Canonical(i)' = {worker[w].execution}
      BY <1>8, <2>1, <3>1, CanonicalMoves
    <3> QED BY <1>2, <3>1, <3>2, <3>3
  <2>2. CASE i # worker[w].input
    BY <1>1, <1>2, <1>3, <1>8, <2>2 DEF DecidesResult
  <2> QED BY <2>1, <2>2
<1>9. CASE UNCHANGED returned
  BY <1>2, <1>9
<1>10. UNCHANGED returned \/ Ends(w) \/ DecidesEvent(w) \/ Persists(w)
       \/ DecidesResult(w)
  BY DEF Step, Kind, Begins, GoesOn, Crashes, Commits, Fails, Rejects,
         DecidesInsufficient
<1> QED BY <1>2, <1>5, <1>6, <1>7, <1>8, <1>9, <1>10

AnswersInv == CallInv /\ AnswersKept

LEMMA AnswersInvHolds == Spec => []AnswersInv
<1>1. Init => AnswersKept
  <2> SUFFICES ASSUME Init PROVE AnswersKept
    OBVIOUS
  <2>1. \A i \in Inputs : returned[i] = None
    BY DEF Init
  <2>2. \A i : Found(i) = {}
    BY DEF Init, Found, Canonical, AttemptsOf, EventsOf
  <2> QED BY <2>1, <2>2 DEF AnswersKept
<1>2. CallInv /\ AnswersKept /\ [Next]_vars => AnswersKept'
  <2> SUFFICES ASSUME CallInv, AnswersKept, [Next]_vars PROVE AnswersKept'
    OBVIOUS
  <2>1. ASSUME NEW w \in Workers, Step(w)
        PROVE  AnswersKept'
    <3>1. ASSUME NEW i \in Inputs
          PROVE  /\ returned'[i] # None => returned'[i] \in Found(i)'
                 /\ \A u, v \in Found(i)' : u = v
      BY <2>1, AnswersMove DEF AnswersKept
    <3> QED BY <3>1 DEF AnswersKept
  <2>2. CASE UNCHANGED <<executions, events, worker, returned, faults>>
    <3>1. ASSUME NEW i \in Inputs
          PROVE  Found(i)' = Found(i)
      BY <2>2 DEF Found, Canonical, AttemptsOf, EventsOf
    <3> QED BY <2>2, <3>1 DEF AnswersKept
  <2> QED BY <2>1, <2>2, StepKinds
<1> QED BY <1>1, <1>2, CallInvHolds, PTL DEF Spec, AnswersInv

\* All calls for one input return one event, or one canonical result, whichever
\* of them persisted it and whichever lost.
THEOREM AnswersStay == Spec => CallersAgree
<1>1. AnswersInv /\ AnswersInv' /\ [Next]_vars =>
        [\A i \in Inputs : returned[i] # None => returned'[i] = returned[i]]_vars
  <2> SUFFICES ASSUME AnswersInv, AnswersInv', [Next]_vars,
                      NEW i \in Inputs, returned[i] # None
               PROVE  returned'[i] = returned[i]
    OBVIOUS
  <2>1. ASSUME NEW w \in Workers, Step(w)
        PROVE  returned'[i] = returned[i]
    <3>1. returned[i] \in Found(i)
      BY DEF AnswersInv, AnswersKept
    <3> QED BY <2>1, <3>1, AnswersMove DEF AnswersInv
  <2>2. CASE UNCHANGED <<executions, events, worker, returned, faults>>
    BY <2>2
  <2> QED BY <2>1, <2>2, StepKinds DEF AnswersInv
<1> QED BY <1>1, AnswersInvHolds, PTL DEF Spec, CallersAgree

-----------------------------------------------------------------------------
(* Events and results are records                                            *)

\* An event is added for an input that has none; others may cease to be active.
LEMMA EventRecorded ==
    ASSUME CallInv, AnswersKept', NEW w \in Workers, Step(w)
    PROVE  EventRecords!WriteRows /\ EventRecords!GiveWay
<1>1. TypeOK
  BY DEF CallInv
<1>2. CASE events' = events
  BY <1>2 DEF EventRecords!WriteRows, EventRecords!GiveWay, EventRecords!Written
<1>3. CASE Persists(w)
  <2> DEFINE c == worker[w]
             n == Len(events) + 1
  <2>1. /\ DOMAIN events' = DOMAIN events \cup {n} /\ n \notin DOMAIN events
        /\ events'[n].input = c.input
        /\ \A v \in DOMAIN events :
              /\ events'[v].input = events[v].input
              /\ events'[v].supersedes = events[v].supersedes
              /\ events'[v].status = events[v].status \/ events'[v].status = "superseded"
    BY <1>3 DEF Persists, AddsEvent
  <2>2. \A v \in DOMAIN events' : events'[v].input = c.input => v = n
    BY <1>3, <2>1 DEF Persists, EventsOf
  <2> HIDE DEF c, n
  <2>3. EventRecords!Written = {n}
    BY <2>1 DEF EventRecords!Written
  <2>4. EventRecords!WriteRows
    BY <2>1, <2>2, <2>3 DEF EventRecords!WriteRows
  <2>5. EventRecords!GiveWay
    BY <2>1, <2>2, <2>3 DEF EventRecords!GiveWay
  <2> QED BY <2>4, <2>5
<1> QED BY <1>1, <1>2, <1>3, StepRows

LEMMA EventsAnswered ==
    ASSUME AnswersKept'
    PROVE  EventRecords!AnswerCallers
<1> SUFFICES ASSUME NEW i \in InterpreterInputs, returned'[i] # None
             PROVE  returned'[i] \in DOMAIN events' /\ events'[returned'[i]].input = i
  BY DEF EventRecords!AnswerCallers
<1>0. i \in Inputs /\ StageOf[i] = Interpretation
  BY DEF InterpreterInputs
<1>1. returned'[i] \in Found(i)'
  BY <1>0 DEF AnswersKept
<1>2. Found(i)' = EventsOf(i)'
  BY <1>0, Stages DEF Found
<1> QED BY <1>1, <1>2 DEF EventsOf

\* A result is added for an input that has none, and none is ever taken back.
LEMMA ResultRecorded ==
    ASSUME CallInv, CallInv', AnswersKept', NEW w \in Workers, Step(w)
    PROVE  ResultRecords!WriteRows /\ ResultRecords!GiveWay
<1>1. \A e \in DOMAIN executions :
         /\ e \in DOMAIN executions'
         /\ executions'[e].input = executions[e].input
         /\ executions'[e].number = executions[e].number
  BY StepRows DEF CallInv, RowsKept
<1>2. ASSUME NEW i \in Inputs, StageOf[i] = Detection
      PROVE  Canonical(i) \subseteq Canonical(i)'
  BY <1>2, CanonicalMoves
<1>3. CanonicalExecutions \subseteq CanonicalExecutions'
  <2> SUFFICES ASSUME NEW e \in CanonicalExecutions
               PROVE  e \in CanonicalExecutions'
    OBVIOUS
  <2> PICK i : i = executions[e].input
    OBVIOUS
  <2>1. /\ e \in DOMAIN executions /\ StageOf[i] = Detection
        /\ executions[e].status = "succeeded"
    BY DEF CanonicalExecutions
  <2>2. i \in Inputs
    <3>1. executions[e] \in Execution
      BY <2>1, ExecutionRows DEF CallInv
    <3> QED BY <3>1 DEF Execution
  <2>3. e \in Canonical(i)
    BY <2>1 DEF Canonical, AttemptsOf
  <2>4. e \in Canonical(i)'
    BY <1>2, <2>1, <2>2, <2>3
  <2> QED BY <2>1, <2>4 DEF Canonical, AttemptsOf, CanonicalExecutions
<1>4. \A d, e \in CanonicalExecutions' :
         executions'[d].input = executions'[e].input => d = e
  <2>1. SUFFICES ASSUME NEW d \in CanonicalExecutions', NEW e \in CanonicalExecutions',
                        executions'[d].input = executions'[e].input
                 PROVE  d = e
    OBVIOUS
  <2> PICK i : i = executions'[d].input
    OBVIOUS
  <2>2. i \in Inputs /\ StageOf[i] = Detection
    <3>1. d \in DOMAIN executions' /\ StageOf[i] = Detection
      BY DEF CanonicalExecutions
    <3>2. executions' \in Seq(Execution)
      BY DEF CallInv, TypeOK
    <3>3. executions'[d] \in Execution
      BY <3>1, <3>2
    <3> QED BY <3>1, <3>3 DEF Execution
  <2>3. d \in Canonical(i)' /\ e \in Canonical(i)'
    BY <2>1 DEF CanonicalExecutions, Canonical, AttemptsOf
  <2> QED BY <2>2, <2>3 DEF AnswersKept, Found
<1>5. CanonicalExecutions \subseteq DOMAIN executions
  BY DEF CanonicalExecutions
<1>6. ResultRecords!WriteRows
  BY <1>1, <1>3, <1>4, <1>5 DEF ResultRecords!WriteRows, ResultRecords!Written
<1>7. ResultRecords!GiveWay
  BY <1>3, <1>4 DEF ResultRecords!GiveWay, ResultRecords!Written
<1> QED BY <1>6, <1>7

LEMMA ResultsAnswered ==
    ASSUME AnswersKept'
    PROVE  ResultRecords!AnswerCallers
<1> SUFFICES ASSUME NEW i \in DetectorInputs, returned'[i] # None
             PROVE  /\ returned'[i] \in CanonicalExecutions'
                    /\ executions'[returned'[i]].input = i
  BY DEF ResultRecords!AnswerCallers
<1>0. i \in Inputs /\ StageOf[i] = Detection
  BY DEF DetectorInputs
<1>1. returned'[i] \in Found(i)'
  BY <1>0 DEF AnswersKept
<1>2. Found(i)' = Canonical(i)'
  BY <1>0 DEF Found
<1> QED BY <1>0, <1>1, <1>2 DEF Canonical, AttemptsOf, CanonicalExecutions

LEMMA AnswersRecorded ==
    AnswersInv /\ AnswersInv' /\ [Next]_vars
        => EventRecords!RecordsNext /\ ResultRecords!RecordsNext
<1> SUFFICES ASSUME AnswersInv, AnswersInv', [Next]_vars
             PROVE  EventRecords!RecordsNext /\ ResultRecords!RecordsNext
  OBVIOUS
<1>1. CASE \E w \in Workers : Step(w)
  BY <1>1, EventRecorded, EventsAnswered, ResultRecorded, ResultsAnswered
     DEF AnswersInv, EventRecords!RecordsNext, ResultRecords!RecordsNext
<1>2. CASE UNCHANGED <<executions, events, worker, returned, faults>>
  <2>1. EventRecords!WriteRows /\ EventRecords!GiveWay
    BY <1>2 DEF EventRecords!WriteRows, EventRecords!GiveWay, EventRecords!Written
  <2>2. ResultRecords!WriteRows /\ ResultRecords!GiveWay
    BY <1>2 DEF ResultRecords!WriteRows, ResultRecords!GiveWay, ResultRecords!Written,
                CanonicalExecutions
  <2> QED BY <2>1, <2>2, EventsAnswered, ResultsAnswered
          DEF AnswersInv, EventRecords!RecordsNext, ResultRecords!RecordsNext
<1> QED BY <1>1, <1>2, StepKinds DEF AnswersInv

\* Callers agree, and what the two stages persist are records as KeyedRecords
\* states them, however calls race for an input, lose, crash or are repeated.
THEOREM AnswersAreRecords == Spec => ExecutionsImplementRecords
<1>1. Init => EventRecords!RecordsInit
  BY DEF Init, None, EventRecords!RecordsInit, InterpreterInputs
<1>2. Init => ResultRecords!RecordsInit
  BY DEF Init, None, CanonicalExecutions, ResultRecords!RecordsInit, DetectorInputs
<1> QED BY <1>1, <1>2, AnswersInvHolds, AnswersStay, AnswersRecorded, PTL
        DEF Spec, ExecutionsImplementRecords, EventRecords!RecordsSpec,
            ResultRecords!RecordsSpec

\* An event that was superseded is never active again, whichever call persists
\* another event from what it read before.
THEOREM EventsStayFinal == Spec => EventRecords!AnswersAreFinal
<1>1. Spec => EventRecords!RecordsSpec
  BY AnswersAreRecords, PTL DEF ExecutionsImplementRecords
<1> QED BY <1>1, EventRecords!AnswersStayFinal, PTL

-----------------------------------------------------------------------------
(* How rows come and go                                                      *)

\* The attempt that w commits.
LEMMA CommittedRow ==
    ASSUME CallInv, NEW w \in Workers, Commits(w)
    PROVE  LET e == Len(executions) + 1 IN
           /\ DOMAIN executions' = DOMAIN executions \cup {e}
           /\ e \notin DOMAIN executions
           /\ \A f \in DOMAIN executions : executions'[f] = executions[f]
           /\ executions'[e].input = worker[w].input
           /\ executions'[e].number = NextNumber(worker[w].input)
           /\ executions'[e].repair = worker[w].repair
           /\ executions'[e].status = "running"
           /\ executions'[e].validation = "pending"
           /\ worker'[w].execution = e /\ ~Holds(worker[w])
<1> DEFINE e == Len(executions) + 1
           row == [input |-> worker[w].input,
                   number |-> NextNumber(worker[w].input),
                   repair |-> worker[w].repair,
                   startedAt |-> worker[w].startedAt,
                   status |-> "running", validation |-> "pending"]
<1>1. /\ row.input = worker[w].input
      /\ row.number = NextNumber(worker[w].input)
      /\ row.status = "running" /\ row.validation = "pending"
  OBVIOUS
<1>2. row.repair = worker[w].repair
  OBVIOUS
<1>3. AddsRow(row) /\ worker'[w].execution = e /\ ~Holds(worker[w])
  BY DEF Commits, Holds
<1> HIDE DEF row
<1>4. /\ DOMAIN executions' = DOMAIN executions \cup {e}
      /\ e \notin DOMAIN executions /\ executions'[e] = row
      /\ \A f \in DOMAIN executions : executions'[f] = executions[f]
  BY <1>3 DEF AddsRow
<1> QED BY <1>1, <1>2, <1>3, <1>4

\* The attempt that w closes.
LEMMA ClosedRow ==
    ASSUME CallInv, NEW w \in Workers, ClosesOwn(w)
    PROVE  LET e == worker[w].execution IN
           /\ DOMAIN executions' = DOMAIN executions
           /\ \A f \in DOMAIN executions : f # e => executions'[f] = executions[f]
           /\ HeldRow(worker[w], executions)
           /\ executions'[e].input = worker[w].input
           /\ executions'[e].number = executions[e].number
           /\ executions'[e].repair = worker[w].repair
           /\ executions'[e].status \in {"succeeded", "failed", "rejected"}
<1>1. HeldRow(worker[w], executions)
  BY DEF ClosesOwn, CallInv, CallsSound
<1>2. PICK status \in {"succeeded", "failed", "rejected"},
           validation \in {"pending", "invalid", "valid"} :
        ClosesRow(worker[w].execution, status, validation)
  BY DEF ClosesOwn
<1>3. executions'[worker[w].execution].repair = worker[w].repair
  BY <1>1, <1>2 DEF ClosesRow, HeldRow
<1> QED BY <1>1, <1>2, <1>3 DEF ClosesRow, HeldRow

-----------------------------------------------------------------------------
(* The numbers of attempts                                                   *)

\* The attempts of one identity, of the rows xs, up to a row.
UpTo(xs, i, e) == {f \in DOMAIN xs : xs[f].input = i /\ f <= e}

LEMMA UpToKept ==
    ASSUME CallInv, NEW w \in Workers, Step(w), NEW i, NEW e \in DOMAIN executions
    PROVE  UpTo(executions', i, e) = UpTo(executions, i, e)
<1>1. TypeOK /\ RowsKept(w)
  BY StepRows DEF CallInv
<1>2. DOMAIN executions = 1..Len(executions) /\ Len(executions) \in Nat
  BY <1>1, ExecutionRows
<1>3. DOMAIN executions' = 1..Len(executions') /\ Len(executions') \in Nat
  BY <1>1, LenProperties DEF RowsKept
<1>4. \A f : f \in DOMAIN executions' /\ f <= e => f \in DOMAIN executions
  BY <1>2, <1>3
<1>5. ASSUME NEW f
      PROVE  f \in UpTo(executions', i, e) <=> f \in UpTo(executions, i, e)
  BY <1>1, <1>4 DEF RowsKept, UpTo
<1> QED BY <1>5

LEMMA NumbersKept ==
    ASSUME CallInv, AttemptsAreNumbered, NEW w \in Workers, Step(w)
    PROVE  AttemptsAreNumbered'
<1>1. TypeOK /\ RowsKept(w)
  BY StepRows DEF CallInv
<1>2. ASSUME NEW e \in DOMAIN executions
      PROVE  executions'[e].number =
                Cardinality(UpTo(executions', executions'[e].input, e))
  <2>1. /\ executions'[e].input = executions[e].input
        /\ executions'[e].number = executions[e].number
    BY <1>1 DEF RowsKept
  <2>2. {f \in AttemptsOf(executions[e].input) : f <= e} =
            UpTo(executions, executions[e].input, e)
    BY DEF UpTo, AttemptsOf
  <2>3. executions[e].number =
            Cardinality({f \in AttemptsOf(executions[e].input) : f <= e})
    BY DEF AttemptsAreNumbered
  <2> QED BY <2>1, <2>2, <2>3, UpToKept
<1>3. ASSUME Commits(w)
      PROVE  LET e == Len(executions) + 1 IN
             executions'[e].number =
                Cardinality(UpTo(executions', executions'[e].input, e))
  <2> DEFINE e == Len(executions) + 1
             i == worker[w].input
  <2>1. /\ DOMAIN executions' = DOMAIN executions \cup {e}
        /\ e \notin DOMAIN executions
        /\ \A f \in DOMAIN executions : executions'[f] = executions[f]
        /\ executions'[e].input = i
        /\ executions'[e].number = Cardinality(AttemptsOf(i)) + 1
    BY <1>3, CommittedRow DEF NextNumber
  <2>2. DOMAIN executions = 1..Len(executions) /\ Len(executions) \in Nat
    BY <1>1, ExecutionRows
  <2>3. UpTo(executions', i, e) = AttemptsOf(i) \cup {e}
    BY <2>1, <2>2 DEF UpTo, AttemptsOf
  <2>4. IsFiniteSet(AttemptsOf(i)) /\ e \notin AttemptsOf(i)
    <3>1. AttemptsOf(i) \subseteq DOMAIN executions
      BY DEF AttemptsOf
    <3> QED BY <1>1, <2>1, <3>1, RowsFinite, FS_Subset
  <2> QED BY <2>1, <2>3, <2>4, FS_AddElement
<1>4. ASSUME NEW e \in DOMAIN executions'
      PROVE  executions'[e].number =
                Cardinality(UpTo(executions', executions'[e].input, e))
  <2>1. CASE e \in DOMAIN executions
    BY <1>2, <2>1
  <2>2. CASE e \notin DOMAIN executions
    <3>1. Commits(w)
      BY <1>1, <1>4, <2>2, StepRows, ClosedRow
    <3>2. e = Len(executions) + 1
      BY <1>4, <2>2, <3>1, CommittedRow
    <3> QED BY <1>3, <3>1, <3>2
  <2> QED BY <2>1, <2>2
<1>5. \A e \in DOMAIN executions' :
        {f \in AttemptsOf(executions[e].input) : f <= e}' =
            UpTo(executions', executions'[e].input, e)
  BY DEF UpTo, AttemptsOf
<1> QED BY <1>4, <1>5 DEF AttemptsAreNumbered

-----------------------------------------------------------------------------
(* Attempts left running                                                     *)

\* detect looks for the winner's result after it has failed its attempt.
ReloadsAfterFailure ==
    \A w \in Workers :
        worker[w].pc = "reload" /\ worker[w].answer = "result" =>
            /\ worker[w].execution \in DOMAIN executions
            /\ executions[worker[w].execution].status # "running"

\* What OnlyFaultsLeaveRunning counts.
Stray ==
    {e \in DOMAIN executions :
        /\ executions[e].status = "running"
        /\ \A w \in Workers : worker[w].execution # e
        /\ EventsOf(executions[e].input) = {}}

LEMMA ReloadsKept ==
    ASSUME CallInv, ReloadsAfterFailure, NEW w \in Workers, Step(w)
    PROVE  ReloadsAfterFailure'
<1>1. TypeOK /\ RowsKept(w) /\ Others(w)
  BY StepRows DEF CallInv, Step
<1>2. ASSUME NEW v \in Workers, v # w, worker[v].pc = "reload",
             worker[v].answer = "result"
      PROVE  /\ worker[v].execution \in DOMAIN executions'
             /\ executions'[worker[v].execution].status # "running"
  <2>1. /\ worker[v].execution \in DOMAIN executions
        /\ executions[worker[v].execution].status # "running"
    BY <1>2 DEF ReloadsAfterFailure
  <2>2. worker[v].execution # worker[w].execution \/ ~Holds(worker[w])
    BY <2>1 DEF CallInv, CallsSound, HeldRow
  <2> QED BY <1>1, <2>1, <2>2 DEF RowsKept
<1>3. ASSUME worker'[w].pc = "reload", worker'[w].answer = "result"
      PROVE  /\ worker'[w].execution \in DOMAIN executions'
             /\ executions'[worker'[w].execution].status # "running"
  <2>1. ~Holds(worker'[w])
    BY <1>3 DEF Holds
  <2>2. Fails(w)
    BY <1>3, <2>1, OverCall
       DEF Step, Kind, Begins, GoesOn, Ends, Crashes, Commits, Rejects,
           Persists, DecidesInsufficient, DecidesEvent, DecidesResult
  <2>3. /\ worker'[w].execution = worker[w].execution
        /\ ClosesOwn(w)
    BY <1>3, <2>2, OverCall DEF Fails, ClosesOwn
  <2> QED BY <2>3, ClosedRow DEF HeldRow
<1>4. ASSUME NEW v \in Workers, worker'[v].pc = "reload",
             worker'[v].answer = "result"
      PROVE  /\ worker'[v].execution \in DOMAIN executions'
             /\ executions'[worker'[v].execution].status # "running"
  BY <1>1, <1>2, <1>3, <1>4 DEF Others
<1> QED BY <1>4 DEF ReloadsAfterFailure

\* A step strays from no attempt; a crash, from its own.
LEMMA StrayMoves ==
    ASSUME CallInv, ReloadsAfterFailure, NEW w \in Workers, Step(w),
           NEW e \in Stray'
    PROVE  e \in Stray \/ (Crashes(w) /\ e = worker[w].execution)
<1>1. TypeOK /\ RowsKept(w) /\ Others(w) /\ EventsKept
  BY StepRows DEF CallInv, Step
<1>2. /\ e \in DOMAIN executions' /\ executions'[e].status = "running"
      /\ \A v \in Workers : worker'[v].execution # e
      /\ EventsOf(executions[e].input)' = {}
  BY DEF Stray
<1>3. e \in DOMAIN executions
  <2>1. CASE executions' = executions
    BY <1>2, <2>1
  <2>2. CASE ClosesOwn(w)
    BY <1>2, <2>2, ClosedRow
  <2>3. CASE Commits(w)
    BY <1>2, <2>3, CommittedRow
  <2> QED BY <1>1, <2>1, <2>2, <2>3, StepRows
<1>4. ~(ClosesOwn(w) /\ e = worker[w].execution)
  BY <1>2, ClosedRow
<1>5. executions'[e] = executions[e]
  <2>1. CASE executions' = executions
    BY <2>1
  <2>2. CASE ClosesOwn(w)
    BY <1>3, <1>4, <2>2, ClosedRow
  <2>3. CASE Commits(w)
    BY <1>3, <2>3, CommittedRow
  <2> QED BY <1>1, <2>1, <2>2, <2>3, StepRows
<1>6. EventsOf(executions[e].input) = {}
  <2>1. \A v \in DOMAIN events : v \in DOMAIN events' /\ events'[v].input = events[v].input
    BY <1>1 DEF EventsKept
  <2>2. \A v \in DOMAIN events' : events'[v].input # executions[e].input
    BY <1>2, <1>5 DEF EventsOf
  <2> QED BY <2>1, <2>2 DEF EventsOf
<1>7. ASSUME worker[w].execution = e, ~Crashes(w)
      PROVE  FALSE
  <2>1. worker[w].pc \notin Unborn
    BY <1>1, <1>3, <1>7, ExecutionRows DEF CallInv, CallsSound, SoundCall, None
  <2>2. Holds(worker[w])
    <3>1. worker[w] \in Call
      BY <1>1, Input
    <3>2. ~(worker[w].pc = "reload" /\ worker[w].answer = "result")
      BY <1>2, <1>5, <1>7 DEF ReloadsAfterFailure
    <3> QED BY <2>1, <3>1, <3>2 DEF Holds, Call, Unborn
  <2>3. executions[e].input = worker[w].input
    BY <1>7, <2>2 DEF CallInv, CallsSound, HeldRow
  <2>4. ~ClosesOwn(w)
    BY <1>4, <1>7
  <2>5. ~Ends(w)
    BY <1>6, <2>2, <2>3 DEF Ends
  <2>6. ~GoesOn(w)
    BY <1>2, <1>7 DEF GoesOn
  <2>7. ~Commits(w) /\ ~Begins(w)
    BY <2>1 DEF Commits, Begins, Unborn
  <2>8. ~Fails(w) /\ ~Rejects(w) /\ ~DecidesInsufficient(w)
        /\ ~DecidesEvent(w) /\ ~DecidesResult(w) /\ ~Persists(w)
    BY <2>2, <2>4 DEF Fails, Rejects, Persists, DecidesInsufficient,
                      DecidesEvent, DecidesResult, ClosesOwn
  <2> QED BY <1>7, <2>5, <2>6, <2>7, <2>8 DEF Step, Kind
<1>8. CASE worker[w].execution = e
  BY <1>7, <1>8
<1>9. CASE worker[w].execution # e
  <2>1. \A v \in Workers : worker[v].execution # e
    BY <1>1, <1>2, <1>9 DEF Others
  <2> QED BY <1>2, <1>3, <1>5, <1>6, <2>1 DEF Stray
<1> QED BY <1>8, <1>9

\* A set with another element, and a subset of it.
LEMMA OneMore ==
    ASSUME NEW S, IsFiniteSet(S), NEW x, NEW T \in SUBSET (S \cup {x})
    PROVE  /\ IsFiniteSet(T) /\ Cardinality(S) \in Nat /\ Cardinality(T) \in Nat
           /\ Cardinality(T) <= Cardinality(S) + 1
<1>1. /\ IsFiniteSet(S \cup {x})
      /\ Cardinality(S \cup {x}) =
           IF x \in S THEN Cardinality(S) ELSE Cardinality(S) + 1
  BY FS_AddElement
<1>2. /\ IsFiniteSet(T) /\ Cardinality(T) <= Cardinality(S \cup {x})
  BY <1>1, FS_Subset
<1>3. Cardinality(S) \in Nat /\ Cardinality(T) \in Nat
  BY <1>2, FS_CardinalityType
<1>4. CASE x \in S
  BY <1>1, <1>2, <1>3, <1>4
<1>5. CASE x \notin S
  BY <1>1, <1>2, <1>3, <1>5
<1> QED BY <1>4, <1>5

LEMMA StrayBounded ==
    ASSUME CallInv, ReloadsAfterFailure, OnlyFaultsLeaveRunning,
           NEW w \in Workers, Step(w)
    PROVE  OnlyFaultsLeaveRunning'
<1>1. /\ IsFiniteSet(Stray) /\ Cardinality(Stray) \in Nat
      /\ Cardinality(Stray) <= faults /\ faults \in Nat
  <2>1. TypeOK /\ Stray \subseteq DOMAIN executions
    BY DEF CallInv, Stray
  <2>2. Cardinality(Stray) <= faults
    BY DEF OnlyFaultsLeaveRunning, Stray
  <2> QED BY <2>1, <2>2, RowsFinite, FS_Subset, FS_CardinalityType DEF TypeOK
<1>2. Cardinality(Stray') <= faults'
  <2>1. CASE Crashes(w)
    <3> DEFINE e == worker[w].execution
    <3>1. Stray' \subseteq Stray \cup {e} /\ faults' = faults + 1
      BY <2>1, StrayMoves DEF Crashes
    <3> HIDE DEF e
    <3>2. Cardinality(Stray') <= Cardinality(Stray) + 1 /\ Cardinality(Stray') \in Nat
      BY <1>1, <3>1, OneMore
    <3> QED BY <1>1, <3>1, <3>2
  <2>2. CASE ~Crashes(w)
    <3>1. Stray' \subseteq Stray
      BY <2>2, StrayMoves
    <3>2. faults' = faults
      BY <2>2 DEF Step, Kind, Begins, GoesOn, Ends, Commits, Fails, Rejects,
                  Persists, DecidesInsufficient, DecidesEvent, DecidesResult
    <3>3. Cardinality(Stray') <= Cardinality(Stray) /\ Cardinality(Stray') \in Nat
      BY <1>1, <3>1, FS_Subset, FS_CardinalityType
    <3> QED BY <1>1, <3>2, <3>3
  <2> QED BY <2>1, <2>2
<1> QED BY <1>2 DEF OnlyFaultsLeaveRunning, Stray

-----------------------------------------------------------------------------
(* Superseded events                                                         *)

\* A later event stands for v.
StandsFor(u, v, vs) ==
    /\ v < u
    /\ vs[u].status # "rejected"
    /\ ProjectOf[vs[u].input] = ProjectOf[vs[v].input]
    /\ EvidenceOf[vs[v].input] \subseteq EvidenceOf[vs[u].input]

LEMMA SupersededKept ==
    ASSUME CallInv, SupersededIsContained, NEW w \in Workers, Step(w)
    PROVE  SupersededIsContained'
<1>1. TypeOK /\ EventsKept
  BY StepRows DEF CallInv
<1>2. CASE events' = events
  BY <1>2 DEF SupersededIsContained
<1>3. CASE Persists(w)
  <2> DEFINE c == worker[w]
             n == Len(events) + 1
  <2>1. /\ AddsEvent(c) /\ c.pc = "write" /\ SoundReplacement(c, events)
        /\ StageOf[c.input] = Interpretation /\ c.input \in Inputs
        /\ SoundCall(c)
    BY <1>1, <1>3, Input DEF Persists, CallInv, CallsSound
  <2>2. /\ DOMAIN events' = DOMAIN events \cup {n} /\ n \notin DOMAIN events
        /\ events'[n].input = c.input /\ events'[n].status = c.answer
        /\ \A v \in DOMAIN events :
              /\ events'[v].input = events[v].input
              /\ events'[v].status = events[v].status
                 \/ (v \in c.superseded /\ events'[v].status = "superseded")
    BY <2>1 DEF AddsEvent
  <2>3. \A v \in DOMAIN events : v < n /\ v # n
    BY <1>1, ExecutionRows
  <2>4. c.answer # "superseded"
    BY <2>1, AnswerKinds DEF SoundCall
  <2>5. ASSUME NEW v \in DOMAIN events, v \in c.superseded
        PROVE  StandsFor(n, v, events')
    <3>1. c.answer = "active"
      BY <2>1, <2>5 DEF SoundCall
    <3>2. /\ ProjectOf[events[v].input] = ProjectOf[c.input]
          /\ EvidenceOf[events[v].input] \subseteq EvidenceOf[c.input]
      BY <2>1, <2>5 DEF SoundReplacement
    <3> QED BY <2>2, <2>3, <2>5, <3>1, <3>2 DEF StandsFor
  <2>6. ASSUME NEW v \in DOMAIN events, events[v].status = "superseded"
        PROVE  \E u \in DOMAIN events' : StandsFor(u, v, events')
    <3>1. PICK u \in DOMAIN events : StandsFor(u, v, events)
      BY <2>6 DEF SupersededIsContained, StandsFor
    <3>2. events'[u].status # "rejected"
      BY <2>2, <3>1 DEF StandsFor
    <3>3. StandsFor(u, v, events')
      BY <2>2, <3>1, <3>2 DEF StandsFor
    <3> QED BY <2>2, <3>3
  <2>7. ASSUME NEW v \in DOMAIN events', events'[v].status = "superseded"
        PROVE  \E u \in DOMAIN events' : StandsFor(u, v, events')
    <3>1. v \in DOMAIN events
      BY <2>2, <2>4, <2>7
    <3> QED BY <2>2, <2>5, <2>6, <2>7, <3>1
  <2> QED BY <2>7 DEF SupersededIsContained, StandsFor
<1> QED BY <1>1, <1>2, <1>3, StepRows

-----------------------------------------------------------------------------
(* Repairs                                                                   *)

\* The repairs of an input, its first attempts with an invalid output, and the
\* calls about to commit a repair.
Repairs(i) == {e \in AttemptsOf(i) : executions[e].repair}
InvalidFirsts(i) ==
    {e \in AttemptsOf(i) : /\ ~executions[e].repair
                           /\ executions[e].validation = "invalid"}
OwedRepairs(i) ==
    {w \in Workers : /\ worker[w].input = i /\ worker[w].repair
                     /\ worker[w].pc \in {"start", "commit"}}

RepairsBounded ==
    \A i \in Inputs :
        Cardinality(Repairs(i)) + Cardinality(OwedRepairs(i))
            <= Cardinality(InvalidFirsts(i))

LEMMA InvalidFirstsGrow ==
    ASSUME CallInv, NEW w \in Workers, Step(w), NEW i \in Inputs
    PROVE  InvalidFirsts(i) \subseteq InvalidFirsts(i)'
<1>1. RowsKept(w)
  BY StepRows DEF CallInv
<1>2. ASSUME NEW e \in InvalidFirsts(i)
      PROVE  e \in InvalidFirsts(i)'
  <2>1. /\ e \in DOMAIN executions /\ executions[e].input = i
        /\ ~executions[e].repair /\ executions[e].validation = "invalid"
    BY <1>2 DEF InvalidFirsts, AttemptsOf
  <2>2. e # worker[w].execution \/ ~Holds(worker[w])
    BY <2>1 DEF CallInv, CallsSound, HeldRow
  <2>3. e \in DOMAIN executions' /\ executions'[e] = executions[e]
    BY <1>1, <2>1, <2>2 DEF RowsKept
  <2> QED BY <2>1, <2>3 DEF InvalidFirsts, AttemptsOf
<1> QED BY <1>2

\* Only a commit adds a repair.
LEMMA RepairsMove ==
    ASSUME CallInv, NEW w \in Workers, Step(w), NEW i \in Inputs
    PROVE  /\ ~Commits(w) \/ worker[w].input # i \/ ~worker[w].repair =>
                Repairs(i)' = Repairs(i)
           /\ Commits(w) => Repairs(i)' \subseteq Repairs(i) \cup {Len(executions) + 1}
<1>1. CASE executions' = executions /\ ~Commits(w)
  BY <1>1 DEF Repairs, AttemptsOf
<1>2. CASE ClosesOwn(w)
  <2> DEFINE e == worker[w].execution
  <2>1. /\ DOMAIN executions' = DOMAIN executions
        /\ \A f \in DOMAIN executions : f # e => executions'[f] = executions[f]
        /\ executions'[e].input = executions[e].input
    BY <1>2, ClosedRow DEF HeldRow
  <2>2. executions'[e].repair = executions[e].repair
    BY <1>2, ClosedRow DEF HeldRow
  <2>3. ~Commits(w)
    BY <1>2 DEF ClosesOwn, Commits, Holds
  <2>4. ASSUME NEW f
        PROVE  f \in Repairs(i)' <=> f \in Repairs(i)
    BY <2>1, <2>2 DEF Repairs, AttemptsOf
  <2> QED BY <2>3, <2>4
<1>3. CASE Commits(w)
  <2> DEFINE e == Len(executions) + 1
  <2>1. /\ DOMAIN executions' = DOMAIN executions \cup {e}
        /\ e \notin DOMAIN executions
        /\ \A f \in DOMAIN executions : executions'[f] = executions[f]
        /\ executions'[e].input = worker[w].input
    BY <1>3, CommittedRow
  <2>2. executions'[e].repair = worker[w].repair
    BY <1>3, CommittedRow
  <2>3. ASSUME NEW f, f # e
        PROVE  f \in Repairs(i)' <=> f \in Repairs(i)
    BY <2>1, <2>3 DEF Repairs, AttemptsOf
  <2>4. e \in Repairs(i)' => worker[w].input = i /\ worker[w].repair
    BY <2>1, <2>2 DEF Repairs, AttemptsOf
  <2>5. e \notin Repairs(i)
    BY <2>1 DEF Repairs, AttemptsOf
  <2> HIDE DEF e
  <2>6. Repairs(i)' \subseteq Repairs(i) \cup {e}
    BY <2>3
  <2>7. ASSUME worker[w].input # i \/ ~worker[w].repair
        PROVE  Repairs(i)' = Repairs(i)
    <3>1. e \notin Repairs(i)'
      BY <2>4, <2>7
    <3> QED BY <2>3, <2>5, <3>1
  <2> QED BY <1>3, <2>6, <2>7 DEF e
<1>4. TypeOK
  BY DEF CallInv
<1> QED BY <1>1, <1>2, <1>3, <1>4, StepRows

\* Only a rejection owes a repair, and a commit pays it.
LEMMA OwedMoves ==
    ASSUME CallInv, NEW w \in Workers, Step(w), NEW i \in Inputs
    PROVE  /\ OwedRepairs(i)' \subseteq OwedRepairs(i) \cup {w}
           /\ w \in OwedRepairs(i)' /\ w \notin OwedRepairs(i) =>
                Rejects(w) /\ worker[w].input = i /\ ~worker[w].repair
           /\ Commits(w) => w \notin OwedRepairs(i)'
           /\ Commits(w) /\ worker[w].input = i /\ worker[w].repair =>
                w \in OwedRepairs(i)
<1>1. OwedRepairs(i)' \subseteq OwedRepairs(i) \cup {w}
  BY DEF Step, Others, OwedRepairs
<1>2. ASSUME w \in OwedRepairs(i)', w \notin OwedRepairs(i)
      PROVE  Rejects(w) /\ worker[w].input = i /\ ~worker[w].repair
  <2>1. worker'[w].input = i /\ worker'[w].repair
        /\ worker'[w].pc \in {"start", "commit"}
    BY <1>2 DEF OwedRepairs
  <2>2. ~GoesOn(w)
    BY <1>2, <2>1 DEF GoesOn, OwedRepairs
  <2>3. Rejects(w)
    BY <2>1, <2>2, OverCall
       DEF Step, Kind, Begins, Ends, Crashes, Commits, Fails, Persists,
           DecidesInsufficient, DecidesEvent, DecidesResult
  <2> QED BY <2>1, <2>3, OverCall DEF Rejects
<1>3. Commits(w) => w \notin OwedRepairs(i)'
  BY DEF Commits, OwedRepairs
<1>4. Commits(w) /\ worker[w].input = i /\ worker[w].repair => w \in OwedRepairs(i)
  BY DEF Commits, OwedRepairs
<1> QED BY <1>1, <1>2, <1>3, <1>4

LEMMA RejectionCounts ==
    ASSUME CallInv, NEW w \in Workers, Rejects(w), ~worker[w].repair,
           NEW i, worker[w].input = i
    PROVE  /\ worker[w].execution \notin InvalidFirsts(i)
           /\ worker[w].execution \in InvalidFirsts(i)'
<1> DEFINE e == worker[w].execution
<1>1. ClosesOwn(w)
  BY DEF Rejects, ClosesOwn
<1>2. /\ HeldRow(worker[w], executions) /\ e \in DOMAIN executions'
      /\ executions'[e].input = worker[w].input
  BY <1>1, ClosedRow DEF HeldRow
<1>3. executions'[e].repair = worker[w].repair
  BY <1>1, ClosedRow
<1>4. executions'[e].validation = "invalid"
  BY DEF Rejects, ClosesRow
<1>5. e \notin InvalidFirsts(i)
  BY <1>2 DEF HeldRow, InvalidFirsts
<1>6. worker[w].execution \in InvalidFirsts(i)'
  BY <1>2, <1>3, <1>4 DEF InvalidFirsts, AttemptsOf
<1> QED BY <1>5, <1>6

LEMMA RepairSetsFinite ==
    ASSUME TypeOK, NEW i
    PROVE  /\ IsFiniteSet(Repairs(i)) /\ Cardinality(Repairs(i)) \in Nat
           /\ IsFiniteSet(OwedRepairs(i)) /\ Cardinality(OwedRepairs(i)) \in Nat
           /\ IsFiniteSet(InvalidFirsts(i)) /\ Cardinality(InvalidFirsts(i)) \in Nat
<1>1. /\ Repairs(i) \subseteq DOMAIN executions
      /\ InvalidFirsts(i) \subseteq DOMAIN executions
      /\ OwedRepairs(i) \subseteq Workers
  BY DEF Repairs, InvalidFirsts, OwedRepairs, AttemptsOf
<1> QED BY <1>1, RowsFinite, LimitsAssumption, FS_Subset, FS_CardinalityType

LEMMA RepairsStayBounded ==
    ASSUME CallInv, CallInv', RepairsBounded, NEW w \in Workers, Step(w)
    PROVE  RepairsBounded'
<1>1. TypeOK /\ TypeOK'
  BY DEF CallInv
<1>2. ASSUME NEW i \in Inputs
      PROVE  Cardinality(Repairs(i)') + Cardinality(OwedRepairs(i)')
                <= Cardinality(InvalidFirsts(i)')
  <2> DEFINE r == Cardinality(Repairs(i))
             o == Cardinality(OwedRepairs(i))
             f == Cardinality(InvalidFirsts(i))
             rr == Cardinality(Repairs(i)')
             oo == Cardinality(OwedRepairs(i)')
             ff == Cardinality(InvalidFirsts(i)')
  <2>1. /\ r \in Nat /\ o \in Nat /\ f \in Nat
        /\ IsFiniteSet(Repairs(i)) /\ IsFiniteSet(OwedRepairs(i))
        /\ IsFiniteSet(InvalidFirsts(i))
    BY <1>1, RepairSetsFinite
  <2>2. /\ rr \in Nat /\ oo \in Nat /\ ff \in Nat
        /\ IsFiniteSet(OwedRepairs(i)') /\ IsFiniteSet(InvalidFirsts(i)')
    <3>1. executions' \in Seq(Execution)
      BY <1>1 DEF TypeOK
    <3>2. IsFiniteSet(DOMAIN executions')
      BY <3>1, LenProperties, FS_Interval
    <3>3. /\ Repairs(i)' \subseteq DOMAIN executions'
          /\ InvalidFirsts(i)' \subseteq DOMAIN executions'
          /\ OwedRepairs(i)' \subseteq Workers
      BY DEF Repairs, InvalidFirsts, OwedRepairs, AttemptsOf
    <3> QED BY <3>2, <3>3, LimitsAssumption, FS_Subset, FS_CardinalityType
  <2>3. r + o <= f
    BY DEF RepairsBounded
  <2>4. f <= ff
    BY <1>2, <2>2, InvalidFirstsGrow, FS_Subset
  <2>5. CASE Commits(w) /\ worker[w].input = i /\ worker[w].repair
    <3>1. /\ Repairs(i)' \subseteq Repairs(i) \cup {Len(executions) + 1}
          /\ OwedRepairs(i)' \subseteq OwedRepairs(i) \ {w}
          /\ w \in OwedRepairs(i)
      BY <1>2, <2>5, RepairsMove, OwedMoves
    <3>2. rr <= r + 1
      BY <2>1, <3>1, OneMore
    <3>3. /\ IsFiniteSet(OwedRepairs(i) \ {w})
          /\ Cardinality(OwedRepairs(i) \ {w}) = o - 1
      BY <2>1, <3>1, FS_RemoveElement
    <3>4. oo <= o - 1
      BY <3>1, <3>3, FS_Subset
    <3> QED BY <2>1, <2>2, <2>3, <2>4, <3>2, <3>4
  <2>6. CASE ~(Commits(w) /\ worker[w].input = i /\ worker[w].repair)
    <3>1. rr = r
      BY <1>2, <2>6, RepairsMove
    <3>2. CASE w \in OwedRepairs(i)' /\ w \notin OwedRepairs(i)
      <4> DEFINE e == worker[w].execution
      <4>1. Rejects(w) /\ worker[w].input = i /\ ~worker[w].repair
        BY <1>2, <3>2, OwedMoves
      <4>2. e \notin InvalidFirsts(i) /\ e \in InvalidFirsts(i)'
        BY <4>1, RejectionCounts
      <4>3. InvalidFirsts(i) \cup {e} \subseteq InvalidFirsts(i)'
        BY <1>2, <4>2, InvalidFirstsGrow
      <4>4. OwedRepairs(i)' \subseteq OwedRepairs(i) \cup {w}
        BY <1>2, OwedMoves
      <4> HIDE DEF e
      <4>5. Cardinality(InvalidFirsts(i) \cup {e}) = f + 1
        BY <2>1, <4>2, FS_AddElement
      <4>6. f + 1 <= ff
        BY <2>2, <4>3, <4>5, FS_Subset
      <4>7. oo <= o + 1
        BY <2>1, <4>4, OneMore
      <4> QED BY <2>1, <2>2, <2>3, <3>1, <4>6, <4>7
    <3>3. CASE ~(w \in OwedRepairs(i)' /\ w \notin OwedRepairs(i))
      <4>1. OwedRepairs(i)' \subseteq OwedRepairs(i)
        BY <1>2, <3>3, OwedMoves
      <4>2. oo <= o
        BY <2>1, <4>1, FS_Subset
      <4> QED BY <2>1, <2>2, <2>3, <2>4, <3>1, <4>2
    <3> QED BY <3>2, <3>3
  <2> QED BY <2>5, <2>6
<1> QED BY <1>2 DEF RepairsBounded

-----------------------------------------------------------------------------
(* Decisions                                                                 *)

DecidedOf(i) == {e \in AttemptsOf(i) : Decided(e)}

\* The calls that may still decide an input: not those about to find an earlier
\* decision.
MayDecide(i) ==
    {w \in Workers :
        /\ worker[w].input = i /\ worker[w].pc # "idle"
        /\ worker[w].pc = "decided" => InsufficientDecisions(i) = {}}

\* Once an input is decided, every call that may decide it again is one of
\* those that were asking, and a later call finds the decision.
DecisionsBounded ==
    \A i \in Inputs :
        /\ DecidedOf(i) # {} =>
             Cardinality(DecidedOf(i)) + Cardinality(MayDecide(i))
                 <= Cardinality(Workers)
        /\ StageOf[i] = Detection => InsufficientDecisions(i) = {}
        /\ StageOf[i] = Interpretation /\ DecidedOf(i) # {} =>
             EventsOf(i) # {} \/ InsufficientDecisions(i) # {}

Decides(w) ==
    DecidesInsufficient(w) \/ DecidesEvent(w) \/ DecidesResult(w) \/ Persists(w)

LEMMA DecidesCloses ==
    ASSUME CallInv, NEW w \in Workers, Decides(w)
    PROVE  /\ ClosesOwn(w) /\ worker'[w] = NoCall(AnyInput)
           /\ worker[w].pc \notin {"idle", "decided"}
BY DEF Decides, DecidesInsufficient, DecidesEvent, DecidesResult, Persists,
       ClosesOwn, Holds

\* A row that is closed without a decision is not decided.
LEMMA ClosedUndecided ==
    ASSUME CallInv, NEW w \in Workers, Step(w), ClosesOwn(w), ~Decides(w)
    PROVE  LET e == worker[w].execution IN
           \/ executions'[e].status \notin {"succeeded", "rejected"}
           \/ executions'[e].validation # "valid"
<1> DEFINE e == worker[w].execution
<1>1. /\ executions[e].status = "running"
      /\ executions'[e].status \in {"succeeded", "failed", "rejected"}
      /\ Holds(worker[w])
  BY ClosedRow DEF HeldRow, ClosesOwn
<1>2. executions' # executions
  BY <1>1
<1>3. Fails(w) \/ Rejects(w)
  BY <1>1, <1>2 DEF Step, Kind, Begins, GoesOn, Ends, Crashes, Commits, Holds,
                    Decides
<1> QED BY <1>3 DEF Fails, Rejects, ClosesRow

LEMMA DecidedMoves ==
    ASSUME CallInv, NEW w \in Workers, Step(w), NEW i \in Inputs
    PROVE  /\ Decides(w) /\ worker[w].input = i =>
                DecidedOf(i)' \subseteq DecidedOf(i) \cup {worker[w].execution}
           /\ ~(Decides(w) /\ worker[w].input = i) =>
                DecidedOf(i)' = DecidedOf(i)
           /\ InsufficientDecisions(i) \subseteq InsufficientDecisions(i)'
           /\ InsufficientDecisions(i)' # InsufficientDecisions(i) =>
                DecidesInsufficient(w) /\ worker[w].input = i
<1>1. TypeOK
  BY DEF CallInv
<1>2. CASE executions' = executions
  <2>1. ~Decides(w)
    <3>1. executions' = executions => ~ClosesOwn(w)
      BY ClosedRow DEF HeldRow
    <3> QED BY <1>2, <3>1, DecidesCloses
  <2> QED BY <1>2, <2>1 DEF DecidedOf, Decided, InsufficientDecisions, AttemptsOf
<1>3. CASE Commits(w)
  <2> DEFINE e == Len(executions) + 1
  <2>1. /\ DOMAIN executions' = DOMAIN executions \cup {e}
        /\ \A f \in DOMAIN executions : executions'[f] = executions[f]
        /\ executions'[e].status = "running" /\ ~Holds(worker[w])
    BY <1>3, CommittedRow
  <2>2. ~Decides(w)
    BY <2>1, DecidesCloses DEF ClosesOwn
  <2>3. ASSUME NEW f
        PROVE  /\ f \in DecidedOf(i)' <=> f \in DecidedOf(i)
               /\ f \in InsufficientDecisions(i)' <=> f \in InsufficientDecisions(i)
    BY <2>1 DEF DecidedOf, Decided, InsufficientDecisions, AttemptsOf
  <2> QED BY <2>2, <2>3
<1>4. CASE ClosesOwn(w)
  <2> DEFINE e == worker[w].execution
  <2>1. /\ DOMAIN executions' = DOMAIN executions
        /\ \A f \in DOMAIN executions : f # e => executions'[f] = executions[f]
        /\ HeldRow(worker[w], executions)
        /\ executions'[e].input = worker[w].input
    BY <1>4, ClosedRow
  <2>2. ASSUME NEW f, f # e
        PROVE  /\ f \in DecidedOf(i)' <=> f \in DecidedOf(i)
               /\ f \in InsufficientDecisions(i)' <=> f \in InsufficientDecisions(i)
    BY <2>1, <2>2 DEF DecidedOf, Decided, InsufficientDecisions, AttemptsOf
  <2>3. e \notin DecidedOf(i) /\ e \notin InsufficientDecisions(i)
    BY <2>1 DEF HeldRow, DecidedOf, Decided, InsufficientDecisions
  <2>4. e \in DecidedOf(i)' => Decides(w) /\ worker[w].input = i
    BY <1>4, <2>1, ClosedUndecided DEF DecidedOf, Decided, AttemptsOf
  <2>5. e \in InsufficientDecisions(i)' => DecidesInsufficient(w) /\ worker[w].input = i
    <3>1. ASSUME e \in InsufficientDecisions(i)'
          PROVE  DecidesInsufficient(w) /\ worker[w].input = i
      <4>1. /\ executions'[e].status = "rejected"
            /\ executions'[e].validation = "valid"
            /\ executions'[e].input = i
        BY <3>1 DEF InsufficientDecisions, Decided, AttemptsOf
      <4>2. Decides(w)
        BY <1>4, <4>1, ClosedUndecided
      <4>3. ~DecidesEvent(w) /\ ~DecidesResult(w) /\ ~Persists(w)
        BY <4>1 DEF DecidesEvent, DecidesResult, Persists, ClosesRow
      <4> QED BY <2>1, <4>1, <4>2, <4>3 DEF Decides
    <3> QED BY <3>1
  <2> HIDE DEF e
  <2>6. DecidedOf(i)' \subseteq DecidedOf(i) \cup {e}
    BY <2>2
  <2>7. ASSUME ~(Decides(w) /\ worker[w].input = i)
        PROVE  DecidedOf(i)' = DecidedOf(i)
    BY <2>2, <2>3, <2>4, <2>7
  <2>8. InsufficientDecisions(i) \subseteq InsufficientDecisions(i)'
    BY <2>2, <2>3
  <2>9. ASSUME ~(DecidesInsufficient(w) /\ worker[w].input = i)
        PROVE  InsufficientDecisions(i)' = InsufficientDecisions(i)
    BY <2>2, <2>3, <2>5, <2>9
  <2> QED BY <2>6, <2>7, <2>8, <2>9 DEF e
<1> QED BY <1>1, <1>2, <1>3, <1>4, StepRows

LEMMA DecidedFinite ==
    ASSUME TypeOK, NEW i
    PROVE  /\ IsFiniteSet(DecidedOf(i)) /\ Cardinality(DecidedOf(i)) \in Nat
           /\ IsFiniteSet(MayDecide(i)) /\ Cardinality(MayDecide(i)) \in Nat
           /\ Cardinality(Workers) \in Nat
<1>1. DecidedOf(i) \subseteq DOMAIN executions /\ MayDecide(i) \subseteq Workers
  BY DEF DecidedOf, AttemptsOf, MayDecide
<1> QED BY <1>1, RowsFinite, LimitsAssumption, FS_Subset, FS_CardinalityType

\* Of a decided input, no call comes to those that may decide it.
LEMMA NoNewDecider ==
    ASSUME CallInv, DecisionsBounded, NEW w \in Workers, Step(w),
           NEW i \in Inputs, DecidedOf(i) # {}
    PROVE  MayDecide(i)' \subseteq MayDecide(i)
<1>1. Others(w) /\ InsufficientDecisions(i) \subseteq InsufficientDecisions(i)'
  BY DecidedMoves DEF Step
<1>2. ASSUME NEW v \in MayDecide(i)', v # w
      PROVE  v \in MayDecide(i)
  BY <1>1, <1>2 DEF MayDecide, Others
<1>3. ASSUME w \in MayDecide(i)'
      PROVE  w \in MayDecide(i)
  <2>1. /\ worker'[w].input = i /\ worker'[w].pc # "idle"
        /\ worker'[w].pc = "decided" => InsufficientDecisions(i) = {}
    BY <1>1, <1>3 DEF MayDecide
  <2>2. ~Begins(w)
    <3>1. CASE StageOf[i] = Detection
      <4>1. Canonical(i) # {}
        <5>1. PICK e \in DecidedOf(i) : TRUE
          OBVIOUS
        <5>2. e \notin InsufficientDecisions(i)
          BY <3>1 DEF DecisionsBounded
        <5> QED BY <5>1, <5>2
            DEF DecidedOf, Decided, InsufficientDecisions, Canonical, AttemptsOf
      <4> QED BY <2>1, <3>1, <4>1, Stages DEF Begins
    <3>2. CASE StageOf[i] = Interpretation
      <4>1. EventsOf(i) # {} \/ InsufficientDecisions(i) # {}
        BY <3>2 DEF DecisionsBounded
      <4> QED BY <2>1, <3>2, <4>1, Stages DEF Begins
    <3> QED BY <3>1, <3>2, Stages
  <2>3. CASE GoesOn(w)
    BY <2>1, <2>3 DEF GoesOn, MayDecide
  <2>4. CASE Commits(w)
    BY <2>1, <2>4 DEF Commits, MayDecide
  <2>5. CASE Fails(w) \/ Rejects(w)
    BY <2>1, <2>5, OverCall DEF Fails, Rejects, MayDecide, Holds
  <2> QED BY <2>1, <2>2, <2>3, <2>4, <2>5, OverCall
      DEF Step, Kind, Ends, Crashes, Persists, DecidesInsufficient,
          DecidesEvent, DecidesResult
<1> QED BY <1>2, <1>3

\* An input that is decided keeps what it was decided with.
LEMMA DecisionsFound ==
    ASSUME CallInv, DecisionsBounded, NEW w \in Workers, Step(w),
           NEW i \in Inputs
    PROVE  /\ StageOf[i] = Detection => InsufficientDecisions(i)' = {}
           /\ StageOf[i] = Interpretation /\ DecidedOf(i)' # {} =>
                EventsOf(i)' # {} \/ InsufficientDecisions(i)' # {}
<1>1. StageOf[i] = Detection => InsufficientDecisions(i)' = {}
  <2>1. InsufficientDecisions(i)' # InsufficientDecisions(i) =>
          StageOf[i] = Interpretation
    BY DecidedMoves DEF DecidesInsufficient
  <2> QED BY <2>1, Stages DEF DecisionsBounded
<1>2. ASSUME StageOf[i] = Interpretation, DecidedOf(i)' # {}
      PROVE  EventsOf(i)' # {} \/ InsufficientDecisions(i)' # {}
  <2>1. EventsOf(i) # {} => EventsOf(i)' # {}
    BY EventsMove
  <2>2. InsufficientDecisions(i) \subseteq InsufficientDecisions(i)'
    BY DecidedMoves
  <2>3. CASE DecidedOf(i) # {}
    BY <1>2, <2>1, <2>2, <2>3 DEF DecisionsBounded
  <2>4. CASE DecidedOf(i) = {}
    <3>1. Decides(w) /\ worker[w].input = i
      BY <1>2, <2>4, DecidedMoves
    <3>2. CASE DecidesEvent(w)
      BY <2>1, <3>1, <3>2 DEF DecidesEvent
    <3>3. CASE Persists(w)
      BY <3>1, <3>3, EventsMove
    <3>4. CASE DecidesInsufficient(w)
      <4> DEFINE e == worker[w].execution
      <4>1. ClosesOwn(w)
        BY <3>1, DecidesCloses
      <4>2. /\ e \in DOMAIN executions' /\ executions'[e].input = i
            /\ executions'[e].status = "rejected"
            /\ executions'[e].validation = "valid"
        BY <3>1, <3>4, <4>1, ClosedRow
           DEF HeldRow, DecidesInsufficient, ClosesRow
      <4>3. e \in InsufficientDecisions(i)'
        BY <4>2 DEF InsufficientDecisions, Decided, AttemptsOf
      <4> QED BY <4>3
    <3>5. ~DecidesResult(w)
      BY <1>2, <3>1, Stages DEF DecidesResult
    <3> QED BY <3>1, <3>2, <3>3, <3>4, <3>5 DEF Decides
  <2> QED BY <2>3, <2>4
<1> QED BY <1>1, <1>2

LEMMA DecisionsStayBounded ==
    ASSUME CallInv, CallInv', DecisionsBounded, NEW w \in Workers, Step(w)
    PROVE  DecisionsBounded'
<1>1. TypeOK /\ TypeOK'
  BY DEF CallInv
<1>2. ASSUME NEW i \in Inputs, DecidedOf(i)' # {}
      PROVE  Cardinality(DecidedOf(i)') + Cardinality(MayDecide(i)')
                <= Cardinality(Workers)
  <2> DEFINE d == Cardinality(DecidedOf(i))
             m == Cardinality(MayDecide(i))
             dd == Cardinality(DecidedOf(i)')
             mm == Cardinality(MayDecide(i)')
             n == Cardinality(Workers)
  <2>1. /\ IsFiniteSet(DecidedOf(i)) /\ d \in Nat
        /\ IsFiniteSet(MayDecide(i)) /\ m \in Nat /\ n \in Nat
    BY <1>1, DecidedFinite
  <2>2. IsFiniteSet(DecidedOf(i)') /\ dd \in Nat
        /\ IsFiniteSet(MayDecide(i)') /\ mm \in Nat
    <3>1. IsFiniteSet(DOMAIN executions')
      <4>1. executions' \in Seq(Execution)
        BY <1>1 DEF TypeOK
      <4> QED BY <4>1, LenProperties, FS_Interval
    <3>2. /\ DecidedOf(i)' \subseteq DOMAIN executions'
          /\ MayDecide(i)' \subseteq Workers
      BY DEF DecidedOf, AttemptsOf, MayDecide
    <3> QED BY <3>1, <3>2, LimitsAssumption, FS_Subset, FS_CardinalityType
  <2>3. CASE Decides(w) /\ worker[w].input = i
    <3>1. DecidedOf(i)' \subseteq DecidedOf(i) \cup {worker[w].execution}
      BY <1>2, <2>3, DecidedMoves
    <3>2. dd <= d + 1
      BY <2>1, <3>1, OneMore
    <3>3. w \notin MayDecide(i)'
      BY <2>3, DecidesCloses, OverCall DEF MayDecide
    <3>4. CASE DecidedOf(i) = {}
      <4>1. d = 0
        BY <3>4, FS_EmptySet
      <4>2. MayDecide(i)' \subseteq Workers \ {w}
        BY <3>3 DEF MayDecide
      <4>3. /\ IsFiniteSet(Workers \ {w})
            /\ Cardinality(Workers \ {w}) = n - 1
        BY LimitsAssumption, FS_RemoveElement
      <4>4. mm <= n - 1
        BY <4>2, <4>3, FS_Subset
      <4> QED BY <2>1, <2>2, <3>2, <4>1, <4>4
    <3>5. CASE DecidedOf(i) # {}
      <4>1. w \in MayDecide(i)
        BY <2>3, DecidesCloses DEF MayDecide
      <4>2. MayDecide(i)' \subseteq MayDecide(i) \ {w}
        BY <1>2, <3>3, <3>5, NoNewDecider
      <4>3. /\ IsFiniteSet(MayDecide(i) \ {w})
            /\ Cardinality(MayDecide(i) \ {w}) = m - 1
        BY <2>1, <4>1, FS_RemoveElement
      <4>4. mm <= m - 1
        BY <4>2, <4>3, FS_Subset
      <4>5. d + m <= n
        BY <3>5 DEF DecisionsBounded
      <4> QED BY <2>1, <2>2, <3>2, <4>4, <4>5
    <3> QED BY <3>4, <3>5
  <2>4. CASE ~(Decides(w) /\ worker[w].input = i)
    <3>1. DecidedOf(i)' = DecidedOf(i)
      BY <1>2, <2>4, DecidedMoves
    <3>2. mm <= m
      BY <1>2, <2>1, <3>1, NoNewDecider, FS_Subset
    <3>3. d + m <= n
      BY <1>2, <3>1 DEF DecisionsBounded
    <3> QED BY <2>1, <2>2, <3>1, <3>2, <3>3
  <2> QED BY <2>3, <2>4
<1> QED BY <1>2, DecisionsFound DEF DecisionsBounded

-----------------------------------------------------------------------------
(* The audit of the model calls                                              *)

SoundnessInv ==
    /\ AttemptsAreNumbered
    /\ ReloadsAfterFailure /\ OnlyFaultsLeaveRunning
    /\ SupersededIsContained
    /\ RepairsBounded
    /\ DecisionsBounded

LEMMA SoundnessStarts == Init => SoundnessInv
<1> SUFFICES ASSUME Init PROVE SoundnessInv
  OBVIOUS
<1>1. /\ executions = <<>> /\ events = <<>> /\ faults = 0
      /\ \A w \in Workers : worker[w].pc = "idle"
  BY OverCall DEF Init
<1>2. AttemptsAreNumbered /\ ReloadsAfterFailure /\ SupersededIsContained
  BY <1>1 DEF AttemptsAreNumbered, ReloadsAfterFailure, SupersededIsContained
<1>3. Stray = {}
  BY <1>1 DEF Stray
<1>4. OnlyFaultsLeaveRunning
  <2>1. Cardinality(Stray) <= faults
    BY <1>1, <1>3, FS_EmptySet
  <2> QED BY <2>1 DEF OnlyFaultsLeaveRunning, Stray
<1>5. \A i : Repairs(i) = {} /\ OwedRepairs(i) = {} /\ InvalidFirsts(i) = {}
             /\ DecidedOf(i) = {} /\ InsufficientDecisions(i) = {}
  BY <1>1 DEF Repairs, OwedRepairs, InvalidFirsts, DecidedOf,
              InsufficientDecisions, AttemptsOf
<1>6. RepairsBounded
  BY <1>5, FS_EmptySet DEF RepairsBounded
<1>7. DecisionsBounded
  BY <1>5 DEF DecisionsBounded
<1> QED BY <1>2, <1>4, <1>6, <1>7 DEF SoundnessInv

LEMMA SoundnessKept == CallInv /\ CallInv' /\ SoundnessInv /\ [Next]_vars => SoundnessInv'
<1> SUFFICES ASSUME CallInv, CallInv', SoundnessInv, [Next]_vars
             PROVE  SoundnessInv'
  OBVIOUS
<1>1. ASSUME NEW w \in Workers, Step(w)
      PROVE  SoundnessInv'
  BY <1>1, NumbersKept, ReloadsKept, StrayBounded, SupersededKept,
     RepairsStayBounded, DecisionsStayBounded DEF SoundnessInv
<1>2. CASE UNCHANGED <<executions, events, worker, returned, faults>>
  <2>1. AttemptsAreNumbered' /\ ReloadsAfterFailure' /\ SupersededIsContained'
    BY <1>2 DEF SoundnessInv, AttemptsAreNumbered, AttemptsOf,
                ReloadsAfterFailure, SupersededIsContained
  <2>2. Stray' = Stray
    BY <1>2 DEF Stray, EventsOf
  <2>3. OnlyFaultsLeaveRunning'
    BY <1>2, <2>2 DEF SoundnessInv, OnlyFaultsLeaveRunning, Stray
  <2>4. ASSUME NEW i
        PROVE  /\ Repairs(i)' = Repairs(i) /\ OwedRepairs(i)' = OwedRepairs(i)
               /\ InvalidFirsts(i)' = InvalidFirsts(i)
               /\ DecidedOf(i)' = DecidedOf(i) /\ EventsOf(i)' = EventsOf(i)
               /\ InsufficientDecisions(i)' = InsufficientDecisions(i)
               /\ MayDecide(i)' = MayDecide(i)
    BY <1>2 DEF Repairs, OwedRepairs, InvalidFirsts, DecidedOf, Decided,
                InsufficientDecisions, MayDecide, AttemptsOf, EventsOf
  <2>5. RepairsBounded'
    BY <2>4 DEF SoundnessInv, RepairsBounded
  <2>6. DecisionsBounded'
    BY <2>4 DEF SoundnessInv, DecisionsBounded
  <2> QED BY <2>1, <2>3, <2>5, <2>6 DEF SoundnessInv
<1> QED BY <1>1, <1>2, StepKinds

LEMMA SoundnessHolds == CallInv /\ SoundnessInv => ExecutionsAreSound
<1> SUFFICES ASSUME CallInv, SoundnessInv PROVE ExecutionsAreSound
  OBVIOUS
<1>1. TypeOK
  BY DEF CallInv
<1>2. ASSUME NEW i \in Inputs
      PROVE  Cardinality(DecidedOf(i)) <= Cardinality(Workers)
  <2>1. /\ Cardinality(DecidedOf(i)) \in Nat /\ Cardinality(MayDecide(i)) \in Nat
        /\ Cardinality(Workers) \in Nat
    BY <1>1, DecidedFinite
  <2>2. CASE DecidedOf(i) = {}
    BY <2>1, <2>2, FS_EmptySet
  <2>3. CASE DecidedOf(i) # {}
    BY <1>2, <2>1, <2>3 DEF SoundnessInv, DecisionsBounded
  <2> QED BY <2>2, <2>3
<1>3. DecisionsAreReused
  BY <1>2 DEF DecisionsAreReused, DecidedOf
<1>4. ASSUME NEW i \in Inputs
      PROVE  Cardinality(Repairs(i)) <= Cardinality(InvalidFirsts(i))
  BY <1>1, <1>4, RepairSetsFinite DEF SoundnessInv, RepairsBounded
<1>5. RepairsAreOwed
  BY <1>4 DEF RepairsAreOwed, Repairs, InvalidFirsts
<1> QED BY <1>3, <1>5 DEF SoundnessInv, ExecutionsAreSound

\* The audit of the model calls can be relied on: attempts are numbered without
\* gaps, only calls that raced for the first decision decide again, a repair is
\* owed to an invalid first output, only a fault leaves an attempt running, and
\* a later event has all the evidence of a superseded one.
THEOREM AuditIsSound == Spec => []ExecutionsAreSound
<1>1. Init => SoundnessInv
  BY SoundnessStarts
<1>2. CallInv /\ CallInv' /\ SoundnessInv /\ [Next]_vars => SoundnessInv'
  BY SoundnessKept
<1>3. CallInv /\ SoundnessInv => ExecutionsAreSound
  BY SoundnessHolds
<1> QED BY <1>1, <1>2, <1>3, CallInvHolds, PTL DEF Spec
=============================================================================
