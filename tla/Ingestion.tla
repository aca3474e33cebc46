----------------------------- MODULE Ingestion -----------------------------
(* The work of a sync attempt: executePrepared() of the commit sync. An       *)
(* attempt lists the branch in the window of its run, stores the commits that *)
(* are new, marks those that left the branch, then stores pull requests, and  *)
(* ends the run in a write fenced by its lease token. What comes before that  *)
(* write is not fenced: an attempt whose lease was taken over, or whose run   *)
(* ended, still writes. The queue itself is SyncRuns.                         *)
EXTENDS Integers, Sequences, FiniteSets, FiniteSetsExt

CONSTANTS
    Ingesters,      \* attempts at work at a time
    Shas,           \* commits 1..n of the branch, older ones first
    CommittedAt,
    WindowEnds,     \* of the runs, in their order
    WindowOverlap,
    FirstStart,     \* start of the first window
    MaxTokens,      \* bound on the attempts of a run
    MaxPushes,      \* bound on changes of the branch and the pull request
    MaxBreaks       \* bound on attempts that fail or die

ASSUME IngestionAssumption ==
    /\ Shas \subseteq Nat /\ IsFiniteSet(Shas)
    /\ \A c \in Shas : CommittedAt[c] \in Nat
    /\ WindowEnds \in Seq(Nat) \ {<<>>}
    /\ {WindowOverlap, FirstStart, MaxTokens, MaxPushes, MaxBreaks} \subseteq Nat

VARIABLES
    branch,         \* commits of the default branch
    gone,           \* history: commits that left it at some time
    merged,         \* revision of the merged pull request; 0 before the merge
    commit,         \* GitHubCommit rows
    pull,           \* revision in the GitHubPullRequest row; 0 when there is none
    boundary,       \* lastSuccessfulSyncAt
    syncRun,        \* the newest SyncRun
    attempt,
    overlapped,     \* history: two attempts were at work at once
    pushes,
    breaks

githubVars == <<branch, gone, merged, pushes>>
evidenceVars == <<commit, pull>>
ingestionVars == <<githubVars, evidenceVars, boundary, syncRun, attempt,
                   overlapped, breaks>>

NoBoundary == -1

Commit == [status : {"absent", "reachable", "orphaned"},
           run : 0 .. Cardinality(DOMAIN WindowEnds)]

Run(n, start) == [number |-> n, status |-> "queued", start |-> start, token |-> 0,
                  discovered |-> 0, inserted |-> 0]

\* Between its steps an attempt holds its run's window and token, what it
\* listed, what it has to store and its counters.
NoAttempt == [pc |-> "idle", number |-> 0, start |-> 0, token |-> 0,
              discovered |-> 0, inserted |-> 0, listing |-> {}, new |-> {},
              revision |-> 0, alone |-> TRUE]

IngestionInit ==
    /\ branch = {}
    /\ gone = {}
    /\ merged = 0
    /\ commit = [c \in Shas |-> [status |-> "absent", run |-> 0]]
    /\ pull = 0
    /\ boundary = NoBoundary
    /\ syncRun = Run(1, FirstStart)
    /\ attempt = [w \in Ingesters |-> NoAttempt]
    /\ overlapped = FALSE
    /\ pushes = 0
    /\ breaks = 0

-----------------------------------------------------------------------------
(* Helpers *)

Larger(a, b) == IF a > b THEN a ELSE b

Stored == {c \in Shas : commit[c].status # "absent"}

InWindow(w, c) ==
    CommittedAt[c] \in attempt[w].start .. WindowEnds[attempt[w].number]

HoldsLease(w) ==
    /\ syncRun.number = attempt[w].number
    /\ syncRun.status = "running"
    /\ syncRun.token = attempt[w].token

GoTo(w, label) == attempt' = [attempt EXCEPT ![w].pc = label]

EndAttempt(w) == attempt' = [attempt EXCEPT ![w] = NoAttempt]

\* A write of commits by w: the other attempts no longer have them to themselves.
AttemptWrites(w, update) ==
    attempt' = [v \in Ingesters |-> IF v = w THEN update
                                            ELSE [attempt[v] EXCEPT !.alone = FALSE]]

-----------------------------------------------------------------------------
(* The queue, as far as an attempt depends on it *)

\* The next run's window begins before the boundary of the last success.
NextRun ==
    /\ syncRun.status \in {"succeeded", "failed_terminal"}
    /\ syncRun.number + 1 \in DOMAIN WindowEnds
    /\ syncRun' = Run(syncRun.number + 1,
                      IF boundary = NoBoundary THEN FirstStart
                                               ELSE boundary - WindowOverlap)
    /\ UNCHANGED <<githubVars, evidenceVars, boundary, attempt, overlapped, breaks>>

\* A worker claims the run: a queued one, a failed one to be tried again, or one
\* whose lease expired. The counters are those of the row.
ClaimRun(w) ==
    /\ attempt[w].pc = "idle"
    /\ syncRun.status \in {"queued", "failed_retryable", "running"}
    /\ syncRun.token < MaxTokens
    /\ syncRun' = [syncRun EXCEPT !.status = "running", !.token = @ + 1]
    /\ attempt' = [attempt EXCEPT ![w] =
          [NoAttempt EXCEPT !.pc = "list", !.number = syncRun.number,
             !.start = syncRun.start, !.token = syncRun'.token,
             !.discovered = syncRun.discovered, !.inserted = syncRun.inserted]]
    /\ overlapped' = (overlapped \/ \E v \in Ingesters : attempt[v].pc # "idle")
    /\ UNCHANGED <<githubVars, evidenceVars, boundary, breaks>>

-----------------------------------------------------------------------------
(* executePrepared() *)

ListCommits(w) ==
    LET listing == {c \in branch : InWindow(w, c)} IN
    /\ attempt[w].pc = "list"
    /\ attempt' = [attempt EXCEPT ![w] =
          [attempt[w] EXCEPT
             !.pc = "find", !.listing = listing, !.alone = TRUE,
             !.discovered = Larger(@, Cardinality(listing))]]
    /\ UNCHANGED <<githubVars, evidenceVars, boundary, syncRun, overlapped, breaks>>

\* The look-up of the commits there are; the details of the others are fetched.
FindCommits(w) ==
    /\ attempt[w].pc = "find"
    /\ attempt' = [attempt EXCEPT ![w] =
          [@ EXCEPT !.pc = "store", !.new = attempt[w].listing \ Stored]]
    /\ UNCHANGED <<githubVars, evidenceVars, boundary, syncRun, overlapped, breaks>>

\* Only a row that was created is counted.
Counted(c) == c \notin Stored

\* persistCommit of the next new commit, newest first; a unique violation says
\* that another attempt stored it.
StoreCommit(w) ==
    LET c == Max(attempt[w].new) IN
    /\ attempt[w].pc = "store"
    /\ attempt[w].new # {}
    /\ commit' = IF c \in Stored THEN commit
                 ELSE [commit EXCEPT ![c] =
                         [status |-> "reachable", run |-> attempt[w].number]]
    /\ AttemptWrites(w, [attempt[w] EXCEPT
                           !.new = @ \ {c},
                           !.inserted = @ + (IF Counted(c) THEN 1 ELSE 0)])
    /\ UNCHANGED <<githubVars, pull, boundary, syncRun, overlapped, breaks>>

\* Slip: an interrupted loop counts as finished.
StoringEnds(w) == TRUE

AllStored(w) == attempt[w].new = {}

\* Commits of the window the listing does not have.
Unlisted(w) == {c \in Shas \ attempt[w].listing : InWindow(w, c)}

Reach(S, from, to) ==
    commit' = [c \in Shas |-> IF c \in S /\ commit[c].status = from
                              THEN [commit[c] EXCEPT !.status = to]
                              ELSE commit[c]]

\* The first statement of updateReachability.
MarkOrphans(w) ==
    /\ attempt[w].pc = "store"
    /\ AllStored(w)
    /\ Reach(Unlisted(w), "reachable", "orphaned")
    /\ AttemptWrites(w, [attempt[w] EXCEPT !.pc = "clear", !.new = {}])
    /\ UNCHANGED <<githubVars, pull, boundary, syncRun, overlapped, breaks>>

Listed(w) == attempt[w].listing

\* The second one: listed commits are within reach again.
ClearOrphans(w) ==
    /\ attempt[w].pc = "clear"
    /\ Reach(Listed(w), "orphaned", "reachable")
    /\ AttemptWrites(w, [attempt[w] EXCEPT !.pc = "pulls"])
    /\ UNCHANGED <<githubVars, pull, boundary, syncRun, overlapped, breaks>>

\* The pull requests of the window, with their files and commits.
ListPulls(w) ==
    /\ attempt[w].pc = "pulls"
    /\ attempt' = [attempt EXCEPT ![w] = [@ EXCEPT !.pc = "merge", !.revision = merged]]
    /\ UNCHANGED <<githubVars, evidenceVars, boundary, syncRun, overlapped, breaks>>

\* persistPullRequest replaces the row and all that hangs on it, in one commit.
StorePull(w) ==
    /\ attempt[w].pc = "merge"
    /\ pull' = IF attempt[w].revision = 0 THEN pull ELSE attempt[w].revision
    /\ GoTo(w, "finish")
    /\ UNCHANGED <<githubVars, commit, boundary, syncRun, overlapped, breaks>>

\* CHECK ("commitsInserted" <= "commitsDiscovered")
RowAccepted(w) == attempt[w].inserted <= attempt[w].discovered

\* The run ends, and the boundary moves with it.
FinishRun(w) ==
    /\ attempt[w].pc = "finish"
    /\ HoldsLease(w)
    /\ RowAccepted(w)
    /\ syncRun' = [syncRun EXCEPT !.status = "succeeded",
                     !.discovered = attempt[w].discovered,
                     !.inserted = attempt[w].inserted]
    /\ boundary' = WindowEnds[attempt[w].number]
    /\ EndAttempt(w)
    /\ UNCHANGED <<githubVars, evidenceVars, overlapped, breaks>>

\* SYNC_CANCELLED; or the counters are refused, to the failure's write too: the
\* run is left running until its lease expires.
FinishRefused(w) ==
    /\ attempt[w].pc = "finish"
    /\ ~(HoldsLease(w) /\ RowAccepted(w))
    /\ EndAttempt(w)
    /\ UNCHANGED <<githubVars, evidenceVars, boundary, syncRun, overlapped, breaks>>

\* GitHub or the database fails a step: the fenced write of the catch block.
AttemptFailed(w) ==
    /\ attempt[w].pc # "idle"
    /\ breaks < MaxBreaks
    /\ breaks' = breaks + 1
    /\ \/ /\ HoldsLease(w)
          /\ RowAccepted(w)
          /\ \E status \in {"failed_retryable", "failed_terminal"} :
               syncRun' = [syncRun EXCEPT !.status = status,
                             !.discovered = attempt[w].discovered,
                             !.inserted = attempt[w].inserted]
       \/ /\ ~(HoldsLease(w) /\ RowAccepted(w))
          /\ UNCHANGED syncRun
    /\ EndAttempt(w)
    /\ UNCHANGED <<githubVars, evidenceVars, boundary, overlapped>>

\* The process dies, or its last write is lost.
AttemptDies(w) ==
    /\ attempt[w].pc # "idle"
    /\ breaks < MaxBreaks
    /\ breaks' = breaks + 1
    /\ EndAttempt(w)
    /\ UNCHANGED <<githubVars, evidenceVars, boundary, syncRun, overlapped>>

-----------------------------------------------------------------------------
(* GitHub meanwhile *)

\* A commit is pushed, which may be long after its date.
Push(c) ==
    /\ pushes < MaxPushes
    /\ c \notin branch
    /\ branch' = branch \cup {c}
    /\ pushes' = pushes + 1
    /\ UNCHANGED <<gone, merged, evidenceVars, boundary, syncRun, attempt,
                   overlapped, breaks>>

\* The branch is rewritten without a commit.
Rewrite(c) ==
    /\ pushes < MaxPushes
    /\ c \in branch
    /\ branch' = branch \ {c}
    /\ gone' = gone \cup {c}
    /\ pushes' = pushes + 1
    /\ UNCHANGED <<merged, evidenceVars, boundary, syncRun, attempt, overlapped, breaks>>

\* The pull request is merged, or edited afterwards.
Merge ==
    /\ pushes < MaxPushes
    /\ merged' = merged + 1
    /\ pushes' = pushes + 1
    /\ UNCHANGED <<branch, gone, evidenceVars, boundary, syncRun, attempt,
                   overlapped, breaks>>

IngestionStep(w) ==
    \/ ListCommits(w) \/ FindCommits(w) \/ StoreCommit(w)
    \/ MarkOrphans(w) \/ ClearOrphans(w)
    \/ ListPulls(w) \/ StorePull(w)
    \/ FinishRun(w) \/ FinishRefused(w)

IngestionNext ==
    \/ NextRun
    \/ \E w \in Ingesters :
         ClaimRun(w) \/ IngestionStep(w) \/ AttemptFailed(w) \/ AttemptDies(w)
    \/ \E c \in Shas : Push(c) \/ Rewrite(c)
    \/ Merge

IngestionSpec == IngestionInit /\ [][IngestionNext]_ingestionVars

-----------------------------------------------------------------------------
(* Properties *)

\* Type correctness; the CHECK on the counters is part of a row's type.
IngestionTypeOK ==
    /\ branch \subseteq Shas /\ gone \subseteq Shas
    /\ commit \in [Shas -> Commit]
    /\ pull \in 0 .. merged
    /\ syncRun.number \in DOMAIN WindowEnds
    /\ syncRun.token \in 0 .. MaxTokens
    /\ syncRun.inserted \in 0 .. syncRun.discovered
    /\ \A w \in Ingesters : attempt[w].new \subseteq attempt[w].listing

\* commitsInserted of a run never exceeds the commits it stored, whatever
\* became of its attempts.
CountersAreEarned ==
    syncRun.inserted <= Cardinality({c \in Shas : commit[c].run = syncRun.number})

\* An attempt comes to its last write only with everything it listed stored,
\* although rows another attempt stored are skipped.
ListedIsStored ==
    \A w \in Ingesters : attempt[w].pc = "finish" =>
        /\ attempt[w].listing \subseteq Stored
        /\ attempt[w].revision > 0 => pull > 0

\* As long as attempts do not overlap, a stored commit is only taken for
\* unreachable when it did leave the branch: not because a window, a failed
\* attempt or a later run did not list it.
NoFalseOrphans ==
    overlapped \/ \A c \in Shas : commit[c].status = "orphaned" => c \in gone

\* When an attempt comes to its last write and no other wrote commits since it
\* listed the branch, the commits of its window within reach are those it
\* listed: what an overtaken attempt got wrong is made good.
SuccessReflectsBranch ==
    \A w \in Ingesters : (attempt[w].pc = "finish" /\ attempt[w].alone) =>
        {c \in Shas : commit[c].status = "reachable" /\ InWindow(w, c)}
            = attempt[w].listing

\* What the table demands of an attempt's last write: no more commits inserted
\* than discovered.
InsertedWithinDiscovered ==
    \A w \in Ingesters : attempt[w].pc = "finish" => RowAccepted(w)

\* The stored evidence and the counters follow the branch, for all that
\* attempts die, overlap, or go on after they lost their lease.
EvidenceFollowsBranch ==
    /\ SuccessReflectsBranch
    /\ NoFalseOrphans
    /\ ListedIsStored
    /\ CountersAreEarned
=============================================================================
