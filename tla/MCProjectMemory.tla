--------------------------- MODULE MCProjectMemory ---------------------------
(* Liveness of intelligence runs and of the project memory they keep. A run   *)
(* projects in one step of IntelligenceRuns; ProjectMemory is what happens    *)
(* inside. A behaviour is about one of them, its focus.                       *)
EXTENDS MCIntelligenceRuns, ProjectMemory

\* A feature starts, a milestone, the feature is completed, another milestone
\* by a merged pull request.
FourTypes == <<"feature_started", "project_milestone",
               "feature_completed", "project_milestone">>
OneFeature == <<{"f"}, {}, {"f"}, {}>>
Dates == <<0, 1, 1, 2>>
SharedCommits == <<{"a"}, {"b"}, {"b"}, {"a"}>>

VARIABLE focus

OnRuns == focus = "runs" /\ UNCHANGED <<focus, memoryVars>>
OnMemory == focus = "memory" /\ UNCHANGED <<focus, vars>>

MemoryRunsInit == focus \in {"runs", "memory"} /\ Init /\ MemoryInit

MemoryRunsNext ==
    \/ OnRuns /\ Next
    \/ OnMemory /\ MemoryNext

\* The fairness of both specifications, for the one in focus.
MemoryRunsSpec ==
    /\ MemoryRunsInit
    /\ [][MemoryRunsNext]_<<focus, vars, memoryVars>>
    /\ WF_vars(OnRuns /\ Tick)
    /\ \A w \in Workers : WF_vars(OnRuns /\ WorkerStep(w))
    /\ \A p \in Projectors : WF_memoryVars(OnMemory /\ ProjectStep(p))
=============================================================================
