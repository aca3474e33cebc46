------------------------- MODULE MCIntelligenceRuns -------------------------
(* Small instances of IntelligenceRuns.                                       *)
EXTENDS IntelligenceRuns, TLC

CONSTANTS w1, w2

\* One version everywhere, or the first process of the old and the second of
\* the new version.
OneVersion  == [w \in Workers |-> 1]
TwoVersions == [w \in Workers |-> IF w = w1 THEN 1 ELSE 2]

\* Workers of one version are interchangeable.
WorkerSymmetry == Permutations(Workers)
=============================================================================
