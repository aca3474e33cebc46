------------------------- MODULE MCOpportunityRuns -------------------------
(* Small instances of OpportunityRuns.                                     *)
EXTENDS OpportunityRuns, TLC

CONSTANTS w1, w2

\* All processes of one version, or one of the old and one of the new.
OneVersion  == [w \in Workers |-> 1]
TwoVersions == [w \in Workers |-> IF w = w1 THEN 1 ELSE 2]

WorkerSymmetry == Permutations(Workers)
=============================================================================
