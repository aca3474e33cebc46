----------------------------- MODULE MCIngestion -----------------------------
(* A small instance of Ingestion on its own.                                  *)
EXTENDS Ingestion, TLC

CONSTANTS a1, a2

\* The last commit is in the second run's window only.
CommitDates == <<1, 3, 4>>
TwoWindows == <<3, 4>>

IngesterSymmetry == Permutations(Ingesters)
=============================================================================
