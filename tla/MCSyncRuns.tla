----------------------------- MODULE MCSyncRuns -----------------------------
(* Small instances of SyncRuns; the times are counted in units of a minute   *)
(* shrunk so that each deadline can pass and can be missed.                   *)
EXTENDS SyncRuns, TLC

\* Workers are interchangeable: no action or safety property names one.
WorkerSymmetry == Permutations(Workers)
=============================================================================
