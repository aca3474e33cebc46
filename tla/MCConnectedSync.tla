--------------------------- MODULE MCConnectedSync ---------------------------
(* The sync runs of repositories, and the connections by which projects come  *)
(* to them. SyncRuns connects and disconnects in one step; Connections is     *)
(* what happens inside. A behaviour is about one of them, its focus.          *)
EXTENDS MCSyncRuns, Connections

CONSTANTS w1, w2

\* Two projects of one of two users.
ProjectOwners == [p1 |-> "u1", p2 |-> "u1"]

VARIABLE focus

ConnectedSyncInit == focus \in {"runs", "connections"} /\ Init /\ ConnectionsInit

ConnectedSyncNext ==
    \/ focus = "runs" /\ Next /\ UNCHANGED <<focus, connectionsVars>>
    \/ focus = "connections" /\ ConnectionsNext /\ UNCHANGED <<focus, vars>>

ConnectedSyncSpec ==
    ConnectedSyncInit /\ [][ConnectedSyncNext]_<<focus, vars, connectionsVars>>
=============================================================================
