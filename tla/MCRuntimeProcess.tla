-------------------------- MODULE MCRuntimeProcess --------------------------
(* Instances of RuntimeProcess, and statements about it that are checked     *)
(* with smaller bounds, under FairSpec; the README says what they show.      *)
EXTENDS RuntimeProcess

(* A socket that is lost is given up to the end.                             *)
DisconnectEnds ==
    \A c \in Connections : conn[c].lost ~> (worker[c].at = "ended" \/ closing)

(* The entry of a request leaves the table: its place is free again.         *)
RequestEnds ==
    \A c \in Connections, q \in RequestIds :
        running[c][q] # None ~> (running[c][q] = None \/ closing)

(* "control keeps serving the sending and disconnecting of the sessions      *)
(* there are" (runtime_process.py:795): a child that is asked to stop does   *)
(* so by itself.  TLC finds it violated.                                     *)
ShutdownDrains == closing ~> ~childAlive

(* The drained state of tests/test_population_service_isolation_gate.py:6,   *)
(* which wait_for_process_drain waits for before a shutdown: a parent at     *)
(* rest has no pending command, request, send or envelope, and all credit    *)
(* back.  TLC finds it violated: the barrier of an envelope whose worker was *)
(* cancelled stays.                                                          *)
IdleIsDrained ==
    childAlive /\ ~closing /\ Quiet =>
        pending = {} /\ Requests = {} /\ sends = {} /\ barriers = {} /\ credit = Capacity
=============================================================================
