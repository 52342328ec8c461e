---------------------------- MODULE TrunkRegistry ----------------------------
(***************************************************************************)
(* What a forwarder's registry of accepted trunks promises, without        *)
(* connections, messages or timers: under each trunk ID a process holds at *)
(* most one connection, a held ID is never given to another connection     *)
(* before it is released, and one connection never holds two IDs.          *)
(* Module Trunking implements it with runningServersTrunkMap.              *)
(***************************************************************************)
CONSTANTS Procs,      \* forwarder processes
          TrunkIds,   \* trunk IDs
          Conns,      \* connections
          NoConn      \* no connection

VARIABLE holder       \* process -> trunk ID -> the connection that holds it

Init == holder = [p \in Procs |-> [t \in TrunkIds |-> NoConn]]

(* A connection takes an ID nobody holds. *)
Take(p, t, c) ==
    /\ holder[p][t] = NoConn
    /\ \A u \in TrunkIds : holder[p][u] # c
    /\ holder' = [holder EXCEPT ![p][t] = c]

(* Some IDs are given up together: a lost connection, a monitor pass that  *)
(* drops several unresponsive trunks, a restart.                           *)
Release(p) ==
    \E S \in SUBSET TrunkIds :
        holder' = [holder EXCEPT ![p] =
                      [t \in TrunkIds |-> IF t \in S THEN NoConn ELSE holder[p][t]]]

Next == \E p \in Procs : \/ Release(p)
                         \/ \E t \in TrunkIds, c \in Conns : Take(p, t, c)

Spec == Init /\ [][Next]_holder
=============================================================================
