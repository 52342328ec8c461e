---------------------------- MODULE MCForwarding ----------------------------
(* Small instances of Forwarding for TLC. *)
EXTENDS Forwarding, TLC

CONSTANTS r1, r2,    \* SNMP requests
          t1, t2,    \* trunk IDs
          c1, c2,    \* connections
          p1, p2     \* SNMP peers

Informs == [r \in Reqs |-> "inform"]
CommandAndInform == [r \in Reqs |-> IF r = r1 THEN "command" ELSE "inform"]

Mixed == [r \in Reqs |-> IF r = r1 THEN <<t1, t2>> ELSE <<t1>>]
OneTrunk == [r \in Reqs |-> <<t1>>]

OnePeer == [t \in Trunks |-> <<p1>>]
OnePeerOnce == [t \in Trunks |-> IF t = t1 THEN <<p1>> ELSE <<>>]

ClientDials == [t \in Trunks |-> "client"]
EitherDials == [t \in Trunks |-> IF t = t1 THEN "server" ELSE "client"]

ConnSymmetry == Permutations(Conns)
=============================================================================
