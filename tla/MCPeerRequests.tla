--------------------------- MODULE MCPeerRequests ---------------------------
(* A small instance of PeerRequests for TLC: a command to two peers with   *)
(* plugins of two modules, a command with two plugins of the one that      *)
(* takes notes, an INFORM without plugins, a trap, and a command without a *)
(* route.                                                                  *)
EXTENDS PeerRequests

CONSTANTS r1, r2, r3, r4, r5, p1, p2, f, g, w, filter, rewriter

KindMC == [r \in Reqs |-> CASE r = r3 -> "inform" [] r = r4 -> "trap" [] OTHER -> "command"]
PeersMC == [r \in Reqs |-> CASE r = r1 -> <<p1, p2>> [] r \in {r2, r3} -> <<p2>>
                             [] r = r4 -> <<p1>> [] r = r5 -> <<>>]
PluginsMC == [r \in Reqs |-> CASE r = r1 -> <<w, f>> [] r = r2 -> <<f, g>>
                               [] r = r4 -> <<g>> [] OTHER -> <<>>]
ModuleMC == [p \in Plugins |-> IF p = w THEN rewriter ELSE filter]
=============================================================================
