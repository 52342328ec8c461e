--------------------------- MODULE TrunkPing_proofs ---------------------------
(***************************************************************************)
(* Proofs about the keep-alive of Trunking. First: while a registered      *)
(* connection awaits a pong, its ID is marked unconfirmed. Pings are marked*)
(* by ID and awaited by connection, so this needs that a connection that   *)
(* can still read a pong is the one registered under the ID it pinged for  *)
(* (OpenPingIsRegistered), and that a process does not both dial and serve *)
(* an ID. Then: the pong it awaits is on its way, or its ping is, and never*)
(* more than one of them; the proof counts both in the two channels.       *)
(* Last: if connects are faster than the timers, no client escapes its     *)
(* manager. What a timer forgets it also closes, unless it is a client     *)
(* still connecting, and a registered client is always filed under the ID  *)
(* it was made for, where Overtakes looks for it.                          *)
(***************************************************************************)
EXTENDS Trunking_proofs, FiniteSetTheorems

PingInv == /\ IInv
           /\ OpenPingIsRegistered
           /\ PendingPingIsTracked

Pinging == OpenPingIsRegistered /\ PendingPingIsTracked

LEMMA EntryReplaced ==
    ASSUME NEW A, NEW I, NEW V, NEW f \in [A -> [I -> V]], NEW a \in A, NEW i \in I, NEW v
    PROVE  \A x \in A, y \in I :
               [f EXCEPT ![a][i] = v][x][y] = IF x = a /\ y = i THEN v ELSE f[x][y]
    OBVIOUS

(* A process has an ID in one role only, and for one connection in it.     *)
LEMMA OneRole ==
    ASSUME PingInv, NEW p \in Procs, NEW c \in Conns, NEW d \in Conns
    PROVE  /\ clientsConnMap[p][c] # NoTrunk => clientsConnMap[p][c] # serversConnMap[p][d]
           /\ clientsConnMap[p][c] # NoTrunk /\ clientsConnMap[p][c] = clientsConnMap[p][d]
                  => c = d
           /\ serversConnMap[p][c] # NoTrunk /\ serversConnMap[p][c] = serversConnMap[p][d]
                  => c = d
<1>1. ASSUME clientsConnMap[p][c] # NoTrunk, clientsConnMap[p][c] = serversConnMap[p][d]
      PROVE  FALSE
  <2>1. dial[c] \in Dials /\ dial[d] \in Dials
    BY EndTypes DEF PingInv, IInv
  <2>2. dial[c].by = p /\ dial[c].trunk = clientsConnMap[p][c]
    BY <1>1 DEF PingInv, OpenPingIsRegistered
  <2>3. dial[d].to = p /\ dial[d].trunk = serversConnMap[p][d]
    BY <1>1 DEF PingInv, IInv, RegisteredIsLive
  <2> QED BY <1>1, <2>1, <2>2, <2>3, DialsAssumption
<1>2. /\ clientsConnMap[p][c] # NoTrunk /\ clientsConnMap[p][c] = clientsConnMap[p][d]
             => c = d
      /\ serversConnMap[p][c] # NoTrunk /\ serversConnMap[p][c] = serversConnMap[p][d]
             => c = d
    BY DEF PingInv, IInv, MapsAgree, Inverse1to1
<1> QED BY <1>1, <1>2

-----------------------------------------------------------------------------
(* One lemma per callback.                                                 *)

LEMMA PingSetup ==
    ASSUME PingInv, NEW p \in Procs, SetupTrunks(p)
    PROVE  Pinging'
<1> DEFINE build == Broken(p) \cup Missing(p)
<1>1. PICK new \in Injection(build, {c \in Conns : Garbage(c)}) : Rebuild(p, new)
    BY DEF SetupTrunks
<1> DEFINE made == {new[t] : t \in build}
           ID(c) == CHOOSE t \in build : new[t] = c
<1>2. /\ build \subseteq Clients(p)
      /\ \A t \in build : new[t] \in Conns /\ Garbage(new[t]) /\ ID(new[t]) = t
    BY RebuildIDs DEF Broken, Missing
<1>3. \A c \in made : /\ c \in Conns /\ ID(c) \in Clients(p) /\ srvEnd[c] = "down"
                      /\ \A q \in Procs : /\ clientsConnMap[q][c] = NoTrunk
                                          /\ serversConnMap[q][c] = NoTrunk
    BY <1>2 DEF Garbage, Registered
<1>4. \A c \in made : /\ dial'[c].by = p /\ dial'[c].trunk = ID(c)
                      /\ clientsConnMap'[p][c] = ID(c)
                      /\ cliEnd'[c] = "connecting" /\ cliPing'[c] = NoTrunk
    BY <1>1, <1>3, DialOfFound DEF Rebuild, PingInv, IInv, TypeOK
<1>5. \A c \in Conns : c \notin made =>
          /\ dial'[c] = dial[c] /\ cliEnd'[c] = cliEnd[c] /\ cliPing'[c] = cliPing[c]
          /\ \/ clientsConnMap'[p][c] = clientsConnMap[p][c]
             \/ clientsConnMap'[p][c] = NoTrunk /\ cliEnd[c] # "open"
  <2> HIDE DEF build, made, ID
  <2>1. \A c \in Conns : c \notin made =>
            clientsConnMap'[p][c] = IF \E t \in Broken(p) : clientsTrunkMap[p][t] = c
                                    THEN NoTrunk ELSE clientsConnMap[p][c]
    BY <1>1 DEF Rebuild, build, made, PingInv, IInv, TypeOK
  <2>2. \A t \in Broken(p) : cliEnd[clientsTrunkMap[p][t]] # "open"
    BY DEF Broken, isUp
  <2>3. \A c \in Conns : c \notin made =>
            dial'[c] = dial[c] /\ cliEnd'[c] = cliEnd[c] /\ cliPing'[c] = cliPing[c]
    BY <1>1, <2>2 DEF Rebuild, Close, build, made
  <2> QED BY <2>1, <2>2, <2>3
<1>6. \A q \in Procs : q # p => clientsConnMap'[q] = clientsConnMap[q]
    BY <1>1 DEF Rebuild, PingInv, IInv, TypeOK
<1>7. UNCHANGED <<serversConnMap, unconfirmedPings, srvPing, srvEnd>>
    BY DEF SetupTrunks
<1> HIDE DEF build, made, ID
<1>8. OpenPingIsRegistered'
    BY <1>3, <1>4, <1>5, <1>6, <1>7, EndTypes DEF PingInv, IInv, OpenPingIsRegistered
<1>9. PendingPingIsTracked'
    BY <1>3, <1>4, <1>5, <1>6, <1>7 DEF PingInv, PendingPingIsTracked
<1> QED BY <1>8, <1>9 DEF Pinging

(* The clients and servers that a tick closes or pings are the registered  *)
(* connections whose IDs are due; which of the two, the mark of the ID says.*)
LEMMA MonitorPicks ==
    ASSUME PingInv, NEW p \in Procs
    PROVE  LET due == DueClients(p) \cup DueServers(p)
           IN /\ \A c \in Conns : clientsConnMap[p][c] # NoTrunk =>
                     /\ c \in ClosedClients(p) <=>
                            clientsConnMap[p][c] \in due /\ clientsConnMap[p][c] \in unconfirmedPings[p]
                     /\ c \in PingedClients(p) <=>
                            clientsConnMap[p][c] \in due /\ clientsConnMap[p][c] \notin unconfirmedPings[p]
              /\ \A c \in Conns : serversConnMap[p][c] # NoTrunk =>
                     /\ c \in ClosedServers(p) <=>
                            serversConnMap[p][c] \in due /\ serversConnMap[p][c] \in unconfirmedPings[p]
                     /\ c \in PingedServers(p) <=>
                            serversConnMap[p][c] \in due /\ serversConnMap[p][c] \notin unconfirmedPings[p]
              /\ \A c \in ClosedClients(p) \cup PingedClients(p) : c \in Conns /\ clientsConnMap[p][c] # NoTrunk
              /\ \A c \in ClosedServers(p) \cup PingedServers(p) : c \in Conns /\ serversConnMap[p][c] # NoTrunk
              /\ DueClients(p) \subseteq TrunkIds /\ DueServers(p) \subseteq TrunkIds
<1> DEFINE due == DueClients(p) \cup DueServers(p)
<1>1. \A t \in TrunkIds, c \in Conns :
          /\ clientsTrunkMap[p][t] = c => clientsConnMap[p][c] = t
          /\ serversTrunkMap[p][t] = c => serversConnMap[p][c] = t
          /\ clientsConnMap[p][c] = t => clientsTrunkMap[p][t] = c
          /\ serversConnMap[p][c] = t => serversTrunkMap[p][t] = c
    BY NoneAssumption DEF PingInv, IInv, MapsAgree, Inverse1to1
<1>2. /\ DueClients(p) \subseteq TrunkIds /\ DueServers(p) \subseteq TrunkIds
      /\ \A t \in DueClients(p) : clientsTrunkMap[p][t] \in Conns
      /\ \A t \in DueServers(p) : serversTrunkMap[p][t] \in Conns
    BY DEF DueClients, DueServers, PingInv, IInv, TypeOK
<1>3. \A c \in Conns : clientsConnMap[p][c] # NoTrunk =>
          /\ c \in ClosedClients(p) <=>
                 clientsConnMap[p][c] \in due /\ clientsConnMap[p][c] \in unconfirmedPings[p]
          /\ c \in PingedClients(p) <=>
                 clientsConnMap[p][c] \in due /\ clientsConnMap[p][c] \notin unconfirmedPings[p]
  <2> SUFFICES ASSUME NEW c \in Conns, clientsConnMap[p][c] # NoTrunk
               PROVE  /\ c \in ClosedClients(p) <=>
                             /\ clientsConnMap[p][c] \in due
                             /\ clientsConnMap[p][c] \in unconfirmedPings[p]
                      /\ c \in PingedClients(p) <=>
                             /\ clientsConnMap[p][c] \in due
                             /\ clientsConnMap[p][c] \notin unconfirmedPings[p]
    OBVIOUS
  <2> DEFINE t == clientsConnMap[p][c]
  <2>1. t \in TrunkIds /\ clientsTrunkMap[p][t] = c
    BY <1>1 DEF PingInv, IInv, TypeOK
  <2>2. t \notin DueServers(p)
    BY <1>1, <1>2, OneRole
  <2>3. \A u \in DueClients(p) : clientsTrunkMap[p][u] = c <=> u = t
    BY <1>1, <1>2, <2>1
  <2> QED BY <2>2, <2>3 DEF ClosedClients, PingedClients, DroppedClients
<1>4. \A c \in Conns : serversConnMap[p][c] # NoTrunk =>
          /\ c \in ClosedServers(p) <=>
                 serversConnMap[p][c] \in due /\ serversConnMap[p][c] \in unconfirmedPings[p]
          /\ c \in PingedServers(p) <=>
                 serversConnMap[p][c] \in due /\ serversConnMap[p][c] \notin unconfirmedPings[p]
  <2> SUFFICES ASSUME NEW c \in Conns, serversConnMap[p][c] # NoTrunk
               PROVE  /\ c \in ClosedServers(p) <=>
                             /\ serversConnMap[p][c] \in due
                             /\ serversConnMap[p][c] \in unconfirmedPings[p]
                      /\ c \in PingedServers(p) <=>
                             /\ serversConnMap[p][c] \in due
                             /\ serversConnMap[p][c] \notin unconfirmedPings[p]
    OBVIOUS
  <2> DEFINE t == serversConnMap[p][c]
  <2>1. t \in TrunkIds /\ serversTrunkMap[p][t] = c
    BY <1>1 DEF PingInv, IInv, TypeOK
  <2>2. t \notin DueClients(p)
    BY <1>1, <1>2, OneRole, NoneAssumption
  <2>3. \A u \in DueServers(p) : serversTrunkMap[p][u] = c <=> u = t
    BY <1>1, <1>2, <2>1
  <2> QED BY <2>2, <2>3 DEF ClosedServers, PingedServers, DroppedServers
<1>5. /\ \A c \in ClosedClients(p) \cup PingedClients(p) : c \in Conns /\ clientsConnMap[p][c] # NoTrunk
      /\ \A c \in ClosedServers(p) \cup PingedServers(p) : c \in Conns /\ serversConnMap[p][c] # NoTrunk
    BY <1>1, <1>2, NoneAssumption
       DEF ClosedClients, PingedClients, ClosedServers, PingedServers, DroppedClients, DroppedServers
<1> HIDE DEF due
<1> QED BY <1>2, <1>3, <1>4, <1>5 DEF due

LEMMA PingMonitor ==
    ASSUME PingInv, NEW p \in Procs, MonitorTrunks(p)
    PROVE  Pinging'
<1> DEFINE due == DueClients(p) \cup DueServers(p)
<1>2. DueClients(p) \subseteq TrunkIds /\ DueServers(p) \subseteq TrunkIds
    BY MonitorPicks
<1>3. \A c \in Conns : clientsConnMap[p][c] # NoTrunk =>
          /\ c \in ClosedClients(p) <=>
                 clientsConnMap[p][c] \in due /\ clientsConnMap[p][c] \in unconfirmedPings[p]
          /\ c \in PingedClients(p) <=>
                 clientsConnMap[p][c] \in due /\ clientsConnMap[p][c] \notin unconfirmedPings[p]
    BY MonitorPicks
<1>4. \A c \in Conns : serversConnMap[p][c] # NoTrunk =>
          /\ c \in ClosedServers(p) <=>
                 serversConnMap[p][c] \in due /\ serversConnMap[p][c] \in unconfirmedPings[p]
          /\ c \in PingedServers(p) <=>
                 serversConnMap[p][c] \in due /\ serversConnMap[p][c] \notin unconfirmedPings[p]
    BY MonitorPicks
<1>5. /\ \A c \in ClosedClients(p) \cup PingedClients(p) : c \in Conns /\ clientsConnMap[p][c] # NoTrunk
      /\ \A c \in ClosedServers(p) \cup PingedServers(p) : c \in Conns /\ serversConnMap[p][c] # NoTrunk
    BY MonitorPicks
<1>6. \A q \in Procs, c \in Conns : q # p => /\ clientsConnMap'[q][c] = clientsConnMap[q][c]
                                             /\ serversConnMap'[q][c] = serversConnMap[q][c]
    BY DEF MonitorTrunks, PingInv, IInv, TypeOK
<1>7. \A c \in Conns :
          /\ clientsConnMap'[p][c] = IF c \in ClosedClients(p) THEN NoTrunk ELSE clientsConnMap[p][c]
          /\ serversConnMap'[p][c] = IF c \in ClosedServers(p) THEN NoTrunk ELSE serversConnMap[p][c]
    BY DEF MonitorTrunks, PingInv, IInv, TypeOK
<1>8. /\ \A t \in TrunkIds : t \in due /\ t \notin unconfirmedPings[p] => t \in unconfirmedPings'[p]
      /\ \A t \in TrunkIds : t \notin due /\ t \in unconfirmedPings[p] => t \in unconfirmedPings'[p]
      /\ \A q \in Procs : q # p => unconfirmedPings'[q] = unconfirmedPings[q]
    BY <1>2 DEF MonitorTrunks, PingInv, IInv, TypeOK
<1>9. \A c \in Conns :
          /\ cliEnd'[c] = Close(cliEnd, ClosedClients(p))[c]
          /\ srvEnd'[c] = Close(srvEnd, ClosedServers(p))[c]
          /\ cliPing'[c] = IF c \in PingedClients(p) /\ HasTransport(cliEnd[c])
                           THEN clientsConnMap[p][c] ELSE cliPing[c]
          /\ srvPing'[c] = IF c \in PingedServers(p) /\ HasTransport(srvEnd[c])
                           THEN serversConnMap[p][c] ELSE srvPing[c]
    BY DEF MonitorTrunks
<1>10. UNCHANGED dial
    BY DEF MonitorTrunks
<1> HIDE DEF due
<1>11. PendingPingIsTracked'
  <2>1. ASSUME NEW q \in Procs, NEW c \in Conns, clientsConnMap'[q][c] # NoTrunk, cliPing'[c] # NoTrunk
        PROVE  cliPing'[c] = clientsConnMap'[q][c] /\ cliPing'[c] \in unconfirmedPings'[q]
    <3>1. clientsConnMap'[q][c] = clientsConnMap[q][c] /\ clientsConnMap[q][c] \in TrunkIds
        BY <1>6, <1>7, <2>1 DEF PingInv, IInv, TypeOK
    <3>2. cliPing[c] # NoTrunk =>
              cliPing[c] = clientsConnMap[q][c] /\ cliPing[c] \in unconfirmedPings[q]
        BY <2>1, <3>1 DEF PingInv, PendingPingIsTracked
    <3>3. CASE q # p
      <4>1. c \notin PingedClients(p)
        BY <1>5, <2>1, <3>1, <3>3 DEF PingInv, OpenPingIsRegistered
      <4> QED BY <1>9, <1>8, <2>1, <3>1, <3>2, <3>3, <4>1
    <3>4. CASE q = p
      <4>1. c \notin ClosedClients(p)
        BY <1>7, <2>1, <3>4
      <4>2. CASE c \in PingedClients(p)
        BY <1>3, <1>9, <1>8, <2>1, <3>1, <3>2, <3>4, <4>2
      <4>3. CASE c \notin PingedClients(p)
        BY <1>3, <1>9, <1>8, <2>1, <3>1, <3>2, <3>4, <4>1, <4>3
      <4> QED BY <4>2, <4>3
    <3> QED BY <3>3, <3>4
  <2>2. ASSUME NEW q \in Procs, NEW c \in Conns, serversConnMap'[q][c] # NoTrunk, srvPing'[c] # NoTrunk
        PROVE  srvPing'[c] = serversConnMap'[q][c] /\ srvPing'[c] \in unconfirmedPings'[q]
    <3>1. serversConnMap'[q][c] = serversConnMap[q][c] /\ serversConnMap[q][c] \in TrunkIds
        BY <1>6, <1>7, <2>2 DEF PingInv, IInv, TypeOK
    <3>2. srvPing[c] # NoTrunk =>
              srvPing[c] = serversConnMap[q][c] /\ srvPing[c] \in unconfirmedPings[q]
        BY <2>2, <3>1 DEF PingInv, PendingPingIsTracked
    <3>3. CASE q # p
      <4>1. c \notin PingedServers(p)
        BY <1>5, <2>2, <3>1, <3>3 DEF PingInv, IInv, RegisteredIsLive
      <4> QED BY <1>9, <1>8, <2>2, <3>1, <3>2, <3>3, <4>1
    <3>4. CASE q = p
      <4>1. c \notin ClosedServers(p)
        BY <1>7, <2>2, <3>4
      <4>2. CASE c \in PingedServers(p)
        BY <1>4, <1>9, <1>8, <2>2, <3>1, <3>2, <3>4, <4>2
      <4>3. CASE c \notin PingedServers(p)
        BY <1>4, <1>9, <1>8, <2>2, <3>1, <3>2, <3>4, <4>1, <4>3
      <4> QED BY <4>2, <4>3
    <3> QED BY <3>3, <3>4
  <2> QED BY <2>1, <2>2 DEF PendingPingIsTracked
<1>12. ASSUME NEW c \in Conns
       PROVE  /\ cliEnd'[c] = "connecting" => cliPing'[c] = NoTrunk
              /\ cliEnd'[c] = "open" /\ cliPing'[c] # NoTrunk =>
                     clientsConnMap'[dial[c].by][c] = cliPing'[c]
              /\ srvEnd'[c] = "open" /\ srvPing'[c] # NoTrunk =>
                     serversConnMap'[dial[c].to][c] = srvPing'[c]
  <2>1. cliEnd'[c] = "open" => cliEnd[c] = "open" /\ c \notin ClosedClients(p)
    BY <1>9 DEF Close
  <2>2. srvEnd'[c] = "open" => srvEnd[c] = "open" /\ c \notin ClosedServers(p)
    BY <1>9 DEF Close
  <2>3. cliEnd'[c] = "connecting" => cliEnd[c] = "connecting"
    BY <1>9 DEF Close
  <2>4. c \in PingedClients(p) => dial[c].by = p
    BY <1>5 DEF PingInv, OpenPingIsRegistered
  <2>5. c \in PingedServers(p) => dial[c].to = p
    BY <1>5 DEF PingInv, IInv, RegisteredIsLive
  <2>6. dial[c].by \in Procs /\ dial[c].to \in Procs
    BY EndTypes DEF PingInv, IInv
  <2>7. cliEnd[c] = "connecting" => ~HasTransport(cliEnd[c])
    BY DEF HasTransport
  <2> QED BY <1>6, <1>9, <1>7, <2>1, <2>2, <2>3, <2>4, <2>5, <2>6, <2>7
          DEF PingInv, OpenPingIsRegistered
<1>13. OpenPingIsRegistered'
    BY <1>6, <1>10, <1>12, <1>7 DEF PingInv, OpenPingIsRegistered
<1> QED BY <1>11, <1>13 DEF Pinging

LEMMA PingLink ==
    ASSUME PingInv, NEW c \in Conns, Link(c)
    PROVE  Pinging'
<1>1. CASE ClientConnectionMade(c)
  <2>1. \A q \in Procs : serversConnMap[q][c] = NoTrunk
    BY <1>1 DEF ClientConnectionMade, PingInv, IInv, UnacceptedIsIdle, RegisteredIsLive
  <2> QED BY <1>1, <2>1 DEF ClientConnectionMade, PingInv, IInv, TypeOK, Pinging, OpenPingIsRegistered,
                            PendingPingIsTracked, registry, pings
<1>2. CASE ServerConnectionMade(c)
    BY <1>2 DEF ServerConnectionMade, PingInv, IInv, TypeOK, Pinging, OpenPingIsRegistered,
                PendingPingIsTracked, registry
<1>3. CASE ConnectFails(c) \/ ClientConnectionLost(c)
    BY <1>3 DEF ConnectFails, ClientConnectionLost, PingInv, IInv, TypeOK, Pinging,
                OpenPingIsRegistered, PendingPingIsTracked, registry, pings
<1>4. CASE ServerConnectionLost(c)
  <2>1. \A q \in Procs, d \in Conns :
            \/ serversConnMap'[q][d] = serversConnMap[q][d]
            \/ serversConnMap'[q][d] = NoTrunk /\ d = c
    <3> DEFINE p == dial[c].to
    <3>1. \/ UNCHANGED serversConnMap
          \/ serversConnMap' = [serversConnMap EXCEPT ![p][c] = NoTrunk]
        BY <1>4 DEF ServerConnectionLost, Unregister
    <3>2. serversConnMap \in [Procs -> [Conns -> TrunkIds \cup {NoTrunk}]] /\ p \in Procs
        BY EndTypes DEF PingInv, IInv, TypeOK
    <3> HIDE DEF p
    <3> QED BY <3>1, <3>2, EntryReplaced
  <2>2. \A d \in Conns : srvEnd'[d] = IF d = c THEN "down" ELSE srvEnd[d]
    BY <1>4 DEF ServerConnectionLost, PingInv, IInv, TypeOK
  <2>3. UNCHANGED <<clientsConnMap, unconfirmedPings, cliPing, srvPing, dial, cliEnd>>
    BY <1>4 DEF ServerConnectionLost, pings
  <2> QED BY <2>1, <2>2, <2>3, EndTypes DEF PingInv, IInv, Pinging, OpenPingIsRegistered, PendingPingIsTracked
<1> QED BY <1>1, <1>2, <1>3, <1>4 DEF Link

(* A pong confirms the ID of the connection that awaited it, and of no     *)
(* other.                                                                  *)
LEMMA PingConfirm ==
    ASSUME PingInv, NEW p \in Procs, NEW t \in TrunkIds, Confirm(p, t)
    PROVE  \A q \in Procs : unconfirmedPings[q] \ {t} \subseteq unconfirmedPings'[q]
                            /\ (q # p => unconfirmedPings'[q] = unconfirmedPings[q])
BY DEF Confirm, PingInv, IInv, TypeOK

LEMMA PingClientData ==
    ASSUME PingInv, NEW c \in Conns, ClientDataReceived(c)
    PROVE  Pinging'
<1>1. UNCHANGED <<registry, dial, cliEnd, srvEnd>> /\ cliEnd[c] = "open"
    BY DEF ClientDataReceived
<1>2. CASE UNCHANGED <<unconfirmedPings, cliPing, srvPing>>
    BY <1>1, <1>2 DEF PingInv, Pinging, OpenPingIsRegistered, PendingPingIsTracked, registry
<1>3. CASE ClientReceivesPong(c) /\ cliPing[c] # NoTrunk
  <2> DEFINE p == dial[c].by
             t == cliPing[c]
  <2>1. p \in Procs /\ t \in TrunkIds /\ Confirm(p, t)
    BY <1>3, EndTypes DEF PingInv, IInv, TypeOK, ClientReceivesPong
  <2>2. clientsConnMap[p][c] = t
    BY <1>1, <1>3 DEF PingInv, OpenPingIsRegistered
  <2>3. \A d \in Conns : cliPing'[d] = IF d = c THEN NoTrunk ELSE cliPing[d]
    BY <1>3 DEF ClientReceivesPong, PingInv, IInv, TypeOK
  <2>4. UNCHANGED srvPing
    BY <1>3 DEF ClientReceivesPong
  <2>5. \A d \in Conns : /\ d # c => clientsConnMap[p][d] # t
                         /\ serversConnMap[p][d] # t
    BY <2>1, <2>2, OneRole, NoneAssumption
  <2>6. OpenPingIsRegistered'
    BY <1>1, <2>3, <2>4 DEF PingInv, OpenPingIsRegistered, registry
  <2>7. \A q \in Procs : /\ unconfirmedPings[q] \ {t} \subseteq unconfirmedPings'[q]
                         /\ q # p => unconfirmedPings'[q] = unconfirmedPings[q]
    BY <2>1, PingConfirm
  <2> HIDE DEF p, t
  <2>8. PendingPingIsTracked'
    BY <1>1, <2>3, <2>4, <2>5, <2>7 DEF PingInv, PendingPingIsTracked, registry
  <2> QED BY <2>6, <2>8 DEF Pinging
<1> QED BY <1>2, <1>3 DEF ClientDataReceived, ClientReceivesPing, ClientReceivesPong, pings

LEMMA PingServerData ==
    ASSUME PingInv, NEW c \in Conns, ServerDataReceived(c)
    PROVE  Pinging'
<1>1. UNCHANGED <<clientsConnMap, dial, cliEnd>> /\ srvEnd[c] = "open" /\ toServer[c] # <<>>
    BY DEF ServerDataReceived
<1>2. CASE UNCHANGED <<serversConnMap, srvEnd, unconfirmedPings, cliPing, srvPing>>
    BY <1>1, <1>2 DEF PingInv, Pinging, OpenPingIsRegistered, PendingPingIsTracked
<1>3. CASE ServerReceivesPong(c) /\ srvPing[c] # NoTrunk
  <2> DEFINE p == dial[c].to
             t == srvPing[c]
  <2>1. p \in Procs /\ t \in TrunkIds /\ Confirm(p, t)
    BY <1>3, EndTypes DEF PingInv, IInv, TypeOK, ServerReceivesPong
  <2>2. serversConnMap[p][c] = t
    BY <1>1, <1>3 DEF PingInv, OpenPingIsRegistered
  <2>3. \A d \in Conns : srvPing'[d] = IF d = c THEN NoTrunk ELSE srvPing[d]
    BY <1>3 DEF ServerReceivesPong, PingInv, IInv, TypeOK
  <2>4. UNCHANGED <<cliPing, serversConnMap, srvEnd>>
    BY <1>3 DEF ServerReceivesPong
  <2>5. \A d \in Conns : /\ d # c => serversConnMap[p][d] # t
                         /\ clientsConnMap[p][d] # t
    BY <2>1, <2>2, OneRole, NoneAssumption
  <2>6. OpenPingIsRegistered'
    BY <1>1, <2>3, <2>4 DEF PingInv, OpenPingIsRegistered
  <2>7. \A q \in Procs : /\ unconfirmedPings[q] \ {t} \subseteq unconfirmedPings'[q]
                         /\ q # p => unconfirmedPings'[q] = unconfirmedPings[q]
    BY <2>1, PingConfirm
  <2> HIDE DEF p, t
  <2>8. PendingPingIsTracked'
    BY <1>1, <2>3, <2>4, <2>5, <2>7 DEF PingInv, PendingPingIsTracked
  <2> QED BY <2>6, <2>8 DEF Pinging
<1>4. CASE ServerReceivesAnnouncement(c)
  <2> DEFINE q == dial[c].to
             t == dial[c].trunk
  <2>1. q \in Procs /\ t \in TrunkIds
    BY EndTypes DEF PingInv, IInv
  <2>2. /\ \A p \in Procs : serversConnMap[p][c] = NoTrunk
        /\ \/ UNCHANGED serversConnMap /\ srvEnd' = Close(srvEnd, {c})
           \/ serversConnMap' = [serversConnMap EXCEPT ![q][c] = t] /\ UNCHANGED srvEnd
    BY <1>1, <1>4, AnnouncementEffect DEF PingInv
  <2>3. srvPing[c] = NoTrunk
    BY <1>1, <2>1, <2>2 DEF PingInv, OpenPingIsRegistered
  <2>4. UNCHANGED <<unconfirmedPings, cliPing, srvPing>>
    BY <1>4 DEF ServerReceivesAnnouncement, pings
  <2>5. \A p \in Procs, d \in Conns : d # c => serversConnMap'[p][d] = serversConnMap[p][d]
    <3>1. serversConnMap \in [Procs -> [Conns -> TrunkIds \cup {NoTrunk}]]
        BY DEF PingInv, IInv, TypeOK
    <3>2. UNCHANGED serversConnMap \/ serversConnMap' = [serversConnMap EXCEPT ![q][c] = t]
        BY <2>2
    <3> HIDE DEF q, t
    <3> QED BY <2>1, <3>1, <3>2, EntryReplaced
  <2>6. \A d \in Conns : d # c => srvEnd'[d] = srvEnd[d]
    BY <2>2 DEF Close
  <2> QED BY <1>1, <2>3, <2>4, <2>5, <2>6, EndTypes
          DEF PingInv, IInv, Pinging, OpenPingIsRegistered, PendingPingIsTracked
<1> QED BY <1>2, <1>3, <1>4
        DEF ServerDataReceived, ServerReceivesPing, ServerReceivesPong, pings

LEMMA PingRestart ==
    ASSUME PingInv, NEW p \in Procs, Restart(p)
    PROVE  Pinging'
<1>1. /\ \A q \in Procs : q # p => /\ clientsConnMap'[q] = clientsConnMap[q]
                                   /\ serversConnMap'[q] = serversConnMap[q]
                                   /\ unconfirmedPings'[q] = unconfirmedPings[q]
      /\ \A c \in Conns : clientsConnMap'[p][c] = NoTrunk /\ serversConnMap'[p][c] = NoTrunk
    BY DEF Restart, NoTrunks, PingInv, IInv, TypeOK
<1>2. \A c \in Conns : /\ cliEnd'[c] = IF dial[c].by = p THEN "down" ELSE cliEnd[c]
                       /\ srvEnd'[c] = IF dial[c].to = p THEN "down" ELSE srvEnd[c]
    BY DEF Restart
<1>3. UNCHANGED <<dial, cliPing, srvPing>>
    BY DEF Restart
<1> QED BY <1>1, <1>2, <1>3, EndTypes
        DEF PingInv, IInv, Pinging, OpenPingIsRegistered, PendingPingIsTracked

LEMMA PingNext == PingInv /\ [Next]_vars => PingInv'
<1> SUFFICES ASSUME PingInv, [Next]_vars PROVE PingInv'
    OBVIOUS
<1>1. IInv'
    BY InvNext DEF PingInv
<1>2. CASE UNCHANGED vars
    BY <1>1, <1>2 DEF PingInv, OpenPingIsRegistered, PendingPingIsTracked,
                      vars, registry, pings, links
<1>3. CASE Next
  <2>1. Pinging'
    BY <1>3, PingSetup, PingMonitor, PingLink, PingClientData, PingServerData, PingRestart
       DEF Next, Timers
  <2> QED BY <1>1, <2>1 DEF PingInv, Pinging
<1> QED BY <1>2, <1>3

LEMMA PingInit == Init => PingInv
BY InvInit DEF Init, PingInv, OpenPingIsRegistered, PendingPingIsTracked, NoTrunks

(* While a registered connection awaits a pong, its ID is marked           *)
(* unconfirmed, so the next due pass of monitorTrunks finds it.            *)
THEOREM PendingPingAlwaysTracked == Spec => []PendingPingIsTracked
<1>1. PingInv => PendingPingIsTracked
    BY DEF PingInv
<1> QED BY <1>1, PingInit, PingNext, PTL DEF Spec
-----------------------------------------------------------------------------
(* A ping and its pong: one of the two is under way, or neither. The count *)
(* holds from connection_made on at the dialling end, so also while the    *)
(* link is in the backlog of the accepting one; there nothing has been     *)
(* answered and nothing is awaited yet.                                    *)

Count(channel, m) == Cardinality(InFlight(channel, m))

(* Of a link: the states of its ends, what they await, and the channels.   *)
LinkBalanced(cli, srv, cliAwaits, srvAwaits, toSrv, toCli) ==
    cli = "open" =>
        /\ srv \in {"backlog", "open"} =>
               Count(toSrv, Ping) + Count(toCli, Pong) = (IF cliAwaits # NoTrunk THEN 1 ELSE 0)
        /\ srv = "open" =>
               Count(toCli, Ping) + Count(toSrv, Pong) = (IF srvAwaits # NoTrunk THEN 1 ELSE 0)
        /\ srv = "backlog" => toCli = <<>> /\ Count(toSrv, Pong) = 0

Balanced ==
    \A c \in Conns :
        LinkBalanced(cliEnd[c], srvEnd[c], cliPing[c], srvPing[c], toServer[c], toClient[c])

BalanceInv == PingInv /\ Balanced

LEMMA InFlightFinite ==
    ASSUME NEW s \in Seq(Msg), NEW m
    PROVE  IsFiniteSet(InFlight(s, m)) /\ Count(s, m) \in Nat
<1>1. IsFiniteSet(1..Len(s))
    BY FS_Interval
<1>2. InFlight(s, m) \in SUBSET (1..Len(s))
    BY DEF InFlight
<1>3. IsFiniteSet(InFlight(s, m))
    BY <1>1, <1>2, FS_Subset
<1> QED BY <1>3, FS_CardinalityType DEF Count

(* What is written is one message more.                                    *)
LEMMA CountAppend ==
    ASSUME NEW s \in Seq(Msg), NEW x \in Msg, NEW m
    PROVE  Count(Append(s, x), m) = Count(s, m) + (IF x = m THEN 1 ELSE 0)
<1> DEFINE more == IF x = m THEN {Len(s) + 1} ELSE {}
<1>1. InFlight(Append(s, x), m) = InFlight(s, m) \cup more
    BY DEF InFlight
<1>2. IsFiniteSet(InFlight(s, m)) /\ Count(s, m) \in Nat
    BY InFlightFinite
<1>3. CASE x = m
  <2>1. Len(s) + 1 \notin InFlight(s, m)
    BY DEF InFlight
  <2>2. InFlight(Append(s, x), m) = InFlight(s, m) \cup {Len(s) + 1}
    BY <1>1, <1>3
  <2> HIDE DEF more
  <2> QED BY <1>2, <1>3, <2>1, <2>2, FS_AddElement DEF Count
<1>4. CASE x # m
    BY <1>1, <1>2, <1>4 DEF Count
<1> QED BY <1>3, <1>4

(* What is read is one message less.                                       *)
LEMMA CountTail ==
    ASSUME NEW s \in Seq(Msg), s # <<>>, NEW m
    PROVE  Count(s, m) = Count(Tail(s), m) + (IF Head(s) = m THEN 1 ELSE 0)
<1> DEFINE rest == InFlight(s, m) \ {1}
           moved == InFlight(Tail(s), m)
           f == [i \in moved |-> i + 1]
<1>1. Tail(s) \in Seq(Msg) /\ Len(Tail(s)) = Len(s) - 1 /\ Len(s) \in Nat \ {0}
    OBVIOUS
<1>2. \A i \in 1..Len(Tail(s)) : Tail(s)[i] = s[i + 1]
    OBVIOUS
<1>3. IsFiniteSet(moved) /\ Count(Tail(s), m) \in Nat
    BY <1>1, InFlightFinite
<1>4. f \in Bijection(moved, rest)
  <2>1. \A i \in moved : i \in 1..Len(Tail(s)) /\ i + 1 \in rest
    BY <1>1, <1>2 DEF InFlight
  <2>2. f \in [moved -> rest]
    BY <2>1
  <2>3. \A i, j \in moved : f[i] = f[j] => i = j
    BY <2>1
  <2>4. \A k \in rest : \E i \in moved : f[i] = k
    <3> SUFFICES ASSUME NEW k \in rest PROVE \E i \in moved : f[i] = k
        OBVIOUS
    <3>1. k \in 2..Len(s) /\ s[k] = m
        BY DEF InFlight
    <3>2. k - 1 \in 1..Len(Tail(s)) /\ Tail(s)[k - 1] = m
        BY <1>1, <1>2, <3>1
    <3>3. k - 1 \in moved /\ f[k - 1] = k
        BY <3>1, <3>2, <1>1 DEF InFlight
    <3> QED BY <3>3
  <2> HIDE DEF f, moved, rest
  <2>5. f \in Injection(moved, rest)
    BY <2>2, <2>3 DEF Injection, IsInjective
  <2>6. f \in Surjection(moved, rest)
    BY <2>2, <2>4 DEF Surjection
  <2> QED BY <2>5, <2>6 DEF Bijection
<1>5. IsFiniteSet(rest) /\ Cardinality(rest) = Count(Tail(s), m)
  <2> HIDE DEF f, rest
  <2> QED BY <1>3, <1>4, FS_Bijection DEF ExistsBijection, Count
<1>6. CASE Head(s) = m
  <2>1. 1 \in InFlight(s, m)
    BY <1>1, <1>6 DEF InFlight
  <2>2. InFlight(s, m) = rest \cup {1} /\ 1 \notin rest
    BY <2>1
  <2> HIDE DEF rest
  <2> QED BY <1>3, <1>5, <1>6, <2>2, FS_AddElement DEF Count
<1>7. CASE Head(s) # m
  <2>1. 1 \notin InFlight(s, m)
    BY <1>1, <1>7 DEF InFlight
  <2>2. InFlight(s, m) = rest
    BY <2>1
  <2> HIDE DEF rest, moved
  <2> QED BY <1>3, <1>5, <1>7, <2>2 DEF Count
<1> QED BY <1>6, <1>7

LEMMA CountEmpty == \A m : Count(<<>>, m) = 0
<1>1. \A m : InFlight(<<>>, m) = {}
    BY DEF InFlight
<1> QED BY <1>1, FS_EmptySet DEF Count

LEMMA BalanceLink ==
    ASSUME BalanceInv, NEW c \in Conns, Link(c)
    PROVE  Balanced'
<1> SUFFICES ASSUME NEW d \in Conns
             PROVE  LinkBalanced(cliEnd'[d], srvEnd'[d], cliPing'[d], srvPing'[d], toServer'[d], toClient'[d])
    BY DEF Balanced
<1>1. LinkBalanced(cliEnd[d], srvEnd[d], cliPing[d], srvPing[d], toServer[d], toClient[d])
    BY DEF BalanceInv, Balanced
<1>2. TypeOK
    BY DEF BalanceInv, PingInv, IInv
<1>3. ASSUME d # c
      PROVE  /\ cliEnd'[d] = cliEnd[d] /\ srvEnd'[d] = srvEnd[d]
             /\ cliPing'[d] = cliPing[d] /\ srvPing'[d] = srvPing[d]
             /\ toServer'[d] = toServer[d] /\ toClient'[d] = toClient[d]
  <2>1. CASE ClientConnectionMade(c) \/ ServerConnectionMade(c)
    BY <1>2, <1>3, <2>1 DEF ClientConnectionMade, ServerConnectionMade, TypeOK, pings
  <2>2. CASE ConnectFails(c) \/ ClientConnectionLost(c) \/ ServerConnectionLost(c)
    BY <1>2, <1>3, <2>2 DEF ConnectFails, ClientConnectionLost, ServerConnectionLost, TypeOK, pings
  <2> QED BY <2>1, <2>2 DEF Link
<1>4. CASE d # c
    BY <1>1, <1>3, <1>4
<1>5. CASE d = c /\ ClientConnectionMade(c)
  <2>1. /\ cliEnd'[c] = "open" /\ srvEnd'[c] = "backlog" /\ toClient'[c] = <<>>
        /\ toServer'[c] = <<Announcement(dial[c].trunk)>>
    BY <1>2, <1>5 DEF ClientConnectionMade, TypeOK
  <2>2. cliPing'[c] = NoTrunk
    BY <1>5 DEF ClientConnectionMade, pings, BalanceInv, PingInv, OpenPingIsRegistered
  <2>3. \A m \in {Ping, Pong} : InFlight(toServer'[c], m) = {}
    BY <2>1 DEF InFlight, Announcement, Ping, Pong
  <2>4. Count(toServer'[c], Ping) = 0 /\ Count(toServer'[c], Pong) = 0 /\ Count(toClient'[c], Pong) = 0
    BY <2>1, <2>3, CountEmpty, FS_EmptySet DEF Count
  <2> QED BY <1>5, <2>1, <2>2, <2>4 DEF LinkBalanced
<1>6. CASE d = c /\ ServerConnectionMade(c)
  <2>1. /\ srvEnd[c] = "backlog" /\ srvEnd'[c] = "open" /\ srvPing'[c] = NoTrunk
        /\ UNCHANGED <<cliPing, cliEnd, toServer, toClient>>
    BY <1>2, <1>6 DEF ServerConnectionMade, TypeOK
  <2>2. toClient[c] = <<>> => Count(toClient[c], Ping) = 0
    BY CountEmpty
  <2> QED BY <1>1, <1>6, <2>1, <2>2 DEF LinkBalanced
<1>7. CASE d = c /\ (ConnectFails(c) \/ ClientConnectionLost(c) \/ ServerConnectionLost(c))
  <2>1. cliEnd'[c] = "down" \/ srvEnd'[c] = "down"
    BY <1>2, <1>7 DEF ConnectFails, ClientConnectionLost, ServerConnectionLost, TypeOK
  <2> QED BY <1>7, <2>1 DEF LinkBalanced
<1> QED BY <1>4, <1>5, <1>6, <1>7 DEF Link

LEMMA BalanceRestart ==
    ASSUME BalanceInv, NEW p \in Procs, Restart(p)
    PROVE  Balanced'
<1> SUFFICES ASSUME NEW d \in Conns
             PROVE  LinkBalanced(cliEnd'[d], srvEnd'[d], cliPing'[d], srvPing'[d], toServer'[d], toClient'[d])
    BY DEF Balanced
<1>1. LinkBalanced(cliEnd[d], srvEnd[d], cliPing[d], srvPing[d], toServer[d], toClient[d])
    BY DEF BalanceInv, Balanced
<1>2. /\ cliEnd'[d] = IF dial[d].by = p THEN "down" ELSE cliEnd[d]
      /\ srvEnd'[d] = IF dial[d].to = p THEN "down" ELSE srvEnd[d]
      /\ toClient'[d] = IF dial[d].by = p THEN <<>> ELSE toClient[d]
      /\ toServer'[d] = IF dial[d].to = p THEN <<>> ELSE toServer[d]
      /\ cliPing'[d] = cliPing[d] /\ srvPing'[d] = srvPing[d]
    BY DEF Restart
<1> QED BY <1>1, <1>2 DEF LinkBalanced

LEMMA BalanceSetup ==
    ASSUME BalanceInv, NEW p \in Procs, SetupTrunks(p)
    PROVE  Balanced'
<1> SUFFICES ASSUME NEW d \in Conns
             PROVE  LinkBalanced(cliEnd'[d], srvEnd'[d], cliPing'[d], srvPing'[d], toServer'[d], toClient'[d])
    BY DEF Balanced
<1>1. LinkBalanced(cliEnd[d], srvEnd[d], cliPing[d], srvPing[d], toServer[d], toClient[d])
    BY DEF BalanceInv, Balanced
<1>2. /\ cliEnd'[d] = "open" => cliEnd[d] = "open" /\ cliPing'[d] = cliPing[d]
      /\ UNCHANGED <<srvPing, srvEnd, toServer, toClient>>
    BY DEF SetupTrunks, Rebuild, Close
<1> QED BY <1>1, <1>2 DEF LinkBalanced

(* Ping and pong are messages of their own.                                *)
LEMMA PingIsNotPong == Ping # Pong /\ Ping \in Msg /\ Pong \in Msg
BY DEF Ping, Pong, Msg

LEMMA BalanceClientData ==
    ASSUME BalanceInv, NEW c \in Conns, ClientDataReceived(c)
    PROVE  Balanced'
<1> SUFFICES ASSUME NEW d \in Conns
             PROVE  LinkBalanced(cliEnd'[d], srvEnd'[d], cliPing'[d], srvPing'[d], toServer'[d], toClient'[d])
    BY DEF Balanced
<1>1. LinkBalanced(cliEnd[d], srvEnd[d], cliPing[d], srvPing[d], toServer[d], toClient[d])
    BY DEF BalanceInv, Balanced
<1>2. TypeOK
    BY DEF BalanceInv, PingInv, IInv
<1>3. UNCHANGED <<cliEnd, srvEnd, srvPing>> /\ cliEnd[c] = "open" /\ toClient[c] # <<>>
    BY DEF ClientDataReceived, ClientReceivesPing, ClientReceivesPong, pings
<1>4. CASE d # c
    BY <1>1, <1>2, <1>3, <1>4
       DEF ClientDataReceived, ClientReceivesPing, ClientReceivesPong, pings, TypeOK
<1>5. CASE d = c
  <2> DEFINE ts == toServer[c]
             tc == toClient[c]
  <2>1. ts \in Seq(Msg) /\ tc \in Seq(Msg) /\ tc # <<>> /\ toClient'[c] = Tail(tc)
    BY <1>2, <1>3 DEF ClientDataReceived, TypeOK
  <2>2. srvEnd[c] # "backlog"
    BY <1>1, <1>3, <1>5 DEF LinkBalanced
  <2>3. /\ Count(tc, Ping) = Count(Tail(tc), Ping) + (IF Head(tc) = Ping THEN 1 ELSE 0)
        /\ Count(tc, Pong) = Count(Tail(tc), Pong) + (IF Head(tc) = Pong THEN 1 ELSE 0)
    BY <2>1, CountTail
  <2>4. Tail(tc) \in Seq(Msg)
    BY <2>1
  <2>5. /\ Count(tc, Ping) \in Nat /\ Count(Tail(tc), Ping) \in Nat
        /\ Count(tc, Pong) \in Nat /\ Count(Tail(tc), Pong) \in Nat
        /\ Count(ts, Ping) \in Nat /\ Count(ts, Pong) \in Nat
    BY <2>1, <2>4, InFlightFinite
  <2>6. CASE ClientReceivesPing(c)
    <3>1. Head(tc) = Ping /\ cliPing' = cliPing /\ toServer'[c] = WriteToServer(c, Pong)
        BY <1>2, <2>6 DEF ClientReceivesPing, pings, TypeOK
    <3>2. srvEnd[c] = "open" => toServer'[c] = Append(ts, Pong)
        BY <1>3, <3>1 DEF WriteToServer, isUp, ServerReads
    <3>3. /\ Count(Append(ts, Pong), Ping) = Count(ts, Ping)
          /\ Count(Append(ts, Pong), Pong) = Count(ts, Pong) + 1
        BY <2>1, <2>5, CountAppend, PingIsNotPong
    <3> HIDE DEF ts, tc
    <3>4. CASE srvEnd[c] = "open"
      <4>1. /\ Count(ts, Ping) + Count(tc, Pong) = (IF cliPing[c] # NoTrunk THEN 1 ELSE 0)
            /\ Count(tc, Ping) + Count(ts, Pong) = (IF srvPing[c] # NoTrunk THEN 1 ELSE 0)
        BY <1>1, <1>3, <1>5, <3>4 DEF LinkBalanced, ts, tc
      <4>2. /\ Count(toServer'[c], Ping) = Count(ts, Ping)
            /\ Count(toServer'[c], Pong) = Count(ts, Pong) + 1
        BY <3>2, <3>3, <3>4
      <4>3. /\ Count(toClient'[c], Ping) = Count(tc, Ping) - 1
            /\ Count(toClient'[c], Pong) = Count(tc, Pong)
        <5>1. Head(tc) = Ping /\ Head(tc) # Pong /\ toClient'[c] = Tail(tc)
            BY <2>1, <3>1, PingIsNotPong
        <5> QED BY <2>3, <2>5, <5>1
      <4>4. /\ Count(toServer'[c], Ping) + Count(toClient'[c], Pong)
                   = (IF cliPing'[c] # NoTrunk THEN 1 ELSE 0)
            /\ Count(toClient'[c], Ping) + Count(toServer'[c], Pong)
                   = (IF srvPing'[c] # NoTrunk THEN 1 ELSE 0)
        BY <1>3, <2>5, <3>1, <4>1, <4>2, <4>3
      <4> QED BY <1>3, <1>5, <3>4, <4>4 DEF LinkBalanced
    <3>5. CASE srvEnd[c] # "open"
        BY <1>3, <1>5, <2>2, <3>5 DEF LinkBalanced
    <3> QED BY <3>4, <3>5
  <2>7. CASE ClientReceivesPong(c)
    <3>1. Head(tc) = Pong /\ cliPing'[c] = NoTrunk /\ toServer' = toServer
        BY <1>2, <2>7 DEF ClientReceivesPong, TypeOK
    <3> HIDE DEF ts, tc
    <3>2. CASE srvEnd[c] = "open"
        BY <1>1, <1>3, <1>5, <2>1, <2>3, <2>5, <3>1, <3>2, PingIsNotPong DEF LinkBalanced, ts, tc
    <3>3. CASE srvEnd[c] # "open"
        BY <1>3, <1>5, <2>2, <3>3 DEF LinkBalanced
    <3> QED BY <3>2, <3>3
  <2> QED BY <2>6, <2>7 DEF ClientDataReceived
<1> QED BY <1>4, <1>5

LEMMA BalanceServerData ==
    ASSUME BalanceInv, NEW c \in Conns, ServerDataReceived(c)
    PROVE  Balanced'
<1> SUFFICES ASSUME NEW d \in Conns
             PROVE  LinkBalanced(cliEnd'[d], srvEnd'[d], cliPing'[d], srvPing'[d], toServer'[d], toClient'[d])
    BY DEF Balanced
<1>1. LinkBalanced(cliEnd[d], srvEnd[d], cliPing[d], srvPing[d], toServer[d], toClient[d])
    BY DEF BalanceInv, Balanced
<1>2. TypeOK
    BY DEF BalanceInv, PingInv, IInv
<1>3. UNCHANGED <<cliEnd, cliPing>> /\ srvEnd[c] = "open" /\ toServer[c] # <<>>
    BY DEF ServerDataReceived, ServerReceivesAnnouncement, ServerReceivesPing, ServerReceivesPong, pings
<1>4. CASE d # c
  <2>1. srvEnd'[d] = srvEnd[d]
    BY <1>4 DEF ServerDataReceived, ServerReceivesAnnouncement, ServerReceivesPing, ServerReceivesPong,
                RegisterOrRefuse, Close
  <2>2. srvPing'[d] = srvPing[d] /\ toServer'[d] = toServer[d] /\ toClient'[d] = toClient[d]
    BY <1>2, <1>4 DEF ServerDataReceived, ServerReceivesAnnouncement, ServerReceivesPing,
                      ServerReceivesPong, pings, TypeOK
  <2> QED BY <1>1, <1>3, <2>1, <2>2
<1>5. CASE d = c
  <2> DEFINE ts == toServer[c]
             tc == toClient[c]
  <2>1. ts \in Seq(Msg) /\ tc \in Seq(Msg) /\ ts # <<>> /\ toServer'[c] = Tail(ts)
    BY <1>2, <1>3 DEF ServerDataReceived, TypeOK
  <2>2. /\ Count(ts, Ping) = Count(Tail(ts), Ping) + (IF Head(ts) = Ping THEN 1 ELSE 0)
        /\ Count(ts, Pong) = Count(Tail(ts), Pong) + (IF Head(ts) = Pong THEN 1 ELSE 0)
    BY <2>1, CountTail
  <2>3. Tail(ts) \in Seq(Msg)
    BY <2>1
  <2>4. /\ Count(ts, Ping) \in Nat /\ Count(Tail(ts), Ping) \in Nat
        /\ Count(ts, Pong) \in Nat /\ Count(Tail(ts), Pong) \in Nat
        /\ Count(tc, Ping) \in Nat /\ Count(tc, Pong) \in Nat
    BY <2>1, <2>3, InFlightFinite
  <2>5. CASE cliEnd[c] # "open"
    BY <1>3, <1>5, <2>5 DEF LinkBalanced
  <2>6. CASE cliEnd[c] = "open" /\ ServerReceivesAnnouncement(c)
    <3>1. Head(ts) # Ping /\ Head(ts) # Pong /\ UNCHANGED <<srvPing, toClient>>
        BY <2>6, MessageTypes DEF ServerReceivesAnnouncement, pings
    <3>2. srvEnd'[c] \in {"open", "closing"}
        BY <1>3, <2>6 DEF ServerReceivesAnnouncement, RegisterOrRefuse, Close
    <3> HIDE DEF ts, tc
    <3> QED BY <1>1, <1>3, <1>5, <2>1, <2>2, <2>4, <3>1, <3>2 DEF LinkBalanced, ts, tc
  <2>7. CASE cliEnd[c] = "open" /\ ServerReceivesPing(c)
    <3>1. Head(ts) = Ping /\ UNCHANGED <<srvEnd, srvPing>> /\ toClient'[c] = Append(tc, Pong)
        BY <1>2, <1>3, <2>7 DEF ServerReceivesPing, pings, TypeOK, WriteToClient, isUp
    <3>2. /\ Count(Append(tc, Pong), Ping) = Count(tc, Ping)
          /\ Count(Append(tc, Pong), Pong) = Count(tc, Pong) + 1
        BY <2>1, <2>4, CountAppend, PingIsNotPong
    <3> HIDE DEF ts, tc
    <3>3. /\ Count(ts, Ping) + Count(tc, Pong) = (IF cliPing[c] # NoTrunk THEN 1 ELSE 0)
          /\ Count(tc, Ping) + Count(ts, Pong) = (IF srvPing[c] # NoTrunk THEN 1 ELSE 0)
        BY <1>1, <1>3, <1>5, <2>7 DEF LinkBalanced, ts, tc
    <3>4. /\ Count(toServer'[c], Ping) = Count(ts, Ping) - 1
          /\ Count(toServer'[c], Pong) = Count(ts, Pong)
        BY <2>1, <2>2, <2>4, <3>1, PingIsNotPong
    <3>5. /\ Count(toClient'[c], Ping) = Count(tc, Ping)
          /\ Count(toClient'[c], Pong) = Count(tc, Pong) + 1
        BY <3>1, <3>2
    <3>6. /\ Count(toServer'[c], Ping) + Count(toClient'[c], Pong)
                 = (IF cliPing'[c] # NoTrunk THEN 1 ELSE 0)
          /\ Count(toClient'[c], Ping) + Count(toServer'[c], Pong)
                 = (IF srvPing'[c] # NoTrunk THEN 1 ELSE 0)
        BY <1>3, <2>4, <3>1, <3>3, <3>4, <3>5
    <3> QED BY <1>3, <1>5, <2>7, <3>1, <3>6 DEF LinkBalanced
  <2>8. CASE cliEnd[c] = "open" /\ ServerReceivesPong(c)
    <3>1. Head(ts) = Pong /\ srvPing'[c] = NoTrunk /\ UNCHANGED <<srvEnd, toClient>>
        BY <1>2, <2>8 DEF ServerReceivesPong, TypeOK
    <3> HIDE DEF ts, tc
    <3> QED BY <1>1, <1>3, <1>5, <2>1, <2>2, <2>4, <3>1, PingIsNotPong DEF LinkBalanced, ts, tc
  <2> QED BY <2>5, <2>6, <2>7, <2>8 DEF ServerDataReceived
<1> QED BY <1>4, <1>5

LEMMA BalanceMonitor ==
    ASSUME BalanceInv, NEW p \in Procs, MonitorTrunks(p)
    PROVE  Balanced'
<1> SUFFICES ASSUME NEW c \in Conns
             PROVE  LinkBalanced(cliEnd'[c], srvEnd'[c], cliPing'[c], srvPing'[c], toServer'[c], toClient'[c])
    BY DEF Balanced
<1>1. LinkBalanced(cliEnd[c], srvEnd[c], cliPing[c], srvPing[c], toServer[c], toClient[c])
    BY DEF BalanceInv, Balanced
<1>2. TypeOK /\ PingInv
    BY DEF BalanceInv, PingInv, IInv
<1>3. /\ cliEnd'[c] = "open" => cliEnd[c] = "open"
      /\ srvEnd'[c] \in {"backlog", "open"} => srvEnd'[c] = srvEnd[c]
    BY DEF MonitorTrunks, Close
<1>4. /\ cliPing'[c] = IF c \in PingedClients(p) /\ HasTransport(cliEnd[c])
                       THEN clientsConnMap[p][c] ELSE cliPing[c]
      /\ srvPing'[c] = IF c \in PingedServers(p) /\ HasTransport(srvEnd[c])
                       THEN serversConnMap[p][c] ELSE srvPing[c]
      /\ toServer'[c] = IF c \in PingedClients(p) THEN WriteToServer(c, Ping) ELSE toServer[c]
      /\ toClient'[c] = IF c \in PingedServers(p) THEN WriteToClient(c, Ping) ELSE toClient[c]
    BY DEF MonitorTrunks
<1>5. c \in PingedClients(p) => cliPing[c] = NoTrunk /\ clientsConnMap[p][c] # NoTrunk
  <2>1. c \in PingedClients(p) =>
            clientsConnMap[p][c] # NoTrunk /\ clientsConnMap[p][c] \notin unconfirmedPings[p]
    BY <1>2, MonitorPicks
  <2> QED BY <1>2, <2>1 DEF PingInv, PendingPingIsTracked
<1>6. c \in PingedServers(p) => srvPing[c] = NoTrunk /\ serversConnMap[p][c] # NoTrunk
  <2>1. c \in PingedServers(p) =>
            serversConnMap[p][c] # NoTrunk /\ serversConnMap[p][c] \notin unconfirmedPings[p]
    BY <1>2, MonitorPicks
  <2> QED BY <1>2, <2>1 DEF PingInv, PendingPingIsTracked
<1> DEFINE ts == toServer[c]
           tc == toClient[c]
<1>7. /\ ts \in Seq(Msg) /\ tc \in Seq(Msg)
      /\ Count(ts, Ping) \in Nat /\ Count(ts, Pong) \in Nat
      /\ Count(tc, Ping) \in Nat /\ Count(tc, Pong) \in Nat
    BY <1>2, InFlightFinite DEF TypeOK
<1>8. \A s \in Seq(Msg) : /\ Count(Append(s, Ping), Ping) = Count(s, Ping) + 1
                          /\ Count(Append(s, Ping), Pong) = Count(s, Pong)
  <2> SUFFICES ASSUME NEW s \in Seq(Msg)
               PROVE  /\ Count(Append(s, Ping), Ping) = Count(s, Ping) + 1
                      /\ Count(Append(s, Ping), Pong) = Count(s, Pong)
    OBVIOUS
  <2>1. Count(s, Pong) \in Nat
    BY InFlightFinite
  <2> QED BY <2>1, CountAppend, PingIsNotPong
<1>9. CASE ~(cliEnd'[c] = "open" /\ srvEnd'[c] \in {"backlog", "open"})
    BY <1>9 DEF LinkBalanced
<1>10. CASE cliEnd'[c] = "open" /\ srvEnd'[c] \in {"backlog", "open"}
  <2>1. cliEnd[c] = "open" /\ srvEnd[c] = srvEnd'[c]
    BY <1>3, <1>10
  <2>2. toServer'[c] = IF c \in PingedClients(p) THEN Append(ts, Ping) ELSE ts
    BY <1>4, <1>10, <2>1 DEF WriteToServer, isUp, ServerReads
  <2>3. toClient'[c] = IF c \in PingedServers(p) /\ srvEnd[c] = "open" THEN Append(tc, Ping) ELSE tc
    BY <1>4, <2>1 DEF WriteToClient, isUp
  <2> HIDE DEF ts, tc
  <2>4. /\ Count(toServer'[c], Ping) = Count(ts, Ping) + (IF c \in PingedClients(p) THEN 1 ELSE 0)
        /\ Count(toServer'[c], Pong) = Count(ts, Pong)
    BY <1>7, <1>8, <2>2
  <2>5. /\ Count(toClient'[c], Ping)
               = Count(tc, Ping) + (IF c \in PingedServers(p) /\ srvEnd[c] = "open" THEN 1 ELSE 0)
        /\ Count(toClient'[c], Pong) = Count(tc, Pong)
    BY <1>7, <1>8, <2>3
  <2>6. cliPing'[c] = IF c \in PingedClients(p) THEN clientsConnMap[p][c] ELSE cliPing[c]
    BY <1>4, <2>1 DEF HasTransport
  <2>7. srvEnd[c] = "open" =>
            srvPing'[c] = IF c \in PingedServers(p) THEN serversConnMap[p][c] ELSE srvPing[c]
    BY <1>4 DEF HasTransport
  <2>8. Count(ts, Ping) + Count(tc, Pong) = (IF cliPing[c] # NoTrunk THEN 1 ELSE 0)
    BY <1>1, <1>10, <2>1 DEF LinkBalanced, ts, tc
  <2>9. Count(toServer'[c], Ping) + Count(toClient'[c], Pong)
            = (IF cliPing'[c] # NoTrunk THEN 1 ELSE 0)
    BY <1>5, <1>7, <2>4, <2>5, <2>6, <2>8
  <2>10. CASE srvEnd[c] = "open"
    <3>1. Count(tc, Ping) + Count(ts, Pong) = (IF srvPing[c] # NoTrunk THEN 1 ELSE 0)
        BY <1>1, <2>1, <2>10 DEF LinkBalanced, ts, tc
    <3>2. Count(toClient'[c], Ping) + Count(toServer'[c], Pong)
              = (IF srvPing'[c] # NoTrunk THEN 1 ELSE 0)
        BY <1>6, <1>7, <2>4, <2>5, <2>7, <2>10, <3>1
    <3> QED BY <2>1, <2>9, <2>10, <3>2 DEF LinkBalanced
  <2>11. CASE srvEnd[c] = "backlog"
    <3>1. toClient'[c] = <<>> /\ Count(toServer'[c], Pong) = 0
        BY <1>1, <2>1, <2>3, <2>4, <2>11 DEF LinkBalanced, ts, tc
    <3> QED BY <2>1, <2>9, <2>11, <3>1 DEF LinkBalanced
  <2> QED BY <1>10, <2>1, <2>10, <2>11
<1> QED BY <1>9, <1>10

LEMMA BalanceInit == Init => BalanceInv
BY PingInit DEF Init, BalanceInv, Balanced, LinkBalanced

LEMMA BalanceNext == BalanceInv /\ [Next]_vars => BalanceInv'
<1> SUFFICES ASSUME BalanceInv, [Next]_vars PROVE BalanceInv'
    OBVIOUS
<1>1. PingInv'
    BY PingNext DEF BalanceInv
<1>2. CASE UNCHANGED vars
    BY <1>1, <1>2 DEF BalanceInv, Balanced, vars, registry, pings, links
<1>3. CASE Next
  <2>1. Balanced'
    BY <1>3, BalanceSetup, BalanceMonitor, BalanceLink, BalanceClientData, BalanceServerData,
       BalanceRestart DEF Next, Timers
  <2> QED BY <1>1, <2>1 DEF BalanceInv
<1> QED BY <1>2, <1>3

(* On a link both ends read, each end has a ping or its pong under way     *)
(* exactly while it awaits one, so the pong that confirms an ID answers    *)
(* the ping that marked it.                                                *)
THEOREM OnePingAlways == Spec => []OnePingAtATime
<1>1. BalanceInv => OnePingAtATime
    BY DEF BalanceInv, Balanced, LinkBalanced, OnePingAtATime, Count, isUp
<1> QED BY <1>1, BalanceInit, BalanceNext, PTL DEF Spec

-----------------------------------------------------------------------------
(* Where connects are faster than the timers, setupTrunks and monitorTrunks*)
(* give up no client that may still connect.                               *)

OrphanInv == PingInv /\ NoOrphan

LEMMA OrphanSetup ==
    ASSUME OrphanInv, NEW p \in Procs, SetupTrunks(p), ~Overtakes(p)
    PROVE  NoOrphan'
<1> DEFINE build == Broken(p) \cup Missing(p)
<1>1. PICK new \in Injection(build, {c \in Conns : Garbage(c)}) : Rebuild(p, new)
    BY DEF SetupTrunks
<1> DEFINE made == {new[t] : t \in build}
           ID(c) == CHOOSE t \in build : new[t] = c
<1>2. /\ build \subseteq Clients(p)
      /\ \A t \in build : new[t] \in Conns /\ Garbage(new[t]) /\ ID(new[t]) = t
    BY RebuildIDs DEF Broken, Missing
<1>3. \A c \in made : /\ c \in Conns /\ ID(c) \in Clients(p)
                      /\ \A q \in Procs : clientsConnMap[q][c] = NoTrunk
    BY <1>2 DEF Garbage, Registered
<1>4. \A c \in made : /\ dial'[c].by = p /\ dial'[c].trunk = ID(c)
                      /\ clientsConnMap'[p][c] = ID(c)
    BY <1>1, <1>3, DialOfFound DEF Rebuild, OrphanInv, PingInv, IInv, TypeOK
<1>5. \A q \in Procs : q # p => clientsConnMap'[q] = clientsConnMap[q]
    BY <1>1 DEF Rebuild, OrphanInv, PingInv, IInv, TypeOK
<1>6. \A c \in Conns : c \notin made =>
          /\ dial'[c] = dial[c]
          /\ cliEnd'[c] = cliEnd[c]
          /\ clientsConnMap'[p][c] = IF \E t \in Broken(p) : clientsTrunkMap[p][t] = c
                                     THEN NoTrunk ELSE clientsConnMap[p][c]
  <2> HIDE DEF build, made, ID
  <2>1. \A t \in Broken(p) : cliEnd[clientsTrunkMap[p][t]] # "open"
    BY DEF Broken, isUp
  <2>2. \A c \in Conns : c \notin made => dial'[c] = dial[c] /\ cliEnd'[c] = cliEnd[c]
    BY <1>1, <2>1 DEF Rebuild, Close, build, made
  <2>3. \A c \in Conns : c \notin made =>
            clientsConnMap'[p][c] = IF \E t \in Broken(p) : clientsTrunkMap[p][t] = c
                                    THEN NoTrunk ELSE clientsConnMap[p][c]
    BY <1>1 DEF Rebuild, build, made, OrphanInv, PingInv, IInv, TypeOK
  <2> QED BY <2>2, <2>3
<1>7. ASSUME NEW t \in Broken(p), clientsTrunkMap[p][t] \notin made
      PROVE  cliEnd[clientsTrunkMap[p][t]] \notin {"connecting", "open"}
  <2> DEFINE c == clientsTrunkMap[p][t]
  <2>1. t \in Clients(p) /\ t \in TrunkIds /\ t \in build /\ c # NoConn /\ cliEnd[c] # "open"
    BY DialOfFound DEF Broken, isUp
  <2>2. c \in Conns
    BY <2>1 DEF OrphanInv, PingInv, IInv, TypeOK
  <2>3. cliEnd'[c] = cliEnd[c]
    BY <1>6, <1>7, <2>2
  <2>4. clientsTrunkMap'[p][t] = new[t]
    BY <1>1, <2>1 DEF Rebuild, OrphanInv, PingInv, IInv, TypeOK
  <2>5. clientsTrunkMap'[p][t] # c
    BY <1>7, <2>1, <2>4
  <2> QED BY <2>1, <2>3, <2>5 DEF Overtakes
<1> HIDE DEF build, made, ID
<1>8. ASSUME NEW c \in Conns, cliEnd'[c] \in {"connecting", "open"}
      PROVE  clientsConnMap'[dial'[c].by][c] = dial'[c].trunk
  <2>1. CASE c \in made
    BY <1>4, <2>1
  <2>2. CASE c \notin made
    <3>1. dial[c].by \in Procs
        BY EndTypes DEF OrphanInv, PingInv, IInv
    <3>2. clientsConnMap[dial[c].by][c] = dial[c].trunk
        BY <1>6, <1>8, <2>2 DEF OrphanInv, NoOrphan
    <3>3. ~\E t \in Broken(p) : clientsTrunkMap[p][t] = c
        BY <1>6, <1>7, <1>8, <2>2
    <3> QED BY <1>5, <1>6, <2>2, <3>1, <3>2, <3>3
  <2> QED BY <2>1, <2>2
<1> QED BY <1>8 DEF NoOrphan

LEMMA OrphanMonitor ==
    ASSUME OrphanInv, NEW p \in Procs, MonitorTrunks(p), ~Overtakes(p)
    PROVE  NoOrphan'
<1> SUFFICES ASSUME NEW c \in Conns, cliEnd'[c] \in {"connecting", "open"}
             PROVE  clientsConnMap'[dial'[c].by][c] = dial'[c].trunk
    BY DEF NoOrphan
<1>1. PingInv /\ TypeOK /\ dial[c].by \in Procs
    BY EndTypes DEF OrphanInv, PingInv, IInv
<1>2. UNCHANGED dial /\ cliEnd'[c] = Close(cliEnd, ClosedClients(p))[c]
    BY DEF MonitorTrunks
<1>3. cliEnd'[c] = cliEnd[c] /\ (c \in ClosedClients(p) => cliEnd[c] = "connecting")
    BY <1>2 DEF Close
<1>4. clientsConnMap[dial[c].by][c] = dial[c].trunk
    BY <1>3 DEF OrphanInv, NoOrphan
<1>5. c \notin ClosedClients(p)
  <2> SUFFICES ASSUME c \in ClosedClients(p) PROVE FALSE
    OBVIOUS
  <2>1. PICK t \in DroppedClients(p) : clientsTrunkMap[p][t] = c
    BY DEF ClosedClients
  <2>2. t \in TrunkIds /\ clientsConnMap[p][c] = t
    BY <1>1, <2>1, NoneAssumption
       DEF DroppedClients, DueClients, PingInv, IInv, MapsAgree, Inverse1to1
  <2>3. dial[c].by = p /\ dial[c].trunk = t
    BY <1>1, <2>2, NoneAssumption DEF PingInv, OpenPingIsRegistered
  <2>4. t \in Clients(p)
    BY <1>1, <2>3 DEF Clients, TypeOK
  <2>5. clientsTrunkMap'[p][t] = NoConn
    BY <1>1, <2>1, <2>2 DEF MonitorTrunks, TypeOK
  <2> QED BY <1>3, <2>1, <2>4, <2>5, NoneAssumption DEF Overtakes
<1>6. clientsConnMap'[dial[c].by][c] = clientsConnMap[dial[c].by][c]
    BY <1>1, <1>5 DEF MonitorTrunks, TypeOK
<1> QED BY <1>2, <1>4, <1>6

LEMMA OrphanLink ==
    ASSUME OrphanInv, NEW c \in Conns, Link(c)
    PROVE  NoOrphan'
<1>1. UNCHANGED <<clientsConnMap, dial>>
    BY DEF Link, ClientConnectionMade, ServerConnectionMade, ConnectFails, ClientConnectionLost,
           ServerConnectionLost, registry
<1>2. \A d \in Conns : cliEnd'[d] \in {"connecting", "open"} => cliEnd[d] \in {"connecting", "open"}
    BY DEF Link, ClientConnectionMade, ServerConnectionMade, ConnectFails, ClientConnectionLost,
           ServerConnectionLost, OrphanInv, PingInv, IInv, TypeOK
<1> QED BY <1>1, <1>2 DEF OrphanInv, NoOrphan

LEMMA OrphanRestart ==
    ASSUME OrphanInv, NEW p \in Procs, Restart(p)
    PROVE  NoOrphan'
<1>1. \A q \in Procs : q # p => clientsConnMap'[q] = clientsConnMap[q]
    BY DEF Restart, OrphanInv, PingInv, IInv, TypeOK
<1>2. \A d \in Conns : cliEnd'[d] = IF dial[d].by = p THEN "down" ELSE cliEnd[d]
    BY DEF Restart
<1>3. UNCHANGED dial
    BY DEF Restart
<1> QED BY <1>1, <1>2, <1>3, EndTypes DEF OrphanInv, PingInv, IInv, NoOrphan

(* As long as no timer callback gives up a client that is still connecting,*)
(* every client that is up, or may still come up, is the one its manager   *)
(* has registered.                                                         *)
THEOREM NeverAnOrphan == PromptSpec => []NoOrphan
<1>1. Init => OrphanInv
    BY PingInit DEF Init, OrphanInv, NoOrphan
<1>2. OrphanInv /\ [PromptNext]_vars => OrphanInv'
  <2> SUFFICES ASSUME OrphanInv, [PromptNext]_vars PROVE OrphanInv'
    OBVIOUS
  <2>1. PingInv'
    <3>1. [Next]_vars
        BY DEF PromptNext
    <3> QED BY <3>1, PingNext DEF OrphanInv
  <2>2. CASE UNCHANGED vars
    <3>1. UNCHANGED <<clientsConnMap, dial, cliEnd>>
        BY <2>2 DEF vars, registry, links
    <3> QED BY <2>1, <3>1 DEF OrphanInv, NoOrphan
  <2>3. ASSUME NEW c \in Conns, ClientDataReceived(c) \/ ServerDataReceived(c) PROVE NoOrphan'
    BY <2>3 DEF OrphanInv, NoOrphan, ClientDataReceived, ServerDataReceived, registry
  <2>4. CASE PromptNext
    BY <2>1, <2>3, <2>4, OrphanSetup, OrphanMonitor, OrphanLink, OrphanRestart
       DEF OrphanInv, PromptNext, Next, Timers
  <2> QED BY <2>2, <2>4
<1>3. OrphanInv => NoOrphan
    BY DEF OrphanInv
<1> QED BY <1>1, <1>2, <1>3, PTL DEF PromptSpec
==============================================================================
