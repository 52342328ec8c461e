--------------------------- MODULE Trunking_proofs ---------------------------
(***************************************************************************)
(* Proofs about Trunking, for every set of processes, trunk IDs,           *)
(* connections and configuration: type correctness, MapsAgree,             *)
(* RegisteredIsLive, and that the accepted side implements TrunkRegistry.  *)
(***************************************************************************)
EXTENDS Trunking, TLAPS

(* What the constants give the proofs. *)
LEMMA DialFields ==
    ASSUME NEW d \in Dials
    PROVE  d.by \in Procs /\ d.trunk \in TrunkIds /\ d.to \in Procs
BY DialsAssumption DEF Dial

LEMMA DialOfFound ==
    ASSUME NEW p \in Procs, NEW t \in Clients(p)
    PROVE  /\ t \in TrunkIds
           /\ DialOf(p, t) \in Dials
           /\ DialOf(p, t).by = p /\ DialOf(p, t).trunk = t
<1>1. PICK d \in Dials : d.by = p /\ d.trunk = t
    BY DEF Clients
<1>2. /\ DialOf(p, t) \in Dials
      /\ DialOf(p, t).by = p /\ DialOf(p, t).trunk = t
    BY <1>1 DEF DialOf
<1> QED BY <1>1, <1>2, DialFields

(* A constructed client gets the identity of one trunk only. *)
LEMMA RebuildIDs ==
    ASSUME NEW S, NEW G, NEW new \in Injection(S, G), NEW u \in S
    PROVE  /\ new[u] \in G
           /\ (CHOOSE t \in S : new[t] = new[u]) = u
<1>1. new \in [S -> G] /\ \A x, y \in S : new[x] = new[y] => x = y
    BY DEF Injection, IsInjective
<1> QED BY <1>1

(* The ends of a connection are processes, its ID is a trunk ID. *)
LEMMA EndTypes ==
    ASSUME TypeOK, NEW c \in Conns
    PROVE  dial[c] \in Dials /\ dial[c].by \in Procs /\ dial[c].to \in Procs
           /\ dial[c].trunk \in TrunkIds
BY DialFields DEF TypeOK

(* One entry of a registry is replaced. *)
LEMMA RegistryUpdate ==
    ASSUME TypeOK, NEW q \in Procs, NEW t, NEW c,
           NEW v \in Conns \cup {NoConn}, NEW w \in TrunkIds \cup {NoTrunk}
    PROVE  /\ [serversTrunkMap EXCEPT ![q][t] = v] \in [Procs -> [TrunkIds -> Conns \cup {NoConn}]]
           /\ [serversConnMap EXCEPT ![q][c] = w] \in [Procs -> [Conns -> TrunkIds \cup {NoTrunk}]]
<1>1. [serversTrunkMap EXCEPT ![q][t] = v] \in [Procs -> [TrunkIds -> Conns \cup {NoConn}]]
    BY DEF TypeOK
<1>2. [serversConnMap EXCEPT ![q][c] = w] \in [Procs -> [Conns -> TrunkIds \cup {NoTrunk}]]
    BY DEF TypeOK
<1> QED BY <1>1, <1>2

LEMMA ConfirmType ==
    ASSUME TypeOK, NEW p, NEW t, Confirm(p, t)
    PROVE  unconfirmedPings' \in [Procs -> SUBSET TrunkIds]
BY DEF Confirm, TypeOK

(* The registration and the removal of an accepted connection. *)
LEMMA UnregisterType ==
    ASSUME TypeOK, NEW q \in Procs, NEW c \in Conns, Unregister(q, c)
    PROVE  /\ serversTrunkMap' \in [Procs -> [TrunkIds -> Conns \cup {NoConn}]]
           /\ serversConnMap' \in [Procs -> [Conns -> TrunkIds \cup {NoTrunk}]]
<1>1. CASE serversConnMap[q][c] # NoTrunk
    <2>1. [serversTrunkMap EXCEPT ![q][serversConnMap[q][c]] = NoConn]
              \in [Procs -> [TrunkIds -> Conns \cup {NoConn}]]
        BY RegistryUpdate
    <2>2. [serversConnMap EXCEPT ![q][c] = NoTrunk] \in [Procs -> [Conns -> TrunkIds \cup {NoTrunk}]]
        BY RegistryUpdate
    <2> QED BY <1>1, <2>1, <2>2 DEF Unregister
<1> QED BY <1>1 DEF Unregister, TypeOK

LEMMA RegisterType ==
    ASSUME TypeOK, NEW q \in Procs, NEW c \in Conns, NEW t \in TrunkIds \cup {NoTrunk},
           RegisterOrRefuse(q, c, t)
    PROVE  /\ serversTrunkMap' \in [Procs -> [TrunkIds -> Conns \cup {NoConn}]]
           /\ serversConnMap' \in [Procs -> [Conns -> TrunkIds \cup {NoTrunk}]]
           /\ srvEnd' \in [Conns -> SrvState]
<1>1. CASE Known(q, t)
    BY <1>1 DEF RegisterOrRefuse, Close, TypeOK, SrvState
<1>2. CASE ~Known(q, t)
    <2>1. [serversTrunkMap EXCEPT ![q][t] = c] \in [Procs -> [TrunkIds -> Conns \cup {NoConn}]]
        BY RegistryUpdate
    <2>2. [serversConnMap EXCEPT ![q][c] = t] \in [Procs -> [Conns -> TrunkIds \cup {NoTrunk}]]
        BY RegistryUpdate
    <2> QED BY <1>2, <2>1, <2>2 DEF RegisterOrRefuse, TypeOK
<1> QED BY <1>1, <1>2

(* Every message written is a message. *)
LEMMA MessageTypes ==
    /\ Ping \in Msg /\ Pong \in Msg
    /\ Ping.kind # "announcement" /\ Pong.kind # "announcement"
    /\ \A t \in TrunkIds : Announcement(t) \in Msg
BY DEF Msg, Ping, Pong, Announcement

LEMMA WriteTypes ==
    ASSUME TypeOK, NEW c \in Conns, NEW m \in Msg
    PROVE  /\ WriteToServer(c, m) \in Seq(Msg)
           /\ WriteToClient(c, m) \in Seq(Msg)
BY DEF TypeOK, WriteToServer, WriteToClient

-----------------------------------------------------------------------------
(* Type correctness, one lemma per callback.                               *)

LEMMA TypeSetup ==
    ASSUME TypeOK, NEW p \in Procs, SetupTrunks(p)
    PROVE  TypeOK'
<1> DEFINE build == Broken(p) \cup Missing(p)
<1>1. PICK new \in Injection(build, {c \in Conns : Garbage(c)}) : Rebuild(p, new)
    BY DEF SetupTrunks
<1> DEFINE ID(c) == CHOOSE t \in build : new[t] = c
<1>2. build \subseteq Clients(p) /\ build \subseteq TrunkIds
    BY DialOfFound DEF Broken, Missing
<1>3. \A t \in build : new[t] \in Conns
    BY RebuildIDs
<1>4. \A c \in {new[t] : t \in build} : /\ ID(c) \in TrunkIds
                                       /\ DialOf(p, ID(c)) \in Dials
    BY <1>2, RebuildIDs, DialOfFound
<1>5. clientsTrunkMap' \in [Procs -> [TrunkIds -> Conns \cup {NoConn}]]
    BY <1>1, <1>2, <1>3 DEF Rebuild, TypeOK
<1>6. clientsConnMap' \in [Procs -> [Conns -> TrunkIds \cup {NoTrunk}]]
    <2> DEFINE table == [c \in Conns |->
                  IF c \in {new[t] : t \in build} THEN ID(c)
                  ELSE IF c \in {clientsTrunkMap[p][t] : t \in Broken(p)} THEN NoTrunk
                  ELSE clientsConnMap[p][c]]
    <2> HIDE DEF ID, build
    <2>1. table \in [Conns -> TrunkIds \cup {NoTrunk}]
        BY <1>4 DEF TypeOK
    <2> USE DEF ID, build
    <2>2. clientsConnMap' = [clientsConnMap EXCEPT ![p] = table]
        BY <1>1 DEF Rebuild
    <2> QED BY <2>1, <2>2 DEF TypeOK
<1>7. dial' \in [Conns -> Dials]
    BY <1>1, <1>4 DEF Rebuild, TypeOK
<1>8. cliEnd' \in [Conns -> CliState] /\ cliPing' \in [Conns -> TrunkIds \cup {NoTrunk}]
    BY <1>1 DEF Rebuild, Close, TypeOK, CliState
<1> QED BY <1>5, <1>6, <1>7, <1>8 DEF SetupTrunks, TypeOK

LEMMA TypeMonitor ==
    ASSUME TypeOK, NEW p \in Procs, MonitorTrunks(p)
    PROVE  TypeOK'
<1>1. DueClients(p) \subseteq TrunkIds /\ DueServers(p) \subseteq TrunkIds
    BY DEF DueClients, DueServers
<1>2. /\ unconfirmedPings' \in [Procs -> SUBSET TrunkIds]
      /\ upcomingPings' \in [Procs -> [TrunkIds -> Nat]]
    <2>1. \A t \in TrunkIds : TicksLeft(p, t) \in Nat
        BY DEF TicksLeft, TypeOK
    <2> QED BY <1>1, <2>1, PingPeriodAssumption DEF MonitorTrunks, TypeOK
<1>3. /\ clientsTrunkMap' \in [Procs -> [TrunkIds -> Conns \cup {NoConn}]]
      /\ serversTrunkMap' \in [Procs -> [TrunkIds -> Conns \cup {NoConn}]]
      /\ clientsConnMap' \in [Procs -> [Conns -> TrunkIds \cup {NoTrunk}]]
      /\ serversConnMap' \in [Procs -> [Conns -> TrunkIds \cup {NoTrunk}]]
    BY DEF MonitorTrunks, TypeOK
<1>4. cliEnd' \in [Conns -> CliState] /\ srvEnd' \in [Conns -> SrvState]
    BY DEF MonitorTrunks, Close, TypeOK, CliState, SrvState
<1>5. /\ cliPing' \in [Conns -> TrunkIds \cup {NoTrunk}]
      /\ srvPing' \in [Conns -> TrunkIds \cup {NoTrunk}]
    BY DEF MonitorTrunks, TypeOK
<1>6. toServer' \in [Conns -> Seq(Msg)] /\ toClient' \in [Conns -> Seq(Msg)]
    BY MessageTypes, WriteTypes DEF MonitorTrunks, TypeOK
<1> QED BY <1>2, <1>3, <1>4, <1>5, <1>6 DEF MonitorTrunks, TypeOK

LEMMA TypeLink ==
    ASSUME TypeOK, NEW c \in Conns, Link(c)
    PROVE  TypeOK'
<1>1. CASE ClientConnectionMade(c)
    <2>1. Announcement(dial[c].trunk) \in Msg
        BY MessageTypes, DialFields DEF TypeOK
    <2> QED BY <1>1, <2>1
            DEF ClientConnectionMade, TypeOK, CliState, SrvState, registry, pings
<1>2. CASE ServerConnectionMade(c)
    BY <1>2 DEF ServerConnectionMade, TypeOK, SrvState, registry
<1>3. CASE ConnectFails(c)
    BY <1>3 DEF ConnectFails, TypeOK, CliState, registry, pings
<1>4. CASE ClientConnectionLost(c)
    BY <1>4 DEF ClientConnectionLost, TypeOK, CliState, registry, pings
<1>5. CASE ServerConnectionLost(c)
    <2>1. dial[c].to \in Procs
        BY DialFields DEF TypeOK
    <2>2. /\ serversTrunkMap' \in [Procs -> [TrunkIds -> Conns \cup {NoConn}]]
          /\ serversConnMap' \in [Procs -> [Conns -> TrunkIds \cup {NoTrunk}]]
        BY <1>5, <2>1, UnregisterType DEF ServerConnectionLost
    <2> QED BY <1>5, <2>2 DEF ServerConnectionLost, TypeOK, SrvState, pings
<1> QED BY <1>1, <1>2, <1>3, <1>4, <1>5 DEF Link

LEMMA TypeClientData ==
    ASSUME TypeOK, NEW c \in Conns, ClientDataReceived(c)
    PROVE  TypeOK'
<1>1. Tail(toClient[c]) \in Seq(Msg)
    BY DEF ClientDataReceived, TypeOK
<1>2. CASE ClientReceivesPing(c)
    BY <1>1, <1>2, MessageTypes, WriteTypes
    DEF ClientDataReceived, ClientReceivesPing, TypeOK, registry, pings
<1>3. CASE ClientReceivesPong(c)
    <2>1. cliPing' \in [Conns -> TrunkIds \cup {NoTrunk}]
        BY <1>3 DEF ClientReceivesPong, TypeOK
    <2>2. unconfirmedPings' \in [Procs -> SUBSET TrunkIds]
        BY <1>3, ConfirmType DEF ClientReceivesPong, TypeOK
    <2> QED BY <1>1, <1>3, <2>1, <2>2 DEF ClientDataReceived, ClientReceivesPong, TypeOK, registry
<1> QED BY <1>2, <1>3 DEF ClientDataReceived

LEMMA TypeServerData ==
    ASSUME TypeOK, NEW c \in Conns, ServerDataReceived(c)
    PROVE  TypeOK'
<1>1. Tail(toServer[c]) \in Seq(Msg) /\ Head(toServer[c]) \in Msg
    BY DEF ServerDataReceived, TypeOK
<1>2. CASE ServerReceivesAnnouncement(c)
    <2>1. Head(toServer[c]).trunk \in TrunkIds \cup {NoTrunk}
        BY <1>1 DEF Msg
    <2>2. /\ serversTrunkMap' \in [Procs -> [TrunkIds -> Conns \cup {NoConn}]]
          /\ serversConnMap' \in [Procs -> [Conns -> TrunkIds \cup {NoTrunk}]]
          /\ srvEnd' \in [Conns -> SrvState]
        BY <1>2, <2>1, EndTypes, RegisterType DEF ServerReceivesAnnouncement
    <2> QED BY <1>1, <1>2, <2>2
            DEF ServerDataReceived, ServerReceivesAnnouncement, TypeOK, pings
<1>3. CASE ServerReceivesPing(c)
    BY <1>1, <1>3, MessageTypes, WriteTypes
    DEF ServerDataReceived, ServerReceivesPing, TypeOK, pings
<1>4. CASE ServerReceivesPong(c)
    <2>1. srvPing' \in [Conns -> TrunkIds \cup {NoTrunk}]
        BY <1>4 DEF ServerReceivesPong, TypeOK
    <2>2. unconfirmedPings' \in [Procs -> SUBSET TrunkIds]
        BY <1>4, ConfirmType DEF ServerReceivesPong, TypeOK
    <2> QED BY <1>1, <1>4, <2>1, <2>2 DEF ServerDataReceived, ServerReceivesPong, TypeOK
<1> QED BY <1>2, <1>3, <1>4 DEF ServerDataReceived

LEMMA TypeRestart ==
    ASSUME TypeOK, NEW p \in Procs, Restart(p)
    PROVE  TypeOK'
BY DEF Restart, TypeOK, CliState, SrvState, NoConns, NoTrunks

LEMMA TypeInit == Init => TypeOK
<1>1. (CHOOSE d \in Dials : TRUE) \in Dials
    BY DialsAssumption
<1> QED BY <1>1 DEF Init, TypeOK, CliState, SrvState, NoConns, NoTrunks

(* Every variable keeps its type: the tables always map known IDs and      *)
(* connections, and channels carry messages only.                          *)
THEOREM TypeCorrect == Spec => []TypeOK
<1>1. TypeOK /\ [Next]_vars => TypeOK'
    <2>1. TypeOK /\ UNCHANGED vars => TypeOK'
        BY DEF TypeOK, vars, registry, pings, links
    <2> QED BY <2>1, TypeSetup, TypeMonitor, TypeLink, TypeClientData, TypeServerData,
               TypeRestart DEF Next, Timers
<1> QED BY TypeInit, <1>1, PTL DEF Spec

-----------------------------------------------------------------------------
(* The inductive invariant. SetupTrunks gives new clients identities that  *)
(* nothing refers to, so it disturbs neither the other entries of the      *)
(* client tables nor the accepted side.                                    *)

LEMMA InvSetup ==
    ASSUME IInv, NEW p \in Procs, SetupTrunks(p)
    PROVE  IInv'
<1> DEFINE build == Broken(p) \cup Missing(p)
<1>1. PICK new \in Injection(build, {c \in Conns : Garbage(c)}) : Rebuild(p, new)
    BY DEF SetupTrunks
<1> DEFINE made == {new[t] : t \in build}
           ID(c) == CHOOSE t \in build : new[t] = c
<1>2. /\ build \subseteq TrunkIds
      /\ \A t \in build : new[t] \in Conns /\ Garbage(new[t]) /\ ID(new[t]) = t
    BY DialOfFound, RebuildIDs DEF Broken, Missing
<1>3. \A c \in made : /\ c \in Conns /\ srvEnd[c] = "down" /\ toServer[c] = <<>>
                      /\ \A q \in Procs : /\ clientsConnMap[q][c] = NoTrunk
                                          /\ serversConnMap[q][c] = NoTrunk
    BY <1>2 DEF Garbage, Registered, IInv, UnacceptedIsIdle
<1>4. TypeOK'
    BY TypeSetup DEF IInv
<1>5. MapsAgree'
  <2>1. ASSUME NEW q \in Procs, q # p
        PROVE  clientsTrunkMap'[q] = clientsTrunkMap[q] /\ clientsConnMap'[q] = clientsConnMap[q]
    BY <1>1, <2>1 DEF Rebuild, IInv, TypeOK
  <2> DEFINE trunkMap == clientsTrunkMap[p]
             connMap == clientsConnMap[p]
  <2>2. /\ \A t \in TrunkIds : trunkMap[t] # NoConn => trunkMap[t] \in Conns /\ connMap[trunkMap[t]] = t
        /\ \A c \in Conns : connMap[c] # NoTrunk => connMap[c] \in TrunkIds /\ trunkMap[connMap[c]] = c
    BY DEF IInv, TypeOK, MapsAgree, Inverse1to1
  <2>3. /\ \A t \in TrunkIds : clientsTrunkMap'[p][t] = IF t \in build THEN new[t] ELSE trunkMap[t]
        /\ \A c \in Conns : clientsConnMap'[p][c] =
                IF c \in made THEN ID(c)
                ELSE IF \E t \in Broken(p) : trunkMap[t] = c THEN NoTrunk ELSE connMap[c]
    BY <1>1 DEF Rebuild, IInv, TypeOK
  <2>4. \A t \in Missing(p) : trunkMap[t] = NoConn
    BY DEF Missing
  <2> HIDE DEF build, made, ID, trunkMap, connMap
  <2>5. ASSUME NEW t \in TrunkIds, clientsTrunkMap'[p][t] # NoConn
        PROVE  clientsConnMap'[p][clientsTrunkMap'[p][t]] = t
    <3>1. CASE t \in build
        BY <1>2, <2>3, <3>1 DEF made
    <3>2. CASE t \notin build
      <4>1. trunkMap[t] \in Conns /\ connMap[trunkMap[t]] = t /\ clientsTrunkMap'[p][t] = trunkMap[t]
        BY <2>2, <2>3, <2>5, <3>2
      <4>2. trunkMap[t] \notin made
        BY <1>3, <4>1, NoneAssumption DEF connMap
      <4>3. ~\E u \in Broken(p) : trunkMap[u] = trunkMap[t]
        BY <1>2, <2>2, <3>2, <4>1, NoneAssumption DEF build
      <4> QED BY <2>3, <4>1, <4>2, <4>3
    <3> QED BY <3>1, <3>2
  <2>6. ASSUME NEW c \in Conns, clientsConnMap'[p][c] # NoTrunk
        PROVE  clientsTrunkMap'[p][clientsConnMap'[p][c]] = c
    <3>1. CASE c \in made
        BY <1>2, <2>3, <3>1 DEF made
    <3>2. CASE c \notin made
      <4>1. /\ clientsConnMap'[p][c] = connMap[c] /\ connMap[c] # NoTrunk
            /\ ~\E t \in Broken(p) : trunkMap[t] = c
        BY <2>3, <2>6, <3>2
      <4>2. connMap[c] \in TrunkIds /\ trunkMap[connMap[c]] = c
        BY <2>2, <4>1
      <4>3. connMap[c] \notin build
        BY <2>4, <4>1, <4>2, NoneAssumption DEF build
      <4> QED BY <2>3, <4>1, <4>2, <4>3
    <3> QED BY <3>1, <3>2
  <2>7. Inverse1to1(clientsTrunkMap[p], clientsConnMap[p])'
    BY <2>5, <2>6 DEF Inverse1to1
  <2> QED BY <2>1, <2>7 DEF IInv, MapsAgree, Inverse1to1, SetupTrunks
<1>6. \A c \in Conns : c \notin made => dial'[c] = dial[c] /\ cliEnd'[c] = cliEnd[c]
    BY <1>1 DEF Rebuild, Close, Broken, isUp
<1> HIDE DEF made
<1>7. RegisteredIsLive'
    BY <1>3, <1>6 DEF IInv, RegisteredIsLive, SetupTrunks
<1>8. AnnouncedOnce'
    BY <1>3, <1>6 DEF IInv, AnnouncedOnce, SetupTrunks
<1>9. UnacceptedIsIdle'
    BY <1>3, <1>6 DEF IInv, UnacceptedIsIdle, SetupTrunks
<1> QED BY <1>4, <1>5, <1>7, <1>8, <1>9 DEF IInv

(* MonitorTrunks removes an ID and its connection together from both       *)
(* tables of a role, and writes nothing but pings.                         *)
LEMMA InvMonitor ==
    ASSUME IInv, NEW p \in Procs, MonitorTrunks(p)
    PROVE  IInv'
<1>1. TypeOK'
    BY TypeMonitor DEF IInv
<1>2. MapsAgree'
  <2>1. ASSUME NEW q \in Procs, q # p
        PROVE  /\ clientsTrunkMap'[q] = clientsTrunkMap[q] /\ clientsConnMap'[q] = clientsConnMap[q]
               /\ serversTrunkMap'[q] = serversTrunkMap[q] /\ serversConnMap'[q] = serversConnMap[q]
    BY <2>1 DEF MonitorTrunks, IInv, TypeOK
  <2>2. Inverse1to1(clientsTrunkMap[p], clientsConnMap[p])'
    <3>1. DroppedClients(p) \subseteq TrunkIds /\ \A t \in DroppedClients(p) : clientsTrunkMap[p][t] # NoConn
        BY DEF DroppedClients, DueClients
    <3>2. /\ clientsTrunkMap'[p] = [t \in TrunkIds |-> IF t \in DroppedClients(p) THEN NoConn
                                                       ELSE clientsTrunkMap[p][t]]
          /\ clientsConnMap'[p] = [c \in Conns |-> IF c \in ClosedClients(p) THEN NoTrunk
                                                   ELSE clientsConnMap[p][c]]
        BY DEF MonitorTrunks, IInv, TypeOK
    <3>3. /\ clientsTrunkMap[p] \in [TrunkIds -> Conns \cup {NoConn}]
          /\ clientsConnMap[p] \in [Conns -> TrunkIds \cup {NoTrunk}]
          /\ Inverse1to1(clientsTrunkMap[p], clientsConnMap[p])
        BY DEF IInv, TypeOK, MapsAgree
    <3>4. \A t \in TrunkIds : clientsTrunkMap'[p][t] # NoConn
               => clientsConnMap'[p][clientsTrunkMap'[p][t]] = t
        BY <3>1, <3>2, <3>3, NoneAssumption DEF Inverse1to1, ClosedClients
    <3>5. \A c \in Conns : clientsConnMap'[p][c] # NoTrunk
               => clientsTrunkMap'[p][clientsConnMap'[p][c]] = c
        BY <3>1, <3>2, <3>3, NoneAssumption DEF Inverse1to1, ClosedClients
    <3> QED BY <3>4, <3>5 DEF Inverse1to1
  <2>3. Inverse1to1(serversTrunkMap[p], serversConnMap[p])'
    <3>1. DroppedServers(p) \subseteq TrunkIds /\ \A t \in DroppedServers(p) : serversTrunkMap[p][t] # NoConn
        BY DEF DroppedServers, DueServers
    <3>2. /\ serversTrunkMap'[p] = [t \in TrunkIds |-> IF t \in DroppedServers(p) THEN NoConn
                                                       ELSE serversTrunkMap[p][t]]
          /\ serversConnMap'[p] = [c \in Conns |-> IF c \in ClosedServers(p) THEN NoTrunk
                                                   ELSE serversConnMap[p][c]]
        BY DEF MonitorTrunks, IInv, TypeOK
    <3>3. /\ serversTrunkMap[p] \in [TrunkIds -> Conns \cup {NoConn}]
          /\ serversConnMap[p] \in [Conns -> TrunkIds \cup {NoTrunk}]
          /\ Inverse1to1(serversTrunkMap[p], serversConnMap[p])
        BY DEF IInv, TypeOK, MapsAgree
    <3>4. \A t \in TrunkIds : serversTrunkMap'[p][t] # NoConn
               => serversConnMap'[p][serversTrunkMap'[p][t]] = t
        BY <3>1, <3>2, <3>3, NoneAssumption DEF Inverse1to1, ClosedServers
    <3>5. \A c \in Conns : serversConnMap'[p][c] # NoTrunk
               => serversTrunkMap'[p][serversConnMap'[p][c]] = c
        BY <3>1, <3>2, <3>3, NoneAssumption DEF Inverse1to1, ClosedServers
    <3> QED BY <3>4, <3>5 DEF Inverse1to1
  <2> QED BY <2>1, <2>2, <2>3 DEF IInv, MapsAgree, Inverse1to1
<1>3. \A q \in Procs, c \in Conns :
        serversConnMap'[q][c] # NoTrunk => serversConnMap'[q][c] = serversConnMap[q][c]
    BY DEF MonitorTrunks, IInv, TypeOK
<1>4. RegisteredIsLive'
  <2>1. \A c \in Conns : srvEnd[c] \in {"open", "closing"} => srvEnd'[c] \in {"open", "closing"}
    BY DEF MonitorTrunks, Close, IInv, TypeOK
  <2> QED BY <1>3, <2>1 DEF IInv, RegisteredIsLive, MonitorTrunks
<1>5. AnnouncedOnce'
  <2>1. ASSUME NEW c \in Conns, NEW i \in DOMAIN toServer'[c],
               toServer'[c][i].kind = "announcement"
        PROVE  i \in DOMAIN toServer[c] /\ toServer'[c][i] = toServer[c][i]
    <3>1. toServer'[c] = toServer[c] \/ toServer'[c] = Append(toServer[c], Ping)
        BY DEF MonitorTrunks, WriteToServer
    <3>2. toServer[c] \in Seq(Msg)
        BY DEF IInv, TypeOK
    <3> QED BY <2>1, <3>1, <3>2, MessageTypes
  <2> QED BY <1>3, <2>1 DEF IInv, AnnouncedOnce, MonitorTrunks
<1>6. UnacceptedIsIdle'
  <2>1. \A c \in Conns : /\ srvEnd'[c] = "down" <=> srvEnd[c] = "down"
                         /\ cliEnd'[c] = "connecting" <=> cliEnd[c] = "connecting"
    BY DEF MonitorTrunks, Close, IInv, TypeOK
  <2>2. \A c \in Conns : srvEnd[c] = "down" => toServer'[c] = toServer[c]
    BY DEF MonitorTrunks, WriteToServer, ServerReads
  <2> QED BY <2>1, <2>2 DEF IInv, UnacceptedIsIdle
<1> QED BY <1>1, <1>2, <1>4, <1>5, <1>6 DEF IInv

LEMMA InvRestart ==
    ASSUME IInv, NEW p \in Procs, Restart(p)
    PROVE  IInv'
<1>1. TypeOK'
    BY TypeRestart DEF IInv
<1>2. MapsAgree'
  <2>1. ASSUME NEW q \in Procs, q # p
        PROVE  /\ clientsTrunkMap'[q] = clientsTrunkMap[q] /\ clientsConnMap'[q] = clientsConnMap[q]
               /\ serversTrunkMap'[q] = serversTrunkMap[q] /\ serversConnMap'[q] = serversConnMap[q]
    BY <2>1 DEF Restart, IInv, TypeOK
  <2>2. /\ clientsTrunkMap'[p] = NoConns /\ clientsConnMap'[p] = NoTrunks
        /\ serversTrunkMap'[p] = NoConns /\ serversConnMap'[p] = NoTrunks
    BY DEF Restart, IInv, TypeOK
  <2> QED BY <2>1, <2>2 DEF IInv, MapsAgree, Inverse1to1, NoConns, NoTrunks
<1>3. \A q \in Procs, c \in Conns :
        serversConnMap'[q][c] = IF q = p THEN NoTrunk ELSE serversConnMap[q][c]
    BY DEF Restart, IInv, TypeOK, NoTrunks
<1>4. RegisteredIsLive'
    BY <1>3 DEF IInv, RegisteredIsLive, Restart
<1>5. AnnouncedOnce'
    BY <1>3 DEF IInv, AnnouncedOnce, Restart
<1>6. UnacceptedIsIdle'
    BY DEF IInv, UnacceptedIsIdle, Restart
<1> QED BY <1>1, <1>2, <1>4, <1>5, <1>6 DEF IInv

(* Unregistering removes the connection and its ID, and nothing else.      *)
LEMMA UnregisterEffect ==
    ASSUME IInv, NEW q \in Procs, NEW c \in Conns, Unregister(q, c)
    PROVE  /\ \A p \in Procs, d \in Conns :
                 serversConnMap'[p][d] = IF p = q /\ d = c THEN NoTrunk ELSE serversConnMap[p][d]
           /\ \A p \in Procs, t \in TrunkIds :
                 serversTrunkMap'[p][t] = IF p = q /\ serversTrunkMap[p][t] = c
                                          THEN NoConn ELSE serversTrunkMap[p][t]
<1>1. /\ serversTrunkMap \in [Procs -> [TrunkIds -> Conns \cup {NoConn}]]
      /\ serversConnMap \in [Procs -> [Conns -> TrunkIds \cup {NoTrunk}]]
      /\ Inverse1to1(serversTrunkMap[q], serversConnMap[q])
    BY DEF IInv, TypeOK, MapsAgree
<1>2. \A t \in TrunkIds : serversTrunkMap[q][t] = c <=> serversConnMap[q][c] = t
    BY <1>1, NoneAssumption DEF Inverse1to1
<1>3. CASE serversConnMap[q][c] # NoTrunk
    BY <1>1, <1>2, <1>3 DEF Unregister
<1>4. CASE serversConnMap[q][c] = NoTrunk
    BY <1>1, <1>2, <1>4, NoneAssumption DEF Unregister
<1> QED BY <1>3, <1>4

LEMMA InvServerLost ==
    ASSUME IInv, NEW c \in Conns, ServerConnectionLost(c)
    PROVE  IInv'
<1>1. TypeOK'
    BY TypeLink DEF IInv, Link
<1> DEFINE q == dial[c].to
<1>2. q \in Procs
    BY EndTypes DEF IInv
<1>3. /\ \A p \in Procs, d \in Conns :
            serversConnMap'[p][d] = IF p = q /\ d = c THEN NoTrunk ELSE serversConnMap[p][d]
      /\ \A p \in Procs, t \in TrunkIds :
            serversTrunkMap'[p][t] = IF p = q /\ serversTrunkMap[p][t] = c
                                     THEN NoConn ELSE serversTrunkMap[p][t]
    BY <1>2, UnregisterEffect DEF ServerConnectionLost
<1> HIDE DEF q
<1>4. MapsAgree'
  <2>1. \A p \in Procs : Inverse1to1(clientsTrunkMap[p], clientsConnMap[p])'
    BY DEF IInv, MapsAgree, Inverse1to1, ServerConnectionLost
  <2>2. ASSUME NEW p \in Procs
        PROVE  Inverse1to1(serversTrunkMap[p], serversConnMap[p])'
    <3>1. /\ serversTrunkMap[p] \in [TrunkIds -> Conns \cup {NoConn}]
          /\ serversConnMap[p] \in [Conns -> TrunkIds \cup {NoTrunk}]
          /\ Inverse1to1(serversTrunkMap[p], serversConnMap[p])
        BY DEF IInv, TypeOK, MapsAgree
    <3>2. \A t \in TrunkIds : serversTrunkMap'[p][t] # NoConn
               => serversConnMap'[p][serversTrunkMap'[p][t]] = t
        BY <1>3, <3>1, NoneAssumption DEF Inverse1to1
    <3>3. \A d \in Conns : serversConnMap'[p][d] # NoTrunk
               => serversTrunkMap'[p][serversConnMap'[p][d]] = d
        BY <1>3, <3>1, NoneAssumption DEF Inverse1to1
    <3> QED BY <3>2, <3>3 DEF Inverse1to1
  <2> QED BY <2>1, <2>2 DEF MapsAgree
<1>5. RegisteredIsLive'
  <2>1. \A p \in Procs : serversConnMap'[p][c] = NoTrunk
    BY <1>3 DEF IInv, RegisteredIsLive, q
  <2> QED BY <1>3, <2>1 DEF IInv, TypeOK, RegisteredIsLive, ServerConnectionLost
<1>6. AnnouncedOnce'
    BY <1>3 DEF IInv, TypeOK, AnnouncedOnce, ServerConnectionLost
<1>7. UnacceptedIsIdle'
    BY DEF IInv, TypeOK, UnacceptedIsIdle, ServerConnectionLost
<1> QED BY <1>1, <1>4, <1>5, <1>6, <1>7 DEF IInv

LEMMA InvLink ==
    ASSUME IInv, NEW c \in Conns, Link(c)
    PROVE  IInv'
<1>1. CASE ServerConnectionLost(c)
    BY <1>1, InvServerLost
<1>2. CASE ~ServerConnectionLost(c)
  <2>1. TypeOK'
    BY TypeLink DEF IInv
  <2>2. UNCHANGED <<registry, dial>>
    BY <1>2 DEF Link, ClientConnectionMade, ServerConnectionMade, ConnectFails, ClientConnectionLost
  <2>3. MapsAgree'
    BY <2>2 DEF IInv, MapsAgree, Inverse1to1, registry
  <2>4. CASE ClientConnectionMade(c)
    <3>1. \A q \in Procs : serversConnMap[q][c] = NoTrunk
        BY <2>4 DEF IInv, RegisteredIsLive, UnacceptedIsIdle, ClientConnectionMade
    <3>2. RegisteredIsLive'
        BY <2>2, <2>4, <3>1 DEF IInv, TypeOK, RegisteredIsLive, ClientConnectionMade, registry
    <3>3. AnnouncedOnce'
        BY <2>2, <2>4, <3>1 DEF IInv, TypeOK, AnnouncedOnce, ClientConnectionMade, registry, Announcement
    <3>4. UnacceptedIsIdle'
        BY <2>4 DEF IInv, TypeOK, UnacceptedIsIdle, ClientConnectionMade
    <3> QED BY <2>1, <2>3, <3>2, <3>3, <3>4 DEF IInv
  <2>5. CASE ServerConnectionMade(c) \/ ConnectFails(c) \/ ClientConnectionLost(c)
    <3>1. UNCHANGED toServer
        BY <2>5 DEF ServerConnectionMade, ConnectFails, ClientConnectionLost
    <3>2. RegisteredIsLive'
        BY <2>2, <2>5 DEF IInv, TypeOK, RegisteredIsLive, registry,
                          ServerConnectionMade, ConnectFails, ClientConnectionLost
    <3>3. AnnouncedOnce'
        BY <2>2, <3>1 DEF IInv, AnnouncedOnce, registry
    <3>4. UnacceptedIsIdle'
        BY <2>5, <3>1 DEF IInv, TypeOK, UnacceptedIsIdle,
                          ServerConnectionMade, ConnectFails, ClientConnectionLost
    <3> QED BY <2>1, <2>3, <3>2, <3>3, <3>4 DEF IInv
  <2> QED BY <1>2, <2>4, <2>5 DEF Link
<1> QED BY <1>1, <1>2

LEMMA InvClientData ==
    ASSUME IInv, NEW c \in Conns, ClientDataReceived(c)
    PROVE  IInv'
<1>1. TypeOK'
    BY TypeClientData DEF IInv
<1>2. UNCHANGED <<registry, dial, cliEnd, srvEnd>>
    BY DEF ClientDataReceived
<1>3. \A d \in Conns :
        \/ toServer'[d] = toServer[d]
        \/ srvEnd[d] # "down" /\ toServer'[d] = Append(toServer[d], Pong)
  <2>1. CASE ClientReceivesPing(c)
    <3>1. /\ toServer' = [toServer EXCEPT ![c] = WriteToServer(c, Pong)]
          /\ toServer \in [Conns -> Seq(Msg)]
        BY <2>1 DEF ClientReceivesPing, IInv, TypeOK
    <3>2. \/ WriteToServer(c, Pong) = toServer[c]
          \/ srvEnd[c] # "down" /\ WriteToServer(c, Pong) = Append(toServer[c], Pong)
        BY DEF WriteToServer, ServerReads
    <3> QED BY <3>1, <3>2
  <2>2. CASE ClientReceivesPong(c)
    <3>1. UNCHANGED toServer
        BY <2>2 DEF ClientReceivesPong
    <3> QED BY <3>1
  <2> QED BY <2>1, <2>2 DEF ClientDataReceived
<1>4. MapsAgree' /\ RegisteredIsLive'
    BY <1>2 DEF IInv, MapsAgree, Inverse1to1, RegisteredIsLive, registry
<1>5. AnnouncedOnce'
  <2>1. ASSUME NEW d \in Conns, NEW i \in DOMAIN toServer'[d],
               toServer'[d][i].kind = "announcement"
        PROVE  i \in DOMAIN toServer[d] /\ toServer'[d][i] = toServer[d][i]
    <3>1. toServer[d] \in Seq(Msg)
        BY DEF IInv, TypeOK
    <3> QED BY <1>3, <2>1, <3>1, MessageTypes
  <2> QED BY <1>2, <2>1 DEF IInv, AnnouncedOnce, registry
<1>6. UnacceptedIsIdle'
    BY <1>2, <1>3 DEF IInv, UnacceptedIsIdle
<1> QED BY <1>1, <1>4, <1>5, <1>6 DEF IInv

(* A registration: the ID was free, and the link, whose announcement was   *)
(* still unread, was registered nowhere; the rest of the channel holds no  *)
(* announcement.                                                           *)
LEMMA TailHasNoAnnouncement ==
    ASSUME IInv, NEW c \in Conns, toServer[c] # <<>>,
           NEW i \in DOMAIN Tail(toServer[c])
    PROVE  Tail(toServer[c])[i].kind # "announcement"
<1>1. toServer[c] \in Seq(Msg)
    BY DEF IInv, TypeOK
<1>2. i + 1 \in DOMAIN toServer[c] /\ Tail(toServer[c])[i] = toServer[c][i + 1] /\ i + 1 # 1
    BY <1>1
<1> QED BY <1>2 DEF IInv, AnnouncedOnce

LEMMA AnnouncementEffect ==
    ASSUME IInv, NEW c \in Conns, srvEnd[c] = "open", toServer[c] # <<>>,
           ServerReceivesAnnouncement(c)
    PROVE  LET q == dial[c].to
               t == dial[c].trunk
           IN /\ \A p \in Procs : serversConnMap[p][c] = NoTrunk
              /\ \/ /\ UNCHANGED <<serversTrunkMap, serversConnMap>>
                    /\ srvEnd' = Close(srvEnd, {c})
                 \/ /\ serversTrunkMap[q][t] = NoConn
                    /\ serversTrunkMap' = [serversTrunkMap EXCEPT ![q][t] = c]
                    /\ serversConnMap' = [serversConnMap EXCEPT ![q][c] = t]
                    /\ UNCHANGED srvEnd
<1>1. toServer[c] \in Seq(Msg) /\ 1 \in DOMAIN toServer[c] /\ Head(toServer[c]) = toServer[c][1]
    BY DEF IInv, TypeOK
<1>2. /\ \A p \in Procs : serversConnMap[p][c] = NoTrunk
      /\ Head(toServer[c]).trunk = dial[c].trunk
    BY <1>1 DEF ServerReceivesAnnouncement, IInv, AnnouncedOnce
<1> QED BY <1>2 DEF ServerReceivesAnnouncement, RegisterOrRefuse, Known

LEMMA InvServerData ==
    ASSUME IInv, NEW c \in Conns, ServerDataReceived(c)
    PROVE  IInv'
<1>1. TypeOK'
    BY TypeServerData DEF IInv
<1>2. /\ UNCHANGED <<clientsTrunkMap, clientsConnMap, dial, cliEnd>>
      /\ toServer' = [toServer EXCEPT ![c] = Tail(@)]
      /\ srvEnd[c] = "open" /\ toServer[c] # <<>>
    BY DEF ServerDataReceived
<1>3. \A d \in Conns : \A i \in DOMAIN toServer'[d] :
        toServer'[d][i].kind = "announcement" =>
            d # c /\ i \in DOMAIN toServer[d] /\ toServer'[d][i] = toServer[d][i]
    BY <1>2, TailHasNoAnnouncement DEF IInv, TypeOK
<1>4. CASE ServerReceivesPing(c) \/ ServerReceivesPong(c)
  <2>1. UNCHANGED <<serversTrunkMap, serversConnMap, srvEnd>>
    BY <1>4 DEF ServerReceivesPing, ServerReceivesPong
  <2>2. MapsAgree' /\ RegisteredIsLive'
    BY <1>2, <2>1 DEF IInv, MapsAgree, Inverse1to1, RegisteredIsLive
  <2>3. AnnouncedOnce'
    BY <1>2, <1>3, <2>1 DEF IInv, AnnouncedOnce
  <2>4. UnacceptedIsIdle'
    BY <1>2, <2>1 DEF IInv, TypeOK, UnacceptedIsIdle
  <2> QED BY <1>1, <2>2, <2>3, <2>4 DEF IInv
<1>5. CASE ServerReceivesAnnouncement(c)
  <2> DEFINE q == dial[c].to
             t == dial[c].trunk
  <2>1. q \in Procs /\ t \in TrunkIds
    BY EndTypes DEF IInv
  <2>2. \A p \in Procs : serversConnMap[p][c] = NoTrunk
    BY <1>2, <1>5, AnnouncementEffect
  <2>3. UnacceptedIsIdle'
    BY <1>2, <1>5, AnnouncementEffect DEF IInv, TypeOK, UnacceptedIsIdle, Close
  <2>4. CASE UNCHANGED <<serversTrunkMap, serversConnMap>>
             /\ srvEnd' = Close(srvEnd, {c})
    <3>1. MapsAgree'
        BY <1>2, <2>4 DEF IInv, MapsAgree, Inverse1to1
    <3>2. RegisteredIsLive'
        BY <1>2, <2>4 DEF IInv, TypeOK, RegisteredIsLive, Close
    <3>3. AnnouncedOnce'
        BY <1>2, <1>3, <2>4 DEF IInv, AnnouncedOnce
    <3> QED BY <1>1, <2>3, <3>1, <3>2, <3>3 DEF IInv
  <2>5. CASE /\ serversTrunkMap[q][t] = NoConn
             /\ serversTrunkMap' = [serversTrunkMap EXCEPT ![q][t] = c]
             /\ serversConnMap' = [serversConnMap EXCEPT ![q][c] = t]
             /\ UNCHANGED srvEnd
    <3> HIDE DEF q, t
    <3>1. /\ \A p \in Procs, u \in TrunkIds :
                serversTrunkMap'[p][u] = IF p = q /\ u = t THEN c ELSE serversTrunkMap[p][u]
          /\ \A p \in Procs, d \in Conns :
                serversConnMap'[p][d] = IF p = q /\ d = c THEN t ELSE serversConnMap[p][d]
        BY <2>5 DEF IInv, TypeOK
    <3>2. ASSUME NEW p \in Procs
          PROVE  Inverse1to1(serversTrunkMap[p], serversConnMap[p])'
      <4>1. /\ serversTrunkMap[p] \in [TrunkIds -> Conns \cup {NoConn}]
            /\ serversConnMap[p] \in [Conns -> TrunkIds \cup {NoTrunk}]
            /\ Inverse1to1(serversTrunkMap[p], serversConnMap[p])
        BY DEF IInv, TypeOK, MapsAgree
      <4>2. \A u \in TrunkIds : serversTrunkMap'[p][u] # NoConn
                 => serversConnMap'[p][serversTrunkMap'[p][u]] = u
        BY <2>1, <2>2, <3>1, <4>1, NoneAssumption DEF Inverse1to1
      <4>3. \A d \in Conns : serversConnMap'[p][d] # NoTrunk
                 => serversTrunkMap'[p][serversConnMap'[p][d]] = d
        BY <2>1, <2>5, <3>1, <4>1, NoneAssumption DEF Inverse1to1
      <4> QED BY <4>2, <4>3 DEF Inverse1to1
    <3>3. MapsAgree'
        BY <1>2, <3>2 DEF IInv, MapsAgree, Inverse1to1
    <3>4. RegisteredIsLive'
        BY <1>2, <2>5, <3>1 DEF IInv, RegisteredIsLive, q, t
    <3>5. AnnouncedOnce'
        BY <1>2, <1>3, <3>1 DEF IInv, AnnouncedOnce
    <3> QED BY <1>1, <2>3, <3>3, <3>4, <3>5 DEF IInv
  <2> QED BY <1>2, <1>5, <2>4, <2>5, AnnouncementEffect
<1> QED BY <1>4, <1>5 DEF ServerDataReceived

LEMMA InvInit == Init => IInv
<1> SUFFICES ASSUME Init PROVE IInv
    OBVIOUS
<1>1. TypeOK
    BY TypeInit
<1>2. MapsAgree /\ RegisteredIsLive
    BY DEF Init, MapsAgree, Inverse1to1, RegisteredIsLive, NoConns, NoTrunks
<1>3. AnnouncedOnce /\ UnacceptedIsIdle
    BY DEF Init, AnnouncedOnce, UnacceptedIsIdle
<1> QED BY <1>1, <1>2, <1>3 DEF IInv

LEMMA InvNext == IInv /\ [Next]_vars => IInv'
<1>1. IInv /\ UNCHANGED vars => IInv'
    BY DEF IInv, TypeOK, MapsAgree, Inverse1to1, RegisteredIsLive, AnnouncedOnce,
           UnacceptedIsIdle, vars, registry, pings, links
<1> QED BY <1>1, InvSetup, InvMonitor, InvLink, InvClientData, InvServerData, InvRestart
        DEF Next, Timers

(* The inductive invariant holds in every reachable state. *)
THEOREM Inductive == Spec => []IInv
<1> QED BY InvInit, InvNext, PTL DEF Spec

(* The two dictionaries of each role are always each other's inverse: no   *)
(* "del" of the manager raises KeyError.                                   *)
THEOREM MapsAlwaysAgree == Spec => []MapsAgree
<1>1. IInv => MapsAgree
    BY DEF IInv
<1> QED BY <1>1, Inductive, PTL

(* A registered accepted connection has a transport, belongs to the        *)
(* process that accepted it and is filed under the ID it announced.        *)
THEOREM RegisteredAlwaysLive == Spec => []RegisteredIsLive
<1>1. IInv => RegisteredIsLive
    BY DEF IInv
<1> QED BY <1>1, Inductive, PTL

-----------------------------------------------------------------------------
(* Refinement: every step of the trunks takes a free ID, releases IDs, or  *)
(* leaves the registry of accepted connections alone.                      *)

LEMMA ReleaseStep ==
    ASSUME NEW p \in Procs, NEW S \in SUBSET TrunkIds,
           serversTrunkMap' = [serversTrunkMap EXCEPT ![p] =
               [t \in TrunkIds |-> IF t \in S THEN NoConn ELSE serversTrunkMap[p][t]]]
    PROVE  Registry!Next
BY DEF Registry!Next, Registry!Release

LEMMA RegistryMonitor ==
    ASSUME NEW p \in Procs, MonitorTrunks(p)
    PROVE  Registry!Next
<1>1. DroppedServers(p) \in SUBSET TrunkIds
    BY DEF DroppedServers, DueServers
<1> QED BY <1>1, ReleaseStep DEF MonitorTrunks

LEMMA RegistryRestart ==
    ASSUME NEW p \in Procs, Restart(p)
    PROVE  Registry!Next
<1>1. NoConns = [t \in TrunkIds |-> IF t \in TrunkIds THEN NoConn ELSE serversTrunkMap[p][t]]
    BY DEF NoConns
<1>2. serversTrunkMap' = [serversTrunkMap EXCEPT ![p] =
          [t \in TrunkIds |-> IF t \in TrunkIds THEN NoConn ELSE serversTrunkMap[p][t]]]
    BY <1>1 DEF Restart
<1> QED BY <1>2, ReleaseStep

LEMMA RegistryLost ==
    ASSUME IInv, NEW c \in Conns, ServerConnectionLost(c)
    PROVE  Registry!Next \/ UNCHANGED serversTrunkMap
<1> DEFINE q == dial[c].to
           u == serversConnMap[q][c]
           T == [t \in TrunkIds |-> IF t \in {u} THEN NoConn ELSE serversTrunkMap[q][t]]
<1>1. q \in Procs
    BY EndTypes DEF IInv
<1>2. CASE u = NoTrunk
    BY <1>2 DEF ServerConnectionLost, Unregister
<1>3. CASE u # NoTrunk
  <2>1. u \in TrunkIds
    BY <1>1, <1>3 DEF IInv, TypeOK
  <2>2. serversTrunkMap' = [serversTrunkMap EXCEPT ![q][u] = NoConn]
    BY <1>3 DEF ServerConnectionLost, Unregister
  <2> HIDE DEF q, u
  <2>3. serversTrunkMap' = [serversTrunkMap EXCEPT ![q] = T]
    BY <1>1, <2>1, <2>2 DEF IInv, TypeOK
  <2> QED BY <1>1, <2>1, <2>3, ReleaseStep
<1> QED BY <1>2, <1>3

LEMMA RegistryData ==
    ASSUME IInv, NEW c \in Conns, ServerDataReceived(c)
    PROVE  Registry!Next \/ UNCHANGED serversTrunkMap
<1>1. CASE ServerReceivesAnnouncement(c)
  <2> DEFINE q == dial[c].to
             t == dial[c].trunk
  <2>1. q \in Procs /\ t \in TrunkIds
    BY EndTypes DEF IInv
  <2>2. /\ \A p \in Procs : serversConnMap[p][c] = NoTrunk
        /\ \/ UNCHANGED serversTrunkMap
           \/ /\ serversTrunkMap[q][t] = NoConn
              /\ serversTrunkMap' = [serversTrunkMap EXCEPT ![q][t] = c]
    BY <1>1, AnnouncementEffect DEF ServerDataReceived
  <2>3. \A u \in TrunkIds : serversTrunkMap[q][u] # c
    BY <2>1, <2>2, NoneAssumption DEF IInv, MapsAgree, Inverse1to1
  <2> QED BY <2>1, <2>2, <2>3 DEF Registry!Next, Registry!Take
<1>2. CASE ServerReceivesPing(c) \/ ServerReceivesPong(c)
    BY <1>2 DEF ServerReceivesPing, ServerReceivesPong
<1> QED BY <1>1, <1>2 DEF ServerDataReceived

(* The accepted side implements TrunkRegistry: an ID is held by one        *)
(* connection at a time and is never taken over while it is held.          *)
THEOREM RegistryImplemented == Spec => RegistrySpec
<1>1. Init => Registry!Init
    BY DEF Init, NoConns, Registry!Init
<1>2. IInv /\ [Next]_vars => [Registry!Next]_serversTrunkMap
  <2> SUFFICES ASSUME IInv, [Next]_vars
               PROVE  Registry!Next \/ UNCHANGED serversTrunkMap
    OBVIOUS
  <2>1. CASE UNCHANGED vars
    BY <2>1 DEF vars, registry
  <2>2. ASSUME NEW p \in Procs, SetupTrunks(p) \/ MonitorTrunks(p) \/ Restart(p)
        PROVE  Registry!Next \/ UNCHANGED serversTrunkMap
    BY <2>2, RegistryMonitor, RegistryRestart DEF SetupTrunks
  <2>3. ASSUME NEW c \in Conns, Link(c) \/ ClientDataReceived(c) \/ ServerDataReceived(c)
        PROVE  Registry!Next \/ UNCHANGED serversTrunkMap
    <3>1. CASE ServerConnectionLost(c)
        BY <3>1, RegistryLost
    <3>2. CASE ServerDataReceived(c)
        BY <3>2, RegistryData
    <3>3. CASE \/ ClientConnectionMade(c) \/ ServerConnectionMade(c) \/ ConnectFails(c)
               \/ ClientConnectionLost(c) \/ ClientDataReceived(c)
        BY <3>3 DEF ClientConnectionMade, ServerConnectionMade, ConnectFails,
                    ClientConnectionLost, ClientDataReceived, registry
    <3> QED BY <2>3, <3>1, <3>2, <3>3 DEF Link
  <2> QED BY <2>1, <2>2, <2>3 DEF Next, Timers
<1> QED BY <1>1, <1>2, Inductive, PTL DEF Spec, RegistrySpec, Registry!Spec
==============================================================================
