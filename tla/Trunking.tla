------------------------------ MODULE Trunking ------------------------------
(***************************************************************************)
(* The trunks between snmpfwd processes: TrunkingManager, its connections  *)
(* (TrunkingClient and TrunkingServer) and the TCP links between them.     *)
(*                                                                         *)
(* Every process runs one asyncio thread, so a callback runs to its end    *)
(* before the next one: each action below is one callback of one process.  *)
(* What interleaves are the callbacks of the processes, and the network.   *)
(*                                                                         *)
(* A connection c is one TrunkingClient object of the dialling process,    *)
(* the TCP link its connect task makes, and the TrunkingServer object the  *)
(* accepting process makes for that link.                                  *)
(*                                                                         *)
(* An operator marked "mutant" is a plausible bug in the operator defined  *)
(* after it. Nothing uses it here: putting it in that operator's place     *)
(* breaks the property PROJECT.json names, so that property tells the two  *)
(* apart.                                                                  *)
(***************************************************************************)
EXTENDS Naturals, Sequences, FiniteSets, Functions

CONSTANTS Procs,       \* forwarder processes
          TrunkIds,    \* trunk IDs
          Conns,       \* connection identities; one is reused once it is garbage
          Dials,       \* the trunk-connection-mode = client blocks of all configurations
          PingPeriod,  \* per process: trunk-ping-period in monitor ticks, 0 for never
          NoConn, NoTrunk

Dial == [by : Procs, trunk : TrunkIds, to : Procs]

(* addClient refuses a second block with the same ID, and an ID the        *)
(* process already serves; the configuration must not make one process     *)
(* both dial and serve an ID.                                              *)
ASSUME DialsAssumption ==
    /\ Dials \subseteq Dial /\ Dials # {}
    /\ \A d, e \in Dials : d.trunk = e.trunk => (d.by = e.by => d = e) /\ d.by # e.to

ASSUME PingPeriodAssumption == PingPeriod \in [Procs -> Nat]

ASSUME NoneAssumption == NoConn \notin Conns /\ NoTrunk \notin TrunkIds

VARIABLES
    clientsTrunkMap,   \* __runningClientsTrunkMap: process -> ID -> connection
    clientsConnMap,    \* __runningClientsConnMap:  process -> connection -> ID
    serversTrunkMap,   \* __runningServersTrunkMap
    serversConnMap,    \* __runningServersConnMap
    unconfirmedPings,  \* __unconfirmedPings: process -> set of IDs
    upcomingPings,     \* __upcomingPings: process -> ID -> ticks until the next ping
    dial,              \* connection -> the client block that made it
    cliEnd,            \* connection -> state of its TrunkingClient
    srvEnd,            \* connection -> state of its TrunkingServer
    cliPing,           \* connection -> ID whose ping the client awaits (pendingReqs)
    srvPing,           \* connection -> ID whose ping the server awaits (pendingReqs)
    toServer,          \* connection -> messages in flight to the accepting process
    toClient           \* connection -> messages in flight to the dialling process

registry == <<clientsTrunkMap, clientsConnMap, serversTrunkMap, serversConnMap>>
pings    == <<unconfirmedPings, upcomingPings, cliPing, srvPing>>
links    == <<dial, cliEnd, srvEnd, toServer, toClient>>
vars     == <<registry, pings, links>>

-----------------------------------------------------------------------------
(* Messages. A pong repeats the serial of its ping and the channel is FIFO *)
(* with one ping outstanding (OnePingAtATime), so serials are left out.    *)

Msg == [kind : {"announcement", "ping", "pong"}, trunk : TrunkIds \cup {NoTrunk}]

Announcement(t) == [kind |-> "announcement", trunk |-> t]
Ping == [kind |-> "ping", trunk |-> NoTrunk]
Pong == [kind |-> "pong", trunk |-> NoTrunk]

(* "down": no transport. "connecting": the connect task runs. "backlog":   *)
(* the kernel accepted, connection_made has not run. "open": reading.      *)
(* "closing": transport.close() was called, connection_lost is scheduled.  *)
CliState == {"down", "connecting", "open", "closing"}
SrvState == {"down", "backlog", "open", "closing"}

(* TrunkingClient.isUp: set by connection_made, reset by close() and       *)
(* connection_lost.                                                        *)
isUp(c) == cliEnd[c] = "open"

(* close(): closes the transport, if there is one.                         *)
CloseForgets(end, conns) == end      \* mutant: close() without transport.close()
Close(end, conns) ==
    [c \in Conns |-> IF c \in conns /\ end[c] = "open" THEN "closing" ELSE end[c]]

ServerReads(c) == srvEnd[c] \in {"backlog", "open"}

(* transport.write: what is written on a closing transport, or towards a   *)
(* peer that stopped reading, is lost.                                     *)
WriteToServer(c, m) ==
    IF isUp(c) /\ ServerReads(c) THEN Append(toServer[c], m) ELSE toServer[c]
WriteToClient(c, m) ==
    IF srvEnd[c] = "open" /\ isUp(c) THEN Append(toClient[c], m) ELSE toClient[c]

TypeOK ==
    /\ clientsTrunkMap \in [Procs -> [TrunkIds -> Conns \cup {NoConn}]]
    /\ serversTrunkMap \in [Procs -> [TrunkIds -> Conns \cup {NoConn}]]
    /\ clientsConnMap \in [Procs -> [Conns -> TrunkIds \cup {NoTrunk}]]
    /\ serversConnMap \in [Procs -> [Conns -> TrunkIds \cup {NoTrunk}]]
    /\ unconfirmedPings \in [Procs -> SUBSET TrunkIds]
    /\ upcomingPings \in [Procs -> [TrunkIds -> Nat]]
    /\ dial \in [Conns -> Dials]
    /\ cliEnd \in [Conns -> CliState]
    /\ srvEnd \in [Conns -> SrvState]
    /\ cliPing \in [Conns -> TrunkIds \cup {NoTrunk}]
    /\ srvPing \in [Conns -> TrunkIds \cup {NoTrunk}]
    /\ toServer \in [Conns -> Seq(Msg)]
    /\ toClient \in [Conns -> Seq(Msg)]

NoConns  == [t \in TrunkIds |-> NoConn]
NoTrunks == [c \in Conns |-> NoTrunk]

Init ==
    /\ clientsTrunkMap = [p \in Procs |-> NoConns]
    /\ serversTrunkMap = [p \in Procs |-> NoConns]
    /\ clientsConnMap = [p \in Procs |-> NoTrunks]
    /\ serversConnMap = [p \in Procs |-> NoTrunks]
    /\ unconfirmedPings = [p \in Procs |-> {}]
    /\ upcomingPings = [p \in Procs |-> [t \in TrunkIds |-> 0]]
    /\ dial = [c \in Conns |-> CHOOSE d \in Dials : TRUE]
    /\ cliEnd = [c \in Conns |-> "down"]
    /\ srvEnd = [c \in Conns |-> "down"]
    /\ cliPing = NoTrunks
    /\ srvPing = NoTrunks
    /\ toServer = [c \in Conns |-> <<>>]
    /\ toClient = [c \in Conns |-> <<>>]

-----------------------------------------------------------------------------
(* setupTrunks: the timer callback that (re)builds the client trunks.      *)

Registered(c) == \E p \in Procs : \/ clientsConnMap[p][c] # NoTrunk
                                  \/ serversConnMap[p][c] # NoTrunk

(* A connection nothing refers to any more: its identity may be reused.    *)
Garbage(c) == cliEnd[c] = "down" /\ srvEnd[c] = "down" /\ ~Registered(c)

Clients(p) == {d.trunk : d \in {e \in Dials : e.by = p}}   \* __clients

DialOf(p, t) == CHOOSE d \in Dials : d.by = p /\ d.trunk = t

(* Client trunks that are registered and not up: close() finds no          *)
(* transport or one already closing, and a connect task is not cancelled.  *)
Broken(p) == {t \in Clients(p) : /\ clientsTrunkMap[p][t] # NoConn
                                 /\ ~isUp(clientsTrunkMap[p][t])}
Missing(p) == {t \in Clients(p) : clientsTrunkMap[p][t] = NoConn}

(* new[t]: the TrunkingClient constructed for t, announcement buffered.    *)
Rebuild(p, new) ==
    LET build == Broken(p) \cup Missing(p)
        made == {new[t] : t \in build}
        given == {clientsTrunkMap[p][t] : t \in Broken(p)}   \* given up
        ID(c) == CHOOSE t \in build : new[t] = c
    IN /\ clientsTrunkMap' = [clientsTrunkMap EXCEPT ![p] =
              [t \in TrunkIds |-> IF t \in build THEN new[t] ELSE clientsTrunkMap[p][t]]]
       /\ clientsConnMap' = [clientsConnMap EXCEPT ![p] =
              [c \in Conns |->
                  IF c \in made THEN ID(c)
                  ELSE IF c \in given THEN NoTrunk
                  ELSE clientsConnMap[p][c]]]
       /\ dial' = [c \in Conns |-> IF c \in made THEN DialOf(p, ID(c)) ELSE dial[c]]
       /\ cliEnd' = [c \in Conns |-> IF c \in made THEN "connecting"
                                      ELSE Close(cliEnd, given)[c]]
       /\ cliPing' = [c \in Conns |-> IF c \in made THEN NoTrunk ELSE cliPing[c]]

SetupTrunks(p) ==
    /\ \E new \in Injection(Broken(p) \cup Missing(p), {c \in Conns : Garbage(c)}) :
           Rebuild(p, new)
    /\ UNCHANGED <<serversTrunkMap, serversConnMap, unconfirmedPings, upcomingPings,
                   srvPing, srvEnd, toServer, toClient>>

-----------------------------------------------------------------------------
(* monitorTrunks: the timer callback that pings, and drops trunks whose    *)
(* last ping is unconfirmed. One call is one tick of upcomingPings.        *)

TicksLeft(p, t) == IF upcomingPings[p][t] > 0 THEN upcomingPings[p][t] - 1 ELSE 0

Due(p, t) == PingPeriod[p] # 0 /\ TicksLeft(p, t) = 0

(* The pass over the clients moves upcomingPings of the IDs it finds due,  *)
(* so the pass over the servers, with the same tables, skips them.         *)
DueClients(p) == {t \in TrunkIds : Due(p, t) /\ clientsTrunkMap[p][t] # NoConn}
DueServers(p) == {t \in TrunkIds \ DueClients(p) :
                     Due(p, t) /\ serversTrunkMap[p][t] # NoConn}

NothingDropped(p) == {}   \* mutant: unconfirmedPings is not looked at
NothingClosed(p) == {}    \* mutant: forgotten by its ID only, and not closed

DroppedClients(p) == DueClients(p) \cap unconfirmedPings[p]
DroppedServers(p) == DueServers(p) \cap unconfirmedPings[p]

ClosedClients(p) == {clientsTrunkMap[p][t] : t \in DroppedClients(p)}
ClosedServers(p) == {serversTrunkMap[p][t] : t \in DroppedServers(p)}
PingedClients(p) == {clientsTrunkMap[p][t] : t \in DueClients(p) \ DroppedClients(p)}
PingedServers(p) == {serversTrunkMap[p][t] : t \in DueServers(p) \ DroppedServers(p)}

(* sendPing does nothing without a transport, but the ID is marked         *)
(* unconfirmed all the same.                                               *)
HasTransport(state) == state \in {"open", "closing"}

MonitorTrunks(p) ==
    LET due == DueClients(p) \cup DueServers(p)
        Keep(map, ids) == [t \in TrunkIds |-> IF t \in ids THEN NoConn ELSE map[t]]
        Forget(map, conns) == [c \in Conns |-> IF c \in conns THEN NoTrunk ELSE map[c]]
    IN /\ upcomingPings' = [upcomingPings EXCEPT ![p] =
              [t \in TrunkIds |-> IF t \in due THEN PingPeriod[p] ELSE TicksLeft(p, t)]]
       /\ unconfirmedPings' = [unconfirmedPings EXCEPT ![p] =
              (unconfirmedPings[p] \ due) \cup (due \ unconfirmedPings[p])]
       /\ clientsTrunkMap' = [clientsTrunkMap EXCEPT ![p] =
              Keep(clientsTrunkMap[p], DroppedClients(p))]
       /\ clientsConnMap' = [clientsConnMap EXCEPT ![p] =
              Forget(clientsConnMap[p], ClosedClients(p))]
       /\ serversTrunkMap' = [serversTrunkMap EXCEPT ![p] =
              Keep(serversTrunkMap[p], DroppedServers(p))]
       /\ serversConnMap' = [serversConnMap EXCEPT ![p] =
              Forget(serversConnMap[p], ClosedServers(p))]
       /\ cliEnd' = Close(cliEnd, ClosedClients(p))
       /\ srvEnd' = Close(srvEnd, ClosedServers(p))
       /\ cliPing' = [c \in Conns |->
              IF c \in PingedClients(p) /\ HasTransport(cliEnd[c])
              THEN clientsConnMap[p][c] ELSE cliPing[c]]
       /\ srvPing' = [c \in Conns |->
              IF c \in PingedServers(p) /\ HasTransport(srvEnd[c])
              THEN serversConnMap[p][c] ELSE srvPing[c]]
       /\ toServer' = [c \in Conns |->
              IF c \in PingedClients(p) THEN WriteToServer(c, Ping) ELSE toServer[c]]
       /\ toClient' = [c \in Conns |->
              IF c \in PingedServers(p) THEN WriteToClient(c, Ping) ELSE toClient[c]]
       /\ UNCHANGED dial

-----------------------------------------------------------------------------
(* The life of a connection.                                               *)

(* TrunkingClient.connection_made: isUp, and the buffered announcement is  *)
(* the first message written. The accepting kernel queues the link.        *)
ClientConnectionMade(c) ==
    /\ cliEnd[c] = "connecting"
    /\ cliEnd' = [cliEnd EXCEPT ![c] = "open"]
    /\ srvEnd' = [srvEnd EXCEPT ![c] = "backlog"]
    /\ toServer' = [toServer EXCEPT ![c] = <<Announcement(dial[c].trunk)>>]
    /\ toClient' = [toClient EXCEPT ![c] = <<>>]
    /\ UNCHANGED <<registry, pings, dial>>

(* create_connection raised OSError: _connect logs it.                     *)
ConnectFails(c) ==
    /\ cliEnd[c] = "connecting"
    /\ cliEnd' = [cliEnd EXCEPT ![c] = "down"]
    /\ UNCHANGED <<registry, pings, dial, srvEnd, toServer, toClient>>

(* TrunkingServer.connection_made: a new object, pendingReqs empty.        *)
ServerConnectionMade(c) ==
    /\ srvEnd[c] = "backlog"
    /\ srvEnd' = [srvEnd EXCEPT ![c] = "open"]
    /\ srvPing' = [srvPing EXCEPT ![c] = NoTrunk]
    /\ UNCHANGED <<registry, unconfirmedPings, upcomingPings, cliPing,
                   dial, cliEnd, toServer, toClient>>

(* connection_lost, after close(), after the peer's end of file, or at any *)
(* time because the network failed: what was in flight is lost with it.    *)
ClientConnectionLost(c) ==
    /\ cliEnd[c] \in {"open", "closing"}
    /\ cliEnd' = [cliEnd EXCEPT ![c] = "down"]
    /\ toClient' = [toClient EXCEPT ![c] = <<>>]
    /\ UNCHANGED <<registry, pings, dial, srvEnd, toServer>>

(* __ctlCbFun(connection, {}): unregisters the trunk, if registered; the   *)
(* ID's ping bookkeeping is left as it was.                                *)
\* mutant: one of the two "del" is missing
UnregisterIDOnly(q, c) ==
    /\ serversTrunkMap' = [serversTrunkMap EXCEPT ![q] =
          [t \in TrunkIds |-> IF t = serversConnMap[q][c] THEN NoConn ELSE serversTrunkMap[q][t]]]
    /\ UNCHANGED serversConnMap

Unregister(q, c) ==
    IF serversConnMap[q][c] # NoTrunk
    THEN /\ serversTrunkMap' =
                [serversTrunkMap EXCEPT ![q][serversConnMap[q][c]] = NoConn]
         /\ serversConnMap' = [serversConnMap EXCEPT ![q][c] = NoTrunk]
    ELSE UNCHANGED <<serversTrunkMap, serversConnMap>>

ServerConnectionLost(c) ==
    /\ srvEnd[c] \in {"open", "closing"}
    /\ srvEnd' = [srvEnd EXCEPT ![c] = "down"]
    /\ toServer' = [toServer EXCEPT ![c] = <<>>]
    /\ Unregister(dial[c].to, c)
    /\ UNCHANGED <<clientsTrunkMap, clientsConnMap, pings, dial, cliEnd, toClient>>

-----------------------------------------------------------------------------
(* data_received, one message at a time.                                   *)

(* __monitorTrunksCbFun: the callback of the ping a pong answers.          *)
ConfirmNothing(p, t) == UNCHANGED unconfirmedPings     \* mutant
Confirm(p, t) == unconfirmedPings' = [unconfirmedPings EXCEPT ![p] = @ \ {t}]

ClientReceivesPing(c) ==
    /\ Head(toClient[c]) = Ping
    /\ toServer' = [toServer EXCEPT ![c] = WriteToServer(c, Pong)]
    /\ UNCHANGED pings

ClientPongPeeks(c) ==     \* mutant: the callback is looked up but not popped
    /\ Head(toClient[c]) = Pong
    /\ IF cliPing[c] # NoTrunk THEN Confirm(dial[c].by, cliPing[c])
                               ELSE UNCHANGED unconfirmedPings
    /\ UNCHANGED <<cliPing, upcomingPings, srvPing, toServer>>

ClientReceivesPong(c) ==
    /\ Head(toClient[c]) = Pong
    /\ IF cliPing[c] # NoTrunk
       THEN /\ cliPing' = [cliPing EXCEPT ![c] = NoTrunk]
            /\ Confirm(dial[c].by, cliPing[c])
       ELSE UNCHANGED <<cliPing, unconfirmedPings>>
    /\ UNCHANGED <<upcomingPings, srvPing, toServer>>

ClientDataReceived(c) ==
    /\ cliEnd[c] = "open"
    /\ toClient[c] # <<>>
    /\ toClient' = [toClient EXCEPT ![c] = Tail(@)]
    /\ ClientReceivesPing(c) \/ ClientReceivesPong(c)
    /\ UNCHANGED <<registry, dial, cliEnd, srvEnd>>

(* __ctlCbFun(connection, msg): registers the announced ID, unless the     *)
(* process knows it already: then it closes the new connection.            *)
KnownAsClient(q, t) == clientsTrunkMap[q][t] # NoConn    \* mutant
Known(q, t) == serversTrunkMap[q][t] # NoConn \/ clientsTrunkMap[q][t] # NoConn

RegisterOrRefuse(q, c, t) ==
    IF Known(q, t)
    THEN /\ srvEnd' = Close(srvEnd, {c})
         /\ UNCHANGED <<serversTrunkMap, serversConnMap>>
    ELSE /\ serversTrunkMap' = [serversTrunkMap EXCEPT ![q][t] = c]
         /\ serversConnMap' = [serversConnMap EXCEPT ![q][c] = t]
         /\ UNCHANGED srvEnd

ServerReceivesAnnouncement(c) ==
    /\ Head(toServer[c]).kind = "announcement"
    /\ RegisterOrRefuse(dial[c].to, c, Head(toServer[c]).trunk)
    /\ UNCHANGED <<pings, toClient>>

ServerReceivesPing(c) ==
    /\ Head(toServer[c]) = Ping
    /\ toClient' = [toClient EXCEPT ![c] = WriteToClient(c, Pong)]
    /\ UNCHANGED <<serversTrunkMap, serversConnMap, srvEnd, pings>>

ServerReceivesPong(c) ==
    /\ Head(toServer[c]) = Pong
    /\ IF srvPing[c] # NoTrunk
       THEN /\ srvPing' = [srvPing EXCEPT ![c] = NoTrunk]
            /\ Confirm(dial[c].to, srvPing[c])
       ELSE UNCHANGED <<srvPing, unconfirmedPings>>
    /\ UNCHANGED <<serversTrunkMap, serversConnMap, srvEnd, upcomingPings, cliPing, toClient>>

ServerDataReceived(c) ==
    /\ srvEnd[c] = "open"
    /\ toServer[c] # <<>>
    /\ toServer' = [toServer EXCEPT ![c] = Tail(@)]
    /\ \/ ServerReceivesAnnouncement(c)
       \/ ServerReceivesPing(c)
       \/ ServerReceivesPong(c)
    /\ UNCHANGED <<clientsTrunkMap, clientsConnMap, dial, cliEnd>>

-----------------------------------------------------------------------------
(* A process dies and is started again: its manager is new, its sockets    *)
(* and connect tasks are gone, its peers have not noticed.                 *)
Restart(p) ==
    LET own == {c \in Conns : dial[c].by = p}
        accepted == {c \in Conns : dial[c].to = p}
    IN /\ clientsTrunkMap' = [clientsTrunkMap EXCEPT ![p] = NoConns]
       /\ clientsConnMap' = [clientsConnMap EXCEPT ![p] = NoTrunks]
       /\ serversTrunkMap' = [serversTrunkMap EXCEPT ![p] = NoConns]
       /\ serversConnMap' = [serversConnMap EXCEPT ![p] = NoTrunks]
       /\ unconfirmedPings' = [unconfirmedPings EXCEPT ![p] = {}]
       /\ upcomingPings' = [upcomingPings EXCEPT ![p] = [t \in TrunkIds |-> 0]]
       /\ cliEnd' = [c \in Conns |-> IF c \in own THEN "down" ELSE cliEnd[c]]
       /\ srvEnd' = [c \in Conns |-> IF c \in accepted THEN "down" ELSE srvEnd[c]]
       /\ toClient' = [c \in Conns |-> IF c \in own THEN <<>> ELSE toClient[c]]
       /\ toServer' = [c \in Conns |-> IF c \in accepted THEN <<>> ELSE toServer[c]]
       /\ UNCHANGED <<dial, cliPing, srvPing>>

-----------------------------------------------------------------------------
Timers == \E p \in Procs : SetupTrunks(p) \/ MonitorTrunks(p)

Link(c) == \/ ClientConnectionMade(c) \/ ServerConnectionMade(c) \/ ConnectFails(c)
           \/ ClientConnectionLost(c) \/ ServerConnectionLost(c)

Next == \/ Timers
        \/ \E c \in Conns : Link(c) \/ ClientDataReceived(c) \/ ServerDataReceived(c)
        \/ \E p \in Procs : Restart(p)

Spec == Init /\ [][Next]_vars

-----------------------------------------------------------------------------
(* Safety.                                                                 *)

Inverse1to1(trunkMap, connMap) ==
    /\ \A t \in TrunkIds : trunkMap[t] # NoConn => connMap[trunkMap[t]] = t
    /\ \A c \in Conns : connMap[c] # NoTrunk => trunkMap[connMap[c]] = c

(* The two dictionaries of a role are always each other's inverse, so no   *)
(* "del" of setupTrunks, __monitorTrunks or __ctlCbFun can raise KeyError, *)
(* and a connection looked up for a message is the one its ID leads to.    *)
MapsAgree ==
    \A p \in Procs : /\ Inverse1to1(clientsTrunkMap[p], clientsConnMap[p])
                     /\ Inverse1to1(serversTrunkMap[p], serversConnMap[p])

(* An accepted connection is registered only while it has a transport (so  *)
(* sendReq through the registry never finds a dead TrunkingServer), with   *)
(* the process that accepted it, and under the ID it announced.            *)
RegisteredIsLive ==
    \A q \in Procs, c \in Conns :
        serversConnMap[q][c] # NoTrunk =>
            /\ srvEnd[c] \in {"open", "closing"}
            /\ dial[c].to = q
            /\ dial[c].trunk = serversConnMap[q][c]

(* While a registered connection awaits a pong, its ID is marked           *)
(* unconfirmed: a peer that stops answering is bound to be found by the    *)
(* next due pass of monitorTrunks, whatever was lost or rebuilt before.    *)
PendingPingIsTracked ==
    \A p \in Procs, c \in Conns :
        /\ clientsConnMap[p][c] # NoTrunk /\ cliPing[c] # NoTrunk =>
               cliPing[c] = clientsConnMap[p][c] /\ cliPing[c] \in unconfirmedPings[p]
        /\ serversConnMap[p][c] # NoTrunk /\ srvPing[c] # NoTrunk =>
               srvPing[c] = serversConnMap[p][c] /\ srvPing[c] \in unconfirmedPings[p]

(* The strengthening of PendingPingIsTracked: a client is filed under the  *)
(* block that made it, and an open end awaits a pong only while registered *)
(* under the ID it pinged for.                                             *)
OpenPingIsRegistered ==
    /\ \A p \in Procs, c \in Conns : clientsConnMap[p][c] # NoTrunk =>
           dial[c].by = p /\ dial[c].trunk = clientsConnMap[p][c]
    /\ \A c \in Conns :
           /\ cliEnd[c] = "connecting" => cliPing[c] = NoTrunk
           /\ cliEnd[c] = "open" /\ cliPing[c] # NoTrunk =>
                  clientsConnMap[dial[c].by][c] = cliPing[c]
           /\ srvEnd[c] = "open" /\ srvPing[c] # NoTrunk =>
                  serversConnMap[dial[c].to][c] = srvPing[c]

InFlight(channel, m) == {i \in DOMAIN channel : channel[i] = m}

(* On a link both ends still read, each end has at most one ping or pong   *)
(* of its own under way, and only while it awaits one: a pong confirms the *)
(* very ping that marked the ID, never an earlier one.                     *)
OnePingAtATime ==
    \A c \in Conns : isUp(c) /\ srvEnd[c] = "open" =>
        /\ Cardinality(InFlight(toServer[c], Ping)) + Cardinality(InFlight(toClient[c], Pong))
              = (IF cliPing[c] # NoTrunk THEN 1 ELSE 0)
        /\ Cardinality(InFlight(toClient[c], Ping)) + Cardinality(InFlight(toServer[c], Pong))
              = (IF srvPing[c] # NoTrunk THEN 1 ELSE 0)

(* Every TrunkingClient that is connected, or may still connect, is the    *)
(* one its manager has registered.                                         *)
NoOrphan ==
    \A c \in Conns : cliEnd[c] \in {"connecting", "open"} =>
                        clientsConnMap[dial[c].by][c] = dial[c].trunk

(* The strengthening that makes MapsAgree and RegisteredIsLive inductive:  *)
(* an announcement is the first message of its link and is still unread    *)
(* only while the link is unregistered; a link nobody accepted carries     *)
(* nothing; a client still connecting has no accepted end.                 *)
AnnouncedOnce ==
    \A c \in Conns : \A i \in DOMAIN toServer[c] :
        toServer[c][i].kind = "announcement" =>
            /\ i = 1
            /\ toServer[c][i].trunk = dial[c].trunk
            /\ \A q \in Procs : serversConnMap[q][c] = NoTrunk

UnacceptedIsIdle ==
    \A c \in Conns : /\ srvEnd[c] = "down" => toServer[c] = <<>>
                     /\ cliEnd[c] = "connecting" => srvEnd[c] = "down"

IInv == /\ TypeOK
        /\ MapsAgree
        /\ RegisteredIsLive
        /\ AnnouncedOnce
        /\ UnacceptedIsIdle

(* The accepted side keeps the promise of TrunkRegistry.                   *)
Registry == INSTANCE TrunkRegistry WITH holder <- serversTrunkMap
RegistrySpec == Registry!Spec

-----------------------------------------------------------------------------
(* Liveness.                                                               *)

(* Setup tasks of the event loop and the network: a timer callback is      *)
(* called again and again, a connect attempt ends, a queued link is served,*)
(* what was sent arrives, connection_lost follows close(), and an end      *)
(* hears of the end of its peer once it has read all the peer had sent.    *)
ClientEnds(c) == cliEnd[c] = "closing" \/ (~ServerReads(c) /\ toClient[c] = <<>>)
ServerEnds(c) == srvEnd[c] = "closing" \/ (~isUp(c) /\ toServer[c] = <<>>)

TimerFairness == \A p \in Procs : WF_vars(SetupTrunks(p)) /\ WF_vars(MonitorTrunks(p))
NetworkFairness ==
    \A c \in Conns :
        /\ WF_vars(ClientConnectionMade(c) \/ ConnectFails(c))
        /\ WF_vars(ServerConnectionMade(c))
        /\ WF_vars(ClientDataReceived(c)) /\ WF_vars(ServerDataReceived(c))
        /\ WF_vars(ClientEnds(c) /\ ClientConnectionLost(c))
        /\ WF_vars(ServerEnds(c) /\ ServerConnectionLost(c))

FairSpec == Spec /\ TimerFairness /\ NetworkFairness

(* Nothing of the network is pending: connects, handshakes, messages,      *)
(* closes.                                                                 *)
Settled == \A c \in Conns :
    /\ cliEnd[c] \in {"down", "open"} /\ srvEnd[c] \in {"down", "open"}
    /\ (cliEnd[c] = "open" <=> srvEnd[c] = "open")
    /\ toServer[c] = <<>> /\ toClient[c] = <<>>

(* What a healthy environment does not do: restart a process, refuse or    *)
(* reset a link, or be slower than the timers (1 to 4 seconds).            *)
Adverse == \/ \E p \in Procs : Restart(p)
           \/ \E c \in Conns : \/ ConnectFails(c)
                               \/ ~ClientEnds(c) /\ ClientConnectionLost(c)
                               \/ ~ServerEnds(c) /\ ServerConnectionLost(c)
           \/ ~Settled /\ Timers

Established(d) ==
    LET c == clientsTrunkMap[d.by][d.trunk]
    IN c # NoConn /\ isUp(c) /\ serversTrunkMap[d.to][d.trunk] = c

(* Once the environment is healthy for good, every client trunk comes up   *)
(* and stays up ("actively tries to establish and maintain running         *)
(* connection with a peer").                                               *)
TrunksRecover == <>[][~Adverse]_vars => \A d \in Dials : <>[]Established(d)

(* Whatever the network does, and even if nothing sent ever arrives: a     *)
(* connection whose ping is not answered does not stay registered. (A new  *)
(* connection starts without a ping out, so awaiting ends in between.)     *)
TimedSpec == Spec /\ TimerFairness

ClientAwaits(d) == LET c == clientsTrunkMap[d.by][d.trunk]
                   IN c # NoConn /\ cliPing[c] # NoTrunk
ServerAwaits(d) == LET c == serversTrunkMap[d.to][d.trunk]
                   IN c # NoConn /\ srvPing[c] # NoTrunk

UnansweredIsDropped ==
    \A d \in Dials : /\ ClientAwaits(d) ~> ~ClientAwaits(d)
                     /\ ServerAwaits(d) ~> ~ServerAwaits(d)

(* A timer callback of p removes, or replaces, a client that is still      *)
(* connecting: nothing cancels its connect task.                           *)
Overtakes(p) ==
    \E t \in Clients(p) :
        LET c == clientsTrunkMap[p][t]
        IN /\ c # NoConn
           /\ cliEnd[c] = "connecting" /\ cliEnd'[c] = "connecting"
           /\ clientsTrunkMap'[p][t] # c

(* Behaviours in which every connect attempt ends before a timer callback  *)
(* of its process gives it up.                                             *)
PromptNext == Next /\ \A p \in Procs : ~Overtakes(p)
PromptSpec == Init /\ [][PromptNext]_vars
=============================================================================
