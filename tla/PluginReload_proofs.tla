------------------------- MODULE PluginReload_proofs ------------------------
(***************************************************************************)
(* Proofs about PluginReload, for every set of configuration files, plugin *)
(* modules and requests: type correctness, that the routing names loaded   *)
(* plugins unless a reload stopped half-way and peers of this process      *)
(* always, and that a plugin handles a response only if it handled the     *)
(* request.                                                                *)
(***************************************************************************)
EXTENDS PluginReload, TLAPS

Block == [id : Ids, module : Modules]
Routes(T) == Seq([key : Keys, list : Seq(T)])

LEMMA Element == ASSUME NEW T, NEW q \in Seq(T), NEW i \in DOMAIN q PROVE q[i] \in T
    OBVIOUS

LEMMA Empty == ASSUME NEW T PROVE <<>> \in Seq(T) /\ DOMAIN <<>> = {} /\ Range(<<>>) = {}
    BY DEF Range

(* What loading and routing a file gives is of the right type.             *)
LEMMA LoadedType ==
    ASSUME TypeOK, NEW f \in Files, ~PluginErrors(f)
    PROVE  /\ DOMAIN Loaded(f) = PluginIds(f)
           /\ DOMAIN Loaded(f) \subseteq Ids
           /\ Range(Loaded(f)) \subseteq Code
<1>1. f.plugins \in Seq(Block)
    BY FilesAssumption DEF File, Block
<1>2. DOMAIN Loaded(f) = PluginIds(f)
    BY DEF Loaded
<1>3. PluginIds(f) \subseteq Ids
  <2>1. \A i \in DOMAIN f.plugins : f.plugins[i] \in Block
      BY <1>1, Element
  <2> QED BY <2>1 DEF PluginIds, Block
<1>4. ASSUME NEW id \in PluginIds(f) PROVE CodeOf(ModuleOf(f, id)) \in Code
  <2>1. PICK i \in DOMAIN f.plugins : f.plugins[i].id = id
      BY DEF PluginIds
  <2> DEFINE j == CHOOSE j \in DOMAIN f.plugins : f.plugins[j].id = id
  <2>2. j \in DOMAIN f.plugins
      BY <2>1
  <2>3. ModuleOf(f, id) = f.plugins[j].module
      BY DEF ModuleOf
  <2>4. f.plugins[j].module \in Modules
    <3>1. f.plugins[j] \in Block
        BY <1>1, <2>2, Element
    <3> QED BY <3>1 DEF Block
  <2>5. disk[f.plugins[j].module].works
      BY <2>2 DEF PluginErrors, Works
  <2>6. disk[f.plugins[j].module] \in [version : 0..MaxEdits, works : BOOLEAN]
      BY <2>4 DEF TypeOK
  <2> HIDE DEF j
  <2> QED BY <2>3, <2>4, <2>5, <2>6 DEF CodeOf, Code
<1> QED BY <1>2, <1>3, <1>4 DEF Loaded, Range

LEMMA AsMapType ==
    ASSUME NEW T, NEW routes \in Routes(T)
    PROVE  /\ DOMAIN AsMap(routes) \subseteq Keys
           /\ Range(AsMap(routes)) \subseteq Seq(T)
<1>1. ASSUME NEW k \in DOMAIN AsMap(routes)
      PROVE  k \in Keys /\ AsMap(routes)[k] \in Seq(T)
  <2>1. PICK i \in DOMAIN routes : routes[i].key = k
      BY DEF AsMap, Keyed
  <2> DEFINE j == CHOOSE j \in DOMAIN routes : routes[j].key = k
  <2>2. j \in DOMAIN routes
      BY <2>1
  <2>3. AsMap(routes)[k] = routes[j].list
      BY DEF AsMap
  <2> HIDE DEF j
  <2>4. \A n \in DOMAIN routes : routes[n] \in [key : Keys, list : Seq(T)]
      BY Element DEF Routes
  <2> QED BY <2>1, <2>2, <2>3, <2>4
<1> QED BY <1>1 DEF Range

LEMMA RoutingType ==
    ASSUME NEW f \in Files
    PROVE  /\ DOMAIN Routing(f) \subseteq Keys
           /\ Range(Routing(f)) \subseteq Seq(Ids)
           /\ DOMAIN Destinations(f) \subseteq Keys
           /\ Range(Destinations(f)) \subseteq Seq(Peers)
           /\ f.peers \subseteq Peers
<1>1. f.routes \in Routes(Ids) /\ f.dests \in Routes(Peers) /\ f.peers \subseteq Peers
    BY FilesAssumption DEF File, Routes
<1> QED BY <1>1, AsMapType DEF Routing, Destinations

(* A map of routes holds nothing but what the lists of the routes hold.    *)
LEMMA AsMapNames ==
    ASSUME NEW routes, NEW S,
           \A i \in DOMAIN routes : Range(routes[i].list) \subseteq S,
           NEW k \in DOMAIN AsMap(routes)
    PROVE  Range(AsMap(routes)[k]) \subseteq S
<1>1. PICK i \in DOMAIN routes : routes[i].key = k
    BY DEF AsMap, Keyed
<1> DEFINE j == CHOOSE j \in DOMAIN routes : routes[j].key = k
<1>2. j \in DOMAIN routes
    BY <1>1
<1>3. AsMap(routes)[k] = routes[j].list
    BY DEF AsMap
<1> HIDE DEF j
<1> QED BY <1>2, <1>3

(* A routing that was found without errors names plugins of its file and   *)
(* known peers only.                                                       *)
LEMMA RoutingNames ==
    ASSUME NEW f, NEW ids, NEW known, ~RoutingErrors(f, ids, known)
    PROVE  /\ \A k \in DOMAIN Routing(f) : Range(Routing(f)[k]) \subseteq ids
           /\ \A k \in DOMAIN Destinations(f) : Range(Destinations(f)[k]) \subseteq known
    BY AsMapNames DEF RoutingErrors, Routing, Destinations

(* What a list holds before the place where a chain stops.                 *)
LEMMA Prefix ==
    ASSUME NEW list \in Seq(Ids), NEW stop \in 0..Len(list)
    PROVE  /\ SubSeq(list, 1, stop) \in Seq(Ids)
           /\ Range(SubSeq(list, 1, stop)) \subseteq Range(list)
           /\ stop # 0 => /\ SubSeq(list, 1, stop - 1) \in Seq(Ids)
                          /\ Range(SubSeq(list, 1, stop - 1)) \subseteq
                                 Range(SubSeq(list, 1, stop))
    BY DEF Range

LEMMA RunWithin ==
    ASSUME NEW list \in Seq(Ids), NEW stop \in 0..Len(list)
    PROVE  Run(list, stop) \subseteq Range(list) \cap DOMAIN plugins
<1>1. CASE stop = 0
    BY <1>1, Prefix, Len(list) \in 0..Len(list) DEF Run
<1>2. CASE stop # 0
    BY <1>2, Prefix DEF Run
<1> QED BY <1>1, <1>2

LEMMA RouteType == ASSUME TypeOK, NEW k PROVE RouteOf(k) \in Seq(Ids)
    BY DEF RouteOf, TypeOK, Range

-----------------------------------------------------------------------------
(* The inductive invariant. What is in force is what the files in from     *)
(* say, and the routing had no errors next to the plugins of its own file  *)
(* and the peers of the start; a request on its way was seen by every      *)
(* plugin of its list.                                                     *)

InForce ==
    IF up THEN /\ DOMAIN plugins = PluginIds(from.plugins)
               /\ routing = Routing(from.routing)
               /\ routingMap = Destinations(from.routing)
               /\ ~RoutingErrors(from.routing, PluginIds(from.routing), peerIdMap)
          ELSE plugins = <<>> /\ routing = <<>> /\ routingMap = <<>>

Seen ==
    \A r \in Reqs : request[r].whole =>
        /\ request[r].state = "sent" => Range(request[r].list) \subseteq request[r].seen
        /\ request[r].back \subseteq request[r].seen

Request == [state : {"none", "sent", "done"}, list : Seq(Ids),
            seen : SUBSET Ids, back : SUBSET Ids, whole : BOOLEAN]

LEMMA InForceRouted == ASSUME InForce PROVE RoutedAreLoaded /\ KnownPeers
<1>1. CASE up
    BY <1>1, RoutingNames DEF InForce, RoutedAreLoaded, KnownPeers
<1>2. CASE ~up
    BY <1>2 DEF InForce, RoutedAreLoaded, KnownPeers, Range
<1> QED BY <1>1, <1>2

(* Every variable keeps its type; a plugin is in force only if its module  *)
(* was executed without an error.                                          *)
THEOREM TypeCorrect == Spec => []TypeOK
<1>1. Init => TypeOK
  <2>1. NoRequest \in Request
      BY Empty DEF NoRequest, Request
  <2> SUFFICES ASSUME Init PROVE TypeOK
      OBVIOUS
  <2>2. /\ DOMAIN plugins \subseteq Ids /\ Range(plugins) \subseteq Code
        /\ DOMAIN routing \subseteq Keys /\ Range(routing) \subseteq Seq(Ids)
        /\ DOMAIN routingMap \subseteq Keys /\ Range(routingMap) \subseteq Seq(Peers)
        /\ peerIdMap \subseteq Peers
      BY Empty DEF Init
  <2>3. disk \in [Modules -> [version : 0..MaxEdits, works : BOOLEAN]]
      BY BoundsAssumption DEF Init
  <2>4. request \in [Reqs -> Request]
      BY <2>1 DEF Init
  <2>5. writes \in 0..MaxWrites
      BY BoundsAssumption DEF Init
  <2>6. file \in Files /\ up \in BOOLEAN
      BY DEF Init
  <2>7. from \in [plugins : Files, routing : Files]
      BY DEF Init
  <2> QED BY <2>2, <2>3, <2>4, <2>5, <2>6, <2>7 DEF TypeOK, Request
<1>2. TypeOK /\ [Next]_vars => TypeOK'
  <2> SUFFICES ASSUME TypeOK, [Next]_vars PROVE TypeOK'
      OBVIOUS
  <2>1. CASE Start
      BY <2>1, LoadedType, RoutingType DEF Start, TypeOK
  <2>2. CASE Sighup
    <3>1. file \in Files /\ from \in [plugins : Files, routing : Files]
        BY DEF TypeOK
    <3>2. DOMAIN plugins' \subseteq Ids /\ Range(plugins') \subseteq Code
        BY <2>2, <3>1, LoadedType DEF Sighup, TypeOK
    <3>3. /\ DOMAIN routing' \subseteq Keys /\ Range(routing') \subseteq Seq(Ids)
          /\ DOMAIN routingMap' \subseteq Keys /\ Range(routingMap') \subseteq Seq(Peers)
        BY <2>2, <3>1, RoutingType DEF Sighup, TypeOK
    <3>4. from' \in [plugins : Files, routing : Files]
        BY <2>2, <3>1 DEF Sighup
    <3> QED BY <2>2, <3>2, <3>3, <3>4 DEF Sighup, TypeOK
  <2>3. CASE Stop
    <3>1. NoRequest \in Request
        BY Empty DEF NoRequest, Request
    <3> QED BY <2>3, <3>1, Empty DEF Stop, TypeOK, Request
  <2>4. CASE \E r \in Reqs, k \in Keys, verdict \in Verdicts :
                 \E stop \in 0..Len(RouteOf(k)) : ReceiveRequest(r, k, stop, verdict)
    <3>1. PICK r \in Reqs, k \in Keys, verdict \in Verdicts :
                   \E stop \in 0..Len(RouteOf(k)) : ReceiveRequest(r, k, stop, verdict)
        BY <2>4
    <3>2. PICK stop \in 0..Len(RouteOf(k)) : ReceiveRequest(r, k, stop, verdict)
        BY <3>1
    <3>3. RouteOf(k) \in Seq(Ids)
        BY RouteType
    <3>4. Run(RouteOf(k), stop) \in SUBSET Ids
        BY <3>3, RunWithin DEF TypeOK
    <3>5. (IF verdict = "break" THEN SubSeq(RouteOf(k), 1, stop - 1) ELSE RouteOf(k)) \in Seq(Ids)
        BY <3>2, <3>3, Prefix DEF ReceiveRequest
    <3>6. request' \in [Reqs -> Request]
        BY <3>2, <3>4, <3>5 DEF ReceiveRequest, TypeOK, Request
    <3> QED BY <3>2, <3>6 DEF ReceiveRequest, maps, TypeOK, Request
  <2>5. CASE \E r \in Reqs : \E stop \in 0..Len(request[r].list) : ReceiveResponse(r, stop)
    <3>1. PICK r \in Reqs : \E stop \in 0..Len(request[r].list) : ReceiveResponse(r, stop)
        BY <2>5
    <3>2. PICK stop \in 0..Len(request[r].list) : ReceiveResponse(r, stop)
        BY <3>1
    <3>3. request \in [Reqs -> Request]
        BY DEF TypeOK, Request
    <3>4. Run(request[r].list, stop) \in SUBSET Ids
        BY <3>3, RunWithin DEF TypeOK, Request
    <3>5. request' \in [Reqs -> Request]
        BY <3>2, <3>3, <3>4 DEF ReceiveResponse, Request
    <3> QED BY <3>2, <3>5 DEF ReceiveResponse, maps, TypeOK, Request
  <2>6. CASE \E f \in Files : WriteFile(f)
      BY <2>6, BoundsAssumption DEF WriteFile, maps, TypeOK
  <2>7. CASE \E m \in Modules, works \in BOOLEAN : EditModule(m, works)
      BY <2>7, BoundsAssumption DEF EditModule, maps, TypeOK
  <2>8. CASE UNCHANGED vars
      BY <2>8 DEF vars, maps, TypeOK
  <2> QED BY <2>1, <2>2, <2>3, <2>4, <2>5, <2>6, <2>7, <2>8 DEF Next
<1> QED BY <1>1, <1>2, PTL DEF Spec

LEMMA InForceAlways == Spec => []InForce
<1>1. Init => InForce
    BY DEF Init, InForce
<1>2. TypeOK /\ InForce /\ [Next]_vars => InForce'
  <2> SUFFICES ASSUME TypeOK, InForce, [Next]_vars PROVE InForce'
      OBVIOUS
  <2>1. CASE Start
      BY <2>1, LoadedType DEF Start, InForce, TypeOK
  <2>2. CASE Sighup
    <3>1. up /\ up'
        BY <2>2 DEF Sighup
    <3>2. DOMAIN plugins' = PluginIds(from'.plugins)
        BY <2>2, <3>1, LoadedType DEF Sighup, InForce, TypeOK
    <3>3. /\ routing' = Routing(from'.routing)
          /\ routingMap' = Destinations(from'.routing)
          /\ ~RoutingErrors(from'.routing, PluginIds(from'.routing), peerIdMap')
        BY <2>2, <3>1 DEF Sighup, InForce
    <3> QED BY <3>1, <3>2, <3>3 DEF InForce
  <2>3. CASE Stop
      BY <2>3 DEF Stop, InForce
  <2>4. CASE UNCHANGED <<up, plugins, peerIdMap, maps, from>>
      BY <2>4 DEF InForce, maps
  <2> QED BY <2>1, <2>2, <2>3, <2>4
          DEF Next, vars, ReceiveRequest, ReceiveResponse, WriteFile, EditModule
<1> QED BY <1>1, <1>2, TypeCorrect, PTL DEF Spec

(* A reload may replace the plugins under requests and under the routing;  *)
(* unless it stopped between the two, no route names a missing plugin.     *)
THEOREM RoutedAlwaysLoaded == Spec => []RoutedAreLoaded
    BY InForceAlways, InForceRouted, PTL

(* Whatever peers the files of later reloads have, every peer a request is *)
(* routed to was set up at start.                                          *)
THEOREM KnownPeersAlways == Spec => []KnownPeers
    BY InForceAlways, InForceRouted, PTL

(* A plugin handles no response whose request it did not handle.           *)
THEOREM OnlyWhatWasSeenAlways == Spec => []OnlyWhatWasSeen
<1>1. Init => Seen
    BY DEF Init, Seen, NoRequest
<1>2. TypeOK /\ RoutedAreLoaded /\ Seen /\ [Next]_vars => Seen'
  <2> SUFFICES ASSUME TypeOK, RoutedAreLoaded, Seen, [Next]_vars PROVE Seen'
      OBVIOUS
  <2>1. request \in [Reqs -> Request]
      BY DEF TypeOK, Request
  <2>2. CASE \E r \in Reqs, k \in Keys, verdict \in Verdicts :
                 \E stop \in 0..Len(RouteOf(k)) : ReceiveRequest(r, k, stop, verdict)
    <3>1. PICK r \in Reqs, k \in Keys, verdict \in Verdicts :
                   \E stop \in 0..Len(RouteOf(k)) : ReceiveRequest(r, k, stop, verdict)
        BY <2>2
    <3>2. PICK stop \in 0..Len(RouteOf(k)) : ReceiveRequest(r, k, stop, verdict)
        BY <3>1
    <3> DEFINE list == RouteOf(k)
    <3>3. list \in Seq(Ids)
        BY RouteType
    <3>4. ASSUME from.plugins = from.routing PROVE Range(list) \subseteq DOMAIN plugins
        BY <3>4 DEF RouteOf, RoutedAreLoaded, Range
    <3>5. ASSUME from.plugins = from.routing, verdict = "next"
          PROVE  Range(list) \subseteq Run(list, stop)
      <4>1. stop = 0 /\ SubSeq(list, 1, Len(list)) = list
          BY <3>2, <3>3, <3>5 DEF ReceiveRequest
      <4> QED BY <3>4, <3>5, <4>1 DEF Run
    <3>6. ASSUME from.plugins = from.routing, verdict = "break"
          PROVE  Range(SubSeq(list, 1, stop - 1)) \subseteq Run(list, stop)
      <4>1. stop # 0
          BY <3>2, <3>6 DEF ReceiveRequest
      <4> QED BY <3>2, <3>3, <3>4, <3>6, <4>1, Prefix DEF Run
    <3>7. \A q \in Reqs : q # r => request'[q] = request[q]
        BY <2>1, <3>2 DEF ReceiveRequest
    <3>8. request'[r] =
           [state |-> IF verdict \in {"next", "break"} THEN "sent" ELSE "done",
            list |-> IF verdict = "break" THEN SubSeq(list, 1, stop - 1) ELSE list,
            seen |-> Run(list, stop),
            back |-> {},
            whole |-> from.plugins = from.routing]
        BY <2>1, <3>2 DEF ReceiveRequest
    <3> HIDE DEF list
    <3>9. ASSUME request'[r].whole
          PROVE  /\ request'[r].state = "sent" =>
                        Range(request'[r].list) \subseteq request'[r].seen
                 /\ request'[r].back \subseteq request'[r].seen
      <4> DEFINE whole == from.plugins = from.routing
      <4>1. request'[r].whole = whole
          BY <3>8
      <4>2. from.plugins = from.routing
          BY <3>9, <4>1
      <4>3. /\ request'[r].list = IF verdict = "break" THEN SubSeq(list, 1, stop - 1) ELSE list
            /\ request'[r].seen = Run(list, stop)
            /\ request'[r].back = {}
          BY <3>8
      <4>4. CASE verdict = "next"
          BY <3>5, <4>2, <4>3, <4>4
      <4>5. CASE verdict = "break"
          BY <3>6, <4>2, <4>3, <4>5
      <4>6. CASE verdict \notin {"next", "break"}
          BY <3>8, <4>6
      <4> QED BY <4>4, <4>5, <4>6
    <3> QED BY <3>7, <3>9 DEF Seen
  <2>3. CASE \E r \in Reqs : \E stop \in 0..Len(request[r].list) : ReceiveResponse(r, stop)
    <3>1. PICK r \in Reqs : \E stop \in 0..Len(request[r].list) : ReceiveResponse(r, stop)
        BY <2>3
    <3>2. PICK stop \in 0..Len(request[r].list) : ReceiveResponse(r, stop)
        BY <3>1
    <3>3. Run(request[r].list, stop) \subseteq Range(request[r].list)
        BY <2>1, RunWithin DEF Request
    <3>4. \A q \in Reqs : q # r => request'[q] = request[q]
        BY <2>1, <3>2 DEF ReceiveResponse
    <3>5. /\ request[r].state = "sent"
          /\ request'[r] = [request[r] EXCEPT !.state = "done",
                                              !.back = Run(request[r].list, stop)]
        BY <2>1, <3>2 DEF ReceiveResponse
    <3>6. request[r] \in Request
        BY <2>1
    <3>7. ASSUME request'[r].whole
          PROVE  /\ request'[r].state # "sent"
                 /\ request'[r].back \subseteq request'[r].seen
      <4>1. /\ request'[r].state = "done"
            /\ request'[r].back = Run(request[r].list, stop)
            /\ request'[r].seen = request[r].seen
            /\ request'[r].whole = request[r].whole
          BY <3>5, <3>6 DEF Request
      <4>2. Range(request[r].list) \subseteq request[r].seen
          BY <3>5, <3>7, <4>1 DEF Seen
      <4> QED BY <3>3, <4>1, <4>2
    <3> QED BY <3>4, <3>7 DEF Seen
  <2>4. CASE Stop
      BY <2>4 DEF Stop, Seen, NoRequest
  <2>5. CASE UNCHANGED request
      BY <2>5 DEF Seen
  <2> QED BY <2>2, <2>3, <2>4, <2>5 DEF Next, vars, Start, Sighup, WriteFile, EditModule
<1>3. Seen => OnlyWhatWasSeen
    BY DEF Seen, OnlyWhatWasSeen
<1> QED BY <1>1, <1>2, <1>3, TypeCorrect, RoutedAlwaysLoaded, PTL DEF Spec
=============================================================================
