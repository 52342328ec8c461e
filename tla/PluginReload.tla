---------------------------- MODULE PluginReload ----------------------------
(***************************************************************************)
(* The plugins and the routing of snmpfwd-server and snmpfwd-client:       *)
(* loaded at start, loaded anew on SIGHUP while requests are under way.    *)
(* Plugins run on a request and, later, on its response. An operator edits *)
(* the configuration file and the plugin modules at any time.              *)
(*                                                                         *)
(* Of a configuration file, its plugin-id blocks, its SNMP peers and its   *)
(* routes to plugins and peers are kept; what else it may have wrong is    *)
(* one bit for loading the file and one for the rest of the routing. Only  *)
(* snmpfwd-client has peers: in snmpfwd-server a route ends at trunks,     *)
(* which no file is checked for, so there every file has all of Peers.     *)
(* PDUs and reqCtx are left out.                                           *)
(***************************************************************************)
EXTENDS Integers, SequencesExt

CONSTANTS Ids,       \* plugin IDs
          Modules,   \* plugin modules on disk
          Keys,      \* classifications of requests
          Peers,     \* SNMP peers
          Reqs,      \* requests
          Files,     \* configuration files
          MaxEdits,  \* bound on the edits of a module
          MaxWrites  \* bound on the edits of the configuration file

File == [readable : BOOLEAN,
         plugins : Seq([id : Ids, module : Modules]),
         peers : SUBSET Peers,
         routes : Seq([key : Keys, list : Seq(Ids)]),
         dests : Seq([key : Keys, list : Seq(Peers)]),
         sound : BOOLEAN]

ASSUME FilesAssumption == Files \subseteq File
ASSUME BoundsAssumption == MaxEdits \in Nat /\ MaxWrites \in Nat

VARIABLES file,      \* the configuration file on disk
          writes,    \* how often it was edited
          disk,      \* the modules on disk
          up,        \* the process runs
          plugins,   \* the plugin set in force
          peerIdMap, \* the peers set up at start
          routing,   \* pluginIdMap
          routingMap, \* where requests go
          from,      \* ghost: the files plugins and routing were made of
          request    \* requests under way

maps == <<routing, routingMap>>
vars == <<file, writes, disk, up, plugins, peerIdMap, maps, from, request>>

(* Only what was executed without an error is in force.                    *)
Code == [module : Modules, version : 0..MaxEdits, works : {TRUE}]

NoRequest == [state |-> "none", list |-> <<>>, seen |-> {}, back |-> {}, whole |-> TRUE]

Init ==
    /\ file \in Files
    /\ writes = 0
    /\ disk \in [Modules -> [version : {0}, works : BOOLEAN]]
    /\ up = FALSE
    /\ plugins = <<>>
    /\ peerIdMap = {}
    /\ routing = <<>>
    /\ routingMap = <<>>
    /\ from = [plugins |-> file, routing |-> file]
    /\ request = [r \in Reqs |-> NoRequest]

-----------------------------------------------------------------------------
(* Loading.                                                                *)

PluginIds(f) == {f.plugins[i].id : i \in DOMAIN f.plugins}
ModuleOf(f, id) == f.plugins[CHOOSE i \in DOMAIN f.plugins : f.plugins[i].id = id].module

(* Every plugin-id block executed, all or nothing.                         *)
Works(f, i) == disk[f.plugins[i].module].works
PluginErrorsDuplicates(f) ==   \* mutant: a plugin that fails to load is no error
    \E i, j \in DOMAIN f.plugins : i # j /\ f.plugins[i].id = f.plugins[j].id
PluginErrors(f) ==
    \/ \E i, j \in DOMAIN f.plugins : i # j /\ f.plugins[i].id = f.plugins[j].id
    \/ \E i \in DOMAIN f.plugins : ~Works(f, i)

CodeOf(m) == [module |-> m, version |-> disk[m].version, works |-> disk[m].works]
Loaded(f) == [id \in PluginIds(f) |-> CodeOf(ModuleOf(f, id))]

(* The routes of a file as a map, which populate_routing refuses to build  *)
(* when two of them have the same key.                                     *)
Keyed(routes) == {routes[i].key : i \in DOMAIN routes}
Duplicate(routes) == \E i, j \in DOMAIN routes : i # j /\ routes[i].key = routes[j].key
AsMap(routes) == [k \in Keyed(routes) |->
                     routes[CHOOSE i \in DOMAIN routes : routes[i].key = k].list]

Routing(f) == AsMap(f.routes)
Destinations(f) == AsMap(f.dests)

(* populate_routing: every plugin of a route is looked up in the plugins   *)
(* in force, every peer among those of the start.                          *)
RoutingErrorsUnchecked(f, ids, known) ==   \* mutant: routes may name any plugin
    \/ ~f.sound \/ Duplicate(f.routes) \/ Duplicate(f.dests)
    \/ \E i \in DOMAIN f.dests : ~(Range(f.dests[i].list) \subseteq known)
RoutingErrorsOwnPeers(f, ids, known) ==   \* mutant: peers are looked up in the new file
    \/ ~f.sound \/ Duplicate(f.routes) \/ Duplicate(f.dests)
    \/ \E i \in DOMAIN f.routes : ~(Range(f.routes[i].list) \subseteq ids)
    \/ \E i \in DOMAIN f.dests : ~(Range(f.dests[i].list) \subseteq f.peers)
RoutingErrors(f, ids, known) ==
    \/ ~f.sound \/ Duplicate(f.routes) \/ Duplicate(f.dests)
    \/ \E i \in DOMAIN f.routes : ~(Range(f.routes[i].list) \subseteq ids)
    \/ \E i \in DOMAIN f.dests : ~(Range(f.dests[i].list) \subseteq known)

Start ==
    /\ ~up
    /\ file.readable /\ ~PluginErrors(file)
    /\ ~RoutingErrors(file, PluginIds(file), file.peers)
    /\ up' = TRUE
    /\ plugins' = Loaded(file)
    /\ peerIdMap' = file.peers
    /\ routing' = Routing(file)
    /\ routingMap' = Destinations(file)
    /\ from' = [plugins |-> file, routing |-> file]
    /\ UNCHANGED <<file, writes, disk, request>>

(* The reload callback: a file that does not load leaves all as it is, an  *)
(* error in the routing comes after the plugins have been replaced. Peers  *)
(* stay those of the start.                                                *)
SighupRoutingFirst ==   \* mutant: the routing is checked before the plugins are replaced
    /\ up
    /\ IF /\ file.readable /\ ~PluginErrors(file)
          /\ ~RoutingErrors(file, DOMAIN plugins, peerIdMap)
       THEN /\ plugins' = Loaded(file)
            /\ routing' = Routing(file) /\ routingMap' = Destinations(file)
            /\ from' = [plugins |-> file, routing |-> file]
       ELSE UNCHANGED <<plugins, maps, from>>
    /\ UNCHANGED <<file, writes, disk, up, peerIdMap, request>>
Sighup ==
    /\ up
    /\ LET loads == file.readable /\ ~PluginErrors(file)
           routes == loads /\ ~RoutingErrors(file, PluginIds(file), peerIdMap)
       IN /\ plugins' = IF loads THEN Loaded(file) ELSE plugins
          /\ routing' = IF routes THEN Routing(file) ELSE routing
          /\ routingMap' = IF routes THEN Destinations(file) ELSE routingMap
          /\ from' = [plugins |-> IF loads THEN file ELSE from.plugins,
                      routing |-> IF routes THEN file ELSE from.routing]
    /\ UNCHANGED <<file, writes, disk, up, peerIdMap, request>>

(* The process ends; what it had of requests goes with it.                 *)
Stop ==
    /\ up
    /\ up' = FALSE
    /\ plugins' = <<>>
    /\ peerIdMap' = {}
    /\ routing' = <<>>
    /\ routingMap' = <<>>
    /\ from' = [plugins |-> file, routing |-> file]
    /\ request' = [r \in Reqs |-> NoRequest]
    /\ UNCHANGED <<file, writes, disk>>

-----------------------------------------------------------------------------
(* Requests. A plugin that is not loaded is skipped; stop is the place in  *)
(* the list of the plugin with a verdict other than NEXT, 0 if there is    *)
(* none.                                                                   *)

RouteOf(k) == IF k \in DOMAIN routing THEN routing[k] ELSE <<>>

Stops(list) == {0} \cup {i \in DOMAIN list : list[i] \in DOMAIN plugins}

Run(list, stop) ==
    Range(SubSeq(list, 1, IF stop = 0 THEN Len(list) ELSE stop)) \cap DOMAIN plugins

(* BREAK ends the list before the plugin that said it, for the response,   *)
(* too; DROP and RESPOND end the request.                                  *)
ReceiveRequest(r, k, stop, verdict) ==
    /\ up
    /\ request[r].state = "none"
    /\ stop \in Stops(RouteOf(k))
    /\ stop = 0 => verdict = "next"
    /\ stop # 0 => verdict # "next"
    /\ request' = [request EXCEPT ![r] =
           [state |-> IF verdict \in {"next", "break"} THEN "sent" ELSE "done",
            list |-> IF verdict = "break" THEN SubSeq(RouteOf(k), 1, stop - 1) ELSE RouteOf(k),
            seen |-> Run(RouteOf(k), stop),
            back |-> {},
            whole |-> from.plugins = from.routing]]
    /\ UNCHANGED <<file, writes, disk, up, plugins, peerIdMap, maps, from>>

(* The response passes the plugins listed when the request came, as far as *)
(* they are loaded by now; BREAK and DROP end the list.                    *)
ReceiveResponseRouted(r, stop) ==   \* mutant: the route of now, not of the request
    /\ up
    /\ request[r].state = "sent"
    /\ \E k \in Keys :
           /\ stop \in Stops(RouteOf(k))
           /\ request' = [request EXCEPT ![r].state = "done", ![r].back = Run(RouteOf(k), stop)]
    /\ UNCHANGED <<file, writes, disk, up, plugins, peerIdMap, maps, from>>
ReceiveResponse(r, stop) ==
    /\ up
    /\ request[r].state = "sent"
    /\ stop \in Stops(request[r].list)
    /\ request' = [request EXCEPT ![r].state = "done", ![r].back = Run(request[r].list, stop)]
    /\ UNCHANGED <<file, writes, disk, up, plugins, peerIdMap, maps, from>>

-----------------------------------------------------------------------------
(* The operator.                                                           *)

WriteFile(f) ==
    /\ writes < MaxWrites
    /\ file' = f
    /\ writes' = writes + 1
    /\ UNCHANGED <<disk, up, plugins, peerIdMap, maps, from, request>>

EditModule(m, works) ==
    /\ disk[m].version < MaxEdits
    /\ disk' = [disk EXCEPT ![m] = [version |-> @.version + 1, works |-> works]]
    /\ UNCHANGED <<file, writes, up, plugins, peerIdMap, maps, from, request>>

Verdicts == {"next", "break", "drop", "respond"}

Next ==
    \/ Start
    \/ Sighup
    \/ Stop
    \/ \E r \in Reqs, k \in Keys, verdict \in Verdicts :
           \E stop \in 0..Len(RouteOf(k)) : ReceiveRequest(r, k, stop, verdict)
    \/ \E r \in Reqs : \E stop \in 0..Len(request[r].list) : ReceiveResponse(r, stop)
    \/ \E f \in Files : WriteFile(f)
    \/ \E m \in Modules, works \in BOOLEAN : EditModule(m, works)

Spec == Init /\ [][Next]_vars
-----------------------------------------------------------------------------
(* Safety.                                                                 *)

TypeOK ==
    /\ file \in Files
    /\ writes \in 0..MaxWrites
    /\ disk \in [Modules -> [version : 0..MaxEdits, works : BOOLEAN]]
    /\ up \in BOOLEAN
    /\ DOMAIN plugins \subseteq Ids /\ Range(plugins) \subseteq Code
    /\ peerIdMap \subseteq Peers
    /\ DOMAIN routing \subseteq Keys /\ Range(routing) \subseteq Seq(Ids)
    /\ DOMAIN routingMap \subseteq Keys /\ Range(routingMap) \subseteq Seq(Peers)
    /\ from \in [plugins : Files, routing : Files]
    /\ request \in [Reqs -> [state : {"none", "sent", "done"}, list : Seq(Ids),
                             seen : SUBSET Ids, back : SUBSET Ids, whole : BOOLEAN]]

(* Unless a reload stopped between the two, every plugin the routing names *)
(* is loaded: no request passes unseen by a plugin of its route.           *)
RoutedAreLoaded ==
    from.plugins = from.routing =>
        \A k \in DOMAIN routing : Range(routing[k]) \subseteq DOMAIN plugins

(* Every peer a request may be routed to is set up in this process, across *)
(* reloads of files with other peers: snmpfwd-client takes the peer from   *)
(* peerIdMap without a check, amid the peers of one request. (Macros in    *)
(* peer IDs are left out.)                                                 *)
KnownPeers == \A k \in DOMAIN routingMap : Range(routingMap[k]) \subseteq peerIdMap

(* A plugin handles a response only if it handled the request, whatever    *)
(* was loaded, renamed or routed anew in between; the contexts plugins     *)
(* leave for the response depend on it. (It fails for requests that came   *)
(* while the plugins were newer than the routing: one that was missing     *)
(* then may be back for the response.)                                     *)
OnlyWhatWasSeen == \A r \in Reqs : request[r].whole => request[r].back \subseteq request[r].seen

-----------------------------------------------------------------------------
(* Liveness.                                                               *)

(* SIGHUP is sent again and again, a process that ended is started again.  *)
FairSpec == Spec /\ WF_vars(Start) /\ WF_vars(Sighup)

Good ==
    /\ file.readable /\ ~PluginErrors(file)
    /\ ~RoutingErrors(file, PluginIds(file), IF up THEN peerIdMap ELSE file.peers)

(* A configuration that is good for good takes effect, whatever plugins    *)
(* and routing failed reloads left in force; plugins and routes that refer *)
(* to each other may be added and removed in one edit. (A route to a peer  *)
(* that is new with the file is not good before the next start.)           *)
TakesEffect ==
    <>[]Good => <>[](up => /\ plugins = Loaded(file)
                           /\ routing = Routing(file) /\ routingMap = Destinations(file))
=============================================================================
