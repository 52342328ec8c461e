# snmpfwd in TLA+

A verification development for snmpfwd, a distributed SNMP proxy: TLA+ modules translated from the Python source, TLC
runs of small instances, and TLAPS proofs for all values of the constants. Paths `src/...` are those of the repository.
`PROJECT.json` lists components, runs, mutants, findings, hazards and theorems, and maps every definition to the lines
it models.

1. [The system](#the-system) – inventory of the components
2. [The modules](#the-modules) – how state and actions correspond to the code
3. [The runs](#the-runs) – what each checks, bounds, fairness
4. [The proofs](#the-proofs)
5. [What disagrees with the documentation](#what-disagrees-with-the-documentation)
6. [What is not modelled](#what-is-not-modelled)
7. [Plan](#plan)

## The system

Two daemons. **snmpfwd-server** faces SNMP managers: it is an SNMP agent that classifies a request, runs plugins on it
and sends it over one or more *trunks*. **snmpfwd-client** faces SNMP agents: it takes the request from the trunk, runs
plugins, sends it to one or more SNMP peers and sends the response back over the trunk. A trunk is a TCP connection that
either daemon may dial; it carries requests, responses, announcements (the dialling side names the trunk ID) and pings
both ways. Each daemon is one asyncio loop in one thread: a callback runs to its end, and what interleaves are the
callbacks of the processes, timers, the network, SIGHUP, and SNMP peers and managers.

| Component | Source | State | Operations | Hard behaviours | Correct when | Status |
|---|---|---|---|---|---|---|
| Trunk management | `trunking/manager.py`, `client.py`, `server.py` | two ID/connection dictionaries per role, `__unconfirmedPings`, `__upcomingPings`, per-connection `__pendingReqs` | setupTrunks and monitorTrunks (timers, each of a random period of 1 to 4 s: `bootstrap.py:251`, `254`), connect, accept, announce, ping, pong, loss | a loss noticed late at either end, slow connects, refused duplicates, late pongs, process death | dictionaries inverse, IDs never taken over, dead peers found, dialled trunks come back | `Trunking`, `TrunkRegistry` |
| Message IDs | `msgid.py` | one counter per process | getId, wrap at 65536 | reuse, restart | an ID in use stands for one request | `TrunkMessaging` |
| Request forwarding, server | `scripts/snmpfwdserver.py` | `_stashedState`, pending requests of each connection | process a command or notification, the trunk callbacks | responses over several trunks, plugins that drop or answer, lost trunks, restart | every sender gets the response to its own request; pysnmp's state survives | `TrunkMessaging`, `Forwarding` |
| Classification of requests | `requestObserver`, `usmRequestObserver` of `scripts/snmpfwdserver.py` | one `gCurrentRequestContext` for all SNMP engines, a copy of it in each request | describe a message, match it against patterns, look up its routes | what an earlier message left in the shared dict | a request is described by its own message | `RequestContext` |
| Request forwarding, client | `scripts/snmpfwdclient.py` | requests sent to peers, `reqCtx` of each | trunkCbFun, snmpCbFun | several peers, timeouts, unsent PDUs, plugin verdicts | what came over a trunk is replied to over it, once per peer; peers do not mix up notes and addresses | `Forwarding`, `PeerRequests` |
| oidfilter plugin | `plugins/oidfilter.py` | `oidsList`, `reqCtx` of each request | filter GET/SET/GETNEXT/GETBULK requests and rearrange their responses | OIDs on the edges of ranges, GETBULK linearized over ranges, cut-short responses, reload between request and response | nothing hidden shown or asked for, nothing allowed passed over, walks end | `OidFilter` |
| Plugin manager, start and reload | `plugins/manager.py`, `bootstrap.py`, `populate_routing` of the daemons | the plugin set, `pluginIdMap`, `routingMap` | load, reload on SIGHUP, run a plugin by ID | a reload that fails half-way, comes between request and response, or has other peers than the start | routes name loaded plugins and known peers; responses pass plugins that saw the request; good configurations take effect | `PluginReload` |
| Trunk framing and encryption | `trunking/protocol.py`, `crypto.py` | bytes buffered per connection, a counter of incomplete reads | reassemble, decode, encrypt | messages cut anywhere, ends of different versions or secrets, undecodable bytes, a limit on incomplete reads | every message delivered whole, once, in order, to an end that may understand it | `TrunkFraming`, `TrunkChannel` |
| Configuration parser | `cparser.py` | token stream, tree | scan, parse, inherited look-up | tokens put back, blocks of one name, files that end anywhere | what is read is what is written; a look-up finds the nearest attribute | `CParser` |
| SNMP target override | `target_override.py` | queue of endpoint pairs | push before send, pop on resolve | a failed send leaves its pair behind | a request leaves with its own endpoints | `PeerRequests` |
| rewrite plugin | `plugins/rewrite.py` | compiled expressions | one substitution per value | – | – | pure function, not modelled |
| logger plugin | `plugins/logger.py`, `plugins/path_format.py` | open log files | write lines, rotate | – | – | output only |
| Metrics | `metrics.py`, `metrics_mib.py` | counters | increment, expose | – | a counter counts its event | not modelled |
| Daemon, logging, CLI, endpoints, macros | `daemon.py`, `log.py`, `lazylog.py`, `cli.py`, `endpoint.py`, `trunking/endpoint.py`, `macro.py` | – | fork, privileges, formatting, parsing of strings | – | – | operating system calls and string handling |

Interactions: the daemons call `TrunkingManager.sendReq/sendRsp`; the manager calls back `dataCbFun` for requests and
the callback given to `sendReq` for responses; connections call the manager's control callback on announcements and
losses; timers of pysnmp's dispatcher call setupTrunks and monitorTrunks; the daemons run the plugin chain of a request
through PluginManager, which a SIGHUP callback replaces.

## The modules

| Module | Extends / instances | Content |
|---|---|---|
| `Trunking` | instances `TrunkRegistry` | trunk set-up, monitoring, registration, loss |
| `TrunkRegistry` | – | abstract: an ID has at most one holder and is never taken over |
| `TrunkMessaging` | – | what forwarding needs of trunks: message IDs, pending requests, sendReq, sendRsp, connect, loss, restart |
| `Forwarding` | `TrunkMessaging` | both daemons' handling of requests and responses |
| `OidFilter` | – | the plugin with the SNMP agent and manager around it |
| `RequestContext` | – | how snmpfwd-server describes and classifies messages, in one dict for all of them |
| `PeerRequests` | – | what the peers of one request share in snmpfwd-client: plugins' notes, overridden addresses, the loop |
| `TrunkFraming` | instances `TrunkChannel` | one direction of a connection, from bytes to messages |
| `TrunkChannel` | – | abstract: a FIFO of messages that breaks at most once |
| `PluginReload` | – | plugins and routing of a daemon over reloads and restarts |
| `CParser` | – | the configuration parser and its look-ups |
| `MC*` | the module of that name | constants of the TLC instances |
| `Trunking_proofs`, `TrunkPing_proofs`, `Forwarding_proofs`, `OidFilter_proofs`, `PluginReload_proofs`, `TrunkFraming_proofs`, `PeerRequests_proofs`, `CParser_proofs` | the module, TLAPS | the proofs |

An operator commented `mutant` is a plausible bug in the operator defined after it; nothing uses it. `PROJECT.json`
names, for every property of a passing run, a mutant that the run finds once it takes the operator's place.

### Trunking

Variables are the dictionaries of `TrunkingManager` by process and, by connection `c`, the state of the TrunkingClient
and TrunkingServer objects at its two ends, whether each awaits a pong, and the two FIFO channels between them.

| Code | Action |
|---|---|
| `setupTrunks` | `SetupTrunks(p)`: rebuilds broken clients and makes missing ones |
| `monitorTrunks` | `MonitorTrunks(p)`: counts down, drops unconfirmed IDs, pings the others, clients before servers with the counters shared |
| `connection_made`, failed connect | `ClientConnectionMade`, `ServerConnectionMade`, `ConnectFails` |
| `connection_lost` | `ClientConnectionLost`, `ServerConnectionLost` (an end hears of its peer's end after what the peer sent, or by a reset before that) |
| `data_received` | `ClientDataReceived`, `ServerDataReceived`: announcement, ping, pong |
| process death and start | `Restart(p)` |

A client that is given up while its connect task runs stays in state "connecting" without being registered: nothing in
the code cancels the task. What is written on a closing transport, or to an end that no longer reads, is lost. A
connection identity is used anew when nothing refers to it (`Garbage`).

Left out: serial numbers of pings (a pong can only belong to the latest ping, `OnePingAtATime`); one ping period per
process instead of one per trunk, counted in monitor ticks; requests and responses, which touch none of this state.
`DialsAssumption` excludes configurations in which one process both dials and serves an ID; the documentation gives
every trunk an ID of its own, `addClient` refuses part of such set-ups, and the ping marks would be shared there.

### TrunkMessaging and Forwarding

`TrunkMessaging` has per side (`"server"` for snmpfwd-server, `"client"` for snmpfwd-client) the connection each trunk
ID leads to, per connection the state of both ends, the FIFO channels of requests and responses, and the pending
requests snmpfwd-server keeps with each connection. `current` is the counter of `msgid.py` with its wrap at `MaxId`.
Establishing a connection is one action, its detail is in `Trunking`; pings are left out here, although they take
message IDs of the same counter: `IdFrom` takes consecutive numbers, and the properties bound by the counter do not
depend on gaps.

| Code | Action |
|---|---|
| `CommandResponder.handle_management_operation`, `NotificationReceiver.process_pdu` | `ReceiveRequest(r)`: stash the state, plugin verdict, sendReq for each trunk of the route, up to an unknown one |
| client `trunkCbFun` | `ClientDataReceived(c)`: a verdict or send result per peer, responses made at once, requests that wait |
| `snmpCbFun` | `SnmpResponse(w)` |
| server `trunkCbFun` of both classes | `ServerDataReceived(c)`: pop the pending request, plugins, restore the state, send |
| loss, death | `ConnectionLost`, `GiveUp`, `Restart` |

PDUs are abstracted to who made a response for which request (`ref` is a ghost, the code does not have it); plugin
edits of PDUs belong to plugin modules; which plugin spoke is left out, only how many plugins remain for the response.
Two facts from outside this repository are used: pysnmp's `send_pdu` raises KeyError without its state
(`src/docs/PORTING-NOTES.md:248`), and asyncio closes a connection whose `data_received` raises.

### OidFilter

OIDs are natural numbers in lexicographic order; a variable-binding has an OID and a value that is data or says that
there is none. `Init` chooses the access list and the agent's MIB. Requests pass `CommandRequest` (answered at once when
nothing is allowed, else forwarded with the context the plugin keeps), `AgentResponds` (GETBULK responses may be cut
short), `CommandResponse`. A `Reload` replaces the list under a request. A walk asks for the last OID answered until
endOfMibView or until there is no answer; it does not stop, as some managers do, at an OID that does not increase, so
`WalkEnds` rests on the plugin alone. All values of a request sent on become Null (`oidfilter.py:239`), those of a SET,
too: `Request` has a value, and `GetIsMerged` tells what a SET is answered with. The plugin overrides variable-bindings
of a GETBULK response in place, so where several OIDs use the same one, all show what the last made of it (`Overridden`).
Parsing of the lines and the denial log are left out.

`NothingPassedOver` has three preconditions. `SkipsFit`: no skip OID inside the range before it; the load-time checks let
such lists pass, and a walk over one goes round for ever. `RepeatersFill`: the agent's response has the rows it
was asked for; one cut short is padded too far, and instances are passed over (seen in the code, and listed as a hazard).
`NonRepeatersSent`: no non-repeater of a GETBULK was denied; the answers to those after it are looked up at the wrong
place (number 4 [below](#what-disagrees-with-the-documentation)), and what is shown as the next instance is another OID's.

The lists that the plugin appends to in loops (the OIDs it forwards, the columns of a GETBULK) are images of sets of
positions in their order: `Place` is where a position's element stands in such a list, `Nth` the position an element came from.

### RequestContext

pysnmp calls `usmRequestObserver` for an SNMPv3 message and `requestObserver` for every request, before the responder
gets it; `ReceiveRequest` is all of that and the responder's copy of the dict. `Observed` takes what the dict holds as
the security engine, as the code does; `RefuseMessage` is an SNMPv3 message that pysnmp refuses in between. A pattern
is the set of the keys it matches, the first match counts. `Forwarding` begins where this ends, with a route.

### PeerRequests

`trunkCbFun` is one callback: its beginning, then a step per peer of the request's route. Per attempt (a peer of a
request) there are the plugins' notes in `reqCtx`, what became of it, and the replies sent; the list of
`target_override.py` is shared by all. A plugin whose module is in `Noting` notes a command and looks for the note in
the response, which is what oidfilter does. Verdicts, failures of pysnmp's send before and after the address look-up,
and the order of responses are chosen freely. `Forwarding` has the same handlers as seen over a trunk; the module here is
not a refinement of it, because `Forwarding` puts the whole loop into one step.

### TrunkFraming

A byte has a value and the secret it is readable with, so encryption is what the code relies on: bytes decrypted with
another secret, or not encrypted at all, are garbage. A BER message is its length, the version and the payload. `Write`
encodes and encrypts at the peer's end; TCP cuts the stream anywhere (`DataReceived(n)`); `Deliver`, `Incomplete`,
`Undecodable` and `Exhausted` are the passes of the loop of `data_received`, with `__pendingCounter` and its limit of five.
The conditions of `secret and decrypt() or payload` are kept: what the decryption leaves may be empty, and then the
payload is taken as it came. Both classes' `data_received` share this; what they do with a message is `Handled`,
`HandledAndClosed` or `HandlerRaised`. `ChannelSpec` is the refinement that justifies the FIFO channels of `Trunking` and
`TrunkMessaging`.

### PluginReload

A configuration file is its plugin blocks, its SNMP peers, its routes to plugins and to peers, whether it can be
loaded, and whether the rest of its routing is sound. `Start` loads or does not start; `Sighup` is the reload callback
with its two stages, checked against the peers of the start; `ReceiveRequest` and `ReceiveResponse` run a chain, by ID, on
the plugins loaded at that time. The operator edits file and modules at any time. `from` is a ghost that remembers which
files plugins and routing in force were made of. Both daemons reload by the same code; requests are modelled after
snmpfwd-server, whose responses pass the list of IDs captured with the request, and peers after snmpfwd-client. Peer IDs
with macros in them are expanded after the check and are left out.

### CParser

A file is its sequence of tokens. The recursion of `load_section` is the sequence of blocks with the block around each;
a step is one round of the parser's state machine: the token it reads, whether one is put back, and the error it raises.
`AttrValue` and `Traverse` are `getAttrValue` and `traverse`. The reference is stated over the text alone, by the nesting
depth of each position. How the scanner splits lines, quotes and comments is left out.

## The runs

| Run | Checks | States |
|---|---|---|
| `trunks_both_roles` | `IInv`, `MapsAgree`, `PendingPingIsTracked`, `OnePingAtATime`, `RegistrySpec`, `UnansweredIsDropped` with two processes that dial each other | 58 thousand |
| `trunks_recover` | `NoOrphan`, `TrunksRecover`: every dialled trunk comes up for good once adversity ends | 122 thousand |
| `trunks_orphan` | finds `TrunksRecover` violated when a connect is slower than the timer | – |
| `forward_two_trunks` | `TypeOK`, `StateSurvives`, `OneRequestPerId`, `AnswerIsOwn`, `RepliesArrive` with a command over two trunks and an INFORM, and client restarts | 479 thousand |
| `forward_server_restart` | finds `AnswerIsOwn` violated when snmpfwd-server restarts | – |
| `stale_engine` | finds `OwnSecurityEngine` violated | – |
| `peer_requests` | `IInv` and its parts that state what the code promises: `OnlyUnsentLeft`, `SentToOwnEndpoints`, `HearsOwnRequest`, `UnfilteredAfterRespondOnly`, `SkippedByVerdictOnly`, `RepliedOnce` | 683 thousand |
| `framing` | `IInv`, `EqualPeersUnderstand`, `CountsPieces`, `ChannelSpec`, `EveryMessageArrives` | 71 thousand |
| `oidfilter_answers` | `TypeOK`, `NothingLeaks`, `OnlyRangesAsked`, `GetIsMerged`, `NothingPassedOver`, `WalkEnds` | 562 thousand |
| `oidfilter_bulk` | finds `BulkNonRepeatersAsNext` violated | – |
| `plugin_reload` | `TypeOK`, `RoutedAreLoaded`, `KnownPeers`, `OnlyWhatWasSeen`, `TakesEffect` | 80 thousand |
| `configuration` | `TypeOK`, `AcceptsWellFormedOnly`, `ReadsAsWritten`, `InheritsFromEnclosing` | 741 thousand |

### Bounds

*Trunking.* Two processes, the code is symmetric in further ones. Two connections of one trunk suffice for a lost one
and its replacement; three in `trunks_orphan`, for the orphan, its replacement and the one after. Both directions
are dialled in `trunks_both_roles`, so a process holds clients and servers. Ping periods of one and two ticks reach "due", "not due"
and "dropped". *Forwarding.* Two requests show a response mistaken for another's; two trunks dialled from opposite ends,
one with a peer and one without, two responses to one command of which one has no PDU; two connections a loss in between
and a response over the connection after it. Three message IDs are as many as this instance issues: its properties about
IDs hold of behaviours in which the counter does not start again only. That a route may have more peers, and traps, are
left to `peer_requests` and to the proofs, which are for any of them.
*PeerRequests.* A request with two peers, two plugins of the module that takes notes in one route, and each kind of PDU, all
at once; what is shared between requests and peers needs two of each. *TrunkFraming.* Blocks of two bytes, messages of one
and two bytes, three messages: an unaligned and an aligned text, and a piece with the end of a message, a whole one and
the beginning of the next; the limit of five incomplete reads is the code's. *RequestContext.* Two engines, a refused and an
accepted SNMPv3 message. *CParser.* Every file of six tokens reaches each pair of token kinds in each state; the longer
ones nest blocks three deep and repeat names and options.
*OidFilter.* Five OIDs, the first of which no instance has, with all lists of two ranges whose skip OID is right before the range: ranges
that touch, that have a gap, of one OID and of several; all MIBs; all requests of two different OIDs of every kind, SETs of data included; GETBULK with 0 to 2 non-repeaters and two repetitions, and GETBULK of three OIDs,
one of them beyond all ranges, with one or two non-repeaters: the answers after a denied non-repeater are looked up one too far,
where there is an answer to find only if a third OID was sent;
one reload to one of two other lists. *PluginReload.* Ten files, each with a different kind of error or difference in blocks, routes and peers,
two edits of the file, one of each module, one request; `CHECK_DEADLOCK FALSE` because a stopped process with a bad file really stays stopped.
Symmetry is used over connection identities, of which no definition names one, and not where liveness is checked.

### Fairness

- `TimerFairness`: pysnmp's dispatcher calls setupTrunks and monitorTrunks again and again (`register_trunk_timers`).
- `NetworkFairness`: a connect attempt ends, an accepted link is served, what was sent to a reading end arrives,
  connection_lost follows close, and an end hears of the end of its peer. All are callbacks asyncio schedules or TCP
  delivers. A silent host that never answers is *not* covered by it: `UnansweredIsDropped` is checked under
  `TimedSpec`, with timers only.
- `TrunksRecover` assumes in addition that adversity ends (`Adverse`: restarts, refusals, resets, timers overtaking the
  network). `trunks_recover` confines connects to be faster than the timer (`Overtakes`); `trunks_orphan` does not.
- `Forwarding`: while messages are on their way one of them is read, while pysnmp owes callbacks it makes one, with a
  response or a timeout, and lost ends are noticed. No connection is promised its turn.
- `TrunkFraming`: the bytes written arrive, in whatever pieces, and the loop of `data_received` goes on.
- `WalkEnds`: in a walk, manager, agent and plugin take their next step (`WalkStep`); reloads are not fair and end by their bound.
- `TakesEffect`: SIGHUP is sent again, a process that ended is started again, as a service manager does.

## The proofs

All proofs hold for every value of the constants that meets the named assumptions of the modules.

| Theorem | Module | States |
|---|---|---|
| `TypeCorrect`, `Inductive` | `Trunking_proofs` | `TypeOK`, `IInv` |
| `MapsAlwaysAgree`, `RegisteredAlwaysLive` | `Trunking_proofs` | no `del` of the manager raises KeyError; registered connections are live and under the ID they announced |
| `RegistryImplemented` | `Trunking_proofs` | `Spec` implements `TrunkRegistry` |
| `PendingPingAlwaysTracked`, `OnePingAlways` | `TrunkPing_proofs` | an awaited pong always has its mark; one ping or its pong under way per end that awaits it |
| `NeverAnOrphan` | `TrunkPing_proofs` | `NoOrphan` of `PromptSpec`, in which no timer gives up a client that is still connecting |
| `TypeCorrect`, `StateAlwaysSurvives` | `Forwarding_proofs` | IDs within their width; pysnmp's state survives |
| `IdsStandForOneRequest`, `AnswersAreOwn` | `Forwarding_proofs` | as long as `current` never goes down |
| `NothingEverLeaks` | `OidFilter_proofs` | only allowed instances are shown |
| `TypeCorrect`, `InvHolds` | `OidFilter_proofs` | `TypeOK`; `Inv`: what is kept between request and response belongs to the request |
| `OnlyRangesAreAsked`, `GetsAreMerged`, `NothingIsPassedOver` | `OidFilter_proofs` | `OnlyRangesAsked`, `GetIsMerged`, `NothingPassedOver`, for lists, MIBs and requests of any size |
| `Inductive`, `HandedOverInOrder`, `EqualEndsUnderstand`, `LimitCountsPieces` | `TrunkFraming_proofs` | messages whole, in order, once; equal ends understand each other; the limit counts pieces of one message |
| `ImplementsChannel` | `TrunkFraming_proofs` | a direction of a connection implements `TrunkChannel` |
| `TypeCorrect`, `Inductive` | `PeerRequests_proofs` | `TypeOK`, `IInv` |
| `LeavesOnlyUnsent`, `SendsFromOwnEndpoints`, `ReadsOwnNotes`, `FiltersPeerResponses`, `RepliesOnce`, `PassesOverByVerdict` | `PeerRequests_proofs` | the six properties of `peer_requests` |
| `TypeCorrect`, `WellFormedIsAccepted`, `WhatIsWrittenIsRead`, `OptionsAreInherited` | `CParser_proofs` | the four properties of `configuration`, for files of any length and blocks of any depth |
| `TypeCorrect`, `RoutedAlwaysLoaded`, `KnownPeersAlways`, `OnlyWhatWasSeenAlways` | `PluginReload_proofs` | routes and chains over reloads |

- *`IInv`.* `MapsAgree` alone is not inductive: a second announcement on a link would file one connection under two IDs.
  `AnnouncedOnce` says that an announcement is the first message of a link and unread only while the link is
  unregistered, `UnacceptedIsIdle` that a link nobody accepted carries nothing. The proof has a step for each action
  and each part.
- *`PendingPingIsTracked`* needs that an end awaits a pong only while registered under the ID it pinged for
  (`OpenPingIsRegistered`), and `DialsAssumption`, which keeps the marks of both roles apart.
- *`OnePingAtATime`* is inductive next to that, once the count of pings and pongs is kept from `connection_made` at the
  dialling end on, that is, also in the backlog (`Balanced`): a tick pings a connection only if its ID is unmarked, and by
  `PendingPingIsTracked` the connection then awaits nothing. Serials of pings are left out of the model for that reason.
- *`NoOrphan`* is inductive next to these in `PromptSpec`: what a timer forgets it closes, unless it is still connecting, and
  a registered client is filed under the ID it was made for (`OpenPingIsRegistered`), where `Overtakes` looks for it.
- *`StateSurvives`* is inductive and unconditional: the stash is filled before a request is sent, and emptied only by the
  response that is then given to the sender, or with the process.
- *`OneRequestPerId`* is inductive once its part "IDs in use are at most `current`" is added (it is the second conjunct
  of the definition): only `ReceiveRequest` takes IDs, past all in use, every other step can only reduce what is in use
  (`InUseDwindles`). `AnswerIsOwn` follows step by step, because what is matched by ID carries the request it was made
  for. Both are proved of behaviours in which `current` does not go down, that is, without a wrap and without a restart
  of snmpfwd-server; without that they are false, see `forward_server_restart`.
- *`NothingLeaks`* is inductive; the work is in one lemma per place where variable-bindings of an answer come from
  (overridden, merged, linearized, repeated, padded, denied). Rows and columns of a GETBULK are a set of cells and not
  nested loops, so that no arithmetic on positions is needed: any cell was overridden with some range of the list, because
  what a variable-binding was last overridden for is an OID of the request (`CtxOK` of `Inv`, below).
- *The other properties of `OidFilter`* rest on `Inv`: `reqCtx` is what matching the request against the list in force gave
  (`CtxOK`), what is forwarded is what was made of that (`Forwarded`), and the response is the agent's to it (`Responses`).
  `Ranking` says that counting the smaller members of a finite set of positions numbers them from 1 without gaps, in order;
  so an answer is found where its OID was put, and when no non-repeater was denied no variable-binding is used for two OIDs
  (`ReadsOnce`), so each is overridden for its own OID only. `NothingPassedOver` then follows OID by OID for GETNEXT, and column by
  column for GETBULK: a column walks the ranges in order, and between the OID asked for and the one shown every range was
  asked for up to its end. The proof is what found that `NonRepeatersSent` is needed; requests of two OIDs cannot show it.
  The inductions it needs are over sets (`Least`, `SetInduction`), by well-foundedness, without an operator parameter.
- *`RoutedAreLoaded`* needs that what is in force is what the files in `from` say and that a routing in force had no
  errors next to the plugins of its own file and the peers of the start (`InForce`), which is `KnownPeers`, too; then plugins and routing of the same file agree, even
  after a reload that went wrong and one that undid it. *`OnlyWhatWasSeen`* needs that a request on its way was seen by
  every plugin of its list (`Seen`).
- *`TrunkFraming!IInv`* says where in the stream each message lies (`Written`), and that the input buffer is the stream from
  the end of the last message handed over to what has arrived (`Buffered`). Then the length at the head of the buffer is
  that of a message as written, and a pass of the loop hands over just that one; `pad` leaves 1 to `BS` bytes that say how
  many they are, so `unpad` undoes it for texts of every length. `ChannelSpec` follows step by step.
- *`PeerRequests!IInv`* adds what is ahead of the loop is untouched (`UntriedUntouched`), that what it passed over is
  behind a verdict (`PassedOver`), and that a response will only pass plugins that left a note (`ResponseNoticed`).
  `OnlyUnsentLeft` and `SentToOwnEndpoints` go together: the pair pushed last is the one popped, whatever lies below.
- *`ParserInv`* says of each place the parser comes to what the text up to there determines: the text so far breaks no rule
  (`Sound`), there is a block for each `{` with its name and the block around (`Nests`), each has the options written in it
  so far (`Contents`), and the block being read and the state of the machine are the ones of that `Place`. The calls on the
  stack need not be spoken of: `AroundEnd` says that after a `}` the block around the one it ends is around, which is where
  `load_section` returns to. An error is raised at a place where `WellFormedHere` shows the text to be wrong. All but its
  types is under `BlocksNamed`, the premise of the properties: a `{` where a name is expected is taken for a name, which
  the text's nesting does not know.
- *`InheritsFromEnclosing`* needs of the parser only that blocks lie in ones that came before. From the file to a block there
  is a chain of blocks, with the names of its path (`ChainExists`), and if no sibling had a name before, `Traverse` of each
  prefix of the path is the block at that place of the chain (`TraversesChain`). The recursive functions are told by the
  equation they satisfy, which has one solution.

Only model-checked is what is temporal: `TrunksRecover`, `UnansweredIsDropped`, `RepliesArrive`, `EveryMessageArrives`,
`WalkEnds` and `TakesEffect` rest on fairness, which is out of the prover's reach.

## What disagrees with the documentation

1. *A slow connect keeps a trunk down for ever* (`trunks_orphan`). setupTrunks gives up a client that is still
   connecting, and nothing cancels its connect task. When it succeeds, the orphan takes the ID at the peer; replacements
   are refused as duplicates. The documentation promises to "establish and maintain running connection".
2. *A request described by the message before it* (`stale_engine`). `requestObserver` keeps the security engine ID in the
   shared context, where the next SNMPv1 or SNMPv2c request, of whatever engine, finds it and takes it for its own.
3. *A response of an earlier life* (`forward_server_restart`). Message IDs start at 0 with the process and
   snmpfwd-client looks the connection up when it responds: an INFORM may be acknowledged by the response to another one.
4. *GETBULK non-repeaters* (`oidfilter_bulk`). Answers are looked up at the place in the original request, although
   denied OIDs were not sent; documented to be treated as GETNEXT. With three OIDs the answer to another OID is taken.

Seen while modelling, by reading:

- The unconfirmed mark of a ping belongs to the trunk ID, is set even if nothing was sent, and survives the connection: a
  healthy connection can be closed at the next tick, while `client-configuration.rst:541` speaks of unresponsive ones.
- The second response to a command routed over two trunks finds no stashed state, and its KeyError closes the trunk; an
  unknown trunk ends the loop over a route's trunks; `_stashedState` keeps entries of requests that were dropped or never
  answered; an INFORM that could not be sent gets no response.
- A reload that fails in its routing leaves the new plugins in force, where the doc string of `install_reload_handler`
  (`bootstrap.py:397`) says the process keeps the configuration it had.
- Plugins may "modify or replace" a PDU (`index.rst:293`), but one that returns another object is not heard
  (`snmpfwdclient.py:118`, `snmpfwdserver.py:112`, `272`); and the copies of a request made for its peers share their PDU
  (`snmpfwdclient.py:240`), so what a plugin changed for one peer is there for the next.
- Blocks of one name side by side: names of blocks are said to be insignificant (`index.rst:213`), but options of all but
  the first are looked up in the first (`tests/integration/test_plugin_status.py:170` knows). A surplus `}` ends a file
  without an error, `{` is taken for the name of a block, and an option followed by `{` raises IndexError.
- Without any context or content block `requestObserver` raises KeyError for every request; a second credentials block
  with the security name of another one raises KeyError at start (`snmpEngineMap['securityName'][securityModel]`).
- oidfilter: endOfMibView in GETBULK rows out of their range is kept and ends walks early; a repeater beyond all ranges
  next to allowed ones drops the response; a SET goes on with Null for its values (`oidfilter.py:239`), so that its
  values never arrive at the agent.
- oidfilter's documentation promises *NoSuchObject* for the denied OIDs of a GET or SET
  (`docs/source/configuration/plugins/oidfilter.rst:80`); the code answers noSuchInstance (`oidfilter.py:229`, `458`).
  `GetIsMerged` and its theorem state what the code does: they do not confirm that sentence, they contradict it.

## What is not modelled

How configuration becomes credentials, transports and patterns; how the scanner splits lines, quotes and comments; string
macros and endpoint parsing; sockets and their options; metrics; daemonizing and privileges; logging; the rewrite and
logger plugins. These are string handling, operating system calls and output, with no order of events that could go wrong
(the table above and `PROJECT.json` have the reasons). `src/docs/source/conf.py` and the build files are no part of
the running system. PDU contents outside oidfilter are abstracted everywhere.

## Plan

Done, in order of importance: trunks and their registry; messaging and forwarding; oidfilter; plugin reload; framing against
an abstract channel; the peers of a request with reqCtx and target override; the parser; classification. What could follow:

1. A refinement of `TrunkMessaging`'s connections by `Trunking`'s, so that forwarding inherits what is proved of trunks.
2. PDU objects through a chain of plugins, in `PeerRequests`.

Each new run keeps to a small instance of at most a few hundred thousand states. Recursion is written as recursive functions,
never as RECURSIVE operators, so that every module can be proved about.
