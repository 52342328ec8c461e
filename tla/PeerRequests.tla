---------------------------- MODULE PeerRequests ----------------------------
(***************************************************************************)
(* What snmpfwd-client does with one trunk request for each of its SNMP    *)
(* peers: trunkCbFun, snmpCbFun and the overridden target addresses of     *)
(* target_override.py. Forwarding has the same handlers as its peers see   *)
(* them; here is what the peers of a request, and its plugins, share.      *)
(*                                                                         *)
(* trunkCbFun is one callback, modelled as its beginning and one step per  *)
(* peer; nothing else runs before it ends. An attempt is one peer of the   *)
(* list of one request.                                                    *)
(*                                                                         *)
(* A plugin whose module is in Noting (oidfilter) notes a command in       *)
(* reqCtx under a key of its module, and its response handler reads the    *)
(* note; without one it lets the response pass. What pysnmp does with a    *)
(* PDU is its choice.                                                      *)
(*                                                                         *)
(* An operator marked "mutant" is a plausible bug in the operator defined  *)
(* after it; nothing uses it here.                                         *)
(***************************************************************************)
EXTENDS Integers, Sequences

CONSTANTS
    Reqs,          \* trunk requests
    Peers,         \* snmp-peer-id
    Plugins,       \* plugin-id
    Modules,       \* plugin-module
    Noting,        \* the modules that note a command in reqCtx
    kind,          \* class of the PDU of a request
    peerIdList,    \* route of a request: its peers, none when unroutable
    pluginIdList,  \* and its plugins
    moduleOf,      \* plugin-module of a plugin-id
    NoNote, NoReq

Kinds == {"command", "inform", "trap"}

ASSUME RoutesAssumption ==
    /\ kind \in [Reqs -> Kinds]
    /\ peerIdList \in [Reqs -> Seq(Peers)]
    /\ pluginIdList \in [Reqs -> Seq(Plugins)]
ASSUME ModulesAssumption == moduleOf \in [Plugins -> Modules] /\ Noting \subseteq Modules
ASSUME NoReqAssumption == NoReq \notin Reqs
ASSUME NoNoteAssumption == NoNote \notin [by : Plugins, at : [req : Reqs, n : Nat]]

VARIABLES
    todo,       \* requests yet to come over a trunk
    loop,       \* the request trunkCbFun runs for and the number of the next peer
    endpoints,  \* the list of make_target_addr_override
    reqCtx,     \* the dictionary reqCtx of every attempt
    open,       \* pysnmp's requests, with the plugins that hear the response
    replies,    \* ghost: how often sendRsp was called for each attempt
    fates,      \* ghost: what became of the attempts
    sends,      \* ghost: the addresses each PDU was sent from and to
    unsent,     \* ghost: the attempts that ended before pysnmp looked up an address
    heard,      \* ghost: the notes that response handlers of plugins read
    unnoted     \* ghost: the attempts whose response passed a plugin without a note

vars == <<todo, loop, endpoints, reqCtx, open, replies, fates, sends, unsent, heard, unnoted>>

Attempts == [req : Reqs, n : Nat]
At(req, n) == [req |-> req, n |-> n]
PeerOf(at) == peerIdList[at.req][at.n]
ChainOf(at) == pluginIdList[at.req]

(* The addresses of a peer. *)
Bind(peer) == [side |-> "bind", of |-> peer]
Remote(peer) == [side |-> "peer", of |-> peer]
Address == [side : {"bind", "peer"}, of : Peers]

Idle == [req |-> NoReq, n |-> 0]
Fates == {"none", "muted", "responded", "failed", "sent"}
Note == [by : Plugins, at : Attempts] \cup {NoNote}

(* Attempts that a route has; number 0 stands for a request without route. *)
Routed == UNION {[req : {req}, n : 0..Len(peerIdList[req])] : req \in Reqs}

TypeOK ==
    /\ todo \subseteq Reqs
    /\ loop \in {at \in Routed : at.n > 0} \cup {Idle}
    /\ endpoints \in Seq(Address)
    /\ reqCtx \in [Routed -> [Modules -> Note]]
    /\ open \subseteq [at : Routed, hears : Seq(Plugins)]
    /\ replies \in [Routed -> Nat]
    /\ fates \in [Routed -> Fates]
    /\ sends \subseteq [at : Routed, bind : Address, peer : Address]
    /\ unsent \in Seq(Routed)
    /\ heard \subseteq [by : Plugins, at : Routed, note : Note]
    /\ unnoted \subseteq Routed

-----------------------------------------------------------------------------
(* target_override.py *)

Queued(peer) == endpoints \o <<Bind(peer), Remote(peer)>>

ResolveOldest(list) ==   \* mutant: a queue
    [bind |-> list[1], peer |-> list[2], rest |-> SubSeq(list, 3, Len(list))]
ResolvePeeks(list) ==    \* mutant: the pair is read, and stays
    [bind |-> list[Len(list) - 1], peer |-> list[Len(list)], rest |-> list]
Resolve(list) ==
    [bind |-> list[Len(list) - 1], peer |-> list[Len(list)],
     rest |-> SubSeq(list, 1, Len(list) - 2)]

-----------------------------------------------------------------------------
(* The plugins of a request, and what they hear of its response.           *)

CtxOfRequest(at) == At(at.req, 0)   \* mutant: reqCtx = {} before the loop over the peers
CtxOf(at) == at

Notes(at, m) == kind[at.req] = "command" /\ m \in Noting

(* reqCtx after the first n plugins have seen the request.                 *)
Noted(at, n) ==
    LET chain == ChainOf(at)
        Writers(m) == {i \in 1..n : moduleOf[chain[i]] = m}
        Last(m) == CHOOSE i \in Writers(m) : \A j \in Writers(m) : j <= i
    IN [m \in Modules |->
            IF Notes(at, m) /\ Writers(m) # {}
            THEN [by |-> chain[Last(m)], at |-> at]
            ELSE reqCtx[CtxOf(at)][m]]

TakeNotes(at, n) == reqCtx' = [reqCtx EXCEPT ![CtxOf(at)] = Noted(at, n)]

KeptAll(at, n, verdict) == ChainOf(at)   \* mutant: BREAK leaves the list as it was
Kept(at, n, verdict) == IF verdict = "break" THEN SubSeq(ChainOf(at), 1, n - 1) ELSE ChainOf(at)

(* The response handlers of the first n plugins of a list.                 *)
Reads(at, plugins, n, ctx) ==
    {[by |-> plugins[i], at |-> at, note |-> ctx[moduleOf[plugins[i]]]] :
        i \in {j \in 1..n : Notes(at, moduleOf[plugins[j]])}}

SendRsp(at) == replies' = [replies EXCEPT ![at] = @ + 1]

(* snmpCbFun for a response: all plugins hear it, or one of them returns   *)
(* BREAK or DROP.                                                          *)
RspPDU(at, plugins, ctx) ==
    \E n \in 0..Len(plugins) :
        LET read == Reads(at, plugins, n, ctx)
        IN /\ n = 0 => plugins = <<>>
           /\ heard' = heard \cup read
           /\ unnoted' = unnoted \cup {a \in {at} : \E r \in read : r.note = NoNote}
           /\ SendRsp(at)

(* snmpCbFun without a PDU passes the plugins by.                          *)
NoPDU(at) == SendRsp(at) /\ UNCHANGED <<heard, unnoted>>

-----------------------------------------------------------------------------
(* trunkCbFun *)

Init ==
    /\ todo = Reqs
    /\ loop = Idle
    /\ endpoints = <<>>
    /\ reqCtx = [at \in Routed |-> [m \in Modules |-> NoNote]]
    /\ open = {}
    /\ replies = [at \in Routed |-> 0]
    /\ fates = [at \in Routed |-> "none"]
    /\ sends = {}
    /\ unsent = <<>>
    /\ heard = {}
    /\ unnoted = {}

Unroutable(req) ==
    /\ peerIdList[req] = <<>>
    /\ NoPDU(At(req, 0))
    /\ UNCHANGED loop

Receive(req) ==
    /\ loop = Idle /\ req \in todo
    /\ todo' = todo \ {req}
    /\ \/ Unroutable(req)
       \/ /\ peerIdList[req] # <<>>
          /\ loop' = At(req, 1)
          /\ UNCHANGED <<replies, heard, unnoted>>
    /\ UNCHANGED <<endpoints, reqCtx, open, fates, sends, unsent>>

NextPeerPastLast ==   \* mutant: off by one
    loop' = IF loop.n <= Len(peerIdList[loop.req]) THEN At(loop.req, loop.n + 1) ELSE Idle
NextPeer ==
    loop' = IF loop.n < Len(peerIdList[loop.req]) THEN At(loop.req, loop.n + 1) ELSE Idle

NotAsked == UNCHANGED <<open, sends>>

(* DROP: the request is muted, and so are the peers after this one.        *)
Muted(at) ==
    /\ \E n \in 1..Len(ChainOf(at)) : TakeNotes(at, n)
    /\ NoPDU(at)
    /\ fates' = [fates EXCEPT ![at] = "muted"]
    /\ endpoints' = Queued(PeerOf(at))
    /\ unsent' = Append(unsent, at)
    /\ loop' = Idle
    /\ NotAsked

(* RESPOND: the plugin answers in place of the peer; the whole list hears  *)
(* the answer, the plugins that never saw the request included.            *)
Responded(at) ==
    /\ \E n \in 1..Len(ChainOf(at)) :
           /\ TakeNotes(at, n)
           /\ RspPDU(at, ChainOf(at), Noted(at, n))
    /\ fates' = [fates EXCEPT ![at] = "responded"]
    /\ endpoints' = Queued(PeerOf(at))
    /\ unsent' = Append(unsent, at)
    /\ loop' = Idle
    /\ NotAsked

(* send_pdu raises a PySnmpError, before or after it has looked up the     *)
(* address of the peer. Only a failed INFORM is not replied to.            *)
AfterFailureStops == loop' = Idle   \* mutant: the other peers are given up too
AfterFailure == NextPeer

Failed(at) ==
    /\ fates' = [fates EXCEPT ![at] = "failed"]
    /\ \/ endpoints' = Queued(PeerOf(at)) /\ unsent' = Append(unsent, at)
       \/ endpoints' = Resolve(Queued(PeerOf(at))).rest /\ UNCHANGED unsent
    /\ IF kind[at.req] = "inform" THEN UNCHANGED <<replies, heard, unnoted>> ELSE NoPDU(at)
    /\ AfterFailure
    /\ NotAsked

(* A trap is replied to at once.                                           *)
TrapWaits(at, plugins) ==   \* mutant: a trap is replied to at once, and waited for
    NoPDU(at) /\ open' = open \cup {[at |-> at, hears |-> plugins]}
Asked(at, plugins) ==
    IF kind[at.req] = "trap"
    THEN NoPDU(at) /\ UNCHANGED open
    ELSE open' = open \cup {[at |-> at, hears |-> plugins]} /\ UNCHANGED <<replies, heard, unnoted>>

Sent(at, plugins) ==
    LET addr == Resolve(Queued(PeerOf(at)))
    IN /\ fates' = [fates EXCEPT ![at] = "sent"]
       /\ sends' = sends \cup {[at |-> at, bind |-> addr.bind, peer |-> addr.peer]}
       /\ endpoints' = addr.rest
       /\ UNCHANGED unsent
       /\ Asked(at, plugins)
       /\ NextPeer

(* All plugins pass the request on, or one of them returns BREAK.          *)
PassedOn(at) ==
    \E n \in 0..Len(ChainOf(at)), verdict \in {"next", "break"} :
        /\ verdict = "next" => n = Len(ChainOf(at))
        /\ verdict = "break" => n > 0
        /\ TakeNotes(at, n)
        /\ Failed(at) \/ Sent(at, Kept(at, n, verdict))

(* One pass of the loop over the peers.                                    *)
TryPeer ==
    /\ loop # Idle
    /\ Muted(loop) \/ Responded(loop) \/ PassedOn(loop)
    /\ UNCHANGED todo

(* pysnmp's call of snmpCbFun: a response, or an error such as a timeout.  *)
SnmpCbFun(o) ==
    /\ loop = Idle
    /\ open' = open \ {o}
    /\ RspPDU(o.at, o.hears, reqCtx[CtxOf(o.at)]) \/ NoPDU(o.at)
    /\ UNCHANGED <<todo, loop, endpoints, reqCtx, fates, sends, unsent>>

Next == \/ \E req \in Reqs : Receive(req)
        \/ TryPeer
        \/ \E o \in open : SnmpCbFun(o)

Spec == Init /\ [][Next]_vars

-----------------------------------------------------------------------------
(* Safety.                                                                 *)

(* The list of target_override.py holds the pairs of the attempts that     *)
(* ended before an address was looked up, in their order, and nothing      *)
(* else: a plugin's verdict or a failure leaves its pair behind for ever.  *)
OnlyUnsentLeft ==
    /\ Len(endpoints) = 2 * Len(unsent)
    /\ \A i \in DOMAIN unsent :
           /\ endpoints[2 * i - 1] = Bind(PeerOf(unsent[i]))
           /\ endpoints[2 * i] = Remote(PeerOf(unsent[i]))

(* Whatever earlier attempts left in the list, a PDU leaves from the       *)
(* address, and for the address, of its own peer.                          *)
SentToOwnEndpoints ==
    \A s \in sends : s.bind = Bind(PeerOf(s.at)) /\ s.peer = Remote(PeerOf(s.at))

(* A response handler finds the note of the request and the peer it hears  *)
(* of, and its own note unless its list has another plugin of its module:  *)
(* several peers, requests and plugins do not mix up their notes.          *)
HearsOwnRequest ==
    \A r \in heard :
        LET Others == {i \in DOMAIN ChainOf(r.at) :
                           ChainOf(r.at)[i] # r.by /\ moduleOf[ChainOf(r.at)[i]] = moduleOf[r.by]}
        IN r.note # NoNote => r.note.at = r.at /\ (Others = {} => r.note.by = r.by)

(* A response passes a filter that never saw its request, and so is not    *)
(* filtered, only where another plugin answered in place of a peer: not    *)
(* after a BREAK, and never when a peer's response comes in.               *)
UnfilteredAfterRespondOnly == \A at \in unnoted : fates[at] = "responded"

(* When trunkCbFun is done with a request, the peers it did not try come   *)
(* after one for which a plugin returned DROP or RESPOND: a peer that      *)
(* cannot be sent to does not keep the others from being asked.            *)
SkippedByVerdictOnly ==
    \A at \in Routed :
        /\ at.n > 0 /\ fates[at] = "none" /\ at.req \notin todo
        /\ loop.req # at.req
        => \E i \in 1..(at.n - 1) : fates[At(at.req, i)] \in {"muted", "responded"}

(* One reply for each attempt, once, from pysnmp or at once: none is       *)
(* replied to and waited for, and only INFORMs that could not be sent end  *)
(* without.                                                                *)
Waits(at) == \E o \in open : o.at = at
RepliedOnce ==
    \A at \in Routed :
        /\ replies[at] <= 1
        /\ Waits(at) => replies[at] = 0 /\ fates[at] = "sent"
        /\ fates[at] # "none" /\ replies[at] = 0 /\ ~Waits(at)
           => fates[at] = "failed" /\ kind[at.req] = "inform"

(* Why: a request is taken once; the attempts still to come are untouched, *)
(* and one that was passed over is behind a verdict; a PDU is waited for   *)
(* once; the notes in reqCtx are of their own attempt, and a response will *)
(* pass no plugin that ought to have taken one and did not.                *)
TakenOnce == loop.req \notin todo

Ahead(at) == at.req \in todo \/ (loop.req = at.req /\ loop.n <= at.n)

UntriedUntouched ==
    \A at \in Routed : Ahead(at) => fates[at] = "none" /\ replies[at] = 0 /\ ~Waits(at)

PassedOver ==
    \A at \in Routed : at.n > 0 /\ fates[at] = "none" /\ ~Ahead(at)
        => \E i \in 1..(at.n - 1) : fates[At(at.req, i)] \in {"muted", "responded"}

WaitedForOnce == \A o, q \in open : o.at = q.at => o = q

OwnNote(at, m, note) ==
    note # NoNote => \E i \in DOMAIN ChainOf(at) :
                         moduleOf[ChainOf(at)[i]] = m /\ note = [by |-> ChainOf(at)[i], at |-> at]
OwnNotes == \A at \in Routed, m \in Modules : OwnNote(at, m, reqCtx[at][m])

Noticed(at, plugins, ctx) ==
    \A i \in DOMAIN plugins : Notes(at, moduleOf[plugins[i]]) => ctx[moduleOf[plugins[i]]] # NoNote
ResponseNoticed == \A o \in open : Noticed(o.at, o.hears, reqCtx[o.at])

IInv ==
    /\ TypeOK
    /\ OnlyUnsentLeft /\ SentToOwnEndpoints
    /\ TakenOnce /\ UntriedUntouched /\ PassedOver
    /\ WaitedForOnce /\ RepliedOnce
    /\ OwnNotes /\ HearsOwnRequest
    /\ ResponseNoticed /\ UnfilteredAfterRespondOnly
=============================================================================
