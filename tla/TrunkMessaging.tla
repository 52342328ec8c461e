--------------------------- MODULE TrunkMessaging ---------------------------
(***************************************************************************)
(* Request and response messages on the trunks between one snmpfwd-server  *)
(* (the SNMP agent side) and one snmpfwd-client (the SNMP manager side):   *)
(* sendReq and sendRsp of the manager and of its connections, message IDs, *)
(* and the pendingReqs a response is matched with.                         *)
(*                                                                         *)
(* Requests go from snmpfwd-server to snmpfwd-client whichever of the two  *)
(* dialled the trunk. How a trunk comes up and down is module Trunking's   *)
(* matter; here it is a connection both managers find under the trunk ID,  *)
(* which either end may lose before the other. Pings are left out, except  *)
(* that an unanswered one makes a manager give up its trunk (GiveUp).      *)
(***************************************************************************)
EXTENDS Naturals, Sequences, FiniteSets, Functions

CONSTANTS Trunks,      \* trunk IDs
          Conns,       \* connection identities; one is reused once it is garbage
          DialledBy,   \* trunk ID -> the daemon that has it as a client block
          MaxId,       \* the largest message ID: 65535
          Restartable, \* the daemons that may die and be started again
          Reqs,        \* SNMP requests
          ServerChain, \* number of plugins on a request's path in snmpfwd-server
          NoConn, NoCtx

Side == {"server", "client"}
Far(s) == IF s = "server" THEN "client" ELSE "server"

ASSUME TrunksAssumption == /\ DialledBy \in [Trunks -> Side]
                           /\ Restartable \subseteq Side
                           /\ NoConn \notin Conns

ASSUME MaxIdAssumption == MaxId \in Nat

Ids == 0..MaxId

(* What the callback of a request is given, of which matters: the request, *)
(* and how many plugins of the chain its response has to pass.             *)
Ctx == [ref : Reqs, kept : 0..ServerChain]

ASSUME CtxAssumption == ServerChain \in Nat /\ NoCtx \notin Ctx

VARIABLES
    trunk,       \* daemon -> trunk ID -> the connection its manager finds
    end,         \* daemon -> connection -> the state of its transport
    current,     \* snmpfwd-server's msgid.numbers.current
    pendingReqs, \* connection -> message ID -> callback context, at snmpfwd-server
    requests,    \* connection -> request messages in flight
    responses    \* connection -> response messages in flight

messaging == <<trunk, end, current, pendingReqs, requests, responses>>

(* ref: the request a message is about. It is not in the message, which    *)
(* is matched by its ID alone, but says what its PDU is an answer to.      *)
Request == [id : Ids, ref : Reqs]
Response == [id : Ids, ref : Reqs, result : {"agent", "plugin", "nothing", "error"}]

MessagingTypeOK ==
    /\ trunk \in [Side -> [Trunks -> Conns \cup {NoConn}]]
    /\ end \in [Side -> [Conns -> {"down", "open", "closing"}]]
    /\ current \in Ids
    /\ pendingReqs \in [Conns -> [Ids -> Ctx \cup {NoCtx}]]
    /\ requests \in [Conns -> Seq(Request)]
    /\ responses \in [Conns -> Seq(Response)]

NoPending == [i \in Ids |-> NoCtx]

MessagingInit ==
    /\ trunk = [s \in Side |-> [t \in Trunks |-> NoConn]]
    /\ end = [s \in Side |-> [c \in Conns |-> "down"]]
    /\ current = 0
    /\ pendingReqs = [c \in Conns |-> NoPending]
    /\ requests = [c \in Conns |-> <<>>]
    /\ responses = [c \in Conns |-> <<>>]

-----------------------------------------------------------------------------
(* A transport that is closing is still there, so messages are accepted,   *)
(* but what is written on it, or towards an end that stopped reading, is   *)
(* lost.                                                                   *)
HasTransport(s, c) == end[s][c] # "down"
Carries(c) == end["server"][c] = "open" /\ end["client"][c] = "open"

(* getId: the i-th message ID from now.                                    *)
IdUnmoved(i) == current     \* mutant: the counter is read and not moved on
IdFrom(i) == (current + i) % (MaxId + 1)

(* sendReq for the trunks of a route, one after the other: the first       *)
(* unknown trunk ID raises SnmpfwdError, on which both callers return, so  *)
(* n trunks are reached. One without a transport takes a message ID, and   *)
(* nothing else.                                                           *)
Known(s, t) == trunk[s][t] # NoConn

SendReq(route, ctx) ==
    \E n \in 0..Len(route) :
        LET Sent(c, i) == trunk["server"][route[i]] = c /\ HasTransport("server", c)
        IN /\ \A i \in 1..n : Known("server", route[i])
           /\ n < Len(route) => ~Known("server", route[n + 1])
           /\ current' = IdFrom(n)
           /\ pendingReqs' = [c \in Conns |-> [id \in Ids |->
                  IF \E i \in 1..n : Sent(c, i) /\ IdFrom(i) = id
                  THEN ctx ELSE pendingReqs[c][id]]]
           /\ requests' = [c \in Conns |->
                  IF Carries(c) /\ \E i \in 1..n : Sent(c, i)
                  THEN LET i == CHOOSE i \in 1..n : Sent(c, i)
                       IN Append(requests[c], [id |-> IdFrom(i), ref |-> ctx.ref])
                  ELSE requests[c]]

(* sendRsp: the connection is looked up when the response is sent, not     *)
(* when the request came. Unknown trunk IDs, and trunks without transport, *)
(* lose the responses.                                                     *)
SendRsp(t, rsps) ==
    responses' = [c \in Conns |->
        IF c = trunk["client"][t] /\ Carries(c) THEN responses[c] \o rsps ELSE responses[c]]

-----------------------------------------------------------------------------
(* A connection nothing refers to any more.                                *)
Garbage(c) == \A s \in Side : end[s][c] = "down" /\ \A t \in Trunks : trunk[s][t] # c

(* The dialling daemon has replaced its connection by one that came up,    *)
(* and the other, which does not know the trunk, has registered it. Both   *)
(* objects are new.                                                        *)
ConnectNumbersAnew(t, c) ==    \* mutant: message IDs counted per connection
    LET s == DialledBy[t]
    IN /\ Garbage(c)
       /\ Known(s, t) => end[s][trunk[s][t]] = "down"
       /\ ~Known(Far(s), t)
       /\ trunk' = [d \in Side |-> [trunk[d] EXCEPT ![t] = c]]
       /\ end' = [d \in Side |-> [end[d] EXCEPT ![c] = "open"]]
       /\ pendingReqs' = [pendingReqs EXCEPT ![c] = NoPending]
       /\ current' = 0
       /\ UNCHANGED <<requests, responses>>

Connect(t, c) ==
    LET s == DialledBy[t]
    IN /\ Garbage(c)
       /\ Known(s, t) => end[s][trunk[s][t]] = "down"
       /\ ~Known(Far(s), t)
       /\ trunk' = [d \in Side |-> [trunk[d] EXCEPT ![t] = c]]
       /\ end' = [d \in Side |-> [end[d] EXCEPT ![c] = "open"]]
       /\ pendingReqs' = [pendingReqs EXCEPT ![c] = NoPending]
       /\ UNCHANGED <<current, requests, responses>>

(* Messages towards s on connections of conns are lost with its end.       *)
DropInput(s, conns) ==
    /\ requests' = [c \in Conns |->
           IF s = "client" /\ c \in conns THEN <<>> ELSE requests[c]]
    /\ responses' = [c \in Conns |->
           IF s = "server" /\ c \in conns THEN <<>> ELSE responses[c]]

(* connection_lost: the accepting side unregisters, the dialling side      *)
(* keeps the connection, without a transport, until setupTrunks.           *)
ConnectionLost(s, c) ==
    /\ end[s][c] # "down"
    /\ end' = [end EXCEPT ![s][c] = "down"]
    /\ trunk' = [trunk EXCEPT ![s] = [t \in Trunks |->
           IF @[t] = c /\ DialledBy[t] # s THEN NoConn ELSE @[t]]]
    /\ DropInput(s, {c})
    /\ UNCHANGED <<current, pendingReqs>>

(* monitorTrunks gives up a trunk whose ping is unconfirmed.               *)
GiveUp(s, t) ==
    /\ Known(s, t)
    /\ trunk' = [trunk EXCEPT ![s][t] = NoConn]
    /\ end' = [end EXCEPT ![s][trunk[s][t]] = IF @ = "open" THEN "closing" ELSE @]
    /\ UNCHANGED <<current, pendingReqs, requests, responses>>

(* A daemon is started again: a new manager, message IDs from the start.   *)
MessagingRestart(s) ==
    /\ s \in Restartable
    /\ trunk' = [trunk EXCEPT ![s] = [t \in Trunks |-> NoConn]]
    /\ end' = [end EXCEPT ![s] = [c \in Conns |-> "down"]]
    /\ DropInput(s, Conns)
    /\ IF s = "server"
       THEN current' = 0 /\ pendingReqs' = [c \in Conns |-> NoPending]
       ELSE UNCHANGED <<current, pendingReqs>>
=============================================================================
