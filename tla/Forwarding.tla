----------------------------- MODULE Forwarding -----------------------------
(***************************************************************************)
(* How SNMP requests cross snmpfwd: CommandResponder and                   *)
(* NotificationReceiver of snmpfwd-server, the trunk messages of           *)
(* TrunkMessaging, and trunkCbFun and snmpCbFun of snmpfwd-client.         *)
(*                                                                         *)
(* Each daemon is one asyncio thread, so every action is one callback. A   *)
(* PDU is abstracted to the request it belongs to and to where a response  *)
(* came from; what a plugin does to a PDU is left out, what its status     *)
(* does to the request's path is not.                                      *)
(*                                                                         *)
(* An operator marked "mutant" is a plausible bug in the operator defined  *)
(* after it; nothing uses it here.                                         *)
(***************************************************************************)
EXTENDS TrunkMessaging

CONSTANTS Peers,         \* SNMP peers of snmpfwd-client
          kind,          \* SNMP request -> "command", "trap" or "inform"
          trunkIdList,   \* SNMP request -> its route: a sequence of trunk IDs, <<>> for none
          peerIdList,    \* trunk ID -> the sequence of SNMP peers its requests go to
          ClientChain,   \* number of plugins on a request's path in snmpfwd-client
          NoAnswer

ASSUME RoutesAssumption ==
    /\ kind \in [Reqs -> {"command", "trap", "inform"}]
    /\ trunkIdList \in [Reqs -> Seq(Trunks)]
    /\ \A r \in Reqs : IsInjective(trunkIdList[r])
    /\ peerIdList \in [Trunks -> Seq(Peers)]
    /\ \A t \in Trunks : IsInjective(peerIdList[t])

(* A route is not so long that it takes all message IDs at once.           *)
ASSUME RouteLengthAssumption == \A r \in Reqs : Len(trunkIdList[r]) <= MaxId

ASSUME ClientChainAssumption == ClientChain \in Nat

VARIABLES
    received,      \* SNMP requests snmpfwd-server was given
    stashedState,  \* _stashedState: requests whose pysnmp state is kept
    answer,        \* request -> what pysnmp returned to its sender
    outstanding    \* what snmpfwd-client waits for: one callback of pysnmp each

daemons == <<received, stashedState, answer, outstanding>>
vars == <<messaging, daemons>>

Answers == [ref : Reqs, result : {"agent", "plugin"}]
Waiting == [trunk : Trunks, id : Ids, ref : Reqs, peer : Peers, kept : 0..ClientChain]

ASSUME NoAnswerAssumption == NoAnswer \notin Answers

TypeOK ==
    /\ MessagingTypeOK
    /\ received \subseteq Reqs
    /\ stashedState \subseteq Reqs
    /\ answer \in [Reqs -> Answers \cup {NoAnswer}]
    /\ outstanding \subseteq Waiting

Init ==
    /\ MessagingInit
    /\ received = {}
    /\ stashedState = {}
    /\ answer = [r \in Reqs |-> NoAnswer]
    /\ outstanding = {}

-----------------------------------------------------------------------------
(* A chain of n plugins. On a request's way: every plugin says NEXT; or    *)
(* plugin k+1 says BREAK, and the response passes only the k plugins       *)
(* before it; or one says DROP, or RESPOND. On the response's way through  *)
(* n plugins, one may say DROP; after BREAK it goes on as it is.           *)
RequestVerdicts(n) ==
    [status : {"NEXT"}, kept : 0..n]
        \cup (IF n > 0 THEN [status : {"DROP", "RESPOND"}, kept : {n}] ELSE {})

ResponseVerdicts(n) == {"NEXT"} \cup (IF n > 0 THEN {"DROP"} ELSE {})

(* pysnmp hands a response to the sender of r, if it has not done so: it   *)
(* forgets where the request came from with the first response.            *)
Answer(r, by) ==
    answer' = [answer EXCEPT ![r] = IF @ = NoAnswer THEN by ELSE @]

-----------------------------------------------------------------------------
(* snmpfwd-server: an SNMP request arrives.                                *)

Stash(r) ==
    stashedState' = IF kind[r] = "command" THEN stashedState \cup {r} ELSE stashedState

(* A request has no route: nothing is sent. sendReq may find an unknown    *)
(* trunk ID: the rest of the route is not tried.                           *)
Forward(r, kept) ==
    /\ SendReq(trunkIdList[r], [ref |-> r, kept |-> kept])
    /\ UNCHANGED <<trunk, end, responses, answer>>

(* handle_management_operation, or process_pdu of NotificationReceiver,    *)
(* which has no RESPOND: it drops the notification.                        *)
ReceiveRequest(r) ==
    /\ r \notin received
    /\ received' = received \cup {r}
    /\ Stash(r)
    /\ \E v \in RequestVerdicts(ServerChain) :
           \/ v.status = "NEXT" /\ Forward(r, v.kept)
           \/ /\ v.status = "DROP"
              /\ UNCHANGED <<messaging, answer>>
           \/ /\ v.status = "RESPOND"
              /\ IF kind[r] = "command"
                 THEN Answer(r, [ref |-> r, result |-> "plugin"])
                 ELSE UNCHANGED answer
              /\ UNCHANGED messaging
    /\ UNCHANGED outstanding

-----------------------------------------------------------------------------
(* snmpfwd-client: a request arrives on a trunk.                           *)

(* What the loop over the peers does with one of them. "sent" and "failed" *)
(* are the outcomes of pysnmp's send_pdu.                                  *)
Fate == [status : {"sent"}, kept : 0..ClientChain]
            \cup [status : {"failed"}, kept : {ClientChain}]
            \cup (IF ClientChain > 0
                  THEN [status : {"muted", "responded"}, kept : {ClientChain}] ELSE {})

(* A plugin's DROP or RESPOND ends the loop over the peers.                *)
Tried(fates) ==
    {i \in DOMAIN fates : \A j \in 1..(i - 1) : fates[j].status \in {"sent", "failed"}}

(* Whether a fate sends a response over the trunk at once, and which. A    *)
(* trap is not confirmed; an INFORM pysnmp could not send is only logged;  *)
(* a response a plugin forces passes the plugins, too, and may be muted.   *)
FailureUnanswered(k, f) ==   \* mutant: a request pysnmp could not send is only logged
    \/ f.status \in {"muted", "responded"}
    \/ f.status = "sent" /\ k = "trap"
AnsweredAtOnce(k, f) ==
    \/ f.status \in {"muted", "responded"}
    \/ f.status = "sent" /\ k = "trap"
    \/ f.status = "failed" /\ k # "inform"

Result(f) == CASE f.status = "responded" -> "plugin"
               [] f.status = "failed"    -> "error"
               [] OTHER                  -> "nothing"

(* The responses sent at once, in the order of the loop.                   *)
Results(k, fates) ==
    LET now == {i \in Tried(fates) : AnsweredAtOnce(k, fates[i])}
        Nth(n) == CHOOSE i \in now : Cardinality({j \in now : j <= i}) = n
    IN [n \in 1..Cardinality(now) |-> Result(fates[Nth(n)])]

Respond(m, results) == [i \in DOMAIN results |->
                           [id |-> m.id, ref |-> m.ref, result |-> results[i]]]

Unroutable(t, m) ==
    /\ peerIdList[t] = <<>>
    /\ SendRsp(t, Respond(m, <<"error">>))
    /\ UNCHANGED outstanding

Route(t, m) ==
    /\ peerIdList[t] # <<>>
    /\ \E fates \in [DOMAIN peerIdList[t] -> Fate] :
           /\ SendRsp(t, Respond(m, Results(kind[m.ref], fates)))
           /\ outstanding' = outstanding \cup
                  {[trunk |-> t, id |-> m.id, ref |-> m.ref,
                    peer |-> peerIdList[t][i], kept |-> fates[i].kept] :
                   i \in {j \in Tried(fates) :
                             kind[m.ref] # "trap" /\ fates[j].status = "sent"}}

(* data_received of the connection, __proxyDataCbFun of the manager, and   *)
(* trunkCbFun: a connection the manager gave up has no trunk ID.           *)
ClientDataReceived(c) ==
    /\ end["client"][c] = "open"
    /\ requests[c] # <<>>
    /\ requests' = [requests EXCEPT ![c] = Tail(@)]
    /\ LET m == Head(requests[c])
           owner == {t \in Trunks : trunk["client"][t] = c}
       IN IF owner = {}
          THEN UNCHANGED <<responses, outstanding>>
          ELSE \E t \in owner : Unroutable(t, m) \/ Route(t, m)
    /\ UNCHANGED <<trunk, end, current, pendingReqs, received, stashedState, answer>>

(* snmpCbFun: the peer answered, or pysnmp gave it up.                     *)
SnmpResponse(w) ==
    /\ w \in outstanding
    /\ outstanding' = outstanding \ {w}
    /\ \E result \in {"agent", "error"} \cup
                     (IF ResponseVerdicts(w.kept) # {"NEXT"} THEN {"nothing"} ELSE {}) :
           SendRsp(w.trunk, Respond(w, <<result>>))
    /\ UNCHANGED <<trunk, end, current, pendingReqs, requests,
                   received, stashedState, answer>>

-----------------------------------------------------------------------------
(* snmpfwd-server: a response arrives on a trunk.                          *)

NotSilent(m) == m.result # "nothing"    \* mutant: an error response is taken for an answer
HasPdu(m) == m.result \in {"agent", "plugin"}

(* CommandResponder.trunkCbFun. Without its state, send_pdu raises         *)
(* KeyError, which leaves data_received: asyncio closes the connection.    *)
ReplyPopsFirst(c, r, m) ==   \* mutant: state restored before the response is looked at
    \/ /\ ~HasPdu(m)
       /\ stashedState' = stashedState \ {r}
       /\ UNCHANGED <<answer, end>>
    \/ /\ HasPdu(m)
       /\ IF r \in stashedState
          THEN /\ stashedState' = stashedState \ {r}
               /\ Answer(r, [ref |-> m.ref, result |-> m.result])
               /\ UNCHANGED end
          ELSE /\ end' = [end EXCEPT !["server"][c] = "closing"]
               /\ UNCHANGED <<stashedState, answer>>

ReplyToCommand(c, r, m) ==
    \/ /\ ~HasPdu(m)
       /\ UNCHANGED <<stashedState, answer, end>>
    \/ /\ HasPdu(m)
       /\ IF r \in stashedState
          THEN /\ stashedState' = stashedState \ {r}
               /\ Answer(r, [ref |-> m.ref, result |-> m.result])
               /\ UNCHANGED end
          ELSE /\ end' = [end EXCEPT !["server"][c] = "closing"]
               /\ UNCHANGED <<stashedState, answer>>

(* NotificationReceiver.trunkCbFun, and _ack_inform.                       *)
ReplyToNotification(r, m) ==
    /\ IF kind[r] = "inform" /\ HasPdu(m)
       THEN Answer(r, [ref |-> m.ref, result |-> m.result])
       ELSE UNCHANGED answer
    /\ UNCHANGED <<stashedState, end>>

ServerDataReceived(c) ==
    /\ end["server"][c] = "open"
    /\ responses[c] # <<>>
    /\ responses' = [responses EXCEPT ![c] = Tail(@)]
    /\ LET m == Head(responses[c])
           ctx == pendingReqs[c][m.id]
       IN IF ctx = NoCtx
          THEN UNCHANGED <<pendingReqs, stashedState, answer, end>>
          ELSE /\ pendingReqs' = [pendingReqs EXCEPT ![c][m.id] = NoCtx]
               /\ \/ /\ HasPdu(m) /\ "DROP" \in ResponseVerdicts(ctx.kept)
                     /\ UNCHANGED <<stashedState, answer, end>>
                  \/ /\ kind[ctx.ref] = "command"
                     /\ ReplyToCommand(c, ctx.ref, m)
                  \/ /\ kind[ctx.ref] # "command"
                     /\ ReplyToNotification(ctx.ref, m)
    /\ UNCHANGED <<trunk, current, requests, received, outstanding>>

-----------------------------------------------------------------------------
(* A daemon is started again: what it kept of its requests is gone.        *)
Restart(s) ==
    /\ MessagingRestart(s)
    /\ stashedState' = IF s = "server" THEN {} ELSE stashedState
    /\ outstanding' = IF s = "client" THEN {} ELSE outstanding
    /\ UNCHANGED <<received, answer>>

Link == \/ \E t \in Trunks, c \in Conns : Connect(t, c)
        \/ \E s \in Side, c \in Conns : ConnectionLost(s, c)
        \/ \E s \in Side, t \in Trunks : GiveUp(s, t)

Next == \/ Link /\ UNCHANGED daemons
        \/ \E r \in Reqs : ReceiveRequest(r)
        \/ \E c \in Conns : ClientDataReceived(c) \/ ServerDataReceived(c)
        \/ \E w \in outstanding : SnmpResponse(w)
        \/ \E s \in Side : Restart(s)

Spec == Init /\ [][Next]_vars

-----------------------------------------------------------------------------
(* Safety.                                                                 *)

Awaits(c, id, r) == pendingReqs[c][id] # NoCtx /\ pendingReqs[c][id].ref = r

(* The pysnmp state of a command survives until its sender is answered:    *)
(* while a response may come, from whichever trunk, and none was passed    *)
(* on, the stash still has it, so send_pdu finds it (the fix of the stale  *)
(* state KeyError).                                                        *)
StateSurvives ==
    \A c \in Conns, id \in Ids, r \in Reqs :
        Awaits(c, id, r) /\ kind[r] = "command" /\ answer[r] = NoAnswer
            => r \in stashedState

(* What a sender is answered was made for its own request, by an SNMP peer *)
(* or a plugin of snmpfwd-client, or by a plugin of snmpfwd-server. For an *)
(* INFORM this is the end-to-end confirmation: it is acknowledged only     *)
(* after a peer acknowledged that very INFORM (or a plugin did for it),    *)
(* never on another one's response, a failure or silence.                  *)
AnswerIsOwn == \A r \in Reqs : answer[r] # NoAnswer => answer[r].ref = r

(* Why: whatever is pending, travels or is worked on under one message ID  *)
(* is about one request that was received, and IDs yet to be issued are    *)
(* not in use (as long as they do not start again).                        *)
Carried(channel, r, id) ==
    \E i \in DOMAIN channel : channel[i].ref = r /\ channel[i].id = id

InUse(r, id) ==
    \/ \E c \in Conns : \/ Awaits(c, id, r)
                        \/ Carried(requests[c], r, id)
                        \/ Carried(responses[c], r, id)
    \/ \E w \in outstanding : w.ref = r /\ w.id = id

OneRequestPerId ==
    \A r \in Reqs, id \in Ids : InUse(r, id) =>
        /\ r \in received
        /\ id <= current
        /\ \A q \in Reqs : InUse(q, id) => q = r

-----------------------------------------------------------------------------
(* Liveness.                                                               *)

(* While messages are on their way, one of them arrives; while pysnmp owes *)
(* callbacks, it makes one, for a response or a timeout; and the end of a  *)
(* connection is noticed at its other end.                                 *)
Fairness ==
    /\ WF_vars(\E c \in Conns : ClientDataReceived(c) \/ ServerDataReceived(c))
    /\ WF_vars(\E w \in outstanding : SnmpResponse(w))
    /\ \A s \in Side, c \in Conns :
           WF_vars(/\ end[s][c] = "closing" \/ end[Far(s)][c] # "open"
                   /\ ConnectionLost(s, c)
                   /\ UNCHANGED daemons)

FairSpec == Spec /\ Fairness

(* Every command and trap sent over a trunk gets a response over it, while *)
(* the trunk lives, whatever plugins and SNMP peers do. (An INFORM that    *)
(* pysnmp fails to send gets none.)                                        *)
RepliesArrive ==
    \A c \in Conns, r \in {q \in Reqs : kind[q] # "inform"} :
        (\E id \in Ids : Awaits(c, id, r))
            ~> (\A id \in Ids : ~Awaits(c, id, r)) \/ end["server"][c] # "open"
=============================================================================
