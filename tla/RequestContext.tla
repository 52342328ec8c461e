--------------------------- MODULE RequestContext ---------------------------
(***************************************************************************)
(* How snmpfwd-server describes and classifies the SNMP messages it        *)
(* receives: usmRequestObserver and requestObserver, which pysnmp calls    *)
(* one after the other for a message, and the dict they leave for the      *)
(* responder. It is one dict for every SNMP engine of the process, and all *)
(* of this is done for a message before the next one is read.              *)
(*                                                                         *)
(* Of a message, the keys it is classified by are members of small sets,   *)
(* and a pattern is the set of keys it matches; macros are left out.       *)
(***************************************************************************)
EXTENDS Integers, FiniteSetsExt

CONSTANTS Engines,        \* SNMP engine IDs, of this process and of others
          Reqs,           \* requests under way
          Messages,       \* SNMP messages that may arrive
          credIdMap,      \* <<engine, credentials>> -> credentials ID; partial
          contextIdList,  \* patterns and IDs of contexts, in order
          peerIdMap,      \* of pairs of addresses
          contentIdList,  \* of PDU types and variables
          pluginIdMap,    \* classification -> plugin IDs; partial
          trunkIdMap,     \* classification -> trunk IDs; partial
          None

VARIABLES gCurrentRequestContext,
          trunkReq    \* request under way -> its copy of that dict

vars == <<gCurrentRequestContext, trunkReq>>

Empty == [securityEngine |-> None, message |-> None, class |-> None,
          plugins |-> None, trunks |-> None]

Init ==
    /\ gCurrentRequestContext = Empty
    /\ trunkReq = [r \in Reqs |-> None]

-----------------------------------------------------------------------------
Lookup(map, key, default) == IF key \in DOMAIN map THEN map[key] ELSE default

(* The first pattern that matches.                                         *)
FirstMatch(list, key) ==
    LET hits == {i \in DOMAIN list : key \in list[i].matches}
    IN IF hits = {} THEN None ELSE list[Min(hits)].id

Class(m) == <<Lookup(credIdMap, <<m.engine, m.credentials>>, None),
              FirstMatch(contextIdList, m.context),
              FirstMatch(peerIdMap, m.peer),
              FirstMatch(contentIdList, m.content)>>

(* usmRequestObserver, which SNMPv1 and SNMPv2c messages do not meet.      *)
Authenticated(m) ==
    IF m.model = 3 THEN [Empty EXCEPT !.securityEngine = m.securityEngine]
                   ELSE gCurrentRequestContext

(* requestObserver takes the security engine out of the dict, or there is  *)
(* none, and leaves everything it found out of the message there.          *)
Observed(m) ==
    LET found == Authenticated(m).securityEngine
    IN [securityEngine |-> IF found = None THEN m.engine ELSE found,
        message |-> m,
        class   |-> Class(m),
        plugins |-> Lookup(pluginIdMap, Class(m), <<>>),
        trunks  |-> Lookup(trunkIdMap, Class(m), None)]

(* Without patterns there is no key to look up, and KeyError ends the      *)
(* message when only the security engine has been taken out.               *)
Classifiable == contextIdList # <<>> /\ contentIdList # <<>>

ReceiveRequest(r, m) ==
    /\ trunkReq[r] = None
    /\ IF Classifiable
       THEN /\ gCurrentRequestContext' = Observed(m)
            /\ trunkReq' = [trunkReq EXCEPT ![r] = Observed(m)]
       ELSE /\ gCurrentRequestContext' = [Authenticated(m) EXCEPT !.securityEngine = None]
            /\ UNCHANGED trunkReq

(* pysnmp refuses an SNMPv3 message after it told usmRequestObserver, or   *)
(* the message is no request.                                              *)
RefuseMessage(m) ==
    /\ m.model = 3
    /\ gCurrentRequestContext' = Authenticated(m)
    /\ UNCHANGED trunkReq

(* A request has been answered or given up.                                *)
Finish(r) ==
    /\ trunkReq[r] # None
    /\ trunkReq' = [trunkReq EXCEPT ![r] = None]
    /\ UNCHANGED gCurrentRequestContext

Next ==
    \/ \E r \in Reqs, m \in Messages : ReceiveRequest(r, m)
    \/ \E m \in Messages : RefuseMessage(m)
    \/ \E r \in Reqs : Finish(r)

Spec == Init /\ [][Next]_vars
-----------------------------------------------------------------------------
(* What a plugin, a macro or snmpfwd-client reads as the security engine   *)
(* ID of a request came with that request (macro.rst:118-123); SNMPv1 and  *)
(* SNMPv2c have none, and the engine that received the request stands for  *)
(* it.                                                                     *)
OwnSecurityEngine ==
    \A r \in Reqs : trunkReq[r] # None =>
        LET m == trunkReq[r].message
        IN trunkReq[r].securityEngine = IF m.model = 3 THEN m.securityEngine ELSE m.engine
=============================================================================
