-------------------------- MODULE MCRequestContext --------------------------
(* Two SNMP engines, a community each and one USM user of a remote engine, *)
(* told apart by their credentials.                                        *)
EXTENDS RequestContext

CONSTANTS e1, e2, far,       \* SNMP engines
          public, user,      \* credentials
          here, any          \* a context; the address and the content of all messages

M(engine, model, security, credentials) ==
    [engine |-> engine, model |-> model, securityEngine |-> security,
     credentials |-> credentials, context |-> here, peer |-> any, content |-> any]

MessagesMC == {M(e1, 2, None, public), M(e2, 2, None, public), M(e1, 3, far, user)}

CredIdsMC == [k \in {<<e1, public>>, <<e2, public>>, <<e1, user>>} |-> k[2]]
ContextsMC == <<[matches |-> {}, id |-> 1], [matches |-> {here}, id |-> 2]>>
AnyMC == <<[matches |-> {any}, id |-> 1]>>
TrunksMC == [k \in {<<c, 2, 1, 1>> : c \in {public, user}} |-> <<"trunk">>]
PluginsMC == [k \in {<<user, 2, 1, 1>>} |-> <<"plugin">>]
=============================================================================
