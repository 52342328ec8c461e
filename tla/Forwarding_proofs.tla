-------------------------- MODULE Forwarding_proofs --------------------------
(***************************************************************************)
(* Proofs about Forwarding, for every set of requests, trunks and peers,   *)
(* every routing and every size of the message ID space: type correctness, *)
(* that the pysnmp state of a command survives until it is answered, and,  *)
(* as long as message IDs do not start again, that an ID stands for one    *)
(* request and a sender is answered its own.                               *)
(***************************************************************************)
EXTENDS Forwarding, FiniteSetTheorems, TLAPS

LEMMA Remainder == ASSUME NEW a \in Nat, NEW n \in Nat PROVE a % (n + 1) \in 0..n
    OBVIOUS

LEMMA IdIsId == ASSUME TypeOK, NEW i \in Nat PROVE IdFrom(i) \in Ids
<1>1. current + i \in Nat
    BY MaxIdAssumption DEF TypeOK, MessagingTypeOK, Ids
<1> QED BY <1>1, Remainder, MaxIdAssumption DEF IdFrom, Ids

LEMMA HeadAndTail ==
    ASSUME NEW T, NEW q \in Seq(T), q # <<>>
    PROVE  Head(q) \in T /\ Tail(q) \in Seq(T)
    OBVIOUS

LEMMA Listed == ASSUME NEW T, NEW n \in Nat, NEW f \in [1..n -> T] PROVE f \in Seq(T)
    OBVIOUS

LEMMA EntryReplaced ==
    ASSUME NEW A, NEW I, NEW V, NEW f \in [A -> [I -> V]], NEW a \in A, NEW i \in I, NEW v
    PROVE  \A x \in A, y \in I :
               [f EXCEPT ![a][i] = v][x][y] = IF x = a /\ y = i THEN v ELSE f[x][y]
    OBVIOUS

ResultSet == {"agent", "plugin", "nothing", "error"}

LEMMA SendReqType ==
    ASSUME TypeOK, NEW route \in Seq(Trunks), NEW ctx \in Ctx, SendReq(route, ctx)
    PROVE  /\ current' \in Ids
           /\ pendingReqs' \in [Conns -> [Ids -> Ctx \cup {NoCtx}]]
           /\ requests' \in [Conns -> Seq(Request)]
<1> DEFINE Sent(c, i) == trunk["server"][route[i]] = c /\ HasTransport("server", c)
<1>1. PICK n \in 0..Len(route) :
          /\ current' = IdFrom(n)
          /\ pendingReqs' = [c \in Conns |-> [id \in Ids |->
                 IF \E i \in 1..n : Sent(c, i) /\ IdFrom(i) = id
                 THEN ctx ELSE pendingReqs[c][id]]]
          /\ requests' = [c \in Conns |->
                 IF Carries(c) /\ \E i \in 1..n : Sent(c, i)
                 THEN LET i == CHOOSE i \in 1..n : Sent(c, i)
                      IN Append(requests[c], [id |-> IdFrom(i), ref |-> ctx.ref])
                 ELSE requests[c]]
    BY DEF SendReq
<1>2. current' \in Ids
    BY <1>1, IdIsId
<1>3. pendingReqs' \in [Conns -> [Ids -> Ctx \cup {NoCtx}]]
    BY <1>1 DEF TypeOK, MessagingTypeOK
<1>4. requests' \in [Conns -> Seq(Request)]
  <2> SUFFICES ASSUME NEW c \in Conns
               PROVE  (IF Carries(c) /\ \E i \in 1..n : Sent(c, i)
                       THEN LET i == CHOOSE i \in 1..n : Sent(c, i)
                            IN Append(requests[c], [id |-> IdFrom(i), ref |-> ctx.ref])
                       ELSE requests[c]) \in Seq(Request)
    BY <1>1
  <2>1. requests[c] \in Seq(Request) /\ ctx.ref \in Reqs
    BY DEF TypeOK, MessagingTypeOK, Ctx
  <2>2. ASSUME \E i \in 1..n : Sent(c, i)
        PROVE  [id |-> IdFrom(CHOOSE i \in 1..n : Sent(c, i)), ref |-> ctx.ref] \in Request
    <3>1. (CHOOSE i \in 1..n : Sent(c, i)) \in Nat
        BY <2>2
    <3> QED BY <2>1, <3>1, IdIsId DEF Request
  <2> QED BY <2>1, <2>2
<1> QED BY <1>2, <1>3, <1>4

LEMMA SendRspType ==
    ASSUME TypeOK, NEW t \in Trunks, NEW rsps \in Seq(Response), SendRsp(t, rsps)
    PROVE  responses' \in [Conns -> Seq(Response)]
BY DEF SendRsp, TypeOK, MessagingTypeOK

LEMMA RespondType ==
    ASSUME NEW m, m.id \in Ids, m.ref \in Reqs,
           NEW results \in Seq(ResultSet)
    PROVE  Respond(m, results) \in Seq(Response)
<1>1. \A i \in DOMAIN results :
          [id |-> m.id, ref |-> m.ref, result |-> results[i]] \in Response
    BY DEF Response, ResultSet
<1>2. Len(results) \in Nat /\ DOMAIN results = 1..Len(results)
    OBVIOUS
<1>3. Respond(m, results) \in [1..Len(results) -> Response]
    BY <1>1, <1>2 DEF Respond
<1> QED BY <1>2, <1>3, Listed

LEMMA RespondOne ==
    ASSUME NEW m, m.id \in Ids, m.ref \in Reqs, NEW x \in ResultSet
    PROVE  Respond(m, <<x>>) \in Seq(Response)
<1>1. <<x>> \in Seq(ResultSet)
    OBVIOUS
<1> QED BY <1>1, RespondType

LEMMA ResultsType ==
    ASSUME NEW k, NEW ps \in Seq(Peers), NEW fates \in [DOMAIN ps -> Fate]
    PROVE  Results(k, fates) \in Seq(ResultSet)
<1> DEFINE now == {i \in Tried(fates) : AnsweredAtOnce(k, fates[i])}
<1>1. IsFiniteSet(1..Len(ps))
    BY FS_Interval
<1>2. now \subseteq 1..Len(ps)
    BY DEF Tried
<1>3. Cardinality(now) \in Nat
    BY <1>1, <1>2, FS_Subset, FS_CardinalityType
<1>4. \A f : Result(f) \in ResultSet
    BY DEF Result, ResultSet
<1> DEFINE Nth(n) == CHOOSE i \in now : Cardinality({j \in now : j <= i}) = n
<1>5. Results(k, fates) = [n \in 1..Cardinality(now) |-> Result(fates[Nth(n)])]
    BY DEF Results
<1>6. Results(k, fates) \in [1..Cardinality(now) -> ResultSet]
    <2> HIDE DEF now, Nth
    <2> QED BY <1>4, <1>5
<1> QED BY <1>3, <1>6, Listed

-----------------------------------------------------------------------------
(* Type correctness, one lemma per callback.                               *)

LEMMA TypeLink == ASSUME TypeOK, Link, UNCHANGED daemons PROVE TypeOK'
<1>1. ASSUME NEW t \in Trunks, NEW c \in Conns, Connect(t, c) PROVE MessagingTypeOK'
    BY <1>1 DEF Connect, TypeOK, MessagingTypeOK, NoPending, Side
<1>2. ASSUME NEW s \in Side, NEW c \in Conns, ConnectionLost(s, c) PROVE MessagingTypeOK'
    BY <1>2 DEF ConnectionLost, DropInput, TypeOK, MessagingTypeOK
<1>3. ASSUME NEW s \in Side, NEW t \in Trunks, GiveUp(s, t) PROVE MessagingTypeOK'
    BY <1>3 DEF GiveUp, Known, TypeOK, MessagingTypeOK
<1>4. MessagingTypeOK'
    BY <1>1, <1>2, <1>3 DEF Link
<1> QED BY <1>4 DEF TypeOK, daemons

LEMMA TypeReceive ==
    ASSUME TypeOK, NEW r \in Reqs, ReceiveRequest(r)
    PROVE  TypeOK'
<1>1. /\ received' \subseteq Reqs /\ stashedState' \subseteq Reqs
      /\ outstanding' \subseteq Waiting
    BY DEF ReceiveRequest, Stash, TypeOK
<1>2. PICK v \in RequestVerdicts(ServerChain) :
          \/ v.status = "NEXT" /\ Forward(r, v.kept)
          \/ v.status = "DROP" /\ UNCHANGED <<messaging, answer>>
          \/ /\ v.status = "RESPOND"
             /\ IF kind[r] = "command"
                THEN Answer(r, [ref |-> r, result |-> "plugin"])
                ELSE UNCHANGED answer
             /\ UNCHANGED messaging
    BY DEF ReceiveRequest
<1>3. v.kept \in 0..ServerChain
    BY CtxAssumption DEF RequestVerdicts
<1>4. CASE Forward(r, v.kept)
  <2>1. [ref |-> r, kept |-> v.kept] \in Ctx /\ trunkIdList[r] \in Seq(Trunks)
    BY <1>3, RoutesAssumption DEF Ctx
  <2>2. /\ current' \in Ids
        /\ pendingReqs' \in [Conns -> [Ids -> Ctx \cup {NoCtx}]]
        /\ requests' \in [Conns -> Seq(Request)]
    BY <1>4, <2>1, SendReqType DEF Forward
  <2> QED BY <1>1, <1>4, <2>2 DEF Forward, TypeOK, MessagingTypeOK
<1>5. CASE UNCHANGED <<messaging, answer>>
    BY <1>1, <1>5 DEF TypeOK, MessagingTypeOK, messaging
<1>6. CASE UNCHANGED messaging /\ Answer(r, [ref |-> r, result |-> "plugin"])
    BY <1>1, <1>6 DEF TypeOK, MessagingTypeOK, messaging, Answer, Answers
<1> QED BY <1>2, <1>4, <1>5, <1>6

LEMMA TypeClientData ==
    ASSUME TypeOK, NEW c \in Conns, ClientDataReceived(c)
    PROVE  TypeOK'
<1> DEFINE m == Head(requests[c])
<1>0. requests[c] \in Seq(Request) /\ requests[c] # <<>>
    BY DEF ClientDataReceived, TypeOK, MessagingTypeOK
<1>1. m \in Request /\ m.id \in Ids /\ m.ref \in Reqs
  <2>1. m \in Request
    BY <1>0, HeadAndTail
  <2> HIDE DEF m
  <2> QED BY <2>1 DEF Request
<1>2. requests' \in [Conns -> Seq(Request)]
    BY <1>0, HeadAndTail DEF ClientDataReceived, TypeOK, MessagingTypeOK
<1> HIDE DEF m
<1>3. ASSUME NEW t \in Trunks, Unroutable(t, m) \/ Route(t, m)
      PROVE  responses' \in [Conns -> Seq(Response)] /\ outstanding' \subseteq Waiting
  <2>1. CASE Unroutable(t, m)
    <3>1. Respond(m, <<"error">>) \in Seq(Response)
        BY <1>1, RespondOne DEF ResultSet
    <3>2. responses' \in [Conns -> Seq(Response)]
        BY <2>1, <3>1, SendRspType DEF Unroutable
    <3> QED BY <2>1, <3>2 DEF Unroutable, TypeOK
  <2>2. CASE Route(t, m)
    <3>0. peerIdList[t] \in Seq(Peers)
        BY RoutesAssumption
    <3>1. PICK fates \in [DOMAIN peerIdList[t] -> Fate] :
              /\ SendRsp(t, Respond(m, Results(kind[m.ref], fates)))
              /\ outstanding' = outstanding \cup
                     {[trunk |-> t, id |-> m.id, ref |-> m.ref,
                       peer |-> peerIdList[t][i], kept |-> fates[i].kept] :
                      i \in {j \in Tried(fates) :
                                kind[m.ref] # "trap" /\ fates[j].status = "sent"}}
        BY <2>2 DEF Route
    <3>2. Results(kind[m.ref], fates) \in Seq(ResultSet)
        BY <3>0, ResultsType
    <3>3. Respond(m, Results(kind[m.ref], fates)) \in Seq(Response)
        BY <1>1, <3>2, RespondType
    <3>4. responses' \in [Conns -> Seq(Response)]
        BY <3>1, <3>3, SendRspType
    <3>5. \A i \in DOMAIN fates : fates[i].kept \in 0..ClientChain /\ peerIdList[t][i] \in Peers
        BY <3>0, ClientChainAssumption DEF Fate
    <3>6. \A i \in Tried(fates) : [trunk |-> t, id |-> m.id, ref |-> m.ref,
                       peer |-> peerIdList[t][i], kept |-> fates[i].kept] \in Waiting
        BY <1>1, <3>5 DEF Waiting, Tried
    <3> QED BY <3>1, <3>4, <3>6 DEF TypeOK
  <2> QED BY <1>3, <2>1, <2>2
<1>4. responses' \in [Conns -> Seq(Response)] /\ outstanding' \subseteq Waiting
    BY <1>3 DEF ClientDataReceived, TypeOK, MessagingTypeOK, m
<1> QED BY <1>2, <1>4 DEF ClientDataReceived, TypeOK, MessagingTypeOK

LEMMA TypeSnmpResponse ==
    ASSUME TypeOK, NEW w \in outstanding, SnmpResponse(w)
    PROVE  TypeOK'
<1>1. w.trunk \in Trunks /\ w.id \in Ids /\ w.ref \in Reqs
    BY DEF TypeOK, Waiting
<1>2. PICK result \in {"agent", "error", "nothing"} : SendRsp(w.trunk, Respond(w, <<result>>))
    BY DEF SnmpResponse
<1>3. Respond(w, <<result>>) \in Seq(Response)
    BY <1>1, RespondOne DEF ResultSet
<1>4. responses' \in [Conns -> Seq(Response)]
    BY <1>1, <1>2, <1>3, SendRspType
<1> QED BY <1>4 DEF SnmpResponse, TypeOK, MessagingTypeOK

LEMMA TypeServerData ==
    ASSUME TypeOK, NEW c \in Conns, ServerDataReceived(c)
    PROVE  TypeOK'
<1> DEFINE m == Head(responses[c])
           ctx == pendingReqs[c][m.id]
<1>0. responses[c] \in Seq(Response) /\ responses[c] # <<>>
    BY DEF ServerDataReceived, TypeOK, MessagingTypeOK
<1>1. m \in Response /\ m.id \in Ids /\ m.ref \in Reqs
  <2>1. m \in Response
    BY <1>0, HeadAndTail
  <2> HIDE DEF m
  <2> QED BY <2>1 DEF Response
<1>2. responses' \in [Conns -> Seq(Response)]
    BY <1>0, HeadAndTail DEF ServerDataReceived, TypeOK, MessagingTypeOK
<1>3. pendingReqs' \in [Conns -> [Ids -> Ctx \cup {NoCtx}]]
  <2>1. \/ UNCHANGED pendingReqs
        \/ pendingReqs' = [pendingReqs EXCEPT ![c][m.id] = NoCtx]
    BY DEF ServerDataReceived
  <2> HIDE DEF m
  <2>2. [pendingReqs EXCEPT ![c][m.id] = NoCtx] \in [Conns -> [Ids -> Ctx \cup {NoCtx}]]
    BY <1>1 DEF TypeOK, MessagingTypeOK
  <2> QED BY <2>1, <2>2 DEF TypeOK, MessagingTypeOK
<1>4. HasPdu(m) => [ref |-> m.ref, result |-> m.result] \in Answers
    BY <1>1 DEF HasPdu, Answers
<1> HIDE DEF m
<1>5. ASSUME NEW r, Answer(r, [ref |-> m.ref, result |-> m.result]), HasPdu(m)
      PROVE  answer' \in [Reqs -> Answers \cup {NoAnswer}]
    BY <1>4, <1>5 DEF Answer, TypeOK
<1>6. /\ stashedState' \subseteq Reqs
      /\ answer' \in [Reqs -> Answers \cup {NoAnswer}]
      /\ end' \in [Side -> [Conns -> {"down", "open", "closing"}]]
  <2>1. ASSUME NEW r, ReplyToCommand(c, r, m)
        PROVE  /\ stashedState' \subseteq Reqs
               /\ answer' \in [Reqs -> Answers \cup {NoAnswer}]
               /\ end' \in [Side -> [Conns -> {"down", "open", "closing"}]]
    <3>1. [end EXCEPT !["server"][c] = "closing"] \in [Side -> [Conns -> {"down", "open", "closing"}]]
        BY DEF TypeOK, MessagingTypeOK, Side
    <3> QED BY <2>1, <3>1, <1>5 DEF ReplyToCommand, TypeOK, MessagingTypeOK
  <2>2. ASSUME NEW r, ReplyToNotification(r, m)
        PROVE  /\ stashedState' \subseteq Reqs
               /\ answer' \in [Reqs -> Answers \cup {NoAnswer}]
               /\ end' \in [Side -> [Conns -> {"down", "open", "closing"}]]
    BY <2>2, <1>5 DEF ReplyToNotification, TypeOK, MessagingTypeOK
  <2> QED BY <2>1, <2>2 DEF ServerDataReceived, TypeOK, MessagingTypeOK, m
<1> QED BY <1>2, <1>3, <1>6 DEF ServerDataReceived, TypeOK, MessagingTypeOK

LEMMA TypeRestart == ASSUME TypeOK, NEW s \in Side, Restart(s) PROVE TypeOK'
BY MaxIdAssumption
   DEF Restart, MessagingRestart, DropInput, TypeOK, MessagingTypeOK, Ids, NoPending

LEMMA TypeStep == ASSUME TypeOK, [Next]_vars PROVE TypeOK'
<1>1. CASE UNCHANGED vars
    BY <1>1 DEF vars, messaging, daemons, TypeOK, MessagingTypeOK
<1>2. CASE Next
    BY <1>2, TypeLink, TypeReceive, TypeClientData, TypeServerData, TypeSnmpResponse,
       TypeRestart DEF Next
<1> QED BY <1>1, <1>2

(* Every variable keeps its type.                                          *)
THEOREM TypeCorrect == Spec => []TypeOK
<1>1. Init => TypeOK
    BY MaxIdAssumption, NoAnswerAssumption
       DEF Init, MessagingInit, TypeOK, MessagingTypeOK, NoPending, Ids
<1>2. TypeOK /\ [Next]_vars => TypeOK'
    BY TypeStep
<1> QED BY <1>1, <1>2, PTL DEF Spec

-----------------------------------------------------------------------------
(* The stash. One lemma per callback that changes it, what is pending, or  *)
(* what was answered.                                                      *)

LEMMA SurvivesReceive ==
    ASSUME TypeOK, StateSurvives, NEW r \in Reqs, ReceiveRequest(r)
    PROVE  StateSurvives'
<1>1. stashedState \subseteq stashedState' /\ (kind[r] = "command" => r \in stashedState')
    BY DEF ReceiveRequest, Stash
<1>2. \A q \in Reqs : answer'[q] = NoAnswer => answer[q] = NoAnswer
    BY DEF ReceiveRequest, Forward, Answer, TypeOK
<1>3. \A c \in Conns, id \in Ids, q \in Reqs : Awaits(c, id, q)' => Awaits(c, id, q) \/ q = r
  <2>1. CASE UNCHANGED messaging
    BY <2>1 DEF messaging, Awaits
  <2>2. ASSUME NEW k, SendReq(trunkIdList[r], [ref |-> r, kept |-> k])
        PROVE  \A c \in Conns, id \in Ids, q \in Reqs :
                   Awaits(c, id, q)' => Awaits(c, id, q) \/ q = r
    BY <2>2 DEF SendReq, Awaits
  <2> QED BY <2>1, <2>2 DEF ReceiveRequest, Forward, messaging
<1> QED BY <1>1, <1>2, <1>3 DEF StateSurvives

LEMMA SurvivesServerData ==
    ASSUME TypeOK, StateSurvives, NEW c \in Conns, ServerDataReceived(c)
    PROVE  StateSurvives'
<1> DEFINE m == Head(responses[c])
           ctx == pendingReqs[c][m.id]
<1>0. responses[c] \in Seq(Response) /\ responses[c] # <<>>
    BY DEF ServerDataReceived, TypeOK, MessagingTypeOK
<1>1. m \in Response
    BY <1>0, HeadAndTail
<1>2. m.id \in Ids /\ (HasPdu(m) => [ref |-> m.ref, result |-> m.result] \in Answers)
    <2> HIDE DEF m
    <2> QED BY <1>1 DEF Response, HasPdu, Answers
<1>3. \A d \in Conns, id \in Ids, q \in Reqs : Awaits(d, id, q)' => Awaits(d, id, q)
  <2>1. \/ UNCHANGED pendingReqs
        \/ pendingReqs' = [pendingReqs EXCEPT ![c][m.id] = NoCtx]
    BY DEF ServerDataReceived
  <2> HIDE DEF m
  <2>2. \A d \in Conns, id \in Ids :
            pendingReqs'[d][id] = pendingReqs[d][id] \/ pendingReqs'[d][id] = NoCtx
    <3>1. pendingReqs \in [Conns -> [Ids -> Ctx \cup {NoCtx}]]
        BY DEF TypeOK, MessagingTypeOK
    <3> QED BY <1>2, <2>1, <3>1, EntryReplaced
  <2> QED BY <2>2 DEF Awaits
<1>4. \/ UNCHANGED <<stashedState, answer>>
      \/ \E r : /\ HasPdu(m) /\ Answer(r, [ref |-> m.ref, result |-> m.result])
               /\ stashedState' \in {stashedState, stashedState \ {r}}
  BY DEF ServerDataReceived, ReplyToCommand, ReplyToNotification
<1> HIDE DEF m, ctx
<1>5. ASSUME NEW q \in Reqs, answer'[q] = NoAnswer PROVE answer[q] = NoAnswer
  <2>1. CASE UNCHANGED <<stashedState, answer>>
    BY <1>5, <2>1
  <2>2. ASSUME NEW r, HasPdu(m), Answer(r, [ref |-> m.ref, result |-> m.result])
        PROVE  answer[q] = NoAnswer
    BY <1>2, <1>5, <2>2, NoAnswerAssumption DEF Answer, TypeOK
  <2> QED BY <1>4, <2>1, <2>2
<1>6. ASSUME NEW q \in Reqs, q \in stashedState, q \notin stashedState'
      PROVE  answer'[q] # NoAnswer
  <2>1. PICK r : /\ HasPdu(m) /\ Answer(r, [ref |-> m.ref, result |-> m.result])
                 /\ stashedState' \in {stashedState, stashedState \ {r}}
    BY <1>4, <1>6
  <2>2. q = r
    BY <1>6, <2>1
  <2> QED BY <1>2, <2>1, <2>2, NoAnswerAssumption DEF Answer, TypeOK
<1>7. ASSUME NEW d \in Conns, NEW id \in Ids, NEW q \in Reqs,
             Awaits(d, id, q)', kind[q] = "command", answer'[q] = NoAnswer
      PROVE  q \in stashedState'
  <2>1. Awaits(d, id, q)
    BY <1>3, <1>7
  <2>2. answer[q] = NoAnswer
    BY <1>5, <1>7
  <2>3. q \in stashedState
    BY <1>7, <2>1, <2>2 DEF StateSurvives
  <2> QED BY <1>6, <1>7, <2>3
<1> QED BY <1>7 DEF StateSurvives

LEMMA SurvivesStep ==
    ASSUME TypeOK, StateSurvives, [Next]_vars
    PROVE  StateSurvives'
<1>1. CASE UNCHANGED <<pendingReqs, stashedState, answer>>
    BY <1>1 DEF StateSurvives, Awaits
<1>2. CASE Link /\ UNCHANGED daemons
  <2>1. \A c \in Conns, id \in Ids, r \in Reqs : Awaits(c, id, r)' => Awaits(c, id, r)
    <3>1. ASSUME NEW t \in Trunks, NEW d \in Conns, Connect(t, d)
          PROVE  \A c \in Conns, id \in Ids, r \in Reqs : Awaits(c, id, r)' => Awaits(c, id, r)
        BY <3>1 DEF Connect, Awaits, NoPending, TypeOK, MessagingTypeOK
    <3> QED BY <1>2, <3>1 DEF Link, ConnectionLost, GiveUp, Awaits
  <2> QED BY <1>2, <2>1 DEF StateSurvives, daemons
<1>3. ASSUME NEW s \in Side, Restart(s) PROVE StateSurvives'
    BY <1>3 DEF Restart, MessagingRestart, StateSurvives, Awaits, NoPending
<1>4. ASSUME NEW c \in Conns, ClientDataReceived(c) PROVE StateSurvives'
    BY <1>1, <1>4 DEF ClientDataReceived
<1>5. ASSUME NEW w \in outstanding, SnmpResponse(w) PROVE StateSurvives'
    BY <1>1, <1>5 DEF SnmpResponse
<1> QED BY <1>1, <1>2, <1>3, <1>4, <1>5, SurvivesReceive, SurvivesServerData
        DEF Next, vars, messaging, daemons

(* The pysnmp state of a command survives until its sender is answered,    *)
(* whatever trunks, peers and plugins do, and however IDs are reused.      *)
THEOREM StateAlwaysSurvives == Spec => []StateSurvives
<1>1. Init => StateSurvives
    BY DEF Init, MessagingInit, StateSurvives, Awaits, NoPending
<1> QED BY <1>1, SurvivesStep, TypeCorrect, PTL DEF Spec
-----------------------------------------------------------------------------
(* Message IDs. What is in use under an ID only dwindles, but for a new    *)
(* request, which takes IDs past all that are in use.                      *)

InUseDwindles == \A q \in Reqs, id \in Ids : InUse(q, id)' => InUse(q, id)

LEMMA CarriedTail ==
    ASSUME NEW T, NEW q \in Seq(T), q # <<>>
    PROVE  /\ Carried(q, Head(q).ref, Head(q).id)
           /\ \A r, id : Carried(Tail(q), r, id) => Carried(q, r, id)
<1>1. Len(q) \in Nat \ {0} /\ DOMAIN q = 1..Len(q) /\ Head(q) = q[1]
    OBVIOUS
<1>2. \A i \in DOMAIN Tail(q) : i + 1 \in DOMAIN q /\ Tail(q)[i] = q[i + 1]
    OBVIOUS
<1> QED BY <1>1, <1>2 DEF Carried

LEMMA CarriedAppend ==
    ASSUME NEW T, NEW q \in Seq(T), NEW m \in T, NEW r, NEW id, Carried(Append(q, m), r, id)
    PROVE  Carried(q, r, id) \/ (m.ref = r /\ m.id = id)
<1>1. \A i \in DOMAIN Append(q, m) :
          \/ i \in DOMAIN q /\ Append(q, m)[i] = q[i]
          \/ Append(q, m)[i] = m
    OBVIOUS
<1> QED BY <1>1 DEF Carried

LEMMA CarriedConcat ==
    ASSUME NEW T, NEW q \in Seq(T), NEW u \in Seq(T), NEW r, NEW id, Carried(q \o u, r, id)
    PROVE  Carried(q, r, id) \/ Carried(u, r, id)
<1>1. \A i \in DOMAIN (q \o u) :
          \/ i \in DOMAIN q /\ (q \o u)[i] = q[i]
          \/ i - Len(q) \in DOMAIN u /\ (q \o u)[i] = u[i - Len(q)]
    OBVIOUS
<1> QED BY <1>1 DEF Carried

(* A response is about the request, and has the ID, of what it answers.    *)
LEMMA SendRspCarries ==
    ASSUME TypeOK, NEW t \in Trunks, NEW m, NEW results,
           Respond(m, results) \in Seq(Response), SendRsp(t, Respond(m, results)),
           NEW d \in Conns, NEW r, NEW id, Carried(responses'[d], r, id)
    PROVE  Carried(responses[d], r, id) \/ (m.ref = r /\ m.id = id)
<1>1. \/ responses'[d] = responses[d]
      \/ responses'[d] = responses[d] \o Respond(m, results)
    BY DEF SendRsp, TypeOK, MessagingTypeOK
<1>2. Carried(Respond(m, results), r, id) => m.ref = r /\ m.id = id
    BY DEF Carried, Respond
<1>3. responses[d] \in Seq(Response)
    BY DEF TypeOK, MessagingTypeOK
<1> QED BY <1>1, <1>2, <1>3, CarriedConcat

LEMMA NothingNew ==
    ASSUME \A d \in Conns, id \in Ids :
               pendingReqs'[d][id] = pendingReqs[d][id] \/ pendingReqs'[d][id] = NoCtx,
           \A d \in Conns, q \in Reqs, id \in Ids :
               /\ Carried(requests'[d], q, id) => InUse(q, id)
               /\ Carried(responses'[d], q, id) => InUse(q, id),
           \A w \in outstanding' : w \in outstanding \/ InUse(w.ref, w.id)
    PROVE  InUseDwindles
<1> SUFFICES ASSUME NEW q \in Reqs, NEW id \in Ids, InUse(q, id)'
             PROVE  InUse(q, id)
    BY DEF InUseDwindles
<1>1. ASSUME NEW d \in Conns, Awaits(d, id, q)' PROVE InUse(q, id)
    BY <1>1 DEF Awaits, InUse
<1>2. ASSUME NEW w \in outstanding', w.ref = q, w.id = id PROVE InUse(q, id)
    BY <1>2 DEF InUse
<1>3. \/ \E d \in Conns : \/ Awaits(d, id, q)'
                          \/ Carried(requests'[d], q, id)
                          \/ Carried(responses'[d], q, id)
      \/ \E w \in outstanding' : w.ref = q /\ w.id = id
    BY DEF InUse, Carried
<1> QED BY <1>1, <1>2, <1>3

LEMMA DwindlesLink ==
    ASSUME TypeOK, Link, UNCHANGED daemons
    PROVE  InUseDwindles
<1>1. \A d \in Conns, id \in Ids :
          pendingReqs'[d][id] = pendingReqs[d][id] \/ pendingReqs'[d][id] = NoCtx
  <2>1. ASSUME NEW t \in Trunks, NEW c \in Conns, Connect(t, c)
        PROVE  \A d \in Conns, id \in Ids :
                   pendingReqs'[d][id] = pendingReqs[d][id] \/ pendingReqs'[d][id] = NoCtx
    BY <2>1 DEF Connect, NoPending, TypeOK, MessagingTypeOK
  <2> QED BY <2>1 DEF Link, ConnectionLost, GiveUp
<1>2. \A d \in Conns : /\ requests'[d] = requests[d] \/ requests'[d] = <<>>
                       /\ responses'[d] = responses[d] \/ responses'[d] = <<>>
    BY DEF Link, Connect, ConnectionLost, GiveUp, DropInput, TypeOK, MessagingTypeOK
<1>3. \A q, id : ~Carried(<<>>, q, id)
    BY DEF Carried
<1> QED BY <1>1, <1>2, <1>3, NothingNew DEF InUse, daemons

LEMMA DwindlesRestart ==
    ASSUME TypeOK, NEW s \in Side, Restart(s)
    PROVE  InUseDwindles
<1>1. \A d \in Conns, id \in Ids :
          pendingReqs'[d][id] = pendingReqs[d][id] \/ pendingReqs'[d][id] = NoCtx
    BY DEF Restart, MessagingRestart, NoPending
<1>2. \A d \in Conns : /\ requests'[d] = requests[d] \/ requests'[d] = <<>>
                       /\ responses'[d] = responses[d] \/ responses'[d] = <<>>
    BY DEF Restart, MessagingRestart, DropInput
<1>3. \A q, id : ~Carried(<<>>, q, id)
    BY DEF Carried
<1> QED BY <1>1, <1>2, <1>3, NothingNew DEF InUse, Restart

LEMMA DwindlesSnmpResponse ==
    ASSUME TypeOK, NEW w \in outstanding, SnmpResponse(w)
    PROVE  InUseDwindles
<1>1. w.trunk \in Trunks /\ w.id \in Ids /\ w.ref \in Reqs
    BY DEF TypeOK, Waiting
<1>2. PICK result \in {"agent", "error", "nothing"} : SendRsp(w.trunk, Respond(w, <<result>>))
    BY DEF SnmpResponse
<1>3. Respond(w, <<result>>) \in Seq(Response)
    BY <1>1, RespondOne DEF ResultSet
<1>4. \A d \in Conns, q \in Reqs, id \in Ids :
          Carried(responses'[d], q, id) => InUse(q, id)
    BY <1>1, <1>2, <1>3, SendRspCarries DEF InUse
<1> QED BY <1>4, NothingNew DEF SnmpResponse, InUse

LEMMA DwindlesClientData ==
    ASSUME TypeOK, NEW c \in Conns, ClientDataReceived(c)
    PROVE  InUseDwindles
<1> DEFINE m == Head(requests[c])
<1>0. requests[c] \in Seq(Request) /\ requests[c] # <<>>
    BY DEF ClientDataReceived, TypeOK, MessagingTypeOK
<1>1. m.id \in Ids /\ m.ref \in Reqs
  <2>1. m \in Request
    BY <1>0, HeadAndTail
  <2> HIDE DEF m
  <2> QED BY <2>1 DEF Request
<1>2. InUse(m.ref, m.id)
    BY <1>0, CarriedTail DEF InUse
<1>3. \A d \in Conns, q \in Reqs, id \in Ids :
          Carried(requests'[d], q, id) => InUse(q, id)
  <2>1. \A d \in Conns : requests'[d] = requests[d] \/ (d = c /\ requests'[d] = Tail(requests[c]))
    BY DEF ClientDataReceived, TypeOK, MessagingTypeOK
  <2> QED BY <1>0, <2>1, CarriedTail DEF InUse
<1>4. \/ UNCHANGED <<responses, outstanding>>
      \/ \E t \in Trunks : Unroutable(t, m) \/ Route(t, m)
    BY DEF ClientDataReceived
<1> HIDE DEF m
<1>5. ASSUME NEW t \in Trunks, Unroutable(t, m) \/ Route(t, m)
      PROVE  /\ \A d \in Conns, q \in Reqs, id \in Ids :
                    Carried(responses'[d], q, id) => InUse(q, id)
             /\ \A w \in outstanding' : w \in outstanding \/ InUse(w.ref, w.id)
  <2>1. CASE Unroutable(t, m)
    <3>1. Respond(m, <<"error">>) \in Seq(Response)
        BY <1>1, RespondOne DEF ResultSet
    <3>2. \A d \in Conns, q \in Reqs, id \in Ids :
              Carried(responses'[d], q, id) => InUse(q, id)
        BY <1>2, <2>1, <3>1, SendRspCarries DEF Unroutable, InUse
    <3> QED BY <2>1, <3>2 DEF Unroutable
  <2>2. CASE Route(t, m)
    <3>0. peerIdList[t] \in Seq(Peers)
        BY RoutesAssumption
    <3>1. PICK fates \in [DOMAIN peerIdList[t] -> Fate] :
              /\ SendRsp(t, Respond(m, Results(kind[m.ref], fates)))
              /\ outstanding' = outstanding \cup
                     {[trunk |-> t, id |-> m.id, ref |-> m.ref,
                       peer |-> peerIdList[t][i], kept |-> fates[i].kept] :
                      i \in {j \in Tried(fates) :
                                kind[m.ref] # "trap" /\ fates[j].status = "sent"}}
        BY <2>2 DEF Route
    <3>2. Respond(m, Results(kind[m.ref], fates)) \in Seq(Response)
        BY <1>1, <3>0, ResultsType, RespondType
    <3>3. \A d \in Conns, q \in Reqs, id \in Ids :
              Carried(responses'[d], q, id) => InUse(q, id)
        BY <1>2, <3>1, <3>2, SendRspCarries DEF InUse
    <3>4. \A w \in outstanding' : w \in outstanding \/ (w.ref = m.ref /\ w.id = m.id)
        BY <3>1
    <3> QED BY <1>2, <3>3, <3>4
  <2> QED BY <1>5, <2>1, <2>2
<1>6. /\ \A d \in Conns, q \in Reqs, id \in Ids :
             Carried(responses'[d], q, id) => InUse(q, id)
      /\ \A w \in outstanding' : w \in outstanding \/ InUse(w.ref, w.id)
    BY <1>4, <1>5 DEF InUse
<1> QED BY <1>3, <1>6, NothingNew DEF ClientDataReceived

LEMMA DwindlesServerData ==
    ASSUME TypeOK, NEW c \in Conns, ServerDataReceived(c)
    PROVE  InUseDwindles
<1> DEFINE m == Head(responses[c])
<1>0. responses[c] \in Seq(Response) /\ responses[c] # <<>>
    BY DEF ServerDataReceived, TypeOK, MessagingTypeOK
<1>1. m.id \in Ids
  <2>1. m \in Response
    BY <1>0, HeadAndTail
  <2> HIDE DEF m
  <2> QED BY <2>1 DEF Response
<1>2. \A d \in Conns, q \in Reqs, id \in Ids :
          Carried(responses'[d], q, id) => InUse(q, id)
  <2>1. \A d \in Conns : responses'[d] = responses[d] \/ (d = c /\ responses'[d] = Tail(responses[c]))
    BY DEF ServerDataReceived, TypeOK, MessagingTypeOK
  <2> QED BY <1>0, <2>1, CarriedTail DEF InUse
<1>3. \A d \in Conns, id \in Ids :
          pendingReqs'[d][id] = pendingReqs[d][id] \/ pendingReqs'[d][id] = NoCtx
  <2>1. \/ UNCHANGED pendingReqs
        \/ pendingReqs' = [pendingReqs EXCEPT ![c][m.id] = NoCtx]
    BY DEF ServerDataReceived
  <2> HIDE DEF m
  <2>2. pendingReqs \in [Conns -> [Ids -> Ctx \cup {NoCtx}]]
    BY DEF TypeOK, MessagingTypeOK
  <2> QED BY <1>1, <2>1, <2>2, EntryReplaced
<1>4. UNCHANGED <<requests, outstanding>>
    BY DEF ServerDataReceived
<1> QED BY <1>2, <1>3, <1>4, NothingNew DEF InUse

LEMMA Unwrapped == ASSUME NEW a \in Nat, NEW n \in Nat, a <= n PROVE a % (n + 1) = a
    OBVIOUS

LEMMA Wrapped ==
    ASSUME NEW a \in Nat, NEW n \in Nat, n < a, a <= n + n + 1
    PROVE  a % (n + 1) = a - (n + 1)
    OBVIOUS

(* Unless the counter comes round, the IDs taken are the next ones.        *)
LEMMA IdsAscend ==
    ASSUME TypeOK, NEW n \in 0..MaxId, current <= IdFrom(n), NEW i \in 0..n
    PROVE  IdFrom(i) = current + i
<1>1. MaxId \in Nat /\ current \in Nat /\ current <= MaxId
    BY MaxIdAssumption DEF TypeOK, MessagingTypeOK, Ids
<1>2. CASE current + n <= MaxId
    BY <1>1, <1>2, Unwrapped DEF IdFrom
<1>3. CASE current + n > MaxId
  <2>1. IdFrom(n) = current + n - (MaxId + 1)
    <3>1. current + n \in Nat /\ current + n <= MaxId + MaxId + 1
        BY <1>1
    <3> QED BY <1>1, <1>3, <3>1, Wrapped DEF IdFrom
  <2> QED BY <1>1, <2>1
<1> QED BY <1>1, <1>2, <1>3

LEMMA SendReqTakesNewIds ==
    ASSUME TypeOK, NEW route \in Seq(Trunks), Len(route) <= MaxId, NEW ctx \in Ctx,
           SendReq(route, ctx), current <= current'
    PROVE  \A d \in Conns, q \in Reqs, id \in Ids :
               /\ Awaits(d, id, q)' =>
                      Awaits(d, id, q) \/ (q = ctx.ref /\ current < id /\ id <= current')
               /\ Carried(requests'[d], q, id) =>
                      \/ Carried(requests[d], q, id)
                      \/ q = ctx.ref /\ current < id /\ id <= current'
<1> DEFINE Sent(c, i) == trunk["server"][route[i]] = c /\ HasTransport("server", c)
<1>1. PICK n \in 0..Len(route) :
          /\ current' = IdFrom(n)
          /\ pendingReqs' = [c \in Conns |-> [id \in Ids |->
                 IF \E i \in 1..n : Sent(c, i) /\ IdFrom(i) = id
                 THEN ctx ELSE pendingReqs[c][id]]]
          /\ requests' = [c \in Conns |->
                 IF Carries(c) /\ \E i \in 1..n : Sent(c, i)
                 THEN LET i == CHOOSE i \in 1..n : Sent(c, i)
                      IN Append(requests[c], [id |-> IdFrom(i), ref |-> ctx.ref])
                 ELSE requests[c]]
    BY DEF SendReq
<1>2. n \in 0..MaxId /\ current \in Nat
    BY <1>1, MaxIdAssumption DEF TypeOK, MessagingTypeOK, Ids
<1>3. \A i \in 1..n : current < IdFrom(i) /\ IdFrom(i) <= current'
  <2>1. \A i \in 0..n : IdFrom(i) = current + i
    BY <1>1, <1>2, IdsAscend
  <2> QED BY <1>1, <1>2, <2>1
<1>4. ASSUME NEW d \in Conns, NEW q \in Reqs, NEW id \in Ids, Awaits(d, id, q)'
      PROVE  Awaits(d, id, q) \/ (q = ctx.ref /\ current < id /\ id <= current')
  <2> HIDE DEF Sent
  <2>1. \/ pendingReqs'[d][id] = pendingReqs[d][id]
        \/ pendingReqs'[d][id] = ctx /\ \E i \in 1..n : IdFrom(i) = id
    BY <1>1
  <2> QED BY <1>3, <1>4, <2>1 DEF Awaits
<1>5. ASSUME NEW d \in Conns, NEW q \in Reqs, NEW id \in Ids, Carried(requests'[d], q, id)
      PROVE  Carried(requests[d], q, id) \/ (q = ctx.ref /\ current < id /\ id <= current')
  <2> HIDE DEF Sent
  <2>1. \/ requests'[d] = requests[d]
        \/ \E i \in 1..n :
               requests'[d] = Append(requests[d], [id |-> IdFrom(i), ref |-> ctx.ref])
    BY <1>1
  <2>2. ASSUME NEW i \in 1..n,
               requests'[d] = Append(requests[d], [id |-> IdFrom(i), ref |-> ctx.ref])
        PROVE  Carried(requests[d], q, id) \/ (q = ctx.ref /\ id = IdFrom(i))
    <3> DEFINE sent == [id |-> IdFrom(i), ref |-> ctx.ref]
    <3>1. sent \in Request
        BY <1>2, IdIsId DEF Request, Ctx
    <3>2. requests[d] \in Seq(Request)
        BY DEF TypeOK, MessagingTypeOK
    <3>3. sent.id = IdFrom(i) /\ sent.ref = ctx.ref
        OBVIOUS
    <3> HIDE DEF sent
    <3>4. Carried(Append(requests[d], sent), q, id)
        BY <1>5, <2>2 DEF sent
    <3> QED BY <3>1, <3>2, <3>3, <3>4, CarriedAppend
  <2> QED BY <1>3, <1>5, <2>1, <2>2
<1> QED BY <1>4, <1>5

LEMMA OneRequestReceive ==
    ASSUME TypeOK, OneRequestPerId, NEW r \in Reqs, ReceiveRequest(r), current <= current'
    PROVE  OneRequestPerId'
<1>1. received' = received \cup {r} /\ r \notin received
    BY DEF ReceiveRequest
<1>2. /\ current \in Nat /\ current' \in Nat
      /\ \A q \in Reqs, id \in Ids : InUse(q, id)' =>
             InUse(q, id) \/ (q = r /\ current < id /\ id <= current')
  <2>1. CASE UNCHANGED messaging
    BY <2>1 DEF ReceiveRequest, messaging, InUse, Awaits, TypeOK, MessagingTypeOK, Ids
  <2>2. ASSUME NEW v \in RequestVerdicts(ServerChain), Forward(r, v.kept)
        PROVE  \A q \in Reqs, id \in Ids : InUse(q, id)' =>
                   InUse(q, id) \/ (q = r /\ current < id /\ id <= current')
    <3> DEFINE ctx == [ref |-> r, kept |-> v.kept]
    <3>1. ctx \in Ctx /\ ctx.ref = r
        BY CtxAssumption DEF RequestVerdicts, Ctx
    <3>2. trunkIdList[r] \in Seq(Trunks) /\ Len(trunkIdList[r]) <= MaxId
        BY RoutesAssumption, RouteLengthAssumption
    <3>3. SendReq(trunkIdList[r], ctx) /\ UNCHANGED <<responses, outstanding>>
        BY <2>2 DEF Forward, ReceiveRequest
    <3> HIDE DEF ctx
    <3>4. \A d \in Conns, q \in Reqs, id \in Ids :
              /\ Awaits(d, id, q)' =>
                     Awaits(d, id, q) \/ (q = r /\ current < id /\ id <= current')
              /\ Carried(requests'[d], q, id) =>
                     \/ Carried(requests[d], q, id)
                     \/ q = r /\ current < id /\ id <= current'
        BY <3>1, <3>2, <3>3, SendReqTakesNewIds
    <3>5. ASSUME NEW q \in Reqs, NEW id \in Ids, InUse(q, id)'
          PROVE  \/ InUse(q, id)
                 \/ q = r /\ current < id /\ id <= current'
      <4>1. \/ \E d \in Conns : \/ Awaits(d, id, q)'
                                \/ Carried(requests'[d], q, id)
                                \/ Carried(responses[d], q, id)
            \/ \E w \in outstanding : w.ref = q /\ w.id = id
        BY <3>3, <3>5 DEF InUse, Carried
      <4> QED BY <3>4, <4>1 DEF InUse
    <3> QED BY <3>5
  <2>3. current' \in Ids
    BY TypeReceive DEF TypeOK, MessagingTypeOK
  <2> QED BY <2>1, <2>2, <2>3, MaxIdAssumption
          DEF ReceiveRequest, TypeOK, MessagingTypeOK, Ids
<1> SUFFICES ASSUME NEW q \in Reqs, NEW id \in Ids, InUse(q, id)'
             PROVE  /\ q \in received'
                    /\ id <= current'
                    /\ \A p \in Reqs : InUse(p, id)' => p = q
    BY DEF OneRequestPerId
<1>3. id \in Nat
    BY MaxIdAssumption DEF Ids
<1> QED BY <1>1, <1>2, <1>3 DEF OneRequestPerId

LEMMA OneRequestStep ==
    ASSUME TypeOK, OneRequestPerId, [Next]_vars, [current <= current']_vars
    PROVE  OneRequestPerId'
<1>1. TypeOK'
    BY TypeStep
<1>2. \A id \in Ids : id \in Nat
    BY MaxIdAssumption DEF Ids
<1>3. current \in Nat /\ current' \in Nat /\ current <= current'
    BY <1>1, <1>2 DEF TypeOK, MessagingTypeOK, vars, messaging
<1>4. CASE InUseDwindles /\ received \subseteq received'
    BY <1>2, <1>3, <1>4 DEF OneRequestPerId, InUseDwindles
<1>5. CASE UNCHANGED vars
  <2>1. InUseDwindles
    BY <1>5 DEF vars, messaging, daemons, InUseDwindles, InUse, Awaits
  <2> QED BY <1>4, <1>5, <2>1 DEF vars, daemons
<1>6. CASE Link /\ UNCHANGED daemons
    BY <1>4, <1>6, DwindlesLink DEF daemons
<1>7. ASSUME NEW r \in Reqs, ReceiveRequest(r) PROVE OneRequestPerId'
    BY <1>3, <1>7, OneRequestReceive
<1>8. ASSUME NEW c \in Conns, ClientDataReceived(c) PROVE OneRequestPerId'
    BY <1>4, <1>8, DwindlesClientData DEF ClientDataReceived
<1>9. ASSUME NEW c \in Conns, ServerDataReceived(c) PROVE OneRequestPerId'
    BY <1>4, <1>9, DwindlesServerData DEF ServerDataReceived
<1>10. ASSUME NEW w \in outstanding, SnmpResponse(w) PROVE OneRequestPerId'
    BY <1>4, <1>10, DwindlesSnmpResponse DEF SnmpResponse
<1>11. ASSUME NEW s \in Side, Restart(s) PROVE OneRequestPerId'
    BY <1>4, <1>11, DwindlesRestart DEF Restart
<1> QED BY <1>5, <1>6, <1>7, <1>8, <1>9, <1>10, <1>11 DEF Next

(* Every answer is given to the request the response is matched with, and  *)
(* that is the one the response is about.                                  *)
LEMMA OwnStep ==
    ASSUME TypeOK, OneRequestPerId, AnswerIsOwn, [Next]_vars
    PROVE  AnswerIsOwn'
<1>1. CASE UNCHANGED answer
    BY <1>1 DEF AnswerIsOwn
<1>2. ASSUME NEW r \in Reqs, NEW by, by.ref = r, Answer(r, by) PROVE AnswerIsOwn'
    BY <1>2 DEF Answer, AnswerIsOwn, TypeOK
<1>3. ASSUME NEW r \in Reqs, ReceiveRequest(r) PROVE AnswerIsOwn'
  <2>1. UNCHANGED answer \/ Answer(r, [ref |-> r, result |-> "plugin"])
    BY <1>3 DEF ReceiveRequest, Forward
  <2> QED BY <1>1, <1>2, <2>1
<1>4. ASSUME NEW c \in Conns, ServerDataReceived(c) PROVE AnswerIsOwn'
  <2> DEFINE m == Head(responses[c])
             ctx == pendingReqs[c][m.id]
  <2>0. responses[c] \in Seq(Response) /\ responses[c] # <<>>
    BY <1>4 DEF ServerDataReceived, TypeOK, MessagingTypeOK
  <2>1. m.id \in Ids /\ m.ref \in Reqs
    <3>1. m \in Response
        BY <2>0, HeadAndTail
    <3> HIDE DEF m
    <3> QED BY <3>1 DEF Response
  <2>2. InUse(m.ref, m.id)
    BY <2>0, CarriedTail DEF InUse
  <2>3. \/ UNCHANGED answer
        \/ ctx # NoCtx /\ Answer(ctx.ref, [ref |-> m.ref, result |-> m.result])
    BY <1>4 DEF ServerDataReceived, ReplyToCommand, ReplyToNotification
  <2> HIDE DEF m
  <2>4. CASE ctx # NoCtx /\ Answer(ctx.ref, [ref |-> m.ref, result |-> m.result])
    <3>1. ctx.ref \in Reqs
        BY <2>1, <2>4 DEF TypeOK, MessagingTypeOK, Ctx
    <3>2. InUse(ctx.ref, m.id)
        BY <2>4 DEF InUse, Awaits
    <3>3. ctx.ref = m.ref
        BY <2>1, <2>2, <3>1, <3>2 DEF OneRequestPerId
    <3> HIDE DEF ctx
    <3> QED BY <1>2, <2>4, <3>1, <3>3
  <2> QED BY <1>1, <2>3, <2>4
<1> QED BY <1>1, <1>3, <1>4
        DEF Next, vars, daemons, ClientDataReceived, SnmpResponse, Restart

(* Unless message IDs start again (65536 requests later, or in a new       *)
(* snmpfwd-server), an ID in use stands for one request, whatever is lost  *)
(* and whichever trunks come and go; so a sender is only ever answered     *)
(* what was made for its own request, and an INFORM is acknowledged only   *)
(* when that INFORM was.                                                   *)
THEOREM IdsStandForOneRequest ==
    Spec /\ [][current <= current']_vars => []OneRequestPerId
<1>1. Init => OneRequestPerId
    BY DEF Init, MessagingInit, OneRequestPerId, InUse, Awaits, Carried, NoPending
<1> QED BY <1>1, OneRequestStep, TypeCorrect, PTL DEF Spec

THEOREM AnswersAreOwn ==
    Spec /\ [][current <= current']_vars => []AnswerIsOwn
<1>1. Init => AnswerIsOwn
    BY DEF Init, AnswerIsOwn
<1> QED BY <1>1, OwnStep, IdsStandForOneRequest, TypeCorrect, PTL DEF Spec

==============================================================================
