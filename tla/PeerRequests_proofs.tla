------------------------- MODULE PeerRequests_proofs ------------------------
(***************************************************************************)
(* Proofs about PeerRequests, for every set of requests, peers, plugins    *)
(* and routes: the list of overridden addresses, the notes of plugins, the *)
(* replies, and which peers are passed over.                               *)
(***************************************************************************)
EXTENDS PeerRequests, FiniteSetTheorems, TLAPS

LEMMA Element == ASSUME NEW T, NEW q \in Seq(T), NEW i \in DOMAIN q PROVE q[i] \in T
    OBVIOUS

(* An attempt of a route is its request and its number.                    *)
LEMMA IsRouted ==
    ASSUME NEW at
    PROVE  at \in Routed <=> /\ at.req \in Reqs /\ at.n \in 0..Len(peerIdList[at.req])
                             /\ at = At(at.req, at.n)
<1>1. ASSUME at \in Routed
      PROVE  at.req \in Reqs /\ at.n \in 0..Len(peerIdList[at.req]) /\ at = At(at.req, at.n)
  <2>1. PICK req \in Reqs : at \in [req : {req}, n : 0..Len(peerIdList[req])]
      BY <1>1 DEF Routed
  <2> QED BY <2>1 DEF At
<1>2. ASSUME at.req \in Reqs, at.n \in 0..Len(peerIdList[at.req]), at = At(at.req, at.n)
      PROVE  at \in Routed
  <2>1. at \in [req : {at.req}, n : 0..Len(peerIdList[at.req])]
      BY <1>2 DEF At
  <2> QED BY <1>2, <2>1 DEF Routed
<1> QED BY <1>1, <1>2

LEMMA AtRouted ==
    ASSUME NEW req \in Reqs, NEW n \in 0..Len(peerIdList[req])
    PROVE  At(req, n) \in Routed /\ At(req, n).req = req /\ At(req, n).n = n
<1>1. At(req, n).req = req /\ At(req, n).n = n
    BY DEF At
<1> QED BY <1>1, IsRouted

(* What is known of an attempt, and of the one that is being made.         *)
LEMMA RoutedFacts ==
    ASSUME NEW at \in Routed
    PROVE  /\ at.req \in Reqs /\ at.n \in Nat /\ at \in Attempts
           /\ peerIdList[at.req] \in Seq(Peers)
           /\ ChainOf(at) \in Seq(Plugins)
           /\ at.n > 0 => PeerOf(at) \in Peers
<1>1. at.req \in Reqs /\ at.n \in 0..Len(peerIdList[at.req]) /\ at = At(at.req, at.n)
    BY IsRouted
<1>2. peerIdList[at.req] \in Seq(Peers) /\ ChainOf(at) \in Seq(Plugins)
    BY <1>1, RoutesAssumption DEF ChainOf
<1>3. at.n \in Nat
    BY <1>1, <1>2
<1>4. at \in Attempts
    BY <1>1, <1>3 DEF Attempts, At
<1>5. ASSUME at.n > 0 PROVE PeerOf(at) \in Peers
  <2>1. at.n \in DOMAIN peerIdList[at.req]
      BY <1>1, <1>2, <1>5
  <2> QED BY <1>2, <2>1, Element DEF PeerOf
<1> QED BY <1>1, <1>2, <1>3, <1>4, <1>5

LEMMA LoopFacts ==
    ASSUME TypeOK, loop # Idle
    PROVE  loop \in Routed /\ loop.n > 0 /\ loop.req \in Reqs /\ loop.n \in Nat
<1>1. loop \in Routed /\ loop.n > 0
    BY DEF TypeOK
<1> QED BY <1>1, RoutedFacts

LEMMA AddressFacts ==
    ASSUME NEW peer \in Peers PROVE Bind(peer) \in Address /\ Remote(peer) \in Address
    BY DEF Bind, Remote, Address

LEMMA PairAppended ==
    ASSUME NEW T, NEW list \in Seq(T), NEW x \in T, NEW y \in T, NEW q, q = list \o <<x, y>>
    PROVE  /\ q \in Seq(T) /\ Len(q) = Len(list) + 2
           /\ \A i \in 1..Len(list) : q[i] = list[i]
           /\ q[Len(list) + 1] = x /\ q[Len(list) + 2] = y
<1> DEFINE pair == <<x, y>>
<1>1. pair \in Seq(T)
    OBVIOUS
<1>2. Len(pair) = 2 /\ pair[1] = x /\ pair[2] = y
    OBVIOUS
<1>3. q = list \o pair
    OBVIOUS
<1> HIDE DEF pair
<1>4. q \in Seq(T)
    BY <1>1, <1>3
<1>5. Len(q) = Len(list) + Len(pair) /\ Len(list) \in Nat
    BY <1>1, <1>3
<1>6. \A i \in 1..(Len(list) + Len(pair)) :
          q[i] = IF i <= Len(list) THEN list[i] ELSE pair[i - Len(list)]
    BY <1>1, <1>3
<1>7. q[Len(list) + 1] = pair[Len(list) + 1 - Len(list)]
    BY <1>2, <1>5, <1>6
<1>8. q[Len(list) + 2] = pair[Len(list) + 2 - Len(list)]
    BY <1>2, <1>5, <1>6
<1> QED BY <1>2, <1>4, <1>5, <1>6, <1>7, <1>8

(* The pair pushed last is the pair popped, and the rest stays.            *)
LEMMA ResolveQueued ==
    ASSUME NEW list \in Seq(Address), endpoints = list, NEW peer \in Peers
    PROVE  /\ Queued(peer) \in Seq(Address)
           /\ Len(Queued(peer)) = Len(list) + 2
           /\ \A i \in 1..Len(list) : Queued(peer)[i] = list[i]
           /\ Queued(peer)[Len(list) + 1] = Bind(peer)
           /\ Queued(peer)[Len(list) + 2] = Remote(peer)
           /\ Resolve(Queued(peer)).bind = Bind(peer)
           /\ Resolve(Queued(peer)).peer = Remote(peer)
           /\ Resolve(Queued(peer)).rest = list
<1> DEFINE q == Queued(peer)
<1>1. q = list \o <<Bind(peer), Remote(peer)>>
    BY DEF Queued
<1>2. Bind(peer) \in Address /\ Remote(peer) \in Address
    BY AddressFacts
<1>3. q \in Seq(Address) /\ Len(q) = Len(list) + 2
    BY <1>1, <1>2, PairAppended
<1>4. \A i \in 1..Len(list) : q[i] = list[i]
    BY <1>1, <1>2, PairAppended
<1>5. q[Len(list) + 1] = Bind(peer) /\ q[Len(list) + 2] = Remote(peer)
    BY <1>1, <1>2, PairAppended
<1> HIDE DEF q
<1>6. Len(q) - 1 = Len(list) + 1 /\ Len(q) - 2 = Len(list) /\ Len(list) \in Nat
    BY <1>3
<1>7. Resolve(q).bind = q[Len(q) - 1] /\ Resolve(q).peer = q[Len(q)]
    BY DEF Resolve
<1>8. Resolve(q).rest = SubSeq(q, 1, Len(q) - 2)
    BY DEF Resolve
<1>9. SubSeq(q, 1, Len(list)) = list
  <2>1. SubSeq(q, 1, Len(list)) \in Seq(Address) /\ Len(SubSeq(q, 1, Len(list))) = Len(list)
      BY <1>3
  <2>2. \A i \in 1..Len(list) : SubSeq(q, 1, Len(list))[i] = list[i]
      BY <1>3, <1>4
  <2> QED BY <2>1, <2>2
<1> QED BY <1>3, <1>4, <1>5, <1>6, <1>7, <1>8, <1>9 DEF q

-----------------------------------------------------------------------------
(* Notes.                                                                  *)

(* A set of numbers up to a bound has a largest one: of the sets of its    *)
(* larger elements, the smallest by inclusion is empty.                    *)
LEMMA LargestIn ==
    ASSUME NEW n \in Nat, NEW S, S \subseteq 1..n, S # {}
    PROVE  \E i \in S : \A j \in S : j <= i
<1> DEFINE Above(i) == {j \in S : i < j}
           T == {Above(i) : i \in S}
           R == StrictSubsetOrdering(S)
<1>1. IsFiniteSet(1..n)
    BY FS_Interval
<1>2. IsFiniteSet(S) /\ \A U \in SUBSET S : IsFiniteSet(U)
    BY <1>1, FS_Subset
<1>3. T \subseteq FiniteSubsetsOf(S) /\ T # {}
    BY <1>2 DEF FiniteSubsetsOf
<1>4. IsWellFoundedOn(R, FiniteSubsetsOf(S))
    BY FS_StrictSubsetOrderingWellFounded
<1> HIDE DEF T, R
<1>5. \E x \in T : \A y \in T : ~(<<y, x>> \in R)
    BY <1>3, <1>4, WFMin
<1> USE DEF T, R
<1>6. PICK i \in S : \A k \in S : ~(<<Above(k), Above(i)>> \in R)
    BY <1>5
<1>7. ASSUME NEW j \in S, ~(j <= i) PROVE FALSE
  <2>1. i \in 1..n /\ j \in 1..n
      OBVIOUS
  <2>2. i < j
      BY <1>7, <2>1
  <2>3. j \in Above(i) /\ j \notin Above(j)
      BY <2>1, <2>2
  <2>4. Above(j) \subseteq Above(i)
    <3>1. ASSUME NEW k \in S, j < k PROVE i < k
      <4>1. k \in 1..n
          OBVIOUS
      <4> QED BY <2>1, <2>2, <3>1, <4>1
    <3> QED BY <3>1
  <2>5. <<Above(j), Above(i)>> \in R
      BY <2>3, <2>4 DEF StrictSubsetOrdering
  <2> QED BY <1>6, <2>5
<1> QED BY <1>7

(* What reqCtx holds after n plugins: notes of the right type and of the   *)
(* attempt, one for every plugin that takes notes.                         *)
LEMMA NotedFacts ==
    ASSUME TypeOK, NEW at \in Routed, NEW n \in 0..Len(ChainOf(at))
    PROVE  /\ Noted(at, n) \in [Modules -> Note]
           /\ OwnNotes => \A m \in Modules : OwnNote(at, m, Noted(at, n)[m])
           /\ \A i \in 1..n : Notes(at, moduleOf[ChainOf(at)[i]])
                                => Noted(at, n)[moduleOf[ChainOf(at)[i]]] # NoNote
<1> DEFINE chain == ChainOf(at)
           Writers(m) == {i \in 1..n : moduleOf[chain[i]] = m}
           Last(m) == CHOOSE i \in Writers(m) : \A j \in Writers(m) : j <= i
           note(m) == [by |-> chain[Last(m)], at |-> at]
<1>1. chain \in Seq(Plugins) /\ at \in Attempts /\ n \in Nat
    BY RoutedFacts
<1>2. \A i \in 1..n : i \in DOMAIN chain /\ chain[i] \in Plugins
    BY <1>1, Element
<1>3. ASSUME NEW m, Writers(m) # {} PROVE Last(m) \in Writers(m)
  <2>1. Writers(m) \subseteq 1..n
      OBVIOUS
  <2>2. \E i \in Writers(m) : \A j \in Writers(m) : j <= i
      BY <1>1, <1>3, <2>1, LargestIn
  <2> QED BY <2>2
<1>4. ASSUME NEW m, Writers(m) # {}
      PROVE  /\ note(m) \in Note /\ note(m) # NoNote
             /\ moduleOf[chain[Last(m)]] = m /\ Last(m) \in DOMAIN chain
  <2>1. Last(m) \in 1..n /\ moduleOf[chain[Last(m)]] = m
      BY <1>3, <1>4
  <2>2. chain[Last(m)] \in Plugins /\ Last(m) \in DOMAIN chain
      BY <1>2, <2>1
  <2> HIDE DEF Last, Writers, chain
  <2>3. note(m) \in [by : Plugins, at : Attempts]
      BY <1>1, <2>2
  <2>4. note(m) # NoNote
      BY <2>3, NoNoteAssumption DEF Attempts
  <2> QED BY <2>1, <2>2, <2>3, <2>4 DEF Note
<1>5. ASSUME NEW m \in Modules PROVE reqCtx[CtxOf(at)][m] \in Note /\ CtxOf(at) = at
    BY DEF TypeOK, CtxOf
<1>6. Noted(at, n) = [m \in Modules |-> IF Notes(at, m) /\ Writers(m) # {} THEN note(m)
                                        ELSE reqCtx[CtxOf(at)][m]]
    BY DEF Noted
<1>7. ASSUME NEW i \in 1..n PROVE i \in Writers(moduleOf[chain[i]]) /\ moduleOf[chain[i]] \in Modules
    BY <1>2, ModulesAssumption
<1> HIDE DEF Writers, note, Last
<1>8. Noted(at, n) \in [Modules -> Note]
    BY <1>4, <1>5, <1>6
<1>9. ASSUME OwnNotes, NEW m \in Modules PROVE OwnNote(at, m, Noted(at, n)[m])
  <2>1. CASE Notes(at, m) /\ Writers(m) # {}
    <3>1. Noted(at, n)[m] = note(m)
        BY <1>6, <2>1
    <3> QED BY <1>4, <2>1, <3>1 DEF OwnNote, note
  <2>2. CASE ~(Notes(at, m) /\ Writers(m) # {})
    <3>1. Noted(at, n)[m] = reqCtx[at][m]
        BY <1>5, <1>6, <2>2
    <3> QED BY <1>9, <3>1 DEF OwnNotes
  <2> QED BY <2>1, <2>2
<1>10. ASSUME NEW i \in 1..n, Notes(at, moduleOf[chain[i]])
       PROVE  Noted(at, n)[moduleOf[chain[i]]] # NoNote
  <2>1. Writers(moduleOf[chain[i]]) # {} /\ moduleOf[chain[i]] \in Modules
      BY <1>7
  <2>2. Noted(at, n)[moduleOf[chain[i]]] = note(moduleOf[chain[i]])
      BY <1>6, <1>10, <2>1
  <2> QED BY <1>4, <2>1, <2>2
<1> QED BY <1>8, <1>9, <1>10

-----------------------------------------------------------------------------
(* What one pass of the loop does to the attempt it is for.                *)

Outcome(f, n) ==
    /\ fates' = [fates EXCEPT ![loop] = f]
    /\ TakeNotes(loop, n)
    /\ \/ f \in {"muted", "responded"} /\ loop' = Idle
       \/ f \in {"failed", "sent"} /\ NextPeer
    /\ \/ SendRsp(loop) /\ UNCHANGED open
       \/ UNCHANGED <<replies, open>> /\ f = "failed" /\ kind[loop.req] = "inform"
       \/ /\ UNCHANGED replies /\ f = "sent"
          /\ \E verdict \in {"next", "break"} :
                 /\ verdict = "next" => n = Len(ChainOf(loop))
                 /\ open' = open \cup {[at |-> loop, hears |-> Kept(loop, n, verdict)]}
    /\ UNCHANGED todo

LEMMA PassOutcome ==
    ASSUME TypeOK, TryPeer
    PROVE  \E f \in Fates \ {"none"}, n \in 0..Len(ChainOf(loop)) : Outcome(f, n)
<1>1. loop # Idle /\ UNCHANGED todo
    BY DEF TryPeer
<1>2. loop \in Routed
    BY <1>1, LoopFacts
<1>3. ChainOf(loop) \in Seq(Plugins)
    BY <1>2, RoutedFacts
<1>4. 1..Len(ChainOf(loop)) \subseteq 0..Len(ChainOf(loop))
    BY <1>3
<1>5. CASE Muted(loop)
  <2>1. PICK n \in 1..Len(ChainOf(loop)) : TakeNotes(loop, n)
      BY <1>5 DEF Muted
  <2>2. Outcome("muted", n)
      BY <1>1, <1>5, <2>1 DEF Outcome, Muted, NoPDU, NotAsked
  <2> QED BY <1>4, <2>2 DEF Fates
<1>6. CASE Responded(loop)
  <2>1. PICK n \in 1..Len(ChainOf(loop)) :
            TakeNotes(loop, n) /\ RspPDU(loop, ChainOf(loop), Noted(loop, n))
      BY <1>6 DEF Responded
  <2>2. SendRsp(loop)
      BY <2>1 DEF RspPDU
  <2>3. Outcome("responded", n)
      BY <1>1, <1>6, <2>1, <2>2 DEF Outcome, Responded, NotAsked
  <2> QED BY <1>4, <2>3 DEF Fates
<1>7. CASE PassedOn(loop)
  <2>1. PICK n \in 0..Len(ChainOf(loop)), verdict \in {"next", "break"} :
            /\ verdict = "next" => n = Len(ChainOf(loop))
            /\ TakeNotes(loop, n) /\ (Failed(loop) \/ Sent(loop, Kept(loop, n, verdict)))
      BY <1>7 DEF PassedOn
  <2>2. CASE Failed(loop)
    <3>1. fates' = [fates EXCEPT ![loop] = "failed"] /\ NextPeer /\ UNCHANGED open
        BY <2>2 DEF Failed, AfterFailure, NotAsked
    <3>2. (UNCHANGED replies /\ kind[loop.req] = "inform") \/ SendRsp(loop)
        BY <2>2 DEF Failed, NoPDU
    <3>3. Outcome("failed", n)
        BY <1>1, <2>1, <3>1, <3>2 DEF Outcome
    <3> QED BY <3>3 DEF Fates
  <2>3. CASE Sent(loop, Kept(loop, n, verdict))
    <3>1. fates' = [fates EXCEPT ![loop] = "sent"] /\ NextPeer
        BY <2>3 DEF Sent
    <3>2. \/ SendRsp(loop) /\ UNCHANGED open
          \/ /\ open' = open \cup {[at |-> loop, hears |-> Kept(loop, n, verdict)]}
             /\ UNCHANGED replies
        BY <2>3 DEF Sent, Asked, NoPDU
    <3>3. Outcome("sent", n)
        BY <1>1, <2>1, <3>1, <3>2 DEF Outcome
    <3> QED BY <3>3 DEF Fates
  <2> QED BY <2>1, <2>2, <2>3
<1> QED BY <1>5, <1>6, <1>7 DEF TryPeer

(* A callback is for an attempt that is waited for, between requests.      *)
LEMMA CallbackOutcome ==
    ASSUME TypeOK, NEW o \in open, SnmpCbFun(o)
    PROVE  /\ o.at \in Routed /\ o.hears \in Seq(Plugins) /\ o = [at |-> o.at, hears |-> o.hears]
           /\ loop = Idle /\ open' = open \ {o} /\ SendRsp(o.at)
           /\ UNCHANGED <<todo, loop, endpoints, reqCtx, fates, sends, unsent>>
<1>1. o \in [at : Routed, hears : Seq(Plugins)]
    BY DEF TypeOK
<1>2. SendRsp(o.at)
    BY DEF SnmpCbFun, RspPDU, NoPDU
<1> QED BY <1>1, <1>2 DEF SnmpCbFun

(* The next peer is a peer of the route, or there is none.                 *)
LEMMA NextFacts ==
    ASSUME TypeOK, loop # Idle, NextPeer
    PROVE  \/ /\ loop' = Idle /\ loop.n = Len(peerIdList[loop.req])
           \/ /\ loop' = At(loop.req, loop.n + 1) /\ loop' \in Routed
              /\ loop'.req = loop.req /\ loop'.n = loop.n + 1
<1>1. loop \in Routed /\ loop.req \in Reqs
    BY LoopFacts
<1>2. peerIdList[loop.req] \in Seq(Peers)
    BY <1>1, RoutedFacts
<1>3. loop.n \in 0..Len(peerIdList[loop.req])
    BY <1>1, IsRouted
<1>4. CASE loop.n < Len(peerIdList[loop.req])
  <2>1. loop.n + 1 \in 0..Len(peerIdList[loop.req])
      BY <1>2, <1>3, <1>4
  <2>2. loop' = At(loop.req, loop.n + 1)
      BY <1>4 DEF NextPeer
  <2>3. /\ At(loop.req, loop.n + 1) \in Routed
        /\ At(loop.req, loop.n + 1).req = loop.req
        /\ At(loop.req, loop.n + 1).n = loop.n + 1
      BY <1>1, <2>1, AtRouted
  <2> QED BY <2>2, <2>3
<1>5. CASE ~(loop.n < Len(peerIdList[loop.req]))
  <2>1. loop.n = Len(peerIdList[loop.req])
      BY <1>2, <1>3, <1>5
  <2> QED BY <1>5, <2>1 DEF NextPeer
<1> QED BY <1>4, <1>5

(* The address list after a pass: the pair of the peer stays behind, or a  *)
(* PDU left with it.                                                       *)
LEMMA PassAddresses ==
    ASSUME TypeOK, TryPeer
    PROVE  \/ /\ endpoints' = Queued(PeerOf(loop)) /\ unsent' = Append(unsent, loop)
              /\ UNCHANGED sends
           \/ /\ UNCHANGED <<endpoints, unsent>>
              /\ \/ UNCHANGED sends
                 \/ sends' = sends \cup {[at |-> loop, bind |-> Bind(PeerOf(loop)),
                                          peer |-> Remote(PeerOf(loop))]}
<1>1. loop \in Routed /\ loop.n > 0
    BY LoopFacts DEF TryPeer
<1>2. PeerOf(loop) \in Peers /\ endpoints \in Seq(Address)
    BY <1>1, RoutedFacts DEF TypeOK
<1>3. /\ Resolve(Queued(PeerOf(loop))).bind = Bind(PeerOf(loop))
      /\ Resolve(Queued(PeerOf(loop))).peer = Remote(PeerOf(loop))
      /\ Resolve(Queued(PeerOf(loop))).rest = endpoints
    BY <1>2, ResolveQueued
<1>4. CASE Muted(loop)
    BY <1>4 DEF Muted, NotAsked
<1>5. CASE Responded(loop)
    BY <1>5 DEF Responded, NotAsked
<1>6. CASE PassedOn(loop)
  <2>1. Failed(loop) \/ \E plugins : Sent(loop, plugins)
      BY <1>6 DEF PassedOn
  <2>2. CASE Failed(loop)
      BY <1>3, <2>2 DEF Failed, NotAsked
  <2>3. ASSUME NEW plugins, Sent(loop, plugins)
        PROVE  /\ UNCHANGED <<endpoints, unsent>>
               /\ sends' = sends \cup {[at |-> loop, bind |-> Bind(PeerOf(loop)),
                                        peer |-> Remote(PeerOf(loop))]}
      BY <1>3, <2>3 DEF Sent
  <2> QED BY <2>1, <2>2, <2>3
<1> QED BY <1>4, <1>5, <1>6 DEF TryPeer

(* Plugins hear a pass only when one of them answers for the peer.         *)
LEMMA PassHeard ==
    ASSUME TypeOK, TryPeer
    PROVE  \/ UNCHANGED <<heard, unnoted>>
           \/ \E n \in 0..Len(ChainOf(loop)) :
                  /\ RspPDU(loop, ChainOf(loop), Noted(loop, n))
                  /\ fates' = [fates EXCEPT ![loop] = "responded"]
<1>1. loop \in Routed
    BY LoopFacts DEF TryPeer
<1>2. ChainOf(loop) \in Seq(Plugins)
    BY <1>1, RoutedFacts
<1>3. CASE Muted(loop)
    BY <1>3 DEF Muted, NoPDU
<1>4. CASE Responded(loop)
  <2>1. PICK n \in 1..Len(ChainOf(loop)) : RspPDU(loop, ChainOf(loop), Noted(loop, n))
      BY <1>4 DEF Responded
  <2>2. n \in 0..Len(ChainOf(loop))
      BY <1>2
  <2> QED BY <1>4, <2>1, <2>2 DEF Responded
<1>5. CASE PassedOn(loop)
  <2>1. Failed(loop) \/ \E plugins : Sent(loop, plugins)
      BY <1>5 DEF PassedOn
  <2>2. CASE Failed(loop)
      BY <2>2 DEF Failed, NoPDU
  <2>3. ASSUME NEW plugins, Sent(loop, plugins) PROVE UNCHANGED <<heard, unnoted>>
      BY <2>3 DEF Sent, Asked, NoPDU
  <2> QED BY <2>1, <2>2, <2>3
<1> QED BY <1>3, <1>4, <1>5 DEF TryPeer

(* What the handlers of a list of plugins read.                            *)
LEMMA RspFacts ==
    ASSUME NEW at \in Routed, NEW plugins \in Seq(Plugins), NEW ctx, RspPDU(at, plugins, ctx)
    PROVE  /\ \A r \in heard' : \/ r \in heard
                                \/ /\ r.at = at /\ r.by \in Plugins
                                   /\ \E i \in DOMAIN plugins : r.by = plugins[i]
                                   /\ r.note = ctx[moduleOf[r.by]]
                                   /\ r = [by |-> r.by, at |-> r.at, note |-> r.note]
           /\ unnoted \subseteq unnoted' /\ unnoted' \subseteq unnoted \cup {at}
           /\ Noticed(at, plugins, ctx) => unnoted' = unnoted
<1>1. PICK n \in 0..Len(plugins) :
          /\ heard' = heard \cup Reads(at, plugins, n, ctx)
          /\ unnoted' = unnoted \cup
                 {a \in {at} : \E r \in Reads(at, plugins, n, ctx) : r.note = NoNote}
    BY DEF RspPDU
<1>2. ASSUME NEW r \in Reads(at, plugins, n, ctx)
      PROVE  \E i \in DOMAIN plugins :
                 /\ r = [by |-> plugins[i], at |-> at, note |-> ctx[moduleOf[plugins[i]]]]
                 /\ plugins[i] \in Plugins /\ Notes(at, moduleOf[plugins[i]])
  <2>1. PICK i \in 1..n :
            /\ r = [by |-> plugins[i], at |-> at, note |-> ctx[moduleOf[plugins[i]]]]
            /\ Notes(at, moduleOf[plugins[i]])
      BY <1>2 DEF Reads
  <2>2. i \in DOMAIN plugins
      BY <1>1
  <2>3. plugins[i] \in Plugins
      BY <2>2, Element
  <2> QED BY <2>1, <2>2, <2>3
<1>3. ASSUME NEW r \in Reads(at, plugins, n, ctx)
      PROVE  /\ r.at = at /\ r.by \in Plugins
             /\ \E i \in DOMAIN plugins : r.by = plugins[i]
             /\ r.note = ctx[moduleOf[r.by]]
             /\ r = [by |-> r.by, at |-> r.at, note |-> r.note]
             /\ Noticed(at, plugins, ctx) => r.note # NoNote
  <2>1. PICK i \in DOMAIN plugins :
            /\ r = [by |-> plugins[i], at |-> at, note |-> ctx[moduleOf[plugins[i]]]]
            /\ plugins[i] \in Plugins /\ Notes(at, moduleOf[plugins[i]])
      BY <1>2
  <2>2. r.by = plugins[i] /\ r.at = at /\ r.note = ctx[moduleOf[plugins[i]]]
      BY <2>1
  <2>3. Noticed(at, plugins, ctx) => ctx[moduleOf[plugins[i]]] # NoNote
      BY <2>1 DEF Noticed
  <2> QED BY <2>1, <2>2, <2>3
<1> QED BY <1>1, <1>3

(* The list kept for the response is a start of the plugins that saw the   *)
(* request.                                                                *)
LEMMA KeptFacts ==
    ASSUME NEW at \in Routed, NEW n \in 0..Len(ChainOf(at)), NEW verdict \in {"next", "break"},
           verdict = "next" => n = Len(ChainOf(at))
    PROVE  /\ Kept(at, n, verdict) \in Seq(Plugins)
           /\ \A i \in DOMAIN Kept(at, n, verdict) :
                  /\ i \in 1..n /\ i \in DOMAIN ChainOf(at)
                  /\ Kept(at, n, verdict)[i] = ChainOf(at)[i]
<1> DEFINE chain == ChainOf(at)
<1>1. chain \in Seq(Plugins)
    BY RoutedFacts
<1> HIDE DEF chain
<1>2. CASE verdict = "next"
  <2>1. Kept(at, n, verdict) = chain /\ n = Len(chain)
      BY <1>2 DEF Kept, chain
  <2> QED BY <1>1, <2>1 DEF chain
<1>3. CASE verdict = "break"
  <2>1. Kept(at, n, verdict) = SubSeq(chain, 1, n - 1)
      BY <1>3 DEF Kept, chain
  <2>2. n \in 0..Len(chain)
      BY DEF chain
  <2>3. SubSeq(chain, 1, n - 1) \in Seq(Plugins)
      BY <1>1, <2>2
  <2>4. \A i \in DOMAIN SubSeq(chain, 1, n - 1) :
            i \in 1..n /\ i \in DOMAIN chain /\ SubSeq(chain, 1, n - 1)[i] = chain[i]
      BY <1>1, <2>2
  <2> QED BY <2>1, <2>3, <2>4 DEF chain
<1> QED BY <1>2, <1>3

LEMMA TakeNotesFacts ==
    ASSUME TypeOK, NEW at \in Routed, NEW n \in 0..Len(ChainOf(at)), TakeNotes(at, n)
    PROVE  /\ reqCtx' \in [Routed -> [Modules -> Note]]
           /\ reqCtx'[at] = Noted(at, n)
           /\ \A a \in Routed \ {at} : reqCtx'[a] = reqCtx[a]
<1>1. reqCtx' = [reqCtx EXCEPT ![at] = Noted(at, n)]
    BY DEF TakeNotes, CtxOf
<1>2. Noted(at, n) \in [Modules -> Note]
    BY NotedFacts
<1>3. reqCtx \in [Routed -> [Modules -> Note]]
    BY DEF TypeOK
<1> QED BY <1>1, <1>2, <1>3

-----------------------------------------------------------------------------
(* Types.                                                                  *)

LEMMA TypeInit == ASSUME Init PROVE TypeOK
<1>1. \A at \in Routed : [m \in Modules |-> NoNote] \in [Modules -> Note]
    BY DEF Note
<1>2. reqCtx \in [Routed -> [Modules -> Note]]
    BY <1>1 DEF Init
<1>3. loop \in {at \in Routed : at.n > 0} \cup {Idle}
    BY DEF Init
<1> QED BY <1>2, <1>3 DEF Init, TypeOK, Fates

LEMMA CountTyped ==
    ASSUME TypeOK, NEW at \in Routed, SendRsp(at)
    PROVE  /\ replies' \in [Routed -> Nat] /\ replies'[at] = replies[at] + 1
           /\ \A a \in Routed \ {at} : replies'[a] = replies[a]
BY DEF TypeOK, SendRsp

LEMMA HeardTyped ==
    ASSUME TypeOK, NEW at \in Routed, NEW plugins \in Seq(Plugins),
           NEW ctx \in [Modules -> Note], RspPDU(at, plugins, ctx)
    PROVE  /\ heard' \subseteq [by : Plugins, at : Routed, note : Note]
           /\ unnoted' \subseteq Routed
<1>1. ASSUME NEW r \in heard' PROVE r \in [by : Plugins, at : Routed, note : Note]
  <2>1. CASE r \in heard
      BY <2>1 DEF TypeOK
  <2>2. CASE r \notin heard
    <3>1. r.at = at /\ r.by \in Plugins /\ r.note = ctx[moduleOf[r.by]]
        BY <2>2, RspFacts
    <3>2. r = [by |-> r.by, at |-> r.at, note |-> r.note]
        BY <2>2, RspFacts
    <3>3. moduleOf[r.by] \in Modules
        BY <3>1, ModulesAssumption
    <3>4. r.note \in Note
        BY <3>1, <3>3
    <3> QED BY <3>1, <3>2, <3>4
  <2> QED BY <2>1, <2>2
<1>2. unnoted' \subseteq unnoted \cup {at}
    BY RspFacts
<1> QED BY <1>1, <1>2 DEF TypeOK

LEMMA TypeStep ==
    ASSUME TypeOK, Next
    PROVE  TypeOK'
<1>1. ASSUME NEW req \in Reqs, Receive(req) PROVE TypeOK'
  <2>1. CASE Unroutable(req)
    <3>1. peerIdList[req] = <<>> /\ 0 \in 0..Len(peerIdList[req])
        BY <2>1 DEF Unroutable
    <3>2. At(req, 0) \in Routed
        BY <3>1, AtRouted
    <3>3. replies' \in [Routed -> Nat]
        BY <2>1, <3>2, CountTyped DEF Unroutable, NoPDU
    <3>4. UNCHANGED <<loop, heard, unnoted>>
        BY <2>1 DEF Unroutable, NoPDU
    <3> QED BY <1>1, <3>3, <3>4 DEF Receive, TypeOK
  <2>2. CASE ~Unroutable(req)
    <3>1. peerIdList[req] # <<>> /\ loop' = At(req, 1) /\ UNCHANGED <<replies, heard, unnoted>>
        BY <1>1, <2>2 DEF Receive
    <3>2. 1 \in 0..Len(peerIdList[req])
      <4>1. peerIdList[req] \in Seq(Peers)
          BY RoutesAssumption
      <4> QED BY <3>1, <4>1
    <3>3. At(req, 1) \in Routed /\ At(req, 1).n = 1
        BY <3>2, AtRouted
    <3>4. loop' \in {at \in Routed : at.n > 0} \cup {Idle}
        BY <3>1, <3>3
    <3> QED BY <1>1, <3>1, <3>4 DEF Receive, TypeOK
  <2> QED BY <2>1, <2>2
<1>2. ASSUME TryPeer PROVE TypeOK'
  <2>1. PICK f \in Fates \ {"none"}, n \in 0..Len(ChainOf(loop)) : Outcome(f, n)
      BY <1>2, PassOutcome
  <2>2. loop \in Routed /\ loop.n > 0 /\ loop # Idle /\ loop.n \in Nat
      BY <1>2, LoopFacts DEF TryPeer
  <2>3. ChainOf(loop) \in Seq(Plugins) /\ PeerOf(loop) \in Peers
      BY <2>2, RoutedFacts
  <2>4. todo' = todo /\ fates' \in [Routed -> Fates]
      BY <2>1, <2>2 DEF Outcome, TypeOK
  <2>5. reqCtx' \in [Routed -> [Modules -> Note]]
      BY <2>1, <2>2, TakeNotesFacts DEF Outcome
  <2>6. replies' \in [Routed -> Nat]
    <3>1. SendRsp(loop) \/ replies' = replies
        BY <2>1 DEF Outcome
    <3> QED BY <2>2, <3>1, CountTyped DEF TypeOK
  <2>7. open' \subseteq [at : Routed, hears : Seq(Plugins)]
    <3>1. open' = open \/ \E verdict \in {"next", "break"} :
              /\ verdict = "next" => n = Len(ChainOf(loop))
              /\ open' = open \cup {[at |-> loop, hears |-> Kept(loop, n, verdict)]}
        BY <2>1 DEF Outcome
    <3>2. ASSUME NEW verdict \in {"next", "break"}, verdict = "next" => n = Len(ChainOf(loop))
          PROVE  Kept(loop, n, verdict) \in Seq(Plugins)
        BY <2>2, <3>2, KeptFacts
    <3> QED BY <2>2, <3>1, <3>2 DEF TypeOK
  <2>8. loop' \in {at \in Routed : at.n > 0} \cup {Idle}
    <3>1. loop' = Idle \/ NextPeer
        BY <2>1 DEF Outcome
    <3>2. ASSUME NextPeer PROVE loop' = Idle \/ (loop' \in Routed /\ loop'.n = loop.n + 1)
        BY <2>2, <3>2, NextFacts
    <3> QED BY <2>2, <3>1, <3>2
  <2>9. endpoints' \in Seq(Address) /\ unsent' \in Seq(Routed)
    <3>1. Queued(PeerOf(loop)) \in Seq(Address)
        BY <2>3, ResolveQueued DEF TypeOK
    <3>2. Append(unsent, loop) \in Seq(Routed)
        BY <2>2 DEF TypeOK
    <3> QED BY <1>2, <3>1, <3>2, PassAddresses DEF TypeOK
  <2>10. sends' \subseteq [at : Routed, bind : Address, peer : Address]
    <3>1. Bind(PeerOf(loop)) \in Address /\ Remote(PeerOf(loop)) \in Address
        BY <2>3, AddressFacts
    <3> QED BY <1>2, <2>2, <3>1, PassAddresses DEF TypeOK
  <2>11. heard' \subseteq [by : Plugins, at : Routed, note : Note] /\ unnoted' \subseteq Routed
    <3>1. CASE UNCHANGED <<heard, unnoted>>
        BY <3>1 DEF TypeOK
    <3>2. ASSUME NEW k \in 0..Len(ChainOf(loop)), RspPDU(loop, ChainOf(loop), Noted(loop, k))
          PROVE  /\ heard' \subseteq [by : Plugins, at : Routed, note : Note]
                 /\ unnoted' \subseteq Routed
      <4>1. Noted(loop, k) \in [Modules -> Note]
          BY <2>2, NotedFacts
      <4> QED BY <2>2, <2>3, <3>2, <4>1, HeardTyped
    <3> QED BY <1>2, <3>1, <3>2, PassHeard
  <2> QED BY <2>4, <2>5, <2>6, <2>7, <2>8, <2>9, <2>10, <2>11 DEF TypeOK
<1>3. ASSUME NEW o \in open, SnmpCbFun(o) PROVE TypeOK'
  <2>1. o.at \in Routed /\ o.hears \in Seq(Plugins) /\ open' = open \ {o} /\ SendRsp(o.at)
      BY <1>3, CallbackOutcome
  <2>2. UNCHANGED <<todo, loop, endpoints, reqCtx, fates, sends, unsent>>
      BY <1>3, CallbackOutcome
  <2>3. replies' \in [Routed -> Nat]
      BY <2>1, CountTyped
  <2>4. reqCtx[CtxOf(o.at)] \in [Modules -> Note]
      BY <2>1 DEF TypeOK, CtxOf
  <2>5. heard' \subseteq [by : Plugins, at : Routed, note : Note] /\ unnoted' \subseteq Routed
    <3>1. RspPDU(o.at, o.hears, reqCtx[CtxOf(o.at)]) \/ UNCHANGED <<heard, unnoted>>
        BY <1>3 DEF SnmpCbFun, NoPDU
    <3> QED BY <2>1, <2>4, <3>1, HeardTyped DEF TypeOK
  <2> QED BY <2>1, <2>2, <2>3, <2>5 DEF TypeOK
<1> QED BY <1>1, <1>2, <1>3 DEF Next

(* Type correctness.                                                       *)
THEOREM TypeCorrect == Spec => []TypeOK
<1>1. Init => TypeOK
    BY TypeInit
<1>2. TypeOK /\ [Next]_vars => TypeOK'
  <2>1. ASSUME TypeOK, UNCHANGED vars PROVE TypeOK'
      BY <2>1 DEF vars, TypeOK
  <2> QED BY <2>1, TypeStep
<1> QED BY <1>1, <1>2, PTL DEF Spec

-----------------------------------------------------------------------------
(* The overridden addresses.                                               *)

LEMMA LeftStep ==
    ASSUME TypeOK, OnlyUnsentLeft, Next
    PROVE  OnlyUnsentLeft'
<1>1. ASSUME UNCHANGED <<endpoints, unsent>> PROVE OnlyUnsentLeft'
    BY <1>1 DEF OnlyUnsentLeft
<1>2. ASSUME NEW req \in Reqs, Receive(req) PROVE OnlyUnsentLeft'
    BY <1>1, <1>2 DEF Receive
<1>3. ASSUME NEW o \in open, SnmpCbFun(o) PROVE OnlyUnsentLeft'
    BY <1>1, <1>3 DEF SnmpCbFun
<1>4. ASSUME TryPeer PROVE OnlyUnsentLeft'
  <2>1. CASE UNCHANGED <<endpoints, unsent>>
      BY <1>1, <2>1
  <2>2. CASE endpoints' = Queued(PeerOf(loop)) /\ unsent' = Append(unsent, loop)
    <3>1. loop \in Routed /\ PeerOf(loop) \in Peers
      <4>1. loop \in Routed /\ loop.n > 0
          BY <1>4, LoopFacts DEF TryPeer
      <4> QED BY <4>1, RoutedFacts
    <3>2. endpoints \in Seq(Address) /\ unsent \in Seq(Routed)
        BY DEF TypeOK
    <3>3. Len(endpoints') = Len(endpoints) + 2 /\ Len(endpoints) \in Nat
        BY <2>2, <3>1, <3>2, ResolveQueued
    <3>4. \A i \in 1..Len(endpoints) : endpoints'[i] = endpoints[i]
        BY <2>2, <3>1, <3>2, ResolveQueued
    <3>5. /\ endpoints'[Len(endpoints) + 1] = Bind(PeerOf(loop))
          /\ endpoints'[Len(endpoints) + 2] = Remote(PeerOf(loop))
        BY <2>2, <3>1, <3>2, ResolveQueued
    <3>6. /\ Len(unsent') = Len(unsent) + 1 /\ Len(unsent) \in Nat
          /\ DOMAIN unsent' = 1..(Len(unsent) + 1) /\ DOMAIN unsent = 1..Len(unsent)
        BY <2>2, <3>1, <3>2
    <3>7. /\ unsent'[Len(unsent) + 1] = loop
          /\ \A i \in 1..Len(unsent) : unsent'[i] = unsent[i]
        BY <2>2, <3>1, <3>2
    <3>8. Len(endpoints) = 2 * Len(unsent)
        BY DEF OnlyUnsentLeft
    <3>9. Len(endpoints') = 2 * Len(unsent')
        BY <3>3, <3>6, <3>8
    <3>10. ASSUME NEW i \in 1..Len(unsent)
           PROVE  /\ endpoints'[2 * i - 1] = Bind(PeerOf(unsent'[i]))
                  /\ endpoints'[2 * i] = Remote(PeerOf(unsent'[i]))
      <4>1. 2 * i - 1 \in 1..Len(endpoints) /\ 2 * i \in 1..Len(endpoints)
          BY <3>6, <3>8
      <4>2. /\ endpoints[2 * i - 1] = Bind(PeerOf(unsent[i]))
            /\ endpoints[2 * i] = Remote(PeerOf(unsent[i]))
          BY <3>6 DEF OnlyUnsentLeft
      <4> QED BY <3>4, <3>7, <4>1, <4>2
    <3>11. ASSUME NEW i, i = Len(unsent) + 1
           PROVE  /\ endpoints'[2 * i - 1] = Bind(PeerOf(unsent'[i]))
                  /\ endpoints'[2 * i] = Remote(PeerOf(unsent'[i]))
      <4>1. 2 * i - 1 = Len(endpoints) + 1 /\ 2 * i = Len(endpoints) + 2
          BY <3>6, <3>8, <3>11
      <4> QED BY <3>5, <3>7, <3>11, <4>1
    <3>12. \A i \in DOMAIN unsent' : i \in 1..Len(unsent) \/ i = Len(unsent) + 1
        BY <3>6
    <3>13. \A i \in DOMAIN unsent' : /\ endpoints'[2 * i - 1] = Bind(PeerOf(unsent'[i]))
                                     /\ endpoints'[2 * i] = Remote(PeerOf(unsent'[i]))
        BY <3>10, <3>11, <3>12
    <3> QED BY <3>9, <3>13 DEF OnlyUnsentLeft, PeerOf
  <2> QED BY <1>4, <2>1, <2>2, PassAddresses
<1> QED BY <1>2, <1>3, <1>4 DEF Next

LEMMA SentStep ==
    ASSUME TypeOK, SentToOwnEndpoints, Next
    PROVE  SentToOwnEndpoints'
<1>1. ASSUME UNCHANGED sends PROVE SentToOwnEndpoints'
    BY <1>1 DEF SentToOwnEndpoints, PeerOf
<1>2. ASSUME NEW req \in Reqs, Receive(req) PROVE SentToOwnEndpoints'
    BY <1>1, <1>2 DEF Receive
<1>3. ASSUME NEW o \in open, SnmpCbFun(o) PROVE SentToOwnEndpoints'
    BY <1>1, <1>3 DEF SnmpCbFun
<1>4. ASSUME TryPeer PROVE SentToOwnEndpoints'
  <2>1. CASE UNCHANGED sends
      BY <1>1, <2>1
  <2>2. CASE sends' = sends \cup {[at |-> loop, bind |-> Bind(PeerOf(loop)),
                                   peer |-> Remote(PeerOf(loop))]}
    <3>1. \A s \in sends' : s.bind = Bind(PeerOf(s.at)) /\ s.peer = Remote(PeerOf(s.at))
        BY <2>2 DEF SentToOwnEndpoints
    <3> QED BY <3>1 DEF SentToOwnEndpoints, PeerOf
  <2> QED BY <1>4, <2>1, <2>2, PassAddresses
<1> QED BY <1>2, <1>3, <1>4 DEF Next

-----------------------------------------------------------------------------
(* The attempts still to come.                                             *)

LEMMA TakenStep ==
    ASSUME TypeOK, TakenOnce, Next
    PROVE  TakenOnce'
<1>1. todo \subseteq Reqs /\ Idle.req \notin Reqs
    BY NoReqAssumption DEF TypeOK, Idle
<1>2. ASSUME NEW req \in Reqs, Receive(req) PROVE TakenOnce'
  <2>1. loop' = Idle \/ loop' = At(req, 1)
      BY <1>2 DEF Receive, Unroutable
  <2>2. todo' = todo \ {req} /\ At(req, 1).req = req
      BY <1>2 DEF Receive, At
  <2> QED BY <1>1, <2>1, <2>2 DEF TakenOnce
<1>3. ASSUME TryPeer PROVE TakenOnce'
  <2>1. \E f, n : Outcome(f, n)
      BY <1>3, PassOutcome
  <2>2. todo' = todo /\ loop # Idle /\ (loop' = Idle \/ NextPeer)
      BY <1>3, <2>1 DEF Outcome, TryPeer
  <2>3. loop' = Idle \/ loop'.req = loop.req
      BY <2>2, NextFacts
  <2> QED BY <1>1, <2>2, <2>3 DEF TakenOnce
<1>4. ASSUME NEW o \in open, SnmpCbFun(o) PROVE TakenOnce'
    BY <1>4 DEF SnmpCbFun, TakenOnce
<1> QED BY <1>2, <1>3, <1>4 DEF Next

(* Attempts are passed, never come back; the one that is made is passed.   *)
LEMMA AheadReceive ==
    ASSUME TypeOK, NEW req \in Reqs, Receive(req), NEW at \in Routed
    PROVE  Ahead(at)' => Ahead(at) /\ at # At(req, 0)
<1>1. at.req \in Reqs /\ at.n \in Nat
    BY RoutedFacts
<1>2. todo' = todo \ {req} /\ req \in todo /\ (loop' = Idle \/ loop' = At(req, 1))
      /\ loop = Idle
    BY DEF Receive, Unroutable
<1>3. /\ At(req, 0).req = req /\ At(req, 0).n = 0
      /\ At(req, 1).req = req /\ At(req, 1).n = 1
      /\ Idle.req \notin Reqs
    BY NoReqAssumption DEF At, Idle
<1>4. Ahead(at)' => at.req \in todo' \/ (loop'.req = at.req /\ loop'.n <= at.n)
    BY DEF Ahead
<1>5. ASSUME at.req \in todo' PROVE Ahead(at) /\ at # At(req, 0)
    BY <1>2, <1>3, <1>5 DEF Ahead
<1>6. ASSUME loop'.req = at.req, loop'.n <= at.n PROVE Ahead(at) /\ at # At(req, 0)
  <2>1. loop' = At(req, 1)
      BY <1>1, <1>2, <1>3, <1>6
  <2>2. at.req = req /\ 1 <= at.n
      BY <1>3, <1>6, <2>1
  <2> QED BY <1>1, <1>2, <1>3, <2>2 DEF Ahead
<1> QED BY <1>4, <1>5, <1>6

LEMMA AheadPass ==
    ASSUME TypeOK, TakenOnce, TryPeer, NEW at \in Routed
    PROVE  Ahead(at)' => Ahead(at) /\ at # loop
<1>1. at.n \in Nat /\ at.req \in Reqs
    BY RoutedFacts
<1>2. loop # Idle /\ loop \in Routed /\ loop.n \in Nat
    BY LoopFacts DEF TryPeer
<1>3. todo' = todo /\ (loop' = Idle \/ (loop'.req = loop.req /\ loop'.n = loop.n + 1))
  <2>1. \E f, n : Outcome(f, n)
      BY PassOutcome
  <2>2. todo' = todo /\ (loop' = Idle \/ NextPeer)
      BY <2>1 DEF Outcome
  <2> QED BY <1>2, <2>2, NextFacts
<1>4. Idle.req \notin Reqs
    BY NoReqAssumption DEF Idle
<1>5. CASE at.req \in todo
    BY <1>5 DEF Ahead, TakenOnce
<1>6. CASE at.req \notin todo
  <2>1. Ahead(at)' => loop'.req = at.req /\ loop'.n <= at.n
      BY <1>3, <1>6 DEF Ahead
  <2>2. ASSUME loop'.req = at.req, loop'.n <= at.n PROVE Ahead(at) /\ at # loop
    <3>1. loop'.req = loop.req /\ loop'.n = loop.n + 1
        BY <1>1, <1>3, <1>4, <2>2
    <3>2. loop.n <= at.n /\ loop.n # at.n
        BY <1>1, <1>2, <2>2, <3>1
    <3> QED BY <2>2, <3>1, <3>2 DEF Ahead
  <2> QED BY <2>1, <2>2
<1> QED BY <1>5, <1>6

LEMMA AheadCallback ==
    ASSUME NEW o \in open, SnmpCbFun(o), NEW at \in Routed
    PROVE  Ahead(at)' <=> Ahead(at)
BY DEF SnmpCbFun, Ahead

LEMMA LoopUntouched ==
    ASSUME TypeOK, UntriedUntouched, loop # Idle
    PROVE  fates[loop] = "none" /\ replies[loop] = 0 /\ ~Waits(loop)
<1>1. loop \in Routed /\ loop.n \in Nat
    BY LoopFacts
<1>2. Ahead(loop)
    BY <1>1 DEF Ahead
<1> QED BY <1>1, <1>2 DEF UntriedUntouched

(* What a pass leaves alone: every attempt but the one that is made.       *)
LEMMA OthersUntouched ==
    ASSUME TypeOK, TryPeer, NEW at \in Routed, at # loop
    PROVE  fates'[at] = fates[at] /\ replies'[at] = replies[at] /\ (Waits(at)' <=> Waits(at))
<1>1. PICK f \in Fates \ {"none"}, n \in 0..Len(ChainOf(loop)) : Outcome(f, n)
    BY PassOutcome
<1>2. loop \in Routed
    BY LoopFacts DEF TryPeer
<1>3. fates'[at] = fates[at]
    BY <1>1, <1>2 DEF Outcome, TypeOK
<1>4. replies'[at] = replies[at]
  <2>1. SendRsp(loop) \/ replies' = replies
      BY <1>1 DEF Outcome
  <2> QED BY <1>2, <2>1, CountTyped
<1>5. Waits(at)' <=> Waits(at)
  <2>1. open' = open \/ \E hears : open' = open \cup {[at |-> loop, hears |-> hears]}
      BY <1>1 DEF Outcome
  <2> QED BY <2>1 DEF Waits
<1> QED BY <1>3, <1>4, <1>5

LEMMA UntriedStep ==
    ASSUME TypeOK, TakenOnce, UntriedUntouched, Next
    PROVE  UntriedUntouched'
<1> SUFFICES ASSUME NEW at \in Routed, Ahead(at)'
             PROVE  fates'[at] = "none" /\ replies'[at] = 0 /\ ~Waits(at)'
    BY DEF UntriedUntouched
<1>1. ASSUME NEW req \in Reqs, Receive(req)
      PROVE  fates'[at] = "none" /\ replies'[at] = 0 /\ ~Waits(at)'
  <2>1. Ahead(at) /\ at # At(req, 0)
      BY <1>1, AheadReceive
  <2>2. fates[at] = "none" /\ replies[at] = 0 /\ ~Waits(at)
      BY <2>1 DEF UntriedUntouched
  <2>3. UNCHANGED <<fates, open>>
      BY <1>1 DEF Receive
  <2>4. replies'[at] = replies[at]
    <3>1. SendRsp(At(req, 0)) \/ replies' = replies
        BY <1>1 DEF Receive, Unroutable, NoPDU
    <3> QED BY <2>1, <3>1 DEF SendRsp, TypeOK
  <2> QED BY <2>2, <2>3, <2>4 DEF Waits
<1>2. ASSUME TryPeer
      PROVE  fates'[at] = "none" /\ replies'[at] = 0 /\ ~Waits(at)'
  <2>1. Ahead(at) /\ at # loop
      BY <1>2, AheadPass
  <2> QED BY <1>2, <2>1, OthersUntouched DEF UntriedUntouched
<1>3. ASSUME NEW o \in open, SnmpCbFun(o)
      PROVE  fates'[at] = "none" /\ replies'[at] = 0 /\ ~Waits(at)'
  <2>1. Ahead(at)
      BY <1>3, AheadCallback
  <2>2. fates[at] = "none" /\ replies[at] = 0 /\ ~Waits(at)
      BY <2>1 DEF UntriedUntouched
  <2>3. open' = open \ {o} /\ SendRsp(o.at) /\ fates' = fates
      BY <1>3, CallbackOutcome
  <2>4. o.at # at
      BY <2>2 DEF Waits
  <2>5. replies'[at] = replies[at]
      BY <2>3, <2>4 DEF SendRsp, TypeOK
  <2> QED BY <2>2, <2>3, <2>5 DEF Waits
<1> QED BY <1>1, <1>2, <1>3 DEF Next

-----------------------------------------------------------------------------
(* Which attempts are passed over, and the replies.                        *)

LEMMA PassedOverStep ==
    ASSUME TypeOK, TakenOnce, UntriedUntouched, PassedOver, Next
    PROVE  PassedOver'
<1> DEFINE Verdict(at) ==
        \E i \in 1..(at.n - 1) : fates[At(at.req, i)] \in {"muted", "responded"}
<1> SUFFICES ASSUME NEW at \in Routed, at.n > 0, fates'[at] = "none", ~Ahead(at)'
             PROVE  Verdict(at)'
    BY DEF PassedOver
<1>1. at.req \in Reqs /\ at.n \in Nat /\ at.n \in 0..Len(peerIdList[at.req])
      /\ at = At(at.req, at.n) /\ peerIdList[at.req] \in Seq(Peers)
    BY IsRouted, RoutedFacts
<1>2. fates[at] = "none" /\ ~Ahead(at) => Verdict(at)
    BY DEF PassedOver
<1>3. ASSUME NEW req \in Reqs, Receive(req) PROVE Verdict(at)'
  <2>1. fates' = fates /\ todo' = todo \ {req} /\ loop = Idle
      BY <1>3 DEF Receive
  <2>2. ASSUME Ahead(at) PROVE FALSE
    <3>1. at.req \in todo /\ at.req = req
        BY <1>1, <2>1, <2>2, NoReqAssumption DEF Ahead, Idle
    <3>2. CASE Unroutable(req)
      <4>1. peerIdList[at.req] = <<>>
          BY <3>1, <3>2 DEF Unroutable
      <4> QED BY <1>1, <4>1
    <3>3. CASE loop' = At(req, 1)
      <4>1. loop'.req = at.req /\ loop'.n <= at.n
          BY <1>1, <3>1, <3>3 DEF At
      <4> QED BY <4>1 DEF Ahead
    <3> QED BY <1>3, <3>2, <3>3 DEF Receive
  <2> QED BY <1>2, <2>1, <2>2
<1>4. ASSUME TryPeer PROVE Verdict(at)'
  <2>1. PICK f \in Fates \ {"none"}, n \in 0..Len(ChainOf(loop)) : Outcome(f, n)
      BY <1>4, PassOutcome
  <2>2. loop # Idle /\ loop \in Routed /\ loop.n \in Nat /\ loop.n > 0
      BY <1>4, LoopFacts DEF TryPeer
  <2>3. loop = At(loop.req, loop.n)
      BY <2>2, IsRouted
  <2>4. fates'[loop] = f /\ f # "none"
      BY <2>1, <2>2 DEF Outcome, TypeOK
  <2>5. at # loop /\ fates[at] = "none" /\ todo' = todo
      BY <1>4, <2>1, <2>4, OthersUntouched DEF Outcome
  <2>6. CASE ~Ahead(at)
    <3>1. PICK i \in 1..(at.n - 1) : fates[At(at.req, i)] \in {"muted", "responded"}
        BY <1>2, <2>5, <2>6
    <3>2. i \in 0..Len(peerIdList[at.req])
        BY <1>1
    <3>3. At(at.req, i) \in Routed
        BY <1>1, <3>2, AtRouted
    <3>4. At(at.req, i) # loop
        BY <2>2, <3>1, LoopUntouched
    <3>5. fates'[At(at.req, i)] = fates[At(at.req, i)]
        BY <1>4, <3>3, <3>4, OthersUntouched
    <3> QED BY <3>1, <3>5
  <2>7. CASE Ahead(at)
    <3>1. at.req \notin todo
        BY <2>5 DEF Ahead
    <3>2. loop.req = at.req /\ loop.n <= at.n
        BY <2>7, <3>1 DEF Ahead
    <3>3. loop.n # at.n
        BY <1>1, <2>3, <2>5, <3>2
    <3>4. loop.n \in 1..(at.n - 1)
        BY <1>1, <2>2, <3>2, <3>3
    <3>5. CASE f \in {"muted", "responded"}
        BY <2>3, <2>4, <3>2, <3>4, <3>5
    <3>6. CASE f \notin {"muted", "responded"}
      <4>1. NextPeer
          BY <2>1, <3>6 DEF Outcome
      <4>2. \/ loop.n = Len(peerIdList[loop.req])
            \/ loop'.req = loop.req /\ loop'.n = loop.n + 1
          BY <2>2, <4>1, NextFacts
      <4>3. loop'.req = at.req /\ loop'.n = loop.n + 1
          BY <1>1, <3>2, <3>4, <4>2
      <4>4. loop'.n <= at.n
          BY <1>1, <2>2, <3>4, <4>3
      <4> QED BY <4>3, <4>4 DEF Ahead
    <3> QED BY <3>5, <3>6
  <2> QED BY <2>6, <2>7
<1>5. ASSUME NEW o \in open, SnmpCbFun(o) PROVE Verdict(at)'
  <2>1. fates' = fates
      BY <1>5 DEF SnmpCbFun
  <2>2. ~Ahead(at)
      BY <1>5, AheadCallback
  <2> QED BY <1>2, <2>1, <2>2
<1> QED BY <1>3, <1>4, <1>5 DEF Next

LEMMA WaitedStep ==
    ASSUME TypeOK, UntriedUntouched, WaitedForOnce, Next
    PROVE  WaitedForOnce'
<1>1. ASSUME open' \subseteq open PROVE WaitedForOnce'
    BY <1>1 DEF WaitedForOnce
<1>2. ASSUME NEW req \in Reqs, Receive(req) PROVE WaitedForOnce'
    BY <1>1, <1>2 DEF Receive
<1>3. ASSUME TryPeer PROVE WaitedForOnce'
  <2>1. PICK f \in Fates \ {"none"}, n \in 0..Len(ChainOf(loop)) : Outcome(f, n)
      BY <1>3, PassOutcome
  <2>2. open' = open \/ \E hears : open' = open \cup {[at |-> loop, hears |-> hears]}
      BY <2>1 DEF Outcome
  <2>3. ~Waits(loop)
      BY <1>3, LoopUntouched DEF TryPeer
  <2> QED BY <1>1, <2>2, <2>3 DEF WaitedForOnce, Waits
<1>4. ASSUME NEW o \in open, SnmpCbFun(o) PROVE WaitedForOnce'
    BY <1>1, <1>4 DEF SnmpCbFun
<1> QED BY <1>2, <1>3, <1>4 DEF Next

Settled(at) ==
    /\ replies[at] <= 1
    /\ Waits(at) => replies[at] = 0 /\ fates[at] = "sent"
    /\ fates[at] # "none" /\ replies[at] = 0 /\ ~Waits(at)
       => fates[at] = "failed" /\ kind[at.req] = "inform"

LEMMA RepliedStep ==
    ASSUME TypeOK, TakenOnce, UntriedUntouched, WaitedForOnce, RepliedOnce, Next
    PROVE  RepliedOnce'
<1>1. \A at \in Routed : Settled(at)
    BY DEF RepliedOnce, Settled
<1> SUFFICES ASSUME NEW at \in Routed PROVE Settled(at)'
    BY DEF RepliedOnce, Settled
<1>2. ASSUME UNCHANGED <<replies, open, fates>> PROVE Settled(at)'
    BY <1>1, <1>2 DEF Settled, Waits
<1>3. ASSUME NEW req \in Reqs, Receive(req) PROVE Settled(at)'
  <2>1. UNCHANGED <<open, fates>> /\ (SendRsp(At(req, 0)) \/ replies' = replies)
      BY <1>3 DEF Receive, Unroutable, NoPDU
  <2>2. CASE SendRsp(At(req, 0))
    <3>1. CASE at = At(req, 0)
      <4>1. at.req \in todo
          BY <1>3, <3>1 DEF Receive, At
      <4>2. fates[at] = "none" /\ replies[at] = 0 /\ ~Waits(at)
          BY <4>1 DEF Ahead, UntriedUntouched
      <4>3. replies'[at] = 1
        <5>1. replies'[at] = replies[at] + 1
            BY <2>2, <3>1, CountTyped
        <5> QED BY <4>2, <5>1
      <4> QED BY <2>1, <4>2, <4>3 DEF Settled, Waits
    <3>2. CASE at # At(req, 0)
      <4>1. replies'[at] = replies[at]
          BY <2>2, <3>2 DEF SendRsp, TypeOK
      <4> QED BY <1>1, <2>1, <4>1 DEF Settled, Waits
    <3> QED BY <3>1, <3>2
  <2> QED BY <1>2, <2>1, <2>2
<1>4. ASSUME TryPeer PROVE Settled(at)'
  <2>1. PICK f \in Fates \ {"none"}, n \in 0..Len(ChainOf(loop)) : Outcome(f, n)
      BY <1>4, PassOutcome
  <2>2. loop # Idle /\ loop \in Routed
      BY <1>4, LoopFacts DEF TryPeer
  <2>3. CASE at # loop
      BY <1>1, <1>4, <2>3, OthersUntouched DEF Settled
  <2>4. CASE at = loop
    <3>1. fates[at] = "none" /\ replies[at] = 0 /\ ~Waits(at)
        BY <2>2, <2>4, LoopUntouched
    <3>2. fates'[at] = f
        BY <2>1, <2>4 DEF Outcome, TypeOK
    <3>3. CASE SendRsp(loop) /\ UNCHANGED open
      <4>1. replies'[at] = replies[at] + 1
          BY <2>4, <3>3, CountTyped
      <4>2. replies'[at] = 1
          BY <3>1, <4>1
      <4> QED BY <3>1, <3>3, <4>2 DEF Settled, Waits
    <3>4. CASE UNCHANGED <<replies, open>> /\ f = "failed" /\ kind[loop.req] = "inform"
        BY <2>4, <3>1, <3>2, <3>4 DEF Settled, Waits
    <3>5. CASE /\ UNCHANGED replies /\ f = "sent"
               /\ \E hears : open' = open \cup {[at |-> loop, hears |-> hears]}
      <4>1. \E o \in open' : o.at = loop
        <5>1. PICK hears : open' = open \cup {[at |-> loop, hears |-> hears]}
            BY <3>5
        <5>2. [at |-> loop, hears |-> hears] \in open'
            BY <5>1
        <5>3. [at |-> loop, hears |-> hears].at = loop
            OBVIOUS
        <5> QED BY <5>2, <5>3
      <4>2. Waits(at)'
          BY <2>4, <4>1 DEF Waits
      <4> QED BY <3>1, <3>2, <3>5, <4>2 DEF Settled
    <3> QED BY <2>1, <3>3, <3>4, <3>5 DEF Outcome
  <2> QED BY <2>3, <2>4
<1>5. ASSUME NEW o \in open, SnmpCbFun(o) PROVE Settled(at)'
  <2>1. o.at \in Routed /\ open' = open \ {o} /\ SendRsp(o.at) /\ fates' = fates
      BY <1>5, CallbackOutcome
  <2>2. CASE at # o.at
    <3>1. replies'[at] = replies[at]
        BY <2>1, <2>2, CountTyped
    <3>2. Waits(at)' <=> Waits(at)
        BY <2>1, <2>2 DEF Waits
    <3> QED BY <1>1, <2>1, <3>1, <3>2 DEF Settled
  <2>3. CASE at = o.at
    <3>1. Waits(at)
        BY <2>3 DEF Waits
    <3>2. replies[at] = 0
        BY <1>1, <3>1 DEF Settled
    <3>3. ~Waits(at)'
        BY <2>1, <2>3 DEF WaitedForOnce, Waits
    <3>4. replies'[at] = replies[at] + 1
        BY <2>1, <2>3, CountTyped
    <3>5. replies'[at] = 1
        BY <3>2, <3>4
    <3> QED BY <3>3, <3>5 DEF Settled
  <2> QED BY <2>2, <2>3
<1> QED BY <1>3, <1>4, <1>5 DEF Next

-----------------------------------------------------------------------------
(* The notes of plugins.                                                   *)

LEMMA OwnNotesStep ==
    ASSUME TypeOK, OwnNotes, Next
    PROVE  OwnNotes'
<1>1. ASSUME UNCHANGED reqCtx PROVE OwnNotes'
    BY <1>1 DEF OwnNotes, OwnNote, ChainOf
<1>2. ASSUME NEW req \in Reqs, Receive(req) PROVE OwnNotes'
    BY <1>1, <1>2 DEF Receive
<1>3. ASSUME NEW o \in open, SnmpCbFun(o) PROVE OwnNotes'
    BY <1>1, <1>3 DEF SnmpCbFun
<1>4. ASSUME TryPeer PROVE OwnNotes'
  <2>1. PICK f \in Fates \ {"none"}, n \in 0..Len(ChainOf(loop)) : Outcome(f, n)
      BY <1>4, PassOutcome
  <2>2. loop \in Routed /\ TakeNotes(loop, n)
      BY <1>4, <2>1, LoopFacts DEF Outcome, TryPeer
  <2>3. ASSUME NEW at \in Routed, NEW m \in Modules PROVE OwnNote(at, m, reqCtx'[at][m])
    <3>1. CASE at = loop
      <4>1. reqCtx'[at] = Noted(at, n)
          BY <2>2, <3>1, TakeNotesFacts
      <4>2. OwnNote(at, m, Noted(at, n)[m])
          BY <3>1, NotedFacts
      <4> QED BY <4>1, <4>2
    <3>2. CASE at # loop
      <4>1. reqCtx'[at] = reqCtx[at]
          BY <2>2, <3>2, TakeNotesFacts
      <4> QED BY <4>1 DEF OwnNotes
    <3> QED BY <3>1, <3>2
  <2> QED BY <2>3 DEF OwnNotes, OwnNote, ChainOf
<1> QED BY <1>2, <1>3, <1>4 DEF Next

LEMMA NoticedStep ==
    ASSUME TypeOK, UntriedUntouched, ResponseNoticed, Next
    PROVE  ResponseNoticed'
<1>1. ASSUME UNCHANGED reqCtx, open' \subseteq open PROVE ResponseNoticed'
    BY <1>1 DEF ResponseNoticed, Noticed, Notes
<1>2. ASSUME NEW req \in Reqs, Receive(req) PROVE ResponseNoticed'
    BY <1>1, <1>2 DEF Receive
<1>3. ASSUME NEW o \in open, SnmpCbFun(o) PROVE ResponseNoticed'
    BY <1>1, <1>3 DEF SnmpCbFun
<1>4. ASSUME TryPeer PROVE ResponseNoticed'
  <2>1. PICK f \in Fates \ {"none"}, n \in 0..Len(ChainOf(loop)) : Outcome(f, n)
      BY <1>4, PassOutcome
  <2>2. loop \in Routed /\ TakeNotes(loop, n) /\ ~Waits(loop)
      BY <1>4, <2>1, LoopFacts, LoopUntouched DEF Outcome, TryPeer
  <2>3. ASSUME NEW o \in open PROVE Noticed(o.at, o.hears, reqCtx'[o.at])
    <3>1. o.at \in Routed /\ o.at # loop
        BY <2>2 DEF Waits, TypeOK
    <3>2. reqCtx'[o.at] = reqCtx[o.at]
        BY <2>2, <3>1, TakeNotesFacts
    <3> QED BY <3>2 DEF ResponseNoticed
  <2>4. ASSUME NEW verdict \in {"next", "break"}, verdict = "next" => n = Len(ChainOf(loop))
        PROVE  Noticed(loop, Kept(loop, n, verdict), reqCtx'[loop])
    <3>1. reqCtx'[loop] = Noted(loop, n)
        BY <2>2, TakeNotesFacts
    <3>2. \A i \in DOMAIN Kept(loop, n, verdict) :
              i \in 1..n /\ Kept(loop, n, verdict)[i] = ChainOf(loop)[i]
        BY <2>2, <2>4, KeptFacts
    <3>3. \A i \in 1..n : Notes(loop, moduleOf[ChainOf(loop)[i]])
                            => Noted(loop, n)[moduleOf[ChainOf(loop)[i]]] # NoNote
        BY <2>2, NotedFacts
    <3> QED BY <3>1, <3>2, <3>3 DEF Noticed
  <2>5. open' = open \/ \E verdict \in {"next", "break"} :
            /\ verdict = "next" => n = Len(ChainOf(loop))
            /\ open' = open \cup {[at |-> loop, hears |-> Kept(loop, n, verdict)]}
      BY <2>1 DEF Outcome
  <2>6. \A o \in open' : Noticed(o.at, o.hears, reqCtx'[o.at])
      BY <2>3, <2>4, <2>5
  <2> QED BY <2>6 DEF ResponseNoticed, Noticed, Notes
<1> QED BY <1>2, <1>3, <1>4 DEF Next

LEMMA UnfilteredStep ==
    ASSUME TypeOK, UntriedUntouched, ResponseNoticed, UnfilteredAfterRespondOnly, Next
    PROVE  UnfilteredAfterRespondOnly'
<1>1. ASSUME UNCHANGED <<unnoted, fates>> PROVE UnfilteredAfterRespondOnly'
    BY <1>1 DEF UnfilteredAfterRespondOnly
<1>2. ASSUME NEW req \in Reqs, Receive(req) PROVE UnfilteredAfterRespondOnly'
    BY <1>1, <1>2 DEF Receive, Unroutable, NoPDU
<1>3. ASSUME TryPeer PROVE UnfilteredAfterRespondOnly'
  <2>1. loop # Idle /\ loop \in Routed
      BY <1>3, LoopFacts DEF TryPeer
  <2>2. ASSUME NEW at \in unnoted PROVE fates'[at] = "responded"
    <3>1. at \in Routed /\ fates[at] = "responded"
        BY DEF TypeOK, UnfilteredAfterRespondOnly
    <3>2. at # loop
        BY <2>1, <3>1, LoopUntouched
    <3> QED BY <1>3, <3>1, <3>2, OthersUntouched
  <2>3. CASE UNCHANGED <<heard, unnoted>>
      BY <2>2, <2>3 DEF UnfilteredAfterRespondOnly
  <2>4. ASSUME NEW n \in 0..Len(ChainOf(loop)), RspPDU(loop, ChainOf(loop), Noted(loop, n)),
               fates' = [fates EXCEPT ![loop] = "responded"]
        PROVE  UnfilteredAfterRespondOnly'
    <3>1. unnoted' \subseteq unnoted \cup {loop}
      <4>1. ChainOf(loop) \in Seq(Plugins)
          BY <2>1, RoutedFacts
      <4> QED BY <2>1, <2>4, <4>1, RspFacts
    <3>2. fates'[loop] = "responded"
        BY <2>1, <2>4 DEF TypeOK
    <3> QED BY <2>2, <3>1, <3>2 DEF UnfilteredAfterRespondOnly
  <2> QED BY <1>3, <2>3, <2>4, PassHeard
<1>4. ASSUME NEW o \in open, SnmpCbFun(o) PROVE UnfilteredAfterRespondOnly'
  <2>1. o.at \in Routed /\ o.hears \in Seq(Plugins) /\ fates' = fates
      BY <1>4, CallbackOutcome
  <2>2. CASE UNCHANGED unnoted
      BY <1>1, <2>1, <2>2
  <2>3. CASE RspPDU(o.at, o.hears, reqCtx[CtxOf(o.at)])
    <3>1. Noticed(o.at, o.hears, reqCtx[CtxOf(o.at)])
        BY DEF ResponseNoticed, CtxOf
    <3>2. unnoted' = unnoted
        BY <2>1, <2>3, <3>1, RspFacts
    <3> QED BY <1>1, <2>1, <3>2
  <2> QED BY <1>4, <2>2, <2>3 DEF SnmpCbFun, NoPDU
<1> QED BY <1>2, <1>3, <1>4 DEF Next

OwnRead(r) ==
    LET Others == {i \in DOMAIN ChainOf(r.at) :
                       ChainOf(r.at)[i] # r.by /\ moduleOf[ChainOf(r.at)[i]] = moduleOf[r.by]}
    IN r.note # NoNote => r.note.at = r.at /\ (Others = {} => r.note.by = r.by)

(* Handlers that read notes of the attempt read of the request they hear.  *)
LEMMA ReadsOwn ==
    ASSUME NEW at \in Routed, NEW plugins \in Seq(Plugins), NEW ctx,
           \A m \in Modules : OwnNote(at, m, ctx[m]), RspPDU(at, plugins, ctx)
    PROVE  \A r \in heard' : r \in heard \/ OwnRead(r)
<1> SUFFICES ASSUME NEW r \in heard', r \notin heard PROVE OwnRead(r)
    OBVIOUS
<1>1. r.at = at /\ r.by \in Plugins /\ r.note = ctx[moduleOf[r.by]]
    BY RspFacts
<1>2. moduleOf[r.by] \in Modules
    BY <1>1, ModulesAssumption
<1>3. OwnNote(at, moduleOf[r.by], r.note)
    BY <1>1, <1>2
<1>4. ASSUME r.note # NoNote
      PROVE  \E i \in DOMAIN ChainOf(r.at) :
                 /\ moduleOf[ChainOf(r.at)[i]] = moduleOf[r.by]
                 /\ r.note.by = ChainOf(r.at)[i] /\ r.note.at = r.at
  <2>1. PICK i \in DOMAIN ChainOf(at) :
            /\ moduleOf[ChainOf(at)[i]] = moduleOf[r.by]
            /\ r.note = [by |-> ChainOf(at)[i], at |-> at]
      BY <1>3, <1>4 DEF OwnNote
  <2>2. r.note.by = ChainOf(at)[i] /\ r.note.at = at
      BY <2>1
  <2> QED BY <1>1, <2>1, <2>2
<1> QED BY <1>4 DEF OwnRead

LEMMA HearsStep ==
    ASSUME TypeOK, OwnNotes, HearsOwnRequest, Next
    PROVE  HearsOwnRequest'
<1>1. \A r \in heard : OwnRead(r)
    BY DEF HearsOwnRequest, OwnRead
<1>2. SUFFICES \A r \in heard' : r \in heard \/ OwnRead(r)
    BY <1>1 DEF HearsOwnRequest, OwnRead, ChainOf
<1>3. ASSUME NEW req \in Reqs, Receive(req) PROVE heard' = heard
    BY <1>3 DEF Receive, Unroutable, NoPDU
<1>4. ASSUME TryPeer PROVE \A r \in heard' : r \in heard \/ OwnRead(r)
  <2>1. loop \in Routed
      BY <1>4, LoopFacts DEF TryPeer
  <2>2. ChainOf(loop) \in Seq(Plugins)
      BY <2>1, RoutedFacts
  <2>3. ASSUME NEW n \in 0..Len(ChainOf(loop)), RspPDU(loop, ChainOf(loop), Noted(loop, n))
        PROVE  \A r \in heard' : r \in heard \/ OwnRead(r)
    <3>1. \A m \in Modules : OwnNote(loop, m, Noted(loop, n)[m])
        BY <2>1, NotedFacts
    <3> QED BY <2>1, <2>2, <2>3, <3>1, ReadsOwn
  <2> QED BY <1>4, <2>3, PassHeard
<1>5. ASSUME NEW o \in open, SnmpCbFun(o) PROVE \A r \in heard' : r \in heard \/ OwnRead(r)
  <2>1. o.at \in Routed /\ o.hears \in Seq(Plugins)
      BY <1>5, CallbackOutcome
  <2>2. \A m \in Modules : OwnNote(o.at, m, reqCtx[CtxOf(o.at)][m])
      BY <2>1 DEF OwnNotes, CtxOf
  <2>3. RspPDU(o.at, o.hears, reqCtx[CtxOf(o.at)]) \/ heard' = heard
      BY <1>5 DEF SnmpCbFun, NoPDU
  <2> QED BY <2>1, <2>2, <2>3, ReadsOwn
<1> QED BY <1>3, <1>4, <1>5 DEF Next

-----------------------------------------------------------------------------
(* The invariant, and what follows.                                        *)

LEMMA IInvInit == ASSUME Init PROVE IInv
<1>1. TypeOK
    BY TypeInit
<1>2. TakenOnce
    BY NoReqAssumption DEF Init, TakenOnce, Idle
<1>3. \A at \in Routed : Ahead(at) /\ fates[at] = "none" /\ replies[at] = 0 /\ ~Waits(at)
  <2> SUFFICES ASSUME NEW at \in Routed
               PROVE  Ahead(at) /\ fates[at] = "none" /\ replies[at] = 0 /\ ~Waits(at)
      OBVIOUS
  <2>1. at.req \in Reqs
      BY RoutedFacts
  <2> QED BY <2>1 DEF Init, Ahead, Waits
<1>4. UntriedUntouched /\ PassedOver /\ RepliedOnce
    BY <1>3 DEF UntriedUntouched, PassedOver, RepliedOnce
<1>5. WaitedForOnce /\ ResponseNoticed /\ SentToOwnEndpoints /\ HearsOwnRequest
      /\ UnfilteredAfterRespondOnly
    BY DEF Init, WaitedForOnce, ResponseNoticed, SentToOwnEndpoints, HearsOwnRequest,
           UnfilteredAfterRespondOnly
<1>6. OnlyUnsentLeft
    BY DEF Init, OnlyUnsentLeft
<1>7. OwnNotes
    BY DEF Init, OwnNotes, OwnNote
<1> QED BY <1>1, <1>2, <1>4, <1>5, <1>6, <1>7 DEF IInv

LEMMA IInvStep == ASSUME IInv, Next PROVE IInv'
<1>1. /\ TypeOK /\ OnlyUnsentLeft /\ SentToOwnEndpoints
      /\ TakenOnce /\ UntriedUntouched /\ PassedOver /\ WaitedForOnce /\ RepliedOnce
      /\ OwnNotes /\ HearsOwnRequest /\ ResponseNoticed /\ UnfilteredAfterRespondOnly
    BY DEF IInv
<1>2. TypeOK' /\ OnlyUnsentLeft' /\ SentToOwnEndpoints'
    BY <1>1, TypeStep, LeftStep, SentStep
<1>3. TakenOnce' /\ UntriedUntouched' /\ PassedOver'
    BY <1>1, TakenStep, UntriedStep, PassedOverStep
<1>4. WaitedForOnce' /\ RepliedOnce'
    BY <1>1, WaitedStep, RepliedStep
<1>5. OwnNotes' /\ HearsOwnRequest' /\ ResponseNoticed' /\ UnfilteredAfterRespondOnly'
    BY <1>1, OwnNotesStep, HearsStep, NoticedStep, UnfilteredStep
<1> QED BY <1>2, <1>3, <1>4, <1>5 DEF IInv

LEMMA IInvStutter == ASSUME IInv, UNCHANGED vars PROVE IInv'
<1>1. TypeOK' /\ OnlyUnsentLeft' /\ SentToOwnEndpoints' /\ TakenOnce'
    BY DEF vars, IInv, TypeOK, OnlyUnsentLeft, SentToOwnEndpoints, TakenOnce, PeerOf
<1>2. UntriedUntouched' /\ PassedOver'
    BY DEF vars, IInv, UntriedUntouched, PassedOver, Ahead, Waits
<1>3. WaitedForOnce' /\ RepliedOnce'
    BY DEF vars, IInv, WaitedForOnce, RepliedOnce, Waits
<1>4. OwnNotes' /\ HearsOwnRequest'
    BY DEF vars, IInv, OwnNotes, HearsOwnRequest, OwnNote, ChainOf
<1>5. ResponseNoticed' /\ UnfilteredAfterRespondOnly'
    BY DEF vars, IInv, ResponseNoticed, UnfilteredAfterRespondOnly, Noticed, Notes
<1> QED BY <1>1, <1>2, <1>3, <1>4, <1>5 DEF IInv

(* The parts of the invariant together are inductive.                      *)
THEOREM Inductive == Spec => []IInv
<1>1. Init => IInv
    BY IInvInit
<1>2. IInv /\ [Next]_vars => IInv'
    BY IInvStep, IInvStutter
<1> QED BY <1>1, <1>2, PTL DEF Spec

(* The list of overridden addresses holds the pairs of the attempts that   *)
(* ended before an address was looked up, and nothing else.                *)
THEOREM LeavesOnlyUnsent == Spec => []OnlyUnsentLeft
<1>1. IInv => OnlyUnsentLeft
    BY DEF IInv
<1> QED BY <1>1, Inductive, PTL

(* What other attempts left in the list never gets into a PDU's addresses. *)
THEOREM SendsFromOwnEndpoints == Spec => []SentToOwnEndpoints
<1>1. IInv => SentToOwnEndpoints
    BY DEF IInv
<1> QED BY <1>1, Inductive, PTL

(* Response handlers of plugins read the notes of the request and the peer *)
(* they hear of.                                                           *)
THEOREM ReadsOwnNotes == Spec => []HearsOwnRequest
<1>1. IInv => HearsOwnRequest
    BY DEF IInv
<1> QED BY <1>1, Inductive, PTL

(* Only an answer of another plugin passes a filter that saw no request.   *)
THEOREM FiltersPeerResponses == Spec => []UnfilteredAfterRespondOnly
<1>1. IInv => UnfilteredAfterRespondOnly
    BY DEF IInv
<1> QED BY <1>1, Inductive, PTL

(* Each attempt is replied to at most once; without a reply end failed     *)
(* INFORMs only.                                                           *)
THEOREM RepliesOnce == Spec => []RepliedOnce
<1>1. IInv => RepliedOnce
    BY DEF IInv
<1> QED BY <1>1, Inductive, PTL

(* A peer is passed over only behind a plugin's verdict on another.        *)
THEOREM PassesOverByVerdict == Spec => []SkippedByVerdictOnly
<1>1. IInv => SkippedByVerdictOnly
  <2> SUFFICES ASSUME PassedOver PROVE SkippedByVerdictOnly
      BY DEF IInv
  <2>1. \A at \in Routed : at.req \notin todo /\ loop.req # at.req => ~Ahead(at)
      BY DEF Ahead
  <2> QED BY <2>1 DEF PassedOver, SkippedByVerdictOnly
<1> QED BY <1>1, Inductive, PTL
=============================================================================
