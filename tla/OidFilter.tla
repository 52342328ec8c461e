----------------------------- MODULE OidFilter -----------------------------
(***************************************************************************)
(* The oidfilter plugin: an access list of OID ranges in front of an SNMP  *)
(* agent. A request is rewritten on its way to the agent, the response on  *)
(* its way back, by what the request left in reqCtx; in between, the       *)
(* agent's MIB answers and the plugin may be loaded anew with another list *)
(* (SIGHUP).                                                               *)
(*                                                                         *)
(* Only the order of OIDs matters to the plugin, so an OID is a natural    *)
(* number. The value of a variable-binding is abstracted to what the       *)
(* filter can tell apart; "data" is whatever the agent holds under its OID,*)
(* and in a SET or notification, what the sender gave.                     *)
(* What is in the log, and requests the plugin passes untouched (other PDU *)
(* types), are left out.                                                   *)
(*                                                                         *)
(* An operator marked "mutant" is a plausible bug in the operator defined  *)
(* after it; nothing uses it here.                                         *)
(***************************************************************************)
EXTENDS Integers, Sequences, FiniteSetsExt

CONSTANTS Oids,        \* OIDs, in their order
          Lists,       \* access lists the plugin may be loaded with
          Reloads,     \* access lists of a later configuration
          Mibs,        \* the sets of instances an agent may have
          Requests,    \* SNMP requests of managers
          Walks,       \* the requests a manager may start a MIB walk with
          MayTruncate, \* agents may cut a GETBULK response short
          NoCtx

ASSUME OidsAssumption ==
    /\ Oids \subseteq Nat
    /\ \A instances \in Mibs : instances \subseteq Oids /\ IsFiniteSet(instances)

(* A line of the configuration: the OID to ask GETNEXT for, and the range. *)
Line == [skip : Oids, begin : Oids, end : Oids]

(* The load-time checks, on the lines sorted by their skip OID.            *)
Consistent(list) ==
    /\ \A i \in DOMAIN list : list[i].skip < list[i].begin /\ list[i].begin <= list[i].end
    /\ \A i \in 1..(Len(list) - 1) :
           /\ list[i].skip < list[i + 1].skip
           /\ list[i].begin < list[i + 1].begin
           /\ list[i].end < list[i + 1].end
           /\ list[i].end <= list[i + 1].begin

ASSUME ListsAssumption ==
    /\ Reloads \subseteq Lists
    /\ \A list \in Lists : list \in Seq(Line) /\ Consistent(list)

Kinds == {"get", "set", "getnext", "getbulk", "notification"}

(* The value is that of all variable-bindings.                             *)
Request == [kind : Kinds, oids : Seq(Oids), value : {"data", "null"},
            nonRepeaters : Nat, maxRepetitions : Nat]

ASSUME RequestsAssumption ==
    /\ Requests \subseteq Request /\ Walks \subseteq Request
    /\ \A w \in Walks : w.kind \in {"getnext", "getbulk"} /\ Len(w.oids) = 1

VARIABLES oidsList,  \* the access list
          mib,       \* the instances the agent has
          state,     \* of the request under way
          reqCtx,    \* what processCommandRequest leaves for processCommandResponse
          request,   \* the request as it goes to the agent
          varBinds,  \* the variable-bindings of the response
          walk       \* the request a walking manager sends next, if any

vars == <<oidsList, mib, state, reqCtx, request, varBinds, walk>>

NoWalk == [kind |-> "getnext", oids |-> <<>>, value |-> "null",
           nonRepeaters |-> 0, maxRepetitions |-> 0]

ASSUME NoWalkAssumption == NoWalk \notin Walks

(* "lost": the manager gets no response, by a DROP or by an exception.     *)
Init ==
    /\ oidsList \in Lists
    /\ mib \in Mibs
    /\ state = "idle"
    /\ reqCtx = NoCtx
    /\ request = NoWalk
    /\ varBinds = <<>>
    /\ walk = NoWalk

-----------------------------------------------------------------------------
(* Sets of numbers in their order: the place of a member, and the member   *)
(* at a place. A set of positions of OIDs stands for the list that a loop  *)
(* over the OIDs appends to.                                               *)
Place(S, x) == Cardinality({y \in S : y <= x})
Nth(S, n) == CHOOSE x \in S : Place(S, x) = n

(* The access list.                                                        *)

NoAcl == 0
InRange(oid, i) == oidsList[i].begin <= oid /\ oid <= oidsList[i].end

(* findAcl: bisect_left finds the first range that does not end before the *)
(* OID.                                                                    *)
FoundBefore(oid) ==   \* mutant: the OID's place in the range is not checked
    LET ends == {i \in DOMAIN oidsList : oid <= oidsList[i].end}
    IN [oid |-> oid, acl |-> IF ends # {} THEN Min(ends) ELSE NoAcl]
FindAcl(oid) ==
    LET ends == {i \in DOMAIN oidsList : oid <= oidsList[i].end}
        found == ends # {} /\ InRange(oid, Min(ends))
    IN [oid |-> oid, acl |-> IF found THEN Min(ends) ELSE NoAcl]

(* findAcl(nextOid=True): the first range with something after the OID;    *)
(* before its begin, the skip OID is asked for instead.                    *)
FoundAtEnd(oid) ==     \* mutant: an OID at the end of a range stays in it
    LET ends == {i \in DOMAIN oidsList : oid <= oidsList[i].end}
        i == Min(ends)
    IN IF ends = {} THEN [oid |-> oid, acl |-> NoAcl]
       ELSE [oid |-> IF oid < oidsList[i].begin THEN oidsList[i].skip ELSE oid, acl |-> i]
FindNextAcl(oid) ==
    LET after == {i \in DOMAIN oidsList : oid < oidsList[i].end}
        i == Min(after)
    IN IF after = {} THEN [oid |-> oid, acl |-> NoAcl]
       ELSE [oid |-> IF oid < oidsList[i].begin THEN oidsList[i].skip ELSE oid, acl |-> i]

(* What an OID beyond range i is replaced with: where to go on asking.     *)
OnwardPastEnd(i) ==    \* mutant: just past the last range
    IF i = Len(oidsList) THEN oidsList[i].end + 1 ELSE oidsList[i + 1].skip
Onward(i) == IF i = Len(oidsList) THEN oidsList[i].end ELSE oidsList[i + 1].skip

VarBind(oid, value) == [oid |-> oid, value |-> value]

(* overrideLeakingOid.                                                     *)
OverrideEndOnly(vb, i) ==   \* mutant: what precedes the range is let through
    IF vb.oid <= oidsList[i].end THEN vb
    ELSE VarBind(Onward(i), IF vb.value = "endOfMibView" THEN vb.value ELSE "null")
OverrideLeakingOid(vb, i) ==
    IF InRange(vb.oid, i) THEN vb
    ELSE VarBind(Onward(i), IF vb.value = "endOfMibView" THEN vb.value ELSE "null")

-----------------------------------------------------------------------------
(* processCommandRequest.                                                  *)

ReqOids(r) == [i \in DOMAIN r.oids |->
    IF r.kind \in {"get", "set"} THEN FindAcl(r.oids[i]) ELSE FindNextAcl(r.oids[i])]

OneOid(i) == oidsList[i].begin = oidsList[i].end

(* A repeater that falls into a range of one OID becomes non-repeaters:    *)
(* one for its range, and for as many of the next ranges as are of one OID,*)
(* up to the number of repetitions.                                        *)
Linearized(entry, maxRepetitions) ==
    LET fits == {n \in 0..maxRepetitions :
                    \A k \in entry.acl..(entry.acl + n - 1) :
                        k \in DOMAIN oidsList /\ OneOid(k)}
    IN [n \in 1..Max(fits) |->
           IF n = 1 THEN entry.oid ELSE oidsList[entry.acl + n - 1].skip]

(* The list is in the context only to say which one it was made with.      *)
Ctx(r) ==
    LET reqOids == ReqOids(r)
        allowed == {i \in DOMAIN reqOids : reqOids[i].acl # NoAcl}
        columns == {i \in allowed : r.kind = "getbulk" /\ i > r.nonRepeaters}
        ones == {i \in columns : OneOid(reqOids[i].acl)}
    IN [request |-> r,
        list |-> oidsList,
        reqOids |-> reqOids,
        direct |-> allowed \ columns,
        linearized |-> [i \in ones |-> Linearized(reqOids[i], r.maxRepetitions)],
        repeaters |-> columns \ ones]

(* The OIDs of each part of the request to the agent.                      *)
AsIs(c, S) == [k \in 1..Cardinality(S) |-> c.reqOids[Nth(S, k)].oid]

(* What became non-repeaters: cell <<i, n>> is the n-th for the i-th OID,  *)
(* and cells are sent OID by OID.                                          *)
Cells(c, S) == UNION {{i} \X DOMAIN c.linearized[i] : i \in S}
OneOidCells(c) == Cells(c, DOMAIN c.linearized)

CellsTo(c, cell) ==
    {d \in OneOidCells(c) : d[1] < cell[1] \/ (d[1] = cell[1] /\ d[2] <= cell[2])}
NthCell(c, n) == CHOOSE cell \in OneOidCells(c) : Cardinality(CellsTo(c, cell)) = n

Runs(c) == [k \in 1..Cardinality(OneOidCells(c)) |->
               c.linearized[NthCell(c, k)[1]][NthCell(c, k)[2]]]

(* All values become Null, those of a SET, too.                            *)
Forwarded(c) ==
    [c.request EXCEPT !.oids = AsIs(c, c.direct) \o Runs(c) \o AsIs(c, c.repeaters),
                      !.value = "null",
                      !.nonRepeaters = @ + Len(Runs(c))]

-----------------------------------------------------------------------------
(* processCommandResponse, of a response rsp to the request sent.          *)

(* GET, SET and GETNEXT: what was answered is merged with what was denied. *)
MergeLost(c, rsp) ==
    \/ Cardinality(c.direct) > Len(rsp)
    \/ \E i \in c.direct : c.reqOids[i].acl \notin DOMAIN oidsList

Absent(kind) == IF kind \in {"get", "set"} THEN "noSuchInstance" ELSE "endOfMibView"

MergedUnmoved(c, rsp) ==   \* mutant: the place in the response does not move
    [i \in DOMAIN c.reqOids |->
        IF i \notin c.direct THEN VarBind(c.reqOids[i].oid, Absent(c.request.kind))
        ELSE OverrideLeakingOid(rsp[1], c.reqOids[i].acl)]
Merged(c, rsp) ==
    [i \in DOMAIN c.reqOids |->
        IF i \notin c.direct THEN VarBind(c.reqOids[i].oid, Absent(c.request.kind))
        ELSE OverrideLeakingOid(rsp[Place(c.direct, i)], c.reqOids[i].acl)]

(* GETBULK: the response is taken apart with the non-repeaters of the      *)
(* request that was sent, and put together with those of the original one. *)
FloorDiv(a, b) == IF b > 0 THEN a \div b ELSE (-a) \div (-b)

MaxColumns(sent) == Len(sent.oids) - sent.nonRepeaters

ColumnDepth(sent, rsp) ==
    IF MaxColumns(sent) = 0 THEN 0
    ELSE FloorDiv(Len(rsp) - sent.nonRepeaters, MaxColumns(sent))

MaxColumnDepth(c, sent, rsp) ==
    Max({ColumnDepth(sent, rsp)} \cup {Len(c.linearized[i]) : i \in DOMAIN c.linearized})

(* Where the first row of a column is, in the response.                    *)
Start(c, i) ==
    LET before == {j \in DOMAIN c.linearized : j < i \/ i \in c.repeaters}
    IN 1 + Cardinality(c.direct) + Cardinality(Cells(c, before))
         + Cardinality({j \in c.repeaters : i \in c.repeaters /\ j < i})

NonRepeaters(c) == Min({c.request.nonRepeaters, Len(c.reqOids)})

(* The cells of the table that come from the response: row n of column i.  *)
RepeaterCells(c, sent, rsp) == c.repeaters \X (1..ColumnDepth(sent, rsp))

(* The parts of the response that are used: position, range to obey, and   *)
(* the OID they are used for.                                              *)
NonRepeaterPart(c, i) == <<i, c.reqOids[i].acl, i>>
OneOidPart(c, i, n) == <<Start(c, i) + n - 1, c.reqOids[i].acl + n - 1, i>>
RepeaterPart(c, i, n, sent) ==
    <<Start(c, i) + MaxColumns(sent) * (n - 1), c.reqOids[i].acl, i>>

Used(c, sent, rsp) ==
    {NonRepeaterPart(c, i) : i \in {k \in c.direct : k <= NonRepeaters(c)}}
        \cup {OneOidPart(c, cell[1], cell[2]) : cell \in OneOidCells(c)}
        \cup {RepeaterPart(c, cell[1], cell[2], sent) : cell \in RepeaterCells(c, sent, rsp)}

(* A negative table, a repeater that was denied, a short response, or a    *)
(* range the list no longer has.                                           *)
BulkLost(c, sent, rsp) ==
    \/ ColumnDepth(sent, rsp) < 0
    \/ \E i \in (NonRepeaters(c) + 1)..Len(c.reqOids) :
           i \notin DOMAIN c.linearized /\ i \notin c.repeaters
    \/ \E u \in Used(c, sent, rsp) : u[1] \notin DOMAIN rsp \/ u[2] \notin DOMAIN oidsList

(* Beyond its last row, a column is padded with the OID to go on with.     *)
LastAcl(c, i) ==
    c.reqOids[i].acl + IF i \in DOMAIN c.linearized THEN Len(c.linearized[i]) - 1 ELSE 0

NoRow(c, i, depth) ==
    IF i \in DOMAIN c.linearized THEN c.linearized[i] = <<>> ELSE depth = 0

PaddingTooFar(c, i, depth) ==   \* mutant: goes on one range too far
    VarBind(IF NoRow(c, i, depth) THEN c.reqOids[i].oid
            ELSE Onward(Min({LastAcl(c, i) + 1, Len(oidsList)})), "null")
Padding(c, i, depth) ==
    VarBind(IF NoRow(c, i, depth) THEN c.reqOids[i].oid ELSE Onward(LastAcl(c, i)), "null")

(* Variable-bindings are overridden in place, OID by OID: where several    *)
(* OIDs use the same one, all show what the last made of it.               *)
Overridden(c, sent, rsp, position) ==
    LET used == Used(c, sent, rsp)
        after[i \in 0..Len(c.reqOids)] ==
            IF i = 0 THEN rsp[position]
            ELSE LET here == {u \in used : u[1] = position /\ u[3] = i}
                 IN IF here = {} THEN after[i - 1]
                    ELSE OverrideLeakingOid(after[i - 1], (CHOOSE u \in here : TRUE)[2])
    IN after[Len(c.reqOids)]

NonRepeater(c, k, sent, rsp) ==
    IF k \in c.direct THEN Overridden(c, sent, rsp, NonRepeaterPart(c, k)[1])
    ELSE VarBind(c.reqOids[k].oid, "endOfMibView")

Cell(c, i, n, sent, rsp) ==
    IF <<i, n>> \in OneOidCells(c) THEN Overridden(c, sent, rsp, OneOidPart(c, i, n)[1])
    ELSE IF <<i, n>> \in RepeaterCells(c, sent, rsp)
    THEN Overridden(c, sent, rsp, RepeaterPart(c, i, n, sent)[1])
    ELSE Padding(c, i, ColumnDepth(sent, rsp))

Rearranged(c, sent, rsp) ==
    LET nonRep == NonRepeaters(c)
        columns == Len(c.reqOids) - nonRep
    IN [k \in 1..(nonRep + columns * MaxColumnDepth(c, sent, rsp)) |->
           IF k <= nonRep THEN NonRepeater(c, k, sent, rsp)
           ELSE Cell(c, nonRep + 1 + ((k - nonRep - 1) % columns),
                     1 + (k - nonRep - 1) \div columns, sent, rsp)]

(* The response handler as a whole.                                        *)
Filter(c, sent, rsp) ==
    LET bulk == c.request.kind = "getbulk"
        lost == IF bulk THEN BulkLost(c, sent, rsp) ELSE MergeLost(c, rsp)
    IN /\ state' = IF lost THEN "lost" ELSE "answered"
       /\ varBinds' = IF lost THEN <<>>
                      ELSE IF bulk THEN Rearranged(c, sent, rsp)
                      ELSE Merged(c, rsp)

-----------------------------------------------------------------------------
(* An SNMP agent.                                                          *)

After(oid) == {v \in mib : v > oid}

(* The n-th successor of an OID; at the end of the MIB, the name stays.    *)
Successor(oid, n) ==
    IF Cardinality(After(oid)) >= n
    THEN VarBind(Nth(After(oid), n), "data")
    ELSE VarBind(Max({oid} \cup After(oid)), "endOfMibView")

Bulk(r) ==
    LET nonRep == Min({r.nonRepeaters, Len(r.oids)})
        columns == Len(r.oids) - nonRep
    IN [k \in 1..(nonRep + columns * r.maxRepetitions) |->
           IF k <= nonRep THEN Successor(r.oids[k], 1)
           ELSE Successor(r.oids[nonRep + 1 + ((k - nonRep - 1) % columns)],
                          1 + (k - nonRep - 1) \div columns)]

(* A SET is answered with the variable-bindings it has, done or not.       *)
Responses(r) ==
    CASE r.kind = "getnext" -> {[i \in DOMAIN r.oids |-> Successor(r.oids[i], 1)]}
      [] r.kind = "getbulk" ->
             {SubSeq(Bulk(r), 1, n) :
                 n \in IF MayTruncate THEN 0..Len(Bulk(r)) ELSE {Len(Bulk(r))}}
      [] r.kind = "set" -> {[i \in DOMAIN r.oids |-> VarBind(r.oids[i], r.value)]}
      [] OTHER -> {[i \in DOMAIN r.oids |->
                       VarBind(r.oids[i], IF r.oids[i] \in mib THEN "data"
                                          ELSE "noSuchInstance")]}

-----------------------------------------------------------------------------
(* All OIDs are denied: the plugin's RESPOND. snmpfwd-server hands it to   *)
(* the manager, snmpfwd-client passes it through the response handlers.    *)
Denied(c) == [i \in DOMAIN c.reqOids |->
                 VarBind(c.reqOids[i].oid, Absent(c.request.kind))]

CommandRequest(r) ==
    LET c == Ctx(r)
    IN /\ state = "idle"
       /\ r.kind # "notification"
       /\ IF \A i \in DOMAIN c.reqOids : c.reqOids[i].acl = NoAcl
          THEN /\ request' = r
               /\ \/ state' = "answered" /\ varBinds' = Denied(c)
                  \/ Filter(c, r, Denied(c))
          ELSE /\ request' = Forwarded(c)
               /\ state' = "sent"
               /\ UNCHANGED varBinds
       /\ reqCtx' = c
       /\ UNCHANGED <<oidsList, mib>>

(* processNotificationRequest: denied variable-bindings are left out.      *)
NotificationRequest(r) ==
    LET kept == {i \in DOMAIN r.oids : FindAcl(r.oids[i]).acl # NoAcl}
    IN /\ state = "idle"
       /\ r.kind = "notification"
       /\ request' = [r EXCEPT !.oids = [k \in 1..Cardinality(kept) |-> @[Nth(kept, k)]]]
       /\ state' = IF kept = {} THEN "lost" ELSE "notified"
       /\ UNCHANGED <<oidsList, mib, reqCtx, varBinds>>

AgentResponds ==
    /\ state = "sent"
    /\ state' = "responded"
    /\ varBinds' \in Responses(request)
    /\ UNCHANGED <<oidsList, mib, reqCtx, request, walk>>

CommandResponse ==
    /\ state = "responded"
    /\ Filter(reqCtx, request, varBinds)
    /\ UNCHANGED <<oidsList, mib, reqCtx, request, walk>>

(* SIGHUP: the module is executed anew, while a request may be under way.  *)
Reload(list) ==
    /\ state \in {"idle", "sent", "responded"}
    /\ oidsList \notin Reloads
    /\ oidsList' = list
    /\ UNCHANGED <<mib, state, reqCtx, request, varBinds, walk>>

(* The manager: single requests, or a walk that asks from where the last   *)
(* answer ended, until the end of the MIB view or an answer that never     *)
(* comes.                                                                  *)
Ask(r) == walk = NoWalk /\ (CommandRequest(r) \/ NotificationRequest(r)) /\ UNCHANGED walk

WalkOver == \/ state # "answered"
            \/ varBinds = <<>>
            \/ varBinds[Len(varBinds)].value = "endOfMibView"

StartWalk(w) == walk = NoWalk /\ CommandRequest(w) /\ walk' = w

WalkOn == walk # NoWalk /\ CommandRequest(walk) /\ UNCHANGED walk

Done ==
    /\ state \in {"answered", "lost", "notified"}
    /\ state' = "idle"
    /\ reqCtx' = NoCtx
    /\ request' = NoWalk
    /\ varBinds' = <<>>
    /\ walk' = IF walk = NoWalk \/ WalkOver THEN NoWalk
               ELSE [walk EXCEPT !.oids = <<varBinds[Len(varBinds)].oid>>]
    /\ UNCHANGED <<oidsList, mib>>

Next == \/ \E r \in Requests : Ask(r)
        \/ \E w \in Walks : StartWalk(w)
        \/ WalkOn
        \/ AgentResponds
        \/ CommandResponse
        \/ \E list \in Reloads : Reload(list)
        \/ Done

Spec == Init /\ [][Next]_vars
-----------------------------------------------------------------------------
(* Safety.                                                                 *)

TypeOK ==
    /\ oidsList \in Lists
    /\ mib \in Mibs
    /\ state \in {"idle", "sent", "responded", "answered", "lost", "notified"}
    /\ request \in Request
    /\ varBinds \in Seq([oid : Oids, value : {"data", "null", "noSuchInstance", "endOfMibView"}])
    /\ walk \in Request

Allowed(oid) == \E i \in DOMAIN oidsList : InRange(oid, i)

(* No data of an instance outside the allowed ranges reaches a manager,    *)
(* whichever way variable-bindings were merged, linearized, rearranged or  *)
(* padded, and whatever the agent sent. The ranges are those the plugin    *)
(* has when the response passes it, also after it was loaded anew.         *)
NothingLeaks ==
    state = "answered" =>
        \A k \in DOMAIN varBinds : varBinds[k].value = "data" => Allowed(varBinds[k].oid)

(* "Backend SNMP agent will never get queries for that OID": it is asked   *)
(* (told, in a notification) of allowed OIDs only, and GETNEXT only goes   *)
(* on inside a range, or up to one from its skip OID.                      *)
Visible(list, oid) == \E i \in DOMAIN list : list[i].begin <= oid /\ oid <= list[i].end

OnlyRangesAsked ==
    /\ state = "sent" => \A k \in DOMAIN request.oids :
           IF request.kind \in {"get", "set"}
           THEN Visible(reqCtx.list, request.oids[k])
           ELSE \E i \in DOMAIN reqCtx.list :
                    \/ request.oids[k] = reqCtx.list[i].skip
                    \/ /\ reqCtx.list[i].begin <= request.oids[k]
                       /\ request.oids[k] < reqCtx.list[i].end
    /\ state = "notified" => \A k \in DOMAIN request.oids : Allowed(request.oids[k])

(* A request was answered, with the list its OIDs were matched with.       *)
Answered(kinds) ==
    state = "answered" /\ reqCtx.list = oidsList /\ reqCtx.request.kind \in kinds

(* A GET or SET is answered OID by OID in the order it asked: what is      *)
(* allowed as the agent answers it, a GET with what it has, a SET with the *)
(* Null the plugin puts in place of the manager's value; the rest with     *)
(* noSuchInstance (the documentation speaks of NoSuchObject).              *)
GetIsMerged ==
    Answered({"get", "set"}) =>
        varBinds = [i \in DOMAIN reqCtx.request.oids |->
            LET oid == reqCtx.request.oids[i]
            IN VarBind(oid, IF ~Allowed(oid) THEN "noSuchInstance"
                            ELSE IF reqCtx.request.kind = "set" THEN "null"
                            ELSE IF oid \in mib THEN "data" ELSE "noSuchInstance")]

(* Skip OIDs are as the documentation asks: the agent has nothing between  *)
(* one and its range, and none lies inside the range before.               *)
SkipsFit ==
    \A i \in DOMAIN oidsList :
        /\ \A v \in mib : ~(oidsList[i].skip < v /\ v < oidsList[i].begin)
        /\ i > 1 => oidsList[i - 1].end <= oidsList[i].skip

(* The variable-bindings that answer the i-th OID, row by row.             *)
Rows(i) ==
    LET c == reqCtx
        nonRep == NonRepeaters(c)
        columns == Len(c.reqOids) - nonRep
    IN IF c.request.kind = "getnext" \/ i <= nonRep THEN <<varBinds[i]>>
       ELSE [n \in 1..((Len(varBinds) - nonRep) \div columns) |->
                varBinds[i + columns * (n - 1)]]

(* In a response cut short, a repeater may have fewer rows than a column   *)
(* of one-OID ranges; it is then padded past what its range has left.      *)
RepeatersFill ==
    \/ ~MayTruncate
    \/ \A i \in reqCtx.repeaters, j \in DOMAIN reqCtx.linearized :
           Len(Rows(i)) > Len(reqCtx.linearized[j])

(* Where a non-repeater of a GETBULK was denied, the answers to what comes *)
(* after it are looked up in the wrong place (BulkNonRepeatersAsNext).     *)
NonRepeatersSent ==
    reqCtx.request.kind = "getbulk" => 1..NonRepeaters(reqCtx) \subseteq reqCtx.direct

(* A manager that goes on asking from the last row of an answer misses     *)
(* nothing: every allowed instance up to there is in the answer, and where *)
(* the answer to a GETNEXT says the view ends, nothing allowed is left.    *)
NothingPassedOver ==
    Answered({"getnext", "getbulk"}) /\ SkipsFit /\ RepeatersFill /\ NonRepeatersSent =>
        \A i \in DOMAIN reqCtx.reqOids :
            LET rows == Rows(i)
                last == rows[Len(rows)]
                asked == reqCtx.request.oids[i]
                ends == reqCtx.request.kind = "getnext" /\ last.value = "endOfMibView"
            IN rows # <<>> =>
                   \A v \in mib :
                       Allowed(v) /\ v > asked /\ (v <= last.oid \/ ends)
                           => \E n \in DOMAIN rows : rows[n] = VarBind(v, "data")

(* "The non-repeaters OIDs are treated in exactly the same way as the      *)
(* GETNEXT PDU OIDs": a GETBULK that has only these is answered like a     *)
(* GETNEXT, of which the plugin never loses an answer.                     *)
BulkNonRepeatersAsNext ==
    state \in {"answered", "lost"} /\ reqCtx # NoCtx =>
        LET c == reqCtx
        IN c.request.kind = "getbulk" /\ c.request.nonRepeaters >= Len(c.reqOids)
               /\ c.list = oidsList
           => varBinds = [i \in DOMAIN c.reqOids |->
                  IF c.reqOids[i].acl = NoAcl THEN VarBind(c.reqOids[i].oid, "endOfMibView")
                  ELSE OverrideLeakingOid(Successor(c.reqOids[i].oid, 1), c.reqOids[i].acl)]

-----------------------------------------------------------------------------
(* Liveness.                                                               *)

(* The manager of a walk goes on, agent and plugin answer; nothing is      *)
(* assumed of single requests.                                             *)
WalkStep == walk # NoWalk /\ (WalkOn \/ AgentResponds \/ CommandResponse \/ Done)

FairSpec == Spec /\ WF_vars(WalkStep)

(* A MIB walk ends, wherever it starts, if the skip OIDs fit.              *)
WalkEnds == [](walk # NoWalk => <>(walk = NoWalk \/ ~SkipsFit))
=============================================================================
