-------------------------- MODULE OidFilter_proofs --------------------------
(***************************************************************************)
(* What the oidfilter plugin promises, whatever the access lists, the MIBs *)
(* and the requests:                                                       *)
(*                                                                         *)
(*   NothingEverLeaks     a manager is shown data of allowed instances;    *)
(*   TypeCorrect          no OID or range is made up;                      *)
(*   OnlyRangesAreAsked   the agent is asked inside of ranges only;        *)
(*   GetsAreMerged        GET and SET are answered OID by OID, what is     *)
(*                        denied with noSuchInstance;                      *)
(*   NothingIsPassedOver  a walk misses nothing that is allowed.           *)
(*                                                                         *)
(* They rest on Inv: between request and response, reqCtx is what the      *)
(* request was matched to (CtxOK), the request is what was made of it and  *)
(* the response is the agent's. Nothing leaks because every variable-      *)
(* binding of an answer went through overrideLeakingOid with a range the   *)
(* list has, the last time for an OID of the request, or was made up with  *)
(* a value that is no data. What a loop over OIDs appends to is the image  *)
(* of a set of positions in order; Ranking says that counting finds each   *)
(* position its place, by which the answers in a response are found where  *)
(* their OIDs were in the request, each by one OID only (ReadsOnce).       *)
(***************************************************************************)
EXTENDS OidFilter, FiniteSetTheorems, SequenceTheorems, WellFoundedInduction, TLAPS

-----------------------------------------------------------------------------
(* Places in ordered sets, and induction over numbers.                     *)

(* A finite set in some order, given by what is not after each member:     *)
(* counting these gives every member a place of its own, and every place   *)
(* up to the size of the set a member.                                     *)
LEMMA Ranking ==
    ASSUME NEW S, IsFiniteSet(S), NEW upTo \in [S -> SUBSET S],
           \A x \in S : x \in upTo[x],
           \A x, y \in S : x # y =>
               \/ upTo[x] \subseteq upTo[y] /\ y \notin upTo[x]
               \/ upTo[y] \subseteq upTo[x] /\ x \notin upTo[y]
    PROVE  /\ Cardinality(S) \in Nat
           /\ \A x \in S : Cardinality(upTo[x]) \in 1..Cardinality(S)
           /\ \A x, y \in S : upTo[x] \subseteq upTo[y] /\ x # y =>
                  Cardinality(upTo[x]) < Cardinality(upTo[y])
           /\ \A x, y \in S : Cardinality(upTo[x]) = Cardinality(upTo[y]) => x = y
           /\ \A n \in 1..Cardinality(S) : \E x \in S : Cardinality(upTo[x]) = n
<1> DEFINE size == Cardinality(S)
           rank == [x \in S |-> Cardinality(upTo[x])]
           ranks == {rank[x] : x \in S}
<1>1. size \in Nat
    BY FS_CardinalityType
<1>2. \A x \in S : IsFiniteSet(upTo[x]) /\ Cardinality(upTo[x]) \in Nat /\ Cardinality(upTo[x]) <= size
    BY FS_Subset, FS_CardinalityType
<1>3. \A x \in S : Cardinality(upTo[x]) # 0
    BY <1>2, FS_EmptySet
<1>4. \A x \in S : Cardinality(upTo[x]) \in 1..size
    BY <1>1, <1>2, <1>3
<1>5. ASSUME NEW x \in S, NEW y \in S, upTo[x] \subseteq upTo[y], y \notin upTo[x]
      PROVE  Cardinality(upTo[x]) < Cardinality(upTo[y])
    <2>1. upTo[x] # upTo[y]
        BY <1>5
    <2>2. Cardinality(upTo[x]) <= Cardinality(upTo[y]) /\ Cardinality(upTo[x]) # Cardinality(upTo[y])
        BY <1>2, <1>5, <2>1, FS_Subset
    <2> QED BY <1>2, <2>2
<1>6. \A x, y \in S : upTo[x] \subseteq upTo[y] /\ x # y => Cardinality(upTo[x]) < Cardinality(upTo[y])
    BY <1>5
<1>7. \A x, y \in S : Cardinality(upTo[x]) = Cardinality(upTo[y]) => x = y
    BY <1>2, <1>5
<1>8. rank \in Bijection(S, ranks)
    <2>1. \A x, y \in S : rank[x] = rank[y] => x = y
        BY <1>7
    <2>2. rank \in [S -> ranks] /\ \A t \in ranks : \E x \in S : rank[x] = t
        OBVIOUS
    <2> HIDE DEF rank, ranks
    <2> QED BY <2>1, <2>2 DEF Bijection, Injection, Surjection, IsInjective
<1>9. IsFiniteSet(ranks) /\ Cardinality(ranks) = size
    BY <1>8, FS_Bijection DEF ExistsBijection
<1>10. IsFiniteSet(1..size) /\ Cardinality(1..size) = size
    BY <1>1, FS_Interval
<1>11. ranks \subseteq 1..size
    BY <1>4
<1> HIDE DEF size
<1>12. ranks = 1..size
    BY <1>9, <1>10, <1>11, FS_Subset
<1>13. \A n \in 1..size : \E x \in S : Cardinality(upTo[x]) = n
    BY <1>12
<1> USE DEF size
<1> QED BY <1>1, <1>4, <1>6, <1>7, <1>13

(* Place and Nth are inverse, and keep the order.                          *)
LEMMA Places ==
    ASSUME NEW S \in SUBSET Int, IsFiniteSet(S)
    PROVE  /\ Cardinality(S) \in Nat
           /\ \A x \in S : Place(S, x) \in 1..Cardinality(S) /\ Nth(S, Place(S, x)) = x
           /\ \A n \in 1..Cardinality(S) : Nth(S, n) \in S /\ Place(S, Nth(S, n)) = n
           /\ \A x, y \in S : x < y => Place(S, x) < Place(S, y)
<1> DEFINE upTo == [x \in S |-> {y \in S : y <= x}]
<1>1. upTo \in [S -> SUBSET S]
    OBVIOUS
<1>2. \A x \in S : x \in upTo[x]
    OBVIOUS
<1>3. ASSUME NEW x \in S, NEW y \in S, x < y PROVE upTo[x] \subseteq upTo[y] /\ y \notin upTo[x]
    <2>1. x \in Int /\ y \in Int /\ ~(y <= x)
        BY <1>3
    <2>2. \A z \in S : z <= x => z <= y
        BY <1>3
    <2> QED BY <2>1, <2>2
<1>4. \A x, y \in S : x # y =>
          \/ upTo[x] \subseteq upTo[y] /\ y \notin upTo[x]
          \/ upTo[y] \subseteq upTo[x] /\ x \notin upTo[y]
    BY <1>3
<1>5. \A x \in S : Place(S, x) = Cardinality(upTo[x])
    BY DEF Place
<1> HIDE DEF upTo
<1>6. /\ Cardinality(S) \in Nat
      /\ \A x \in S : Cardinality(upTo[x]) \in 1..Cardinality(S)
      /\ \A x, y \in S : upTo[x] \subseteq upTo[y] /\ x # y =>
             Cardinality(upTo[x]) < Cardinality(upTo[y])
      /\ \A x, y \in S : Cardinality(upTo[x]) = Cardinality(upTo[y]) => x = y
      /\ \A n \in 1..Cardinality(S) : \E x \in S : Cardinality(upTo[x]) = n
    <2> DEFINE T == S
               f == upTo
    <2>1. IsFiniteSet(T) /\ f \in [T -> SUBSET T]
        BY <1>1
    <2>2. \A x \in T : x \in f[x]
        BY <1>2
    <2>3. \A x, y \in T : x # y =>
          \/ f[x] \subseteq f[y] /\ y \notin f[x]
          \/ f[y] \subseteq f[x] /\ x \notin f[y]
        BY <1>4
    <2> HIDE DEF T, f
    <2>4. /\ Cardinality(T) \in Nat
          /\ \A x \in T : Cardinality(f[x]) \in 1..Cardinality(T)
          /\ \A x, y \in T : f[x] \subseteq f[y] /\ x # y => Cardinality(f[x]) < Cardinality(f[y])
          /\ \A x, y \in T : Cardinality(f[x]) = Cardinality(f[y]) => x = y
          /\ \A n \in 1..Cardinality(T) : \E x \in T : Cardinality(f[x]) = n
        BY <2>1, <2>2, <2>3, Ranking
    <2> QED BY <2>4 DEF T, f
<1>7. \A x, y \in S : x < y => Place(S, x) < Place(S, y)
    BY <1>3, <1>5, <1>6
<1>8. /\ \A x \in S : Place(S, x) \in 1..Cardinality(S)
      /\ \A x, y \in S : Place(S, x) = Place(S, y) => x = y
      /\ \A n \in 1..Cardinality(S) : \E x \in S : Place(S, x) = n
    BY <1>5, <1>6
<1>9. \A x \in S : Nth(S, Place(S, x)) = x
    BY <1>8 DEF Nth
<1>10. \A n \in 1..Cardinality(S) : Nth(S, n) \in S /\ Place(S, Nth(S, n)) = n
    BY <1>8 DEF Nth
<1> QED BY <1>6, <1>7, <1>8, <1>9, <1>10

(* A finite set of numbers has a largest and a smallest.                   *)
LEMMA MaxAndMin ==
    ASSUME NEW S \in SUBSET Int, IsFiniteSet(S), S # {}
    PROVE  /\ Max(S) \in S /\ \A y \in S : y <= Max(S)
           /\ Min(S) \in S /\ \A y \in S : Min(S) <= y
<1> DEFINE size == Cardinality(S)
<1>1. size \in Nat /\ size # 0
    BY FS_CardinalityType, FS_EmptySet
<1>2. /\ \A x \in S : Place(S, x) \in 1..size /\ Nth(S, Place(S, x)) = x
      /\ \A n \in 1..size : Nth(S, n) \in S /\ Place(S, Nth(S, n)) = n
      /\ \A x, y \in S : x < y => Place(S, x) < Place(S, y)
    BY Places
<1> HIDE DEF size
<1>3. Nth(S, size) \in S /\ Nth(S, 1) \in S
    BY <1>1, <1>2
<1>4. ASSUME NEW y \in S PROVE y <= Nth(S, size) /\ Nth(S, 1) <= y
    <2>1. Place(S, y) \in 1..size /\ Place(S, Nth(S, size)) = size /\ Place(S, Nth(S, 1)) = 1
        BY <1>1, <1>2
    <2>2. Nth(S, size) \in Int /\ Nth(S, 1) \in Int /\ y \in Int
        BY <1>3
    <2>3. CASE Nth(S, size) < y
        <3>1. Place(S, Nth(S, size)) < Place(S, y)
            BY <1>2, <1>3, <2>3
        <3> QED BY <1>1, <2>1, <3>1
    <2>4. CASE y < Nth(S, 1)
        <3>1. Place(S, y) < Place(S, Nth(S, 1))
            BY <1>2, <1>3, <2>4
        <3> QED BY <1>1, <2>1, <3>1
    <2> QED BY <2>2, <2>3, <2>4
<1>5. Max(S) \in S /\ \A y \in S : Max(S) >= y
    BY <1>3, <1>4 DEF Max
<1>6. Min(S) \in S /\ \A y \in S : Min(S) <= y
    BY <1>3, <1>4 DEF Min
<1> QED BY <1>5, <1>6

-----------------------------------------------------------------------------
(* The access list, and how OIDs are matched with it.                      *)

(* A set of natural numbers has a least one.                               *)
LEMMA Least ==
    ASSUME NEW S \in SUBSET Nat, S # {}
    PROVE  \E x \in S : \A y \in S : x <= y
<1> DEFINE less == OpToRel(<, Nat)
<1>1. IsWellFoundedOn(less, Nat)
    BY NatLessThanWellFounded
<1>2. \A x, y \in Nat : y < x => <<y, x>> \in less
    BY DEF OpToRel
<1> HIDE DEF less
<1>3. PICK x \in S : \A y \in S : ~(<<y, x>> \in less)
    BY <1>1, WFMin
<1>4. \A y \in S : ~(y < x)
    BY <1>2, <1>3
<1> QED BY <1>3, <1>4

(* Induction, with the property as a set of numbers.                       *)
LEMMA SetInduction ==
    ASSUME NEW S, 0 \in S, \A n \in Nat : n \in S => n + 1 \in S
    PROVE  \A n \in Nat : n \in S
<1> SUFFICES ASSUME NEW m \in Nat, m \notin S PROVE FALSE
    OBVIOUS
<1> DEFINE B == Nat \ S
<1>1. PICK x \in B : \A y \in B : x <= y
    BY Least
<1>2. x # 0 /\ x - 1 \in Nat
    BY <1>1
<1>3. x - 1 \in S
    BY <1>1, <1>2
<1> QED BY <1>1, <1>2, <1>3

(* The lines of a list: what the load-time checks say of each.             *)
LEMMA ListLines ==
    ASSUME NEW list \in Lists
    PROVE  /\ Len(list) \in Nat /\ DOMAIN list = 1..Len(list)
           /\ \A i \in 1..Len(list) :
                  /\ list[i] \in Line
                  /\ list[i].skip \in Oids /\ list[i].begin \in Oids /\ list[i].end \in Oids
                  /\ list[i].skip \in Nat /\ list[i].begin \in Nat /\ list[i].end \in Nat
                  /\ list[i].skip < list[i].begin /\ list[i].begin <= list[i].end
<1>1. list \in Seq(Line) /\ Consistent(list)
    BY ListsAssumption
<1>2. Len(list) \in Nat /\ DOMAIN list = 1..Len(list) /\ \A i \in 1..Len(list) : list[i] \in Line
    BY <1>1
<1>3. ASSUME NEW i \in 1..Len(list)
      PROVE  /\ list[i].skip \in Oids /\ list[i].begin \in Oids /\ list[i].end \in Oids
             /\ list[i].skip \in Nat /\ list[i].begin \in Nat /\ list[i].end \in Nat
    BY <1>2, OidsAssumption DEF Line
<1> QED BY <1>1, <1>2, <1>3 DEF Consistent

(* The ranges of a list are in ascending order and touch at most.          *)
LEMMA ListSorted ==
    ASSUME NEW list \in Lists, NEW i \in 1..Len(list), NEW j \in 1..Len(list), i < j
    PROVE  /\ list[i].skip < list[j].skip
           /\ list[i].begin < list[j].begin
           /\ list[i].end < list[j].end
           /\ list[i].end <= list[j].begin
<1> DEFINE Ahead(a, b) == /\ list[a].skip < list[b].skip
                          /\ list[a].begin < list[b].begin
                          /\ list[a].end < list[b].end
                          /\ list[a].end <= list[b].begin
           S == {n \in Nat : i + n + 1 \in 1..Len(list) => Ahead(i, i + n + 1)}
<1>1. \A k \in 1..(Len(list) - 1) : Ahead(k, k + 1)
    BY ListsAssumption DEF Consistent
<1>2. 0 \in S
    BY <1>1, ListLines
<1>3. ASSUME NEW n \in Nat, n \in S PROVE n + 1 \in S
    <2> DEFINE k == i + n + 1
    <2> SUFFICES ASSUME k + 1 \in 1..Len(list) PROVE Ahead(i, k + 1)
        OBVIOUS
    <2>1. k \in 1..Len(list) /\ k \in 1..(Len(list) - 1)
        BY ListLines
    <2>2. Ahead(i, k) /\ Ahead(k, k + 1)
        BY <1>1, <1>3, <2>1
    <2>3. k + 1 \in 1..Len(list)
        OBVIOUS
    <2> HIDE DEF k
    <2> QED BY <2>1, <2>2, <2>3, ListLines
<1> HIDE DEF S
<1>4. j - i - 1 \in S
    <2>1. j - i - 1 \in Nat
        BY ListLines
    <2> QED BY <1>2, <1>3, <2>1, SetInduction
<1>5. i + (j - i - 1) + 1 = j
    BY ListLines
<1> QED BY <1>4, <1>5 DEF S

(* findAcl finds the range an OID is in, if there is one.                  *)
LEMMA FindAclMatches ==
    ASSUME oidsList \in Lists, NEW oid \in Oids
    PROVE  /\ FindAcl(oid).oid = oid
           /\ FindAcl(oid).acl \in 0..Len(oidsList)
           /\ FindAcl(oid).acl # NoAcl => InRange(oid, FindAcl(oid).acl)
           /\ FindAcl(oid).acl = NoAcl => ~Visible(oidsList, oid)
<1> DEFINE ends == {i \in DOMAIN oidsList : oid <= oidsList[i].end}
           m == Min(ends)
           found == ends # {} /\ InRange(oid, m)
<1>1. FindAcl(oid) = [oid |-> oid, acl |-> IF found THEN m ELSE NoAcl]
    BY DEF FindAcl
<1>2. oid \in Nat /\ DOMAIN oidsList = 1..Len(oidsList) /\ Len(oidsList) \in Nat
    BY OidsAssumption, ListLines
<1>3. ends \in SUBSET Int /\ IsFiniteSet(ends)
    <2>1. ends \in SUBSET (1..Len(oidsList)) /\ IsFiniteSet(1..Len(oidsList))
        BY <1>2, FS_Interval
    <2>2. ends \in SUBSET Int
        BY <1>2, <2>1
    <2> DEFINE T == 1..Len(oidsList)
    <2> HIDE DEF ends, T
    <2>3. IsFiniteSet(ends)
        BY <2>1, FS_Subset DEF T
    <2> QED BY <2>2, <2>3
<1>4. ends # {} => m \in ends /\ \A i \in ends : m <= i
    <2> HIDE DEF ends
    <2> QED BY <1>3, MaxAndMin
<1>5. ASSUME Visible(oidsList, oid) PROVE found
    <2>1. PICK j \in DOMAIN oidsList : oidsList[j].begin <= oid /\ oid <= oidsList[j].end
        BY <1>5 DEF Visible
    <2>2. j \in ends /\ m \in ends /\ m <= j
        BY <1>4, <2>1
    <2>3. oidsList[m].begin <= oidsList[j].begin
        <3>1. m \in 1..Len(oidsList) /\ j \in 1..Len(oidsList)
            BY <1>2, <2>2
        <3>2. CASE m = j
            BY <3>1, <3>2, ListLines
        <3>3. CASE m < j
            <4> HIDE DEF m
            <4> QED BY <3>1, <3>3, ListLines, ListSorted
        <3> HIDE DEF m
        <3> QED BY <2>2, <3>1, <3>2, <3>3
    <2>4. oidsList[m].begin \in Nat /\ oidsList[j].begin \in Nat
        BY <1>2, <2>2, ListLines
    <2>5. oidsList[m].begin <= oid
        BY <1>2, <2>1, <2>3, <2>4
    <2> QED BY <2>2, <2>5 DEF InRange
<1>6. found => m \in 1..Len(oidsList)
    BY <1>2, <1>4
<1> HIDE DEF found, m
<1>7. FindAcl(oid).oid = oid /\ FindAcl(oid).acl = IF found THEN m ELSE NoAcl
    BY <1>1
<1>8. found => InRange(oid, m)
    BY DEF found
<1> QED BY <1>2, <1>5, <1>6, <1>7, <1>8 DEF NoAcl

(* findAcl(nextOid=True) finds the first range with something after an OID.*)
LEMMA FindNextAclMatches ==
    ASSUME oidsList \in Lists, NEW oid \in Oids
    PROVE  LET found == FindNextAcl(oid)
               i == found.acl
           IN /\ found.oid \in Oids
              /\ i \in 0..Len(oidsList)
              /\ i # NoAcl =>
                     /\ oid < oidsList[i].end
                     /\ \A j \in DOMAIN oidsList : oid < oidsList[j].end => i <= j
                     /\ found.oid = IF oid < oidsList[i].begin THEN oidsList[i].skip ELSE oid
              /\ i = NoAcl =>
                     found.oid = oid /\ \A j \in DOMAIN oidsList : oidsList[j].end <= oid
<1> DEFINE after == {i \in DOMAIN oidsList : oid < oidsList[i].end}
           m == Min(after)
<1>1. FindNextAcl(oid) =
          IF after = {} THEN [oid |-> oid, acl |-> NoAcl]
          ELSE [oid |-> IF oid < oidsList[m].begin THEN oidsList[m].skip ELSE oid, acl |-> m]
    BY DEF FindNextAcl
<1>2. oid \in Nat /\ DOMAIN oidsList = 1..Len(oidsList) /\ Len(oidsList) \in Nat
    BY OidsAssumption, ListLines
<1>3. after \in SUBSET Int /\ IsFiniteSet(after)
    <2>1. after \in SUBSET (1..Len(oidsList)) /\ IsFiniteSet(1..Len(oidsList))
        BY <1>2, FS_Interval
    <2>2. after \in SUBSET Int
        BY <1>2, <2>1
    <2> DEFINE T == 1..Len(oidsList)
    <2> HIDE DEF after, T
    <2>3. IsFiniteSet(after)
        BY <2>1, FS_Subset DEF T
    <2> QED BY <2>2, <2>3
<1>4. after # {} => m \in after /\ \A i \in after : m <= i
    <2> HIDE DEF after
    <2> QED BY <1>3, MaxAndMin
<1>5. CASE after = {}
    <2>1. \A j \in DOMAIN oidsList : oidsList[j].end <= oid
        BY <1>2, <1>5, ListLines
    <2> QED BY <1>1, <1>2, <1>5, <2>1 DEF NoAcl
<1>6. CASE after # {}
    <2>1. m \in 1..Len(oidsList) /\ oid < oidsList[m].end /\ m # 0
        BY <1>2, <1>4, <1>6
    <2>2. \A j \in DOMAIN oidsList : oid < oidsList[j].end => m <= j
        BY <1>4, <1>6
    <2>3. oidsList[m].skip \in Oids
        BY <2>1, ListLines
    <2> HIDE DEF m, after
    <2>4. FindNextAcl(oid).acl = m /\ FindNextAcl(oid).oid = IF oid < oidsList[m].begin THEN oidsList[m].skip ELSE oid
        BY <1>1, <1>6
    <2> QED BY <1>2, <2>1, <2>2, <2>3, <2>4 DEF NoAcl
<1> QED BY <1>5, <1>6

(* What reqOids says of an OID that was asked for.                         *)
Entry == [oid : Oids, acl : Nat]

MatchedExactly(list, oid, entry) ==
    /\ entry.oid = oid
    /\ entry.acl # NoAcl => list[entry.acl].begin <= oid /\ oid <= list[entry.acl].end
    /\ entry.acl = NoAcl => ~Visible(list, oid)

MatchedNext(list, oid, entry) ==
    /\ entry.acl # NoAcl =>
           /\ oid < list[entry.acl].end
           /\ \A j \in DOMAIN list : oid < list[j].end => entry.acl <= j
           /\ entry.oid = IF oid < list[entry.acl].begin THEN list[entry.acl].skip ELSE oid
    /\ entry.acl = NoAcl => entry.oid = oid /\ \A j \in DOMAIN list : list[j].end <= oid

Matched(c, i) ==
    /\ c.reqOids[i].acl <= Len(c.list)
    /\ IF c.request.kind \in {"get", "set"}
       THEN MatchedExactly(c.list, c.request.oids[i], c.reqOids[i])
       ELSE MatchedNext(c.list, c.request.oids[i], c.reqOids[i])

(* A repeater that became non-repeaters asks for one range of one OID each.*)
LinearizedOverRanges(c, i) ==
    /\ c.linearized[i] \in Seq(Oids)
    /\ Len(c.linearized[i]) <= c.request.maxRepetitions
    /\ \A n \in 1..Len(c.linearized[i]) :
           LET a == c.reqOids[i].acl + n - 1
           IN /\ a \in 1..Len(c.list)
              /\ c.list[a].begin = c.list[a].end
              /\ c.linearized[i][n] = c.list[a].skip

DirectOf(c) ==
    {i \in DOMAIN c.reqOids :
        c.reqOids[i].acl # NoAcl /\ (c.request.kind = "getbulk" => i <= c.request.nonRepeaters)}
ColumnsOf(c) ==
    {i \in DOMAIN c.reqOids :
        c.reqOids[i].acl # NoAcl /\ c.request.kind = "getbulk" /\ i > c.request.nonRepeaters}

(* What a context says of the request it was made for.                     *)
CtxOK(c) ==
    /\ c.request \in Request
    /\ c.request.kind # "notification"
    /\ c.list \in Lists
    /\ c.reqOids \in [1..Len(c.request.oids) -> Entry]
    /\ \A i \in DOMAIN c.reqOids : Matched(c, i)
    /\ c.direct = DirectOf(c)
    /\ DOMAIN c.linearized \cup c.repeaters = ColumnsOf(c)
    /\ DOMAIN c.linearized \cap c.repeaters = {}
    /\ \A i \in DOMAIN c.linearized : LinearizedOverRanges(c, i)

(* The parts of a request.                                                 *)
LEMMA RequestType ==
    ASSUME NEW r \in Request
    PROVE  /\ r.kind \in Kinds /\ r.oids \in Seq(Oids) /\ r.value \in {"data", "null"}
           /\ r.nonRepeaters \in Nat /\ r.maxRepetitions \in Nat
           /\ Len(r.oids) \in Nat /\ DOMAIN r.oids = 1..Len(r.oids)
           /\ \A i \in 1..Len(r.oids) : r.oids[i] \in Oids
BY DEF Request

(* reqOids: every OID of a request is matched, exactly for GET and SET, to *)
(* what comes next otherwise.                                              *)
LEMMA ReqOidsMatch ==
    ASSUME oidsList \in Lists, NEW r \in Request
    PROVE  /\ ReqOids(r) \in [1..Len(r.oids) -> Entry]
           /\ \A i \in 1..Len(r.oids) :
                  /\ ReqOids(r)[i].acl <= Len(oidsList)
                  /\ IF r.kind \in {"get", "set"}
                     THEN MatchedExactly(oidsList, r.oids[i], ReqOids(r)[i])
                     ELSE MatchedNext(oidsList, r.oids[i], ReqOids(r)[i])
<1> DEFINE exact == r.kind \in {"get", "set"}
           entries == ReqOids(r)
<1>1. Len(oidsList) \in Nat
    BY ListLines
<1>2. entries = [i \in 1..Len(r.oids) |-> IF exact THEN FindAcl(r.oids[i]) ELSE FindNextAcl(r.oids[i])]
    BY RequestType DEF ReqOids
<1> HIDE DEF entries
<1>3. ASSUME NEW i \in 1..Len(r.oids)
      PROVE  /\ entries[i] \in Entry
             /\ entries[i].acl <= Len(oidsList)
             /\ IF exact THEN MatchedExactly(oidsList, r.oids[i], entries[i])
                ELSE MatchedNext(oidsList, r.oids[i], entries[i])
    <2> DEFINE oid == r.oids[i]
    <2>1. oid \in Oids
        BY RequestType
    <2>2. entries[i] = IF exact THEN FindAcl(oid) ELSE FindNextAcl(oid)
        BY <1>2
    <2> HIDE DEF oid
    <2>3. CASE exact
        <3> DEFINE e == FindAcl(oid)
        <3>1. e = [oid |-> e.oid, acl |-> e.acl]
            BY DEF FindAcl
        <3>2. /\ e.oid = oid /\ e.acl \in 0..Len(oidsList)
              /\ e.acl # NoAcl => InRange(oid, e.acl)
              /\ e.acl = NoAcl => ~Visible(oidsList, oid)
            BY <2>1, FindAclMatches
        <3>3. entries[i] = e
            BY <2>2, <2>3
        <3> HIDE DEF e
        <3>4. e \in Entry /\ e.acl <= Len(oidsList)
            BY <1>1, <2>1, <3>1, <3>2 DEF Entry
        <3>5. MatchedExactly(oidsList, oid, e)
            BY <3>2 DEF MatchedExactly, InRange
        <3> QED BY <2>3, <3>3, <3>4, <3>5 DEF oid
    <2>4. CASE ~exact
        <3> DEFINE e == FindNextAcl(oid)
        <3>1. e = [oid |-> e.oid, acl |-> e.acl]
            BY DEF FindNextAcl
        <3>2. /\ e.oid \in Oids
              /\ e.acl \in 0..Len(oidsList)
              /\ e.acl # NoAcl =>
                     /\ oid < oidsList[e.acl].end
                     /\ \A j \in DOMAIN oidsList : oid < oidsList[j].end => e.acl <= j
                     /\ e.oid = IF oid < oidsList[e.acl].begin THEN oidsList[e.acl].skip ELSE oid
              /\ e.acl = NoAcl => e.oid = oid /\ \A j \in DOMAIN oidsList : oidsList[j].end <= oid
            BY <2>1, FindNextAclMatches
        <3>3. entries[i] = e
            BY <2>2, <2>4
        <3> HIDE DEF e
        <3>4. e \in Entry /\ e.acl <= Len(oidsList)
            BY <1>1, <3>1, <3>2 DEF Entry
        <3>5. MatchedNext(oidsList, oid, e)
            BY <3>2 DEF MatchedNext
        <3> QED BY <2>4, <3>3, <3>4, <3>5 DEF oid
    <2> QED BY <2>3, <2>4
<1>4. entries \in [1..Len(r.oids) -> Entry]
    BY <1>2, <1>3
<1> QED BY <1>3, <1>4 DEF entries

(* Linearized goes on as long as ranges are of one OID.                    *)
LEMMA LinearizedRuns ==
    ASSUME oidsList \in Lists, NEW entry \in Entry, NEW m \in Nat,
           entry.acl # NoAcl, entry.acl <= Len(oidsList), OneOid(entry.acl),
           entry.oid = oidsList[entry.acl].skip
    PROVE  LET run == Linearized(entry, m)
           IN /\ run \in Seq(Oids)
              /\ Len(run) <= m
              /\ \A n \in 1..Len(run) :
                     LET a == entry.acl + n - 1
                     IN /\ a \in 1..Len(oidsList)
                        /\ oidsList[a].begin = oidsList[a].end
                        /\ run[n] = oidsList[a].skip
<1> DEFINE fits == {n \in 0..m : \A k \in entry.acl..(entry.acl + n - 1) :
                                     k \in DOMAIN oidsList /\ OneOid(k)}
           size == Max(fits)
           run == Linearized(entry, m)
<1>1. entry.acl \in Nat /\ Len(oidsList) \in Nat /\ DOMAIN oidsList = 1..Len(oidsList)
    BY ListLines DEF Entry
<1>2. fits \in SUBSET Int /\ IsFiniteSet(fits)
    <2>1. fits \in SUBSET (0..m) /\ IsFiniteSet(0..m)
        BY FS_Interval
    <2>2. fits \in SUBSET Int
        BY <2>1
    <2> DEFINE T == 0..m
    <2> HIDE DEF fits, T
    <2> QED BY <2>1, <2>2, FS_Subset DEF T
<1>3. 0 \in fits
    BY <1>1
<1>4. size \in fits
    <2> HIDE DEF fits
    <2> QED BY <1>2, <1>3, MaxAndMin
<1>5. size \in Nat /\ size <= m
    BY <1>4
<1>6. run = [n \in 1..size |-> IF n = 1 THEN entry.oid ELSE oidsList[entry.acl + n - 1].skip]
    BY DEF Linearized
<1>7. ASSUME NEW n \in 1..size
      PROVE  LET a == entry.acl + n - 1
             IN /\ a \in 1..Len(oidsList)
                /\ oidsList[a].begin = oidsList[a].end
                /\ run[n] = oidsList[a].skip
    <2> DEFINE a == entry.acl + n - 1
    <2>1. a \in entry.acl..(entry.acl + size - 1)
        <3> HIDE DEF size
        <3> QED BY <1>1, <1>5
    <2>2. a \in DOMAIN oidsList /\ OneOid(a)
        BY <1>4, <2>1
    <2>3. run[n] = oidsList[a].skip
        <3>1. n = 1 => a = entry.acl
            BY <1>1
        <3> HIDE DEF size, run
        <3> QED BY <1>6, <3>1
    <2> QED BY <1>1, <2>2, <2>3 DEF OneOid
<1> HIDE DEF size, run, fits
<1>8. \A n \in 1..size : run[n] \in Oids
    BY <1>7, ListLines
<1>9. run \in Seq(Oids) /\ Len(run) = size
    BY <1>5, <1>6, <1>8, IsASeq
<1> QED BY <1>5, <1>7, <1>9 DEF run

(* processCommandRequest makes such a context.                             *)
LEMMA CtxIsOK ==
    ASSUME oidsList \in Lists, NEW r \in Request, r.kind # "notification"
    PROVE  CtxOK(Ctx(r)) /\ Ctx(r).list = oidsList /\ Ctx(r).request = r
<1> DEFINE c == Ctx(r)
           reqOids == ReqOids(r)
           allowed == {i \in DOMAIN reqOids : reqOids[i].acl # NoAcl}
           columns == {i \in allowed : r.kind = "getbulk" /\ i > r.nonRepeaters}
           ones == {i \in columns : OneOid(reqOids[i].acl)}
           linearized == [i \in ones |-> Linearized(reqOids[i], r.maxRepetitions)]
<1>1. /\ c.request = r /\ c.list = oidsList /\ c.reqOids = reqOids
      /\ c.direct = allowed \ columns
      /\ c.linearized = linearized
      /\ c.repeaters = columns \ ones
    BY DEF Ctx
<1>2. /\ reqOids \in [1..Len(r.oids) -> Entry]
      /\ DOMAIN reqOids = 1..Len(r.oids)
      /\ \A i \in DOMAIN reqOids :
             /\ reqOids[i].acl <= Len(oidsList)
             /\ IF r.kind \in {"get", "set"}
                THEN MatchedExactly(oidsList, r.oids[i], reqOids[i])
                ELSE MatchedNext(oidsList, r.oids[i], reqOids[i])
    BY ReqOidsMatch
<1> HIDE DEF c, reqOids
<1>3. c.direct = DirectOf(c)
    <2>1. Len(r.oids) \in Nat /\ r.nonRepeaters \in Nat
        BY RequestType
    <2> QED BY <1>1, <1>2, <2>1 DEF DirectOf
<1>4. columns = ColumnsOf(c)
    BY <1>1 DEF ColumnsOf
<1>5. DOMAIN c.linearized = ones
    BY <1>1
<1>6. DOMAIN c.linearized \cup c.repeaters = ColumnsOf(c) /\ DOMAIN c.linearized \cap c.repeaters = {}
    BY <1>1, <1>4, <1>5
<1>7. ASSUME NEW i \in DOMAIN c.linearized PROVE LinearizedOverRanges(c, i)
    <2> DEFINE entry == reqOids[i]
               m == r.maxRepetitions
    <2>1. i \in ones /\ i \in DOMAIN reqOids
        BY <1>5
    <2>2. c.linearized[i] = Linearized(entry, m)
        BY <1>1, <2>1
    <2>3. entry \in Entry /\ entry.acl # NoAcl /\ entry.acl <= Len(oidsList) /\ OneOid(entry.acl)
        BY <1>2, <2>1
    <2>4. r.kind = "getbulk" /\ r.oids[i] \in Nat /\ m \in Nat
        BY <1>2, <2>1, RequestType, OidsAssumption
    <2>5. entry.acl \in 1..Len(oidsList)
        BY <2>3, ListLines DEF Entry, NoAcl
    <2>6. MatchedNext(oidsList, r.oids[i], entry)
        BY <1>2, <2>1, <2>4
    <2>7. entry.oid = oidsList[entry.acl].skip
        <3>1. r.oids[i] < oidsList[entry.acl].begin
            BY <2>3, <2>6 DEF MatchedNext, OneOid
        <3> QED BY <2>3, <2>6, <3>1 DEF MatchedNext
    <2> HIDE DEF entry, m
    <2> DEFINE run == Linearized(entry, m)
    <2>8. /\ run \in Seq(Oids)
          /\ Len(run) <= m
          /\ \A n \in 1..Len(run) :
                 LET a == entry.acl + n - 1
                 IN /\ a \in 1..Len(oidsList)
                    /\ oidsList[a].begin = oidsList[a].end
                    /\ run[n] = oidsList[a].skip
        BY <2>3, <2>4, <2>7, LinearizedRuns
    <2> HIDE DEF run
    <2>9. c.linearized[i] = run /\ c.reqOids[i] = entry /\ c.request.maxRepetitions = m
        BY <1>1, <2>2 DEF run, entry, m
    <2> QED BY <1>1, <2>8, <2>9 DEF LinearizedOverRanges
<1>8. c.list \in Lists
    BY <1>1
<1>9. \A i \in DOMAIN c.reqOids : Matched(c, i)
    BY <1>1, <1>2 DEF Matched
<1> QED BY <1>1, <1>2, <1>3, <1>6, <1>7, <1>8, <1>9 DEF CtxOK, c

-----------------------------------------------------------------------------
(* The request to the agent: where each part of a context is in it.        *)

(* The sets of positions a context is made of.                             *)
LEMMA CtxSets ==
    ASSUME NEW c, CtxOK(c)
    PROVE  /\ Len(c.request.oids) \in Nat /\ c.request.nonRepeaters \in Nat
           /\ c.request.maxRepetitions \in Nat
           /\ DOMAIN c.reqOids = 1..Len(c.request.oids)
           /\ Len(c.reqOids) = Len(c.request.oids)
           /\ \A i \in 1..Len(c.request.oids) : c.reqOids[i] \in Entry
           /\ c.direct \in SUBSET (1..Len(c.request.oids))
           /\ DOMAIN c.linearized \in SUBSET (1..Len(c.request.oids))
           /\ c.repeaters \in SUBSET (1..Len(c.request.oids))
           /\ c.direct \in SUBSET Int /\ IsFiniteSet(c.direct)
           /\ c.repeaters \in SUBSET Int /\ IsFiniteSet(c.repeaters)
           /\ DOMAIN c.linearized \in SUBSET Int /\ IsFiniteSet(DOMAIN c.linearized)
<1> DEFINE all == 1..Len(c.request.oids)
<1>1. Len(c.request.oids) \in Nat /\ c.request.nonRepeaters \in Nat /\ c.request.maxRepetitions \in Nat
    BY RequestType DEF CtxOK
<1>2. c.reqOids \in [all -> Entry]
    BY DEF CtxOK
<1>3. DOMAIN c.reqOids = all
    BY <1>2
<1>4. Len(c.reqOids) = Len(c.request.oids)
    BY <1>1, <1>3
<1>5. c.direct \in SUBSET all /\ DOMAIN c.linearized \in SUBSET all /\ c.repeaters \in SUBSET all
    <2>1. c.direct = DirectOf(c) /\ DOMAIN c.linearized \cup c.repeaters = ColumnsOf(c)
        BY DEF CtxOK
    <2>2. DirectOf(c) \in SUBSET all /\ ColumnsOf(c) \in SUBSET all
        BY <1>3 DEF DirectOf, ColumnsOf
    <2> HIDE DEF all
    <2>3. c.direct \in SUBSET all
        BY <2>1, <2>2
    <2>4. DOMAIN c.linearized \in SUBSET all
        BY <2>1, <2>2
    <2>5. c.repeaters \in SUBSET all
        BY <2>1, <2>2
    <2> QED BY <2>3, <2>4, <2>5
<1>6. IsFiniteSet(all) /\ all \in SUBSET Int
    <2> DEFINE n == Len(c.request.oids)
    <2>1. IsFiniteSet(1..n)
        <3>1. n \in Int
            BY <1>1
        <3> HIDE DEF n
        <3> QED BY <3>1, FS_Interval
    <2>2. all \in SUBSET Int
        BY <1>1
    <2> QED BY <2>1, <2>2
<1>7. \A i \in all : c.reqOids[i] \in Entry
    BY <1>2
<1> HIDE DEF all
<1>8. IsFiniteSet(c.direct) /\ IsFiniteSet(DOMAIN c.linearized) /\ IsFiniteSet(c.repeaters)
    BY <1>5, <1>6, FS_Subset
<1>9. c.direct \in SUBSET Int /\ DOMAIN c.linearized \in SUBSET Int /\ c.repeaters \in SUBSET Int
    BY <1>5, <1>6
<1> QED BY <1>1, <1>3, <1>4, <1>5, <1>7, <1>8, <1>9 DEF all

(* The cells of linearized columns.                                        *)
LEMMA CellsFinite ==
    ASSUME NEW c, CtxOK(c)
    PROVE  /\ \A i \in DOMAIN c.linearized :
                  DOMAIN c.linearized[i] = 1..Len(c.linearized[i]) /\ Len(c.linearized[i]) \in Nat
           /\ \A S \in SUBSET DOMAIN c.linearized :
                  /\ Cells(c, S) = {cell \in S \X Nat : cell[2] \in 1..Len(c.linearized[cell[1]])}
                  /\ IsFiniteSet(Cells(c, S)) /\ Cardinality(Cells(c, S)) \in Nat
           /\ OneOidCells(c) = {cell \in (DOMAIN c.linearized) \X Nat :
                                   cell[2] \in 1..Len(c.linearized[cell[1]])}
           /\ IsFiniteSet(OneOidCells(c)) /\ Cardinality(OneOidCells(c)) \in Nat
<1> DEFINE m == c.request.maxRepetitions
           D == DOMAIN c.linearized
<1>1. m \in Nat /\ IsFiniteSet(D)
    BY CtxSets
<1>2. ASSUME NEW i \in D
      PROVE  DOMAIN c.linearized[i] = 1..Len(c.linearized[i]) /\ Len(c.linearized[i]) \in Nat
             /\ Len(c.linearized[i]) <= m
    <2>1. c.linearized[i] \in Seq(Oids) /\ Len(c.linearized[i]) <= m
        BY DEF CtxOK, LinearizedOverRanges
    <2> QED BY <2>1
<1> HIDE DEF m, D
<1>3. ASSUME NEW S \in SUBSET D
      PROVE  Cells(c, S) = {cell \in S \X Nat : cell[2] \in 1..Len(c.linearized[cell[1]])}
    <2> DEFINE L == {cell \in S \X Nat : cell[2] \in 1..Len(c.linearized[cell[1]])}
    <2>1. ASSUME NEW x \in Cells(c, S) PROVE x \in L
        <3>1. PICK i \in S : x \in {i} \X DOMAIN c.linearized[i]
            BY DEF Cells
        <3>2. DOMAIN c.linearized[i] = 1..Len(c.linearized[i]) /\ Len(c.linearized[i]) \in Nat
            BY <1>2
        <3> QED BY <3>1, <3>2
    <2>2. ASSUME NEW x \in L PROVE x \in Cells(c, S)
        <3>1. x \in {x[1]} \X DOMAIN c.linearized[x[1]] /\ x[1] \in S
            BY <1>2
        <3> QED BY <3>1 DEF Cells
    <2> QED BY <2>1, <2>2
<1>4. ASSUME NEW S \in SUBSET D PROVE IsFiniteSet(Cells(c, S)) /\ Cardinality(Cells(c, S)) \in Nat
    <2> DEFINE box == D \X (1..m)
    <2>1. IsFiniteSet(1..m)
        BY <1>1, FS_Interval
    <2>2. IsFiniteSet(box)
        BY <1>1, <2>1, FS_Product
    <2>3. Cells(c, S) \in SUBSET box
        BY <1>1, <1>2, <1>3
    <2> HIDE DEF box
    <2>4. IsFiniteSet(Cells(c, S))
        BY <2>2, <2>3, FS_Subset
    <2> QED BY <2>4, FS_CardinalityType
<1> QED BY <1>2, <1>3, <1>4 DEF OneOidCells, D

(* CellsTo and NthCell are inverse.                                        *)
LEMMA CellPlaces ==
    ASSUME NEW c, CtxOK(c)
    PROVE  /\ \A cell \in OneOidCells(c) :
                  /\ Cardinality(CellsTo(c, cell)) \in 1..Cardinality(OneOidCells(c))
                  /\ NthCell(c, Cardinality(CellsTo(c, cell))) = cell
           /\ \A n \in 1..Cardinality(OneOidCells(c)) :
                  NthCell(c, n) \in OneOidCells(c) /\ Cardinality(CellsTo(c, NthCell(c, n))) = n
<1> DEFINE S == OneOidCells(c)
           f == [cell \in S |-> CellsTo(c, cell)]
           Before(x, y) == x[1] < y[1] \/ (x[1] = y[1] /\ x[2] <= y[2])
<1>1. \A x \in S : x[1] \in Int /\ x[2] \in Int /\ x = <<x[1], x[2]>>
    BY CtxSets, CellsFinite
<1>2. IsFiniteSet(S) /\ f \in [S -> SUBSET S]
    BY CellsFinite DEF CellsTo
<1>3. \A x \in S : f[x] = {y \in S : Before(y, x)}
    BY DEF CellsTo
<1> HIDE DEF S, f
<1>4. \A x \in S : x \in f[x]
    BY <1>1, <1>3
<1>5. ASSUME NEW x \in S, NEW y \in S, x # y
      PROVE  \/ f[x] \subseteq f[y] /\ y \notin f[x]
             \/ f[y] \subseteq f[x] /\ x \notin f[y]
    <2>1. (Before(x, y) /\ ~Before(y, x)) \/ (Before(y, x) /\ ~Before(x, y))
        BY <1>1, <1>5
    <2>2. \A a, b, d \in S : Before(a, b) /\ Before(b, d) => Before(a, d)
        BY <1>1
    <2>3. CASE Before(x, y) /\ ~Before(y, x)
        <3>1. f[x] \subseteq f[y] /\ y \notin f[x]
            BY <1>3, <2>2, <2>3
        <3> QED BY <3>1
    <2>4. CASE Before(y, x) /\ ~Before(x, y)
        <3>1. f[y] \subseteq f[x] /\ x \notin f[y]
            BY <1>3, <2>2, <2>4
        <3> QED BY <3>1
    <2> QED BY <2>1, <2>3, <2>4
<1>6. /\ \A x \in S : Cardinality(f[x]) \in 1..Cardinality(S)
      /\ \A x, y \in S : Cardinality(f[x]) = Cardinality(f[y]) => x = y
      /\ \A n \in 1..Cardinality(S) : \E x \in S : Cardinality(f[x]) = n
    BY <1>2, <1>4, <1>5, Ranking
<1>7. \A x \in S : f[x] = CellsTo(c, x)
    BY DEF f
<1>8. \A n : NthCell(c, n) = CHOOSE cell \in S : Cardinality(CellsTo(c, cell)) = n
    BY DEF NthCell, S
<1>9. /\ \A x \in S : Cardinality(CellsTo(c, x)) \in 1..Cardinality(S)
      /\ \A x, y \in S : Cardinality(CellsTo(c, x)) = Cardinality(CellsTo(c, y)) => x = y
      /\ \A n \in 1..Cardinality(S) : \E x \in S : Cardinality(CellsTo(c, x)) = n
    BY <1>6, <1>7
<1>10. \A x \in S : NthCell(c, Cardinality(CellsTo(c, x))) = x
    BY <1>8, <1>9
<1>11. \A n \in 1..Cardinality(S) : NthCell(c, n) \in S /\ Cardinality(CellsTo(c, NthCell(c, n))) = n
    BY <1>8, <1>9
<1> QED BY <1>9, <1>10, <1>11 DEF S

(* The OIDs that are sent for a set of positions, in the order of these.   *)
LEMMA AsIsSeq ==
    ASSUME NEW c, CtxOK(c), NEW S \in SUBSET (1..Len(c.request.oids))
    PROVE  /\ AsIs(c, S) \in Seq(Oids) /\ Len(AsIs(c, S)) = Cardinality(S) /\ Cardinality(S) \in Nat
           /\ \A i \in S : Place(S, i) \in 1..Cardinality(S) /\ AsIs(c, S)[Place(S, i)] = c.reqOids[i].oid
           /\ \A k \in 1..Cardinality(S) : \E i \in S : AsIs(c, S)[k] = c.reqOids[i].oid
<1>1. S \in SUBSET Int /\ IsFiniteSet(S)
    <2> DEFINE all == 1..Len(c.request.oids)
    <2>1. IsFiniteSet(all) /\ all \in SUBSET Int
        BY CtxSets, FS_Interval
    <2>2. S \in SUBSET all
        OBVIOUS
    <2> HIDE DEF all
    <2>3. IsFiniteSet(S)
        BY <2>1, <2>2, FS_Subset
    <2>4. S \in SUBSET Int
        BY <2>1, <2>2
    <2> QED BY <2>3, <2>4
<1>2. /\ Cardinality(S) \in Nat
      /\ \A x \in S : Place(S, x) \in 1..Cardinality(S) /\ Nth(S, Place(S, x)) = x
      /\ \A n \in 1..Cardinality(S) : Nth(S, n) \in S /\ Place(S, Nth(S, n)) = n
    BY <1>1, Places
<1>3. \A i \in S : c.reqOids[i].oid \in Oids
    BY CtxSets DEF Entry
<1>4. \A k \in 1..Cardinality(S) : AsIs(c, S)[k] = c.reqOids[Nth(S, k)].oid
    BY DEF AsIs
<1>5. AsIs(c, S) \in Seq(Oids) /\ Len(AsIs(c, S)) = Cardinality(S)
    <2> DEFINE size == Cardinality(S)
    <2>1. AsIs(c, S) = [k \in 1..size |-> c.reqOids[Nth(S, k)].oid]
        BY DEF AsIs
    <2>2. size \in Nat /\ \A k \in 1..size : c.reqOids[Nth(S, k)].oid \in Oids
        BY <1>2, <1>3
    <2> HIDE DEF size
    <2>3. AsIs(c, S) \in Seq(Oids) /\ Len(AsIs(c, S)) = size
        BY <2>1, <2>2, IsASeq
    <2> QED BY <2>3 DEF size
<1>6. \A k \in 1..Cardinality(S) : \E i \in S : AsIs(c, S)[k] = c.reqOids[i].oid
    BY <1>2, <1>4
<1>7. \A i \in S : AsIs(c, S)[Place(S, i)] = c.reqOids[i].oid
    BY <1>2, <1>4
<1> QED BY <1>2, <1>5, <1>6, <1>7

(* The OIDs that are sent for linearized columns.                          *)
LEMMA RunsSeq ==
    ASSUME NEW c, CtxOK(c)
    PROVE  /\ Runs(c) \in Seq(Oids) /\ Len(Runs(c)) = Cardinality(OneOidCells(c))
           /\ Cardinality(OneOidCells(c)) \in Nat
           /\ \A cell \in OneOidCells(c) :
                  Runs(c)[Cardinality(CellsTo(c, cell))] = c.linearized[cell[1]][cell[2]]
           /\ \A k \in 1..Cardinality(OneOidCells(c)) :
                  \E cell \in OneOidCells(c) : Runs(c)[k] = c.linearized[cell[1]][cell[2]]
<1> DEFINE size == Cardinality(OneOidCells(c))
<1>1. size \in Nat
    BY CellsFinite
<1>2. Runs(c) = [k \in 1..size |-> c.linearized[NthCell(c, k)[1]][NthCell(c, k)[2]]]
    BY DEF Runs
<1>3. \A cell \in OneOidCells(c) : c.linearized[cell[1]][cell[2]] \in Oids
    <2>1. \A i \in DOMAIN c.linearized : c.linearized[i] \in Seq(Oids)
        BY DEF CtxOK, LinearizedOverRanges
    <2>2. ASSUME NEW cell \in OneOidCells(c)
          PROVE  cell[1] \in DOMAIN c.linearized /\ cell[2] \in 1..Len(c.linearized[cell[1]])
        BY CellsFinite
    <2> QED BY <2>1, <2>2
<1>4. \A k \in 1..size : NthCell(c, k) \in OneOidCells(c)
    BY CellPlaces
<1>5. \A cell \in OneOidCells(c) : Cardinality(CellsTo(c, cell)) \in 1..size
                                    /\ NthCell(c, Cardinality(CellsTo(c, cell))) = cell
    BY CellPlaces
<1> HIDE DEF size
<1>6. Runs(c) \in Seq(Oids) /\ Len(Runs(c)) = size
    BY <1>1, <1>2, <1>3, <1>4, IsASeq
<1>7. \A k \in 1..size : \E cell \in OneOidCells(c) : Runs(c)[k] = c.linearized[cell[1]][cell[2]]
    BY <1>2, <1>4
<1>8. \A cell \in OneOidCells(c) :
          Runs(c)[Cardinality(CellsTo(c, cell))] = c.linearized[cell[1]][cell[2]]
    BY <1>2, <1>5
<1> QED BY <1>1, <1>6, <1>7, <1>8 DEF size

(* Three sequences in a row.                                               *)
LEMMA ThreeParts ==
    ASSUME NEW S, NEW a \in Seq(S), NEW b \in Seq(S), NEW d \in Seq(S)
    PROVE  LET s == a \o b \o d
           IN /\ s \in Seq(S) /\ Len(s) = Len(a) + Len(b) + Len(d)
              /\ \A k \in 1..Len(a) : s[k] = a[k]
              /\ \A k \in 1..Len(b) : s[Len(a) + k] = b[k]
              /\ \A k \in 1..Len(d) : s[Len(a) + Len(b) + k] = d[k]
              /\ \A k \in 1..Len(s) :
                     \/ k \in 1..Len(a)
                     \/ k - Len(a) \in 1..Len(b)
                     \/ k - Len(a) - Len(b) \in 1..Len(d)
<1> DEFINE ab == a \o b
           s == ab \o d
<1>1. /\ ab \in Seq(S) /\ Len(ab) = Len(a) + Len(b)
      /\ \A k \in 1..Len(a) : ab[k] = a[k]
      /\ \A k \in 1..Len(b) : ab[Len(a) + k] = b[k]
    OBVIOUS
<1>2. Len(a) \in Nat /\ Len(b) \in Nat /\ Len(d) \in Nat
    OBVIOUS
<1> HIDE DEF ab
<1>3. /\ s \in Seq(S) /\ Len(s) = Len(ab) + Len(d)
      /\ \A k \in 1..Len(ab) : s[k] = ab[k]
      /\ \A k \in 1..Len(d) : s[Len(ab) + k] = d[k]
    <2>1. ab \in Seq(S) /\ d \in Seq(S)
        BY <1>1
    <2> HIDE <1>1
    <2> QED BY <2>1
<1> HIDE DEF s
<1>4. \A k \in 1..Len(a) : s[k] = a[k]
    BY <1>1, <1>2, <1>3
<1>5. \A k \in 1..Len(b) : s[Len(a) + k] = b[k]
    <2> SUFFICES ASSUME NEW k \in 1..Len(b) PROVE s[Len(a) + k] = b[k]
        OBVIOUS
    <2> DEFINE j == Len(a) + k
    <2>1. j \in 1..Len(ab) /\ ab[j] = b[k]
        BY <1>1, <1>2
    <2> HIDE DEF j
    <2>2. s[j] = b[k]
        BY <1>3, <2>1
    <2> QED BY <2>2 DEF j
<1>6. s \in Seq(S) /\ Len(s) = Len(a) + Len(b) + Len(d)
    BY <1>1, <1>2, <1>3
<1>7. \A k \in 1..Len(d) : s[Len(a) + Len(b) + k] = d[k]
    BY <1>1, <1>3
<1>8. \A k \in 1..Len(s) :
          \/ k \in 1..Len(a)
          \/ k - Len(a) \in 1..Len(b)
          \/ k - Len(a) - Len(b) \in 1..Len(d)
    BY <1>2, <1>6
<1> QED BY <1>4, <1>5, <1>6, <1>7, <1>8 DEF s, ab

(* What goes to the agent, and where each part of it is.                   *)
LEMMA ForwardedParts ==
    ASSUME NEW c, CtxOK(c)
    PROVE  LET sent == Forwarded(c)
               directs == Cardinality(c.direct)
               ones == Cardinality(OneOidCells(c))
           IN /\ sent \in Request
              /\ sent.kind = c.request.kind
              /\ sent.maxRepetitions = c.request.maxRepetitions
              /\ sent.nonRepeaters = c.request.nonRepeaters + ones
              /\ directs \in Nat /\ ones \in Nat /\ Cardinality(c.repeaters) \in Nat
              /\ Len(sent.oids) = directs + ones + Cardinality(c.repeaters)
              /\ \A i \in c.direct :
                     /\ Place(c.direct, i) \in 1..directs
                     /\ sent.oids[Place(c.direct, i)] = c.reqOids[i].oid
              /\ \A cell \in OneOidCells(c) :
                     /\ Cardinality(CellsTo(c, cell)) \in 1..ones
                     /\ sent.oids[directs + Cardinality(CellsTo(c, cell))]
                            = c.linearized[cell[1]][cell[2]]
              /\ \A i \in c.repeaters :
                     /\ Place(c.repeaters, i) \in 1..Cardinality(c.repeaters)
                     /\ sent.oids[directs + ones + Place(c.repeaters, i)] = c.reqOids[i].oid
              /\ \A k \in 1..Len(sent.oids) :
                     \/ \E i \in c.direct \cup c.repeaters : sent.oids[k] = c.reqOids[i].oid
                     \/ \E cell \in OneOidCells(c) : sent.oids[k] = c.linearized[cell[1]][cell[2]]
<1> DEFINE sent == Forwarded(c)
           a == AsIs(c, c.direct)
           b == Runs(c)
           d == AsIs(c, c.repeaters)
           directs == Cardinality(c.direct)
           ones == Cardinality(OneOidCells(c))
           reps == Cardinality(c.repeaters)
           s == a \o b \o d
<1>1. /\ a \in Seq(Oids) /\ Len(a) = directs /\ directs \in Nat
      /\ \A i \in c.direct : Place(c.direct, i) \in 1..directs /\ a[Place(c.direct, i)] = c.reqOids[i].oid
      /\ \A k \in 1..directs : \E i \in c.direct : a[k] = c.reqOids[i].oid
    BY CtxSets, AsIsSeq
<1>2. /\ d \in Seq(Oids) /\ Len(d) = reps /\ reps \in Nat
      /\ \A i \in c.repeaters :
             Place(c.repeaters, i) \in 1..reps /\ d[Place(c.repeaters, i)] = c.reqOids[i].oid
      /\ \A k \in 1..reps : \E i \in c.repeaters : d[k] = c.reqOids[i].oid
    BY CtxSets, AsIsSeq
<1>3. /\ b \in Seq(Oids) /\ Len(b) = ones /\ ones \in Nat
      /\ \A cell \in OneOidCells(c) : b[Cardinality(CellsTo(c, cell))] = c.linearized[cell[1]][cell[2]]
      /\ \A k \in 1..ones : \E cell \in OneOidCells(c) : b[k] = c.linearized[cell[1]][cell[2]]
    BY RunsSeq
<1>4. \A cell \in OneOidCells(c) : Cardinality(CellsTo(c, cell)) \in 1..ones
    BY CellPlaces
<1> HIDE DEF a, b, d, directs, ones, reps
<1>5. /\ s \in Seq(Oids) /\ Len(s) = directs + ones + reps
      /\ \A k \in 1..directs : s[k] = a[k]
      /\ \A k \in 1..ones : s[directs + k] = b[k]
      /\ \A k \in 1..reps : s[directs + ones + k] = d[k]
      /\ \A k \in 1..Len(s) :
             \/ k \in 1..directs
             \/ k - directs \in 1..ones
             \/ k - directs - ones \in 1..reps
    <2>1. a \in Seq(Oids) /\ b \in Seq(Oids) /\ d \in Seq(Oids)
        BY <1>1, <1>2, <1>3
    <2>2. Len(a) = directs /\ Len(b) = ones /\ Len(d) = reps
        BY <1>1, <1>2, <1>3
    <2>3. /\ s \in Seq(Oids) /\ Len(s) = Len(a) + Len(b) + Len(d)
          /\ \A k \in 1..Len(a) : s[k] = a[k]
          /\ \A k \in 1..Len(b) : s[Len(a) + k] = b[k]
          /\ \A k \in 1..Len(d) : s[Len(a) + Len(b) + k] = d[k]
          /\ \A k \in 1..Len(s) :
                 \/ k \in 1..Len(a)
                 \/ k - Len(a) \in 1..Len(b)
                 \/ k - Len(a) - Len(b) \in 1..Len(d)
        <3> HIDE <1>1, <1>2, <1>3
        <3> QED BY <2>1, ThreeParts
    <2> HIDE DEF s
    <2> QED BY <2>2, <2>3
<1> HIDE DEF s
<1>6. sent = [c.request EXCEPT !.oids = s, !.value = "null", !.nonRepeaters = @ + ones]
    BY <1>3 DEF Forwarded, s, a, b, d
<1>7. c.request \in Request
    BY DEF CtxOK
<1>8. /\ sent \in Request
      /\ sent.kind = c.request.kind
      /\ sent.maxRepetitions = c.request.maxRepetitions
      /\ sent.nonRepeaters = c.request.nonRepeaters + ones
      /\ sent.oids = s
    <2> DEFINE r == c.request
    <2>1. /\ r = [kind |-> r.kind, oids |-> r.oids, value |-> r.value,
                 nonRepeaters |-> r.nonRepeaters, maxRepetitions |-> r.maxRepetitions]
          /\ r.kind \in Kinds /\ r.nonRepeaters \in Nat /\ r.maxRepetitions \in Nat
        BY <1>7 DEF Request
    <2>2. s \in Seq(Oids) /\ ones \in Nat
        BY <1>3, <1>5
    <2> HIDE DEF r
    <2>3. sent = [r EXCEPT !.oids = s, !.value = "null", !.nonRepeaters = @ + ones]
        BY <1>6 DEF r
    <2>4. sent = [kind |-> r.kind, oids |-> s, value |-> "null",
                  nonRepeaters |-> r.nonRepeaters + ones, maxRepetitions |-> r.maxRepetitions]
        BY <2>1, <2>3
    <2>5. sent \in Request
        BY <2>1, <2>2, <2>4 DEF Request
    <2> QED BY <2>4, <2>5 DEF r
<1> HIDE DEF sent
<1>9. \A i \in c.direct :
          /\ Place(c.direct, i) \in 1..directs
          /\ s[Place(c.direct, i)] = c.reqOids[i].oid
    BY <1>1, <1>5
<1>10. \A cell \in OneOidCells(c) : s[directs + Cardinality(CellsTo(c, cell))] = c.linearized[cell[1]][cell[2]]
    BY <1>3, <1>4, <1>5
<1>11. \A i \in c.repeaters :
          /\ Place(c.repeaters, i) \in 1..reps
          /\ s[directs + ones + Place(c.repeaters, i)] = c.reqOids[i].oid
    BY <1>2, <1>5
<1>12. ASSUME NEW k \in 1..Len(s)
       PROVE  \/ \E i \in c.direct \cup c.repeaters : s[k] = c.reqOids[i].oid
              \/ \E cell \in OneOidCells(c) : s[k] = c.linearized[cell[1]][cell[2]]
    <2>1. CASE k \in 1..directs
        <3>1. s[k] = a[k]
            BY <1>5, <2>1
        <3>2. \E i \in c.direct : a[k] = c.reqOids[i].oid
            BY <1>1, <2>1
        <3> QED BY <3>1, <3>2
    <2>2. CASE k - directs \in 1..ones
        <3> DEFINE j == k - directs
        <3>1. j \in 1..ones /\ k = directs + j
            BY <1>1, <2>2, <1>5
        <3> HIDE DEF j
        <3> QED BY <1>3, <1>5, <3>1
    <2>3. CASE k - directs - ones \in 1..reps
        <3> DEFINE j == k - directs - ones
        <3>1. j \in 1..reps /\ k = directs + ones + j
            BY <1>1, <1>3, <2>3, <1>5
        <3> HIDE DEF j
        <3>2. s[k] = d[j]
            BY <1>5, <3>1
        <3> QED BY <1>2, <3>1, <3>2
    <2> QED BY <1>5, <2>1, <2>2, <2>3
<1> QED BY <1>1, <1>2, <1>3, <1>4, <1>5, <1>8, <1>9, <1>10, <1>11, <1>12 DEF sent, directs, ones, reps

(* "Backend SNMP agent will never get queries for that OID".               *)
InScope(list, kind, oid) ==
    IF kind \in {"get", "set"} THEN Visible(list, oid)
    ELSE \E i \in DOMAIN list :
             oid = list[i].skip \/ (list[i].begin <= oid /\ oid < list[i].end)

(* The agent is asked for nothing out of scope.                            *)
LEMMA ForwardedInScope ==
    ASSUME NEW c, CtxOK(c), NEW k \in DOMAIN Forwarded(c).oids
    PROVE  InScope(c.list, Forwarded(c).kind, Forwarded(c).oids[k])
<1> DEFINE oid == Forwarded(c).oids[k]
           kind == Forwarded(c).kind
<1>1. /\ kind = c.request.kind
      /\ \/ \E i \in c.direct \cup c.repeaters : oid = c.reqOids[i].oid
         \/ \E cell \in OneOidCells(c) : oid = c.linearized[cell[1]][cell[2]]
    <2>1. Forwarded(c) \in Request
        BY ForwardedParts
    <2>2. k \in 1..Len(Forwarded(c).oids)
        BY <2>1, RequestType
    <2> QED BY <2>2, ForwardedParts
<1>2. Len(c.list) \in Nat /\ DOMAIN c.list = 1..Len(c.list)
    BY ListLines DEF CtxOK
<1> HIDE DEF oid, kind
<1>3. ASSUME NEW i \in c.direct \cup c.repeaters, oid = c.reqOids[i].oid
      PROVE  InScope(c.list, kind, oid)
    <2> DEFINE e == c.reqOids[i]
               asked == c.request.oids[i]
    <2>1. i \in DOMAIN c.reqOids /\ e.acl # NoAcl
        <3>1. i \in DirectOf(c) \/ i \in ColumnsOf(c)
            BY <1>3 DEF CtxOK
        <3> QED BY <3>1 DEF DirectOf, ColumnsOf
    <2>2. Matched(c, i)
        BY <2>1 DEF CtxOK
    <2>3. e \in Entry /\ asked \in Nat
        BY <2>1, CtxSets, RequestType, OidsAssumption DEF CtxOK
    <2>4. e.acl \in 1..Len(c.list)
        BY <2>1, <2>2, <2>3 DEF Matched, Entry, NoAcl
    <2>5. CASE c.request.kind \in {"get", "set"}
        <3>1. MatchedExactly(c.list, asked, e)
            BY <2>2, <2>5 DEF Matched
        <3>2. e.oid = asked /\ c.list[e.acl].begin <= asked /\ asked <= c.list[e.acl].end
            BY <2>1, <3>1 DEF MatchedExactly
        <3>3. Visible(c.list, oid)
            BY <1>2, <1>3, <2>4, <3>2 DEF Visible
        <3> QED BY <1>1, <2>5, <3>3 DEF InScope
    <2>6. CASE c.request.kind \notin {"get", "set"}
        <3>1. MatchedNext(c.list, asked, e)
            BY <2>2, <2>6 DEF Matched
        <3>2. asked < c.list[e.acl].end
              /\ e.oid = IF asked < c.list[e.acl].begin THEN c.list[e.acl].skip ELSE asked
            BY <2>1, <3>1 DEF MatchedNext
        <3>3. c.list[e.acl].begin \in Nat
            BY <2>4, ListLines DEF CtxOK
        <3>4. oid = c.list[e.acl].skip \/ (c.list[e.acl].begin <= oid /\ oid < c.list[e.acl].end)
            BY <1>3, <2>3, <3>2, <3>3
        <3> QED BY <1>1, <1>2, <2>4, <2>6, <3>4 DEF InScope
    <2> QED BY <2>5, <2>6
<1>4. ASSUME NEW cell \in OneOidCells(c), oid = c.linearized[cell[1]][cell[2]]
      PROVE  InScope(c.list, kind, oid)
    <2> DEFINE i == cell[1]
               n == cell[2]
               a == c.reqOids[i].acl + n - 1
    <2>1. i \in DOMAIN c.linearized /\ n \in 1..Len(c.linearized[i])
        BY CellsFinite
    <2>2. a \in 1..Len(c.list) /\ oid = c.list[a].skip
        <3>1. LinearizedOverRanges(c, i)
            BY <2>1 DEF CtxOK
        <3> QED BY <1>4, <2>1, <3>1 DEF LinearizedOverRanges
    <2>3. kind = "getbulk"
        <3>1. i \in ColumnsOf(c)
            BY <2>1 DEF CtxOK
        <3> QED BY <1>1, <3>1 DEF ColumnsOf
    <2> HIDE DEF a
    <2> QED BY <1>2, <2>2, <2>3 DEF InScope
<1> QED BY <1>1, <1>3, <1>4 DEF oid, kind

-----------------------------------------------------------------------------
(* The agent, and the types of what is made of its answers.                *)

VarBinds == [oid : Oids, value : {"data", "null", "noSuchInstance", "endOfMibView"}]

(* A variable-binding is one.                                              *)
LEMMA VarBindType ==
    ASSUME NEW oid \in Oids,
           NEW value \in {"data", "null", "noSuchInstance", "endOfMibView"}
    PROVE  VarBind(oid, value) \in VarBinds
           /\ VarBind(oid, value).oid = oid /\ VarBind(oid, value).value = value
BY DEF VarBind, VarBinds

(* What an agent has after an OID is finite.                               *)
LEMMA MibSets ==
    ASSUME mib \in Mibs, NEW oid \in Oids
    PROVE  /\ oid \in Nat /\ mib \in SUBSET Oids /\ mib \in SUBSET Nat
           /\ After(oid) \in SUBSET Oids /\ After(oid) \in SUBSET Int /\ IsFiniteSet(After(oid))
           /\ Cardinality(After(oid)) \in Nat
<1>1. mib \in SUBSET Oids /\ IsFiniteSet(mib) /\ Oids \in SUBSET Nat
    BY OidsAssumption
<1>2. After(oid) \in SUBSET mib
    BY DEF After
<1>3. IsFiniteSet(After(oid))
    BY <1>1, <1>2, FS_Subset
<1>4. Cardinality(After(oid)) \in Nat
    BY <1>3, FS_CardinalityType
<1>5. After(oid) \in SUBSET Oids
    BY <1>1, <1>2
<1>6. Oids \in SUBSET Int /\ mib \in SUBSET Nat
    BY <1>1
<1>7. After(oid) \in SUBSET Int
    BY <1>5, <1>6
<1> QED BY <1>1, <1>3, <1>4, <1>5, <1>6, <1>7

(* The n-th successor of an OID, and those before it.                      *)
LEMMA SuccessorData ==
    ASSUME mib \in Mibs, NEW oid \in Oids, NEW v \in After(oid)
    PROVE  /\ Place(After(oid), v) \in 1..Cardinality(After(oid))
           /\ Successor(oid, Place(After(oid), v)) = VarBind(v, "data")
<1>1. Place(After(oid), v) \in 1..Cardinality(After(oid)) /\ Nth(After(oid), Place(After(oid), v)) = v
    BY MibSets, Places
<1> QED BY <1>1, MibSets DEF Successor

(* GETNEXT, repeated: the n-th instance after an OID, or the end of the    *)
(* MIB.                                                                    *)
LEMMA SuccessorFacts ==
    ASSUME mib \in Mibs, NEW oid \in Oids, NEW n \in Nat \ {0}
    PROVE  LET s == Successor(oid, n)
           IN /\ s \in VarBinds
              /\ \/ /\ n <= Cardinality(After(oid))
                    /\ s.value = "data" /\ s.oid \in After(oid) /\ Place(After(oid), s.oid) = n
                    /\ s = VarBind(s.oid, "data")
                 \/ /\ n > Cardinality(After(oid))
                    /\ s.value = "endOfMibView"
                    /\ s.oid \in {oid} \cup After(oid)
                    /\ \A v \in After(oid) : v <= s.oid
<1> DEFINE s == Successor(oid, n)
           A == After(oid)
           size == Cardinality(A)
<1>1. oid \in Nat /\ A \in SUBSET Oids /\ A \in SUBSET Int /\ IsFiniteSet(A) /\ size \in Nat
    BY MibSets
<1> HIDE DEF A
<1>2. CASE n <= size
    <2> DEFINE v == Nth(A, n)
    <2>1. n \in 1..size
        BY <1>1, <1>2
    <2>2. v \in A /\ Place(A, v) = n
        BY <1>1, <2>1, Places
    <2>3. s = VarBind(v, "data")
        BY <1>1, <1>2 DEF Successor, A
    <2>4. v \in Oids
        BY <1>1, <2>2
    <2> HIDE DEF v, s
    <2>5. s \in VarBinds /\ s.oid = v /\ s.value = "data"
        BY <2>3, <2>4, VarBindType
    <2> QED BY <1>2, <2>2, <2>3, <2>5 DEF A, s
<1>3. CASE ~(n <= size)
    <2> DEFINE T == {oid} \cup A
               v == Max(T)
    <2>1. IsFiniteSet(A \cup {oid})
        BY <1>1, FS_AddElement
    <2>2. T \in SUBSET Int /\ IsFiniteSet(T) /\ T # {}
        BY <1>1, <2>1
    <2>3. v \in T /\ \A y \in T : y <= v
        <3> HIDE DEF T
        <3> QED BY <2>2, MaxAndMin
    <2>4. s = VarBind(v, "endOfMibView")
        BY <1>1, <1>3 DEF Successor, A
    <2>5. v \in Oids
        BY <1>1, <2>3
    <2>6. \A y \in A : y <= v
        BY <2>3
    <2> HIDE DEF v, s
    <2>7. s \in VarBinds /\ s.oid = v /\ s.value = "endOfMibView"
        BY <2>4, <2>5, VarBindType
    <2> QED BY <1>1, <1>3, <2>3, <2>6, <2>7 DEF A, s
<1> QED BY <1>2, <1>3

(* Rows and columns of a table.                                            *)
LEMMA Table ==
    ASSUME NEW a \in Nat, NEW b \in Nat, NEW m \in Nat, NEW k \in 1..(a + b * m), ~(k <= a)
    PROVE  /\ b > 0
           /\ (k - a - 1) % b \in 0..(b - 1)
           /\ (k - a - 1) \div b \in 0..(m - 1)
           /\ k = a + 1 + ((k - a - 1) % b) + b * ((k - a - 1) \div b)
<1> DEFINE x == k - a - 1
<1>1. b * m \in Nat
    OBVIOUS
<1>2. x \in Nat /\ x < b * m
    <2> DEFINE p == b * m
    <2>1. p \in Nat /\ k \in 1..(a + p)
        BY <1>1
    <2> HIDE DEF p
    <2>2. x \in Nat /\ x < p
        BY <2>1
    <2> QED BY <2>2 DEF p
<1>3. b > 0
    <2>1. CASE b = 0
        <3>1. b * m = 0
            BY <2>1
        <3> QED BY <1>2, <3>1
    <2> QED BY <2>1
<1> HIDE DEF x
<1>4. x % b \in 0..(b - 1) /\ x \div b \in Nat /\ x = b * (x \div b) + (x % b)
    BY <1>2, <1>3
<1>5. x \div b < m
    <2> DEFINE q == x \div b
               w == x % b
    <2> SUFFICES ASSUME ~(q < m) PROVE FALSE
        OBVIOUS
    <2>1. q \in Nat /\ w \in Int /\ w >= 0 /\ x = b * q + w
        BY <1>3, <1>4
    <2> HIDE DEF q, w
    <2>2. m <= q
        BY <2>1
    <2>3. b * m <= b * q
        BY <1>3, <2>1, <2>2
    <2>4. b * m <= x
        BY <1>1, <1>2, <2>1, <2>3
    <2> QED BY <1>1, <1>2, <2>4
<1>6. k = a + 1 + x
    BY DEF x
<1>7. (x % b) \in Int /\ b * (x \div b) \in Int /\ x \in Nat
    BY <1>2, <1>3, <1>4
<1>8. k = a + 1 + (x % b) + b * (x \div b)
    BY <1>4, <1>6, <1>7
<1> QED BY <1>2, <1>3, <1>4, <1>5, <1>8 DEF x

(* The answer of an agent to a GETBULK: non-repeaters, then row by row.    *)
LEMMA BulkFacts ==
    ASSUME mib \in Mibs, NEW r \in Request
    PROVE  LET nonRep == Min({r.nonRepeaters, Len(r.oids)})
               columns == Len(r.oids) - nonRep
           IN /\ nonRep \in Nat /\ nonRep <= r.nonRepeaters /\ nonRep <= Len(r.oids)
              /\ nonRep = r.nonRepeaters \/ nonRep = Len(r.oids)
              /\ columns \in Nat /\ columns * r.maxRepetitions \in Nat
              /\ Bulk(r) \in Seq(VarBinds)
              /\ Len(Bulk(r)) = nonRep + columns * r.maxRepetitions
              /\ \A k \in 1..nonRep : Bulk(r)[k] = Successor(r.oids[k], 1)
              /\ \A k \in 1..Len(Bulk(r)) : ~(k <= nonRep) =>
                     Bulk(r)[k] = Successor(r.oids[nonRep + 1 + ((k - nonRep - 1) % columns)],
                                            1 + (k - nonRep - 1) \div columns)
<1> DEFINE two == {r.nonRepeaters, Len(r.oids)}
           nonRep == Min(two)
           columns == Len(r.oids) - nonRep
           size == nonRep + columns * r.maxRepetitions
           Value(k) == IF k <= nonRep THEN Successor(r.oids[k], 1)
                       ELSE Successor(r.oids[nonRep + 1 + ((k - nonRep - 1) % columns)],
                                      1 + (k - nonRep - 1) \div columns)
<1>1. /\ r.nonRepeaters \in Nat /\ r.maxRepetitions \in Nat /\ Len(r.oids) \in Nat
      /\ \A i \in 1..Len(r.oids) : r.oids[i] \in Oids
    BY RequestType
<1>2. nonRep \in two /\ \A y \in two : nonRep <= y
    <2>1. two \in SUBSET Int /\ two # {}
        BY <1>1
    <2>2. IsFiniteSet(two)
        <3>1. IsFiniteSet({r.nonRepeaters})
            BY FS_Singleton
        <3>2. IsFiniteSet({r.nonRepeaters} \cup {Len(r.oids)})
            BY <3>1, FS_AddElement
        <3>3. two = {r.nonRepeaters} \cup {Len(r.oids)}
            OBVIOUS
        <3> HIDE DEF two
        <3> QED BY <3>2, <3>3
    <2> HIDE DEF two
    <2> QED BY <2>1, <2>2, MaxAndMin
<1>3. /\ nonRep \in Nat /\ nonRep <= r.nonRepeaters /\ nonRep <= Len(r.oids)
      /\ nonRep = r.nonRepeaters \/ nonRep = Len(r.oids)
    BY <1>1, <1>2
<1> HIDE DEF nonRep
<1>4. columns \in Nat
    BY <1>1, <1>3
<1> HIDE DEF columns
<1>5. columns * r.maxRepetitions \in Nat
    BY <1>1, <1>4
<1>6. Bulk(r) = [k \in 1..size |-> Value(k)]
    BY DEF Bulk, nonRep, columns
<1>7. ASSUME NEW k \in 1..size PROVE Value(k) \in VarBinds
    <2>1. CASE k <= nonRep
        <3>1. k \in 1..Len(r.oids)
            BY <1>1, <1>3, <1>5, <2>1
        <3>2. r.oids[k] \in Oids
            BY <1>1, <3>1
        <3>3. Successor(r.oids[k], 1) \in VarBinds
            BY <3>2, SuccessorFacts
        <3> QED BY <2>1, <3>3
    <2>2. CASE ~(k <= nonRep)
        <3> DEFINE row == (k - nonRep - 1) \div columns
                   column == (k - nonRep - 1) % columns
                   i == nonRep + 1 + column
                   m == r.maxRepetitions
        <3>1. columns > 0 /\ column \in 0..(columns - 1) /\ row \in 0..(m - 1)
            <4> HIDE DEF m
            <4>1. m \in Nat /\ k \in 1..(nonRep + columns * m)
                BY <1>1 DEF m
            <4> QED BY <1>3, <1>4, <2>2, <4>1, Table
        <3> HIDE DEF row, column
        <3>2. i \in 1..Len(r.oids) /\ 1 + row \in Nat \ {0}
            BY <1>1, <1>3, <3>1 DEF columns
        <3>3. r.oids[i] \in Oids
            BY <1>1, <3>2
        <3> HIDE DEF i
        <3>4. Successor(r.oids[i], 1 + row) \in VarBinds
            BY <3>2, <3>3, SuccessorFacts
        <3> QED BY <2>2, <3>4 DEF i, row, column
    <2> QED BY <2>1, <2>2
<1> HIDE DEF Value
<1>8. size \in Nat
    BY <1>3, <1>5
<1> HIDE DEF size
<1>9. Bulk(r) \in Seq(VarBinds) /\ Len(Bulk(r)) = size
    BY <1>6, <1>7, <1>8, IsASeq
<1>10. \A k \in 1..size : Bulk(r)[k] = Value(k)
    BY <1>6
<1>11. \A k \in 1..nonRep : k \in 1..size
    BY <1>3, <1>5 DEF size
<1>12. \A k \in 1..nonRep : Bulk(r)[k] = Successor(r.oids[k], 1)
    BY <1>3, <1>10, <1>11 DEF Value
<1>13. \A k \in 1..size : ~(k <= nonRep) =>
           Bulk(r)[k] = Successor(r.oids[nonRep + 1 + ((k - nonRep - 1) % columns)],
                                  1 + (k - nonRep - 1) \div columns)
    BY <1>10 DEF Value
<1> QED BY <1>3, <1>4, <1>5, <1>9, <1>12, <1>13 DEF size, nonRep, columns

(* What an agent answers.                                                  *)
LEMMA ResponsesFacts ==
    ASSUME mib \in Mibs, NEW r \in Request, NEW rsp \in Responses(r)
    PROVE  /\ rsp \in Seq(VarBinds)
           /\ r.kind = "getnext" =>
                  /\ Len(rsp) = Len(r.oids)
                  /\ \A i \in 1..Len(r.oids) : rsp[i] = Successor(r.oids[i], 1)
           /\ r.kind = "getbulk" =>
                  /\ Len(rsp) <= Len(Bulk(r))
                  /\ \A k \in 1..Len(rsp) : rsp[k] = Bulk(r)[k]
                  /\ ~MayTruncate => Len(rsp) = Len(Bulk(r))
           /\ r.kind = "set" =>
                  /\ Len(rsp) = Len(r.oids)
                  /\ \A i \in 1..Len(r.oids) : rsp[i] = VarBind(r.oids[i], r.value)
           /\ r.kind \notin {"getnext", "getbulk", "set"} =>
                  /\ Len(rsp) = Len(r.oids)
                  /\ \A i \in 1..Len(r.oids) :
                         rsp[i] = VarBind(r.oids[i], IF r.oids[i] \in mib THEN "data"
                                                     ELSE "noSuchInstance")
<1>1. /\ DOMAIN r.oids = 1..Len(r.oids) /\ Len(r.oids) \in Nat
      /\ \A i \in 1..Len(r.oids) : r.oids[i] \in Oids
    BY RequestType
<1>2. CASE r.kind = "getnext"
    <2>1. rsp = [i \in 1..Len(r.oids) |-> Successor(r.oids[i], 1)]
        BY <1>1, <1>2 DEF Responses
    <2>2. \A i \in 1..Len(r.oids) : Successor(r.oids[i], 1) \in VarBinds
        BY <1>1, SuccessorFacts
    <2>3. rsp \in Seq(VarBinds) /\ Len(rsp) = Len(r.oids)
        BY <1>1, <2>1, <2>2, IsASeq
    <2> QED BY <1>2, <2>1, <2>3
<1>3. CASE r.kind = "getbulk"
    <2> DEFINE b == Bulk(r)
    <2>1. PICK n \in 0..Len(b) : rsp = SubSeq(b, 1, n) /\ (~MayTruncate => n = Len(b))
        <3>1. rsp \in {SubSeq(b, 1, n) : n \in IF MayTruncate THEN 0..Len(b) ELSE {Len(b)}}
            BY <1>3 DEF Responses
        <3>2. Len(b) \in Nat
            BY BulkFacts
        <3> HIDE DEF b
        <3> QED BY <3>1, <3>2
    <2>2. b \in Seq(VarBinds)
        BY BulkFacts
    <2> HIDE DEF b
    <2>3. Len(b) \in Nat
        BY <2>2
    <2>4. SubSeq(b, 1, n) \in Seq(VarBinds) /\ Len(SubSeq(b, 1, n)) = n
          /\ \A k \in 1..n : SubSeq(b, 1, n)[k] = b[k]
        BY <2>2, <2>3
    <2>5. rsp \in Seq(VarBinds) /\ Len(rsp) = n /\ n <= Len(b) /\ \A k \in 1..n : rsp[k] = b[k]
        BY <2>1, <2>3, <2>4
    <2> QED BY <1>3, <2>1, <2>5 DEF b
<1>4. CASE r.kind = "set"
    <2>1. rsp = [i \in 1..Len(r.oids) |-> VarBind(r.oids[i], r.value)]
        BY <1>1, <1>4 DEF Responses
    <2>2. \A i \in 1..Len(r.oids) : VarBind(r.oids[i], r.value) \in VarBinds
        BY <1>1, RequestType, VarBindType
    <2>3. rsp \in Seq(VarBinds) /\ Len(rsp) = Len(r.oids)
        BY <1>1, <2>1, <2>2, IsASeq
    <2> QED BY <1>4, <2>1, <2>3
<1>5. CASE r.kind \notin {"getnext", "getbulk", "set"}
    <2> DEFINE Reply(i) == VarBind(r.oids[i], IF r.oids[i] \in mib THEN "data" ELSE "noSuchInstance")
    <2>1. rsp = [i \in 1..Len(r.oids) |-> Reply(i)]
        BY <1>1, <1>5 DEF Responses
    <2>2. \A i \in 1..Len(r.oids) : Reply(i) \in VarBinds
        BY <1>1, VarBindType
    <2> HIDE DEF Reply
    <2>3. rsp \in Seq(VarBinds) /\ Len(rsp) = Len(r.oids)
        BY <1>1, <2>1, <2>2, IsASeq
    <2> QED BY <1>5, <2>1, <2>3 DEF Reply
<1> QED BY <1>2, <1>3, <1>4, <1>5

(* Past a range of the list, an OID to go on with is one.                  *)
LEMMA OnwardType ==
    ASSUME oidsList \in Lists, NEW i \in DOMAIN oidsList
    PROVE  Onward(i) \in Oids
<1>1. i \in 1..Len(oidsList) /\ Len(oidsList) \in Nat
    BY ListLines
<1>2. i # Len(oidsList) => i + 1 \in 1..Len(oidsList)
    BY <1>1
<1> QED BY <1>1, <1>2, ListLines DEF Onward

(* overrideLeakingOid with a range of the list.                            *)
LEMMA OverrideType ==
    ASSUME oidsList \in Lists, NEW i \in DOMAIN oidsList, NEW vb \in VarBinds
    PROVE  OverrideLeakingOid(vb, i) \in VarBinds
<1>1. Onward(i) \in Oids
    BY OnwardType
<1> QED BY <1>1, VarBindType DEF OverrideLeakingOid

(* A merged answer has a variable-binding for every OID asked for.         *)
LEMMA MergedType ==
    ASSUME oidsList \in Lists, NEW c, CtxOK(c), NEW rsp \in Seq(VarBinds), ~MergeLost(c, rsp)
    PROVE  /\ Merged(c, rsp) \in Seq(VarBinds)
           /\ Len(Merged(c, rsp)) = Len(c.request.oids)
<1> DEFINE merged == Merged(c, rsp)
           size == Len(c.request.oids)
<1>1. size \in Nat /\ DOMAIN c.reqOids = 1..size /\ \A i \in 1..size : c.reqOids[i].oid \in Oids
    BY CtxSets DEF Entry
<1>2. ASSUME NEW i \in 1..size PROVE merged[i] \in VarBinds
    <2>1. CASE i \in c.direct
        <3> DEFINE p == Place(c.direct, i)
                   a == c.reqOids[i].acl
        <3>1. a \in DOMAIN oidsList
            BY <2>1 DEF MergeLost
        <3>2. p \in 1..Cardinality(c.direct) /\ Cardinality(c.direct) \in Nat
            BY <2>1, CtxSets, Places
        <3>3. Cardinality(c.direct) <= Len(rsp) /\ Len(rsp) \in Nat
            BY <3>2 DEF MergeLost
        <3>4. merged[i] = OverrideLeakingOid(rsp[p], a)
            BY <1>1, <2>1 DEF Merged
        <3> HIDE DEF p, a
        <3>5. rsp[p] \in VarBinds
            BY <3>2, <3>3
        <3> QED BY <3>1, <3>4, <3>5, OverrideType
    <2>2. CASE i \notin c.direct
        <3>1. merged[i] = VarBind(c.reqOids[i].oid, Absent(c.request.kind))
            BY <1>1, <2>2 DEF Merged
        <3>2. Absent(c.request.kind) \in {"data", "null", "noSuchInstance", "endOfMibView"}
            BY DEF Absent
        <3> QED BY <1>1, <3>1, <3>2, VarBindType
    <2> QED BY <2>1, <2>2
<1>3. DOMAIN merged = 1..size /\ merged = [i \in 1..size |-> merged[i]]
    BY <1>1 DEF Merged
<1> HIDE DEF merged, size
<1>4. merged \in Seq(VarBinds) /\ Len(merged) = size
    BY <1>1, <1>2, <1>3, IsASeq
<1> QED BY <1>4 DEF merged, size

(* The non-repeaters of a request are those it has OIDs for.               *)
LEMMA NonRepeatersFacts ==
    ASSUME NEW c, CtxOK(c)
    PROVE  /\ NonRepeaters(c) \in Nat
           /\ NonRepeaters(c) <= c.request.nonRepeaters /\ NonRepeaters(c) <= Len(c.reqOids)
           /\ NonRepeaters(c) = c.request.nonRepeaters \/ NonRepeaters(c) = Len(c.reqOids)
<1> DEFINE two == {c.request.nonRepeaters, Len(c.reqOids)}
<1>1. c.request.nonRepeaters \in Nat /\ Len(c.reqOids) \in Nat
    BY CtxSets
<1>2. two \in SUBSET Int /\ two # {}
    BY <1>1
<1>3. IsFiniteSet(two)
    <2>1. IsFiniteSet({c.request.nonRepeaters})
        BY FS_Singleton
    <2>2. IsFiniteSet({c.request.nonRepeaters} \cup {Len(c.reqOids)})
        BY <2>1, FS_AddElement
    <2>3. two = {c.request.nonRepeaters} \cup {Len(c.reqOids)}
        OBVIOUS
    <2> HIDE DEF two
    <2> QED BY <2>2, <2>3
<1>4. NonRepeaters(c) = Min(two)
    BY DEF NonRepeaters
<1>5. Min(two) \in two /\ \A y \in two : Min(two) <= y
    <2> HIDE DEF two
    <2> QED BY <1>2, <1>3, MaxAndMin
<1> QED BY <1>1, <1>4, <1>5

(* The depth of a GETBULK answer that is not lost.                         *)
LEMMA DepthFacts ==
    ASSUME NEW c, CtxOK(c), NEW sent \in Request, NEW rsp \in Seq(VarBinds),
           ~BulkLost(c, sent, rsp)
    PROVE  LET depth == ColumnDepth(sent, rsp)
               rows == MaxColumnDepth(c, sent, rsp)
           IN /\ depth \in Nat /\ rows \in Nat /\ depth <= rows
              /\ \A i \in DOMAIN c.linearized : Len(c.linearized[i]) <= rows
              /\ rows = depth \/ \E i \in DOMAIN c.linearized : rows = Len(c.linearized[i])
<1> DEFINE depth == ColumnDepth(sent, rsp)
           rows == MaxColumnDepth(c, sent, rsp)
           lens == {Len(c.linearized[i]) : i \in DOMAIN c.linearized}
           all == {depth} \cup lens
           m == c.request.maxRepetitions
<1>1. depth \in Int
    <2> DEFINE a == Len(rsp) - sent.nonRepeaters
               b == MaxColumns(sent)
    <2>1. a \in Int /\ b \in Int
        BY RequestType DEF MaxColumns
    <2>2. depth = IF b = 0 THEN 0 ELSE FloorDiv(a, b)
        BY DEF ColumnDepth
    <2> HIDE DEF a, b
    <2>3. b > 0 => FloorDiv(a, b) \in Int
        BY <2>1 DEF FloorDiv
    <2>4. b < 0 => FloorDiv(a, b) \in Int
        <3> SUFFICES ASSUME b < 0 PROVE (-a) \div (-b) \in Int
            BY <2>1 DEF FloorDiv
        <3> DEFINE x == -a
                   y == -b
        <3>1. x \in Int /\ y \in Nat /\ y > 0
            BY <2>1
        <3> HIDE DEF x, y
        <3>2. x \div y \in Int
            BY <3>1
        <3> QED BY <3>2 DEF x, y
    <2> QED BY <2>1, <2>2, <2>3, <2>4
<1>2. depth >= 0
    BY <1>1 DEF BulkLost
<1>3. m \in Nat /\ \A i \in DOMAIN c.linearized : Len(c.linearized[i]) \in 0..m
    <2>1. m \in Nat
        BY CtxSets
    <2>2. \A i \in DOMAIN c.linearized : Len(c.linearized[i]) \in Nat /\ Len(c.linearized[i]) <= m
        BY CellsFinite DEF CtxOK, LinearizedOverRanges
    <2> QED BY <2>1, <2>2
<1>4. IsFiniteSet(all)
    <2>1. IsFiniteSet(0..m)
        BY <1>3, FS_Interval
    <2>2. lens \in SUBSET (0..m)
        BY <1>3
    <2> DEFINE T == 0..m
    <2> HIDE DEF T, lens
    <2>3. IsFiniteSet(lens)
        BY <2>1, <2>2, FS_Subset DEF T
    <2>4. IsFiniteSet(lens \cup {depth})
        BY <2>3, FS_AddElement
    <2>5. all = lens \cup {depth}
        OBVIOUS
    <2> QED BY <2>4, <2>5
<1>5. rows = Max(all)
    BY DEF MaxColumnDepth
<1>6. all \in SUBSET Int /\ all # {}
    BY <1>1, <1>3
<1>7. rows \in all /\ \A y \in all : y <= rows
    <2> HIDE DEF all, rows
    <2> QED BY <1>4, <1>5, <1>6, MaxAndMin
<1> HIDE DEF depth, rows
<1>8. depth <= rows /\ \A i \in DOMAIN c.linearized : Len(c.linearized[i]) <= rows
    BY <1>7
<1>9. rows = depth \/ \E i \in DOMAIN c.linearized : rows = Len(c.linearized[i])
    BY <1>7
<1>10. depth \in Nat /\ rows \in Nat
    BY <1>1, <1>2, <1>3, <1>9
<1> QED BY <1>8, <1>9, <1>10 DEF depth, rows

(* Variable-bindings are overridden in place: one pass for every OID that  *)
(* uses the one at a position.                                             *)
Pass(used, position, i, vb) ==
    LET here == {u \in used : u[1] = position /\ u[3] = i}
    IN IF here = {} THEN vb ELSE OverrideLeakingOid(vb, (CHOOSE u \in here : TRUE)[2])

Passes(after, n, used, position, vb) ==
    after = [i \in 0..n |-> IF i = 0 THEN vb ELSE Pass(used, position, i, after[i - 1])]

(* What is left after every OID is well-defined.                           *)
LEMMA PassesExist ==
    ASSUME NEW used, NEW position, NEW vb
    PROVE  \A n \in Nat : \E after : Passes(after, n, used, position, vb)
<1> DEFINE S == {n \in Nat : \E after : Passes(after, n, used, position, vb)}
<1>1. 0 \in S
    <2> DEFINE f == [i \in 0..0 |-> vb]
    <2>1. f = [i \in 0..0 |-> IF i = 0 THEN vb ELSE Pass(used, position, i, f[i - 1])]
        OBVIOUS
    <2> HIDE DEF f
    <2>2. Passes(f, 0, used, position, vb)
        BY <2>1 DEF Passes
    <2> QED BY <2>2
<1>2. ASSUME NEW n \in Nat, n \in S PROVE n + 1 \in S
    <2>1. PICK f : Passes(f, n, used, position, vb)
        BY <1>2
    <2> DEFINE last == Pass(used, position, n + 1, f[n])
               g == [i \in 0..(n + 1) |-> IF i <= n THEN f[i] ELSE last]
    <2>2. ASSUME NEW i \in 0..(n + 1)
          PROVE  g[i] = IF i = 0 THEN vb ELSE Pass(used, position, i, g[i - 1])
        <3>1. CASE i = 0
            <4>1. g[i] = f[0] /\ f[0] = vb
                BY <2>1, <3>1 DEF Passes
            <4> QED BY <3>1, <4>1
        <3>2. CASE i \in 1..n
            <4>1. g[i] = f[i] /\ g[i - 1] = f[i - 1] /\ i # 0 /\ i \in 0..n
                BY <3>2
            <4>2. f[i] = Pass(used, position, i, f[i - 1])
                BY <2>1, <4>1 DEF Passes
            <4> HIDE DEF g
            <4> QED BY <4>1, <4>2
        <3>3. CASE i = n + 1
            <4>1. g[i] = last /\ g[i - 1] = f[n] /\ i # 0
                BY <3>3
            <4> HIDE DEF g
            <4> QED BY <3>3, <4>1
        <3> QED BY <3>1, <3>2, <3>3
    <2>3. g = [i \in 0..(n + 1) |-> g[i]]
        OBVIOUS
    <2> HIDE DEF g
    <2>4. Passes(g, n + 1, used, position, vb)
        BY <2>2, <2>3 DEF Passes
    <2> QED BY <2>4
<1> HIDE DEF S
<1>3. \A n \in Nat : n \in S
    BY <1>1, <1>2, SetInduction
<1> QED BY <1>3 DEF S

(* The parts used are for OIDs of the request.                             *)
LEMMA UsedFor ==
    ASSUME NEW c, CtxOK(c), NEW sent, NEW rsp, NEW u \in Used(c, sent, rsp)
    PROVE  u[3] \in 1..Len(c.reqOids) /\ Len(c.reqOids) \in Nat
<1>1. /\ Len(c.reqOids) = Len(c.request.oids) /\ Len(c.reqOids) \in Nat
      /\ c.direct \in SUBSET (1..Len(c.request.oids))
      /\ DOMAIN c.linearized \in SUBSET (1..Len(c.request.oids))
      /\ c.repeaters \in SUBSET (1..Len(c.request.oids))
    BY CtxSets
<1>2. CASE \E i \in c.direct : u = NonRepeaterPart(c, i)
    BY <1>1, <1>2 DEF NonRepeaterPart
<1>3. CASE \E cell \in OneOidCells(c) : u = OneOidPart(c, cell[1], cell[2])
    <2>1. \A cell \in OneOidCells(c) : cell[1] \in DOMAIN c.linearized
        BY CellsFinite
    <2> QED BY <1>1, <1>3, <2>1 DEF OneOidPart
<1>4. CASE \E cell \in RepeaterCells(c, sent, rsp) : u = RepeaterPart(c, cell[1], cell[2], sent)
    <2>1. \A cell \in RepeaterCells(c, sent, rsp) : cell[1] \in c.repeaters
        BY DEF RepeaterCells
    <2> QED BY <1>1, <1>4, <2>1 DEF RepeaterPart
<1> QED BY <1>2, <1>3, <1>4 DEF Used

(* What Overridden returns is what is left after every OID.                *)
LEMMA OverriddenIs ==
    ASSUME NEW c, CtxOK(c), NEW sent, NEW rsp, NEW position
    PROVE  \E after :
               /\ Overridden(c, sent, rsp, position) = after[Len(c.reqOids)]
               /\ after[0] = rsp[position]
               /\ \A i \in 1..Len(c.reqOids) :
                      after[i] = Pass(Used(c, sent, rsp), position, i, after[i - 1])
<1> DEFINE size == Len(c.reqOids)
           used == Used(c, sent, rsp)
           vb == rsp[position]
           IsAfter(f) == f = [i \in 0..size |->
                                 IF i = 0 THEN vb
                                 ELSE LET here == {u \in used : u[1] = position /\ u[3] = i}
                                      IN IF here = {} THEN f[i - 1]
                                         ELSE OverrideLeakingOid(f[i - 1], (CHOOSE u \in here : TRUE)[2])]
           after == CHOOSE f : IsAfter(f)
<1>1. Overridden(c, sent, rsp, position) = after[size]
    BY DEF Overridden
<1>2. size \in Nat
    BY CtxSets
<1> HIDE DEF size, used, vb
<1>3. \A f : IsAfter(f) <=> Passes(f, size, used, position, vb)
    BY DEF Passes, Pass
<1>4. \E f : Passes(f, size, used, position, vb)
    BY <1>2, PassesExist
<1>5. IsAfter(after)
    <2> HIDE DEF IsAfter
    <2> QED BY <1>3, <1>4
<1> HIDE DEF after, IsAfter
<1>6. Passes(after, size, used, position, vb)
    BY <1>3, <1>5
<1>7. after[0] = vb /\ \A i \in 1..size : after[i] = Pass(used, position, i, after[i - 1])
    BY <1>2, <1>6 DEF Passes
<1> QED BY <1>1, <1>7 DEF size, used, vb

(* A pass without effect, and one that overrides.                          *)
LEMMA OnePass ==
    ASSUME NEW used, NEW position, NEW i, NEW vb
    PROVE  \/ /\ \A u \in used : ~(u[1] = position /\ u[3] = i)
              /\ Pass(used, position, i, vb) = vb
           \/ \E u \in used : /\ u[1] = position /\ u[3] = i
                              /\ Pass(used, position, i, vb) = OverrideLeakingOid(vb, u[2])
<1> DEFINE here == {u \in used : u[1] = position /\ u[3] = i}
           w == CHOOSE u \in here : TRUE
<1>1. Pass(used, position, i, vb) = IF here = {} THEN vb ELSE OverrideLeakingOid(vb, w[2])
    BY DEF Pass
<1>2. here # {} => w \in here
    OBVIOUS
<1> HIDE DEF w
<1> QED BY <1>1, <1>2

(* What is used of a response, overridden, is a variable-binding.          *)
LEMMA OverriddenType ==
    ASSUME oidsList \in Lists, NEW c, CtxOK(c), NEW sent, NEW rsp \in Seq(VarBinds),
           ~BulkLost(c, sent, rsp), NEW u \in Used(c, sent, rsp)
    PROVE  Overridden(c, sent, rsp, u[1]) \in VarBinds
<1> DEFINE used == Used(c, sent, rsp)
           size == Len(c.reqOids)
           position == u[1]
<1>1. \A w \in used : w[1] \in DOMAIN rsp /\ w[2] \in DOMAIN oidsList
    BY DEF BulkLost
<1>2. rsp[position] \in VarBinds
    BY <1>1
<1>3. PICK after : /\ Overridden(c, sent, rsp, position) = after[size]
                   /\ after[0] = rsp[position]
                   /\ \A i \in 1..size : after[i] = Pass(used, position, i, after[i - 1])
    <2> HIDE DEF position
    <2> QED BY OverriddenIs
<1>4. size \in Nat
    BY CtxSets
<1> HIDE DEF used, size, position
<1> DEFINE S == {n \in Nat : n <= size => after[n] \in VarBinds}
<1>5. 0 \in S
    BY <1>2, <1>3
<1>6. ASSUME NEW n \in Nat, n \in S PROVE n + 1 \in S
    <2> SUFFICES ASSUME n + 1 <= size PROVE after[n + 1] \in VarBinds
        OBVIOUS
    <2>1. after[n] \in VarBinds
        BY <1>4, <1>6
    <2>2. after[n + 1] = Pass(used, position, n + 1, after[n])
        <3>1. n + 1 \in 1..size /\ (n + 1) - 1 = n
            BY <1>4
        <3> QED BY <1>3, <3>1
    <2>3. \/ Pass(used, position, n + 1, after[n]) = after[n]
          \/ \E w \in used : Pass(used, position, n + 1, after[n]) = OverrideLeakingOid(after[n], w[2])
        BY OnePass
    <2> QED BY <1>1, <2>1, <2>2, <2>3, OverrideType
<1> HIDE DEF S
<1>7. size \in S
    BY <1>4, <1>5, <1>6, SetInduction
<1> QED BY <1>3, <1>4, <1>7 DEF S, position

(* What one OID only uses is overridden once.                              *)
LEMMA OverriddenOnce ==
    ASSUME NEW c, CtxOK(c), NEW sent, NEW rsp, NEW u \in Used(c, sent, rsp),
           \A w \in Used(c, sent, rsp) : w[1] = u[1] => w = u
    PROVE  Overridden(c, sent, rsp, u[1]) = OverrideLeakingOid(rsp[u[1]], u[2])
<1> DEFINE used == Used(c, sent, rsp)
           size == Len(c.reqOids)
           position == u[1]
           j == u[3]
           vb == rsp[position]
<1>1. PICK after : /\ Overridden(c, sent, rsp, position) = after[size]
                   /\ after[0] = vb
                   /\ \A i \in 1..size : after[i] = Pass(used, position, i, after[i - 1])
    BY OverriddenIs
<1>2. j \in 1..size /\ size \in Nat
    BY UsedFor
<1>3. u \in used /\ \A w \in used : w[1] = position => w = u
    OBVIOUS
<1>4. position = u[1] /\ j = u[3]
    OBVIOUS
<1> HIDE DEF used, size, position, j, vb
<1> DEFINE S == {n \in Nat : n <= size =>
                     after[n] = IF n < j THEN vb ELSE OverrideLeakingOid(vb, u[2])}
<1>5. 0 \in S
    BY <1>1, <1>2
<1>6. ASSUME NEW n \in Nat, n \in S PROVE n + 1 \in S
    <2> SUFFICES ASSUME n + 1 <= size
                 PROVE  after[n + 1] = IF n + 1 < j THEN vb ELSE OverrideLeakingOid(vb, u[2])
        OBVIOUS
    <2>1. after[n] = IF n < j THEN vb ELSE OverrideLeakingOid(vb, u[2])
        BY <1>2, <1>6
    <2>2. after[n + 1] = Pass(used, position, n + 1, after[n])
        <3>1. n + 1 \in 1..size /\ (n + 1) - 1 = n
            BY <1>2
        <3> QED BY <1>1, <3>1
    <2>3. \/ /\ \A w \in used : ~(w[1] = position /\ w[3] = n + 1)
             /\ Pass(used, position, n + 1, after[n]) = after[n]
          \/ \E w \in used : /\ w[1] = position /\ w[3] = n + 1
                             /\ Pass(used, position, n + 1, after[n]) = OverrideLeakingOid(after[n], w[2])
        BY OnePass
    <2>4. CASE n + 1 = j
        <3>1. Pass(used, position, n + 1, after[n]) = OverrideLeakingOid(after[n], u[2])
            BY <1>3, <1>4, <2>3, <2>4
        <3>2. n < j /\ ~(n + 1 < j)
            BY <2>4
        <3> QED BY <2>1, <2>2, <3>1, <3>2
    <2>5. CASE n + 1 # j
        <3>1. Pass(used, position, n + 1, after[n]) = after[n]
            BY <1>3, <1>4, <2>3, <2>5
        <3>2. n < j <=> n + 1 < j
            BY <1>2, <2>5
        <3> QED BY <2>1, <2>2, <3>1, <3>2
    <2> QED BY <2>4, <2>5
<1> HIDE DEF S
<1>7. size \in S
    BY <1>2, <1>5, <1>6, SetInduction
<1>8. after[size] = OverrideLeakingOid(vb, u[2])
    BY <1>2, <1>7 DEF S
<1> QED BY <1>1, <1>8 DEF position, vb

(* A non-repeater of a GETBULK answer.                                     *)
LEMMA NonRepeaterType ==
    ASSUME oidsList \in Lists, NEW c, CtxOK(c), NEW sent \in Request, NEW rsp \in Seq(VarBinds),
           ~BulkLost(c, sent, rsp), NEW k \in 1..NonRepeaters(c)
    PROVE  NonRepeater(c, k, sent, rsp) \in VarBinds
<1>1. k \in 1..Len(c.request.oids)
    BY CtxSets, NonRepeatersFacts
<1>2. CASE k \in c.direct
    <2> DEFINE u == NonRepeaterPart(c, k)
    <2>1. k <= NonRepeaters(c)
        BY NonRepeatersFacts
    <2>2. u \in Used(c, sent, rsp)
        BY <1>2, <2>1 DEF Used
    <2>3. NonRepeater(c, k, sent, rsp) = Overridden(c, sent, rsp, u[1])
        BY <1>2 DEF NonRepeater
    <2> HIDE DEF u
    <2> QED BY <2>2, <2>3, OverriddenType
<1>3. CASE k \notin c.direct
    <2>1. c.reqOids[k].oid \in Oids
        BY <1>1, CtxSets DEF Entry
    <2> QED BY <1>3, <2>1, VarBindType DEF NonRepeater
<1> QED BY <1>2, <1>3

(* Padding never looks up a range that the list does not have.             *)
LEMMA PaddingType ==
    ASSUME oidsList \in Lists, NEW c, CtxOK(c), NEW sent \in Request, NEW rsp \in Seq(VarBinds),
           ~BulkLost(c, sent, rsp), NEW i \in (NonRepeaters(c) + 1)..Len(c.reqOids)
    PROVE  Padding(c, i, ColumnDepth(sent, rsp)) \in VarBinds
<1> DEFINE depth == ColumnDepth(sent, rsp)
<1>1. depth \in Nat
    BY DepthFacts
<1>2. i \in 1..Len(c.request.oids)
    BY CtxSets, NonRepeatersFacts
<1>3. c.reqOids[i].oid \in Oids
    BY <1>2, CtxSets DEF Entry
<1>4. i \in DOMAIN c.linearized \/ i \in c.repeaters
    BY DEF BulkLost
<1> HIDE DEF depth
<1>5. CASE NoRow(c, i, depth)
    <2>1. Padding(c, i, depth) = VarBind(c.reqOids[i].oid, "null")
        BY <1>5 DEF Padding
    <2> QED BY <1>3, <2>1, VarBindType DEF depth
<1>6. CASE ~NoRow(c, i, depth)
    <2>1. LastAcl(c, i) \in DOMAIN oidsList
        <3>1. CASE i \in DOMAIN c.linearized
            <4> DEFINE n == Len(c.linearized[i])
                       u == OneOidPart(c, i, n)
            <4>1. c.linearized[i] \in Seq(Oids) /\ c.linearized[i] # <<>>
                BY <1>6, <3>1 DEF NoRow, CtxOK, LinearizedOverRanges
            <4>2. n \in 1..n /\ n \in Nat
                BY <4>1
            <4>3. <<i, n>> \in OneOidCells(c)
                BY <3>1, <4>2, CellsFinite
            <4>4. u \in Used(c, sent, rsp)
                BY <4>3 DEF Used
            <4>5. u[2] = c.reqOids[i].acl + n - 1
                BY DEF OneOidPart
            <4>6. LastAcl(c, i) = c.reqOids[i].acl + (n - 1)
                BY <3>1 DEF LastAcl
            <4>7. c.reqOids[i].acl \in Nat
                BY <1>2, CtxSets DEF Entry
            <4> HIDE DEF n, u
            <4>8. u[2] \in DOMAIN oidsList
                BY <4>4 DEF BulkLost
            <4>9. u[2] = LastAcl(c, i)
                BY <4>2, <4>5, <4>6, <4>7
            <4> QED BY <4>8, <4>9
        <3>2. CASE i \notin DOMAIN c.linearized
            <4> DEFINE u == RepeaterPart(c, i, 1, sent)
            <4>1. i \in c.repeaters /\ depth # 0
                BY <1>4, <1>6, <3>2 DEF NoRow
            <4>2. <<i, 1>> \in RepeaterCells(c, sent, rsp)
                BY <1>1, <4>1 DEF RepeaterCells, depth
            <4>3. u \in Used(c, sent, rsp)
                BY <4>2 DEF Used
            <4>4. u[2] = c.reqOids[i].acl
                BY DEF RepeaterPart
            <4>5. c.reqOids[i].acl \in Nat
                BY <1>2, CtxSets DEF Entry
            <4>6. LastAcl(c, i) = c.reqOids[i].acl
                BY <3>2, <4>5 DEF LastAcl
            <4> HIDE DEF u
            <4>7. u[2] \in DOMAIN oidsList
                BY <4>3 DEF BulkLost
            <4> QED BY <4>4, <4>6, <4>7
        <3> QED BY <3>1, <3>2
    <2>2. Padding(c, i, depth) = VarBind(Onward(LastAcl(c, i)), "null")
        BY <1>6 DEF Padding
    <2> QED BY <2>1, <2>2, OnwardType, VarBindType DEF depth
<1> QED BY <1>5, <1>6

(* A cell of the table of a GETBULK answer.                                *)
LEMMA CellType ==
    ASSUME oidsList \in Lists, NEW c, CtxOK(c), NEW sent \in Request, NEW rsp \in Seq(VarBinds),
           ~BulkLost(c, sent, rsp), NEW i \in (NonRepeaters(c) + 1)..Len(c.reqOids), NEW n
    PROVE  Cell(c, i, n, sent, rsp) \in VarBinds
<1>1. CASE <<i, n>> \in OneOidCells(c)
    <2>1. OneOidPart(c, i, n) \in Used(c, sent, rsp)
        BY <1>1 DEF Used
    <2>2. Cell(c, i, n, sent, rsp) = Overridden(c, sent, rsp, OneOidPart(c, i, n)[1])
        BY <1>1 DEF Cell
    <2> QED BY <2>1, <2>2, OverriddenType
<1>2. CASE <<i, n>> \notin OneOidCells(c) /\ <<i, n>> \in RepeaterCells(c, sent, rsp)
    <2>1. RepeaterPart(c, i, n, sent) \in Used(c, sent, rsp)
        BY <1>2 DEF Used
    <2>2. Cell(c, i, n, sent, rsp) = Overridden(c, sent, rsp, RepeaterPart(c, i, n, sent)[1])
        BY <1>2 DEF Cell
    <2> QED BY <2>1, <2>2, OverriddenType
<1>3. CASE <<i, n>> \notin OneOidCells(c) /\ <<i, n>> \notin RepeaterCells(c, sent, rsp)
    <2>1. Cell(c, i, n, sent, rsp) = Padding(c, i, ColumnDepth(sent, rsp))
        BY <1>3 DEF Cell
    <2> QED BY <2>1, PaddingType
<1> QED BY <1>1, <1>2, <1>3

(* A rearranged answer: non-repeaters, then rows of one cell per column.   *)
LEMMA RearrangedType ==
    ASSUME oidsList \in Lists, NEW c, CtxOK(c), NEW sent \in Request, NEW rsp \in Seq(VarBinds),
           ~BulkLost(c, sent, rsp)
    PROVE  LET nonRep == NonRepeaters(c)
               columns == Len(c.reqOids) - nonRep
               rows == MaxColumnDepth(c, sent, rsp)
           IN /\ columns \in Nat /\ columns * rows \in Nat
              /\ Rearranged(c, sent, rsp) \in Seq(VarBinds)
              /\ Len(Rearranged(c, sent, rsp)) = nonRep + columns * rows
<1> DEFINE nonRep == NonRepeaters(c)
           columns == Len(c.reqOids) - nonRep
           rows == MaxColumnDepth(c, sent, rsp)
           size == nonRep + columns * rows
           I(k) == nonRep + 1 + ((k - nonRep - 1) % columns)
           N(k) == 1 + (k - nonRep - 1) \div columns
           Value(k) == IF k <= nonRep THEN NonRepeater(c, k, sent, rsp)
                       ELSE Cell(c, I(k), N(k), sent, rsp)
<1>1. Rearranged(c, sent, rsp) = [k \in 1..size |-> Value(k)]
    BY DEF Rearranged
<1>2. nonRep \in Nat /\ columns \in Nat /\ Len(c.reqOids) \in Nat
    BY NonRepeatersFacts, CtxSets
<1>3. rows \in Nat
    BY DepthFacts
<1>4. columns * rows \in Nat
    <2> HIDE DEF columns, rows
    <2> QED BY <1>2, <1>3
<1>5. ASSUME NEW k \in 1..size, ~(k <= nonRep)
      PROVE  I(k) \in (nonRep + 1)..Len(c.reqOids)
    <2> DEFINE j == (k - nonRep - 1) % columns
    <2>1. j \in 0..(columns - 1)
        <3> HIDE DEF columns, rows, nonRep
        <3> QED BY <1>2, <1>3, <1>5, Table
    <2>2. I(k) = nonRep + 1 + j
        OBVIOUS
    <2> HIDE DEF j, I, nonRep
    <2> QED BY <1>2, <2>1, <2>2
<1>6. ASSUME NEW k \in 1..size PROVE Value(k) \in VarBinds
    <2>1. CASE k <= nonRep
        <3>1. k \in 1..nonRep
            <4> HIDE DEF columns, rows, nonRep
            <4> QED BY <1>2, <1>4, <2>1
        <3>2. Value(k) = NonRepeater(c, k, sent, rsp)
            BY <2>1
        <3> HIDE DEF Value
        <3> QED BY <3>1, <3>2, NonRepeaterType
    <2>2. CASE ~(k <= nonRep)
        <3>1. Value(k) = Cell(c, I(k), N(k), sent, rsp)
            BY <2>2
        <3>2. I(k) \in (nonRep + 1)..Len(c.reqOids)
            BY <1>5, <2>2
        <3> HIDE DEF Value, I, N
        <3> QED BY <3>1, <3>2, CellType
    <2> QED BY <2>1, <2>2
<1>7. size \in Nat
    <2> HIDE DEF columns, rows, nonRep
    <2> QED BY <1>2, <1>4
<1> HIDE DEF size, Value
<1>8. Rearranged(c, sent, rsp) \in Seq(VarBinds) /\ Len(Rearranged(c, sent, rsp)) = size
    BY <1>1, <1>6, <1>7, IsASeq
<1> QED BY <1>2, <1>4, <1>8 DEF size

(* The response handler as a whole.                                        *)
LEMMA FilterType ==
    ASSUME oidsList \in Lists, NEW c, CtxOK(c), NEW sent \in Request, NEW rsp \in Seq(VarBinds),
           Filter(c, sent, rsp)
    PROVE  state' \in {"lost", "answered"} /\ varBinds' \in Seq(VarBinds)
<1>1. CASE c.request.kind = "getbulk" /\ BulkLost(c, sent, rsp)
    BY <1>1 DEF Filter
<1>2. CASE c.request.kind = "getbulk" /\ ~BulkLost(c, sent, rsp)
    <2>1. varBinds' = Rearranged(c, sent, rsp) /\ state' = "answered"
        BY <1>2 DEF Filter
    <2> QED BY <1>2, <2>1, RearrangedType
<1>3. CASE c.request.kind # "getbulk" /\ MergeLost(c, rsp)
    BY <1>3 DEF Filter
<1>4. CASE c.request.kind # "getbulk" /\ ~MergeLost(c, rsp)
    <2>1. varBinds' = Merged(c, rsp) /\ state' = "answered"
        BY <1>4 DEF Filter
    <2> QED BY <1>4, <2>1, MergedType
<1> QED BY <1>1, <1>2, <1>3, <1>4

(* A request that is denied as a whole is answered OID by OID.             *)
LEMMA DeniedType ==
    ASSUME NEW c, CtxOK(c)
    PROVE  Denied(c) \in Seq(VarBinds) /\ Len(Denied(c)) = Len(c.request.oids)
<1> DEFINE size == Len(c.request.oids)
           Reply(i) == VarBind(c.reqOids[i].oid, Absent(c.request.kind))
<1>1. size \in Nat /\ DOMAIN c.reqOids = 1..size /\ \A i \in 1..size : c.reqOids[i].oid \in Oids
    BY CtxSets DEF Entry
<1>2. Denied(c) = [i \in 1..size |-> Reply(i)]
    BY <1>1 DEF Denied
<1>3. Absent(c.request.kind) \in {"data", "null", "noSuchInstance", "endOfMibView"}
    BY DEF Absent
<1>4. \A i \in 1..size : Reply(i) \in VarBinds
    BY <1>1, <1>3, VarBindType
<1> HIDE DEF Reply, size
<1>5. Denied(c) \in Seq(VarBinds) /\ Len(Denied(c)) = size
    BY <1>1, <1>2, <1>4, IsASeq
<1> QED BY <1>5 DEF size

-----------------------------------------------------------------------------
(* The invariant.                                                          *)

(* Between request and response, reqCtx is what a request was matched to,  *)
(* the request is what was made of it, and the response is the agent's.    *)
Inv ==
    /\ TypeOK
    /\ state \in {"sent", "responded"} => CtxOK(reqCtx) /\ request = Forwarded(reqCtx)
    /\ state = "responded" => varBinds \in Responses(request)
    /\ state = "notified" => \A k \in DOMAIN request.oids : Allowed(request.oids[k])

(* A request that is taken up is answered, lost or forwarded.              *)
LEMMA CommandRequestInv ==
    ASSUME Inv, NEW r \in Request, CommandRequest(r), walk' \in Request
    PROVE  Inv'
<1> DEFINE c == Ctx(r)
<1>1. /\ oidsList \in Lists /\ mib \in Mibs /\ varBinds \in Seq(VarBinds)
      /\ oidsList' = oidsList /\ mib' = mib /\ reqCtx' = c
      /\ r.kind # "notification"
    BY DEF Inv, TypeOK, CommandRequest, VarBinds
<1>2. CtxOK(c) /\ c.request = r
    BY <1>1, CtxIsOK
<1>3. \/ /\ request' = r
         /\ \/ state' = "answered" /\ varBinds' = Denied(c)
            \/ Filter(c, r, Denied(c))
      \/ /\ request' = Forwarded(c)
         /\ state' = "sent"
         /\ varBinds' = varBinds
    BY DEF CommandRequest
<1> HIDE DEF c
<1>4. CASE /\ request' = r
           /\ \/ state' = "answered" /\ varBinds' = Denied(c)
              \/ Filter(c, r, Denied(c))
    <2>1. Denied(c) \in Seq(VarBinds)
        BY <1>2, DeniedType
    <2>2. Filter(c, r, Denied(c)) => state' \in {"lost", "answered"} /\ varBinds' \in Seq(VarBinds)
        BY <1>1, <1>2, <2>1, FilterType
    <2>3. state' \in {"lost", "answered"} /\ varBinds' \in Seq(VarBinds)
        BY <1>4, <2>1, <2>2
    <2> QED BY <1>1, <1>4, <2>3 DEF Inv, TypeOK, VarBinds
<1>5. CASE /\ request' = Forwarded(c)
           /\ state' = "sent"
           /\ varBinds' = varBinds
    <2>1. Forwarded(c) \in Request
        BY <1>2, ForwardedParts
    <2>2. TypeOK'
        BY <1>1, <1>5, <2>1 DEF TypeOK, VarBinds
    <2>3. CtxOK(reqCtx') /\ request' = Forwarded(reqCtx')
        BY <1>1, <1>2, <1>5
    <2> QED BY <1>5, <2>2, <2>3 DEF Inv
<1> QED BY <1>3, <1>4, <1>5

(* A notification goes on with what is allowed.                            *)
LEMMA NotificationInv ==
    ASSUME Inv, NEW r \in Request, NotificationRequest(r), walk' = walk
    PROVE  Inv'
<1> DEFINE kept == {i \in DOMAIN r.oids : FindAcl(r.oids[i]).acl # NoAcl}
           size == Cardinality(kept)
           oids == [k \in 1..size |-> r.oids[Nth(kept, k)]]
<1>1. /\ oidsList \in Lists /\ mib \in Mibs /\ varBinds \in Seq(VarBinds) /\ walk \in Request
      /\ oidsList' = oidsList /\ mib' = mib /\ reqCtx' = reqCtx /\ varBinds' = varBinds
      /\ request' = [r EXCEPT !.oids = oids]
      /\ state' \in {"lost", "notified"}
    BY DEF Inv, TypeOK, NotificationRequest, VarBinds
<1>2. /\ DOMAIN r.oids = 1..Len(r.oids) /\ Len(r.oids) \in Nat
      /\ \A i \in 1..Len(r.oids) : r.oids[i] \in Oids
    BY RequestType
<1>3. kept \in SUBSET (1..Len(r.oids))
    BY <1>2
<1>4. kept \in SUBSET Int /\ IsFiniteSet(kept)
    <2>1. IsFiniteSet(1..Len(r.oids))
        <3> DEFINE n == Len(r.oids)
        <3>1. n \in Int
            BY <1>2
        <3> HIDE DEF n
        <3>2. IsFiniteSet(1..n)
            BY <3>1, FS_Interval
        <3> QED BY <3>2 DEF n
    <2>2. kept \in SUBSET Int
        BY <1>2
    <2> DEFINE T == 1..Len(r.oids)
    <2>3. kept \in SUBSET T /\ IsFiniteSet(T)
        BY <1>3, <2>1
    <2> HIDE DEF T, kept
    <2>4. IsFiniteSet(kept)
        BY <2>3, FS_Subset
    <2> QED BY <2>2, <2>4
<1>5. size \in Nat /\ \A k \in 1..size : Nth(kept, k) \in kept
    <2> HIDE DEF kept
    <2> QED BY <1>4, Places
<1>6. ASSUME NEW k \in 1..size PROVE oids[k] \in Oids /\ Allowed(oids[k])
    <2> DEFINE i == Nth(kept, k)
    <2>1. oids[k] = r.oids[i] /\ i \in kept
        BY <1>5
    <2>2. r.oids[i] \in Oids /\ FindAcl(r.oids[i]).acl # NoAcl
        BY <1>2, <2>1
    <2> HIDE DEF i
    <2>3. FindAcl(r.oids[i]).acl \in DOMAIN oidsList /\ InRange(r.oids[i], FindAcl(r.oids[i]).acl)
        BY <1>1, <2>2, FindAclMatches, ListLines DEF NoAcl
    <2> HIDE DEF oids
    <2> QED BY <2>1, <2>2, <2>3 DEF Allowed
<1>7. oids \in Seq(Oids) /\ DOMAIN oids = 1..size
    <2> HIDE DEF kept, size
    <2>1. \A k \in 1..size : r.oids[Nth(kept, k)] \in Oids
        BY <1>6
    <2> QED BY <1>5, <2>1, IsASeq
<1> HIDE DEF oids, size
<1>8. request' \in Request /\ request'.oids = oids
    BY <1>1, <1>7 DEF Request
<1>9. TypeOK'
    BY <1>1, <1>8 DEF TypeOK, VarBinds
<1>10. \A k \in DOMAIN request'.oids : Allowed(request.oids[k])'
    BY <1>1, <1>6, <1>7, <1>8 DEF Allowed, InRange
<1> QED BY <1>1, <1>9, <1>10 DEF Inv

(* The agent answers what it was asked.                                    *)
LEMMA AgentRespondsInv ==
    ASSUME Inv, AgentResponds
    PROVE  Inv'
<1>1. /\ state = "sent" /\ state' = "responded" /\ varBinds' \in Responses(request)
      /\ oidsList' = oidsList /\ mib' = mib /\ reqCtx' = reqCtx /\ request' = request /\ walk' = walk
      /\ request \in Request /\ mib \in Mibs
    BY DEF Inv, TypeOK, AgentResponds
<1>2. varBinds' \in Seq(VarBinds)
    BY <1>1, ResponsesFacts
<1>3. TypeOK'
    BY <1>1, <1>2 DEF Inv, TypeOK, VarBinds
<1>4. CtxOK(reqCtx') /\ request' = Forwarded(reqCtx')
    BY <1>1 DEF Inv
<1>5. (varBinds \in Responses(request))'
    <2>1. Responses(request)' = Responses(request)
        BY <1>1 DEF Responses, Bulk, Successor, After
    <2> QED BY <1>1, <2>1
<1> QED BY <1>1, <1>3, <1>4, <1>5 DEF Inv

(* A response is answered or lost.                                         *)
LEMMA CommandResponseInv ==
    ASSUME Inv, CommandResponse
    PROVE  Inv'
<1>1. /\ state = "responded" /\ Filter(reqCtx, request, varBinds)
      /\ oidsList' = oidsList /\ mib' = mib /\ reqCtx' = reqCtx /\ request' = request /\ walk' = walk
      /\ request \in Request /\ mib \in Mibs /\ oidsList \in Lists /\ CtxOK(reqCtx)
      /\ varBinds \in Responses(request)
    BY DEF Inv, TypeOK, CommandResponse
<1>2. varBinds \in Seq(VarBinds)
    BY <1>1, ResponsesFacts
<1>3. state' \in {"lost", "answered"} /\ varBinds' \in Seq(VarBinds)
    BY <1>1, <1>2, FilterType
<1> QED BY <1>1, <1>3 DEF Inv, TypeOK, VarBinds

(* A reload leaves a request under way, and its context, alone.            *)
LEMMA ReloadInv ==
    ASSUME Inv, NEW list \in Reloads, Reload(list)
    PROVE  Inv'
<1>1. /\ state \in {"idle", "sent", "responded"} /\ state' = state /\ oidsList' = list
      /\ mib' = mib /\ reqCtx' = reqCtx /\ request' = request /\ varBinds' = varBinds /\ walk' = walk
    BY DEF Reload
<1>2. list \in Lists
    BY ListsAssumption
<1>3. TypeOK'
    BY <1>1, <1>2 DEF Inv, TypeOK
<1>4. state \in {"sent", "responded"} => CtxOK(reqCtx') /\ request' = Forwarded(reqCtx')
    BY <1>1 DEF Inv
<1>5. state = "responded" => (varBinds \in Responses(request))'
    <2>1. Responses(request)' = Responses(request)
        BY <1>1 DEF Responses, Bulk, Successor, After
    <2> QED BY <1>1, <2>1 DEF Inv
<1> QED BY <1>1, <1>3, <1>4, <1>5 DEF Inv

(* The manager has its answer, and goes on from its end in a walk.         *)
LEMMA DoneInv ==
    ASSUME Inv, Done
    PROVE  Inv'
<1>1. /\ state \in {"answered", "lost", "notified"} /\ state' = "idle" /\ oidsList' = oidsList
      /\ mib' = mib /\ request' = NoWalk /\ varBinds' = <<>>
      /\ walk' = IF walk = NoWalk \/ WalkOver THEN NoWalk
                 ELSE [walk EXCEPT !.oids = <<varBinds[Len(varBinds)].oid>>]
      /\ varBinds \in Seq(VarBinds) /\ walk \in Request
    BY DEF Inv, TypeOK, Done, VarBinds
<1>2. NoWalk \in Request
    BY DEF NoWalk, Request, Kinds
<1>3. <<>> \in Seq(VarBinds)
    OBVIOUS
<1>4. ASSUME ~WalkOver PROVE [walk EXCEPT !.oids = <<varBinds[Len(varBinds)].oid>>] \in Request
    <2>1. varBinds # <<>>
        BY <1>4 DEF WalkOver
    <2>2. varBinds[Len(varBinds)] \in VarBinds
        BY <1>1, <2>1
    <2>3. varBinds[Len(varBinds)].oid \in Oids
        BY <2>2 DEF VarBinds
    <2> DEFINE last == varBinds[Len(varBinds)].oid
    <2> HIDE DEF last
    <2>4. <<last>> \in Seq(Oids)
        BY <2>3 DEF last
    <2>5. [walk EXCEPT !.oids = <<last>>] \in Request
        BY <1>1, <2>4 DEF Request
    <2> QED BY <2>5 DEF last
<1>5. walk' \in Request
    BY <1>1, <1>2, <1>4
<1> QED BY <1>1, <1>2, <1>3, <1>5 DEF Inv, TypeOK, VarBinds

(* A step that changes nothing.                                            *)
LEMMA StutterInv ==
    ASSUME Inv, UNCHANGED vars
    PROVE  Inv'
<1>1. /\ state' = state /\ oidsList' = oidsList /\ mib' = mib /\ reqCtx' = reqCtx
      /\ request' = request /\ varBinds' = varBinds /\ walk' = walk
    BY DEF vars
<1>2. TypeOK'
    BY <1>1 DEF Inv, TypeOK
<1>3. state \in {"sent", "responded"} => CtxOK(reqCtx') /\ request' = Forwarded(reqCtx')
    BY <1>1 DEF Inv
<1>4. state = "responded" => (varBinds \in Responses(request))'
    <2>1. Responses(request)' = Responses(request)
        BY <1>1 DEF Responses, Bulk, Successor, After
    <2> QED BY <1>1, <2>1 DEF Inv
<1>5. state = "notified" => \A k \in DOMAIN request'.oids : Allowed(request.oids[k])'
    BY <1>1 DEF Inv, Allowed, InRange
<1> QED BY <1>1, <1>2, <1>3, <1>4, <1>5 DEF Inv

(* The invariant holds at first.                                           *)
LEMMA InitInv == Init => Inv
<1> SUFFICES ASSUME Init PROVE Inv
    OBVIOUS
<1>1. NoWalk \in Request
    BY DEF NoWalk, Request, Kinds
<1>2. varBinds \in Seq(VarBinds)
    BY DEF Init
<1> QED BY <1>1, <1>2 DEF Init, Inv, TypeOK, VarBinds

(* Every step keeps the invariant.                                         *)
LEMMA NextInv ==
    ASSUME Inv, [Next]_vars
    PROVE  Inv'
<1>1. ASSUME NEW r \in Requests, Ask(r) PROVE Inv'
    <2>1. r \in Request /\ walk' = walk /\ walk \in Request
        BY <1>1, RequestsAssumption DEF Ask, Inv, TypeOK
    <2> QED BY <1>1, <2>1, CommandRequestInv, NotificationInv DEF Ask
<1>2. ASSUME NEW w \in Walks, StartWalk(w) PROVE Inv'
    <2>1. w \in Request /\ walk' = w
        BY <1>2, RequestsAssumption DEF StartWalk
    <2> QED BY <1>2, <2>1, CommandRequestInv DEF StartWalk
<1>3. CASE WalkOn
    <2>1. walk \in Request /\ walk' = walk
        BY <1>3 DEF WalkOn, Inv, TypeOK
    <2> QED BY <1>3, <2>1, CommandRequestInv DEF WalkOn
<1> QED BY <1>1, <1>2, <1>3, AgentRespondsInv, CommandResponseInv, ReloadInv, DoneInv, StutterInv DEF Next

(* The invariant holds of every behaviour.                                 *)
THEOREM InvHolds == Spec => []Inv
BY InitInv, NextInv, PTL DEF Spec

(* Whatever the lists, MIBs and requests, all that the plugin keeps, and   *)
(* what it answers, is of its type: no OID is made up, and no range is     *)
(* looked up that the list does not have.                                  *)
THEOREM TypeCorrect == Spec => []TypeOK
<1>1. Inv => TypeOK
    BY DEF Inv
<1> QED BY <1>1, InvHolds, PTL

(* Whatever the lists and requests, the agent is asked of what is in a     *)
(* range, or right before one, and a notification tells of allowed OIDs    *)
(* only.                                                                   *)
THEOREM OnlyRangesAreAsked == Spec => []OnlyRangesAsked
<1>1. Inv => OnlyRangesAsked
    <2> SUFFICES ASSUME Inv PROVE OnlyRangesAsked
        OBVIOUS
    <2>1. ASSUME state = "sent", NEW k \in DOMAIN request.oids
          PROVE  InScope(reqCtx.list, request.kind, request.oids[k])
        BY <2>1, ForwardedInScope DEF Inv
    <2>2. state = "notified" => \A k \in DOMAIN request.oids : Allowed(request.oids[k])
        BY DEF Inv
    <2> QED BY <2>1, <2>2 DEF OnlyRangesAsked, InScope
<1> QED BY <1>1, InvHolds, PTL

-----------------------------------------------------------------------------
(* Nothing leaks.                                                          *)

(* A variable-binding shows nothing, or something allowed.                 *)
Harmless(vb) == vb.value = "data" => Allowed(vb.oid)

(* What overrideLeakingOid leaves is in the range it was called with, or   *)
(* says nothing of the agent's data.                                       *)
LEMMA OverrideHarmless ==
    ASSUME NEW vb, NEW i \in DOMAIN oidsList
    PROVE  Harmless(OverrideLeakingOid(vb, i))
<1>1. CASE InRange(vb.oid, i)
    BY <1>1 DEF Harmless, OverrideLeakingOid, Allowed
<1>2. CASE ~InRange(vb.oid, i)
    <2> DEFINE value == IF vb.value = "endOfMibView" THEN vb.value ELSE "null"
    <2>1. OverrideLeakingOid(vb, i).value = value
        BY <1>2 DEF OverrideLeakingOid, VarBind
    <2>2. value # "data"
        OBVIOUS
    <2> QED BY <2>1, <2>2 DEF Harmless
<1> QED BY <1>1, <1>2

(* GET, SET and GETNEXT: every part of a merged answer is harmless, unless *)
(* the response is lost.                                                   *)
LEMMA MergedHarmless ==
    ASSUME NEW c, NEW rsp, ~MergeLost(c, rsp), NEW k \in DOMAIN Merged(c, rsp)
    PROVE  Harmless(Merged(c, rsp)[k])
<1>1. k \in DOMAIN c.reqOids
    BY DEF Merged
<1>2. CASE k \in c.direct
    <2>1. c.reqOids[k].acl \in DOMAIN oidsList
        BY <1>2 DEF MergeLost
    <2>2. Merged(c, rsp)[k] = OverrideLeakingOid(rsp[Place(c.direct, k)], c.reqOids[k].acl)
        BY <1>1, <1>2 DEF Merged
    <2> QED BY <2>1, <2>2, OverrideHarmless
<1>3. CASE k \notin c.direct
    <2>1. Merged(c, rsp)[k].value = Absent(c.request.kind)
        BY <1>1, <1>3 DEF Merged, VarBind
    <2> QED BY <2>1 DEF Absent, Harmless
<1> QED BY <1>2, <1>3

(* GETBULK: what is used of a response obeys a range the list has, that of *)
(* the last OID that uses it.                                              *)
LEMMA OverriddenHarmless ==
    ASSUME NEW c, CtxOK(c), NEW sent, NEW rsp, ~BulkLost(c, sent, rsp),
           NEW u \in Used(c, sent, rsp)
    PROVE  Harmless(Overridden(c, sent, rsp, u[1]))
<1> DEFINE used == Used(c, sent, rsp)
           size == Len(c.reqOids)
           position == u[1]
           j == u[3]
<1>1. \A w \in used : w[2] \in DOMAIN oidsList
    BY DEF BulkLost
<1>2. PICK after : /\ Overridden(c, sent, rsp, position) = after[size]
                   /\ after[0] = rsp[position]
                   /\ \A i \in 1..size : after[i] = Pass(used, position, i, after[i - 1])
    BY OverriddenIs
<1>3. j \in 1..size /\ size \in Nat
    BY UsedFor
<1>4. u \in used /\ u[1] = position /\ u[3] = j
    OBVIOUS
<1> HIDE DEF used, size, position, j
<1> DEFINE S == {n \in Nat : j <= n /\ n <= size => Harmless(after[n])}
<1>5. 0 \in S
    BY <1>3
<1>6. ASSUME NEW n \in Nat, n \in S PROVE n + 1 \in S
    <2> SUFFICES ASSUME j <= n + 1, n + 1 <= size PROVE Harmless(after[n + 1])
        OBVIOUS
    <2>1. after[n + 1] = Pass(used, position, n + 1, after[n])
        <3>1. n + 1 \in 1..size /\ (n + 1) - 1 = n
            BY <1>3
        <3> QED BY <1>2, <3>1
    <2>2. \/ /\ \A w \in used : ~(w[1] = position /\ w[3] = n + 1)
             /\ Pass(used, position, n + 1, after[n]) = after[n]
          \/ \E w \in used : Pass(used, position, n + 1, after[n]) = OverrideLeakingOid(after[n], w[2])
        BY OnePass
    <2>3. CASE \E w \in used : Pass(used, position, n + 1, after[n]) = OverrideLeakingOid(after[n], w[2])
        BY <1>1, <2>1, <2>3, OverrideHarmless
    <2>4. CASE /\ \A w \in used : ~(w[1] = position /\ w[3] = n + 1)
               /\ Pass(used, position, n + 1, after[n]) = after[n]
        <3>1. j # n + 1
            BY <1>4, <2>4
        <3>2. j <= n /\ n <= size
            BY <1>3, <3>1
        <3>3. Harmless(after[n])
            BY <1>6, <3>2
        <3> QED BY <2>1, <2>4, <3>3
    <2> QED BY <2>2, <2>3, <2>4
<1> HIDE DEF S
<1>7. size \in S
    BY <1>3, <1>5, <1>6, SetInduction
<1> QED BY <1>2, <1>3, <1>7 DEF S, position

(* A non-repeater of a GETBULK answer.                                     *)
LEMMA NonRepeaterHarmless ==
    ASSUME NEW c, CtxOK(c), NEW sent, NEW rsp, ~BulkLost(c, sent, rsp),
           NEW k, k <= NonRepeaters(c)
    PROVE  Harmless(NonRepeater(c, k, sent, rsp))
<1>1. CASE k \in c.direct
    <2> DEFINE part == NonRepeaterPart(c, k)
    <2>1. part \in Used(c, sent, rsp)
        BY <1>1 DEF Used
    <2>2. NonRepeater(c, k, sent, rsp) = Overridden(c, sent, rsp, part[1])
        BY <1>1 DEF NonRepeater
    <2> HIDE DEF part
    <2> QED BY <2>1, <2>2, OverriddenHarmless
<1>2. CASE k \notin c.direct
    BY <1>2 DEF NonRepeater, VarBind, Harmless
<1> QED BY <1>1, <1>2

(* A cell of the table of a GETBULK answer.                                *)
LEMMA CellHarmless ==
    ASSUME NEW c, CtxOK(c), NEW sent, NEW rsp, ~BulkLost(c, sent, rsp), NEW i, NEW n
    PROVE  Harmless(Cell(c, i, n, sent, rsp))
<1>1. CASE <<i, n>> \in OneOidCells(c)
    <2>1. OneOidPart(c, i, n) \in Used(c, sent, rsp)
        BY <1>1 DEF Used
    <2>2. Cell(c, i, n, sent, rsp) = Overridden(c, sent, rsp, OneOidPart(c, i, n)[1])
        BY <1>1 DEF Cell
    <2> QED BY <2>1, <2>2, OverriddenHarmless
<1>2. CASE <<i, n>> \notin OneOidCells(c) /\ <<i, n>> \in RepeaterCells(c, sent, rsp)
    <2>1. RepeaterPart(c, i, n, sent) \in Used(c, sent, rsp)
        BY <1>2 DEF Used
    <2>2. Cell(c, i, n, sent, rsp) = Overridden(c, sent, rsp, RepeaterPart(c, i, n, sent)[1])
        BY <1>2 DEF Cell
    <2> QED BY <2>1, <2>2, OverriddenHarmless
<1>3. CASE <<i, n>> \notin OneOidCells(c) /\ <<i, n>> \notin RepeaterCells(c, sent, rsp)
    <2>1. Cell(c, i, n, sent, rsp) = Padding(c, i, ColumnDepth(sent, rsp))
        BY <1>3 DEF Cell
    <2>2. Padding(c, i, ColumnDepth(sent, rsp)).value = "null"
        BY DEF Padding, VarBind
    <2> QED BY <2>1, <2>2 DEF Harmless
<1> QED BY <1>1, <1>2, <1>3

(* A GETBULK answer, rearranged.                                           *)
LEMMA RearrangedHarmless ==
    ASSUME NEW c, CtxOK(c), NEW sent, NEW rsp, ~BulkLost(c, sent, rsp),
           NEW k \in DOMAIN Rearranged(c, sent, rsp)
    PROVE  Harmless(Rearranged(c, sent, rsp)[k])
<1> DEFINE nonRep == NonRepeaters(c)
           columns == Len(c.reqOids) - nonRep
           i == nonRep + 1 + ((k - nonRep - 1) % columns)
           n == 1 + (k - nonRep - 1) \div columns
<1>1. CASE k <= nonRep
    <2>1. Rearranged(c, sent, rsp)[k] = NonRepeater(c, k, sent, rsp)
        BY <1>1 DEF Rearranged
    <2> QED BY <1>1, <2>1, NonRepeaterHarmless
<1>2. CASE ~(k <= nonRep)
    <2>1. Rearranged(c, sent, rsp)[k] = Cell(c, i, n, sent, rsp)
        BY <1>2 DEF Rearranged
    <2> QED BY <2>1, CellHarmless
<1> QED BY <1>1, <1>2

(* The response handler as a whole.                                        *)
LEMMA FilterHarmless ==
    ASSUME NEW c, CtxOK(c), NEW sent, NEW rsp, Filter(c, sent, rsp), state' = "answered",
           NEW k \in DOMAIN varBinds'
    PROVE  Harmless(varBinds'[k])
<1>1. CASE c.request.kind = "getbulk"
    <2>1. ~BulkLost(c, sent, rsp) /\ varBinds' = Rearranged(c, sent, rsp)
        BY <1>1 DEF Filter
    <2> QED BY <2>1, RearrangedHarmless
<1>2. CASE c.request.kind # "getbulk"
    <2>1. ~MergeLost(c, rsp) /\ varBinds' = Merged(c, rsp)
        BY <1>2 DEF Filter
    <2> QED BY <2>1, MergedHarmless
<1> QED BY <1>1, <1>2

(* A request that is denied as a whole is answered without data.           *)
LEMMA DeniedHarmless ==
    ASSUME NEW c, NEW k \in DOMAIN Denied(c)
    PROVE  Harmless(Denied(c)[k])
<1>1. Denied(c)[k].value = Absent(c.request.kind)
    BY DEF Denied, VarBind
<1> QED BY <1>1 DEF Absent, Harmless

(* A request that is answered without the agent.                           *)
LEMMA CommandRequestHarmless ==
    ASSUME Inv, NEW r \in Request, CommandRequest(r), state' = "answered", NEW k \in DOMAIN varBinds'
    PROVE  Harmless(varBinds'[k])
<1> DEFINE c == Ctx(r)
<1>1. /\ varBinds' = Denied(c) \/ Filter(c, r, Denied(c))
      /\ CtxOK(c)
    BY CtxIsOK DEF Inv, TypeOK, CommandRequest
<1> HIDE DEF c
<1>2. CASE varBinds' = Denied(c)
    BY <1>2, DeniedHarmless
<1>3. CASE Filter(c, r, Denied(c))
    BY <1>1, <1>3, FilterHarmless
<1> QED BY <1>1, <1>2, <1>3

(* The list does not change in a step that answers a request.              *)
LEMMA AnsweredKeepsList ==
    ASSUME [Next]_vars, state' = "answered"
    PROVE  oidsList' = oidsList
<1>1. ASSUME NEW r, CommandRequest(r) PROVE oidsList' = oidsList
    BY <1>1 DEF CommandRequest
<1>2. ASSUME NEW r, NotificationRequest(r) PROVE oidsList' = oidsList
    BY <1>2 DEF NotificationRequest
<1>3. ASSUME NEW list, Reload(list) PROVE FALSE
    BY <1>3 DEF Reload
<1> QED BY <1>1, <1>2, <1>3
        DEF Next, Ask, StartWalk, WalkOn, AgentResponds, CommandResponse, Done, vars

(* Whatever the access list, the MIB, the request and the agent's response,*)
(* a manager is shown data of allowed instances only.                      *)
THEOREM NothingEverLeaks == Spec => []NothingLeaks
<1>1. Init => NothingLeaks
    BY DEF Init, NothingLeaks
<1>2. Inv /\ NothingLeaks /\ [Next]_vars => NothingLeaks'
    <2> SUFFICES ASSUME Inv, NothingLeaks, [Next]_vars, state' = "answered",
                        NEW k \in DOMAIN varBinds', varBinds'[k].value = "data"
                 PROVE  Allowed(varBinds[k].oid)'
        BY DEF NothingLeaks
    <2>1. oidsList' = oidsList
        BY AnsweredKeepsList
    <2>2. ASSUME Harmless(varBinds'[k]) PROVE Allowed(varBinds[k].oid)'
        BY <2>1, <2>2 DEF Harmless, Allowed, InRange
    <2>3. ASSUME NEW r \in Request, CommandRequest(r) PROVE Allowed(varBinds[k].oid)'
        BY <2>2, <2>3, CommandRequestHarmless
    <2>4. ASSUME NEW r, NotificationRequest(r) PROVE FALSE
        BY <2>4 DEF NotificationRequest
    <2>5. CASE CommandResponse
        <3>1. Filter(reqCtx, request, varBinds) /\ CtxOK(reqCtx)
            BY <2>5 DEF CommandResponse, Inv
        <3> QED BY <2>2, <3>1, FilterHarmless
    <2>6. CASE AgentResponds
        BY <2>6 DEF AgentResponds
    <2>7. ASSUME NEW list, Reload(list) PROVE FALSE
        BY <2>7 DEF Reload
    <2>8. CASE Done
        BY <2>8 DEF Done
    <2>9. CASE UNCHANGED vars
        BY <2>9 DEF vars, NothingLeaks, Allowed, InRange
    <2>10. Requests \subseteq Request /\ Walks \subseteq Request /\ walk \in Request
        BY RequestsAssumption DEF Inv, TypeOK
    <2> QED BY <2>3, <2>4, <2>5, <2>6, <2>7, <2>8, <2>9, <2>10 DEF Next, Ask, StartWalk, WalkOn
<1> QED BY <1>1, <1>2, InvHolds, PTL DEF Spec

-----------------------------------------------------------------------------
(* GET and SET.                                                            *)

(* What a manager is told about the OIDs of a GET or SET.                  *)
ValueOf(kind, value, oid) ==
    IF ~Allowed(oid) THEN "noSuchInstance"
    ELSE IF kind = "set" THEN value
    ELSE IF oid \in mib THEN "data" ELSE "noSuchInstance"

AsIfUnlisted(kind, value, oids) ==
    [i \in DOMAIN oids |-> VarBind(oids[i], ValueOf(kind, value, oids[i]))]

(* An OID of a GET or SET is sent if it is allowed.                        *)
LEMMA ExactlyMatched ==
    ASSUME oidsList \in Lists, NEW c, CtxOK(c), c.list = oidsList, c.request.kind \in {"get", "set"},
           NEW i \in 1..Len(c.request.oids)
    PROVE  /\ c.reqOids[i].oid = c.request.oids[i]
           /\ i \in c.direct <=> c.reqOids[i].acl # NoAcl
           /\ i \in c.direct =>
                  InRange(c.request.oids[i], c.reqOids[i].acl) /\ Allowed(c.request.oids[i])
           /\ i \notin c.direct => ~Allowed(c.request.oids[i])
<1>1. i \in DOMAIN c.reqOids /\ c.reqOids[i] \in Entry
    BY CtxSets
<1>2. c.reqOids[i].acl <= Len(c.list) /\ MatchedExactly(c.list, c.request.oids[i], c.reqOids[i])
    BY <1>1 DEF CtxOK, Matched
<1>3. i \in c.direct <=> c.reqOids[i].acl # NoAcl
    BY <1>1 DEF CtxOK, DirectOf
<1>4. c.reqOids[i].acl # NoAcl => c.reqOids[i].acl \in DOMAIN oidsList
    BY <1>1, <1>2, ListLines DEF NoAcl, Entry
<1> QED BY <1>2, <1>3, <1>4 DEF MatchedExactly, InRange, Allowed, Visible

(* What was answered and what was denied, merged.                          *)
LEMMA MergedAnswer ==
    ASSUME oidsList \in Lists, mib \in Mibs, NEW c, CtxOK(c), c.list = oidsList,
           c.request.kind \in {"get", "set"},
           NEW rsp \in Responses(Forwarded(c)), ~MergeLost(c, rsp)
    PROVE  Merged(c, rsp) = AsIfUnlisted(c.request.kind, Forwarded(c).value, c.request.oids)
<1> DEFINE sent == Forwarded(c)
           size == Len(c.request.oids)
           asked == c.request.oids
           kind == c.request.kind
           Answer(oid) == VarBind(oid, IF kind = "set" THEN sent.value
                                       ELSE IF oid \in mib THEN "data" ELSE "noSuchInstance")
           Value(i) == VarBind(asked[i], ValueOf(kind, sent.value, asked[i]))
<1>1. /\ sent \in Request /\ sent.kind = c.request.kind
      /\ \A i \in c.direct :
             /\ Place(c.direct, i) \in 1..Cardinality(c.direct)
             /\ sent.oids[Place(c.direct, i)] = c.reqOids[i].oid
      /\ Cardinality(c.direct) \in Nat /\ Cardinality(c.direct) <= Len(sent.oids)
    BY ForwardedParts
<1>2. \A k \in 1..Len(sent.oids) : rsp[k] = Answer(sent.oids[k])
    <2>1. CASE kind = "set"
        BY <1>1, <2>1, ResponsesFacts
    <2>2. CASE kind = "get"
        BY <1>1, <2>2, ResponsesFacts
    <2> QED BY <2>1, <2>2
<1>3. DOMAIN c.reqOids = 1..size /\ DOMAIN asked = 1..size /\ c.direct \in SUBSET (1..size)
    BY CtxSets, RequestType DEF CtxOK
<1> HIDE DEF sent
<1>4. ASSUME NEW i \in 1..size PROVE Merged(c, rsp)[i] = Value(i)
    <2>1. CASE i \in c.direct
        <3> DEFINE p == Place(c.direct, i)
        <3>1. p \in 1..Len(sent.oids) /\ sent.oids[p] = asked[i]
            BY <1>1, <2>1, RequestType, ExactlyMatched
        <3>2. rsp[p] = Answer(asked[i])
            BY <1>2, <3>1
        <3>3. Merged(c, rsp)[i] = OverrideLeakingOid(rsp[p], c.reqOids[i].acl)
            BY <1>3, <2>1 DEF Merged
        <3>4. InRange(asked[i], c.reqOids[i].acl) /\ Allowed(asked[i])
            BY <2>1, ExactlyMatched
        <3> HIDE DEF p
        <3>5. rsp[p].oid = asked[i]
            BY <3>2 DEF VarBind
        <3>6. Merged(c, rsp)[i] = rsp[p]
            BY <3>3, <3>4, <3>5 DEF OverrideLeakingOid
        <3> QED BY <3>2, <3>4, <3>6 DEF ValueOf
    <2>2. CASE i \notin c.direct
        <3>1. Merged(c, rsp)[i] = VarBind(c.reqOids[i].oid, Absent(c.request.kind))
            BY <1>3, <2>2 DEF Merged
        <3> QED BY <2>2, <3>1, ExactlyMatched DEF Absent, ValueOf
    <2> QED BY <2>1, <2>2
<1>5. Merged(c, rsp) = [i \in 1..size |-> Merged(c, rsp)[i]]
    BY <1>3 DEF Merged
<1>6. AsIfUnlisted(kind, sent.value, asked) = [i \in 1..size |-> Value(i)]
    BY <1>3 DEF AsIfUnlisted
<1>7. Merged(c, rsp) = AsIfUnlisted(kind, sent.value, asked)
    <2> HIDE DEF Value, size, kind, asked
    <2> QED BY <1>4, <1>5, <1>6
<1> QED BY <1>7 DEF sent

(* When everything is denied, merging nothing changes nothing.             *)
LEMMA DeniedMerged ==
    ASSUME NEW c, CtxOK(c), \A i \in DOMAIN c.reqOids : c.reqOids[i].acl = NoAcl
    PROVE  c.direct = {} /\ \A rsp : Merged(c, rsp) = Denied(c)
<1>1. c.direct = {}
    BY DEF CtxOK, DirectOf
<1> QED BY <1>1 DEF Merged, Denied

(* A GET or SET that is denied as a whole.                                 *)
LEMMA DeniedAnswer ==
    ASSUME oidsList \in Lists, NEW c, CtxOK(c), c.list = oidsList, c.request.kind \in {"get", "set"},
           \A i \in DOMAIN c.reqOids : c.reqOids[i].acl = NoAcl, NEW value
    PROVE  Denied(c) = AsIfUnlisted(c.request.kind, value, c.request.oids)
<1>1. c.direct = {}
    BY DeniedMerged
<1>2. DOMAIN c.reqOids = 1..Len(c.request.oids) /\ DOMAIN c.request.oids = 1..Len(c.request.oids)
    BY CtxSets, RequestType DEF CtxOK
<1>3. ASSUME NEW i \in 1..Len(c.request.oids)
      PROVE  c.reqOids[i].oid = c.request.oids[i] /\ ~Allowed(c.request.oids[i])
    BY <1>1, ExactlyMatched
<1> QED BY <1>2, <1>3 DEF Denied, AsIfUnlisted, ValueOf, Absent

-----------------------------------------------------------------------------
(* GETNEXT and GETBULK: what one column of an answer shows of the MIB.     *)

(* Every allowed instance past an OID is at or past the range found for it, *)
(* and what is past that range is past where the plugin goes on from it.   *)
LEMMA AllowedAhead ==
    ASSUME oidsList \in Lists, mib \in Mibs, NEW asked \in Oids, NEW e \in Entry,
           MatchedNext(oidsList, asked, e), e.acl # NoAcl, e.acl <= Len(oidsList),
           NEW v \in mib, Allowed(v), v > asked
    PROVE  /\ e.acl \in 1..Len(oidsList)
           /\ v \in After(e.oid)
           /\ v >= oidsList[e.acl].begin
           /\ ~InRange(v, e.acl) => v > oidsList[e.acl].end /\ v > Onward(e.acl)
<1> DEFINE a == e.acl
<1>1. a \in 1..Len(oidsList) /\ e.oid \in Oids
    BY ListLines DEF Entry, NoAcl
<1>2. /\ asked < oidsList[a].end
      /\ \A j \in DOMAIN oidsList : asked < oidsList[j].end => a <= j
      /\ e.oid = IF asked < oidsList[a].begin THEN oidsList[a].skip ELSE asked
    BY DEF MatchedNext
<1>3. v \in Nat /\ asked \in Nat
    BY OidsAssumption
<1>4. PICK j \in 1..Len(oidsList) : InRange(v, j)
    BY ListLines DEF Allowed
<1> HIDE DEF a
<1>5. /\ oidsList[j].begin <= v /\ v <= oidsList[j].end
      /\ oidsList[j].begin \in Nat /\ oidsList[j].end \in Nat
      /\ oidsList[a].begin \in Nat /\ oidsList[a].end \in Nat /\ oidsList[a].skip \in Nat
      /\ oidsList[a].skip < oidsList[a].begin
    BY <1>1, <1>4, ListLines DEF InRange
<1>6. a <= j
    BY <1>2, <1>3, <1>4, <1>5, ListLines
<1>7. a < j => oidsList[a].begin < oidsList[j].begin /\ oidsList[a].end <= oidsList[j].begin
               /\ oidsList[a].begin <= oidsList[a].end
    BY <1>1, <1>4, ListSorted, ListLines
<1>8. v >= oidsList[a].begin
    BY <1>1, <1>3, <1>5, <1>6, <1>7
<1>9. v > e.oid
    BY <1>2, <1>3, <1>5, <1>8
<1>10. v \in After(e.oid)
    BY <1>9 DEF After
<1>11. ASSUME ~InRange(v, a) PROVE v > oidsList[a].end /\ v > Onward(a)
    <2>1. v > oidsList[a].end
        BY <1>3, <1>5, <1>8, <1>11 DEF InRange
    <2>2. a < j
        BY <1>1, <1>4, <1>6, <1>11
    <2>3. a + 1 \in 1..Len(oidsList) /\ a + 1 <= j
        BY <1>1, <2>2, ListLines
    <2> DEFINE b == a + 1
    <2>4. oidsList[b].begin <= oidsList[j].begin
        <3>1. b \in 1..Len(oidsList) /\ b <= j
            BY <2>3
        <3> HIDE DEF b
        <3>2. CASE b = j
            BY <1>5, <3>2
        <3>3. CASE b < j
            BY <3>1, <3>3, ListSorted, ListLines
        <3> QED BY <3>1, <3>2, <3>3
    <2>5. oidsList[b].skip < oidsList[b].begin /\ oidsList[b].skip \in Nat /\ oidsList[b].begin \in Nat
        BY <2>3, ListLines
    <2>6. Onward(a) = oidsList[b].skip
        BY <1>1, <2>3, ListLines DEF Onward
    <2> QED BY <1>3, <1>5, <2>1, <2>4, <2>5, <2>6
<1> QED BY <1>1, <1>8, <1>10, <1>11 DEF a

(* The agent has nothing between the OID it is asked for and the range.    *)
LEMMA SuccessorsReach ==
    ASSUME oidsList \in Lists, mib \in Mibs, SkipsFit, NEW asked \in Oids, NEW e \in Entry,
           MatchedNext(oidsList, asked, e), e.acl # NoAcl, e.acl <= Len(oidsList),
           NEW v \in After(e.oid)
    PROVE  v >= oidsList[e.acl].begin
<1> DEFINE a == e.acl
<1>1. a \in 1..Len(oidsList) /\ e.oid \in Oids /\ DOMAIN oidsList = 1..Len(oidsList)
    BY ListLines DEF Entry, NoAcl
<1>2. e.oid = IF asked < oidsList[a].begin THEN oidsList[a].skip ELSE asked
    BY DEF MatchedNext
<1>3. v \in Nat /\ asked \in Nat /\ v \in mib /\ v > e.oid
    BY <1>1, OidsAssumption DEF After
<1>4. oidsList[a].begin \in Nat /\ oidsList[a].skip \in Nat
    BY <1>1, ListLines
<1>5. ~(oidsList[a].skip < v /\ v < oidsList[a].begin)
    BY <1>1, <1>3 DEF SkipsFit
<1> HIDE DEF a
<1>6. v >= oidsList[a].begin
    BY <1>2, <1>3, <1>4, <1>5
<1> QED BY <1>6 DEF a

(* One answer to a GETNEXT, or to a non-repeater of a GETBULK.             *)
LEMMA NextRow ==
    ASSUME oidsList \in Lists, mib \in Mibs, SkipsFit, NEW asked \in Oids, NEW e \in Entry,
           MatchedNext(oidsList, asked, e), e.acl # NoAcl, e.acl <= Len(oidsList),
           NEW vb, vb = OverrideLeakingOid(Successor(e.oid, 1), e.acl),
           NEW v \in mib, Allowed(v), v > asked, v <= vb.oid \/ vb.value = "endOfMibView"
    PROVE  vb = VarBind(v, "data")
<1> DEFINE a == e.acl
           A == After(e.oid)
           s == Successor(e.oid, 1)
<1>1. /\ a \in 1..Len(oidsList) /\ v \in A
      /\ ~InRange(v, a) => v > oidsList[a].end /\ v > Onward(a)
    BY AllowedAhead
<1>2. e.oid \in Oids
    BY DEF Entry
<1>3. /\ A \in SUBSET Int /\ IsFiniteSet(A)
      /\ \A x \in A : Place(A, x) \in 1..Cardinality(A)
      /\ \A x, y \in A : x < y => Place(A, x) < Place(A, y)
      /\ Cardinality(A) \in Nat
    BY <1>2, MibSets, Places
<1>4. /\ s.value = "data" /\ s.oid \in A /\ Place(A, s.oid) = 1
      /\ s = VarBind(s.oid, "data")
    <2>1. Cardinality(A) >= 1
        BY <1>1, <1>3
    <2> QED BY <1>2, <1>3, <2>1, SuccessorFacts
<1>5. s.oid >= oidsList[a].begin
    BY <1>4, SuccessorsReach
<1> HIDE DEF A, s, a
<1>6. s.oid <= v
    <2>1. v \in Int /\ s.oid \in Int
        BY <1>1, <1>3, <1>4
    <2>2. v < s.oid => Place(A, v) < Place(A, s.oid)
        BY <1>1, <1>3, <1>4
    <2>3. Place(A, v) \in 1..Cardinality(A)
        BY <1>1, <1>3
    <2>4. ~(Place(A, v) < 1)
        BY <1>3, <2>3
    <2> QED BY <1>4, <2>1, <2>2, <2>4
<1>7. vb = OverrideLeakingOid(s, a) /\ v \in Nat /\ s.oid \in Int
    BY <1>1, <1>3, <1>4, OidsAssumption DEF s, a
<1>8. CASE InRange(s.oid, a)
    <2>1. vb = s
        BY <1>7, <1>8 DEF OverrideLeakingOid
    <2>2. v <= s.oid
        BY <1>4, <2>1
    <2>3. v = s.oid
        BY <1>6, <1>7, <2>2
    <2> QED BY <1>4, <2>1, <2>3
<1>9. CASE ~InRange(s.oid, a)
    <2>1. vb = VarBind(Onward(a), "null")
        BY <1>4, <1>7, <1>9 DEF OverrideLeakingOid
    <2>2. v <= Onward(a)
        BY <2>1 DEF VarBind
    <2>3. s.oid > oidsList[a].end /\ oidsList[a].end \in Nat
        BY <1>1, <1>5, <1>7, <1>9, ListLines DEF InRange
    <2>4. ~InRange(v, a)
        BY <1>6, <1>7, <2>3 DEF InRange
    <2>5. Onward(a) \in Nat
        <3>1. a \in DOMAIN oidsList
            BY <1>1, ListLines
        <3> QED BY <3>1, OnwardType, OidsAssumption
    <2> QED BY <1>1, <1>7, <2>2, <2>4, <2>5
<1> QED BY <1>8, <1>9

(* Nothing allowed is past an OID that was denied.                         *)
LEMMA NothingAfterDenied ==
    ASSUME oidsList \in Lists, NEW asked \in Oids, NEW e,
           MatchedNext(oidsList, asked, e), e.acl = NoAcl, NEW v \in Nat, Allowed(v)
    PROVE  e.oid = asked /\ v <= asked
<1>1. e.oid = asked /\ \A j \in DOMAIN oidsList : oidsList[j].end <= asked
    BY DEF MatchedNext
<1>2. PICK j \in 1..Len(oidsList) : InRange(v, j)
    BY ListLines DEF Allowed
<1>3. v <= oidsList[j].end /\ oidsList[j].end <= asked /\ oidsList[j].end \in Nat
    BY <1>1, <1>2, ListLines DEF InRange
<1> QED BY <1>1, <1>3, OidsAssumption

(* One answer of a column of one-OID ranges.                               *)
LEMMA OneOidRow ==
    ASSUME oidsList \in Lists, mib \in Mibs, SkipsFit, NEW a \in 1..Len(oidsList),
           oidsList[a].begin = oidsList[a].end, NEW v \in mib, InRange(v, a)
    PROVE  OverrideLeakingOid(Successor(oidsList[a].skip, 1), a) = VarBind(v, "data")
<1> DEFINE skip == oidsList[a].skip
           A == After(skip)
           s == Successor(skip, 1)
<1>1. /\ skip \in Oids /\ skip \in Nat /\ oidsList[a].begin \in Nat /\ skip < oidsList[a].begin
      /\ a \in DOMAIN oidsList
    BY ListLines
<1>2. v \in Nat /\ v = oidsList[a].begin
    <2>1. v \in Nat
        BY OidsAssumption
    <2>2. oidsList[a].begin <= v /\ v <= oidsList[a].begin
        BY DEF InRange
    <2> QED BY <1>1, <2>1, <2>2
<1>3. v \in A
    BY <1>1, <1>2 DEF After
<1>4. \A x \in A : x >= v /\ x \in Nat
    <2> TAKE x \in A
    <2>1. x \in mib /\ x > skip /\ x \in Nat
        BY <1>1, MibSets DEF After
    <2> QED BY <1>1, <1>2, <2>1 DEF SkipsFit
<1>5. /\ A \in SUBSET Int /\ IsFiniteSet(A) /\ Cardinality(A) \in Nat
      /\ \A x \in A : Place(A, x) \in 1..Cardinality(A)
      /\ \A x, y \in A : x < y => Place(A, x) < Place(A, y)
    BY <1>1, MibSets, Places
<1>6. Place(A, v) = 1
    <2>1. PICK y \in A : Place(A, y) = 1
        <3>1. 1 \in 1..Cardinality(A)
            BY <1>3, <1>5
        <3> HIDE DEF A
        <3> QED BY <1>5, <3>1, Places
    <2>2. Place(A, v) \in 1..Cardinality(A)
        BY <1>3, <1>5
    <2>3. v < y => Place(A, v) < Place(A, y)
        BY <1>3, <1>5
    <2> HIDE DEF A
    <2>4. ~(v < y)
        BY <1>5, <2>1, <2>2, <2>3
    <2> QED BY <1>2, <1>4, <2>1, <2>4
<1>7. s = VarBind(v, "data")
    BY <1>1, <1>3, <1>6, SuccessorData
<1> QED BY <1>7 DEF OverrideLeakingOid, VarBind

(* The answers to a column of one-OID ranges, row by row, and what it is   *)
(* padded with.                                                            *)
OneOidRows(e, size, depth, rows) ==
    /\ \A n \in 1..size :
           LET a == e.acl + n - 1
           IN /\ a \in 1..Len(oidsList)
              /\ oidsList[a].begin = oidsList[a].end
              /\ rows[n] = OverrideLeakingOid(Successor(oidsList[a].skip, 1), a)
    /\ \A n \in (size + 1)..depth :
           rows[n] = VarBind(IF size = 0 THEN e.oid ELSE Onward(e.acl + size - 1), "null")

(* Such a column passes no allowed instance over, up to its last row.      *)
LEMMA LinearizedColumn ==
    ASSUME oidsList \in Lists, mib \in Mibs, SkipsFit, NEW asked \in Oids, NEW e \in Entry,
           MatchedNext(oidsList, asked, e), e.acl # NoAcl, e.acl <= Len(oidsList),
           NEW size \in Nat, NEW depth \in Nat, size <= depth, NEW rows,
           OneOidRows(e, size, depth, rows), depth # 0,
           NEW v \in mib, Allowed(v), v > asked, v <= rows[depth].oid
    PROVE  \E n \in 1..depth : rows[n] = VarBind(v, "data")
<1> DEFINE first == e.acl
           b == first + size - 1
<1>1. /\ first \in 1..Len(oidsList) /\ v \in After(e.oid)
      /\ v >= oidsList[first].begin
      /\ ~InRange(v, first) => v > oidsList[first].end /\ v > Onward(first)
    BY AllowedAhead
<1>2. v \in Nat /\ asked \in Nat /\ e.oid \in Nat /\ e.oid \in Oids /\ v > e.oid
    BY <1>1, OidsAssumption DEF After, Entry
<1>3. Len(oidsList) \in Nat /\ DOMAIN oidsList = 1..Len(oidsList)
    BY ListLines
<1>4. PICK j \in 1..Len(oidsList) : InRange(v, j)
    BY <1>3 DEF Allowed
<1>5. oidsList[j].begin <= v /\ v <= oidsList[j].end /\ oidsList[j].begin \in Nat
      /\ oidsList[j].end \in Nat
    BY <1>4, ListLines DEF InRange
<1> HIDE DEF first
<1>6. first <= j
    <2>1. asked < oidsList[j].end
        BY <1>2, <1>5
    <2> QED BY <1>3, <1>4, <2>1 DEF MatchedNext, first
<1>7. size # 0
    <2> SUFFICES ASSUME size = 0 PROVE FALSE
        OBVIOUS
    <2>1. depth \in (size + 1)..depth
        OBVIOUS
    <2>2. rows[depth].oid = e.oid
        BY <2>1 DEF OneOidRows, VarBind
    <2> QED BY <1>2, <2>2
<1>8. ASSUME NEW n \in 1..size
      PROVE  LET a == first + n - 1
             IN /\ a \in 1..Len(oidsList)
                /\ oidsList[a].begin = oidsList[a].end
                /\ rows[n] = OverrideLeakingOid(Successor(oidsList[a].skip, 1), a)
    BY DEF OneOidRows, first
<1>9. /\ b \in 1..Len(oidsList) /\ oidsList[b].begin = oidsList[b].end
      /\ rows[size] = OverrideLeakingOid(Successor(oidsList[b].skip, 1), b)
    <2>1. size \in 1..size
        BY <1>7
    <2> QED BY <1>8, <2>1
<1>10. b \in Nat /\ b = first + size - 1 /\ oidsList[b].begin \in Nat /\ oidsList[b].end \in Nat
    BY <1>9, ListLines
<1> HIDE DEF b
<1>11. ASSUME b < j PROVE FALSE
    <2>1. oidsList[b].begin < oidsList[j].begin /\ oidsList[b].end <= oidsList[j].begin
        BY <1>4, <1>9, <1>11, ListSorted
    <2>2. b + 1 \in 1..Len(oidsList) /\ b + 1 <= j /\ b # Len(oidsList)
        BY <1>3, <1>4, <1>9, <1>10, <1>11
    <2>3. oidsList[b + 1].skip < oidsList[j].begin /\ oidsList[b + 1].skip \in Nat
        <3> DEFINE d == b + 1
        <3>1. d \in 1..Len(oidsList) /\ d <= j /\ j \in Nat /\ d \in Nat
            BY <1>4, <2>2
        <3> HIDE DEF d
        <3>2. oidsList[d].skip < oidsList[d].begin /\ oidsList[d].skip \in Nat /\ oidsList[d].begin \in Nat
            BY <3>1, ListLines
        <3>3. d < j => oidsList[d].begin < oidsList[j].begin
            BY <3>1, ListSorted
        <3>4. d = j \/ d < j
            BY <3>1
        <3>5. oidsList[d].skip < oidsList[j].begin
            BY <1>5, <3>2, <3>3, <3>4
        <3> QED BY <3>2, <3>5 DEF d
    <2>4. Onward(b) = oidsList[b + 1].skip
        BY <2>2 DEF Onward
    <2>5. ~(v <= Onward(b))
        BY <1>2, <1>5, <2>3, <2>4
    <2>6. rows[depth].oid = Onward(b) \/ (rows[depth].oid = oidsList[b].begin)
        <3>1. CASE size < depth
            <4>1. depth \in (size + 1)..depth
                BY <3>1
            <4>2. rows[depth] = VarBind(Onward(b), "null")
                BY <1>7, <4>1 DEF OneOidRows, b, first
            <4> QED BY <4>2 DEF VarBind
        <3>2. CASE size = depth
            <4> DEFINE s == Successor(oidsList[b].skip, 1)
            <4>1. rows[depth] = OverrideLeakingOid(s, b)
                BY <1>9, <3>2
            <4>2. s.oid \in Nat
                <5>1. oidsList[b].skip \in Oids
                    BY <1>9, ListLines
                <5>2. s \in VarBinds
                    BY <5>1, SuccessorFacts
                <5> HIDE DEF s
                <5> QED BY <5>2, OidsAssumption DEF VarBinds
            <4> HIDE DEF s
            <4>3. CASE InRange(s.oid, b)
                <5>1. s.oid = oidsList[b].begin
                    BY <1>9, <1>10, <4>2, <4>3 DEF InRange
                <5> QED BY <4>1, <4>3, <5>1 DEF OverrideLeakingOid
            <4>4. CASE ~InRange(s.oid, b)
                BY <4>1, <4>4 DEF OverrideLeakingOid, VarBind
            <4> QED BY <4>3, <4>4
        <3> QED BY <3>1, <3>2
    <2> QED BY <1>2, <1>5, <1>9, <1>10, <2>1, <2>5, <2>6
<1>12. j <= b
    BY <1>3, <1>4, <1>10, <1>11
<1> DEFINE m == j - first + 1
<1>13. m \in 1..size /\ m \in 1..depth /\ first + m - 1 = j
    BY <1>1, <1>3, <1>4, <1>6, <1>10, <1>12
<1> HIDE DEF m
<1>14. oidsList[j].begin = oidsList[j].end
       /\ rows[m] = OverrideLeakingOid(Successor(oidsList[j].skip, 1), j)
    BY <1>8, <1>13
<1>15. rows[m] = VarBind(v, "data")
    BY <1>4, <1>14, OneOidRow
<1> QED BY <1>13, <1>15

(* The answers to a repeater, row by row.                                  *)
LEMMA RepeaterColumn ==
    ASSUME oidsList \in Lists, mib \in Mibs, SkipsFit, NEW asked \in Oids, NEW e \in Entry,
           MatchedNext(oidsList, asked, e), e.acl # NoAcl, e.acl <= Len(oidsList),
           NEW depth \in Nat, depth # 0, NEW rows,
           \A n \in 1..depth : rows[n] = OverrideLeakingOid(Successor(e.oid, n), e.acl),
           NEW v \in mib, Allowed(v), v > asked, v <= rows[depth].oid
    PROVE  \E n \in 1..depth : rows[n] = VarBind(v, "data")
<1> DEFINE a == e.acl
           A == After(e.oid)
           s == Successor(e.oid, depth)
           p == Place(A, v)
<1>1. /\ a \in 1..Len(oidsList) /\ v \in A
      /\ v >= oidsList[a].begin
      /\ ~InRange(v, a) => v > oidsList[a].end /\ v > Onward(a)
    BY AllowedAhead
<1>2. e.oid \in Oids /\ v \in Nat
    BY OidsAssumption DEF Entry
<1>3. /\ A \in SUBSET Int /\ IsFiniteSet(A)
      /\ \A x \in A : Place(A, x) \in 1..Cardinality(A)
      /\ \A x, y \in A : x < y => Place(A, x) < Place(A, y)
      /\ Cardinality(A) \in Nat
    BY <1>2, MibSets, Places
<1>4. /\ s \in VarBinds
      /\ \/ depth <= Cardinality(A) /\ s.value = "data" /\ s.oid \in A /\ Place(A, s.oid) = depth
         \/ depth > Cardinality(A)
    BY <1>2, SuccessorFacts
<1>5. s.oid \in Nat /\ oidsList[a].end \in Nat /\ oidsList[a].begin \in Nat /\ Onward(a) \in Nat
    BY <1>1, <1>4, ListLines, OnwardType, OidsAssumption DEF VarBinds
<1>6. p \in 1..Cardinality(A)
    BY <1>1, <1>3
<1>7. rows[depth] = OverrideLeakingOid(s, a)
    <2>1. depth \in 1..depth
        OBVIOUS
    <2> QED BY <2>1
<1> HIDE DEF a, s
<1>8. rows[depth].oid = IF InRange(s.oid, a) THEN s.oid ELSE Onward(a)
    BY <1>7 DEF OverrideLeakingOid, VarBind
<1>9. InRange(v, a)
    <2>1. CASE InRange(s.oid, a)
        BY <1>1, <1>2, <1>5, <1>8, <2>1 DEF InRange
    <2>2. CASE ~InRange(s.oid, a)
        BY <1>1, <1>2, <1>5, <1>8, <2>2
    <2> QED BY <2>1, <2>2
<1>10. p <= depth
    <2>1. CASE depth <= Cardinality(A) /\ s.value = "data" /\ s.oid \in A /\ Place(A, s.oid) = depth
        <3>1. s.oid >= oidsList[a].begin
            <4> HIDE DEF A
            <4> QED BY <2>1, SuccessorsReach DEF a, A
        <3>2. v <= s.oid
            <4>1. CASE InRange(s.oid, a)
                BY <1>8, <4>1
            <4>2. CASE ~InRange(s.oid, a)
                <5>1. s.oid > oidsList[a].end
                    BY <1>5, <3>1, <4>2 DEF InRange
                <5> QED BY <1>2, <1>5, <1>9, <5>1 DEF InRange
            <4> QED BY <4>1, <4>2
        <3>3. v < s.oid => Place(A, v) < Place(A, s.oid)
            BY <1>1, <1>3, <2>1
        <3>4. v = s.oid \/ v < s.oid
            BY <1>2, <1>5, <3>2
        <3> HIDE DEF A
        <3>5. CASE v = s.oid
            BY <2>1, <3>5
        <3>6. CASE v < s.oid
            BY <1>3, <1>6, <2>1, <3>3, <3>6
        <3> QED BY <3>4, <3>5, <3>6
    <2>2. CASE depth > Cardinality(A)
        <3> HIDE DEF A, p
        <3> QED BY <1>3, <1>6, <2>2
    <2> QED BY <1>4, <2>1, <2>2
<1>11. Successor(e.oid, p) = VarBind(v, "data")
    BY <1>1, <1>2, SuccessorData
<1>12. p \in 1..depth
    <2> HIDE DEF p, A
    <2> QED BY <1>3, <1>6, <1>10
<1>13. rows[p] = OverrideLeakingOid(VarBind(v, "data"), a)
    BY <1>11, <1>12 DEF a
<1> HIDE DEF p, A
<1>14. rows[p] = VarBind(v, "data")
    BY <1>9, <1>13 DEF OverrideLeakingOid, VarBind
<1> QED BY <1>12, <1>14

-----------------------------------------------------------------------------
(* GETBULK: where the answers of the agent are found.                      *)

(* Cells are sent OID by OID: those up to a cell are those of the OIDs     *)
(* before, and its own column up to it.                                    *)
LEMMA CellsUpTo ==
    ASSUME NEW c, CtxOK(c), NEW i \in DOMAIN c.linearized, NEW n \in 1..Len(c.linearized[i])
    PROVE  LET before == {j \in DOMAIN c.linearized : j < i}
           IN /\ Cardinality(CellsTo(c, <<i, n>>)) = Cardinality(Cells(c, before)) + n
              /\ Cardinality(Cells(c, before)) \in Nat
<1> DEFINE D == DOMAIN c.linearized
           before == {j \in D : j < i}
           B == Cells(c, before)
           own == {i} \X (1..n)
<1>1. /\ D \in SUBSET Int /\ i \in Int /\ n \in Nat
      /\ \A j \in D : Len(c.linearized[j]) \in Nat
      /\ OneOidCells(c) = {cell \in D \X Nat : cell[2] \in 1..Len(c.linearized[cell[1]])}
    BY CtxSets, CellsFinite
<1>2. /\ B = {cell \in before \X Nat : cell[2] \in 1..Len(c.linearized[cell[1]])}
      /\ IsFiniteSet(B) /\ Cardinality(B) \in Nat
    <2>1. before \in SUBSET D
        OBVIOUS
    <2> HIDE DEF before
    <2> QED BY <2>1, CellsFinite
<1>3. IsFiniteSet(own) /\ Cardinality(own) = n
    <2>1. IsFiniteSet({i}) /\ Cardinality({i}) = 1
        BY FS_Singleton
    <2>2. IsFiniteSet(1..n) /\ Cardinality(1..n) = n
        BY <1>1, FS_Interval
    <2> DEFINE S == {i}
               T == 1..n
    <2> HIDE DEF S, T
    <2>3. IsFiniteSet(S \X T) /\ Cardinality(S \X T) = Cardinality(S) * Cardinality(T)
        BY <2>1, <2>2, FS_Product DEF S, T
    <2>4. own = S \X T
        BY DEF S, T
    <2>5. Cardinality(S) * Cardinality(T) = n
        BY <1>1, <2>1, <2>2 DEF S, T
    <2> QED BY <2>3, <2>4, <2>5
<1> DEFINE to == CellsTo(c, <<i, n>>)
<1>4. to = {d \in OneOidCells(c) : d[1] < i \/ (d[1] = i /\ d[2] <= n)}
    BY DEF CellsTo
<1>5. to = B \cup own
    <2>1. ASSUME NEW d \in to PROVE d \in B \cup own
        <3>1. d \in D \X Nat /\ d[2] \in 1..Len(c.linearized[d[1]])
              /\ (d[1] < i \/ (d[1] = i /\ d[2] <= n))
            BY <1>1, <1>4, <2>1
        <3>2. d = <<d[1], d[2]>> /\ d[1] \in D /\ d[2] \in Nat /\ d[2] >= 1
            BY <1>1, <3>1
        <3>3. d[1] < i => d \in before \X Nat
            BY <3>2
        <3>4. d[1] < i => d \in B
            BY <1>2, <3>1, <3>3
        <3>5. d[1] = i /\ d[2] <= n => d \in own
            BY <1>1, <3>2
        <3> QED BY <3>1, <3>4, <3>5
    <2>2. ASSUME NEW d \in B PROVE d \in to
        <3>1. d \in before \X Nat /\ d[2] \in 1..Len(c.linearized[d[1]])
            BY <1>2, <2>2
        <3>2. d \in D \X Nat /\ d[1] < i
            BY <3>1
        <3> QED BY <1>1, <1>4, <3>1, <3>2
    <2>3. ASSUME NEW d \in own PROVE d \in to
        <3>1. d[1] = i /\ d[2] \in 1..n /\ d = <<d[1], d[2]>>
            BY <2>3
        <3>2. Len(c.linearized[i]) \in Nat
            BY <1>1
        <3>3. d[2] \in 1..Len(c.linearized[i]) /\ d[2] \in Nat /\ d[2] <= n
            BY <1>1, <3>1, <3>2
        <3>4. d \in D \X Nat
            BY <3>1, <3>3
        <3> QED BY <1>1, <1>4, <3>1, <3>3, <3>4
    <2> HIDE DEF to, B, own
    <2> QED BY <2>1, <2>2, <2>3
<1>6. B \cap own = {}
    <2> SUFFICES ASSUME NEW d \in B, d \in own PROVE FALSE
        OBVIOUS
    <2>1. d[1] < i
        BY <1>2
    <2>2. d[1] = i
        OBVIOUS
    <2> QED BY <1>1, <2>1, <2>2
<1> HIDE DEF B, own, to
<1>7. Cardinality(B \cup own) = Cardinality(B) + Cardinality(own) - Cardinality(B \cap own)
    BY <1>2, <1>3, FS_Union
<1>8. Cardinality(B \cap own) = 0
    BY <1>6, FS_EmptySet
<1>9. Cardinality(to) = Cardinality(B) + n
    BY <1>1, <1>2, <1>3, <1>5, <1>7, <1>8
<1> QED BY <1>2, <1>9 DEF to, B

(* Without the one that is counted.                                        *)
LEMMA PlaceBefore ==
    ASSUME NEW S \in SUBSET Int, IsFiniteSet(S), NEW x \in S
    PROVE  /\ Cardinality({y \in S : y < x}) = Place(S, x) - 1
           /\ Place(S, x) \in 1..Cardinality(S) /\ Cardinality(S) \in Nat
<1> DEFINE B == {y \in S : y < x}
           T == {y \in S : y <= x}
<1>1. IsFiniteSet(B)
    <2>1. B \in SUBSET S
        OBVIOUS
    <2> HIDE DEF B
    <2> QED BY <2>1, FS_Subset
<1>2. T = B \cup {x} /\ x \notin B
    <2>1. x \in Int /\ \A y \in S : y \in Int
        OBVIOUS
    <2>2. \A y \in S : y <= x <=> (y < x \/ y = x)
        BY <2>1
    <2>3. x <= x /\ ~(x < x)
        BY <2>1
    <2> QED BY <2>2, <2>3
<1>3. Place(S, x) = Cardinality(T)
    BY DEF Place
<1> HIDE DEF B, T
<1>4. Cardinality(B \cup {x}) = Cardinality(B) + 1 /\ Cardinality(B) \in Nat
    BY <1>1, <1>2, FS_AddElement, FS_CardinalityType
<1>5. Cardinality(B) = Place(S, x) - 1
    BY <1>2, <1>3, <1>4
<1>6. Place(S, x) \in 1..Cardinality(S) /\ Cardinality(S) \in Nat
    BY Places
<1> QED BY <1>5, <1>6 DEF B

(* GETBULKs of which no non-repeater was denied: what of the agent's       *)
(* answer is where.                                                        *)
LEMMA SentDirects ==
    ASSUME NEW c, CtxOK(c), c.request.kind = "getbulk", 1..NonRepeaters(c) \subseteq c.direct
    PROVE  /\ c.direct = 1..NonRepeaters(c) /\ Cardinality(c.direct) = NonRepeaters(c)
           /\ \A k \in 1..NonRepeaters(c) : Place(c.direct, k) = k
           /\ NonRepeaters(c) \in Nat
<1> DEFINE nonRep == NonRepeaters(c)
<1>1. /\ nonRep \in Nat /\ nonRep <= c.request.nonRepeaters /\ nonRep <= Len(c.reqOids)
      /\ nonRep = c.request.nonRepeaters \/ nonRep = Len(c.reqOids)
    BY NonRepeatersFacts
<1>2. DOMAIN c.reqOids = 1..Len(c.reqOids) /\ Len(c.reqOids) \in Nat
    BY CtxSets
<1>3. c.direct \subseteq 1..nonRep
    <2>1. c.direct = DirectOf(c) /\ c.request.nonRepeaters \in Nat
        BY CtxSets DEF CtxOK
    <2> HIDE DEF nonRep
    <2> QED BY <1>1, <1>2, <2>1 DEF DirectOf
<1>4. c.direct = 1..nonRep
    BY <1>3
<1> HIDE DEF nonRep
<1>5. Cardinality(1..nonRep) = nonRep
    BY <1>1, FS_Interval
<1>6. ASSUME NEW k \in 1..nonRep PROVE Place(c.direct, k) = k
    <2>1. k \in Nat /\ k <= nonRep
        BY <1>1
    <2>2. {y \in 1..nonRep : y <= k} = 1..k
        BY <1>1, <2>1
    <2>3. Cardinality(1..k) = k
        BY <2>1, FS_Interval
    <2> QED BY <1>4, <2>2, <2>3 DEF Place
<1> QED BY <1>1, <1>4, <1>5, <1>6 DEF nonRep

(* Where the parts of a response are, when there are columns.              *)
LEMMA SentColumns ==
    ASSUME NEW c, CtxOK(c), c.request.kind = "getbulk", 1..NonRepeaters(c) \subseteq c.direct,
           NonRepeaters(c) < Len(c.reqOids)
    PROVE  LET sent == Forwarded(c)
               ones == Cardinality(OneOidCells(c))
               reps == Cardinality(c.repeaters)
           IN /\ NonRepeaters(c) = c.request.nonRepeaters
              /\ sent.nonRepeaters = NonRepeaters(c) + ones
              /\ Len(sent.oids) = NonRepeaters(c) + ones + reps
              /\ Min({sent.nonRepeaters, Len(sent.oids)}) = NonRepeaters(c) + ones
              /\ MaxColumns(sent) = reps
              /\ ones \in Nat /\ reps \in Nat /\ NonRepeaters(c) \in Nat
              /\ Cardinality(c.direct) = NonRepeaters(c)
<1> DEFINE sent == Forwarded(c)
           ones == Cardinality(OneOidCells(c))
           reps == Cardinality(c.repeaters)
           nonRep == NonRepeaters(c)
<1>1. Cardinality(c.direct) = nonRep /\ nonRep \in Nat
    BY SentDirects
<1>2. nonRep = c.request.nonRepeaters
    BY NonRepeatersFacts, CtxSets
<1>3. /\ sent \in Request
      /\ sent.nonRepeaters = c.request.nonRepeaters + ones
      /\ ones \in Nat /\ reps \in Nat
      /\ Len(sent.oids) = Cardinality(c.direct) + ones + reps
    BY ForwardedParts
<1> DEFINE two == {sent.nonRepeaters, Len(sent.oids)}
           m == Min(two)
<1>4. (m = sent.nonRepeaters \/ m = Len(sent.oids)) /\ m <= sent.nonRepeaters /\ m <= Len(sent.oids)
    <2>1. two \in SUBSET Int /\ two # {}
        BY <1>3, RequestType
    <2>2. IsFiniteSet(two)
        <3>1. IsFiniteSet({sent.nonRepeaters})
            BY FS_Singleton
        <3>2. IsFiniteSet({sent.nonRepeaters} \cup {Len(sent.oids)})
            BY <3>1, FS_AddElement
        <3>3. two = {sent.nonRepeaters} \cup {Len(sent.oids)}
            OBVIOUS
        <3> HIDE DEF two
        <3> QED BY <3>2, <3>3
    <2>3. m \in two /\ \A y \in two : m <= y
        <3> HIDE DEF two
        <3> QED BY <2>1, <2>2, MaxAndMin
    <2> HIDE DEF m
    <2> QED BY <2>3
<1> HIDE DEF sent, ones, reps, nonRep, m
<1>5. m = nonRep + ones
    BY <1>1, <1>2, <1>3, <1>4
<1>6. MaxColumns(sent) = reps
    BY <1>1, <1>2, <1>3 DEF MaxColumns
<1> QED BY <1>1, <1>2, <1>3, <1>5, <1>6 DEF sent, ones, reps, nonRep, m

(* Only GETBULKs with OIDs after the non-repeaters have columns.           *)
LEMMA ColumnsAfter ==
    ASSUME NEW c, CtxOK(c), NEW i \in DOMAIN c.linearized \cup c.repeaters
    PROVE  /\ i \in 1..Len(c.reqOids) /\ i > NonRepeaters(c) /\ NonRepeaters(c) < Len(c.reqOids)
           /\ i \in DOMAIN c.linearized <=> i \notin c.repeaters
<1>1. i \in ColumnsOf(c) /\ (i \in DOMAIN c.linearized <=> i \notin c.repeaters)
    BY DEF CtxOK
<1>2. i \in DOMAIN c.reqOids /\ i > c.request.nonRepeaters
    BY <1>1 DEF ColumnsOf
<1>3. DOMAIN c.reqOids = 1..Len(c.reqOids) /\ Len(c.reqOids) \in Nat /\ c.request.nonRepeaters \in Nat
    BY CtxSets
<1>4. NonRepeaters(c) \in Nat /\ NonRepeaters(c) <= c.request.nonRepeaters
    BY NonRepeatersFacts
<1> QED BY <1>1, <1>2, <1>3, <1>4

(* The answer to a cell of a linearized column is where it was sent.       *)
LEMMA OneOidPlace ==
    ASSUME NEW c, CtxOK(c), c.request.kind = "getbulk", 1..NonRepeaters(c) \subseteq c.direct,
           NEW i \in DOMAIN c.linearized, NEW n \in 1..Len(c.linearized[i])
    PROVE  LET part == OneOidPart(c, i, n)
               up == Cardinality(CellsTo(c, <<i, n>>))
           IN /\ <<i, n>> \in OneOidCells(c) /\ up \in 1..Cardinality(OneOidCells(c))
              /\ part[1] = NonRepeaters(c) + up /\ part[2] = c.reqOids[i].acl + n - 1
<1> DEFINE ones == Cardinality(OneOidCells(c))
           nonRep == NonRepeaters(c)
           cell == <<i, n>>
           up == Cardinality(CellsTo(c, cell))
           before == {j \in DOMAIN c.linearized : j < i}
           part == OneOidPart(c, i, n)
<1>1. i \notin c.repeaters /\ nonRep < Len(c.reqOids)
    BY ColumnsAfter
<1>2. nonRep \in Nat /\ Cardinality(c.direct) = nonRep
    BY <1>1, SentColumns
<1>3. cell \in OneOidCells(c) /\ n \in Nat /\ n >= 1
    <2>1. n \in Nat /\ n >= 1
        BY CellsFinite
    <2> QED BY <2>1, CellsFinite
<1>4. up \in 1..ones
    BY <1>3, CellPlaces
<1>5. up = Cardinality(Cells(c, before)) + n /\ Cardinality(Cells(c, before)) \in Nat
    BY CellsUpTo
<1>6. Start(c, i) = 1 + nonRep + Cardinality(Cells(c, before))
    <2>1. {j \in DOMAIN c.linearized : j < i \/ i \in c.repeaters} = before
        BY <1>1
    <2>2. {j \in c.repeaters : i \in c.repeaters /\ j < i} = {}
        BY <1>1
    <2>3. Cardinality({}) = 0
        BY FS_EmptySet
    <2>4. Start(c, i) = 1 + Cardinality(c.direct) + Cardinality(Cells(c, before)) + Cardinality({})
        BY <2>1, <2>2 DEF Start
    <2> HIDE DEF nonRep, before
    <2> QED BY <1>2, <1>5, <2>3, <2>4
<1>7. part[1] = nonRep + up /\ part[2] = c.reqOids[i].acl + n - 1
    <2>1. part[1] = Start(c, i) + n - 1 /\ part[2] = c.reqOids[i].acl + n - 1
        BY DEF OneOidPart
    <2> HIDE DEF part, nonRep, up, before
    <2> QED BY <1>2, <1>3, <1>5, <1>6, <2>1
<1> QED BY <1>3, <1>4, <1>7

(* The answer to a row of a repeater is where the agent puts it.           *)
LEMMA RepeaterPlace ==
    ASSUME NEW c, CtxOK(c), c.request.kind = "getbulk", 1..NonRepeaters(c) \subseteq c.direct,
           NEW i \in c.repeaters, NEW n
    PROVE  LET part == RepeaterPart(c, i, n, Forwarded(c))
               ones == Cardinality(OneOidCells(c))
               reps == Cardinality(c.repeaters)
               p == Place(c.repeaters, i)
           IN /\ p \in 1..reps /\ reps \in Nat /\ ones \in Nat
              /\ part[1] = NonRepeaters(c) + ones + p + reps * (n - 1)
              /\ part[2] = c.reqOids[i].acl
<1> DEFINE sent == Forwarded(c)
           ones == Cardinality(OneOidCells(c))
           reps == Cardinality(c.repeaters)
           nonRep == NonRepeaters(c)
           p == Place(c.repeaters, i)
           part == RepeaterPart(c, i, n, sent)
<1>1. nonRep < Len(c.reqOids)
    BY ColumnsAfter
<1>2. /\ MaxColumns(sent) = reps
      /\ ones \in Nat /\ reps \in Nat /\ nonRep \in Nat /\ Cardinality(c.direct) = nonRep
    BY <1>1, SentColumns
<1>3. p \in 1..reps /\ Cardinality({j \in c.repeaters : j < i}) = p - 1
    BY CtxSets, PlaceBefore
<1>4. Start(c, i) = nonRep + ones + p
    <2>1. {j \in DOMAIN c.linearized : j < i \/ i \in c.repeaters} = DOMAIN c.linearized
        OBVIOUS
    <2>2. {j \in c.repeaters : i \in c.repeaters /\ j < i} = {j \in c.repeaters : j < i}
        OBVIOUS
    <2>3. Cardinality(Cells(c, DOMAIN c.linearized)) = ones
        BY DEF OneOidCells
    <2> HIDE DEF nonRep, ones, p
    <2>4. Start(c, i) = 1 + nonRep + ones + (p - 1)
        BY <1>2, <1>3, <2>1, <2>2, <2>3 DEF Start
    <2> QED BY <1>2, <1>3, <2>4
<1>5. part[1] = nonRep + ones + p + reps * (n - 1) /\ part[2] = c.reqOids[i].acl
    BY <1>2, <1>4 DEF RepeaterPart
<1> QED BY <1>2, <1>3, <1>5

(* Quotient and remainder of a position in a table.                        *)
LEMMA Division ==
    ASSUME NEW b \in Nat, NEW m \in Nat, NEW w \in Nat, w < b
    PROVE  (b * m + w) \div b = m /\ (b * m + w) % b = w
OBVIOUS

(* What a part of the response is used for, and where it is.               *)
ForNonRepeater(c, u) ==
    \E i \in 1..NonRepeaters(c) : u = NonRepeaterPart(c, i) /\ u[1] = i
ForCell(c, u) ==
    \E cell \in OneOidCells(c) :
        /\ u = OneOidPart(c, cell[1], cell[2])
        /\ Cardinality(CellsTo(c, cell)) \in 1..Cardinality(OneOidCells(c))
        /\ u[1] = NonRepeaters(c) + Cardinality(CellsTo(c, cell))
ForRepeater(c, u) ==
    \E i \in c.repeaters, m \in Nat :
        LET base == NonRepeaters(c) + Cardinality(OneOidCells(c))
        IN /\ u = RepeaterPart(c, i, m + 1, Forwarded(c))
           /\ Place(c.repeaters, i) \in 1..Cardinality(c.repeaters)
           /\ Cardinality(c.repeaters) \in Nat /\ Cardinality(c.repeaters) * m \in Nat
           /\ u[1] = base + Place(c.repeaters, i) + Cardinality(c.repeaters) * m

(* Every part used is for one of these.                                    *)
LEMMA UsedPlaces ==
    ASSUME NEW c, CtxOK(c), c.request.kind = "getbulk", 1..NonRepeaters(c) \subseteq c.direct,
           NEW rsp \in Seq(VarBinds), ~BulkLost(c, Forwarded(c), rsp),
           NEW u \in Used(c, Forwarded(c), rsp)
    PROVE  ForNonRepeater(c, u) \/ ForCell(c, u) \/ ForRepeater(c, u)
<1> DEFINE sent == Forwarded(c)
<1>1. CASE \E i \in c.direct : i <= NonRepeaters(c) /\ u = NonRepeaterPart(c, i)
    <2>1. PICK i \in c.direct : i <= NonRepeaters(c) /\ u = NonRepeaterPart(c, i)
        BY <1>1
    <2>2. i \in 1..NonRepeaters(c)
        BY SentDirects
    <2>3. u[1] = i
        BY <2>1 DEF NonRepeaterPart
    <2> QED BY <2>1, <2>2, <2>3 DEF ForNonRepeater
<1>2. CASE \E cell \in OneOidCells(c) : u = OneOidPart(c, cell[1], cell[2])
    <2>1. PICK cell \in OneOidCells(c) : u = OneOidPart(c, cell[1], cell[2])
        BY <1>2
    <2>2. cell[1] \in DOMAIN c.linearized /\ cell[2] \in 1..Len(c.linearized[cell[1]])
          /\ cell = <<cell[1], cell[2]>>
        BY CellsFinite
    <2> DEFINE up == Cardinality(CellsTo(c, <<cell[1], cell[2]>>))
    <2>3. up \in 1..Cardinality(OneOidCells(c)) /\ u[1] = NonRepeaters(c) + up
        BY <2>1, <2>2, OneOidPlace
    <2>4. up = Cardinality(CellsTo(c, cell))
        BY <2>2
    <2> HIDE DEF up
    <2> QED BY <2>1, <2>3, <2>4 DEF ForCell
<1>3. CASE \E cell \in RepeaterCells(c, sent, rsp) : u = RepeaterPart(c, cell[1], cell[2], sent)
    <2>1. PICK cell \in RepeaterCells(c, sent, rsp) : u = RepeaterPart(c, cell[1], cell[2], sent)
        BY <1>3
    <2> DEFINE i == cell[1]
               n == cell[2]
               m == n - 1
               reps == Cardinality(c.repeaters)
    <2>2. i \in c.repeaters /\ n \in 1..ColumnDepth(sent, rsp)
        BY DEF RepeaterCells
    <2>3. ColumnDepth(sent, rsp) \in Nat
        <3>1. sent \in Request
            BY ForwardedParts
        <3> QED BY <3>1, DepthFacts
    <2>4. m \in Nat /\ n = m + 1
        BY <2>2, <2>3
    <2>5. /\ Place(c.repeaters, i) \in 1..reps /\ reps \in Nat
          /\ u[1] = NonRepeaters(c) + Cardinality(OneOidCells(c)) + Place(c.repeaters, i) + reps * m
        BY <2>1, <2>2, RepeaterPlace
    <2>6. reps * m \in Nat
        BY <2>4, <2>5
    <2>7. u = RepeaterPart(c, i, m + 1, sent)
        BY <2>1, <2>4
    <2> HIDE DEF i, m
    <2> QED BY <2>2, <2>4, <2>5, <2>6, <2>7 DEF ForRepeater
<1> QED BY <1>1, <1>2, <1>3 DEF Used

(* They do not overlap: no variable-binding is used for two OIDs.          *)
LEMMA OneReader ==
    ASSUME NEW c, CtxOK(c), c.request.kind = "getbulk", 1..NonRepeaters(c) \subseteq c.direct,
           NEW rsp \in Seq(VarBinds), ~BulkLost(c, Forwarded(c), rsp),
           NEW u \in Used(c, Forwarded(c), rsp), NEW w \in Used(c, Forwarded(c), rsp), w[1] = u[1]
    PROVE  w = u
<1> DEFINE ones == Cardinality(OneOidCells(c))
           reps == Cardinality(c.repeaters)
           nonRep == NonRepeaters(c)
           InDirects(v) == v[1] \in Nat /\ v[1] <= nonRep
           InCells(v) == v[1] \in Nat /\ nonRep < v[1] /\ v[1] <= nonRep + ones
           InRepeaters(v) == v[1] \in Nat /\ nonRep + ones < v[1]
<1>1. nonRep \in Nat /\ ones \in Nat
    BY NonRepeatersFacts, CellsFinite
<1>2. \A v : ForNonRepeater(c, v) => InDirects(v)
    <2> HIDE DEF nonRep
    <2> QED BY <1>1 DEF ForNonRepeater, nonRep
<1>3. \A v : ForCell(c, v) => InCells(v)
    <2> SUFFICES ASSUME NEW v, ForCell(c, v) PROVE InCells(v)
        OBVIOUS
    <2>1. PICK k \in 1..ones : v[1] = nonRep + k
        BY DEF ForCell
    <2> HIDE DEF ones, nonRep
    <2> QED BY <1>1, <2>1
<1>4. \A v : ForRepeater(c, v) => InRepeaters(v)
    <2> SUFFICES ASSUME NEW v, ForRepeater(c, v) PROVE InRepeaters(v)
        OBVIOUS
    <2>1. reps \in Nat /\ \E p \in 1..reps, x \in Nat : v[1] = nonRep + ones + p + x
        BY DEF ForRepeater
    <2> HIDE DEF ones, nonRep, reps
    <2> QED BY <1>1, <2>1
<1>5. /\ ForNonRepeater(c, u) \/ ForCell(c, u) \/ ForRepeater(c, u)
      /\ ForNonRepeater(c, w) \/ ForCell(c, w) \/ ForRepeater(c, w)
    BY UsedPlaces
<1>6. \/ ForNonRepeater(c, u) /\ ForNonRepeater(c, w)
      \/ ForCell(c, u) /\ ForCell(c, w)
      \/ ForRepeater(c, u) /\ ForRepeater(c, w)
    <2> HIDE DEF ones, nonRep
    <2>1. ~(InDirects(u) /\ InCells(w)) /\ ~(InDirects(u) /\ InRepeaters(w)) /\ ~(InCells(u) /\ InRepeaters(w))
        BY <1>1
    <2>2. ~(InDirects(w) /\ InCells(u)) /\ ~(InDirects(w) /\ InRepeaters(u)) /\ ~(InCells(w) /\ InRepeaters(u))
        BY <1>1
    <2> HIDE DEF InDirects, InCells, InRepeaters
    <2> QED BY <1>2, <1>3, <1>4, <1>5, <2>1, <2>2
<1>7. CASE ForNonRepeater(c, u) /\ ForNonRepeater(c, w)
    BY <1>7 DEF ForNonRepeater
<1>8. CASE ForCell(c, u) /\ ForCell(c, w)
    <2>1. PICK x \in OneOidCells(c) :
              u = OneOidPart(c, x[1], x[2]) /\ Cardinality(CellsTo(c, x)) \in 1..ones
              /\ u[1] = nonRep + Cardinality(CellsTo(c, x))
        BY <1>8 DEF ForCell
    <2>2. PICK y \in OneOidCells(c) :
              w = OneOidPart(c, y[1], y[2]) /\ Cardinality(CellsTo(c, y)) \in 1..ones
              /\ w[1] = nonRep + Cardinality(CellsTo(c, y))
        BY <1>8 DEF ForCell
    <2> DEFINE a == Cardinality(CellsTo(c, x))
               b == Cardinality(CellsTo(c, y))
    <2>3. NthCell(c, a) = x /\ NthCell(c, b) = y
        BY CellPlaces
    <2>4. a = b
        <3>1. a \in 1..ones /\ b \in 1..ones /\ nonRep + a = nonRep + b
            BY <2>1, <2>2
        <3> HIDE DEF a, b, ones, nonRep
        <3> QED BY <1>1, <3>1
    <2>5. x = y
        BY <2>3, <2>4
    <2> QED BY <2>1, <2>2, <2>5
<1>9. CASE ForRepeater(c, u) /\ ForRepeater(c, w)
    <2> DEFINE base == nonRep + ones
               At(i, m) == base + Place(c.repeaters, i) + reps * m
    <2>1. PICK i \in c.repeaters, m \in Nat :
              /\ u = RepeaterPart(c, i, m + 1, Forwarded(c)) /\ Place(c.repeaters, i) \in 1..reps
              /\ reps \in Nat /\ u[1] = At(i, m)
        BY <1>9 DEF ForRepeater
    <2>2. PICK j \in c.repeaters, k \in Nat :
              /\ w = RepeaterPart(c, j, k + 1, Forwarded(c)) /\ Place(c.repeaters, j) \in 1..reps
              /\ reps \in Nat /\ w[1] = At(j, k)
        BY <1>9 DEF ForRepeater
    <2> DEFINE p == Place(c.repeaters, i)
               q == Place(c.repeaters, j)
    <2>3. p \in 1..reps /\ q \in 1..reps /\ reps \in Nat /\ base \in Nat
          /\ base + p + reps * m = base + q + reps * k
        BY <1>1, <2>1, <2>2
    <2>4. p = q /\ m = k
        <3> HIDE DEF p, q, reps, base
        <3>1. reps * m \in Nat /\ reps * k \in Nat
            BY <2>3
        <3>2. p - 1 \in Nat /\ p - 1 < reps /\ q - 1 \in Nat /\ q - 1 < reps
            BY <2>3
        <3>3. reps * m + (p - 1) = reps * k + (q - 1)
            <4> DEFINE x == reps * m
                       y == reps * k
            <4>1. x \in Nat /\ y \in Nat /\ base + p + x = base + q + y
                BY <2>3, <3>1
            <4> HIDE DEF x, y
            <4>2. x + (p - 1) = y + (q - 1)
                BY <2>3, <4>1
            <4> QED BY <4>2 DEF x, y
        <3>4. (reps * m + (p - 1)) \div reps = m /\ (reps * m + (p - 1)) % reps = p - 1
            BY <2>3, <3>2, Division
        <3>5. (reps * k + (q - 1)) \div reps = k /\ (reps * k + (q - 1)) % reps = q - 1
            BY <2>3, <3>2, Division
        <3>6. m = k /\ p - 1 = q - 1
            BY <3>3, <3>4, <3>5
        <3> QED BY <2>3, <3>6
    <2>5. i = j
        <3>1. Nth(c.repeaters, p) = i /\ Nth(c.repeaters, q) = j
            BY CtxSets, Places
        <3> QED BY <2>4, <3>1
    <2> QED BY <2>1, <2>2, <2>4, <2>5
<1> QED BY <1>6, <1>7, <1>8, <1>9

(* So every part used is overridden once.                                  *)
LEMMA ReadsOnce ==
    ASSUME NEW c, CtxOK(c), c.request.kind = "getbulk", 1..NonRepeaters(c) \subseteq c.direct,
           NEW rsp \in Seq(VarBinds), ~BulkLost(c, Forwarded(c), rsp),
           NEW u \in Used(c, Forwarded(c), rsp)
    PROVE  Overridden(c, Forwarded(c), rsp, u[1]) = OverrideLeakingOid(rsp[u[1]], u[2])
BY OneReader, OverriddenOnce

(* The answer to a non-repeater is where its OID is in the request.        *)
LEMMA NonRepeaterRow ==
    ASSUME mib \in Mibs, NEW c, CtxOK(c), c.request.kind = "getbulk",
           1..NonRepeaters(c) \subseteq c.direct,
           NEW rsp \in Responses(Forwarded(c)), ~BulkLost(c, Forwarded(c), rsp),
           NEW k \in 1..NonRepeaters(c)
    PROVE  NonRepeater(c, k, Forwarded(c), rsp) =
               OverrideLeakingOid(Successor(c.reqOids[k].oid, 1), c.reqOids[k].acl)
<1> DEFINE sent == Forwarded(c)
           ones == Cardinality(OneOidCells(c))
           reps == Cardinality(c.repeaters)
           nonRep == NonRepeaters(c)
           nonRepSent == Min({sent.nonRepeaters, Len(sent.oids)})
<1>1. /\ c.direct = 1..nonRep /\ Cardinality(c.direct) = nonRep
      /\ Place(c.direct, k) = k /\ nonRep \in Nat
    BY SentDirects
<1>2. nonRep <= c.request.nonRepeaters /\ c.request.nonRepeaters \in Nat
    BY NonRepeatersFacts, CtxSets
<1>3. /\ sent \in Request /\ sent.kind = "getbulk"
      /\ sent.nonRepeaters = c.request.nonRepeaters + ones
      /\ ones \in Nat /\ reps \in Nat
      /\ Len(sent.oids) = Cardinality(c.direct) + ones + reps
      /\ sent.oids[Place(c.direct, k)] = c.reqOids[k].oid
    BY <1>1, ForwardedParts
<1>4. /\ nonRepSent = sent.nonRepeaters \/ nonRepSent = Len(sent.oids)
      /\ \A n \in 1..nonRepSent : Bulk(sent)[n] = Successor(sent.oids[n], 1)
      /\ nonRepSent \in Nat
    BY <1>3, BulkFacts
<1>5. /\ rsp \in Seq(VarBinds)
      /\ \A n \in 1..Len(rsp) : rsp[n] = Bulk(sent)[n]
    BY <1>3, ResponsesFacts
<1> DEFINE u == NonRepeaterPart(c, k)
<1>6. k \in DOMAIN rsp /\ NonRepeater(c, k, sent, rsp) = OverrideLeakingOid(rsp[k], c.reqOids[k].acl)
    <2>1. k \in {i \in c.direct : i <= nonRep}
        BY <1>1
    <2>2. u \in Used(c, sent, rsp)
        BY <2>1 DEF Used
    <2>3. u[1] \in DOMAIN rsp
        BY <2>2 DEF BulkLost
    <2>4. u[1] = k /\ u[2] = c.reqOids[k].acl
        BY DEF NonRepeaterPart
    <2>5. NonRepeater(c, k, sent, rsp) = Overridden(c, sent, rsp, u[1])
        BY <2>1 DEF NonRepeater
    <2> HIDE DEF u
    <2>6. Overridden(c, sent, rsp, u[1]) = OverrideLeakingOid(rsp[u[1]], u[2])
        BY <1>5, <2>2, ReadsOnce
    <2> QED BY <2>3, <2>4, <2>5, <2>6
<1> HIDE DEF sent, ones, reps, nonRep, nonRepSent
<1>7. k \in 1..nonRepSent
    <2>1. k \in 1..nonRep
        BY DEF nonRep
    <2>2. nonRep <= nonRepSent
        BY <1>1, <1>2, <1>3, <1>4
    <2> QED BY <1>1, <1>4, <2>1, <2>2
<1>8. rsp[k] = Successor(c.reqOids[k].oid, 1)
    BY <1>1, <1>3, <1>4, <1>5, <1>6, <1>7
<1> QED BY <1>6, <1>8 DEF sent

(* A cell of a linearized column is the answer to the OID sent for it.     *)
LEMMA OneOidCellRow ==
    ASSUME mib \in Mibs, NEW c, CtxOK(c), c.request.kind = "getbulk",
           1..NonRepeaters(c) \subseteq c.direct,
           NEW rsp \in Responses(Forwarded(c)), ~BulkLost(c, Forwarded(c), rsp),
           NEW i \in DOMAIN c.linearized, NEW n \in 1..Len(c.linearized[i])
    PROVE  LET a == c.reqOids[i].acl + n - 1
           IN Cell(c, i, n, Forwarded(c), rsp) =
                  OverrideLeakingOid(Successor(c.linearized[i][n], 1), a)
<1> DEFINE sent == Forwarded(c)
           ones == Cardinality(OneOidCells(c))
           nonRep == NonRepeaters(c)
           cell == <<i, n>>
           up == Cardinality(CellsTo(c, cell))
           part == OneOidPart(c, i, n)
<1>1. nonRep < Len(c.reqOids)
    BY ColumnsAfter
<1>2. /\ Min({sent.nonRepeaters, Len(sent.oids)}) = nonRep + ones
      /\ ones \in Nat /\ nonRep \in Nat /\ Cardinality(c.direct) = nonRep
    BY <1>1, SentColumns
<1>3. cell \in OneOidCells(c)
    BY OneOidPlace
<1>4. /\ up \in 1..ones
      /\ sent.oids[nonRep + up] = c.linearized[i][n]
      /\ sent \in Request /\ sent.kind = "getbulk"
    BY <1>2, <1>3, ForwardedParts
<1>5. part[1] = nonRep + up /\ part[2] = c.reqOids[i].acl + n - 1
    BY OneOidPlace
<1>6. part \in Used(c, sent, rsp) /\ rsp \in Seq(VarBinds)
    BY <1>3, <1>4, ResponsesFacts DEF Used
<1>7. part[1] \in DOMAIN rsp /\ Cell(c, i, n, sent, rsp) = OverrideLeakingOid(rsp[part[1]], part[2])
    <2>1. Cell(c, i, n, sent, rsp) = Overridden(c, sent, rsp, part[1])
        BY <1>3 DEF Cell
    <2> HIDE DEF part
    <2>2. Overridden(c, sent, rsp, part[1]) = OverrideLeakingOid(rsp[part[1]], part[2])
        BY <1>6, ReadsOnce
    <2> QED BY <1>6, <2>1, <2>2 DEF BulkLost
<1>8. rsp \in Seq(VarBinds) /\ \A k \in 1..Len(rsp) : rsp[k] = Bulk(sent)[k]
    BY <1>4, ResponsesFacts
<1>9. \A k \in 1..(nonRep + ones) : Bulk(sent)[k] = Successor(sent.oids[k], 1)
    BY <1>2, <1>4, BulkFacts
<1> HIDE DEF sent, ones, nonRep, up, part
<1>10. part[1] \in 1..(nonRep + ones)
    BY <1>2, <1>4, <1>5
<1>11. rsp[part[1]] = Successor(c.linearized[i][n], 1)
    BY <1>4, <1>5, <1>7, <1>8, <1>9, <1>10
<1> QED BY <1>5, <1>7, <1>11 DEF sent

(* A row of a repeater is what the agent puts there.                       *)
LEMMA RepeaterCellRow ==
    ASSUME mib \in Mibs, NEW c, CtxOK(c), c.request.kind = "getbulk",
           1..NonRepeaters(c) \subseteq c.direct,
           NEW rsp \in Responses(Forwarded(c)), ~BulkLost(c, Forwarded(c), rsp),
           NEW i \in c.repeaters, NEW n \in 1..ColumnDepth(Forwarded(c), rsp)
    PROVE  Cell(c, i, n, Forwarded(c), rsp) =
               OverrideLeakingOid(Successor(c.reqOids[i].oid, n), c.reqOids[i].acl)
<1> DEFINE sent == Forwarded(c)
           ones == Cardinality(OneOidCells(c))
           reps == Cardinality(c.repeaters)
           nonRep == NonRepeaters(c)
           p == Place(c.repeaters, i)
           part == RepeaterPart(c, i, n, sent)
<1>1. i \notin DOMAIN c.linearized
    BY DEF CtxOK
<1>2. nonRep < Len(c.reqOids)
    BY ColumnsAfter
<1>3. /\ Min({sent.nonRepeaters, Len(sent.oids)}) = nonRep + ones
      /\ Len(sent.oids) = nonRep + ones + reps
      /\ MaxColumns(sent) = reps
      /\ ones \in Nat /\ reps \in Nat /\ nonRep \in Nat /\ Cardinality(c.direct) = nonRep
    BY <1>2, SentColumns
<1>4. /\ p \in 1..reps
      /\ sent.oids[nonRep + ones + p] = c.reqOids[i].oid
      /\ sent \in Request /\ sent.kind = "getbulk"
    BY <1>3, ForwardedParts
<1>5. rsp \in Seq(VarBinds)
    BY <1>4, ResponsesFacts
<1>6. n \in Nat /\ n >= 1
    <2>1. ColumnDepth(sent, rsp) \in Nat
        BY <1>4, <1>5, DepthFacts
    <2> QED BY <2>1
<1>7. part[1] = nonRep + ones + p + reps * (n - 1) /\ part[2] = c.reqOids[i].acl
    BY RepeaterPlace
<1>8. <<i, n>> \in RepeaterCells(c, sent, rsp) /\ <<i, n>> \notin OneOidCells(c)
    <2>1. <<i, n>> \notin OneOidCells(c)
        BY <1>1, CellsFinite
    <2> QED BY <2>1 DEF RepeaterCells
<1>9. part \in Used(c, sent, rsp)
    BY <1>8 DEF Used
<1>10. part[1] \in DOMAIN rsp /\ Cell(c, i, n, sent, rsp) = OverrideLeakingOid(rsp[part[1]], part[2])
    <2>1. Cell(c, i, n, sent, rsp) = Overridden(c, sent, rsp, part[1])
        BY <1>8 DEF Cell
    <2> HIDE DEF part
    <2>2. Overridden(c, sent, rsp, part[1]) = OverrideLeakingOid(rsp[part[1]], part[2])
        BY <1>5, <1>9, ReadsOnce
    <2> QED BY <1>9, <2>1, <2>2 DEF BulkLost
<1>11. /\ rsp \in Seq(VarBinds) /\ Len(rsp) <= Len(Bulk(sent))
       /\ \A k \in 1..Len(rsp) : rsp[k] = Bulk(sent)[k]
    BY <1>4, ResponsesFacts
<1>12. /\ Bulk(sent) \in Seq(VarBinds)
       /\ \A k \in 1..Len(Bulk(sent)) : ~(k <= nonRep + ones) =>
              Bulk(sent)[k] = Successor(sent.oids[(nonRep + ones) + 1 + ((k - (nonRep + ones) - 1)
                                                      % (Len(sent.oids) - (nonRep + ones)))],
                                        1 + (k - (nonRep + ones) - 1)
                                                \div (Len(sent.oids) - (nonRep + ones)))
    BY <1>3, <1>4, BulkFacts
<1> DEFINE base == nonRep + ones
           k == part[1]
<1> HIDE DEF sent, ones, reps, nonRep, p, part
<1>13. /\ base \in Nat /\ Len(sent.oids) - base = reps /\ k = base + p + reps * (n - 1)
       /\ sent.oids[base + p] = c.reqOids[i].oid
    BY <1>3, <1>4, <1>7
<1>14. reps * (n - 1) \in Nat
    BY <1>3, <1>6
<1>15. k \in 1..Len(rsp) /\ rsp[k] = Bulk(sent)[k]
    BY <1>10, <1>11
<1>16. k \in 1..Len(Bulk(sent))
    BY <1>11, <1>12, <1>15
<1> HIDE DEF k, base
<1>17. ~(k <= base) /\ k - base - 1 = reps * (n - 1) + (p - 1)
    BY <1>3, <1>4, <1>13, <1>14
<1>18. (reps * (n - 1) + (p - 1)) \div reps = n - 1 /\ (reps * (n - 1) + (p - 1)) % reps = p - 1
    <2> DEFINE m == n - 1
               w == p - 1
    <2>1. m \in Nat /\ w \in Nat /\ w < reps
        BY <1>3, <1>4, <1>6
    <2> HIDE DEF m, w
    <2>2. (reps * m + w) \div reps = m /\ (reps * m + w) % reps = w
        BY <1>3, <2>1, Division
    <2> QED BY <2>2 DEF m, w
<1>19. Bulk(sent)[k] = Successor(sent.oids[base + 1 + ((k - base - 1) % (Len(sent.oids) - base))],
                                 1 + (k - base - 1) \div (Len(sent.oids) - base))
    BY <1>12, <1>16, <1>17 DEF base
<1>20. Bulk(sent)[k] = Successor(sent.oids[base + 1 + (p - 1)], 1 + (n - 1))
    BY <1>13, <1>17, <1>18, <1>19
<1>21. base + 1 + (p - 1) = base + p /\ 1 + (n - 1) = n
    BY <1>4, <1>6, <1>13
<1>22. rsp[k] = Successor(c.reqOids[i].oid, n)
    BY <1>13, <1>15, <1>20, <1>21
<1> QED BY <1>7, <1>10, <1>22 DEF sent, k

(* The variable-bindings that answer the i-th OID, and whether anything    *)
(* allowed was passed over in them: Rows and NothingPassedOver, of any     *)
(* context and answer.                                                     *)
RowsOf(c, vbs, i) ==
    LET nonRep == NonRepeaters(c)
        columns == Len(c.reqOids) - nonRep
    IN IF c.request.kind = "getnext" \/ i <= nonRep THEN <<vbs[i]>>
       ELSE [n \in 1..((Len(vbs) - nonRep) \div columns) |-> vbs[i + columns * (n - 1)]]

NothingMissed(c, vbs, i) ==
    LET rows == RowsOf(c, vbs, i)
        last == rows[Len(rows)]
        ends == c.request.kind = "getnext" /\ last.value = "endOfMibView"
    IN rows # <<>> =>
           \A v \in mib :
               Allowed(v) /\ v > c.request.oids[i] /\ (v <= last.oid \/ ends)
                   => \E n \in DOMAIN rows : rows[n] = VarBind(v, "data")

(* Every column of a GETBULK has all the rows of the answer.               *)
LEMMA RowsOfColumn ==
    ASSUME NEW c, CtxOK(c), NEW sent \in Request, NEW rsp \in Seq(VarBinds), oidsList \in Lists,
           ~BulkLost(c, sent, rsp), c.request.kind = "getbulk",
           NEW i \in (NonRepeaters(c) + 1)..Len(c.reqOids)
    PROVE  LET depth == MaxColumnDepth(c, sent, rsp)
               rows == RowsOf(c, Rearranged(c, sent, rsp), i)
           IN /\ depth \in Nat
              /\ rows = [n \in 1..depth |-> Cell(c, i, n, sent, rsp)]
<1> DEFINE nonRep == NonRepeaters(c)
           size == Len(c.reqOids)
           columns == size - nonRep
           depth == MaxColumnDepth(c, sent, rsp)
           vbs == Rearranged(c, sent, rsp)
<1>1. nonRep \in Nat /\ size \in Nat /\ nonRep <= size /\ depth \in Nat
    BY NonRepeatersFacts, DepthFacts, CtxSets
<1>2. Len(vbs) = nonRep + columns * depth
    BY RearrangedType
<1>3. vbs = [k \in 1..(nonRep + columns * depth) |->
                IF k <= nonRep THEN NonRepeater(c, k, sent, rsp)
                ELSE Cell(c, nonRep + 1 + ((k - nonRep - 1) % columns),
                          1 + (k - nonRep - 1) \div columns, sent, rsp)]
    BY DEF Rearranged
<1>4. RowsOf(c, vbs, i) = [n \in 1..((Len(vbs) - nonRep) \div columns) |-> vbs[i + columns * (n - 1)]]
    BY <1>1 DEF RowsOf
<1> HIDE DEF vbs, depth
<1>5. i \in (nonRep + 1)..size
    OBVIOUS
<1> HIDE DEF nonRep, size
<1>6. columns \in Nat /\ columns > 0 /\ i - nonRep - 1 \in Nat /\ i - nonRep - 1 < columns /\ i \in Nat
    BY <1>1, <1>5
<1> HIDE DEF columns
<1>7. (columns * depth) \div columns = depth /\ columns * depth \in Nat
    BY <1>1, <1>6
<1>8. (Len(vbs) - nonRep) \div columns = depth
    <2>1. Len(vbs) - nonRep = columns * depth
        BY <1>1, <1>2, <1>7
    <2> QED BY <1>7, <2>1
<1>9. ASSUME NEW n \in 1..depth
      PROVE  vbs[i + columns * (n - 1)] = Cell(c, i, n, sent, rsp)
    <2> DEFINE m == n - 1
               w == i - nonRep - 1
               k == i + columns * m
    <2>1. m \in Nat /\ w \in Nat /\ w < columns /\ m + 1 <= depth /\ i = nonRep + 1 + w /\ n = m + 1
        BY <1>1, <1>6
    <2> HIDE DEF m, w
    <2>2. (columns * m + w) \div columns = m /\ (columns * m + w) % columns = w
        BY <1>6, <2>1, Division
    <2>3. columns * m \in Nat /\ columns * m + columns <= columns * depth
        <3>1. columns * (m + 1) <= columns * depth
            BY <1>1, <1>6, <2>1
        <3> QED BY <1>6, <2>1, <3>1
    <2> DEFINE x == columns * m
    <2>4. k = nonRep + 1 + (x + w)
        <3>1. x \in Nat /\ k = i + x
            BY <2>3
        <3> HIDE DEF x, k
        <3> QED BY <1>1, <1>6, <2>1, <3>1
    <2>5. k \in 1..(nonRep + columns * depth) /\ ~(k <= nonRep) /\ k - nonRep - 1 = x + w
        <3>1. x \in Nat /\ x + columns <= columns * depth
            BY <2>3
        <3> HIDE DEF x, k
        <3> QED BY <1>1, <1>6, <1>7, <2>1, <2>4, <3>1
    <2> HIDE DEF k
    <2>6. vbs[k] = Cell(c, nonRep + 1 + ((k - nonRep - 1) % columns),
                        1 + (k - nonRep - 1) \div columns, sent, rsp)
        BY <1>3, <2>5
    <2>7. (k - nonRep - 1) % columns = w /\ (k - nonRep - 1) \div columns = m
        BY <2>2, <2>5
    <2>8. nonRep + 1 + w = i /\ 1 + m = n
        BY <1>1, <1>6, <2>1
    <2>9. vbs[k] = Cell(c, i, n, sent, rsp)
        BY <2>6, <2>7, <2>8
    <2> QED BY <2>9 DEF k, m
<1> QED BY <1>1, <1>4, <1>8, <1>9 DEF vbs, depth, nonRep, columns, size

-----------------------------------------------------------------------------
(* Whole answers.                                                          *)

(* As RepeatersFill says, of any context and answer.                       *)
Filled(c, vbs) ==
    \/ ~MayTruncate
    \/ \A i \in c.repeaters, j \in DOMAIN c.linearized :
           Len(RowsOf(c, vbs, i)) > Len(c.linearized[j])

(* What matching says of the OID a column is for.                          *)
LEMMA ColumnEntry ==
    ASSUME NEW c, CtxOK(c), c.request.kind \in {"getnext", "getbulk"},
           NEW i \in 1..Len(c.request.oids)
    PROVE  /\ c.reqOids[i] \in Entry /\ c.request.oids[i] \in Oids
           /\ c.reqOids[i].acl <= Len(c.list)
           /\ MatchedNext(c.list, c.request.oids[i], c.reqOids[i])
           /\ i \in DOMAIN c.linearized \cup c.repeaters \cup c.direct => c.reqOids[i].acl # NoAcl
           /\ c.request.kind = "getnext" => (i \in c.direct <=> c.reqOids[i].acl # NoAcl)
<1>1. i \in DOMAIN c.reqOids /\ c.reqOids[i] \in Entry
    BY CtxSets
<1>2. c.request.oids[i] \in Oids
    BY RequestType DEF CtxOK
<1>3. c.reqOids[i].acl <= Len(c.list) /\ MatchedNext(c.list, c.request.oids[i], c.reqOids[i])
    BY <1>1 DEF CtxOK, Matched
<1>4. /\ c.direct = DirectOf(c) /\ DOMAIN c.linearized \cup c.repeaters = ColumnsOf(c)
    BY DEF CtxOK
<1>5. i \in DOMAIN c.linearized \cup c.repeaters \cup c.direct => c.reqOids[i].acl # NoAcl
    BY <1>4 DEF DirectOf, ColumnsOf
<1>6. c.request.kind = "getnext" => (i \in c.direct <=> c.reqOids[i].acl # NoAcl)
    BY <1>1, <1>4 DEF DirectOf
<1> QED BY <1>1, <1>2, <1>3, <1>5, <1>6

(* A column of one-OID ranges passes nothing over.                         *)
LEMMA LinearizedComplete ==
    ASSUME oidsList \in Lists, mib \in Mibs, SkipsFit, NEW c, CtxOK(c), c.list = oidsList,
           c.request.kind = "getbulk", 1..NonRepeaters(c) \subseteq c.direct,
           NEW rsp \in Responses(Forwarded(c)), ~BulkLost(c, Forwarded(c), rsp),
           NEW i \in (NonRepeaters(c) + 1)..Len(c.reqOids), i \in DOMAIN c.linearized,
           NEW depth \in Nat, depth = MaxColumnDepth(c, Forwarded(c), rsp), depth # 0,
           NEW rows, \A n \in 1..depth : rows[n] = Cell(c, i, n, Forwarded(c), rsp),
           NEW v \in mib, Allowed(v), v > c.request.oids[i], v <= rows[depth].oid
    PROVE  \E n \in 1..depth : rows[n] = VarBind(v, "data")
<1> DEFINE sent == Forwarded(c)
           e == c.reqOids[i]
           asked == c.request.oids[i]
           size == Len(c.linearized[i])
<1>1. sent \in Request /\ rsp \in Seq(VarBinds) /\ i \in 1..Len(c.request.oids)
    <2>1. sent \in Request
        BY ForwardedParts
    <2>2. i \in 1..Len(c.request.oids)
        BY CtxSets, NonRepeatersFacts
    <2> QED BY <2>1, <2>2, ResponsesFacts
<1>2. /\ asked \in Oids /\ e \in Entry /\ MatchedNext(oidsList, asked, e) /\ e.acl # NoAcl
      /\ e.acl <= Len(oidsList) /\ e.acl \in Nat
    BY <1>1, ColumnEntry DEF Entry
<1>3. size \in Nat /\ size <= depth /\ DOMAIN c.linearized[i] = 1..size
    BY <1>1, DepthFacts, CellsFinite
<1>4. i > NonRepeaters(c) /\ i \notin c.repeaters
    BY NonRepeatersFacts, CtxSets DEF CtxOK
<1>5. ASSUME NEW n \in 1..size
      PROVE  LET a == e.acl + n - 1
             IN /\ a \in 1..Len(oidsList)
                /\ oidsList[a].begin = oidsList[a].end
                /\ rows[n] = OverrideLeakingOid(Successor(oidsList[a].skip, 1), a)
    <2> DEFINE a == e.acl + n - 1
    <2>1. /\ a \in 1..Len(oidsList) /\ oidsList[a].begin = oidsList[a].end
          /\ c.linearized[i][n] = oidsList[a].skip
        BY DEF CtxOK, LinearizedOverRanges
    <2>2. n \in 1..depth
        <3> HIDE DEF size
        <3> QED BY <1>3
    <2>3. rows[n] = OverrideLeakingOid(Successor(c.linearized[i][n], 1), a)
        BY <1>4, <2>2, OneOidCellRow
    <2> QED BY <2>1, <2>3
<1>6. ASSUME NEW n \in (size + 1)..depth
      PROVE  rows[n] = VarBind(IF size = 0 THEN e.oid ELSE Onward(e.acl + size - 1), "null")
    <2>1. n \in 1..depth /\ ~(n \in 1..size)
        <3> HIDE DEF size
        <3> QED BY <1>3
    <2>2. <<i, n>> \notin OneOidCells(c)
        BY <2>1, CellsFinite
    <2>3. <<i, n>> \notin RepeaterCells(c, sent, rsp)
        BY <1>4 DEF RepeaterCells
    <2>4. rows[n] = Padding(c, i, ColumnDepth(sent, rsp))
        BY <2>1, <2>2, <2>3 DEF Cell
    <2>5. NoRow(c, i, ColumnDepth(sent, rsp)) <=> size = 0
        <3>1. c.linearized[i] \in Seq(Oids)
            BY DEF CtxOK, LinearizedOverRanges
        <3> QED BY <3>1 DEF NoRow
    <2>6. LastAcl(c, i) = e.acl + size - 1
        <3>1. LastAcl(c, i) = e.acl + (size - 1)
            BY DEF LastAcl
        <3> HIDE DEF size, e
        <3> QED BY <1>2, <1>3, <3>1
    <2> QED BY <2>4, <2>5, <2>6 DEF Padding
<1> HIDE DEF sent, e, asked, size
<1>7. v > asked
    BY DEF asked
<1>8. OneOidRows(e, size, depth, rows)
    BY <1>5, <1>6 DEF OneOidRows
<1> QED BY <1>2, <1>3, <1>7, <1>8, LinearizedColumn

(* A repeater that has all the rows of the answer passes nothing over.     *)
LEMMA RepeaterComplete ==
    ASSUME oidsList \in Lists, mib \in Mibs, SkipsFit, NEW c, CtxOK(c), c.list = oidsList,
           c.request.kind = "getbulk", 1..NonRepeaters(c) \subseteq c.direct,
           NEW rsp \in Responses(Forwarded(c)), ~BulkLost(c, Forwarded(c), rsp),
           NEW i \in (NonRepeaters(c) + 1)..Len(c.reqOids), i \in c.repeaters,
           NEW depth \in Nat, depth = MaxColumnDepth(c, Forwarded(c), rsp), depth # 0,
           ~MayTruncate \/ \A j \in DOMAIN c.linearized : depth > Len(c.linearized[j]),
           NEW rows, \A n \in 1..depth : rows[n] = Cell(c, i, n, Forwarded(c), rsp),
           NEW v \in mib, Allowed(v), v > c.request.oids[i], v <= rows[depth].oid
    PROVE  \E n \in 1..depth : rows[n] = VarBind(v, "data")
<1> DEFINE sent == Forwarded(c)
           e == c.reqOids[i]
           asked == c.request.oids[i]
           filled == ColumnDepth(sent, rsp)
<1>1. sent \in Request /\ sent.kind = "getbulk" /\ rsp \in Seq(VarBinds) /\ i \in 1..Len(c.request.oids)
    <2>1. sent \in Request /\ sent.kind = "getbulk"
        BY ForwardedParts
    <2>2. i \in 1..Len(c.request.oids)
        BY CtxSets, NonRepeatersFacts
    <2> QED BY <2>1, <2>2, ResponsesFacts
<1>2. /\ asked \in Oids /\ e \in Entry /\ MatchedNext(oidsList, asked, e) /\ e.acl # NoAcl
      /\ e.acl <= Len(oidsList)
    BY <1>1, ColumnEntry
<1>3. /\ filled \in Nat /\ filled <= depth
      /\ depth = filled \/ \E j \in DOMAIN c.linearized : depth = Len(c.linearized[j])
    BY <1>1, DepthFacts
<1>4. i > NonRepeaters(c) /\ NonRepeaters(c) < Len(c.reqOids)
    BY NonRepeatersFacts, CtxSets
<1>5. ASSUME ~MayTruncate PROVE filled = c.request.maxRepetitions
    <2> DEFINE base == NonRepeaters(c) + Cardinality(OneOidCells(c))
               reps == Cardinality(c.repeaters)
               m == c.request.maxRepetitions
    <2>1. /\ sent.nonRepeaters = base /\ MaxColumns(sent) = reps
          /\ Min({sent.nonRepeaters, Len(sent.oids)}) = base
          /\ Len(sent.oids) = base + reps
          /\ base \in Nat /\ reps \in Nat
        <3> DEFINE nonRep == NonRepeaters(c)
                   ones == Cardinality(OneOidCells(c))
        <3>1. /\ sent.nonRepeaters = nonRep + ones
              /\ Len(sent.oids) = nonRep + ones + reps
              /\ Min({sent.nonRepeaters, Len(sent.oids)}) = nonRep + ones
              /\ MaxColumns(sent) = reps
              /\ ones \in Nat /\ reps \in Nat /\ nonRep \in Nat
            BY <1>4, SentColumns
        <3>2. base = nonRep + ones
            OBVIOUS
        <3> HIDE DEF base, nonRep, ones, reps, sent
        <3> QED BY <3>1, <3>2
    <2>2. reps > 0 /\ m \in Nat /\ sent.maxRepetitions = m
        <3>1. Place(c.repeaters, i) \in 1..reps
            BY ForwardedParts
        <3>2. m \in Nat
            BY CtxSets
        <3>3. sent.maxRepetitions = m
            BY ForwardedParts
        <3> HIDE DEF reps
        <3> QED BY <2>1, <3>1, <3>2, <3>3
    <2>3. Len(rsp) = Len(Bulk(sent))
        BY <1>1, <1>5, ResponsesFacts
    <2>4. Len(Bulk(sent)) = base + (Len(sent.oids) - base) * m
        BY <1>1, <2>1, <2>2, BulkFacts
    <2>5. filled = FloorDiv(Len(rsp) - sent.nonRepeaters, reps)
        BY <2>1, <2>2 DEF ColumnDepth
    <2> HIDE DEF base, reps, m, sent, filled
    <2>6. Len(sent.oids) - base = reps
        BY <2>1
    <2>7. reps * m \in Nat
        BY <2>1, <2>2
    <2>8. Len(rsp) - sent.nonRepeaters = reps * m
        BY <2>1, <2>3, <2>4, <2>6, <2>7
    <2>9. (reps * m) \div reps = m
        BY <2>1, <2>2
    <2> QED BY <2>2, <2>5, <2>8, <2>9 DEF FloorDiv, m
<1>6. filled = depth
    <2> SUFFICES ASSUME NEW j \in DOMAIN c.linearized, depth = Len(c.linearized[j])
                 PROVE  filled = depth
        BY <1>3
    <2>1. ~MayTruncate
        OBVIOUS
    <2>2. Len(c.linearized[j]) <= c.request.maxRepetitions
        BY DEF CtxOK, LinearizedOverRanges
    <2>3. c.request.maxRepetitions \in Nat
        BY CtxSets
    <2> HIDE DEF filled
    <2> QED BY <1>3, <1>5, <2>1, <2>2, <2>3
<1>7. ASSUME NEW n \in 1..depth PROVE rows[n] = OverrideLeakingOid(Successor(e.oid, n), e.acl)
    <2>1. n \in 1..filled
        BY <1>6
    <2>2. rows[n] = Cell(c, i, n, sent, rsp)
        OBVIOUS
    <2> QED BY <1>4, <2>1, <2>2, RepeaterCellRow
<1> HIDE DEF sent, e, asked, filled
<1>8. v > asked
    BY DEF asked
<1> QED BY <1>2, <1>7, <1>8, RepeaterColumn

(* A GETBULK answer passes nothing over.                                   *)
LEMMA BulkComplete ==
    ASSUME oidsList \in Lists, mib \in Mibs, SkipsFit, NEW c, CtxOK(c), c.list = oidsList,
           c.request.kind = "getbulk", 1..NonRepeaters(c) \subseteq c.direct,
           NEW rsp \in Responses(Forwarded(c)), ~BulkLost(c, Forwarded(c), rsp),
           NEW vbs, vbs = Rearranged(c, Forwarded(c), rsp), Filled(c, vbs),
           NEW i \in DOMAIN c.reqOids
    PROVE  NothingMissed(c, vbs, i)
<1> DEFINE sent == Forwarded(c)
           nonRep == NonRepeaters(c)
           rows == RowsOf(c, vbs, i)
           asked == c.request.oids[i]
<1>1. sent \in Request /\ rsp \in Seq(VarBinds)
    <2>1. sent \in Request
        BY ForwardedParts
    <2> QED BY <2>1, ResponsesFacts
<1>2. i \in 1..Len(c.request.oids) /\ Len(c.reqOids) = Len(c.request.oids) /\ Len(c.reqOids) \in Nat
    BY CtxSets
<1>3. nonRep \in Nat /\ nonRep <= Len(c.reqOids)
    BY <1>2, NonRepeatersFacts
<1> SUFFICES ASSUME rows # <<>>, NEW v \in mib, Allowed(v), v > asked,
                    v <= rows[Len(rows)].oid
             PROVE  \E n \in DOMAIN rows : rows[n] = VarBind(v, "data")
    <2>1. c.request.kind # "getnext"
        OBVIOUS
    <2> QED BY <2>1 DEF NothingMissed
<1>4. CASE i <= nonRep
    <2>1. i \in 1..nonRep
        BY <1>2, <1>3, <1>4
    <2>2. NonRepeater(c, i, sent, rsp) =
              OverrideLeakingOid(Successor(c.reqOids[i].oid, 1), c.reqOids[i].acl)
        BY <2>1, NonRepeaterRow
    <2>3. vbs[i] = NonRepeater(c, i, sent, rsp)
        <3> DEFINE size == nonRep + (Len(c.reqOids) - nonRep) * MaxColumnDepth(c, sent, rsp)
        <3>1. i \in 1..size
            <4>1. (Len(c.reqOids) - nonRep) * MaxColumnDepth(c, sent, rsp) \in Nat
                BY <1>1, RearrangedType
            <4> DEFINE x == (Len(c.reqOids) - nonRep) * MaxColumnDepth(c, sent, rsp)
            <4> HIDE DEF x, nonRep
            <4> QED BY <1>3, <2>1, <4>1 DEF x
        <3> HIDE DEF size
        <3>2. vbs[i] = IF i <= nonRep THEN NonRepeater(c, i, sent, rsp)
                       ELSE Cell(c, nonRep + 1 + ((i - nonRep - 1) % (Len(c.reqOids) - nonRep)),
                                 1 + (i - nonRep - 1) \div (Len(c.reqOids) - nonRep), sent, rsp)
            BY <3>1 DEF Rearranged, size
        <3> QED BY <1>4, <3>2
    <2>4. rows = <<vbs[i]>>
        BY <1>4 DEF RowsOf
    <2>5. Len(rows) = 1 /\ rows[1] = vbs[i] /\ 1 \in DOMAIN rows
        BY <2>4
    <2>6. /\ c.reqOids[i] \in Entry /\ asked \in Oids /\ c.reqOids[i].acl <= Len(oidsList)
          /\ MatchedNext(oidsList, asked, c.reqOids[i])
          /\ c.reqOids[i].acl # NoAcl
        BY <1>2, <2>1, ColumnEntry
    <2> DEFINE e == c.reqOids[i]
               vb == vbs[i]
    <2>7. vb = OverrideLeakingOid(Successor(e.oid, 1), e.acl)
        BY <2>2, <2>3
    <2>8. v <= vb.oid
        BY <2>5
    <2> HIDE DEF vb, e, asked, rows
    <2>9. vb = VarBind(v, "data")
        BY <2>6, <2>7, <2>8, NextRow DEF e
    <2> QED BY <2>5, <2>9 DEF vb
<1>5. CASE ~(i <= nonRep)
    <2>1. i \in (nonRep + 1)..Len(c.reqOids)
        BY <1>2, <1>3, <1>5
    <2> DEFINE depth == MaxColumnDepth(c, sent, rsp)
    <2>2. depth \in Nat /\ rows = [n \in 1..depth |-> Cell(c, i, n, sent, rsp)]
        BY <1>1, <2>1, RowsOfColumn
    <2> HIDE DEF rows, depth
    <2>3. DOMAIN rows = 1..depth /\ Len(rows) = depth /\ depth # 0
          /\ \A n \in 1..depth : rows[n] = Cell(c, i, n, sent, rsp)
        BY <2>2
    <2>4. v <= rows[depth].oid
        BY <2>3
    <2>5. i \in DOMAIN c.linearized \/ i \in c.repeaters
        BY <2>1 DEF BulkLost
    <2>6. i \in c.repeaters => ~MayTruncate \/ \A j \in DOMAIN c.linearized : depth > Len(c.linearized[j])
        BY <2>3 DEF Filled, rows
    <2> QED BY <2>1, <2>2, <2>3, <2>4, <2>5, <2>6, LinearizedComplete, RepeaterComplete DEF depth
<1> QED BY <1>4, <1>5

(* Neither does the answer to a GETNEXT.                                   *)
LEMMA NextComplete ==
    ASSUME oidsList \in Lists, mib \in Mibs, SkipsFit, NEW c, CtxOK(c), c.list = oidsList,
           c.request.kind = "getnext",
           NEW rsp \in Responses(Forwarded(c)), ~MergeLost(c, rsp),
           NEW i \in DOMAIN c.reqOids
    PROVE  NothingMissed(c, Merged(c, rsp), i)
<1> DEFINE sent == Forwarded(c)
           vbs == Merged(c, rsp)
           vb == vbs[i]
           e == c.reqOids[i]
           asked == c.request.oids[i]
           p == Place(c.direct, i)
<1>1. RowsOf(c, vbs, i) = <<vb>>
    BY DEF RowsOf
<1>2. i \in 1..Len(c.request.oids)
    BY CtxSets
<1>3. /\ e \in Entry /\ asked \in Oids /\ e.acl <= Len(oidsList) /\ MatchedNext(oidsList, asked, e)
      /\ i \in c.direct <=> e.acl # NoAcl
    BY <1>2, ColumnEntry
<1>4. ASSUME NEW v \in mib, Allowed(v), v > asked, v <= vb.oid \/ vb.value = "endOfMibView"
      PROVE  vb = VarBind(v, "data")
    <2>1. CASE i \in c.direct
        <3>1. sent \in Request /\ sent.kind = "getnext"
              /\ p \in 1..Cardinality(c.direct) /\ sent.oids[p] = e.oid
              /\ Cardinality(c.direct) <= Len(sent.oids) /\ Cardinality(c.direct) \in Nat
            BY <2>1, ForwardedParts
        <3>2. p \in 1..Len(sent.oids)
            <4>1. Len(sent.oids) \in Nat
                BY <3>1, RequestType
            <4> HIDE DEF p, sent
            <4> QED BY <3>1, <4>1
        <3>3. rsp[p] = Successor(e.oid, 1)
            BY <3>1, <3>2, ResponsesFacts
        <3>4. vb = OverrideLeakingOid(rsp[p], e.acl)
            BY <2>1 DEF Merged
        <3>5. vb = OverrideLeakingOid(Successor(e.oid, 1), e.acl)
            BY <3>3, <3>4
        <3> HIDE DEF vb, e, asked
        <3> QED BY <1>3, <1>4, <2>1, <3>5, NextRow
    <2>2. CASE i \notin c.direct
        <3> HIDE DEF e, asked
        <3>1. e.acl = NoAcl /\ v \in Nat /\ asked \in Nat
            BY <1>3, <2>2, OidsAssumption
        <3>2. v <= asked
            BY <1>3, <1>4, <3>1, NothingAfterDenied
        <3> QED BY <1>4, <3>1, <3>2
    <2> QED BY <2>1, <2>2
<1> HIDE DEF vb, asked
<1>5. Len(<<vb>>) = 1 /\ <<vb>>[1] = vb /\ 1 \in DOMAIN <<vb>>
    OBVIOUS
<1> QED BY <1>1, <1>4, <1>5 DEF NothingMissed, asked

(* Where everything is denied, nothing can be missed, whatever is answered.*)
LEMMA DeniedComplete ==
    ASSUME oidsList \in Lists, mib \in Mibs, NEW c, CtxOK(c), c.list = oidsList,
           c.request.kind \in {"getnext", "getbulk"},
           \A i \in DOMAIN c.reqOids : c.reqOids[i].acl = NoAcl,
           NEW vbs, NEW i \in DOMAIN c.reqOids
    PROVE  NothingMissed(c, vbs, i)
<1> DEFINE asked == c.request.oids[i]
<1>1. i \in 1..Len(c.request.oids)
    BY CtxSets
<1>2. c.reqOids[i].oid = asked /\ asked \in Nat /\ \A v \in mib : v \in Nat /\ (Allowed(v) => v <= asked)
    <2>1. asked \in Oids /\ MatchedNext(oidsList, asked, c.reqOids[i]) /\ c.reqOids[i].acl = NoAcl
        BY <1>1, ColumnEntry
    <2>2. c.reqOids[i].oid = asked
        BY <2>1 DEF MatchedNext
    <2>3. ASSUME NEW v \in mib PROVE v \in Nat /\ (Allowed(v) => v <= asked)
        <3>1. v \in Nat
            BY OidsAssumption
        <3> HIDE DEF asked
        <3> QED BY <2>1, <3>1, NothingAfterDenied
    <2> QED BY <2>1, <2>2, <2>3, OidsAssumption
<1> HIDE DEF asked
<1> QED BY <1>2 DEF NothingMissed, asked

(* What a manager may be answered, after the request that was sent, if any. *)
AnswerTo(c, sent, vbs) ==
    \/ /\ \A i \in DOMAIN c.reqOids : c.reqOids[i].acl = NoAcl
       /\ c.request.kind # "getbulk" => vbs = Denied(c)
    \/ /\ c.request.kind = "getbulk"
       /\ \E rsp \in Responses(Forwarded(c)) :
              ~BulkLost(c, Forwarded(c), rsp) /\ vbs = Rearranged(c, Forwarded(c), rsp)
    \/ /\ c.request.kind # "getbulk" /\ sent = Forwarded(c)
       /\ \E rsp \in Responses(Forwarded(c)) : ~MergeLost(c, rsp) /\ vbs = Merged(c, rsp)

(* A GET or SET is answered as it should be.                               *)
LEMMA GetAnswer ==
    ASSUME oidsList \in Lists, mib \in Mibs, NEW c, CtxOK(c), c.list = oidsList,
           c.request.kind \in {"get", "set"}, NEW sent, NEW vbs, AnswerTo(c, sent, vbs)
    PROVE  vbs = AsIfUnlisted(c.request.kind, "null", c.request.oids)
<1>1. c.request.kind # "getbulk"
    OBVIOUS
<1>2. Forwarded(c).value = "null"
    BY RequestType DEF CtxOK, Forwarded, Request
<1> QED BY <1>1, <1>2, MergedAnswer, DeniedAnswer DEF AnswerTo

(* A GETNEXT or GETBULK passes nothing over.                               *)
LEMMA NextAnswer ==
    ASSUME oidsList \in Lists, mib \in Mibs, NEW c, CtxOK(c), c.list = oidsList,
           c.request.kind \in {"getnext", "getbulk"}, SkipsFit,
           c.request.kind = "getbulk" => 1..NonRepeaters(c) \subseteq c.direct,
           NEW sent, NEW vbs, AnswerTo(c, sent, vbs), Filled(c, vbs), NEW i \in DOMAIN c.reqOids
    PROVE  NothingMissed(c, vbs, i)
<1>1. CASE \A k \in DOMAIN c.reqOids : c.reqOids[k].acl = NoAcl
    BY <1>1, DeniedComplete
<1>2. CASE /\ c.request.kind = "getbulk"
           /\ \E rsp \in Responses(Forwarded(c)) :
                  ~BulkLost(c, Forwarded(c), rsp) /\ vbs = Rearranged(c, Forwarded(c), rsp)
    BY <1>2, BulkComplete
<1>3. CASE /\ c.request.kind # "getbulk"
           /\ \E rsp \in Responses(Forwarded(c)) : ~MergeLost(c, rsp) /\ vbs = Merged(c, rsp)
    BY <1>3, NextComplete
<1> QED BY <1>1, <1>2, <1>3 DEF AnswerTo

(* A request that is answered without the agent was denied as a whole.     *)
LEMMA RequestAnswered ==
    ASSUME Inv, NEW r \in Request, CommandRequest(r), state' = "answered"
    PROVE  /\ oidsList' = oidsList /\ mib' = mib
           /\ \E c : CtxOK(c) /\ reqCtx' = c /\ AnswerTo(c, request', varBinds')
<1> DEFINE c == Ctx(r)
           denied == \A i \in DOMAIN c.reqOids : c.reqOids[i].acl = NoAcl
<1>1. /\ oidsList' = oidsList /\ mib' = mib /\ reqCtx' = c /\ oidsList \in Lists
      /\ r.kind # "notification"
      /\ IF denied
         THEN \/ state' = "answered" /\ varBinds' = Denied(c)
              \/ Filter(c, r, Denied(c))
         ELSE state' = "sent"
    BY DEF Inv, TypeOK, CommandRequest
<1>2. CtxOK(c) /\ c.request = r
    BY <1>1, CtxIsOK
<1> HIDE DEF c
<1>3. denied /\ (varBinds' = Denied(c) \/ Filter(c, r, Denied(c)))
    BY <1>1
<1>4. ASSUME c.request.kind # "getbulk" PROVE varBinds' = Denied(c)
    <2>1. CASE Filter(c, r, Denied(c))
        <3>1. varBinds' = Merged(c, Denied(c))
            BY <1>4, <2>1 DEF Filter
        <3> QED BY <1>2, <1>3, <3>1, DeniedMerged
    <2> QED BY <1>3, <2>1
<1>5. AnswerTo(c, request', varBinds')
    BY <1>3, <1>4 DEF AnswerTo
<1> QED BY <1>1, <1>2, <1>5

(* A new answer is to what the context was made for.                       *)
LEMMA Answering ==
    ASSUME Inv, [Next]_vars, state' = "answered", vars' # vars
    PROVE  /\ oidsList' = oidsList /\ mib' = mib
           /\ \E c : CtxOK(c) /\ reqCtx' = c /\ AnswerTo(c, request', varBinds')
<1>1. ASSUME NEW r \in Requests, Ask(r)
      PROVE  r \in Request /\ CommandRequest(r)
    <2>1. r \in Request
        BY RequestsAssumption
    <2>2. ~NotificationRequest(r)
        BY DEF NotificationRequest
    <2> QED BY <1>1, <2>1, <2>2 DEF Ask
<1>2. ASSUME NEW w \in Walks, StartWalk(w)
      PROVE  w \in Request /\ CommandRequest(w)
    BY <1>2, RequestsAssumption DEF StartWalk
<1>3. ASSUME WalkOn
      PROVE  walk \in Request /\ CommandRequest(walk)
    BY <1>3 DEF WalkOn, Inv, TypeOK
<1>4. CASE CommandResponse
    <2> DEFINE c == reqCtx
               rsp == varBinds
    <2>1. /\ CtxOK(c) /\ request = Forwarded(c) /\ rsp \in Responses(request)
          /\ oidsList' = oidsList /\ mib' = mib /\ reqCtx' = c /\ request' = request
          /\ Filter(c, request, rsp)
        BY <1>4 DEF CommandResponse, Inv
    <2>2. \/ /\ c.request.kind = "getbulk" /\ ~BulkLost(c, request, rsp)
             /\ varBinds' = Rearranged(c, request, rsp)
          \/ /\ c.request.kind # "getbulk" /\ ~MergeLost(c, rsp)
             /\ varBinds' = Merged(c, rsp)
        BY <2>1 DEF Filter
    <2> HIDE DEF c, rsp
    <2>3. AnswerTo(c, request', varBinds')
        BY <2>1, <2>2 DEF AnswerTo
    <2> QED BY <2>1, <2>3
<1>5. ~AgentResponds /\ ~Done
    BY DEF AgentResponds, Done
<1>6. ASSUME NEW list \in Reloads, Reload(list) PROVE FALSE
    BY <1>6 DEF Reload
<1> QED BY <1>1, <1>2, <1>3, <1>4, <1>5, <1>6, RequestAnswered DEF Next

(* Every step that answers answers well.                                   *)
LEMMA AnswersInv ==
    ASSUME Inv, GetIsMerged, NothingPassedOver, [Next]_vars
    PROVE  GetIsMerged' /\ NothingPassedOver'
<1>1. CASE vars' = vars
    <2>1. /\ state' = state /\ oidsList' = oidsList /\ mib' = mib /\ reqCtx' = reqCtx
          /\ varBinds' = varBinds /\ request' = request
        BY <1>1 DEF vars
    <2>2. GetIsMerged'
        BY <2>1 DEF GetIsMerged, Answered, Allowed, InRange
    <2>3. NothingPassedOver'
        <3>1. /\ SkipsFit' => SkipsFit
              /\ NonRepeatersSent' => NonRepeatersSent
              /\ Answered({"getnext", "getbulk"})' => Answered({"getnext", "getbulk"})
            BY <2>1 DEF SkipsFit, NonRepeatersSent, Answered
        <3>2. \A i : Rows(i)' = Rows(i)
            BY <2>1 DEF Rows
        <3>3. RepeatersFill' => RepeatersFill
            BY <2>1, <3>2 DEF RepeatersFill
        <3>4. \A v : Allowed(v)' = Allowed(v)
            BY <2>1 DEF Allowed, InRange
        <3> QED BY <2>1, <3>1, <3>2, <3>3, <3>4 DEF NothingPassedOver
    <2> QED BY <2>2, <2>3
<1>2. CASE state' # "answered"
    BY <1>2 DEF GetIsMerged, NothingPassedOver, Answered
<1>3. CASE state' = "answered" /\ vars' # vars
    <2>1. /\ oidsList' = oidsList /\ mib' = mib /\ oidsList \in Lists /\ mib \in Mibs
          /\ \E c : CtxOK(c) /\ reqCtx' = c /\ AnswerTo(c, request', varBinds')
        BY <1>3, Answering DEF Inv, TypeOK
    <2>2. PICK c : CtxOK(c) /\ reqCtx' = c /\ AnswerTo(c, request', varBinds')
        BY <2>1
    <2>3. PICK vbs, sent : varBinds' = vbs /\ request' = sent
        OBVIOUS
    <2>4. AnswerTo(c, sent, vbs)
        BY <2>2, <2>3
    <2>5. \A v : Allowed(v)' = Allowed(v)
        BY <2>1 DEF Allowed, InRange
    <2>6. GetIsMerged'
        <3>1. c.list = oidsList /\ c.request.kind \in {"get", "set"} =>
                  vbs = AsIfUnlisted(c.request.kind, "null", c.request.oids)
            BY <2>1, <2>2, <2>4, GetAnswer
        <3> QED BY <2>1, <2>2, <2>3, <2>5, <3>1 DEF GetIsMerged, Answered, AsIfUnlisted, ValueOf
    <2>7. NothingPassedOver'
        <3>1. SkipsFit' => SkipsFit
            BY <2>1 DEF SkipsFit
        <3>2. RepeatersFill' => Filled(c, vbs)
            BY <2>2, <2>3 DEF RepeatersFill, Filled, Rows, RowsOf
        <3>3. NonRepeatersSent' => (c.request.kind = "getbulk" => 1..NonRepeaters(c) \subseteq c.direct)
            BY <2>2 DEF NonRepeatersSent
        <3>4. Answered({"getnext", "getbulk"})' => c.list = oidsList /\ c.request.kind \in {"getnext", "getbulk"}
            BY <2>1, <2>2 DEF Answered
        <3>5. ASSUME Answered({"getnext", "getbulk"})', SkipsFit', RepeatersFill', NonRepeatersSent',
                     NEW i \in DOMAIN c.reqOids
              PROVE  NothingMissed(c, vbs, i)
            BY <2>1, <2>2, <2>4, <3>1, <3>2, <3>3, <3>4, <3>5, NextAnswer
        <3>6. \A i : Rows(i)' = RowsOf(c, vbs, i)
            BY <2>2, <2>3 DEF Rows, RowsOf
        <3> QED BY <2>1, <2>2, <2>3, <2>5, <3>5, <3>6 DEF NothingPassedOver, NothingMissed
    <2> QED BY <2>6, <2>7
<1> QED BY <1>1, <1>2, <1>3

(* At first nothing was answered.                                          *)
LEMMA AnswersInit == Init => GetIsMerged /\ NothingPassedOver
BY DEF Init, GetIsMerged, NothingPassedOver, Answered

(* Whatever the lists, the MIB and the request, a GET or SET is answered   *)
(* OID by OID: what is allowed as the agent answers it, which for a SET is *)
(* Null, the rest with noSuchInstance.                                     *)
THEOREM GetsAreMerged == Spec => []GetIsMerged
<1>1. Init => Inv /\ GetIsMerged /\ NothingPassedOver
    BY InitInv, AnswersInit
<1>2. Inv /\ GetIsMerged /\ NothingPassedOver /\ [Next]_vars => (Inv /\ GetIsMerged /\ NothingPassedOver)'
    BY NextInv, AnswersInv
<1> QED BY <1>1, <1>2, PTL DEF Spec

(* Whatever the lists, the MIB and the request, a manager that goes on     *)
(* from the last row of an answer to a GETNEXT or GETBULK misses no        *)
(* allowed instance, provided that the skip OIDs fit, no non-repeater was  *)
(* denied and repeaters have all their rows.                               *)
THEOREM NothingIsPassedOver == Spec => []NothingPassedOver
<1>1. Init => Inv /\ GetIsMerged /\ NothingPassedOver
    BY InitInv, AnswersInit
<1>2. Inv /\ GetIsMerged /\ NothingPassedOver /\ [Next]_vars => (Inv /\ GetIsMerged /\ NothingPassedOver)'
    BY NextInv, AnswersInv
<1> QED BY <1>1, <1>2, PTL DEF Spec
=============================================================================
