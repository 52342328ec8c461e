---------------------------- MODULE MCOidFilter ----------------------------
(* Small instances of OidFilter for TLC. *)
EXTENDS OidFilter

CONSTANTS MaxOid, MaxBulk

OidsMC == 0..MaxOid

(* Later configurations: less is allowed, or in other places.              *)
ReloadsMC == {<<[skip |-> 1, begin |-> 2, end |-> 2]>>,
              <<[skip |-> 0, begin |-> 1, end |-> 1], [skip |-> 2, begin |-> 3, end |-> 3]>>}

(* All access lists of two ranges, with the skip OID right before a range. *)
ListsMC == {<<>>} \cup ReloadsMC \cup
    {list \in [1..2 -> Line] : Consistent(list) /\ \A i \in 1..2 : list[i].skip = list[i].begin - 1}

(* OID 0 is where walks start; no instance has it.                         *)
MibsMC == SUBSET (1..MaxOid)

Asked == {oids \in [1..2 -> Oids] : oids[1] # oids[2]}
Single(kind) ==
    [kind : {kind}, oids : Asked, value : {IF kind \in {"set", "notification"} THEN "data" ELSE "null"},
     nonRepeaters : {0}, maxRepetitions : {0}]
Bulks(oids, nonRepeaters) ==
    [kind : {"getbulk"}, oids : oids, value : {"null"},
     nonRepeaters : nonRepeaters, maxRepetitions : {MaxBulk}]

(* Three OIDs, of which the last one of all is beyond every range.         *)
WithDenied == {<<o[1], o[2], 0>> : o \in {p \in Asked : MaxOid \in {p[1], p[2]}}}
RequestsMC ==
    Single("get") \cup Single("set") \cup Single("getnext") \cup Single("notification")
        \cup Bulks(Asked, 0..2) \cup Bulks(WithDenied, 1..2)

WalksMC == [kind : {"getnext", "getbulk"}, oids : {<<0>>}, value : {"null"},
            nonRepeaters : {0}, maxRepetitions : {MaxBulk}]
=============================================================================
