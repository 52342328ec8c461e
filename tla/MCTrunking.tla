----------------------------- MODULE MCTrunking -----------------------------
(* Small instances of Trunking for TLC. *)
EXTENDS Trunking, TLC

CONSTANTS a, b,         \* processes
          t1, t2,       \* trunk IDs
          c1, c2, c3    \* connections

OneDial == {[by |-> a, trunk |-> t1, to |-> b]}
CrossDials == {[by |-> a, trunk |-> t1, to |-> b], [by |-> b, trunk |-> t2, to |-> a]}

ConnSymmetry == Permutations(Conns)

PassiveOnly == [p \in Procs |-> IF p = b THEN 1 ELSE 0]
Alternate == [p \in Procs |-> IF p = b THEN 2 ELSE 1]

(* Behaviours in which connects are faster than the timers.                *)
FairPromptSpec == PromptSpec /\ TimerFairness /\ NetworkFairness
=============================================================================
