---------------------------- MODULE TrunkChannel ----------------------------
(***************************************************************************)
(* What the rest of snmpfwd takes one direction of a trunk connection for, *)
(* and what Trunking and TrunkMessaging model it as: a FIFO of messages.   *)
(* Each message is handed over once, whole, in the order of the writes,    *)
(* until the connection breaks; what was not handed over by then is lost.  *)
(***************************************************************************)
EXTENDS Naturals, Sequences

CONSTANT Messages

VARIABLES sent,       \* the messages written
          delivered,  \* the messages handed over
          unbroken

vars == <<sent, delivered, unbroken>>

Init == sent = <<>> /\ delivered = <<>> /\ unbroken = TRUE

Write == /\ \E m \in Messages : sent' = Append(sent, m)
         /\ UNCHANGED <<delivered, unbroken>>

Deliver == /\ unbroken
           /\ Len(delivered) < Len(sent)
           /\ delivered' = Append(delivered, sent[Len(delivered) + 1])
           /\ unbroken' \in BOOLEAN
           /\ UNCHANGED sent

Break == unbroken' = FALSE /\ UNCHANGED <<sent, delivered>>

Next == Write \/ Deliver \/ Break

Spec == Init /\ [][Next]_vars
=============================================================================
