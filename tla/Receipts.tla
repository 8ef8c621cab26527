------------------------------ MODULE Receipts ------------------------------
(***************************************************************************)
(* What a delivery record promises, whatever protocol keeps it: a thing is *)
(* said any number of times until it is acknowledged, the acknowledgement  *)
(* names one of the times it was said, and after it the thing is never     *)
(* said again.                                                             *)
(***************************************************************************)
EXTENDS Naturals, Sequences

CONSTANT Keys

VARIABLES
    said,       \* what was said, in order
    receipt     \* Keys -> the position that acknowledges it, 0 for none

vars == <<said, receipt>>

Init ==
    /\ said = <<>>
    /\ receipt = [k \in Keys |-> 0]

Say(k) ==
    /\ receipt[k] = 0
    /\ said' = Append(said, k)
    /\ UNCHANGED receipt

Acknowledge(k) ==
    /\ receipt[k] = 0
    /\ \E i \in DOMAIN said :
          /\ said[i] = k
          /\ receipt' = [receipt EXCEPT ![k] = i]
    /\ UNCHANGED said

Next == \E k \in Keys : Say(k) \/ Acknowledge(k)

Spec == Init /\ [][Next]_vars
=============================================================================
