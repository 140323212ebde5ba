------------------------------ MODULE MCQueues ------------------------------
(***************************************************************************)
(* Two queues, and three values of which two compare equal.                *)
(***************************************************************************)
EXTENDS Queues

MCKey == [d \in Data |-> d \div 2]
=============================================================================
