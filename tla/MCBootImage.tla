---------------------------- MODULE MCBootImage ----------------------------
(***************************************************************************)
(* BootImage with sectors of 4 bytes and segments of 16, on a small disk    *)
(* that the larger images fill; room for a table of two programs.          *)
(***************************************************************************)
EXTENDS BootImage

MCFiles ==
  {[len |-> l, addr |-> a, form |-> "number"] :
     l \in {0, 1, 8, 18}, a \in {16, 21, 24, 58}} \cup
  {[len |-> 2, addr |-> 16, form |-> "seg:off"]}
=============================================================================
