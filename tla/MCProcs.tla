------------------------------ MODULE MCProcs ------------------------------
(***************************************************************************)
(* Small instances of Procs for TLC.                                       *)
(***************************************************************************)
EXTENDS Procs

StdOnly == {PRIO_STD}
=============================================================================
