----------------------------- MODULE MCConsole -----------------------------
(***************************************************************************)
(* Console on a screen of 3 x 3 characters: output that wraps, scrolls and *)
(* leaves the region, and keys that overfill a buffer of three characters. *)
(***************************************************************************)
EXTENDS Console

MCTexts == {<<97>>, <<97, NL, 98>>, <<97, 98, 97, CR>>}
Plain(s) == [str |-> s, width |-> 0, left |-> FALSE, pad |-> Blank]
MCItems == {<<Plain(<<NL, 97>>),
              [str |-> <<98>>, width |-> 2, left |-> TRUE, pad |-> 48]>>}
MCRegions == {<<1, 1, 9, 9>>, <<0, 1, 1, 1>>, <<1, 0, 0, 1>>}
MCWorkloads ==
  {{"puts", "printf", "puts_at", "printf_at", "setscroll", "moveto",
    "scroll", "clear", "opt"},
   {"read"}}
=============================================================================
