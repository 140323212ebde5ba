----------------------------- MODULE MCPrograms -----------------------------
(***************************************************************************)
(* Programs in a table of five processes, init and idle among them, so     *)
(* that spawns fail: the test programs alone and together, and the shell.  *)
(***************************************************************************)
EXTENDS Programs

Tests(progs) == [init |-> "tests", in_procs |-> <<"idle">> \o progs]
MCConfigs ==
  {Tests(t) : t \in
     {<<"progABC", "progDE">>, <<"progFG", "progQ">>, <<"progP">>, <<"progS", "progH">>,
      <<"progI">>, <<"progJ">>, <<"progKL">>, <<"progMN">>, <<"progR">>,
      <<"progS", "progTUV">>}} \cup
  {[init |-> i, in_procs |-> <<"idle", "shell">>] : i \in {"RUN_SHELL", "use_shell"}}
MCsh_procs == <<[select |-> "q", entry |-> "progQ"],
                [select |-> "h", entry |-> "progH"]>>
MCLines == {<<"@", "*", "x", "q">>, <<"b", "@", "?", "z", "q">>, <<"@", "q", "NL">>}
=============================================================================
