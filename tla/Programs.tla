------------------------------ MODULE Programs ------------------------------
(***************************************************************************)
(* The user programs: init, idle, the test programs of user/prog*.c and    *)
(* the shell of misc/use_shell, on the kernel that ProcSpec describes      *)
(* (Procs implements it).  A process has the operations it still has to do *)
(* and one counter; output, delays and naps, which no other process sees,  *)
(* are the operation "work".  The programs share one address space: static *)
(* variables outlive the process that set them.                            *)
(***************************************************************************)
EXTENDS ProcSpec, Sequences, SequencesExt

CONSTANTS
  Configs,         \* [init, in_procs]: an init and its table of programs
  sh_procs,        \* the table of the shell: [select, entry]
  Lines,           \* what can be typed to the shell
  Count,           \* the children that a program spawns (4 to 8 in the tables)
  Iterations,      \* of the programs without children (3 to 30)
  RSeq,            \* the first sequence number of progR
  MaxShortages,    \* bound: times that memory for a stack is short
  MaxRespawns,     \* bound: processes that init starts again
  MaxLines         \* bound: lines typed

S_ERROR == -1
S_BAD_SYSCALL == -3
NONE == 0          \* no PID: a call that failed, or S_NO_CHILD

ASSUME ProgramsAssumption ==
  /\ Count \in Nat /\ Iterations \in Nat /\ RSeq \in Nat
  /\ MaxShortages \in Nat /\ MaxRespawns \in Nat /\ MaxLines \in Nat

VARIABLES
  config,      \* how init was built
  local,       \* per process: prog, todo, n (a counter)
  proc_pids,   \* static of init: the process of each entry of its table
  shell,       \* statics of the shell: time_to_stop, children
  short, respawns, lines

statics == <<config, proc_pids, shell, respawns, lines>>
vars == <<procs, local, short, statics>>

-----------------------------------------------------------------------------
(* The programs *)

Work == [op |-> "work"]
spawn(what) == [op |-> "spawn", what |-> what]
exit(status) == [op |-> "exit", status |-> status]
wait == [op |-> "wait"]
process(ix) == [op |-> "process", ix |-> ix, again |-> FALSE]
restart(ix) == [process(ix) EXCEPT !.again = TRUE]
store(ix, pid) == [op |-> "store", ix |-> ix, pid |-> pid]
exec(what) == [op |-> "exec", what |-> what]
read == [op |-> "read"]
stop == [op |-> "stop"]
Counter == "n"     \* status: the value of the counter

Times(n, ops) == FlattenSeq([i \in 1..n |-> ops])

progABC == <<Work>> \o Times(Iterations, <<Work>>) \o <<exit(50)>>
progDE == <<Work>> \o Times(Iterations, <<Work>>) \o <<exit(60)>>     \* by fake_exit()
progFG == <<Work>> \o Times(Iterations, <<Work>>) \o <<exit(0)>>
progH == <<Work>> \o Times(Count, <<spawn("progZ")>>)
           \o <<Work, exit(Counter)>>
\* progI waits until there are no children, progTUV as often as it has some.
progI == <<Work>> \o Times(Count, <<spawn("progW")>>) \o <<Work, wait, exit(0)>>
progJ == <<Work>> \o Times(2 * N_PROCS, <<spawn("progY")>>) \o <<exit(0)>>
progKL == <<Work>> \o Times(Count, <<spawn("progX"), Work>>) \o <<exit(0)>>
progMN == <<Work>> \o Times(Count, <<spawn("progW"), spawn("progZ")>>)
            \o <<exit(0)>>
progP == <<Work>> \o Times(Iterations, <<Work>>) \o <<exit(0)>>
\* The kernel ends a process that makes an unknown system call.
progQ == <<Work, exit(S_BAD_SYSCALL)>>
progR == <<Work, [op |-> "fork"], Work, exit(0)>>
progS == <<Work, [op |-> "loop"]>>
progTUV == <<Work>> \o Times(Count, <<spawn("progW")>>)
             \o <<Work, wait, exit(0)>>
progW == <<Work>> \o Times(Iterations, <<Work>>) \o <<exit(0)>>
progX == <<Work>> \o Times(Iterations, <<Work>>) \o <<exit(12)>>
progY == <<Work>> \o Times(Iterations, <<Work>>) \o <<exit(0)>>
progZ == <<Work>> \o Times(Iterations, <<Work>>) \o <<exit(0)>>
idle == <<Work, [op |-> "loop"]>>
Shell == <<Work, read>>
init == [i \in 1..Len(config.in_procs) |-> process(i)] \o <<wait>>

Program(name) ==
  CASE name = "progABC" -> progABC [] name = "progDE" -> progDE
    [] name = "progFG"  -> progFG  [] name = "progH"  -> progH
    [] name = "progI"   -> progI   [] name = "progJ"  -> progJ
    [] name = "progKL"  -> progKL  [] name = "progMN" -> progMN
    [] name = "progP"   -> progP   [] name = "progQ"  -> progQ
    [] name = "progR"   -> progR   [] name = "progS"  -> progS
    [] name = "progTUV" -> progTUV [] name = "progW"  -> progW
    [] name = "progX"   -> progX   [] name = "progY"  -> progY
    [] name = "progZ"   -> progZ   [] name = "idle"   -> idle
    [] name = "shell"   -> Shell   [] name = "init"   -> init

Started(name) ==
  [prog |-> name, todo |-> Program(name),
   n |-> IF name = "progR" THEN RSeq ELSE 0]

-----------------------------------------------------------------------------
(* What a program does with the result of a system call *)

Op(p) == Head(local[p].todo)
At(p, name) == p \in Active /\ Op(p).op = name
Rest(l) == [l EXCEPT !.todo = Tail(@)]

\* spawn() has returned: progH counts its failures, progTUV its children.
Spawned(l, pid) ==
  [Rest(l) EXCEPT
     !.n = IF \/ l.prog = "progTUV" /\ pid # NONE
              \/ l.prog = "progH" /\ pid = NONE
           THEN @ + 1 ELSE @]

\* The entry of its table that init starts again when entry ix has ended: with
\* RUN_SHELL the entry 0, idle, also for the shell; with misc/use_shell any.
Restarts(ix) ==
  CASE config.init = "tests"     -> IF ix = 1 THEN <<restart(1)>> ELSE <<>>
    [] config.init = "RUN_SHELL" -> IF ix \in {1, 2} THEN <<restart(1)>> ELSE <<>>
    [] config.init = "use_shell" -> <<restart(ix)>>
EntryOf(pid) == {ix \in DOMAIN proc_pids : pid # NONE /\ proc_pids[ix] = pid}

\* Faulty: progTUV stops one child early.
Waited_Early(l, pid) ==
  CASE l.prog = "init" -> l
    [] l.prog = "progI" ->
         IF pid = NONE THEN Rest(l) ELSE [l EXCEPT !.todo = <<Work>> \o @]
    [] l.prog = "progTUV" ->
         IF pid = NONE \/ l.n <= 2 THEN Rest(l) ELSE [l EXCEPT !.n = @ - 1]
    [] l.prog = "shell" -> IF pid = NONE THEN Rest(l) ELSE l

\* wait() has returned.
Waited(l, pid) ==
  CASE l.prog = "init" ->
         [l EXCEPT !.todo = FlattenSeq(SetToSeq({Restarts(ix) : ix \in EntryOf(pid)})) \o @]
    [] l.prog = "progI" ->
         IF pid = NONE THEN Rest(l) ELSE [l EXCEPT !.todo = <<Work>> \o @]
    [] l.prog = "progTUV" ->
         IF pid = NONE \/ l.n <= 1 THEN Rest(l) ELSE [l EXCEPT !.n = @ - 1]
    [] l.prog = "shell" -> IF pid = NONE THEN Rest(l) ELSE l

\* The static variables when the processes in the domain of given are handed
\* children.
Forgotten(given) ==
  [ix \in DOMAIN proc_pids |->
     IF \E w \in DOMAIN given : local[w].prog = "init" /\ ix \in EntryOf(given[w])
     THEN NONE ELSE proc_pids[ix]]
Counted(given) ==
  [shell EXCEPT !.children =
     @ - Cardinality({w \in DOMAIN given : local[w].prog = "shell"})]

-----------------------------------------------------------------------------
(* The steps of a process *)

\* fork() and exec() fail when there is no memory for a stack, fork() also when
\* the process table is full.
Shortage == short < MaxShortages /\ short' = short + 1
ForkFails ==
  /\ \/ Cardinality(Table) >= N_PROCS /\ UNCHANGED short
     \/ Shortage
  /\ UNCHANGED procs

DoWork(p) ==
  /\ At(p, "work")
  /\ local' = [local EXCEPT ![p] = Rest(@)]
  /\ UNCHANGED <<procs, short, statics>>

\* A child that fork() makes, beside what becomes of the parent.
WithChild(p, parent_l, child_l) ==
  [q \in DOMAIN local \cup {next_pid} |->
     IF q = p THEN parent_l ELSE IF q = next_pid THEN child_l ELSE local[q]]

\* spawn() of lib/uextras.c: the child runs exec(), and exits if that fails.
Fresh(what) ==
  [prog |-> "new", todo |-> <<exec(what), exit(S_ERROR)>>, n |-> 0]
DoSpawn(p) ==
  /\ At(p, "spawn")
  /\ \/ /\ Fork(p)
        /\ local' = WithChild(p, Spawned(local[p], next_pid), Fresh(Op(p).what))
        /\ shell' = IF local[p].prog = "shell"
                    THEN [shell EXCEPT !.children = @ + 1] ELSE shell
        /\ UNCHANGED short
     \/ /\ ForkFails
        /\ local' = [local EXCEPT ![p] = Spawned(@, NONE)]
        /\ UNCHANGED shell
  /\ UNCHANGED <<config, proc_pids, respawns, lines>>

\* process() of init: if exec() fails in the child, it goes on as init does.
DoProcess(p) ==
  LET ix == Op(p).ix
      l  == Rest(local[p])
      again == Op(p).again
  IN  /\ At(p, "process")
      /\ again => respawns < MaxRespawns
      /\ respawns' = IF again THEN respawns + 1 ELSE respawns
      /\ \/ /\ Fork(p)
            /\ local' = WithChild(p,
                 [l EXCEPT !.todo = <<store(ix, next_pid)>> \o @],
                 [l EXCEPT !.todo = <<exec(config.in_procs[ix])>> \o @])
            /\ UNCHANGED short
         \/ /\ ForkFails
            /\ local' = [local EXCEPT ![p] = l]
      /\ UNCHANGED <<config, proc_pids, shell, lines>>

\* The parent remembers the PID, which the child may not have had for long.
DoStore(p) ==
  /\ At(p, "store")
  /\ proc_pids' = [proc_pids EXCEPT ![Op(p).ix] = Op(p).pid]
  /\ local' = [local EXCEPT ![p] = Rest(@)]
  /\ UNCHANGED <<procs, short, config, shell, respawns, lines>>

\* Faulty: the parent does not undo its increment.
DoFork_Keep(p) ==
  LET l == local[p]
  IN  /\ At(p, "fork")
      /\ IF l.n >= 5
         THEN local' = [local EXCEPT ![p] = Rest(l)] /\ UNCHANGED <<procs, short>>
         ELSE \/ /\ Fork(p) /\ UNCHANGED short
                 /\ local' = WithChild(p,
                      [l EXCEPT !.todo = <<Work>> \o Tail(@), !.n = @ + 1],
                      [Started("progR") EXCEPT !.n = l.n + 1])
              \/ /\ ForkFails
                 /\ local' = [local EXCEPT ![p] = [Rest(l) EXCEPT !.n = @ + 1]]
      /\ UNCHANGED statics

\* progR forks a copy of itself with the next sequence number; a parent undoes
\* the increment, which the child has on its own stack, but not if fork() fails.
DoFork(p) ==
  LET l == local[p]
  IN  /\ At(p, "fork")
      /\ IF l.n >= 5
         THEN local' = [local EXCEPT ![p] = Rest(l)] /\ UNCHANGED <<procs, short>>
         ELSE \/ /\ Fork(p) /\ UNCHANGED short
                 /\ local' = WithChild(p,
                      [l EXCEPT !.todo = <<Work>> \o Tail(@)],
                      [Started("progR") EXCEPT !.n = l.n + 1])
              \/ /\ ForkFails
                 /\ local' = [local EXCEPT ![p] = [Rest(l) EXCEPT !.n = @ + 1]]
      /\ UNCHANGED statics

DoExec(p) ==
  /\ At(p, "exec")
  /\ \/ local' = [local EXCEPT ![p] = Started(Op(p).what)] /\ UNCHANGED short
     \/ local' = [local EXCEPT ![p] = Rest(@)] /\ Shortage
  /\ UNCHANGED <<procs, statics>>

DoExit(p) ==
  /\ At(p, "exit")
  /\ \E given \in Deliveries(p) :
       /\ Exit(p, given)
       /\ local' = [q \in DOMAIN local \ {p} |->
                      IF q \in DOMAIN given THEN Waited(local[q], given[q])
                      ELSE local[q]]
       /\ proc_pids' = Forgotten(given)
       /\ shell' = Counted(given)
  /\ UNCHANGED <<config, short, respawns, lines>>

\* The shell waits only while it counts children.
DoWait(p) ==
  /\ At(p, "wait")
  /\ IF local[p].prog = "shell" /\ shell.children = 0
     THEN local' = [local EXCEPT ![p] = Rest(@)] /\ UNCHANGED <<procs, statics>>
     ELSE \/ /\ Block(p)
             /\ UNCHANGED <<local, statics>>
          \/ /\ Children(p) = {}
             /\ local' = [local EXCEPT ![p] = Waited(@, NONE)]
             /\ UNCHANGED <<procs, statics>>
          \/ \E child \in zombies :
               /\ Collect(p, child)
               /\ local' = [local EXCEPT ![p] = Waited(@, child)]
               /\ proc_pids' = Forgotten([w \in {p} |-> child])
               /\ shell' = Counted([w \in {p} |-> child])
               /\ UNCHANGED <<config, respawns, lines>>
  /\ UNCHANGED short

-----------------------------------------------------------------------------
(* The shell *)

\* edit(): the characters of a line that are left.  The pointer never moves, so
\* that a line that ends in a newline has none.
edit(line) == IF Last(line) = "NL" THEN 0 ELSE Len(line)
Commands(line) ==
  LET at == {i \in 1..edit(line) : line[i] = "@"}
  IN  IF Len(line) < 3 \/ edit(line) < 2 \/ at = {} THEN <<>>
      ELSE SubSeq(line, 1 + CHOOSE i \in at : \A j \in at : i <= j, Len(line))

\* run(): the operations that a command stands for; usage() is output.
run(which) ==
  CASE which = "?" -> <<Work>>
    [] which = "x" -> <<stop>>
    [] which = "*" -> [i \in DOMAIN sh_procs |-> spawn(sh_procs[i].entry)]
    [] OTHER ->
         LET found == SelectSeq(sh_procs, LAMBDA e : e.select = which)
         IN  IF found = <<>> THEN <<Work>> ELSE <<spawn(found[1].entry)>>

\* The loop of the shell: the commands of a line, and then the children.
DoRead(p) ==
  /\ At(p, "read")
  /\ IF shell.stop
     THEN /\ local' = [local EXCEPT ![p].todo = <<Work, exit(1)>>]
          /\ UNCHANGED lines
     ELSE /\ lines < MaxLines
          /\ lines' = lines + 1
          /\ \E line \in Lines :
               LET cmds == Commands(line)
               IN  local' = [local EXCEPT ![p].todo =
                     FlattenSeq([i \in DOMAIN cmds |-> run(cmds[i])])
                       \o (IF cmds = <<>> THEN <<>> ELSE <<wait>>) \o <<read>>]
  /\ UNCHANGED <<procs, config, proc_pids, shell, short, respawns>>

\* The command "x" ends the commands of its line, and the shell once the
\* children are collected.
DoStop(p) ==
  /\ At(p, "stop")
  /\ shell' = [shell EXCEPT !.stop = TRUE]
  /\ local' = [local EXCEPT ![p].todo = <<wait, read>>]
  /\ UNCHANGED <<procs, config, proc_pids, short, respawns, lines>>

-----------------------------------------------------------------------------
Start ==
  /\ Init
  /\ config \in Configs
  /\ local = [p \in {INIT} |-> [prog |-> "init", todo |-> init, n |-> 0]]
  /\ proc_pids = [ix \in DOMAIN config.in_procs |-> NONE]
  /\ shell = [stop |-> FALSE, children |-> 0]
  /\ short = 0 /\ respawns = 0 /\ lines = 0

Step(p) ==
  \/ DoWork(p) \/ DoSpawn(p) \/ DoProcess(p) \/ DoStore(p) \/ DoFork(p)
  \/ DoExec(p) \/ DoExit(p) \/ DoWait(p) \/ DoStop(p)
Run == \E p \in Table : Step(p) \/ DoRead(p)

\* The scheduler is fair to the processes, which all but idle have the same
\* priority; nobody has to type anything.
ProgramsSpec ==
  Start /\ [][Run]_vars /\ WF_vars(\E p \in Table : Step(p))

-----------------------------------------------------------------------------
(* Correctness *)

Exits(p) == At(p, "exit") /\ p \in zombies' \cup (Table \ DOMAIN parent')

\* The programs that collect their own children leave none to init, whichever
\* spawns failed and in whatever order the children ended: progI waits until
\* it is told that there are none, progTUV counts those it has, and the shell
\* counts them in a static variable.
NoneLeftBehind ==
  [][\A p \in Table :
       Exits(p) /\ local[p].prog \in {"progI", "progTUV", "shell"}
       => Children(p) = {}]_vars

\* "each child getting the next sequence number": the copies of progR have
\* numbers of their own, although a child starts from the number that its
\* parent has incremented and takes back, and a fork() that fails leaves it;
\* unless an exec() that failed has left a second init, which starts them too.
SequenceNumbers ==
  {p \in DOMAIN local : local[p].prog = "init" /\ Op(p).op # "exec"} = {INIT} =>
  \A p, q \in DOMAIN local :
    p # q /\ local[p].prog = "progR" /\ local[q].prog = "progR"
    => local[p].n # local[q].n

\* In the end there are only init, collecting, and the programs that never
\* end: every process that ended has been collected and nobody waits for
\* anything that will not happen (up to the bound on restarts).
Quiet ==
  \/ /\ zombies = {}
     /\ \A p \in Table : \/ local[p].prog = "init" /\ Op(p) = wait
                         \/ Op(p).op \in {"loop", "read"}
  \/ \E p \in Table : At(p, "process") /\ respawns = MaxRespawns
Settles == <>[]Quiet
=============================================================================
