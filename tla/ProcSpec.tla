------------------------------ MODULE ProcSpec ------------------------------
(***************************************************************************)
(* What the kernel promises its processes of fork(), exit() and wait():    *)
(* processes are known by their PIDs, a process that ends is kept as a     *)
(* zombie until its parent collects it, a parent that waits is given one   *)
(* ended child as soon as there is one, and orphans go to init.  There are *)
(* no tables, queues, stacks or time slices here; Procs has them.          *)
(***************************************************************************)
EXTENDS Integers, FiniteSets

CONSTANT N_PROCS

INIT == 1

VARIABLES
  parent,      \* the parent of every process there is, zombies included
  waiting,     \* processes blocked in wait()
  zombies,
  next_pid

procs == <<parent, waiting, zombies, next_pid>>

Table == DOMAIN parent
Active == Table \ (waiting \cup zombies)
Children(p) == {c \in Table \ {p} : parent[c] = p}

Without(f, gone) == [c \in DOMAIN f \ gone |-> f[c]]

Fork(p) ==
  /\ p \in Active
  /\ Cardinality(Table) < N_PROCS
  /\ parent' = [c \in Table \cup {next_pid} |->
                  IF c = next_pid THEN p ELSE parent[c]]
  /\ next_pid' = next_pid + 1
  /\ UNCHANGED <<waiting, zombies>>

\* When p ends, init takes its children, and every process that then waits for
\* a zombie is given one of its own.
Adopted(p) == [c \in Table |-> IF c \in Children(p) THEN INIT ELSE parent[c]]

\* Faulty: init is not awakened for the zombies that it is given.
Deliveries_Own(p) ==
  LET due == waiting \cap {parent[p]}
  IN  {[w \in due |-> p]}

Deliveries(p) ==
  LET ended == zombies \cup {p}
      due   == {w \in waiting : \E c \in ended : Adopted(p)[c] = w}
  IN  {f \in [due -> ended] : \A w \in due : Adopted(p)[f[w]] = w}

Exit(p, given) ==
  LET gone == {given[w] : w \in DOMAIN given}
  IN  /\ p \in Active \ {INIT}
      /\ parent' = Without(Adopted(p), gone)
      /\ zombies' = (zombies \cup {p}) \ gone
      /\ waiting' = waiting \ DOMAIN given
      /\ UNCHANGED next_pid

\* wait() collects a zombie, or blocks; without children it returns at once.
Collect(p, child) ==
  /\ p \in Active
  /\ child \in Children(p) \cap zombies
  /\ parent' = Without(parent, {child})
  /\ zombies' = zombies \ {child}
  /\ UNCHANGED <<waiting, next_pid>>

Block(p) ==
  /\ p \in Active
  /\ Children(p) # {} /\ Children(p) \cap zombies = {}
  /\ waiting' = waiting \cup {p}
  /\ UNCHANGED <<parent, zombies, next_pid>>

Init ==
  /\ parent = [p \in {INIT} |-> INIT]
  /\ waiting = {} /\ zombies = {}
  /\ next_pid = INIT + 1

Next ==
  \E p \in Table :
    \/ Fork(p) \/ Block(p)
    \/ \E given \in Deliveries(p) : Exit(p, given)
    \/ \E child \in zombies : Collect(p, child)

Spec == Init /\ [][Next]_procs
=============================================================================
