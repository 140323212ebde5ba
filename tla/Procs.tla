------------------------------- MODULE Procs -------------------------------
(***************************************************************************)
(* The process table, the scheduler, the system calls and the clock of the *)
(* kernel (kernel/procs.c, kernel/syscalls.c, kernel/clock.c), with the    *)
(* stack pool of Stacks and the programs of init and idle.                 *)
(*                                                                         *)
(* The kernel runs with interrupts off, so a system call of the current    *)
(* process is one step.  The clock ISR is one step per iteration of its    *)
(* wake-up loop; mode = "clk" while it runs, and nothing else can happen   *)
(* then.  Queues are sequences of PCBs (module Queues has the qnodes).     *)
(***************************************************************************)
EXTENDS Integers, Sequences, FiniteSets, QueueOps, Stacks

CONSTANTS
  N_PROCS,     \* entries in ptable
  Q_STD,       \* clock ticks in a time slice
  N_ENTRIES,   \* entries in init's spawn table; entry 0 is idle
  InitPrios,   \* priorities init gives the processes it spawns after idle
  PrioArgs,    \* arguments user processes pass to fork()
  SleepArgs,   \* arguments user processes pass to sleep()
  PidArgs,     \* arguments user processes pass to getprio()
  StatusArgs,  \* arguments user processes pass to exit()
  Calls,       \* the system calls the modelled workload makes
  MaxPid,      \* bound: the last PID fork() hands out
  TimeMod,     \* bound: system_time is a counter modulo TimeMod (2^32)
  MaxQnodes    \* bound: the qnodes that fit into the pages qnode_alloc() gets

PRIO_HIGH == 0
PRIO_STD == 1
PRIO_LOW == 2
PRIO_INHERIT == 128
Prios == PRIO_HIGH..PRIO_LOW
PID_INIT == 1
FIRST_USER_PID == 2
IDLE_PID == FIRST_USER_PID       \* idle is the first process init forks

S_ERROR == -1
S_NOT_FOUND == -2
S_BAD_SYSCALL == -3
S_NO_CHILD == -4
S_BAD_CHAN == -5

Slots == 0..(N_PROCS - 1)
init_pcb == 0                    \* pcb_alloc() on an empty table
NoPcb == -1                      \* the NULL pcb_t pointer
SyscallNames == {"exit", "wait", "fork", "exec", "read", "write", "sleep",
                 "getpid", "gettime", "getprio", "bogus"}

ASSUME ProcsAssumption ==
  /\ N_PROCS \in Nat /\ N_PROCS >= 2
  /\ N_ENTRIES \in Nat /\ N_ENTRIES >= 1
  /\ Q_STD \in 1..255
  /\ InitPrios \subseteq Prios
  /\ PrioArgs \subseteq Nat
  /\ SleepArgs \subseteq Nat
  /\ PidArgs \subseteq Nat
  /\ StatusArgs \subseteq Int
  /\ Calls \subseteq SyscallNames
  /\ MaxPid \in Nat /\ MaxPid >= FIRST_USER_PID
  /\ TimeMod \in Nat /\ TimeMod >= 1
  /\ MaxQnodes \in Nat /\ MaxQnodes >= 1   \* que_init() got a page of them

States == {"UNUSED", "READY", "RUNNING", "SLEEPING", "WAITING", "ZOMBIE"}
Modes == {"user", "clk", "panic", "wild"}

VARIABLES
  \* the fields of the PCBs
  state, parent, pid, priority, wakeup, quantum, status, stack,
  context,      \* the stack that the saved context of a process lies in
  ret,          \* EAX of the saved context: what a system call returned
  wstat,        \* what wait() stored through its status pointer
  \* the queues; zombie and sleeping hold PCBs, ready one queue per priority
  ready, sleeping, zombie,
  \* the globals of the kernel
  current, next_pid, system_time, pool,
  \* where the kernel is: running user code, in clk_isr, halted in kpanic(),
  \* or past a write over the stack of a live process ("wild")
  mode,
  spawned,      \* how far init is in its spawn table
  strayed       \* 0, or where in that table the child for idle goes on as
                \* init does, its exec() having failed

pcbs == <<state, parent, pid, priority, wakeup, quantum, status, stack,
          context, ret, wstat>>
vars == <<state, parent, pid, priority, wakeup, quantum, status, stack,
          context, ret, wstat, ready, sleeping, zombie, current, next_pid,
          system_time, pool, mode, spawned, strayed>>

-----------------------------------------------------------------------------
(* Helpers *)

\* A process that will run again: its stack must not be written over.
Live(p) == state[p] \notin {"UNUSED", "ZOMBIE"}

\* Faulty: zombies are not seen, and so not given a new parent either.
ChildrenOf_Alive(p) ==
  {c \in Slots : c # p /\ parent[c] = p /\ state[c] \notin {"UNUSED", "ZOMBIE"}}

\* What pcb_find_child_of() and the scan in sys_wait() look for.
ChildrenOf(p) ==
  {c \in Slots : c # p /\ parent[c] = p /\ state[c] # "UNUSED"}
\* Faulty: the scan stops one entry before the end of the table.
ZombieChildrenOf_Short(p) ==
  {c \in ChildrenOf(p) : state[c] = "ZOMBIE" /\ c < N_PROCS - 1}
ZombieChildrenOf(p) == {c \in ChildrenOf(p) : state[c] = "ZOMBIE"}

\* Faulty: every process goes to the queue of standard priority.
schedule_Std(rq, p, h) == [rq EXCEPT ![PRIO_STD] = Append(@, p)]
\* Faulty: the process goes to the front.
schedule_Front(rq, p, h) == [rq EXCEPT ![h] = <<p>> \o @]

\* qnode_alloc(): every entry of a queue takes a qnode, and the assertion that
\* there is memory for another page of them fails when there is none.
QnodesUsed ==
  Len(ready[PRIO_HIGH]) + Len(ready[PRIO_STD]) + Len(ready[PRIO_LOW])
  + Len(sleeping) + Len(zombie)
QnodeLeft == QnodesUsed < MaxQnodes

\* schedule(): the ready queues after p is appended to the one of priority h.
schedule(rq, p, h) == [rq EXCEPT ![h] = Append(@, p)]

\* dispatch(): with ready queues rq, process states st and quanta qt, give the
\* CPU to the head of the first queue that is not empty; assert( p != NULL ).
dispatch(rq, st, qt) ==
  IF \A h \in Prios : rq[h] = <<>>
  THEN /\ mode' = "panic"
       /\ ready' = rq /\ state' = st /\ quantum' = qt
       /\ UNCHANGED current
  ELSE \E h \in Prios :
       /\ rq[h] # <<>>
       /\ \A k \in Prios : k < h => rq[k] = <<>>
       /\ mode' = "user"
       /\ ready' = [rq EXCEPT ![h] = Tail(@)]
       /\ current' = Head(rq[h])
       /\ state' = [st EXCEPT ![Head(rq[h])] = "RUNNING"]
       /\ quantum' = [qt EXCEPT ![Head(rq[h])] = Q_STD]

\* A failed assertion: kpanic() loops with interrupts off, so nothing that
\* was half done is ever seen.
kpanic ==
  /\ mode' = "panic"
  /\ UNCHANGED <<pcbs, ready, sleeping, zombie, current, next_pid,
                 system_time, pool>>

\* The kernel wrote over memory a live process runs on, or through a pointer
\* computed from the wrong stack: nothing is said about what follows.
Corrupt ==
  /\ mode' = "wild"
  /\ UNCHANGED <<pcbs, ready, sleeping, zombie, current, next_pid,
                 system_time, pool>>

\* RET(p) = v, and nothing else: the calls that return at once.
Return(p, v) ==
  /\ ret' = [ret EXCEPT ![p] = v]
  /\ UNCHANGED <<state, parent, pid, priority, wakeup, quantum, status, stack,
                 context, wstat, ready, sleeping, zombie, current, next_pid,
                 system_time, pool, mode>>

-----------------------------------------------------------------------------
(* Programs: which system calls the running process may make next. *)

\* user/init.c forks the entries of its table, then waits for ever.
InitProgram == IF spawned < N_ENTRIES THEN {"fork"} ELSE {"wait"}

\* Faulty: idle sleeps between its messages.
IdleProgram_Sleeps(p) == {"sleep"}

\* The child that becomes idle calls exec() once; user/idle.c then asks for
\* its PID, the time and its priority, and writes.  It never blocks or exits.
\* Should that exec() fail, process() returns in the child too: it goes on in
\* init's loop, forks the rest of the table and waits.
IdleProgram(p) ==
  IF strayed > 0 THEN (IF strayed < N_ENTRIES THEN {"fork"} ELSE {"wait"})
  ELSE IF context[p] = stack[p] THEN {"exec"}
  ELSE {"getpid", "gettime", "getprio", "write"}

Program(p) ==
  Calls \cap (IF p = init_pcb THEN InitProgram
              ELSE IF pid[p] = IDLE_PID THEN IdleProgram(p)
              ELSE SyscallNames)

\* The current process traps into sys_isr() with this system call.
Traps(p, call) == mode = "user" /\ p = current /\ call \in Program(p)

-----------------------------------------------------------------------------
(* System calls *)

\* Faulty: the stack is forgotten.
ReleaseStack_Leak(pl, stk) == pl

\* pcb_cleanup(): the stack is released if there is one, the PCB is free.
ReleaseStack(pl, stk) == IF stk = NULL THEN pl ELSE stk_free(pl, stk)

\* The end of sys_exit(), with what its first part made of the PCBs: report to
\* the parent if that one waits, else become a zombie; then dispatch().
ReportExit(p, code, st, rq, rt, ws, stk, pl) ==
  LET par == parent[p]
  IN  IF st[par] = "WAITING"
      THEN /\ ret' = [rt EXCEPT ![par] = pid[p]]
           /\ wstat' = [ws EXCEPT ![par] = code]
           /\ stack' = [stk EXCEPT ![p] = NULL]
           /\ pool' = ReleaseStack(pl, stack[p])
           /\ dispatch(schedule(rq, par, priority[par]),
                       [st EXCEPT ![par] = "READY", ![p] = "UNUSED"], quantum)
      ELSE /\ ret' = rt /\ wstat' = ws /\ stack' = stk /\ pool' = pl
           /\ dispatch(rq, [st EXCEPT ![p] = "ZOMBIE"], quantum)

\* Faulty: the zombie is not queued.
QueueZombie_Skip(p, st, zq) == zq

\* pcb_zombify() in that second case: the entry in the zombie queue.
QueueZombie(p, st, zq) == IF st[parent[p]] = "WAITING" THEN zq ELSE Append(zq, p)

\* The rest of sys_exit() when there is nothing to collect for init ...
ExitOnly(p, code) ==
  /\ ReportExit(p, code, state, ready, ret, wstat, stack, pool)
  /\ zombie' = QueueZombie(p, state, zombie)

\* Faulty: the test of the parent's state uses what it was before init was
\* awakened, so init is handed two children at once.
ExitCollecting_Stale(p, code, f) ==
  /\ ReportExit(p, code, [state EXCEPT ![f] = "UNUSED"],
                schedule(ready, init_pcb, priority[init_pcb]),
                [ret EXCEPT ![init_pcb] = pid[f]],
                [wstat EXCEPT ![init_pcb] = status[f]],
                [stack EXCEPT ![f] = NULL],
                ReleaseStack(pool, stack[f]))
  /\ \E i \in 1..Len(zombie) :
       /\ FirstEntry(zombie, f, i)
       /\ zombie' = QueueZombie(p, state, DropEntry(zombie, i))

\* ... and when init waits and f, the last zombie found, has become its child.
ExitCollecting(p, code, f) ==
  LET st == [state EXCEPT ![init_pcb] = "READY", ![f] = "UNUSED"]
  IN  /\ ReportExit(p, code, st,
                    schedule(ready, init_pcb, priority[init_pcb]),
                    [ret EXCEPT ![init_pcb] = pid[f]],
                    [wstat EXCEPT ![init_pcb] = status[f]],
                    [stack EXCEPT ![f] = NULL],
                    ReleaseStack(pool, stack[f]))
      /\ \E i \in 1..Len(zombie) :
           /\ FirstEntry(zombie, f, i)
           /\ zombie' = QueueZombie(p, st, DropEntry(zombie, i))

\* sys_exit(): its assertions on the parent and on the zombie queue, and those
\* on the entry that the parent or the zombie is to have in a queue (awakening
\* init takes the qnode of the zombie it collects); the children go to init,
\* which is awakened if it waits and one is a zombie.
sys_exit(p, code) ==
  LET zombies == ZombieChildrenOf(p)
      collect == zombies # {} /\ state[init_pcb] = "WAITING"
  IN  IF \/ parent[p] \in {NoPcb, p}
         \/ state[parent[p]] = "UNUSED"
         \/ ~QnodeLeft
         \/ collect /\ \E f \in zombies :
                         IsLast(f, zombies) /\ f \notin Elements(zombie)
      THEN kpanic
      ELSE /\ parent' = [c \in Slots |->
                           IF c \in ChildrenOf(p) THEN init_pcb ELSE parent[c]]
           /\ status' = [status EXCEPT ![p] = code]
           /\ \/ ~collect /\ ExitOnly(p, code)
              \/ /\ collect
                 /\ \E f \in zombies :
                      IsLast(f, zombies) /\ ExitCollecting(p, code, f)
           /\ UNCHANGED <<pid, priority, wakeup, context, sleeping, next_pid,
                          system_time>>

Exit(p) == /\ Traps(p, "exit")
           /\ \E code \in StatusArgs : sys_exit(p, code)
           /\ UNCHANGED <<spawned, strayed>>

\* sys_isr() turns an unknown system call into exit(S_BAD_SYSCALL).
Bogus(p) == /\ Traps(p, "bogus")
            /\ sys_exit(p, S_BAD_SYSCALL)
            /\ UNCHANGED <<spawned, strayed>>

\* sys_wait(): collect the first zombie child (its entry stays in the zombie
\* queue), or fail if there are no children, or wait.
sys_wait(p) ==
  \/ \E child \in Slots :
       /\ IsFirst(child, ZombieChildrenOf(p))
       /\ ret' = [ret EXCEPT ![p] = pid[child]]
       /\ wstat' = [wstat EXCEPT ![p] = status[child]]
       /\ state' = [state EXCEPT ![child] = "UNUSED"]
       /\ stack' = [stack EXCEPT ![child] = NULL]
       /\ pool' = ReleaseStack(pool, stack[child])
       /\ UNCHANGED <<parent, pid, priority, wakeup, quantum, status, context,
                      ready, sleeping, zombie, current, next_pid, system_time,
                      mode>>
  \/ ChildrenOf(p) = {} /\ Return(p, S_NO_CHILD)
  \/ /\ ChildrenOf(p) # {} /\ ZombieChildrenOf(p) = {}
     /\ dispatch(ready, [state EXCEPT ![p] = "WAITING"], quantum)
     /\ UNCHANGED <<parent, pid, priority, wakeup, status, stack, context, ret,
                    wstat, sleeping, zombie, next_pid, system_time, pool>>

Wait(p) == Traps(p, "wait") /\ sys_wait(p) /\ UNCHANGED <<spawned, strayed>>

\* sys_fork() fails when there is no unused PCB or no stack.
sys_fork_fails(p) ==
  /\ (\A s \in Slots : state[s] # "UNUSED") \/ NextStack(pool) = NULL
  /\ Return(p, S_ERROR)

\* It writes over a live process if the pool hands out a stack in use, and
\* through stray pointers if the caller no longer runs on its pcb->stack: the
\* copy and the child's context are computed from pcb->stack.
ForkCorrupts(p) ==
  \/ context[p] # stack[p]
  \/ \E q \in Slots : Live(q) /\ context[q] = NextStack(pool)

\* pcb_alloc(): the first unused PCB of the table.
pcb_alloc(new) == IsFirst(new, {s \in Slots : state[s] = "UNUSED"})

\* sys_fork() with a PCB and a stack; the priority is cut to a byte (prio_t)
\* and schedule() asserts that it is one of the three, and that the child gets
\* its entry in the ready queue.
sys_fork(p, new, arg) ==
  LET stk == NextStack(pool)
      h   == IF arg % 256 = PRIO_INHERIT THEN priority[p] ELSE arg % 256
  IN  /\ pcb_alloc(new)
      /\ stk # NULL
      /\ next_pid <= MaxPid
      /\ IF ForkCorrupts(p) THEN Corrupt
         ELSE IF h \notin Prios \/ ~QnodeLeft THEN kpanic
         ELSE
         /\ next_pid' = next_pid + 1
         /\ pool' = CopyStack(stk_alloc(pool), stk, stack[p])
         /\ stack' = [stack EXCEPT ![new] = stk]
         /\ context' = [context EXCEPT ![new] = stk]
         /\ parent' = [parent EXCEPT ![new] = p]
         /\ pid' = [pid EXCEPT ![new] = next_pid]
         /\ priority' = [priority EXCEPT ![new] = h]
         /\ wakeup' = [wakeup EXCEPT ![new] = 0]
         /\ quantum' = [quantum EXCEPT ![new] = 0]
         /\ status' = [status EXCEPT ![new] = 0]
         /\ ret' = [ret EXCEPT ![p] = next_pid, ![new] = 0]
         /\ wstat' = [wstat EXCEPT ![new] = wstat[p]]
         /\ ready' = schedule(ready, new, h)
         /\ state' = [state EXCEPT ![new] = "READY"]
         /\ UNCHANGED <<sleeping, zombie, current, system_time, mode>>

\* init runs idle at PRIO_LOW and the other entries at their own priority.
InitForks ==
  /\ Traps(init_pcb, "fork")
  /\ \/ sys_fork_fails(init_pcb)
     \/ \E h \in (IF spawned = 0 THEN {PRIO_LOW} ELSE InitPrios), new \in Slots :
          sys_fork(init_pcb, new, h)
  /\ spawned' = spawned + 1
  /\ UNCHANGED strayed

UserForks(p) ==
  /\ p # init_pcb /\ pid[p] # IDLE_PID
  /\ Traps(p, "fork")
  /\ \/ sys_fork_fails(p)
     \/ \E a \in PrioArgs, new \in Slots : sys_fork(p, new, a)
  /\ UNCHANGED <<spawned, strayed>>

\* The child that was to be idle, past its failed exec(): the next entry.
StrayForks(p) ==
  /\ p # init_pcb /\ pid[p] = IDLE_PID
  /\ Traps(p, "fork")
  /\ \/ sys_fork_fails(p)
     \/ \E h \in InitPrios, new \in Slots : sys_fork(p, new, h)
  /\ strayed' = strayed + 1
  /\ UNCHANGED spawned

\* sys_exec(): the process moves to a new stack and its old one is freed;
\* pcb->stack keeps pointing to the old one.
sys_exec(p) ==
  \/ NextStack(pool) = NULL /\ Return(p, S_ERROR)
  \/ /\ NextStack(pool) # NULL
     /\ \E q \in Slots : Live(q) /\ context[q] = NextStack(pool)
     /\ Corrupt
  \/ /\ NextStack(pool) # NULL
     /\ \A q \in Slots : Live(q) => context[q] # NextStack(pool)
     /\ context' = [context EXCEPT ![p] = NextStack(pool)]
     /\ pool' = stk_free(stk_alloc(pool), stack[p])
     /\ ret' = [ret EXCEPT ![p] = 0]       \* stk_setup(): a cleared context
     /\ wstat' = [wstat EXCEPT ![p] = 0]   \* the old locals are gone
     /\ UNCHANGED <<state, parent, pid, priority, wakeup, quantum, status,
                    stack, ready, sleeping, zombie, current,
                    next_pid, system_time, mode>>

Exec(p) ==
  /\ Traps(p, "exec")
  /\ sys_exec(p)
  /\ strayed' = IF pid[p] = IDLE_PID /\ NextStack(pool) = NULL
                THEN 1 ELSE strayed
  /\ UNCHANGED spawned

\* sys_sleep(): yield, or join the queue sorted by wake-up time; either way
\* the entry is asserted.
sys_sleep(p, n) ==
  LET w == (system_time + n) % TimeMod
  IN  IF ~QnodeLeft THEN kpanic
      ELSE
      /\ IF n = 0
         THEN /\ dispatch(schedule(ready, p, priority[p]),
                          [state EXCEPT ![p] = "READY"], quantum)
              /\ UNCHANGED <<wakeup, sleeping>>
         ELSE /\ wakeup' = [wakeup EXCEPT ![p] = w]
              /\ \E i \in 0..Len(sleeping) :
                   /\ InsertionPoint(sleeping, wakeup, w, i)
                   /\ sleeping' = InsertAfter(sleeping, p, i)
              /\ dispatch(ready, [state EXCEPT ![p] = "SLEEPING"], quantum)
      /\ UNCHANGED <<parent, pid, priority, status, stack, context, ret, wstat,
                     zombie, next_pid, system_time, pool>>

Sleep(p) == /\ Traps(p, "sleep")
            /\ \E n \in SleepArgs : sys_sleep(p, n)
            /\ UNCHANGED <<spawned, strayed>>

sys_getpid(p) == Return(p, pid[p])
GetPid(p) == Traps(p, "getpid") /\ sys_getpid(p) /\ UNCHANGED <<spawned, strayed>>

sys_gettime(p) == Return(p, system_time)
GetTime(p) == Traps(p, "gettime") /\ sys_gettime(p) /\ UNCHANGED <<spawned, strayed>>

\* sys_getprio(): pcb_find_pid() asserts that the PID is a user's; the result
\* is used without the NULL test, so for a PID that is not there the call
\* returns the byte that lies at the offset of the field in page 0.
ProcsWithPid(n) == {q \in Slots : pid[q] = n /\ state[q] # "UNUSED"}
PageZeroBytes == {0, 255}
sys_getprio(p, n) ==
  IF n = 0 \/ n = pid[p] THEN Return(p, priority[p])
  ELSE IF n < FIRST_USER_PID THEN kpanic
  ELSE IF ProcsWithPid(n) # {}
       THEN \E q \in Slots :
              IsFirst(q, ProcsWithPid(n)) /\ Return(p, priority[q])
       ELSE \E b \in PageZeroBytes : Return(p, b)

GetPrio(p) == /\ Traps(p, "getprio")
              /\ \E n \in (IF pid[p] = IDLE_PID THEN {0} ELSE PidArgs) :
                   sys_getprio(p, n)
              /\ UNCHANGED <<spawned, strayed>>

\* sys_read() of one byte: the console returns what is there; the serial line
\* too, but with nothing there the process is queued under an assertion that
\* the insertion fails.
sys_read(p, chan, avail) ==
  IF chan = "sio" /\ avail = 0 THEN kpanic
  ELSE Return(p, IF chan = "bad" THEN S_BAD_CHAN ELSE avail)

Read(p) == /\ Traps(p, "read")
           /\ \E chan \in {"cio", "sio", "bad"}, avail \in {0, 1} :
                sys_read(p, chan, avail)
           /\ UNCHANGED <<spawned, strayed>>

\* sys_write() of one byte: the devices never refuse.
sys_write(p, chan) == Return(p, IF chan = "bad" THEN S_BAD_CHAN ELSE 1)
Write(p) == /\ Traps(p, "write")
            /\ \E chan \in {"cio", "sio", "bad"} : sys_write(p, chan)
            /\ UNCHANGED <<spawned, strayed>>

-----------------------------------------------------------------------------
(* The clock interrupt *)

\* clk_isr() starts: time marches on.
ClkTick ==
  /\ mode = "user"
  /\ mode' = "clk"
  /\ system_time' = (system_time + 1) % TimeMod
  /\ UNCHANGED <<pcbs, ready, sleeping, zombie, current, next_pid, pool,
                 spawned, strayed>>

\* Faulty: a sleeper is due only after its time.
Due_Late == sleeping # <<>> /\ wakeup[Head(sleeping)] < system_time

Due == sleeping # <<>> /\ wakeup[Head(sleeping)] <= system_time

\* Faulty: the sleeper is only peeked at and stays in the sleep queue.
ClkWake_Peek ==
  /\ mode = "clk"
  /\ Due
  /\ LET p == Head(sleeping)
     IN  /\ ready' = schedule(ready, p, priority[p])
         /\ state' = [state EXCEPT ![p] = "READY"]
  /\ UNCHANGED <<parent, pid, priority, wakeup, quantum, status, stack, context,
                 ret, wstat, sleeping, zombie, current, next_pid, system_time,
                 pool, mode, spawned, strayed>>

\* One iteration of its loop: the first sleeper's time has come.
ClkWake ==
  /\ mode = "clk"
  /\ Due
  /\ LET p == Head(sleeping)
     IN  /\ ready' = schedule(ready, p, priority[p])
         /\ state' = [state EXCEPT ![p] = "READY"]
  /\ sleeping' = Tail(sleeping)
  /\ UNCHANGED <<parent, pid, priority, wakeup, quantum, status, stack, context,
                 ret, wstat, zombie, current, next_pid, system_time, pool,
                 mode, spawned, strayed>>

\* Nobody is left to awaken: charge the current process for the tick.  The
\* quantum is a byte: less than 0 would be 255.
Charged == (quantum[current] - 1) % 256

\* It has time left.
ClkContinue ==
  /\ mode = "clk"
  /\ ~Due
  /\ Charged >= 1
  /\ quantum' = [quantum EXCEPT ![current] = Charged]
  /\ mode' = "user"
  /\ UNCHANGED <<state, parent, pid, priority, wakeup, status, stack, context,
                 ret, wstat, ready, sleeping, zombie, current, next_pid,
                 system_time, pool, spawned, strayed>>

\* Its quantum is used up: preempt it, asserting its entry in a ready queue.
ClkPreempt ==
  /\ mode = "clk"
  /\ ~Due
  /\ Charged < 1
  /\ IF ~QnodeLeft THEN kpanic
     ELSE
     /\ dispatch(schedule(ready, current, priority[current]),
                 [state EXCEPT ![current] = "READY"],
                 [quantum EXCEPT ![current] = Charged])
     /\ UNCHANGED <<parent, pid, priority, wakeup, status, stack, context, ret,
                    wstat, sleeping, zombie, next_pid, system_time, pool>>
  /\ UNCHANGED <<spawned, strayed>>

\* The machine is halted in kpanic(), or the model has nothing more to say.
Halted == mode \in {"panic", "wild"} /\ UNCHANGED vars
-----------------------------------------------------------------------------
(* The start *)

\* pcb_init(): the queues are empty.
pcb_init ==
  /\ ready = [h \in Prios |-> <<>>]
  /\ sleeping = <<>> /\ zombie = <<>>
  /\ next_pid = FIRST_USER_PID

\* main() has made init, the only process, and dispatched it.
Init ==
  /\ state = [s \in Slots |-> IF s = init_pcb THEN "RUNNING" ELSE "UNUSED"]
  /\ parent = [s \in Slots |-> IF s = init_pcb THEN init_pcb ELSE NoPcb]
  /\ pid = [s \in Slots |-> IF s = init_pcb THEN PID_INIT ELSE 0]
  /\ priority = [s \in Slots |-> PRIO_HIGH]
  /\ wakeup = [s \in Slots |-> 0]
  /\ quantum = [s \in Slots |-> IF s = init_pcb THEN Q_STD ELSE 0]
  /\ status = [s \in Slots |-> 0]
  /\ stack = [s \in Slots |-> IF s = init_pcb THEN INIT_STACK ELSE NULL]
  /\ context = [s \in Slots |-> IF s = init_pcb THEN INIT_STACK ELSE NULL]
  /\ ret = [s \in Slots |-> 0]
  /\ wstat = [s \in Slots |-> 0]
  /\ pcb_init
  /\ current = init_pcb
  /\ system_time = 0
  /\ pool = InitialPool
  /\ mode = "user"
  /\ spawned = 0
  /\ strayed = 0

Syscall(p) ==
  \/ Exit(p) \/ Bogus(p) \/ Wait(p) \/ UserForks(p) \/ StrayForks(p)
  \/ Exec(p) \/ Sleep(p)
  \/ GetPid(p) \/ GetTime(p) \/ GetPrio(p) \/ Read(p) \/ Write(p)

clk_isr == ClkTick \/ ClkWake \/ ClkContinue \/ ClkPreempt

Next == InitForks \/ (\E p \in Slots : Syscall(p)) \/ clk_isr \/ Halted

Spec == Init /\ [][Next]_vars

-----------------------------------------------------------------------------
(* Correctness *)

\* The types of the PCB fields, the queues and the globals: every queue entry
\* is a PCB, every ready queue belongs to a priority, and current is a PCB.
TypeOK ==
  /\ state \in [Slots -> States]
  /\ parent \in [Slots -> Slots \cup {NoPcb}]
  /\ pid \in [Slots -> 0..MaxPid]
  /\ priority \in [Slots -> Prios]
  /\ wakeup \in [Slots -> 0..(TimeMod - 1)]
  /\ quantum \in [Slots -> 0..Q_STD]
  /\ status \in [Slots -> Int]
  /\ stack \in [Slots -> StackIds \cup {NULL}]
  /\ context \in [Slots -> StackIds \cup {NULL}]
  /\ ret \in [Slots -> Int]
  /\ wstat \in [Slots -> Int]
  /\ ready \in [Prios -> Seq(Slots)]
  /\ sleeping \in Seq(Slots)
  /\ zombie \in Seq(Slots)
  /\ current \in Slots
  /\ next_pid \in FIRST_USER_PID..(MaxPid + 1)
  /\ system_time \in 0..(TimeMod - 1)
  /\ pool \in StackPools
  /\ mode \in Modes
  /\ spawned \in 0..N_ENTRIES
  /\ strayed \in 0..N_ENTRIES

Running == mode \in {"user", "clk"}

\* The scheduler never loses or duplicates a process: exactly the current
\* process is RUNNING, and its time slice is not yet used up (a quantum of 0
\* would wrap around to 255 at the next tick); a process is READY just when it is, once, in the ready
\* queue of its own priority, and SLEEPING just when it is, once, in the sleep
\* queue.  (schedule(), dispatch(), sys_sleep() and clk_isr() keep the state
\* field and the queues in step by hand.)
ReadyMatches(rq, st, pr) ==
  \A h \in Prios :
    /\ Elements(rq[h]) = {p \in Slots : st[p] = "READY" /\ pr[p] = h}
    /\ NoDuplicates(rq[h])
QueuesMatchStates ==
  Running =>
    /\ \A p \in Slots : state[p] = "RUNNING" <=> p = current
    /\ quantum[current] >= 1
    /\ ReadyMatches(ready, state, priority)
    /\ Elements(sleeping) = {p \in Slots : state[p] = "SLEEPING"}
    /\ NoDuplicates(sleeping)

\* Every zombie can be found in the zombie queue, so that the assertion on
\* que_remove_by() in sys_exit() holds whatever sys_wait() left behind there.
ZombiesQueued ==
  \A p \in Slots : state[p] = "ZOMBIE" => p \in Elements(zombie)

\* The process tree: the parent of every process in the table is alive, is
\* older, and is not a zombie; init is the root.  An exiting process therefore
\* always finds a parent to report to, and no process is its own ancestor.
FamilyTree ==
  \A p \in Slots \ {init_pcb} :
    state[p] # "UNUSED" =>
      /\ parent[p] \in Slots
      /\ Live(parent[p])
      /\ pid[parent[p]] < pid[p]

\* No lost wake-up: a process in wait() has a child that may still exit, and
\* none that already has (such a child would be reported by nobody).
NoLostWakeup ==
  \A p \in Slots : state[p] = "WAITING" =>
    /\ \E c \in Slots \ {p} : parent[c] = p /\ Live(c)
    /\ \A c \in Slots : parent[c] = p => state[c] # "ZOMBIE"

\* What user/idle.c asks of idle: once init has forked it, it is ready or
\* running whatever the others do; until then init itself is.
IdleAvailable ==
  \/ \E p \in Slots : pid[p] = IDLE_PID /\ state[p] \in {"READY", "RUNNING"}
  \/ spawned = 0 /\ state[init_pcb] \in {"READY", "RUNNING"}

\* dispatch() finds a process to run, unless the exec() of idle has failed for
\* want of a stack and the child has become a second init.
AlwaysSomeoneToRun == strayed = 0 => IdleAvailable

\* The sleep queue is in order of wake-up time, so that clk_isr() may stop at
\* the first sleeper that is not due.
SleepersSorted ==
  Running => \A i, j \in 1..Len(sleeping) :
               i < j => wakeup[sleeping[i]] <= wakeup[sleeping[j]]

\* An assertion of the kernel fails only when every qnode is in a queue (the
\* entries that sys_wait() leaves in the zombie queue never come back), or when
\* idle is not there because its exec() failed.
OnlyExhaustionPanics == mode = "panic" => ~QnodeLeft \/ strayed > 0

\* A PCB is freed only in the step that hands its PID and exit status to its
\* parent, which then is ready or running: every termination is reported,
\* exactly once and to the right process, also when sys_exit() collects a
\* zombie for init and reports the exiting process at the same time.
ReapReports ==
  [][\A c \in Slots : state[c] # "UNUSED" /\ state'[c] = "UNUSED" =>
       /\ ret'[parent'[c]] = pid[c]
       /\ wstat'[parent'[c]] = status'[c]
       /\ state'[parent'[c]] \in {"READY", "RUNNING"}
       /\ c \in ChildrenOf(parent[c])]_vars

\* Every PCB in use has a stack and a context.
StacksRecorded ==
  \A p \in Slots : state[p] # "UNUSED" => stack[p] # NULL /\ context[p] # NULL

\* The inductive invariant of the scheduler: with the types and the stacks of
\* the PCBs, what schedule() and dispatch() keep true of queues and states.
SchedInv == TypeOK /\ StacksRecorded /\ QueuesMatchStates

\* init stays alive, is its own parent and keeps PID 1; the other processes in
\* the table have PIDs that fork() handed out, each a different one.
InitIsRoot ==
  /\ Live(init_pcb)
  /\ parent[init_pcb] = init_pcb
  /\ pid[init_pcb] = PID_INIT
PidsUnique ==
  /\ \A p \in Slots \ {init_pcb} :
       state[p] # "UNUSED" => pid[p] >= FIRST_USER_PID /\ pid[p] < next_pid
  /\ \A p, q \in Slots :
       state[p] # "UNUSED" /\ state[q] # "UNUSED" /\ pid[p] = pid[q] => p = q

\* The inductive invariant of the process tree.
FamilyInv ==
  InitIsRoot /\ PidsUnique /\ ZombiesQueued /\ FamilyTree /\ NoLostWakeup

\* Until init has forked idle, the kernel is as main() left it, but for the
\* clock; from then on idle is ready or running.
JustBooted ==
  /\ \A s \in Slots \ {init_pcb} : state[s] = "UNUSED"
  /\ state[init_pcb] \in {"READY", "RUNNING"}
  /\ stack[init_pcb] = INIT_STACK /\ context[init_pcb] = INIT_STACK
  /\ zombie = <<>>
  /\ pool = InitialPool /\ next_pid = FIRST_USER_PID
IdleThere ==
  \E p \in Slots \ {init_pcb} :
    pid[p] = IDLE_PID /\ state[p] \in {"READY", "RUNNING"}
IdleInv ==
  \/ spawned = 0 /\ strayed = 0 /\ JustBooted
  \/ spawned > 0 /\ (strayed = 0 => IdleThere)

\* The free list, walked from free_stacks through the link words.
FreeList[n \in 0..MaxStacks] ==
  IF n = 0 THEN pool.head
  ELSE [s \in StackIds \cup {NULL} |->
          IF s = NULL THEN NULL ELSE pool.link[s]][FreeList[n - 1]]
FreeStacks == {FreeList[n] : n \in 0..MaxStacks} \ {NULL}

\* Every stack the pool has handed out has exactly one place: it is the
\* kernel's, or the stack that exactly one PCB in use records and runs on, or
\* it is on the free list, which ends.  (stk_alloc(), stk_free(), sys_fork(),
\* sys_exec(), pcb_cleanup().)
StacksOwned ==
  Running =>
    /\ FreeList[MaxStacks] = NULL
    /\ \A p \in Slots : state[p] # "UNUSED" => context[p] = stack[p]
    /\ \A s \in 1..pool.count :
         Cardinality({p \in Slots : state[p] # "UNUSED" /\ stack[p] = s})
         + (IF s \in FreeStacks THEN 1 ELSE 0)
         + (IF s = KERNEL_STACK THEN 1 ELSE 0) = 1

\* What sys_exec() says of the two stacks: the new one belongs to the process
\* and the old one is free, so a PCB in use never records a free stack.
FreeStacksUnowned ==
  Running => \A p \in Slots : state[p] # "UNUSED" => stack[p] \notin FreeStacks

\* The clock keeps interrupting user code, and init, whenever it has the CPU
\* again and again, gets to its next system call.
FairSpec ==
  Spec /\ WF_vars(clk_isr) /\ SF_vars(InitForks \/ Wait(init_pcb))

\* Every sleeper is awakened, also when its wake-up time wraps around.
SleepersWake ==
  \A p \in Slots : state[p] = "SLEEPING" ~> state[p] # "SLEEPING"

\* Every zombie that is, or becomes, a child of init is collected: the one
\* zombie that sys_exit() hands to init makes it collect the others too.
InitCollects ==
  \A p \in Slots :
    state[p] = "ZOMBIE" /\ parent[p] = init_pcb ~> state[p] # "ZOMBIE"

\* A ready process of the highest priority gets the CPU: the queue is FIFO and
\* the running process is preempted when its time slice ends.
HighPriorityRuns ==
  \A p \in Slots :
    state[p] = "READY" /\ priority[p] = PRIO_HIGH ~> state[p] = "RUNNING"

-----------------------------------------------------------------------------
(* What the process table looks like to the processes *)

InTable == {s \in Slots : state[s] # "UNUSED"}
SlotOf(n) == CHOOSE s \in InTable : pid[s] = n

ParentPids == [n \in {pid[s] : s \in InTable} |-> pid[parent[SlotOf(n)]]]
WaitingPids == {pid[s] : s \in {q \in Slots : state[q] = "WAITING"}}
ZombiePids == {pid[s] : s \in {q \in Slots : state[q] = "ZOMBIE"}}

Family == INSTANCE ProcSpec WITH
  parent <- ParentPids, waiting <- WaitingPids, zombies <- ZombiePids

\* The process table, the reparenting and the two hand-overs of sys_exit(), and
\* the scans of sys_wait() together keep the promise of ProcSpec: every end of
\* a process is delivered to its parent, or to init for orphans, one at a time,
\* and no step leaves a waiting process beside a zombie child.
ImplementsProcSpec == Family!Spec
=============================================================================
