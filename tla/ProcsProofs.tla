---------------------------- MODULE ProcsProofs ----------------------------
(***************************************************************************)
(* Proofs about Procs, for every table size, every workload and every      *)
(* length of a time slice, in three parts:                                 *)
(*                                                                         *)
(* 1. The scheduler invariant.                                             *)
(*                                                                         *)
(* 2. The process tree that sys_fork(), sys_exit() and sys_wait() maintain,*)
(* that idle is always there for dispatch(), and that the assertions of    *)
(* the kernel hold.  What a step does to the process tree is stated once,  *)
(* as an effect (KeepsFamily, ForkEffect, CollectEffect, BlockEffect,      *)
(* ExitEffect); the invariants, the action property and the refinement of  *)
(* ProcSpec are then proved from the effects.                              *)
(*                                                                         *)
(* 3. As long as nobody calls exec(), every stack of the pool has one      *)
(* place.  As in QueuesProofs, the invariant says that there is a list of  *)
(* free stacks that the links describe; fork() takes one from it (or a     *)
(* fresh one), wait() and exit() put stacks back.                          *)
(***************************************************************************)
EXTENDS Procs, QueueOpsProofs, FiniteSetTheorems, TLAPS

-----------------------------------------------------------------------------
(* Constants and the stack pool *)

\* PCB 0 is in the table, and the NULL pointer is not.
LEMMA SlotFacts ==
  /\ Slots \subseteq Nat
  /\ init_pcb \in Slots
  /\ NoPcb \notin Slots
  BY ProcsAssumption DEF Slots, init_pcb, NoPcb

\* The calls of the stack pool keep it a stack pool.
LEMMA PoolTypes ==
  ASSUME NEW pl \in StackPools
  PROVE  /\ NextStack(pl) \in StackIds \cup {NULL}
         /\ NextStack(pl) # NULL => stk_alloc(pl) \in StackPools
         /\ \A s \in StackIds : stk_free(pl, s) \in StackPools
         /\ \A s \in StackIds \cup {NULL} : ReleaseStack(pl, s) \in StackPools
         /\ \A s, t \in StackIds : CopyStack(pl, s, t) \in StackPools
  <1> USE MaxStacksAssumption DEF StackPools, StackIds, NULL
  <1>1. NextStack(pl) \in StackIds \cup {NULL}
    BY DEF NextStack
  <1>2. ASSUME NextStack(pl) # NULL
        PROVE  stk_alloc(pl) \in StackPools
    <2>1. CASE pl.head # NULL
      BY <2>1 DEF stk_alloc, NextStack
    <2>2. CASE pl.head = NULL
      <3>1. pl.count < MaxStacks
        BY <1>2, <2>2 DEF NextStack
      <3>2. pl.count + 1 \in 0..MaxStacks
        BY <3>1
      <3>3. QED BY <2>2, <3>2 DEF stk_alloc
    <2>3. QED BY <2>1, <2>2
  <1>3. \A s \in StackIds : stk_free(pl, s) \in StackPools
    BY DEF stk_free
  <1>4. \A s, t \in StackIds : CopyStack(pl, s, t) \in StackPools
    BY DEF CopyStack
  <1>5. QED BY <1>1, <1>2, <1>3, <1>4 DEF ReleaseStack

-----------------------------------------------------------------------------
(* schedule() and dispatch() *)

\* schedule() of a process that is not READY makes it READY and puts it, once,
\* into the queue of its priority.
LEMMA ScheduleMatches ==
  ASSUME NEW rq \in [Prios -> Seq(Slots)], NEW st \in [Slots -> States],
         NEW pr \in [Slots -> Prios], NEW p \in Slots,
         st[p] # "READY", ReadyMatches(rq, st, pr)
  PROVE  /\ schedule(rq, p, pr[p]) \in [Prios -> Seq(Slots)]
         /\ ReadyMatches(schedule(rq, p, pr[p]), [st EXCEPT ![p] = "READY"], pr)
  <1> DEFINE r == schedule(rq, p, pr[p])
             s == [st EXCEPT ![p] = "READY"]
  <1>1. \A h \in Prios : r[h] = IF h = pr[p] THEN Append(rq[h], p) ELSE rq[h]
    BY DEF schedule
  <1>2. r \in [Prios -> Seq(Slots)]
    BY DEF schedule
  <1>3. p \notin Elements(rq[pr[p]])
    BY DEF ReadyMatches
  <1>4. ASSUME NEW h \in Prios
        PROVE  /\ Elements(r[h]) = {q \in Slots : s[q] = "READY" /\ pr[q] = h}
               /\ NoDuplicates(r[h])
    <2>1. CASE h = pr[p]
      <3>1. r[h] = Append(rq[h], p) /\ p \notin Elements(rq[h])
        BY <1>1, <1>3, <2>1
      <3>2. /\ Elements(r[h]) = Elements(rq[h]) \cup {p}
            /\ NoDuplicates(rq[h]) => NoDuplicates(r[h])
        BY <3>1, AppendElements
      <3>3. QED BY <3>2, <2>1 DEF ReadyMatches
    <2>2. CASE h # pr[p]
      BY <1>1, <2>2 DEF ReadyMatches
    <2>3. QED BY <2>1, <2>2
  <1>5. QED BY <1>2, <1>4 DEF ReadyMatches

\* A change of state that has nothing to do with READY.
LEMMA OtherStateMatches ==
  ASSUME NEW rq, NEW st \in [Slots -> States], NEW pr, NEW p \in Slots,
         NEW v \in States \ {"READY"}, st[p] # "READY", ReadyMatches(rq, st, pr)
  PROVE  /\ [st EXCEPT ![p] = v] \in [Slots -> States]
         /\ ReadyMatches(rq, [st EXCEPT ![p] = v], pr)
  BY DEF ReadyMatches

\* dispatch() takes one READY process out of its queue and makes it the only
\* RUNNING one, or panics when there is none.
LEMMA DispatchMatches ==
  ASSUME NEW rq \in [Prios -> Seq(Slots)], NEW st \in [Slots -> States],
         NEW qt \in [Slots -> 0..Q_STD], priority \in [Slots -> Prios],
         current \in Slots, ReadyMatches(rq, st, priority),
         \A p \in Slots : st[p] # "RUNNING", dispatch(rq, st, qt)
  PROVE  /\ ready' \in [Prios -> Seq(Slots)]
         /\ state' \in [Slots -> States]
         /\ quantum' \in [Slots -> 0..Q_STD]
         /\ current' \in Slots
         /\ mode' \in {"user", "panic"}
         /\ \A p \in Slots : \/ state'[p] = st[p]
                             \/ st[p] = "READY" /\ state'[p] = "RUNNING"
         /\ mode' = "user" =>
              /\ quantum'[current'] >= 1
              /\ ReadyMatches(ready', state', priority)
              /\ \A p \in Slots : state'[p] = "RUNNING" <=> p = current'
  <1>1. CASE \A h \in Prios : rq[h] = <<>>
    BY <1>1 DEF dispatch
  <1>2. CASE ~ \A h \in Prios : rq[h] = <<>>
    <2>1. PICK h \in Prios :
            /\ rq[h] # <<>>
            /\ mode' = "user"
            /\ ready' = [rq EXCEPT ![h] = Tail(@)]
            /\ current' = Head(rq[h])
            /\ state' = [st EXCEPT ![Head(rq[h])] = "RUNNING"]
            /\ quantum' = [qt EXCEPT ![Head(rq[h])] = Q_STD]
      BY <1>2 DEF dispatch
    <2> DEFINE p == Head(rq[h])
    <2>2. /\ Tail(rq[h]) \in Seq(Slots)
          /\ p \in Slots
          /\ p \in Elements(rq[h])
          /\ Elements(Tail(rq[h])) = Elements(rq[h]) \ {p}
          /\ NoDuplicates(Tail(rq[h]))
      BY <2>1, TailElements DEF ReadyMatches
    <2>3. st[p] = "READY" /\ priority[p] = h
      BY <2>2 DEF ReadyMatches
    <2>4. Q_STD \in 0..Q_STD /\ Q_STD >= 1
      BY ProcsAssumption
    <2>5. /\ ready' \in [Prios -> Seq(Slots)] /\ state' \in [Slots -> States]
          /\ quantum' \in [Slots -> 0..Q_STD] /\ current' \in Slots
      BY <2>1, <2>2, <2>4 DEF States
    <2>6. /\ \A q \in Slots : state'[q] = IF q = p THEN "RUNNING" ELSE st[q]
          /\ quantum'[current'] >= 1
      BY <2>1, <2>2, <2>4
    <2>7. ASSUME NEW k \in Prios
          PROVE  /\ Elements(ready'[k]) =
                      {q \in Slots : state'[q] = "READY" /\ priority[q] = k}
                 /\ NoDuplicates(ready'[k])
      <3>1. CASE k = h
        <4>1. ready'[k] = Tail(rq[h])
          BY <2>1, <3>1
        <4>2. QED BY <4>1, <2>2, <2>3, <2>6, <3>1 DEF ReadyMatches
      <3>2. CASE k # h
        <4>1. ready'[k] = rq[k]
          BY <2>1, <3>2
        <4>2. QED BY <4>1, <2>2, <2>3, <2>6, <3>2 DEF ReadyMatches
      <3>3. QED BY <3>1, <3>2
    <2>8. QED BY <2>1, <2>3, <2>5, <2>6, <2>7 DEF ReadyMatches
  <1>3. QED BY <1>1, <1>2

\* What is left to check of a step that ends in dispatch(): the queues match
\* the states again, if they matched the states st that dispatch() was given.
LEMMA AfterDispatch ==
  ASSUME TypeOK,
         NEW rq \in [Prios -> Seq(Slots)], NEW st \in [Slots -> States],
         NEW qt \in [Slots -> 0..Q_STD],
         ReadyMatches(rq, st, priority), \A p \in Slots : st[p] # "RUNNING",
         dispatch(rq, st, qt), priority' = priority,
         sleeping' \in Seq(Slots), NoDuplicates(sleeping'),
         Elements(sleeping') = {p \in Slots : st[p] = "SLEEPING"}
  PROVE  /\ QueuesMatchStates'
         /\ ready' \in [Prios -> Seq(Slots)]
         /\ state' \in [Slots -> States]
         /\ quantum' \in [Slots -> 0..Q_STD]
         /\ current' \in Slots
         /\ mode' \in Modes
         /\ \A p \in Slots : \/ state'[p] = st[p]
                             \/ st[p] = "READY" /\ state'[p] = "RUNNING"
  <1>1. /\ ready' \in [Prios -> Seq(Slots)]
        /\ state' \in [Slots -> States]
        /\ quantum' \in [Slots -> 0..Q_STD]
        /\ current' \in Slots
        /\ mode' \in {"user", "panic"}
        /\ \A p \in Slots : \/ state'[p] = st[p]
                            \/ st[p] = "READY" /\ state'[p] = "RUNNING"
        /\ mode' = "user" =>
             /\ quantum'[current'] >= 1
             /\ ReadyMatches(ready', state', priority)
             /\ \A p \in Slots : state'[p] = "RUNNING" <=> p = current'
    BY DispatchMatches DEF TypeOK
  <1>2. Elements(sleeping') = {p \in Slots : state'[p] = "SLEEPING"}
    BY <1>1
  <1>3. QueuesMatchStates'
    BY <1>1, <1>2 DEF QueuesMatchStates, Running, ReadyMatches
  <1>4. QED BY <1>1, <1>3 DEF Modes

\* A call that only sets a return value, a panic and a corruption keep the
\* invariant: they touch neither the queues nor the states.
LEMMA QuietSteps ==
  ASSUME SchedInv, spawned' \in 0..N_ENTRIES /\ strayed' \in 0..N_ENTRIES,
         \/ kpanic
         \/ Corrupt
         \/ \E p \in Slots, v \in Int : Return(p, v)
  PROVE  SchedInv'
  <1> USE DEF SchedInv
  <1>1. CASE kpanic \/ Corrupt
    <2>1. /\ mode' \in {"panic", "wild"}
          /\ UNCHANGED <<state, parent, pid, priority, wakeup, quantum, status,
                         stack, context, ret, wstat, ready, sleeping, zombie,
                         current, next_pid, system_time, pool>>
      BY <1>1 DEF kpanic, Corrupt, pcbs
    <2>2. TypeOK'
      BY <2>1 DEF TypeOK, Modes
    <2>3. StacksRecorded'
      BY <2>1 DEF StacksRecorded
    <2>4. QueuesMatchStates'
      BY <2>1 DEF QueuesMatchStates, Running
    <2>5. QED BY <2>2, <2>3, <2>4
  <1>2. CASE \E p \in Slots, v \in Int : Return(p, v)
    <2>1. PICK p \in Slots, v \in Int : Return(p, v)
      BY <1>2
    <2>2. TypeOK'
      BY <2>1 DEF Return, TypeOK
    <2>3. StacksRecorded'
      BY <2>1 DEF Return, StacksRecorded
    <2>4. QueuesMatchStates'
      BY <2>1 DEF Return, QueuesMatchStates, Running, ReadyMatches
    <2>5. QED BY <2>2, <2>3, <2>4
  <1>3. QED BY <1>1, <1>2

-----------------------------------------------------------------------------
(* The system calls *)

\* The caller of a system call is the one RUNNING process, and has a stack.
LEMMA CallerFacts ==
  ASSUME SchedInv, NEW p \in Slots, NEW c, Traps(p, c)
  PROVE  /\ Running /\ mode = "user" /\ state[p] = "RUNNING"
         /\ \A q \in Slots : state[q] = "RUNNING" => q = p
         /\ ReadyMatches(ready, state, priority)
         /\ Elements(sleeping) = {q \in Slots : state[q] = "SLEEPING"}
         /\ NoDuplicates(sleeping)
         /\ stack[p] \in StackIds /\ context[p] \in StackIds
  BY DEF SchedInv, QueuesMatchStates, Running, Traps, StacksRecorded, TypeOK

\* sys_wait() that collects a zombie, finds no children, or waits.
LEMMA WaitStep ==
  ASSUME SchedInv, NEW p \in Slots, Wait(p)
  PROVE  SchedInv'
  <1> USE DEF SchedInv
  <1>0. /\ Running /\ mode = "user" /\ state[p] = "RUNNING"
        /\ \A q \in Slots : state[q] = "RUNNING" => q = p
        /\ ReadyMatches(ready, state, priority)
        /\ Elements(sleeping) = {q \in Slots : state[q] = "SLEEPING"}
        /\ NoDuplicates(sleeping)
    BY CallerFacts DEF Wait
  <1>1. spawned' = spawned /\ spawned' \in 0..N_ENTRIES /\ strayed' \in 0..N_ENTRIES
    BY DEF Wait, TypeOK
  <1>2. ASSUME NEW child \in Slots, IsFirst(child, ZombieChildrenOf(p)),
               ret' = [ret EXCEPT ![p] = pid[child]],
               wstat' = [wstat EXCEPT ![p] = status[child]],
               state' = [state EXCEPT ![child] = "UNUSED"],
               stack' = [stack EXCEPT ![child] = NULL],
               pool' = ReleaseStack(pool, stack[child]),
               UNCHANGED <<parent, pid, priority, wakeup, quantum, status,
                           context, ready, sleeping, zombie, current,
                           next_pid, system_time, mode>>
        PROVE  SchedInv'
    <2>1. state[child] = "ZOMBIE"
      BY <1>2 DEF IsFirst, ZombieChildrenOf
    <2>2. pool' \in StackPools
      BY <1>2, PoolTypes DEF TypeOK
    <2>3. pid[child] \in Int /\ status[child] \in Int /\ "UNUSED" \in States
      BY ProcsAssumption DEF TypeOK, States
    <2>4. TypeOK'
      BY <1>1, <1>2, <2>2, <2>3 DEF TypeOK
    <2>5. StacksRecorded'
      BY <1>2 DEF StacksRecorded, TypeOK
    <2>6. ReadyMatches(ready, state', priority)
      BY <1>0, <1>2, <2>1, <2>3, OtherStateMatches DEF TypeOK
    <2>7. QueuesMatchStates'
      BY <1>0, <1>2, <2>1, <2>6 DEF QueuesMatchStates, Running, ReadyMatches, TypeOK
    <2>8. QED BY <2>4, <2>5, <2>7
  <1>3. ASSUME Return(p, S_NO_CHILD)
        PROVE  SchedInv'
    BY <1>1, <1>3, QuietSteps DEF S_NO_CHILD
  <1>4. ASSUME dispatch(ready, [state EXCEPT ![p] = "WAITING"], quantum),
               UNCHANGED <<parent, pid, priority, wakeup, status, stack,
                           context, ret, wstat, sleeping, zombie, next_pid,
                           system_time, pool>>
        PROVE  SchedInv'
    <2> DEFINE st == [state EXCEPT ![p] = "WAITING"]
    <2>1. st \in [Slots -> States] /\ ReadyMatches(ready, st, priority)
      BY <1>0, OtherStateMatches DEF TypeOK, States
    <2>2. \A q \in Slots : st[q] # "RUNNING"
      BY <1>0 DEF TypeOK
    <2>3. Elements(sleeping) = {q \in Slots : st[q] = "SLEEPING"}
      BY <1>0 DEF TypeOK
    <2>4. /\ QueuesMatchStates'
          /\ ready' \in [Prios -> Seq(Slots)]
          /\ state' \in [Slots -> States]
          /\ quantum' \in [Slots -> 0..Q_STD]
          /\ current' \in Slots
          /\ mode' \in Modes
          /\ \A q \in Slots : \/ state'[q] = st[q]
                              \/ st[q] = "READY" /\ state'[q] = "RUNNING"
      BY <1>0, <1>4, <2>1, <2>2, <2>3, AfterDispatch DEF TypeOK
    <2>5. TypeOK'
      BY <1>1, <1>4, <2>4 DEF TypeOK
    <2>6. StacksRecorded'
      BY <1>0, <1>4, <2>4 DEF StacksRecorded, TypeOK
    <2>7. QED BY <2>4, <2>5, <2>6
  <1>5. QED BY <1>2, <1>3, <1>4 DEF Wait, sys_wait

\* sys_fork() that makes a process.
LEMMA ForkStep ==
  ASSUME SchedInv, NEW p \in Slots, NEW new \in Slots, NEW a,
         Traps(p, "fork"), sys_fork(p, new, a), spawned' \in 0..N_ENTRIES /\ strayed' \in 0..N_ENTRIES
  PROVE  SchedInv'
  <1> USE DEF SchedInv
  <1> DEFINE stk == NextStack(pool)
             h   == IF a % 256 = PRIO_INHERIT THEN priority[p] ELSE a % 256
  <1>0. /\ Running /\ mode = "user" /\ state[p] = "RUNNING"
        /\ ReadyMatches(ready, state, priority)
        /\ Elements(sleeping) = {q \in Slots : state[q] = "SLEEPING"}
        /\ NoDuplicates(sleeping)
        /\ stack[p] \in StackIds /\ context[p] \in StackIds
    BY CallerFacts
  <1>1. state[new] = "UNUSED" /\ stk # NULL /\ next_pid <= MaxPid
    BY DEF sys_fork, pcb_alloc, IsFirst
  <1>2. CASE Corrupt \/ kpanic
    BY <1>2, QuietSteps
  <1>3. CASE ~(Corrupt \/ kpanic)
    <2>1. /\ h \in Prios
          /\ next_pid' = next_pid + 1
          /\ pool' = CopyStack(stk_alloc(pool), stk, stack[p])
          /\ stack' = [stack EXCEPT ![new] = stk]
          /\ context' = [context EXCEPT ![new] = stk]
          /\ parent' = [parent EXCEPT ![new] = p]
          /\ pid' = [pid EXCEPT ![new] = next_pid]
          /\ priority' = [priority EXCEPT ![new] = h]
          /\ wakeup' = [wakeup EXCEPT ![new] = 0]
          /\ quantum' = [quantum EXCEPT ![new] = 0]
          /\ status' = [status EXCEPT ![new] = 0]
          /\ ret' = [ret EXCEPT ![p] = next_pid, ![new] = 0]
          /\ wstat' = [wstat EXCEPT ![new] = wstat[p]]
          /\ ready' = schedule(ready, new, h)
          /\ state' = [state EXCEPT ![new] = "READY"]
          /\ UNCHANGED <<sleeping, zombie, current, system_time, mode>>
      BY <1>3 DEF sys_fork
    <2>2. stk \in StackIds /\ pool' \in StackPools
      BY <1>0, <1>1, <2>1, PoolTypes DEF TypeOK
    <2>3. /\ next_pid \in 0..MaxPid
          /\ next_pid + 1 \in FIRST_USER_PID..(MaxPid + 1)
          /\ 0 \in 0..Q_STD /\ 0 \in 0..(TimeMod - 1)
          /\ 0 \in Int /\ next_pid \in Int
      BY <1>1, ProcsAssumption DEF TypeOK, FIRST_USER_PID
    <2> HIDE DEF h, stk
    <2>4. priority' \in [Slots -> Prios] /\ priority'[new] = h
      BY <2>1 DEF TypeOK
    <2>5. ReadyMatches(ready, state, priority')
      BY <1>0, <1>1, <2>1 DEF ReadyMatches, TypeOK
    <2>6. /\ ready' \in [Prios -> Seq(Slots)]
          /\ ReadyMatches(ready', state', priority')
      <3>1. ready \in [Prios -> Seq(Slots)] /\ state \in [Slots -> States]
        BY DEF TypeOK
      <3>2. state[new] # "READY"
        BY <1>1
      <3>3. /\ schedule(ready, new, priority'[new]) \in [Prios -> Seq(Slots)]
            /\ ReadyMatches(schedule(ready, new, priority'[new]),
                            [state EXCEPT ![new] = "READY"], priority')
        BY <2>4, <2>5, <3>1, <3>2, ScheduleMatches
      <3>4. QED BY <2>1, <2>4, <3>3
    <2>7. TypeOK'
      BY <2>1, <2>2, <2>3, <2>4, <2>6 DEF TypeOK, States
    <2>8. StacksRecorded'
      <3>1. stk # NULL
        BY <2>2, MaxStacksAssumption DEF StackIds, NULL
      <3>2. \A q \in Slots :
              /\ stack'[q] = IF q = new THEN stk ELSE stack[q]
              /\ context'[q] = IF q = new THEN stk ELSE context[q]
              /\ q # new => state'[q] = state[q]
        BY <2>1 DEF TypeOK
      <3>3. QED BY <3>1, <3>2 DEF StacksRecorded
    <2>9. QueuesMatchStates'
      BY <1>0, <1>1, <2>1, <2>6 DEF QueuesMatchStates, Running, TypeOK
    <2>10. QED BY <2>7, <2>8, <2>9
  <1>4. QED BY <1>2, <1>3

\* A fork that fails only returns; init also goes to its next table entry.
LEMMA ForkSteps ==
  ASSUME SchedInv, InitForks \/ \E p \in Slots : UserForks(p) \/ StrayForks(p)
  PROVE  SchedInv'
  <1>1. CASE InitForks
    <2>1. spawned' \in 0..N_ENTRIES /\ strayed' \in 0..N_ENTRIES /\ Traps(init_pcb, "fork")
      <3>1. "fork" \in Program(init_pcb)
        BY <1>1 DEF InitForks, Traps
      <3>2. spawned < N_ENTRIES
        BY <3>1 DEF Program, InitProgram
      <3>3. QED BY <1>1, <3>2, ProcsAssumption DEF InitForks, SchedInv, TypeOK
    <2>2. QED BY <1>1, <2>1, ForkStep, QuietSteps, SlotFacts
              DEF InitForks, sys_fork_fails, S_ERROR
  <1>2. ASSUME NEW p \in Slots, UserForks(p)
        PROVE  SchedInv'
    <2>1. spawned' \in 0..N_ENTRIES /\ strayed' \in 0..N_ENTRIES /\ Traps(p, "fork")
      BY <1>2 DEF UserForks, SchedInv, TypeOK
    <2>2. QED BY <1>2, <2>1, ForkStep, QuietSteps
              DEF UserForks, sys_fork_fails, S_ERROR
  <1>3. ASSUME NEW p \in Slots, StrayForks(p)
        PROVE  SchedInv'
    <2>1. Traps(p, "fork") /\ strayed < N_ENTRIES
      BY <1>3 DEF StrayForks, Traps, Program, IdleProgram
    <2>2. spawned' \in 0..N_ENTRIES /\ strayed' \in 0..N_ENTRIES
      BY <1>3, <2>1, ProcsAssumption DEF StrayForks, SchedInv, TypeOK
    <2>3. \A h \in InitPrios : h \in Nat
      BY ProcsAssumption DEF Prios, PRIO_HIGH, PRIO_LOW
    <2>4. QED BY <1>3, <2>1, <2>2, <2>3, ForkStep, QuietSteps
              DEF StrayForks, sys_fork_fails, S_ERROR
  <1>4. QED BY <1>1, <1>2, <1>3

\* sys_exec() changes only the stacks.
LEMMA ExecStep ==
  ASSUME SchedInv, NEW p \in Slots, Exec(p)
  PROVE  SchedInv'
  <1> USE DEF SchedInv
  <1>0. stack[p] \in StackIds
    BY CallerFacts DEF Exec
  <1>1. spawned' \in 0..N_ENTRIES /\ strayed' \in 0..N_ENTRIES
    BY ProcsAssumption DEF Exec, TypeOK
  <1>2. CASE Corrupt \/ Return(p, S_ERROR)
    BY <1>1, <1>2, QuietSteps DEF S_ERROR
  <1>3. CASE ~(Corrupt \/ Return(p, S_ERROR))
    <2>1. /\ NextStack(pool) # NULL
          /\ context' = [context EXCEPT ![p] = NextStack(pool)]
          /\ pool' = stk_free(stk_alloc(pool), stack[p])
          /\ ret' = [ret EXCEPT ![p] = 0]
          /\ wstat' = [wstat EXCEPT ![p] = 0]
          /\ UNCHANGED <<state, parent, pid, priority, wakeup, quantum, status,
                         stack, ready, sleeping, zombie, current, next_pid,
                         system_time, mode>>
      BY <1>3 DEF Exec, sys_exec
    <2>2. NextStack(pool) \in StackIds /\ pool' \in StackPools
      BY <1>0, <2>1, PoolTypes DEF TypeOK
    <2>3. TypeOK'
      <3>1. 0 \in Int
        OBVIOUS
      <3>2. /\ context' \in [Slots -> StackIds \cup {NULL}]
            /\ ret' \in [Slots -> Int] /\ wstat' \in [Slots -> Int]
        BY <2>1, <2>2, <3>1 DEF TypeOK
      <3>3. QED BY <1>1, <2>1, <2>2, <3>2 DEF TypeOK
    <2>4. StacksRecorded'
      <3>1. \A q \in Slots :
              context'[q] = IF q = p THEN NextStack(pool) ELSE context[q]
        BY <2>1 DEF TypeOK
      <3>2. QED BY <2>1, <3>1 DEF StacksRecorded
    <2>5. QueuesMatchStates'
      BY <2>1 DEF QueuesMatchStates, Running, ReadyMatches
    <2>6. QED BY <2>3, <2>4, <2>5
  <1>4. QED BY <1>2, <1>3

\* sys_sleep(): yield, or sleep for a while.
LEMMA SleepStep ==
  ASSUME SchedInv, NEW p \in Slots, Sleep(p)
  PROVE  SchedInv'
  <1> USE DEF SchedInv
  <1>0. /\ Running /\ mode = "user" /\ state[p] = "RUNNING"
        /\ \A q \in Slots : state[q] = "RUNNING" => q = p
        /\ ReadyMatches(ready, state, priority)
        /\ Elements(sleeping) = {q \in Slots : state[q] = "SLEEPING"}
        /\ NoDuplicates(sleeping)
    BY CallerFacts DEF Sleep
  <1>1. spawned' = spawned /\ strayed' = strayed
    BY DEF Sleep
  <1>2. PICK n \in SleepArgs : sys_sleep(p, n)
    BY DEF Sleep
  <1> DEFINE w == (system_time + n) % TimeMod
  <1>a. CASE kpanic
    BY <1>a, <1>1, QuietSteps DEF TypeOK
  <1>b. SUFFICES ASSUME ~kpanic PROVE SchedInv'
    BY <1>a
  <1>3. w \in 0..(TimeMod - 1)
    <2>1. n \in Nat /\ TimeMod \in Nat /\ TimeMod >= 1 /\ system_time \in Nat
      BY ProcsAssumption DEF TypeOK
    <2>2. QED BY <2>1
  <1>4. UNCHANGED <<parent, pid, priority, status, stack, context, ret, wstat,
                    zombie, next_pid, system_time, pool>>
    BY <1>2, <1>b DEF sys_sleep
  <1>5. CASE n = 0
    <2> DEFINE st == [state EXCEPT ![p] = "READY"]
               rq == schedule(ready, p, priority[p])
    <2>1. dispatch(rq, st, quantum) /\ wakeup' = wakeup /\ sleeping' = sleeping
      BY <1>2, <1>b, <1>5 DEF sys_sleep
    <2>2. rq \in [Prios -> Seq(Slots)] /\ ReadyMatches(rq, st, priority)
      BY <1>0, ScheduleMatches DEF TypeOK
    <2>3. st \in [Slots -> States] /\ \A q \in Slots : st[q] # "RUNNING"
      BY <1>0 DEF TypeOK, States
    <2>4. Elements(sleeping) = {q \in Slots : st[q] = "SLEEPING"}
      BY <1>0 DEF TypeOK
    <2> HIDE DEF st, rq
    <2>5. /\ QueuesMatchStates'
          /\ ready' \in [Prios -> Seq(Slots)]
          /\ state' \in [Slots -> States]
          /\ quantum' \in [Slots -> 0..Q_STD]
          /\ current' \in Slots
          /\ mode' \in Modes
          /\ \A q \in Slots : \/ state'[q] = st[q]
                              \/ st[q] = "READY" /\ state'[q] = "RUNNING"
      BY <1>0, <1>4, <2>1, <2>2, <2>3, <2>4, AfterDispatch DEF TypeOK
    <2>6. TypeOK'
      BY <1>1, <1>4, <2>1, <2>5 DEF TypeOK
    <2>7. StacksRecorded'
      BY <1>0, <1>4, <2>5 DEF StacksRecorded, TypeOK, st
    <2>8. QED BY <2>5, <2>6, <2>7
  <1>6. CASE n # 0
    <2> DEFINE st == [state EXCEPT ![p] = "SLEEPING"]
    <2>1. /\ wakeup' = [wakeup EXCEPT ![p] = w]
          /\ dispatch(ready, st, quantum)
          /\ \E i \in 0..Len(sleeping) : sleeping' = InsertAfter(sleeping, p, i)
      BY <1>2, <1>b, <1>6 DEF sys_sleep
    <2>2. st \in [Slots -> States] /\ ReadyMatches(ready, st, priority)
      BY <1>0, OtherStateMatches DEF TypeOK, States
    <2>3. \A q \in Slots : st[q] # "RUNNING"
      BY <1>0 DEF TypeOK
    <2>4. p \notin Elements(sleeping)
      BY <1>0
    <2>5. /\ sleeping' \in Seq(Slots) /\ NoDuplicates(sleeping')
          /\ Elements(sleeping') = Elements(sleeping) \cup {p}
      <3>1. PICK i \in 0..Len(sleeping) : sleeping' = InsertAfter(sleeping, p, i)
        BY <2>1
      <3>2. sleeping \in Seq(Slots)
        BY DEF TypeOK
      <3>3. QED BY <1>0, <2>4, <3>1, <3>2, InsertElements
    <2>6. Elements(sleeping') = {q \in Slots : st[q] = "SLEEPING"}
      BY <1>0, <2>5 DEF TypeOK
    <2> HIDE DEF st
    <2>7. /\ QueuesMatchStates'
          /\ ready' \in [Prios -> Seq(Slots)]
          /\ state' \in [Slots -> States]
          /\ quantum' \in [Slots -> 0..Q_STD]
          /\ current' \in Slots
          /\ mode' \in Modes
          /\ \A q \in Slots : \/ state'[q] = st[q]
                              \/ st[q] = "READY" /\ state'[q] = "RUNNING"
      BY <1>4, <2>1, <2>2, <2>3, <2>5, <2>6, AfterDispatch DEF TypeOK
    <2>8. TypeOK'
      BY <1>1, <1>3, <1>4, <2>1, <2>5, <2>7 DEF TypeOK
    <2>9. StacksRecorded'
      BY <1>0, <1>4, <2>7 DEF StacksRecorded, TypeOK, st
    <2>10. QED BY <2>7, <2>8, <2>9
  <1>7. QED BY <1>5, <1>6

\* The end of sys_exit(), for any table st, queues rq and pool pl that its
\* first part may have left: p is gone or a zombie, its parent is READY if it
\* waited, and the CPU has gone to another process.
LEMMA ReportExitStep ==
  ASSUME TypeOK, NEW p \in Slots, NEW code \in Int,
         NEW st \in [Slots -> States], NEW rq \in [Prios -> Seq(Slots)],
         NEW rt \in [Slots -> Int], NEW ws \in [Slots -> Int],
         NEW stk \in [Slots -> StackIds \cup {NULL}], NEW pl \in StackPools,
         parent[p] \in Slots, parent[p] # p,
         ReadyMatches(rq, st, priority),
         st[p] = "RUNNING", \A q \in Slots : st[q] = "RUNNING" => q = p,
         Elements(sleeping) = {q \in Slots : st[q] = "SLEEPING"},
         NoDuplicates(sleeping),
         \A q \in Slots : st[q] # "UNUSED" => stk[q] # NULL /\ context[q] # NULL,
         ReportExit(p, code, st, rq, rt, ws, stk, pl),
         UNCHANGED <<priority, sleeping, context>>
  PROVE  /\ QueuesMatchStates' /\ StacksRecorded'
         /\ ready' \in [Prios -> Seq(Slots)] /\ state' \in [Slots -> States]
         /\ quantum' \in [Slots -> 0..Q_STD] /\ current' \in Slots
         /\ mode' \in Modes
         /\ ret' \in [Slots -> Int] /\ wstat' \in [Slots -> Int]
         /\ stack' \in [Slots -> StackIds \cup {NULL}] /\ pool' \in StackPools
  <1> DEFINE par == parent[p]
  <1>0. /\ sleeping \in Seq(Slots) /\ quantum \in [Slots -> 0..Q_STD]
        /\ sleeping' = sleeping /\ priority' = priority
    BY DEF TypeOK
  <1>1. CASE st[par] = "WAITING"
    <2> DEFINE s1 == [st EXCEPT ![par] = "READY"]
               s2 == [s1 EXCEPT ![p] = "UNUSED"]
               r2 == schedule(rq, par, priority[par])
    <2>1. /\ ret' = [rt EXCEPT ![par] = pid[p]]
          /\ wstat' = [ws EXCEPT ![par] = code]
          /\ stack' = [stk EXCEPT ![p] = NULL]
          /\ pool' = ReleaseStack(pl, stack[p])
          /\ dispatch(r2, s2, quantum)
      BY <1>1 DEF ReportExit
    <2>2. /\ r2 \in [Prios -> Seq(Slots)] /\ s1 \in [Slots -> States]
          /\ ReadyMatches(r2, s1, priority)
      BY <1>1, ScheduleMatches DEF TypeOK, States
    <2>3. s1[p] = "RUNNING"
      OBVIOUS
    <2>4. s2 \in [Slots -> States] /\ ReadyMatches(r2, s2, priority)
      BY <2>2, <2>3, OtherStateMatches DEF States
    <2>5. \A q \in Slots : s2[q] # "RUNNING"
      OBVIOUS
    <2>6. Elements(sleeping) = {q \in Slots : s2[q] = "SLEEPING"}
      BY <1>1
    <2>7. \A q \in Slots : s2[q] # "UNUSED" => q # p /\ st[q] # "UNUSED"
      BY <1>1
    <2> HIDE DEF s1, s2, r2
    <2>8. /\ QueuesMatchStates'
          /\ ready' \in [Prios -> Seq(Slots)] /\ state' \in [Slots -> States]
          /\ quantum' \in [Slots -> 0..Q_STD] /\ current' \in Slots
          /\ mode' \in Modes
          /\ \A q \in Slots : \/ state'[q] = s2[q]
                              \/ s2[q] = "READY" /\ state'[q] = "RUNNING"
      <3>1. /\ sleeping' \in Seq(Slots) /\ NoDuplicates(sleeping')
            /\ Elements(sleeping') = {q \in Slots : s2[q] = "SLEEPING"}
        BY <1>0, <2>6
      <3>2. QED BY <1>0, <2>1, <2>2, <2>4, <2>5, <3>1, AfterDispatch
    <2>9. /\ ret' \in [Slots -> Int] /\ wstat' \in [Slots -> Int]
          /\ stack' \in [Slots -> StackIds \cup {NULL}]
      <3>1. pid[p] \in Int
        BY ProcsAssumption DEF TypeOK
      <3>2. QED BY <2>1, <3>1
    <2>10. pool' \in StackPools
      BY <2>1, PoolTypes DEF TypeOK
    <2>11. StacksRecorded'
      <3>1. \A q \in Slots : q # p => stack'[q] = stk[q]
        BY <2>1
      <3>2. context' = context
        OBVIOUS
      <3>3. \A q \in Slots : state'[q] # "UNUSED" => s2[q] # "UNUSED"
        BY <2>8
      <3>4. QED BY <2>7, <3>1, <3>2, <3>3 DEF StacksRecorded
    <2>12. QED BY <2>8, <2>9, <2>10, <2>11
  <1>2. CASE st[par] # "WAITING"
    <2> DEFINE s2 == [st EXCEPT ![p] = "ZOMBIE"]
    <2>1. /\ ret' = rt /\ wstat' = ws /\ stack' = stk /\ pool' = pl
          /\ dispatch(rq, s2, quantum)
      BY <1>2 DEF ReportExit
    <2>2. s2 \in [Slots -> States] /\ ReadyMatches(rq, s2, priority)
      BY OtherStateMatches DEF States
    <2>3. \A q \in Slots : s2[q] # "RUNNING"
      OBVIOUS
    <2>4. Elements(sleeping) = {q \in Slots : s2[q] = "SLEEPING"}
      OBVIOUS
    <2>5. \A q \in Slots : s2[q] # "UNUSED" => st[q] # "UNUSED"
      OBVIOUS
    <2> HIDE DEF s2
    <2>6. /\ QueuesMatchStates'
          /\ ready' \in [Prios -> Seq(Slots)] /\ state' \in [Slots -> States]
          /\ quantum' \in [Slots -> 0..Q_STD] /\ current' \in Slots
          /\ mode' \in Modes
          /\ \A q \in Slots : \/ state'[q] = s2[q]
                              \/ s2[q] = "READY" /\ state'[q] = "RUNNING"
      BY <1>0, <2>1, <2>2, <2>3, <2>4, AfterDispatch
    <2>7. StacksRecorded'
      BY <2>1, <2>5, <2>6 DEF StacksRecorded
    <2>8. QED BY <2>1, <2>6, <2>7
  <1>3. QED BY <1>1, <1>2

\* The entries of the zombie queue are PCBs.
LEMMA QueueZombieType ==
  ASSUME NEW p \in Slots, NEW st, NEW zq \in Seq(Slots)
  PROVE  QueueZombie(p, st, zq) \in Seq(Slots)
  BY DEF QueueZombie

\* sys_exit(), from the assertions on the parent to dispatch().
LEMMA ExitStep ==
  ASSUME SchedInv, NEW p \in Slots, NEW code \in Int, NEW c,
         Traps(p, c), sys_exit(p, code), UNCHANGED <<spawned, strayed>>
  PROVE  SchedInv'
  <1> USE DEF SchedInv
  <1>0. /\ state[p] = "RUNNING"
        /\ \A q \in Slots : state[q] = "RUNNING" => q = p
        /\ ReadyMatches(ready, state, priority)
        /\ Elements(sleeping) = {q \in Slots : state[q] = "SLEEPING"}
        /\ NoDuplicates(sleeping)
    BY CallerFacts
  <1>1. spawned' \in 0..N_ENTRIES /\ strayed' \in 0..N_ENTRIES
    BY DEF TypeOK
  <1>2. CASE kpanic
    BY <1>1, <1>2, QuietSteps
  <1>3. CASE ~kpanic
    <2>1. /\ parent[p] \notin {NoPcb, p}
          /\ parent' = [q \in Slots |-> IF q \in ChildrenOf(p) THEN init_pcb
                                       ELSE parent[q]]
          /\ status' = [status EXCEPT ![p] = code]
          /\ UNCHANGED <<pid, priority, wakeup, context, sleeping, next_pid,
                         system_time>>
      BY <1>3 DEF sys_exit
    <2>2. \/ ExitOnly(p, code)
          \/ /\ state[init_pcb] = "WAITING"
             /\ \E f \in ZombieChildrenOf(p) : ExitCollecting(p, code, f)
      BY <1>3 DEF sys_exit
    <2>3. parent[p] \in Slots /\ parent[p] # p
      BY <2>1 DEF TypeOK
    <2>4. /\ parent' \in [Slots -> Slots \cup {NoPcb}]
          /\ status' \in [Slots -> Int]
      BY <2>1, SlotFacts DEF TypeOK
    <2>5. SUFFICES /\ QueuesMatchStates' /\ StacksRecorded'
                   /\ ready' \in [Prios -> Seq(Slots)]
                   /\ state' \in [Slots -> States]
                   /\ quantum' \in [Slots -> 0..Q_STD] /\ current' \in Slots
                   /\ mode' \in Modes
                   /\ ret' \in [Slots -> Int] /\ wstat' \in [Slots -> Int]
                   /\ stack' \in [Slots -> StackIds \cup {NULL}]
                   /\ pool' \in StackPools /\ zombie' \in Seq(Slots)
      BY <1>1, <2>1, <2>4 DEF TypeOK
    <2>6. CASE ExitOnly(p, code)
      <3>1. /\ ReportExit(p, code, state, ready, ret, wstat, stack, pool)
            /\ zombie' = QueueZombie(p, state, zombie)
        BY <2>6 DEF ExitOnly
      <3>2. zombie' \in Seq(Slots)
        BY <3>1, QueueZombieType DEF TypeOK
      <3>3. /\ state \in [Slots -> States] /\ ready \in [Prios -> Seq(Slots)]
            /\ ret \in [Slots -> Int] /\ wstat \in [Slots -> Int]
            /\ stack \in [Slots -> StackIds \cup {NULL}] /\ pool \in StackPools
        BY DEF TypeOK
      <3>4. \A q \in Slots : state[q] # "UNUSED" => stack[q] # NULL /\ context[q] # NULL
        BY DEF StacksRecorded
      <3>5. UNCHANGED <<priority, sleeping, context>> /\ TypeOK
        BY <2>1
      <3>6. /\ QueuesMatchStates' /\ StacksRecorded'
            /\ ready' \in [Prios -> Seq(Slots)] /\ state' \in [Slots -> States]
            /\ quantum' \in [Slots -> 0..Q_STD] /\ current' \in Slots
            /\ mode' \in Modes
            /\ ret' \in [Slots -> Int] /\ wstat' \in [Slots -> Int]
            /\ stack' \in [Slots -> StackIds \cup {NULL}] /\ pool' \in StackPools
        <4>1. PICK st0 \in [Slots -> States], rq0 \in [Prios -> Seq(Slots)],
                   rt0 \in [Slots -> Int], ws0 \in [Slots -> Int],
                   sk0 \in [Slots -> StackIds \cup {NULL}], pl0 \in StackPools :
                /\ st0 = state /\ rq0 = ready /\ rt0 = ret /\ ws0 = wstat
                /\ sk0 = stack /\ pl0 = pool
          BY <3>3
        <4>2. /\ ReadyMatches(rq0, st0, priority)
              /\ st0[p] = "RUNNING" /\ \A q \in Slots : st0[q] = "RUNNING" => q = p
              /\ Elements(sleeping) = {q \in Slots : st0[q] = "SLEEPING"}
              /\ NoDuplicates(sleeping)
              /\ \A q \in Slots :
                   st0[q] # "UNUSED" => sk0[q] # NULL /\ context[q] # NULL
              /\ ReportExit(p, code, st0, rq0, rt0, ws0, sk0, pl0)
          BY <1>0, <3>1, <3>4, <4>1
        <4>3. QED BY <2>3, <3>5, <4>2, ReportExitStep
      <3>7. QED BY <3>2, <3>6
    <2>7. ASSUME state[init_pcb] = "WAITING",
                 NEW f \in ZombieChildrenOf(p), ExitCollecting(p, code, f)
          PROVE  /\ QueuesMatchStates' /\ StacksRecorded'
                 /\ ready' \in [Prios -> Seq(Slots)]
                 /\ state' \in [Slots -> States]
                 /\ quantum' \in [Slots -> 0..Q_STD] /\ current' \in Slots
                 /\ mode' \in Modes
                 /\ ret' \in [Slots -> Int] /\ wstat' \in [Slots -> Int]
                 /\ stack' \in [Slots -> StackIds \cup {NULL}]
                 /\ pool' \in StackPools /\ zombie' \in Seq(Slots)
      <3> DEFINE s1 == [state EXCEPT ![init_pcb] = "READY"]
                 st == [s1 EXCEPT ![f] = "UNUSED"]
                 rq == schedule(ready, init_pcb, priority[init_pcb])
                 rt == [ret EXCEPT ![init_pcb] = pid[f]]
                 ws == [wstat EXCEPT ![init_pcb] = status[f]]
                 sk == [stack EXCEPT ![f] = NULL]
                 pl == ReleaseStack(pool, stack[f])
      <3>1. f \in Slots /\ state[f] = "ZOMBIE" /\ init_pcb \in Slots
        BY SlotFacts DEF ZombieChildrenOf, ChildrenOf
      <3>2. /\ ReportExit(p, code, st, rq, rt, ws, sk, pl)
            /\ \E i \in 1..Len(zombie) :
                 zombie' = QueueZombie(p, st, DropEntry(zombie, i))
        BY <2>7 DEF ExitCollecting
      <3>3. zombie' \in Seq(Slots)
        <4>1. PICK i \in 1..Len(zombie) :
                zombie' = QueueZombie(p, st, DropEntry(zombie, i))
          BY <3>2
        <4>2. DropEntry(zombie, i) \in Seq(Slots)
          BY DropElements DEF TypeOK
        <4>3. QED BY <4>1, <4>2, QueueZombieType
      <3>4. /\ rq \in [Prios -> Seq(Slots)] /\ s1 \in [Slots -> States]
            /\ ReadyMatches(rq, s1, priority)
        BY <1>0, <2>7, <3>1, ScheduleMatches DEF TypeOK, States
      <3>5. s1[f] # "READY"
        BY <2>7, <3>1 DEF TypeOK
      <3>6. st \in [Slots -> States] /\ ReadyMatches(rq, st, priority)
        BY <3>1, <3>4, <3>5, OtherStateMatches DEF States
      <3>7. \A q \in Slots : st[q] = IF q = f THEN "UNUSED"
                                     ELSE IF q = init_pcb THEN "READY" ELSE state[q]
        BY <3>1 DEF TypeOK
      <3>8. /\ rt \in [Slots -> Int] /\ ws \in [Slots -> Int]
            /\ sk \in [Slots -> StackIds \cup {NULL}]
        <4>1. pid[f] \in Int /\ status[f] \in Int
          BY <3>1, ProcsAssumption DEF TypeOK
        <4>2. QED BY <4>1 DEF TypeOK
      <3>9. pl \in StackPools
        BY <3>1, PoolTypes DEF TypeOK
      <3> HIDE DEF s1, st, rq, rt, ws, pl
      <3>10. st[p] = "RUNNING" /\ \A q \in Slots : st[q] = "RUNNING" => q = p
        BY <1>0, <2>7, <3>1, <3>7
      <3>11. Elements(sleeping) = {q \in Slots : st[q] = "SLEEPING"}
        BY <1>0, <2>7, <3>1, <3>7
      <3>12. \A q \in Slots : st[q] # "UNUSED" => sk[q] # NULL /\ context[q] # NULL
        <4>1. \A q \in Slots : q # f => sk[q] = stack[q]
          BY DEF TypeOK
        <4>2. QED BY <2>7, <3>7, <4>1 DEF StacksRecorded
      <3> HIDE DEF sk
      <3>13. UNCHANGED <<priority, sleeping, context>>
        BY <2>1
      <3>14. TypeOK /\ NoDuplicates(sleeping)
             /\ ReportExit(p, code, st, rq, rt, ws, sk, pl)
             /\ rq \in [Prios -> Seq(Slots)]
        BY <1>0, <3>2, <3>4
      <3>15. /\ QueuesMatchStates' /\ StacksRecorded'
             /\ ready' \in [Prios -> Seq(Slots)] /\ state' \in [Slots -> States]
             /\ quantum' \in [Slots -> 0..Q_STD] /\ current' \in Slots
             /\ mode' \in Modes
             /\ ret' \in [Slots -> Int] /\ wstat' \in [Slots -> Int]
             /\ stack' \in [Slots -> StackIds \cup {NULL}] /\ pool' \in StackPools
        <4>1. PICK st0 \in [Slots -> States], rq0 \in [Prios -> Seq(Slots)],
                   rt0 \in [Slots -> Int], ws0 \in [Slots -> Int],
                   sk0 \in [Slots -> StackIds \cup {NULL}], pl0 \in StackPools :
                /\ st0 = st /\ rq0 = rq /\ rt0 = rt /\ ws0 = ws
                /\ sk0 = sk /\ pl0 = pl
          BY <3>6, <3>8, <3>9, <3>14
        <4>2. /\ ReadyMatches(rq0, st0, priority)
              /\ st0[p] = "RUNNING" /\ \A q \in Slots : st0[q] = "RUNNING" => q = p
              /\ Elements(sleeping) = {q \in Slots : st0[q] = "SLEEPING"}
              /\ \A q \in Slots :
                   st0[q] # "UNUSED" => sk0[q] # NULL /\ context[q] # NULL
              /\ ReportExit(p, code, st0, rq0, rt0, ws0, sk0, pl0)
          BY <3>6, <3>10, <3>11, <3>12, <3>14, <4>1
        <4>3. QED BY <2>3, <3>13, <3>14, <4>2, ReportExitStep
      <3>16. QED BY <3>3, <3>15
    <2>8. QED BY <2>2, <2>6, <2>7
  <1>4. QED BY <1>2, <1>3

\* The calls that return at once, and exit() in its two forms.
LEMMA OtherCallSteps ==
  ASSUME SchedInv, NEW p \in Slots,
         \/ Exit(p) \/ Bogus(p) \/ GetPid(p) \/ GetTime(p) \/ GetPrio(p)
         \/ Read(p) \/ Write(p)
  PROVE  SchedInv'
  <1>0. spawned \in 0..N_ENTRIES /\ strayed \in 0..N_ENTRIES
    BY DEF SchedInv, TypeOK
  <1>1. CASE Exit(p)
    <2>1. PICK code \in StatusArgs : sys_exit(p, code)
      BY <1>1 DEF Exit
    <2>2. code \in Int
      BY ProcsAssumption
    <2>3. QED BY <1>1, <2>1, <2>2, ExitStep DEF Exit
  <1>2. CASE Bogus(p)
    BY <1>2, ExitStep DEF Bogus, S_BAD_SYSCALL
  <1>3. CASE GetPid(p) \/ GetTime(p)
    <2>1. pid[p] \in Int /\ system_time \in Int
      BY ProcsAssumption DEF SchedInv, TypeOK
    <2>2. QED BY <1>0, <1>3, <2>1, QuietSteps
              DEF GetPid, GetTime, sys_getpid, sys_gettime
  <1>4. CASE GetPrio(p)
    <2>1. \A q \in Slots : priority[q] \in Int
      BY DEF SchedInv, TypeOK, Prios, PRIO_HIGH, PRIO_LOW
    <2>2. PageZeroBytes \subseteq Int
      BY DEF PageZeroBytes
    <2>3. kpanic \/ \E v \in Int : Return(p, v)
      BY <1>4, <2>1, <2>2 DEF GetPrio, sys_getprio
    <2>4. QED BY <1>0, <1>4, <2>3, QuietSteps DEF GetPrio
  <1>5. CASE Read(p)
    <2>1. PICK chan \in {"cio", "sio", "bad"}, avail \in {0, 1} :
            sys_read(p, chan, avail)
      BY <1>5 DEF Read
    <2>2. kpanic \/ \E v \in Int : Return(p, v)
      BY <2>1 DEF sys_read, S_BAD_CHAN
    <2>3. QED BY <1>0, <1>5, <2>2, QuietSteps DEF Read
  <1>6. CASE Write(p)
    <2>1. \E v \in Int : Return(p, v)
      BY <1>6 DEF Write, sys_write, S_BAD_CHAN
    <2>2. QED BY <1>0, <1>6, <2>1, QuietSteps DEF Write
  <1>7. QED BY <1>1, <1>2, <1>3, <1>4, <1>5, <1>6

-----------------------------------------------------------------------------
(* The clock *)

\* clk_isr(): the tick, the wake-up loop and the end of the time slice.
LEMMA ClockSteps ==
  ASSUME SchedInv, clk_isr
  PROVE  SchedInv'
  <1> USE DEF SchedInv
  <1>0. spawned' = spawned /\ strayed' = strayed
    BY DEF clk_isr, ClkTick, ClkWake, ClkContinue, ClkPreempt
  <1>a. ASSUME mode \in {"user", "clk"}
        PROVE  /\ \A q \in Slots : state[q] = "RUNNING" <=> q = current
               /\ quantum[current] >= 1
               /\ ReadyMatches(ready, state, priority)
               /\ Elements(sleeping) = {q \in Slots : state[q] = "SLEEPING"}
               /\ NoDuplicates(sleeping)
    BY <1>a DEF QueuesMatchStates, Running
  <1>b. ASSUME mode = "clk"
        PROVE  Charged \in 0..Q_STD
    <2>1. quantum[current] \in 1..Q_STD /\ Q_STD \in 1..255
      BY <1>b, ProcsAssumption DEF QueuesMatchStates, Running, TypeOK
    <2>2. QED BY <2>1 DEF Charged
  <1>1. CASE ClkTick
    <2>1. (system_time + 1) % TimeMod \in 0..(TimeMod - 1)
      <3>1. TimeMod \in Nat /\ TimeMod >= 1 /\ system_time \in Nat
        BY ProcsAssumption DEF TypeOK
      <3>2. QED BY <3>1
    <2>2. /\ mode' = "clk" /\ mode = "user"
          /\ system_time' = (system_time + 1) % TimeMod
          /\ UNCHANGED <<state, parent, pid, priority, wakeup, quantum, status,
                         stack, context, ret, wstat, ready, sleeping, zombie,
                         current, next_pid, pool, spawned, strayed>>
      BY <1>1 DEF ClkTick, pcbs
    <2>3. TypeOK'
      BY <2>1, <2>2 DEF TypeOK, Modes
    <2>4. StacksRecorded'
      BY <2>2 DEF StacksRecorded
    <2>5. QueuesMatchStates'
      BY <1>a, <2>2 DEF QueuesMatchStates, Running, ReadyMatches
    <2>6. QED BY <2>3, <2>4, <2>5
  <1>2. CASE ClkWake
    <2> DEFINE p == Head(sleeping)
    <2>1. /\ mode = "clk" /\ sleeping # <<>>
          /\ ready' = schedule(ready, p, priority[p])
          /\ state' = [state EXCEPT ![p] = "READY"]
          /\ sleeping' = Tail(sleeping)
          /\ UNCHANGED <<parent, pid, priority, wakeup, quantum, status, stack,
                         context, ret, wstat, zombie, current, next_pid,
                         system_time, pool, mode, spawned, strayed>>
      BY <1>2 DEF ClkWake, Due
    <2>2. /\ p \in Slots /\ p \in Elements(sleeping)
          /\ sleeping' \in Seq(Slots) /\ NoDuplicates(sleeping')
          /\ Elements(sleeping') = Elements(sleeping) \ {p}
      <3>1. sleeping \in Seq(Slots)
        BY DEF TypeOK
      <3>2. NoDuplicates(sleeping)
        BY <1>a, <2>1
      <3>3. QED BY <2>1, <3>1, <3>2, TailElements
    <2>3. state[p] = "SLEEPING" /\ p # current
      BY <1>a, <2>1, <2>2 DEF TypeOK
    <2> HIDE DEF p
    <2>4. /\ ready' \in [Prios -> Seq(Slots)]
          /\ ReadyMatches(ready', state', priority)
      BY <1>a, <2>1, <2>2, <2>3, ScheduleMatches DEF TypeOK
    <2>5. \A q \in Slots : state'[q] = IF q = p THEN "READY" ELSE state[q]
      BY <2>1, <2>2 DEF TypeOK
    <2>6. TypeOK'
      BY <2>1, <2>2, <2>4 DEF TypeOK, States
    <2>7. StacksRecorded'
      BY <2>1, <2>3, <2>5 DEF StacksRecorded
    <2>8. QueuesMatchStates'
      <3>1. \A q \in Slots : state'[q] = "RUNNING" <=> q = current'
        BY <1>a, <2>1, <2>3, <2>5
      <3>2. Elements(sleeping') = {q \in Slots : state'[q] = "SLEEPING"}
        BY <1>a, <2>1, <2>2, <2>5
      <3>3. ReadyMatches(ready', state', priority')
        BY <2>1, <2>4
      <3>4. quantum'[current'] >= 1
        BY <1>a, <2>1
      <3>5. QED BY <2>2, <3>1, <3>2, <3>3, <3>4 DEF QueuesMatchStates
    <2>9. QED BY <2>6, <2>7, <2>8
  <1>3. CASE ClkContinue
    <2>1. /\ mode = "clk" /\ mode' = "user" /\ Charged >= 1
          /\ quantum' = [quantum EXCEPT ![current] = Charged]
          /\ UNCHANGED <<state, parent, pid, priority, wakeup, status, stack,
                         context, ret, wstat, ready, sleeping, zombie, current,
                         next_pid, system_time, pool, spawned, strayed>>
      BY <1>3 DEF ClkContinue
    <2>2. Charged \in 0..Q_STD
      BY <2>1, <1>b
    <2>3. TypeOK'
      BY <2>1, <2>2 DEF TypeOK, Modes
    <2>4. StacksRecorded'
      BY <2>1 DEF StacksRecorded
    <2>5. QueuesMatchStates'
      BY <1>a, <2>1 DEF QueuesMatchStates, Running, ReadyMatches
    <2>6. QED BY <2>3, <2>4, <2>5
  <1>c. CASE ClkPreempt /\ kpanic
    BY <1>c, <1>0, QuietSteps DEF TypeOK
  <1>4. CASE ClkPreempt /\ ~kpanic
    <2> DEFINE st == [state EXCEPT ![current] = "READY"]
               rq == schedule(ready, current, priority[current])
               qt == [quantum EXCEPT ![current] = Charged]
    <2>1. /\ mode = "clk" /\ dispatch(rq, st, qt)
          /\ UNCHANGED <<parent, pid, priority, wakeup, status, stack, context,
                         ret, wstat, sleeping, zombie, next_pid, system_time,
                         pool, spawned, strayed>>
      BY <1>4 DEF ClkPreempt
    <2>2. current \in Slots /\ state[current] = "RUNNING"
      BY <1>a, <2>1 DEF TypeOK
    <2>3. rq \in [Prios -> Seq(Slots)] /\ ReadyMatches(rq, st, priority)
      BY <1>a, <2>1, <2>2, ScheduleMatches DEF TypeOK
    <2>4. /\ st \in [Slots -> States]
          /\ \A q \in Slots : st[q] = IF q = current THEN "READY" ELSE state[q]
      BY <2>2 DEF TypeOK, States
    <2>a. qt \in [Slots -> 0..Q_STD]
      BY <1>b, <2>1 DEF TypeOK
    <2> HIDE DEF st, rq, qt
    <2>5. \A q \in Slots : st[q] # "RUNNING"
      BY <1>a, <2>1, <2>4
    <2>6. /\ Elements(sleeping') = {q \in Slots : st[q] = "SLEEPING"}
          /\ NoDuplicates(sleeping') /\ sleeping' \in Seq(Slots)
      BY <1>a, <2>1, <2>2, <2>4 DEF TypeOK
    <2>7. /\ QueuesMatchStates'
          /\ ready' \in [Prios -> Seq(Slots)]
          /\ state' \in [Slots -> States]
          /\ quantum' \in [Slots -> 0..Q_STD]
          /\ current' \in Slots
          /\ mode' \in Modes
          /\ \A q \in Slots : \/ state'[q] = st[q]
                              \/ st[q] = "READY" /\ state'[q] = "RUNNING"
      BY <2>1, <2>3, <2>4, <2>a, <2>5, <2>6, AfterDispatch
    <2>8. TypeOK'
      BY <2>1, <2>7 DEF TypeOK
    <2>9. StacksRecorded'
      BY <2>1, <2>2, <2>4, <2>7 DEF StacksRecorded
    <2>10. QED BY <2>7, <2>8, <2>9
  <1>5. QED BY <1>1, <1>2, <1>3, <1>c, <1>4 DEF clk_isr

-----------------------------------------------------------------------------
(* The theorems *)

\* The table that main() sets up satisfies the scheduler invariant.
LEMMA InitSched == Init => SchedInv
  <1> SUFFICES ASSUME Init PROVE SchedInv
    OBVIOUS
  <1>1. TypeOK
    <2>1. /\ init_pcb \in Slots /\ 0 \in 0..Q_STD /\ Q_STD \in 0..Q_STD
          /\ PID_INIT \in 0..MaxPid /\ 0 \in 0..MaxPid /\ 0 \in 0..(TimeMod - 1)
          /\ FIRST_USER_PID \in FIRST_USER_PID..(MaxPid + 1) /\ 0 \in 0..N_ENTRIES
      BY ProcsAssumption, SlotFacts DEF PID_INIT, FIRST_USER_PID
    <2>2. INIT_STACK \in StackIds /\ InitialPool \in StackPools
      BY MaxStacksAssumption
         DEF INIT_STACK, InitialPool, StackIds, StackPools, NULL
    <2>3. PRIO_HIGH \in Prios /\ 0 \in Int
      BY DEF Prios, PRIO_HIGH, PRIO_LOW
    <2>4. /\ pid \in [Slots -> 0..MaxPid] /\ priority \in [Slots -> Prios]
          /\ wakeup \in [Slots -> 0..(TimeMod - 1)]
          /\ quantum \in [Slots -> 0..Q_STD]
          /\ status \in [Slots -> Int] /\ ret \in [Slots -> Int]
          /\ wstat \in [Slots -> Int]
          /\ stack \in [Slots -> StackIds \cup {NULL}]
          /\ context \in [Slots -> StackIds \cup {NULL}]
      BY <2>1, <2>2, <2>3 DEF Init, pcb_init
    <2>5. state \in [Slots -> States] /\ parent \in [Slots -> Slots \cup {NoPcb}]
      BY <2>1 DEF Init, pcb_init, States
    <2>6. /\ ready \in [Prios -> Seq(Slots)]
          /\ sleeping \in Seq(Slots) /\ zombie \in Seq(Slots)
      BY DEF Init, pcb_init
    <2>7. /\ current \in Slots /\ next_pid \in FIRST_USER_PID..(MaxPid + 1)
          /\ system_time \in 0..(TimeMod - 1) /\ pool \in StackPools
          /\ mode \in Modes /\ spawned \in 0..N_ENTRIES /\ strayed \in 0..N_ENTRIES
      BY <2>1, <2>2 DEF Init, pcb_init, Modes
    <2>8. QED BY <2>4, <2>5, <2>6, <2>7 DEF TypeOK
  <1>2. StacksRecorded
    <2>1. INIT_STACK # NULL
      BY DEF INIT_STACK, NULL
    <2>2. QED BY <2>1 DEF Init, pcb_init, StacksRecorded
  <1>3. QueuesMatchStates
    <2>1. \A p \in Slots : state[p] \in {"RUNNING", "UNUSED"}
      BY DEF Init, pcb_init
    <2>2. \A p \in Slots : state[p] = "RUNNING" <=> p = current
      BY SlotFacts DEF Init, pcb_init
    <2>3. Elements(<<>>) = {} /\ NoDuplicates(<<>>)
      BY DEF Elements, NoDuplicates
    <2>4. quantum[current] >= 1
      BY SlotFacts, ProcsAssumption DEF Init, pcb_init
    <2>5. QED BY <2>1, <2>2, <2>3, <2>4
              DEF Init, pcb_init, QueuesMatchStates, ReadyMatches
  <1>4. QED BY <1>1, <1>2, <1>3 DEF SchedInv

\* Every step of the kernel keeps it.
LEMMA NextSched ==
  ASSUME SchedInv, [Next]_vars
  PROVE  SchedInv'
  <1>1. CASE InitForks
    BY <1>1, ForkSteps
  <1>2. ASSUME NEW p \in Slots, Syscall(p)
        PROVE  SchedInv'
    BY <1>2, ForkSteps, WaitStep, ExecStep, SleepStep, OtherCallSteps DEF Syscall
  <1>3. CASE clk_isr
    BY <1>3, ClockSteps
  <1>4. CASE Halted \/ UNCHANGED vars
    <2>1. UNCHANGED <<state, parent, pid, priority, wakeup, quantum, status,
                      stack, context, ret, wstat, ready, sleeping, zombie,
                      current, next_pid, system_time, pool, mode, spawned, strayed>>
      BY <1>4 DEF Halted, vars
    <2>2. TypeOK'
      BY <2>1 DEF SchedInv, TypeOK
    <2>3. StacksRecorded'
      BY <2>1 DEF SchedInv, StacksRecorded
    <2>4. QueuesMatchStates'
      BY <2>1 DEF SchedInv, QueuesMatchStates, Running, ReadyMatches
    <2>5. QED BY <2>2, <2>3, <2>4 DEF SchedInv
  <1>5. QED BY <1>1, <1>2, <1>3, <1>4 DEF Next

\* The scheduler invariant holds in every reachable state, for every size of
\* the process table and of the stack pool and every workload.
THEOREM SchedulerInvariant == Spec => []SchedInv
  BY InitSched, NextSched, PTL DEF Spec

\* The fields, the queues and the globals keep their types.
THEOREM TypesOK == Spec => []TypeOK
  <1>1. SchedInv => TypeOK
    BY DEF SchedInv
  <1>2. QED BY <1>1, SchedulerInvariant, PTL

\* schedule(), dispatch(), sys_sleep() and clk_isr() never lose or duplicate a
\* process: the queues always match the states.
THEOREM NoProcessLost == Spec => []QueuesMatchStates
  <1>1. SchedInv => QueuesMatchStates
    BY DEF SchedInv
  <1>2. QED BY <1>1, SchedulerInvariant, PTL

-----------------------------------------------------------------------------
(* The order of the sleep queue *)

\* A step that leaves the sleep queue and the wake-up times of those in it.
LEMMA SameSleepers ==
  ASSUME SleepersSorted, Running, sleeping' = sleeping,
         \A q \in Elements(sleeping) : wakeup'[q] = wakeup[q]
  PROVE  SleepersSorted'
  BY DEF SleepersSorted, Elements

\* Only sys_fork(), sys_sleep() and clk_isr() write a wake-up time or the
\* sleep queue.
LEMMA OthersLeaveSleepers ==
  ASSUME NEW p \in Slots,
         \/ Exit(p) \/ Bogus(p) \/ Wait(p) \/ Exec(p) \/ GetPid(p)
         \/ GetTime(p) \/ GetPrio(p) \/ Read(p) \/ Write(p)
  PROVE  wakeup' = wakeup /\ sleeping' = sleeping
  <1>1. ASSUME kpanic \/ Corrupt
        PROVE  wakeup' = wakeup /\ sleeping' = sleeping
    BY <1>1 DEF kpanic, Corrupt, pcbs
  <1>2. ASSUME NEW v, Return(p, v)
        PROVE  wakeup' = wakeup /\ sleeping' = sleeping
    BY <1>2 DEF Return
  <1>3. CASE Exit(p) \/ Bogus(p)
    BY <1>1, <1>3 DEF Exit, Bogus, sys_exit
  <1>4. CASE Wait(p)
    BY <1>2, <1>4 DEF Wait, sys_wait
  <1>5. CASE Exec(p)
    BY <1>1, <1>2, <1>5 DEF Exec, sys_exec
  <1>6. CASE GetPid(p) \/ GetTime(p) \/ Write(p)
    BY <1>2, <1>6
       DEF GetPid, GetTime, Write, sys_getpid, sys_gettime, sys_write
  <1>7. CASE GetPrio(p)
    BY <1>1, <1>2, <1>7 DEF GetPrio, sys_getprio
  <1>8. CASE Read(p)
    BY <1>1, <1>2, <1>8 DEF Read, sys_read
  <1>9. QED BY <1>3, <1>4, <1>5, <1>6, <1>7, <1>8

\* A fork sets the wake-up time of an unused PCB, which is not asleep.
LEMMA ForkSleepers ==
  ASSUME SchedInv, SleepersSorted, NEW p \in Slots, Traps(p, "fork"),
         \/ sys_fork_fails(p)
         \/ \E new \in Slots, a \in Nat : sys_fork(p, new, a)
  PROVE  SleepersSorted'
  <1>1. Running /\ Elements(sleeping) = {q \in Slots : state[q] = "SLEEPING"}
    BY CallerFacts
  <1>2. CASE sys_fork_fails(p)
    BY <1>1, <1>2, SameSleepers DEF sys_fork_fails, Return
  <1>3. ASSUME NEW new \in Slots, NEW a \in Nat, sys_fork(p, new, a)
        PROVE  SleepersSorted'
    <2>1. state[new] = "UNUSED"
      BY <1>3 DEF sys_fork, pcb_alloc, IsFirst
    <2>2. sleeping' = sleeping
      BY <1>3 DEF sys_fork, kpanic, Corrupt
    <2>3. wakeup' = wakeup \/ wakeup' = [wakeup EXCEPT ![new] = 0]
      BY <1>3 DEF sys_fork, kpanic, Corrupt, pcbs
    <2>4. \A q \in Elements(sleeping) : wakeup'[q] = wakeup[q]
      BY <1>1, <2>1, <2>3 DEF SchedInv, TypeOK
    <2>5. QED BY <1>1, <2>2, <2>4, SameSleepers
  <1>4. QED BY <1>2, <1>3

\* sys_sleep() puts the caller, which was not asleep, behind the sleepers that
\* wake no later than it does.
LEMMA SleepSleepers ==
  ASSUME SchedInv, SleepersSorted, NEW p \in Slots, Sleep(p)
  PROVE  SleepersSorted'
  <1>1. /\ Running /\ state[p] = "RUNNING"
        /\ Elements(sleeping) = {q \in Slots : state[q] = "SLEEPING"}
    BY CallerFacts DEF Sleep
  <1>2. PICK n \in SleepArgs : sys_sleep(p, n)
    BY DEF Sleep
  <1>a. CASE ~QnodeLeft
    <2>1. wakeup' = wakeup /\ sleeping' = sleeping
      BY <1>2, <1>a DEF sys_sleep, kpanic, pcbs
    <2>2. QED BY <1>1, <2>1, SameSleepers
  <1>3. CASE QnodeLeft /\ n = 0
    BY <1>1, <1>2, <1>3, SameSleepers DEF sys_sleep
  <1>4. CASE QnodeLeft /\ n # 0
    <2> DEFINE w == (system_time + n) % TimeMod
    <2>1. PICK i \in 0..Len(sleeping) :
            /\ wakeup' = [wakeup EXCEPT ![p] = w]
            /\ InsertionPoint(sleeping, wakeup, w, i)
            /\ sleeping' = InsertAfter(sleeping, p, i)
      BY <1>2, <1>4 DEF sys_sleep
    <2>2. w \in Int
      BY ProcsAssumption DEF SchedInv, TypeOK
    <2> HIDE DEF w
    <2>3. sleeping \in Seq(Slots) /\ wakeup \in [Slots -> Int]
      BY ProcsAssumption DEF SchedInv, TypeOK
    <2>4. wakeup' \in [Slots -> Int] /\ wakeup'[p] = w
      BY <2>1, <2>2, <2>3
    <2>5. \A j \in 1..Len(sleeping) :
            sleeping[j] \in Slots /\ sleeping[j] # p
      BY <1>1, <2>3 DEF Elements
    <2>6. \A j \in 1..Len(sleeping) :
            wakeup'[sleeping[j]] = wakeup[sleeping[j]]
      BY <2>1, <2>3, <2>5
    <2>7. InsertionPoint(sleeping, wakeup', wakeup'[p], i)
      <3>1. \A j \in 1..i : wakeup'[sleeping[j]] <= w
        BY <2>1, <2>3, <2>6 DEF InsertionPoint
      <3>2. i < Len(sleeping) => wakeup'[sleeping[i + 1]] > w
        BY <2>1, <2>3, <2>6 DEF InsertionPoint
      <3>3. QED BY <2>4, <3>1, <3>2 DEF InsertionPoint
    <2>8. \A a, b \in 1..Len(sleeping) :
            a < b => wakeup'[sleeping[a]] <= wakeup'[sleeping[b]]
      BY <1>1, <2>6 DEF SleepersSorted
    <2>9. \A a, b \in 1..Len(sleeping') :
            a < b => wakeup'[sleeping'[a]] <= wakeup'[sleeping'[b]]
      BY <2>1, <2>3, <2>4, <2>7, <2>8, InsertSorted
    <2>10. QED BY <2>9 DEF SleepersSorted
  <1>5. QED BY <1>a, <1>3, <1>4

\* clk_isr() takes sleepers off the front only.
LEMMA ClockSleepers ==
  ASSUME SchedInv, SleepersSorted, clk_isr
  PROVE  SleepersSorted'
  <1>1. CASE ClkTick \/ ClkContinue \/ ClkPreempt
    <2>1. Running /\ wakeup' = wakeup /\ sleeping' = sleeping
      BY <1>1 DEF ClkTick, ClkContinue, ClkPreempt, kpanic, pcbs, Running
    <2>2. QED BY <2>1, SameSleepers
  <1>2. CASE ClkWake
    <2>1. /\ Running /\ sleeping # <<>> /\ wakeup' = wakeup
          /\ sleeping' = Tail(sleeping)
      BY <1>2 DEF ClkWake, Due, Running
    <2>2. sleeping \in Seq(Slots)
      BY DEF SchedInv, TypeOK
    <2>3. /\ Len(sleeping') = Len(sleeping) - 1
          /\ \A j \in 1..Len(sleeping') : sleeping'[j] = sleeping[j + 1]
      BY <2>1, <2>2
    <2>4. SUFFICES ASSUME NEW a \in 1..Len(sleeping'),
                          NEW b \in 1..Len(sleeping'), a < b
                   PROVE  wakeup[sleeping[a + 1]] <= wakeup[sleeping[b + 1]]
      BY <2>1, <2>3 DEF SleepersSorted
    <2>5. /\ a + 1 \in 1..Len(sleeping) /\ b + 1 \in 1..Len(sleeping)
          /\ a + 1 < b + 1
      BY <2>2, <2>3, <2>4
    <2>6. QED BY <2>1, <2>5 DEF SleepersSorted
  <1>3. QED BY <1>1, <1>2 DEF clk_isr

\* The first sleeper is always the one to be awakened first: clk_isr() may stop
\* at the first that is not due, for any number of sleepers and any clock.
THEOREM SleepOrder == Spec => []SleepersSorted
  <1>1. Init => SleepersSorted
    BY DEF Init, pcb_init, SleepersSorted
  <1>2. SchedInv /\ SleepersSorted /\ [Next]_vars => SleepersSorted'
    <2> SUFFICES ASSUME SchedInv, SleepersSorted, [Next]_vars
                 PROVE  SleepersSorted'
      OBVIOUS
    <2>1. CASE InitForks
      <3>1. Prios \subseteq Nat
        BY DEF Prios, PRIO_HIGH, PRIO_LOW
      <3>2. PRIO_LOW \in Nat /\ InitPrios \subseteq Nat
        BY <3>1, ProcsAssumption DEF PRIO_LOW
      <3>3. QED BY <2>1, <3>2, SlotFacts, ForkSleepers DEF InitForks
    <2>2. ASSUME NEW p \in Slots, Syscall(p)
          PROVE  SleepersSorted'
      <3>1. CASE UserForks(p)
        BY <3>1, ProcsAssumption, ForkSleepers DEF UserForks
      <3>a. CASE StrayForks(p)
        <4>1. \A h \in InitPrios : h \in Nat
          BY ProcsAssumption DEF Prios, PRIO_HIGH, PRIO_LOW
        <4>2. QED BY <3>a, <4>1, ForkSleepers DEF StrayForks
      <3>2. CASE Sleep(p)
        BY <3>2, SleepSleepers
      <3>3. CASE ~UserForks(p) /\ ~StrayForks(p) /\ ~Sleep(p)
        <4>1. wakeup' = wakeup /\ sleeping' = sleeping
          BY <2>2, <3>3, OthersLeaveSleepers DEF Syscall
        <4>2. Running
          BY <2>2, <3>3 DEF Syscall, Exit, Bogus, Wait, Exec, GetPid, GetTime,
                            GetPrio, Read, Write, Traps, Running
        <4>3. QED BY <4>1, <4>2, SameSleepers
      <3>4. QED BY <3>1, <3>a, <3>2, <3>3
    <2>3. CASE clk_isr
      BY <2>3, ClockSleepers
    <2>4. CASE Halted \/ UNCHANGED vars
      BY <2>4 DEF Halted, vars, SleepersSorted, Running
    <2>5. QED BY <2>1, <2>2, <2>3, <2>4 DEF Next
  <1>3. QED BY <1>1, <1>2, SchedulerInvariant, PTL DEF Spec

-----------------------------------------------------------------------------
(* Part 2: the process tree *)

-----------------------------------------------------------------------------
(* The effects *)

\* The states that dispatch(), sys_sleep() and clk_isr() move processes among.
Active == {"READY", "RUNNING", "SLEEPING"}

\* The state of q changes at most from one active state to another.
KeepsState(q) ==
  state'[q] = state[q] \/ (state[q] \in Active /\ state'[q] \in Active)

\* It changes at most because dispatch() picks q.
Dispatched(q) ==
  state'[q] = state[q] \/ (state[q] = "READY" /\ state'[q] = "RUNNING")

\* q stays ready to run.
StaysRunnable(q) ==
  state[q] \in {"READY", "RUNNING"} => state'[q] \in {"READY", "RUNNING"}

KeepsFamily ==
  /\ \A q \in Slots : KeepsState(q)
  /\ UNCHANGED <<parent, pid, next_pid, zombie>>

\* que_alloc() finds no memory for the entry that the caller is to have.
OutOfNodes == ~QnodeLeft /\ kpanic

\* kpanic(), or a write over a live process: nothing is changed, or seen.
Halts == ~Running' /\ UNCHANGED <<state, parent, pid, next_pid, zombie>>

ForkEffect(p, new) ==
  /\ state[p] = "RUNNING" /\ state[new] = "UNUSED"
  /\ state' = [state EXCEPT ![new] = "READY"]
  /\ parent' = [parent EXCEPT ![new] = p]
  /\ pid' = [pid EXCEPT ![new] = next_pid]
  /\ next_pid' = next_pid + 1
  /\ UNCHANGED zombie

CollectEffect(p, child) ==
  /\ state[p] = "RUNNING" /\ child \in ZombieChildrenOf(p)
  /\ state' = [state EXCEPT ![child] = "UNUSED"]
  /\ ret'[p] = pid[child] /\ wstat'[p] = status[child]
  /\ UNCHANGED <<parent, pid, next_pid, zombie, status, mode>>

\* dispatch() finds a process: one other than p was ready.
Found(p) == (\E q \in Slots \ {p} : state[q] = "READY") => mode' = "user"

BlockEffect(p) ==
  /\ state[p] = "RUNNING"
  /\ ChildrenOf(p) # {} /\ ZombieChildrenOf(p) = {}
  /\ state'[p] = "WAITING"
  /\ \A q \in Slots \ {p} : Dispatched(q)
  /\ Found(p)
  /\ UNCHANGED <<parent, pid, next_pid, zombie>>

\* The parent is told when it waits, unless it is init and has just been given
\* the zombie f instead; f is NoPcb when sys_exit() collects none.
Told(p, f) ==
  state[parent[p]] = "WAITING" /\ ~(f # NoPcb /\ parent[p] = init_pcb)

ExitEffect(p, code, f) ==
  LET par == parent[p]
  IN  /\ state[p] = "RUNNING" /\ par \in Slots /\ par # p
      /\ IF f = NoPcb THEN ZombieChildrenOf(p) = {} \/ state[init_pcb] # "WAITING"
         ELSE /\ f \in ZombieChildrenOf(p)
              /\ state[init_pcb] = "WAITING"
              /\ state'[f] = "UNUSED"
              /\ state'[init_pcb] \in {"READY", "RUNNING"}
              /\ ret'[init_pcb] = pid[f] /\ wstat'[init_pcb] = status[f]
      /\ state'[p] = IF Told(p, f) THEN "UNUSED" ELSE "ZOMBIE"
      /\ Told(p, f) => /\ state'[par] \in {"READY", "RUNNING"}
                       /\ ret'[par] = pid[p] /\ wstat'[par] = code
      /\ \A q \in Slots \ {p, f} :
           ~(q = init_pcb /\ f # NoPcb) /\ ~(q = par /\ Told(p, f)) => Dispatched(q)
      /\ Elements(zombie) \ {f} \subseteq Elements(zombie')
      /\ ~Told(p, f) => p \in Elements(zombie')
      /\ parent' = [c \in Slots |-> IF c \in ChildrenOf(p) THEN init_pcb ELSE parent[c]]
      /\ status' = [status EXCEPT ![p] = code]
      /\ Found(p)
      /\ UNCHANGED <<pid, next_pid>>

\* What dispatch() does to the states: one READY process runs.
LEMMA DispatchStates ==
  ASSUME TypeOK, NEW rq \in [Prios -> Seq(Slots)], NEW st \in [Slots -> States],
         NEW qt, ReadyMatches(rq, st, priority), dispatch(rq, st, qt)
  PROVE  /\ state' \in [Slots -> States]
         /\ \A q \in Slots : \/ state'[q] = st[q]
                             \/ st[q] = "READY" /\ state'[q] = "RUNNING"
         /\ (\E q \in Slots : st[q] = "READY") => mode' = "user"
  <1>1. CASE \A h \in Prios : rq[h] = <<>>
    <2>1. \A h \in Prios : Elements(rq[h]) = {}
      BY <1>1 DEF Elements
    <2>2. \A q \in Slots : priority[q] \in Prios
      BY DEF TypeOK
    <2>3. \A q \in Slots : st[q] # "READY"
      BY <2>1, <2>2 DEF ReadyMatches
    <2>4. QED BY <1>1, <2>3 DEF dispatch
  <1>2. CASE ~ \A h \in Prios : rq[h] = <<>>
    <2>1. PICK h \in Prios :
            /\ rq[h] # <<>> /\ state' = [st EXCEPT ![Head(rq[h])] = "RUNNING"]
            /\ mode' = "user"
      BY <1>2 DEF dispatch
    <2> DEFINE p == Head(rq[h])
    <2>2. p \in Slots /\ p \in Elements(rq[h])
      BY <2>1, TailElements
    <2>3. st[p] = "READY"
      BY <2>2 DEF ReadyMatches
    <2> HIDE DEF p
    <2>4. state' = [st EXCEPT ![p] = "RUNNING"]
      BY <2>1 DEF p
    <2>5. QED BY <2>1, <2>2, <2>3, <2>4 DEF States
  <1>3. QED BY <1>1, <1>2

\* The steps that have nothing to do with the family.
LEMMA ReturnKeeps ==
  ASSUME NEW p \in Slots, NEW v, Return(p, v)
  PROVE  KeepsFamily /\ \A q \in Slots : StaysRunnable(q)
  BY DEF Return, KeepsFamily, KeepsState, StaysRunnable

LEMMA HaltStops ==
  ASSUME kpanic \/ Corrupt
  PROVE  Halts /\ \A q \in Slots : StaysRunnable(q)
  BY DEF kpanic, Corrupt, pcbs, Running, Halts, StaysRunnable

\* Exec and the calls that return at once.
LEMMA OtherCallsKeep ==
  ASSUME SchedInv, NEW p \in Slots,
         \/ Exec(p) \/ GetPid(p) \/ GetTime(p) \/ GetPrio(p)
         \/ Read(p) \/ Write(p)
  PROVE  /\ KeepsFamily \/ Halts
         /\ \A q \in Slots : StaysRunnable(q)
  <1>1. CASE Exec(p)
    <2>1. \/ Corrupt \/ Return(p, S_ERROR)
          \/ UNCHANGED <<state, parent, pid, next_pid, zombie>>
      BY <1>1 DEF Exec, sys_exec
    <2>2. state' = state
      BY <2>1 DEF Return, Corrupt, pcbs
    <2>3. QED BY <2>1, <2>2, HaltStops, ReturnKeeps
              DEF KeepsFamily, KeepsState, StaysRunnable
  <1>2. CASE GetPid(p) \/ GetTime(p) \/ Write(p)
    BY <1>2, ReturnKeeps
       DEF GetPid, GetTime, Write, sys_getpid, sys_gettime, sys_write
  <1>3. CASE GetPrio(p)
    BY <1>3, ReturnKeeps, HaltStops DEF GetPrio, sys_getprio
  <1>4. CASE Read(p)
    BY <1>4, ReturnKeeps, HaltStops DEF Read, sys_read
  <1>5. QED BY <1>1, <1>2, <1>3, <1>4

\* sys_sleep(): yield, or sleep for a while.
LEMMA SleepKeeps ==
  ASSUME SchedInv, NEW p \in Slots, Sleep(p)
  PROVE  /\ (KeepsFamily /\ Found(p)) \/ OutOfNodes
         /\ \A q \in Slots \ {p} : StaysRunnable(q)
  <1>0. /\ state[p] = "RUNNING" /\ ReadyMatches(ready, state, priority)
    BY CallerFacts DEF Sleep
  <1>1. PICK n \in SleepArgs : sys_sleep(p, n)
    BY DEF Sleep
  <1>a. CASE OutOfNodes
    BY <1>a DEF OutOfNodes, kpanic, pcbs, StaysRunnable
  <1>b. SUFFICES ASSUME QnodeLeft
                 PROVE  /\ KeepsFamily /\ Found(p)
                        /\ \A q \in Slots \ {p} : StaysRunnable(q)
    BY <1>1, <1>a DEF sys_sleep, OutOfNodes
  <1>2. UNCHANGED <<parent, pid, next_pid, zombie>>
    BY <1>1, <1>b DEF sys_sleep
  <1>3. CASE n = 0
    <2> DEFINE st == [state EXCEPT ![p] = "READY"]
               rq == schedule(ready, p, priority[p])
    <2>1. dispatch(rq, st, quantum)
      BY <1>1, <1>b, <1>3 DEF sys_sleep
    <2>2. rq \in [Prios -> Seq(Slots)] /\ ReadyMatches(rq, st, priority)
      BY <1>0, ScheduleMatches DEF SchedInv, TypeOK
    <2>3. st \in [Slots -> States]
      BY DEF SchedInv, TypeOK, States
    <2>4. \A q \in Slots : q # p => st[q] = state[q]
      BY DEF SchedInv, TypeOK
    <2>5. st[p] = "READY"
      BY DEF SchedInv, TypeOK
    <2> HIDE DEF st, rq
    <2>6. /\ \A q \in Slots : \/ state'[q] = st[q]
                              \/ st[q] = "READY" /\ state'[q] = "RUNNING"
          /\ (\E q \in Slots : st[q] = "READY") => mode' = "user"
      BY <2>1, <2>2, <2>3, DispatchStates DEF SchedInv
    <2>7. KeepsFamily
      BY <1>0, <1>2, <2>4, <2>5, <2>6 DEF KeepsFamily, KeepsState, Active
    <2>8. QED BY <2>4, <2>6, <2>7 DEF StaysRunnable, Found
  <1>4. CASE n # 0
    <2> DEFINE st == [state EXCEPT ![p] = "SLEEPING"]
    <2>1. dispatch(ready, st, quantum)
      BY <1>1, <1>b, <1>4 DEF sys_sleep
    <2>2. st \in [Slots -> States] /\ ReadyMatches(ready, st, priority)
      BY <1>0, OtherStateMatches DEF SchedInv, TypeOK, States
    <2>3. \A q \in Slots : q # p => st[q] = state[q]
      BY DEF SchedInv, TypeOK
    <2>4. st[p] = "SLEEPING"
      BY DEF SchedInv, TypeOK
    <2>5. ready \in [Prios -> Seq(Slots)]
      BY DEF SchedInv, TypeOK
    <2> HIDE DEF st
    <2>6. /\ \A q \in Slots : \/ state'[q] = st[q]
                              \/ st[q] = "READY" /\ state'[q] = "RUNNING"
          /\ (\E q \in Slots : st[q] = "READY") => mode' = "user"
      BY <2>1, <2>2, <2>5, DispatchStates DEF SchedInv
    <2>7. KeepsFamily
      BY <1>0, <1>2, <2>3, <2>4, <2>6 DEF KeepsFamily, KeepsState, Active
    <2>8. QED BY <2>3, <2>6, <2>7 DEF StaysRunnable, Found
  <1>5. QED BY <1>3, <1>4

\* clk_isr() moves processes only among the active states.
LEMMA ClockKeeps ==
  ASSUME SchedInv, clk_isr
  PROVE  /\ (KeepsFamily /\ mode' # "panic") \/ OutOfNodes
         /\ \A q \in Slots : StaysRunnable(q)
  <1>1. CASE ClkTick \/ ClkContinue
    BY <1>1 DEF ClkTick, ClkContinue, pcbs, KeepsFamily, KeepsState, StaysRunnable
  <1>2. CASE ClkWake
    <2> DEFINE p == Head(sleeping)
    <2>1. /\ sleeping # <<>> /\ state' = [state EXCEPT ![p] = "READY"]
          /\ UNCHANGED <<parent, pid, next_pid, zombie, mode>>
      BY <1>2 DEF ClkWake, Due
    <2>2. Running /\ mode # "panic"
      BY <1>2 DEF ClkWake, Running
    <2>3. p \in Slots /\ p \in Elements(sleeping)
      BY <2>1, TailElements DEF SchedInv, TypeOK
    <2>4. state[p] = "SLEEPING"
      BY <2>2, <2>3 DEF SchedInv, QueuesMatchStates
    <2> HIDE DEF p
    <2>5. QED BY <2>1, <2>2, <2>3, <2>4
              DEF SchedInv, TypeOK, KeepsFamily, KeepsState, StaysRunnable, Active
  <1>a. CASE OutOfNodes
    BY <1>a DEF OutOfNodes, kpanic, pcbs, StaysRunnable
  <1>3. CASE ClkPreempt /\ ~OutOfNodes
    <2> DEFINE st == [state EXCEPT ![current] = "READY"]
               rq == schedule(ready, current, priority[current])
               qt == [quantum EXCEPT ![current] = Charged]
    <2>1. dispatch(rq, st, qt) /\ UNCHANGED <<parent, pid, next_pid, zombie>>
      BY <1>3 DEF ClkPreempt, OutOfNodes
    <2>2. /\ Running /\ current \in Slots /\ state[current] = "RUNNING"
          /\ ReadyMatches(ready, state, priority)
      BY <1>3 DEF ClkPreempt, Running, SchedInv, TypeOK, QueuesMatchStates
    <2>3. rq \in [Prios -> Seq(Slots)] /\ ReadyMatches(rq, st, priority)
      BY <2>2, ScheduleMatches DEF SchedInv, TypeOK
    <2>4. st \in [Slots -> States] /\ st[current] = "READY"
      BY <2>2 DEF SchedInv, TypeOK, States
    <2>5. \A q \in Slots : q # current => st[q] = state[q]
      BY DEF SchedInv, TypeOK
    <2> HIDE DEF st, rq, qt
    <2>6. /\ \A q \in Slots : \/ state'[q] = st[q]
                              \/ st[q] = "READY" /\ state'[q] = "RUNNING"
          /\ mode' = "user"
      BY <2>1, <2>2, <2>3, <2>4, DispatchStates DEF SchedInv
    <2>7. QED BY <2>1, <2>2, <2>4, <2>5, <2>6 DEF KeepsFamily, KeepsState, StaysRunnable, Active
  <1>4. QED BY <1>1, <1>2, <1>a, <1>3 DEF clk_isr

\* A fork fails, halts the kernel or makes one process.
LEMMA ForkEffects ==
  ASSUME SchedInv, NEW p \in Slots, NEW new \in Slots, NEW a,
         Traps(p, "fork"), sys_fork(p, new, a)
  PROVE  Halts \/ ForkEffect(p, new)
  <1>1. state[p] = "RUNNING"
    BY CallerFacts
  <1>2. state[new] = "UNUSED"
    BY DEF sys_fork, pcb_alloc, IsFirst
  <1>3. CASE Corrupt \/ kpanic
    BY <1>3, HaltStops
  <1>4. CASE ~(Corrupt \/ kpanic)
    BY <1>1, <1>2, <1>4 DEF sys_fork, ForkEffect
  <1>5. QED BY <1>3, <1>4

\* sys_wait() returns at once, collects a zombie, or blocks.
LEMMA WaitEffects ==
  ASSUME SchedInv, NEW p \in Slots, Wait(p)
  PROVE  \/ Return(p, S_NO_CHILD)
         \/ \E child \in Slots : CollectEffect(p, child)
         \/ BlockEffect(p)
  <1>0. state[p] = "RUNNING" /\ ReadyMatches(ready, state, priority)
    BY CallerFacts DEF Wait
  <1>1. ASSUME NEW child \in Slots, IsFirst(child, ZombieChildrenOf(p)),
               ret' = [ret EXCEPT ![p] = pid[child]],
               wstat' = [wstat EXCEPT ![p] = status[child]],
               state' = [state EXCEPT ![child] = "UNUSED"],
               UNCHANGED <<parent, pid, status, zombie, next_pid, mode>>
        PROVE  CollectEffect(p, child)
    BY <1>0, <1>1 DEF CollectEffect, IsFirst, SchedInv, TypeOK
  <1>2. ASSUME ChildrenOf(p) # {}, ZombieChildrenOf(p) = {},
               dispatch(ready, [state EXCEPT ![p] = "WAITING"], quantum),
               UNCHANGED <<parent, pid, zombie, next_pid>>
        PROVE  BlockEffect(p)
    <2> DEFINE st == [state EXCEPT ![p] = "WAITING"]
    <2>1. dispatch(ready, st, quantum)
      BY <1>2
    <2>2. st \in [Slots -> States] /\ ReadyMatches(ready, st, priority)
      BY <1>0, OtherStateMatches DEF SchedInv, TypeOK, States
    <2>3. st[p] = "WAITING" /\ \A q \in Slots : q # p => st[q] = state[q]
      BY DEF SchedInv, TypeOK
    <2>4. ready \in [Prios -> Seq(Slots)]
      BY DEF SchedInv, TypeOK
    <2> HIDE DEF st
    <2>5. /\ \A q \in Slots : \/ state'[q] = st[q]
                              \/ st[q] = "READY" /\ state'[q] = "RUNNING"
          /\ (\E q \in Slots : st[q] = "READY") => mode' = "user"
      BY <2>1, <2>2, <2>4, DispatchStates DEF SchedInv
    <2>6. QED BY <1>0, <1>2, <2>3, <2>5 DEF BlockEffect, Dispatched, Found
  <1>3. QED BY <1>1, <1>2 DEF Wait, sys_wait

ReportEffect(p, code, st, rt, ws, zq) ==
  LET par  == parent[p]
      told == st[par] = "WAITING"
  IN  /\ state'[p] = IF told THEN "UNUSED" ELSE "ZOMBIE"
      /\ told => /\ state'[par] \in {"READY", "RUNNING"}
                 /\ ret'[par] = pid[p] /\ wstat'[par] = code
      /\ \A q \in Slots \ {p} :
           ~(told /\ q = par) =>
             /\ \/ state'[q] = st[q]
                \/ st[q] = "READY" /\ state'[q] = "RUNNING"
             /\ ret'[q] = rt[q] /\ wstat'[q] = ws[q]
      /\ Elements(zq) \subseteq Elements(zombie')
      /\ ~told => p \in Elements(zombie')
      /\ (\E q \in Slots \ {p} : st[q] = "READY") => mode' = "user"

\* The end of sys_exit(), for any table st, queues rq and zombie queue zq that
\* its first part may have left.
LEMMA ReportEffects ==
  ASSUME TypeOK, NEW p \in Slots, NEW code,
         NEW st \in [Slots -> States], NEW rq \in [Prios -> Seq(Slots)],
         NEW rt \in [Slots -> Int], NEW ws \in [Slots -> Int],
         NEW stk, NEW pl, NEW zq \in Seq(Slots),
         parent[p] \in Slots, parent[p] # p,
         ReadyMatches(rq, st, priority), st[p] = "RUNNING",
         ReportExit(p, code, st, rq, rt, ws, stk, pl),
         zombie' = QueueZombie(p, st, zq)
  PROVE  ReportEffect(p, code, st, rt, ws, zq)
  <1> DEFINE par == parent[p]
  <1>1. CASE st[par] = "WAITING"
    <2> DEFINE s1 == [st EXCEPT ![par] = "READY"]
               s2 == [s1 EXCEPT ![p] = "UNUSED"]
               r2 == schedule(rq, par, priority[par])
    <2>1. /\ ret' = [rt EXCEPT ![par] = pid[p]]
          /\ wstat' = [ws EXCEPT ![par] = code]
          /\ dispatch(r2, s2, quantum)
          /\ zombie' = zq
      BY <1>1 DEF ReportExit, QueueZombie
    <2>2. /\ r2 \in [Prios -> Seq(Slots)] /\ s1 \in [Slots -> States]
          /\ ReadyMatches(r2, s1, priority)
      BY <1>1, ScheduleMatches DEF TypeOK, States
    <2>3. s1[p] = "RUNNING"
      OBVIOUS
    <2>4. s2 \in [Slots -> States] /\ ReadyMatches(r2, s2, priority)
      BY <2>2, <2>3, OtherStateMatches DEF States
    <2>5. \A q \in Slots : s2[q] = IF q = p THEN "UNUSED"
                                   ELSE IF q = par THEN "READY" ELSE st[q]
      OBVIOUS
    <2> HIDE DEF s1, s2, r2
    <2>6. /\ \A q \in Slots : \/ state'[q] = s2[q]
                              \/ s2[q] = "READY" /\ state'[q] = "RUNNING"
          /\ (\E q \in Slots : s2[q] = "READY") => mode' = "user"
      BY <2>1, <2>2, <2>4, DispatchStates
    <2>7. /\ ret'[par] = pid[p] /\ wstat'[par] = code
          /\ \A q \in Slots : q # par => ret'[q] = rt[q] /\ wstat'[q] = ws[q]
      BY <2>1
    <2>8. state'[p] = "UNUSED" /\ state'[par] \in {"READY", "RUNNING"}
      BY <2>5, <2>6
    <2>9. \A q \in Slots \ {p, par} :
            \/ state'[q] = st[q]
            \/ st[q] = "READY" /\ state'[q] = "RUNNING"
      BY <2>5, <2>6
    <2>10. mode' = "user"
      BY <2>5, <2>6
    <2>11. QED BY <1>1, <2>1, <2>7, <2>8, <2>9, <2>10 DEF ReportEffect
  <1>2. CASE st[par] # "WAITING"
    <2> DEFINE s2 == [st EXCEPT ![p] = "ZOMBIE"]
    <2>1. /\ ret' = rt /\ wstat' = ws /\ dispatch(rq, s2, quantum)
          /\ zombie' = Append(zq, p)
      BY <1>2 DEF ReportExit, QueueZombie
    <2>2. s2 \in [Slots -> States] /\ ReadyMatches(rq, s2, priority)
      BY OtherStateMatches DEF States
    <2>3. \A q \in Slots : s2[q] = IF q = p THEN "ZOMBIE" ELSE st[q]
      OBVIOUS
    <2> HIDE DEF s2
    <2>4. /\ \A q \in Slots : \/ state'[q] = s2[q]
                              \/ s2[q] = "READY" /\ state'[q] = "RUNNING"
          /\ (\E q \in Slots : s2[q] = "READY") => mode' = "user"
      BY <2>1, <2>2, DispatchStates
    <2>5. Elements(zombie') = Elements(zq) \cup {p}
      BY <2>1, AppendElements
    <2>6. QED BY <1>2, <2>1, <2>3, <2>4, <2>5 DEF ReportEffect
  <1>3. QED BY <1>1, <1>2

\* What the assertions of sys_exit() are about.
ExitRefused(p) ==
  \/ parent[p] \in {NoPcb, p} \/ state[parent[p]] = "UNUSED"
  \/ ~QnodeLeft
  \/ \E f \in ZombieChildrenOf(p) : f \notin Elements(zombie)

\* Which of its two ends sys_exit() takes.
ExitsBy(p, code, f) ==
  IF f = NoPcb THEN ExitOnly(p, code) ELSE ExitCollecting(p, code, f)

\* sys_exit() halts the kernel or ends p, with or without collecting a zombie.
LEMMA ExitWays ==
  ASSUME SchedInv, NEW p \in Slots, NEW code, NEW c,
         Traps(p, c), sys_exit(p, code)
  PROVE  \/ ExitRefused(p) /\ kpanic
         \/ \E f \in Slots \cup {NoPcb} : ExitEffect(p, code, f) /\ ExitsBy(p, code, f)
  <1>0. /\ state[p] = "RUNNING" /\ ReadyMatches(ready, state, priority)
    BY CallerFacts
  <1> SUFFICES ASSUME ~(ExitRefused(p) /\ kpanic)
               PROVE  \E f \in Slots \cup {NoPcb} :
                        ExitEffect(p, code, f) /\ ExitsBy(p, code, f)
    OBVIOUS
  <1> DEFINE par == parent[p]
  <1>1. /\ par \notin {NoPcb, p}
        /\ parent' = [q \in Slots |-> IF q \in ChildrenOf(p) THEN init_pcb
                                     ELSE parent[q]]
        /\ status' = [status EXCEPT ![p] = code]
        /\ UNCHANGED <<pid, next_pid>>
    BY DEF sys_exit, ExitRefused
  <1>2. par \in Slots /\ par # p
    BY <1>1 DEF SchedInv, TypeOK
  <1>3. /\ state \in [Slots -> States] /\ ready \in [Prios -> Seq(Slots)]
        /\ ret \in [Slots -> Int] /\ wstat \in [Slots -> Int]
        /\ zombie \in Seq(Slots) /\ TypeOK /\ init_pcb \in Slots
    BY SlotFacts DEF SchedInv, TypeOK
  <1>4. \/ /\ ZombieChildrenOf(p) = {} \/ state[init_pcb] # "WAITING"
           /\ ExitOnly(p, code)
        \/ /\ state[init_pcb] = "WAITING"
           /\ \E f \in ZombieChildrenOf(p) : ExitCollecting(p, code, f)
    BY DEF sys_exit, ExitRefused
  <1>5. ASSUME ZombieChildrenOf(p) = {} \/ state[init_pcb] # "WAITING",
               ExitOnly(p, code)
        PROVE  ExitEffect(p, code, NoPcb)
    <2>1. /\ ReportExit(p, code, state, ready, ret, wstat, stack, pool)
          /\ zombie' = QueueZombie(p, state, zombie)
      BY <1>5 DEF ExitOnly
    <2>2. ReportEffect(p, code, state, ret, wstat, zombie)
      BY <1>0, <1>2, <1>3, <2>1, ReportEffects
    <2>3. Told(p, NoPcb) <=> state[par] = "WAITING"
      BY DEF Told
    <2>4. QED BY <1>0, <1>1, <1>2, <1>5, <2>2, <2>3
              DEF ReportEffect, ExitEffect, Dispatched, Found
  <1>6. ASSUME state[init_pcb] = "WAITING",
               NEW f \in ZombieChildrenOf(p), ExitCollecting(p, code, f)
        PROVE  ExitEffect(p, code, f)
    <2> DEFINE s1 == [state EXCEPT ![init_pcb] = "READY"]
               st == [s1 EXCEPT ![f] = "UNUSED"]
               rq == schedule(ready, init_pcb, priority[init_pcb])
               rt == [ret EXCEPT ![init_pcb] = pid[f]]
               ws == [wstat EXCEPT ![init_pcb] = status[f]]
               sk == [stack EXCEPT ![f] = NULL]
               pl == ReleaseStack(pool, stack[f])
    <2>1. /\ f \in Slots /\ state[f] = "ZOMBIE" /\ f # p /\ f # NoPcb
          /\ pid[f] \in Int /\ status[f] \in Int
      BY SlotFacts, ProcsAssumption
         DEF ZombieChildrenOf, ChildrenOf, SchedInv, TypeOK
    <2>2. /\ ReportExit(p, code, st, rq, rt, ws, sk, pl)
          /\ \E i \in 1..Len(zombie) :
               /\ FirstEntry(zombie, f, i)
               /\ zombie' = QueueZombie(p, st, DropEntry(zombie, i))
      BY <1>6 DEF ExitCollecting
    <2>3. PICK zq \in Seq(Slots) :
            /\ Elements(zombie) \ {f} \subseteq Elements(zq)
            /\ zombie' = QueueZombie(p, st, zq)
      <3>1. PICK i \in 1..Len(zombie) :
              /\ FirstEntry(zombie, f, i)
              /\ zombie' = QueueZombie(p, st, DropEntry(zombie, i))
        BY <2>2
      <3>2. zombie[i] = f
        BY <3>1 DEF FirstEntry, IsFirst
      <3>3. /\ DropEntry(zombie, i) \in Seq(Slots)
            /\ Elements(zombie) \ {f} \subseteq Elements(DropEntry(zombie, i))
        BY <1>3, <3>2, DropElements
      <3>4. QED BY <3>1, <3>3
    <2>4. /\ rq \in [Prios -> Seq(Slots)] /\ s1 \in [Slots -> States]
          /\ ReadyMatches(rq, s1, priority)
      BY <1>0, <1>3, <1>6, ScheduleMatches DEF TypeOK, States
    <2>5. s1[f] # "READY"
      BY <1>3, <1>6, <2>1
    <2>6. st \in [Slots -> States] /\ ReadyMatches(rq, st, priority)
      BY <2>1, <2>4, <2>5, OtherStateMatches DEF States
    <2>7. /\ \A q \in Slots : st[q] = IF q = f THEN "UNUSED"
                                      ELSE IF q = init_pcb THEN "READY" ELSE state[q]
          /\ f # init_pcb /\ p # init_pcb
      BY <1>0, <1>3, <1>6, <2>1
    <2>8. /\ rt \in [Slots -> Int] /\ ws \in [Slots -> Int]
          /\ rt[init_pcb] = pid[f] /\ ws[init_pcb] = status[f]
      BY <1>3, <2>1
    <2> HIDE DEF s1, st, rq, rt, ws, sk, pl
    <2>9. PICK st0 \in [Slots -> States], rq0 \in [Prios -> Seq(Slots)],
               rt0 \in [Slots -> Int], ws0 \in [Slots -> Int] :
            st0 = st /\ rq0 = rq /\ rt0 = rt /\ ws0 = ws
      BY <2>4, <2>6, <2>8
    <2>10. /\ ReadyMatches(rq0, st0, priority) /\ st0[p] = "RUNNING"
           /\ ReportExit(p, code, st0, rq0, rt0, ws0, sk, pl)
           /\ zombie' = QueueZombie(p, st0, zq)
      BY <1>0, <2>1, <2>2, <2>3, <2>6, <2>7, <2>9
    <2>11. ReportEffect(p, code, st0, rt0, ws0, zq)
      BY <1>2, <1>3, <2>10, ReportEffects
    <2>12. Told(p, f) <=> st0[par] = "WAITING"
      BY <1>2, <2>1, <2>7, <2>9 DEF Told
    <2>13. st0[init_pcb] = "READY" /\ st0[f] = "UNUSED"
      BY <1>3, <2>1, <2>7, <2>9
    <2>14. /\ state'[f] = "UNUSED" /\ state'[init_pcb] \in {"READY", "RUNNING"}
           /\ ret'[init_pcb] = pid[f] /\ wstat'[init_pcb] = status[f]
      BY <1>3, <2>1, <2>7, <2>8, <2>9, <2>11, <2>13 DEF ReportEffect
    <2>15. Elements(zombie) \ {f} \subseteq Elements(zombie')
      BY <2>3, <2>11 DEF ReportEffect
    <2>16. \A q \in Slots \ {p, f} :
             q # init_pcb /\ ~(q = par /\ Told(p, f)) => Dispatched(q)
      BY <2>7, <2>9, <2>11, <2>12 DEF ReportEffect, Dispatched
    <2>17. Found(p)
      BY <2>11, <2>13, <1>3, <2>7 DEF ReportEffect, Found
    <2>18. QED BY <1>0, <1>1, <1>2, <1>6, <2>1, <2>11, <2>12, <2>14, <2>15, <2>16,
                  <2>17
               DEF ReportEffect, ExitEffect
  <1>7. \A f \in ZombieChildrenOf(p) : f \in Slots /\ f # NoPcb
    BY SlotFacts DEF ZombieChildrenOf, ChildrenOf
  <1>8. QED BY <1>4, <1>5, <1>6, <1>7 DEF ExitsBy

LEMMA ExitEffects ==
  ASSUME SchedInv, NEW p \in Slots, NEW code, NEW c,
         Traps(p, c), sys_exit(p, code)
  PROVE  \/ ExitRefused(p) /\ kpanic
         \/ \E f \in Slots \cup {NoPcb} : ExitEffect(p, code, f)
  BY ExitWays

-----------------------------------------------------------------------------
(* The process tree *)

\* Steps that leave the tree alone.
LEMMA KeepsFamilyInv ==
  ASSUME FamilyInv, KeepsFamily
  PROVE  FamilyInv'
  <1>1. \A q \in Slots : /\ state'[q] = "UNUSED" <=> state[q] = "UNUSED"
                         /\ state'[q] = "ZOMBIE" <=> state[q] = "ZOMBIE"
                         /\ state'[q] = "WAITING" <=> state[q] = "WAITING"
    BY DEF KeepsFamily, KeepsState, Active
  <1>2. UNCHANGED <<parent, pid, next_pid, zombie>>
    BY DEF KeepsFamily
  <1>3. InitIsRoot'
    BY <1>1, <1>2, SlotFacts DEF FamilyInv, InitIsRoot, Live
  <1>4. PidsUnique'
    BY <1>1, <1>2 DEF FamilyInv, PidsUnique
  <1>5. ZombiesQueued'
    BY <1>1, <1>2 DEF FamilyInv, ZombiesQueued
  <1>6. FamilyTree'
    BY <1>1, <1>2 DEF FamilyInv, FamilyTree, Live
  <1>7. NoLostWakeup'
    BY <1>1, <1>2 DEF FamilyInv, NoLostWakeup, Live
  <1>8. QED BY <1>3, <1>4, <1>5, <1>6, <1>7 DEF FamilyInv

\* sys_fork(): the new PID is larger than all others, and the PCB was nobody's
\* parent or child.
LEMMA ForkFamily ==
  ASSUME TypeOK, FamilyInv,
         NEW p \in Slots, NEW new \in Slots, ForkEffect(p, new)
  PROVE  FamilyInv'
  <1>1. /\ state[p] = "RUNNING" /\ state[new] = "UNUSED" /\ new # p
        /\ zombie' = zombie /\ next_pid' = next_pid + 1
        /\ \A q \in Slots :
             /\ state'[q] = IF q = new THEN "READY" ELSE state[q]
             /\ parent'[q] = IF q = new THEN p ELSE parent[q]
             /\ pid'[q] = IF q = new THEN next_pid ELSE pid[q]
    BY DEF ForkEffect, TypeOK
  <1>2. new # init_pcb /\ init_pcb \in Slots
    BY <1>1, SlotFacts DEF FamilyInv, InitIsRoot, Live
  <1>3. /\ next_pid \in Int /\ next_pid >= FIRST_USER_PID /\ FIRST_USER_PID = 2
        /\ \A q \in Slots : pid[q] \in Int
    BY ProcsAssumption DEF TypeOK, FIRST_USER_PID
  <1>4. \A q \in Slots : state[q] # "UNUSED" => pid[q] < next_pid
    BY <1>3 DEF FamilyInv, PidsUnique, InitIsRoot, PID_INIT
  <1>5. InitIsRoot'
    BY <1>1, <1>2 DEF FamilyInv, InitIsRoot, Live
  <1>6. PidsUnique'
    <2>1. \A q \in Slots \ {init_pcb} :
            state'[q] # "UNUSED" => pid'[q] >= FIRST_USER_PID /\ pid'[q] < next_pid'
      BY <1>1, <1>3 DEF FamilyInv, PidsUnique
    <2>2. \A q, r \in Slots :
            state'[q] # "UNUSED" /\ state'[r] # "UNUSED" /\ pid'[q] = pid'[r] => q = r
      BY <1>1, <1>3, <1>4 DEF FamilyInv, PidsUnique
    <2>3. QED BY <2>1, <2>2 DEF PidsUnique
  <1>7. ZombiesQueued'
    BY <1>1 DEF FamilyInv, ZombiesQueued
  <1>8. FamilyTree'
    <2>1. ASSUME NEW q \in Slots \ {init_pcb}, state'[q] # "UNUSED"
          PROVE  /\ parent'[q] \in Slots /\ Live(parent[q])' 
                 /\ pid'[parent'[q]] < pid'[q]
      <3>1. CASE q = new
        BY <1>1, <1>4, <3>1 DEF Live
      <3>2. CASE q # new
        <4>1. /\ parent[q] \in Slots /\ Live(parent[q])
              /\ pid[parent[q]] < pid[q]
          BY <1>1, <2>1, <3>2 DEF FamilyInv, FamilyTree
        <4>2. parent[q] # new
          BY <1>1, <4>1 DEF Live
        <4>3. QED BY <1>1, <3>2, <4>1, <4>2 DEF Live
      <3>3. QED BY <3>1, <3>2
    <2>2. QED BY <2>1 DEF FamilyTree
  <1>9. NoLostWakeup'
    <2>1. ASSUME NEW q \in Slots, state'[q] = "WAITING"
          PROVE  /\ \E c \in Slots \ {q} : parent'[c] = q /\ Live(c)'
                 /\ \A c \in Slots : parent'[c] = q => state'[c] # "ZOMBIE"
      <3>1. state[q] = "WAITING" /\ q # new /\ q # p
        BY <1>1, <2>1
      <3>2. PICK c \in Slots \ {q} : parent[c] = q /\ Live(c)
        BY <3>1 DEF FamilyInv, NoLostWakeup
      <3>3. c # new
        BY <1>1, <3>2 DEF Live
      <3>4. parent'[c] = q /\ Live(c)'
        BY <1>1, <3>2, <3>3 DEF Live
      <3>5. \A d \in Slots : parent[d] = q => state[d] # "ZOMBIE"
        BY <3>1 DEF FamilyInv, NoLostWakeup
      <3>6. QED BY <1>1, <3>1, <3>4, <3>5
    <2>2. QED BY <2>1 DEF NoLostWakeup
  <1>10. QED BY <1>5, <1>6, <1>7, <1>8, <1>9 DEF FamilyInv

\* sys_wait() frees a zombie, which is nobody's parent.
LEMMA CollectFamily ==
  ASSUME TypeOK, FamilyInv,
         NEW p \in Slots, NEW child \in Slots, CollectEffect(p, child)
  PROVE  FamilyInv'
  <1>1. /\ state[child] = "ZOMBIE"
        /\ \A q \in Slots : state'[q] = IF q = child THEN "UNUSED" ELSE state[q]
        /\ UNCHANGED <<parent, pid, next_pid, zombie>>
    BY DEF CollectEffect, ZombieChildrenOf, TypeOK
  <1>2. InitIsRoot'
    BY <1>1, SlotFacts DEF FamilyInv, InitIsRoot, Live
  <1>3. PidsUnique'
    BY <1>1 DEF FamilyInv, PidsUnique
  <1>4. ZombiesQueued'
    BY <1>1 DEF FamilyInv, ZombiesQueued
  <1>5. FamilyTree'
    <2>1. ASSUME NEW q \in Slots \ {init_pcb}, state'[q] # "UNUSED"
          PROVE  /\ parent'[q] \in Slots /\ Live(parent[q])' 
                 /\ pid'[parent'[q]] < pid'[q]
      <3>1. /\ parent[q] \in Slots /\ Live(parent[q]) /\ pid[parent[q]] < pid[q]
        BY <1>1, <2>1 DEF FamilyInv, FamilyTree
      <3>2. parent[q] # child
        BY <1>1, <3>1 DEF Live
      <3>3. QED BY <1>1, <3>1, <3>2 DEF Live
    <2>2. QED BY <2>1 DEF FamilyTree
  <1>6. NoLostWakeup'
    <2>1. ASSUME NEW q \in Slots, state'[q] = "WAITING"
          PROVE  /\ \E c \in Slots \ {q} : parent'[c] = q /\ Live(c)'
                 /\ \A c \in Slots : parent'[c] = q => state'[c] # "ZOMBIE"
      <3>1. state[q] = "WAITING"
        BY <1>1, <2>1
      <3>2. PICK c \in Slots \ {q} : parent[c] = q /\ Live(c)
        BY <3>1 DEF FamilyInv, NoLostWakeup
      <3>3. parent'[c] = q /\ Live(c)'
        BY <1>1, <3>2 DEF Live
      <3>4. \A d \in Slots : parent[d] = q => state[d] # "ZOMBIE"
        BY <3>1 DEF FamilyInv, NoLostWakeup
      <3>5. QED BY <1>1, <3>3, <3>4
    <2>2. QED BY <2>1 DEF NoLostWakeup
  <1>7. QED BY <1>2, <1>3, <1>4, <1>5, <1>6 DEF FamilyInv

\* sys_wait() blocks only with a child, none of which is a zombie.
LEMMA BlockFamily ==
  ASSUME TypeOK, FamilyInv, NEW p \in Slots, BlockEffect(p)
  PROVE  FamilyInv'
  <1>1. /\ state[p] = "RUNNING" /\ state'[p] = "WAITING"
        /\ \A q \in Slots \ {p} :
             /\ state'[q] = "UNUSED" <=> state[q] = "UNUSED"
             /\ state'[q] = "ZOMBIE" <=> state[q] = "ZOMBIE"
             /\ state'[q] = "WAITING" <=> state[q] = "WAITING"
        /\ UNCHANGED <<parent, pid, next_pid, zombie>>
    BY DEF BlockEffect, Dispatched
  <1>2. InitIsRoot'
    BY <1>1, SlotFacts DEF FamilyInv, InitIsRoot, Live
  <1>3. PidsUnique'
    BY <1>1 DEF FamilyInv, PidsUnique
  <1>4. ZombiesQueued'
    BY <1>1 DEF FamilyInv, ZombiesQueued
  <1>5. FamilyTree'
    BY <1>1 DEF FamilyInv, FamilyTree, Live
  <1>6. NoLostWakeup'
    <2>1. ASSUME NEW q \in Slots, state'[q] = "WAITING"
          PROVE  /\ \E c \in Slots \ {q} : parent'[c] = q /\ Live(c)'
                 /\ \A c \in Slots : parent'[c] = q => state'[c] # "ZOMBIE"
      <3>1. CASE q = p
        <4>1. PICK c \in Slots \ {p} : parent[c] = p /\ state[c] # "UNUSED"
          BY DEF BlockEffect, ChildrenOf
        <4>2. \A d \in Slots \ {p} : parent[d] = p => state[d] # "ZOMBIE"
          BY DEF BlockEffect, ZombieChildrenOf, ChildrenOf
        <4>3. QED BY <1>1, <3>1, <4>1, <4>2 DEF Live
      <3>2. CASE q # p
        <4>1. state[q] = "WAITING"
          BY <1>1, <2>1, <3>2
        <4>2. PICK c \in Slots \ {q} : parent[c] = q /\ Live(c)
          BY <4>1 DEF FamilyInv, NoLostWakeup
        <4>3. parent'[c] = q /\ Live(c)'
          BY <1>1, <4>2 DEF Live
        <4>4. \A d \in Slots : parent[d] = q => state[d] # "ZOMBIE"
          BY <4>1 DEF FamilyInv, NoLostWakeup
        <4>5. QED BY <1>1, <4>3, <4>4
      <3>3. QED BY <3>1, <3>2
    <2>2. QED BY <2>1 DEF NoLostWakeup
  <1>7. QED BY <1>2, <1>3, <1>4, <1>5, <1>6 DEF FamilyInv

\* sys_exit() gives the children to init, which is alive and older than they
\* are; a parent that waits is told, and init, if it is given a zombie while it
\* waits, is given it at once.
LEMMA ExitFamily ==
  ASSUME TypeOK, FamilyInv, NEW p \in Slots, p # init_pcb, NEW code,
         NEW f \in Slots \cup {NoPcb}, ExitEffect(p, code, f)
  PROVE  FamilyInv'
  <1> DEFINE par == parent[p]
  <1>1. /\ state[p] = "RUNNING" /\ par \in Slots /\ par # p
        /\ init_pcb \in Slots /\ NoPcb \notin Slots
        /\ UNCHANGED <<pid, next_pid>>
    BY SlotFacts DEF ExitEffect
  <1>2. /\ f # NoPcb => /\ f \in Slots /\ state[f] = "ZOMBIE" /\ parent[f] = p /\ f # p
                        /\ state[init_pcb] = "WAITING"
                        /\ state'[f] = "UNUSED"
                        /\ state'[init_pcb] \in {"READY", "RUNNING"}
        /\ f = NoPcb => ZombieChildrenOf(p) = {} \/ state[init_pcb] # "WAITING"
    BY DEF ExitEffect, ZombieChildrenOf, ChildrenOf
  <1>3. /\ state'[p] \in {"UNUSED", "ZOMBIE"}
        /\ state'[p] = "ZOMBIE" => ~Told(p, f) /\ p \in Elements(zombie')
        /\ Told(p, f) => /\ state[par] = "WAITING"
                         /\ state'[par] \in {"READY", "RUNNING"}
        /\ state[par] = "WAITING" /\ ~Told(p, f) => f # NoPcb /\ par = init_pcb
    BY DEF ExitEffect, Told
  <1>4. \A q \in Slots \ {p, f} :
          /\ state'[q] = "UNUSED" <=> state[q] = "UNUSED"
          /\ state'[q] = "ZOMBIE" <=> state[q] = "ZOMBIE"
          /\ state'[q] = "WAITING" => state[q] = "WAITING"
    <2>1. ASSUME NEW q \in Slots \ {p, f}
          PROVE  /\ state'[q] = "UNUSED" <=> state[q] = "UNUSED"
                 /\ state'[q] = "ZOMBIE" <=> state[q] = "ZOMBIE"
                 /\ state'[q] = "WAITING" => state[q] = "WAITING"
      <3>1. CASE q = init_pcb /\ f # NoPcb
        BY <1>2, <3>1
      <3>2. CASE q = par /\ Told(p, f)
        BY <1>3, <3>2
      <3>3. CASE ~(q = init_pcb /\ f # NoPcb) /\ ~(q = par /\ Told(p, f))
        <4>1. Dispatched(q)
          BY <3>3 DEF ExitEffect
        <4>2. QED BY <4>1 DEF Dispatched
      <3>4. QED BY <3>1, <3>2, <3>3
    <2>2. QED BY <2>1
  <1>5. \A q \in Slots :
          parent'[q] = IF q # p /\ parent[q] = p /\ state[q] # "UNUSED"
                       THEN init_pcb ELSE parent[q]
    BY DEF ExitEffect, ChildrenOf
  <1>6. \A q \in Slots : state'[q] # "UNUSED" => state[q] # "UNUSED" /\ q # f
    BY <1>1, <1>2, <1>4
  <1>7. Live(init_pcb)' /\ pid[init_pcb] = PID_INIT /\ InitIsRoot'
    BY <1>1, <1>2, <1>4, <1>5 DEF FamilyInv, InitIsRoot, Live
  <1>8. PidsUnique'
    BY <1>1, <1>6 DEF FamilyInv, PidsUnique
  <1>9. ZombiesQueued'
    <2>1. Elements(zombie) \ {f} \subseteq Elements(zombie')
      BY DEF ExitEffect
    <2>2. ASSUME NEW q \in Slots, state'[q] = "ZOMBIE"
          PROVE  q \in Elements(zombie')
      <3>1. CASE q = p
        BY <1>3, <2>2, <3>1
      <3>2. CASE q # p
        <4>1. q # f /\ state[q] = "ZOMBIE"
          BY <1>4, <1>6, <2>2, <3>2
        <4>2. QED BY <2>1, <4>1 DEF FamilyInv, ZombiesQueued
      <3>3. QED BY <3>1, <3>2
    <2>3. QED BY <2>2 DEF ZombiesQueued
  <1>10. FamilyTree'
    <2>1. ASSUME NEW q \in Slots \ {init_pcb}, state'[q] # "UNUSED"
          PROVE  /\ parent'[q] \in Slots /\ Live(parent[q])' 
                 /\ pid'[parent'[q]] < pid'[q]
      <3>1. /\ parent[q] \in Slots /\ Live(parent[q]) /\ pid[parent[q]] < pid[q]
            /\ pid[q] >= 2 /\ pid[q] \in Int
        <4>1. pid[q] \in Int
          BY ProcsAssumption DEF TypeOK
        <4>2. QED BY <1>6, <2>1, <4>1
                  DEF FamilyInv, FamilyTree, PidsUnique, FIRST_USER_PID
      <3>2. CASE parent'[q] = init_pcb
        <4>1. pid'[init_pcb] = 1 /\ 1 < pid'[q]
          BY <1>1, <1>7, <3>1 DEF PID_INIT
        <4>2. QED BY <1>1, <1>7, <3>2, <4>1 DEF Live
      <3>3. CASE parent'[q] # init_pcb
        <4>1. parent'[q] = parent[q] /\ parent[q] # p
          BY <1>1, <1>5, <1>6, <2>1, <3>3
        <4>2. parent[q] # f
          BY <1>1, <1>2, <3>1 DEF Live
        <4>3. Live(parent[q])'
          BY <1>4, <3>1, <4>1, <4>2 DEF Live
        <4>4. QED BY <1>1, <3>1, <4>1, <4>3
      <3>4. QED BY <3>2, <3>3
    <2>2. QED BY <2>1 DEF FamilyTree
  <1>11. NoLostWakeup'
    <2>1. ASSUME NEW q \in Slots, state'[q] = "WAITING"
          PROVE  /\ \E c \in Slots \ {q} : parent'[c] = q /\ Live(c)'
                 /\ \A c \in Slots : parent'[c] = q => state'[c] # "ZOMBIE"
      <3>1. /\ state[q] = "WAITING" /\ q # p /\ q # f
            /\ q = init_pcb => f = NoPcb
            /\ q = par => ~Told(p, f)
        BY <1>2, <1>3, <1>4, <1>6, <2>1
      <3>2. q # par
        BY <1>3, <3>1
      <3>3. PICK c \in Slots \ {q} : parent[c] = q /\ Live(c)
        BY <3>1 DEF FamilyInv, NoLostWakeup
      <3>4. c # p /\ c # f
        BY <1>1, <1>2, <3>2, <3>3 DEF Live
      <3>5. parent'[c] = q /\ Live(c)'
        BY <1>4, <1>5, <3>1, <3>3, <3>4 DEF Live
      <3>6. ASSUME NEW d \in Slots, parent'[d] = q
            PROVE  state'[d] # "ZOMBIE"
        <4>1. d # p
          BY <1>5, <3>2, <3>6
        <4>2. CASE parent[d] = q
          <5>1. state[d] # "ZOMBIE"
            BY <3>1, <4>2 DEF FamilyInv, NoLostWakeup
          <5>2. QED BY <1>1, <1>2, <1>4, <4>1, <5>1
        <4>3. CASE parent[d] # q
          <5>1. parent[d] = p /\ state[d] # "UNUSED" /\ q = init_pcb
            BY <1>5, <3>6, <4>3
          <5>2. ZombieChildrenOf(p) = {} /\ f = NoPcb
            BY <1>2, <3>1, <5>1
          <5>3. state[d] # "ZOMBIE"
            BY <4>1, <5>1, <5>2 DEF ZombieChildrenOf, ChildrenOf
          <5>4. QED BY <1>1, <1>4, <4>1, <5>2, <5>3
        <4>4. QED BY <4>2, <4>3
      <3>7. QED BY <3>5, <3>6
    <2>2. QED BY <2>1 DEF NoLostWakeup
  <1>12. QED BY <1>7, <1>8, <1>9, <1>10, <1>11 DEF FamilyInv

\* init only forks and waits, so it never ends.
LEMMA InitNeverEnds ==
  ASSUME NEW p, Traps(p, "exit") \/ Traps(p, "bogus")
  PROVE  p # init_pcb
  BY DEF Traps, Program, InitProgram

\* Every step of the running kernel has one of the effects, or halts it.
LEMMA StepEffects ==
  ASSUME SchedInv, Running, [Next]_vars
  PROVE  \/ Halts
         \/ KeepsFamily
         \/ \E p, new \in Slots : ForkEffect(p, new)
         \/ \E p, child \in Slots : CollectEffect(p, child)
         \/ \E p \in Slots : BlockEffect(p)
         \/ \E p \in Slots \ {init_pcb}, code \in Int, f \in Slots \cup {NoPcb} :
              ExitEffect(p, code, f)
  <1>1. CASE InitForks
    <2>1. CASE sys_fork_fails(init_pcb)
      BY <2>1, SlotFacts, ReturnKeeps DEF sys_fork_fails
    <2>3. ASSUME NEW h, NEW new \in Slots, sys_fork(init_pcb, new, h)
          PROVE  Halts \/ ForkEffect(init_pcb, new)
      BY <1>1, <2>3, SlotFacts, ForkEffects DEF InitForks
    <2>4. QED BY <1>1, <2>1, <2>3, SlotFacts DEF InitForks
  <1>2. ASSUME NEW p \in Slots, UserForks(p) \/ StrayForks(p)
        PROVE  \/ Halts \/ KeepsFamily
               \/ \E new \in Slots : ForkEffect(p, new)
    <2>1. CASE sys_fork_fails(p)
      BY <2>1, ReturnKeeps DEF sys_fork_fails
    <2>2. ASSUME NEW a, NEW new \in Slots, sys_fork(p, new, a)
          PROVE  Halts \/ ForkEffect(p, new)
      BY <1>2, <2>2, ForkEffects DEF UserForks, StrayForks
    <2>3. QED BY <1>2, <2>1, <2>2 DEF UserForks, StrayForks
  <1>3. ASSUME NEW p \in Slots, Exit(p) \/ Bogus(p)
        PROVE  \/ Halts
               \/ /\ p # init_pcb
                  /\ \E code \in Int, f \in Slots \cup {NoPcb} : ExitEffect(p, code, f)
    <2>1. p # init_pcb
      BY <1>3, InitNeverEnds DEF Exit, Bogus
    <2>2. PICK code \in Int : sys_exit(p, code)
      BY <1>3, ProcsAssumption DEF Exit, Bogus, S_BAD_SYSCALL
    <2>3. \E c : Traps(p, c)
      BY <1>3 DEF Exit, Bogus
    <2>4. kpanic \/ \E f \in Slots \cup {NoPcb} : ExitEffect(p, code, f)
      BY <2>2, <2>3, ExitEffects
    <2>5. QED BY <2>1, <2>4, HaltStops
  <1>4. ASSUME NEW p \in Slots, Wait(p)
        PROVE  \/ KeepsFamily
               \/ \E child \in Slots : CollectEffect(p, child)
               \/ BlockEffect(p)
    BY <1>4, WaitEffects, ReturnKeeps
  <1>5. ASSUME NEW p \in Slots, 
               \/ Exec(p) \/ Sleep(p) \/ GetPid(p) \/ GetTime(p) \/ GetPrio(p)
               \/ Read(p) \/ Write(p)
        PROVE  KeepsFamily \/ Halts
    BY <1>5, OtherCallsKeep, SleepKeeps, HaltStops DEF OutOfNodes
  <1>6. CASE clk_isr
    BY <1>6, ClockKeeps, HaltStops DEF OutOfNodes
  <1>7. CASE Halted \/ UNCHANGED vars
    BY <1>7 DEF Halted, Running, vars, KeepsFamily, KeepsState
  <1>8. ASSUME NEW p \in Slots, Syscall(p)
        PROVE  \/ Halts
               \/ KeepsFamily
               \/ \E new \in Slots : ForkEffect(p, new)
               \/ \E child \in Slots : CollectEffect(p, child)
               \/ BlockEffect(p)
               \/ /\ p # init_pcb
                  /\ \E code \in Int, f \in Slots \cup {NoPcb} : ExitEffect(p, code, f)
    <2>1. \/ Exit(p) \/ Bogus(p)
          \/ Wait(p)
          \/ UserForks(p) \/ StrayForks(p)
          \/ Exec(p) \/ Sleep(p) \/ GetPid(p) \/ GetTime(p) \/ GetPrio(p)
          \/ Read(p) \/ Write(p)
      BY <1>8 DEF Syscall
    <2>2. QED BY <2>1, <1>2, <1>3, <1>4, <1>5
  <1>9. \/ InitForks
        \/ \E p \in Slots : Syscall(p)
        \/ clk_isr
        \/ Halted \/ UNCHANGED vars
    BY DEF Next
  <1>10. QED BY <1>1, <1>6, <1>7, <1>8, <1>9

\* A halted kernel stays halted.
LEMMA HaltedStays ==
  ASSUME ~Running, TypeOK, [Next]_vars
  PROVE  UNCHANGED vars
  <1>1. mode \notin {"user", "clk"}
    BY DEF Running
  <1>2. ~InitForks /\ ~clk_isr
    BY <1>1 DEF InitForks, Traps, clk_isr, ClkTick, ClkWake, ClkContinue, ClkPreempt
  <1>3. \A p \in Slots : ~Syscall(p)
    BY <1>1 DEF Syscall, Exit, Bogus, Wait, UserForks, StrayForks, Exec, Sleep, GetPid,
                GetTime, GetPrio, Read, Write, Traps
  <1>4. QED BY <1>2, <1>3 DEF Next, Halted

LEMMA NextFamily ==
  ASSUME SchedInv, FamilyInv, [Next]_vars
  PROVE  FamilyInv'
  <1>1. CASE Running
    <2>1. TypeOK
      BY DEF SchedInv
    <2>2. CASE Halts
      BY <2>2, KeepsFamilyInv DEF Halts, KeepsFamily, KeepsState
    <2>3. CASE KeepsFamily
      BY <2>3, KeepsFamilyInv
    <2>4. CASE \E p, new \in Slots : ForkEffect(p, new)
      BY <2>1, <2>4, ForkFamily
    <2>5. CASE \E p, child \in Slots : CollectEffect(p, child)
      BY <2>1, <2>5, CollectFamily
    <2>6. CASE \E p \in Slots : BlockEffect(p)
      BY <2>1, <2>6, BlockFamily
    <2>7. CASE \E p \in Slots \ {init_pcb}, code \in Int, f \in Slots \cup {NoPcb} :
                 ExitEffect(p, code, f)
      BY <2>1, <2>7, ExitFamily
    <2>8. QED BY <1>1, <2>2, <2>3, <2>4, <2>5, <2>6, <2>7, StepEffects
  <1>2. CASE ~Running
    <2>1. KeepsFamily
      BY <1>2, HaltedStays DEF SchedInv, vars, KeepsFamily, KeepsState
    <2>2. QED BY <2>1, KeepsFamilyInv
  <1>3. QED BY <1>1, <1>2

LEMMA InitFamily ==
  ASSUME Init
  PROVE  FamilyInv
  <1>1. /\ init_pcb \in Slots
        /\ \A p \in Slots : state[p] = IF p = init_pcb THEN "RUNNING" ELSE "UNUSED"
        /\ parent[init_pcb] = init_pcb /\ pid[init_pcb] = PID_INIT
    BY SlotFacts DEF Init
  <1>2. QED BY <1>1 DEF FamilyInv, InitIsRoot, PidsUnique, ZombiesQueued,
                        FamilyTree, NoLostWakeup, Live

\* The inductive invariant of the process tree holds in every reachable state.
THEOREM FamilyInvariant == Spec => []FamilyInv
  BY InitFamily, NextFamily, SchedulerInvariant, PTL DEF Spec

\* Every zombie is in the zombie queue, whatever entries sys_wait() has left
\* behind there: que_remove_by() in sys_exit() always finds what it looks for.
THEOREM ZombiesFound == Spec => []ZombiesQueued
  <1>1. FamilyInv => ZombiesQueued
    BY DEF FamilyInv
  <1>2. QED BY <1>1, FamilyInvariant, PTL

\* The parent of every process in the table is alive and older: sys_exit()
\* always finds a parent to report to, and init is everybody's ancestor.
THEOREM TreeRooted == Spec => []FamilyTree
  <1>1. FamilyInv => FamilyTree
    BY DEF FamilyInv
  <1>2. QED BY <1>1, FamilyInvariant, PTL

\* Between sys_wait() and sys_exit() no wake-up is lost: whoever waits has a
\* child that may still exit, and none that already has.
THEOREM WakeupsKept == Spec => []NoLostWakeup
  <1>1. FamilyInv => NoLostWakeup
    BY DEF FamilyInv
  <1>2. QED BY <1>1, FamilyInvariant, PTL

\* What ReapReports says of one step.
Reported(c) ==
  /\ ret'[parent'[c]] = pid[c]
  /\ wstat'[parent'[c]] = status'[c]
  /\ state'[parent'[c]] \in {"READY", "RUNNING"}
  /\ c \in ChildrenOf(parent[c])

\* sys_exit() frees p, the zombie f it collects for init, or both; the parent
\* of p is then another process than init, which has been given f.
LEMMA ExitReports ==
  ASSUME SchedInv, NEW p \in Slots, NEW code \in Int,
         NEW f \in Slots \cup {NoPcb}, ExitEffect(p, code, f),
         NEW c \in Slots, state[c] # "UNUSED", state'[c] = "UNUSED"
  PROVE  Reported(c)
  <1>1. NoPcb \notin Slots /\ init_pcb \in Slots /\ state[p] = "RUNNING"
    BY SlotFacts DEF ExitEffect
  <1>2. /\ parent[p] \in Slots /\ parent[p] # p
        /\ \A q \in Slots : parent'[q] = IF q \in ChildrenOf(p) THEN init_pcb
                                        ELSE parent[q]
        /\ status' = [status EXCEPT ![p] = code]
        /\ status \in [Slots -> Int]
    BY DEF ExitEffect, SchedInv, TypeOK
  <1>3. CASE c = p
    <2>1. Told(p, f)
      BY <1>3 DEF ExitEffect
    <2>2. parent'[p] = parent[p]
      BY <1>2 DEF ChildrenOf
    <2>3. p \in ChildrenOf(parent[p])
      BY <1>1, <1>2 DEF ChildrenOf
    <2>4. status'[p] = code
      BY <1>2
    <2>5. QED BY <1>3, <2>1, <2>2, <2>3, <2>4 DEF ExitEffect, Reported
  <1>4. CASE c = f
    <2>1. f # NoPcb /\ f \in ZombieChildrenOf(p)
      BY <1>1, <1>4 DEF ExitEffect
    <2>2. f # p /\ parent[f] = p /\ f \in ChildrenOf(p)
      BY <2>1 DEF ZombieChildrenOf, ChildrenOf
    <2>3. parent'[f] = init_pcb /\ status'[f] = status[f]
      BY <1>2, <1>4, <2>2
    <2>4. QED BY <1>4, <2>1, <2>2, <2>3 DEF ExitEffect, Reported
  <1>5. CASE c \notin {p, f}
    <2>1. CASE c = init_pcb /\ f # NoPcb
      BY <2>1 DEF ExitEffect
    <2>2. CASE c = parent[p] /\ Told(p, f)
      BY <2>2 DEF ExitEffect
    <2>3. CASE ~(c = init_pcb /\ f # NoPcb) /\ ~(c = parent[p] /\ Told(p, f))
      <3>1. Dispatched(c)
        BY <1>5, <2>3 DEF ExitEffect
      <3>2. QED BY <3>1 DEF Dispatched
    <2>4. QED BY <2>1, <2>2, <2>3
  <1>6. QED BY <1>3, <1>4, <1>5

\* Every termination is reported, once and to the right process: a PCB is freed
\* only in the step that hands its PID and status to its parent.
THEOREM TerminationsReported == Spec => ReapReports
  <1> DEFINE Reaps == \A c \in Slots : state[c] # "UNUSED" /\ state'[c] = "UNUSED" =>
                        /\ ret'[parent'[c]] = pid[c]
                        /\ wstat'[parent'[c]] = status'[c]
                        /\ state'[parent'[c]] \in {"READY", "RUNNING"}
                        /\ c \in ChildrenOf(parent[c])
  <1>1. ASSUME SchedInv, [Next]_vars
        PROVE  [Reaps]_vars
    <2>1. SUFFICES ASSUME ~(UNCHANGED vars), NEW c \in Slots,
                          state[c] # "UNUSED", state'[c] = "UNUSED"
                   PROVE  Reported(c)
      BY DEF Reported
    <2>2. Running
      BY <1>1, <2>1, HaltedStays DEF SchedInv
    <2>3. CASE Halts
      BY <2>1, <2>3 DEF Halts
    <2>4. CASE KeepsFamily
      <3>1. KeepsState(c)
        BY <2>4 DEF KeepsFamily
      <3>2. QED BY <2>1, <3>1 DEF KeepsState, Active
    <2>5. CASE \E p, new \in Slots : ForkEffect(p, new)
      <3>1. PICK p, new \in Slots : ForkEffect(p, new)
        BY <2>5
      <3>2. state' = [state EXCEPT ![new] = "READY"] /\ state \in [Slots -> States]
        BY <1>1, <3>1 DEF ForkEffect, SchedInv, TypeOK
      <3>3. QED BY <2>1, <3>2
    <2>6. CASE \E p, child \in Slots : CollectEffect(p, child)
      <3>1. PICK p, child \in Slots : CollectEffect(p, child)
        BY <2>6
      <3>2. /\ state[p] = "RUNNING"
            /\ child # p /\ parent[child] = p /\ child \in ChildrenOf(p)
            /\ ret'[p] = pid[child] /\ wstat'[p] = status[child]
            /\ parent' = parent /\ status' = status
            /\ \A q \in Slots : state'[q] = IF q = child THEN "UNUSED" ELSE state[q]
        BY <1>1, <3>1 DEF CollectEffect, ZombieChildrenOf, ChildrenOf, SchedInv, TypeOK
      <3>3. c = child /\ state'[p] = "RUNNING"
        BY <2>1, <3>2
      <3>4. QED BY <3>2, <3>3 DEF Reported
    <2>7. CASE \E p \in Slots : BlockEffect(p)
      BY <2>1, <2>7 DEF BlockEffect, Dispatched
    <2>8. CASE \E p \in Slots \ {init_pcb}, code \in Int, f \in Slots \cup {NoPcb} :
                 ExitEffect(p, code, f)
      BY <1>1, <2>1, <2>8, ExitReports
    <2>9. QED BY <1>1, <2>2, <2>3, <2>4, <2>5, <2>6, <2>7, <2>8, StepEffects
  <1>2. QED BY <1>1, SchedulerInvariant, PTL DEF Spec, ReapReports

-----------------------------------------------------------------------------
(* Somebody to run *)

\* idle makes no call that ends it, blocks it or puts it to sleep, unless its
\* exec() has failed.
LEMMA IdleCalls ==
  ASSUME NEW p \in Slots \ {init_pcb}, pid[p] = IDLE_PID, strayed = 0,
         NEW c, Traps(p, c)
  PROVE  c \notin {"exit", "bogus", "wait", "sleep", "fork", "read"}
  BY DEF Traps, Program, IdleProgram

\* Whatever the others do, idle stays ready or running and keeps its PID.
LEMMA IdleStays ==
  ASSUME SchedInv, Running, [Next]_vars, NEW q \in Slots \ {init_pcb},
         pid[q] = IDLE_PID, state[q] \in {"READY", "RUNNING"}, strayed = 0
  PROVE  state'[q] \in {"READY", "RUNNING"} /\ pid'[q] = IDLE_PID
  <1>0. /\ state \in [Slots -> States] /\ pid \in [Slots -> 0..MaxPid]
        /\ NoPcb \notin Slots
    BY SlotFacts DEF SchedInv, TypeOK
  <1>1. pid'[q] = pid[q]
    <2>1. CASE \E p, new \in Slots : ForkEffect(p, new)
      <3>1. PICK p, new \in Slots : ForkEffect(p, new)
        BY <2>1
      <3>2. pid' = [pid EXCEPT ![new] = next_pid] /\ q # new
        BY <3>1 DEF ForkEffect
      <3>3. QED BY <1>0, <3>2
    <2>2. CASE ~ \E p, new \in Slots : ForkEffect(p, new)
      <3>1. pid' = pid
        BY <2>2, StepEffects
           DEF Halts, KeepsFamily, CollectEffect, BlockEffect, ExitEffect
      <3>2. QED BY <3>1
    <2>3. QED BY <2>1, <2>2
  <1>2. ASSUME NEW p \in Slots, Traps(p, "fork"),
               \/ sys_fork_fails(p)
               \/ \E new \in Slots, a \in Nat : sys_fork(p, new, a)
        PROVE  StaysRunnable(q)
    <2>1. CASE sys_fork_fails(p)
      BY <2>1, ReturnKeeps DEF sys_fork_fails
    <2>2. ASSUME NEW new \in Slots, NEW a \in Nat, sys_fork(p, new, a)
          PROVE  StaysRunnable(q)
      <3>1. CASE Halts
        BY <3>1 DEF Halts, StaysRunnable
      <3>2. CASE ForkEffect(p, new)
        BY <1>0, <3>2 DEF ForkEffect, StaysRunnable
      <3>3. QED BY <1>2, <2>2, <3>1, <3>2, ForkEffects
    <2>3. QED BY <1>2, <2>1, <2>2
  <1>3. CASE InitForks
    <2>1. PRIO_LOW \in Nat /\ InitPrios \subseteq Nat
      BY ProcsAssumption DEF Prios, PRIO_HIGH, PRIO_LOW
    <2>2. QED BY <1>1, <1>2, <1>3, <2>1, SlotFacts DEF InitForks, StaysRunnable
  <1>4. ASSUME NEW p \in Slots, Syscall(p)
        PROVE  StaysRunnable(q)
    <2>1. CASE UserForks(p)
      BY <1>2, <2>1, ProcsAssumption DEF UserForks
    <2>a. CASE StrayForks(p)
      BY <2>a, IdleCalls DEF StrayForks
    <2>2. CASE Exit(p) \/ Bogus(p)
      <3>1. p # q /\ \E c : Traps(p, c)
        BY <2>2, IdleCalls DEF Exit, Bogus
      <3>2. PICK code \in Int : sys_exit(p, code)
        BY <2>2, ProcsAssumption DEF Exit, Bogus, S_BAD_SYSCALL
      <3>3. CASE kpanic
        BY <3>3, HaltStops
      <3>4. ASSUME NEW f \in Slots \cup {NoPcb}, ExitEffect(p, code, f)
            PROVE  StaysRunnable(q)
        <4>1. q # f
          BY <1>0, <3>4 DEF ExitEffect, ZombieChildrenOf
        <4>2. CASE q = parent[p] /\ Told(p, f)
          BY <4>2, <3>4 DEF ExitEffect, StaysRunnable
        <4>3. CASE ~(q = parent[p] /\ Told(p, f))
          <5>1. Dispatched(q)
            BY <3>1, <3>4, <4>1, <4>3 DEF ExitEffect
          <5>2. QED BY <5>1 DEF Dispatched, StaysRunnable
        <4>4. QED BY <4>2, <4>3
      <3>5. QED BY <3>1, <3>2, <3>3, <3>4, ExitEffects
    <2>3. CASE Wait(p)
      <3>1. p # q
        BY <2>3, IdleCalls DEF Wait
      <3>2. CASE Return(p, S_NO_CHILD)
        BY <3>2, ReturnKeeps
      <3>3. CASE \E child \in Slots : CollectEffect(p, child)
        BY <1>0, <3>3 DEF CollectEffect, ZombieChildrenOf, StaysRunnable
      <3>4. CASE BlockEffect(p)
        BY <3>1, <3>4 DEF BlockEffect, Dispatched, StaysRunnable
      <3>5. QED BY <2>3, <3>2, <3>3, <3>4, WaitEffects
    <2>4. CASE Sleep(p)
      <3>1. p # q
        BY <2>4, IdleCalls DEF Sleep
      <3>2. QED BY <2>4, <3>1, SleepKeeps
    <2>5. CASE \/ Exec(p) \/ GetPid(p) \/ GetTime(p) \/ GetPrio(p)
               \/ Read(p) \/ Write(p)
      BY <2>5, OtherCallsKeep
    <2>6. QED BY <1>4, <2>1, <2>a, <2>2, <2>3, <2>4, <2>5 DEF Syscall
  <1>5. CASE clk_isr
    BY <1>1, <1>5, ClockKeeps DEF StaysRunnable
  <1>6. CASE Halted \/ UNCHANGED vars
    BY <1>1, <1>6 DEF Halted, vars
  <1>7. QED BY <1>1, <1>3, <1>4, <1>5, <1>6 DEF Next, StaysRunnable

\* While only init is there, it is init that runs, and it only forks.
LEMMA OnlyInitRuns ==
  ASSUME SchedInv, JustBooted, spawned = 0, NEW p \in Slots, NEW c, Traps(p, c)
  PROVE  p = init_pcb /\ c = "fork"
  <1>1. state[p] = "RUNNING"
    BY CallerFacts
  <1>2. p = init_pcb
    BY <1>1 DEF JustBooted
  <1>3. spawned < N_ENTRIES
    BY ProcsAssumption
  <1>4. QED BY <1>2, <1>3 DEF Traps, Program, InitProgram

\* No queue has an entry then, so que_alloc() has a qnode.
LEMMA BootedQueues ==
  ASSUME SchedInv, JustBooted, mode = "user", current = init_pcb
  PROVE  QnodeLeft
  <1>1. /\ ReadyMatches(ready, state, priority)
        /\ Elements(sleeping) = {q \in Slots : state[q] = "SLEEPING"}
        /\ state[init_pcb] = "RUNNING"
    BY SlotFacts DEF SchedInv, QueuesMatchStates, Running
  <1>2. \A q \in Slots : state[q] \notin {"READY", "SLEEPING"}
    BY <1>1 DEF JustBooted
  <1>3. ASSUME NEW t \in Seq(Slots), Elements(t) = {}
        PROVE  Len(t) = 0
    BY <1>3 DEF Elements
  <1>4. /\ \A h \in Prios : ready[h] \in Seq(Slots)
        /\ sleeping \in Seq(Slots)
        /\ PRIO_HIGH \in Prios /\ PRIO_STD \in Prios /\ PRIO_LOW \in Prios
    BY DEF SchedInv, TypeOK, Prios, PRIO_HIGH, PRIO_STD, PRIO_LOW
  <1>5. \A h \in Prios : Len(ready[h]) = 0
    <2>1. \A h \in Prios : Elements(ready[h]) = {}
      BY <1>1, <1>2 DEF ReadyMatches
    <2>2. QED BY <1>3, <1>4, <2>1
  <1>6. Len(sleeping) = 0
    BY <1>1, <1>2, <1>3, <1>4
  <1>7. Len(zombie) = 0
    BY DEF JustBooted
  <1>8. /\ Len(ready[PRIO_HIGH]) = 0 /\ Len(ready[PRIO_STD]) = 0
        /\ Len(ready[PRIO_LOW]) = 0
    BY <1>4, <1>5
  <1>9. QnodesUsed = 0
    BY <1>6, <1>7, <1>8 DEF QnodesUsed
  <1>10. QED BY <1>9, ProcsAssumption DEF QnodeLeft

\* The first fork() of init, for idle, finds a PCB, a stack and a qnode, writes
\* over nothing and has a legal priority.
LEMMA FirstFork ==
  ASSUME MaxStacks >= 3, SchedInv, JustBooted, spawned = 0, InitForks
  PROVE  IdleThere'
  <1>1. /\ init_pcb \in Slots /\ 1 \in Slots /\ 1 # init_pcb
        /\ state \in [Slots -> States] /\ pid \in [Slots -> 0..MaxPid]
    <2>1. 0 \in Slots /\ 1 \in Slots
      BY ProcsAssumption DEF Slots
    <2>2. state \in [Slots -> States] /\ pid \in [Slots -> 0..MaxPid]
      BY DEF SchedInv, TypeOK
    <2>3. QED BY <2>1, <2>2 DEF init_pcb
  <1>2. NextStack(pool) = 3 /\ NextStack(pool) # NULL
    BY MaxStacksAssumption DEF JustBooted, InitialPool, NextStack, NULL
  <1>3. ~sys_fork_fails(init_pcb)
    <2>1. state[1] = "UNUSED"
      BY <1>1 DEF JustBooted
    <2>2. QED BY <1>1, <1>2, <2>1 DEF sys_fork_fails
  <1>4. PICK new \in Slots : sys_fork(init_pcb, new, PRIO_LOW)
    BY <1>3 DEF InitForks
  <1>5. ~ForkCorrupts(init_pcb)
    <2>1. \A q \in Slots : Live(q) => q = init_pcb
      BY DEF JustBooted, Live
    <2>2. context[init_pcb] = 2 /\ stack[init_pcb] = 2
      BY DEF JustBooted, INIT_STACK
    <2>3. QED BY <1>2, <2>1, <2>2 DEF ForkCorrupts
  <1>6. PRIO_LOW % 256 = 2 /\ 2 # PRIO_INHERIT /\ 2 \in Prios
    BY DEF PRIO_LOW, PRIO_INHERIT, Prios, PRIO_HIGH
  <1>a. QnodeLeft
    BY BootedQueues DEF InitForks, Traps
  <1>7. /\ state' = [state EXCEPT ![new] = "READY"]
        /\ pid' = [pid EXCEPT ![new] = next_pid]
    BY <1>4, <1>5, <1>6, <1>a DEF sys_fork
  <1>8. new # init_pcb
    BY <1>4 DEF sys_fork, pcb_alloc, IsFirst, JustBooted
  <1>9. state'[new] = "READY" /\ pid'[new] = IDLE_PID
    BY <1>1, <1>7 DEF JustBooted, IDLE_PID
  <1>10. QED BY <1>8, <1>9 DEF IdleThere

LEMMA NextIdle ==
  ASSUME MaxStacks >= 3, SchedInv, IdleInv, [Next]_vars
  PROVE  IdleInv'
  <1>0. spawned \in Nat /\ strayed \in Nat /\ N_ENTRIES \in Nat
    BY ProcsAssumption DEF SchedInv, TypeOK
  <1>1. /\ spawned' = spawned \/ (InitForks /\ spawned' = spawned + 1)
        /\ strayed' \in {strayed, strayed + 1, 1}
    BY DEF Next, Syscall, Exit, Bogus, Wait, UserForks, StrayForks, Exec, Sleep,
           GetPid, GetTime, GetPrio, Read, Write, clk_isr, ClkTick, ClkWake,
           ClkContinue, ClkPreempt, Halted, vars, InitForks
  <1>2. CASE UNCHANGED vars
    BY <1>2 DEF vars, IdleInv, IdleThere, JustBooted
  <1>3. CASE spawned > 0 /\ ~UNCHANGED vars
    <2>1. spawned' > 0
      BY <1>0, <1>1, <1>3
    <2>2. SUFFICES ASSUME strayed' = 0
                   PROVE  IdleThere'
      BY <2>1 DEF IdleInv
    <2>3. strayed = 0
      BY <1>0, <1>1, <2>2
    <2>4. PICK q \in Slots \ {init_pcb} :
            pid[q] = IDLE_PID /\ state[q] \in {"READY", "RUNNING"}
      BY <1>3, <2>3 DEF IdleInv, IdleThere
    <2>5. Running
      BY <1>3, HaltedStays DEF SchedInv
    <2>6. state'[q] \in {"READY", "RUNNING"} /\ pid'[q] = IDLE_PID
      BY <2>3, <2>4, <2>5, IdleStays
    <2>7. QED BY <2>6 DEF IdleThere
  <1>4. CASE spawned = 0 /\ ~UNCHANGED vars
    <2>1. JustBooted /\ strayed = 0
      BY <1>4 DEF IdleInv
    <2>2. CASE InitForks
      <3>1. spawned' > 0
        BY <1>4, <2>2 DEF InitForks
      <3>2. QED BY <1>4, <2>1, <2>2, <3>1, FirstFork DEF IdleInv
    <2>3. \A p \in Slots : ~Syscall(p)
      BY <1>4, <2>1, OnlyInitRuns
         DEF Syscall, Exit, Bogus, Wait, UserForks, StrayForks, Exec, Sleep,
             GetPid, GetTime, GetPrio, Read, Write
    <2>4. CASE clk_isr
      <3>1. KeepsFamily /\ \A q \in Slots : StaysRunnable(q)
        BY <2>4, ClockKeeps DEF OutOfNodes, kpanic, pcbs, KeepsFamily, KeepsState
      <3>2. UNCHANGED <<stack, context, pool, spawned, strayed>>
        BY <2>4 DEF clk_isr, ClkTick, ClkWake, ClkContinue, ClkPreempt, kpanic, pcbs
      <3>3. \A s \in Slots \ {init_pcb} : state'[s] = "UNUSED"
        BY <2>1, <3>1 DEF JustBooted, KeepsFamily, KeepsState, Active
      <3>4. state'[init_pcb] \in {"READY", "RUNNING"}
        BY <2>1, <3>1, SlotFacts DEF JustBooted, StaysRunnable
      <3>5. next_pid' = next_pid /\ zombie' = zombie
        BY <3>1 DEF KeepsFamily
      <3>6. QED BY <1>4, <2>1, <3>2, <3>3, <3>4, <3>5 DEF IdleInv, JustBooted
    <2>5. CASE Halted
      BY <1>4, <2>5 DEF Halted
    <2>6. QED BY <1>4, <2>2, <2>3, <2>4, <2>5 DEF Next
  <1>5. QED BY <1>0, <1>2, <1>3, <1>4

LEMMA InitIdle ==
  ASSUME Init
  PROVE  IdleInv
  BY SlotFacts DEF Init, pcb_init, IdleInv, JustBooted

\* dispatch() always has somebody to run, if there are stacks for the kernel,
\* init and idle: from its fork on, idle is ready or running, until its exec()
\* should fail for want of one more stack.
THEOREM IdleAlwaysThere ==
  ASSUME MaxStacks >= 3
  PROVE  Spec => []AlwaysSomeoneToRun
  <1>1. SchedInv /\ IdleInv /\ [Next]_vars => IdleInv'
    BY NextIdle
  <1>2. IdleInv => AlwaysSomeoneToRun
    BY DEF IdleInv, JustBooted, IdleThere, AlwaysSomeoneToRun, IdleAvailable
  <1>3. QED BY <1>1, <1>2, InitIdle, SchedulerInvariant, PTL DEF Spec

-----------------------------------------------------------------------------
(* The assertions of the kernel *)

\* A workload whose calls the kernel does not answer with a failed assertion
\* by themselves: user processes fork with legal priorities, do not ask for the
\* priority of init and do not read.  (The three exceptions are sys_fork() by
\* way of schedule(), pcb_find_pid() and the read queue of sys_read().)
LegalWorkload ==
  /\ \A a \in PrioArgs : a % 256 \in Prios \cup {PRIO_INHERIT}
  /\ PID_INIT \notin PidArgs
  /\ "read" \notin Calls

\* Whoever calls exit(), wait() or sleep() leaves idle ready behind.
LEMMA IdleBehind ==
  ASSUME SchedInv, IdleInv, strayed = 0, NEW p \in Slots,
         NEW c \in {"exit", "bogus", "wait", "sleep"}, Traps(p, c)
  PROVE  \E q \in Slots \ {p} : state[q] = "READY"
  <1>1. spawned > 0 /\ IdleThere
    BY OnlyInitRuns DEF IdleInv
  <1>2. PICK q \in Slots \ {init_pcb} :
          pid[q] = IDLE_PID /\ state[q] \in {"READY", "RUNNING"}
    BY <1>1 DEF IdleThere
  <1>3. q # p
    BY <1>2, IdleCalls
  <1>4. state[q] # "RUNNING"
    BY <1>3, CallerFacts
  <1>5. QED BY <1>2, <1>3, <1>4

\* The assertions of sys_exit(): the parent is there, and so is the entry of
\* the zombie that is collected.
LEMMA ExitAssertions ==
  ASSUME SchedInv, FamilyInv, IdleInv, strayed = 0, NEW p \in Slots, NEW code,
         NEW c \in {"exit", "bogus"}, Traps(p, c), sys_exit(p, code)
  PROVE  mode' = "user" \/ OutOfNodes
  <1>1. Running /\ state[p] = "RUNNING"
    BY CallerFacts
  <1>2. p # init_pcb
    BY InitNeverEnds
  <1>3. /\ parent[p] \in Slots /\ Live(parent[p]) /\ pid[parent[p]] < pid[p]
    BY <1>1, <1>2 DEF FamilyInv, FamilyTree
  <1>4. parent[p] # p
    <2>1. pid[p] \in Int
      BY ProcsAssumption DEF SchedInv, TypeOK
    <2>2. QED BY <1>3, <2>1
  <1>5. \A f \in ZombieChildrenOf(p) : f \in Elements(zombie)
    BY <1>1 DEF FamilyInv, ZombiesQueued, ZombieChildrenOf, ChildrenOf
  <1>6. OutOfNodes \/ \E f \in Slots \cup {NoPcb} : ExitEffect(p, code, f)
    <2>1. ExitRefused(p) => ~QnodeLeft
      BY <1>3, <1>4, <1>5, SlotFacts DEF ExitRefused, Live
    <2>2. QED BY <2>1, ExitEffects DEF OutOfNodes
  <1>7. QED BY <1>6, IdleBehind DEF ExitEffect, Found

LEMMA NextPanics ==
  ASSUME LegalWorkload, MaxStacks >= 3, SchedInv, FamilyInv, IdleInv, OnlyExhaustionPanics,
         [Next]_vars
  PROVE  OnlyExhaustionPanics'
  <1> DEFINE Alright == mode' # "panic" \/ OutOfNodes
  <1>a. CASE strayed > 0
    <2>1. strayed' \in {strayed, strayed + 1, 1} /\ strayed \in Nat
      BY DEF Next, Syscall, Exit, Bogus, Wait, UserForks, StrayForks, Exec,
             Sleep, GetPid, GetTime, GetPrio, Read, Write, clk_isr, ClkTick,
             ClkWake, ClkContinue, ClkPreempt, Halted, vars, InitForks,
             SchedInv, TypeOK
    <2>2. QED BY <1>a, <2>1 DEF OnlyExhaustionPanics
  <1>b. CASE UNCHANGED vars
    BY <1>b DEF vars, OnlyExhaustionPanics, QnodeLeft, QnodesUsed
  <1>c. ASSUME OutOfNodes
        PROVE  OnlyExhaustionPanics'
    BY <1>c DEF OutOfNodes, kpanic, OnlyExhaustionPanics, QnodeLeft, QnodesUsed
  <1>d. SUFFICES ASSUME strayed = 0, ~UNCHANGED vars
                 PROVE  Alright
    <2>1. strayed \in Nat
      BY DEF SchedInv, TypeOK
    <2>2. QED BY <1>a, <1>b, <1>c, <1>d, <2>1 DEF OnlyExhaustionPanics
  <1>e. mode # "panic"
    BY <1>d, HaltedStays DEF SchedInv, Running
  <1>1. ASSUME NEW p \in Slots, NEW v, Return(p, v)
        PROVE  mode' # "panic"
    BY <1>1, <1>e DEF Return
  <1>2. ASSUME NEW p \in Slots, NEW new \in Slots, NEW a \in Nat,
               a % 256 \in Prios \cup {PRIO_INHERIT}, sys_fork(p, new, a)
        PROVE  Alright
    <2>1. priority[p] \in Prios
      BY DEF SchedInv, TypeOK
    <2>2. ASSUME Corrupt
          PROVE  mode' # "panic"
      BY <2>2 DEF Corrupt
    <2>3. QED BY <1>2, <1>e, <2>1, <2>2 DEF sys_fork, OutOfNodes
  <1>3. CASE InitForks
    <2>1. \A h \in Prios : h \in Nat /\ h % 256 = h
      BY DEF Prios, PRIO_HIGH, PRIO_LOW
    <2>2. PRIO_LOW \in Prios /\ InitPrios \subseteq Prios
      BY ProcsAssumption DEF Prios, PRIO_HIGH, PRIO_LOW
    <2>3. QED BY <1>1, <1>2, <1>3, <2>1, <2>2, SlotFacts DEF InitForks, sys_fork_fails
  <1>4. ASSUME NEW p \in Slots, Syscall(p)
        PROVE  Alright
    <2>1. CASE UserForks(p)
      BY <1>1, <1>2, <2>1, ProcsAssumption DEF UserForks, sys_fork_fails, LegalWorkload
    <2>a. CASE StrayForks(p)
      BY <1>d, <2>a, IdleCalls DEF StrayForks
    <2>2. CASE Exit(p) \/ Bogus(p)
      BY <1>d, <2>2, ExitAssertions DEF Exit, Bogus
    <2>3. CASE Wait(p)
      <3>1. CASE Return(p, S_NO_CHILD)
        BY <1>1, <3>1
      <3>2. CASE BlockEffect(p)
        BY <1>d, <2>3, <3>2, IdleBehind DEF Wait, BlockEffect, Found
      <3>3. CASE \E child \in Slots : CollectEffect(p, child)
        BY <1>e, <3>3 DEF CollectEffect
      <3>4. QED BY <2>3, <3>1, <3>2, <3>3, WaitEffects
    <2>4. CASE Sleep(p)
      BY <1>d, <2>4, IdleBehind, SleepKeeps DEF Sleep, Found
    <2>5. CASE Exec(p)
      <3>1. ASSUME Corrupt
            PROVE  mode' # "panic"
        BY <3>1 DEF Corrupt
      <3>2. QED BY <1>1, <1>e, <2>5, <3>1 DEF Exec, sys_exec
    <2>6. CASE GetPid(p) \/ GetTime(p) \/ Write(p)
      BY <1>1, <2>6 DEF GetPid, GetTime, Write, sys_getpid, sys_gettime, sys_write
    <2>7. CASE GetPrio(p)
      <3>1. PICK n \in Nat : n # PID_INIT /\ sys_getprio(p, n)
        BY <2>7, ProcsAssumption DEF GetPrio, LegalWorkload, PID_INIT
      <3>2. n = 0 \/ ~(n < FIRST_USER_PID)
        BY <3>1 DEF PID_INIT, FIRST_USER_PID
      <3>3. QED BY <1>1, <3>1, <3>2 DEF sys_getprio
    <2>8. CASE Read(p)
      BY <2>8 DEF Read, Traps, Program, LegalWorkload
    <2>9. QED BY <1>4, <2>1, <2>a, <2>2, <2>3, <2>4, <2>5, <2>6, <2>7, <2>8 DEF Syscall
  <1>5. CASE clk_isr
    BY <1>5, ClockKeeps
  <1>6. CASE Halted \/ UNCHANGED vars
    BY <1>d, <1>6 DEF Halted
  <1>7. QED BY <1>3, <1>4, <1>5, <1>6 DEF Next

\* The assertions of the kernel, for any table size, time slice, stack pool
\* with a stack for idle and any legal workload: sys_exit() finds the parent
\* and the zombie it collects, dispatch() finds a process, and an insertion
\* into a queue succeeds, unless all qnodes are in queues or idle's exec()
\* has failed.
THEOREM KernelPanicsOnlyExhausted ==
  ASSUME LegalWorkload, MaxStacks >= 3
  PROVE  Spec => []OnlyExhaustionPanics
  <1>1. SchedInv /\ FamilyInv /\ IdleInv /\ OnlyExhaustionPanics /\ [Next]_vars => OnlyExhaustionPanics'
    BY NextPanics
  <1>2. SchedInv /\ IdleInv /\ [Next]_vars => IdleInv'
    BY NextIdle
  <1>3. Init => OnlyExhaustionPanics
    BY DEF Init, OnlyExhaustionPanics
  <1>4. QED BY <1>1, <1>2, <1>3, InitIdle, SchedulerInvariant, FamilyInvariant, PTL
            DEF Spec

-----------------------------------------------------------------------------
(* Procs implements ProcSpec: to its processes the kernel with its table,  *)
(* queues, stacks and time slices is the fork(), exit() and wait() that    *)
(* ProcSpec describes.  Each effect is a step of ProcSpec or leaves what   *)
(* ProcSpec sees as it is.                                                 *)

\* PIDs identify the processes in the table: ParentPids gives, for the PID of a
\* process, the PID of its parent, which is in the table too.
TableView ==
  /\ DOMAIN ParentPids = {pid[s] : s \in InTable}
  /\ ParentPids = [n \in DOMAIN ParentPids |-> ParentPids[n]]
  /\ \A s \in InTable : ParentPids[pid[s]] = pid[parent[s]] /\ parent[s] \in InTable
  /\ \A s, t \in InTable : pid[s] = pid[t] => s = t

LEMMA TableSeen == SchedInv /\ FamilyInv => TableView
  <1> SUFFICES ASSUME SchedInv, FamilyInv
               PROVE  TableView
    OBVIOUS
  <1>1. \A s, t \in InTable : pid[s] = pid[t] => s = t
    BY DEF FamilyInv, PidsUnique, InTable
  <1>2. \A s \in InTable : SlotOf(pid[s]) = s
    BY <1>1 DEF SlotOf
  <1>3. \A s \in InTable : parent[s] \in InTable
    BY SlotFacts DEF FamilyInv, FamilyTree, InitIsRoot, InTable, Live
  <1>4. \A s \in InTable : ParentPids[pid[s]] = pid[parent[s]]
    BY <1>2 DEF ParentPids
  <1>5. /\ DOMAIN ParentPids = {pid[s] : s \in InTable}
        /\ ParentPids = [n \in DOMAIN ParentPids |-> ParentPids[n]]
    BY DEF ParentPids
  <1>6. QED BY <1>1, <1>3, <1>4, <1>5 DEF TableView

LEMMA TableSeenNext == SchedInv' /\ FamilyInv' => TableView'
  BY TableSeen, PTL

\* Waiting processes, zombies and their PIDs.
LEMMA PidsSeen ==
  ASSUME TableView, NEW s \in Slots
  PROVE  /\ state[s] = "WAITING" => pid[s] \in WaitingPids
         /\ state[s] = "ZOMBIE" => pid[s] \in ZombiePids
         /\ s \in InTable /\ pid[s] \in WaitingPids => state[s] = "WAITING"
         /\ s \in InTable /\ pid[s] \in ZombiePids => state[s] = "ZOMBIE"
  <1>1. ASSUME NEW t \in Slots, state[t] \in {"WAITING", "ZOMBIE"},
               s \in InTable, pid[s] = pid[t]
        PROVE  s = t
    BY <1>1 DEF TableView, InTable
  <1>2. QED BY <1>1 DEF WaitingPids, ZombiePids

\* Removing processes removes just their PIDs.
LEMMA PidsRemoved ==
  ASSUME TableView, NEW S \in SUBSET InTable, NEW T \in SUBSET InTable
  PROVE  {pid[s] : s \in S \ T} = {pid[s] : s \in S} \ {pid[s] : s \in T}
  <1>1. \A s \in S, t \in T : pid[s] = pid[t] => s = t
    BY DEF TableView
  <1>2. \A n : n \in {pid[s] : s \in S \ T} =>
               n \in {pid[s] : s \in S} \ {pid[s] : s \in T}
    BY <1>1
  <1>3. \A n : n \in {pid[s] : s \in S} \ {pid[s] : s \in T} =>
               n \in {pid[s] : s \in S \ T}
    OBVIOUS
  <1>4. QED BY <1>2, <1>3

LEMMA KeepsRefines ==
  ASSUME KeepsFamily
  PROVE  UNCHANGED <<ParentPids, WaitingPids, ZombiePids, next_pid>>
  <1>1. \A q \in Slots : /\ state'[q] = "UNUSED" <=> state[q] = "UNUSED"
                         /\ state'[q] = "ZOMBIE" <=> state[q] = "ZOMBIE"
                         /\ state'[q] = "WAITING" <=> state[q] = "WAITING"
    BY DEF KeepsFamily, KeepsState, Active
  <1>2. UNCHANGED <<parent, pid, next_pid>>
    BY DEF KeepsFamily
  <1>3. InTable' = InTable
    BY <1>1 DEF InTable
  <1>4. \A n : SlotOf(n)' = SlotOf(n)
    BY <1>2, <1>3 DEF SlotOf
  <1>5. ParentPids' = ParentPids
    BY <1>2, <1>3, <1>4 DEF ParentPids
  <1>6. WaitingPids' = WaitingPids /\ ZombiePids' = ZombiePids
    BY <1>1, <1>2 DEF WaitingPids, ZombiePids
  <1>7. QED BY <1>2, <1>5, <1>6

\* There are never more PIDs than PCBs in use; with one PCB unused there are
\* fewer than N_PROCS.
LEMMA RoomInTable ==
  ASSUME TableView, NEW new \in Slots, state[new] = "UNUSED"
  PROVE  Cardinality(DOMAIN ParentPids) < N_PROCS
  <1>1. N_PROCS \in Nat /\ N_PROCS >= 2
    BY ProcsAssumption
  <1>2. IsFiniteSet(Slots) /\ Cardinality(Slots) = N_PROCS
    <2>1. 0 \in Int /\ N_PROCS - 1 \in Int /\ ~(0 > N_PROCS - 1)
      BY <1>1
    <2>2. /\ IsFiniteSet(0..(N_PROCS - 1))
          /\ Cardinality(0..(N_PROCS - 1)) =
               IF 0 > N_PROCS - 1 THEN 0 ELSE (N_PROCS - 1) - 0 + 1
      BY <2>1, FS_Interval
    <2>3. QED BY <1>1, <2>1, <2>2 DEF Slots
  <1> DEFINE Used == Slots \ {new}
  <1>3. IsFiniteSet(Used) /\ Cardinality(Used) = N_PROCS - 1
    BY <1>2, FS_RemoveElement
  <1>4. InTable \in SUBSET Used
    BY DEF InTable
  <1>5. IsFiniteSet(InTable) /\ Cardinality(InTable) <= Cardinality(Used)
    BY <1>3, <1>4, FS_Subset
  <1> DEFINE T == DOMAIN ParentPids
             g == [s \in InTable |-> pid[s]]
  <1>6. g \in Surjection(InTable, T)
    BY DEF Surjection, TableView
  <1> HIDE DEF T, g, Used
  <1>7. IsFiniteSet(T) /\ Cardinality(T) <= Cardinality(InTable)
    BY <1>5, <1>6, FS_Surjection
  <1>8. Cardinality(T) \in Nat /\ Cardinality(InTable) \in Nat
    BY <1>5, <1>7, FS_CardinalityType
  <1>9. Cardinality(T) < N_PROCS
    BY <1>1, <1>3, <1>5, <1>7, <1>8
  <1>10. QED BY <1>9 DEF T

\* A running process is active.
LEMMA RunnerActive ==
  ASSUME TableView, NEW p \in Slots, state[p] = "RUNNING"
  PROVE  p \in InTable /\ pid[p] \in Family!Active
  <1>1. p \in InTable
    BY DEF InTable
  <1>2. pid[p] \notin WaitingPids /\ pid[p] \notin ZombiePids
    BY <1>1, PidsSeen
  <1>3. QED BY <1>1, <1>2 DEF Family!Active, Family!Table, TableView

\* sys_fork() is Fork.
LEMMA ForkRefines ==
  ASSUME TypeOK, TableView, TableView', NEW p \in Slots, NEW new \in Slots,
         ForkEffect(p, new), \A s \in InTable : pid[s] # next_pid
  PROVE  Family!Fork(pid[p])
  <1>1. /\ state[p] = "RUNNING" /\ state[new] = "UNUSED" /\ new # p
        /\ next_pid' = next_pid + 1
        /\ \A q \in Slots :
             /\ state'[q] = IF q = new THEN "READY" ELSE state[q]
             /\ parent'[q] = IF q = new THEN p ELSE parent[q]
             /\ pid'[q] = IF q = new THEN next_pid ELSE pid[q]
    BY DEF ForkEffect, TypeOK
  <1>2. /\ InTable' = InTable \cup {new} /\ new \notin InTable /\ p \in InTable
        /\ InTable \subseteq Slots
    BY <1>1 DEF InTable
  <1>3. pid[p] \in Family!Active
    BY <1>1, RunnerActive
  <1>4. Cardinality(DOMAIN ParentPids) < N_PROCS
    BY <1>1, RoomInTable
  <1>5. DOMAIN ParentPids' = DOMAIN ParentPids \cup {next_pid}
    BY <1>1, <1>2 DEF TableView
  <1> DEFINE After == [c \in DOMAIN ParentPids \cup {next_pid} |->
                         IF c = next_pid THEN pid[p] ELSE ParentPids[c]]
  <1>6. ASSUME NEW c \in DOMAIN ParentPids'
        PROVE  ParentPids'[c] = After[c]
    <2>1. PICK s \in InTable' : c = pid'[s]
      BY <1>6 DEF TableView
    <2>2. ParentPids'[c] = pid'[parent'[s]]
      BY <2>1 DEF TableView
    <2>3. CASE s = new
      <3>1. c = next_pid /\ pid'[parent'[s]] = pid[p]
        BY <1>1, <2>1, <2>3
      <3>2. QED BY <1>5, <2>2, <3>1
    <2>4. CASE s # new
      <3>1. s \in InTable /\ c = pid[s] /\ c # next_pid
        BY <1>1, <1>2, <2>1, <2>4
      <3>2. parent[s] \in InTable /\ ParentPids[c] = pid[parent[s]]
        BY <3>1 DEF TableView
      <3>3. pid'[parent'[s]] = pid[parent[s]]
        BY <1>1, <1>2, <2>4, <3>1, <3>2
      <3>4. QED BY <1>5, <1>6, <2>2, <3>1, <3>2, <3>3
    <2>5. QED BY <2>3, <2>4
  <1>7. ParentPids' = After
    <2>1. ParentPids' = [c \in DOMAIN ParentPids' |-> ParentPids'[c]]
      BY DEF TableView
    <2>2. QED BY <1>5, <1>6, <2>1
  <1>8. WaitingPids' = WaitingPids /\ ZombiePids' = ZombiePids
    <2>1. \A q \in Slots : /\ state'[q] = "WAITING" <=> state[q] = "WAITING"
                           /\ state'[q] = "ZOMBIE" <=> state[q] = "ZOMBIE"
                           /\ state[q] \in {"WAITING", "ZOMBIE"} => pid'[q] = pid[q]
      BY <1>1
    <2>2. QED BY <2>1 DEF WaitingPids, ZombiePids
  <1>9. UNCHANGED <<WaitingPids, ZombiePids>> /\ next_pid' = next_pid + 1
    BY <1>1, <1>8
  <1> HIDE DEF After
  <1>10. \A S : Family!Cardinality(S) = Cardinality(S)
    BY DEF Family!Cardinality, Cardinality, Family!IsFiniteSet, IsFiniteSet
  <1>11. QED BY <1>3, <1>4, <1>7, <1>9, <1>10 DEF Family!Fork, Family!Table, After

\* sys_wait() that collects a zombie is Collect.
LEMMA CollectRefines ==
  ASSUME TypeOK, TableView, TableView', NEW p \in Slots, NEW child \in Slots,
         CollectEffect(p, child)
  PROVE  pid[child] \in ZombiePids /\ Family!Collect(pid[p], pid[child])
  <1>1. /\ state[p] = "RUNNING" /\ state[child] = "ZOMBIE" /\ child # p
        /\ parent[child] = p
        /\ \A q \in Slots : state'[q] = IF q = child THEN "UNUSED" ELSE state[q]
        /\ UNCHANGED <<parent, pid, next_pid>>
    BY DEF CollectEffect, ZombieChildrenOf, ChildrenOf, TypeOK
  <1>2. /\ InTable' = InTable \ {child} /\ child \in InTable /\ p \in InTable
        /\ InTable \subseteq Slots
    BY <1>1 DEF InTable
  <1>3. pid[p] \in Family!Active /\ pid[child] \in ZombiePids /\ pid[child] # pid[p]
    BY <1>1, <1>2, RunnerActive, PidsSeen DEF TableView
  <1>4. pid[child] \in Family!Children(pid[p])
    BY <1>1, <1>2, <1>3 DEF Family!Children, Family!Table, TableView
  <1>5. DOMAIN ParentPids' = DOMAIN ParentPids \ {pid[child]}
    <2>1. DOMAIN ParentPids' = {pid[s] : s \in InTable \ {child}}
      BY <1>1, <1>2 DEF TableView
    <2>2. {pid[s] : s \in InTable \ {child}} =
            {pid[s] : s \in InTable} \ {pid[s] : s \in {child}}
      BY <1>2, PidsRemoved
    <2>3. {pid[s] : s \in {child}} = {pid[child]}
      OBVIOUS
    <2>4. DOMAIN ParentPids = {pid[s] : s \in InTable}
      BY DEF TableView
    <2>5. QED BY <2>1, <2>2, <2>3, <2>4
  <1>6. \A c \in DOMAIN ParentPids' : ParentPids'[c] = ParentPids[c]
    BY <1>1, <1>2 DEF TableView
  <1>7. ParentPids' = Family!Without(ParentPids, {pid[child]})
    <2>1. ParentPids' = [c \in DOMAIN ParentPids' |-> ParentPids'[c]]
      BY DEF TableView
    <2>2. QED BY <1>5, <1>6, <2>1 DEF Family!Without
  <1>8. WaitingPids' = WaitingPids
    BY <1>1 DEF WaitingPids
  <1>9. ZombiePids' = ZombiePids \ {pid[child]}
    <2>1. ZombiePids' = {pid[s] : s \in {q \in Slots : state[q] = "ZOMBIE"} \ {child}}
      BY <1>1 DEF ZombiePids
    <2> DEFINE Z == {q \in Slots : state[q] = "ZOMBIE"}
    <2>2. Z \subseteq InTable
      BY DEF InTable
    <2> HIDE DEF Z
    <2>3. {pid[s] : s \in Z \ {child}} = {pid[s] : s \in Z} \ {pid[s] : s \in {child}}
      BY <1>2, <2>2, PidsRemoved
    <2>4. QED BY <2>1, <2>3 DEF ZombiePids, Z
  <1>10. QED BY <1>1, <1>3, <1>4, <1>7, <1>8, <1>9 DEF Family!Collect

\* sys_wait() that finds only live children is Block.
LEMMA BlockRefines ==
  ASSUME TypeOK, TableView, NEW p \in Slots, BlockEffect(p)
  PROVE  Family!Block(pid[p])
  <1>1. /\ state[p] = "RUNNING" /\ state'[p] = "WAITING"
        /\ \A q \in Slots \ {p} :
             /\ state'[q] = "UNUSED" <=> state[q] = "UNUSED"
             /\ state'[q] = "ZOMBIE" <=> state[q] = "ZOMBIE"
             /\ state'[q] = "WAITING" <=> state[q] = "WAITING"
        /\ UNCHANGED <<parent, pid, next_pid>>
    BY DEF BlockEffect, Dispatched
  <1>2. InTable' = InTable /\ p \in InTable /\ InTable \subseteq Slots
    BY <1>1 DEF InTable
  <1>3. pid[p] \in Family!Active
    BY <1>1, RunnerActive
  <1>4. Family!Children(pid[p]) # {}
    <2>1. PICK c \in Slots : c # p /\ parent[c] = p /\ state[c] # "UNUSED"
      BY DEF BlockEffect, ChildrenOf
    <2>2. c \in InTable /\ pid[c] # pid[p] /\ ParentPids[pid[c]] = pid[p]
      BY <1>2, <2>1 DEF TableView, InTable
    <2>3. QED BY <2>2 DEF Family!Children, Family!Table, TableView
  <1>5. Family!Children(pid[p]) \cap ZombiePids = {}
    <2>1. SUFFICES ASSUME NEW c \in Family!Children(pid[p]), c \in ZombiePids
                   PROVE  FALSE
      OBVIOUS
    <2>2. PICK s \in Slots : state[s] = "ZOMBIE" /\ c = pid[s]
      BY <2>1 DEF ZombiePids
    <2>3. s \in InTable /\ ParentPids[c] = pid[parent[s]] /\ parent[s] \in InTable
      BY <2>2 DEF InTable, TableView
    <2>4. ParentPids[c] = pid[p]
      BY <2>1 DEF Family!Children
    <2>5. parent[s] = p
      BY <1>2, <2>3, <2>4 DEF TableView
    <2>6. s \in ZombieChildrenOf(p)
      BY <1>1, <2>2, <2>5 DEF ZombieChildrenOf, ChildrenOf
    <2>7. QED BY <2>6 DEF BlockEffect
  <1>6. ParentPids' = ParentPids
    <2>1. \A n : SlotOf(n)' = SlotOf(n)
      BY <1>1, <1>2 DEF SlotOf
    <2>2. QED BY <1>1, <1>2, <2>1 DEF ParentPids
  <1>7. WaitingPids' = WaitingPids \cup {pid[p]}
    BY <1>1 DEF WaitingPids
  <1>8. ZombiePids' = ZombiePids
    BY <1>1 DEF ZombiePids
  <1>9. QED BY <1>1, <1>3, <1>4, <1>5, <1>6, <1>7, <1>8 DEF Family!Block

\* sys_exit() is Exit: the processes it awakens are those that are due one, and
\* the zombies it frees are those that it gives them.
LEMMA ExitRefines ==
  ASSUME SchedInv, FamilyInv, TableView, TableView',
         NEW p \in Slots, NEW code, NEW f \in Slots \cup {NoPcb}, ExitEffect(p, code, f)
  PROVE  \E given \in Family!Deliveries(pid[p]) : Family!Exit(pid[p], given)
  <1> DEFINE Gone == {s \in Slots : s = f \/ (s = p /\ Told(p, f))}
             Woken == {s \in Slots : \/ s = init_pcb /\ f # NoPcb
                                     \/ s = parent[p] /\ Told(p, f)}
             Z == {q \in Slots : state[q] = "ZOMBIE"}
             W == {q \in Slots : state[q] = "WAITING"}
  <1>1. /\ NoPcb \notin Slots /\ init_pcb \in Slots
        /\ state[init_pcb] \notin {"UNUSED", "ZOMBIE"} /\ parent[init_pcb] = init_pcb
        /\ pid[init_pcb] = 1
    BY SlotFacts DEF FamilyInv, InitIsRoot, Live, PID_INIT
  <1>2. /\ state[p] = "RUNNING" /\ parent[p] \in Slots /\ parent[p] # p /\ p # init_pcb
        /\ f # NoPcb => /\ f \in Slots /\ f # p /\ parent[f] = p /\ state[f] = "ZOMBIE"
                        /\ state[init_pcb] = "WAITING"
        /\ f = NoPcb => ZombieChildrenOf(p) = {} \/ state[init_pcb] # "WAITING"
        /\ Told(p, f) => state[parent[p]] = "WAITING"
        /\ UNCHANGED <<pid, next_pid>>
    BY <1>1 DEF ExitEffect, Told, ZombieChildrenOf, ChildrenOf
  <1>3. \A q \in Slots : parent'[q] = IF q # p /\ parent[q] = p /\ state[q] # "UNUSED"
                                      THEN init_pcb ELSE parent[q]
    BY DEF ExitEffect, ChildrenOf
  <1>4. \A q \in Slots :
          /\ state'[q] = "UNUSED" <=> state[q] = "UNUSED" \/ q \in Gone
          /\ state'[q] = "ZOMBIE" <=> (state[q] = "ZOMBIE" \/ q = p) /\ q \notin Gone
          /\ state'[q] = "WAITING" <=> state[q] = "WAITING" /\ q \notin Woken
    BY <1>1, <1>2 DEF ExitEffect, Dispatched
  <1>5. /\ p \in InTable /\ Gone \in SUBSET InTable /\ Woken \in SUBSET W
        /\ Z \in SUBSET InTable /\ W \in SUBSET InTable
    BY <1>1, <1>2 DEF InTable
  <1>6. /\ InTable' = InTable \ Gone
        /\ WaitingPids = {pid[s] : s \in W} /\ ZombiePids = {pid[s] : s \in Z}
        /\ WaitingPids' = {pid[s] : s \in W \ Woken}
        /\ ZombiePids' = {pid[s] : s \in (Z \cup {p}) \ Gone}
    BY <1>2, <1>4 DEF InTable, WaitingPids, ZombiePids
  <1> DEFINE A == Family!Adopted(pid[p])
  <1>7. /\ DOMAIN A = {pid[s] : s \in InTable}
        /\ \A s \in InTable : A[pid[s]] = pid[parent'[s]] /\ parent'[s] \in InTable
    <2>1. DOMAIN A = {pid[s] : s \in InTable}
      BY DEF Family!Adopted, Family!Table, TableView
    <2>2. ASSUME NEW s \in InTable
          PROVE  A[pid[s]] = pid[parent'[s]] /\ parent'[s] \in InTable
      <3>1. /\ s \in Slots /\ state[s] # "UNUSED" /\ parent[s] \in InTable
            /\ pid[s] \in DOMAIN ParentPids /\ ParentPids[pid[s]] = pid[parent[s]]
        BY DEF TableView, InTable
      <3>2. pid[s] \in Family!Children(pid[p]) <=> s # p /\ parent[s] = p
        BY <1>5, <3>1 DEF Family!Children, Family!Table, TableView
      <3>3. A[pid[s]] = IF pid[s] \in Family!Children(pid[p]) THEN 1 ELSE pid[parent[s]]
        BY <3>1 DEF Family!Adopted, Family!Table, Family!INIT
      <3>4. parent'[s] = IF s # p /\ parent[s] = p THEN init_pcb ELSE parent[s]
        BY <1>3, <3>1
      <3>5. init_pcb \in InTable
        BY <1>1 DEF InTable
      <3>6. QED BY <1>1, <3>1, <3>2, <3>3, <3>4, <3>5
    <2>3. QED BY <2>1, <2>2
  <1> HIDE DEF A
  <1> DEFINE Ended == ZombiePids \cup {pid[p]}
             Owed == {w \in WaitingPids : \E c \in Ended : A[c] = w}
  <1>8. \A s, t \in InTable : pid[s] = pid[t] => s = t
    BY DEF TableView
  <1>9. ASSUME NEW s \in W, NEW k \in Z \cup {p}, A[pid[k]] = pid[s]
        PROVE  s \in Woken
    <2>1. k \in InTable /\ s \in InTable /\ k \in Slots /\ s \in Slots
          /\ state[s] = "WAITING" /\ state[k] # "UNUSED"
      BY <1>5, <1>9 DEF InTable
    <2>2. parent'[k] = s
      BY <1>7, <1>8, <1>9, <2>1
    <2>3. CASE k = p
      BY <1>2, <1>3, <2>1, <2>2, <2>3 DEF Told
    <2>4. CASE k # p /\ parent[k] = p
      <3>1. s = init_pcb /\ state[k] = "ZOMBIE"
        BY <1>3, <2>1, <2>2, <2>4
      <3>2. k \in ZombieChildrenOf(p)
        BY <2>1, <2>4, <3>1 DEF ZombieChildrenOf, ChildrenOf
      <3>3. QED BY <1>2, <2>1, <3>1, <3>2
    <2>5. CASE k # p /\ parent[k] # p
      <3>1. parent[k] = s /\ state[k] = "ZOMBIE"
        BY <1>3, <2>1, <2>2, <2>5
      <3>2. QED BY <2>1, <3>1 DEF FamilyInv, NoLostWakeup
    <2>6. QED BY <2>3, <2>4, <2>5
  <1> DEFINE gift(s) == IF f # NoPcb /\ s = init_pcb THEN f ELSE p
  <1>10. ASSUME NEW s \in Woken
         PROVE  /\ s \in W /\ gift(s) \in Z \cup {p} /\ gift(s) \in InTable
                /\ gift(s) \in Gone /\ A[pid[gift(s)]] = pid[s]
    <2>1. s \in W /\ gift(s) \in Z \cup {p} /\ gift(s) \in Gone
      BY <1>2, <1>5
    <2>2. gift(s) \in InTable
      BY <1>5, <2>1
    <2>3. parent'[gift(s)] = s
      BY <1>2, <1>3
    <2>4. QED BY <1>7, <2>1, <2>2, <2>3
  <1>11. \A g \in Gone : \E s \in Woken : gift(s) = g
    BY <1>1, <1>2 DEF Told
  <1> HIDE DEF Gone, Woken, Z, W, gift
  <1>12. Owed = {pid[s] : s \in Woken}
    <2>1. ASSUME NEW w \in Owed
          PROVE  w \in {pid[s] : s \in Woken}
      <3>1. PICK s \in W : w = pid[s]
        BY <1>6
      <3>2. PICK k \in Z \cup {p} : A[pid[k]] = w
        BY <1>6
      <3>3. QED BY <1>9, <3>1, <3>2
    <2>2. ASSUME NEW s \in Woken
          PROVE  pid[s] \in Owed
      <3>1. pid[gift(s)] \in Ended
        BY <1>6, <1>10
      <3>2. QED BY <1>6, <1>10, <3>1
    <2>3. QED BY <2>1, <2>2
  <1> DEFINE slot(w) == CHOOSE s \in Woken : pid[s] = w
             given == [w \in Owed |-> pid[gift(slot(w))]]
  <1>13. \A s \in Woken : slot(pid[s]) = s
    BY <1>5, <1>8
  <1>14. \A s \in Woken : pid[s] \in Owed /\ given[pid[s]] = pid[gift(s)]
    BY <1>12, <1>13
  <1>15. DOMAIN given = Owed
    OBVIOUS
  <1> HIDE DEF slot, Owed
  <1>16. \A w \in Owed : given[w] \in Ended /\ A[given[w]] = w
    <2>1. SUFFICES ASSUME NEW s \in Woken
                   PROVE  given[pid[s]] \in Ended /\ A[given[pid[s]]] = pid[s]
      BY <1>12
    <2>2. QED BY <1>6, <1>10, <1>14
  <1>17. given \in Family!Deliveries(pid[p])
    <2>1. given \in [Owed -> Ended]
      BY <1>16
    <2>2. QED BY <1>16, <2>1 DEF Family!Deliveries, A, Owed
  <1>18. {given[w] : w \in DOMAIN given} = {pid[g] : g \in Gone}
    <2>1. ASSUME NEW w \in Owed
          PROVE  given[w] \in {pid[g] : g \in Gone}
      <3>1. PICK s \in Woken : w = pid[s]
        BY <1>12
      <3>2. QED BY <1>10, <1>14, <3>1
    <2>2. ASSUME NEW g \in Gone
          PROVE  pid[g] \in {given[w] : w \in Owed}
      <3>1. PICK s \in Woken : gift(s) = g
        BY <1>11
      <3>2. QED BY <1>14, <3>1
    <2>3. QED BY <1>15, <2>1, <2>2
  <1> HIDE DEF given
  <1> DEFINE G == {pid[g] : g \in Gone}
  <1>19. ParentPids' = Family!Without(A, G)
    <2>1. DOMAIN ParentPids' = {pid[s] : s \in InTable \ Gone}
      BY <1>2, <1>6 DEF TableView
    <2>2. DOMAIN ParentPids' = DOMAIN A \ G
      <3>1. InTable \in SUBSET InTable
        OBVIOUS
      <3>2. {pid[s] : s \in InTable \ Gone} = {pid[s] : s \in InTable} \ G
        BY <1>5, <3>1, PidsRemoved
      <3>3. QED BY <1>7, <2>1, <3>2
    <2>3. ASSUME NEW c \in DOMAIN ParentPids'
          PROVE  ParentPids'[c] = A[c]
      <3>1. PICK s \in InTable \ Gone : c = pid[s]
        BY <2>1
      <3>2. ParentPids'[c] = pid[parent'[s]]
        BY <1>2, <1>6, <3>1 DEF TableView
      <3>3. QED BY <1>7, <3>1, <3>2
    <2>4. ParentPids' = [c \in DOMAIN ParentPids' |-> ParentPids'[c]]
      BY DEF TableView
    <2>5. QED BY <2>2, <2>3, <2>4 DEF Family!Without
  <1>20. ZombiePids' = Ended \ G
    <2>1. Z \cup {p} \in SUBSET InTable
      BY <1>5
    <2>2. {pid[s] : s \in (Z \cup {p}) \ Gone} = {pid[s] : s \in Z \cup {p}} \ G
      BY <1>5, <2>1, PidsRemoved
    <2>3. {pid[s] : s \in Z \cup {p}} = Ended
      BY <1>6
    <2>4. QED BY <1>6, <2>2, <2>3
  <1>21. WaitingPids' = WaitingPids \ Owed
    <2>1. Woken \in SUBSET InTable
      BY <1>5
    <2>2. {pid[s] : s \in W \ Woken} = {pid[s] : s \in W} \ {pid[s] : s \in Woken}
      BY <1>5, <2>1, PidsRemoved
    <2>3. QED BY <1>6, <1>12, <2>2
  <1>22. pid[p] \in Family!Active \ {Family!INIT}
    <2>1. pid[p] \in Family!Active
      BY <1>2, RunnerActive
    <2>2. pid[p] # 1
      BY <1>1, <1>2, <1>5, <1>8 DEF InTable
    <2>3. QED BY <2>1, <2>2 DEF Family!INIT
  <1>23. Family!Exit(pid[p], given)
    BY <1>2, <1>15, <1>18, <1>19, <1>20, <1>21, <1>22 DEF Family!Exit, A
  <1>24. QED BY <1>17, <1>23

-----------------------------------------------------------------------------
(* Every step *)

LEMMA InitRefines ==
  ASSUME Init
  PROVE  Family!Init
  <1>1. /\ init_pcb \in Slots
        /\ \A q \in Slots : state[q] = IF q = init_pcb THEN "RUNNING" ELSE "UNUSED"
        /\ parent[init_pcb] = init_pcb /\ pid[init_pcb] = 1 /\ next_pid = 2
    BY SlotFacts DEF Init, pcb_init, PID_INIT, FIRST_USER_PID
  <1>2. InTable = {init_pcb}
    BY <1>1 DEF InTable
  <1>3. WaitingPids = {} /\ ZombiePids = {}
    BY <1>1 DEF WaitingPids, ZombiePids
  <1>4. SlotOf(1) = init_pcb
    BY <1>1, <1>2 DEF SlotOf
  <1>5. {pid[s] : s \in InTable} = {1}
    BY <1>1, <1>2
  <1>6. ParentPids = [n \in {1} |-> 1]
    <2>1. \A n \in {1} : pid[parent[SlotOf(n)]] = 1
      BY <1>1, <1>4
    <2>2. QED BY <1>5, <2>1 DEF ParentPids
  <1>7. QED BY <1>1, <1>3, <1>6 DEF Family!Init, Family!INIT

LEMMA StepRefines ==
  ASSUME SchedInv, FamilyInv, SchedInv', FamilyInv', [Next]_vars
  PROVE  [Family!Next]_(Family!procs)
  <1> USE TableSeen, TableSeenNext
  <1>1. TypeOK /\ TableView /\ TableView'
    BY DEF SchedInv
  <1>2. ASSUME KeepsFamily
        PROVE  UNCHANGED Family!procs
    BY <1>2, KeepsRefines DEF Family!procs
  <1>3. CASE ~Running
    <2>1. UNCHANGED vars
      BY <1>1, <1>3, HaltedStays
    <2>2. KeepsFamily
      BY <2>1 DEF vars, pcbs, KeepsFamily, KeepsState
    <2>3. QED BY <1>2, <2>2
  <1>4. CASE Halts
    <2>1. KeepsFamily
      BY <1>4 DEF Halts, KeepsFamily, KeepsState
    <2>2. QED BY <1>2, <2>1
  <1>5. ASSUME NEW p \in Slots, state[p] = "RUNNING"
        PROVE  pid[p] \in Family!Table
    BY <1>1, <1>5, RunnerActive DEF Family!Active
  <1>6. ASSUME NEW p \in Slots, NEW new \in Slots, ForkEffect(p, new)
        PROVE  Family!Next
    <2>1. ASSUME NEW s \in InTable
          PROVE  pid[s] # next_pid
      <3>1. s \in Slots /\ state[s] # "UNUSED"
        BY DEF InTable
      <3>2. next_pid >= 2 /\ next_pid \in Int /\ pid[s] \in Int
        BY <1>1, <3>1 DEF TypeOK, FIRST_USER_PID
      <3>3. CASE s = init_pcb
        BY <3>2, <3>3 DEF FamilyInv, InitIsRoot, PID_INIT
      <3>4. CASE s # init_pcb
        <4>1. pid[s] < next_pid
          BY <3>1, <3>4 DEF FamilyInv, PidsUnique
        <4>2. QED BY <3>2, <4>1
      <3>5. QED BY <3>3, <3>4
    <2>2. Family!Fork(pid[p])
      BY <1>1, <1>6, <2>1, ForkRefines
    <2>3. pid[p] \in Family!Table
      BY <1>5, <1>6 DEF ForkEffect
    <2>4. QED BY <2>2, <2>3 DEF Family!Next
  <1>7. ASSUME NEW p \in Slots, NEW child \in Slots, CollectEffect(p, child)
        PROVE  Family!Next
    <2>1. pid[child] \in ZombiePids /\ Family!Collect(pid[p], pid[child])
      BY <1>1, <1>7, CollectRefines
    <2>2. pid[p] \in Family!Table
      BY <1>5, <1>7 DEF CollectEffect
    <2>3. QED BY <2>1, <2>2 DEF Family!Next
  <1>8. ASSUME NEW p \in Slots, BlockEffect(p)
        PROVE  Family!Next
    <2>1. Family!Block(pid[p])
      BY <1>1, <1>8, BlockRefines
    <2>2. pid[p] \in Family!Table
      BY <1>5, <1>8 DEF BlockEffect
    <2>3. QED BY <2>1, <2>2 DEF Family!Next
  <1>9. ASSUME NEW p \in Slots, NEW code \in Int, NEW f \in Slots \cup {NoPcb},
               ExitEffect(p, code, f)
        PROVE  Family!Next
    <2>1. \E given \in Family!Deliveries(pid[p]) : Family!Exit(pid[p], given)
      BY <1>1, <1>9, ExitRefines
    <2>2. pid[p] \in Family!Table
      BY <1>5, <1>9 DEF ExitEffect
    <2>3. QED BY <2>1, <2>2 DEF Family!Next
  <1>10. CASE Running
    BY <1>2, <1>4, <1>6, <1>7, <1>8, <1>9, <1>10, StepEffects
  <1>11. QED BY <1>3, <1>10

\* The kernel's fork(), exit() and wait(), with their table of N_PROCS PCBs,
\* the zombie queue, reparenting and the two hand-overs of sys_exit(), keep
\* the promise that ProcSpec states.
THEOREM KernelImplementsProcSpec == Spec => ImplementsProcSpec
  BY InitRefines, StepRefines, SchedulerInvariant, FamilyInvariant, PTL
     DEF Spec, ImplementsProcSpec, Family!Spec

-----------------------------------------------------------------------------
(* Part 3: the stacks *)

-----------------------------------------------------------------------------
(* The free list *)

\* A non-empty set of numbers has a least one.
LEMMA LeastNumber ==
  ASSUME NEW T, T \subseteq Nat, T # {}
  PROVE  \E x \in T : \A y \in T : x <= y
  <1>1. PICK x \in T : \A y \in T : ~ (<<y, x>> \in OpToRel(<, Nat))
    BY NatLessThanWellFounded, WFMin, Zenon
  <1>2. \A y \in T : ~(y < x)
    BY <1>1 DEF OpToRel
  <1> QED  BY <1>2

\* The constants of the stack pool.
LEMMA StackFacts ==
  /\ MaxStacks \in Nat /\ StackIds = 1..MaxStacks /\ NULL = 0 /\ NULL \notin StackIds
  /\ KERNEL_STACK = 1 /\ IsFiniteSet(StackIds) /\ Cardinality(StackIds) = MaxStacks
  <1>1. MaxStacks \in Nat /\ MaxStacks >= 2
    BY MaxStacksAssumption
  <1> QED  BY <1>1, FS_Interval DEF StackIds, NULL, KERNEL_STACK

\* l are the n free stacks of the pool pl, from its head along the links.
Threaded(l, n, pl) ==
  /\ l \in [Nat -> StackIds \cup {NULL}] /\ n \in Nat
  /\ l[0] = pl.head
  /\ \A i \in Nat : l[i] = NULL <=> i >= n
  /\ \A i \in Nat : i < n => pl.link[l[i]] = l[i + 1]
  /\ \A i, j \in Nat : i < n /\ j < n /\ l[i] = l[j] => i = j

\* What FreeList is said to be.
FollowLink == [s \in StackIds \cup {NULL} |-> IF s = NULL THEN NULL ELSE pool.link[s]]
Links(w) == [n \in 0..MaxStacks |-> IF n = 0 THEN pool.head ELSE FollowLink[w[n - 1]]]
IsList(w) == w = Links(w)

LEMMA LinksAre ==
  ASSUME NEW w
  PROVE  /\ Links(w)[0] = pool.head
         /\ \A i \in 0..MaxStacks : i # 0 => Links(w)[i] = FollowLink[w[i - 1]]
  BY StackFacts DEF Links

\* A walk along the links meets the free stacks, by the least index at which
\* it would not.
LEMMA OneList ==
  ASSUME NEW l, NEW n, Threaded(l, n, pool), NEW w, IsList(w)
  PROVE  \A i \in 0..MaxStacks : w[i] = l[i]
  <1> DEFINE T == {i \in 0..MaxStacks : w[i] # l[i]}
  <1>1. SUFFICES ASSUME T # {} PROVE FALSE
    BY <1>1
  <1>2. T \subseteq Nat
    BY StackFacts
  <1>3. PICK x \in T : \A y \in T : x <= y
    BY <1>1, <1>2, LeastNumber
  <1>4. x \in 0..MaxStacks /\ w[x] # l[x]
    BY <1>3
  <1>5. w[0] = pool.head /\ \A i \in 0..MaxStacks : i # 0 => w[i] = FollowLink[w[i - 1]]
    BY LinksAre DEF IsList
  <1>6. x # 0 /\ x - 1 \in 0..MaxStacks /\ x - 1 \in Nat
    BY <1>4, <1>5, StackFacts DEF Threaded
  <1>7. w[x - 1] = l[x - 1]
    BY <1>3, <1>6, <1>4
  <1>8. l[x - 1] \in StackIds \cup {NULL}
        /\ l[x] = IF l[x - 1] = NULL THEN NULL ELSE pool.link[l[x - 1]]
    <2>1. (x - 1) + 1 = x /\ x \in Nat
      BY <1>6, <1>4, StackFacts
    <2>2. /\ l[x - 1] = NULL <=> x - 1 >= n
          /\ l[x] = NULL <=> x >= n
          /\ x - 1 < n => pool.link[l[x - 1]] = l[x]
      BY <2>1, <1>6 DEF Threaded
    <2>3. l[x - 1] \in StackIds \cup {NULL} /\ n \in Nat
      BY <1>6 DEF Threaded
    <2> QED  BY <2>1, <2>2, <2>3, <1>6
  <1>9. w[x] = l[x]
    BY <1>5, <1>6, <1>7, <1>8, <1>4 DEF FollowLink
  <1> QED  BY <1>9, <1>4

\* The walk in FreeList meets the free stacks.
LEMMA FreeListIs ==
  ASSUME NEW l, NEW n, Threaded(l, n, pool)
  PROVE  \A i \in 0..MaxStacks : FreeList[i] = l[i]
  <1> DEFINE w == [i \in 0..MaxStacks |-> l[i]]
  <1>1. IsList(w)
    <2>1. ASSUME NEW i \in 0..MaxStacks
          PROVE  w[i] = IF i = 0 THEN pool.head ELSE FollowLink[w[i - 1]]
      <3>1. CASE i = 0
        BY <3>1, StackFacts DEF Threaded
      <3>2. CASE i # 0
        <4>1. i - 1 \in Nat /\ i - 1 \in 0..MaxStacks /\ i \in Nat /\ (i - 1) + 1 = i
          BY <3>2, StackFacts
        <4>2. /\ l[i - 1] = NULL <=> i - 1 >= n
              /\ l[i] = NULL <=> i >= n
              /\ i - 1 < n => pool.link[l[i - 1]] = l[i]
              /\ l[i - 1] \in StackIds \cup {NULL} /\ n \in Nat
          BY <4>1 DEF Threaded
        <4>3. l[i] = FollowLink[l[i - 1]]
          BY <4>1, <4>2 DEF FollowLink
        <4> QED  BY <4>1, <4>3, <3>2
      <3> QED  BY <3>1, <3>2
    <2> QED  BY <2>1 DEF IsList, Links
  <1>2. IsList(FreeList)
    BY <1>1, Zenon DEF IsList, Links, FreeList, FollowLink
  <1> HIDE DEF w
  <1>3. \A v : IsList(v) => \A i \in 0..MaxStacks : v[i] = l[i]
    BY OneList
  <1> QED  BY <1>2, <1>3, Zenon

\* There are no more free stacks than stacks.
LEMMA ListFits ==
  ASSUME NEW l, NEW n, NEW pl, Threaded(l, n, pl)
  PROVE  n \in 0..MaxStacks
  <1> DEFINE f == [i \in 1..n |-> l[i - 1]]
  <1>1. n \in Nat
    BY DEF Threaded
  <1>2. ASSUME NEW i \in 1..n
        PROVE  i - 1 \in Nat /\ i - 1 < n /\ f[i] = l[i - 1] /\ f[i] \in StackIds
    <2>1. i - 1 \in Nat /\ i - 1 < n /\ f[i] = l[i - 1]
      BY <1>1
    <2>2. l[i - 1] \in StackIds
      BY <2>1, <1>1 DEF Threaded
    <2> QED  BY <2>1, <2>2
  <1>3. f \in [1..n -> StackIds]
    BY <1>2
  <1>4. ASSUME NEW i \in 1..n, NEW j \in 1..n, f[i] = f[j]
        PROVE  i = j
    <2>1. i - 1 \in Nat /\ i - 1 < n /\ j - 1 \in Nat /\ j - 1 < n /\ l[i - 1] = l[j - 1]
      BY <1>2, <1>4
    <2>2. i - 1 = j - 1
      BY <2>1 DEF Threaded
    <2> QED  BY <2>2
  <1>5. f \in Injection(1..n, StackIds)
    BY <1>3, <1>4 DEF Injection, IsInjective
  <1>6. Cardinality(1..n) <= Cardinality(StackIds)
    BY <1>5, StackFacts, FS_Injection
  <1>7. Cardinality(1..n) = n
    BY <1>1, FS_Interval
  <1> QED  BY <1>1, <1>6, <1>7, StackFacts

-----------------------------------------------------------------------------
(* Every stack has one place *)

\* The stacks that were handed out are the kernel's, those of the PCBs in the
\* set used, as sk records them, and the free ones; no two are the same.
Placed(l, n, pl, used, sk) ==
  /\ Threaded(l, n, pl)
  /\ KERNEL_STACK <= pl.count
  /\ \A i \in Nat : i < n => l[i] # KERNEL_STACK /\ l[i] <= pl.count
  /\ \A p \in used : /\ sk[p] \in 1..pl.count /\ sk[p] # KERNEL_STACK
                     /\ \A i \in Nat : i < n => l[i] # sk[p]
  /\ \A p, q \in used : sk[p] = sk[q] => p = q
  /\ \A s \in 1..pl.count : \/ s = KERNEL_STACK
                            \/ \E p \in used : sk[p] = s
                            \/ \E i \in Nat : i < n /\ l[i] = s

\* The list without its first entry, and with one more.
Behind(l) == [i \in Nat |-> l[i + 1]]
Before(x, l) == [i \in Nat |-> IF i = 0 THEN x ELSE l[i - 1]]

\* The list after its first stack is unlinked, and after one is pushed.
LEMMA ThreadedBehind ==
  ASSUME NEW l, NEW n, NEW pl, Threaded(l, n, pl), n >= 1,
         NEW pl2, pl2.head = pl.link[l[0]],
         \A s \in StackIds : s # l[0] => pl2.link[s] = pl.link[s]
  PROVE  Threaded(Behind(l), n - 1, pl2)
  <1> DEFINE m == Behind(l)
             k == n - 1
  <1>1. n \in Nat /\ k \in Nat /\ k + 1 = n /\ l \in [Nat -> StackIds \cup {NULL}]
    BY DEF Threaded
  <1>2. \A i \in Nat : m[i] = l[i + 1]
    BY DEF Behind
  <1>3. m \in [Nat -> StackIds \cup {NULL}]
    BY <1>1 DEF Behind
  <1> HIDE DEF m, k
  <1>4. m[0] = pl2.head
    BY <1>1, <1>2 DEF Threaded
  <1>5. \A i \in Nat : m[i] = NULL <=> i >= k
    BY <1>1, <1>2 DEF Threaded
  <1>6. ASSUME NEW i \in Nat, i < k
        PROVE  pl2.link[m[i]] = m[i + 1]
    <2>1. i + 1 \in Nat /\ i + 1 < n /\ i + 1 # 0 /\ 0 < n /\ (i + 1) + 1 \in Nat
      BY <1>1, <1>6
    <2>2. l[i + 1] # l[0] /\ l[i + 1] # NULL /\ pl.link[l[i + 1]] = l[(i + 1) + 1]
      BY <2>1, <1>1 DEF Threaded
    <2>3. l[i + 1] \in StackIds
      BY <2>1, <2>2, <1>1
    <2>4. m[i] = l[i + 1] /\ m[i + 1] = l[(i + 1) + 1]
      BY <2>1, <1>2
    <2> QED  BY <2>2, <2>3, <2>4
  <1>7. ASSUME NEW i \in Nat, NEW j \in Nat, i < k, j < k, m[i] = m[j]
        PROVE  i = j
    <2>1. i + 1 \in Nat /\ j + 1 \in Nat /\ i + 1 < n /\ j + 1 < n /\ l[i + 1] = l[j + 1]
      BY <1>1, <1>2, <1>7
    <2>2. i + 1 = j + 1
      BY <2>1 DEF Threaded
    <2> QED  BY <2>2
  <1>8. Threaded(m, k, pl2)
    BY <1>1, <1>3, <1>4, <1>5, <1>6, <1>7 DEF Threaded
  <1> QED  BY <1>8 DEF m, k

LEMMA ThreadedBefore ==
  ASSUME NEW l, NEW n, NEW pl, Threaded(l, n, pl), NEW x \in StackIds,
         \A i \in Nat : i < n => l[i] # x,
         NEW pl2, pl2.head = x, pl2.link[x] = pl.head,
         \A s \in StackIds : s # x => pl2.link[s] = pl.link[s]
  PROVE  Threaded(Before(x, l), n + 1, pl2)
  <1> DEFINE m == Before(x, l)
             k == n + 1
  <1>0. NULL \notin StackIds
    BY StackFacts
  <1>1. n \in Nat /\ k \in Nat /\ k - 1 = n /\ l \in [Nat -> StackIds \cup {NULL}]
    BY DEF Threaded
  <1>2. m[0] = x /\ \A i \in Nat : i # 0 => i - 1 \in Nat /\ m[i] = l[i - 1]
    BY DEF Before
  <1>3. m \in [Nat -> StackIds \cup {NULL}]
    BY <1>1 DEF Before
  <1> HIDE DEF m
  <1>4. \A i \in Nat : m[i] = NULL <=> i >= k
    <2>1. ASSUME NEW i \in Nat
          PROVE  m[i] = NULL <=> i >= k
      <3>1. CASE i = 0
        BY <3>1, <1>0, <1>1, <1>2
      <3>2. CASE i # 0
        <4>1. i - 1 \in Nat /\ m[i] = l[i - 1] /\ (i - 1 >= n <=> i >= k)
          BY <3>2, <1>1, <1>2
        <4>2. l[i - 1] = NULL <=> i - 1 >= n
          BY <4>1 DEF Threaded
        <4> QED  BY <4>1, <4>2
      <3> QED  BY <3>1, <3>2
    <2> QED  BY <2>1
  <1>5. ASSUME NEW i \in Nat, i < k
        PROVE  pl2.link[m[i]] = m[i + 1]
    <2>1. i + 1 \in Nat /\ i + 1 # 0 /\ (i + 1) - 1 = i
      OBVIOUS
    <2>2. m[i + 1] = l[i]
      BY <2>1, <1>2
    <2>3. CASE i = 0
      BY <2>2, <2>3, <1>2 DEF Threaded
    <2>4. CASE i # 0
      <3>1. i - 1 \in Nat /\ i - 1 < n /\ (i - 1) + 1 = i /\ m[i] = l[i - 1]
        BY <2>4, <1>1, <1>2, <1>5
      <3>2. pl.link[l[i - 1]] = l[(i - 1) + 1] /\ l[i - 1] # NULL /\ l[i - 1] # x
        BY <3>1, <1>1 DEF Threaded
      <3>3. l[i - 1] \in StackIds
        BY <3>1, <3>2, <1>1
      <3> QED  BY <3>1, <3>2, <3>3, <2>2
    <2> QED  BY <2>3, <2>4
  <1>6. ASSUME NEW i \in Nat, NEW j \in Nat, i < k, j < k, m[i] = m[j]
        PROVE  i = j
    <2>1. ASSUME NEW a \in Nat, a < k, a # 0
          PROVE  a - 1 \in Nat /\ a - 1 < n /\ m[a] = l[a - 1] /\ m[a] # x
      <3>1. a - 1 \in Nat /\ a - 1 < n /\ m[a] = l[a - 1]
        BY <2>1, <1>1, <1>2
      <3> QED  BY <3>1
    <2>2. CASE i = 0 \/ j = 0
      BY <2>1, <2>2, <1>2, <1>6
    <2>3. CASE i # 0 /\ j # 0
      <3>1. i - 1 \in Nat /\ i - 1 < n /\ j - 1 \in Nat /\ j - 1 < n /\ l[i - 1] = l[j - 1]
        BY <2>1, <2>3, <1>6
      <3>2. i - 1 = j - 1
        BY <3>1 DEF Threaded
      <3> QED  BY <3>2
    <2> QED  BY <2>2, <2>3
  <1>7. Threaded(m, k, pl2)
    BY <1>1, <1>2, <1>3, <1>4, <1>5, <1>6 DEF Threaded
  <1> QED  BY <1>7 DEF m

\* A stack that is freed moves from its PCB to the list.
LEMMA PlacedFreed ==
  ASSUME NEW pl \in StackPools, NEW used, NEW sk, NEW l, NEW n,
         Placed(l, n, pl, used, sk), NEW p \in used,
         NEW sk2, \A q \in used \ {p} : sk2[q] = sk[q]
  PROVE  \E l2, n2 : Placed(l2, n2, ReleaseStack(pl, sk[p]), used \ {p}, sk2)
  <1> DEFINE x == sk[p]
             pl2 == ReleaseStack(pl, x)
  <1>1. /\ x \in 1..pl.count /\ x # KERNEL_STACK /\ \A i \in Nat : i < n => l[i] # x
        /\ Threaded(l, n, pl) /\ n \in Nat
    BY DEF Placed, Threaded
  <1>2. pl.count \in 0..MaxStacks /\ pl.link \in [StackIds -> StackIds \cup {NULL}]
    BY DEF StackPools
  <1>3. x \in StackIds /\ x # NULL
    BY <1>1, <1>2, StackFacts
  <1> HIDE DEF x
  <1>4. /\ pl2.head = x /\ pl2.link[x] = pl.head /\ pl2.count = pl.count
        /\ \A s \in StackIds : s # x => pl2.link[s] = pl.link[s]
    BY <1>2, <1>3 DEF ReleaseStack, stk_free, StackPools
  <1> HIDE DEF pl2
  <1>5. Threaded(Before(x, l), n + 1, pl2)
    BY <1>1, <1>3, <1>4, ThreadedBefore
  <1> DEFINE m == Before(x, l)
  <1>6. m[0] = x /\ \A i \in Nat : i # 0 => i - 1 \in Nat /\ m[i] = l[i - 1]
    BY DEF Before
  <1> HIDE DEF m
  <1>7. ASSUME NEW i \in Nat, i < n + 1
        PROVE  m[i] = x \/ \E j \in Nat : j < n /\ m[i] = l[j]
    <2>1. CASE i = 0
      BY <2>1, <1>6
    <2>2. CASE i # 0
      <3>1. i - 1 \in Nat /\ i - 1 < n /\ m[i] = l[i - 1]
        BY <2>2, <1>1, <1>6, <1>7
      <3> QED  BY <3>1
    <2> QED  BY <2>1, <2>2
  <1>8. \A j \in Nat : j < n => \E i \in Nat : i < n + 1 /\ m[i] = l[j]
    <2>1. ASSUME NEW j \in Nat, j < n
          PROVE  j + 1 \in Nat /\ j + 1 < n + 1 /\ m[j + 1] = l[j]
      <3>1. j + 1 \in Nat /\ j + 1 # 0 /\ (j + 1) - 1 = j /\ j + 1 < n + 1
        BY <2>1, <1>1
      <3> QED  BY <3>1, <1>6
    <2> QED  BY <2>1
  <1>9. \A i \in Nat : i < n + 1 => m[i] # KERNEL_STACK /\ m[i] <= pl2.count
    <2>1. \A j \in Nat : j < n => l[j] # KERNEL_STACK /\ l[j] <= pl.count
      BY DEF Placed
    <2>2. x <= pl.count
      BY <1>1, <1>2
    <2> QED  BY <2>1, <2>2, <1>1, <1>4, <1>7
  <1>10. ASSUME NEW q \in used \ {p}
         PROVE  /\ sk2[q] \in 1..pl2.count /\ sk2[q] # KERNEL_STACK
                /\ \A i \in Nat : i < n + 1 => m[i] # sk2[q]
    <2>1. sk2[q] = sk[q] /\ sk[q] # x
      BY DEF Placed, x
    <2>2. sk[q] \in 1..pl.count /\ sk[q] # KERNEL_STACK /\ \A i \in Nat : i < n => l[i] # sk[q]
      BY DEF Placed
    <2> QED  BY <2>1, <2>2, <1>4, <1>7
  <1>11. \A q, r \in used \ {p} : sk2[q] = sk2[r] => q = r
    BY DEF Placed
  <1>12. ASSUME NEW s \in 1..pl2.count
         PROVE  \/ s = KERNEL_STACK \/ (\E q \in used \ {p} : sk2[q] = s)
                \/ \E i \in Nat : i < n + 1 /\ m[i] = s
    <2>1. \/ s = KERNEL_STACK \/ (\E q \in used : sk[q] = s)
          \/ \E i \in Nat : i < n /\ l[i] = s
      BY <1>4 DEF Placed
    <2>2. CASE \E i \in Nat : i < n /\ l[i] = s
      BY <2>2, <1>8
    <2>3. CASE \E q \in used : sk[q] = s
      <3>1. PICK q \in used : sk[q] = s
        BY <2>3
      <3>2. CASE q = p
        <4>1. 0 \in Nat /\ 0 < n + 1 /\ m[0] = s
          BY <3>1, <3>2, <1>1, <1>6 DEF x
        <4> QED  BY <4>1
      <3>3. CASE q # p
        BY <3>1, <3>3
      <3> QED  BY <3>2, <3>3
    <2> QED  BY <2>1, <2>2, <2>3
  <1>13. Placed(m, n + 1, pl2, used \ {p}, sk2)
    <2>1. Threaded(m, n + 1, pl2)
      BY <1>5 DEF m
    <2>2. KERNEL_STACK <= pl2.count
      BY <1>4 DEF Placed
    <2> QED  BY <2>1, <2>2, <1>9, <1>10, <1>11, <1>12 DEF Placed
  <1> QED  BY <1>13 DEF pl2, x

\* What stk_alloc() and the copy leave in the pool.
LEMMA AllocFacts ==
  ASSUME NEW pl \in StackPools, NextStack(pl) # NULL, NEW from,
         NEW pl2, pl2 = CopyStack(stk_alloc(pl), NextStack(pl), from)
  PROVE  /\ NextStack(pl) \in StackIds
         /\ pl2.head = IF pl.head # NULL THEN pl.link[pl.head] ELSE NULL
         /\ pl2.count = IF pl.head # NULL THEN pl.count ELSE pl.count + 1
         /\ \A s \in StackIds : s # NextStack(pl) => pl2.link[s] = pl.link[s]
  <1> DEFINE t == NextStack(pl)
             a == stk_alloc(pl)
  <1>1. /\ pl.head \in StackIds \cup {NULL} /\ pl.count \in 0..MaxStacks
        /\ pl.link \in [StackIds -> StackIds \cup {NULL}]
    BY DEF StackPools
  <1>2. t \in StackIds
    BY <1>1, StackFacts DEF NextStack
  <1> HIDE DEF t
  <1>3. /\ a.head = IF pl.head # NULL THEN pl.link[pl.head] ELSE NULL
        /\ a.count = IF pl.head # NULL THEN pl.count ELSE pl.count + 1
        /\ a.link = [pl.link EXCEPT ![t] = NULL]
    BY DEF stk_alloc, t
  <1>4. /\ pl2.head = a.head /\ pl2.count = a.count
        /\ pl2.link = [a.link EXCEPT ![t] = a.link[from]]
    BY DEF CopyStack, t, stk_alloc
  <1> HIDE DEF a
  <1>5. \A s \in StackIds : s # t => pl2.link[s] = pl.link[s]
    BY <1>1, <1>3, <1>4
  <1> QED  BY <1>2, <1>3, <1>4, <1>5 DEF t

\* A stack that is taken for a PCB comes from the list or is a fresh one.
LEMMA PlacedTaken ==
  ASSUME NEW pl \in StackPools, NEW used, NEW sk, NEW l, NEW n,
         Placed(l, n, pl, used, sk), NEW new, new \notin used,
         NextStack(pl) # NULL, NEW from,
         NEW sk2, sk2[new] = NextStack(pl), \A q \in used : sk2[q] = sk[q]
  PROVE  \E l2, n2 : Placed(l2, n2, CopyStack(stk_alloc(pl), NextStack(pl), from),
                            used \cup {new}, sk2)
  <1> DEFINE t == NextStack(pl)
             pl2 == CopyStack(stk_alloc(pl), t, from)
  <1>1. /\ t \in StackIds
        /\ pl2.head = IF pl.head # NULL THEN pl.link[pl.head] ELSE NULL
        /\ pl2.count = IF pl.head # NULL THEN pl.count ELSE pl.count + 1
        /\ \A s \in StackIds : s # t => pl2.link[s] = pl.link[s]
    BY AllocFacts
  <1> HIDE DEF pl2
  <1>2. /\ Threaded(l, n, pl) /\ n \in Nat /\ l \in [Nat -> StackIds \cup {NULL}]
        /\ pl.count \in 0..MaxStacks /\ KERNEL_STACK <= pl.count
    BY DEF Placed, Threaded, StackPools
  <1>3. CASE pl.head # NULL
    <2>1. t = pl.head /\ l[0] = t
      BY <1>2, <1>3 DEF NextStack, Threaded
    <2> HIDE DEF t
    <2>2. n >= 1
      <3>1. 0 \in Nat /\ ~(0 >= n)
        BY <1>2, <1>3, <2>1 DEF Threaded
      <3> QED  BY <3>1, <1>2
    <2> DEFINE m == Behind(l)
               k == n - 1
    <2>3. Threaded(m, k, pl2)
      BY <1>1, <1>2, <1>3, <2>1, <2>2, ThreadedBehind
    <2>4. k \in Nat /\ \A i \in Nat : i < k => i + 1 \in Nat /\ i + 1 < n /\ m[i] = l[i + 1]
      BY <1>2, <2>2 DEF Behind
    <2>5. \A j \in Nat : j # 0 /\ j < n => j - 1 \in Nat /\ j - 1 < k /\ m[j - 1] = l[j]
      <3>1. ASSUME NEW j \in Nat, j # 0, j < n
            PROVE  j - 1 \in Nat /\ j - 1 < k /\ m[j - 1] = l[j]
        <4>1. j - 1 \in Nat /\ j - 1 < k /\ (j - 1) + 1 = j
          BY <3>1, <1>2
        <4> QED  BY <4>1 DEF Behind
      <3> QED  BY <3>1
    <2> HIDE DEF m, k
    <2>6. pl2.count = pl.count
      BY <1>1, <1>3
    <2>7. \A i \in Nat : i < k => m[i] # KERNEL_STACK /\ m[i] <= pl2.count /\ m[i] # t
      <3>1. ASSUME NEW i \in Nat, i < k
            PROVE  m[i] # KERNEL_STACK /\ m[i] <= pl2.count /\ m[i] # t
        <4>1. i + 1 \in Nat /\ i + 1 < n /\ m[i] = l[i + 1] /\ i + 1 # 0 /\ 0 < n
          BY <3>1, <2>4, <2>2, <1>2
        <4>2. l[i + 1] # l[0]
          BY <4>1, <1>2 DEF Threaded
        <4> QED  BY <4>1, <4>2, <2>1, <2>6 DEF Placed
      <3> QED  BY <3>1
    <2>8. t # KERNEL_STACK /\ t <= pl.count /\ \A q \in used : sk[q] # t
      <3>1. 0 \in Nat /\ 0 < n
        BY <2>2, <1>2
      <3> QED  BY <3>1, <2>1 DEF Placed
    <2>9. t \in 1..pl2.count
      BY <2>8, <2>6, <1>1, <1>2, StackFacts
    <2>10. \A q \in used : sk2[q] \in 1..pl2.count /\ sk2[q] # KERNEL_STACK /\ sk2[q] # t
                           /\ \A i \in Nat : i < k => m[i] # sk2[q]
      BY <2>4, <2>6, <2>8 DEF Placed
    <2>11. sk2[new] = t
      BY DEF t
    <2>12. \A q, r \in used \cup {new} : sk2[q] = sk2[r] => q = r
      <3>1. \A q, r \in used : sk2[q] = sk2[r] => q = r
        BY DEF Placed
      <3> QED  BY <3>1, <2>10, <2>11
    <2>13. ASSUME NEW s \in 1..pl2.count
           PROVE  \/ s = KERNEL_STACK \/ (\E q \in used \cup {new} : sk2[q] = s)
                  \/ \E i \in Nat : i < k /\ m[i] = s
      <3>1. \/ s = KERNEL_STACK \/ (\E q \in used : sk[q] = s)
            \/ \E i \in Nat : i < n /\ l[i] = s
        BY <2>6 DEF Placed
      <3>2. CASE \E i \in Nat : i < n /\ l[i] = s
        <4>1. PICK i \in Nat : i < n /\ l[i] = s
          BY <3>2
        <4>2. CASE i = 0
          BY <4>1, <4>2, <2>1, <2>11
        <4>3. CASE i # 0
          BY <4>1, <4>3, <2>5
        <4> QED  BY <4>2, <4>3
      <3> QED  BY <3>1, <3>2
    <2>14. KERNEL_STACK <= pl2.count
      BY <2>6, <1>2
    <2>15. Placed(m, k, pl2, used \cup {new}, sk2)
      BY <2>3, <2>7, <2>9, <2>8, <2>10, <2>11, <2>12, <2>13, <2>14 DEF Placed
    <2> QED  BY <2>15 DEF pl2, t
  <1>4. CASE pl.head = NULL
    <2>1. n = 0
      <3>1. 0 \in Nat /\ l[0] = NULL
        BY <1>2, <1>4 DEF Threaded
      <3> QED  BY <3>1, <1>2 DEF Threaded
    <2>2. t = pl.count + 1 /\ pl2.count = pl.count + 1 /\ pl2.head = NULL
      BY <1>1, <1>4 DEF NextStack
    <2> HIDE DEF t
    <2>3. \A i \in Nat : ~(i < n)
      BY <2>1
    <2>4. Threaded(l, n, pl2)
      BY <1>2, <1>4, <2>2, <2>3 DEF Threaded
    <2>5. t \in 1..pl2.count /\ t # KERNEL_STACK /\ KERNEL_STACK <= pl2.count
      BY <2>2, <1>2, StackFacts
    <2>6. \A q \in used : sk2[q] \in 1..pl2.count /\ sk2[q] # KERNEL_STACK /\ sk2[q] # t
      <3>1. ASSUME NEW q \in used
            PROVE  sk2[q] \in 1..pl2.count /\ sk2[q] # KERNEL_STACK /\ sk2[q] # t
        <4>1. sk2[q] = sk[q] /\ sk[q] \in 1..pl.count /\ sk[q] # KERNEL_STACK
          BY DEF Placed
        <4> QED  BY <4>1, <2>2, <1>2
      <3> QED  BY <3>1
    <2>7. sk2[new] = t
      BY DEF t
    <2>8. \A q, r \in used \cup {new} : sk2[q] = sk2[r] => q = r
      <3>1. \A q, r \in used : sk2[q] = sk2[r] => q = r
        BY DEF Placed
      <3> QED  BY <3>1, <2>6, <2>7
    <2>9. ASSUME NEW s \in 1..pl2.count
          PROVE  s = KERNEL_STACK \/ \E q \in used \cup {new} : sk2[q] = s
      <3>1. CASE s = t
        BY <3>1, <2>7
      <3>2. CASE s # t
        <4>1. s \in 1..pl.count
          BY <3>2, <2>2, <1>2
        <4>2. s = KERNEL_STACK \/ \E q \in used : sk[q] = s
          BY <4>1, <2>3 DEF Placed
        <4> QED  BY <4>2
      <3> QED  BY <3>1, <3>2
    <2>10. Placed(l, n, pl2, used \cup {new}, sk2)
      BY <2>3, <2>4, <2>5, <2>6, <2>7, <2>8, <2>9 DEF Placed
    <2> QED  BY <2>10 DEF pl2, t
  <1> QED  BY <1>3, <1>4

-----------------------------------------------------------------------------
(* The steps of the kernel *)

\* The inductive invariant: the links thread the free stacks, every stack that
\* was handed out has one place, and every process runs on its own.
HasPlaces(pl, used, sk) == \E l, n : Placed(l, n, pl, used, sk)
OwnInv ==
  Running => /\ HasPlaces(pool, InTable, stack)
             /\ \A p \in InTable : context[p] = stack[p]

\* PlacedFreed and PlacedTaken, for some list.
LEMMA PlacesFreed ==
  ASSUME NEW pl \in StackPools, NEW used, NEW sk, HasPlaces(pl, used, sk), NEW p \in used,
         NEW sk2, \A q \in used \ {p} : sk2[q] = sk[q]
  PROVE  HasPlaces(ReleaseStack(pl, sk[p]), used \ {p}, sk2)
  <1>1. PICK l, n : Placed(l, n, pl, used, sk)
    BY DEF HasPlaces
  <1> QED  BY <1>1, PlacedFreed DEF HasPlaces

LEMMA PlacesTaken ==
  ASSUME NEW pl \in StackPools, NEW used, NEW sk, HasPlaces(pl, used, sk),
         NEW new, new \notin used, NextStack(pl) # NULL, NEW from,
         NEW sk2, sk2[new] = NextStack(pl), \A q \in used : sk2[q] = sk[q]
  PROVE  HasPlaces(CopyStack(stk_alloc(pl), NextStack(pl), from), used \cup {new}, sk2)
  <1>1. PICK l, n : Placed(l, n, pl, used, sk)
    BY DEF HasPlaces
  <1> QED  BY <1>1, PlacedTaken DEF HasPlaces

\* Only the entries of the PCBs in use count.
LEMMA PlacesKept ==
  ASSUME NEW pl, NEW used, NEW sk, HasPlaces(pl, used, sk),
         NEW sk2, \A q \in used : sk2[q] = sk[q]
  PROVE  HasPlaces(pl, used, sk2)
  <1>1. PICK l, n : Placed(l, n, pl, used, sk)
    BY DEF HasPlaces
  <1>2. Placed(l, n, pl, used, sk2)
    BY <1>1 DEF Placed
  <1> QED  BY <1>2 DEF HasPlaces

\* Steps that take and free no PCB and no stack.
LEMMA StacksStay ==
  ASSUME OwnInv, Running, InTable' = InTable, UNCHANGED <<pool, stack, context>>
  PROVE  OwnInv'
  <1>1. HasPlaces(pool, InTable, stack) /\ \A p \in InTable : context[p] = stack[p]
    BY DEF OwnInv
  <1>2. PICK pl, used, sk, cx : pl = pool /\ used = InTable /\ sk = stack /\ cx = context
    OBVIOUS
  <1>3. HasPlaces(pl, used, sk) /\ \A p \in used : cx[p] = sk[p]
    BY <1>1, <1>2
  <1>4. pool' = pl /\ InTable' = used /\ stack' = sk /\ context' = cx
    BY <1>2
  <1>5. HasPlaces(pool, InTable, stack)'
    BY <1>3, <1>4 DEF HasPlaces
  <1>6. (\A p \in InTable : context[p] = stack[p])'
    BY <1>3, <1>4
  <1> QED  BY <1>5, <1>6 DEF OwnInv

LEMMA KeepsStacks ==
  ASSUME OwnInv, Running, TypeOK, KeepsFamily, UNCHANGED <<pool, stack, context>>
  PROVE  OwnInv'
  <1>1. \A q \in Slots : state'[q] # "UNUSED" <=> state[q] # "UNUSED"
    BY DEF KeepsFamily, KeepsState, Active
  <1>2. InTable' = InTable
    BY <1>1 DEF InTable
  <1> QED  BY <1>2, StacksStay

\* A kernel that has halted makes no promise.
LEMMA StoppedOwns ==
  ASSUME ~Running'
  PROVE  OwnInv'
  BY DEF OwnInv

\* fork() takes a stack for the PCB it takes, and copies only into that one.
LEMMA ForkStacks ==
  ASSUME SchedInv, OwnInv, NEW p \in Slots, NEW new \in Slots, NEW a,
         Traps(p, "fork"), sys_fork(p, new, a)
  PROVE  OwnInv'
  <1>0. state[new] = "UNUSED" /\ Running /\ pool \in StackPools /\ NextStack(pool) # NULL
        /\ stack \in [Slots -> StackIds \cup {NULL}] /\ context \in [Slots -> StackIds \cup {NULL}]
        /\ state \in [Slots -> States]
    BY CallerFacts DEF sys_fork, pcb_alloc, IsFirst, SchedInv, TypeOK
  <1>1. CASE Corrupt \/ kpanic
    BY <1>1, HaltStops, StoppedOwns DEF Halts
  <1>2. CASE ~(Corrupt \/ kpanic)
    <2>1. /\ pool' = CopyStack(stk_alloc(pool), NextStack(pool), stack[p])
          /\ stack' = [stack EXCEPT ![new] = NextStack(pool)]
          /\ context' = [context EXCEPT ![new] = NextStack(pool)]
          /\ state' = [state EXCEPT ![new] = "READY"]
      BY <1>2 DEF sys_fork
    <2>2. HasPlaces(pool, InTable, stack) /\ \A q \in InTable : context[q] = stack[q]
      BY <1>0 DEF OwnInv
    <2>3. new \notin InTable /\ InTable \subseteq Slots
      BY <1>0 DEF InTable
    <2>4. InTable' = InTable \cup {new}
      BY <1>0, <2>1 DEF InTable
    <2>5. PICK sk2 : sk2 = stack'
      OBVIOUS
    <2>6. sk2[new] = NextStack(pool) /\ \A q \in InTable : sk2[q] = stack[q]
      BY <1>0, <2>1, <2>3, <2>5
    <2>7. HasPlaces(CopyStack(stk_alloc(pool), NextStack(pool), stack[p]), InTable \cup {new}, sk2)
      BY <1>0, <2>2, <2>3, <2>6, PlacesTaken
    <2>8. PICK pl2, used2 : pl2 = pool' /\ used2 = InTable'
      OBVIOUS
    <2>9. HasPlaces(pl2, used2, sk2)
      BY <2>1, <2>4, <2>7, <2>8
    <2>10. HasPlaces(pool, InTable, stack)'
      BY <2>5, <2>8, <2>9 DEF HasPlaces
    <2>11. \A q \in InTable \cup {new} : context'[q] = stack'[q]
      BY <1>0, <2>1, <2>2, <2>3
    <2>12. (\A q \in InTable : context[q] = stack[q])'
      BY <2>4, <2>11
    <2> QED  BY <2>10, <2>12 DEF OwnInv
  <1> QED  BY <1>1, <1>2

\* The stack of the zombie that sys_wait() collects goes to the list.
LEMMA WaitStacks ==
  ASSUME SchedInv, OwnInv, NEW p \in Slots, Wait(p)
  PROVE  OwnInv'
  <1>0. /\ Running /\ state[p] = "RUNNING" /\ pool \in StackPools
        /\ stack \in [Slots -> StackIds \cup {NULL}] /\ state \in [Slots -> States]
    BY CallerFacts DEF Wait, SchedInv, TypeOK
  <1>1. ASSUME NEW child \in Slots, IsFirst(child, ZombieChildrenOf(p)),
               state' = [state EXCEPT ![child] = "UNUSED"],
               stack' = [stack EXCEPT ![child] = NULL],
               pool' = ReleaseStack(pool, stack[child]),
               UNCHANGED context
        PROVE  OwnInv'
    <2>1. state[child] = "ZOMBIE"
      BY <1>1 DEF IsFirst, ZombieChildrenOf
    <2>2. child \in InTable /\ InTable \subseteq Slots
      BY <2>1 DEF InTable
    <2>3. InTable' = InTable \ {child}
      BY <1>0, <1>1 DEF InTable
    <2>4. HasPlaces(pool, InTable, stack) /\ \A q \in InTable : context[q] = stack[q]
      BY <1>0 DEF OwnInv
    <2>5. PICK sk2, pl2, used2 : sk2 = stack' /\ pl2 = pool' /\ used2 = InTable'
      OBVIOUS
    <2>6. \A q \in InTable \ {child} : sk2[q] = stack[q]
      BY <1>0, <1>1, <2>2, <2>5
    <2>7. HasPlaces(ReleaseStack(pool, stack[child]), InTable \ {child}, sk2)
      BY <1>0, <2>2, <2>4, <2>6, PlacesFreed
    <2>8. HasPlaces(pl2, used2, sk2)
      BY <1>1, <2>3, <2>5, <2>7
    <2>9. HasPlaces(pool, InTable, stack)'
      BY <2>5, <2>8 DEF HasPlaces
    <2>10. (\A q \in InTable : context[q] = stack[q])'
      BY <1>1, <2>3, <2>4, <2>5, <2>6
    <2> QED  BY <2>9, <2>10 DEF OwnInv
  <1>2. ASSUME Return(p, S_NO_CHILD)
        PROVE  OwnInv'
    <2>1. UNCHANGED <<pool, stack, context>>
      BY <1>2 DEF Return
    <2> QED  BY <1>0, <1>2, <2>1, ReturnKeeps, KeepsStacks DEF SchedInv
  <1>3. ASSUME dispatch(ready, [state EXCEPT ![p] = "WAITING"], quantum),
               UNCHANGED <<pool, stack, context>>
        PROVE  OwnInv'
    <2> DEFINE st == [state EXCEPT ![p] = "WAITING"]
    <2>1. dispatch(ready, st, quantum)
      BY <1>3
    <2>2. st \in [Slots -> States] /\ ReadyMatches(ready, st, priority)
      BY <1>0, OtherStateMatches, CallerFacts DEF Wait, SchedInv, TypeOK, States
    <2>3. \A q \in Slots : st[q] # "UNUSED" <=> state[q] # "UNUSED"
      BY <1>0
    <2>4. ready \in [Prios -> Seq(Slots)] /\ TypeOK
      BY DEF SchedInv, TypeOK
    <2> HIDE DEF st
    <2>5. \A q \in Slots : \/ state'[q] = st[q]
                           \/ st[q] = "READY" /\ state'[q] = "RUNNING"
      BY <2>1, <2>2, <2>4, DispatchStates
    <2>6. InTable' = InTable
      BY <2>3, <2>5 DEF InTable
    <2> QED  BY <1>0, <1>3, <2>6, StacksStay
  <1> QED  BY <1>1, <1>2, <1>3 DEF Wait, sys_wait

\* What ReportExit() does to the stacks.
LEMMA ReportStacks ==
  ASSUME NEW p \in Slots, NEW code, NEW st, NEW rq, NEW rt, NEW ws,
         NEW stk, NEW pl, ReportExit(p, code, st, rq, rt, ws, stk, pl)
  PROVE  IF st[parent[p]] = "WAITING"
         THEN stack' = [stk EXCEPT ![p] = NULL] /\ pool' = ReleaseStack(pl, stack[p])
         ELSE stack' = stk /\ pool' = pl
  BY DEF ReportExit

\* The PCBs in use after an exit.
LEMMA ExitTable ==
  ASSUME TypeOK, NEW p \in Slots, NEW code, NEW f \in Slots \cup {NoPcb},
         ExitEffect(p, code, f)
  PROVE  /\ p \in InTable /\ p # f
         /\ f # NoPcb => f \in InTable
         /\ InTable' = IF Told(p, f) THEN (InTable \ {f}) \ {p} ELSE InTable \ {f}
  <1>1. /\ state[p] = "RUNNING" /\ parent[p] \in Slots /\ parent[p] # p
        /\ f # NoPcb => /\ f \in ZombieChildrenOf(p) /\ state[init_pcb] = "WAITING"
                        /\ state'[f] = "UNUSED" /\ state'[init_pcb] \in {"READY", "RUNNING"}
        /\ state'[p] = IF Told(p, f) THEN "UNUSED" ELSE "ZOMBIE"
        /\ Told(p, f) => state'[parent[p]] \in {"READY", "RUNNING"}
        /\ \A q \in Slots \ {p, f} :
             ~(q = init_pcb /\ f # NoPcb) /\ ~(q = parent[p] /\ Told(p, f)) => Dispatched(q)
    BY DEF ExitEffect
  <1>2. f # NoPcb => f \in Slots /\ state[f] = "ZOMBIE" /\ f # p
    BY <1>1 DEF ZombieChildrenOf, ChildrenOf
  <1>3. f = NoPcb => f \notin Slots
    BY SlotFacts
  <1>4. Told(p, f) => state[parent[p]] = "WAITING"
    BY DEF Told
  <1>5. \A q \in Slots \ {p, f} : state'[q] # "UNUSED" <=> state[q] # "UNUSED"
    BY <1>1, <1>4 DEF Dispatched
  <1> QED  BY <1>1, <1>2, <1>3, <1>5 DEF InTable

\* The stack of a zombie that is collected for init, and that of a process
\* whose parent waits, go to the list, one after the other.
LEMMA ExitStacks ==
  ASSUME SchedInv, OwnInv, NEW p \in Slots, NEW code, NEW c,
         Traps(p, c), sys_exit(p, code)
  PROVE  OwnInv'
  <1>0. /\ Running /\ pool \in StackPools /\ TypeOK
        /\ (context' = context) \/ kpanic
        /\ stack \in [Slots -> StackIds \cup {NULL}] /\ state \in [Slots -> States]
    BY CallerFacts DEF SchedInv, TypeOK, sys_exit
  <1>1. CASE kpanic
    BY <1>1, HaltStops, StoppedOwns DEF Halts
  <1>2. ASSUME ~kpanic, NEW f \in Slots \cup {NoPcb}, ExitEffect(p, code, f),
               ExitsBy(p, code, f)
        PROVE  OwnInv'
    <2>1. /\ p \in InTable /\ p # f
          /\ f # NoPcb => f \in InTable
          /\ InTable' = IF Told(p, f) THEN (InTable \ {f}) \ {p} ELSE InTable \ {f}
      BY <1>0, <1>2, ExitTable
    <2>2. HasPlaces(pool, InTable, stack) /\ \A q \in InTable : context[q] = stack[q]
      BY <1>0 DEF OwnInv
    <2>3. InTable \subseteq Slots
      BY DEF InTable
    <2> DEFINE used == InTable \ {f}
    <2>4. \E sk, pl : /\ pl \in StackPools /\ HasPlaces(pl, used, sk)
                      /\ \A q \in used : sk[q] = stack[q]
                      /\ DOMAIN sk = Slots
                      /\ IF Told(p, f)
                         THEN /\ stack' = [sk EXCEPT ![p] = NULL]
                              /\ pool' = ReleaseStack(pl, stack[p])
                         ELSE stack' = sk /\ pool' = pl
      <3>1. CASE f = NoPcb
        <4>1. used = InTable
          BY <3>1, <2>3, SlotFacts
        <4>2. IF state[parent[p]] = "WAITING"
              THEN stack' = [stack EXCEPT ![p] = NULL] /\ pool' = ReleaseStack(pool, stack[p])
              ELSE stack' = stack /\ pool' = pool
          <5>1. ReportExit(p, code, state, ready, ret, wstat, stack, pool)
            BY <1>2, <3>1 DEF ExitsBy, ExitOnly
          <5> QED  BY <5>1, ReportStacks
        <4>3. Told(p, f) <=> state[parent[p]] = "WAITING"
          BY <3>1 DEF Told
        <4> HIDE DEF used
        <4>4. DOMAIN stack = Slots
          BY <1>0
        <4> QED  BY <1>0, <2>2, <4>1, <4>2, <4>3, <4>4
      <3>2. CASE f # NoPcb
        <4> DEFINE st == [state EXCEPT ![init_pcb] = "READY", ![f] = "UNUSED"]
                   sk == [stack EXCEPT ![f] = NULL]
                   pl == ReleaseStack(pool, stack[f])
        <4>1. IF st[parent[p]] = "WAITING"
              THEN stack' = [sk EXCEPT ![p] = NULL] /\ pool' = ReleaseStack(pl, stack[p])
              ELSE stack' = sk /\ pool' = pl
          <5>1. ReportExit(p, code, st, schedule(ready, init_pcb, priority[init_pcb]),
                           [ret EXCEPT ![init_pcb] = pid[f]],
                           [wstat EXCEPT ![init_pcb] = status[f]], sk, pl)
            BY <1>2, <3>2 DEF ExitsBy, ExitCollecting
          <5> HIDE DEF st, sk, pl
          <5> QED  BY <5>1, ReportStacks
        <4>2. /\ f \in Slots /\ parent[p] \in Slots /\ state[init_pcb] = "WAITING"
              /\ state[f] = "ZOMBIE"
          BY <1>2, <3>2 DEF ExitEffect, ZombieChildrenOf, ChildrenOf
        <4>3. Told(p, f) <=> st[parent[p]] = "WAITING"
          BY <1>0, <3>2, <4>2, SlotFacts DEF Told
        <4>4. \A q \in used : sk[q] = stack[q]
          BY <1>0, <2>3, <4>2
        <4>5. DOMAIN sk = Slots /\ stack[f] \in StackIds \cup {NULL}
          BY <1>0, <4>2
        <4>6. pl \in StackPools
          BY <1>0, <4>5, PoolTypes
        <4> HIDE DEF st, sk
        <4>7. HasPlaces(pl, used, sk)
          BY <1>0, <2>1, <2>2, <3>2, <4>4, PlacesFreed
        <4> HIDE DEF pl, used
        <4> QED  BY <4>1, <4>3, <4>4, <4>5, <4>6, <4>7
      <3> QED  BY <3>1, <3>2
    <2>5. PICK sk, pl : /\ pl \in StackPools /\ HasPlaces(pl, used, sk)
                        /\ \A q \in used : sk[q] = stack[q]
                        /\ DOMAIN sk = Slots
                        /\ IF Told(p, f)
                           THEN /\ stack' = [sk EXCEPT ![p] = NULL]
                                /\ pool' = ReleaseStack(pl, stack[p])
                           ELSE stack' = sk /\ pool' = pl
      BY <2>4
    <2>6. PICK sk2, pl2, used2 : sk2 = stack' /\ pl2 = pool' /\ used2 = InTable'
      OBVIOUS
    <2>7. p \in used /\ used \subseteq Slots /\ \A q \in used : context[q] = stack[q]
      BY <2>1, <2>2, <2>3
    <2>8. used2 = IF Told(p, f) THEN used \ {p} ELSE used
      BY <2>1, <2>6
    <2> HIDE DEF used
    <2>9. HasPlaces(pl2, used2, sk2) /\ \A q \in used2 : q \in used /\ sk2[q] = stack[q]
      <3>1. CASE Told(p, f)
        <4>1. \A q \in used \ {p} : sk2[q] = sk[q]
          BY <2>5, <2>6, <2>7, <3>1
        <4>2. HasPlaces(ReleaseStack(pl, sk[p]), used \ {p}, sk2)
          BY <2>5, <2>7, <4>1, PlacesFreed
        <4>3. sk[p] = stack[p] /\ pl2 = ReleaseStack(pl, stack[p]) /\ used2 = used \ {p}
          BY <2>5, <2>6, <2>7, <2>8, <3>1
        <4> QED  BY <2>5, <4>1, <4>2, <4>3
      <3>2. CASE ~Told(p, f)
        BY <2>5, <2>6, <2>8, <3>2
      <3> QED  BY <3>1, <3>2
    <2>10. HasPlaces(pool, InTable, stack)'
      BY <2>6, <2>9 DEF HasPlaces
    <2>11. context' = context
      BY <1>0, <1>2
    <2>12. \A q \in used2 : context'[q] = sk2[q]
      BY <2>7, <2>9, <2>11
    <2>13. (\A q \in InTable : context[q] = stack[q])'
      BY <2>6, <2>12
    <2> QED  BY <2>10, <2>13 DEF OwnInv
  <1> QED  BY <1>1, <1>2, ExitWays

\* The other calls leave stacks and PCBs in use alone.
LEMMA OthersOwn ==
  ASSUME SchedInv, OwnInv, NEW p \in Slots,
         \/ Sleep(p) \/ GetPid(p) \/ GetTime(p) \/ GetPrio(p) \/ Read(p) \/ Write(p)
  PROVE  OwnInv'
  <1>0. \E c : Traps(p, c)
    BY DEF Sleep, GetPid, GetTime, GetPrio, Read, Write
  <1>1. Running /\ TypeOK
    BY <1>0, CallerFacts DEF SchedInv
  <1>2. kpanic \/ Corrupt \/ UNCHANGED <<pool, stack, context>>
    BY DEF Sleep, sys_sleep, GetPid, sys_getpid, GetTime, sys_gettime, GetPrio,
           sys_getprio, Read, sys_read, Write, sys_write, Return
  <1>3. KeepsFamily \/ Halts
    BY <1>1, OtherCallsKeep, SleepKeeps, HaltStops DEF OutOfNodes
  <1>4. CASE Halts \/ kpanic \/ Corrupt
    BY <1>4, HaltStops, StoppedOwns DEF Halts
  <1>5. CASE KeepsFamily /\ UNCHANGED <<pool, stack, context>>
    BY <1>1, <1>5, KeepsStacks
  <1> QED  BY <1>2, <1>3, <1>4, <1>5

LEMMA ClockOwns ==
  ASSUME SchedInv, OwnInv, clk_isr
  PROVE  OwnInv'
  <1>1. Running /\ TypeOK
    BY DEF clk_isr, ClkTick, ClkWake, ClkContinue, ClkPreempt, Running, SchedInv
  <1>2. UNCHANGED <<pool, stack, context>>
    BY DEF clk_isr, ClkTick, ClkWake, ClkContinue, ClkPreempt, kpanic, pcbs
  <1>3. KeepsFamily \/ Halts
    BY <1>1, ClockKeeps, HaltStops DEF OutOfNodes
  <1>4. CASE Halts
    BY <1>4, StoppedOwns DEF Halts
  <1> QED  BY <1>1, <1>2, <1>3, <1>4, KeepsStacks

\* Every step keeps the invariant, if the workload does not call exec().
LEMMA NextOwns ==
  ASSUME "exec" \notin Calls, SchedInv, OwnInv, [Next]_vars
  PROVE  OwnInv'
  <1>0. TypeOK
    BY DEF SchedInv
  <1>1. ASSUME NEW p \in Slots, Running, sys_fork_fails(p)
        PROVE  OwnInv'
    <2>1. Return(p, S_ERROR)
      BY <1>1 DEF sys_fork_fails
    <2>2. UNCHANGED <<pool, stack, context>>
      BY <2>1 DEF Return
    <2> QED  BY <1>0, <1>1, <2>1, <2>2, ReturnKeeps, KeepsStacks
  <1>2. ASSUME NEW p \in Slots, Exit(p) \/ Bogus(p)
        PROVE  OwnInv'
    <2>1. PICK code, c : Traps(p, c) /\ sys_exit(p, code)
      BY <1>2 DEF Exit, Bogus
    <2> QED  BY <2>1, ExitStacks
  <1>3. \A p \in Slots : ~Exec(p)
    BY DEF Exec, Traps, Program
  <1>4. ASSUME NEW p \in Slots, UserForks(p) \/ StrayForks(p)
        PROVE  OwnInv'
    <2>1. Traps(p, "fork") /\ Running
      BY <1>4 DEF UserForks, StrayForks, Traps, Running
    <2>2. CASE sys_fork_fails(p)
      BY <2>1, <2>2, <1>1
    <2>3. ASSUME NEW a, NEW new \in Slots, sys_fork(p, new, a)
          PROVE  OwnInv'
      BY <2>1, <2>3, ForkStacks
    <2> QED  BY <1>4, <2>2, <2>3 DEF UserForks, StrayForks
  <1>5. CASE InitForks
    <2>1. Traps(init_pcb, "fork") /\ Running /\ init_pcb \in Slots
      BY <1>5, SlotFacts DEF InitForks, Traps, Running
    <2>2. CASE sys_fork_fails(init_pcb)
      BY <2>1, <2>2, <1>1
    <2>3. ASSUME NEW a, NEW new \in Slots, sys_fork(init_pcb, new, a)
          PROVE  OwnInv'
      BY <2>1, <2>3, ForkStacks
    <2> QED  BY <1>5, <2>2, <2>3 DEF InitForks
  <1>6. ASSUME NEW p \in Slots, Syscall(p)
        PROVE  OwnInv'
    <2>1. \/ Exit(p) \/ Bogus(p)
          \/ Wait(p)
          \/ UserForks(p) \/ StrayForks(p)
          \/ Sleep(p) \/ GetPid(p) \/ GetTime(p) \/ GetPrio(p) \/ Read(p) \/ Write(p)
      BY <1>3, <1>6 DEF Syscall
    <2> QED  BY <2>1, <1>2, <1>4, WaitStacks, OthersOwn
  <1>7. CASE Halted \/ UNCHANGED vars
    <2>1. UNCHANGED vars
      BY <1>7 DEF Halted
    <2>2. CASE Running
      <3>1. KeepsFamily /\ UNCHANGED <<pool, stack, context>>
        BY <2>1 DEF vars, KeepsFamily, KeepsState
      <3> QED  BY <1>0, <2>2, <3>1, KeepsStacks
    <2>3. CASE ~Running
      BY <2>1, <2>3, StoppedOwns DEF vars, Running
    <2> QED  BY <2>2, <2>3
  <1>8. \/ InitForks
        \/ \E p \in Slots : Syscall(p)
        \/ clk_isr
        \/ Halted \/ UNCHANGED vars
    BY DEF Next
  <1> QED  BY <1>5, <1>6, <1>7, <1>8, ClockOwns

\* At the start there are two stacks, the kernel's and init's.
LEMMA InitOwns ==
  ASSUME Init
  PROVE  OwnInv
  <1> DEFINE l == [i \in Nat |-> NULL]
  <1>1. InTable = {init_pcb} /\ stack[init_pcb] = 2 /\ context[init_pcb] = 2
    BY SlotFacts DEF Init, InTable, INIT_STACK
  <1>2. pool.head = NULL /\ pool.count = 2
    BY DEF Init, InitialPool
  <1> DEFINE n == 0
  <1>3. l \in [Nat -> StackIds \cup {NULL}] /\ n \in Nat /\ l[0] = NULL
        /\ \A i \in Nat : l[i] = NULL /\ i >= n /\ ~(i < n)
    OBVIOUS
  <1> HIDE DEF l, n
  <1>4. Threaded(l, n, pool)
    BY <1>2, <1>3 DEF Threaded
  <1>5. /\ \A p \in InTable : stack[p] \in 1..pool.count /\ stack[p] # KERNEL_STACK
        /\ \A p, q \in InTable : stack[p] = stack[q] => p = q
        /\ \A s \in 1..pool.count : s = KERNEL_STACK \/ \E p \in InTable : stack[p] = s
        /\ KERNEL_STACK <= pool.count
    BY <1>1, <1>2 DEF KERNEL_STACK
  <1>6. Placed(l, n, pool, InTable, stack)
    BY <1>3, <1>4, <1>5 DEF Placed
  <1> QED  BY <1>1, <1>6 DEF OwnInv, HasPlaces

\* The list of the invariant is the one that stk_alloc() would find.
LEMMA ListIsFree ==
  ASSUME NEW l, NEW n, Threaded(l, n, pool)
  PROVE  /\ FreeList[MaxStacks] = NULL
         /\ \A s \in StackIds : s \in FreeStacks <=> \E i \in Nat : i < n /\ l[i] = s
  <1>1. n \in 0..MaxStacks /\ MaxStacks \in Nat /\ MaxStacks \in 0..MaxStacks
    BY ListFits, StackFacts
  <1>2. \A i \in 0..MaxStacks : FreeList[i] = l[i]
    BY FreeListIs
  <1>3. l[MaxStacks] = NULL
    BY <1>1 DEF Threaded
  <1>4. ASSUME NEW s \in StackIds
        PROVE  s \in FreeStacks <=> \E i \in Nat : i < n /\ l[i] = s
    <2>1. s # NULL
      BY StackFacts
    <2>2. s \in FreeStacks <=> \E i \in 0..MaxStacks : FreeList[i] = s
      BY <2>1 DEF FreeStacks
    <2>3. (\E i \in 0..MaxStacks : FreeList[i] = s) <=> (\E i \in 0..MaxStacks : l[i] = s)
      BY <1>2
    <2>4. ASSUME NEW i \in 0..MaxStacks, l[i] = s
          PROVE  i \in Nat /\ i < n
      BY <2>1, <2>4, <1>1 DEF Threaded
    <2>5. ASSUME NEW i \in Nat, i < n
          PROVE  i \in 0..MaxStacks
      BY <2>5, <1>1
    <2> QED  BY <2>2, <2>3, <2>4, <2>5
  <1> QED  BY <1>1, <1>2, <1>3, <1>4

\* The invariant says what StacksOwned counts.
LEMMA OwnedByOne ==
  ASSUME TypeOK, OwnInv
  PROVE  StacksOwned
  <1> SUFFICES ASSUME Running
      PROVE
         /\ FreeList[MaxStacks] = NULL
         /\ \A p \in Slots : state[p] # "UNUSED" => context[p] = stack[p]
         /\ \A s \in 1..pool.count :
              Cardinality({p \in Slots : state[p] # "UNUSED" /\ stack[p] = s})
              + (IF s \in FreeStacks THEN 1 ELSE 0)
              + (IF s = KERNEL_STACK THEN 1 ELSE 0) = 1
    BY DEF StacksOwned
  <1>1. PICK l, n : Placed(l, n, pool, InTable, stack)
    BY DEF OwnInv, HasPlaces
  <1>2. \A p \in Slots : state[p] # "UNUSED" => context[p] = stack[p]
    BY DEF OwnInv, InTable
  <1>3. Threaded(l, n, pool) /\ pool.count \in 0..MaxStacks
    BY <1>1 DEF Placed, TypeOK, StackPools
  <1>4. /\ FreeList[MaxStacks] = NULL
        /\ \A s \in StackIds : s \in FreeStacks <=> \E i \in Nat : i < n /\ l[i] = s
    BY <1>3, ListIsFree
  <1>5. ASSUME NEW s \in 1..pool.count
        PROVE  Cardinality({p \in Slots : state[p] # "UNUSED" /\ stack[p] = s})
               + (IF s \in FreeStacks THEN 1 ELSE 0)
               + (IF s = KERNEL_STACK THEN 1 ELSE 0) = 1
    <2> DEFINE owners == {p \in Slots : state[p] # "UNUSED" /\ stack[p] = s}
    <2>1. s \in StackIds
      BY <1>3, StackFacts
    <2>2. \A p : p \in owners <=> p \in InTable /\ stack[p] = s
      BY DEF InTable
    <2> HIDE DEF owners
    <2>3. /\ \A p \in owners : s # KERNEL_STACK /\ s \notin FreeStacks
          /\ \A p, q \in owners : p = q
          /\ s \in FreeStacks => s # KERNEL_STACK
          /\ s = KERNEL_STACK \/ s \in FreeStacks \/ \E p : p \in owners
      BY <1>1, <1>4, <2>1, <2>2 DEF Placed
    <2>4. CASE owners = {}
      <3>1. Cardinality(owners) = 0
        BY <2>4, FS_EmptySet
      <3> QED  BY <3>1, <2>3, <2>4 DEF owners
    <2>5. CASE owners # {}
      <3>1. PICK p : p \in owners
        BY <2>5
      <3>2. owners = {p}
        BY <3>1, <2>3
      <3>3. Cardinality(owners) = 1
        BY <3>2, FS_Singleton
      <3> QED  BY <3>1, <3>3, <2>3 DEF owners
    <2> QED  BY <2>4, <2>5
  <1> QED  BY <1>2, <1>4, <1>5

\* Every stack has one place, whatever the processes do, as long as none of
\* them calls exec(): fork(), wait() and exit() hand stacks over and back and
\* never lose or share one.  (The hypothesis is needed: with exec() in the
\* workload the property is false, which run exec_stack shows.)
THEOREM StacksHaveOnePlace ==
  ("exec" \notin Calls) => (Spec => []StacksOwned)
  <1> SUFFICES ASSUME "exec" \notin Calls
               PROVE  Spec => []StacksOwned
    OBVIOUS
  <1>1. Init => OwnInv
    BY InitOwns
  <1>2. SchedInv /\ OwnInv /\ [Next]_vars => OwnInv'
    BY NextOwns
  <1>3. SchedInv /\ OwnInv => StacksOwned
    BY OwnedByOne DEF SchedInv
  <1> QED  BY <1>1, <1>2, <1>3, SchedulerInvariant, PTL DEF Spec
=============================================================================
