----------------------------- MODULE QueueSpec -----------------------------
(***************************************************************************)
(* What kernel/queues.c promises its callers: each queue is a sequence of  *)
(* data values, front first.  The process module uses the same operators.  *)
(***************************************************************************)
EXTENDS QueueOps

CONSTANTS
  Queues,    \* the queue_t handles (N_QUEUES of them)
  Data,      \* the values callers put into queues
  Key        \* what the ordering function compares, a number for each value

VARIABLES
  order,     \* "free", "fifo" or "ordered"
  contents,  \* the entries
  result,    \* what the last call returned: its status and its value
  halted     \* the kernel has panicked

absVars == <<order, contents, result, halted>>

None == -1            \* no value is returned

AbsInit ==
  /\ order = [q \in Queues |-> "free"]
  /\ contents = [q \in Queues |-> <<>>]
  /\ result = <<"E_SUCCESS", None>>
  /\ halted = FALSE

AbsAlloc(q, c) ==
  /\ order[q] = "free"
  /\ order' = [order EXCEPT ![q] = c]
  /\ result' = <<"E_SUCCESS", q>>
  /\ UNCHANGED <<contents, halted>>

AbsAllocFails ==
  /\ \A q \in Queues : order[q] # "free"
  /\ result' = <<"NULL", None>>
  /\ UNCHANGED <<order, contents, halted>>

AbsFree(q) ==
  /\ order[q] # "free"
  /\ order' = [order EXCEPT ![q] = "free"]
  /\ contents' = [contents EXCEPT ![q] = <<>>]
  /\ UNCHANGED <<result, halted>>

\* A new entry goes to the end, or behind the entries that are not greater.
AbsInsert(q, d) ==
  /\ \E i \in 0..Len(contents[q]) :
       /\ IF order[q] = "fifo" THEN i = Len(contents[q])
          ELSE InsertionPoint(contents[q], Key, Key[d], i)
       /\ contents' = [contents EXCEPT ![q] = InsertAfter(@, d, i)]
  /\ result' = <<"E_SUCCESS", None>>
  /\ UNCHANGED <<order, halted>>

AbsRemove(q) ==
  /\ contents[q] # <<>>
  /\ result' = <<"E_SUCCESS", Head(contents[q])>>
  /\ contents' = [contents EXCEPT ![q] = Tail(@)]
  /\ UNCHANGED <<order, halted>>

AbsRemoveBy(q, d) ==
  /\ \E i \in 1..Len(contents[q]) :
       /\ FirstEntry(contents[q], d, i)
       /\ contents' = [contents EXCEPT ![q] = DropEntry(@, i)]
  /\ result' = <<"E_SUCCESS", None>>
  /\ UNCHANGED <<order, halted>>

\* The calls that change nothing.
AbsAnswer(q) ==
  /\ \/ contents[q] = <<>> /\ result' = <<"E_EMPTY", None>>
     \/ contents[q] # <<>> /\ result' = <<"E_SUCCESS", Head(contents[q])>>
     \/ result' = <<"E_SUCCESS", Len(contents[q])>>
     \/ contents[q] # <<>> /\ result' = <<"E_NOT_FOUND", None>>
  /\ UNCHANGED <<order, contents, halted>>

\* Out of memory for qnodes.
AbsHalt == halted' = TRUE /\ UNCHANGED <<order, contents, result>>

AbsNext ==
  \/ \E q \in Queues :
       \/ \E c \in {"fifo", "ordered"} : AbsAlloc(q, c)
       \/ order[q] # "free" /\
            \/ AbsFree(q) \/ AbsRemove(q) \/ AbsAnswer(q)
            \/ \E d \in Data : AbsInsert(q, d) \/ AbsRemoveBy(q, d)
  \/ AbsAllocFails \/ AbsHalt

AbsSpec == AbsInit /\ [][AbsNext]_absVars
=============================================================================
