------------------------------ MODULE QueueOps ------------------------------
(***************************************************************************)
(* The kernel queues of kernel/queues.c as sequences of entries, front     *)
(* first: what the operations do to the contents of a queue.  Module       *)
(* Queues shows that the linked qnodes implement this.                     *)
(***************************************************************************)
EXTENDS Integers, Sequences

Elements(q) == {q[i] : i \in 1..Len(q)}
NoDuplicates(q) == \A i, j \in 1..Len(q) : i # j => q[i] # q[j]

IsFirst(x, S) == x \in S /\ \A y \in S : x <= y   \* found by a scan upwards
IsLast(x, S) == x \in S /\ \A y \in S : y <= x    \* the last one it finds

\* Faulty: the traversal goes the wrong way.
InsertionPoint_Down(q, key, k, i) ==
  /\ i \in 0..Len(q)
  /\ \A j \in 1..i : key[q[j]] >= k
  /\ i < Len(q) => key[q[i + 1]] < k

\* que_insert() on an ordered queue: x goes behind the first i entries; the
\* traversal passes every entry whose key is not greater than that of x.
InsertAfter(q, x, i) ==
  [j \in 1..(Len(q) + 1) |->
     IF j <= i THEN q[j] ELSE IF j = i + 1 THEN x ELSE q[j - 1]]
InsertionPoint(q, key, k, i) ==
  /\ i \in 0..Len(q)
  /\ \A j \in 1..i : key[q[j]] <= k
  /\ i < Len(q) => key[q[i + 1]] > k

\* Faulty: the entry at the front is unlinked, whichever was found.
DropEntry_Front(q, i) == Tail(q)

\* que_remove_by(): the first entry for x is number i; it is dropped.
FirstEntry(q, x, i) == IsFirst(i, {j \in 1..Len(q) : q[j] = x})
DropEntry(q, i) ==
  [j \in 1..(Len(q) - 1) |-> IF j < i THEN q[j] ELSE q[j + 1]]
=============================================================================
