------------------------------- MODULE Queues -------------------------------
(***************************************************************************)
(* kernel/queues.c: queues as linked lists of qnodes with head and tail    *)
(* pointers and a count, and the free list that the qnodes come from and   *)
(* return to.  A pointer is the number of a node; 0 is NULL.               *)
(***************************************************************************)
EXTENDS Integers, Sequences, FiniteSets

CONSTANTS
  Queues, Data, Key,   \* as in QueueSpec
  QNODES_PER_PAGE,     \* qnodes carved out of one page
  MaxPages             \* bound: pages km_page_alloc() can provide

ASSUME QueuesAssumption ==
  /\ Queues \subseteq Nat
  /\ Key \in [Data -> Nat]
  /\ QNODES_PER_PAGE \in Nat \ {0}
  /\ MaxPages \in Nat \ {0}

NULL == 0
Nodes == 1..(QNODES_PER_PAGE * MaxPages)
None == -1

VARIABLES
  head, tail, count,   \* the fields of queues[q]
  compare,             \* "none", or "fifo" (a NULL function), or "ordered"
  queue_free,          \* the flags
  free_qnodes,         \* the free list
  next, data,          \* the fields of the qnodes
  pages,               \* how many pages have been carved up
  result,              \* what the last call returned
  halted               \* in kpanic()

queueVars == <<head, tail, count, compare, queue_free>>
nodeVars == <<free_qnodes, next, data, pages>>
vars == <<head, tail, count, compare, queue_free, free_qnodes, next, data,
          pages, result, halted>>

-----------------------------------------------------------------------------
(* qnodes *)

\* qnode_add_page() frees the nodes of a page one by one, so the last of them
\* is the first on the list.
FirstOfPage == QNODES_PER_PAGE * pages + 1
PageLinks ==
  [n \in Nodes |->
     IF n = FirstOfPage THEN free_qnodes
     ELSE IF n \in FirstOfPage..(FirstOfPage + QNODES_PER_PAGE - 1) THEN n - 1
     ELSE next[n]]

\* qnode_alloc(): the free list that it takes the first node from.
OutOfNodes == free_qnodes = NULL /\ pages = MaxPages
Links == IF free_qnodes = NULL THEN PageLinks ELSE next
NewNode == IF free_qnodes = NULL THEN FirstOfPage + QNODES_PER_PAGE - 1
           ELSE free_qnodes

\* The node leaves the list and is filled in; links is what its user made of
\* the next fields after that.
TakeNode(d, links) ==
  /\ free_qnodes' = Links[NewNode]
  /\ pages' = IF free_qnodes = NULL THEN pages + 1 ELSE pages
  /\ data' = [data EXCEPT ![NewNode] = d]
  /\ next' = links

\* Faulty: the node keeps its link into the free list.
Cleared_Not == Links

Cleared == [Links EXCEPT ![NewNode] = NULL]     \* memclr( tmp )

\* qnode_free(): the node goes to the front of the free list.  (Its data, which
\* is not read again before qnode_alloc() clears it, is forgotten here.)
qnode_free(n, links) ==
  /\ next' = [links EXCEPT ![n] = free_qnodes]
  /\ free_qnodes' = n
  /\ data' = [data EXCEPT ![n] = None]
  /\ UNCHANGED pages

\* The node that a walk reaches after n links.
Walk(from) ==
  LET follow == [m \in Nodes \cup {NULL} |-> IF m = NULL THEN NULL ELSE next[m]]
      w[n \in 0..Cardinality(Nodes)] == IF n = 0 THEN from ELSE follow[w[n - 1]]
  IN  w

\* A hand-over-hand traversal stops after n steps: at the end of the list or
\* at the first node that stop holds for.  w[n] is curr, w[n - 1] is prev.
StopsAfter(w, n, stop) ==
  /\ w[n] = NULL \/ w[n] \in stop
  /\ \A k \in 0..(n - 1) : w[k] # NULL /\ w[k] \notin stop
prev(w, n) == IF n = 0 THEN NULL ELSE w[n - 1]

-----------------------------------------------------------------------------
(* Queue operations *)

Returns(status, value) == result' = <<status, value>> /\ UNCHANGED halted
InUse(q) == ~halted /\ ~queue_free[q]

\* assert1(): the pointers are NULL just when the count is 0.
Sane(q) == IF count[q] = 0 THEN head[q] = NULL /\ tail[q] = NULL
                           ELSE head[q] # NULL /\ tail[q] # NULL
Panic == halted' = TRUE /\ UNCHANGED <<queueVars, nodeVars, result>>

Init ==
  /\ head = [q \in Queues |-> NULL] /\ tail = [q \in Queues |-> NULL]
  /\ count = [q \in Queues |-> 0]
  /\ compare = [q \in Queues |-> "none"]
  /\ queue_free = [q \in Queues |-> TRUE]
  /\ free_qnodes = QNODES_PER_PAGE
  /\ next = [n \in Nodes |-> IF n \in 2..QNODES_PER_PAGE THEN n - 1 ELSE NULL]
  /\ data = [n \in Nodes |-> None]
  /\ pages = 1
  /\ result = <<"E_SUCCESS", None>>
  /\ halted = FALSE

\* que_alloc(): the first free queue, or NULL.
que_alloc(c) ==
  /\ ~halted
  /\ \/ \E q \in Queues :
          /\ queue_free[q] /\ \A r \in Queues : r < q => ~queue_free[r]
          /\ queue_free' = [queue_free EXCEPT ![q] = FALSE]
          /\ head' = [head EXCEPT ![q] = NULL]
          /\ tail' = [tail EXCEPT ![q] = NULL]
          /\ count' = [count EXCEPT ![q] = 0]
          /\ compare' = [compare EXCEPT ![q] = c]
          /\ Returns("E_SUCCESS", q)
     \/ /\ \A q \in Queues : ~queue_free[q]
        /\ Returns("NULL", None)
        /\ UNCHANGED queueVars
  /\ UNCHANGED nodeVars

\* que_free(): the entries, if there are any, are forgotten with their nodes.
que_free(q) ==
  /\ InUse(q)
  /\ queue_free' = [queue_free EXCEPT ![q] = TRUE]
  /\ head' = [head EXCEPT ![q] = NULL]
  /\ tail' = [tail EXCEPT ![q] = NULL]
  /\ count' = [count EXCEPT ![q] = 0]
  /\ compare' = [compare EXCEPT ![q] = "none"]
  /\ UNCHANGED <<nodeVars, result, halted>>

que_length(q) ==
  /\ InUse(q)
  /\ Returns("E_SUCCESS", count[q])
  /\ UNCHANGED <<queueVars, nodeVars>>

\* que_insert(), into an empty queue ...
InsertOnly(q, d) ==
  /\ count[q] = 0
  /\ head' = [head EXCEPT ![q] = NewNode]
  /\ tail' = [tail EXCEPT ![q] = NewNode]
  /\ TakeNode(d, Cleared)

\* Faulty: a FIFO queue is filled from the front.
InsertLast_Front(q, d) ==
  /\ count[q] # 0 /\ compare[q] = "fifo"
  /\ head' = [head EXCEPT ![q] = NewNode]
  /\ TakeNode(d, [Cleared EXCEPT ![NewNode] = head[q]])
  /\ UNCHANGED tail

\* ... at the end of a FIFO queue ...
InsertLast(q, d) ==
  /\ count[q] # 0 /\ compare[q] = "fifo"
  /\ tail' = [tail EXCEPT ![q] = NewNode]
  /\ TakeNode(d, [Cleared EXCEPT ![tail[q]] = NewNode])
  /\ UNCHANGED head

\* Faulty: the tail is not moved when the new entry is the last one.
InsertOrdered_KeepTail(q, d) ==
  LET w == Walk(head[q])
  IN  /\ count[q] # 0 /\ compare[q] = "ordered"
      /\ \E n \in DOMAIN w :
           /\ StopsAfter(w, n, {m \in Nodes : data[m] \in Data /\ Key[d] < Key[data[m]]})
           /\ TakeNode(d, [m \in Nodes |-> IF m = NewNode THEN w[n]
                                           ELSE IF m = prev(w, n) THEN NewNode
                                           ELSE Cleared[m]])
           /\ head' = IF n = 0 THEN [head EXCEPT ![q] = NewNode] ELSE head
      /\ UNCHANGED tail

\* ... or behind the entries of an ordered one that are not greater.
InsertOrdered(q, d) ==
  LET w == Walk(head[q])
  IN  /\ count[q] # 0 /\ compare[q] = "ordered"
      /\ \E n \in DOMAIN w :
           /\ StopsAfter(w, n, {m \in Nodes : data[m] \in Data /\ Key[d] < Key[data[m]]})
           /\ TakeNode(d, [m \in Nodes |-> IF m = NewNode THEN w[n]
                                           ELSE IF m = prev(w, n) THEN NewNode
                                           ELSE Cleared[m]])
           /\ head' = IF n = 0 THEN [head EXCEPT ![q] = NewNode] ELSE head
           /\ tail' = IF n # 0 /\ w[n] = NULL THEN [tail EXCEPT ![q] = NewNode]
                      ELSE tail

que_insert(q, d) ==
  /\ InUse(q)
  /\ IF OutOfNodes \/ ~Sane(q) THEN Panic
     ELSE /\ InsertOnly(q, d) \/ InsertLast(q, d) \/ InsertOrdered(q, d)
          /\ count' = [count EXCEPT ![q] = @ + 1]
          /\ Returns("E_SUCCESS", None)
          /\ UNCHANGED <<compare, queue_free>>

\* que_peek(): the first entry.
que_peek(q) ==
  /\ InUse(q)
  /\ \/ count[q] = 0 /\ Returns("E_EMPTY", None) /\ UNCHANGED <<queueVars, nodeVars>>
     \/ /\ count[q] # 0
        /\ IF ~Sane(q) THEN Panic
           ELSE Returns("E_SUCCESS", data[head[q]]) /\ UNCHANGED <<queueVars, nodeVars>>

\* que_remove(): the first entry is taken out and its node freed.
que_remove(q) ==
  /\ InUse(q)
  /\ \/ count[q] = 0 /\ Returns("E_EMPTY", None) /\ UNCHANGED <<queueVars, nodeVars>>
     \/ /\ count[q] # 0
        /\ IF ~Sane(q) THEN Panic
           ELSE /\ head' = [head EXCEPT ![q] = next[head[q]]]
                /\ tail' = IF next[head[q]] = NULL THEN [tail EXCEPT ![q] = NULL] ELSE tail
                /\ count' = [count EXCEPT ![q] = @ - 1]
                /\ qnode_free(head[q], next)
                /\ Returns("E_SUCCESS", data[head[q]])
                /\ UNCHANGED <<compare, queue_free>>

\* Faulty: the tail pointer stays at the node that is freed.
Unlink_KeepTail(q, w, n) ==
  /\ head' = IF n = 0 THEN [head EXCEPT ![q] = next[w[n]]] ELSE head
  /\ count' = [count EXCEPT ![q] = @ - 1]
  /\ qnode_free(w[n], [m \in Nodes |-> IF m = prev(w, n) THEN next[w[n]] ELSE next[m]])
  /\ Returns("E_SUCCESS", None)
  /\ UNCHANGED <<tail, compare, queue_free>>

\* que_remove_by() unlinks the node that the walk w reaches in n steps.
Unlink(q, w, n) ==
  /\ head' = IF n = 0 THEN [head EXCEPT ![q] = next[w[n]]] ELSE head
  /\ tail' = IF next[w[n]] = NULL THEN [tail EXCEPT ![q] = prev(w, n)] ELSE tail
  /\ count' = [count EXCEPT ![q] = @ - 1]
  /\ qnode_free(w[n], [m \in Nodes |-> IF m = prev(w, n) THEN next[w[n]] ELSE next[m]])
  /\ Returns("E_SUCCESS", None)
  /\ UNCHANGED <<compare, queue_free>>

\* que_remove_by(): the first node with the value d is unlinked.
que_remove_by(q, d) ==
  LET w == Walk(head[q])
  IN  /\ InUse(q)
      /\ \/ /\ count[q] = 0 /\ Returns("E_EMPTY", None)
            /\ UNCHANGED <<queueVars, nodeVars>>
         \/ /\ count[q] # 0
            /\ IF ~Sane(q) THEN Panic
               ELSE \E n \in DOMAIN w :
                      /\ StopsAfter(w, n, {m \in Nodes : data[m] = d})
                      /\ \/ /\ w[n] = NULL /\ Returns("E_NOT_FOUND", None)
                            /\ UNCHANGED <<queueVars, nodeVars>>
                         \/ w[n] # NULL /\ Unlink(q, w, n)

Halted == halted /\ UNCHANGED vars

Next ==
  \/ \E c \in {"fifo", "ordered"} : que_alloc(c)
  \/ \E q \in Queues :
       \/ que_free(q) \/ que_length(q) \/ que_peek(q) \/ que_remove(q)
       \/ \E d \in Data : que_insert(q, d) \/ que_remove_by(q, d)
  \/ Halted

Spec == Init /\ [][Next]_vars

-----------------------------------------------------------------------------
(* Correctness *)

\* The nodes of a list, from its first one.
NodesFrom(from) == {Walk(from)[n] : n \in 0..Cardinality(Nodes)} \ {NULL}

\* Every qnode is in at most one place, a queue or the free list, and every
\* list ends: que_insert(), que_remove() and que_remove_by() move nodes between
\* the lists by hand.
NodesInOnePlace ==
  /\ Walk(free_qnodes)[Cardinality(Nodes)] = NULL
  /\ \A q \in Queues :
       /\ Cardinality(NodesFrom(head[q])) = count[q]
       /\ NodesFrom(head[q]) \cap NodesFrom(free_qnodes) = {}
       /\ \A r \in Queues \ {q} : NodesFrom(head[q]) \cap NodesFrom(head[r]) = {}

\* The tail pointer is the last node of the list that starts at head.
TailIsLast ==
  \A q \in Queues :
    IF count[q] = 0 THEN head[q] = NULL /\ tail[q] = NULL
    ELSE tail[q] = Walk(head[q])[count[q] - 1] /\ next[tail[q]] = NULL

\* The only panic is the lack of memory for qnodes: the assertions that relate
\* the count of a queue to its pointers hold.
PanicsOnlyWhenOut == halted => OutOfNodes

\* What the queues hold, as QueueSpec sees it.
Contents == [q \in Queues |->
               [i \in 1..count[q] |-> data[Walk(head[q])[i - 1]]]]
Order == [q \in Queues |-> IF queue_free[q] THEN "free" ELSE compare[q]]

\* The linked lists implement the sequences: every call changes the contents
\* and returns what QueueSpec says.
Abstract == INSTANCE QueueSpec WITH order <- Order, contents <- Contents
ImplementsQueueSpec == Abstract!AbsSpec
=============================================================================
