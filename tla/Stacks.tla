------------------------------- MODULE Stacks -------------------------------
(***************************************************************************)
(* The pool of process stacks of kernel/stacks.c, as operators on a record *)
(* that the process module keeps in a variable.                            *)
(*                                                                         *)
(* The free list is threaded through the FIRST WORD of each free stack     *)
(* (stk_free casts the stack to a list_t), so the links are state of the   *)
(* stacks themselves: clearing or copying over a stack also rewrites the   *)
(* link.  Stacks are numbered in the order in which km_page_alloc hands    *)
(* them out; 0 is the NULL pointer.                                        *)
(***************************************************************************)
EXTENDS Integers

CONSTANT MaxStacks   \* how many stacks km_page_alloc can provide in all

ASSUME MaxStacksAssumption == MaxStacks \in Nat /\ MaxStacks >= 2

NULL == 0
StackIds == 1..MaxStacks

\* head: free_stacks; link[s]: first word of stack s; count: pages handed out
StackPools == [head  : StackIds \cup {NULL},
               link  : [StackIds -> StackIds \cup {NULL}],
               count : 0..MaxStacks]

\* After stk_init() and main(): stack 1 is the kernel's, stack 2 is init's.
KERNEL_STACK == 1
INIT_STACK == 2
InitialPool == [head |-> NULL, link |-> [s \in StackIds |-> NULL], count |-> 2]

\* Faulty: one stack more than there is.
NextStack_Over(pool) ==
  IF pool.head # NULL THEN pool.head
  ELSE IF pool.count <= MaxStacks THEN pool.count + 1 ELSE NULL

\* The stack the next stk_alloc() returns: the top of the free list, else a
\* fresh one from km_page_alloc(STACK_PAGES), else NULL.
NextStack(pool) ==
  IF pool.head # NULL THEN pool.head
  ELSE IF pool.count < MaxStacks THEN pool.count + 1 ELSE NULL

\* stk_alloc(): unlink the stack, then memclr() it, its link word included.
stk_alloc(pool) ==
  [head  |-> IF pool.head # NULL THEN pool.link[pool.head] ELSE NULL,
   link  |-> [pool.link EXCEPT ![NextStack(pool)] = NULL],
   count |-> IF pool.head # NULL THEN pool.count ELSE pool.count + 1]

\* stk_free(): push on the list; nothing checks that it is not there already.
stk_free(pool, s) == [pool EXCEPT !.link[s] = pool.head, !.head = s]

\* blkmov(): the copy of a whole stack that fork() makes, link word included.
CopyStack(pool, to, from) == [pool EXCEPT !.link[to] = pool.link[from]]
=============================================================================
