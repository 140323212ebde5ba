------------------------------- MODULE MCKmem -------------------------------
(***************************************************************************)
(* Kmem on five pages of memory in three pieces, one of them cut by a       *)
(* cutoff at each end, with scraps that are too small or not usable, and   *)
(* reported in any of several orders.                                      *)
(***************************************************************************)
EXTENDS Kmem

Entry(b, l) == [base |-> b, length |-> l, type |-> "usable"]
Reserved == [base |-> 16, length |-> 4, type |-> "reserved"]
LowPart == Entry(0, 10)       \* 1 page above the cutoff, and 2 KB
Middle == Entry(12, 4)        \* 1 page
HighPart == Entry(20, 20)     \* 3 pages below the cutoff
Scrap == Entry(16, 3)         \* less than a page
MCTables == {<<LowPart, Middle, Reserved, HighPart>>,
             <<HighPart, LowPart, Scrap, Middle>>,
             <<Middle, HighPart, LowPart, Entry(0, 3), Entry(40, 9)>>}
=============================================================================
