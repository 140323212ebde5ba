------------------------------ MODULE KmemSpec ------------------------------
(***************************************************************************)
(* What kernel/kmem.c promises its callers about pages: a set of free      *)
(* pages, from which a request for n contiguous ones is served whenever    *)
(* there are n contiguous ones.  Pages are named by their addresses.       *)
(***************************************************************************)
EXTENDS Integers

CONSTANTS SZ_PAGE, NULL, Counts

VARIABLES free, result
specVars == <<free, result>>

Run(b, n) == {b + SZ_PAGE * i : i \in 0..(n - 1)}

SpecInit == free = {} /\ result = NULL

\* Contiguous pages, from first to last, are added at start-up, or given back.
SpecAdd ==
  LET added == free' \ free
  IN  /\ free \subseteq free'
      /\ \E first, last \in added : added = Run(first, (last - first) \div SZ_PAGE + 1)
      /\ UNCHANGED result

\* A request for n pages is served, or there are not that many.
SpecAlloc(n) ==
  \/ /\ free' \subseteq free
     /\ free \ free' = Run(result', n)
  \/ /\ result' = NULL
     /\ \A b \in free : ~(Run(b, n) \subseteq free)
     /\ UNCHANGED free

SpecNext == SpecAdd \/ \E n \in Counts \cup {1} : SpecAlloc(n)

PageSpec == SpecInit /\ [][SpecNext]_specVars
=============================================================================
