-------------------------------- MODULE Kmem --------------------------------
(***************************************************************************)
(* kernel/kmem.c: the allocator of pages and of slices (quarters of pages) *)
(* The free blocks are a list in order of their addresses, threaded, with  *)
(* their lengths, through the memory itself; so are the free slices.       *)
(* Addresses and lengths are in units of a slice (1 KB).                   *)
(***************************************************************************)
EXTENDS Integers, Sequences, FiniteSets

CONSTANTS
  Tables,          \* the memory maps the BIOS may report
  KM_LOW_CUTOFF, KM_HIGH_CUTOFF,
  Counts,          \* arguments of km_page_alloc()
  MaxSlicePages    \* bound: pages that are carved into slices

SZ_PAGE == 4
NULL == -1
JUNK == -2         \* a word that the allocator does not own
Addresses == KM_LOW_CUTOFF..(KM_HIGH_CUTOFF - 1)

ASSUME KmemAssumption ==
  /\ KM_LOW_CUTOFF \in Nat /\ KM_HIGH_CUTOFF \in Nat
  /\ KM_LOW_CUTOFF < KM_HIGH_CUTOFF
  /\ Counts \subseteq Nat \ {0}
  /\ MaxSlicePages \in Nat

VARIABLES
  heap,            \* free_pages, n_pages, and the blkinfo_t at every address
  free_slices, n_slices,
  regions,         \* entries of the memory map not yet looked at
  km_initialized,
  owned,           \* blocks callers have: <<address, pages>>
  slices,          \* slices callers have
  carved,          \* pages that were carved into slices
  result,          \* what km_page_alloc() last returned
  halted           \* an assertion failed

vars == <<heap, free_slices, n_slices, regions, km_initialized, owned, slices,
          carved, result, halted>>

P2B(x) == SZ_PAGE * x
Ready == km_initialized /\ ~halted

\* The blocks of a list that has at most max of them: w[n] is the one after n
\* links.
MaxBlocks == Cardinality(Addresses) \div SZ_PAGE
MaxSlices == Cardinality(Addresses)
Walk(h, from, max) ==
  LET follow == [a \in Addresses \cup {NULL, JUNK} |->
                   IF a \in Addresses THEN h.next[a] ELSE a]
      w[n \in 0..max] == IF n = 0 THEN from ELSE follow[w[n - 1]]
  IN  w

\* The traversals of the list of blocks stop at its end or at the first block
\* in stop: curr, and prev, NULL if curr is the first.
Steps(h, stop) ==
  LET w == Walk(h, h.free_pages, MaxBlocks)
  IN  CHOOSE n \in 0..MaxBlocks :
        /\ w[n] \in stop \cup {NULL}
        /\ \A k \in 0..(n - 1) : w[k] \notin stop \cup {NULL}
Curr(h, stop) == Walk(h, h.free_pages, MaxBlocks)[Steps(h, stop)]
Prev(h, stop) == IF Steps(h, stop) = 0 THEN NULL
                 ELSE Walk(h, h.free_pages, MaxBlocks)[Steps(h, stop) - 1]

\* The pointer to the block after prev, which may be free_pages, becomes b.
Relink(h, prev, b) ==
  IF prev = NULL THEN [h EXCEPT !.free_pages = b] ELSE [h EXCEPT !.next[prev] = b]

\* The words from a on are the caller's.
Forget(h, a, length) ==
  [h EXCEPT !.pages = [b \in Addresses |-> IF b \in a..(a + length - 1) THEN JUNK ELSE @[b]],
            !.next  = [b \in Addresses |-> IF b \in a..(a + length - 1) THEN JUNK ELSE @[b]]]

-----------------------------------------------------------------------------
(* km_init() *)

Init ==
  /\ heap = [free_pages |-> NULL, n_pages |-> 0,
             pages |-> [a \in Addresses |-> JUNK],
             next |-> [a \in Addresses |-> JUNK]]
  /\ free_slices = NULL /\ n_slices = 0
  /\ regions \in Tables
  /\ km_initialized = FALSE
  /\ owned = {} /\ slices = {} /\ carved = {}
  /\ result = NULL
  /\ halted = FALSE

\* The part of a region that lies between the cutoffs.
Low(r) == IF r.base < KM_LOW_CUTOFF THEN KM_LOW_CUTOFF ELSE r.base
High(r) == IF r.base + r.length >= KM_HIGH_CUTOFF THEN KM_HIGH_CUTOFF
           ELSE r.base + r.length
Usable(r) == /\ r.type = "usable"
             /\ r.base <= KM_HIGH_CUTOFF
             /\ High(r) >= KM_LOW_CUTOFF
WholePages(r) == (High(r) - Low(r)) \div SZ_PAGE

\* Two blocks <<address, pages>> with at least so much memory between them, and
\* a memory map whose usable parts are that far apart.
Apart(x, y, gap) == \/ x[1] + P2B(x[2]) + gap <= y[1]
                    \/ y[1] + P2B(y[2]) + gap <= x[1]
Added(r) == Usable(r) /\ WholePages(r) > 0
BlockOf(r) == <<Low(r), WholePages(r)>>
MapApart(table, gap) ==
  \A i, j \in DOMAIN table :
    i # j /\ Added(table[i]) /\ Added(table[j]) =>
      Apart(BlockOf(table[i]), BlockOf(table[j]), gap)

\* km_init() relies on the BIOS for a map whose usable parts do not overlap.
Region == [base : Nat, length : Nat, type : {"usable", "reserved"}]
ASSUME TablesAssumption ==
  \A t \in Tables : t \in Seq(Region) /\ t # <<>> /\ MapApart(t, 0)

\* The blocks that a block at this address goes before.
Place(base) == {a \in Addresses : a >= base}

\* add_block(): whole pages go into the list, in order of addresses; blocks
\* are not merged here.
add_block(h, base, length) ==
  IF length < SZ_PAGE THEN h
  ELSE Relink([h EXCEPT !.pages[base] = length \div SZ_PAGE,
                        !.next[base] = Curr(h, Place(base)),
                        !.n_pages = @ + length \div SZ_PAGE],
              Prev(h, Place(base)), base)

\* One entry of the memory map.
AddRegion ==
  /\ regions # <<>>
  /\ LET r == Head(regions)
     IN  heap' = IF Usable(r) THEN add_block(heap, Low(r), High(r) - Low(r)) ELSE heap
  /\ regions' = Tail(regions)
  /\ UNCHANGED <<free_slices, n_slices, km_initialized, owned, slices, carved,
                 result, halted>>

InitDone ==
  /\ regions = <<>> /\ ~km_initialized
  /\ km_initialized' = TRUE
  /\ UNCHANGED <<heap, free_slices, n_slices, regions, owned, slices, carved,
                 result, halted>>

-----------------------------------------------------------------------------
(* Pages *)

\* The first block that is large enough.
Large(h, count) == {a \in Addresses : h.pages[a] >= count}
Fit(h, count) == Curr(h, Large(h, count))

\* Faulty: what is left over is thought to begin one page early.
Fragment_Early(block, count) == block + P2B(count) - P2B(1)

Fragment(block, count) == block + P2B(count)

\* km_page_alloc() when there is one: the whole of it, or its first pages.
TakePages(h, count) ==
  LET block == Fit(h, count)
      prev  == Prev(h, Large(h, count))
      rest  == Fragment(block, count)
      left  == IF h.pages[block] = count THEN Relink(h, prev, h.next[block])
               ELSE Relink([h EXCEPT !.pages[rest] = h.pages[block] - count,
                                     !.next[rest] = h.next[block]], prev, rest)
  IN  Forget([left EXCEPT !.n_pages = @ - count], block, P2B(count))

km_page_alloc(count) ==
  /\ Ready
  /\ result' = Fit(heap, count)
  /\ \/ /\ result' = NULL
        /\ UNCHANGED <<heap, owned>>
     \/ /\ result' # NULL
        /\ heap' = TakePages(heap, count)
        /\ owned' = owned \cup {<<result', count>>}
  /\ UNCHANGED <<free_slices, n_slices, regions, km_initialized, slices, carved,
                 halted>>

\* The block b is now a part of the block at first.  (Its header, which is not
\* read again, is forgotten.)
Join(h, first, b) ==
  [h EXCEPT !.pages[first] = @ + h.pages[b], !.pages[b] = JUNK, !.next[b] = JUNK]
Ends(h, first, b) == first # NULL /\ b # NULL /\ first + P2B(h.pages[first]) = b

\* The block used is merged with its successor if it ends where that begins.
MergeNext(h, used, curr) ==
  IF ~Ends(h, used, curr) THEN h
  ELSE [Join(h, used, curr) EXCEPT !.next[used] = h.next[curr]]

\* Faulty: a block that is merged with its predecessor is not merged with its
\* successor too.
Insert_Once(h, prev, block, curr) ==
  IF Ends(h, prev, block) THEN Join(h, prev, block)
  ELSE MergeNext(Relink([h EXCEPT !.next[block] = curr], prev, block), block, curr)

\* The block goes between prev and curr, merged with one, the other or both.
Insert(h, prev, block, curr) ==
  IF Ends(h, prev, block) THEN MergeNext(Join(h, prev, block), prev, curr)
  ELSE MergeNext(Relink([h EXCEPT !.next[block] = curr], prev, block), block, curr)

\* km_page_free_multi(): a block of count pages is freed.
km_page_free_multi(h, block, count) ==
  Insert([h EXCEPT !.pages[block] = count, !.n_pages = @ + count],
         Prev(h, Place(block)), block, Curr(h, Place(block)))

FreeBlock ==
  /\ Ready
  /\ \E b \in owned :
       /\ heap' = km_page_free_multi(heap, b[1], b[2])
       /\ owned' = owned \ {b}
  /\ UNCHANGED <<free_slices, n_slices, regions, km_initialized, slices, carved,
                 result, halted>>

\* km_page_free(): one page of a larger block; the caller keeps the rest.
km_page_free ==
  /\ Ready
  /\ \E b \in owned : \E i \in 0..(b[2] - 1) :
       /\ b[2] > 1
       /\ heap' = km_page_free_multi(heap, b[1] + P2B(i), 1)
       /\ owned' = (owned \ {b}) \cup
            {c \in {<<b[1], i>>, <<b[1] + P2B(i + 1), b[2] - i - 1>>} : c[2] > 0}
  /\ UNCHANGED <<free_slices, n_slices, regions, km_initialized, slices, carved,
                 result, halted>>

-----------------------------------------------------------------------------
(* Slices *)

\* Faulty: the first slice begins one slice too far.
SlicesOf_Off(page) == (page + 1)..(page + SZ_PAGE)

SlicesOf(page) == page..(page + SZ_PAGE - 1)

\* carve_slices(): km_slice_free() of the slices of a page, from the first to
\* the last, so that the last is on top of the list.
carve_slices(h, page) ==
  [h EXCEPT
     !.pages = [a \in Addresses |-> IF a \in SlicesOf(page) THEN 1 ELSE @[a]],
     !.next  = [a \in Addresses |->
                  IF a \notin SlicesOf(page) THEN @[a]
                  ELSE IF a - 1 \in SlicesOf(page) THEN a - 1 ELSE NULL]]
LastSlice(page) == CHOOSE s \in SlicesOf(page) : s + 1 \notin SlicesOf(page)

\* The first slice of the list leaves it.
TakeSlice(h, slice) ==
  /\ free_slices' = h.next[slice]
  /\ heap' = Forget(h, slice, 1)
  /\ slices' = slices \cup {slice}

\* km_slice_alloc(): from the list if it is not empty ...
km_slice_alloc ==
  /\ Ready
  /\ free_slices # NULL
  /\ TakeSlice(heap, free_slices)
  /\ n_slices' = n_slices - 1
  /\ UNCHANGED <<regions, km_initialized, owned, carved, result, halted>>

\* ... else after a page was carved up, which has to be there.  Each slice is
\* counted twice, in km_slice_free() and in carve_slices().
CarveAndAlloc ==
  /\ Ready
  /\ free_slices = NULL
  /\ Cardinality(carved) < MaxSlicePages
  /\ result' = Fit(heap, 1)
  /\ \/ /\ result' = NULL
        /\ halted' = TRUE
        /\ UNCHANGED <<heap, free_slices, n_slices, slices, carved>>
     \/ /\ result' # NULL
        /\ TakeSlice(carve_slices(TakePages(heap, 1), result'), LastSlice(result'))
        /\ n_slices' = n_slices + 2 * SZ_PAGE - 1
        /\ carved' = carved \cup {result'}
        /\ UNCHANGED halted
  /\ UNCHANGED <<regions, km_initialized, owned>>

km_slice_free ==
  /\ Ready
  /\ \E s \in slices :
       /\ heap' = [heap EXCEPT !.pages[s] = 1, !.next[s] = free_slices]
       /\ free_slices' = s
       /\ slices' = slices \ {s}
  /\ n_slices' = n_slices + 1
  /\ UNCHANGED <<regions, km_initialized, owned, carved, result, halted>>

Halted == halted /\ UNCHANGED vars

Next ==
  \/ AddRegion \/ InitDone
  \/ \E n \in Counts : km_page_alloc(n)
  \/ FreeBlock \/ km_page_free
  \/ km_slice_alloc \/ CarveAndAlloc \/ km_slice_free
  \/ Halted

Spec == Init /\ [][Next]_vars

-----------------------------------------------------------------------------
(* Correctness *)

\* The members of a list, and the addresses of the pages of the free blocks.
Listed(from, max) == {Walk(heap, from, max)[n] : n \in 0..max} \ {NULL}
PagesAt(b, n) == {b + P2B(i) : i \in 0..(n - 1)}
FreePages == UNION {PagesAt(b, heap.pages[b]) : b \in Listed(heap.free_pages, MaxBlocks)}
OwnedPages == UNION {PagesAt(b[1], b[2]) : b \in owned}
PagesOf(table) ==
  UNION {PagesAt(Low(table[i]), WholePages(table[i])) :
           i \in {j \in DOMAIN table : Usable(table[j])}}

\* Every page of the memory map is in exactly one place, whatever callers
\* allocate and give back in whatever pieces: free, a caller's, or carved up.
\* The free blocks are as many pages as n_pages says and do not overlap.
PagesAccounted ==
  km_initialized =>
    /\ Walk(heap, heap.free_pages, MaxBlocks)[MaxBlocks] = NULL
    /\ Cardinality(FreePages) = heap.n_pages
    /\ FreePages \cap OwnedPages = {}
    /\ carved \cap (FreePages \cup OwnedPages) = {}
    /\ \E t \in Tables : PagesOf(t) = FreePages \cup OwnedPages \cup carved

\* Every slice of a carved page is in exactly one place: free or a caller's;
\* and every slice is a part of a carved page.
SlicesAccounted ==
  /\ Walk(heap, free_slices, MaxSlices)[MaxSlices] = NULL
  /\ Listed(free_slices, MaxSlices) \cap slices = {}
  /\ Listed(free_slices, MaxSlices) \cup slices = UNION {p..(p + SZ_PAGE - 1) : p \in carved}

\* The allocator implements a set of pages: a request for contiguous pages
\* fails only if there are not that many contiguous free pages, because blocks
\* are merged when they are freed.
Abstract == INSTANCE KmemSpec WITH free <- FreePages
ImplementsPageSpec == Abstract!PageSpec
=============================================================================
