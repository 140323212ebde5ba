----------------------------- MODULE KmemProofs -----------------------------
(***************************************************************************)
(* The allocator of kernel/kmem.c, for every memory map whose usable parts *)
(* do not overlap: no page and no slice is lost or in two places, and the  *)
(* list of blocks implements a set of pages.                               *)
(*                                                                         *)
(* The list of blocks is in order of addresses, so it is described by the  *)
(* set L of its members alone: every link leads to the least member beyond *)
(* it.  The list of slices is a stack, described by an array l, in which   *)
(* l[n] is the top and l[0] is NULL.                                       *)
(***************************************************************************)
EXTENDS Kmem, FiniteSetTheorems, TLAPS

-----------------------------------------------------------------------------
(* Numbers and walks *)

\* A non-empty set of numbers has a least one.
LEMMA LeastNumber ==
  ASSUME NEW T, T \subseteq Nat, T # {}
  PROVE  \E x \in T : \A y \in T : x <= y
  <1>1. PICK x \in T : \A y \in T : ~ (<<y, x>> \in OpToRel(<, Nat))
    BY NatLessThanWellFounded, WFMin, Zenon
  <1>2. \A y \in T : ~(y < x)
    BY <1>1 DEF OpToRel
  <1> QED  BY <1>2

LEMMA AddressesFinite ==
  /\ IsFiniteSet(Addresses)
  /\ Cardinality(Addresses) = KM_HIGH_CUTOFF - KM_LOW_CUTOFF
  /\ MaxBlocks \in Nat /\ MaxSlices \in Nat
  /\ \A a \in Addresses : a \in Nat /\ a # NULL /\ a # JUNK
  <1>1. KM_LOW_CUTOFF \in Int /\ KM_HIGH_CUTOFF - 1 \in Int
    BY KmemAssumption
  <1>2. /\ IsFiniteSet(Addresses)
        /\ Cardinality(Addresses) = KM_HIGH_CUTOFF - KM_LOW_CUTOFF
    BY <1>1, FS_Interval, KmemAssumption DEF Addresses
  <1> QED  BY <1>2, KmemAssumption DEF Addresses, NULL, JUNK, MaxBlocks, MaxSlices, SZ_PAGE

\* One step of a walk; where it may be; and what a walk of m steps is.
Words == Addresses \cup {NULL, JUNK}
Follow(next) == [a \in Words |-> IF a \in Addresses THEN next[a] ELSE a]
Extend(f, from, m, w) == [n \in 0..m |-> IF n = 0 THEN from ELSE f[w[n - 1]]]
IsWalk(f, from, m, w) == w = Extend(f, from, m, w)

LEMMA ExtendIs ==
  ASSUME NEW f, NEW from, NEW m \in Nat, NEW w
  PROVE  /\ DOMAIN Extend(f, from, m, w) = 0..m
         /\ Extend(f, from, m, w)[0] = from
         /\ \A i \in 1..m : Extend(f, from, m, w)[i] = f[w[i - 1]]
  BY DEF Extend

\* There is a walk of any length, ...
LEMMA WalkExists ==
  ASSUME NEW f, NEW from, NEW m \in Nat
  PROVE  \E w : IsWalk(f, from, m, w)
  <1> DEFINE T == {k \in Nat : ~ \E w : IsWalk(f, from, k, w)}
  <1> SUFFICES ASSUME T # {} PROVE FALSE
    OBVIOUS
  <1>1. PICK k \in T : \A y \in T : k <= y
    BY LeastNumber
  <1>2. k \in Nat /\ ~ \E w : IsWalk(f, from, k, w)
    BY <1>1
  <1>3. CASE k = 0
    <2> DEFINE w == [n \in 0..0 |-> from]
    <2>1. w = Extend(f, from, 0, w)
      BY DEF Extend
    <2> QED  BY <1>2, <1>3, <2>1 DEF IsWalk
  <1>4. CASE k # 0
    <2>1. k - 1 \in Nat /\ k - 1 \notin T
      BY <1>1, <1>2, <1>4
    <2>2. PICK w : IsWalk(f, from, k - 1, w)
      BY <2>1
    <2>3. /\ DOMAIN w = 0..(k - 1) /\ w[0] = from
          /\ \A i \in 1..(k - 1) : w[i] = f[w[i - 1]]
      BY <2>1, <2>2, ExtendIs DEF IsWalk
    <2> DEFINE v == Extend(f, from, k, w)
    <2>4. /\ v[0] = from
          /\ \A i \in 1..k : v[i] = f[w[i - 1]]
      BY <1>2, ExtendIs
    <2> HIDE DEF v
    <2>5. ASSUME NEW i \in 0..(k - 1) PROVE v[i] = w[i]
      <3>1. CASE i = 0
        BY <3>1, <2>3, <2>4
      <3>2. CASE i # 0
        <4>1. i \in 1..k /\ i \in 1..(k - 1)
          BY <3>2, <1>2, <1>4
        <4> QED  BY <4>1, <2>3, <2>4
      <3> QED  BY <3>1, <3>2
    <2>6. \A n \in 0..k : (IF n = 0 THEN from ELSE f[w[n - 1]])
                          = (IF n = 0 THEN from ELSE f[v[n - 1]])
      <3>1. \A n \in 0..k : n # 0 => n - 1 \in 0..(k - 1)
        BY <1>2
      <3> QED  BY <3>1, <2>5, Zenon
    <2>7. Extend(f, from, k, w) = Extend(f, from, k, v)
      BY <2>6, Zenon DEF Extend
    <2>8. IsWalk(f, from, k, v)
      BY <2>7 DEF IsWalk, v
    <2> QED  BY <1>2, <2>8
  <1> QED  BY <1>3, <1>4

\* ... so Walk() is one.
LEMMA WalkIs ==
  ASSUME NEW h, NEW from, NEW max \in Nat
  PROVE  /\ Walk(h, from, max)[0] = from
         /\ \A i \in 1..max : Walk(h, from, max)[i] = Follow(h.next)[Walk(h, from, max)[i - 1]]
  <1>1. \E w : IsWalk(Follow(h.next), from, max, w)
    BY WalkExists
  <1>2. IsWalk(Follow(h.next), from, max, Walk(h, from, max))
    BY <1>1, Zenon DEF IsWalk, Extend, Walk, Follow, Words
  <1> QED  BY <1>2, ExtendIs DEF IsWalk

-----------------------------------------------------------------------------
(* Lists in order of addresses *)

\* f is the least member of L beyond x, or NULL if there is none.
After(L, x, f) ==
  \/ f = NULL /\ \A b \in L : b <= x
  \/ f \in L /\ f > x /\ \A b \in L : b > x => f <= b

\* The members of the list are L, and they are blocks of at least a page.
Ordered(first, next, L) ==
  /\ L \subseteq Addresses
  /\ After(L, NULL, first)
  /\ \A a \in L : After(L, a, next[a])
Spaced(L) ==
  \A a \in L : /\ a + 4 <= KM_HIGH_CUTOFF
               /\ \A b \in L : a < b => a + 4 <= b
BlockList(h, L) == Ordered(h.free_pages, h.next, L) /\ Spaced(L)

BlockWalk(h) == Walk(h, h.free_pages, MaxBlocks)

\* The walk begins at the first block and follows the links up to NULL.
LEMMA WalkSteps ==
  ASSUME NEW h, NEW from, NEW max \in Nat
  PROVE  /\ Walk(h, from, max)[0] = from
         /\ \A i \in 0..max : i + 1 <= max =>
              /\ Walk(h, from, max)[i] \in Addresses =>
                   Walk(h, from, max)[i + 1] = h.next[Walk(h, from, max)[i]]
              /\ Walk(h, from, max)[i] = NULL => Walk(h, from, max)[i + 1] = NULL
  <1> DEFINE w == Walk(h, from, max)
             f == Follow(h.next)
  <1>1. /\ w[0] = from
        /\ \A i \in 1..max : w[i] = f[w[i - 1]]
    BY WalkIs
  <1>2. /\ \A a \in Addresses : f[a] = h.next[a]
        /\ f[NULL] = NULL
    BY AddressesFinite DEF Follow, Words
  <1> HIDE DEF w, f
  <1>3. ASSUME NEW i \in 0..max, i + 1 <= max
        PROVE  w[i + 1] = f[w[i]]
    <2>1. i + 1 \in 1..max /\ (i + 1) - 1 = i
      BY <1>3
    <2> QED  BY <2>1, <1>1
  <1> QED  BY <1>1, <1>2, <1>3 DEF w

\* The nth block of the walk is at least n pages beyond the low cutoff.
LEMMA WalkInList ==
  ASSUME NEW h, NEW L, BlockList(h, L), NEW n \in 0..MaxBlocks
  PROVE  /\ BlockWalk(h)[n] \in L \cup {NULL}
         /\ BlockWalk(h)[n] \in L => BlockWalk(h)[n] >= KM_LOW_CUTOFF + 4 * n
  <1> DEFINE w == BlockWalk(h)
             P(k) == /\ w[k] \in L \cup {NULL}
                     /\ w[k] \in L => w[k] >= KM_LOW_CUTOFF + 4 * k
             T == {k \in 0..MaxBlocks : ~P(k)}
  <1>0. /\ MaxBlocks \in Nat /\ L \subseteq Addresses
        /\ w[0] = h.free_pages
        /\ \A i \in 0..MaxBlocks : i + 1 <= MaxBlocks =>
              /\ w[i] \in Addresses => w[i + 1] = h.next[w[i]]
              /\ w[i] = NULL => w[i + 1] = NULL
    BY AddressesFinite, WalkSteps DEF BlockWalk, BlockList, Ordered
  <1>1. \A a \in Addresses : a \in Nat /\ a # NULL /\ a >= KM_LOW_CUTOFF
    BY AddressesFinite, KmemAssumption DEF Addresses
  <1> HIDE DEF w
  <1>2. T \subseteq Nat
    BY <1>0
  <1>9. n \notin T => P(n)
    OBVIOUS
  <1> HIDE DEF T
  <1> SUFFICES ASSUME T # {} PROVE FALSE
    BY <1>9 DEF w
  <1> USE DEF T
  <1>3. PICK k \in T : \A y \in T : k <= y
    BY <1>2, LeastNumber
  <1>4. k # 0
    <2>1. P(0)
      BY <1>0, <1>1, KmemAssumption DEF BlockList, Ordered, After
    <2> QED  BY <1>3, <2>1
  <1>5. k - 1 \in 0..MaxBlocks /\ (k - 1) + 1 = k /\ k <= MaxBlocks /\ k \in Nat
    BY <1>0, <1>3, <1>4
  <1>6. P(k - 1)
    BY <1>3, <1>5
  <1>7. CASE w[k - 1] = NULL
    BY <1>0, <1>1, <1>3, <1>5, <1>7
  <1>8. CASE w[k - 1] \in L
    <2>1. w[k] = h.next[w[k - 1]]
      BY <1>0, <1>5, <1>8
    <2>2. After(L, w[k - 1], w[k])
      BY <2>1, <1>8 DEF BlockList, Ordered
    <2>3. w[k] \in L => w[k - 1] + 4 <= w[k]
      BY <2>2, <1>0, <1>1, <1>8 DEF After, BlockList, Spaced
    <2>4. P(k)
      <3>1. w[k] \in L \cup {NULL}
        BY <2>2 DEF After
      <3>2. w[k] \in L => w[k] >= KM_LOW_CUTOFF + 4 * k
        BY <2>3, <1>0, <1>1, <1>5, <1>6, <1>8, KmemAssumption
      <3> QED  BY <3>1, <3>2
    <2> QED  BY <2>4, <1>3
  <1> QED  BY <1>6, <1>7, <1>8

\* So the walk ends.
LEMMA WalkEnds ==
  ASSUME NEW h, NEW L, BlockList(h, L)
  PROVE  BlockWalk(h)[MaxBlocks] = NULL
  <1> DEFINE x == BlockWalk(h)[MaxBlocks]
  <1>1. MaxBlocks \in 0..MaxBlocks
    BY AddressesFinite
  <1>2. /\ x \in L \cup {NULL}
        /\ x \in L => x >= KM_LOW_CUTOFF + 4 * MaxBlocks
    BY <1>1, WalkInList
  <1>3. x \in L => x + 4 <= KM_HIGH_CUTOFF /\ x \in Nat
    BY AddressesFinite DEF BlockList, Spaced, Ordered
  <1>4. 4 * MaxBlocks + 4 > KM_HIGH_CUTOFF - KM_LOW_CUTOFF
    BY AddressesFinite, KmemAssumption DEF MaxBlocks, SZ_PAGE
  <1> HIDE DEF x
  <1>5. x \notin L
    BY <1>2, <1>3, <1>4, KmemAssumption, AddressesFinite
  <1> QED  BY <1>2, <1>5 DEF x

\* Where a traversal that stops at the first member of S stops: at the least.
Stopped(h, L, S, prev, curr) ==
  /\ curr = NULL \/ (curr \in L /\ curr \in S)
  /\ prev = NULL \/ (prev \in L /\ prev \notin S)
  /\ prev = NULL => curr = h.free_pages
  /\ prev # NULL => curr = h.next[prev]
  /\ \A a \in L : a \in S => curr # NULL /\ curr <= a

\* A traversal stops.
LEMMA StepsAre ==
  ASSUME NEW h, NEW L, NEW S, BlockList(h, L)
  PROVE  /\ Steps(h, S) \in 0..MaxBlocks
         /\ BlockWalk(h)[Steps(h, S)] \in S \cup {NULL}
         /\ \A k \in 0..(Steps(h, S) - 1) : BlockWalk(h)[k] \notin S \cup {NULL}
  <1> DEFINE w == BlockWalk(h)
             Q(n) == /\ w[n] \in S \cup {NULL}
                     /\ \A k \in 0..(n - 1) : w[k] \notin S \cup {NULL}
             T == {n \in 0..MaxBlocks : w[n] \in S \cup {NULL}}
  <1>1. Steps(h, S) = CHOOSE n \in 0..MaxBlocks : Q(n)
    BY DEF Steps, BlockWalk
  <1>2. MaxBlocks \in Nat /\ w[MaxBlocks] = NULL
    BY AddressesFinite, WalkEnds
  <1> HIDE DEF w
  <1>3. T \subseteq Nat /\ MaxBlocks \in T
    BY <1>2
  <1>4. PICK n \in T : \A y \in T : n <= y
    BY <1>3, LeastNumber
  <1>5. \A k \in 0..(n - 1) : w[k] \notin S \cup {NULL}
    BY <1>2, <1>4
  <1>6. \E k \in 0..MaxBlocks : Q(k)
    BY <1>4, <1>5
  <1>7. Steps(h, S) \in 0..MaxBlocks /\ Q(Steps(h, S))
    BY <1>1, <1>6
  <1> QED  BY <1>7 DEF w

LEMMA StopsAtLeast ==
  ASSUME NEW h, NEW L, NEW S, BlockList(h, L)
  PROVE  Stopped(h, L, S, Prev(h, S), Curr(h, S))
  <1> DEFINE w == BlockWalk(h)
             Q(n) == /\ w[n] \in S \cup {NULL}
                     /\ \A k \in 0..(n - 1) : w[k] \notin S \cup {NULL}
             m == Steps(h, S)
  <1>0. /\ MaxBlocks \in Nat /\ L \subseteq Addresses
        /\ w[0] = h.free_pages
        /\ \A i \in 0..MaxBlocks : i + 1 <= MaxBlocks =>
              /\ w[i] \in Addresses => w[i + 1] = h.next[w[i]]
              /\ w[i] = NULL => w[i + 1] = NULL
    BY AddressesFinite, WalkSteps DEF BlockWalk, BlockList, Ordered
  <1>1. \A a \in Addresses : a \in Nat /\ a # NULL
    BY AddressesFinite, KmemAssumption DEF Addresses
  <1>2. /\ w[MaxBlocks] = NULL
        /\ \A n \in 0..MaxBlocks : w[n] \in L \cup {NULL}
    BY WalkEnds, WalkInList
  <1>5. m \in 0..MaxBlocks /\ Q(m)
    BY StepsAre
  <1> HIDE DEF w, m
  <1>6. Curr(h, S) = w[m]
    BY DEF Curr, w, m, BlockWalk
  <1>7. Prev(h, S) = IF m = 0 THEN NULL ELSE w[m - 1]
    BY DEF Prev, w, m, BlockWalk
  <1>8. ASSUME NEW a \in L, a \in S
        PROVE  w[m] # NULL /\ w[m] <= a
    <2> DEFINE P(k) == w[k] # NULL /\ w[k] <= a
               T == {k \in 0..m : ~P(k)}
    <2>1. T \subseteq Nat /\ m \in Nat /\ (m \notin T => P(m))
      BY <1>0, <1>5
    <2> SUFFICES ASSUME T # {} PROVE FALSE
      BY <2>1
    <2>2. PICK k \in T : \A y \in T : k <= y
      BY <2>1, LeastNumber
    <2>3. k # 0
      <3>1. After(L, NULL, w[0]) /\ a > NULL
        BY <1>0, <1>1 DEF BlockList, Ordered, NULL
      <3>2. P(0)
        BY <3>1, <1>0, <1>1, <1>8 DEF After, NULL
      <3> QED  BY <2>2, <3>2
    <2>4. k - 1 \in 0..m /\ k - 1 \in 0..MaxBlocks /\ (k - 1) + 1 = k /\ k <= MaxBlocks
          /\ k - 1 \in 0..(m - 1)
      BY <1>0, <1>5, <2>1, <2>2, <2>3
    <2>5. P(k - 1)
      BY <2>2, <2>4
    <2>6. w[k - 1] \in L /\ w[k - 1] \notin S
      BY <1>2, <1>5, <2>4, <2>5
    <2>7. w[k] = h.next[w[k - 1]]
      BY <1>0, <2>4, <2>6
    <2>8. After(L, w[k - 1], w[k])
      BY <2>6, <2>7 DEF BlockList, Ordered
    <2>9. w[k - 1] < a
      BY <2>5, <2>6, <1>0, <1>1, <1>8
    <2>10. P(k)
      BY <2>8, <2>9, <1>0, <1>1, <1>8, <2>6 DEF After
    <2> QED  BY <2>2, <2>10
  <1>9. CASE m = 0
    BY <1>0, <1>2, <1>5, <1>6, <1>7, <1>8, <1>9 DEF Stopped
  <1>10. CASE m # 0
    <2>1. m - 1 \in 0..MaxBlocks /\ m - 1 \in 0..(m - 1) /\ (m - 1) + 1 = m /\ m <= MaxBlocks
      BY <1>0, <1>5, <1>10
    <2>2. w[m - 1] \in L /\ w[m - 1] \notin S /\ w[m - 1] # NULL
      BY <2>1, <1>2, <1>5
    <2>3. w[m] = h.next[w[m - 1]]
      BY <2>1, <2>2, <1>0
    <2> QED  BY <2>2, <2>3, <1>2, <1>5, <1>6, <1>7, <1>8, <1>10 DEF Stopped
  <1> QED  BY <1>9, <1>10

\* The members of the list are those that a walk meets.
LEMMA ListedAre ==
  ASSUME NEW h, NEW L, BlockList(h, L)
  PROVE  {Walk(h, h.free_pages, MaxBlocks)[n] : n \in 0..MaxBlocks} \ {NULL} = L
  <1> DEFINE w == BlockWalk(h)
  <1>1. \A n \in 0..MaxBlocks : w[n] \in L \cup {NULL}
    BY WalkInList
  <1>2. NULL \notin L
    BY AddressesFinite DEF BlockList, Ordered
  <1>3. ASSUME NEW a \in L
        PROVE  \E n \in 0..MaxBlocks : w[n] = a
    <2>1. Stopped(h, L, {a}, Prev(h, {a}), Curr(h, {a}))
      BY StopsAtLeast
    <2>2. Curr(h, {a}) = a
      BY <2>1, <1>3 DEF Stopped
    <2>3. Steps(h, {a}) \in 0..MaxBlocks
      BY StepsAre
    <2> QED  BY <2>2, <2>3 DEF Curr, BlockWalk
  <1> QED  BY <1>1, <1>2, <1>3 DEF BlockWalk

-----------------------------------------------------------------------------
(* Sets of pages *)

LEMMA PagesAtAre ==
  ASSUME NEW b \in Int, NEW n \in Int
  PROVE  \A x : x \in PagesAt(b, n) <=> \E i \in 0..(n - 1) : x = b + 4 * i
  BY DEF PagesAt, P2B, SZ_PAGE

LEMMA PagesAtCount ==
  ASSUME NEW b \in Int, NEW n \in Nat
  PROVE  IsFiniteSet(PagesAt(b, n)) /\ Cardinality(PagesAt(b, n)) = n
  <1> DEFINE f == [i \in 0..(n - 1) |-> b + 4 * i]
  <1>1. f \in Bijection(0..(n - 1), PagesAt(b, n))
    <2>0. \A i \in 0..(n - 1) : b + 4 * i \in PagesAt(b, n)
      BY PagesAtAre
    <2>1. f \in [0..(n - 1) -> PagesAt(b, n)] /\ DOMAIN f = 0..(n - 1)
      BY <2>0
    <2>2. \A i, j \in 0..(n - 1) : f[i] = f[j] => i = j
      OBVIOUS
    <2>3. \A x \in PagesAt(b, n) : \E i \in 0..(n - 1) : f[i] = x
      BY PagesAtAre
    <2> HIDE DEF f
    <2> QED  BY <2>1, <2>2, <2>3 DEF Bijection, Injection, Surjection, IsInjective
  <1>2. IsFiniteSet(0..(n - 1)) /\ Cardinality(0..(n - 1)) = n
    BY FS_Interval
  <1> HIDE DEF f
  <1>3. ExistsBijection(0..(n - 1), PagesAt(b, n))
    BY <1>1 DEF ExistsBijection
  <1> QED  BY <1>2, <1>3, FS_Bijection

\* A block and the block behind it.
LEMMA PagesAtSplit ==
  ASSUME NEW b \in Int, NEW n \in Nat, NEW m \in Nat
  PROVE  PagesAt(b, n + m) = PagesAt(b, n) \cup PagesAt(b + 4 * n, m)
  <1>0. b + 4 * n \in Int /\ n + m \in Int
    OBVIOUS
  <1>1. ASSUME NEW x \in PagesAt(b, n + m)
        PROVE  x \in PagesAt(b, n) \cup PagesAt(b + 4 * n, m)
    <2>1. PICK i \in 0..((n + m) - 1) : x = b + 4 * i
      BY <1>0, <1>1, PagesAtAre
    <2>2. CASE i < n
      BY <2>1, <2>2, PagesAtAre
    <2>3. CASE i >= n
      <3> DEFINE c == b + 4 * n
      <3>1. i - n \in 0..(m - 1) /\ x = c + 4 * (i - n) /\ c \in Int /\ m \in Int
        BY <2>1, <2>3
      <3> HIDE DEF c
      <3>2. x \in PagesAt(c, m)
        BY <3>1, PagesAtAre
      <3> QED  BY <3>2 DEF c
    <2> QED  BY <2>2, <2>3
  <1>2. ASSUME NEW x \in PagesAt(b, n)
        PROVE  x \in PagesAt(b, n + m)
    <2>1. PICK i \in 0..(n - 1) : x = b + 4 * i
      BY <1>2, PagesAtAre
    <2>2. i \in 0..((n + m) - 1)
      BY <2>1
    <2> QED  BY <2>1, <2>2, <1>0, PagesAtAre
  <1>3. ASSUME NEW x \in PagesAt(b + 4 * n, m)
        PROVE  x \in PagesAt(b, n + m)
    <2>1. PICK i \in 0..(m - 1) : x = (b + 4 * n) + 4 * i
      BY <1>0, <1>3, PagesAtAre
    <2>2. i + n \in 0..((n + m) - 1) /\ x = b + 4 * (i + n)
      BY <2>1
    <2> QED  BY <2>2, <1>0, PagesAtAre
  <1> QED  BY <1>1, <1>2, <1>3

\* n KB from a on and m KB from b on have at least gap KB between them.
Clear(a, n, b, m, gap) == a + n + gap <= b \/ b + m + gap <= a

LEMMA ApartIsClear ==
  ASSUME NEW a \in Int, NEW n \in Int, NEW b \in Int, NEW m \in Int, NEW gap \in Int
  PROVE  Apart(<<a, n>>, <<b, m>>, gap) <=> Clear(a, 4 * n, b, 4 * m, gap)
  BY DEF Apart, Clear, P2B, SZ_PAGE

LEMMA ClearPages ==
  ASSUME NEW a \in Int, NEW n \in Int, NEW b \in Int, NEW m \in Int, NEW gap \in Nat,
         Clear(a, 4 * n, b, 4 * m, gap)
  PROVE  PagesAt(a, n) \cap PagesAt(b, m) = {}
  <1> SUFFICES ASSUME NEW x \in PagesAt(a, n), x \in PagesAt(b, m) PROVE FALSE
    OBVIOUS
  <1>1. PICK i \in 0..(n - 1) : x = a + 4 * i
    BY PagesAtAre
  <1>2. PICK j \in 0..(m - 1) : x = b + 4 * j
    BY PagesAtAre
  <1> QED  BY <1>1, <1>2 DEF Clear

\* The pages of the blocks at the addresses L, whose lengths p tells.
PagesIn(L, p) == UNION {PagesAt(b, p[b]) : b \in L}

LEMMA PagesInAre ==
  ASSUME NEW L, NEW p
  PROVE  \A x : x \in PagesIn(L, p) <=> \E b \in L : x \in PagesAt(b, p[b])
  BY DEF PagesIn

\* Blocks in the memory, each at least gap before the next.
Lengths(L, p, gap) ==
  /\ L \subseteq Addresses
  /\ p \in [Addresses -> Int]
  /\ \A a \in L : p[a] >= 1 /\ a + 4 * p[a] <= KM_HIGH_CUTOFF
  /\ \A a, b \in L : a < b => a + 4 * p[a] + gap <= b

LEMMA LengthsSpaced ==
  ASSUME NEW L, NEW p, NEW gap \in Nat, Lengths(L, p, gap)
  PROVE  /\ Spaced(L)
         /\ Lengths(L, p, 0)
         /\ \A a \in L : a \in Nat /\ a >= KM_LOW_CUTOFF /\ p[a] \in Nat
  <1>1. \A a \in L : a \in Nat /\ a >= KM_LOW_CUTOFF /\ p[a] \in Nat
    BY AddressesFinite, KmemAssumption DEF Lengths, Addresses
  <1> QED  BY <1>1, KmemAssumption DEF Lengths, Spaced

LEMMA PagesInFinite ==
  ASSUME NEW L, NEW p, NEW gap \in Nat, Lengths(L, p, gap)
  PROVE  PagesIn(L, p) \subseteq Addresses /\ IsFiniteSet(PagesIn(L, p))
  <1>1. ASSUME NEW x \in PagesIn(L, p)
        PROVE  x \in Addresses
    <2>1. PICK b \in L : x \in PagesAt(b, p[b])
      BY PagesInAre
    <2>2. /\ b \in Nat /\ b >= KM_LOW_CUTOFF /\ p[b] \in Nat
          /\ b + 4 * p[b] <= KM_HIGH_CUTOFF
      <3>1. b \in Nat /\ b >= KM_LOW_CUTOFF /\ p[b] \in Nat
        BY LengthsSpaced
      <3> QED  BY <3>1 DEF Lengths
    <2>3. PICK i \in 0..(p[b] - 1) : x = b + 4 * i
      BY <2>1, <2>2, PagesAtAre
    <2> QED  BY <2>2, <2>3, KmemAssumption DEF Addresses
  <1> QED  BY <1>1, AddressesFinite, FS_Subset

-----------------------------------------------------------------------------
(* Changes of the list *)

\* The pointer to the block after prev became b; the other ones of K are kept.
Relinked(first2, next2, first, next, K, prev, b) ==
  /\ prev = NULL => first2 = b
  /\ prev # NULL => first2 = first /\ next2[prev] = b
  /\ \A a \in K : a # prev => next2[a] = next[a]

\* curr is the member after prev, or the first one.
Neighbours(first, next, L, prev, curr) ==
  /\ Ordered(first, next, L)
  /\ prev \in L \cup {NULL}
  /\ After(L, prev, curr)

LEMMA StopNeighbours ==
  ASSUME NEW h, NEW L, NEW S, NEW prev, NEW curr,
         Ordered(h.free_pages, h.next, L), Stopped(h, L, S, prev, curr)
  PROVE  Neighbours(h.free_pages, h.next, L, prev, curr)
  BY DEF Stopped, Neighbours, Ordered

LEMMA OrderedInsert ==
  ASSUME NEW first, NEW next, NEW L, NEW prev, NEW curr, NEW b \in Addresses,
         NEW first2, NEW next2,
         Neighbours(first, next, L, prev, curr), b \notin L,
         prev < b, curr # NULL => b < curr,
         Relinked(first2, next2, first, next, L, prev, b), next2[b] = curr
  PROVE  Ordered(first2, next2, L \cup {b})
  <1> DEFINE M == L \cup {b}
  <1>0. /\ L \subseteq Addresses /\ M \subseteq Addresses
        /\ \A a \in M : a \in Int /\ a # NULL /\ a > NULL
        /\ NULL \in Int /\ prev \in Int /\ (curr = NULL \/ curr \in L)
    BY AddressesFinite DEF Neighbours, Ordered, After, NULL
  <1>1. After(M, prev, b)
    <2>1. ASSUME NEW c \in M, c > prev PROVE b <= c
      <3>1. CASE c = b
        BY <3>1, <1>0
      <3>2. CASE c \in L
        <4>1. curr # NULL /\ curr <= c
          BY <3>2, <2>1, <1>0 DEF Neighbours, After
        <4> QED  BY <4>1, <3>2, <1>0
      <3> QED  BY <3>1, <3>2
    <2> QED  BY <2>1, <1>0 DEF After
  <1>2. After(M, b, curr)
    BY <1>0 DEF Neighbours, After
  <1>3. ASSUME NEW a \in L \cup {NULL}, a # prev, NEW c, After(L, a, c)
        PROVE  After(M, a, c)
    <2>0. a \in Int /\ (c = NULL \/ c \in L)
      BY <1>0, <1>3 DEF After
    <2>1. CASE b <= a
      BY <2>0, <2>1, <1>0, <1>3 DEF After
    <2>2. CASE a < b
      <3>1. prev \in L /\ a < prev
        <4>1. a <= prev
          <5>1. CASE a = NULL
            BY <5>1, <1>0 DEF Neighbours
          <5>2. CASE a \in L /\ a > prev
            <6>1. curr # NULL /\ curr <= a
              BY <5>2, <1>0 DEF Neighbours, After
            <6>2. curr \in Int /\ b \in Int /\ a \in Int /\ b < curr
              BY <6>1, <2>0, <1>0
            <6> QED  BY <6>1, <6>2, <2>2
          <5>3. CASE a \in L /\ ~(a > prev)
            BY <5>3, <2>0, <1>0
          <5> QED  BY <5>1, <5>2, <5>3
        <4> QED  BY <4>1, <2>0, <1>0, <1>3 DEF Neighbours
      <3>2. c \in L /\ c <= prev
        BY <3>1, <2>0, <1>0, <1>3 DEF After
      <3> QED  BY <3>1, <3>2, <2>0, <1>0, <1>3 DEF After
    <2> QED  BY <2>0, <2>1, <2>2, <1>0
  <1>4. After(M, NULL, first2)
    BY <1>1, <1>3, <1>0 DEF Relinked, Neighbours, Ordered
  <1>5. ASSUME NEW a \in L PROVE After(M, a, next2[a])
    BY <1>1, <1>3, <1>0, <1>5 DEF Relinked, Neighbours, Ordered
  <1> QED  BY <1>0, <1>2, <1>4, <1>5 DEF Ordered

LEMMA OrderedDrop ==
  ASSUME NEW first, NEW next, NEW L, NEW prev, NEW curr \in L,
         NEW first2, NEW next2,
         Neighbours(first, next, L, prev, curr),
         Relinked(first2, next2, first, next, L \ {curr}, prev, next[curr])
  PROVE  Ordered(first2, next2, L \ {curr})
  <1> DEFINE M == L \ {curr}
  <1>0. /\ L \subseteq Addresses /\ M \subseteq Addresses
        /\ \A a \in L : a \in Int /\ a # NULL /\ a > NULL
        /\ NULL \in Int /\ prev \in Int /\ prev < curr
        /\ After(L, curr, next[curr])
    BY AddressesFinite DEF Neighbours, Ordered, After, NULL
  <1>1. After(M, prev, next[curr])
    <2> DEFINE d == next[curr]
    <2>1. ASSUME NEW c \in M, c > prev PROVE d \in L /\ d <= c
      <3>1. curr <= c /\ c # curr /\ c \in Int /\ curr \in Int
        BY <2>1, <1>0 DEF Neighbours, After
      <3>2. c > curr
        BY <3>1
      <3> QED  BY <3>2, <2>1, <1>0 DEF After
    <2>2. d \in L => d > curr /\ d \in Int /\ d # curr
      BY <1>0 DEF After
    <2>3. d \in L \cup {NULL}
      BY <1>0 DEF After
    <2> HIDE DEF d
    <2>4. CASE d \in L
      <3>1. d > prev /\ d \in M
        BY <2>2, <2>4, <1>0
      <3> QED  BY <3>1, <2>1 DEF After, d
    <2>5. CASE d \notin L
      <3>1. \A c \in M : c <= prev
        BY <2>1, <2>5, <1>0
      <3> QED  BY <3>1, <2>3, <2>5 DEF After, d
    <2> QED  BY <2>4, <2>5
  <1>3. ASSUME NEW a \in L \cup {NULL}, a # prev, a # curr, NEW c, After(L, a, c)
        PROVE  After(M, a, c)
    <2>0. a \in Int /\ (c = NULL \/ c \in L)
      BY <1>0, <1>3 DEF After
    <2>1. c # curr
      <3>1. CASE a < prev
        BY <3>1, <2>0, <1>0, <1>3 DEF Neighbours, After
      <3>2. CASE a > prev
        BY <3>2, <2>0, <1>0, <1>3 DEF Neighbours, After
      <3> QED  BY <3>1, <3>2, <2>0, <1>0, <1>3
    <2> QED  BY <2>0, <2>1, <1>0, <1>3 DEF After
  <1>4. After(M, NULL, first2)
    BY <1>1, <1>3, <1>0 DEF Relinked, Neighbours, Ordered
  <1>5. ASSUME NEW a \in M PROVE After(M, a, next2[a])
    BY <1>1, <1>3, <1>0, <1>5 DEF Relinked, Neighbours, Ordered
  <1> QED  BY <1>0, <1>4, <1>5 DEF Ordered

\* curr is replaced by a block that is behind it and before the next one.
LEMMA OrderedReplace ==
  ASSUME NEW first, NEW next, NEW L, NEW prev, NEW curr \in L, NEW b \in Addresses,
         NEW first2, NEW next2,
         Neighbours(first, next, L, prev, curr),
         curr < b, \A a \in L : a > curr => b < a,
         Relinked(first2, next2, first, next, L \ {curr}, prev, b),
         next2[b] = next[curr]
  PROVE  Ordered(first2, next2, (L \ {curr}) \cup {b})
  <1> DEFINE M == (L \ {curr}) \cup {b}
  <1>0. /\ L \subseteq Addresses /\ M \subseteq Addresses
        /\ \A a \in L : a \in Int /\ a # NULL /\ a > NULL
        /\ NULL \in Int /\ prev \in Int /\ prev < curr /\ b \in Int /\ b # NULL
        /\ After(L, curr, next[curr])
        /\ b \notin L
    BY AddressesFinite DEF Neighbours, Ordered, After, NULL
  <1>1. After(M, prev, b)
    BY <1>0 DEF Neighbours, After
  <1>2. After(M, b, next[curr])
    <2> DEFINE d == next[curr]
    <2>1. ASSUME NEW c \in M, c > b PROVE d \in L /\ d <= c
      <3>1. c \in L /\ c > curr
        BY <2>1, <1>0
      <3> QED  BY <3>1, <1>0 DEF After
    <2>2. d \in L => d > curr /\ d \in Int
      BY <1>0 DEF After
    <2>3. d \in L \cup {NULL}
      BY <1>0 DEF After
    <2> HIDE DEF d
    <2>4. CASE d \in L
      <3>1. d > b /\ d \in M
        BY <2>2, <2>4, <1>0
      <3> QED  BY <3>1, <2>1 DEF After, d
    <2>5. CASE d \notin L
      <3>1. \A c \in M : c <= b
        BY <2>1, <2>5, <1>0
      <3> QED  BY <3>1, <2>3, <2>5 DEF After, d
    <2> QED  BY <2>4, <2>5
  <1>3. ASSUME NEW a \in L \cup {NULL}, a # prev, a # curr, NEW c, After(L, a, c)
        PROVE  After(M, a, c)
    <2>0. a \in Int /\ (c = NULL \/ c \in L)
      BY <1>0, <1>3 DEF After
    <2>1. CASE a < prev
      <3>1. prev \in L
        BY <2>1, <2>0, <1>0, <1>3 DEF Neighbours
      <3>2. c \in L /\ c <= prev
        BY <3>1, <2>1, <2>0, <1>0, <1>3 DEF After
      <3>3. c \in M /\ c > a
        BY <3>2, <1>0, <1>3 DEF After
      <3>4. ASSUME NEW x \in M, x > a PROVE c <= x
        <4>1. CASE x \in L
          BY <4>1, <3>2, <3>4, <2>0, <1>0, <1>3 DEF After
        <4>2. CASE x = b
          BY <4>2, <3>2, <1>0
        <4> QED  BY <4>1, <4>2
      <3> QED  BY <3>3, <3>4 DEF After
    <2>2. CASE a > prev
      <3>1. a \in L /\ a > curr /\ b < a
        BY <2>2, <2>0, <1>0, <1>3 DEF Neighbours, After
      <3>2. c \in L => c > a /\ c \in Int /\ c \in M
        BY <3>1, <2>0, <1>0, <1>3 DEF After
      <3>3. ASSUME NEW x \in M, x > a PROVE c \in L /\ c <= x
        <4>1. x \in L
          BY <3>1, <3>3, <1>0
        <4> QED  BY <4>1, <3>3, <2>0, <1>0, <1>3 DEF After
      <3>4. CASE c \in L
        BY <3>2, <3>3, <3>4 DEF After
      <3>5. CASE c \notin L
        BY <3>1, <3>3, <3>5, <2>0, <1>0 DEF After
      <3> QED  BY <3>4, <3>5
    <2> QED  BY <2>1, <2>2, <2>0, <1>0, <1>3
  <1>4. After(M, NULL, first2)
    BY <1>1, <1>3, <1>0 DEF Relinked, Neighbours, Ordered
  <1>5. ASSUME NEW a \in L, a # curr PROVE After(M, a, next2[a])
    BY <1>1, <1>3, <1>0, <1>5 DEF Relinked, Neighbours, Ordered
  <1> QED  BY <1>0, <1>2, <1>4, <1>5 DEF Ordered

-----------------------------------------------------------------------------
(* The heap *)

HeapType == [free_pages : Words, n_pages : Int,
             pages : [Addresses -> Int], next : [Addresses -> Words]]

\* The list of blocks is L, in order and apart, and its pages are counted.
Heap(h, L, gap) ==
  /\ h \in HeapType
  /\ Ordered(h.free_pages, h.next, L)
  /\ Lengths(L, h.pages, gap)
  /\ Cardinality(PagesIn(L, h.pages)) = h.n_pages

LEMMA HeapList ==
  ASSUME NEW h, NEW L, NEW gap \in Nat, Heap(h, L, gap)
  PROVE  BlockList(h, L)
  BY LengthsSpaced DEF Heap, BlockList

\* n KB from x on are clear of every block of the list.
ClearOf(L, p, x, n, gap) == \A a \in L : Clear(x, n, a, 4 * p[a], gap)

LEMMA ClearOfPages ==
  ASSUME NEW L, NEW p, NEW g \in Nat, Lengths(L, p, g), NEW x \in Int, NEW n \in Int,
         NEW gap \in Nat, ClearOf(L, p, x, 4 * n, gap)
  PROVE  PagesIn(L, p) \cap PagesAt(x, n) = {}
  <1> SUFFICES ASSUME NEW y \in PagesIn(L, p), y \in PagesAt(x, n) PROVE FALSE
    OBVIOUS
  <1>1. PICK b \in L : y \in PagesAt(b, p[b])
    BY PagesInAre
  <1>2. b \in Int /\ p[b] \in Int
    BY LengthsSpaced
  <1>3. Clear(x, 4 * n, b, 4 * p[b], gap)
    BY DEF ClearOf
  <1>4. PagesAt(x, n) \cap PagesAt(b, p[b]) = {}
    BY <1>2, <1>3, ClearPages
  <1> QED  BY <1>1, <1>4

\* Counting the pages of one more block.
LEMMA CountPlus ==
  ASSUME NEW A, IsFiniteSet(A), NEW b \in Int, NEW n \in Nat, A \cap PagesAt(b, n) = {}
  PROVE  /\ Cardinality(A \cup PagesAt(b, n)) = Cardinality(A) + n
         /\ Cardinality(A) \in Nat
  <1>1. IsFiniteSet(PagesAt(b, n)) /\ Cardinality(PagesAt(b, n)) = n
    BY PagesAtCount
  <1>2. Cardinality(A \cup PagesAt(b, n))
          = Cardinality(A) + Cardinality(PagesAt(b, n)) - Cardinality(A \cap PagesAt(b, n))
    BY <1>1, FS_Union
  <1>3. Cardinality(A \cap PagesAt(b, n)) = 0
    BY FS_EmptySet
  <1>4. Cardinality(A) \in Nat
    BY FS_CardinalityType
  <1> QED  BY <1>1, <1>2, <1>3, <1>4

\* The pages of a list with one more block, and of one that stays.
Agree(L, p, p2) == \A a \in L : p2[a] = p[a]

LEMMA PagesInPlus ==
  ASSUME NEW L, NEW p, NEW p2, NEW b, NEW M, M = L \cup {b}, Agree(L, p, p2)
  PROVE  PagesIn(M, p2) = PagesIn(L, p) \cup PagesAt(b, p2[b])
  <1> USE DEF Agree
  <1>1. ASSUME NEW x
        PROVE  x \in PagesIn(L \cup {b}, p2) <=> x \in PagesIn(L, p) \/ x \in PagesAt(b, p2[b])
    <2>1. x \in PagesIn(L \cup {b}, p2) <=> \E a \in L \cup {b} : x \in PagesAt(a, p2[a])
      BY PagesInAre
    <2>2. x \in PagesIn(L, p) <=> \E a \in L : x \in PagesAt(a, p[a])
      BY PagesInAre
    <2> QED  BY <2>1, <2>2
  <1> QED  BY <1>1

LEMMA PagesInSame ==
  ASSUME NEW L, NEW p, NEW p2, Agree(L, p, p2)
  PROVE  PagesIn(L, p2) = PagesIn(L, p)
  <1>1. ASSUME NEW x
        PROVE  x \in PagesIn(L, p2) <=> x \in PagesIn(L, p)
    BY PagesInAre DEF Agree
  <1> QED  BY <1>1

LEMMA LengthsFewer ==
  ASSUME NEW L, NEW p, NEW gap \in Nat, Lengths(L, p, gap), NEW M, M \subseteq L,
         NEW p2 \in [Addresses -> Int], Agree(M, p, p2)
  PROVE  Lengths(M, p2, gap)
  BY DEF Lengths, Agree

\* The n pages at b, which were clear of the list, are in the list now: other
\* memory is not touched, and what was clear of both is clear of the new list.
Grown(h, L, h2, L2, b, n) ==
  /\ PagesIn(L2, h2.pages) = PagesIn(L, h.pages) \cup PagesAt(b, n)
  /\ \A a \in Addresses :
       ClearOf(L, h.pages, a, 1, 0) /\ Clear(a, 1, b, 4 * n, 0) => h2.next[a] = h.next[a]
  /\ \A x, m \in Int, k \in Nat :
       m >= 1 /\ ClearOf(L, h.pages, x, m, k) /\ Clear(x, m, b, 4 * n, k)
         => ClearOf(L2, h2.pages, x, m, k)

\* Blocks of the list were merged.
Merged(h, L, h2, L2) ==
  /\ PagesIn(L2, h2.pages) = PagesIn(L, h.pages)
  /\ \A a \in Addresses : ClearOf(L, h.pages, a, 1, 0) => h2.next[a] = h.next[a]
  /\ \A x, m \in Int, k \in Nat :
       m >= 1 /\ ClearOf(L, h.pages, x, m, k) => ClearOf(L2, h2.pages, x, m, k)

LEMMA GrownMerged ==
  ASSUME NEW h, NEW L, NEW h1, NEW L1, NEW h2, NEW L2, NEW b \in Int, NEW n \in Int,
         Grown(h, L, h1, L1, b, n), Merged(h1, L1, h2, L2)
  PROVE  Grown(h, L, h2, L2, b, n)
  <1>1. PagesIn(L2, h2.pages) = PagesIn(L, h.pages) \cup PagesAt(b, n)
    BY DEF Grown, Merged
  <1>2. ASSUME NEW a \in Addresses, ClearOf(L, h.pages, a, 1, 0), Clear(a, 1, b, 4 * n, 0)
        PROVE  h2.next[a] = h.next[a]
    <2>1. a \in Int /\ 1 \in Int /\ 0 \in Nat /\ 1 >= 1
      BY AddressesFinite
    <2>2. ClearOf(L1, h1.pages, a, 1, 0)
      BY <2>1, <1>2 DEF Grown
    <2> QED  BY <2>2, <1>2 DEF Grown, Merged
  <1>3. ASSUME NEW x \in Int, NEW m \in Int, NEW k \in Nat, m >= 1,
               ClearOf(L, h.pages, x, m, k), Clear(x, m, b, 4 * n, k)
        PROVE  ClearOf(L2, h2.pages, x, m, k)
    <2>1. ClearOf(L1, h1.pages, x, m, k)
      BY <1>3 DEF Grown
    <2> QED  BY <2>1, <1>3 DEF Merged
  <1> QED  BY <1>1, <1>2, <1>3 DEF Grown

-----------------------------------------------------------------------------
(* A block enters the list *)

\* Where a block at b goes.
LEMMA PlaceIs ==
  ASSUME NEW h, NEW L, BlockList(h, L), NEW b \in Addresses, b \notin L
  PROVE  LET prev == Prev(h, Place(b))
             curr == Curr(h, Place(b))
         IN  /\ Neighbours(h.free_pages, h.next, L, prev, curr)
             /\ prev < b /\ (curr # NULL => b < curr)
             /\ prev \in L \cup {NULL} /\ curr \in L \cup {NULL}
             /\ prev # NULL => h.next[prev] = curr
  <1> DEFINE prev == Prev(h, Place(b))
             curr == Curr(h, Place(b))
  <1>1. Stopped(h, L, Place(b), prev, curr)
    BY StopsAtLeast
  <1>2. Neighbours(h.free_pages, h.next, L, prev, curr)
    BY <1>1, StopNeighbours DEF BlockList
  <1>3. L \subseteq Addresses /\ (\A a \in Addresses : a \in Int /\ a > NULL /\ a # NULL) /\ NULL \in Int
    BY AddressesFinite DEF BlockList, Ordered, NULL
  <1> HIDE DEF prev, curr
  <1>4. prev < b
    BY <1>1, <1>3 DEF Stopped, Place
  <1>5. curr # NULL => b < curr
    <2> SUFFICES ASSUME curr # NULL PROVE b < curr
      OBVIOUS
    <2>1. curr \in L /\ curr >= b /\ curr # b
      BY <1>1 DEF Stopped, Place
    <2> QED  BY <2>1, <1>3
  <1>6. /\ prev \in L \cup {NULL} /\ curr \in L \cup {NULL}
        /\ prev # NULL => h.next[prev] = curr
    BY <1>1 DEF Stopped
  <1> QED  BY <1>2, <1>4, <1>5, <1>6 DEF prev, curr

LEMMA ClearNotListed ==
  ASSUME NEW L, NEW p, NEW g \in Nat, Lengths(L, p, g), NEW b \in Int, NEW n \in Int, n >= 1,
         NEW gap \in Nat, ClearOf(L, p, b, 4 * n, gap)
  PROVE  b \notin L
  <1> SUFFICES ASSUME b \in L PROVE FALSE
    OBVIOUS
  <1>1. p[b] \in Int /\ p[b] >= 1
    BY LengthsSpaced DEF Lengths
  <1>2. Clear(b, 4 * n, b, 4 * p[b], gap)
    BY DEF ClearOf
  <1> QED  BY <1>1, <1>2 DEF Clear

\* The heap h2 is h with the block of n pages at b between prev and curr.
Inserted(h, h2, b, n, prev, curr) ==
  /\ h2 \in HeapType
  /\ h2.pages = [h.pages EXCEPT ![b] = n]
  /\ h2.n_pages = h.n_pages + n
  /\ Relinked(h2.free_pages, h2.next, h.free_pages, h.next, Addresses \ {b}, prev, b)
  /\ h2.next[b] = curr

LEMMA InsertBlock ==
  ASSUME NEW h, NEW L, NEW gap \in Nat, Heap(h, L, gap),
         NEW b \in Addresses, NEW n \in Nat, n >= 1, b + 4 * n <= KM_HIGH_CUTOFF,
         ClearOf(L, h.pages, b, 4 * n, gap),
         NEW h2, Inserted(h, h2, b, n, Prev(h, Place(b)), Curr(h, Place(b)))
  PROVE  /\ Heap(h2, L \cup {b}, gap)
         /\ Grown(h, L, h2, L \cup {b}, b, n)
  <1> DEFINE prev == Prev(h, Place(b))
             curr == Curr(h, Place(b))
             M == L \cup {b}
             p == h.pages
             p2 == h2.pages
  <1>0. /\ L \subseteq Addresses /\ b \in Nat /\ h \in HeapType /\ h2 \in HeapType
        /\ p \in [Addresses -> Int] /\ p2 \in [Addresses -> Int]
        /\ Lengths(L, p, gap)
    BY AddressesFinite DEF Heap, Lengths, HeapType, Inserted
  <1>1. b \notin L
    BY <1>0, ClearNotListed
  <1>2. BlockList(h, L)
    BY HeapList
  <1>3. p2[b] = n /\ \A a \in Addresses : a # b => p2[a] = p[a]
    BY <1>0 DEF Inserted
  <1>4. /\ Neighbours(h.free_pages, h.next, L, prev, curr)
        /\ prev < b /\ (curr # NULL => b < curr)
        /\ prev \in L \cup {NULL}
    BY <1>1, <1>2, PlaceIs
  <1>5. /\ Relinked(h2.free_pages, h2.next, h.free_pages, h.next, L, prev, b)
        /\ h2.next[b] = curr
    BY <1>0, <1>1 DEF Inserted, Relinked
  <1> HIDE DEF prev, curr
  <1>6. Ordered(h2.free_pages, h2.next, M)
    BY <1>1, <1>4, <1>5, OrderedInsert
  <1>7. Lengths(M, p2, gap)
    <2>1. \A a \in M : a \in Int
      BY <1>0, AddressesFinite
    <2>2. M \subseteq Addresses
      BY <1>0
    <2>3. \A a \in M : p2[a] >= 1 /\ a + 4 * p2[a] <= KM_HIGH_CUTOFF
      BY <1>0, <1>1, <1>3 DEF Lengths
    <2>4. ASSUME NEW a \in M, NEW c \in M, a < c
          PROVE  a + 4 * p2[a] + gap <= c
      <3>1. CASE a \in L /\ c \in L
        BY <3>1, <2>4, <1>0, <1>1, <1>3 DEF Lengths
      <3>2. CASE a = b /\ c \in L
        <4>1. Clear(b, 4 * n, c, 4 * p[c], gap) /\ p[c] \in Int /\ p[c] >= 1
          BY <3>2, <1>0 DEF ClearOf, Lengths
        <4> QED  BY <4>1, <3>2, <2>1, <2>4, <1>3 DEF Clear
      <3>3. CASE a \in L /\ c = b
        <4>1. Clear(b, 4 * n, a, 4 * p[a], gap) /\ p[a] \in Int /\ p[a] >= 1 /\ p2[a] = p[a]
          BY <3>3, <1>0, <1>1, <1>3 DEF ClearOf, Lengths
        <4>2. a \in Int /\ b \in Int /\ a < b
          BY <3>3, <2>1, <2>4
        <4>3. b + 4 * n + gap > a
          BY <4>2
        <4>4. a + 4 * p[a] + gap <= b
          BY <4>1, <4>2, <4>3 DEF Clear
        <4> QED  BY <4>1, <4>4, <3>3
      <3>4. CASE a = b /\ c = b
        BY <3>4, <2>1, <2>4
      <3> QED  BY <3>1, <3>2, <3>3, <3>4
    <2> QED  BY <1>0, <2>2, <2>3, <2>4 DEF Lengths
  <1>8. PagesIn(M, p2) = PagesIn(L, p) \cup PagesAt(b, n)
    <2>1. Agree(L, p, p2)
      BY <1>0, <1>1, <1>3 DEF Agree
    <2> HIDE DEF p, p2
    <2>2. PagesIn(M, p2) = PagesIn(L, p) \cup PagesAt(b, p2[b])
      BY <2>1, PagesInPlus
    <2> QED  BY <2>2, <1>3
  <1>9. Cardinality(PagesIn(M, p2)) = h2.n_pages
    <2>1. PagesIn(L, p) \cap PagesAt(b, n) = {}
      BY <1>0, ClearOfPages
    <2>2. IsFiniteSet(PagesIn(L, p))
      BY <1>0, PagesInFinite
    <2>3. Cardinality(PagesIn(L, p) \cup PagesAt(b, n)) = Cardinality(PagesIn(L, p)) + n
      BY <1>0, <2>1, <2>2, CountPlus
    <2> QED  BY <2>3, <1>8 DEF Heap, Inserted
  <1>10. ASSUME NEW a \in Addresses, ClearOf(L, p, a, 1, 0), Clear(a, 1, b, 4 * n, 0)
         PROVE  h2.next[a] = h.next[a]
    <2>1. a \in Int /\ 1 \in Int /\ a # b
      BY <1>10, AddressesFinite DEF Clear
    <2>2. a \notin L
      <3> SUFFICES ASSUME a \in L PROVE FALSE
        OBVIOUS
      <3>1. p[a] \in Int /\ p[a] >= 1 /\ Clear(a, 1, a, 4 * p[a], 0)
        BY <1>0, <1>10 DEF ClearOf, Lengths
      <3> QED  BY <3>1, <2>1 DEF Clear
    <2>3. a # prev
      BY <2>2, <1>4, AddressesFinite
    <2> QED  BY <2>1, <2>3 DEF Inserted, Relinked, prev
  <1>11. ASSUME NEW x \in Int, NEW m \in Int, NEW k \in Nat, m >= 1,
                ClearOf(L, p, x, m, k), Clear(x, m, b, 4 * n, k)
         PROVE  ClearOf(M, p2, x, m, k)
    BY <1>0, <1>1, <1>3, <1>11 DEF ClearOf
  <1>12. Grown(h, L, h2, M, b, n)
    BY <1>8, <1>10, <1>11 DEF Grown
  <1> QED  BY <1>0, <1>6, <1>7, <1>9, <1>12 DEF Heap

\* Blocks are at least gap before the next one, except used.
Gaps(L, p, gap, used) == \A a, c \in L : a < c /\ a # used => a + 4 * p[a] + gap <= c

\* The n pages at b, where the block prev ends, become a part of it.
Joined(h, h2, prev, b, n) ==
  /\ h2 \in HeapType
  /\ h2.pages[prev] = h.pages[prev] + n
  /\ \A a \in Addresses : a # prev /\ a # b => h2.pages[a] = h.pages[a]
  /\ h2.n_pages = h.n_pages + n
  /\ h2.free_pages = h.free_pages
  /\ \A a \in Addresses : a # b => h2.next[a] = h.next[a]

LEMMA JoinBlock ==
  ASSUME NEW h, NEW L, NEW gap \in Nat, Heap(h, L, gap),
         NEW b \in Addresses, NEW n \in Nat, n >= 1, b + 4 * n <= KM_HIGH_CUTOFF,
         ClearOf(L, h.pages, b, 4 * n, 0),
         NEW prev \in L, prev + 4 * h.pages[prev] = b,
         NEW h2, Joined(h, h2, prev, b, n)
  PROVE  /\ Heap(h2, L, 0) /\ Gaps(L, h2.pages, gap, prev)
         /\ Grown(h, L, h2, L, b, n)
  <1> DEFINE p == h.pages
             p2 == h2.pages
             K == L \ {prev}
  <1>0. /\ L \subseteq Addresses /\ b \in Nat /\ h \in HeapType /\ h2 \in HeapType
        /\ p \in [Addresses -> Int] /\ p2 \in [Addresses -> Int]
        /\ Lengths(L, p, gap) /\ Lengths(L, p, 0)
        /\ \A a \in L : a \in Nat /\ p[a] \in Nat /\ p[a] >= 1
    <2>1. /\ L \subseteq Addresses /\ b \in Nat /\ h \in HeapType /\ h2 \in HeapType
          /\ p \in [Addresses -> Int] /\ p2 \in [Addresses -> Int]
          /\ Lengths(L, p, gap)
      BY AddressesFinite DEF Heap, Lengths, HeapType, Joined
    <2>2. Lengths(L, p, 0) /\ \A a \in L : a \in Nat /\ p[a] \in Nat
      BY <2>1, LengthsSpaced
    <2> QED  BY <2>1, <2>2 DEF Lengths
  <1>1. b \notin L
    <2>1. b \in Int /\ n \in Int /\ 0 \in Nat
      BY <1>0
    <2> QED  BY <1>0, <2>1, ClearNotListed
  <1>2. /\ p2[prev] = p[prev] + n
        /\ \A a \in L : a # prev => p2[a] = p[a]
    BY <1>0, <1>1 DEF Joined
  <1>3. prev + 4 * p[prev] = b
    OBVIOUS
  <1> HIDE DEF p, p2
  <1>4. Ordered(h2.free_pages, h2.next, L)
    BY <1>0, <1>1 DEF Heap, Ordered, Joined
  <1>5. ASSUME NEW a \in L, NEW c \in L, a < c
        PROVE  /\ a # prev => a + 4 * p2[a] + gap <= c
               /\ a + 4 * p2[a] <= c
    <2>1. a + 4 * p[a] + gap <= c
      BY <1>0, <1>5 DEF Lengths
    <2>2. CASE a # prev
      BY <2>1, <2>2, <1>0, <1>2
    <2>3. CASE a = prev
      <3>1. Clear(b, 4 * n, c, 4 * p[c], 0)
        BY <1>5 DEF ClearOf, p
      <3>2. b <= c /\ b \in Nat /\ c \in Nat /\ p[c] \in Nat /\ p[c] >= 1
        BY <2>1, <2>3, <1>0, <1>3
      <3>3. b + 4 * n <= c
        BY <3>1, <3>2 DEF Clear
      <3> QED  BY <3>3, <2>3, <1>0, <1>2, <1>3
    <2> QED  BY <2>2, <2>3
  <1>6. Lengths(L, p2, 0)
    <2>1. ASSUME NEW a \in L PROVE p2[a] >= 1 /\ a + 4 * p2[a] <= KM_HIGH_CUTOFF
      <3>1. CASE a = prev
        BY <3>1, <1>0, <1>2, <1>3
      <3>2. CASE a # prev
        BY <3>2, <1>0, <1>2 DEF Lengths
      <3> QED  BY <3>1, <3>2
    <2>2. ASSUME NEW a \in L, NEW c \in L, a < c PROVE a + 4 * p2[a] + 0 <= c
      <3>1. a + 4 * p2[a] <= c
        BY <1>5, <2>2
      <3> QED  BY <3>1, <1>0
    <2> QED  BY <1>0, <2>1, <2>2 DEF Lengths
  <1>7. Gaps(L, p2, gap, prev)
    BY <1>5 DEF Gaps
  <1>8. PagesIn(L, p2) = PagesIn(L, p) \cup PagesAt(b, n)
    <2>1. Agree(K, p, p2) /\ Agree(K, p, p) /\ L = K \cup {prev}
      BY <1>2 DEF Agree
    <2> HIDE DEF K
    <2>2. /\ PagesIn(L, p2) = PagesIn(K, p) \cup PagesAt(prev, p2[prev])
          /\ PagesIn(L, p) = PagesIn(K, p) \cup PagesAt(prev, p[prev])
      BY <2>1, PagesInPlus
    <2>3. PagesAt(prev, p[prev] + n) = PagesAt(prev, p[prev]) \cup PagesAt(prev + 4 * p[prev], n)
      <3>1. prev \in Int /\ p[prev] \in Nat
        BY <1>0
      <3> QED  BY <3>1, PagesAtSplit, ZenonT(60)
    <2> QED  BY <2>2, <2>3, <1>2, <1>3
  <1>9. Cardinality(PagesIn(L, p2)) = h2.n_pages
    <2>0. b \in Int /\ n \in Int /\ 0 \in Nat
      BY <1>0
    <2>1. PagesIn(L, p) \cap PagesAt(b, n) = {}
      BY <1>0, <2>0, ClearOfPages DEF p
    <2>2. IsFiniteSet(PagesIn(L, p))
      BY <1>0, PagesInFinite
    <2>3. Cardinality(PagesIn(L, p) \cup PagesAt(b, n)) = Cardinality(PagesIn(L, p)) + n
      BY <1>0, <2>1, <2>2, CountPlus
    <2> QED  BY <2>3, <1>8 DEF Heap, Joined, p
  <1>10. ASSUME NEW a \in Addresses, ClearOf(L, p, a, 1, 0), Clear(a, 1, b, 4 * n, 0)
         PROVE  h2.next[a] = h.next[a]
    <2>1. a \in Int /\ b \in Int
      BY AddressesFinite
    <2>2. a # b
      BY <2>1, <1>10 DEF Clear
    <2> QED  BY <2>2 DEF Joined
  <1>11. ASSUME NEW x \in Int, NEW m \in Int, NEW k \in Nat, m >= 1,
                ClearOf(L, p, x, m, k), Clear(x, m, b, 4 * n, k)
         PROVE  ClearOf(L, p2, x, m, k)
    <2>1. ASSUME NEW a \in L PROVE Clear(x, m, a, 4 * p2[a], k)
      <3>1. Clear(x, m, a, 4 * p[a], k) /\ a \in Nat /\ p[a] \in Nat
        BY <1>0, <1>11, <2>1 DEF ClearOf
      <3>2. CASE a = prev
        BY <3>1, <3>2, <1>0, <1>2, <1>3, <1>11 DEF Clear
      <3>3. CASE a # prev
        BY <3>1, <3>3, <1>2
      <3> QED  BY <3>2, <3>3
    <2> QED  BY <2>1 DEF ClearOf
  <1>12. Grown(h, L, h2, L, b, n)
    BY <1>8, <1>10, <1>11 DEF Grown, p, p2
  <1> QED  BY <1>0, <1>4, <1>6, <1>7, <1>9, <1>12 DEF Heap, p2

\* The block curr becomes a part of the block used, which ends where it begins.
Absorbed(h, h2, used, curr) ==
  /\ h2 \in HeapType
  /\ h2.pages[used] = h.pages[used] + h.pages[curr]
  /\ \A a \in Addresses : a # used /\ a # curr => h2.pages[a] = h.pages[a]
  /\ h2.n_pages = h.n_pages
  /\ h2.free_pages = h.free_pages
  /\ h2.next[used] = h.next[curr]
  /\ \A a \in Addresses : a # used /\ a # curr => h2.next[a] = h.next[a]

LEMMA AbsorbBlock ==
  ASSUME NEW h, NEW L, NEW gap \in Nat, Heap(h, L, 0),
         NEW used \in L, NEW curr \in L, Gaps(L, h.pages, gap, used),
         h.next[used] = curr, used + 4 * h.pages[used] = curr,
         NEW h2, Absorbed(h, h2, used, curr)
  PROVE  Heap(h2, L \ {curr}, gap) /\ Merged(h, L, h2, L \ {curr})
  <1> DEFINE p == h.pages
             p2 == h2.pages
             K == (L \ {curr}) \ {used}
             M == L \ {curr}
  <1>0. /\ L \subseteq Addresses /\ h \in HeapType /\ h2 \in HeapType
        /\ p \in [Addresses -> Int] /\ p2 \in [Addresses -> Int]
        /\ Lengths(L, p, 0)
        /\ \A a \in L : a \in Nat /\ p[a] \in Nat /\ p[a] >= 1
    <2>1. /\ L \subseteq Addresses /\ h \in HeapType /\ h2 \in HeapType
          /\ p \in [Addresses -> Int] /\ p2 \in [Addresses -> Int]
          /\ Lengths(L, p, 0)
      BY AddressesFinite DEF Heap, Lengths, HeapType, Absorbed
    <2>2. \A a \in L : a \in Nat /\ p[a] \in Nat
      BY <2>1, LengthsSpaced
    <2> QED  BY <2>1, <2>2 DEF Lengths
  <1>1. used < curr /\ used # curr /\ used + 4 * p[used] = curr
    BY <1>0
  <1>2. /\ p2[used] = p[used] + p[curr]
        /\ \A a \in L : a # used /\ a # curr => p2[a] = p[a]
    BY <1>0 DEF Absorbed
  <1>3. After(L, used, curr)
    BY DEF Heap, Ordered
  <1>4. Ordered(h2.free_pages, h2.next, M)
    <2>1. Neighbours(h.free_pages, h.next, L, used, curr)
      BY <1>3 DEF Neighbours, Heap
    <2>2. used # NULL
      BY <1>0, AddressesFinite
    <2>3. Relinked(h2.free_pages, h2.next, h.free_pages, h.next, M, used, h.next[curr])
      BY <2>2, <1>0 DEF Absorbed, Relinked
    <2> QED  BY <2>1, <2>3, OrderedDrop
  <1>5. Gaps(L, p, gap, used)
    OBVIOUS
  <1> HIDE DEF p, p2
  <1>6. ASSUME NEW a \in M, NEW c \in M, a < c
        PROVE  a + 4 * p2[a] + gap <= c
    <2>1. CASE a # used
      <3>1. a + 4 * p[a] + gap <= c
        BY <2>1, <1>5, <1>6 DEF Gaps
      <3> QED  BY <3>1, <2>1, <1>2
    <2>2. CASE a = used
      <3>1. curr < c
        BY <2>2, <1>0, <1>3, <1>6 DEF After
      <3>2. curr + 4 * p[curr] + gap <= c
        BY <3>1, <1>1, <1>5 DEF Gaps
      <3> QED  BY <3>2, <2>2, <1>0, <1>1, <1>2
    <2> QED  BY <2>1, <2>2
  <1>7. Lengths(M, p2, gap)
    <2>1. ASSUME NEW a \in M PROVE p2[a] >= 1 /\ a + 4 * p2[a] <= KM_HIGH_CUTOFF
      <3>1. CASE a = used
        <4>1. curr + 4 * p[curr] <= KM_HIGH_CUTOFF
          BY <1>0 DEF Lengths
        <4> QED  BY <4>1, <3>1, <1>0, <1>1, <1>2
      <3>2. CASE a # used
        BY <3>2, <1>0, <1>2 DEF Lengths
      <3> QED  BY <3>1, <3>2
    <2> QED  BY <1>0, <2>1, <1>6 DEF Lengths
  <1>8. PagesIn(M, p2) = PagesIn(L, p)
    <2>1. /\ Agree(K, p, p2) /\ Agree(K, p, p) /\ Agree(M, p, p)
          /\ M = K \cup {used} /\ L = M \cup {curr}
      BY <1>1, <1>2 DEF Agree
    <2> HIDE DEF K, M
    <2>2. PagesIn(M, p2) = PagesIn(K, p) \cup PagesAt(used, p2[used])
      BY <2>1, PagesInPlus
    <2>3. PagesIn(M, p) = PagesIn(K, p) \cup PagesAt(used, p[used])
      BY <2>1, PagesInPlus
    <2>4. PagesIn(L, p) = PagesIn(M, p) \cup PagesAt(curr, p[curr])
      BY <2>1, PagesInPlus
    <2>5. PagesAt(used, p[used] + p[curr])
            = PagesAt(used, p[used]) \cup PagesAt(used + 4 * p[used], p[curr])
      <3> DEFINE n == p[used]
                 m == p[curr]
      <3>1. used \in Int /\ n \in Nat /\ m \in Nat
        BY <1>0
      <3> HIDE DEF n, m
      <3>2. PagesAt(used, n + m) = PagesAt(used, n) \cup PagesAt(used + 4 * n, m)
        BY <3>1, PagesAtSplit
      <3> QED  BY <3>2 DEF n, m
    <2> QED  BY <2>2, <2>3, <2>4, <2>5, <1>1, <1>2
  <1>9. Cardinality(PagesIn(M, p2)) = h2.n_pages
    BY <1>8 DEF Heap, Absorbed, p
  <1>10. ASSUME NEW a \in Addresses, ClearOf(L, p, a, 1, 0)
         PROVE  h2.next[a] = h.next[a]
    <2>1. a \notin L
      <3> SUFFICES ASSUME a \in L PROVE FALSE
        OBVIOUS
      <3>1. a \in Nat /\ p[a] \in Nat /\ p[a] >= 1 /\ Clear(a, 1, a, 4 * p[a], 0)
        BY <1>0, <1>10 DEF ClearOf
      <3> QED  BY <3>1 DEF Clear
    <2> QED  BY <2>1 DEF Absorbed
  <1>11. ASSUME NEW x \in Int, NEW m \in Int, NEW k \in Nat, m >= 1, ClearOf(L, p, x, m, k)
         PROVE  ClearOf(M, p2, x, m, k)
    <2>1. ASSUME NEW a \in M PROVE Clear(x, m, a, 4 * p2[a], k)
      <3>1. /\ Clear(x, m, a, 4 * p[a], k) /\ a \in Nat /\ p[a] \in Nat
            /\ Clear(x, m, curr, 4 * p[curr], k) /\ curr \in Nat /\ p[curr] \in Nat
        BY <1>0, <1>11, <2>1 DEF ClearOf
      <3>2. CASE a = used
        BY <3>1, <3>2, <1>1, <1>2, <1>11 DEF Clear
      <3>3. CASE a # used
        BY <3>1, <3>3, <1>2
      <3> QED  BY <3>2, <3>3
    <2> QED  BY <2>1 DEF ClearOf
  <1>12. Merged(h, L, h2, M)
    BY <1>8, <1>10, <1>11 DEF Merged, p, p2
  <1> QED  BY <1>0, <1>4, <1>7, <1>9, <1>12 DEF Heap, p2

LEMMA MergedItself ==
  ASSUME NEW h, NEW L
  PROVE  Merged(h, L, h, L)
  BY DEF Merged

\* MergeNext(): the gap behind used, if it is none, is closed.
LEMMA MergeNextIs ==
  ASSUME NEW h, NEW L, NEW gap \in {0, 1}, Heap(h, L, 0),
         NEW used \in L, Gaps(L, h.pages, gap, used),
         NEW curr, h.next[used] = curr
  PROVE  \E M : Heap(MergeNext(h, used, curr), M, gap) /\ Merged(h, L, MergeNext(h, used, curr), M)
  <1> DEFINE h2 == MergeNext(h, used, curr)
             p == h.pages
  <1>0. /\ L \subseteq Addresses /\ h \in HeapType /\ After(L, used, curr)
        /\ \A a \in L : a \in Nat /\ a # NULL /\ p[a] \in Nat
        /\ p \in [Addresses -> Int] /\ Lengths(L, p, 0) /\ curr \in L \cup {NULL}
    <2>1. /\ L \subseteq Addresses /\ h \in HeapType /\ After(L, used, curr)
          /\ Lengths(L, p, 0) /\ p \in [Addresses -> Int]
      BY DEF Heap, Lengths, Ordered, HeapType
    <2>2. \A a \in L : a \in Nat /\ p[a] \in Nat
      BY <2>1, LengthsSpaced
    <2> QED  BY <2>1, <2>2, AddressesFinite DEF After
  <1>1. CASE Ends(h, used, curr)
    <2>1. curr \in L /\ used + 4 * h.pages[used] = curr /\ used # curr
      BY <1>0, <1>1, AddressesFinite DEF Ends, P2B, SZ_PAGE, After
    <2>2. h2 = [Join(h, used, curr) EXCEPT !.next[used] = h.next[curr]]
      BY <1>1 DEF MergeNext
    <2>3. Absorbed(h, h2, used, curr)
      <3>1. JUNK \in Int /\ JUNK \in Words
        BY DEF JUNK, Words
      <3>2. used \in Addresses /\ curr \in Addresses /\ p[used] \in Int /\ p[curr] \in Int
            /\ h.next[curr] \in Words /\ h.pages[used] + h.pages[curr] \in Int
        BY <1>0, <2>1 DEF HeapType
      <3>3. /\ h2.pages = [[h.pages EXCEPT ![used] = @ + h.pages[curr]] EXCEPT ![curr] = JUNK]
            /\ h2.next = [[h.next EXCEPT ![curr] = JUNK] EXCEPT ![used] = h.next[curr]]
            /\ h2.n_pages = h.n_pages /\ h2.free_pages = h.free_pages
            /\ h2 = [h EXCEPT !.pages = h2.pages, !.next = h2.next]
        BY <1>0, <2>2 DEF Join, HeapType
      <3> HIDE DEF h2
      <3>4. /\ h2.pages \in [Addresses -> Int] /\ h2.pages[used] = p[used] + p[curr]
            /\ \A a \in Addresses : a # used /\ a # curr => h2.pages[a] = p[a]
        BY <3>1, <3>2, <3>3, <2>1, <1>0
      <3>5. /\ h2.next \in [Addresses -> Words] /\ h2.next[used] = h.next[curr]
            /\ \A a \in Addresses : a # used /\ a # curr => h2.next[a] = h.next[a]
        BY <3>1, <3>2, <3>3, <2>1, <1>0 DEF HeapType
      <3>6. h2 \in HeapType
        BY <3>3, <3>4, <3>5, <1>0 DEF HeapType
      <3> QED  BY <3>3, <3>4, <3>5, <3>6 DEF Absorbed
    <2>4. Heap(h2, L \ {curr}, gap) /\ Merged(h, L, h2, L \ {curr})
      <3>1. gap \in Nat
        OBVIOUS
      <3> HIDE DEF h2
      <3> QED  BY <3>1, <2>1, <2>3, AbsorbBlock
    <2> QED  BY <2>4
  <1>2. CASE ~Ends(h, used, curr)
    <2>1. h2 = h
      BY <1>2 DEF MergeNext
    <2>2. ASSUME NEW a \in L, NEW c \in L, a < c
          PROVE  a + 4 * p[a] + gap <= c
      <3>1. CASE a # used
        BY <3>1, <2>2 DEF Gaps
      <3>2. CASE a = used
        <4>1. curr \in L /\ curr <= c /\ used < curr
          BY <3>2, <2>2, <1>0 DEF After
        <4>2. used + 4 * p[used] <= curr
          BY <4>1, <1>0 DEF Lengths
        <4>3. used + 4 * p[used] # curr
          BY <4>1, <1>0, <1>2 DEF Ends, P2B, SZ_PAGE
        <4> QED  BY <4>1, <4>2, <4>3, <3>2, <1>0
      <3> QED  BY <3>1, <3>2
    <2>3. Lengths(L, p, gap)
      BY <2>2, <1>0 DEF Lengths
    <2>4. Heap(h, L, gap)
      BY <2>3 DEF Heap
    <2> QED  BY <2>1, <2>4, MergedItself
  <1> QED  BY <1>1, <1>2

\* Relink() changes one pointer.
Pointed(h, h2, prev, b) ==
  /\ h2 \in HeapType
  /\ h2.pages = h.pages /\ h2.n_pages = h.n_pages
  /\ Relinked(h2.free_pages, h2.next, h.free_pages, h.next, Addresses, prev, b)

LEMMA RelinkIs ==
  ASSUME NEW h \in HeapType, NEW prev \in Addresses \cup {NULL}, NEW b \in Words
  PROVE  Pointed(h, Relink(h, prev, b), prev, b)
  <1> DEFINE h2 == Relink(h, prev, b)
  <1> SUFFICES Pointed(h, h2, prev, b)
    OBVIOUS
  <1> USE DEF Pointed
  <1>1. CASE prev = NULL
    BY <1>1, AddressesFinite DEF Relink, Relinked, HeapType
  <1>2. CASE prev # NULL
    <2>1. /\ h2 = [h EXCEPT !.next = [h.next EXCEPT ![prev] = b]]
          /\ h2.next = [h.next EXCEPT ![prev] = b]
          /\ h2.pages = h.pages /\ h2.n_pages = h.n_pages /\ h2.free_pages = h.free_pages
      BY <1>2 DEF Relink, HeapType
    <2> HIDE DEF h2
    <2>2. /\ h2.next \in [Addresses -> Words] /\ h2.next[prev] = b
          /\ \A a \in Addresses : a # prev => h2.next[a] = h.next[a]
      BY <2>1, <1>2 DEF HeapType
    <2>3. h2 \in HeapType
      BY <2>1, <2>2 DEF HeapType
    <2> QED  BY <2>1, <2>2, <2>3, <1>2 DEF Relinked
  <1> QED  BY <1>1, <1>2

\* The header of a new block is written, and the pointer to it.
Header(h, h1, b, n, curr) ==
  /\ h1 \in HeapType
  /\ h1.free_pages = h.free_pages /\ h1.n_pages = h.n_pages + n
  /\ h1.pages = [h.pages EXCEPT ![b] = n] /\ h1.next = [h.next EXCEPT ![b] = curr]

LEMMA InsertedIs ==
  ASSUME NEW h \in HeapType, NEW b \in Addresses, NEW n \in Nat,
         NEW prev \in Addresses \cup {NULL}, NEW curr \in Words, prev # b,
         NEW h1, Header(h, h1, b, n, curr)
  PROVE  Inserted(h, Relink(h1, prev, b), b, n, prev, curr)
  <1> DEFINE h2 == Relink(h1, prev, b)
  <1>1. /\ h1 \in HeapType
        /\ h1.free_pages = h.free_pages /\ h1.n_pages = h.n_pages + n
        /\ h1.pages = [h.pages EXCEPT ![b] = n] /\ h1.next = [h.next EXCEPT ![b] = curr]
    BY DEF Header
  <1>2. b \in Words
    BY DEF Words
  <1>3. /\ h2 \in HeapType
        /\ h2.pages = h1.pages /\ h2.n_pages = h1.n_pages
        /\ Relinked(h2.free_pages, h2.next, h1.free_pages, h1.next, Addresses, prev, b)
    BY <1>1, <1>2, RelinkIs DEF Pointed
  <1>4. h1.next[b] = curr /\ \A a \in Addresses : a # b => h1.next[a] = h.next[a]
    BY <1>1 DEF HeapType
  <1> HIDE DEF h2
  <1>5. h2.next[b] = curr
    BY <1>3, <1>4 DEF Relinked
  <1>6. Relinked(h2.free_pages, h2.next, h.free_pages, h.next, Addresses \ {b}, prev, b)
    BY <1>1, <1>3, <1>4 DEF Relinked
  <1> QED  BY <1>1, <1>3, <1>5, <1>6 DEF Inserted, h2

\* add_block(): gaps between the blocks stay as large as they were.
LEMMA AddBlockIs ==
  ASSUME NEW h, NEW L, NEW gap \in Nat, Heap(h, L, gap),
         NEW b \in Addresses, NEW length \in Nat, length >= SZ_PAGE,
         b + 4 * (length \div SZ_PAGE) <= KM_HIGH_CUTOFF,
         ClearOf(L, h.pages, b, 4 * (length \div SZ_PAGE), gap)
  PROVE  /\ Heap(add_block(h, b, length), L \cup {b}, gap)
         /\ Grown(h, L, add_block(h, b, length), L \cup {b}, b, length \div SZ_PAGE)
         /\ add_block(h, b, length).pages = [h.pages EXCEPT ![b] = length \div SZ_PAGE]
  <1> DEFINE n == length \div SZ_PAGE
             prev == Prev(h, Place(b))
             curr == Curr(h, Place(b))
             h1 == [h EXCEPT !.pages[b] = n, !.next[b] = curr, !.n_pages = @ + n]
             h2 == add_block(h, b, length)
  <1>1. n \in Nat /\ n >= 1
    BY DEF SZ_PAGE
  <1>2. h \in HeapType /\ L \subseteq Addresses /\ b \in Int /\ BlockList(h, L) /\ Lengths(L, h.pages, gap)
    BY HeapList, AddressesFinite DEF Heap, Ordered
  <1>3. h2 = Relink(h1, prev, b)
    BY <1>1 DEF add_block, SZ_PAGE
  <1> HIDE DEF n
  <1>4. b \notin L
    BY <1>1, <1>2, ClearNotListed DEF n
  <1>5. prev \in L \cup {NULL} /\ curr \in L \cup {NULL} /\ prev < b
    BY <1>2, <1>4, PlaceIs
  <1>6. prev \in Addresses \cup {NULL} /\ curr \in Words /\ prev # b
    BY <1>2, <1>4, <1>5, AddressesFinite DEF Words
  <1> HIDE DEF prev, curr
  <1>7. Header(h, h1, b, n, curr)
    <2>1. /\ h1.free_pages = h.free_pages /\ h1.n_pages = h.n_pages + n
          /\ h1.pages = [h.pages EXCEPT ![b] = n] /\ h1.next = [h.next EXCEPT ![b] = curr]
      BY <1>2 DEF HeapType
    <2>2. h1 \in HeapType
      <3> DEFINE q == [h.pages EXCEPT ![b] = n]
                 r == [h.next EXCEPT ![b] = curr]
                 k == h.n_pages + n
      <3>1. q \in [Addresses -> Int] /\ r \in [Addresses -> Words] /\ k \in Int
        BY <1>1, <1>2, <1>6 DEF HeapType
      <3>2. h1 = [h EXCEPT !.pages = q, !.next = r, !.n_pages = k]
        BY <1>2 DEF HeapType
      <3> HIDE DEF q, r, k, h1
      <3> QED  BY <3>1, <3>2, <1>2 DEF HeapType
    <2> QED  BY <2>1, <2>2 DEF Header
  <1> HIDE DEF h1, h2
  <1>8. Inserted(h, h2, b, n, prev, curr)
    BY <1>1, <1>2, <1>3, <1>6, <1>7, InsertedIs
  <1>9. Heap(h2, L \cup {b}, gap) /\ Grown(h, L, h2, L \cup {b}, b, n)
    BY <1>1, <1>8, InsertBlock DEF n, prev, curr
  <1> QED  BY <1>8, <1>9 DEF Inserted, h2, n

\* A block that is freed: Join() with its predecessor ...
LEMMA JoinedIs ==
  ASSUME NEW h \in HeapType, NEW b \in Addresses, NEW n \in Nat, NEW prev \in Addresses,
         prev # b, NEW h1, h1 = [h EXCEPT !.pages[b] = n, !.n_pages = @ + n]
  PROVE  Joined(h, Join(h1, prev, b), prev, b, n)
  <1> DEFINE h2 == Join(h1, prev, b)
             q1 == [h.pages EXCEPT ![b] = n]
             q2 == [[q1 EXCEPT ![prev] = @ + q1[b]] EXCEPT ![b] = JUNK]
             r2 == [h.next EXCEPT ![b] = JUNK]
             k == h.n_pages + n
  <1>1. h1 = [h EXCEPT !.pages = q1, !.n_pages = k]
    BY DEF HeapType
  <1>2. JUNK \in Int /\ JUNK \in Words
    BY DEF JUNK, Words
  <1>3. q1 \in [Addresses -> Int] /\ q1[b] = n /\ \A a \in Addresses : a # b => q1[a] = h.pages[a]
    BY DEF HeapType
  <1> HIDE DEF q1
  <1>4. /\ q2 \in [Addresses -> Int] /\ q2[prev] = h.pages[prev] + n
        /\ \A a \in Addresses : a # prev /\ a # b => q2[a] = h.pages[a]
    BY <1>2, <1>3
  <1>5. /\ r2 \in [Addresses -> Words] /\ \A a \in Addresses : a # b => r2[a] = h.next[a]
        /\ k \in Int
    BY <1>2 DEF HeapType
  <1>6. h1.pages = q1 /\ h1.n_pages = k /\ h1.next = h.next /\ h1.free_pages = h.free_pages
        /\ h1 \in HeapType
    BY <1>1, <1>3, <1>5 DEF HeapType
  <1>7. h2 = [h1 EXCEPT !.pages = q2, !.next = r2]
    BY <1>6 DEF Join, HeapType
  <1> HIDE DEF q2, r2, k, h2
  <1>8. /\ h2 \in HeapType /\ h2.pages = q2 /\ h2.next = r2 /\ h2.n_pages = k
        /\ h2.free_pages = h.free_pages
    BY <1>4, <1>5, <1>6, <1>7 DEF HeapType
  <1> QED  BY <1>4, <1>5, <1>8 DEF Joined, h2, k

\* ... or a place of its own behind it; then MergeNext().
LEMMA FreeIs ==
  ASSUME NEW h, NEW L, NEW gap \in {0, 1}, Heap(h, L, gap),
         NEW b \in Addresses, NEW n \in Nat, n >= 1, b + 4 * n <= KM_HIGH_CUTOFF,
         ClearOf(L, h.pages, b, 4 * n, 0)
  PROVE  \E M : /\ Heap(km_page_free_multi(h, b, n), M, gap)
                /\ Grown(h, L, km_page_free_multi(h, b, n), M, b, n)
  <1> DEFINE prev == Prev(h, Place(b))
             curr == Curr(h, Place(b))
             h1 == [h EXCEPT !.pages[b] = n, !.n_pages = @ + n]
             h2 == km_page_free_multi(h, b, n)
             p == h.pages
  <1>0. gap \in Nat /\ 0 \in Nat /\ n \in Int
    OBVIOUS
  <1>1. /\ h \in HeapType /\ L \subseteq Addresses /\ b \in Int /\ BlockList(h, L)
        /\ Lengths(L, p, gap) /\ h.next \in [Addresses -> Words] /\ p \in [Addresses -> Int]
    BY <1>0, HeapList, AddressesFinite DEF Heap, Ordered, HeapType
  <1>2. /\ Lengths(L, p, 0) /\ \A a \in L : a \in Nat /\ p[a] \in Nat
    BY <1>0, <1>1, LengthsSpaced
  <1>3. b \notin L
    BY <1>0, <1>1, <1>2, ClearNotListed
  <1>4. /\ prev \in L \cup {NULL} /\ curr \in L \cup {NULL} /\ prev < b
        /\ (curr # NULL => b < curr) /\ (prev # NULL => h.next[prev] = curr)
        /\ After(L, prev, curr)
    BY <1>1, <1>3, PlaceIs DEF Neighbours
  <1>5. prev \in Addresses \cup {NULL} /\ curr \in Words /\ prev # b
    BY <1>1, <1>3, <1>4, AddressesFinite DEF Words
  <1>6. h2 = Insert(h1, prev, b, curr)
    BY DEF km_page_free_multi
  <1> HIDE DEF prev, curr
  <1>7. /\ h1 \in HeapType /\ h1.next = h.next /\ h1.free_pages = h.free_pages
        /\ h1.n_pages = h.n_pages + n /\ h1.pages = [p EXCEPT ![b] = n]
    <2> DEFINE q == [h.pages EXCEPT ![b] = n]
               k == h.n_pages + n
    <2>1. q \in [Addresses -> Int] /\ k \in Int
      BY <1>1 DEF HeapType
    <2>2. h1 = [h EXCEPT !.pages = q, !.n_pages = k]
      BY <1>1 DEF HeapType
    <2> HIDE DEF q, k, h1
    <2>3. /\ h1 \in HeapType /\ h1.next = h.next /\ h1.free_pages = h.free_pages
          /\ h1.n_pages = k /\ h1.pages = q
      BY <2>1, <2>2, <1>1 DEF HeapType
    <2> QED  BY <2>3 DEF q, k
  <1>8. prev # NULL => h1.pages[prev] = p[prev]
    BY <1>1, <1>5, <1>7
  <1> HIDE DEF h2
  <1>9. CASE Ends(h1, prev, b)
    <2> DEFINE j == Join(h1, prev, b)
    <2>1. prev \in L /\ prev \in Addresses /\ prev + 4 * p[prev] = b /\ prev # NULL
      BY <1>1, <1>4, <1>8, <1>9 DEF Ends, P2B, SZ_PAGE
    <2>2. Joined(h, j, prev, b, n)
      BY <2>1, <1>1, <1>5, JoinedIs
    <2>3. h2 = MergeNext(j, prev, curr)
      BY <1>6, <1>9 DEF Insert
    <2> HIDE DEF j, h1
    <2>4. Heap(j, L, 0) /\ Gaps(L, j.pages, gap, prev) /\ Grown(h, L, j, L, b, n)
      BY <2>1, <2>2, <1>0, JoinBlock
    <2>5. j.next[prev] = curr
      BY <2>1, <2>2, <1>4, <1>5 DEF Joined
    <2>6. PICK M : Heap(h2, M, gap) /\ Merged(j, L, h2, M)
      BY <2>1, <2>3, <2>4, <2>5, MergeNextIs
    <2>7. Grown(h, L, h2, M, b, n)
      BY <2>4, <2>6, <1>0, <1>1, GrownMerged
    <2> QED  BY <2>6, <2>7 DEF h2
  <1>10. CASE ~Ends(h1, prev, b)
    <2> DEFINE h3 == [h1 EXCEPT !.next[b] = curr]
               j == Relink(h3, prev, b)
               N == L \cup {b}
    <2>1. h2 = MergeNext(j, b, curr)
      BY <1>6, <1>10 DEF Insert
    <2>2. Header(h, h3, b, n, curr)
      <3> DEFINE r == [h1.next EXCEPT ![b] = curr]
      <3>1. r \in [Addresses -> Words] /\ r = [h.next EXCEPT ![b] = curr]
        BY <1>1, <1>5, <1>7
      <3>2. h3 = [h1 EXCEPT !.next = r]
        BY <1>7 DEF HeapType
      <3> HIDE DEF r, h3, h1
      <3>3. /\ h3 \in HeapType /\ h3.next = r /\ h3.pages = h1.pages
            /\ h3.n_pages = h1.n_pages /\ h3.free_pages = h1.free_pages
        BY <3>1, <3>2, <1>7 DEF HeapType
      <3> QED  BY <3>1, <3>3, <1>7 DEF Header
    <2> HIDE DEF h3, h1
    <2>3. Inserted(h, j, b, n, prev, curr)
      BY <2>2, <1>1, <1>5, InsertedIs
    <2> HIDE DEF j
    <2>4. Heap(h, L, 0)
      BY <1>2 DEF Heap
    <2>5. Heap(j, N, 0) /\ Grown(h, L, j, N, b, n)
      BY <2>3, <2>4, <1>0, InsertBlock DEF prev, curr
    <2>6. j.pages[b] = n /\ \A a \in Addresses : a # b => j.pages[a] = p[a]
      BY <2>3, <1>1 DEF Inserted
    <2>7. Gaps(N, j.pages, gap, b)
      <3> SUFFICES ASSUME NEW a \in N, NEW c \in N, a < c, a # b
                   PROVE  a + 4 * j.pages[a] + gap <= c
        BY DEF Gaps
      <3>1. a \in L /\ j.pages[a] = p[a] /\ a \in Nat /\ p[a] \in Nat
        BY <2>6, <1>1, <1>2
      <3>2. CASE c \in L
        <4>1. a + 4 * p[a] + gap <= c
          BY <3>1, <3>2, <1>1 DEF Lengths
        <4> QED  BY <4>1, <3>1
      <3>3. CASE c = b
        <4>1. a <= prev /\ prev \in L
          <5>1. CASE a > prev
            <6>1. curr \in L /\ curr <= a
              BY <5>1, <3>1, <1>4 DEF After
            <6>2. curr \in Int /\ b < curr /\ curr # NULL
              BY <6>1, <1>1, <1>2, <1>4, AddressesFinite
            <6> QED  BY <6>1, <6>2, <3>1, <3>3, <1>1
          <5>2. CASE ~(a > prev)
            <6>1. prev \in Int
              BY <1>2, <1>4 DEF NULL
            <6>2. a <= prev
              BY <6>1, <5>2, <3>1
            <6> QED  BY <6>2, <3>1, <1>4 DEF NULL
          <5> QED  BY <5>1, <5>2
        <4>2. CASE a = prev
          <5>1. a + 4 * p[a] + 0 <= b
            <6>1. Lengths(N, j.pages, 0)
              BY <2>5 DEF Heap
            <6>2. a + 4 * j.pages[a] + 0 <= b
              BY <6>1, <3>3 DEF Lengths
            <6> QED  BY <6>2, <3>1
          <5>2. a + 4 * p[a] # b
            <6>1. prev # NULL /\ b # NULL
              BY <4>1, <1>1, AddressesFinite
            <6> QED  BY <6>1, <4>2, <1>8, <1>10 DEF Ends, P2B, SZ_PAGE
          <5> QED  BY <5>1, <5>2, <3>1, <3>3, <1>1
        <4>3. CASE a # prev
          <5>1. a < prev /\ prev \in Nat
            BY <4>1, <4>3, <3>1, <1>2
          <5>2. a + 4 * p[a] + gap <= prev
            BY <5>1, <4>1, <3>1, <1>1 DEF Lengths
          <5> QED  BY <5>1, <5>2, <3>1, <3>3, <1>1, <1>4
        <4> QED  BY <4>2, <4>3
      <3> QED  BY <3>2, <3>3
    <2>8. b \in N /\ j.next[b] = curr
      BY <2>3 DEF Inserted
    <2> HIDE DEF N
    <2>9. PICK M : Heap(h2, M, gap) /\ Merged(j, N, h2, M)
      BY <2>1, <2>5, <2>7, <2>8, MergeNextIs
    <2>10. Grown(h, L, h2, M, b, n)
      BY <2>5, <2>9, <1>0, <1>1, GrownMerged
    <2> QED  BY <2>9, <2>10 DEF h2
  <1> QED  BY <1>9, <1>10

-----------------------------------------------------------------------------
(* Pages leave the list *)

\* The n pages at b were the first of a block and are not in the list any more;
\* other memory is not touched, and what was clear of the list is still.
Shrunk(h, L, h2, M, b, n) ==
  /\ b \in L /\ n <= h.pages[b]
  /\ PagesIn(L, h.pages) = PagesIn(M, h2.pages) \cup PagesAt(b, n)
  /\ ClearOf(M, h2.pages, b, 4 * n, 0)
  /\ \A a \in Addresses : ClearOf(L, h.pages, a, 1, 0) => h2.next[a] = h.next[a]
  /\ \A x, m \in Int, k \in Nat :
       m >= 1 /\ ClearOf(L, h.pages, x, m, k)
         => ClearOf(M, h2.pages, x, m, k) /\ Clear(x, m, b, 4 * n, k)

\* Forget(), and the new count.
Forgotten(h, h2, b, length, n_pages) ==
  /\ h2 \in HeapType
  /\ h2.free_pages = h.free_pages /\ h2.n_pages = n_pages
  /\ \A a \in Addresses : a < b \/ a >= b + length =>
       h2.pages[a] = h.pages[a] /\ h2.next[a] = h.next[a]

LEMMA ForgetIs ==
  ASSUME NEW h \in HeapType, NEW b \in Int, NEW length \in Nat, NEW k \in Int,
         NEW h2, h2 = Forget([h EXCEPT !.n_pages = k], b, length)
  PROVE  Forgotten(h, h2, b, length, k)
  <1> DEFINE S == b..(b + length - 1)
             h1 == [h EXCEPT !.n_pages = k]
             q == [a \in Addresses |-> IF a \in S THEN JUNK ELSE h.pages[a]]
             r == [a \in Addresses |-> IF a \in S THEN JUNK ELSE h.next[a]]
  <1>1. /\ h1 \in HeapType /\ h1.pages = h.pages /\ h1.next = h.next
        /\ h1.free_pages = h.free_pages /\ h1.n_pages = k
    BY DEF HeapType
  <1>2. JUNK \in Int /\ JUNK \in Words
    BY DEF JUNK, Words
  <1>3. h2 = [h1 EXCEPT !.pages = q, !.next = r]
    BY <1>1 DEF Forget, HeapType
  <1>4. q \in [Addresses -> Int] /\ r \in [Addresses -> Words]
    BY <1>2 DEF HeapType
  <1>5. \A a \in Addresses : a < b \/ a >= b + length => a \notin S
    BY AddressesFinite
  <1>6. \A a \in Addresses : a < b \/ a >= b + length => q[a] = h.pages[a] /\ r[a] = h.next[a]
    BY <1>5
  <1> HIDE DEF q, r, h1
  <1>7. h2 \in HeapType /\ h2.pages = q /\ h2.next = r /\ h2.free_pages = h1.free_pages
        /\ h2.n_pages = h1.n_pages
    BY <1>1, <1>3, <1>4 DEF HeapType
  <1> QED  BY <1>1, <1>6, <1>7 DEF Forgotten

\* The whole block leaves.
LEMMA TakeWhole ==
  ASSUME NEW h, NEW L, NEW gap \in Nat, Heap(h, L, gap), NEW b \in L, NEW n, n = h.pages[b],
         NEW prev, Neighbours(h.free_pages, h.next, L, prev, b),
         NEW h2, Forgotten(Relink(h, prev, h.next[b]), h2, b, 4 * n, h.n_pages - n)
  PROVE  Heap(h2, L \ {b}, gap) /\ Shrunk(h, L, h2, L \ {b}, b, n)
  <1> DEFINE p == h.pages
             p2 == h2.pages
             M == L \ {b}
             h1 == Relink(h, prev, h.next[b])
  <1>0. /\ L \subseteq Addresses /\ h \in HeapType /\ h2 \in HeapType
        /\ p \in [Addresses -> Int] /\ p2 \in [Addresses -> Int]
        /\ Lengths(L, p, gap) /\ Lengths(L, p, 0) /\ prev \in L \cup {NULL} /\ prev # b
        /\ \A a \in L : a \in Nat /\ p[a] \in Nat /\ p[a] >= 1 /\ a # NULL
    <2>1. /\ L \subseteq Addresses /\ h \in HeapType /\ h2 \in HeapType
          /\ p \in [Addresses -> Int] /\ p2 \in [Addresses -> Int]
          /\ Lengths(L, p, gap)
      BY AddressesFinite DEF Heap, Lengths, HeapType, Forgotten
    <2>2. Lengths(L, p, 0) /\ \A a \in L : a \in Nat /\ p[a] \in Nat
      BY <2>1, LengthsSpaced
    <2>3. prev \in L \cup {NULL} /\ prev # b
      BY <2>2, AddressesFinite DEF Neighbours, After, NULL
    <2> QED  BY <2>1, <2>2, <2>3, AddressesFinite DEF Lengths
  <1>1. /\ h1 \in HeapType /\ h1.pages = p /\ h1.n_pages = h.n_pages
        /\ Relinked(h1.free_pages, h1.next, h.free_pages, h.next, Addresses, prev, h.next[b])
    <2>1. prev \in Addresses \cup {NULL} /\ h.next[b] \in Words
      BY <1>0 DEF HeapType
    <2> QED  BY <2>1, <1>0, RelinkIs DEF Pointed
  <1>2. /\ h2.free_pages = h1.free_pages /\ h2.n_pages = h.n_pages - n
        /\ \A a \in Addresses : a < b \/ a >= b + 4 * n =>
             p2[a] = h1.pages[a] /\ h2.next[a] = h1.next[a]
    BY DEF Forgotten
  <1> HIDE DEF p, p2, h1
  <1>3. n \in Nat /\ n >= 1 /\ n = p[b]
    BY <1>0 DEF p
  <1>4. ASSUME NEW a \in M
        PROVE  a < b \/ a >= b + 4 * n
    <2>1. CASE b < a
      <3>1. b + 4 * p[b] + 0 <= a
        BY <1>0, <2>1 DEF Lengths
      <3> QED  BY <3>1, <1>0, <1>3
    <2> QED  BY <2>1, <1>0
  <1>5. ASSUME NEW a \in M
        PROVE  p2[a] = p[a] /\ h2.next[a] = h1.next[a]
    BY <1>0, <1>1, <1>2, <1>4
  <1>6. Ordered(h2.free_pages, h2.next, M)
    <2>1. Relinked(h2.free_pages, h2.next, h.free_pages, h.next, M, prev, h.next[b])
      BY <1>0, <1>1, <1>2, <1>5 DEF Relinked
    <2> QED  BY <2>1, OrderedDrop
  <1>7. Agree(M, p, p2)
    BY <1>5 DEF Agree
  <1>8. Lengths(M, p2, gap)
    <2>1. M \subseteq L
      OBVIOUS
    <2> QED  BY <2>1, <1>0, <1>7, LengthsFewer
  <1>9. PagesIn(L, p) = PagesIn(M, p2) \cup PagesAt(b, n)
    <2>1. L = M \cup {b} /\ Agree(M, p, p)
      BY DEF Agree
    <2> HIDE DEF M
    <2>2. PagesIn(L, p) = PagesIn(M, p) \cup PagesAt(b, p[b])
      BY <2>1, PagesInPlus
    <2>3. PagesIn(M, p2) = PagesIn(M, p)
      BY <1>7, PagesInSame
    <2> QED  BY <2>2, <2>3, <1>3
  <1>10. ClearOf(M, p2, b, 4 * n, 0)
    <2>1. ASSUME NEW a \in M PROVE Clear(b, 4 * n, a, 4 * p2[a], 0)
      <3>1. a # b /\ a \in Nat /\ b \in Nat /\ p[a] \in Nat /\ p2[a] = p[a]
        BY <1>0, <1>5
      <3>2. CASE a < b
        <4>1. a + 4 * p[a] + 0 <= b
          BY <3>2, <1>0 DEF Lengths
        <4> QED  BY <4>1, <3>1 DEF Clear
      <3>3. CASE b < a
        <4>1. b + 4 * p[b] + 0 <= a
          BY <3>3, <1>0 DEF Lengths
        <4> QED  BY <4>1, <1>3 DEF Clear
      <3> QED  BY <3>1, <3>2, <3>3
    <2> QED  BY <2>1 DEF ClearOf
  <1>11. Cardinality(PagesIn(M, p2)) = h2.n_pages
    <2>0. b \in Int /\ n \in Int /\ 0 \in Nat
      BY <1>0, <1>3
    <2>1. PagesIn(M, p2) \cap PagesAt(b, n) = {}
      BY <1>8, <1>10, <2>0, ClearOfPages
    <2>2. IsFiniteSet(PagesIn(M, p2))
      BY <1>8, PagesInFinite
    <2>3. /\ Cardinality(PagesIn(M, p2) \cup PagesAt(b, n)) = Cardinality(PagesIn(M, p2)) + n
          /\ Cardinality(PagesIn(M, p2)) \in Nat
      BY <1>3, <2>0, <2>1, <2>2, CountPlus
    <2>4. Cardinality(PagesIn(L, p)) = h.n_pages
      BY DEF Heap, p
    <2> QED  BY <2>3, <2>4, <1>2, <1>3, <1>9
  <1>12. ASSUME NEW a \in Addresses, ClearOf(L, p, a, 1, 0)
         PROVE  h2.next[a] = h.next[a]
    <2>1. a \notin L
      <3> SUFFICES ASSUME a \in L PROVE FALSE
        OBVIOUS
      <3>1. a \in Nat /\ p[a] \in Nat /\ p[a] >= 1 /\ Clear(a, 1, a, 4 * p[a], 0)
        BY <1>0, <1>12 DEF ClearOf
      <3> QED  BY <3>1 DEF Clear
    <2>2. a # prev /\ a \in Nat
      BY <2>1, <1>0, AddressesFinite
    <2>3. Clear(a, 1, b, 4 * p[b], 0)
      BY <1>12 DEF ClearOf
    <2>4. a < b \/ a >= b + 4 * n
      BY <2>2, <2>3, <1>0, <1>3 DEF Clear
    <2> QED  BY <2>2, <2>4, <1>1, <1>2 DEF Relinked
  <1>13. ASSUME NEW x \in Int, NEW m \in Int, NEW k \in Nat, m >= 1, ClearOf(L, p, x, m, k)
         PROVE  ClearOf(M, p2, x, m, k) /\ Clear(x, m, b, 4 * n, k)
    BY <1>3, <1>5, <1>13 DEF ClearOf
  <1>14. n <= p[b]
    BY <1>3
  <1>15. Shrunk(h, L, h2, M, b, n)
    BY <1>9, <1>10, <1>12, <1>13, <1>14 DEF Shrunk, p, p2
  <1> QED  BY <1>0, <1>6, <1>8, <1>11, <1>15 DEF Heap, p2

\* Its first pages leave, and the rest of it takes its place.
Fragmented(h, h1, b, n, prev) ==
  /\ h1 \in HeapType
  /\ h1.n_pages = h.n_pages
  /\ h1.pages = [h.pages EXCEPT ![b + 4 * n] = h.pages[b] - n]
  /\ h1.next[b + 4 * n] = h.next[b]
  /\ Relinked(h1.free_pages, h1.next, h.free_pages, h.next, Addresses \ {b + 4 * n},
              prev, b + 4 * n)

LEMMA TakePart ==
  ASSUME NEW h, NEW L, NEW gap \in Nat, Heap(h, L, gap), NEW b \in L,
         NEW n \in Nat, n >= 1, n < h.pages[b],
         NEW prev, Neighbours(h.free_pages, h.next, L, prev, b),
         NEW h1, Fragmented(h, h1, b, n, prev),
         NEW h2, Forgotten(h1, h2, b, 4 * n, h.n_pages - n)
  PROVE  /\ Heap(h2, (L \ {b}) \cup {b + 4 * n}, gap)
         /\ Shrunk(h, L, h2, (L \ {b}) \cup {b + 4 * n}, b, n)
  <1> DEFINE p == h.pages
             p2 == h2.pages
             rest == b + 4 * n
             K == L \ {b}
             M == K \cup {rest}
  <1>0. /\ L \subseteq Addresses /\ h \in HeapType /\ h2 \in HeapType
        /\ p \in [Addresses -> Int] /\ p2 \in [Addresses -> Int]
        /\ Lengths(L, p, gap) /\ Lengths(L, p, 0) /\ prev \in L \cup {NULL} /\ prev < b /\ prev \in Int
        /\ \A a \in L : a \in Nat /\ p[a] \in Nat /\ p[a] >= 1 /\ a # NULL
    <2>1. /\ L \subseteq Addresses /\ h \in HeapType /\ h2 \in HeapType
          /\ p \in [Addresses -> Int] /\ p2 \in [Addresses -> Int]
          /\ Lengths(L, p, gap)
      BY AddressesFinite DEF Heap, Lengths, HeapType, Forgotten
    <2>2. Lengths(L, p, 0) /\ \A a \in L : a \in Nat /\ p[a] \in Nat
      BY <2>1, LengthsSpaced
    <2>3. prev \in L \cup {NULL} /\ prev < b /\ prev \in Int
      BY <2>1, <2>2, AddressesFinite DEF Neighbours, After, NULL
    <2> QED  BY <2>1, <2>2, <2>3, AddressesFinite DEF Lengths
  <1>1. /\ h1 \in HeapType /\ h1.n_pages = h.n_pages
        /\ h1.pages = [p EXCEPT ![rest] = p[b] - n] /\ h1.next[rest] = h.next[b]
        /\ Relinked(h1.free_pages, h1.next, h.free_pages, h.next, Addresses \ {rest}, prev, rest)
    BY DEF Fragmented
  <1>2. /\ h2.free_pages = h1.free_pages /\ h2.n_pages = h.n_pages - n
        /\ \A a \in Addresses : a < b \/ a >= b + 4 * n =>
             p2[a] = h1.pages[a] /\ h2.next[a] = h1.next[a]
    BY DEF Forgotten
  <1>3. n < p[b]
    OBVIOUS
  <1> HIDE DEF p, p2
  <1>4. /\ rest \in Addresses /\ rest \in Nat /\ b < rest /\ rest < b + 4 * p[b]
        /\ b \in Nat /\ p[b] \in Nat
    <2>1. b + 4 * p[b] <= KM_HIGH_CUTOFF /\ b >= KM_LOW_CUTOFF /\ b \in Nat /\ p[b] \in Nat
      BY <1>0, KmemAssumption DEF Lengths, Addresses
    <2> QED  BY <2>1, <1>3, KmemAssumption DEF Addresses
  <1>5. rest = b + 4 * n
    OBVIOUS
  <1> HIDE DEF rest
  <1>6. \A a \in L : a > b => b + 4 * p[b] + gap <= a
    BY <1>0 DEF Lengths
  <1>7. ASSUME NEW a \in L, a > b PROVE rest < a
    BY <1>0, <1>4, <1>6, <1>7
  <1>8. rest \notin L
    BY <1>4, <1>7
  <1>9. p2[rest] = p[b] - n /\ h2.next[rest] = h.next[b]
    BY <1>0, <1>1, <1>2, <1>4, <1>5
  <1>10. ASSUME NEW a \in K
         PROVE  a \in Addresses /\ a # rest /\ p2[a] = p[a] /\ h2.next[a] = h1.next[a]
    <2>1. a \in Nat /\ a # b /\ a # rest /\ a \in Addresses
      BY <1>0, <1>8
    <2>2. a < b \/ a >= b + 4 * n
      BY <2>1, <1>4, <1>5, <1>7
    <2> QED  BY <2>1, <2>2, <1>0, <1>1, <1>2
  <1>11. Ordered(h2.free_pages, h2.next, M)
    <2>1. prev # NULL => prev \in K
      BY <1>0
    <2>2. Relinked(h2.free_pages, h2.next, h.free_pages, h.next, K, prev, rest)
      BY <2>1, <1>1, <1>2, <1>10 DEF Relinked
    <2>3. \A a \in L : a > b => rest < a
      BY <1>7
    <2> QED  BY <2>2, <2>3, <1>4, <1>9, OrderedReplace
  <1>12. Agree(K, p, p2)
    BY <1>10 DEF Agree
  <1>13. Lengths(M, p2, gap)
    <2>1. ASSUME NEW a \in M PROVE p2[a] >= 1 /\ a + 4 * p2[a] <= KM_HIGH_CUTOFF
      <3>1. CASE a = rest
        <4>1. b + 4 * p[b] <= KM_HIGH_CUTOFF
          BY <1>0 DEF Lengths
        <4> QED  BY <4>1, <3>1, <1>3, <1>4, <1>5, <1>9
      <3>2. CASE a \in K
        BY <3>2, <1>0, <1>10 DEF Lengths
      <3> QED  BY <3>1, <3>2
    <2>2. ASSUME NEW a \in M, NEW c \in M, a < c
          PROVE  a + 4 * p2[a] + gap <= c
      <3>1. CASE a \in K /\ c \in K
        <4>1. a + 4 * p[a] + gap <= c
          BY <3>1, <2>2, <1>0 DEF Lengths
        <4> QED  BY <4>1, <3>1, <1>10
      <3>2. CASE a = rest /\ c \in K
        <4>1. c \in Nat /\ b < c
          BY <3>2, <2>2, <1>0, <1>4
        <4>2. b + 4 * p[b] + gap <= c
          BY <4>1, <3>2, <1>6
        <4> QED  BY <4>1, <4>2, <3>2, <1>4, <1>5, <1>9
      <3>3. CASE a \in K /\ c = rest
        <4>1. a \in Nat /\ p[a] \in Nat /\ a # b /\ a < rest
          BY <3>3, <2>2, <1>0
        <4>2. a < b
          BY <4>1, <3>3, <1>4, <1>7
        <4>3. a + 4 * p[a] + gap <= b
          BY <4>2, <3>3, <1>0 DEF Lengths
        <4> QED  BY <4>1, <4>3, <3>3, <1>4, <1>10
      <3>4. CASE a = rest /\ c = rest
        BY <3>4, <2>2, <1>4
      <3> QED  BY <3>1, <3>2, <3>3, <3>4
    <2> QED  BY <2>1, <2>2, <1>0, <1>4 DEF Lengths
  <1>14. PagesIn(L, p) = PagesIn(M, p2) \cup PagesAt(b, n)
    <2>1. L = K \cup {b} /\ Agree(K, p, p)
      BY DEF Agree
    <2>2. M = K \cup {rest}
      OBVIOUS
    <2> HIDE DEF M, K
    <2>3. PagesIn(L, p) = PagesIn(K, p) \cup PagesAt(b, p[b])
      BY <2>1, PagesInPlus
    <2>4. PagesIn(M, p2) = PagesIn(K, p) \cup PagesAt(rest, p2[rest])
      BY <2>2, <1>12, PagesInPlus
    <2>5. PagesAt(b, p[b]) = PagesAt(b, n) \cup PagesAt(rest, p2[rest])
      <3> DEFINE m == p[b] - n
      <3>1. b \in Int /\ m \in Nat /\ p[b] = n + m /\ p2[rest] = m
        BY <1>3, <1>4, <1>9
      <3> HIDE DEF m
      <3>2. PagesAt(b, n + m) = PagesAt(b, n) \cup PagesAt(b + 4 * n, m)
        BY <3>1, PagesAtSplit
      <3> QED  BY <3>1, <3>2, <1>5
    <2> QED  BY <2>3, <2>4, <2>5
  <1>15. ClearOf(M, p2, b, 4 * n, 0)
    <2>1. ASSUME NEW a \in M PROVE Clear(b, 4 * n, a, 4 * p2[a], 0)
      <3>1. CASE a = rest
        BY <3>1, <1>4, <1>5 DEF Clear
      <3>2. CASE a \in K /\ a > b
        <4>1. rest < a /\ a \in Nat
          BY <3>2, <1>0, <1>7
        <4> QED  BY <4>1, <1>4, <1>5 DEF Clear
      <3>3. CASE a \in K /\ a < b
        <4>1. a + 4 * p[a] + 0 <= b /\ p2[a] = p[a]
          BY <3>3, <1>0, <1>10 DEF Lengths
        <4> QED  BY <4>1 DEF Clear
      <3>4. a \in K => a > b \/ a < b
        BY <1>0
      <3> QED  BY <3>1, <3>2, <3>3, <3>4
    <2> QED  BY <2>1 DEF ClearOf
  <1>16. Cardinality(PagesIn(M, p2)) = h2.n_pages
    <2>0. b \in Int /\ n \in Int /\ 0 \in Nat
      BY <1>4
    <2>1. PagesIn(M, p2) \cap PagesAt(b, n) = {}
      BY <1>13, <1>15, <2>0, ClearOfPages
    <2>2. IsFiniteSet(PagesIn(M, p2))
      BY <1>13, PagesInFinite
    <2>3. /\ Cardinality(PagesIn(M, p2) \cup PagesAt(b, n)) = Cardinality(PagesIn(M, p2)) + n
          /\ Cardinality(PagesIn(M, p2)) \in Nat
      BY <2>0, <2>1, <2>2, CountPlus
    <2>4. Cardinality(PagesIn(L, p)) = h.n_pages
      BY DEF Heap, p
    <2> QED  BY <2>3, <2>4, <1>2, <1>14
  <1>17. ASSUME NEW a \in Addresses, ClearOf(L, p, a, 1, 0)
         PROVE  h2.next[a] = h.next[a]
    <2>1. a \notin L
      <3> SUFFICES ASSUME a \in L PROVE FALSE
        OBVIOUS
      <3>1. a \in Nat /\ p[a] \in Nat /\ p[a] >= 1 /\ Clear(a, 1, a, 4 * p[a], 0)
        BY <1>0, <1>17 DEF ClearOf
      <3> QED  BY <3>1 DEF Clear
    <2>2. a # prev /\ a \in Nat
      BY <2>1, <1>0, AddressesFinite
    <2>3. Clear(a, 1, b, 4 * p[b], 0)
      BY <1>17 DEF ClearOf
    <2>4. (a < b \/ a >= b + 4 * n) /\ a # rest
      BY <2>2, <2>3, <1>3, <1>4, <1>5 DEF Clear
    <2> QED  BY <2>2, <2>4, <1>1, <1>2 DEF Relinked
  <1>18. ASSUME NEW x \in Int, NEW m \in Int, NEW k \in Nat, m >= 1, ClearOf(L, p, x, m, k)
         PROVE  ClearOf(M, p2, x, m, k) /\ Clear(x, m, b, 4 * n, k)
    <2>1. Clear(x, m, b, 4 * p[b], k)
      BY <1>18 DEF ClearOf
    <2>2. Clear(x, m, b, 4 * n, k) /\ Clear(x, m, rest, 4 * p2[rest], k)
      BY <2>1, <1>3, <1>4, <1>5, <1>9, <1>18 DEF Clear
    <2>3. ASSUME NEW a \in K PROVE Clear(x, m, a, 4 * p2[a], k)
      BY <1>10, <1>18 DEF ClearOf
    <2> QED  BY <2>2, <2>3 DEF ClearOf
  <1>19. n <= p[b]
    BY <1>3, <1>4
  <1>20. Shrunk(h, L, h2, M, b, n)
    BY <1>14, <1>15, <1>17, <1>18, <1>19 DEF Shrunk, p, p2
  <1>21. Heap(h2, M, gap)
    BY <1>0, <1>11, <1>13, <1>16 DEF Heap, p2
  <1> QED  BY <1>20, <1>21, <1>5

\* Fit() is a block that is large enough, or NULL if none is.
LEMMA FitIs ==
  ASSUME NEW h, NEW L, NEW gap \in Nat, Heap(h, L, gap), NEW count \in Nat
  PROVE  /\ Fit(h, count) = NULL => \A a \in L : h.pages[a] < count
         /\ Fit(h, count) # NULL =>
              /\ Fit(h, count) \in L /\ h.pages[Fit(h, count)] >= count
              /\ Neighbours(h.free_pages, h.next, L, Prev(h, Large(h, count)), Fit(h, count))
  <1> DEFINE b == Fit(h, count)
             prev == Prev(h, Large(h, count))
  <1>1. BlockList(h, L) /\ L \subseteq Addresses /\ h.pages \in [Addresses -> Int]
    BY HeapList DEF Heap, Ordered, HeapType
  <1>2. Stopped(h, L, Large(h, count), prev, b)
    BY <1>1, StopsAtLeast DEF Fit
  <1>3. Neighbours(h.free_pages, h.next, L, prev, b)
    BY <1>1, <1>2, StopNeighbours DEF BlockList
  <1> HIDE DEF b, prev
  <1>4. b = NULL => \A a \in L : h.pages[a] < count
    BY <1>1, <1>2 DEF Stopped, Large
  <1>5. b # NULL => b \in L /\ h.pages[b] >= count
    BY <1>1, <1>2 DEF Stopped, Large
  <1> QED  BY <1>3, <1>4, <1>5 DEF b, prev

\* TakePages(): km_page_alloc() when there is such a block.
LEMMA TakeIs ==
  ASSUME NEW h, NEW L, NEW gap \in Nat, Heap(h, L, gap), NEW count \in Nat, count >= 1,
         Fit(h, count) # NULL
  PROVE  \E M : /\ Heap(TakePages(h, count), M, gap)
                /\ Shrunk(h, L, TakePages(h, count), M, Fit(h, count), count)
  <1> DEFINE b == Fit(h, count)
             prev == Prev(h, Large(h, count))
             rest == b + 4 * count
             h2 == TakePages(h, count)
             h3 == [h EXCEPT !.pages[rest] = h.pages[b] - count, !.next[rest] = h.next[b]]
             left == IF h.pages[b] = count THEN Relink(h, prev, h.next[b])
                     ELSE Relink(h3, prev, rest)
  <1>1. /\ b \in L /\ h.pages[b] >= count /\ Neighbours(h.free_pages, h.next, L, prev, b)
    BY FitIs
  <1>2. /\ h \in HeapType /\ L \subseteq Addresses /\ b \in Addresses /\ b \in Nat
        /\ h.pages[b] \in Int /\ h.next[b] \in Words /\ h.n_pages \in Int
        /\ prev \in Addresses \cup {NULL} /\ prev < b /\ h.pages \in [Addresses -> Int]
        /\ h.next \in [Addresses -> Words]
    BY <1>1, AddressesFinite DEF Heap, Ordered, HeapType, Neighbours, After, NULL
  <1>3. h2 = Forget([left EXCEPT !.n_pages = @ - count], b, 4 * count)
    BY DEF TakePages, Fragment, P2B, SZ_PAGE
  <1> HIDE DEF b, prev, h2
  <1> DEFINE k == h.n_pages - count
  <1>6. k \in Int /\ b \in Int /\ 4 * count \in Nat
    BY <1>2
  <1>4. CASE h.pages[b] = count
    <2>1. left = Relink(h, prev, h.next[b])
      BY <1>4
    <2>2. left \in HeapType /\ left.n_pages = h.n_pages
      <3> HIDE DEF left
      <3>1. Pointed(h, Relink(h, prev, h.next[b]), prev, h.next[b])
        BY <1>2, RelinkIs
      <3> QED  BY <3>1, <2>1 DEF Pointed
    <2> HIDE DEF left
    <2>3. Forgotten(left, h2, b, 4 * count, k)
      <3>1. h2 = Forget([left EXCEPT !.n_pages = k], b, 4 * count)
        BY <1>3, <2>2
      <3> QED  BY <3>1, <2>2, <1>2, <1>6, ForgetIs
    <2>4. Heap(h2, L \ {b}, gap) /\ Shrunk(h, L, h2, L \ {b}, b, count)
      BY <2>1, <2>3, <1>1, <1>4, TakeWhole DEF k
    <2> QED  BY <2>4 DEF b, h2
  <1>5. CASE h.pages[b] # count
    <2>1. left = Relink(h3, prev, rest) /\ count < h.pages[b]
      BY <1>1, <1>2, <1>5
    <2>2. rest \in Addresses /\ rest \in Nat /\ rest # prev /\ rest \in Words
      <3>1. b + 4 * h.pages[b] <= KM_HIGH_CUTOFF /\ b >= KM_LOW_CUTOFF
        BY <1>1, <1>2, KmemAssumption DEF Heap, Lengths, Addresses
      <3>2. rest \in Addresses
        <4> DEFINE f == h.pages[b]
        <4>1. /\ f \in Int /\ b \in Nat /\ count < f /\ b + 4 * f <= KM_HIGH_CUTOFF
              /\ b >= KM_LOW_CUTOFF
          BY <3>1, <2>1, <1>2
        <4> HIDE DEF f
        <4>2. rest \in Int /\ rest >= KM_LOW_CUTOFF /\ rest <= KM_HIGH_CUTOFF - 1
          BY <4>1, KmemAssumption
        <4> QED  BY <4>2, KmemAssumption DEF Addresses
      <3>3. rest > b
        BY <1>2
      <3> QED  BY <3>2, <3>3, <1>2, AddressesFinite DEF Words, NULL
    <2>3. /\ h3 \in HeapType /\ h3.n_pages = h.n_pages /\ h3.free_pages = h.free_pages
          /\ h3.pages = [h.pages EXCEPT ![rest] = h.pages[b] - count]
          /\ h3.next = [h.next EXCEPT ![rest] = h.next[b]]
      <3> DEFINE q == [h.pages EXCEPT ![rest] = h.pages[b] - count]
                 r == [h.next EXCEPT ![rest] = h.next[b]]
      <3>1. q \in [Addresses -> Int] /\ r \in [Addresses -> Words]
        BY <1>2, <2>2
      <3>2. h3 = [h EXCEPT !.pages = q, !.next = r]
        BY <1>2 DEF HeapType
      <3> HIDE DEF q, r, h3
      <3>3. /\ h3 \in HeapType /\ h3.n_pages = h.n_pages /\ h3.free_pages = h.free_pages
            /\ h3.pages = q /\ h3.next = r
        BY <3>1, <3>2, <1>2 DEF HeapType
      <3> QED  BY <3>3 DEF q, r
    <2>4. /\ h3.next[rest] = h.next[b]
          /\ \A a \in Addresses : a # rest => h3.next[a] = h.next[a]
      BY <2>2, <2>3, <1>2
    <2> HIDE DEF left, h3
    <2>5. /\ left \in HeapType /\ left.n_pages = h3.n_pages /\ left.pages = h3.pages
          /\ Relinked(left.free_pages, left.next, h3.free_pages, h3.next, Addresses, prev, rest)
      <3>1. Pointed(h3, Relink(h3, prev, rest), prev, rest)
        BY <2>2, <2>3, <1>2, RelinkIs
      <3> QED  BY <3>1, <2>1 DEF Pointed
    <2>6. Fragmented(h, left, b, count, prev)
      <3>1. left.next[rest] = h.next[b]
        BY <2>2, <2>4, <2>5 DEF Relinked
      <3>2. Relinked(left.free_pages, left.next, h.free_pages, h.next, Addresses \ {rest}, prev, rest)
        BY <2>3, <2>4, <2>5 DEF Relinked
      <3> QED  BY <3>1, <3>2, <2>3, <2>5 DEF Fragmented
    <2>7. Forgotten(left, h2, b, 4 * count, k)
      <3>1. h2 = Forget([left EXCEPT !.n_pages = k], b, 4 * count)
        BY <1>3, <2>3, <2>5
      <3> QED  BY <3>1, <2>5, <1>2, <1>6, ForgetIs
    <2>8. /\ Heap(h2, (L \ {b}) \cup {b + 4 * count}, gap)
          /\ Shrunk(h, L, h2, (L \ {b}) \cup {b + 4 * count}, b, count)
      BY <2>1, <2>6, <2>7, <1>1, TakePart DEF k
    <2> QED  BY <2>8 DEF b, h2
  <1> QED  BY <1>4, <1>5

\* Without adjacent blocks, a run of free pages lies within one block.
LEMMA RunInBlock ==
  ASSUME NEW h, NEW L, Heap(h, L, 1), NEW count \in Nat, count >= 1,
         \A a \in L : h.pages[a] < count, NEW b \in Int
  PROVE  ~(PagesAt(b, count) \subseteq PagesIn(L, h.pages))
  <1> DEFINE p == h.pages
             I == 0..(count - 1)
  <1> SUFFICES ASSUME PagesAt(b, count) \subseteq PagesIn(L, p) PROVE FALSE
    OBVIOUS
  <1>0. /\ Lengths(L, p, 1) /\ \A a \in L : a \in Nat /\ p[a] \in Nat /\ p[a] >= 1
        /\ \A a \in L : p[a] < count
    <2>1. Lengths(L, p, 1) /\ 1 \in Nat
      BY DEF Heap
    <2>2. \A a \in L : a \in Nat /\ p[a] \in Nat
      BY <2>1, LengthsSpaced
    <2> QED  BY <2>1, <2>2 DEF Lengths
  <1> HIDE DEF p
  <1>1. ASSUME NEW i \in I
        PROVE  \E a \in L : \E j \in 0..(p[a] - 1) : b + 4 * i = a + 4 * j
    <2>1. b + 4 * i \in PagesAt(b, count)
      BY PagesAtAre
    <2>2. PICK a \in L : b + 4 * i \in PagesAt(a, p[a])
      BY <2>1, PagesInAre
    <2>3. a \in Int /\ p[a] \in Int
      BY <1>0
    <2>4. \E j \in 0..(p[a] - 1) : b + 4 * i = a + 4 * j
      BY <2>2, <2>3, PagesAtAre
    <2> QED  BY <2>4
  <1>2. 0 \in I
    OBVIOUS
  <1>3. PICK a \in L : \E j \in 0..(p[a] - 1) : b + 4 * 0 = a + 4 * j
    BY <1>1, <1>2
  <1>4. PICK j \in 0..(p[a] - 1) : b = a + 4 * j
    BY <1>3
  <1>5. a \in Nat /\ p[a] \in Nat /\ p[a] < count
    BY <1>0
  <1> DEFINE T == {i \in I : j + i >= p[a]}
  <1>6. T \subseteq Nat /\ T # {}
    <2>1. count - 1 \in T
      BY <1>4, <1>5
    <2>2. T \subseteq Nat
      OBVIOUS
    <2> QED  BY <2>1, <2>2
  <1>7. PICK i \in T : \A y \in T : i <= y
    BY <1>6, LeastNumber
  <1>8. i # 0 /\ i \in I /\ j + i = p[a]
    <2>1. i # 0
      BY <1>4, <1>5, <1>7
    <2>2. i - 1 \in I /\ i - 1 \notin T
      BY <2>1, <1>7
    <2> QED  BY <2>1, <2>2, <1>4, <1>5, <1>7
  <1>9. PICK c \in L, m \in Nat : m <= p[c] - 1 /\ b + 4 * i = c + 4 * m
    <2>1. PICK c \in L : \E m \in 0..(p[c] - 1) : b + 4 * i = c + 4 * m
      BY <1>1, <1>8
    <2>2. p[c] \in Nat
      BY <1>0
    <2> QED  BY <2>1, <2>2
  <1>10. c + 4 * m = a + 4 * p[a] /\ c \in Nat /\ p[c] \in Nat
    BY <1>0, <1>4, <1>5, <1>8, <1>9
  <1>11. CASE c = a
    BY <1>11, <1>9, <1>10, <1>5
  <1>12. CASE a < c
    <2>1. a + 4 * p[a] + 1 <= c
      BY <1>12, <1>0 DEF Lengths
    <2> QED  BY <2>1, <1>5, <1>9, <1>10
  <1>13. CASE c < a
    <2>1. c + 4 * p[c] + 1 <= a
      BY <1>13, <1>0 DEF Lengths
    <2> QED  BY <2>1, <1>5, <1>9, <1>10
  <1> QED  BY <1>5, <1>10, <1>11, <1>12, <1>13

-----------------------------------------------------------------------------
(* The list of slices *)

\* A stack: l[n] is on top, and l[0] is NULL.
Stack(l, n, next, top) ==
  /\ n \in Nat /\ l \in [Nat -> Words]
  /\ l[0] = NULL /\ top = l[n]
  /\ \A i \in Nat : i >= 1 /\ i <= n => l[i] \in Addresses /\ next[l[i]] = l[i - 1]
  /\ \A i, j \in Nat : i >= 1 /\ i <= n /\ j >= 1 /\ j <= n /\ l[i] = l[j] => i = j
Stacked(l, n) == {l[i] : i \in 1..n}

LEMMA StackedAre ==
  ASSUME NEW l, NEW n \in Nat
  PROVE  \A x : x \in Stacked(l, n) <=> \E i \in Nat : i >= 1 /\ i <= n /\ x = l[i]
  BY DEF Stacked

LEMMA StackFits ==
  ASSUME NEW l, NEW n, NEW next, NEW top, Stack(l, n, next, top)
  PROVE  n <= MaxSlices
  <1> DEFINE f == [i \in 1..n |-> l[i]]
  <1>1. n \in Nat /\ IsFiniteSet(Addresses) /\ MaxSlices = Cardinality(Addresses)
    BY AddressesFinite DEF Stack, MaxSlices
  <1>2. /\ f \in [1..n -> Addresses] /\ DOMAIN f = 1..n
        /\ \A i, j \in 1..n : f[i] = f[j] => i = j
    BY <1>1 DEF Stack
  <1> HIDE DEF f
  <1>3. f \in Injection(1..n, Addresses)
    BY <1>2 DEF Injection, IsInjective
  <1>4. Cardinality(1..n) <= Cardinality(Addresses)
    BY <1>1, <1>3, FS_Injection
  <1>5. Cardinality(1..n) = n
    BY <1>1, FS_Interval
  <1> QED  BY <1>1, <1>4, <1>5

\* A walk meets the members of the stack from the top down, and then NULL.
LEMMA StackWalk ==
  ASSUME NEW h, NEW l, NEW n, NEW top, Stack(l, n, h.next, top), NEW k \in 0..MaxSlices
  PROVE  /\ k <= n => Walk(h, top, MaxSlices)[k] = l[n - k]
         /\ k > n => Walk(h, top, MaxSlices)[k] = NULL
  <1> DEFINE w == Walk(h, top, MaxSlices)
             P(i) == /\ i <= n => w[i] = l[n - i]
                     /\ i > n => w[i] = NULL
             T == {i \in 0..MaxSlices : ~P(i)}
  <1>1. /\ MaxSlices \in Nat /\ n \in Nat /\ n <= MaxSlices
        /\ w[0] = top
        /\ \A i \in 0..MaxSlices : i + 1 <= MaxSlices =>
              /\ w[i] \in Addresses => w[i + 1] = h.next[w[i]]
              /\ w[i] = NULL => w[i + 1] = NULL
    <2>1. MaxSlices \in Nat /\ n \in Nat
      BY AddressesFinite DEF Stack
    <2>2. n <= MaxSlices
      BY StackFits
    <2>3. /\ Walk(h, top, MaxSlices)[0] = top
          /\ \A i \in 0..MaxSlices : i + 1 <= MaxSlices =>
                /\ Walk(h, top, MaxSlices)[i] \in Addresses =>
                     Walk(h, top, MaxSlices)[i + 1] = h.next[Walk(h, top, MaxSlices)[i]]
                /\ Walk(h, top, MaxSlices)[i] = NULL => Walk(h, top, MaxSlices)[i + 1] = NULL
      BY <2>1, WalkSteps
    <2> QED  BY <2>1, <2>2, <2>3
  <1> HIDE DEF w
  <1>2. T \subseteq Nat /\ (k \notin T => P(k))
    BY <1>1
  <1> SUFFICES ASSUME T # {} PROVE FALSE
    BY <1>2 DEF w
  <1>3. PICK i \in T : \A y \in T : i <= y
    BY <1>2, LeastNumber
  <1>4. i # 0
    <2>1. P(0)
      BY <1>1 DEF Stack
    <2> QED  BY <2>1, <1>3
  <1>5. i - 1 \in 0..MaxSlices /\ (i - 1) + 1 = i /\ i <= MaxSlices /\ i \in Nat
    BY <1>1, <1>3, <1>4
  <1>6. P(i - 1)
    BY <1>3, <1>5
  <1>7. CASE i <= n
    <2>1. w[i - 1] = l[n - (i - 1)] /\ n - (i - 1) \in Nat /\ n - (i - 1) >= 1 /\ n - (i - 1) <= n
      BY <1>1, <1>4, <1>5, <1>6, <1>7
    <2>2. /\ l[n - (i - 1)] \in Addresses
          /\ h.next[l[n - (i - 1)]] = l[(n - (i - 1)) - 1]
      BY <2>1 DEF Stack
    <2>3. w[i] = h.next[w[i - 1]]
      BY <2>1, <2>2, <1>1, <1>5
    <2>4. (n - (i - 1)) - 1 = n - i
      BY <1>1, <1>5
    <2>5. w[i] = l[n - i]
      BY <2>1, <2>2, <2>3, <2>4
    <2> QED  BY <2>5, <1>1, <1>3, <1>5, <1>7
  <1>8. CASE i > n
    <2>1. w[i - 1] = NULL
      <3>1. CASE i - 1 = n
        <4>1. n - (i - 1) = 0 /\ i - 1 <= n
          BY <3>1, <1>1, <1>5
        <4> QED  BY <4>1, <1>6 DEF Stack
      <3>2. CASE i - 1 # n
        BY <3>2, <1>1, <1>5, <1>6, <1>8
      <3> QED  BY <3>1, <3>2
    <2>2. w[i] = NULL
      BY <2>1, <1>1, <1>5
    <2> QED  BY <2>2, <1>1, <1>3, <1>5, <1>8
  <1> QED  BY <1>1, <1>5, <1>7, <1>8

LEMMA StackListed ==
  ASSUME NEW h, NEW l, NEW n, NEW top, Stack(l, n, h.next, top)
  PROVE  /\ Walk(h, top, MaxSlices)[MaxSlices] = NULL
         /\ {Walk(h, top, MaxSlices)[k] : k \in 0..MaxSlices} \ {NULL} = Stacked(l, n)
  <1> DEFINE w == Walk(h, top, MaxSlices)
  <1>1. MaxSlices \in Nat /\ n \in Nat /\ n <= MaxSlices /\ l[0] = NULL
    BY AddressesFinite, StackFits DEF Stack
  <1>2. \A k \in 0..MaxSlices : /\ k <= n => w[k] = l[n - k]
                                /\ k > n => w[k] = NULL
    BY StackWalk
  <1>3. \A i \in Nat : i >= 1 /\ i <= n => l[i] \in Addresses /\ l[i] # NULL
    BY AddressesFinite DEF Stack
  <1> HIDE DEF w
  <1>4. w[MaxSlices] = NULL
    <2>1. CASE MaxSlices > n
      BY <2>1, <1>1, <1>2
    <2>2. CASE MaxSlices = n
      <3>1. n - MaxSlices = 0 /\ MaxSlices \in 0..MaxSlices /\ MaxSlices <= n
        BY <2>2, <1>1
      <3> QED  BY <3>1, <1>1, <1>2
    <2> QED  BY <2>1, <2>2, <1>1
  <1>5. ASSUME NEW k \in 0..MaxSlices, w[k] # NULL
        PROVE  w[k] \in Stacked(l, n)
    <2>1. k <= n /\ w[k] = l[n - k]
      BY <1>1, <1>2, <1>5
    <2>2. n - k # 0
      BY <2>1, <1>1, <1>5
    <2>3. n - k \in Nat /\ n - k >= 1 /\ n - k <= n
      BY <2>1, <2>2, <1>1
    <2> QED  BY <2>1, <2>3, <1>1, StackedAre
  <1>6. ASSUME NEW x \in Stacked(l, n)
        PROVE  x # NULL /\ \E k \in 0..MaxSlices : w[k] = x
    <2>1. PICK i \in Nat : i >= 1 /\ i <= n /\ x = l[i]
      BY <1>1, StackedAre
    <2>2. n - i \in 0..MaxSlices /\ n - i <= n /\ n - (n - i) = i
      BY <2>1, <1>1
    <2>3. w[n - i] = l[i]
      BY <2>2, <1>2
    <2> QED  BY <2>1, <2>2, <2>3, <1>3
  <1>7. {w[k] : k \in 0..MaxSlices} \ {NULL} = Stacked(l, n)
    BY <1>5, <1>6
  <1> QED  BY <1>4, <1>7 DEF w

\* A slice is pushed, the one on top is popped, or other memory is written.
LEMMA StackKept ==
  ASSUME NEW l, NEW n, NEW next, NEW top, Stack(l, n, next, top), NEW next2,
         \A a \in Stacked(l, n) : next2[a] = next[a]
  PROVE  Stack(l, n, next2, top)
  <1>1. n \in Nat
    BY DEF Stack
  <1>2. \A i \in Nat : i >= 1 /\ i <= n => next2[l[i]] = next[l[i]]
    BY <1>1, StackedAre
  <1> QED  BY <1>2 DEF Stack

LEMMA StackPush ==
  ASSUME NEW l, NEW n, NEW next, NEW top, Stack(l, n, next, top),
         NEW s \in Addresses, s \notin Stacked(l, n), NEW next2, next2[s] = top,
         \A a \in Stacked(l, n) : next2[a] = next[a]
  PROVE  \E l2 : Stack(l2, n + 1, next2, s) /\ Stacked(l2, n + 1) = Stacked(l, n) \cup {s}
  <1> DEFINE l2 == [l EXCEPT ![n + 1] = s]
  <1>1. n \in Nat /\ l \in [Nat -> Words] /\ l[0] = NULL /\ top = l[n] /\ n + 1 \in Nat
    BY DEF Stack
  <1>2. l2 \in [Nat -> Words] /\ l2[n + 1] = s /\ \A i \in Nat : i <= n => l2[i] = l[i]
    BY <1>1 DEF Words
  <1> HIDE DEF l2
  <1>3. \A i \in Nat : i >= 1 /\ i <= n => l[i] \in Stacked(l, n)
    BY <1>1, StackedAre
  <1>4. ASSUME NEW i \in Nat, i >= 1, i <= n + 1
        PROVE  l2[i] \in Addresses /\ next2[l2[i]] = l2[i - 1]
    <2>1. CASE i <= n
      <3>1. l2[i] = l[i] /\ l2[i - 1] = l[i - 1] /\ l[i] \in Stacked(l, n)
        BY <2>1, <1>1, <1>2, <1>3, <1>4
      <3>2. l[i] \in Addresses /\ next[l[i]] = l[i - 1]
        BY <2>1, <1>4 DEF Stack
      <3> QED  BY <3>1, <3>2
    <2>2. CASE i = n + 1
      <3>1. l2[i] = s /\ i - 1 = n /\ l2[n] = l[n]
        BY <2>2, <1>1, <1>2
      <3> QED  BY <3>1, <1>1
    <2> QED  BY <2>1, <2>2, <1>1, <1>4
  <1>5. ASSUME NEW i \in Nat, NEW j \in Nat, i >= 1, i <= n + 1, j >= 1, j <= n + 1, l2[i] = l2[j]
        PROVE  i = j
    <2>1. CASE i <= n /\ j <= n
      BY <2>1, <1>1, <1>2, <1>5 DEF Stack
    <2>2. CASE i = n + 1 /\ j <= n
      BY <2>2, <1>1, <1>2, <1>3, <1>5
    <2>3. CASE i <= n /\ j = n + 1
      BY <2>3, <1>1, <1>2, <1>3, <1>5
    <2> QED  BY <2>1, <2>2, <2>3, <1>1, <1>5
  <1>6. Stack(l2, n + 1, next2, s)
    <2>1. l2[0] = NULL
      BY <1>1, <1>2
    <2> QED  BY <2>1, <1>1, <1>2, <1>4, <1>5 DEF Stack
  <1>7. Stacked(l2, n + 1) = Stacked(l, n) \cup {s}
    <2>1. ASSUME NEW x PROVE x \in Stacked(l2, n + 1) <=> x \in Stacked(l, n) \/ x = s
      <3>1. x \in Stacked(l2, n + 1) <=> \E i \in Nat : i >= 1 /\ i <= n + 1 /\ x = l2[i]
        BY <1>1, StackedAre
      <3>2. x \in Stacked(l, n) <=> \E i \in Nat : i >= 1 /\ i <= n /\ x = l[i]
        BY <1>1, StackedAre
      <3> QED  BY <3>1, <3>2, <1>1, <1>2
    <2> QED  BY <2>1
  <1> QED  BY <1>6, <1>7

LEMMA StackPop ==
  ASSUME NEW l, NEW n, NEW next, NEW top, Stack(l, n, next, top), top # NULL, NEW next2,
         \A a \in Stacked(l, n) \ {top} : next2[a] = next[a]
  PROVE  /\ n - 1 \in Nat /\ Stack(l, n - 1, next2, next[top])
         /\ top \in Stacked(l, n) /\ Stacked(l, n - 1) = Stacked(l, n) \ {top}
  <1>1. n \in Nat /\ l[0] = NULL /\ top = l[n] /\ n # 0 /\ n - 1 \in Nat
    BY DEF Stack
  <1>2. \A i \in Nat : i >= 1 /\ i <= n - 1 => l[i] \in Stacked(l, n) /\ l[i] # top
    <2>1. \A i \in Nat : i >= 1 /\ i <= n - 1 => l[i] \in Stacked(l, n)
      BY <1>1, StackedAre
    <2>2. \A i \in Nat : i >= 1 /\ i <= n - 1 => l[i] # l[n]
      BY <1>1 DEF Stack
    <2> QED  BY <2>1, <2>2, <1>1
  <1>3. Stack(l, n - 1, next2, next[top])
    BY <1>1, <1>2 DEF Stack
  <1>4. top \in Stacked(l, n)
    BY <1>1, StackedAre
  <1>5. Stacked(l, n - 1) = Stacked(l, n) \ {top}
    <2>1. ASSUME NEW x PROVE x \in Stacked(l, n - 1) <=> x \in Stacked(l, n) /\ x # top
      <3>1. x \in Stacked(l, n - 1) <=> \E i \in Nat : i >= 1 /\ i <= n - 1 /\ x = l[i]
        BY <1>1, StackedAre
      <3>2. x \in Stacked(l, n) <=> \E i \in Nat : i >= 1 /\ i <= n /\ x = l[i]
        BY <1>1, StackedAre
      <3>3. x \in Stacked(l, n) /\ x # top => \E i \in Nat : i >= 1 /\ i <= n - 1 /\ x = l[i]
        <4> SUFFICES ASSUME x \in Stacked(l, n), x # top
                     PROVE  \E i \in Nat : i >= 1 /\ i <= n - 1 /\ x = l[i]
          OBVIOUS
        <4>1. PICK i \in Nat : i >= 1 /\ i <= n /\ x = l[i]
          BY <3>2
        <4>2. i # n
          BY <4>1, <1>1
        <4> QED  BY <4>1, <4>2, <1>1
      <3> QED  BY <3>1, <3>3, <1>2
    <2> QED  BY <2>1
  <1> QED  BY <1>1, <1>3, <1>4, <1>5

-----------------------------------------------------------------------------
(* The blocks that callers have, and the pages that were carved up *)

Block(x) ==
  /\ x = <<x[1], x[2]>>
  /\ x[1] \in Addresses /\ x[2] \in Nat /\ x[2] >= 1
  /\ x[1] + 4 * x[2] <= KM_HIGH_CUTOFF
Beside(x, y) == Clear(x[1], 4 * x[2], y[1], 4 * y[2], 0)

\* Blocks U clear of the free ones and of one another.
Used(U, L, p) ==
  /\ \A x \in U : Block(x) /\ ClearOf(L, p, x[1], 4 * x[2], 0)
  /\ \A x, y \in U : x # y => Beside(x, y)

BlockPages(U) == UNION {PagesAt(x[1], x[2]) : x \in U}

LEMMA BlockPagesAre ==
  ASSUME NEW U
  PROVE  \A x : x \in BlockPages(U) <=> \E b \in U : x \in PagesAt(b[1], b[2])
  BY DEF BlockPages

LEMMA BlockNumbers ==
  ASSUME NEW x, Block(x)
  PROVE  x[1] \in Nat /\ x[1] \in Int /\ x[2] \in Nat /\ 4 * x[2] \in Int /\ 4 * x[2] >= 1
  BY AddressesFinite DEF Block

\* Pages are taken from the free ones.
LEMMA UsedTake ==
  ASSUME NEW h, NEW L, NEW gap \in Nat, Heap(h, L, gap), NEW U, Used(U, L, h.pages),
         NEW h2, NEW M, NEW b, NEW n \in Nat, n >= 1, Shrunk(h, L, h2, M, b, n)
  PROVE  /\ Used(U \cup {<<b, n>>}, M, h2.pages) /\ <<b, n>> \notin U
         /\ Block(<<b, n>>) /\ b \in Addresses
  <1>1. b \in L /\ n <= h.pages[b] /\ ClearOf(M, h2.pages, b, 4 * n, 0)
    BY DEF Shrunk
  <1>2. b \in Addresses /\ b \in Nat /\ h.pages[b] \in Nat /\ b + 4 * h.pages[b] <= KM_HIGH_CUTOFF
    <2>1. Lengths(L, h.pages, gap)
      BY DEF Heap
    <2>2. b \in Nat /\ h.pages[b] \in Nat
      BY <2>1, <1>1, LengthsSpaced
    <2> QED  BY <2>1, <2>2, <1>1 DEF Lengths
  <1>3. Block(<<b, n>>)
    BY <1>1, <1>2, KmemAssumption DEF Block
  <1>4. ASSUME NEW x \in U
        PROVE  /\ Block(x) /\ ClearOf(M, h2.pages, x[1], 4 * x[2], 0)
               /\ Clear(x[1], 4 * x[2], b, 4 * n, 0)
    <2>1. Block(x) /\ ClearOf(L, h.pages, x[1], 4 * x[2], 0)
      BY DEF Used
    <2>2. x[1] \in Int /\ 4 * x[2] \in Int /\ 4 * x[2] >= 1 /\ 0 \in Nat
      BY <2>1, BlockNumbers
    <2>3. ASSUME NEW y \in Int, NEW m \in Int, m >= 1, ClearOf(L, h.pages, y, m, 0)
          PROVE  ClearOf(M, h2.pages, y, m, 0) /\ Clear(y, m, b, 4 * n, 0)
      BY <2>2, <2>3 DEF Shrunk
    <2> QED  BY <2>1, <2>2, <2>3
  <1>5. <<b, n>> \notin U
    <2> SUFFICES ASSUME <<b, n>> \in U PROVE FALSE
      OBVIOUS
    <2>1. Clear(b, 4 * n, b, 4 * n, 0)
      BY <1>4
    <2> QED  BY <2>1, <1>2 DEF Clear
  <1>6. ASSUME NEW x \in U PROVE Beside(x, <<b, n>>) /\ Beside(<<b, n>>, x)
    BY <1>4 DEF Beside, Clear
  <1>7. Used(U \cup {<<b, n>>}, M, h2.pages)
    BY <1>1, <1>3, <1>4, <1>6 DEF Used
  <1> QED  BY <1>2, <1>3, <1>5, <1>7

\* A block is given back.
LEMMA UsedFree ==
  ASSUME NEW h, NEW L, NEW U, Used(U, L, h.pages), NEW x \in U, NEW h2, NEW M,
         Grown(h, L, h2, M, x[1], x[2])
  PROVE  Used(U \ {x}, M, h2.pages)
  <1>1. ASSUME NEW y \in U \ {x}
        PROVE  Block(y) /\ ClearOf(M, h2.pages, y[1], 4 * y[2], 0)
    <2>1. Block(y) /\ ClearOf(L, h.pages, y[1], 4 * y[2], 0) /\ Clear(y[1], 4 * y[2], x[1], 4 * x[2], 0)
      BY DEF Used, Beside
    <2>2. y[1] \in Int /\ 4 * y[2] \in Int /\ 4 * y[2] >= 1 /\ 0 \in Nat
      BY <2>1, BlockNumbers
    <2>3. ASSUME NEW z \in Int, NEW m \in Int, m >= 1, ClearOf(L, h.pages, z, m, 0),
                 Clear(z, m, x[1], 4 * x[2], 0)
          PROVE  ClearOf(M, h2.pages, z, m, 0)
      BY <2>2, <2>3 DEF Grown
    <2> QED  BY <2>1, <2>2, <2>3
  <1> QED  BY <1>1 DEF Used

\* A block is cut into pieces.
Within(y, x) == y[1] >= x[1] /\ y[1] + 4 * y[2] <= x[1] + 4 * x[2]

LEMMA UsedSplit ==
  ASSUME NEW L, NEW p, NEW gap \in Nat, Lengths(L, p, gap), NEW U, Used(U, L, p), NEW x \in U,
         NEW P, \A y \in P : Block(y) /\ Within(y, x), \A y, z \in P : y # z => Beside(y, z)
  PROVE  Used((U \ {x}) \cup P, L, p)
  <1>1. Block(x) /\ ClearOf(L, p, x[1], 4 * x[2], 0)
    BY DEF Used
  <1>2. x[1] \in Nat /\ x[2] \in Nat
    BY <1>1, BlockNumbers
  <1>3. ASSUME NEW y \in P PROVE ClearOf(L, p, y[1], 4 * y[2], 0)
    <2>1. y[1] \in Nat /\ y[2] \in Nat /\ Within(y, x)
      BY BlockNumbers
    <2>2. ASSUME NEW a \in L PROVE Clear(y[1], 4 * y[2], a, 4 * p[a], 0)
      <3>1. Clear(x[1], 4 * x[2], a, 4 * p[a], 0)
        BY <1>1 DEF ClearOf
      <3>2. a \in Nat /\ p[a] \in Nat
        BY LengthsSpaced
      <3> QED  BY <3>1, <3>2, <2>1, <1>2 DEF Clear, Within
    <2> QED  BY <2>2 DEF ClearOf
  <1>4. ASSUME NEW y \in P, NEW z \in U \ {x} PROVE Beside(y, z) /\ Beside(z, y)
    <2>1. y[1] \in Nat /\ y[2] \in Nat /\ Within(y, x)
      BY BlockNumbers
    <2>2. Block(z) /\ Beside(x, z)
      BY DEF Used
    <2>3. z[1] \in Nat /\ z[2] \in Nat
      BY <2>2, BlockNumbers
    <2> QED  BY <2>1, <2>2, <2>3, <1>2 DEF Beside, Clear, Within
  <1> QED  BY <1>3, <1>4 DEF Used

\* Disjoint sets of such blocks have no pages in common with each other, nor
\* with the free blocks.
LEMMA UsedPages ==
  ASSUME NEW L, NEW p, NEW gap \in Nat, Lengths(L, p, gap), NEW U, Used(U, L, p)
  PROVE  /\ PagesIn(L, p) \cap BlockPages(U) = {}
         /\ \A V, W \in SUBSET U : V \cap W = {} => BlockPages(V) \cap BlockPages(W) = {}
  <1>1. ASSUME NEW x \in U PROVE PagesIn(L, p) \cap PagesAt(x[1], x[2]) = {}
    <2>1. Block(x) /\ ClearOf(L, p, x[1], 4 * x[2], 0)
      BY DEF Used
    <2>2. x[1] \in Int /\ x[2] \in Int /\ 0 \in Nat
      BY <2>1, BlockNumbers
    <2> QED  BY <2>1, <2>2, ClearOfPages
  <1>2. ASSUME NEW x \in U, NEW y \in U, x # y PROVE PagesAt(x[1], x[2]) \cap PagesAt(y[1], y[2]) = {}
    <2>1. Block(x) /\ Block(y) /\ Clear(x[1], 4 * x[2], y[1], 4 * y[2], 0)
      BY <1>2 DEF Used, Beside
    <2>2. x[1] \in Int /\ x[2] \in Int /\ 0 \in Nat
      BY <2>1, BlockNumbers
    <2>3. y[1] \in Int /\ y[2] \in Int
      BY <2>1, BlockNumbers
    <2> QED  BY <2>1, <2>2, <2>3, ClearPages
  <1>3. PagesIn(L, p) \cap BlockPages(U) = {}
    BY <1>1, BlockPagesAre
  <1>4. ASSUME NEW V \in SUBSET U, NEW W \in SUBSET U, V \cap W = {}
        PROVE  BlockPages(V) \cap BlockPages(W) = {}
    BY <1>2, <1>4, BlockPagesAre
  <1> QED  BY <1>3, <1>4

CarvedBlocks(c) == {<<q, 1>> : q \in c}
SliceSet(c) == UNION {q..(q + SZ_PAGE - 1) : q \in c}

Memory(h, o, c, L, gap) ==
  /\ Heap(h, L, gap)
  /\ Used(o \cup CarvedBlocks(c), L, h.pages)
  /\ o \cap CarvedBlocks(c) = {}

\* The slices of carved pages are clear of the free blocks and of those that
\* callers have.
LEMMA CellsClear ==
  ASSUME NEW h, NEW o, NEW c, NEW L, NEW gap \in Nat, Memory(h, o, c, L, gap),
         NEW a \in SliceSet(c)
  PROVE  /\ a \in Addresses /\ a \in Nat /\ a \notin L /\ ClearOf(L, h.pages, a, 1, 0)
         /\ \A x \in o : Clear(a, 1, x[1], 4 * x[2], 0)
  <1>1. PICK q \in c : a \in q..(q + 3)
    BY DEF SliceSet, SZ_PAGE
  <1> DEFINE y == <<q, 1>>
  <1>2. y \in CarvedBlocks(c) /\ y[1] = q /\ y[2] = 1
    BY DEF CarvedBlocks
  <1>3. Block(y) /\ ClearOf(L, h.pages, y[1], 4 * y[2], 0)
    BY <1>2 DEF Memory, Used
  <1>4. q \in Nat /\ q \in Addresses /\ q + 4 <= KM_HIGH_CUTOFF
    BY <1>2, <1>3, BlockNumbers DEF Block
  <1>5. a \in Nat /\ a \in Addresses /\ q <= a /\ a <= q + 3
    BY <1>1, <1>4, KmemAssumption DEF Addresses
  <1>6. ASSUME NEW d \in L PROVE Clear(a, 1, d, 4 * h.pages[d], 0) /\ d # a
    <2>1. Lengths(L, h.pages, gap)
      BY DEF Memory, Heap
    <2>2. d \in Nat /\ h.pages[d] \in Nat
      BY <2>1, LengthsSpaced
    <2>3. h.pages[d] >= 1
      BY <2>1 DEF Lengths
    <2>4. Clear(q, 4, d, 4 * h.pages[d], 0)
      BY <1>2, <1>3 DEF ClearOf
    <2> QED  BY <2>2, <2>3, <2>4, <1>4, <1>5 DEF Clear
  <1>7. ASSUME NEW x \in o PROVE Clear(a, 1, x[1], 4 * x[2], 0)
    <2>1. x # y
      BY <1>2 DEF Memory
    <2>2. Block(x) /\ Beside(y, x)
      BY <2>1, <1>2 DEF Memory, Used
    <2>3. x[1] \in Nat /\ x[2] \in Nat
      BY <2>2, BlockNumbers
    <2> QED  BY <2>2, <2>3, <1>2, <1>4, <1>5 DEF Beside, Clear
  <1> QED  BY <1>5, <1>6, <1>7 DEF ClearOf

\* Memory of the callers is written.
Written(h, h2, K) ==
  /\ h2 \in HeapType
  /\ h2.free_pages = h.free_pages /\ h2.n_pages = h.n_pages
  /\ \A a \in Addresses \ K : h2.pages[a] = h.pages[a] /\ h2.next[a] = h.next[a]

LEMMA MemoryWritten ==
  ASSUME NEW h, NEW o, NEW c, NEW L, NEW gap \in Nat, Memory(h, o, c, L, gap),
         NEW h2, NEW K, Written(h, h2, K), K \cap L = {}
  PROVE  Memory(h2, o, c, L, gap) /\ PagesIn(L, h2.pages) = PagesIn(L, h.pages)
  <1>1. /\ L \subseteq Addresses /\ Ordered(h.free_pages, h.next, L) /\ Lengths(L, h.pages, gap)
        /\ Cardinality(PagesIn(L, h.pages)) = h.n_pages
    BY DEF Memory, Heap, Lengths
  <1>2. Agree(L, h.pages, h2.pages) /\ \A a \in L : h2.next[a] = h.next[a]
    BY <1>1 DEF Written, Agree
  <1>3. PagesIn(L, h2.pages) = PagesIn(L, h.pages)
    BY <1>2, PagesInSame
  <1>4. Ordered(h2.free_pages, h2.next, L)
    BY <1>1, <1>2 DEF Ordered, Written
  <1>5. Lengths(L, h2.pages, gap)
    <2>1. h2.pages \in [Addresses -> Int] /\ L \subseteq L
      BY DEF Written, HeapType
    <2> QED  BY <2>1, <1>1, <1>2, LengthsFewer
  <1>6. Heap(h2, L, gap)
    BY <1>1, <1>3, <1>4, <1>5 DEF Heap, Written
  <1>7. ASSUME NEW x, NEW n, ClearOf(L, h.pages, x, n, 0) PROVE ClearOf(L, h2.pages, x, n, 0)
    BY <1>2, <1>7 DEF ClearOf, Agree
  <1>8. Used(o \cup CarvedBlocks(c), L, h2.pages)
    BY <1>7 DEF Memory, Used
  <1> QED  BY <1>3, <1>6, <1>8 DEF Memory

\* Pages are taken for a caller or to be carved up.
Taken(h, o, c, L, h2, M, b, n) ==
  /\ b \in Addresses /\ Block(<<b, n>>) /\ <<b, n>> \notin o \cup CarvedBlocks(c)
  /\ PagesIn(L, h.pages) = PagesIn(M, h2.pages) \cup PagesAt(b, n)
  /\ PagesIn(M, h2.pages) \cap PagesAt(b, n) = {}
  /\ \A a \in SliceSet(c) : h2.next[a] = h.next[a]

LEMMA MemoryTake ==
  ASSUME NEW h, NEW o, NEW c, NEW L, NEW gap \in Nat, Memory(h, o, c, L, gap),
         NEW n \in Nat, n >= 1, Fit(h, n) # NULL
  PROVE  \E M : /\ Memory(TakePages(h, n), o \cup {<<Fit(h, n), n>>}, c, M, gap)
                /\ n = 1 => Memory(TakePages(h, n), o, c \cup {Fit(h, n)}, M, gap)
                /\ Taken(h, o, c, L, TakePages(h, n), M, Fit(h, n), n)
  <1> DEFINE h2 == TakePages(h, n)
             b == Fit(h, n)
             C == CarvedBlocks(c)
             U == o \cup C
  <1>1. Heap(h, L, gap) /\ Used(U, L, h.pages) /\ o \cap C = {}
    BY DEF Memory
  <1>2. PICK M : Heap(h2, M, gap) /\ Shrunk(h, L, h2, M, b, n)
    BY <1>1, TakeIs
  <1>a. ASSUME NEW a \in SliceSet(c) PROVE h2.next[a] = h.next[a]
    <2>1. a \in Addresses /\ ClearOf(L, h.pages, a, 1, 0)
      BY CellsClear
    <2> QED  BY <2>1, <1>2 DEF Shrunk
  <1> HIDE DEF h2, b, C, U
  <1>3. /\ Used(U \cup {<<b, n>>}, M, h2.pages) /\ <<b, n>> \notin U
        /\ Block(<<b, n>>) /\ b \in Addresses
    BY <1>1, <1>2, UsedTake
  <1>4. PagesIn(M, h2.pages) \cap PagesAt(b, n) = {}
    <2>1. Lengths(M, h2.pages, gap) /\ b \in Int /\ n \in Int /\ 0 \in Nat
      BY <1>2, <1>3, AddressesFinite DEF Heap
    <2>2. ClearOf(M, h2.pages, b, 4 * n, 0)
      BY <1>2 DEF Shrunk
    <2> QED  BY <2>1, <2>2, ClearOfPages
  <1>5. Taken(h, o, c, L, h2, M, b, n)
    BY <1>a, <1>2, <1>3, <1>4 DEF Taken, Shrunk, U, C
  <1>6. Memory(h2, o \cup {<<b, n>>}, c, M, gap)
    <2>1. (o \cup {<<b, n>>}) \cup CarvedBlocks(c) = U \cup {<<b, n>>}
      BY DEF U, C
    <2>2. (o \cup {<<b, n>>}) \cap CarvedBlocks(c) = {}
      BY <1>1, <1>3 DEF U, C
    <2> QED  BY <2>1, <2>2, <1>2, <1>3 DEF Memory
  <1>7. ASSUME n = 1 PROVE Memory(h2, o, c \cup {b}, M, gap)
    <2>1. CarvedBlocks(c \cup {b}) = C \cup {<<b, n>>}
      BY <1>7 DEF CarvedBlocks, C
    <2>2. o \cup CarvedBlocks(c \cup {b}) = U \cup {<<b, n>>}
      BY <2>1 DEF U
    <2>3. o \cap CarvedBlocks(c \cup {b}) = {}
      BY <2>1, <1>1, <1>3 DEF U
    <2> QED  BY <2>2, <2>3, <1>2, <1>3 DEF Memory
  <1> QED  BY <1>5, <1>6, <1>7 DEF h2, b

\* A block is given back.
Given(h, c, L, h2, M, b, n) ==
  /\ PagesIn(M, h2.pages) = PagesIn(L, h.pages) \cup PagesAt(b, n)
  /\ PagesIn(L, h.pages) \cap PagesAt(b, n) = {}
  /\ \A a \in SliceSet(c) : h2.next[a] = h.next[a]

LEMMA MemoryFree ==
  ASSUME NEW h, NEW o, NEW c, NEW L, NEW gap \in {0, 1}, Memory(h, o, c, L, gap), NEW x \in o
  PROVE  \E M : /\ Memory(km_page_free_multi(h, x[1], x[2]), o \ {x}, c, M, gap)
                /\ Given(h, c, L, km_page_free_multi(h, x[1], x[2]), M, x[1], x[2])
  <1> DEFINE h2 == km_page_free_multi(h, x[1], x[2])
             C == CarvedBlocks(c)
             U == o \cup C
  <1>0. gap \in Nat
    OBVIOUS
  <1>1. Heap(h, L, gap) /\ Used(U, L, h.pages) /\ o \cap C = {} /\ x \in U
    BY DEF Memory
  <1>2. Block(x) /\ ClearOf(L, h.pages, x[1], 4 * x[2], 0)
    BY <1>1 DEF Used
  <1>3. x[1] \in Addresses /\ x[2] \in Nat /\ x[2] >= 1 /\ x[1] + 4 * x[2] <= KM_HIGH_CUTOFF
    BY <1>2 DEF Block
  <1>4. PICK M : Heap(h2, M, gap) /\ Grown(h, L, h2, M, x[1], x[2])
    BY <1>1, <1>2, <1>3, FreeIs
  <1>5. ASSUME NEW a \in SliceSet(c) PROVE h2.next[a] = h.next[a]
    <2>1. a \in Addresses /\ ClearOf(L, h.pages, a, 1, 0) /\ Clear(a, 1, x[1], 4 * x[2], 0)
      BY <1>0, CellsClear
    <2> QED  BY <2>1, <1>4 DEF Grown
  <1> HIDE DEF h2, C, U
  <1>6. Used(U \ {x}, M, h2.pages)
    BY <1>1, <1>4, UsedFree
  <1>7. PagesIn(L, h.pages) \cap PagesAt(x[1], x[2]) = {}
    <2>1. Lengths(L, h.pages, gap) /\ x[1] \in Int /\ x[2] \in Int /\ 0 \in Nat
      BY <1>1, <1>3, AddressesFinite DEF Heap
    <2> QED  BY <2>1, <1>0, <1>2, ClearOfPages
  <1>8. Given(h, c, L, h2, M, x[1], x[2])
    BY <1>4, <1>5, <1>7 DEF Given, Grown
  <1>9. Memory(h2, o \ {x}, c, M, gap)
    <2>1. (o \ {x}) \cup CarvedBlocks(c) = U \ {x}
      BY <1>1 DEF U, C
    <2>2. (o \ {x}) \cap CarvedBlocks(c) = {}
      BY <1>1 DEF C
    <2> QED  BY <2>1, <2>2, <1>4, <1>6 DEF Memory
  <1> QED  BY <1>8, <1>9 DEF h2

\* One page of a block is given back: first the block is cut into what comes
\* before the page, the page and what comes after.
Kept(x, i) == {y \in {<<x[1], i>>, <<x[1] + P2B(i + 1), x[2] - i - 1>>} : y[2] > 0}
Page(x, i) == <<x[1] + P2B(i), 1>>

LEMMA PiecesAre ==
  ASSUME NEW x, Block(x), NEW i \in 0..(x[2] - 1)
  PROVE  /\ \A y \in Kept(x, i) \cup {Page(x, i)} : Block(y) /\ Within(y, x)
         /\ \A y, z \in Kept(x, i) \cup {Page(x, i)} : y # z => Beside(y, z)
         /\ Page(x, i) \notin Kept(x, i)
         /\ Page(x, i)[1] = x[1] + P2B(i) /\ Page(x, i)[2] = 1
  <1>1. /\ x[1] \in Nat /\ x[2] \in Nat /\ x[1] \in Addresses /\ x[1] + 4 * x[2] <= KM_HIGH_CUTOFF
        /\ KM_LOW_CUTOFF <= x[1] /\ KM_LOW_CUTOFF \in Nat /\ KM_HIGH_CUTOFF \in Nat
    BY BlockNumbers, KmemAssumption DEF Block, Addresses
  <1>2. i \in Nat /\ i <= x[2] - 1
    BY <1>1
  <1> DEFINE p == x[1]
             k == x[2]
             u == <<p, i>>
             v == <<p + 4 * (i + 1), k - i - 1>>
             m == <<p + 4 * i, 1>>
  <1>3. /\ Page(x, i) = m /\ m[1] = p + 4 * i /\ m[2] = 1
        /\ u[1] = p /\ u[2] = i /\ v[1] = p + 4 * (i + 1) /\ v[2] = k - i - 1
        /\ \A y \in Kept(x, i) : (y = u \/ y = v) /\ y[2] > 0
    BY DEF Kept, Page, P2B, SZ_PAGE
  <1>4. p \in Nat /\ k \in Nat /\ p + 4 * k <= KM_HIGH_CUTOFF /\ KM_LOW_CUTOFF <= p /\ i <= k - 1
    BY <1>1, <1>2
  <1>5. Block(m) /\ Within(m, x)
    BY <1>1, <1>2, <1>3, <1>4 DEF Block, Within, Addresses
  <1>6. u[2] > 0 => Block(u) /\ Within(u, x)
    BY <1>1, <1>2, <1>3, <1>4 DEF Block, Within, Addresses
  <1>7. v[2] > 0 => Block(v) /\ Within(v, x)
    <2> SUFFICES ASSUME v[2] > 0 PROVE Block(v) /\ Within(v, x)
      OBVIOUS
    <2>1. v[2] \in Nat /\ v[2] >= 1 /\ v[1] + 4 * v[2] = p + 4 * k /\ v[1] \in Nat /\ v[1] >= p
      BY <1>2, <1>3, <1>4
    <2>2. v[1] \in Addresses
      BY <2>1, <1>1, <1>4 DEF Addresses
    <2> QED  BY <2>1, <2>2, <1>3, <1>4 DEF Block, Within
  <1>8. Beside(u, m) /\ Beside(m, u) /\ Beside(v, m) /\ Beside(m, v) /\ Beside(u, v) /\ Beside(v, u)
    BY <1>2, <1>3, <1>4 DEF Beside, Clear
  <1>9. Page(x, i) \notin Kept(x, i)
    <2>1. u[2] > 0 => m # u
      BY <1>2, <1>3, <1>4
    <2>2. m # v
      BY <1>2, <1>3, <1>4
    <2> QED  BY <2>1, <2>2, <1>3
  <1>10. Page(x, i)[1] = x[1] + P2B(i) /\ Page(x, i)[2] = 1
    BY DEF Page
  <1> HIDE DEF u, v, m, p, k
  <1>11. \A y \in Kept(x, i) \cup {Page(x, i)} : Block(y) /\ Within(y, x)
    BY <1>3, <1>5, <1>6, <1>7
  <1>12. \A y, z \in Kept(x, i) \cup {Page(x, i)} : y # z => Beside(y, z)
    BY <1>3, <1>8
  <1> QED  BY <1>9, <1>10, <1>11, <1>12

LEMMA PiecePages ==
  ASSUME NEW x, Block(x), NEW i \in 0..(x[2] - 1)
  PROVE  PagesAt(x[1], x[2]) = BlockPages(Kept(x, i)) \cup PagesAt(x[1] + P2B(i), 1)
  <1>1. x[1] \in Nat /\ x[2] \in Nat
    BY BlockNumbers
  <1>2. i \in Nat /\ i <= x[2] - 1 /\ x[2] - i - 1 \in Nat
    BY <1>1
  <1> DEFINE p == x[1]
             k == x[2]
             u == <<p, i>>
             v == <<p + 4 * (i + 1), k - i - 1>>
  <1>3. /\ u[1] = p /\ u[2] = i /\ v[1] = p + 4 * (i + 1) /\ v[2] = k - i - 1
        /\ Kept(x, i) = {y \in {u, v} : y[2] > 0}
    BY DEF Kept, P2B, SZ_PAGE
  <1>4. PagesAt(p, i + (k - i)) = PagesAt(p, i) \cup PagesAt(p + 4 * i, k - i)
    <2>1. p \in Int /\ i \in Nat /\ k - i \in Nat
      BY <1>1, <1>2
    <2> QED  BY <2>1, PagesAtSplit, ZenonT(60)
  <1>5. PagesAt(p + 4 * i, 1 + (k - i - 1)) =
          PagesAt(p + 4 * i, 1) \cup PagesAt((p + 4 * i) + 4 * 1, k - i - 1)
    <2>1. p + 4 * i \in Int /\ 1 \in Nat /\ k - i - 1 \in Nat
      BY <1>1, <1>2
    <2> QED  BY <2>1, PagesAtSplit, ZenonT(60)
  <1>6. i + (k - i) = k /\ 1 + (k - i - 1) = k - i /\ (p + 4 * i) + 4 * 1 = p + 4 * (i + 1)
    BY <1>1, <1>2
  <1>7. PagesAt(p, k) = PagesAt(u[1], u[2]) \cup PagesAt(p + 4 * i, 1) \cup PagesAt(v[1], v[2])
    BY <1>3, <1>4, <1>5, <1>6
  <1>8. u[1] \in Int /\ u[2] \in Nat /\ v[1] \in Int /\ v[2] \in Nat
    BY <1>1, <1>2, <1>3
  <1> HIDE DEF u, v, p, k
  <1>9. u[2] > 0 \/ PagesAt(u[1], u[2]) = {}
    BY <1>8, PagesAtAre
  <1>10. v[2] > 0 \/ PagesAt(v[1], v[2]) = {}
    BY <1>8, PagesAtAre
  <1>11. BlockPages(Kept(x, i)) = PagesAt(u[1], u[2]) \cup PagesAt(v[1], v[2])
    BY <1>3, <1>9, <1>10, BlockPagesAre
  <1>12. PagesAt(p, k) = BlockPages(Kept(x, i)) \cup PagesAt(p + 4 * i, 1)
    BY <1>7, <1>11
  <1> QED  BY <1>12 DEF p, k, P2B, SZ_PAGE

IsCut(h, o, c, L, gap, x, i) ==
  LET kept == (o \ {x}) \cup Kept(x, i)
  IN  /\ Memory(h, kept \cup {Page(x, i)}, c, L, gap)
      /\ Page(x, i) \notin kept
      /\ BlockPages(o) = BlockPages(kept) \cup PagesAt(x[1] + P2B(i), 1)

LEMMA MemorySplit ==
  ASSUME NEW h, NEW o, NEW c, NEW L, NEW gap \in Nat, Memory(h, o, c, L, gap), NEW x \in o,
         NEW i \in 0..(x[2] - 1)
  PROVE  IsCut(h, o, c, L, gap, x, i)
  <1> DEFINE C == CarvedBlocks(c)
             U == o \cup C
             P == Kept(x, i) \cup {Page(x, i)}
             kept == (o \ {x}) \cup Kept(x, i)
  <1>1. /\ Heap(h, L, gap) /\ Lengths(L, h.pages, gap) /\ Used(U, L, h.pages)
        /\ o \cap C = {} /\ x \in U
    BY DEF Memory, Heap
  <1>2. Block(x)
    BY <1>1 DEF Used
  <1>3. /\ \A y \in P : Block(y) /\ Within(y, x)
        /\ \A y, z \in P : y # z => Beside(y, z)
        /\ Page(x, i) \notin Kept(x, i)
    BY <1>2, PiecesAre
  <1>4. PagesAt(x[1], x[2]) = BlockPages(Kept(x, i)) \cup PagesAt(x[1] + P2B(i), 1)
    BY <1>2, PiecePages
  <1> HIDE DEF P
  <1>5. Used((U \ {x}) \cup P, L, h.pages)
    BY <1>1, <1>3, UsedSplit
  <1>6. ASSUME NEW y \in P, y \in U \ {x} PROVE FALSE
    <2>1. Block(y) /\ Within(y, x) /\ Beside(x, y)
      BY <1>1, <1>3, <1>6 DEF Used
    <2>2. x[1] \in Nat /\ x[2] \in Nat
      BY <1>2, BlockNumbers
    <2>3. y[1] \in Nat /\ y[2] \in Nat /\ y[2] >= 1
      BY <2>1, BlockNumbers DEF Block
    <2> QED  BY <2>1, <2>2, <2>3 DEF Within, Beside, Clear
  <1>7. Page(x, i) \notin kept /\ kept \cup {Page(x, i)} = (o \ {x}) \cup P
    BY <1>3, <1>6 DEF P
  <1>8. Memory(h, kept \cup {Page(x, i)}, c, L, gap)
    <2>1. ((o \ {x}) \cup P) \cup C = (U \ {x}) \cup P
      BY <1>1
    <2>2. ((o \ {x}) \cup P) \cap C = {}
      BY <1>1, <1>6
    <2> QED  BY <2>1, <2>2, <1>1, <1>5, <1>7 DEF Memory
  <1>9. BlockPages(o) = BlockPages(kept) \cup PagesAt(x[1] + P2B(i), 1)
    <2> HIDE DEF P, C, U
    <2>1. BlockPages(kept) = BlockPages(o \ {x}) \cup BlockPages(Kept(x, i))
      BY BlockPagesAre
    <2>2. BlockPages(o) = BlockPages(o \ {x}) \cup PagesAt(x[1], x[2])
      BY BlockPagesAre
    <2> QED  BY <2>1, <2>2, <1>4
  <1> QED  BY <1>7, <1>8, <1>9 DEF IsCut

-----------------------------------------------------------------------------
(* Slices *)

Slicing(h, top, s, c, l, n) ==
  /\ Stack(l, n, h.next, top)
  /\ Stacked(l, n) \cap s = {}
  /\ Stacked(l, n) \cup s = SliceSet(c)

LEMMA SlicingKept ==
  ASSUME NEW h, NEW top, NEW s, NEW c, NEW l, NEW n, Slicing(h, top, s, c, l, n),
         NEW h2, \A a \in SliceSet(c) : h2.next[a] = h.next[a]
  PROVE  Slicing(h2, top, s, c, l, n)
  <1>1. Stack(l, n, h.next, top) /\ \A a \in Stacked(l, n) : h2.next[a] = h.next[a]
    BY DEF Slicing
  <1>2. Stack(l, n, h2.next, top)
    BY <1>1, StackKept
  <1> QED  BY <1>2 DEF Slicing

\* The first slice of the list is taken.
LEMMA SlicePop ==
  ASSUME NEW h, NEW o, NEW c, NEW L, NEW gap \in Nat, Memory(h, o, c, L, gap),
         NEW top, NEW s, NEW l, NEW n, Slicing(h, top, s, c, l, n), top # NULL
  PROVE  /\ Memory(Forget(h, top, 1), o, c, L, gap)
         /\ PagesIn(L, Forget(h, top, 1).pages) = PagesIn(L, h.pages)
         /\ Slicing(Forget(h, top, 1), h.next[top], s \cup {top}, c, l, n - 1)
  <1> DEFINE h2 == Forget(h, top, 1)
  <1>1. Stack(l, n, h.next, top) /\ n \in Nat
    BY DEF Slicing, Stack
  <1>2. top \in Stacked(l, n) /\ top \in SliceSet(c)
    <2>1. \A a \in Stacked(l, n) \ {top} : h.next[a] = h.next[a]
      OBVIOUS
    <2>2. top \in Stacked(l, n)
      BY <1>1, <2>1, StackPop
    <2> QED  BY <2>2 DEF Slicing
  <1>3. top \in Addresses /\ top \in Nat /\ top \notin L
    BY <1>2, CellsClear
  <1>4. h \in HeapType /\ h.n_pages \in Int /\ h = [h EXCEPT !.n_pages = h.n_pages]
    BY DEF Memory, Heap, HeapType
  <1>5. Forgotten(h, h2, top, 1, h.n_pages)
    <2>1. h2 = Forget([h EXCEPT !.n_pages = h.n_pages], top, 1)
      BY <1>4
    <2> HIDE DEF h2
    <2>2. top \in Int /\ 1 \in Nat
      BY <1>3
    <2> QED  BY <2>1, <2>2, <1>4, ForgetIs
  <1> HIDE DEF h2
  <1>6. Written(h, h2, {top})
    <2>1. ASSUME NEW a \in Addresses \ {top} PROVE a < top \/ a >= top + 1
      BY <1>3, AddressesFinite
    <2> QED  BY <2>1, <1>5 DEF Written, Forgotten
  <1>7. Memory(h2, o, c, L, gap) /\ PagesIn(L, h2.pages) = PagesIn(L, h.pages)
    <2>1. {top} \cap L = {}
      BY <1>3
    <2> QED  BY <2>1, <1>6, MemoryWritten
  <1>8. \A a \in Stacked(l, n) \ {top} : h2.next[a] = h.next[a]
    <2>1. Stacked(l, n) \subseteq Addresses
      BY CellsClear DEF Slicing
    <2> QED  BY <2>1, <1>6 DEF Written
  <1>9. Stack(l, n - 1, h2.next, h.next[top]) /\ Stacked(l, n - 1) = Stacked(l, n) \ {top}
    BY <1>1, <1>8, StackPop
  <1>10. Slicing(h2, h.next[top], s \cup {top}, c, l, n - 1)
    BY <1>2, <1>9 DEF Slicing
  <1> QED  BY <1>7, <1>10 DEF h2

\* A slice is given back.
Pushed(h, h2, a, top) == h2 = [h EXCEPT !.pages[a] = 1, !.next[a] = top]

GivenSlice(h, o, c, L, gap, h2, a, s, n) ==
  /\ Memory(h2, o, c, L, gap)
  /\ PagesIn(L, h2.pages) = PagesIn(L, h.pages)
  /\ \E l2 : Slicing(h2, a, s \ {a}, c, l2, n + 1)

LEMMA SlicePush ==
  ASSUME NEW h, NEW o, NEW c, NEW L, NEW gap \in Nat, Memory(h, o, c, L, gap),
         NEW top, NEW s, NEW l, NEW n, Slicing(h, top, s, c, l, n), NEW a \in s,
         NEW h2, Pushed(h, h2, a, top)
  PROVE  GivenSlice(h, o, c, L, gap, h2, a, s, n)
  <1>1. Stack(l, n, h.next, top) /\ n \in Nat /\ top \in Words /\ a \notin Stacked(l, n)
    BY DEF Slicing, Stack
  <1>2. a \in SliceSet(c)
    BY DEF Slicing
  <1>3. a \in Addresses /\ a \in Nat /\ a \notin L
    BY <1>2, CellsClear
  <1>4. h \in HeapType /\ h.pages \in [Addresses -> Int] /\ h.next \in [Addresses -> Words]
    BY DEF Memory, Heap, HeapType
  <1> DEFINE q == [h.pages EXCEPT ![a] = 1]
             r == [h.next EXCEPT ![a] = top]
  <1>5. /\ q \in [Addresses -> Int] /\ r \in [Addresses -> Words] /\ r[a] = top
        /\ \A b \in Addresses \ {a} : q[b] = h.pages[b] /\ r[b] = h.next[b]
    BY <1>1, <1>3, <1>4
  <1>6. h2 = [h EXCEPT !.pages = q, !.next = r]
    BY <1>4 DEF HeapType, Pushed
  <1> HIDE DEF q, r
  <1>7. /\ h2 \in HeapType /\ h2.free_pages = h.free_pages /\ h2.n_pages = h.n_pages
        /\ h2.pages = q /\ h2.next = r
    BY <1>4, <1>5, <1>6 DEF HeapType
  <1>8. Written(h, h2, {a})
    BY <1>5, <1>7 DEF Written
  <1>9. Memory(h2, o, c, L, gap) /\ PagesIn(L, h2.pages) = PagesIn(L, h.pages)
    <2>1. {a} \cap L = {}
      BY <1>3
    <2> QED  BY <2>1, <1>8, MemoryWritten
  <1>10. \A b \in Stacked(l, n) : h2.next[b] = h.next[b]
    <2>1. Stacked(l, n) \subseteq Addresses
      BY CellsClear DEF Slicing
    <2> QED  BY <2>1, <1>1, <1>8 DEF Written
  <1>11. h2.next[a] = top
    BY <1>5, <1>7
  <1>12. PICK l2 : Stack(l2, n + 1, h2.next, a) /\ Stacked(l2, n + 1) = Stacked(l, n) \cup {a}
    BY <1>1, <1>3, <1>10, <1>11, StackPush
  <1>13. Slicing(h2, a, s \ {a}, c, l2, n + 1)
    BY <1>1, <1>12 DEF Slicing
  <1> QED  BY <1>9, <1>13 DEF GivenSlice

\* A page is carved up: the last of its slices is taken, and the others are
\* the list.
Carved(h, h2, b) ==
  /\ Written(h, h2, b..(b + 3))
  /\ h2.next[b] = NULL
  /\ \A i \in 1..3 : h2.next[b + i] = b + (i - 1)

LEMMA CarveIs ==
  ASSUME NEW h \in HeapType, NEW b \in Addresses, b + 4 <= KM_HIGH_CUTOFF
  PROVE  Carved(h, carve_slices(h, b), b)
  <1> DEFINE h2 == carve_slices(h, b)
             K == b..(b + 3)
             q == [a \in Addresses |-> IF a \in K THEN 1 ELSE h.pages[a]]
             r == [a \in Addresses |-> IF a \notin K THEN h.next[a]
                                       ELSE IF a - 1 \in K THEN a - 1 ELSE NULL]
  <1>1. h.pages \in [Addresses -> Int] /\ h.next \in [Addresses -> Words]
    BY DEF HeapType
  <1>2. SlicesOf(b) = K
    BY AddressesFinite DEF SlicesOf, SZ_PAGE
  <1>3. h2 = [h EXCEPT !.pages = q, !.next = r]
    BY <1>2 DEF carve_slices, HeapType
  <1>4. b \in Nat /\ K \subseteq Addresses
    BY AddressesFinite, KmemAssumption DEF Addresses
  <1>5. q \in [Addresses -> Int] /\ r \in [Addresses -> Words]
    <2>1. ASSUME NEW a \in Addresses
          PROVE  (IF a \notin K THEN h.next[a] ELSE IF a - 1 \in K THEN a - 1 ELSE NULL) \in Words
      <3> HIDE DEF K
      <3> QED  BY <1>1, <1>4 DEF Words
    <2>2. r \in [Addresses -> Words]
      BY <2>1
    <2> QED  BY <2>2, <1>1
  <1>6. /\ \A a \in Addresses \ K : q[a] = h.pages[a] /\ r[a] = h.next[a]
        /\ r[b] = NULL
        /\ \A i \in 1..3 : r[b + i] = b + (i - 1)
    <2>1. b \in Addresses /\ b \in K /\ b - 1 \notin K
      BY <1>4
    <2>2. \A i \in 1..3 : b + i \in K /\ (b + i) - 1 = b + (i - 1) /\ (b + i) - 1 \in K
      BY <1>4
    <2> HIDE DEF K
    <2> QED  BY <2>1, <2>2, <1>4
  <1> HIDE DEF h2, q, r
  <1>7. /\ h2 \in HeapType /\ h2.free_pages = h.free_pages /\ h2.n_pages = h.n_pages
        /\ h2.pages = q /\ h2.next = r
    BY <1>3, <1>5 DEF HeapType
  <1>8. Carved(h, h2, b)
    BY <1>6, <1>7 DEF Carved, Written
  <1> QED  BY <1>8 DEF h2

LEMMA ForgetWritten ==
  ASSUME NEW h \in HeapType, NEW a \in Addresses
  PROVE  Written(h, Forget(h, a, 1), {a})
  <1> DEFINE h2 == Forget(h, a, 1)
  <1>1. h.n_pages \in Int /\ h = [h EXCEPT !.n_pages = h.n_pages] /\ a \in Int /\ a \in Nat /\ 1 \in Nat
    BY AddressesFinite DEF HeapType
  <1>2. h2 = Forget([h EXCEPT !.n_pages = h.n_pages], a, 1)
    BY <1>1
  <1> HIDE DEF h2
  <1>3. Forgotten(h, h2, a, 1, h.n_pages)
    BY <1>1, <1>2, ForgetIs
  <1>4. ASSUME NEW b \in Addresses \ {a} PROVE b < a \/ b >= a + 1
    BY <1>1, AddressesFinite
  <1>5. Written(h, h2, {a})
    BY <1>3, <1>4 DEF Written, Forgotten
  <1> QED  BY <1>5 DEF h2

LEMMA LastSliceIs ==
  ASSUME NEW b \in Nat
  PROVE  LastSlice(b) = b + 3
  <1>1. SlicesOf(b) = b..(b + 3)
    BY DEF SlicesOf, SZ_PAGE
  <1>2. b + 3 \in SlicesOf(b) /\ b + 3 + 1 \notin SlicesOf(b)
    BY <1>1
  <1>3. \A s \in SlicesOf(b) : s + 1 \notin SlicesOf(b) => s = b + 3
    BY <1>1
  <1> QED  BY <1>2, <1>3 DEF LastSlice

\* The stack of the three slices that are left of a page.
LEMMA StackOfThree ==
  ASSUME NEW b \in Addresses, b + 4 <= KM_HIGH_CUTOFF, NEW next, next[b] = NULL,
         next[b + 1] = b, next[b + 2] = b + 1
  PROVE  \E l : Stack(l, 3, next, b + 2) /\ Stacked(l, 3) = {b, b + 1, b + 2}
  <1> DEFINE l == [i \in Nat |-> IF i = 1 THEN b ELSE IF i = 2 THEN b + 1
                                 ELSE IF i = 3 THEN b + 2 ELSE NULL]
  <1>1. b \in Nat /\ b + 1 \in Addresses /\ b + 2 \in Addresses
    BY AddressesFinite, KmemAssumption DEF Addresses
  <1>2. l[0] = NULL /\ l[1] = b /\ l[2] = b + 1 /\ l[3] = b + 2
    OBVIOUS
  <1>3. l \in [Nat -> Words]
    BY <1>1 DEF Words
  <1> HIDE DEF l
  <1>4. \A i \in Nat : i >= 1 /\ i <= 3 => i = 1 \/ i = 2 \/ i = 3
    OBVIOUS
  <1>5. ASSUME NEW i \in Nat, i >= 1, i <= 3
        PROVE  l[i] \in Addresses /\ next[l[i]] = l[i - 1]
    BY <1>1, <1>2, <1>4, <1>5
  <1>6. ASSUME NEW i \in Nat, i >= 1, i <= 3, NEW j \in Nat, j >= 1, j <= 3, l[i] = l[j]
        PROVE  i = j
    BY <1>1, <1>2, <1>4, <1>6
  <1>7. Stack(l, 3, next, b + 2)
    BY <1>2, <1>3, <1>5, <1>6 DEF Stack
  <1>8. Stacked(l, 3) = {b, b + 1, b + 2}
    <2>1. \A x : x \in Stacked(l, 3) <=> \E i \in Nat : i >= 1 /\ i <= 3 /\ x = l[i]
      BY StackedAre
    <2> QED  BY <2>1, <1>2, <1>4
  <1> QED  BY <1>7, <1>8

CarvedUp(h, h2, h3) ==
  /\ h2 = carve_slices(TakePages(h, 1), Fit(h, 1))
  /\ h3 = Forget(h2, LastSlice(Fit(h, 1)), 1)

LEMMA SliceCarve ==
  ASSUME NEW h, NEW o, NEW c, NEW L, NEW gap \in Nat, Memory(h, o, c, L, gap),
         NEW s, NEW l, NEW n, Slicing(h, NULL, s, c, l, n), Fit(h, 1) # NULL,
         NEW h2, NEW h3, CarvedUp(h, h2, h3)
  PROVE  \E M : /\ Memory(h3, o, c \cup {Fit(h, 1)}, M, gap)
                /\ Fit(h, 1) \in Addresses
                /\ PagesIn(L, h.pages) = PagesIn(M, h3.pages) \cup {Fit(h, 1)}
                /\ Fit(h, 1) \notin PagesIn(M, h3.pages)
                /\ \E l3 : Slicing(h3, h2.next[LastSlice(Fit(h, 1))], s \cup {LastSlice(Fit(h, 1))},
                                   c \cup {Fit(h, 1)}, l3, 3)
  <1> DEFINE h1 == TakePages(h, 1)
             b == Fit(h, 1)
             c1 == c \cup {b}
  <1>1. PICK M : Memory(h1, o, c1, M, gap) /\ Taken(h, o, c, L, h1, M, b, 1)
    <2>1. 1 \in Nat /\ 1 >= 1
      OBVIOUS
    <2> QED  BY <2>1, MemoryTake
  <1> HIDE DEF h1, b
  <1>2. /\ b \in Addresses /\ Block(<<b, 1>>) /\ <<b, 1>> \notin CarvedBlocks(c)
        /\ PagesIn(L, h.pages) = PagesIn(M, h1.pages) \cup PagesAt(b, 1)
        /\ PagesIn(M, h1.pages) \cap PagesAt(b, 1) = {}
        /\ \A a \in SliceSet(c) : h1.next[a] = h.next[a]
    BY <1>1 DEF Taken
  <1>3. b \in Nat /\ b + 4 <= KM_HIGH_CUTOFF /\ PagesAt(b, 1) = {b}
    <2>1. b \in Nat /\ b + 4 <= KM_HIGH_CUTOFF
      BY <1>2, AddressesFinite DEF Block
    <2>2. \A x : x \in PagesAt(b, 1) <=> \E i \in 0..(1 - 1) : x = b + 4 * i
      BY <2>1, PagesAtAre
    <2> QED  BY <2>1, <2>2
  <1>4. h1 \in HeapType
    BY <1>1 DEF Memory, Heap
  <1>5. LastSlice(b) = b + 3 /\ b + 3 \in Addresses
    BY <1>2, <1>3, LastSliceIs, KmemAssumption DEF Addresses
  <1>6. Carved(h1, h2, b)
    BY <1>2, <1>3, <1>4, CarveIs DEF h1, b, CarvedUp
  <1>7. h2 \in HeapType /\ h3 = Forget(h2, b + 3, 1)
    BY <1>5, <1>6 DEF Carved, Written, b, CarvedUp
  <1>8. Written(h2, h3, {b + 3})
    BY <1>5, <1>7, ForgetWritten
  <1>9. Written(h1, h3, b..(b + 3))
    <2>1. b + 3 \in b..(b + 3)
      BY <1>3
    <2> QED  BY <2>1, <1>6, <1>8 DEF Carved, Written
  <1>10. SliceSet(c1) = SliceSet(c) \cup (b..(b + 3))
    BY DEF SliceSet, SZ_PAGE
  <1>11. Memory(h3, o, c1, M, gap) /\ PagesIn(M, h3.pages) = PagesIn(M, h1.pages)
    <2>1. ASSUME NEW a \in b..(b + 3) PROVE a \notin M
      <3>1. a \in SliceSet(c1)
        BY <1>10
      <3> HIDE DEF c1
      <3> QED  BY <3>1, <1>1, CellsClear
    <2> DEFINE K == b..(b + 3)
    <2>2. K \cap M = {} /\ Written(h1, h3, K)
      BY <2>1, <1>9
    <2> HIDE DEF c1, K
    <2> QED  BY <2>2, <1>1, MemoryWritten
  <1>12. h2.next[b + 3] = b + 2 /\ h3.next[b] = NULL /\ h3.next[b + 1] = b /\ h3.next[b + 2] = b + 1
    <2>1. h2.next[b] = NULL /\ \A i \in 1..3 : h2.next[b + i] = b + (i - 1)
      BY <1>6 DEF Carved
    <2>2. h2.next[b + 1] = b + (1 - 1) /\ h2.next[b + 2] = b + (2 - 1) /\ h2.next[b + 3] = b + (3 - 1)
      BY <2>1
    <2>3. \A a \in {b, b + 1, b + 2} : a \in Addresses \ {b + 3}
      BY <1>2, <1>3, KmemAssumption DEF Addresses
    <2>4. \A a \in {b, b + 1, b + 2} : h3.next[a] = h2.next[a]
      BY <2>3, <1>8 DEF Written
    <2> QED  BY <2>1, <2>2, <2>4, <1>3
  <1>13. PICK l3 : Stack(l3, 3, h3.next, b + 2) /\ Stacked(l3, 3) = {b, b + 1, b + 2}
    BY <1>2, <1>3, <1>12, StackOfThree
  <1>14. s = SliceSet(c) /\ s \cap (b..(b + 3)) = {}
    <2>1. n = 0
      BY AddressesFinite DEF Slicing, Stack
    <2>2. Stacked(l, n) = {}
      BY <2>1, StackedAre
    <2>3. s = SliceSet(c)
      BY <2>2 DEF Slicing
    <2>4. ASSUME NEW a \in SliceSet(c) PROVE a \notin b..(b + 3)
      <3>1. PICK g \in c : a \in g..(g + 3)
        BY DEF SliceSet, SZ_PAGE
      <3>2. <<g, 1>> \in CarvedBlocks(c1) /\ <<b, 1>> \in CarvedBlocks(c1)
        BY DEF CarvedBlocks
      <3>3. <<g, 1>> # <<b, 1>>
        <4>1. <<b, 1>> \notin CarvedBlocks(c)
          BY <1>2
        <4> QED  BY <4>1 DEF CarvedBlocks
      <3>4. Beside(<<g, 1>>, <<b, 1>>) /\ Block(<<g, 1>>)
        BY <3>2, <3>3, <1>1 DEF Memory, Used
      <3>5. g \in Nat /\ Clear(g, 4, b, 4, 0)
        BY <3>4, AddressesFinite DEF Beside, Block
      <3> QED  BY <3>1, <3>5, <1>3 DEF Clear
    <2> QED  BY <2>3, <2>4
  <1>15. Slicing(h3, b + 2, s \cup {b + 3}, c1, l3, 3)
    <2>1. b..(b + 3) = {b, b + 1, b + 2} \cup {b + 3}
      BY <1>3
    <2>2. {b, b + 1, b + 2} \cap (s \cup {b + 3}) = {}
      BY <2>1, <1>3, <1>14
    <2>3. {b, b + 1, b + 2} \cup (s \cup {b + 3}) = SliceSet(c1)
      BY <2>1, <1>10, <1>14
    <2> QED  BY <2>2, <2>3, <1>13 DEF Slicing
  <1>16. PagesIn(L, h.pages) = PagesIn(M, h3.pages) \cup {b} /\ b \notin PagesIn(M, h3.pages)
    BY <1>2, <1>3, <1>11
  <1> QED  BY <1>2, <1>5, <1>11, <1>12, <1>15, <1>16 DEF b

-----------------------------------------------------------------------------
(* The memory map *)

RegionPages(r) == IF Added(r) THEN PagesAt(Low(r), WholePages(r)) ELSE {}

\* What km_init() adds of an entry lies between the cutoffs.
LEMMA RegionIs ==
  ASSUME NEW r \in Region
  PROVE  /\ Low(r) \in Nat /\ WholePages(r) \in Int
         /\ Usable(r) => /\ High(r) - Low(r) \in Nat /\ WholePages(r) \in Nat
                         /\ WholePages(r) = (High(r) - Low(r)) \div SZ_PAGE
         /\ Added(r) => /\ High(r) - Low(r) >= SZ_PAGE /\ WholePages(r) >= 1
                        /\ Low(r) \in Addresses
                        /\ Low(r) + 4 * WholePages(r) <= KM_HIGH_CUTOFF
         /\ Usable(r) /\ ~Added(r) => High(r) - Low(r) < SZ_PAGE
  <1>1. r.base \in Nat /\ r.length \in Nat
    BY DEF Region
  <1>2. Low(r) \in Nat /\ High(r) \in Nat /\ Low(r) >= KM_LOW_CUTOFF /\ High(r) <= KM_HIGH_CUTOFF
    BY <1>1, KmemAssumption DEF Low, High
  <1> DEFINE d == High(r) - Low(r)
             n == d \div 4
  <1>3. Usable(r) => Low(r) <= High(r)
    BY <1>1, KmemAssumption DEF Low, High, Usable
  <1>4. d \in Int /\ n \in Int /\ 4 * n <= d /\ d < 4 * n + 4 /\ WholePages(r) = n /\ SZ_PAGE = 4
    BY <1>2 DEF WholePages, SZ_PAGE
  <1>5. Usable(r) => d \in Nat /\ n \in Nat
    BY <1>2, <1>3, <1>4
  <1>6. Added(r) <=> Usable(r) /\ n > 0
    BY <1>4 DEF Added
  <1>7. Low(r) + d = High(r)
    BY <1>2
  <1> HIDE DEF d, n
  <1>8. ASSUME Added(r)
        PROVE  d >= 4 /\ n >= 1 /\ Low(r) \in Addresses /\ Low(r) + 4 * n <= KM_HIGH_CUTOFF
    BY <1>2, <1>4, <1>5, <1>6, <1>7, <1>8, KmemAssumption DEF Addresses
  <1>9. Usable(r) /\ ~Added(r) => d < 4
    BY <1>4, <1>5, <1>6
  <1> QED  BY <1>2, <1>4, <1>5, <1>8, <1>9 DEF d, n

LEMMA PagesOfAre ==
  ASSUME NEW t \in Seq(Region)
  PROVE  \A x : x \in PagesOf(t) <=> \E i \in 1..Len(t) : x \in RegionPages(t[i])
  <1>1. DOMAIN t = 1..Len(t) /\ \A i \in 1..Len(t) : t[i] \in Region
    OBVIOUS
  <1>2. ASSUME NEW i \in 1..Len(t)
        PROVE  RegionPages(t[i]) = IF Usable(t[i]) THEN PagesAt(Low(t[i]), WholePages(t[i])) ELSE {}
    <2> DEFINE r == t[i]
    <2>1. r \in Region
      BY <1>1
    <2> SUFFICES RegionPages(r) = IF Usable(r) THEN PagesAt(Low(r), WholePages(r)) ELSE {}
      OBVIOUS
    <2> HIDE DEF r
    <2>2. Low(r) \in Int /\ (Usable(r) => WholePages(r) \in Nat)
      BY <2>1, RegionIs
    <2>3. CASE Added(r)
      BY <2>3 DEF RegionPages, Added
    <2>4. CASE ~Usable(r)
      BY <2>4 DEF RegionPages, Added
    <2>5. CASE Usable(r) /\ ~Added(r)
      <3>1. WholePages(r) = 0
        BY <2>2, <2>5 DEF Added
      <3>2. \A x : x \in PagesAt(Low(r), 0) <=> \E j \in 0..(0 - 1) : x = Low(r) + 4 * j
        BY <2>2, PagesAtAre
      <3>3. PagesAt(Low(r), 0) = {}
        BY <3>2
      <3> QED  BY <3>1, <3>3, <2>5 DEF RegionPages
    <2> QED  BY <2>3, <2>4, <2>5
  <1>3. \A x : x \in PagesOf(t) <=>
          \E i \in 1..Len(t) : Usable(t[i]) /\ x \in PagesAt(Low(t[i]), WholePages(t[i]))
    BY <1>1 DEF PagesOf
  <1> QED  BY <1>2, <1>3

LEMMA PagesOfTail ==
  ASSUME NEW t \in Seq(Region), t # <<>>
  PROVE  PagesOf(t) = RegionPages(Head(t)) \cup PagesOf(Tail(t))
  <1>1. /\ Tail(t) \in Seq(Region) /\ Len(Tail(t)) = Len(t) - 1 /\ Len(t) \in Nat /\ Len(t) >= 1
        /\ Head(t) = t[1] /\ \A i \in 1..Len(Tail(t)) : Tail(t)[i] = t[i + 1]
    OBVIOUS
  <1>2. \A x : x \in PagesOf(t) <=> \E i \in 1..Len(t) : x \in RegionPages(t[i])
    BY PagesOfAre
  <1>3. \A x : x \in PagesOf(Tail(t)) <=> \E i \in 1..Len(Tail(t)) : x \in RegionPages(Tail(t)[i])
    BY <1>1, PagesOfAre
  <1>4. ASSUME NEW x, x \in PagesOf(t) PROVE x \in RegionPages(Head(t)) \cup PagesOf(Tail(t))
    <2>1. PICK i \in 1..Len(t) : x \in RegionPages(t[i])
      BY <1>2, <1>4
    <2>2. CASE i = 1
      BY <2>1, <2>2, <1>1
    <2>3. CASE i # 1
      <3>1. i - 1 \in 1..Len(Tail(t)) /\ (i - 1) + 1 = i
        BY <2>3, <1>1
      <3>2. Tail(t)[i - 1] = t[i]
        BY <3>1, <1>1
      <3> QED  BY <3>1, <3>2, <2>1, <1>3
    <2> QED  BY <2>2, <2>3
  <1>5. ASSUME NEW x, x \in PagesOf(Tail(t)) PROVE x \in PagesOf(t)
    <2>1. PICK i \in 1..Len(Tail(t)) : x \in RegionPages(Tail(t)[i])
      BY <1>3, <1>5
    <2>2. i + 1 \in 1..Len(t) /\ Tail(t)[i] = t[i + 1]
      BY <1>1
    <2> QED  BY <2>1, <2>2, <1>2
  <1>6. ASSUME NEW x, x \in RegionPages(Head(t)) PROVE x \in PagesOf(t)
    <2>1. 1 \in 1..Len(t)
      BY <1>1
    <2> QED  BY <2>1, <1>1, <1>2, <1>6
  <1> QED  BY <1>4, <1>5, <1>6

\* The entries not yet looked at are clear of one another and of the list.
Waiting(L, p, t, gap) ==
  /\ t \in Seq(Region)
  /\ MapApart(t, gap)
  /\ \A i \in 1..Len(t) : Added(t[i]) => ClearOf(L, p, Low(t[i]), 4 * WholePages(t[i]), gap)

AddedRegion(h, r) == IF Usable(r) THEN add_block(h, Low(r), High(r) - Low(r)) ELSE h

LEMMA RegionAdded ==
  ASSUME NEW h, NEW L, NEW gap \in Nat, Heap(h, L, gap), NEW t, t # <<>>,
         Waiting(L, h.pages, t, gap)
  PROVE  \E M : /\ Heap(AddedRegion(h, Head(t)), M, gap)
                /\ Waiting(M, AddedRegion(h, Head(t)).pages, Tail(t), gap)
                /\ PagesIn(M, AddedRegion(h, Head(t)).pages)
                     = PagesIn(L, h.pages) \cup RegionPages(Head(t))
                /\ PagesIn(L, h.pages) \cap RegionPages(Head(t)) = {}
  <1> DEFINE r == Head(t)
             h2 == AddedRegion(h, r)
             n == WholePages(r)
             b == Low(r)
  <1>1. t \in Seq(Region) /\ MapApart(t, gap) /\ Len(t) \in Nat /\ Len(t) >= 1
    BY DEF Waiting
  <1>2. /\ Tail(t) \in Seq(Region) /\ Len(Tail(t)) = Len(t) - 1 /\ r \in Region /\ r = t[1]
        /\ DOMAIN t = 1..Len(t) /\ DOMAIN Tail(t) = 1..(Len(t) - 1)
        /\ \A i \in 1..(Len(t) - 1) : Tail(t)[i] = t[i + 1] /\ i + 1 \in 1..Len(t) /\ t[i + 1] \in Region
    BY <1>1
  <1>3. MapApart(Tail(t), gap)
    <2> SUFFICES ASSUME NEW i \in 1..(Len(t) - 1), NEW j \in 1..(Len(t) - 1), i # j,
                        Added(Tail(t)[i]), Added(Tail(t)[j])
                 PROVE  Apart(BlockOf(Tail(t)[i]), BlockOf(Tail(t)[j]), gap)
      BY <1>2 DEF MapApart
    <2>1. i + 1 # j + 1 /\ Tail(t)[i] = t[i + 1] /\ Tail(t)[j] = t[j + 1]
      BY <1>2
    <2> QED  BY <2>1, <1>1, <1>2 DEF MapApart
  <1>4. CASE Added(r)
    <2>1. /\ Usable(r) /\ High(r) - b \in Nat /\ n \in Nat /\ n = (High(r) - b) \div SZ_PAGE
          /\ High(r) - b >= SZ_PAGE /\ n >= 1 /\ b \in Addresses /\ b + 4 * n <= KM_HIGH_CUTOFF
      <3>1. Usable(r)
        BY <1>4 DEF Added
      <3> QED  BY <3>1, <1>2, <1>4, RegionIs
    <2>2. h2 = add_block(h, b, High(r) - b)
      BY <2>1 DEF AddedRegion
    <2>3. ClearOf(L, h.pages, b, 4 * n, gap)
      BY <1>1, <1>2, <1>4 DEF Waiting
    <2> DEFINE d == High(r) - b
               M == L \cup {b}
    <2> HIDE DEF h2, n, b, d, r
    <2>4. Heap(h2, M, gap) /\ Grown(h, L, h2, M, b, n)
      <3>1. /\ d \in Nat /\ n = d \div SZ_PAGE /\ d >= SZ_PAGE /\ h2 = add_block(h, b, d)
        BY <2>1, <2>2 DEF d
      <3>2. /\ Heap(add_block(h, b, d), L \cup {b}, gap)
            /\ Grown(h, L, add_block(h, b, d), L \cup {b}, b, d \div SZ_PAGE)
        BY <3>1, <2>1, <2>3, AddBlockIs
      <3> QED  BY <3>1, <3>2
    <2> HIDE DEF M
    <2>5. ASSUME NEW i \in 1..Len(Tail(t)), Added(Tail(t)[i])
          PROVE  ClearOf(M, h2.pages, Low(Tail(t)[i]), 4 * WholePages(Tail(t)[i]), gap)
      <3> DEFINE y == Tail(t)[i]
                 x == Low(y)
                 m == WholePages(y)
      <3>1. i + 1 \in 1..Len(t) /\ y = t[i + 1] /\ i + 1 # 1 /\ y \in Region /\ 1 \in 1..Len(t)
        BY <1>1, <1>2
      <3>2. ClearOf(L, h.pages, x, 4 * m, gap)
        BY <3>1, <2>5 DEF Waiting
      <3>3. x \in Int /\ m \in Int /\ m >= 1
        BY <3>1, <2>5, RegionIs
      <3>4. Apart(BlockOf(y), BlockOf(r), gap)
        BY <3>1, <2>5, <1>1, <1>2, <1>4 DEF MapApart
      <3>5. b \in Int /\ n \in Int /\ gap \in Int
        BY <2>1, AddressesFinite
      <3>6. Clear(x, 4 * m, b, 4 * n, gap)
        <4>1. BlockOf(y) = <<x, m>> /\ BlockOf(r) = <<b, n>>
          BY DEF BlockOf, b, n
        <4> HIDE DEF x, m, y
        <4>2. Apart(<<x, m>>, <<b, n>>, gap)
          BY <3>4, <4>1
        <4> QED  BY <4>2, <3>3, <3>5, ApartIsClear
      <3>7. 4 * m \in Int /\ 4 * m >= 1
        BY <3>3
      <3> HIDE DEF x, m, y
      <3>8. ASSUME NEW z \in Int, NEW k \in Int, k >= 1, ClearOf(L, h.pages, z, k, gap),
                   Clear(z, k, b, 4 * n, gap)
            PROVE  ClearOf(M, h2.pages, z, k, gap)
        BY <2>4, <3>8 DEF Grown
      <3>9. ClearOf(M, h2.pages, x, 4 * m, gap)
        BY <3>2, <3>3, <3>6, <3>7, <3>8
      <3> QED  BY <3>9 DEF x, m, y
    <2>6. Waiting(M, h2.pages, Tail(t), gap)
      BY <2>5, <1>2, <1>3 DEF Waiting
    <2>7. RegionPages(r) = PagesAt(b, n)
      BY <1>4 DEF RegionPages, b, n
    <2>8. PagesIn(L, h.pages) \cap PagesAt(b, n) = {}
      <3>1. Lengths(L, h.pages, gap) /\ b \in Int /\ n \in Int
        BY <2>1, AddressesFinite DEF Heap
      <3> QED  BY <3>1, <2>3, ClearOfPages
    <2>9. PagesIn(M, h2.pages) = PagesIn(L, h.pages) \cup PagesAt(b, n)
      BY <2>4 DEF Grown
    <2> QED  BY <2>4, <2>6, <2>7, <2>8, <2>9 DEF h2, r
  <1>5. CASE ~Added(r)
    <2>1. h2 = h
      <3>1. Usable(r) => High(r) - Low(r) < SZ_PAGE
        BY <1>2, <1>5, RegionIs
      <3> QED  BY <3>1 DEF AddedRegion, add_block
    <2>2. RegionPages(r) = {}
      BY <1>5 DEF RegionPages
    <2>3. ASSUME NEW i \in 1..Len(Tail(t)), Added(Tail(t)[i])
          PROVE  ClearOf(L, h.pages, Low(Tail(t)[i]), 4 * WholePages(Tail(t)[i]), gap)
      <3>1. i + 1 \in 1..Len(t) /\ Tail(t)[i] = t[i + 1]
        BY <1>1, <1>2
      <3> QED  BY <3>1, <2>3 DEF Waiting
    <2>4. Waiting(L, h.pages, Tail(t), gap)
      BY <2>3, <1>2, <1>3 DEF Waiting
    <2> HIDE DEF h2, r
    <2>5. Heap(h2, L, gap) /\ Waiting(L, h2.pages, Tail(t), gap)
          /\ PagesIn(L, h2.pages) = PagesIn(L, h.pages) \cup RegionPages(r)
          /\ PagesIn(L, h.pages) \cap RegionPages(r) = {}
      BY <2>1, <2>2, <2>4
    <2> QED  BY <2>5 DEF h2, r
  <1> QED  BY <1>4, <1>5

-----------------------------------------------------------------------------
(* The inductive invariant *)

Covered(F, o, c, t) == \E u \in Tables : PagesOf(u) = F \cup BlockPages(o) \cup c \cup PagesOf(t)

\* L are the free blocks and l the stack of the n free slices; gap is 1 if no
\* two free blocks may be adjacent.
Accounted(h, top, s, o, c, t, ready, L, l, n, gap) ==
  /\ Memory(h, o, c, L, gap)
  /\ Slicing(h, top, s, c, l, n)
  /\ Waiting(L, h.pages, t, gap)
  /\ Covered(PagesIn(L, h.pages), o, c, t)
  /\ ~ready => o = {} /\ c = {}
  /\ ready => t = <<>>

AllocatorInv(gap) ==
  \E L, l, n : Accounted(heap, free_slices, slices, owned, carved, regions, km_initialized,
                         L, l, n, gap)

FreeOf(h) ==
  UNION {PagesAt(b, h.pages[b]) :
           b \in {Walk(h, h.free_pages, MaxBlocks)[n] : n \in 0..MaxBlocks} \ {NULL}}

LEMMA FreeOfIs ==
  ASSUME NEW h, NEW L, NEW gap \in Nat, Heap(h, L, gap)
  PROVE  FreeOf(h) = PagesIn(L, h.pages)
  <1>1. {Walk(h, h.free_pages, MaxBlocks)[n] : n \in 0..MaxBlocks} \ {NULL} = L
    BY HeapList, ListedAre
  <1> DEFINE K == {Walk(h, h.free_pages, MaxBlocks)[n] : n \in 0..MaxBlocks} \ {NULL}
  <1>2. FreeOf(h) = UNION {PagesAt(b, h.pages[b]) : b \in K}
    BY DEF FreeOf
  <1>3. K = L
    BY <1>1
  <1> HIDE DEF K
  <1> QED  BY <1>2, <1>3 DEF PagesIn

LEMMA NoneWaiting ==
  ASSUME NEW L, NEW p, NEW gap
  PROVE  Waiting(L, p, <<>>, gap) /\ PagesOf(<<>>) = {}
  <1>1. <<>> \in Seq(Region) /\ DOMAIN <<>> = {} /\ Len(<<>>) = 0 /\ 1..0 = {}
    OBVIOUS
  <1>2. MapApart(<<>>, gap)
    BY <1>1 DEF MapApart
  <1>3. PagesOf(<<>>) = {}
    BY <1>1 DEF PagesOf
  <1> QED  BY <1>1, <1>2, <1>3 DEF Waiting

LEMMA CarvedPages ==
  ASSUME NEW L, NEW p, NEW o, NEW c, Used(o \cup CarvedBlocks(c), L, p)
  PROVE  BlockPages(CarvedBlocks(c)) = c
  <1>1. ASSUME NEW q \in c PROVE PagesAt(q, 1) = {q}
    <2>1. <<q, 1>> \in CarvedBlocks(c)
      BY DEF CarvedBlocks
    <2>2. Block(<<q, 1>>)
      BY <2>1 DEF Used
    <2>3. q \in Int
      BY <2>2, AddressesFinite DEF Block
    <2>4. \A x : x \in PagesAt(q, 1) <=> \E i \in 0..(1 - 1) : x = q + 4 * i
      BY <2>3, PagesAtAre
    <2> QED  BY <2>3, <2>4
  <1>2. \A x : x \in BlockPages(CarvedBlocks(c)) <=> \E b \in CarvedBlocks(c) : x \in PagesAt(b[1], b[2])
    BY BlockPagesAre
  <1>3. \A x : x \in BlockPages(CarvedBlocks(c)) <=> \E q \in c : x \in PagesAt(q, 1)
    <2>1. ASSUME NEW b \in CarvedBlocks(c) PROVE b[1] \in c /\ b[2] = 1
      <3>1. PICK q \in c : b = <<q, 1>>
        BY DEF CarvedBlocks
      <3> QED  BY <3>1
    <2>2. ASSUME NEW q \in c
          PROVE  <<q, 1>> \in CarvedBlocks(c) /\ <<q, 1>>[1] = q /\ <<q, 1>>[2] = 1
      BY DEF CarvedBlocks
    <2> QED  BY <2>1, <2>2, <1>2
  <1> QED  BY <1>1, <1>3

\* What a step does to the free pages.
Change(F, F2, res, res2, gap) ==
  \/ F2 = F /\ res2 = res
  \/ /\ res2 = res
     /\ \E b \in Addresses, n \in Nat : n >= 1 /\ F2 = F \cup PagesAt(b, n) /\ F \cap PagesAt(b, n) = {}
  \/ \E n \in Counts \cup {1} : F = F2 \cup PagesAt(res2, n) /\ F2 \cap PagesAt(res2, n) = {}
  \/ /\ res2 = NULL /\ F2 = F
     /\ gap = 1 => \E n \in Counts \cup {1} : \A b \in Int : ~(PagesAt(b, n) \subseteq F)

StepOk(gap) ==
  AllocatorInv(gap)' /\ Change(FreeOf(heap), FreeOf(heap'), result, result', gap)

LEMMA StepIs ==
  ASSUME NEW gap \in Nat, NEW L, NEW M, NEW l, NEW n,
         Accounted(heap, free_slices, slices, owned, carved, regions, km_initialized, L, l, n, gap),
         NEW l2, NEW n2,
         Accounted(heap', free_slices', slices', owned', carved', regions', km_initialized',
                   M, l2, n2, gap),
         Change(PagesIn(L, heap.pages), PagesIn(M, heap'.pages), result, result', gap)
  PROVE  StepOk(gap)
  <1>1. Heap(heap, L, gap) /\ Heap(heap', M, gap)
    BY DEF Accounted, Memory
  <1>2. FreeOf(heap) = PagesIn(L, heap.pages)
    BY <1>1, FreeOfIs
  <1>3. FreeOf(heap') = PagesIn(M, heap'.pages)
    BY <1>1, FreeOfIs
  <1>4. AllocatorInv(gap)'
    BY DEF AllocatorInv
  <1> QED  BY <1>2, <1>3, <1>4 DEF StepOk

LEMMA InitAccounted ==
  ASSUME NEW gap \in Nat, \A t \in Tables : MapApart(t, gap), Init
  PROVE  AllocatorInv(gap) /\ FreeOf(heap) = {}
  <1> DEFINE l == [i \in Nat |-> NULL]
             h == heap
             junk == [a \in Addresses |-> JUNK]
  <1>1. /\ h.free_pages = NULL /\ h.n_pages = 0 /\ h.pages = junk /\ h.next = junk
        /\ free_slices = NULL /\ owned = {} /\ slices = {} /\ carved = {} /\ regions \in Tables
        /\ km_initialized = FALSE
        /\ h = [free_pages |-> NULL, n_pages |-> 0, pages |-> junk, next |-> junk]
    BY DEF Init
  <1>2. junk \in [Addresses -> Words] /\ junk \in [Addresses -> Int]
    BY DEF Words, JUNK
  <1> HIDE DEF h, junk
  <1>3. h \in HeapType
    BY <1>1, <1>2 DEF HeapType, Words
  <1>4. PagesIn({}, h.pages) = {}
    BY PagesInAre
  <1>5. Heap(h, {}, gap)
    <2>1. Ordered(h.free_pages, h.next, {})
      BY <1>1 DEF Ordered, After
    <2>2. Lengths({}, h.pages, gap)
      BY <1>1, <1>2 DEF Lengths
    <2> QED  BY <2>1, <2>2, <1>1, <1>3, <1>4, FS_EmptySet DEF Heap
  <1>6. CarvedBlocks({}) = {} /\ SliceSet({}) = {} /\ BlockPages({}) = {}
    BY DEF CarvedBlocks, SliceSet, BlockPages
  <1>7. Memory(h, {}, {}, {}, gap)
    BY <1>5, <1>6 DEF Memory, Used
  <1>8. Slicing(h, NULL, {}, {}, l, 0)
    <2>1. l \in [Nat -> Words] /\ l[0] = NULL
      BY DEF Words
    <2> HIDE DEF l
    <2>2. Stack(l, 0, h.next, NULL)
      BY <2>1 DEF Stack
    <2>3. Stacked(l, 0) = {}
      BY StackedAre
    <2> QED  BY <2>2, <2>3, <1>6 DEF Slicing
  <1>9. regions \in Seq(Region) /\ MapApart(regions, gap)
    BY <1>1, TablesAssumption
  <1>10. Waiting({}, h.pages, regions, gap)
    BY <1>9 DEF Waiting, ClearOf
  <1>11. Covered(PagesIn({}, h.pages), {}, {}, regions)
    <2>1. PagesOf(regions) = PagesIn({}, h.pages) \cup BlockPages({}) \cup {} \cup PagesOf(regions)
      BY <1>4, <1>6
    <2> QED  BY <2>1, <1>1 DEF Covered
  <1>12. Accounted(h, free_slices, slices, owned, carved, regions, km_initialized, {}, l, 0, gap)
    BY <1>1, <1>7, <1>8, <1>10, <1>11 DEF Accounted
  <1>13. FreeOf(h) = {}
    BY <1>4, <1>5, FreeOfIs
  <1> QED  BY <1>12, <1>13 DEF AllocatorInv, h

-----------------------------------------------------------------------------
(* One lemma for each action *)

LEMMA AddRegionStep ==
  ASSUME NEW gap \in Nat, AllocatorInv(gap), AddRegion
  PROVE  StepOk(gap)
  <1>1. PICK L, l, n : Accounted(heap, free_slices, slices, owned, carved, regions,
                                 km_initialized, L, l, n, gap)
    BY DEF AllocatorInv
  <1> DEFINE r == Head(regions)
             F == PagesIn(L, heap.pages)
  <1>2. /\ Memory(heap, owned, carved, L, gap) /\ Slicing(heap, free_slices, slices, carved, l, n)
        /\ Waiting(L, heap.pages, regions, gap) /\ Covered(F, owned, carved, regions)
        /\ ~km_initialized /\ owned = {} /\ carved = {} /\ regions # <<>>
    BY <1>1 DEF Accounted, AddRegion
  <1>3. Heap(heap, L, gap) /\ heap' = AddedRegion(heap, r) /\ regions' = Tail(regions)
    BY <1>2 DEF Memory, AddRegion, AddedRegion
  <1>4. PICK M : /\ Heap(AddedRegion(heap, r), M, gap)
                 /\ Waiting(M, AddedRegion(heap, r).pages, Tail(regions), gap)
                 /\ PagesIn(M, AddedRegion(heap, r).pages) = F \cup RegionPages(r)
                 /\ F \cap RegionPages(r) = {}
    BY <1>2, <1>3, RegionAdded
  <1> DEFINE h2 == AddedRegion(heap, r)
             F2 == PagesIn(M, h2.pages)
  <1> HIDE DEF h2
  <1>5. /\ heap' = h2 /\ Heap(h2, M, gap) /\ Waiting(M, h2.pages, Tail(regions), gap)
        /\ F2 = F \cup RegionPages(r) /\ F \cap RegionPages(r) = {}
    BY <1>3, <1>4 DEF h2
  <1>6. CarvedBlocks({}) = {} /\ SliceSet({}) = {}
    BY DEF CarvedBlocks, SliceSet
  <1>7. Memory(h2, {}, {}, M, gap)
    BY <1>5, <1>6 DEF Memory, Used
  <1>8. Slicing(h2, free_slices, slices, {}, l, n)
    BY <1>2, <1>6, SlicingKept
  <1>9. Covered(F2, {}, {}, Tail(regions))
    <2>1. PICK u \in Tables : PagesOf(u) = F \cup BlockPages({}) \cup {} \cup PagesOf(regions)
      BY <1>2 DEF Covered
    <2>2. PagesOf(regions) = RegionPages(r) \cup PagesOf(Tail(regions))
      BY <1>2, PagesOfTail DEF Waiting
    <2>3. PagesOf(u) = F2 \cup BlockPages({}) \cup {} \cup PagesOf(Tail(regions))
      BY <2>1, <2>2, <1>5
    <2> HIDE DEF F2
    <2> QED  BY <2>3 DEF Covered
  <1>10. /\ free_slices' = free_slices /\ slices' = slices /\ owned' = {} /\ carved' = {}
         /\ km_initialized' = km_initialized /\ result' = result
    BY <1>2 DEF AddRegion
  <1>11. Accounted(heap', free_slices', slices', owned', carved', regions', km_initialized',
                   M, l, n, gap)
    BY <1>2, <1>3, <1>5, <1>7, <1>8, <1>9, <1>10 DEF Accounted
  <1>12. Change(F, PagesIn(M, heap'.pages), result, result', gap)
    <2>1. CASE Added(r)
      <3>1. r \in Region
        BY <1>2 DEF Waiting
      <3>2. Low(r) \in Addresses /\ WholePages(r) \in Nat /\ WholePages(r) >= 1
        BY <3>1, <2>1, RegionIs DEF Added
      <3>3. RegionPages(r) = PagesAt(Low(r), WholePages(r))
        BY <2>1 DEF RegionPages
      <3> HIDE DEF r, F
      <3> QED  BY <3>2, <3>3, <1>5, <1>10 DEF Change
    <2>2. CASE ~Added(r)
      <3>1. F2 = F
        BY <2>2, <1>5 DEF RegionPages
      <3> QED  BY <3>1, <1>5, <1>10 DEF Change
    <2> QED  BY <2>1, <2>2
  <1> QED  BY <1>1, <1>11, <1>12, StepIs

LEMMA InitDoneStep ==
  ASSUME NEW gap \in Nat, AllocatorInv(gap), InitDone
  PROVE  StepOk(gap)
  <1>1. PICK L, l, n : Accounted(heap, free_slices, slices, owned, carved, regions,
                                 km_initialized, L, l, n, gap)
    BY DEF AllocatorInv
  <1>2. /\ heap' = heap /\ free_slices' = free_slices /\ slices' = slices /\ owned' = owned
        /\ carved' = carved /\ regions' = regions /\ result' = result
        /\ regions = <<>> /\ km_initialized' = TRUE
    BY DEF InitDone
  <1>3. Accounted(heap', free_slices', slices', owned', carved', regions', km_initialized',
                  L, l, n, gap)
    BY <1>1, <1>2 DEF Accounted
  <1>4. Change(PagesIn(L, heap.pages), PagesIn(L, heap'.pages), result, result', gap)
    BY <1>2 DEF Change
  <1> QED  BY <1>1, <1>3, <1>4, StepIs

\* Nothing of the allocator's changes.
LEMMA StutterStep ==
  ASSUME NEW gap \in Nat, AllocatorInv(gap), UNCHANGED vars
  PROVE  StepOk(gap)
  <1>1. PICK L, l, n : Accounted(heap, free_slices, slices, owned, carved, regions,
                                 km_initialized, L, l, n, gap)
    BY DEF AllocatorInv
  <1>2. /\ heap' = heap /\ free_slices' = free_slices /\ slices' = slices /\ owned' = owned
        /\ carved' = carved /\ regions' = regions /\ result' = result
        /\ km_initialized' = km_initialized
    BY DEF vars
  <1>3. Accounted(heap', free_slices', slices', owned', carved', regions', km_initialized',
                  L, l, n, gap)
    BY <1>1, <1>2
  <1>4. Change(PagesIn(L, heap.pages), PagesIn(L, heap'.pages), result, result', gap)
    BY <1>2 DEF Change
  <1> QED  BY <1>1, <1>3, <1>4, StepIs

\* A request that no block is large enough for.
LEMMA NoFit ==
  ASSUME NEW h, NEW L, NEW gap \in {0, 1}, Heap(h, L, gap), NEW n \in Nat, n >= 1, Fit(h, n) = NULL
  PROVE  gap = 1 => \A b \in Int : ~(PagesAt(b, n) \subseteq PagesIn(L, h.pages))
  <1>0. gap \in Nat
    OBVIOUS
  <1>1. \A a \in L : h.pages[a] < n
    BY <1>0, FitIs
  <1> SUFFICES ASSUME gap = 1, NEW b \in Int
               PROVE  ~(PagesAt(b, n) \subseteq PagesIn(L, h.pages))
    OBVIOUS
  <1>2. Heap(h, L, 1)
    OBVIOUS
  <1> QED  BY <1>1, <1>2, RunInBlock

LEMMA PageAllocStep ==
  ASSUME NEW gap \in {0, 1}, AllocatorInv(gap), NEW count \in Counts, km_page_alloc(count)
  PROVE  StepOk(gap)
  <1>0. gap \in Nat /\ count \in Nat /\ count >= 1
    BY KmemAssumption
  <1>1. PICK L, l, n : Accounted(heap, free_slices, slices, owned, carved, regions,
                                 km_initialized, L, l, n, gap)
    BY DEF AllocatorInv
  <1> DEFINE F == PagesIn(L, heap.pages)
             b == Fit(heap, count)
             h2 == TakePages(heap, count)
  <1>2. /\ Memory(heap, owned, carved, L, gap) /\ Slicing(heap, free_slices, slices, carved, l, n)
        /\ Covered(F, owned, carved, regions) /\ regions = <<>> /\ km_initialized
    BY <1>1 DEF Accounted, km_page_alloc, Ready
  <1>3. /\ free_slices' = free_slices /\ slices' = slices /\ carved' = carved
        /\ regions' = regions /\ km_initialized' = km_initialized /\ result' = b
    BY DEF km_page_alloc
  <1>4. CASE b = NULL
    <2>1. heap' = heap /\ owned' = owned
      BY <1>3, <1>4 DEF km_page_alloc
    <2>2. Accounted(heap', free_slices', slices', owned', carved', regions', km_initialized',
                    L, l, n, gap)
      BY <2>1, <1>1, <1>3
    <2>3. Heap(heap, L, gap)
      BY <1>2 DEF Memory
    <2>4. gap = 1 => \A d \in Int : ~(PagesAt(d, count) \subseteq F)
      BY <2>3, <1>0, <1>4, NoFit
    <2>5. Change(F, PagesIn(L, heap'.pages), result, result', gap)
      <3> HIDE DEF F, b
      <3>1. PagesIn(L, heap'.pages) = F /\ result' = NULL
        BY <2>1, <1>3, <1>4 DEF F
      <3> QED  BY <3>1, <2>4 DEF Change
    <2> QED  BY <2>2, <2>5, <1>0, <1>1, StepIs
  <1>5. CASE b # NULL
    <2>1. heap' = h2 /\ owned' = owned \cup {<<b, count>>}
      BY <1>3, <1>5 DEF km_page_alloc
    <2>2. PICK M : /\ Memory(h2, owned \cup {<<b, count>>}, carved, M, gap)
                   /\ Taken(heap, owned, carved, L, h2, M, b, count)
      BY <1>0, <1>2, <1>5, MemoryTake
    <2> DEFINE F2 == PagesIn(M, h2.pages)
    <2>3. /\ F = F2 \cup PagesAt(b, count) /\ F2 \cap PagesAt(b, count) = {}
          /\ \A a \in SliceSet(carved) : h2.next[a] = heap.next[a]
      BY <2>2 DEF Taken
    <2> HIDE DEF h2, b
    <2>4. Slicing(h2, free_slices, slices, carved, l, n)
      BY <2>3, <1>2, SlicingKept
    <2>5. Waiting(M, h2.pages, regions, gap)
      BY <1>2, NoneWaiting
    <2>6. Covered(F2, owned \cup {<<b, count>>}, carved, regions)
      <3>1. BlockPages(owned \cup {<<b, count>>}) = BlockPages(owned) \cup PagesAt(b, count)
        <4> DEFINE y == <<b, count>>
        <4>1. y[1] = b /\ y[2] = count
          OBVIOUS
        <4> HIDE DEF y
        <4>2. BlockPages(owned \cup {y}) = BlockPages(owned) \cup PagesAt(y[1], y[2])
          BY BlockPagesAre
        <4> QED  BY <4>1, <4>2 DEF y
      <3>2. PICK u \in Tables : PagesOf(u) = F \cup BlockPages(owned) \cup carved \cup PagesOf(regions)
        BY <1>2 DEF Covered
      <3>3. PagesOf(u) = F2 \cup BlockPages(owned \cup {<<b, count>>}) \cup carved \cup PagesOf(regions)
        BY <3>1, <3>2, <2>3
      <3> HIDE DEF F2
      <3> QED  BY <3>3 DEF Covered
    <2>7. Accounted(heap', free_slices', slices', owned', carved', regions', km_initialized',
                    M, l, n, gap)
      BY <2>1, <2>2, <2>4, <2>5, <2>6, <1>2, <1>3 DEF Accounted
    <2>8. Change(F, PagesIn(M, heap'.pages), result, result', gap)
      <3>1. PagesIn(M, heap'.pages) = F2
        BY <2>1
      <3> HIDE DEF F, F2
      <3> QED  BY <3>1, <2>3, <1>3 DEF Change
    <2> QED  BY <2>7, <2>8, <1>0, <1>1, StepIs
  <1> QED  BY <1>4, <1>5

LEMMA FreeBlockStep ==
  ASSUME NEW gap \in {0, 1}, AllocatorInv(gap), FreeBlock
  PROVE  StepOk(gap)
  <1>0. gap \in Nat
    OBVIOUS
  <1>1. PICK L, l, n : Accounted(heap, free_slices, slices, owned, carved, regions,
                                 km_initialized, L, l, n, gap)
    BY DEF AllocatorInv
  <1>2. PICK x \in owned : heap' = km_page_free_multi(heap, x[1], x[2]) /\ owned' = owned \ {x}
    BY DEF FreeBlock
  <1> DEFINE F == PagesIn(L, heap.pages)
             h2 == km_page_free_multi(heap, x[1], x[2])
  <1>3. /\ Memory(heap, owned, carved, L, gap) /\ Slicing(heap, free_slices, slices, carved, l, n)
        /\ Covered(F, owned, carved, regions) /\ regions = <<>> /\ km_initialized
    BY <1>1 DEF Accounted, FreeBlock, Ready
  <1>4. /\ free_slices' = free_slices /\ slices' = slices /\ carved' = carved
        /\ regions' = regions /\ km_initialized' = km_initialized /\ result' = result
    BY DEF FreeBlock
  <1>5. PICK M : /\ Memory(h2, owned \ {x}, carved, M, gap)
                 /\ Given(heap, carved, L, h2, M, x[1], x[2])
    BY <1>3, MemoryFree
  <1> HIDE DEF h2
  <1> DEFINE F2 == PagesIn(M, h2.pages)
  <1>6. /\ F2 = F \cup PagesAt(x[1], x[2]) /\ F \cap PagesAt(x[1], x[2]) = {}
        /\ \A a \in SliceSet(carved) : h2.next[a] = heap.next[a]
    BY <1>5 DEF Given
  <1>7. Slicing(h2, free_slices, slices, carved, l, n)
    BY <1>3, <1>6, SlicingKept
  <1>8. Waiting(M, h2.pages, regions, gap)
    BY <1>3, NoneWaiting
  <1>9. Covered(F2, owned \ {x}, carved, regions)
    <2>1. BlockPages(owned) = BlockPages(owned \ {x}) \cup PagesAt(x[1], x[2])
      BY BlockPagesAre
    <2>2. PICK u \in Tables : PagesOf(u) = F \cup BlockPages(owned) \cup carved \cup PagesOf(regions)
      BY <1>3 DEF Covered
    <2>3. PagesOf(u) = F2 \cup BlockPages(owned \ {x}) \cup carved \cup PagesOf(regions)
      BY <2>1, <2>2, <1>6
    <2> HIDE DEF F2
    <2> QED  BY <2>3 DEF Covered
  <1>10. heap' = h2
    BY <1>2 DEF h2
  <1>11. Accounted(heap', free_slices', slices', owned', carved', regions', km_initialized',
                   M, l, n, gap)
    BY <1>2, <1>3, <1>4, <1>5, <1>7, <1>8, <1>9, <1>10 DEF Accounted
  <1>12. Change(F, PagesIn(M, heap'.pages), result, result', gap)
    <2>1. Block(x)
      BY <1>3 DEF Memory, Used
    <2>2. x[1] \in Addresses /\ x[2] \in Nat /\ x[2] >= 1
      BY <2>1 DEF Block
    <2>3. PagesIn(M, heap'.pages) = F2
      BY <1>10
    <2> HIDE DEF F, F2
    <2> QED  BY <2>2, <2>3, <1>4, <1>6 DEF Change
  <1> QED  BY <1>0, <1>1, <1>11, <1>12, StepIs

LEMMA PageFreeStep ==
  ASSUME NEW gap \in {0, 1}, AllocatorInv(gap), km_page_free
  PROVE  StepOk(gap)
  <1>0. gap \in Nat
    OBVIOUS
  <1>1. PICK L, l, n : Accounted(heap, free_slices, slices, owned, carved, regions,
                                 km_initialized, L, l, n, gap)
    BY DEF AllocatorInv
  <1>2. PICK x \in owned : \E i \in 0..(x[2] - 1) :
          /\ heap' = km_page_free_multi(heap, x[1] + P2B(i), 1)
          /\ owned' = (owned \ {x}) \cup Kept(x, i)
    BY DEF km_page_free, Kept
  <1>3. PICK i \in 0..(x[2] - 1) :
          /\ heap' = km_page_free_multi(heap, x[1] + P2B(i), 1)
          /\ owned' = (owned \ {x}) \cup Kept(x, i)
    BY <1>2
  <1> DEFINE F == PagesIn(L, heap.pages)
             y == Page(x, i)
             kept == (owned \ {x}) \cup Kept(x, i)
             h2 == km_page_free_multi(heap, y[1], y[2])
  <1>4. /\ Memory(heap, owned, carved, L, gap) /\ Slicing(heap, free_slices, slices, carved, l, n)
        /\ Covered(F, owned, carved, regions) /\ regions = <<>> /\ km_initialized
    BY <1>1 DEF Accounted, km_page_free, Ready
  <1>5. /\ free_slices' = free_slices /\ slices' = slices /\ carved' = carved
        /\ regions' = regions /\ km_initialized' = km_initialized /\ result' = result
    BY DEF km_page_free
  <1>6. y[1] = x[1] + P2B(i) /\ y[2] = 1
    BY DEF Page
  <1>7. /\ Memory(heap, kept \cup {y}, carved, L, gap) /\ y \notin kept
        /\ BlockPages(owned) = BlockPages(kept) \cup PagesAt(y[1], y[2])
    <2>1. Memory(heap, owned, carved, L, gap)
      BY <1>4
    <2>2. IsCut(heap, owned, carved, L, gap, x, i)
      BY <2>1, <1>0, MemorySplit
    <2> QED  BY <2>2, <1>6 DEF IsCut
  <1>8. heap' = h2 /\ owned' = kept
    BY <1>3, <1>6
  <1> DEFINE o2 == kept \cup {y}
  <1>9. y \in o2 /\ o2 \ {y} = kept /\ Memory(heap, o2, carved, L, gap)
    BY <1>7
  <1> HIDE DEF y, kept, o2
  <1>10. PICK M : /\ Memory(h2, o2 \ {y}, carved, M, gap)
                  /\ Given(heap, carved, L, h2, M, y[1], y[2])
    BY <1>9, MemoryFree
  <1> HIDE DEF h2
  <1> DEFINE F2 == PagesIn(M, h2.pages)
  <1>11. /\ F2 = F \cup PagesAt(y[1], y[2]) /\ F \cap PagesAt(y[1], y[2]) = {}
         /\ \A a \in SliceSet(carved) : h2.next[a] = heap.next[a]
    BY <1>10 DEF Given
  <1>12. Slicing(h2, free_slices, slices, carved, l, n)
    BY <1>4, <1>11, SlicingKept
  <1>13. Waiting(M, h2.pages, regions, gap)
    BY <1>4, NoneWaiting
  <1>14. Covered(F2, kept, carved, regions)
    <2>1. PICK u \in Tables : PagesOf(u) = F \cup BlockPages(owned) \cup carved \cup PagesOf(regions)
      BY <1>4 DEF Covered
    <2>2. PagesOf(u) = F2 \cup BlockPages(kept) \cup carved \cup PagesOf(regions)
      BY <2>1, <1>7, <1>11
    <2> HIDE DEF F2
    <2> QED  BY <2>2 DEF Covered
  <1>15. Accounted(heap', free_slices', slices', owned', carved', regions', km_initialized',
                   M, l, n, gap)
    BY <1>4, <1>5, <1>8, <1>9, <1>10, <1>12, <1>13, <1>14 DEF Accounted
  <1>16. Change(F, PagesIn(M, heap'.pages), result, result', gap)
    <2>1. Block(y)
      BY <1>9 DEF Memory, Used
    <2>2. y[1] \in Addresses /\ y[2] \in Nat /\ y[2] >= 1
      BY <2>1 DEF Block
    <2>3. PagesIn(M, heap'.pages) = F2
      BY <1>8
    <2> HIDE DEF F, F2
    <2> QED  BY <2>2, <2>3, <1>5, <1>11 DEF Change
  <1> QED  BY <1>0, <1>1, <1>15, <1>16, StepIs

LEMMA SliceAllocStep ==
  ASSUME NEW gap \in Nat, AllocatorInv(gap), km_slice_alloc
  PROVE  StepOk(gap)
  <1>1. PICK L, l, n : Accounted(heap, free_slices, slices, owned, carved, regions,
                                 km_initialized, L, l, n, gap)
    BY DEF AllocatorInv
  <1> DEFINE F == PagesIn(L, heap.pages)
             top == free_slices
             h2 == Forget(heap, top, 1)
  <1>2. /\ Memory(heap, owned, carved, L, gap) /\ Slicing(heap, top, slices, carved, l, n)
        /\ Covered(F, owned, carved, regions) /\ regions = <<>> /\ km_initialized /\ top # NULL
    BY <1>1 DEF Accounted, km_slice_alloc, Ready
  <1>3. /\ free_slices' = heap.next[top] /\ slices' = slices \cup {top} /\ carved' = carved
        /\ regions' = regions /\ km_initialized' = km_initialized /\ result' = result
        /\ owned' = owned /\ heap' = h2
    BY DEF km_slice_alloc, TakeSlice
  <1>4. /\ Memory(h2, owned, carved, L, gap) /\ PagesIn(L, h2.pages) = F
        /\ Slicing(h2, heap.next[top], slices \cup {top}, carved, l, n - 1)
    <2>1. Memory(heap, owned, carved, L, gap)
      BY <1>2
    <2>2. Slicing(heap, top, slices, carved, l, n) /\ top # NULL
      BY <1>2
    <2> HIDE DEF top
    <2>3. /\ Memory(Forget(heap, top, 1), owned, carved, L, gap)
          /\ PagesIn(L, Forget(heap, top, 1).pages) = PagesIn(L, heap.pages)
          /\ Slicing(Forget(heap, top, 1), heap.next[top], slices \cup {top}, carved, l, n - 1)
      BY <2>1, <2>2, SlicePop
    <2> QED  BY <2>3
  <1> HIDE DEF h2, top
  <1>5. Waiting(L, h2.pages, regions, gap)
    BY <1>2, NoneWaiting
  <1>6. Accounted(heap', free_slices', slices', owned', carved', regions', km_initialized',
                  L, l, n - 1, gap)
    BY <1>2, <1>3, <1>4, <1>5 DEF Accounted
  <1>7. Change(F, PagesIn(L, heap'.pages), result, result', gap)
    BY <1>3, <1>4 DEF Change
  <1> QED  BY <1>1, <1>6, <1>7, StepIs

LEMMA SliceFreeStep ==
  ASSUME NEW gap \in Nat, AllocatorInv(gap), km_slice_free
  PROVE  StepOk(gap)
  <1>1. PICK L, l, n : Accounted(heap, free_slices, slices, owned, carved, regions,
                                 km_initialized, L, l, n, gap)
    BY DEF AllocatorInv
  <1>2. PICK a \in slices : /\ Pushed(heap, heap', a, free_slices)
                            /\ free_slices' = a /\ slices' = slices \ {a}
    BY DEF km_slice_free, Pushed
  <1> DEFINE F == PagesIn(L, heap.pages)
  <1>3. /\ Memory(heap, owned, carved, L, gap) /\ Slicing(heap, free_slices, slices, carved, l, n)
        /\ Covered(F, owned, carved, regions) /\ regions = <<>> /\ km_initialized
    BY <1>1 DEF Accounted, km_slice_free, Ready
  <1>4. /\ carved' = carved /\ regions' = regions /\ km_initialized' = km_initialized
        /\ result' = result /\ owned' = owned
    BY DEF km_slice_free
  <1>5. PICK h2 : h2 = heap'
    OBVIOUS
  <1>6. Pushed(heap, h2, a, free_slices)
    BY <1>2, <1>5
  <1>7. /\ Memory(h2, owned, carved, L, gap) /\ PagesIn(L, h2.pages) = F
        /\ \E l2 : Slicing(h2, a, slices \ {a}, carved, l2, n + 1)
    <2>1. Memory(heap, owned, carved, L, gap)
      BY <1>3
    <2>2. Slicing(heap, free_slices, slices, carved, l, n)
      BY <1>3
    <2>3. GivenSlice(heap, owned, carved, L, gap, h2, a, slices, n)
      BY <2>1, <2>2, <1>6, SlicePush
    <2> QED  BY <2>3 DEF GivenSlice
  <1>8. PICK l2 : Slicing(h2, a, slices \ {a}, carved, l2, n + 1)
    BY <1>7
  <1>9. Waiting(L, h2.pages, regions, gap)
    BY <1>3, NoneWaiting
  <1>10. Accounted(heap', free_slices', slices', owned', carved', regions', km_initialized',
                   L, l2, n + 1, gap)
    BY <1>2, <1>3, <1>4, <1>5, <1>7, <1>8, <1>9 DEF Accounted
  <1>11. Change(F, PagesIn(L, heap'.pages), result, result', gap)
    BY <1>4, <1>5, <1>7 DEF Change
  <1> QED  BY <1>1, <1>10, <1>11, StepIs

LEMMA CarveStep ==
  ASSUME NEW gap \in {0, 1}, AllocatorInv(gap), CarveAndAlloc
  PROVE  StepOk(gap)
  <1>0. gap \in Nat /\ 1 \in Nat /\ 1 >= 1
    OBVIOUS
  <1>1. PICK L, l, n : Accounted(heap, free_slices, slices, owned, carved, regions,
                                 km_initialized, L, l, n, gap)
    BY DEF AllocatorInv
  <1> DEFINE F == PagesIn(L, heap.pages)
             b == Fit(heap, 1)
             h2 == carve_slices(TakePages(heap, 1), b)
             h3 == Forget(h2, LastSlice(b), 1)
  <1>2. /\ Memory(heap, owned, carved, L, gap) /\ Slicing(heap, NULL, slices, carved, l, n)
        /\ Covered(F, owned, carved, regions) /\ regions = <<>> /\ km_initialized
    BY <1>1 DEF Accounted, CarveAndAlloc, Ready
  <1>3. /\ owned' = owned /\ regions' = regions /\ km_initialized' = km_initialized /\ result' = b
    BY DEF CarveAndAlloc
  <1>4. CASE b = NULL
    <2>1. heap' = heap /\ carved' = carved /\ free_slices' = free_slices /\ slices' = slices
      BY <1>3, <1>4 DEF CarveAndAlloc
    <2>2. Accounted(heap', free_slices', slices', owned', carved', regions', km_initialized',
                    L, l, n, gap)
      BY <2>1, <1>1, <1>3
    <2>3. Heap(heap, L, gap)
      BY <1>2 DEF Memory
    <2>4. gap = 1 => \A d \in Int : ~(PagesAt(d, 1) \subseteq F)
      BY <2>3, <1>0, <1>4, NoFit
    <2>5. Change(F, PagesIn(L, heap'.pages), result, result', gap)
      <3> HIDE DEF F, b
      <3>1. PagesIn(L, heap'.pages) = F /\ result' = NULL
        BY <2>1, <1>3, <1>4 DEF F
      <3> QED  BY <3>1, <2>4 DEF Change
    <2> QED  BY <2>2, <2>5, <1>0, <1>1, StepIs
  <1>5. CASE b # NULL
    <2>1. /\ heap' = h3 /\ carved' = carved \cup {b} /\ slices' = slices \cup {LastSlice(b)}
          /\ free_slices' = h2.next[LastSlice(b)]
      BY <1>3, <1>5 DEF CarveAndAlloc, TakeSlice
    <2>2. CarvedUp(heap, h2, h3)
      BY DEF CarvedUp
    <2> HIDE DEF h2, h3
    <2>3. PICK M : /\ Memory(h3, owned, carved \cup {b}, M, gap) /\ b \in Addresses
                   /\ F = PagesIn(M, h3.pages) \cup {b} /\ b \notin PagesIn(M, h3.pages)
                   /\ \E l3 : Slicing(h3, h2.next[LastSlice(b)], slices \cup {LastSlice(b)},
                                      carved \cup {b}, l3, 3)
      <3>1. Memory(heap, owned, carved, L, gap)
        BY <1>2
      <3>2. Slicing(heap, NULL, slices, carved, l, n)
        BY <1>2
      <3>3. \E M : /\ Memory(h3, owned, carved \cup {Fit(heap, 1)}, M, gap)
                   /\ Fit(heap, 1) \in Addresses
                   /\ PagesIn(L, heap.pages) = PagesIn(M, h3.pages) \cup {Fit(heap, 1)}
                   /\ Fit(heap, 1) \notin PagesIn(M, h3.pages)
                   /\ \E l3 : Slicing(h3, h2.next[LastSlice(Fit(heap, 1))],
                                      slices \cup {LastSlice(Fit(heap, 1))},
                                      carved \cup {Fit(heap, 1)}, l3, 3)
        BY <3>1, <3>2, <2>2, <1>0, <1>5, SliceCarve
      <3> QED  BY <3>3
    <2>4. PICK l3 : Slicing(h3, h2.next[LastSlice(b)], slices \cup {LastSlice(b)},
                            carved \cup {b}, l3, 3)
      BY <2>3
    <2> DEFINE F2 == PagesIn(M, h3.pages)
    <2> HIDE DEF b
    <2>5. Waiting(M, h3.pages, regions, gap)
      BY <1>2, NoneWaiting
    <2>6. Covered(F2, owned, carved \cup {b}, regions)
      <3>1. PICK u \in Tables : PagesOf(u) = F \cup BlockPages(owned) \cup carved \cup PagesOf(regions)
        BY <1>2 DEF Covered
      <3>2. PagesOf(u) = F2 \cup BlockPages(owned) \cup (carved \cup {b}) \cup PagesOf(regions)
        BY <3>1, <2>3
      <3> HIDE DEF F2
      <3> QED  BY <3>2 DEF Covered
    <2>7. Accounted(heap', free_slices', slices', owned', carved', regions', km_initialized',
                    M, l3, 3, gap)
      BY <2>1, <2>3, <2>4, <2>5, <2>6, <1>2, <1>3 DEF Accounted
    <2>8. Change(F, PagesIn(M, heap'.pages), result, result', gap)
      <3>1. PagesIn(M, heap'.pages) = F2
        BY <2>1
      <3>2. PagesAt(b, 1) = {b}
        <4>1. b \in Int
          BY <2>3, AddressesFinite
        <4>2. \A x : x \in PagesAt(b, 1) <=> \E i \in 0..(1 - 1) : x = b + 4 * i
          BY <4>1, PagesAtAre
        <4> QED  BY <4>1, <4>2
      <3>3. F = F2 \cup PagesAt(b, 1) /\ F2 \cap PagesAt(b, 1) = {}
        BY <3>2, <2>3
      <3> HIDE DEF F, F2
      <3> QED  BY <3>1, <3>3, <1>3 DEF Change
    <2> QED  BY <2>7, <2>8, <1>0, <1>1, StepIs
  <1> QED  BY <1>4, <1>5

LEMMA NextStep ==
  ASSUME NEW gap \in {0, 1}, AllocatorInv(gap), [Next]_vars
  PROVE  StepOk(gap)
  <1>0. gap \in Nat
    OBVIOUS
  <1>1. CASE AddRegion
    BY <1>0, <1>1, AddRegionStep
  <1>2. CASE InitDone
    BY <1>0, <1>2, InitDoneStep
  <1>3. CASE \E n \in Counts : km_page_alloc(n)
    <2>1. PICK n \in Counts : km_page_alloc(n)
      BY <1>3
    <2> QED  BY <2>1, PageAllocStep
  <1>4. CASE FreeBlock
    BY <1>4, FreeBlockStep
  <1>5. CASE km_page_free
    BY <1>5, PageFreeStep
  <1>6. CASE km_slice_alloc
    BY <1>0, <1>6, SliceAllocStep
  <1>7. CASE CarveAndAlloc
    BY <1>7, CarveStep
  <1>8. CASE km_slice_free
    BY <1>0, <1>8, SliceFreeStep
  <1>9. CASE Halted \/ UNCHANGED vars
    BY <1>0, <1>9, StutterStep DEF Halted
  <1> QED  BY <1>1, <1>2, <1>3, <1>4, <1>5, <1>6, <1>7, <1>8, <1>9 DEF Next

-----------------------------------------------------------------------------
(* The theorems *)

\* Of the invariant, what PagesAccounted says ...
LEMMA AccountedPages ==
  ASSUME AllocatorInv(0)
  PROVE  PagesAccounted
  <1>1. PICK L, l, n : Accounted(heap, free_slices, slices, owned, carved, regions,
                                 km_initialized, L, l, n, 0)
    BY DEF AllocatorInv
  <1> SUFFICES ASSUME km_initialized PROVE PagesAccounted
    BY DEF PagesAccounted
  <1> DEFINE F == PagesIn(L, heap.pages)
             C == CarvedBlocks(carved)
             U == owned \cup C
  <1>2. /\ Heap(heap, L, 0) /\ Used(U, L, heap.pages) /\ owned \cap C = {}
        /\ Covered(F, owned, carved, regions) /\ regions = <<>>
    BY <1>1 DEF Accounted, Memory
  <1>3. FreePages = F
    <2>1. FreeOf(heap) = F
      BY <1>2, FreeOfIs
    <2> QED  BY <2>1 DEF FreePages, Listed, FreeOf
  <1>4. Walk(heap, heap.free_pages, MaxBlocks)[MaxBlocks] = NULL
    <2>1. BlockList(heap, L)
      BY <1>2, HeapList
    <2> QED  BY <2>1, WalkEnds DEF BlockWalk
  <1>5. OwnedPages = BlockPages(owned)
    BY DEF OwnedPages, BlockPages
  <1>6. BlockPages(C) = carved
    BY <1>2, CarvedPages
  <1>7. F \cap BlockPages(U) = {} /\ BlockPages(owned) \cap BlockPages(C) = {}
    <2>1. Lengths(L, heap.pages, 0) /\ owned \in SUBSET U /\ C \in SUBSET U
      BY <1>2 DEF Heap
    <2> HIDE DEF C, U
    <2> QED  BY <2>1, <1>2, UsedPages
  <1>8. BlockPages(U) = BlockPages(owned) \cup BlockPages(C)
    <2> HIDE DEF C
    <2> QED  BY DEF BlockPages
  <1>9. PICK u \in Tables : PagesOf(u) = F \cup BlockPages(owned) \cup carved \cup PagesOf(<<>>)
    BY <1>2 DEF Covered
  <1>10. PagesOf(u) = F \cup BlockPages(owned) \cup carved
    BY <1>9, NoneWaiting
  <1>11. Cardinality(F) = heap.n_pages
    BY <1>2 DEF Heap
  <1> HIDE DEF F, C, U
  <1> QED  BY <1>3, <1>4, <1>5, <1>6, <1>7, <1>8, <1>10, <1>11 DEF PagesAccounted

\* ... and what SlicesAccounted says.
LEMMA AccountedSlices ==
  ASSUME AllocatorInv(0)
  PROVE  SlicesAccounted
  <1>1. PICK L, l, n : Accounted(heap, free_slices, slices, owned, carved, regions,
                                 km_initialized, L, l, n, 0)
    BY DEF AllocatorInv
  <1>2. /\ Stack(l, n, heap.next, free_slices) /\ Stacked(l, n) \cap slices = {}
        /\ Stacked(l, n) \cup slices = SliceSet(carved)
    BY <1>1 DEF Accounted, Slicing
  <1>3. /\ Walk(heap, free_slices, MaxSlices)[MaxSlices] = NULL
        /\ Listed(free_slices, MaxSlices) = Stacked(l, n)
    BY <1>2, StackListed DEF Listed
  <1>4. SliceSet(carved) = UNION {p..(p + SZ_PAGE - 1) : p \in carved}
    BY DEF SliceSet
  <1> QED  BY <1>2, <1>3, <1>4 DEF SlicesAccounted

\* For every memory map, every cutoff and every sequence of requests, each page
\* of the map is in exactly one place, and n_pages counts the free ones: the
\* list of kernel/kmem.c, threaded through the memory it manages, is never
\* damaged by a caller, lost or made circular.
THEOREM EveryPageHasAPlace == Spec => []PagesAccounted
  <1>1. Init => AllocatorInv(0)
    <2>1. 0 \in Nat /\ \A t \in Tables : MapApart(t, 0)
      BY TablesAssumption
    <2> QED  BY <2>1, InitAccounted
  <1>2. AllocatorInv(0) /\ [Next]_vars => AllocatorInv(0)'
    BY NextStep DEF StepOk
  <1>3. AllocatorInv(0) => PagesAccounted
    BY AccountedPages
  <1> QED  BY <1>1, <1>2, <1>3, PTL DEF Spec

\* The same for slices: one that km_slice_alloc() returned is never in the list
\* of free slices, and none of a page that was carved up is lost.
THEOREM EverySliceHasAPlace == Spec => []SlicesAccounted
  <1>1. Init => AllocatorInv(0)
    <2>1. 0 \in Nat /\ \A t \in Tables : MapApart(t, 0)
      BY TablesAssumption
    <2> QED  BY <2>1, InitAccounted
  <1>2. AllocatorInv(0) /\ [Next]_vars => AllocatorInv(0)'
    BY NextStep DEF StepOk
  <1>3. AllocatorInv(0) => SlicesAccounted
    BY AccountedSlices
  <1> QED  BY <1>1, <1>2, <1>3, PTL DEF Spec

\* A memory map in which no usable part begins where another ends.
TablesApart == \A t \in Tables : MapApart(t, 1)

LEMMA RunIs ==
  ASSUME NEW b, NEW n
  PROVE  Abstract!Run(b, n) = PagesAt(b, n)
  BY DEF Abstract!Run, PagesAt, P2B

LEMMA ChangeIsSpec ==
  ASSUME AllocatorInv(1), StepOk(1)
  PROVE  Abstract!SpecNext \/ UNCHANGED Abstract!specVars
  <1> DEFINE F == FreeOf(heap)
             F2 == FreeOf(heap')
  <1>1. FreePages = F /\ FreePages' = F2
    BY DEF FreePages, Listed, FreeOf
  <1>2. F \subseteq Int
    <2>1. PICK L, l, n : Accounted(heap, free_slices, slices, owned, carved, regions,
                                   km_initialized, L, l, n, 1)
      BY DEF AllocatorInv
    <2>2. Heap(heap, L, 1) /\ Lengths(L, heap.pages, 1)
      BY <2>1 DEF Accounted, Memory, Heap
    <2>3. F = PagesIn(L, heap.pages)
      BY <2>2, FreeOfIs
    <2>4. PagesIn(L, heap.pages) \subseteq Addresses
      BY <2>2, PagesInFinite
    <2> QED  BY <2>3, <2>4, AddressesFinite
  <1>3. Change(F, F2, result, result', 1)
    BY DEF StepOk
  <1> HIDE DEF F, F2
  <1>4. CASE F2 = F /\ result' = result
    BY <1>1, <1>4 DEF Abstract!specVars
  <1>5. CASE /\ result' = result
             /\ \E b \in Addresses, n \in Nat :
                  n >= 1 /\ F2 = F \cup PagesAt(b, n) /\ F \cap PagesAt(b, n) = {}
    <2>1. PICK b \in Addresses, n \in Nat :
            n >= 1 /\ F2 = F \cup PagesAt(b, n) /\ F \cap PagesAt(b, n) = {}
      BY <1>5
    <2>2. b \in Int /\ n \in Int
      BY AddressesFinite
    <2> DEFINE last == b + 4 * (n - 1)
    <2>3. b \in PagesAt(b, n) /\ last \in PagesAt(b, n)
      <3>1. \A x : x \in PagesAt(b, n) <=> \E i \in 0..(n - 1) : x = b + 4 * i
        BY <2>2, PagesAtAre
      <3>2. 0 \in 0..(n - 1) /\ b = b + 4 * 0 /\ n - 1 \in 0..(n - 1)
        BY <2>1, <2>2
      <3> QED  BY <3>1, <3>2
    <2>4. (last - b) \div SZ_PAGE + 1 = n
      <3>1. last - b = 4 * (n - 1) /\ (4 * (n - 1)) \div 4 = n - 1
        BY <2>2
      <3> QED  BY <3>1, <2>2 DEF SZ_PAGE
    <2> HIDE DEF last
    <2>5. F2 \ F = PagesAt(b, n) /\ F \subseteq F2
      BY <2>1
    <2>6. F2 \ F = Abstract!Run(b, (last - b) \div SZ_PAGE + 1) /\ b \in F2 \ F /\ last \in F2 \ F
      BY <2>3, <2>4, <2>5, RunIs
    <2>7. Abstract!SpecAdd
      BY <2>5, <2>6, <1>1, <1>5 DEF Abstract!SpecAdd
    <2> QED  BY <2>7 DEF Abstract!SpecNext
  <1>6. CASE \E n \in Counts \cup {1} :
               F = F2 \cup PagesAt(result', n) /\ F2 \cap PagesAt(result', n) = {}
    <2>1. PICK n \in Counts \cup {1} :
            F = F2 \cup PagesAt(result', n) /\ F2 \cap PagesAt(result', n) = {}
      BY <1>6
    <2>2. F \ F2 = Abstract!Run(result', n) /\ F2 \subseteq F
      BY <2>1, RunIs
    <2>3. Abstract!SpecAlloc(n)
      BY <2>2, <1>1 DEF Abstract!SpecAlloc
    <2> QED  BY <2>3 DEF Abstract!SpecNext
  <1>7. CASE /\ result' = NULL /\ F2 = F
             /\ \E n \in Counts \cup {1} : \A b \in Int : ~(PagesAt(b, n) \subseteq F)
    <2>1. PICK n \in Counts \cup {1} : \A b \in Int : ~(PagesAt(b, n) \subseteq F)
      BY <1>7
    <2>2. \A b \in F : ~(Abstract!Run(b, n) \subseteq F)
      BY <2>1, <1>2, RunIs
    <2>3. Abstract!SpecAlloc(n)
      BY <2>2, <1>1, <1>7 DEF Abstract!SpecAlloc
    <2> QED  BY <2>3 DEF Abstract!SpecNext
  <1> QED  BY <1>3, <1>4, <1>5, <1>6, <1>7 DEF Change

\* If the parts of the memory map are apart, the allocator implements a set of
\* pages: km_page_alloc() finds contiguous pages whenever there are some, so
\* km_page_free_multi() always merges what it can.
THEOREM AllocatorImplementsPages == Spec /\ TablesApart => ImplementsPageSpec
  <1>1. Init /\ TablesApart => AllocatorInv(1) /\ Abstract!SpecInit
    <2> SUFFICES ASSUME Init, TablesApart PROVE AllocatorInv(1) /\ Abstract!SpecInit
      OBVIOUS
    <2>1. 1 \in Nat /\ \A t \in Tables : MapApart(t, 1)
      BY DEF TablesApart
    <2>2. AllocatorInv(1) /\ FreeOf(heap) = {}
      BY <2>1, InitAccounted
    <2>3. FreePages = {} /\ result = NULL
      BY <2>2 DEF FreePages, Listed, FreeOf, Init
    <2> QED  BY <2>2, <2>3 DEF Abstract!SpecInit
  <1>2. AllocatorInv(1) /\ [Next]_vars => AllocatorInv(1)' /\ [Abstract!SpecNext]_(Abstract!specVars)
    <2> SUFFICES ASSUME AllocatorInv(1), [Next]_vars
                 PROVE  AllocatorInv(1)' /\ (Abstract!SpecNext \/ UNCHANGED Abstract!specVars)
      OBVIOUS
    <2>1. StepOk(1)
      BY NextStep
    <2> QED  BY <2>1, ChangeIsSpec DEF StepOk
  <1> QED  BY <1>1, <1>2, PTL DEF Spec, ImplementsPageSpec, Abstract!PageSpec
=============================================================================
