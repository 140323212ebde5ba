---------------------------- MODULE QueuesProofs ----------------------------
(***************************************************************************)
(* Proofs about Queues: the linked lists of qnodes, for any number of      *)
(* queues, of qnodes in a page and of pages.                               *)
(*                                                                         *)
(* The inductive invariant says that there are lists: for every queue, and *)
(* for the free list, the nodes that a walk along the links meets, and     *)
(* how many they are.  Every operation is one insertion into one of the    *)
(* lists, or one removal from it, or both.                                 *)
(***************************************************************************)
EXTENDS Queues, FiniteSetTheorems, TLAPS

-----------------------------------------------------------------------------
(* Walks *)

\* The number of qnodes.
Total == QNODES_PER_PAGE * MaxPages

LEMMA NodesFinite ==
  /\ Total \in Nat /\ Total >= 1 /\ Nodes = 1..Total
  /\ IsFiniteSet(Nodes) /\ Cardinality(Nodes) = Total
  <1>1. Total \in Nat /\ Total >= 1 /\ Nodes = 1..Total
    BY QueuesAssumption DEF Total, Nodes
  <1> QED  BY <1>1, FS_Interval

\* A non-empty set of numbers has a least one.
LEMMA Least ==
  ASSUME NEW T, T \subseteq Nat, T # {}
  PROVE  \E x \in T : \A y \in T : x <= y
  <1>1. PICK x \in T : \A y \in T : ~ (<<y, x>> \in OpToRel(<, Nat))
    BY NatLessThanWellFounded, WFMin, Zenon
  <1>2. \A y \in T : ~(y < x)
    BY <1>1 DEF OpToRel
  <1> QED  BY <1>2

\* One step of a walk.
Follow == [m \in Nodes \cup {NULL} |-> IF m = NULL THEN NULL ELSE next[m]]

\* w is what Walk(from) is said to be.
Steps(w, from) == [n \in 0..Total |-> IF n = 0 THEN from ELSE Follow[w[n - 1]]]
IsWalk(w, from) == w = Steps(w, from)

\* The list l of n nodes, from its first one, as the links have it.
Chain(l, n, from, links) ==
  /\ l \in [Nat -> Nodes \cup {NULL}] /\ n \in Nat
  /\ l[0] = from
  /\ \A i \in Nat : l[i] = NULL <=> i >= n
  /\ \A i \in Nat : i < n => links[l[i]] = l[i + 1]

LEMMA StepsAre ==
  ASSUME NEW w, NEW from
  PROVE  /\ DOMAIN Steps(w, from) = 0..Total
         /\ Steps(w, from)[0] = from
         /\ \A i \in 0..Total : i # 0 => Steps(w, from)[i] = Follow[w[i - 1]]
  BY NodesFinite DEF Steps

LEMMA OneWalk ==
  ASSUME NEW from, NEW l, NEW n, Chain(l, n, from, next), NEW w, IsWalk(w, from)
  PROVE  \A i \in 0..Total : w[i] = l[i]
  <1> DEFINE T == {i \in 0..Total : w[i] # l[i]}
  <1>1. SUFFICES ASSUME T # {} PROVE FALSE
    BY <1>1
  <1>2. T \subseteq Nat
    BY NodesFinite
  <1>3. PICK x \in T : \A y \in T : x <= y
    BY <1>1, <1>2, Least
  <1>4. x \in 0..Total /\ w[x] # l[x]
    BY <1>3
  <1>5. w[0] = from /\ \A i \in 0..Total : i # 0 => w[i] = Follow[w[i - 1]]
    BY StepsAre DEF IsWalk
  <1>6. x # 0 /\ x - 1 \in 0..Total /\ x - 1 \in Nat
    BY <1>4, <1>5, NodesFinite DEF Chain
  <1>7. w[x - 1] = l[x - 1]
    BY <1>3, <1>6, <1>4
  <1>8. l[x - 1] \in Nodes \cup {NULL} /\ l[x] = IF l[x - 1] = NULL THEN NULL ELSE next[l[x - 1]]
    <2>1. (x - 1) + 1 = x /\ x \in Nat
      BY <1>6, <1>4, NodesFinite
    <2>2. /\ l[x - 1] = NULL <=> x - 1 >= n
          /\ l[x] = NULL <=> x >= n
          /\ x - 1 < n => next[l[x - 1]] = l[x]
      BY <2>1, <1>6 DEF Chain
    <2>3. l[x - 1] \in Nodes \cup {NULL} /\ n \in Nat
      BY <1>6 DEF Chain
    <2> QED  BY <2>1, <2>2, <2>3, <1>6
  <1>9. w[x] = l[x]
    BY <1>5, <1>6, <1>7, <1>8, <1>4 DEF Follow
  <1> QED  BY <1>9, <1>4

\* Walk() follows the chain.
LEMMA WalkIs ==
  ASSUME NEW from, NEW l, NEW n, Chain(l, n, from, next)
  PROVE  /\ DOMAIN Walk(from) = 0..Total
         /\ \A i \in 0..Total : Walk(from)[i] = l[i]
  <1> DEFINE w == [i \in 0..Total |-> l[i]]
  <1>1. IsWalk(w, from)
    <2>1. ASSUME NEW i \in 0..Total
          PROVE  w[i] = IF i = 0 THEN from ELSE Follow[w[i - 1]]
      <3>1. CASE i = 0
        BY <3>1, NodesFinite DEF Chain
      <3>2. CASE i # 0
        <4>1. i - 1 \in Nat /\ i - 1 \in 0..Total /\ i \in Nat /\ (i - 1) + 1 = i
          BY <3>2, NodesFinite
        <4>2. /\ l[i - 1] = NULL <=> i - 1 >= n
              /\ l[i] = NULL <=> i >= n
              /\ i - 1 < n => next[l[i - 1]] = l[i]
              /\ l[i - 1] \in Nodes \cup {NULL} /\ n \in Nat
          BY <4>1 DEF Chain
        <4>3. l[i] = Follow[l[i - 1]]
          BY <4>1, <4>2 DEF Follow
        <4> QED  BY <4>1, <4>3, <3>2
      <3> QED  BY <3>1, <3>2
    <2> QED  BY <2>1 DEF IsWalk, Steps
  <1>2. IsWalk(Walk(from), from)
    BY <1>1, NodesFinite, Zenon DEF IsWalk, Steps, Walk, Follow
  <1> HIDE DEF w
  <1>3. DOMAIN Walk(from) = 0..Total
    <2>1. \A v : IsWalk(v, from) => DOMAIN v = 0..Total
      BY StepsAre DEF IsWalk
    <2> QED  BY <1>2, <2>1
  <1>4. \A v : IsWalk(v, from) => \A i \in 0..Total : v[i] = l[i]
    BY OneWalk
  <1> QED  BY <1>2, <1>3, <1>4, Zenon

-----------------------------------------------------------------------------
(* Lists *)

\* The free list is one more list.
FREE == -1
Places == Queues \cup {FREE}

\* The lists l, of n[a] nodes each, are those that start at first[a]; no node
\* is in two places, and those beyond top are in none.
Apart(l, n) ==
  \A a, b \in Places : \A i, j \in Nat :
    i < n[a] /\ j < n[b] /\ l[a][i] = l[b][j] => a = b /\ i = j
Absent(l, n, x) == \A a \in Places : \A i \in Nat : i < n[a] => l[a][i] # x
Lists(l, n, first, links, top) ==
  /\ l \in [Places -> [Nat -> Nodes \cup {NULL}]] /\ n \in [Places -> Nat]
  /\ \A a \in Places : Chain(l[a], n[a], first[a], links)
  /\ Apart(l, n)
  /\ \A a \in Places : \A i \in Nat : i < n[a] => l[a][i] <= top

\* The list number a without its entry k, and with an entry x before that one.
Drop(s, k) == [i \in Nat |-> IF i < k THEN s[i] ELSE s[i + 1]]
Put(s, k, x) ==
  [i \in Nat |-> IF i < k THEN s[i] ELSE IF i = k THEN x ELSE s[i - 1]]

\* Where a node that is unlinked was linked to, and who links to a new node.
Bypass(s, k, links, new) ==
  \A m \in Nodes : m # s[k] =>
    new[m] = IF k > 0 /\ m = s[k - 1] THEN links[s[k]] ELSE links[m]
Splice(s, k, x, links, new) ==
  \A m \in Nodes :
    new[m] = IF m = x THEN s[k] ELSE IF k > 0 /\ m = s[k - 1] THEN x ELSE links[m]

\* All lists, when that is done to the list a.
Without(l, a, k) == [l EXCEPT ![a] = Drop(l[a], k)]
With(l, a, k, x) == [l EXCEPT ![a] = Put(l[a], k, x)]
Plus(n, a, i) == [n EXCEPT ![a] = n[a] + i]

\* The list a may begin with y now.
Rebased(begin, first, a, k, y) ==
  \A b \in Places : begin[b] = IF b = a /\ k = 0 THEN y ELSE first[b]

LEMMA NullIsNoNode == NULL \notin Nodes /\ NULL = 0
  BY NodesFinite DEF NULL

LEMMA ChainDropped ==
  ASSUME NEW s, NEW n, NEW from, NEW links, Chain(s, n, from, links),
         NEW k \in Nat, k < n, NEW new, Bypass(s, k, links, new),
         \A i, j \in Nat : i < n /\ j < n /\ s[i] = s[j] => i = j
  PROVE  Chain(Drop(s, k), n - 1, IF k = 0 THEN links[s[k]] ELSE from, new)
  <1> DEFINE r == Drop(s, k)
  <1>1. /\ n \in Nat /\ n - 1 \in Nat
        /\ s \in [Nat -> Nodes \cup {NULL}] /\ s[0] = from
        /\ \A i \in Nat : s[i] = NULL <=> i >= n
        /\ \A i \in Nat : i < n => links[s[i]] = s[i + 1]
    BY DEF Chain
  <1>2. /\ r \in [Nat -> Nodes \cup {NULL}]
        /\ \A i \in Nat : r[i] = IF i < k THEN s[i] ELSE s[i + 1]
    BY <1>1 DEF Drop
  <1>3. \A i \in Nat : i < n => s[i] \in Nodes
    BY <1>1
  <1> HIDE DEF r
  <1>4. r[0] = IF k = 0 THEN links[s[k]] ELSE from
    BY <1>1, <1>2
  <1>5. \A i \in Nat : r[i] = NULL <=> i >= n - 1
    BY <1>1, <1>2
  <1>6. ASSUME NEW i \in Nat, i < n - 1
        PROVE  new[r[i]] = r[i + 1]
    <2>1. CASE i < k
      <3>1. s[i] \in Nodes /\ i < n /\ s[i] # s[k] /\ r[i] = s[i]
        BY <2>1, <1>1, <1>2, <1>3
      <3>2. CASE i + 1 = k
        <4>1. i = k - 1 /\ k > 0
          BY <3>2
        <4>2. new[s[i]] = links[s[k]]
          BY <3>1, <4>1 DEF Bypass
        <4> QED  BY <4>2, <3>1, <3>2, <1>1, <1>2
      <3>3. CASE i + 1 < k
        <4>1. k - 1 \in Nat /\ k - 1 < n /\ k - 1 # i
          BY <3>3, <1>1
        <4>2. s[i] # s[k - 1]
          BY <4>1, <3>1
        <4>3. new[s[i]] = links[s[i]]
          BY <3>1, <4>2 DEF Bypass
        <4> QED  BY <4>3, <3>1, <3>3, <1>1, <1>2
      <3> QED  BY <2>1, <3>2, <3>3
    <2>2. CASE i >= k
      <3>1. s[i + 1] \in Nodes /\ i + 1 \in Nat /\ i + 1 < n /\ s[i + 1] # s[k] /\ r[i] = s[i + 1]
        BY <2>2, <1>6, <1>1, <1>2, <1>3
      <3>2. k > 0 => s[i + 1] # s[k - 1]
        <4>1. SUFFICES ASSUME k > 0 PROVE s[i + 1] # s[k - 1]
          OBVIOUS
        <4>2. k - 1 \in Nat /\ k - 1 < n /\ k - 1 # i + 1
          BY <4>1, <2>2, <1>1
        <4> QED  BY <4>2, <3>1
      <3>3. new[s[i + 1]] = links[s[i + 1]]
        BY <3>1, <3>2 DEF Bypass
      <3>4. links[s[i + 1]] = s[(i + 1) + 1] /\ r[i + 1] = s[(i + 1) + 1]
        BY <3>1, <1>1, <1>2, <2>2
      <3> QED  BY <3>1, <3>3, <3>4
    <2> QED  BY <2>1, <2>2
  <1> QED  BY <1>1, <1>2, <1>4, <1>5, <1>6 DEF Chain, r

LEMMA ChainPut ==
  ASSUME NEW s, NEW n, NEW from, NEW links, Chain(s, n, from, links),
         NEW k \in 0..n, NEW x \in Nodes, NEW new, Splice(s, k, x, links, new),
         \A i, j \in Nat : i < n /\ j < n /\ s[i] = s[j] => i = j,
         \A i \in Nat : i < n => s[i] # x
  PROVE  Chain(Put(s, k, x), n + 1, IF k = 0 THEN x ELSE from, new)
  <1> DEFINE r == Put(s, k, x)
  <1>1. /\ n \in Nat /\ k \in Nat /\ k <= n
        /\ s \in [Nat -> Nodes \cup {NULL}] /\ s[0] = from
        /\ \A i \in Nat : s[i] = NULL <=> i >= n
        /\ \A i \in Nat : i < n => links[s[i]] = s[i + 1]
    BY DEF Chain
  <1>2. /\ r \in [Nat -> Nodes \cup {NULL}]
        /\ \A i \in Nat : r[i] = IF i < k THEN s[i] ELSE IF i = k THEN x ELSE s[i - 1]
    BY <1>1 DEF Put
  <1>3. \A i \in Nat : i < n => s[i] \in Nodes
    BY <1>1
  <1> HIDE DEF r
  <1>4. r[0] = IF k = 0 THEN x ELSE from
    BY <1>1, <1>2
  <1>5. ASSUME NEW i \in Nat
        PROVE  r[i] = NULL <=> i >= n + 1
    <2>1. CASE i < k
      BY <2>1, <1>1, <1>2
    <2>2. CASE i = k
      BY <2>2, <1>1, <1>2, NullIsNoNode
    <2>3. CASE i > k
      <3>1. i - 1 \in Nat /\ r[i] = s[i - 1]
        BY <2>3, <1>1, <1>2
      <3> QED  BY <3>1, <1>1
    <2> QED  BY <2>1, <2>2, <2>3, <1>1
  <1>6. ASSUME NEW i \in Nat, i < n + 1
        PROVE  new[r[i]] = r[i + 1]
    <2>1. CASE i < k
      <3>1. s[i] \in Nodes /\ i < n /\ s[i] # x /\ r[i] = s[i]
        BY <2>1, <1>1, <1>2, <1>3
      <3>2. CASE i + 1 = k
        <4>1. i = k - 1 /\ k > 0
          BY <3>2
        <4>2. new[s[i]] = x
          BY <3>1, <4>1 DEF Splice
        <4> QED  BY <4>2, <3>1, <3>2, <1>1, <1>2
      <3>3. CASE i + 1 < k
        <4>1. k - 1 \in Nat /\ k - 1 < n /\ k - 1 # i
          BY <3>3, <1>1
        <4>2. s[i] # s[k - 1]
          BY <4>1, <3>1
        <4>3. new[s[i]] = links[s[i]]
          BY <3>1, <4>2 DEF Splice
        <4> QED  BY <4>3, <3>1, <3>3, <1>1, <1>2
      <3> QED  BY <2>1, <3>2, <3>3, <1>1
    <2>2. CASE i = k
      <3>1. r[i] = x /\ r[i + 1] = s[k]
        <4>1. (i + 1) - 1 = k /\ i + 1 > k /\ i + 1 \in Nat
          BY <2>2
        <4> QED  BY <4>1, <2>2, <1>1, <1>2
      <3> QED  BY <3>1 DEF Splice
    <2>3. CASE i > k
      <3>1. /\ i - 1 \in Nat /\ i - 1 < n /\ r[i] = s[i - 1] /\ s[i - 1] \in Nodes
            /\ s[i - 1] # x
        BY <2>3, <1>1, <1>2, <1>3, <1>6
      <3>2. k > 0 => s[i - 1] # s[k - 1]
        <4>1. SUFFICES ASSUME k > 0 PROVE s[i - 1] # s[k - 1]
          OBVIOUS
        <4>2. k - 1 \in Nat /\ k - 1 < n /\ k - 1 # i - 1
          BY <4>1, <2>3, <1>1
        <4> QED  BY <4>2, <3>1
      <3>3. new[s[i - 1]] = links[s[i - 1]]
        BY <3>1, <3>2 DEF Splice
      <3>4. (i - 1) + 1 = i /\ (i + 1) - 1 = i /\ i + 1 > k /\ i + 1 \in Nat
        BY <2>3, <1>1
      <3>5. links[s[i - 1]] = s[i] /\ r[i + 1] = s[i]
        BY <3>1, <3>4, <1>1, <1>2
      <3> QED  BY <3>1, <3>3, <3>5
    <2> QED  BY <2>1, <2>2, <2>3, <1>1
  <1> QED  BY <1>1, <1>2, <1>4, <1>5, <1>6 DEF Chain, r

\* A chain is left alone by changes to nodes that are not in it.
LEMMA ChainKept ==
  ASSUME NEW s, NEW n, NEW from, NEW links, Chain(s, n, from, links), NEW new,
         \A i \in Nat : i < n => new[s[i]] = links[s[i]]
  PROVE  Chain(s, n, from, new)
  BY DEF Chain

\* The entry k of the list a is unlinked: it is in no list then.
LEMMA ListDropped ==
  ASSUME NEW l, NEW n, NEW first, NEW links, NEW top, Lists(l, n, first, links, top),
         NEW a \in Places, NEW k \in Nat, k < n[a],
         NEW new, Bypass(l[a], k, links, new),
         NEW begin,
         Rebased(begin, first, a, k, links[l[a][k]]), NEW x, x = l[a][k]
  PROVE  /\ Lists(Without(l, a, k), Plus(n, a, -1), begin, new, top)
         /\ Absent(Without(l, a, k), Plus(n, a, -1), x)
         /\ x \in Nodes /\ x <= top
  <1> DEFINE after == Without(l, a, k)
             left  == Plus(n, a, -1)
  <1>1. /\ l \in [Places -> [Nat -> Nodes \cup {NULL}]] /\ n \in [Places -> Nat]
        /\ \A b \in Places : Chain(l[b], n[b], first[b], links)
        /\ Apart(l, n)
        /\ \A b \in Places : \A i \in Nat : i < n[b] => l[b][i] <= top
    BY DEF Lists
  <1>A. Apart(l, n)
    BY <1>1
  <1>2. /\ after[a] = Drop(l[a], k) /\ left[a] = n[a] - 1
        /\ \A b \in Places : b # a => after[b] = l[b] /\ left[b] = n[b]
        /\ DOMAIN after = Places /\ DOMAIN left = Places
        /\ after = [b \in Places |-> after[b]] /\ left = [b \in Places |-> left[b]]
    <2>1. n[a] + (-1) = n[a] - 1
      BY <1>1
    <2> QED  BY <1>1, <2>1 DEF Without, Plus
  <1> HIDE DEF after, left
  <1>3. n[a] \in Nat /\ left[a] \in Nat
    BY <1>1, <1>2
  <1>4. \A b \in Places : \A i \in Nat : i < n[b] => l[b][i] \in Nodes
    BY <1>1 DEF Chain
  \* Where the entries of the new lists come from.
  <1>5. ASSUME NEW b \in Places, NEW i \in Nat, i < left[b]
        PROVE  \E j \in Nat : /\ j < n[b] /\ after[b][i] = l[b][j]
                              /\ j = IF b = a /\ i >= k THEN i + 1 ELSE i
    BY <1>1, <1>2, <1>3, <1>5 DEF Drop
  <1>6. Apart(after, left)
    <2> SUFFICES ASSUME NEW b \in Places, NEW c \in Places, NEW i \in Nat, NEW j \in Nat,
                        i < left[b], j < left[c], after[b][i] = after[c][j]
                 PROVE  b = c /\ i = j
      BY DEF Apart
    <2>1. PICK u \in Nat : /\ u < n[b] /\ after[b][i] = l[b][u]
                           /\ u = IF b = a /\ i >= k THEN i + 1 ELSE i
      BY <1>5
    <2>2. PICK v \in Nat : /\ v < n[c] /\ after[c][j] = l[c][v]
                           /\ v = IF c = a /\ j >= k THEN j + 1 ELSE j
      BY <1>5
    <2>3. b = c /\ u = v
      <3>1. l[b][u] = l[c][v] /\ u < n[b] /\ v < n[c]
        BY <2>1, <2>2
      <3> QED  BY <3>1, <1>A DEF Apart
    <2> QED  BY <2>1, <2>2, <2>3
  <1>7. Absent(after, left, x)
    <2> SUFFICES ASSUME NEW b \in Places, NEW i \in Nat, i < left[b], after[b][i] = x
                 PROVE  FALSE
      BY DEF Absent
    <2>1. PICK u \in Nat : /\ u < n[b] /\ after[b][i] = l[b][u]
                           /\ u = IF b = a /\ i >= k THEN i + 1 ELSE i
      BY <1>5
    <2>2. b = a /\ u = k
      <3>1. l[b][u] = l[a][k] /\ u < n[b]
        BY <2>1
      <3> QED  BY <3>1, <1>A DEF Apart
    <2> QED  BY <2>1, <2>2
  <1>8. \A b \in Places : \A i \in Nat : i < left[b] => after[b][i] <= top
    BY <1>5, <1>1
  <1>9. ASSUME NEW b \in Places
        PROVE  Chain(after[b], left[b], begin[b], new)
    <2>1. Chain(l[b], n[b], first[b], links)
      BY <1>1
    <2>2. CASE b = a
      <3>1. \A i, j \in Nat : i < n[a] /\ j < n[a] /\ l[a][i] = l[a][j] => i = j
        BY <1>1 DEF Apart
      <3>2. Chain(Drop(l[a], k), n[a] - 1, IF k = 0 THEN links[l[a][k]] ELSE first[a], new)
        BY <2>1, <2>2, <3>1, ChainDropped
      <3> QED  BY <3>2, <2>2, <1>2 DEF Rebased
    <2>3. CASE b # a
      <3>1. ASSUME NEW i \in Nat, i < n[b]
            PROVE  new[l[b][i]] = links[l[b][i]]
        <4>1. l[b][i] \in Nodes /\ l[b][i] # l[a][k]
          BY <3>1, <2>3, <1>1, <1>4 DEF Apart
        <4>2. k > 0 => l[b][i] # l[a][k - 1]
          <5>1. SUFFICES ASSUME k > 0 PROVE l[b][i] # l[a][k - 1]
            OBVIOUS
          <5>2. k - 1 \in Nat /\ k - 1 < n[a]
            BY <5>1, <1>3
          <5> QED  BY <5>2, <3>1, <2>3, <1>1 DEF Apart
        <4> QED  BY <4>1, <4>2 DEF Bypass
      <3>2. Chain(l[b], n[b], first[b], new)
        BY <2>1, <3>1, ChainKept
      <3> QED  BY <3>2, <2>3, <1>2 DEF Rebased
    <2> QED  BY <2>2, <2>3
  <1>10. /\ after \in [Places -> [Nat -> Nodes \cup {NULL}]] /\ left \in [Places -> Nat]
    <2>1. \A b \in Places : after[b] \in [Nat -> Nodes \cup {NULL}] /\ left[b] \in Nat
      BY <1>9 DEF Chain
    <2> QED  BY <2>1, <1>2
  <1>11. Lists(after, left, begin, new, top)
    BY <1>6, <1>8, <1>9, <1>10 DEF Lists
  <1>12. x \in Nodes /\ x <= top
    BY <1>1, <1>4
  <1> QED  BY <1>11, <1>12, <1>7 DEF after, left

\* A node that is in no list becomes the entry k of the list a.
LEMMA ListPut ==
  ASSUME NEW l, NEW n, NEW first, NEW links, NEW top, Lists(l, n, first, links, top),
         NEW a \in Places, NEW k \in 0..n[a],
         NEW x \in Nodes, x <= top, Absent(l, n, x),
         NEW new, Splice(l[a], k, x, links, new),
         NEW begin,
         Rebased(begin, first, a, k, x)
  PROVE  Lists(With(l, a, k, x), Plus(n, a, 1), begin, new, top)
  <1> DEFINE after == With(l, a, k, x)
             more  == Plus(n, a, 1)
  <1>1. /\ l \in [Places -> [Nat -> Nodes \cup {NULL}]] /\ n \in [Places -> Nat]
        /\ \A b \in Places : Chain(l[b], n[b], first[b], links)
        /\ Apart(l, n)
        /\ \A b \in Places : \A i \in Nat : i < n[b] => l[b][i] <= top
    BY DEF Lists
  <1>A. Apart(l, n)
    BY <1>1
  <1>2. /\ after[a] = Put(l[a], k, x) /\ more[a] = n[a] + 1
        /\ \A b \in Places : b # a => after[b] = l[b] /\ more[b] = n[b]
        /\ DOMAIN after = Places /\ DOMAIN more = Places
        /\ after = [b \in Places |-> after[b]] /\ more = [b \in Places |-> more[b]]
    BY <1>1 DEF With, Plus
  <1> HIDE DEF after, more
  <1>3. n[a] \in Nat /\ more[a] \in Nat /\ k \in Nat /\ k <= n[a]
    BY <1>1, <1>2
  <1>4. \A b \in Places : \A i \in Nat : i < n[b] => l[b][i] \in Nodes
    BY <1>1 DEF Chain
  <1>5. ASSUME NEW b \in Places, NEW i \in Nat, i < more[b]
        PROVE  \/ b = a /\ i = k /\ after[b][i] = x
               \/ /\ b # a \/ i # k
                  /\ \E j \in Nat : /\ j < n[b] /\ after[b][i] = l[b][j]
                                    /\ j = IF b = a /\ i > k THEN i - 1 ELSE i
    <2>1. CASE b = a /\ i > k
      <3>1. i - 1 \in Nat /\ i - 1 < n[a] /\ after[a][i] = l[a][i - 1]
        BY <2>1, <1>2, <1>3, <1>5 DEF Put
      <3> QED  BY <3>1, <2>1, <1>3
    <2>2. CASE ~(b = a /\ i > k)
      BY <2>2, <1>1, <1>2, <1>3, <1>5 DEF Put
    <2> QED  BY <2>1, <2>2
  <1>6. Apart(after, more)
    <2> SUFFICES ASSUME NEW b \in Places, NEW c \in Places, NEW i \in Nat, NEW j \in Nat,
                        i < more[b], j < more[c], after[b][i] = after[c][j]
                 PROVE  b = c /\ i = j
      BY DEF Apart
    <2>1. \/ b = a /\ i = k /\ after[b][i] = x
          \/ /\ b # a \/ i # k
             /\ \E u \in Nat : /\ u < n[b] /\ after[b][i] = l[b][u]
                               /\ u = IF b = a /\ i > k THEN i - 1 ELSE i
      BY <1>5
    <2>2. \/ c = a /\ j = k /\ after[c][j] = x
          \/ /\ c # a \/ j # k
             /\ \E v \in Nat : /\ v < n[c] /\ after[c][j] = l[c][v]
                               /\ v = IF c = a /\ j > k THEN j - 1 ELSE j
      BY <1>5
    <2>3. CASE after[b][i] = x
      BY <2>1, <2>2, <2>3 DEF Absent
    <2>4. CASE after[b][i] # x
      <3>1. PICK u \in Nat : /\ u < n[b] /\ after[b][i] = l[b][u]
                             /\ u = IF b = a /\ i > k THEN i - 1 ELSE i
        BY <2>1, <2>4
      <3>2. PICK v \in Nat : /\ v < n[c] /\ after[c][j] = l[c][v]
                             /\ v = IF c = a /\ j > k THEN j - 1 ELSE j
        BY <2>2, <2>4
      <3>3. b = c /\ u = v
        <4>1. l[b][u] = l[c][v] /\ u < n[b] /\ v < n[c]
          BY <3>1, <3>2
        <4> QED  BY <4>1, <1>A DEF Apart
      <3>4. (b # a \/ i # k) /\ (c # a \/ j # k)
        BY <2>1, <2>2, <2>4
      <3> QED  BY <3>1, <3>2, <3>3, <3>4, <1>3
    <2> QED  BY <2>3, <2>4
  <1>8. \A b \in Places : \A i \in Nat : i < more[b] => after[b][i] <= top
    BY <1>5, <1>1
  <1>9. ASSUME NEW b \in Places
        PROVE  Chain(after[b], more[b], begin[b], new)
    <2>1. Chain(l[b], n[b], first[b], links)
      BY <1>1
    <2>2. CASE b = a
      <3>1. /\ \A i, j \in Nat : i < n[a] /\ j < n[a] /\ l[a][i] = l[a][j] => i = j
            /\ \A i \in Nat : i < n[a] => l[a][i] # x
        BY <1>1 DEF Apart, Absent
      <3>2. Chain(Put(l[a], k, x), n[a] + 1, IF k = 0 THEN x ELSE first[a], new)
        BY <2>1, <2>2, <3>1, ChainPut
      <3> QED  BY <3>2, <2>2, <1>2 DEF Rebased
    <2>3. CASE b # a
      <3>1. ASSUME NEW i \in Nat, i < n[b]
            PROVE  new[l[b][i]] = links[l[b][i]]
        <4>1. l[b][i] \in Nodes /\ l[b][i] # x
          BY <3>1, <1>4 DEF Absent
        <4>2. k > 0 => l[b][i] # l[a][k - 1]
          <5>1. SUFFICES ASSUME k > 0 PROVE l[b][i] # l[a][k - 1]
            OBVIOUS
          <5>2. k - 1 \in Nat /\ k - 1 < n[a]
            BY <5>1, <1>3
          <5> QED  BY <5>2, <3>1, <2>3, <1>1 DEF Apart
        <4> QED  BY <4>1, <4>2 DEF Splice
      <3>2. Chain(l[b], n[b], first[b], new)
        BY <2>1, <3>1, ChainKept
      <3> QED  BY <3>2, <2>3, <1>2 DEF Rebased
    <2> QED  BY <2>2, <2>3
  <1>10. /\ after \in [Places -> [Nat -> Nodes \cup {NULL}]] /\ more \in [Places -> Nat]
    <2>1. \A b \in Places : after[b] \in [Nat -> Nodes \cup {NULL}] /\ more[b] \in Nat
      BY <1>9 DEF Chain
    <2> QED  BY <2>1, <1>2
  <1>11. Lists(after, more, begin, new, top)
    BY <1>6, <1>8, <1>9, <1>10 DEF Lists
  <1> QED  BY <1>11 DEF after, more

\* There are at most as many entries in a list as there are nodes.
LEMMA ListBounded ==
  ASSUME NEW l, NEW n, NEW first, NEW links, NEW top, Lists(l, n, first, links, top),
         NEW a \in Places
  PROVE  n[a] \in 0..Total
  <1>1. n[a] \in Nat /\ Chain(l[a], n[a], first[a], links) /\ Apart(l, n)
    BY DEF Lists
  <1> DEFINE f == [i \in 1..n[a] |-> l[a][i - 1]]
  <1>2. ASSUME NEW i \in 1..n[a]
        PROVE  i - 1 \in Nat /\ i - 1 < n[a] /\ f[i] = l[a][i - 1] /\ f[i] \in Nodes
    <2>1. i - 1 \in Nat /\ i - 1 < n[a] /\ f[i] = l[a][i - 1]
      BY <1>1
    <2>2. l[a][i - 1] \in Nodes
      BY <2>1, <1>1 DEF Chain
    <2> QED  BY <2>1, <2>2
  <1>3. f \in [1..n[a] -> Nodes]
    BY <1>2
  <1>4. ASSUME NEW i \in 1..n[a], NEW j \in 1..n[a], f[i] = f[j]
        PROVE  i = j
    <2>1. /\ i - 1 \in Nat /\ i - 1 < n[a] /\ j - 1 \in Nat /\ j - 1 < n[a]
          /\ l[a][i - 1] = l[a][j - 1]
      BY <1>2, <1>4
    <2>2. i - 1 = j - 1
      BY <2>1, <1>1 DEF Apart
    <2> QED  BY <2>2
  <1>5. f \in Injection(1..n[a], Nodes)
    BY <1>3, <1>4 DEF Injection, IsInjective
  <1>6. Cardinality(1..n[a]) <= Cardinality(Nodes)
    BY <1>5, NodesFinite, FS_Injection
  <1>7. Cardinality(1..n[a]) = n[a]
    BY <1>1, FS_Interval
  <1> QED  BY <1>1, <1>6, <1>7, NodesFinite

\* The nodes of a page that starts at f, in the order of the free list.
PageList(f) ==
  [i \in Nat |-> IF i < QNODES_PER_PAGE THEN f + (QNODES_PER_PAGE - (i + 1)) ELSE NULL]

LEMMA PageChain ==
  ASSUME NEW f \in Nat, f >= 1, f + (QNODES_PER_PAGE - 1) <= Total, NEW links,
         \A m \in f..(f + (QNODES_PER_PAGE - 1)) :
           links[m] = IF m = f THEN NULL ELSE m - 1
  PROVE  /\ Chain(PageList(f), QNODES_PER_PAGE, f + (QNODES_PER_PAGE - 1), links)
         /\ \A i \in Nat : i < QNODES_PER_PAGE =>
              PageList(f)[i] \in f..(f + (QNODES_PER_PAGE - 1))
         /\ \A i, j \in Nat : i < QNODES_PER_PAGE /\ j < QNODES_PER_PAGE
                              /\ PageList(f)[i] = PageList(f)[j] => i = j
  <1> DEFINE Q == QNODES_PER_PAGE
             s == PageList(f)
  <1>1. Q \in Nat /\ Q >= 1
    BY QueuesAssumption
  <1>2. Nodes = 1..Total /\ Total \in Nat /\ NULL = 0 /\ NULL \notin Nodes
    BY NodesFinite, NullIsNoNode
  <1>3. /\ \A i \in Nat : s[i] = IF i < Q THEN f + (Q - (i + 1)) ELSE NULL
        /\ DOMAIN s = Nat /\ s = [i \in Nat |-> s[i]]
    BY DEF PageList
  <1> HIDE DEF s, Q
  <1>4. \A i \in Nat : i < Q => s[i] \in f..(f + (Q - 1)) /\ s[i] \in Nodes
    <2> SUFFICES ASSUME NEW i \in Nat, i < Q
                 PROVE  s[i] \in f..(f + (Q - 1)) /\ s[i] \in Nodes
      OBVIOUS
    <2>1. s[i] = f + (Q - (i + 1))
      BY <1>3
    <2>2. f + (Q - 1) <= Total
      BY DEF Q
    <2> QED  BY <2>1, <2>2, <1>1, <1>2
  <1>5. s \in [Nat -> Nodes \cup {NULL}]
    BY <1>3, <1>4
  <1>6. \A i \in Nat : s[i] = NULL <=> i >= Q
    BY <1>1, <1>2, <1>3, <1>4
  <1>7. ASSUME NEW i \in Nat, i < Q
        PROVE  links[s[i]] = s[i + 1]
    <2>1. s[i] = f + (Q - (i + 1)) /\ s[i] \in f..(f + (Q - 1))
      BY <1>3, <1>4, <1>7
    <2>2. links[s[i]] = IF s[i] = f THEN NULL ELSE s[i] - 1
      BY <2>1 DEF Q
    <2>3. CASE i + 1 = Q
      BY <2>1, <2>2, <2>3, <1>1, <1>3
    <2>4. CASE i + 1 < Q
      <3>1. s[i + 1] = f + (Q - ((i + 1) + 1))
        BY <1>3, <2>4
      <3> QED  BY <3>1, <2>1, <2>2, <2>4, <1>1
    <2> QED  BY <2>3, <2>4, <1>7, <1>1
  <1>8. s[0] = f + (Q - 1)
    BY <1>1, <1>3
  <1>9. Chain(s, Q, f + (Q - 1), links)
    BY <1>1, <1>5, <1>6, <1>7, <1>8 DEF Chain
  <1>10. \A i, j \in Nat : i < Q /\ j < Q /\ s[i] = s[j] => i = j
    BY <1>1, <1>3
  <1> QED  BY <1>4, <1>9, <1>10 DEF s, Q

LEMMA Times ==
  ASSUME NEW a \in Nat, NEW b \in Nat, NEW c \in Nat, b < c
  PROVE  /\ a * b \in Nat /\ a * (b + 1) = a * b + a /\ a * b + a <= a * c
  OBVIOUS

\* The links of an empty free list after qnode_add_page().
LEMMA PageAdded ==
  ASSUME NEW l, NEW n, NEW first, NEW top, Lists(l, n, first, next, top),
         top = QNODES_PER_PAGE * pages, pages \in Nat, pages < MaxPages,
         free_qnodes = NULL, first[FREE] = free_qnodes,
         NEW begin,
         \A b \in Places : begin[b] = IF b = FREE THEN FirstOfPage + QNODES_PER_PAGE - 1
                                      ELSE first[b]
  PROVE  Lists([l EXCEPT ![FREE] = PageList(FirstOfPage)],
               [n EXCEPT ![FREE] = QNODES_PER_PAGE],
               begin, PageLinks, top + QNODES_PER_PAGE)
  <1> DEFINE after == [l EXCEPT ![FREE] = PageList(FirstOfPage)]
             more  == [n EXCEPT ![FREE] = QNODES_PER_PAGE]
             Q == QNODES_PER_PAGE
             f == FirstOfPage
  <1>1. /\ l \in [Places -> [Nat -> Nodes \cup {NULL}]] /\ n \in [Places -> Nat]
        /\ \A b \in Places : Chain(l[b], n[b], first[b], next)
        /\ Apart(l, n)
        /\ \A b \in Places : \A i \in Nat : i < n[b] => l[b][i] <= top
    BY DEF Lists
  <1>2. /\ Q \in Nat /\ Q >= 1 /\ top \in Nat /\ top + Q <= Total /\ Total \in Nat
        /\ f = top + 1 /\ f \in Nat
    BY QueuesAssumption, Times DEF Total, FirstOfPage
  <1>3. FREE \in Places /\ NULL = 0 /\ Nodes = 1..Total
    BY NodesFinite, NullIsNoNode DEF Places
  <1>4. /\ after[FREE] = PageList(f) /\ more[FREE] = Q
        /\ \A b \in Places : b # FREE => after[b] = l[b] /\ more[b] = n[b]
        /\ DOMAIN after = Places /\ DOMAIN more = Places
        /\ after = [b \in Places |-> after[b]] /\ more = [b \in Places |-> more[b]]
    BY <1>1, <1>3
  <1>5. /\ \A m \in f..(f + (Q - 1)) : PageLinks[m] = IF m = f THEN NULL ELSE m - 1
        /\ \A m \in Nodes : m <= top => PageLinks[m] = next[m]
    <2>1. \A m \in Nodes : PageLinks[m] =
             IF m = f THEN free_qnodes
             ELSE IF m \in f..(f + Q - 1) THEN m - 1 ELSE next[m]
      BY DEF PageLinks
    <2>2. \A m \in f..(f + (Q - 1)) : m \in Nodes /\ m \in f..(f + Q - 1)
      BY <1>2, <1>3
    <2>3. \A m \in Nodes : m <= top => m # f /\ m \notin f..(f + Q - 1)
      BY <1>2, <1>3
    <2> HIDE DEF f, Q
    <2> QED  BY <2>1, <2>2, <2>3
  <1>6. begin[FREE] = f + (Q - 1) /\ \A b \in Places : b # FREE => begin[b] = first[b]
    BY <1>2, <1>3
  <1> HIDE DEF after, more, f
  <1>7. /\ Chain(PageList(f), Q, f + (Q - 1), PageLinks)
        /\ \A i \in Nat : i < Q => PageList(f)[i] \in f..(f + (Q - 1))
        /\ \A i, j \in Nat : i < Q /\ j < Q /\ PageList(f)[i] = PageList(f)[j] => i = j
    <2>1. f >= 1 /\ f + (Q - 1) <= Total
      BY <1>2
    <2> QED  BY SMTT(30), <2>1, <1>2, <1>5, PageChain
  <1> HIDE DEF Q
  <1>8. ASSUME NEW b \in Places
        PROVE  Chain(after[b], more[b], begin[b], PageLinks)
    <2>1. CASE b = FREE
      BY <2>1, <1>4, <1>6, <1>7
    <2>2. CASE b # FREE
      <3>1. Chain(l[b], n[b], first[b], next)
        BY <1>1
      <3>2. \A i \in Nat : i < n[b] => l[b][i] \in Nodes /\ l[b][i] <= top
        BY <3>1, <1>1 DEF Chain
      <3>3. Chain(l[b], n[b], first[b], PageLinks)
        BY <3>1, <3>2, <1>5, ChainKept
      <3> QED  BY <3>3, <2>2, <1>4, <1>6
    <2> QED  BY <2>1, <2>2
  <1>9. /\ after \in [Places -> [Nat -> Nodes \cup {NULL}]] /\ more \in [Places -> Nat]
    <2>1. \A b \in Places : after[b] \in [Nat -> Nodes \cup {NULL}] /\ more[b] \in Nat
      BY <1>8 DEF Chain
    <2> QED  BY <2>1, <1>4
  <1>10. ASSUME NEW b \in Places, NEW i \in Nat, i < more[b]
         PROVE  /\ after[b][i] <= top + Q
                /\ b # FREE => after[b][i] <= top /\ after[b][i] \in Int
                /\ b = FREE => after[b][i] > top /\ after[b][i] \in Int
    <2>1. CASE b = FREE
      <3>1. after[b][i] \in f..(f + (Q - 1))
        BY <2>1, <1>4, <1>7, <1>10
      <3> QED  BY <3>1, <1>2, <2>1
    <2>2. CASE b # FREE
      <3>1. l[b][i] <= top /\ after[b] = l[b] /\ i < n[b]
        BY <2>2, <1>1, <1>4, <1>10
      <3>2. l[b][i] \in Nodes
        BY <3>1, <1>1 DEF Chain
      <3> QED  BY <3>1, <3>2, <1>2, <1>3, <2>2
    <2> QED  BY <2>1, <2>2
  <1>11. Apart(after, more)
    <2> SUFFICES ASSUME NEW b \in Places, NEW c \in Places, NEW i \in Nat, NEW j \in Nat,
                        i < more[b], j < more[c], after[b][i] = after[c][j]
                 PROVE  b = c /\ i = j
      BY DEF Apart
    <2>1. b = FREE <=> c = FREE
      BY <1>10, <1>2
    <2>2. CASE b = FREE
      BY <2>1, <2>2, <1>4, <1>7
    <2>3. CASE b # FREE
      <3>1. after[b] = l[b] /\ more[b] = n[b] /\ after[c] = l[c] /\ more[c] = n[c]
        BY <2>1, <2>3, <1>4
      <3>2. Apart(l, n)
        BY <1>1
      <3> QED  BY <3>1, <3>2 DEF Apart
    <2> QED  BY <2>2, <2>3
  <1> QED  BY <1>8, <1>9, <1>10, <1>11 DEF Lists, after, more, f, Q

-----------------------------------------------------------------------------
(* The invariant *)

First == [a \in Places |-> IF a = FREE THEN free_qnodes ELSE head[a]]

\* The fields of a queue describe its list, and its nodes hold data.
Described(l, n) ==
  \A q \in Queues :
    /\ n[q] = count[q]
    /\ tail[q] = IF n[q] = 0 THEN NULL ELSE l[q][n[q] - 1]
    /\ queue_free[q] => n[q] = 0
    /\ \A i \in Nat : i < n[q] => data[l[q][i]] \in Data

Held(l, n) ==
  /\ Lists(l, n, First, next, QNODES_PER_PAGE * pages)
  /\ Described(l, n)

Typed ==
  /\ DOMAIN head = Queues /\ DOMAIN tail = Queues /\ DOMAIN count = Queues
  /\ DOMAIN compare = Queues /\ DOMAIN queue_free = Queues
  /\ head = [q \in Queues |-> head[q]] /\ tail = [q \in Queues |-> tail[q]]
  /\ count = [q \in Queues |-> count[q]]
  /\ queue_free = [q \in Queues |-> queue_free[q]]
  /\ compare = [q \in Queues |-> compare[q]]
  /\ \A q \in Queues : ~queue_free[q] => compare[q] \in {"fifo", "ordered"}
  /\ DOMAIN next = Nodes /\ next = [m \in Nodes |-> next[m]]
  /\ DOMAIN data = Nodes /\ data = [m \in Nodes |-> data[m]]
  /\ pages \in 1..MaxPages

ListsInv ==
  /\ Typed
  /\ \E l, n : Held(l, n)
  /\ PanicsOnlyWhenOut

LEMMA PlaceOfQueue ==
  /\ FREE \in Places /\ FREE \notin Queues
  /\ \A q \in Queues : q \in Places /\ q # FREE
  BY QueuesAssumption DEF Places, FREE

\* The list of q before and after: with the node x as its entry k, and without
\* that entry.  The others stay.
Grown(l, n, q, k, x, l2, n2) ==
  /\ \A b \in Queues : b # q => l2[b] = l[b] /\ n2[b] = n[b]
  /\ l2[q] = Put(l[q], k, x) /\ n2[q] = n[q] + 1
  /\ x \in Nodes
  /\ \A b \in Queues : \A i \in Nat : i < n[b] => l[b][i] # x
Shrunk(l, n, q, k, x, l2, n2) ==
  /\ \A b \in Queues : b # q => l2[b] = l[b] /\ n2[b] = n[b]
  /\ l2[q] = Drop(l[q], k) /\ n2[q] = n[q] - 1
  /\ \A b \in Queues : \A i \in Nat : i < n2[b] => l2[b][i] # x

\* What que_insert() does to the fields of q when the node goes to place k of
\* the n[q] there are, and que_remove_by() when it takes x out.
Enters(n, q, d, k, links) ==
  /\ TakeNode(d, links)
  /\ head' = IF k = 0 THEN [head EXCEPT ![q] = NewNode] ELSE head
  /\ tail' = IF k = n[q] THEN [tail EXCEPT ![q] = NewNode] ELSE tail
  /\ count' = [count EXCEPT ![q] = @ + 1]
  /\ UNCHANGED queue_free
Leaves(l, q, k, x, links) ==
  /\ qnode_free(x, links)
  /\ head' = IF k = 0 THEN [head EXCEPT ![q] = next[x]] ELSE head
  /\ tail' = IF next[x] = NULL
             THEN [tail EXCEPT ![q] = IF k = 0 THEN NULL ELSE l[q][k - 1]]
             ELSE tail
  /\ count' = [count EXCEPT ![q] = @ - 1]
  /\ UNCHANGED queue_free

\* What an inserting step does to the lists: the first node of the free list,
\* refilled if need be, becomes the entry k of the queue q.
LEMMA Insertion ==
  ASSUME Typed, NEW l, NEW n, Held(l, n), NEW q \in Queues, NEW d \in Data,
         NEW k \in 0..n[q], ~OutOfNodes, ~queue_free[q],
         NEW links, Splice(l[q], k, NewNode, Links, links), Enters(n, q, d, k, links)
  PROVE  \E l2, n2 : Held(l2, n2)' /\ Grown(l, n, q, k, NewNode, l2, n2)
  <1> USE DEF Enters
  <1> DEFINE Q == QNODES_PER_PAGE
             begin == [b \in Places |-> IF b = FREE THEN NewNode ELSE head[b]]
  <1>0. /\ FREE \in Places /\ FREE \notin Queues /\ q # FREE /\ q \in Places
        /\ \A b \in Queues : b \in Places /\ b # FREE
    BY PlaceOfQueue
  <1>1. /\ Lists(l, n, First, next, Q * pages)
        /\ Described(l, n)
    BY DEF Held
  <1>2. /\ pages \in Nat /\ pages >= 1 /\ pages <= MaxPages /\ MaxPages \in Nat
        /\ Q \in Nat /\ Q >= 1 /\ Q * pages \in Nat
    BY QueuesAssumption DEF Typed
  \* The free list has a first node.
  <1>3. \E l1, n1 :
          /\ Lists(l1, n1, begin, Links, Q * pages') /\ n1[FREE] >= 1
          /\ \A b \in Queues : l1[b] = l[b] /\ n1[b] = n[b]
    <2>1. CASE free_qnodes = NULL
      <3>1. pages < MaxPages /\ pages' = pages + 1 /\ Links = PageLinks
            /\ NewNode = FirstOfPage + QNODES_PER_PAGE - 1
        BY <2>1, <1>2 DEF OutOfNodes, TakeNode, Links, NewNode
      <3>2. First[FREE] = free_qnodes
        BY <1>0 DEF First
      <3>3. \A b \in Places : begin[b] = IF b = FREE THEN FirstOfPage + QNODES_PER_PAGE - 1
                                         ELSE First[b]
        BY <3>1 DEF First
      <3>4. Lists([l EXCEPT ![FREE] = PageList(FirstOfPage)], [n EXCEPT ![FREE] = Q],
                  begin, PageLinks, Q * pages + Q)
        <4> HIDE DEF begin
        <4> QED  BY <1>1, <1>2, <3>1, <3>2, <3>3, <2>1, PageAdded
      <3>5. Q * pages' = Q * pages + Q
        BY <3>1, <1>2, Times
      <3>6. DOMAIN l = Places /\ DOMAIN n = Places
        BY <1>1 DEF Lists
      <3>7. /\ [n EXCEPT ![FREE] = Q][FREE] >= 1
            /\ \A b \in Queues : /\ [l EXCEPT ![FREE] = PageList(FirstOfPage)][b] = l[b]
                                 /\ [n EXCEPT ![FREE] = Q][b] = n[b]
        BY <3>6, <1>0, <1>2
      <3> DEFINE lp == [l EXCEPT ![FREE] = PageList(FirstOfPage)]
                 np == [n EXCEPT ![FREE] = Q]
      <3>8. /\ Lists(lp, np, begin, Links, Q * pages') /\ np[FREE] >= 1
            /\ \A b \in Queues : lp[b] = l[b] /\ np[b] = n[b]
        BY <3>1, <3>4, <3>5, <3>7
      <3> HIDE DEF begin, lp, np
      <3> QED  BY <3>8
    <2>2. CASE free_qnodes # NULL
      <3>1. pages' = pages /\ Links = next /\ NewNode = free_qnodes
        BY <2>2 DEF TakeNode, Links, NewNode
      <3>2. begin = First
        BY <3>1 DEF First
      <3>3. Chain(l[FREE], n[FREE], First[FREE], next) /\ First[FREE] = free_qnodes
        BY <1>0, <1>1 DEF Lists, First
      <3>4. n[FREE] >= 1
        BY <3>3, <2>2 DEF Chain
      <3> QED  BY <1>1, <3>1, <3>2, <3>4
    <2> QED  BY <2>1, <2>2
  <1>4. PICK l1, n1 :
          /\ Lists(l1, n1, begin, Links, Q * pages') /\ n1[FREE] >= 1
          /\ \A b \in Queues : l1[b] = l[b] /\ n1[b] = n[b]
    BY <1>3
  <1>5. /\ Chain(l1[FREE], n1[FREE], begin[FREE], Links) /\ begin[FREE] = NewNode
        /\ n1[FREE] \in Nat
    BY <1>0, <1>4 DEF Lists
  <1>6. l1[FREE][0] = NewNode /\ 0 < n1[FREE]
    BY <1>5, <1>4 DEF Chain
  \* It leaves the free list.
  <1> DEFINE left == Without(l1, FREE, 0)
             nleft == Plus(n1, FREE, -1)
             rest == [b \in Places |-> IF b = FREE THEN Links[NewNode] ELSE head[b]]
  <1>7. /\ Lists(left, nleft, rest, Links, Q * pages')
        /\ Absent(left, nleft, NewNode) /\ NewNode \in Nodes /\ NewNode <= Q * pages'
    <2> DEFINE z == 0
    <2>1. Bypass(l1[FREE], z, Links, Links) /\ z \in Nat /\ z < n1[FREE]
      BY <1>6 DEF Bypass
    <2>2. Rebased(rest, begin, FREE, z, Links[l1[FREE][z]])
      BY <1>6 DEF Rebased
    <2>4. NewNode = l1[FREE][z]
      BY <1>6
    <2> HIDE DEF rest, begin, z
    <2>3. /\ Lists(Without(l1, FREE, z), nleft, rest, Links, Q * pages')
          /\ Absent(Without(l1, FREE, z), nleft, NewNode)
          /\ NewNode \in Nodes /\ NewNode <= Q * pages'
      BY <1>0, <1>4, <2>1, <2>2, <2>4, ListDropped
    <2> QED  BY <2>3 DEF z
  <1>8. /\ DOMAIN l1 = Places /\ DOMAIN n1 = Places
        /\ \A b \in Queues : left[b] = l[b] /\ nleft[b] = n[b]
    <2>1. DOMAIN l1 = Places /\ DOMAIN n1 = Places
      BY <1>4 DEF Lists
    <2> QED  BY <2>1, <1>0, <1>4 DEF Without, Plus
  <1> HIDE DEF left, nleft
  \* It enters the queue.
  <1> DEFINE l2 == With(left, q, k, NewNode)
             n2 == Plus(nleft, q, 1)
  <1>9. First' = [b \in Places |-> IF b = FREE THEN Links[NewNode] ELSE head'[b]]
    BY DEF First, TakeNode
  <1>10. Lists(l2, n2, First', next', Q * pages')
    <2>1. next' = links
      BY DEF TakeNode
    <2>2. Rebased(First', rest, q, k, NewNode)
      <3>1. \A b \in Queues : head'[b] = IF b = q /\ k = 0 THEN NewNode ELSE head[b]
        BY DEF Typed
      <3>2. \A b \in Places : b = FREE \/ b \in Queues
        BY DEF Places
      <3> QED  BY <3>1, <3>2, <1>9, <1>0 DEF Rebased
    <2>3. k \in 0..nleft[q] /\ Splice(left[q], k, NewNode, Links, next')
      BY <2>1, <1>8
    <2> HIDE DEF rest
    <2> QED  BY <1>0, <1>7, <2>2, <2>3, ListPut
  <1>11. /\ \A b \in Queues : b # q => l2[b] = l[b] /\ n2[b] = n[b]
         /\ l2[q] = Put(l[q], k, NewNode) /\ n2[q] = n[q] + 1
    <2>1. DOMAIN left = Places /\ DOMAIN nleft = Places
      BY <1>7 DEF Lists
    <2> QED  BY <2>1, <1>0, <1>8 DEF With, Plus
  <1>12. \A b \in Queues : \A i \in Nat : i < n[b] => l[b][i] # NewNode
    BY <1>7, <1>8, <1>0 DEF Absent
  <1> HIDE DEF l2, n2
  <1>R. PICK l3, n3 : l3 = l2 /\ n3 = n2
    OBVIOUS
  <1>13. ASSUME NEW b \in Queues
         PROVE  /\ n3[b] = count'[b]
                /\ tail'[b] = IF n3[b] = 0 THEN NULL ELSE l3[b][n3[b] - 1]
                /\ queue_free'[b] => n3[b] = 0
                /\ \A i \in Nat : i < n3[b] => data'[l3[b][i]] \in Data
    <2>1. /\ n[b] = count[b] /\ tail[b] = IF n[b] = 0 THEN NULL ELSE l[b][n[b] - 1]
          /\ queue_free[b] => n[b] = 0
          /\ \A i \in Nat : i < n[b] => data[l[b][i]] \in Data
      BY <1>1 DEF Described
    <2>2. n[b] \in Nat /\ l[b] \in [Nat -> Nodes \cup {NULL}]
          /\ \A i \in Nat : i < n[b] => l[b][i] \in Nodes
      BY <1>0, <1>1 DEF Lists, Chain
    <2>3. \A m \in Nodes : data'[m] = IF m = NewNode THEN d ELSE data[m]
      BY DEF TakeNode, Typed
    <2>4. CASE b = q
      <3>1. n3[b] = count'[b] /\ n3[b] = n[q] + 1 /\ n3[b] - 1 = n[q] /\ n3[b] # 0
        BY <2>1, <2>2, <2>4, <1>11, <1>R DEF Typed
      <3>2. \A i \in Nat : l3[q][i] = IF i < k THEN l[q][i] ELSE IF i = k THEN NewNode ELSE l[q][i - 1]
        BY <1>11, <1>R DEF Put
      <3>3. tail'[q] = l3[q][n[q]]
        <4>1. CASE k = n[q]
          BY <4>1, <3>2, <2>2, <2>4 DEF Typed
        <4>2. CASE k # n[q]
          <5>1. k < n[q] /\ n[q] - 1 \in Nat /\ n[q] # 0
            BY <4>2, <2>2, <2>4
          <5>2. l3[q][n[q]] = l[q][n[q] - 1]
            BY <5>1, <3>2, <2>2, <2>4
          <5> QED  BY <5>1, <5>2, <4>2, <2>1, <2>4
        <4> QED  BY <4>1, <4>2
      <3>4. ASSUME NEW i \in Nat, i < n3[q]
            PROVE  data'[l3[q][i]] \in Data
        <4>1. CASE i = k
          BY <4>1, <3>2, <2>3, <1>7
        <4>2. CASE i < k
          BY <4>2, <3>2, <2>1, <2>2, <2>3, <2>4, <1>12
        <4>3. CASE i > k
          <5>1. i - 1 \in Nat /\ i - 1 < n[q] /\ l3[q][i] = l[q][i - 1]
            BY <4>3, <3>2, <3>4, <3>1, <2>2, <2>4
          <5> QED  BY <5>1, <2>1, <2>2, <2>3, <2>4, <1>12
        <4> QED  BY <4>1, <4>2, <4>3, <2>2, <2>4
      <3>5. ~queue_free'[b]
        BY <2>4
      <3> QED  BY <3>1, <3>3, <3>4, <3>5, <2>4
    <2>5. CASE b # q
      <3>1. l3[b] = l[b] /\ n3[b] = n[b] /\ count'[b] = count[b] /\ tail'[b] = tail[b]
        BY <2>5, <1>11, <1>R DEF Typed
      <3>2. \A i \in Nat : i < n[b] => data'[l[b][i]] = data[l[b][i]]
        BY <2>2, <2>3, <1>12
      <3> QED  BY <3>1, <3>2, <2>1
    <2> QED  BY <2>4, <2>5
  <1>14. Held(l3, n3)'
    BY <1>10, <1>13, <1>R DEF Held, Described
  <1>15. Grown(l, n, q, k, NewNode, l3, n3)
    BY <1>11, <1>R, <1>12, <1>7 DEF Grown
  <1> QED  BY <1>14, <1>15

\* What a removing step does to the lists: the entry k of the queue q becomes
\* the first of the free list.
LEMMA Removal ==
  ASSUME Typed, NEW l, NEW n, Held(l, n), NEW q \in Queues,
         NEW k \in Nat, k < n[q], NEW x, x = l[q][k],
         NEW links, DOMAIN links = Nodes, Bypass(l[q], k, next, links),
         Leaves(l, q, k, x, links)
  PROVE  \E l2, n2 : Held(l2, n2)' /\ Shrunk(l, n, q, k, x, l2, n2)
  <1> USE DEF Leaves
  <1> DEFINE Q == QNODES_PER_PAGE
  <1>0. /\ FREE \in Places /\ FREE \notin Queues /\ q # FREE /\ q \in Places
        /\ \A b \in Queues : b \in Places /\ b # FREE
    BY PlaceOfQueue
  <1>1. /\ Lists(l, n, First, next, Q * pages)
        /\ Described(l, n)
    BY DEF Held
  <1>2. /\ n[q] \in Nat /\ Chain(l[q], n[q], First[q], next)
        /\ l[q] \in [Nat -> Nodes \cup {NULL}]
        /\ DOMAIN l = Places /\ DOMAIN n = Places
    BY <1>0, <1>1 DEF Lists
  <1>3. /\ x \in Nodes /\ next[x] = l[q][k + 1]
        /\ next[x] = NULL <=> k + 1 = n[q]
    BY <1>2 DEF Chain
  \* It leaves the queue.
  <1> DEFINE left == Without(l, q, k)
             nleft == Plus(n, q, -1)
             rest == [b \in Places |-> IF b = FREE THEN free_qnodes ELSE head'[b]]
  <1>4. /\ Lists(left, nleft, rest, links, Q * pages)
        /\ Absent(left, nleft, x) /\ x <= Q * pages
    <2>1. Rebased(rest, First, q, k, next[l[q][k]])
      <3>1. \A b \in Queues : head'[b] = IF b = q /\ k = 0 THEN next[x] ELSE head[b]
        BY DEF Typed
      <3>2. \A b \in Places : b = FREE \/ b \in Queues
        BY DEF Places
      <3> QED  BY <3>1, <3>2, <1>0 DEF Rebased, First
    <2> HIDE DEF rest
    <2> QED  BY <1>0, <1>1, <2>1, ListDropped
  <1>5. /\ \A b \in Places : b # q => left[b] = l[b] /\ nleft[b] = n[b]
        /\ left[q] = Drop(l[q], k) /\ nleft[q] = n[q] - 1
        /\ DOMAIN left = Places /\ DOMAIN nleft = Places
    BY <1>0, <1>2 DEF Without, Plus
  <1> HIDE DEF left, nleft
  <1>6. left[FREE][0] = free_qnodes /\ nleft[FREE] \in Nat
    <2>1. Chain(left[FREE], nleft[FREE], rest[FREE], links)
      BY <1>0, <1>4 DEF Lists
    <2> QED  BY <2>1, <1>0 DEF Chain
  \* It enters the free list.
  <1> DEFINE l2 == With(left, FREE, 0, x)
             n2 == Plus(nleft, FREE, 1)
  <1>7. Lists(l2, n2, First', next', Q * pages')
    <2> DEFINE z == 0
    <2>1. Rebased(First', rest, FREE, z, x)
      BY <1>0 DEF Rebased, First, qnode_free
    <2>2. z \in 0..nleft[FREE]
      BY <1>6
    <2>3. Splice(left[FREE], z, x, links, next')
      <3>1. next' = [links EXCEPT ![x] = free_qnodes]
        BY DEF qnode_free
      <3> QED  BY <3>1, <1>6 DEF Splice
    <2>4. pages' = pages
      BY DEF qnode_free
    <2> HIDE DEF rest, z
    <2>5. Lists(With(left, FREE, z, x), n2, First', next', Q * pages)
      BY <1>0, <1>3, <1>4, <2>1, <2>2, <2>3, ListPut
    <2> QED  BY <2>4, <2>5 DEF z
  <1>8. \A b \in Queues : l2[b] = left[b] /\ n2[b] = nleft[b]
    BY <1>0, <1>5 DEF With, Plus
  <1> HIDE DEF l2, n2
  <1>R. PICK l3, n3 : l3 = l2 /\ n3 = n2
    OBVIOUS
  <1>9. /\ \A b \in Queues : b # q => l3[b] = l[b] /\ n3[b] = n[b]
        /\ l3[q] = Drop(l[q], k) /\ n3[q] = n[q] - 1
    BY <1>0, <1>5, <1>8, <1>R
  <1>10. \A b \in Queues : \A i \in Nat : i < n3[b] => l3[b][i] # x
    BY <1>0, <1>4, <1>8, <1>R DEF Absent
  <1>11. ASSUME NEW b \in Queues
         PROVE  /\ n3[b] = count'[b]
                /\ tail'[b] = IF n3[b] = 0 THEN NULL ELSE l3[b][n3[b] - 1]
                /\ queue_free'[b] => n3[b] = 0
                /\ \A i \in Nat : i < n3[b] => data'[l3[b][i]] \in Data
    <2>1. /\ n[b] = count[b] /\ tail[b] = IF n[b] = 0 THEN NULL ELSE l[b][n[b] - 1]
          /\ queue_free[b] => n[b] = 0
          /\ \A i \in Nat : i < n[b] => data[l[b][i]] \in Data
      BY <1>1 DEF Described
    <2>2. n[b] \in Nat /\ l[b] \in [Nat -> Nodes \cup {NULL}]
          /\ \A i \in Nat : i < n[b] => l[b][i] \in Nodes
      BY <1>0, <1>1 DEF Lists, Chain
    <2>3. \A m \in Nodes : m # x => data'[m] = data[m]
      BY DEF qnode_free, Typed
    <2>4. CASE b = q
      <3>1. \A i \in Nat : l3[q][i] = IF i < k THEN l[q][i] ELSE l[q][i + 1]
        BY <1>9 DEF Drop
      <3>2. n3[q] = count'[q] /\ n3[q] = n[q] - 1 /\ n3[q] \in Nat
        BY <2>1, <2>2, <2>4, <1>9 DEF Typed
      <3>3. tail'[q] = IF n3[q] = 0 THEN NULL ELSE l3[q][n3[q] - 1]
        <4>1. CASE k + 1 = n[q]
          <5>1. tail'[q] = IF k = 0 THEN NULL ELSE l[q][k - 1]
            BY <4>1, <1>3 DEF Typed
          <5>2. k # 0 => l3[q][k - 1] = l[q][k - 1]
            BY <3>1
          <5>3. n3[q] = k
            BY <4>1, <3>2, <2>2, <2>4
          <5> QED  BY <5>1, <5>2, <5>3
        <4>2. CASE k + 1 # n[q]
          <5>1. k + 1 < n[q] /\ n3[q] # 0 /\ n3[q] - 1 \in Nat /\ n3[q] - 1 >= k
                /\ (n3[q] - 1) + 1 = n[q] - 1 /\ n[q] # 0
            BY <4>2, <3>2, <2>2, <2>4
          <5>2. l3[q][n3[q] - 1] = l[q][(n3[q] - 1) + 1]
            BY <5>1, <3>1
          <5>3. tail'[q] = l[q][n[q] - 1]
            BY <4>2, <5>1, <1>3, <2>1, <2>4
          <5> QED  BY <5>1, <5>2, <5>3
        <4> QED  BY <4>1, <4>2
      <3>4. ASSUME NEW i \in Nat, i < n3[q]
            PROVE  data'[l3[q][i]] \in Data
        <4>1. PICK j \in Nat : j < n[q] /\ l3[q][i] = l[q][j]
          <5>1. CASE i < k
            BY <5>1, <3>1, <2>2, <2>4
          <5>2. CASE i >= k
            <6>1. i + 1 \in Nat /\ i + 1 < n[q] /\ l3[q][i] = l[q][i + 1]
              BY <5>2, <3>1, <3>2, <3>4, <2>2, <2>4
            <6> QED  BY <6>1
          <5> QED  BY <5>1, <5>2
        <4>2. l3[q][i] # x
          BY <1>10, <3>4
        <4> QED  BY <4>1, <4>2, <2>1, <2>2, <2>3, <2>4
      <3>5. ~queue_free'[q]
        BY <2>1, <2>2, <2>4
      <3> QED  BY <3>2, <3>3, <3>4, <3>5, <2>4
    <2>5. CASE b # q
      <3>1. l3[b] = l[b] /\ n3[b] = n[b] /\ count'[b] = count[b] /\ tail'[b] = tail[b]
        BY <2>5, <1>9 DEF Typed
      <3>2. \A i \in Nat : i < n[b] => data'[l[b][i]] = data[l[b][i]]
        BY <2>2, <2>3, <1>10, <3>1
      <3> QED  BY <3>1, <3>2, <2>1
    <2> QED  BY <2>4, <2>5
  <1>12. Held(l3, n3)'
    BY <1>7, <1>11, <1>R DEF Held, Described
  <1>13. Shrunk(l, n, q, k, x, l3, n3)
    BY <1>9, <1>10 DEF Shrunk
  <1> QED  BY <1>12, <1>13

-----------------------------------------------------------------------------
(* What the invariant says of walks and contents *)

\* A walk from the head of a queue meets its entries, and ends.
LEMMA WalkOfQueue ==
  ASSUME NEW l, NEW n, Held(l, n), NEW q \in Queues
  PROVE  /\ DOMAIN Walk(head[q]) = 0..Total
         /\ \A i \in 0..Total : Walk(head[q])[i] = l[q][i]
         /\ n[q] \in 0..Total /\ n[q] = count[q] /\ l[q] \in [Nat -> Nodes \cup {NULL}]
         /\ \A i \in Nat : l[q][i] = NULL <=> i >= n[q]
         /\ \A i \in Nat : i < n[q] => next[l[q][i]] = l[q][i + 1] /\ l[q][i] \in Nodes
         /\ l[q][0] = head[q]
  <1>1. Lists(l, n, First, next, QNODES_PER_PAGE * pages) /\ Described(l, n)
    BY DEF Held
  <1>2. q \in Places /\ q # FREE
    BY PlaceOfQueue
  <1>3. Chain(l[q], n[q], head[q], next)
    BY <1>1, <1>2 DEF Lists, First
  <1>4. n[q] \in 0..Total
    BY <1>1, <1>2, ListBounded
  <1>5. n[q] = count[q]
    BY <1>1 DEF Described
  <1>6. /\ DOMAIN Walk(head[q]) = 0..Total
        /\ \A i \in 0..Total : Walk(head[q])[i] = l[q][i]
    BY <1>3, WalkIs
  <1> QED  BY <1>3, <1>4, <1>5, <1>6 DEF Chain

LEMMA WalkOfFree ==
  ASSUME NEW l, NEW n, Held(l, n)
  PROVE  /\ \A i \in 0..Total : Walk(free_qnodes)[i] = l[FREE][i]
         /\ n[FREE] \in 0..Total
         /\ \A i \in Nat : l[FREE][i] = NULL <=> i >= n[FREE]
  <1>1. Lists(l, n, First, next, QNODES_PER_PAGE * pages)
    BY DEF Held
  <1>2. FREE \in Places
    BY PlaceOfQueue
  <1>3. Chain(l[FREE], n[FREE], free_qnodes, next)
    BY <1>1, <1>2 DEF Lists, First
  <1>4. n[FREE] \in 0..Total
    BY <1>1, <1>2, ListBounded
  <1> QED  BY <1>3, <1>4, WalkIs DEF Chain

\* The assertions at the start of the operations hold.
LEMMA AlwaysSane ==
  ASSUME NEW l, NEW n, Held(l, n), NEW q \in Queues
  PROVE  Sane(q)
  <1>1. /\ n[q] = count[q] /\ n[q] \in Nat /\ l[q][0] = head[q]
        /\ \A i \in Nat : l[q][i] = NULL <=> i >= n[q]
    BY WalkOfQueue, NodesFinite
  <1>2. tail[q] = IF n[q] = 0 THEN NULL ELSE l[q][n[q] - 1]
    BY DEF Held, Described
  <1> QED  BY <1>1, <1>2 DEF Sane

LEMMA SameSequence ==
  ASSUME NEW S, NEW s \in Seq(S), NEW t \in Seq(S), Len(s) = Len(t),
         \A i \in 1..Len(s) : s[i] = t[i]
  PROVE  s = t
  OBVIOUS

\* The contents of a queue are the data of its entries.
Shows(l, n) ==
  /\ DOMAIN Contents = Queues /\ Contents = [q \in Queues |-> Contents[q]]
  /\ \A q \in Queues :
       /\ Contents[q] \in Seq(Data) /\ Len(Contents[q]) = n[q]
       /\ \A i \in 1..n[q] : Contents[q][i] = data[l[q][i - 1]]

LEMMA ContentsAre == \A l, n : Held(l, n) => Shows(l, n)
  <1> SUFFICES ASSUME NEW l, NEW n, Held(l, n)
               PROVE  Shows(l, n)
    OBVIOUS
  <1>1. DOMAIN Contents = Queues /\ Contents = [q \in Queues |-> Contents[q]]
    BY DEF Contents
  <1>2. ASSUME NEW q \in Queues
        PROVE  /\ Contents[q] \in Seq(Data) /\ Len(Contents[q]) = n[q]
               /\ \A i \in 1..n[q] : Contents[q][i] = data[l[q][i - 1]]
    <2> DEFINE w == Walk(head[q])
    <2>1. /\ \A i \in 0..Total : w[i] = l[q][i]
          /\ n[q] \in 0..Total /\ n[q] = count[q] /\ Total \in Nat
      BY WalkOfQueue, NodesFinite
    <2>2. \A i \in Nat : i < n[q] => data[l[q][i]] \in Data
      BY DEF Held, Described
    <2> HIDE DEF w
    <2>3. Contents[q] = [i \in 1..n[q] |-> data[w[i - 1]]]
      BY <2>1 DEF Contents, w
    <2>4. ASSUME NEW i \in 1..n[q]
          PROVE  data[w[i - 1]] = data[l[q][i - 1]] /\ data[l[q][i - 1]] \in Data
      <3>1. i - 1 \in 0..Total /\ i - 1 \in Nat /\ i - 1 < n[q]
        BY <2>1
      <3> QED  BY <3>1, <2>1, <2>2
    <2> QED  BY <2>1, <2>3, <2>4
  <1> QED  BY <1>1, <1>2 DEF Shows

LEMMA ContentsAreNext == \A l, n : Held(l, n)' => Shows(l, n)'
  <1>1. (\A l, n : Held(l, n) => Shows(l, n))'
    BY ContentsAre, PTL
  <1> QED  BY <1>1

\* The node x gets the value v; the contents of q become c.
Stored(x, v) == data' = [data EXCEPT ![x] = v]
Becomes(q, c) == Contents' = [Contents EXCEPT ![q] = c]

\* An entry more in the list is an entry more in the contents.
LEMMA ContentsPut ==
  ASSUME Typed, NEW l, NEW n, Held(l, n), NEW q \in Queues, NEW d \in Data,
         NEW k \in 0..n[q], NEW x \in Nodes,
         Stored(x, d),
         NEW l2, NEW n2, Held(l2, n2)', Grown(l, n, q, k, x, l2, n2)
  PROVE  Becomes(q, Abstract!InsertAfter(Contents[q], d, k))
  <1> USE DEF Grown, Stored, Becomes
  <1>1. Shows(l, n) /\ Shows(l2, n2)'
    BY ContentsAre, ContentsAreNext
  <1>2. \A m \in Nodes : data'[m] = IF m = x THEN d ELSE data[m]
    BY DEF Typed
  <1>3. ASSUME NEW b \in Queues
        PROVE  Contents'[b] = IF b = q THEN Abstract!InsertAfter(Contents[q], d, k)
                              ELSE Contents[b]
    <2>1. /\ Contents[b] \in Seq(Data) /\ Len(Contents[b]) = n[b]
          /\ \A i \in 1..n[b] : Contents[b][i] = data[l[b][i - 1]]
          /\ Contents'[b] \in Seq(Data) /\ Len(Contents'[b]) = n2[b]
          /\ \A i \in 1..n2[b] : Contents'[b][i] = data'[l2[b][i - 1]]
      BY <1>1 DEF Shows
    <2>2. /\ n[b] \in Nat /\ \A i \in Nat : i < n[b] => l[b][i] \in Nodes /\ l[b][i] # x
      BY WalkOfQueue, NodesFinite
    <2>3. ASSUME NEW i \in 1..n[b]
          PROVE  data'[l[b][i - 1]] = Contents[b][i]
      <3>1. i - 1 \in Nat /\ i - 1 < n[b]
        BY <2>2
      <3> QED  BY <3>1, <2>1, <2>2, <1>2
    <2>4. CASE b # q
      <3>1. l2[b] = l[b] /\ n2[b] = n[b]
        BY <2>4
      <3>2. \A i \in 1..n[b] : Contents'[b][i] = Contents[b][i]
        BY <3>1, <2>1, <2>3
      <3>3. Contents'[b] = Contents[b]
        <4>1. /\ Contents[b] \in Seq(Data) /\ Contents'[b] \in Seq(Data)
              /\ Len(Contents[b]) = n[b] /\ Len(Contents'[b]) = n[b]
          BY <3>1, <2>1
        <4>2. \A i \in 1..Len(Contents[b]) : Contents[b][i] = Contents'[b][i]
          BY <4>1, <3>2
        <4> QED  BY <4>1, <4>2, SameSequence
      <3> QED  BY <3>3, <2>4
    <2>5. CASE b = q
      <3> DEFINE c == Contents[q]
                 c2 == Contents'[q]
      <3>1. \A i \in Nat : l2[q][i] = IF i < k THEN l[q][i] ELSE IF i = k THEN x ELSE l[q][i - 1]
        BY DEF Put
      <3>2. /\ c \in Seq(Data) /\ Len(c) = n[q] /\ n[q] \in Nat /\ k \in Nat /\ k <= n[q]
            /\ c2 \in Seq(Data) /\ Len(c2) = n[q] + 1
            /\ \A i \in 1..(n[q] + 1) : c2[i] = data'[l2[q][i - 1]]
            /\ \A i \in 1..n[q] : data'[l[q][i - 1]] = c[i]
        <4>1. k \in Nat /\ k <= n[q] /\ n[q] \in Nat
          BY <2>2, <2>5
        <4>2. n2[b] = n[q] + 1 /\ l2[b] = l2[q] /\ Contents[b] = c /\ Contents'[b] = c2
          BY <2>5
        <4> HIDE DEF c, c2
        <4> QED  BY <4>1, <4>2, <2>1, <2>3, <2>5
      <3> HIDE DEF c, c2
      <3>3. ASSUME NEW j \in 1..(n[q] + 1)
            PROVE  c2[j] = IF j <= k THEN c[j] ELSE IF j = k + 1 THEN d ELSE c[j - 1]
        <4>1. j - 1 \in Nat /\ c2[j] = data'[l2[q][j - 1]]
          BY <3>2
        <4>2. CASE j <= k
          <5>1. l2[q][j - 1] = l[q][j - 1] /\ j \in 1..n[q]
            BY <4>1, <4>2, <3>1, <3>2
          <5> QED  BY <5>1, <4>1, <4>2, <3>2
        <4>3. CASE j = k + 1
          <5>1. l2[q][j - 1] = x
            BY <4>1, <4>3, <3>1, <3>2
          <5>2. ~(j <= k)
            BY <4>3, <3>2
          <5> QED  BY <5>1, <5>2, <4>1, <4>3, <1>2
        <4>4. CASE j > k + 1
          <5>1. l2[q][j - 1] = l[q][(j - 1) - 1] /\ j - 1 \in 1..n[q] /\ ~(j <= k) /\ j # k + 1
            BY <4>1, <4>4, <3>1, <3>2
          <5> QED  BY <5>1, <4>1, <3>2
        <4> QED  BY <4>2, <4>3, <4>4, <3>2
      <3>4. c2 = [j \in 1..(n[q] + 1) |-> IF j <= k THEN c[j] ELSE IF j = k + 1 THEN d ELSE c[j - 1]]
        <4>1. c2 = [j \in 1..(n[q] + 1) |-> c2[j]]
          BY <3>2
        <4> QED  BY <4>1, <3>3
      <3>5. c2 = Abstract!InsertAfter(c, d, k)
        BY <3>2, <3>4 DEF Abstract!InsertAfter
      <3> QED  BY <3>5, <2>5 DEF c, c2
    <2> QED  BY <2>4, <2>5
  <1>4. DOMAIN Contents = Queues /\ Contents' = [b \in Queues |-> Contents'[b]]
    BY <1>1 DEF Shows
  <1> QED  BY <1>3, <1>4

LEMMA ContentsDropped ==
  ASSUME Typed, NEW l, NEW n, Held(l, n), NEW q \in Queues,
         NEW k \in Nat, k < n[q], NEW x, x = l[q][k],
         Stored(x, None),
         NEW l2, NEW n2, Held(l2, n2)', Shrunk(l, n, q, k, x, l2, n2)
  PROVE  Becomes(q, Abstract!DropEntry(Contents[q], k + 1))
  <1> USE DEF Shrunk, Stored, Becomes
  <1>1. Shows(l, n) /\ Shows(l2, n2)'
    BY ContentsAre, ContentsAreNext
  <1>2. \A m \in Nodes : m # x => data'[m] = data[m]
    BY DEF Typed
  <1>3. ASSUME NEW b \in Queues
        PROVE  Contents'[b] = IF b = q THEN Abstract!DropEntry(Contents[q], k + 1)
                              ELSE Contents[b]
    <2>1. /\ Contents[b] \in Seq(Data) /\ Len(Contents[b]) = n[b]
          /\ \A i \in 1..n[b] : Contents[b][i] = data[l[b][i - 1]]
          /\ Contents'[b] \in Seq(Data) /\ Len(Contents'[b]) = n2[b]
          /\ \A i \in 1..n2[b] : Contents'[b][i] = data'[l2[b][i - 1]]
      BY <1>1 DEF Shows
    <2>2. /\ n[b] \in Nat /\ \A i \in Nat : i < n[b] => l[b][i] \in Nodes
      BY WalkOfQueue, NodesFinite
    <2>4. CASE b # q
      <3>1. l2[b] = l[b] /\ n2[b] = n[b]
        BY <2>4
      <3>2. ASSUME NEW i \in 1..n[b]
            PROVE  Contents'[b][i] = Contents[b][i]
        <4>1. i - 1 \in Nat /\ i - 1 < n[b]
          BY <2>2
        <4>2. l[b][i - 1] \in Nodes /\ l[b][i - 1] # x
          BY <4>1, <3>1, <2>2
        <4> QED  BY <4>2, <3>1, <2>1, <1>2
      <3>3. Contents'[b] = Contents[b]
        <4>1. /\ Contents[b] \in Seq(Data) /\ Contents'[b] \in Seq(Data)
              /\ Len(Contents[b]) = n[b] /\ Len(Contents'[b]) = n[b]
          BY <3>1, <2>1
        <4>2. \A i \in 1..Len(Contents[b]) : Contents[b][i] = Contents'[b][i]
          BY <4>1, <3>2
        <4> QED  BY <4>1, <4>2, SameSequence
      <3> QED  BY <3>3, <2>4
    <2>5. CASE b = q
      <3> DEFINE c == Contents[q]
                 c2 == Contents'[q]
      <3>1. \A i \in Nat : l2[q][i] = IF i < k THEN l[q][i] ELSE l[q][i + 1]
        BY DEF Drop
      <3>2. /\ c \in Seq(Data) /\ Len(c) = n[q] /\ n[q] \in Nat
            /\ c2 \in Seq(Data) /\ Len(c2) = n[q] - 1
            /\ \A i \in 1..(n[q] - 1) : c2[i] = data'[l2[q][i - 1]]
            /\ \A i \in 1..n[q] : c[i] = data[l[q][i - 1]]
        <4>1. n[q] \in Nat
          BY <2>2, <2>5
        <4>2. n2[b] = n[q] - 1 /\ n[b] = n[q] /\ l2[b] = l2[q] /\ l[b] = l[q]
              /\ Contents[b] = c /\ Contents'[b] = c2
          BY <2>5
        <4> HIDE DEF c, c2
        <4> QED  BY <4>1, <4>2, <2>1
      <3> HIDE DEF c, c2
      <3>3. ASSUME NEW j \in 1..(n[q] - 1)
            PROVE  c2[j] = IF j < k + 1 THEN c[j] ELSE c[j + 1]
        <4>1. j - 1 \in Nat /\ j - 1 < n[q] - 1 /\ c2[j] = data'[l2[q][j - 1]]
          BY <3>2
        <4>2. l2[q][j - 1] # x
          BY <4>1
        <4>3. CASE j < k + 1
          <5>1. l2[q][j - 1] = l[q][j - 1] /\ j \in 1..n[q] /\ j - 1 < n[q]
            BY <4>1, <4>3, <3>1, <3>2
          <5> QED  BY <5>1, <4>1, <4>2, <4>3, <3>2, <2>2, <2>5, <1>2
        <4>4. CASE j >= k + 1
          <5>1. /\ l2[q][j - 1] = l[q][(j - 1) + 1] /\ (j - 1) + 1 = j /\ (j + 1) - 1 = j
                /\ j + 1 \in 1..n[q] /\ j \in Nat /\ j < n[q]
            <6>1. (j - 1) + 1 = j /\ (j + 1) - 1 = j /\ ~(j - 1 < k)
              BY <4>4
            <6>2. j + 1 \in 1..n[q] /\ j \in Nat /\ j < n[q]
              BY <3>2
            <6>3. l2[q][j - 1] = l[q][(j - 1) + 1]
              BY <6>1, <4>1, <3>1
            <6> QED  BY <6>1, <6>2, <6>3
          <5>2. c[j + 1] = data[l[q][j]]
            BY <5>1, <3>2
          <5>3. data'[l2[q][j - 1]] = data[l[q][j]]
            BY <5>1, <4>2, <2>2, <2>5, <1>2
          <5> QED  BY <5>2, <5>3, <4>1, <4>4
        <4> QED  BY <4>3, <4>4
      <3>4. c2 = [j \in 1..(n[q] - 1) |-> IF j < k + 1 THEN c[j] ELSE c[j + 1]]
        <4>1. c2 = [j \in 1..(n[q] - 1) |-> c2[j]]
          BY <3>2
        <4> QED  BY <4>1, <3>3
      <3>5. c2 = Abstract!DropEntry(c, k + 1)
        BY <3>2, <3>4 DEF Abstract!DropEntry
      <3> QED  BY <3>5, <2>5 DEF c, c2
    <2> QED  BY <2>4, <2>5
  <1>4. DOMAIN Contents = Queues /\ Contents' = [b \in Queues |-> Contents'[b]]
    BY <1>1 DEF Shows
  <1> QED  BY <1>3, <1>4

-----------------------------------------------------------------------------
(* The steps *)

\* qnode_alloc() returns a node that no queue has.
LEMMA NewNodeIsNew ==
  ASSUME Typed, NEW l, NEW n, Held(l, n), NEW q \in Queues, NEW i \in Nat, i < n[q]
  PROVE  l[q][i] # NewNode
  <1>0. FREE \in Places /\ q \in Places /\ q # FREE
    BY PlaceOfQueue
  <1>1. Lists(l, n, First, next, QNODES_PER_PAGE * pages)
    BY DEF Held
  <1>2. CASE free_qnodes = NULL
    <2>1. NewNode = FirstOfPage + QNODES_PER_PAGE - 1
      BY <1>2 DEF NewNode
    <2>2. l[q][i] <= QNODES_PER_PAGE * pages
      BY <1>0, <1>1 DEF Lists
    <2>3. l[q][i] \in Nodes
      BY WalkOfQueue
    <2>4. QNODES_PER_PAGE \in Nat /\ QNODES_PER_PAGE >= 1 /\ QNODES_PER_PAGE * pages \in Nat
      BY QueuesAssumption DEF Typed
    <2>5. l[q][i] \in Nat
      BY <2>3, NodesFinite
    <2> QED  BY <2>1, <2>2, <2>4, <2>5 DEF FirstOfPage
  <1>3. CASE free_qnodes # NULL
    <2>1. Chain(l[FREE], n[FREE], First[FREE], next) /\ First[FREE] = free_qnodes
      BY <1>0, <1>1 DEF Lists, First
    <2>2. l[FREE][0] = free_qnodes /\ 0 < n[FREE]
      BY <2>1, <1>3 DEF Chain
    <2>3. Apart(l, n)
      BY <1>1 DEF Lists
    <2>4. l[q][i] # l[FREE][0]
      BY <2>2, <2>3, <1>0 DEF Apart
    <2> QED  BY <2>2, <2>4, <1>3 DEF NewNode
  <1> QED  BY <1>2, <1>3

LEMMA LinksTyped ==
  ASSUME Typed
  PROVE  /\ DOMAIN Links = Nodes /\ Links = [m \in Nodes |-> Links[m]]
         /\ DOMAIN Cleared = Nodes /\ Cleared = [m \in Nodes |-> Cleared[m]]
         /\ \A m \in Nodes : Cleared[m] = IF m = NewNode THEN NULL ELSE Links[m]
  <1>1. DOMAIN Links = Nodes /\ Links = [m \in Nodes |-> Links[m]]
    BY DEF Typed, Links, PageLinks
  <1> QED  BY <1>1 DEF Cleared

\* Where a new entry goes.
Position(q, d, k) ==
  /\ k \in 0..Len(Contents[q])
  /\ IF Order[q] = "fifo" THEN k = Len(Contents[q])
     ELSE Abstract!InsertionPoint(Contents[q], Key, Key[d], k)

\* A successful que_insert() puts the new node at some place k of the list,
\* which is the right one.
LEMMA InsertPlace ==
  ASSUME Typed, NEW l, NEW n, Held(l, n), NEW q \in Queues, NEW d \in Data,
         ~queue_free[q],
         InsertOnly(q, d) \/ InsertLast(q, d) \/ InsertOrdered(q, d)
  PROVE  \E k \in 0..n[q] : \E links :
           /\ TakeNode(d, links) /\ Splice(l[q], k, NewNode, Links, links)
           /\ links = [m \in Nodes |-> links[m]]
           /\ head' = IF k = 0 THEN [head EXCEPT ![q] = NewNode] ELSE head
           /\ tail' = IF k = n[q] THEN [tail EXCEPT ![q] = NewNode] ELSE tail
           /\ Position(q, d, k)
  <1> DEFINE w == Walk(head[q])
             c == Contents[q]
  <1>1. /\ DOMAIN w = 0..Total /\ \A i \in 0..Total : w[i] = l[q][i]
        /\ n[q] \in 0..Total /\ n[q] = count[q] /\ l[q] \in [Nat -> Nodes \cup {NULL}]
        /\ \A i \in Nat : l[q][i] = NULL <=> i >= n[q]
        /\ \A i \in Nat : i < n[q] => l[q][i] \in Nodes
        /\ Total \in Nat /\ n[q] \in Nat
    BY WalkOfQueue, NodesFinite
  <1>2. /\ DOMAIN Links = Nodes /\ DOMAIN Cleared = Nodes
        /\ Cleared = [m \in Nodes |-> Cleared[m]]
        /\ \A m \in Nodes : Cleared[m] = IF m = NewNode THEN NULL ELSE Links[m]
    BY LinksTyped
  <1>3. /\ Len(c) = n[q] /\ \A i \in 1..n[q] : c[i] = data[l[q][i - 1]]
    BY ContentsAre DEF Shows
  <1>4. Order[q] = compare[q]
    BY DEF Order
  <1>5. NULL \notin Nodes
    BY NullIsNoNode
  <1> HIDE DEF w, c
  <1>6. CASE InsertOnly(q, d)
    <2> DEFINE z == 0
    <2>1. n[q] = 0 /\ l[q][0] = NULL
      BY <1>1, <1>6 DEF InsertOnly
    <2>2. TakeNode(d, Cleared) /\ Splice(l[q], z, NewNode, Links, Cleared)
      BY <1>2, <1>6, <2>1 DEF InsertOnly, Splice
    <2>3. Position(q, d, z)
      BY <1>3, <2>1 DEF Position, Abstract!InsertionPoint, c
    <2>4. /\ head' = IF z = 0 THEN [head EXCEPT ![q] = NewNode] ELSE head
          /\ tail' = IF z = n[q] THEN [tail EXCEPT ![q] = NewNode] ELSE tail
          /\ z \in 0..n[q]
      BY <1>6, <2>1 DEF InsertOnly
    <2> HIDE DEF z
    <2> QED  BY <2>2, <2>3, <2>4, <1>2
  <1>7. CASE InsertLast(q, d)
    <2> DEFINE k == n[q]
               links == [Cleared EXCEPT ![tail[q]] = NewNode]
    <2>1. k # 0 /\ k - 1 \in Nat /\ k - 1 < n[q] /\ l[q][k] = NULL
      BY <1>1, <1>7 DEF InsertLast
    <2>2. tail[q] = l[q][k - 1]
      BY <2>1 DEF Held, Described
    <2>3. l[q][k - 1] # NewNode /\ l[q][k - 1] \in Nodes
      BY <2>1, <1>1, NewNodeIsNew
    <2>4. \A m \in Nodes : links[m] = IF m = tail[q] THEN NewNode ELSE Cleared[m]
      BY <1>2
    <2>5. TakeNode(d, links) /\ links = [m \in Nodes |-> links[m]]
      BY <1>2, <1>7 DEF InsertLast
    <2> HIDE DEF links
    <2>6. Splice(l[q], k, NewNode, Links, links)
      BY <2>1, <2>2, <2>3, <2>4, <1>2, <1>1 DEF Splice
    <2>7. Position(q, d, k)
      BY <1>1, <1>3, <1>4, <1>7 DEF Position, InsertLast, c
    <2>8. /\ head' = IF k = 0 THEN [head EXCEPT ![q] = NewNode] ELSE head
          /\ tail' = IF k = n[q] THEN [tail EXCEPT ![q] = NewNode] ELSE tail
          /\ k \in 0..n[q]
      BY <1>1, <1>7, <2>1 DEF InsertLast
    <2> HIDE DEF k
    <2> QED  BY <2>5, <2>6, <2>7, <2>8
  <1>8. CASE InsertOrdered(q, d)
    <2> DEFINE stop == {m \in Nodes : data[m] \in Data /\ Key[d] < Key[data[m]]}
               L(k) == [m \in Nodes |-> IF m = NewNode THEN w[k]
                                        ELSE IF m = prev(w, k) THEN NewNode
                                        ELSE Cleared[m]]
    <2>1. PICK k \in DOMAIN w :
            /\ StopsAfter(w, k, stop) /\ TakeNode(d, L(k))
            /\ head' = IF k = 0 THEN [head EXCEPT ![q] = NewNode] ELSE head
            /\ tail' = IF k # 0 /\ w[k] = NULL THEN [tail EXCEPT ![q] = NewNode] ELSE tail
      BY <1>8 DEF InsertOrdered, w
    <2>2. n[q] # 0 /\ Order[q] = "ordered"
      BY <1>1, <1>4, <1>8 DEF InsertOrdered
    <2>3. /\ k \in Nat /\ k \in 0..Total
          /\ \A j \in 0..(k - 1) : w[j] # NULL /\ w[j] \notin stop
          /\ w[k] = NULL \/ w[k] \in stop
      BY <2>1, <1>1 DEF StopsAfter
    <2>4. k <= n[q]
      <3>1. SUFFICES ASSUME n[q] < k PROVE FALSE
        BY <2>3, <1>1
      <3>2. n[q] \in 0..(k - 1) /\ w[n[q]] = l[q][n[q]]
        BY <3>1, <2>3, <1>1
      <3> QED  BY <3>2, <2>3, <1>1
    <2>5. w[k] = l[q][k] /\ (w[k] = NULL <=> k = n[q])
      BY <2>3, <2>4, <1>1
    <2>6. \A j \in 0..(k - 1) : w[j] = l[q][j] /\ j < n[q] /\ j \in Nat
      BY <2>3, <2>4, <1>1
    <2>7. L(k) = [m \in Nodes |-> L(k)[m]] /\ Splice(l[q], k, NewNode, Links, L(k))
      <3>1. prev(w, k) = IF k = 0 THEN NULL ELSE l[q][k - 1]
        BY <2>3, <2>6 DEF prev
      <3> QED  BY <3>1, <2>3, <2>5, <1>2, <1>5 DEF Splice
    <2>8. tail' = IF k = n[q] THEN [tail EXCEPT ![q] = NewNode] ELSE tail
      BY <2>1, <2>2, <2>5
    <2>9. Position(q, d, k)
      <3>1. ASSUME NEW j \in 1..k
            PROVE  Key[c[j]] <= Key[d]
        <4>1. j - 1 \in 0..(k - 1) /\ j \in 1..n[q]
          BY <2>3, <2>4, <1>1
        <4>2. l[q][j - 1] \notin stop /\ l[q][j - 1] \in Nodes /\ c[j] = data[l[q][j - 1]]
          BY <4>1, <2>3, <2>6, <1>1, <1>3
        <4>3. c[j] \in Data
          BY <4>1, <4>2, <2>6 DEF Held, Described
        <4>4. Key[c[j]] \in Nat /\ Key[d] \in Nat /\ ~(Key[d] < Key[c[j]])
          BY <4>2, <4>3, QueuesAssumption
        <4> QED  BY <4>4
      <3>2. ASSUME k < n[q]
            PROVE  Key[c[k + 1]] > Key[d]
        <4>1. k + 1 \in 1..n[q] /\ (k + 1) - 1 = k
          BY <3>2, <2>3, <1>1
        <4>2. c[k + 1] = data[l[q][k]] /\ l[q][k] \in stop
          BY <4>1, <3>2, <1>3, <2>3, <2>5
        <4>3. Key[c[k + 1]] \in Nat /\ Key[d] \in Nat
          BY <4>2, QueuesAssumption
        <4> QED  BY <4>2, <4>3
      <3>3. k \in 0..n[q]
        BY <2>3, <2>4, <1>1
      <3> HIDE DEF stop
      <3> QED  BY <3>1, <3>2, <3>3, <2>2, <1>3 DEF Position, Abstract!InsertionPoint, c
    <2>10. k \in 0..n[q]
      BY <2>3, <2>4, <1>1
    <2> HIDE DEF L, stop
    <2> QED  BY <2>1, <2>7, <2>8, <2>9, <2>10
  <1> QED  BY <1>6, <1>7, <1>8

\* A list that stays as it is shows the same contents.
LEMMA ContentsKept ==
  ASSUME NEW l, NEW n, Held(l, n), NEW l2, NEW n2, Held(l2, n2)', NEW b \in Queues,
         l2[b] = l[b], n2[b] = n[b], data' = data
  PROVE  Contents'[b] = Contents[b]
  <1>1. Shows(l, n) /\ Shows(l2, n2)'
    BY ContentsAre, ContentsAreNext
  <1>2. /\ Contents[b] \in Seq(Data) /\ Len(Contents[b]) = n[b]
        /\ \A i \in 1..n[b] : Contents[b][i] = data[l[b][i - 1]]
        /\ Contents'[b] \in Seq(Data) /\ Len(Contents'[b]) = n[b]
        /\ \A i \in 1..n[b] : Contents'[b][i] = data[l[b][i - 1]]
    BY <1>1 DEF Shows
  <1>3. \A i \in 1..Len(Contents[b]) : Contents[b][i] = Contents'[b][i]
    BY <1>2
  <1> QED  BY <1>2, <1>3, SameSequence

\* A step that leaves the lists alone.
LEMMA NothingMoves ==
  ASSUME Typed, NEW l, NEW n, Held(l, n), UNCHANGED <<queueVars, nodeVars>>
  PROVE  Typed' /\ Held(l, n)' /\ Contents' = Contents /\ Order' = Order
  <1>1. Typed'
    BY DEF Typed, queueVars, nodeVars
  <1>2. First' = First
    BY DEF First, queueVars, nodeVars
  <1>3. Lists(l, n, First', next', QNODES_PER_PAGE * pages')
    BY <1>2 DEF Held, nodeVars
  <1>4. Described(l, n)'
    BY DEF Held, Described, queueVars, nodeVars
  <1>5. Held(l, n)'
    BY <1>3, <1>4 DEF Held
  <1>6. \A b \in Queues : Contents'[b] = Contents[b]
    BY <1>5, ContentsKept DEF nodeVars
  <1>7. Contents = [b \in Queues |-> Contents[b]] /\ Contents' = [b \in Queues |-> Contents'[b]]
    BY <1>5, ContentsAre, ContentsAreNext DEF Shows
  <1>8. Contents' = Contents
    BY <1>6, <1>7
  <1>9. Order' = Order
    BY DEF Order, queueVars
  <1> QED  BY <1>1, <1>5, <1>8, <1>9

\* What a step has to do: keep the invariant, and be a step of QueueSpec.
Good ==
  /\ Typed' /\ (\E l, n : Held(l, n)') /\ PanicsOnlyWhenOut'
  /\ Abstract!AbsNext \/ UNCHANGED Abstract!absVars

LEMMA OrderOf ==
  ASSUME Typed, NEW q \in Queues
  PROVE  Order[q] = "free" <=> queue_free[q]
  BY DEF Typed, Order

LEMMA PanicStep ==
  ASSUME ListsInv, Panic, OutOfNodes
  PROVE  Good
  <1>1. PICK l, n : Held(l, n)
    BY DEF ListsInv
  <1>2. Typed' /\ Held(l, n)' /\ Contents' = Contents /\ Order' = Order
    BY <1>1, NothingMoves DEF ListsInv, Panic
  <1>3. PanicsOnlyWhenOut'
    BY DEF PanicsOnlyWhenOut, OutOfNodes, Panic, nodeVars
  <1>4. Abstract!AbsHalt
    BY <1>2 DEF Abstract!AbsHalt, Panic
  <1> QED  BY <1>2, <1>3, <1>4 DEF Good, Abstract!AbsNext

\* A call that answers from what is there.
LEMMA AnswerStep ==
  ASSUME ListsInv, NEW q \in Queues, InUse(q), UNCHANGED <<queueVars, nodeVars, halted>>,
         \/ count[q] = 0 /\ result' = <<"E_EMPTY", None>>
         \/ count[q] # 0 /\ result' = <<"E_SUCCESS", data[head[q]]>>
         \/ result' = <<"E_SUCCESS", count[q]>>
         \/ count[q] # 0 /\ result' = <<"E_NOT_FOUND", None>>
  PROVE  Good
  <1>1. PICK l, n : Held(l, n)
    BY DEF ListsInv
  <1>2. Typed' /\ Held(l, n)' /\ Contents' = Contents /\ Order' = Order
    BY <1>1, NothingMoves DEF ListsInv
  <1>3. PanicsOnlyWhenOut'
    BY DEF PanicsOnlyWhenOut, InUse
  <1>4. /\ Contents[q] \in Seq(Data) /\ Len(Contents[q]) = n[q]
        /\ \A i \in 1..n[q] : Contents[q][i] = data[l[q][i - 1]]
    BY <1>1, ContentsAre DEF Shows
  <1>5. n[q] = count[q] /\ n[q] \in Nat /\ l[q][0] = head[q]
    BY <1>1, WalkOfQueue, NodesFinite
  <1>6. (Contents[q] = <<>> <=> count[q] = 0) /\ Len(Contents[q]) = count[q]
    BY <1>4, <1>5
  <1>7. ASSUME count[q] # 0
        PROVE  Head(Contents[q]) = data[head[q]]
    <2>1. 1 \in 1..n[q]
      BY <1>5, <1>7
    <2>2. Contents[q][1] = data[l[q][1 - 1]]
      BY <2>1, <1>4
    <2>3. Head(Contents[q]) = Contents[q][1]
      BY <2>1, <1>4
    <2> QED  BY <2>2, <2>3, <1>5
  <1>8. Abstract!AbsAnswer(q)
    BY <1>2, <1>6, <1>7 DEF Abstract!AbsAnswer, Abstract!None, None
  <1>9. Order[q] # "free"
    BY OrderOf DEF ListsInv, InUse
  <1>10. Abstract!AbsNext
    BY <1>8, <1>9 DEF Abstract!AbsNext
  <1> QED  BY <1>2, <1>3, <1>10 DEF Good

LEMMA InsertStep ==
  ASSUME ListsInv, NEW q \in Queues, NEW d \in Data, que_insert(q, d), ~OutOfNodes
  PROVE  Good
  <1>1. PICK l, n : Held(l, n)
    BY DEF ListsInv
  <1>2. Typed /\ ~queue_free[q] /\ ~halted
    BY DEF ListsInv, que_insert, InUse
  <1>3. /\ InsertOnly(q, d) \/ InsertLast(q, d) \/ InsertOrdered(q, d)
        /\ count' = [count EXCEPT ![q] = @ + 1]
        /\ result' = <<"E_SUCCESS", None>> /\ halted' = halted
        /\ UNCHANGED <<compare, queue_free>>
    BY <1>1, AlwaysSane DEF que_insert, Returns
  <1>P. PICK k \in 0..n[q] : \E links :
           /\ TakeNode(d, links) /\ Splice(l[q], k, NewNode, Links, links)
           /\ links = [m \in Nodes |-> links[m]]
           /\ head' = IF k = 0 THEN [head EXCEPT ![q] = NewNode] ELSE head
           /\ tail' = IF k = n[q] THEN [tail EXCEPT ![q] = NewNode] ELSE tail
           /\ Position(q, d, k)
    BY <1>1, <1>2, <1>3, InsertPlace
  <1>4. PICK links :
           /\ TakeNode(d, links) /\ Splice(l[q], k, NewNode, Links, links)
           /\ links = [m \in Nodes |-> links[m]]
           /\ head' = IF k = 0 THEN [head EXCEPT ![q] = NewNode] ELSE head
           /\ tail' = IF k = n[q] THEN [tail EXCEPT ![q] = NewNode] ELSE tail
           /\ Position(q, d, k)
    BY <1>P
  <1>E. Enters(n, q, d, k, links) /\ Splice(l[q], k, NewNode, Links, links)
    BY <1>3, <1>4 DEF Enters
  <1>5. PICK l2, n2 : Held(l2, n2)' /\ Grown(l, n, q, k, NewNode, l2, n2)
    BY <1>1, <1>2, <1>E, Insertion
  <1>6. /\ data' = [data EXCEPT ![NewNode] = d] /\ next' = links
        /\ pages' = IF free_qnodes = NULL THEN pages + 1 ELSE pages
    BY <1>4 DEF TakeNode
  <1>7. Contents' = [Contents EXCEPT ![q] = Abstract!InsertAfter(@, d, k)]
    <2>1. NewNode \in Nodes
      BY <1>5 DEF Grown
    <2>2. Stored(NewNode, d)
      BY <1>6 DEF Stored
    <2>3. Becomes(q, Abstract!InsertAfter(Contents[q], d, k))
      BY <2>1, <2>2, <1>1, <1>2, <1>5, ContentsPut
    <2> QED  BY <2>3 DEF Becomes
  <1>8. Typed'
    <2>1. pages' \in 1..MaxPages
      BY <1>2, <1>6, QueuesAssumption DEF Typed, OutOfNodes
    <2>2. /\ DOMAIN head' = Queues /\ DOMAIN tail' = Queues /\ DOMAIN count' = Queues
          /\ head' = [b \in Queues |-> head'[b]] /\ tail' = [b \in Queues |-> tail'[b]]
          /\ count' = [b \in Queues |-> count'[b]]
      BY <1>2, <1>3, <1>4 DEF Typed
    <2>3. /\ DOMAIN next' = Nodes /\ next' = [m \in Nodes |-> next'[m]]
          /\ DOMAIN data' = Nodes /\ data' = [m \in Nodes |-> data'[m]]
      BY <1>2, <1>4, <1>6 DEF Typed
    <2>4. UNCHANGED <<compare, queue_free>>
      BY <1>3
    <2> QED  BY <2>1, <2>2, <2>3, <2>4, <1>2 DEF Typed
  <1>9. Order' = Order
    BY <1>3 DEF Order
  <1>10. Abstract!AbsInsert(q, d)
    <2>1. /\ k \in 0..Len(Contents[q])
          /\ IF Order[q] = "fifo" THEN k = Len(Contents[q])
             ELSE Abstract!InsertionPoint(Contents[q], Key, Key[d], k)
      BY <1>4 DEF Position
    <2> QED  BY <2>1, <1>3, <1>7, <1>9 DEF Abstract!AbsInsert, Abstract!None, None
  <1>11. Order[q] # "free"
    BY <1>2, OrderOf
  <1>12. Abstract!AbsNext
    BY <1>10, <1>11 DEF Abstract!AbsNext
  <1>13. PanicsOnlyWhenOut'
    BY <1>2, <1>3 DEF PanicsOnlyWhenOut
  <1> QED  BY <1>5, <1>8, <1>12, <1>13 DEF Good

\* An entry is unlinked and its node freed.
LEMMA UnlinkStep ==
  ASSUME ListsInv, NEW l, NEW n, Held(l, n), NEW q \in Queues, InUse(q),
         NEW k \in Nat, k < n[q], NEW links, DOMAIN links = Nodes,
         Bypass(l[q], k, next, links), Leaves(l, q, k, l[q][k], links),
         UNCHANGED <<compare, halted>>
  PROVE  /\ Typed' /\ (\E l2, n2 : Held(l2, n2)') /\ PanicsOnlyWhenOut'
         /\ Order' = Order /\ Order[q] # "free"
         /\ Becomes(q, Abstract!DropEntry(Contents[q], k + 1))
  <1>1. Typed /\ ~queue_free[q] /\ ~halted
    BY DEF ListsInv, InUse
  <1>2. PICK x : x = l[q][k]
    OBVIOUS
  <1>3. PICK l2, n2 : Held(l2, n2)' /\ Shrunk(l, n, q, k, x, l2, n2)
    BY <1>1, <1>2, Removal
  <1>4. Stored(x, None)
    BY <1>2 DEF Stored, Leaves, qnode_free
  <1>5. Becomes(q, Abstract!DropEntry(Contents[q], k + 1))
    BY <1>1, <1>2, <1>3, <1>4, ContentsDropped
  <1>6. Typed'
    <2>1. /\ DOMAIN head' = Queues /\ DOMAIN tail' = Queues /\ DOMAIN count' = Queues
          /\ head' = [b \in Queues |-> head'[b]] /\ tail' = [b \in Queues |-> tail'[b]]
          /\ count' = [b \in Queues |-> count'[b]]
      BY <1>1 DEF Typed, Leaves
    <2>2. /\ DOMAIN next' = Nodes /\ next' = [m \in Nodes |-> next'[m]]
          /\ DOMAIN data' = Nodes /\ data' = [m \in Nodes |-> data'[m]]
      BY <1>1 DEF Typed, Leaves, qnode_free
    <2>3. UNCHANGED <<compare, queue_free, pages>>
      BY DEF Leaves, qnode_free
    <2> QED  BY <2>1, <2>2, <2>3, <1>1 DEF Typed
  <1>7. Order' = Order
    BY DEF Order, Leaves
  <1>8. Order[q] # "free"
    BY <1>1, OrderOf
  <1> QED  BY <1>1, <1>3, <1>5, <1>6, <1>7, <1>8 DEF PanicsOnlyWhenOut

LEMMA RemoveStep ==
  ASSUME ListsInv, NEW q \in Queues, que_remove(q)
  PROVE  Good
  <1>1. PICK l, n : Held(l, n)
    BY DEF ListsInv
  <1>2. Typed /\ InUse(q) /\ Sane(q)
    BY <1>1, AlwaysSane DEF ListsInv, que_remove
  <1>3. CASE count[q] = 0
    <2>1. UNCHANGED <<queueVars, nodeVars, halted>> /\ result' = <<"E_EMPTY", None>>
      BY <1>3 DEF que_remove, Returns
    <2> QED  BY <2>1, <1>2, <1>3, AnswerStep
  <1>4. CASE count[q] # 0
    <2> DEFINE z == 0
               c == Contents[q]
    <2>1. /\ head' = [head EXCEPT ![q] = next[head[q]]]
          /\ tail' = IF next[head[q]] = NULL THEN [tail EXCEPT ![q] = NULL] ELSE tail
          /\ count' = [count EXCEPT ![q] = @ - 1]
          /\ qnode_free(head[q], next)
          /\ result' = <<"E_SUCCESS", data[head[q]]>>
          /\ UNCHANGED <<compare, queue_free, halted>>
      BY <1>2, <1>4 DEF que_remove, Returns
    <2>2. n[q] = count[q] /\ n[q] \in Nat /\ l[q][0] = head[q]
      BY <1>1, WalkOfQueue, NodesFinite
    <2>3. z \in Nat /\ z < n[q] /\ l[q][z] = head[q] /\ z + 1 = 1
      BY <2>2, <1>4
    <2>4. Leaves(l, q, z, l[q][z], next)
      BY <2>1, <2>3 DEF Leaves
    <2>5. DOMAIN next = Nodes /\ Bypass(l[q], z, next, next)
      BY <1>2 DEF Typed, Bypass
    <2>6. UNCHANGED <<compare, halted>>
      BY <2>1
    <2> HIDE DEF z
    <2>7. /\ Typed' /\ (\E l2, n2 : Held(l2, n2)') /\ PanicsOnlyWhenOut'
          /\ Order' = Order /\ Order[q] # "free"
          /\ Becomes(q, Abstract!DropEntry(Contents[q], z + 1))
      BY <1>1, <1>2, <2>3, <2>4, <2>5, <2>6, UnlinkStep
    <2>8. /\ c \in Seq(Data) /\ Len(c) = n[q]
          /\ \A i \in 1..n[q] : c[i] = data[l[q][i - 1]]
      BY <1>1, ContentsAre DEF Shows
    <2> HIDE DEF c
    <2>9. Head(c) = data[head[q]] /\ c # <<>>
      <3>1. 1 \in 1..n[q] /\ 1 - 1 = 0
        BY <2>2, <1>4
      <3>2. c[1] = data[l[q][1 - 1]]
        BY <3>1, <2>8
      <3>3. Head(c) = c[1] /\ c # <<>>
        BY <3>1, <2>8
      <3> QED  BY <3>1, <3>2, <3>3, <2>2
    <2>10. Abstract!DropEntry(c, 1) = Tail(c)
      <3>1. Tail(c) = [i \in 1..(Len(c) - 1) |-> c[i + 1]]
        <4>1. Tail(c) \in Seq(Data) /\ Len(Tail(c)) = Len(c) - 1
          BY <2>8, <2>9
        <4>2. \A i \in 1..(Len(c) - 1) : Tail(c)[i] = c[i + 1]
          BY <2>8, <2>9
        <4>3. Tail(c) = [i \in 1..(Len(c) - 1) |-> Tail(c)[i]]
          <5>1. \A s \in Seq(Data) : s = [i \in 1..Len(s) |-> s[i]]
            OBVIOUS
          <5> QED  BY <5>1, <4>1
        <4> QED  BY <4>2, <4>3
      <3>2. Abstract!DropEntry(c, 1) = [j \in 1..(Len(c) - 1) |-> IF j < 1 THEN c[j] ELSE c[j + 1]]
        BY DEF Abstract!DropEntry
      <3>3. \A j \in 1..(Len(c) - 1) : ~(j < 1)
        BY <2>8, <2>2
      <3> QED  BY <3>1, <3>2, <3>3
    <2>11. Contents' = [Contents EXCEPT ![q] = Tail(c)]
      BY <2>3, <2>7, <2>10 DEF Becomes, c
    <2>12. Abstract!AbsRemove(q)
      BY <2>1, <2>7, <2>9, <2>11 DEF Abstract!AbsRemove, c
    <2>13. Abstract!AbsNext
      BY <2>7, <2>12 DEF Abstract!AbsNext
    <2> QED  BY <2>7, <2>13 DEF Good
  <1> QED  BY <1>3, <1>4

LEMMA RemoveByStep ==
  ASSUME ListsInv, NEW q \in Queues, NEW d \in Data, que_remove_by(q, d)
  PROVE  Good
  <1> DEFINE w == Walk(head[q])
             c == Contents[q]
             stop == {m \in Nodes : data[m] = d}
             B(k) == [m \in Nodes |-> IF m = prev(w, k) THEN next[w[k]] ELSE next[m]]
  <1>1. PICK l, n : Held(l, n)
    BY DEF ListsInv
  <1>2. Typed /\ InUse(q) /\ Sane(q)
    BY <1>1, AlwaysSane DEF ListsInv, que_remove_by
  <1>3. CASE count[q] = 0
    <2>1. UNCHANGED <<queueVars, nodeVars, halted>> /\ result' = <<"E_EMPTY", None>>
      BY <1>3 DEF que_remove_by, Returns
    <2> QED  BY <2>1, <1>2, <1>3, AnswerStep
  <1>4. CASE count[q] # 0
    <2>1. PICK k \in DOMAIN w :
            /\ StopsAfter(w, k, stop)
            /\ \/ /\ w[k] = NULL /\ Returns("E_NOT_FOUND", None)
                  /\ UNCHANGED <<queueVars, nodeVars>>
               \/ w[k] # NULL /\ Unlink(q, w, k)
      BY <1>2, <1>4 DEF que_remove_by
    <2>2. CASE w[k] = NULL
      <3>1. UNCHANGED <<queueVars, nodeVars, halted>> /\ result' = <<"E_NOT_FOUND", None>>
        BY <2>1, <2>2, Zenon DEF Returns
      <3> QED  BY <3>1, <1>2, <1>4, AnswerStep
    <2>3. CASE w[k] # NULL
      <3>1. /\ DOMAIN w = 0..Total /\ \A i \in 0..Total : w[i] = l[q][i]
            /\ n[q] \in 0..Total /\ n[q] = count[q] /\ n[q] \in Nat /\ Total \in Nat
            /\ \A i \in Nat : l[q][i] = NULL <=> i >= n[q]
            /\ \A i \in Nat : i < n[q] => l[q][i] \in Nodes
        BY <1>1, WalkOfQueue, NodesFinite
      <3>2. /\ c \in Seq(Data) /\ Len(c) = n[q]
            /\ \A i \in 1..n[q] : c[i] = data[l[q][i - 1]]
        BY <1>1, ContentsAre DEF Shows
      <3> HIDE DEF w, c
      <3>3. /\ k \in Nat /\ k < n[q] /\ w[k] = l[q][k] /\ k + 1 \in 1..n[q]
            /\ \A j \in 0..(k - 1) : w[j] = l[q][j] /\ j \in Nat /\ j < n[q]
        <4>1. k \in Nat /\ k \in 0..Total
          BY <2>1, <3>1
        <4>2. w[k] = l[q][k] /\ k < n[q]
          BY <4>1, <2>3, <3>1
        <4>3. \A j \in 0..(k - 1) : j \in 0..Total /\ j \in Nat /\ j < n[q]
          BY <4>1, <4>2, <3>1
        <4> QED  BY <4>1, <4>2, <4>3, <3>1
      <3>4. prev(w, k) = IF k = 0 THEN NULL ELSE l[q][k - 1]
        BY <3>3 DEF prev
      <3>5. DOMAIN B(k) = Nodes /\ Bypass(l[q], k, next, B(k))
        BY <3>3, <3>4, NullIsNoNode DEF Bypass
      <3>6. Leaves(l, q, k, l[q][k], B(k)) /\ UNCHANGED <<compare, halted>>
            /\ result' = <<"E_SUCCESS", None>>
        BY <2>1, <2>3, <3>3, <3>4 DEF Unlink, Leaves, Returns
      <3> HIDE DEF B
      <3>7. /\ Typed' /\ (\E l2, n2 : Held(l2, n2)') /\ PanicsOnlyWhenOut'
            /\ Order' = Order /\ Order[q] # "free"
            /\ Becomes(q, Abstract!DropEntry(Contents[q], k + 1))
        BY <1>1, <1>2, <3>3, <3>5, <3>6, UnlinkStep
      <3>8. c[k + 1] = d
        <4>1. w[k] \in stop
          BY <2>1, <2>3 DEF StopsAfter
        <4>2. c[k + 1] = data[l[q][k]]
          BY <3>2, <3>3
        <4> QED  BY <4>1, <4>2, <3>3
      <3>9. ASSUME NEW j \in 1..n[q], c[j] = d
            PROVE  k + 1 <= j
        <4>1. SUFFICES ASSUME j < k + 1 PROVE FALSE
          BY <3>1, <3>3
        <4>2. j - 1 \in 0..(k - 1) /\ j - 1 \in Nat
          BY <4>1, <3>1, <3>3
        <4>3. w[j - 1] \notin stop
          BY <4>2, <2>1 DEF StopsAfter
        <4>4. w[j - 1] = l[q][j - 1] /\ l[q][j - 1] \in Nodes /\ c[j] = data[l[q][j - 1]]
          BY <4>2, <3>1, <3>2, <3>3
        <4> QED  BY <4>3, <4>4, <3>9
      <3>10. Abstract!FirstEntry(c, d, k + 1) /\ k + 1 \in 1..Len(c)
        BY <3>2, <3>3, <3>8, <3>9 DEF Abstract!FirstEntry, Abstract!IsFirst
      <3>11. Abstract!AbsRemoveBy(q, d)
        BY <3>6, <3>7, <3>10 DEF Abstract!AbsRemoveBy, Abstract!None, None, Becomes, c
      <3>12. Abstract!AbsNext
        BY <3>7, <3>11 DEF Abstract!AbsNext
      <3> QED  BY <3>7, <3>12 DEF Good
    <2> QED  BY <2>2, <2>3
  <1> QED  BY <1>3, <1>4

Nothing == [i \in Nat |-> NULL]

LEMMA EmptyChain ==
  ASSUME NEW links
  PROVE  Chain(Nothing, 0, NULL, links)
  BY DEF Chain, Nothing

\* que_free() forgets a list; que_alloc() takes a queue that has none.
LEMMA FreeStep ==
  ASSUME ListsInv, NEW q \in Queues, que_free(q)
  PROVE  Good
  <1> DEFINE Q == QNODES_PER_PAGE
  <1>0. FREE \in Places /\ q \in Places /\ q # FREE
    BY PlaceOfQueue
  <1>1. PICK l, n : Held(l, n)
    BY DEF ListsInv
  <1>2. /\ Typed /\ InUse(q) /\ Lists(l, n, First, next, Q * pages) /\ Described(l, n)
        /\ ~queue_free[q] /\ ~halted
    BY <1>1 DEF ListsInv, que_free, Held, InUse
  <1>3. /\ queue_free' = [queue_free EXCEPT ![q] = TRUE]
        /\ head' = [head EXCEPT ![q] = NULL] /\ tail' = [tail EXCEPT ![q] = NULL]
        /\ count' = [count EXCEPT ![q] = 0] /\ compare' = [compare EXCEPT ![q] = "none"]
        /\ UNCHANGED <<free_qnodes, next, data, pages, result, halted>>
    BY DEF que_free, nodeVars
  <1>4. PICK l2, n2 : l2 = [l EXCEPT ![q] = Nothing] /\ n2 = [n EXCEPT ![q] = 0]
    OBVIOUS
  <1>5. /\ l2[q] = Nothing /\ n2[q] = 0
        /\ \A b \in Places : b # q => l2[b] = l[b] /\ n2[b] = n[b]
        /\ l2 \in [Places -> [Nat -> Nodes \cup {NULL}]] /\ n2 \in [Places -> Nat]
    BY <1>0, <1>2, <1>4 DEF Lists, Nothing
  <1>6. Lists(l2, n2, First', next', Q * pages')
    <2>1. ASSUME NEW b \in Places
          PROVE  Chain(l2[b], n2[b], First'[b], next')
      <3>1. CASE b = q
        <4>1. First'[q] = NULL
          BY <1>0, <1>2, <1>3 DEF First, Typed
        <4> QED  BY <4>1, <3>1, <1>5, EmptyChain
      <3>2. CASE b # q
        <4>1. First'[b] = First[b]
          BY <3>2, <1>2, <1>3 DEF First, Typed, Places
        <4> QED  BY <4>1, <3>2, <1>2, <1>3, <1>5 DEF Lists
      <3> QED  BY <3>1, <3>2
    <2>2. Apart(l2, n2)
      <3>1. ASSUME NEW a \in Places, NEW b \in Places, NEW i \in Nat, NEW j \in Nat,
                   i < n2[a], j < n2[b], l2[a][i] = l2[b][j]
            PROVE  a = b /\ i = j
        <4>1. a # q /\ b # q
          BY <3>1, <1>5
        <4>2. Apart(l, n)
          BY <1>2 DEF Lists
        <4>3. i < n[a] /\ j < n[b] /\ l[a][i] = l[b][j]
          BY <4>1, <3>1, <1>5
        <4> QED  BY <4>2, <4>3 DEF Apart
      <3> QED  BY <3>1 DEF Apart
    <2>3. ASSUME NEW a \in Places, NEW i \in Nat, i < n2[a]
          PROVE  l2[a][i] <= Q * pages
      <3>1. a # q
        BY <2>3, <1>5
      <3> QED  BY <3>1, <2>3, <1>2, <1>5 DEF Lists
    <2> QED  BY <2>1, <2>2, <2>3, <1>3, <1>5 DEF Lists
  <1>7. ASSUME NEW b \in Queues
        PROVE  /\ n2[b] = count'[b]
               /\ tail'[b] = IF n2[b] = 0 THEN NULL ELSE l2[b][n2[b] - 1]
               /\ queue_free'[b] => n2[b] = 0
               /\ \A i \in Nat : i < n2[b] => data'[l2[b][i]] \in Data
    <2>1. CASE b = q
      BY <2>1, <1>2, <1>3, <1>5 DEF Typed
    <2>2. CASE b # q
      <3>1. l2[b] = l[b] /\ n2[b] = n[b]
        BY <2>2, <1>5, PlaceOfQueue
      <3>2. count'[b] = count[b] /\ tail'[b] = tail[b] /\ queue_free'[b] = queue_free[b]
        BY <2>2, <1>2, <1>3 DEF Typed
      <3> QED  BY <3>1, <3>2, <1>2, <1>3 DEF Described
    <2> QED  BY <2>1, <2>2
  <1>8. Held(l2, n2)'
    BY <1>6, <1>7 DEF Held, Described
  <1>9. Typed'
    BY <1>2, <1>3 DEF Typed
  <1>10. Contents' = [Contents EXCEPT ![q] = <<>>]
    <2>1. Shows(l, n) /\ Shows(l2, n2)'
      BY <1>1, <1>8, ContentsAre, ContentsAreNext
    <2>2. \A b \in Queues : b # q => Contents'[b] = Contents[b]
      BY <1>1, <1>3, <1>5, <1>8, ContentsKept, PlaceOfQueue
    <2>3. Contents'[q] = <<>>
      BY <2>1, <1>5 DEF Shows
    <2>4. Contents = [b \in Queues |-> Contents[b]] /\ Contents' = [b \in Queues |-> Contents'[b]]
      BY <2>1 DEF Shows
    <2> QED  BY <2>2, <2>3, <2>4
  <1>11. Order' = [Order EXCEPT ![q] = "free"]
    BY <1>2, <1>3 DEF Order, Typed
  <1>12. Order[q] # "free"
    BY <1>2, OrderOf
  <1>13. Abstract!AbsFree(q)
    BY <1>3, <1>10, <1>11, <1>12 DEF Abstract!AbsFree
  <1>14. Abstract!AbsNext
    BY <1>12, <1>13 DEF Abstract!AbsNext
  <1> QED  BY <1>2, <1>3, <1>8, <1>9, <1>14 DEF Good, PanicsOnlyWhenOut

LEMMA AllocStep ==
  ASSUME ListsInv, NEW c \in {"fifo", "ordered"}, que_alloc(c)
  PROVE  Good
  <1>1. PICK l, n : Held(l, n)
    BY DEF ListsInv
  <1>2. Typed /\ ~halted /\ Described(l, n)
    BY <1>1 DEF ListsInv, que_alloc, Held
  <1>3. CASE \E q \in Queues :
               /\ queue_free[q]
               /\ queue_free' = [queue_free EXCEPT ![q] = FALSE]
               /\ head' = [head EXCEPT ![q] = NULL] /\ tail' = [tail EXCEPT ![q] = NULL]
               /\ count' = [count EXCEPT ![q] = 0] /\ compare' = [compare EXCEPT ![q] = c]
               /\ Returns("E_SUCCESS", q) /\ UNCHANGED nodeVars
    <2>1. PICK q \in Queues :
               /\ queue_free[q]
               /\ queue_free' = [queue_free EXCEPT ![q] = FALSE]
               /\ head' = [head EXCEPT ![q] = NULL] /\ tail' = [tail EXCEPT ![q] = NULL]
               /\ count' = [count EXCEPT ![q] = 0] /\ compare' = [compare EXCEPT ![q] = c]
               /\ Returns("E_SUCCESS", q) /\ UNCHANGED nodeVars
      BY <1>3
    <2>2. n[q] = 0 /\ count[q] = 0 /\ tail[q] = NULL
      BY <2>1, <1>2 DEF Described
    <2>3. head[q] = NULL
      BY <2>2, <1>1, WalkOfQueue
    <2>4. head' = head /\ tail' = tail /\ count' = count /\ UNCHANGED nodeVars
      BY <2>1, <2>2, <2>3, <1>2, ZenonT(30) DEF Typed
    <2>5. Lists(l, n, First', next', QNODES_PER_PAGE * pages')
      BY <2>4, <1>1 DEF Held, First, nodeVars
    <2>6. ASSUME NEW b \in Queues
          PROVE  /\ n[b] = count'[b]
                 /\ tail'[b] = IF n[b] = 0 THEN NULL ELSE l[b][n[b] - 1]
                 /\ queue_free'[b] => n[b] = 0
                 /\ \A i \in Nat : i < n[b] => data'[l[b][i]] \in Data
      <3>1. queue_free'[b] => queue_free[b]
        BY <2>1, <1>2 DEF Typed
      <3> QED  BY <3>1, <2>4, <1>2 DEF Described, nodeVars
    <2>7. Held(l, n)'
      BY <2>5, <2>6 DEF Held, Described
    <2>8. Typed'
      BY <2>1, <2>4, <1>2 DEF Typed, nodeVars
    <2>9. Contents' = Contents
      <3>1. \A b \in Queues : Contents'[b] = Contents[b]
        BY <1>1, <2>4, <2>7, ContentsKept DEF nodeVars
      <3>2. Contents = [b \in Queues |-> Contents[b]] /\ Contents' = [b \in Queues |-> Contents'[b]]
        BY <1>1, <2>7, ContentsAre, ContentsAreNext DEF Shows
      <3> QED  BY <3>1, <3>2
    <2>10. Order' = [Order EXCEPT ![q] = c] /\ Order[q] = "free"
      BY <2>1, <1>2 DEF Order, Typed
    <2>11. Abstract!AbsAlloc(q, c)
      BY <2>1, <2>9, <2>10 DEF Abstract!AbsAlloc, Returns
    <2>12. Abstract!AbsNext
      BY <2>11 DEF Abstract!AbsNext
    <2> QED  BY <2>1, <2>7, <2>8, <2>12, <1>2 DEF Good, PanicsOnlyWhenOut, Returns
  <1>4. CASE /\ \A q \in Queues : ~queue_free[q]
             /\ Returns("NULL", None) /\ UNCHANGED <<queueVars, nodeVars>>
    <2>1. Typed' /\ Held(l, n)' /\ Contents' = Contents /\ Order' = Order
      BY <1>1, <1>2, <1>4, NothingMoves
    <2>2. \A q \in Queues : Order[q] # "free"
      BY <1>2, <1>4, OrderOf
    <2>3. Abstract!AbsAllocFails
      BY <2>1, <2>2, <1>4 DEF Abstract!AbsAllocFails, Abstract!None, None, Returns
    <2>4. Abstract!AbsNext
      BY <2>3 DEF Abstract!AbsNext
    <2> QED  BY <2>1, <2>4, <1>2, <1>4 DEF Good, PanicsOnlyWhenOut, Returns
  <1> QED  BY <1>3, <1>4 DEF que_alloc

LEMMA StepGood ==
  ASSUME ListsInv, [Next]_vars
  PROVE  Good
  <1>1. CASE UNCHANGED vars
    <2>1. PICK l, n : Held(l, n)
      BY DEF ListsInv
    <2>2. Typed' /\ Held(l, n)' /\ Contents' = Contents /\ Order' = Order
      BY <2>1, <1>1, NothingMoves DEF ListsInv, vars, queueVars, nodeVars
    <2>3. PanicsOnlyWhenOut'
      BY <1>1 DEF ListsInv, PanicsOnlyWhenOut, OutOfNodes, vars
    <2>4. UNCHANGED Abstract!absVars
      BY <2>2, <1>1 DEF Abstract!absVars, vars
    <2> QED  BY <2>2, <2>3, <2>4 DEF Good
  <1>2. ASSUME NEW c \in {"fifo", "ordered"}, que_alloc(c)
        PROVE  Good
    BY <1>2, AllocStep
  <1>3. ASSUME NEW q \in Queues, que_free(q)
        PROVE  Good
    BY <1>3, FreeStep
  <1>4. ASSUME NEW q \in Queues, que_length(q)
        PROVE  Good
    <2>1. InUse(q) /\ UNCHANGED <<queueVars, nodeVars, halted>>
          /\ result' = <<"E_SUCCESS", count[q]>>
      BY <1>4 DEF que_length, Returns
    <2> QED  BY <2>1, AnswerStep
  <1>5. ASSUME NEW q \in Queues, que_peek(q)
        PROVE  Good
    <2>1. InUse(q) /\ UNCHANGED <<queueVars, nodeVars, halted>>
          /\ \/ count[q] = 0 /\ result' = <<"E_EMPTY", None>>
             \/ count[q] # 0 /\ result' = <<"E_SUCCESS", data[head[q]]>>
      <3>1. Sane(q)
        BY AlwaysSane DEF ListsInv
      <3> QED  BY <3>1, <1>5 DEF que_peek, Returns
    <2> QED  BY <2>1, AnswerStep
  <1>6. ASSUME NEW q \in Queues, que_remove(q)
        PROVE  Good
    BY <1>6, RemoveStep
  <1>7. ASSUME NEW q \in Queues, NEW d \in Data, que_insert(q, d)
        PROVE  Good
    <2>1. CASE OutOfNodes
      BY <1>7, <2>1, PanicStep DEF que_insert
    <2>2. CASE ~OutOfNodes
      BY <1>7, <2>2, InsertStep
    <2> QED  BY <2>1, <2>2
  <1>8. ASSUME NEW q \in Queues, NEW d \in Data, que_remove_by(q, d)
        PROVE  Good
    BY <1>8, RemoveByStep
  <1>9. CASE Halted
    BY <1>1, <1>9 DEF Halted
  <1> QED  BY <1>1, <1>2, <1>3, <1>4, <1>5, <1>6, <1>7, <1>8, <1>9 DEF Next

\* At the start everything qnode_add_page() carved up is on the free list.
LEMMA StartHeld ==
  ASSUME Init
  PROVE  \E l, n : Held(l, n) /\ \A q \in Queues : n[q] = 0
  <1> DEFINE Q == QNODES_PER_PAGE
             l == [a \in Places |-> IF a = FREE THEN PageList(1) ELSE Nothing]
             n == [a \in Places |-> IF a = FREE THEN Q ELSE 0]
  <1>0. FREE \in Places /\ FREE \notin Queues /\ \A q \in Queues : q \in Places /\ q # FREE
    BY PlaceOfQueue
  <1>1. Q \in Nat /\ Q >= 1 /\ Q * pages = Q /\ pages = 1
    BY QueuesAssumption DEF Init
  <1>2. Q <= Total /\ Total \in Nat /\ Nodes = 1..Total
    <2>1. 0 \in Nat /\ MaxPages \in Nat /\ 0 < MaxPages
      BY QueuesAssumption
    <2>2. Q * 0 + Q <= Q * MaxPages
      BY <2>1, <1>1, Times
    <2>3. Q * 0 = 0
      BY <1>1
    <2> QED  BY <2>2, <2>3, <1>1, NodesFinite DEF Total
  <1>3. \A m \in 1..(1 + (Q - 1)) : next[m] = IF m = 1 THEN NULL ELSE m - 1
    BY <1>1, <1>2 DEF Init
  <1>4. /\ Chain(PageList(1), Q, 1 + (Q - 1), next)
        /\ \A i \in Nat : i < Q => PageList(1)[i] \in 1..(1 + (Q - 1))
        /\ \A i, j \in Nat : i < Q /\ j < Q /\ PageList(1)[i] = PageList(1)[j] => i = j
    <2> DEFINE f == 1
    <2>1. /\ f \in Nat /\ f >= 1 /\ f + (QNODES_PER_PAGE - 1) <= Total
          /\ \A m \in f..(f + (QNODES_PER_PAGE - 1)) : next[m] = IF m = f THEN NULL ELSE m - 1
      BY <1>1, <1>2, <1>3
    <2> HIDE DEF f
    <2>2. /\ Chain(PageList(f), Q, f + (Q - 1), next)
          /\ \A i \in Nat : i < Q => PageList(f)[i] \in f..(f + (Q - 1))
          /\ \A i, j \in Nat : i < Q /\ j < Q /\ PageList(f)[i] = PageList(f)[j] => i = j
      BY <2>1, PageChain
    <2> QED  BY <2>2 DEF f
  <1>5. Chain(Nothing, 0, NULL, next)
    BY EmptyChain
  <1>6. \A a \in Places : First[a] = IF a = FREE THEN 1 + (Q - 1) ELSE NULL
    BY <1>0, <1>1 DEF First, Init, Places
  <1>7. /\ l[FREE] = PageList(1) /\ n[FREE] = Q
        /\ \A a \in Places : a # FREE => l[a] = Nothing /\ n[a] = 0
        /\ DOMAIN l = Places /\ DOMAIN n = Places
        /\ l = [a \in Places |-> l[a]] /\ n = [a \in Places |-> n[a]]
    BY <1>0
  <1> HIDE DEF l, n
  <1>8. ASSUME NEW a \in Places
        PROVE  /\ Chain(l[a], n[a], First[a], next)
               /\ l[a] \in [Nat -> Nodes \cup {NULL}] /\ n[a] \in Nat
    <2>1. Chain(l[a], n[a], First[a], next)
      <3>1. CASE a = FREE
        BY <3>1, <1>4, <1>6, <1>7
      <3>2. CASE a # FREE
        BY <3>2, <1>5, <1>6, <1>7
      <3> QED  BY <3>1, <3>2
    <2> QED  BY <2>1 DEF Chain
  <1>9. ASSUME NEW a \in Places, NEW i \in Nat, i < n[a]
        PROVE  a = FREE /\ i < Q /\ l[a][i] = PageList(1)[i]
    <2>1. a = FREE
      BY <1>7, <1>9
    <2> QED  BY <2>1, <1>7, <1>9
  <1>10. Apart(l, n)
    <2>1. ASSUME NEW a \in Places, NEW b \in Places, NEW i \in Nat, NEW j \in Nat,
                 i < n[a], j < n[b], l[a][i] = l[b][j]
          PROVE  a = b /\ i = j
      <3>1. a = FREE /\ b = FREE /\ i < Q /\ j < Q /\ PageList(1)[i] = PageList(1)[j]
        BY <1>9, <2>1
      <3> QED  BY <3>1, <1>4
    <2> QED  BY <2>1 DEF Apart
  <1>11. \A a \in Places : \A i \in Nat : i < n[a] => l[a][i] <= Q * pages
    BY <1>1, <1>4, <1>9
  <1>12. Lists(l, n, First, next, Q * pages)
    <2>1. l \in [Places -> [Nat -> Nodes \cup {NULL}]] /\ n \in [Places -> Nat]
      BY <1>7, <1>8
    <2>2. \A a \in Places : Chain(l[a], n[a], First[a], next)
      BY <1>8
    <2> QED  BY <2>1, <2>2, <1>10, <1>11 DEF Lists
  <1>13. \A q \in Queues : n[q] = 0
    BY <1>0, <1>7
  <1>14. Described(l, n)
    <2>1. \A q \in Queues : \A i \in Nat : ~(i < n[q])
      BY <1>13
    <2>2. \A q \in Queues : count[q] = 0 /\ tail[q] = NULL
      BY DEF Init
    <2> QED  BY <2>1, <2>2, <1>13 DEF Described
  <1> QED  BY <1>12, <1>13, <1>14 DEF Held

LEMMA StartGood ==
  ASSUME Init
  PROVE  ListsInv /\ Abstract!AbsInit
  <1>1. PICK l, n : Held(l, n) /\ \A q \in Queues : n[q] = 0
    BY StartHeld
  <1>2. Typed
    BY QueuesAssumption DEF Typed, Init
  <1>3. PanicsOnlyWhenOut
    BY DEF PanicsOnlyWhenOut, Init
  <1>4. Contents = [q \in Queues |-> <<>>]
    <2>1. Shows(l, n)
      BY <1>1, ContentsAre
    <2>2. \A q \in Queues : Contents[q] \in Seq(Data) /\ Len(Contents[q]) = 0
      BY <2>1, <1>1 DEF Shows
    <2>3. \A q \in Queues : Contents[q] = <<>>
      BY <2>2
    <2> QED  BY <2>1, <2>3 DEF Shows
  <1>5. Order = [q \in Queues |-> "free"]
    BY DEF Order, Init
  <1>6. Abstract!AbsInit
    BY <1>4, <1>5 DEF Init, Abstract!AbsInit, Abstract!None, None
  <1> QED  BY <1>1, <1>2, <1>3, <1>6 DEF ListsInv

-----------------------------------------------------------------------------
(* Theorems *)

\* At every moment each queue and the free list has a list of nodes of its own
\* that its pointers and its count describe.
THEOREM ListsInvariant == Spec => []ListsInv
  <1>1. Init => ListsInv
    BY StartGood
  <1>2. ListsInv /\ [Next]_vars => ListsInv'
    BY StepGood DEF Good, ListsInv
  <1> QED  BY <1>1, <1>2, PTL DEF Spec

\* The only panic of kernel/queues.c is the one of qnode_alloc(): whatever the
\* calls before, no assertion of que_insert(), que_peek(), que_remove() or
\* que_remove_by() fails.
THEOREM OnlyMemoryPanics == Spec => []PanicsOnlyWhenOut
  <1>1. ListsInv => PanicsOnlyWhenOut
    BY DEF ListsInv
  <1> QED  BY <1>1, ListsInvariant, PTL

LEMMA HeldTails ==
  ASSUME NEW l, NEW n, Held(l, n)
  PROVE  TailIsLast
  <1> SUFFICES ASSUME NEW q \in Queues
               PROVE  IF count[q] = 0 THEN head[q] = NULL /\ tail[q] = NULL
                      ELSE tail[q] = Walk(head[q])[count[q] - 1] /\ next[tail[q]] = NULL
    BY DEF TailIsLast
  <1> DEFINE w == Walk(head[q])
  <1>1. /\ \A i \in 0..Total : w[i] = l[q][i]
        /\ n[q] \in 0..Total /\ n[q] = count[q] /\ n[q] \in Nat /\ Total \in Nat
        /\ \A i \in Nat : l[q][i] = NULL <=> i >= n[q]
        /\ \A i \in Nat : i < n[q] => next[l[q][i]] = l[q][i + 1]
        /\ l[q][0] = head[q]
    BY WalkOfQueue, NodesFinite
  <1>2. tail[q] = IF n[q] = 0 THEN NULL ELSE l[q][n[q] - 1]
    BY DEF Held, Described
  <1> HIDE DEF w
  <1>3. CASE n[q] = 0
    BY <1>1, <1>2, <1>3
  <1>4. CASE n[q] # 0
    <2>1. n[q] - 1 \in Nat /\ n[q] - 1 < n[q] /\ n[q] - 1 \in 0..Total /\ (n[q] - 1) + 1 = n[q]
      BY <1>1, <1>4
    <2>2. next[l[q][n[q] - 1]] = l[q][n[q]] /\ l[q][n[q]] = NULL
      BY <2>1, <1>1
    <2>3. tail[q] = w[count[q] - 1] /\ next[tail[q]] = NULL
      BY <2>1, <2>2, <1>1, <1>2, <1>4
    <2> QED  BY <2>3, <1>1, <1>4 DEF w
  <1> QED  BY <1>3, <1>4

\* The tail pointer of every queue is the last node of the list that begins at
\* its head: que_insert() may append there, and que_remove() and
\* que_remove_by() leave it right when they unlink the last node.
THEOREM TailsRight == Spec => []TailIsLast
  <1>1. ListsInv => TailIsLast
    BY HeldTails DEF ListsInv
  <1> QED  BY <1>1, ListsInvariant, PTL

\* A walk from x meets just the nodes of a list.
Meets(l, n, a, x) ==
  /\ n[a] \in 0..Total
  /\ \A i \in 0..Total : Walk(x)[i] = l[a][i]
  /\ \A i \in Nat : l[a][i] = NULL <=> i >= n[a]

LEMMA NodesMet ==
  ASSUME NEW l, NEW n, NEW a, NEW x, Meets(l, n, a, x)
  PROVE  /\ \A y \in NodesFrom(x) : \E i \in Nat : i < n[a] /\ y = l[a][i]
         /\ \A i \in Nat : i < n[a] => l[a][i] \in NodesFrom(x)
  <1> DEFINE w == Walk(x)
  <1>1. Total \in Nat /\ Cardinality(Nodes) = Total
    BY NodesFinite
  <1>2. /\ n[a] \in 0..Total /\ n[a] \in Nat
        /\ \A i \in 0..Total : w[i] = l[a][i]
        /\ \A i \in Nat : l[a][i] = NULL <=> i >= n[a]
    BY <1>1 DEF Meets
  <1>3. NodesFrom(x) = {w[i] : i \in 0..Total} \ {NULL}
    BY <1>1 DEF NodesFrom
  <1> HIDE DEF w
  <1>4. ASSUME NEW y \in NodesFrom(x)
        PROVE  \E i \in Nat : i < n[a] /\ y = l[a][i]
    <2>1. PICK i \in 0..Total : y = w[i]
      BY <1>3
    <2>2. i \in Nat /\ y = l[a][i] /\ y # NULL
      BY <2>1, <1>1, <1>2, <1>3
    <2>3. i < n[a]
      BY <2>2, <1>2
    <2> QED  BY <2>2, <2>3
  <1>5. ASSUME NEW i \in Nat, i < n[a]
        PROVE  l[a][i] \in NodesFrom(x)
    <2>1. i \in 0..Total
      BY <1>1, <1>2, <1>5
    <2>2. w[i] = l[a][i] /\ l[a][i] # NULL
      BY <2>1, <1>2, <1>5
    <2> QED  BY <2>1, <2>2, <1>3
  <1> QED  BY <1>4, <1>5

LEMMA HeldPlaces ==
  ASSUME NEW l, NEW n, Held(l, n)
  PROVE  NodesInOnePlace
  <1>1. Apart(l, n)
    BY DEF Held, Lists
  <1>2. Meets(l, n, FREE, free_qnodes)
    BY WalkOfFree DEF Meets
  <1>3. \A q \in Queues : Meets(l, n, q, head[q])
    BY WalkOfQueue DEF Meets
  <1>4. Total \in Nat /\ Cardinality(Nodes) = Total
    BY NodesFinite
  <1>5. Walk(free_qnodes)[Cardinality(Nodes)] = NULL
    BY <1>2, <1>4 DEF Meets
  <1>6. ASSUME NEW a \in Places, NEW b \in Places, a # b, NEW x, NEW y,
               Meets(l, n, a, x), Meets(l, n, b, y)
        PROVE  NodesFrom(x) \cap NodesFrom(y) = {}
    <2>1. SUFFICES ASSUME NEW m \in NodesFrom(x), m \in NodesFrom(y)
                   PROVE  FALSE
      OBVIOUS
    <2>2. PICK i \in Nat : i < n[a] /\ m = l[a][i]
      BY <1>6, NodesMet
    <2>3. PICK j \in Nat : j < n[b] /\ m = l[b][j]
      BY <1>6, <2>1, NodesMet
    <2> QED  BY <2>2, <2>3, <1>1, <1>6 DEF Apart
  <1>7. ASSUME NEW q \in Queues
        PROVE  Cardinality(NodesFrom(head[q])) = count[q]
    <2> DEFINE S == NodesFrom(head[q])
               f == [i \in 1..n[q] |-> l[q][i - 1]]
    <2>1. n[q] = count[q] /\ n[q] \in Nat /\ q \in Places
      BY WalkOfQueue, NodesFinite, PlaceOfQueue
    <2>2. /\ \A y \in S : \E i \in Nat : i < n[q] /\ y = l[q][i]
          /\ \A i \in Nat : i < n[q] => l[q][i] \in S
      BY <1>3, NodesMet
    <2> HIDE DEF S
    <2>3. ASSUME NEW i \in 1..n[q]
          PROVE  i - 1 \in Nat /\ i - 1 < n[q] /\ f[i] = l[q][i - 1] /\ f[i] \in S
      <3>1. i - 1 \in Nat /\ i - 1 < n[q] /\ f[i] = l[q][i - 1]
        BY <2>1
      <3> QED  BY <3>1, <2>2
    <2>4. f \in [1..n[q] -> S]
      BY <2>3
    <2>5. ASSUME NEW i \in 1..n[q], NEW j \in 1..n[q], f[i] = f[j]
          PROVE  i = j
      <3>1. /\ i - 1 \in Nat /\ i - 1 < n[q] /\ j - 1 \in Nat /\ j - 1 < n[q]
            /\ l[q][i - 1] = l[q][j - 1]
        BY <2>3, <2>5
      <3>2. i - 1 = j - 1
        BY <3>1, <2>1, <1>1 DEF Apart
      <3> QED  BY <3>2
    <2>6. ASSUME NEW y \in S
          PROVE  \E i \in 1..n[q] : f[i] = y
      <3>1. PICK i \in Nat : i < n[q] /\ y = l[q][i]
        BY <2>2
      <3>2. i + 1 \in 1..n[q] /\ (i + 1) - 1 = i
        BY <3>1, <2>1
      <3>3. f[i + 1] = y
        BY <3>1, <3>2
      <3> QED  BY <3>2, <3>3
    <2> HIDE DEF f
    <2>7. f \in Surjection(1..n[q], S) /\ f \in Injection(1..n[q], S)
      BY <2>4, <2>5, <2>6 DEF Surjection, Injection, IsInjective
    <2>8. ExistsBijection(1..n[q], S)
      BY <2>7 DEF ExistsBijection, Bijection
    <2>9. IsFiniteSet(1..n[q]) /\ Cardinality(1..n[q]) = n[q]
      BY <2>1, FS_Interval
    <2>10. Cardinality(S) = n[q]
      BY <2>8, <2>9, FS_Bijection
    <2> QED  BY <2>1, <2>10 DEF S
  <1>8. /\ FREE \in Places /\ \A q \in Queues : q \in Places /\ q # FREE
    BY PlaceOfQueue
  <1>9. ASSUME NEW q \in Queues
        PROVE  /\ NodesFrom(head[q]) \cap NodesFrom(free_qnodes) = {}
               /\ \A r \in Queues \ {q} : NodesFrom(head[q]) \cap NodesFrom(head[r]) = {}
    <2>1. NodesFrom(head[q]) \cap NodesFrom(free_qnodes) = {}
      BY <1>2, <1>3, <1>6, <1>8
    <2>2. ASSUME NEW r \in Queues, r # q
          PROVE  NodesFrom(head[q]) \cap NodesFrom(head[r]) = {}
      BY <1>3, <1>6, <1>8, <2>2
    <2> QED  BY <2>1, <2>2
  <1> QED  BY <1>5, <1>7, <1>9 DEF NodesInOnePlace

\* Every qnode is in at most one place, a queue has as many as its count says,
\* and every list ends: no sequence of calls makes two queues share a node,
\* leaves a queued node on the free list, or ties a list into a loop.
THEOREM NodesPlaced == Spec => []NodesInOnePlace
  <1>1. ListsInv => NodesInOnePlace
    BY HeldPlaces DEF ListsInv
  <1> QED  BY <1>1, ListsInvariant, PTL

\* The linked lists implement the sequences of QueueSpec: whatever the number
\* of queues, nodes and pages, every call of kernel/queues.c changes the
\* contents of the queues and answers as QueueSpec says.
THEOREM QueuesImplementSpec == Spec => ImplementsQueueSpec
  <1>1. Init => Abstract!AbsInit
    BY StartGood
  <1>2. ListsInv /\ [Next]_vars => [Abstract!AbsNext]_Abstract!absVars
    BY StepGood DEF Good
  <1> QED  BY <1>1, <1>2, ListsInvariant, PTL DEF Spec, ImplementsQueueSpec, Abstract!AbsSpec
=============================================================================
