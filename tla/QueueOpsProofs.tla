--------------------------- MODULE QueueOpsProofs ---------------------------
(***************************************************************************)
(* Lemmas about the queue operations, for queues of any length, and about  *)
(* sequences put together from others.                                     *)
(***************************************************************************)
EXTENDS QueueOps, TLAPS

\* Appending (que_insert() on a FIFO queue) adds one entry, at the end.
LEMMA AppendElements ==
  ASSUME NEW S, NEW q \in Seq(S), NEW x \in S
  PROVE  /\ Append(q, x) \in Seq(S)
         /\ Elements(Append(q, x)) = Elements(q) \cup {x}
         /\ NoDuplicates(q) /\ x \notin Elements(q) => NoDuplicates(Append(q, x))
  BY DEF Elements, NoDuplicates

\* que_remove() takes out the first entry and leaves the others.
LEMMA TailElements ==
  ASSUME NEW S, NEW q \in Seq(S), q # <<>>
  PROVE  /\ Tail(q) \in Seq(S)
         /\ Head(q) \in S
         /\ Head(q) \in Elements(q)
         /\ NoDuplicates(q) => /\ Elements(Tail(q)) = Elements(q) \ {Head(q)}
                               /\ NoDuplicates(Tail(q))
  BY DEF Elements, NoDuplicates

\* que_insert() on an ordered queue adds one entry, wherever it goes.
LEMMA InsertElements ==
  ASSUME NEW S, NEW q \in Seq(S), NEW x \in S, NEW i \in 0..Len(q)
  PROVE  /\ InsertAfter(q, x, i) \in Seq(S)
         /\ Elements(InsertAfter(q, x, i)) = Elements(q) \cup {x}
         /\ NoDuplicates(q) /\ x \notin Elements(q) =>
              NoDuplicates(InsertAfter(q, x, i))
  <1> DEFINE r == InsertAfter(q, x, i)
  <1>1. /\ r \in Seq(S) /\ Len(r) = Len(q) + 1
        /\ \A j \in 1..(Len(q) + 1) :
             r[j] = IF j <= i THEN q[j] ELSE IF j = i + 1 THEN x ELSE q[j - 1]
    BY DEF InsertAfter
  <1> HIDE DEF r
  <1>2. Elements(r) \subseteq Elements(q) \cup {x}
    BY <1>1 DEF Elements
  <1>3. Elements(q) \cup {x} \subseteq Elements(r)
    <2>1. x = r[i + 1] /\ i + 1 \in 1..Len(r)
      BY <1>1
    <2>2. ASSUME NEW j \in 1..Len(q)
          PROVE  q[j] \in Elements(r)
      <3>1. CASE j <= i
        BY <1>1, <3>1 DEF Elements
      <3>2. CASE j > i
        <4>1. j + 1 \in 1..Len(r) /\ r[j + 1] = q[j]
          BY <1>1, <3>2
        <4>2. QED BY <4>1 DEF Elements
      <3>3. QED BY <3>1, <3>2
    <2>3. QED BY <2>1, <2>2 DEF Elements
  <1>4. NoDuplicates(q) /\ x \notin Elements(q) => NoDuplicates(r)
    <2>1. SUFFICES ASSUME NoDuplicates(q), x \notin Elements(q),
                          NEW a \in 1..Len(r), NEW b \in 1..Len(r), a < b
                   PROVE  r[a] # r[b]
      BY <1>1 DEF NoDuplicates
    <2>2. \A j \in 1..Len(q) : q[j] # x
      BY <2>1 DEF Elements
    <2>3. \A j, k \in 1..Len(q) : j # k => q[j] # q[k]
      BY <2>1 DEF NoDuplicates
    <2>4. CASE b <= i
      BY <1>1, <2>1, <2>3, <2>4
    <2>5. CASE b = i + 1
      BY <1>1, <2>1, <2>2, <2>5
    <2>6. CASE b > i + 1
      <3>1. r[b] = q[b - 1] /\ b - 1 \in 1..Len(q) /\ b - 1 > i
        BY <1>1, <2>6
      <3>2. CASE a <= i
        <4>1. r[a] = q[a] /\ a \in 1..Len(q) /\ a # b - 1
          BY <1>1, <3>1, <3>2
        <4>2. QED BY <2>3, <3>1, <4>1
      <3>3. CASE a = i + 1
        BY <1>1, <2>2, <3>1, <3>3
      <3>4. CASE a > i + 1
        <4>1. r[a] = q[a - 1] /\ a - 1 \in 1..Len(q)
          BY <1>1, <3>4
        <4>2. QED BY <2>1, <2>3, <3>1, <4>1
      <3>5. QED BY <3>2, <3>3, <3>4
    <2>7. QED BY <2>4, <2>5, <2>6
  <1>5. QED BY <1>1, <1>2, <1>3, <1>4 DEF r

\* que_remove_by() takes out no other entry than the one it found.
LEMMA DropElements ==
  ASSUME NEW S, NEW q \in Seq(S), NEW i \in 1..Len(q)
  PROVE  /\ DropEntry(q, i) \in Seq(S)
         /\ Elements(q) \ {q[i]} \subseteq Elements(DropEntry(q, i))
  <1> DEFINE r == DropEntry(q, i)
  <1>1. /\ r \in Seq(S) /\ Len(r) = Len(q) - 1
        /\ \A j \in 1..(Len(q) - 1) : r[j] = IF j < i THEN q[j] ELSE q[j + 1]
    BY DEF DropEntry
  <1> HIDE DEF r
  <1>2. ASSUME NEW j \in 1..Len(q), j # i
        PROVE  q[j] \in Elements(r)
    <2>1. CASE j < i
      BY <1>1, <2>1 DEF Elements
    <2>2. CASE j > i
      <3>1. j - 1 \in 1..Len(r) /\ r[j - 1] = q[j]
        BY <1>1, <2>2
      <3>2. QED BY <3>1 DEF Elements
    <2>3. QED BY <1>2, <2>1, <2>2
  <1>3. QED BY <1>1, <1>2 DEF Elements, r

\* A stable insertion keeps an ordered queue ordered: clk_isr() relies on the
\* sleep queue being in ascending order of the key.
LEMMA InsertSorted ==
  ASSUME NEW S, NEW q \in Seq(S), NEW x \in S, NEW key \in [S -> Int],
         NEW i \in 0..Len(q), InsertionPoint(q, key, key[x], i),
         \A a, b \in 1..Len(q) : a < b => key[q[a]] <= key[q[b]]
  PROVE  LET r == InsertAfter(q, x, i)
         IN  \A a, b \in 1..Len(r) : a < b => key[r[a]] <= key[r[b]]
  <1> DEFINE r == InsertAfter(q, x, i)
  <1>1. /\ Len(r) = Len(q) + 1
        /\ \A j \in 1..(Len(q) + 1) :
             r[j] = IF j <= i THEN q[j] ELSE IF j = i + 1 THEN x ELSE q[j - 1]
    BY DEF InsertAfter
  <1>2. \A j \in 1..Len(q) : q[j] \in S /\ key[q[j]] \in Int
    OBVIOUS
  <1>3. \A j \in 1..Len(q) : j > i => key[x] <= key[q[j]]
    BY <1>2 DEF InsertionPoint
  <1>4. \A j \in 1..i : key[q[j]] <= key[x]
    BY DEF InsertionPoint
  <1> HIDE DEF r
  <1>5. SUFFICES ASSUME NEW a \in 1..Len(r), NEW b \in 1..Len(r), a < b
                 PROVE  key[r[a]] <= key[r[b]]
    BY DEF r
  <1>6. CASE b <= i
    BY SMTT(30), <1>1, <1>5, <1>6
  <1>7. CASE b = i + 1
    <2>1. r[b] = x /\ r[a] = q[a] /\ a \in 1..i
      BY <1>1, <1>5, <1>7
    <2>2. QED BY <1>4, <2>1
  <1>8. CASE b > i + 1
    <2>1. r[b] = q[b - 1] /\ b - 1 \in 1..Len(q) /\ b - 1 > i
      BY <1>1, <1>8
    <2>2. CASE a <= i
      <3>1. r[a] = q[a] /\ a \in 1..Len(q) /\ a < b - 1
        BY <1>1, <2>1, <2>2
      <3>2. key[q[a]] <= key[q[b - 1]]
        BY <2>1, <3>1
      <3>3. QED BY <2>1, <3>1, <3>2
    <2>3. CASE a = i + 1
      <3>1. r[a] = x
        BY <1>1, <2>3
      <3>2. key[x] <= key[q[b - 1]]
        BY <1>3, <2>1
      <3>3. QED BY <2>1, <3>1, <3>2
    <2>4. CASE a > i + 1
      <3>1. r[a] = q[a - 1] /\ a - 1 \in 1..Len(q) /\ a - 1 < b - 1
        BY <1>1, <1>5, <2>4
      <3>2. key[q[a - 1]] <= key[q[b - 1]]
        BY <2>1, <3>1
      <3>3. QED BY <2>1, <3>1, <3>2
    <2>5. QED BY <2>2, <2>3, <2>4
  <1>9. QED BY <1>6, <1>7, <1>8

\* A sequence put together from two others.
LEMMA Joined ==
  ASSUME NEW S, NEW s \in Seq(S), NEW t \in Seq(S)
  PROVE  /\ s \o t \in Seq(S) /\ Len(s \o t) = Len(s) + Len(t)
         /\ \A i \in 1..Len(s) : (s \o t)[i] = s[i]
         /\ \A i \in 1..Len(t) : (s \o t)[Len(s) + i] = t[i]
  OBVIOUS

LEMMA JoinedIs ==
  ASSUME NEW S, NEW s \in Seq(S), NEW t \in Seq(S), NEW u \in Seq(S),
         Len(u) = Len(s) + Len(t),
         \A i \in 1..Len(s) : u[i] = s[i],
         \A i \in 1..Len(t) : u[Len(s) + i] = t[i]
  PROVE  s \o t = u
  <1> DEFINE all == s \o t
  <1>1. /\ all \in Seq(S) /\ Len(all) = Len(u)
        /\ \A i \in 1..Len(s) : all[i] = s[i]
        /\ \A i \in 1..Len(t) : all[Len(s) + i] = t[i]
    BY Joined
  <1> HIDE DEF all
  <1>2. ASSUME NEW i \in 1..Len(u)
        PROVE  all[i] = u[i]
    <2>1. Len(s) \in Nat /\ Len(t) \in Nat
      OBVIOUS
    <2>2. CASE i \in 1..Len(s)
      BY <1>1, <2>2
    <2>3. CASE i \notin 1..Len(s)
      <3>1. i - Len(s) \in 1..Len(t) /\ i = Len(s) + (i - Len(s))
        BY <2>1, <2>3
      <3>2. QED BY <1>1, <3>1
    <2>4. QED BY <2>2, <2>3
  <1>3. all = u
    BY <1>1, <1>2
  <1>4. QED BY <1>3 DEF all
=============================================================================
