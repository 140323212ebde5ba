----------------------------- MODULE SioProofs -----------------------------
(***************************************************************************)
(* Proofs about Sio: no character is lost, duplicated or reordered between *)
(* the UART and the processes, for buffers of any size and any messages.   *)
(***************************************************************************)
EXTENDS Sio, QueueOpsProofs

\* How % treats an index that is at most once around the buffer.
LEMMA OnceAround ==
  ASSUME NEW B \in Nat \ {0}, NEW a \in Int, -B <= a, a < 2 * B
  PROVE  a % B = IF a < 0 THEN a + B ELSE IF a >= B THEN a - B ELSE a
  OBVIOUS

LEMMA CountedUp ==
  ASSUME NEW B \in Nat, NEW a \in Int, 0 <= a, a < B + 1
  PROVE  a % (B + 1) = a
  OBVIOUS

-----------------------------------------------------------------------------
(* Input *)

\* inlast is innext + incount and never behind the end of the buffer; what was
\* stored is what was delivered, followed by what is in the buffer.
InInv ==
  /\ inbuffer \in [Indices -> Nat] /\ arrived \in Nat
  /\ inlast \in 0..BUF_SIZE /\ innext \in Nat /\ incount \in Nat
  /\ innext + incount = inlast
  /\ stored \in Seq(Nat) /\ delivered \in Seq(Nat)
  /\ Len(stored) = Len(delivered) + incount
  /\ \A i \in 1..Len(delivered) : stored[i] = delivered[i]
  /\ \A i \in 1..incount : stored[Len(delivered) + i] = inbuffer[innext + i - 1]

InputInv == ~wild => InInv

\* The buffer is reset, and what was not read is forgotten.
LEMMA FlushIn ==
  ASSUME InInv, incount' = 0, inlast' = 0, innext' = 0, stored' = delivered,
         UNCHANGED <<inbuffer, arrived, delivered>>
  PROVE  InInv'
  BY SioAssumption DEF InInv

LEMMA SameIn ==
  ASSUME InputInv, UNCHANGED <<inVars, wild>>
  PROVE  InputInv'
  BY DEF InputInv, InInv, inVars

LEMMA ReceiveIn ==
  ASSUME InputInv, sio_isr_RX
  PROVE  InputInv'
  <1>1. BUF_SIZE \in Nat \ {0} /\ Indices = 0..(BUF_SIZE - 1)
    BY SioAssumption DEF Indices
  <1>2. InInv /\ arrived' = arrived + 1 /\ UNCHANGED <<innext, delivered>>
    BY DEF sio_isr_RX, InputInv
  <1>3. arrived' \in Nat
    BY <1>2 DEF InInv
  <1>4. CASE UNCHANGED <<inbuffer, inlast, incount, stored>>
    BY <1>2, <1>3, <1>4 DEF InputInv, InInv
  <1>5. CASE /\ inlast \in Indices
             /\ inbuffer' = [inbuffer EXCEPT ![inlast] = arrived']
             /\ inlast' = inlast + 1
             /\ incount' = incount + 1
             /\ stored' = Append(stored, arrived')
    <2>1. /\ inbuffer' \in [Indices -> Nat]
          /\ inlast' \in 0..BUF_SIZE /\ incount' \in Nat
          /\ innext' + incount' = inlast'
          /\ stored' \in Seq(Nat) /\ Len(stored') = Len(delivered') + incount'
      BY SMTT(30), <1>1, <1>2, <1>3, <1>5 DEF InInv
    <2>2. \A i \in 1..Len(delivered') : stored'[i] = delivered'[i]
      BY <1>2, <1>5 DEF InInv
    <2>3. ASSUME NEW i \in 1..incount'
          PROVE  stored'[Len(delivered') + i] = inbuffer'[innext' + i - 1]
      <3>1. CASE i = incount + 1
        BY <1>1, <1>2, <1>5, <3>1 DEF InInv
      <3>2. CASE i \in 1..incount
        <4>1. innext + i - 1 \in Indices /\ innext + i - 1 # inlast
          BY <1>1, <1>2, <1>5, <3>2 DEF InInv
        <4>2. QED BY <1>2, <1>5, <3>2, <4>1 DEF InInv
      <3>3. QED BY <1>2, <1>5, <3>1, <3>2 DEF InInv
    <2>4. QED BY <1>2, <1>3, <2>1, <2>2, <2>3 DEF InputInv, InInv
  <1>6. QED BY <1>4, <1>5 DEF sio_isr_RX

LEMMA ReadIn ==
  ASSUME InputInv, NEW length \in ReadLens, sio_read(length)
  PROVE  InputInv'
  <1> DEFINE n == Lesser(incount, length)
             got == [i \in 1..n |-> inbuffer[(innext + i - 1) % (BUF_SIZE + 1)]]
  <1>1. BUF_SIZE \in Nat \ {0} /\ Indices = 0..(BUF_SIZE - 1) /\ length \in Nat \ {0}
    BY SioAssumption DEF Indices
  <1>2. InInv /\ UNCHANGED <<inbuffer, arrived, stored>>
    BY DEF sio_read, InputInv
  <1>3. n \in 1..incount
    BY <1>1, <1>2 DEF Lesser, sio_read, InInv
  <1>4. /\ delivered' = delivered \o got /\ incount' = incount - n
        /\ innext' = IF incount = n THEN 0 ELSE (innext + n) % (BUF_SIZE + 1)
        /\ inlast' = IF incount = n THEN 0 ELSE inlast
    BY DEF sio_read, Rewound
  <1> HIDE DEF n
  <1>5. ASSUME NEW i \in 1..n
        PROVE  /\ (innext + i - 1) % (BUF_SIZE + 1) = innext + i - 1
               /\ innext + i - 1 \in Indices
    <2> DEFINE a == innext + i - 1
    <2>1. a \in Int /\ 0 <= a /\ a < BUF_SIZE
      BY <1>1, <1>2, <1>3 DEF InInv
    <2> HIDE DEF a
    <2>2. a % (BUF_SIZE + 1) = a
      BY <1>1, <2>1, CountedUp
    <2>3. a \in Indices
      BY <1>1, <2>1
    <2>4. QED BY <2>2, <2>3 DEF a
  <1>6. got \in Seq(Nat) /\ Len(got) = n /\ \A i \in 1..n : got[i] = inbuffer[innext + i - 1]
    <2>1. \A i \in 1..n : inbuffer[innext + i - 1] \in Nat
      BY <1>2, <1>5 DEF InInv
    <2>2. got = [i \in 1..n |-> inbuffer[innext + i - 1]]
      BY <1>5
    <2>3. n \in Nat
      BY <1>2, <1>3 DEF InInv
    <2> HIDE DEF got
    <2>4. QED BY <2>1, <2>2, <2>3
  <1>7. incount # n => innext' = innext + n
    <2> DEFINE a == innext + n
    <2>1. a \in Int /\ 0 <= a /\ a < BUF_SIZE + 1
      BY <1>1, <1>2, <1>3 DEF InInv
    <2> HIDE DEF a
    <2>2. a % (BUF_SIZE + 1) = a
      BY <1>1, <2>1, CountedUp
    <2>3. QED BY <1>4, <2>2 DEF a
  <1> HIDE DEF got
  <1>8. /\ inlast' \in 0..BUF_SIZE /\ innext' \in Nat /\ incount' \in Nat
        /\ innext' + incount' = inlast'
    <2>1. /\ innext \in Nat /\ incount \in Nat /\ inlast \in 0..BUF_SIZE
          /\ innext + incount = inlast /\ n \in Nat /\ n <= incount
      BY <1>2, <1>3 DEF InInv
    <2>2. CASE incount = n
      BY <1>1, <1>4, <2>1, <2>2
    <2>3. CASE incount # n
      BY <1>1, <1>4, <1>7, <2>1, <2>3
    <2>4. QED BY <2>2, <2>3
  <1>9. /\ delivered' \in Seq(Nat) /\ Len(delivered') = Len(delivered) + n
        /\ Len(stored') = Len(delivered') + incount'
    <2>1. /\ delivered \in Seq(Nat) /\ incount \in Nat /\ n \in Nat
          /\ Len(stored) = Len(delivered) + incount
      BY <1>2, <1>3 DEF InInv
    <2>2. delivered' \in Seq(Nat) /\ Len(delivered') = Len(delivered) + n
      BY <1>4, <1>6, <2>1, Joined
    <2>3. QED BY <1>2, <1>4, <2>1, <2>2
  <1>10. ASSUME NEW i \in 1..Len(delivered')
         PROVE  stored'[i] = delivered'[i]
    <2>1. CASE i \in 1..Len(delivered)
      BY <1>2, <1>4, <1>6, <2>1 DEF InInv
    <2>2. CASE i \notin 1..Len(delivered)
      <3>1. PICK j \in 1..n : i = Len(delivered) + j
        <4>1. i - Len(delivered) \in 1..n
          BY <1>2, <1>3, <1>9, <2>2 DEF InInv
        <4>2. QED BY <1>2, <1>9, <4>1 DEF InInv
      <3>2. delivered'[i] = got[j]
        BY <1>2, <1>4, <1>6, <3>1 DEF InInv
      <3>3. stored[i] = inbuffer[innext + j - 1]
        BY <1>2, <1>3, <3>1 DEF InInv
      <3>4. QED BY <1>2, <1>6, <3>2, <3>3
    <2>3. QED BY <2>1, <2>2
  <1>11. ASSUME NEW i \in 1..incount'
         PROVE  stored'[Len(delivered') + i] = inbuffer'[innext' + i - 1]
    <2>1. incount # n /\ n + i \in 1..incount
      BY <1>2, <1>3, <1>4 DEF InInv
    <2>2. stored[Len(delivered) + (n + i)] = inbuffer[innext + (n + i) - 1]
      BY <1>2, <2>1 DEF InInv
    <2>3. /\ Len(delivered') + i = Len(delivered) + (n + i)
          /\ innext' + i - 1 = innext + (n + i) - 1
      BY <1>2, <1>3, <1>4, <1>7, <1>9, <2>1 DEF InInv
    <2>4. QED BY <1>2, <2>2, <2>3
  <1>12. QED BY <1>2, <1>8, <1>9, <1>10, <1>11 DEF InputInv, InInv

LEMMA NextIn ==
  ASSUME InputInv, [Next]_vars
  PROVE  InputInv'
  <1>1. CASE main
    BY <1>1, FlushIn DEF main, sio_flush, InputInv
  <1>2. CASE sio_isr_TX \/ Transmitted \/ UNCHANGED vars
    BY <1>2, SameIn DEF sio_isr_TX, Transmitted, vars
  <1>3. CASE \E m \in Messages : sio_write(m)
    <2>1. PICK m \in Messages : sio_write(m)
      BY <1>3
    <2>2. UNCHANGED inVars /\ (~wild' => ~wild)
      BY <2>1 DEF sio_write
    <2>3. QED BY <2>2 DEF InputInv, InInv, inVars
  <1>4. CASE sio_writec("c")
    <2>1. UNCHANGED inVars /\ (~wild' => ~wild)
      BY <1>4 DEF sio_writec
    <2>2. QED BY <2>1 DEF InputInv, InInv, inVars
  <1>5. QED BY <1>1, <1>2, <1>3, <1>4, ReceiveIn, ReadIn DEF Next

LEMMA InitIn ==
  ASSUME Init
  PROVE  InputInv
  BY SioAssumption DEF Init, InputInv, InInv, Indices

\* What was delivered and what is in the buffer together are what was stored.
LEMMA InputReaches ==
  ASSUME InputInv
  PROVE  ReadersGetInput
  <1> SUFFICES ASSUME InInv
               PROVE  delivered \o Pending = stored
    BY DEF InputInv, ReadersGetInput
  <1>1. BUF_SIZE \in Nat \ {0} /\ Indices = 0..(BUF_SIZE - 1)
    BY SioAssumption DEF Indices
  <1>2. \A i \in 1..incount : innext + i - 1 \in Indices
    BY <1>1 DEF InInv
  <1>3. \A i \in 1..incount : inbuffer[innext + i - 1] \in Nat
    BY <1>2 DEF InInv
  <1>4. incount \in Nat
    BY DEF InInv
  <1>5. /\ Pending \in Seq(Nat) /\ Len(Pending) = incount
        /\ \A i \in 1..incount : Pending[i] = inbuffer[innext + i - 1]
    BY <1>3, <1>4 DEF Pending
  <1>6. /\ delivered \in Seq(Nat) /\ stored \in Seq(Nat)
        /\ Len(stored) = Len(delivered) + Len(Pending)
        /\ \A i \in 1..Len(delivered) : stored[i] = delivered[i]
        /\ \A i \in 1..Len(Pending) : stored[Len(delivered) + i] = Pending[i]
    BY <1>5 DEF InInv
  <1> HIDE DEF Pending
  <1>7. QED BY <1>5, <1>6, JoinedIs

\* Readers get every character that the interrupt service routine stored, once
\* and in order, for any buffer size and any read lengths.
THEOREM ReadersServed == Spec => []ReadersGetInput
  BY InitIn, NextIn, InputReaches, PTL DEF Spec

-----------------------------------------------------------------------------
(* Output *)

\* The characters that may be in the ring.
Chars == STRING \cup {LF, CR, "NUL", "c"}

LEMMA MessageChars ==
  ASSUME NEW m \in Messages
  PROVE  m \in Seq(Chars) /\ Len(m) \in Nat /\ Len(m) >= 1
  <1>1. m \in Seq(STRING) /\ Len(m) >= 1
    BY SioAssumption
  <1>2. \A i \in 1..Len(m) : m[i] \in Chars
    BY <1>1 DEF Chars
  <1>3. QED BY <1>1, <1>2

\* The ring of characters that wait to be sent: count of them in buf from next
\* on, around the end of the buffer; with what was sent they are all that was
\* put in.
Ring(buf, next, count, snt, acc) ==
  /\ buf \in [Indices -> Chars] /\ next \in Indices /\ count \in 0..BUF_SIZE
  /\ snt \in Seq(Chars) /\ acc \in Seq(Chars)
  /\ Len(acc) = Len(snt) + count
  /\ \A i \in 1..Len(snt) : acc[i] = snt[i]
  /\ \A i \in 1..count : acc[Len(snt) + i] = buf[Wrapped(next + i - 1)]

\* outlast is where the ring ends, or just behind the end of the buffer, where
\* sio_writec() may leave it, for the start of the buffer.
OutInv ==
  /\ Ring(outbuffer, outnext, outcount, sent, queued)
  /\ outlast \in 0..BUF_SIZE
  /\ \/ outlast = outnext + outcount
     \/ outlast = outnext + outcount - BUF_SIZE
     \/ outlast = outnext + outcount + BUF_SIZE
  /\ ~sending => outlast = 0 /\ outnext = 0 /\ outcount = 0

OutputInv == ~wild => OutInv

LEMMA InRing ==
  ASSUME NEW next \in Indices, NEW k \in Int, 0 <= k, k <= BUF_SIZE
  PROVE  /\ next + k < BUF_SIZE => Wrapped(next + k) = next + k
         /\ next + k >= BUF_SIZE => Wrapped(next + k) = next + k - BUF_SIZE
         /\ k < BUF_SIZE => Wrapped(next + k) \in Indices
  BY SioAssumption DEF Wrapped, Indices

\* The characters x are appended to the ring.
LEMMA PutRing ==
  ASSUME NEW buf, NEW next, NEW count, NEW snt, NEW acc,
         Ring(buf, next, count, snt, acc),
         NEW x \in Seq(Chars), Len(x) <= BUF_SIZE - count,
         NEW after \in [Indices -> Chars],
         \A i \in 1..count : after[Wrapped(next + i - 1)] = buf[Wrapped(next + i - 1)],
         \A j \in 1..Len(x) : after[Wrapped(next + (count + j) - 1)] = x[j]
  PROVE  Ring(after, next, count + Len(x), snt, acc \o x)
  <1>1. /\ snt \in Seq(Chars) /\ acc \in Seq(Chars) /\ count \in 0..BUF_SIZE
        /\ next \in Indices /\ Len(acc) = Len(snt) + count
        /\ \A i \in 1..Len(snt) : acc[i] = snt[i]
        /\ \A i \in 1..count : acc[Len(snt) + i] = buf[Wrapped(next + i - 1)]
    BY DEF Ring
  <1>2. BUF_SIZE \in Nat /\ Len(x) \in Nat /\ Len(snt) \in Nat
    BY <1>1, SioAssumption
  <1> DEFINE all == acc \o x
  <1>3. /\ all \in Seq(Chars) /\ Len(all) = Len(acc) + Len(x)
        /\ \A i \in 1..Len(acc) : all[i] = acc[i]
        /\ \A i \in 1..Len(x) : all[Len(acc) + i] = x[i]
    <2>1. acc \in Seq(Chars)
      BY <1>1
    <2>2. QED BY <2>1, Joined
  <1> HIDE DEF all
  <1>4. count + Len(x) \in 0..BUF_SIZE /\ Len(all) = Len(snt) + (count + Len(x))
    <2>1. count \in Nat /\ Len(acc) = Len(snt) + count /\ Len(all) = Len(acc) + Len(x)
      BY <1>1, <1>3
    <2>2. count + Len(x) <= BUF_SIZE
      BY <1>2, <2>1
    <2> HIDE DEF all
    <2>3. QED BY <1>2, <2>1, <2>2
  <1>5. ASSUME NEW i \in 1..Len(snt)
        PROVE  all[i] = snt[i]
    <2>1. i \in 1..Len(acc)
      BY <1>1, <1>2
    <2>2. QED BY <1>1, <1>3, <2>1
  <1>6. ASSUME NEW i \in 1..(count + Len(x))
        PROVE  all[Len(snt) + i] = after[Wrapped(next + i - 1)]
    <2>1. CASE i \in 1..count
      <3>1. Len(snt) + i \in 1..Len(acc)
        BY <1>1, <1>2, <2>1
      <3>2. QED BY <1>1, <1>3, <2>1, <3>1
    <2>2. CASE i \notin 1..count
      <3>1. PICK j \in 1..Len(x) : i = count + j
        <4>1. i - count \in 1..Len(x) /\ i = count + (i - count)
          BY <1>1, <1>2, <2>2
        <4>2. QED BY <4>1
      <3>2. Len(snt) + i = Len(acc) + j
        BY <1>1, <1>2, <3>1
      <3>3. QED BY <1>3, <3>1, <3>2
    <2>3. QED BY <2>1, <2>2
  <1>7. Ring(after, next, count + Len(x), snt, all)
    BY <1>1, <1>3, <1>4, <1>5, <1>6 DEF Ring
  <1>8. QED BY <1>7 DEF all

\* The first character of the ring is sent.
LEMMA TakeRing ==
  ASSUME NEW buf, NEW next, NEW count, NEW snt, NEW acc,
         Ring(buf, next, count, snt, acc), count > 0
  PROVE  Ring(buf, Wrapped(next + 1), count - 1, Append(snt, buf[next]), acc)
  <1>1. /\ snt \in Seq(Chars) /\ acc \in Seq(Chars) /\ count \in 0..BUF_SIZE
        /\ next \in Indices /\ Len(acc) = Len(snt) + count
        /\ buf \in [Indices -> Chars]
        /\ \A i \in 1..Len(snt) : acc[i] = snt[i]
        /\ \A i \in 1..count : acc[Len(snt) + i] = buf[Wrapped(next + i - 1)]
    BY DEF Ring
  <1>2. BUF_SIZE \in Nat \ {0} /\ Len(snt) \in Nat /\ Indices = 0..(BUF_SIZE - 1)
    BY <1>1, SioAssumption DEF Indices
  <1> DEFINE more == Append(snt, buf[next])
  <1>3. /\ more \in Seq(Chars) /\ Len(more) = Len(snt) + 1
        /\ \A i \in 1..Len(snt) : more[i] = snt[i]
        /\ more[Len(snt) + 1] = buf[next]
    BY <1>1
  <1> HIDE DEF more
  <1>4. Wrapped(next + 1) \in Indices
    BY <1>1, <1>2 DEF Wrapped
  <1>5. ASSUME NEW i \in 1..Len(more)
        PROVE  acc[i] = more[i]
    <2>1. CASE i \in 1..Len(snt)
      BY <1>1, <1>3, <2>1
    <2>2. CASE i = Len(snt) + 1
      <3>1. Wrapped(next + 1 - 1) = next /\ 1 \in 1..count
        BY <1>1, <1>2 DEF Wrapped
      <3>2. QED BY <1>1, <1>3, <2>2, <3>1
    <2>3. QED BY <1>2, <1>3, <2>1, <2>2
  <1>6. ASSUME NEW i \in 1..(count - 1)
        PROVE  acc[Len(more) + i] = buf[Wrapped(Wrapped(next + 1) + i - 1)]
    <2>1. Wrapped(Wrapped(next + 1) + i - 1) = Wrapped(next + (i + 1) - 1)
      BY <1>1, <1>2 DEF Wrapped
    <2>2. i + 1 \in 1..count /\ Len(more) + i = Len(snt) + (i + 1)
      BY <1>1, <1>2, <1>3
    <2>3. QED BY <1>1, <2>1, <2>2
  <1>7. count - 1 \in 0..BUF_SIZE /\ Len(acc) = Len(more) + (count - 1)
    BY <1>1, <1>2, <1>3
  <1>8. Ring(buf, Wrapped(next + 1), count - 1, more, acc)
    BY <1>1, <1>3, <1>4, <1>5, <1>6, <1>7 DEF Ring
  <1>9. QED BY <1>8 DEF more

\* A place among the oc that are taken lies at least n behind the free ones.
LEMMA Outside ==
  ASSUME NEW B \in Nat, NEW on \in 0..(B - 1), NEW oc \in 0..B, NEW ol \in 0..(B - 1),
         ol = on + oc \/ ol = on + oc - B \/ ol = on + oc + B,
         NEW n \in Nat, n # 0, n <= B - oc, NEW i \in 1..oc,
         NEW w \in 0..(B - 1), w = on + i - 1 \/ w = on + i - 1 - B
  PROVE  ~((IF w - ol < 0 THEN w - ol + B ELSE w - ol) < n)
  OBVIOUS

\* Where Appended() puts the characters: from outlast on, around the end.
LEMMA AppendedAt ==
  ASSUME OutInv, NEW m \in Seq(Chars), NEW skip \in Nat, NEW n \in Nat,
         skip + n <= Len(m), n <= BUF_SIZE - outcount, n = 0 \/ outlast \in Indices
  PROVE  /\ Appended(m, skip, n) \in [Indices -> Chars]
         /\ \A i \in 1..outcount : Appended(m, skip, n)[Wrapped(outnext + i - 1)] =
                                     outbuffer[Wrapped(outnext + i - 1)]
         /\ \A j \in 1..n : Appended(m, skip, n)[Wrapped(outnext + (outcount + j) - 1)] =
                              m[skip + j]
  <1>1. BUF_SIZE \in Nat \ {0} /\ Indices = 0..(BUF_SIZE - 1)
    BY SioAssumption DEF Indices
  <1>2. /\ outbuffer \in [Indices -> Chars] /\ outnext \in Indices
        /\ outcount \in 0..BUF_SIZE /\ outlast \in 0..BUF_SIZE
    BY DEF OutInv, Ring
  <1>3. \/ outlast = outnext + outcount
        \/ outlast = outnext + outcount - BUF_SIZE
        \/ outlast = outnext + outcount + BUF_SIZE
    BY DEF OutInv
  <1> DEFINE at(i) == (i - outlast) % BUF_SIZE
  <1>4. ASSUME NEW i \in Indices
        PROVE  /\ at(i) = IF i - outlast < 0 THEN i - outlast + BUF_SIZE ELSE i - outlast
               /\ at(i) \in Nat
    <2> DEFINE a == i - outlast
    <2>1. a \in Int /\ -BUF_SIZE <= a /\ a < BUF_SIZE
      BY <1>1, <1>2
    <2> HIDE DEF a
    <2>2. a % BUF_SIZE = IF a < 0 THEN a + BUF_SIZE ELSE a
      <3>1. a < 2 * BUF_SIZE /\ ~(a >= BUF_SIZE)
        BY <1>1, <2>1
      <3>2. QED BY <1>1, <2>1, <3>1, OnceAround
    <2>3. a % BUF_SIZE \in Nat
      BY <1>1, <2>1, <2>2
    <2>4. QED BY <2>2, <2>3 DEF a
  <1> HIDE DEF at
  <1> DEFINE A == Appended(m, skip, n)
  <1>5. /\ A = [i \in Indices |-> IF at(i) < n THEN m[skip + at(i) + 1] ELSE outbuffer[i]]
    BY DEF Appended, at
  <1> HIDE DEF A
  <1>6. A \in [Indices -> Chars]
    <2>1. ASSUME NEW i \in Indices
          PROVE  (IF at(i) < n THEN m[skip + at(i) + 1] ELSE outbuffer[i]) \in Chars
      <3>1. at(i) < n => skip + at(i) + 1 \in 1..Len(m)
        BY <1>4
      <3>2. at(i) < n => m[skip + at(i) + 1] \in Chars
        BY <3>1
      <3>3. QED BY <1>2, <3>2
    <2>2. QED BY <1>5, <2>1
  <1>7. ASSUME NEW i \in 1..outcount
        PROVE  A[Wrapped(outnext + i - 1)] = outbuffer[Wrapped(outnext + i - 1)]
    <2> DEFINE w == Wrapped(outnext + i - 1)
    <2>1. w \in Indices /\ (w = outnext + i - 1 \/ w = outnext + i - 1 - BUF_SIZE)
      BY <1>1, <1>2 DEF Wrapped
    <2> HIDE DEF w
    <2>2. CASE n = 0
      <3>1. ~(at(w) < n)
        BY <1>4, <2>1, <2>2
      <3>2. QED BY <1>5, <2>1, <3>1 DEF w
    <2>3. CASE n # 0
      <3>1. ~(at(w) < n)
        <4>1. /\ BUF_SIZE \in Nat /\ outnext \in 0..(BUF_SIZE - 1)
              /\ outcount \in 0..BUF_SIZE /\ outlast \in 0..(BUF_SIZE - 1)
              /\ w \in 0..(BUF_SIZE - 1)
          BY <1>1, <1>2, <2>1, <2>3
        <4>2. at(w) = IF w - outlast < 0 THEN w - outlast + BUF_SIZE ELSE w - outlast
          BY <1>4, <2>1
        <4> QED  BY <4>1, <4>2, <1>3, <2>1, <2>3, Outside
      <3>2. QED BY <1>5, <2>1, <3>1 DEF w
    <2>4. QED BY <2>2, <2>3
  <1>8. ASSUME NEW j \in 1..n
        PROVE  A[Wrapped(outnext + (outcount + j) - 1)] = m[skip + j]
    <2> DEFINE w == Wrapped(outnext + (outcount + j) - 1)
    <2>1. outlast \in Indices
      OBVIOUS
    <2>2. /\ w \in Indices
          /\ \/ w = outnext + outcount + j - 1
             \/ w = outnext + outcount + j - 1 - BUF_SIZE
      BY <1>1, <1>2 DEF Wrapped
    <2> HIDE DEF w
    <2>3. at(w) = j - 1
      <3>1. at(w) = IF w - outlast < 0 THEN w - outlast + BUF_SIZE ELSE w - outlast
        BY <1>4, <2>2
      <3>2. /\ outnext \in Int /\ outcount \in Int /\ outlast \in Int /\ w \in Int
            /\ j \in Int /\ BUF_SIZE \in Int /\ 0 <= outlast /\ outlast < BUF_SIZE
            /\ 0 <= w /\ w < BUF_SIZE /\ 1 <= j /\ j <= BUF_SIZE - outcount
            /\ 0 <= outcount
        BY <1>1, <1>2, <2>1, <2>2
      <3> HIDE DEF at
      <3>3. w - outlast = j - 1 \/ w - outlast = j - 1 - BUF_SIZE
        BY <1>3, <2>2, <3>2
      <3>4. QED BY <3>1, <3>2, <3>3
    <2>4. skip + at(w) + 1 = skip + j /\ at(w) < n
      BY <2>3
    <2>5. QED BY <1>5, <2>2, <2>4 DEF w
  <1>9. QED BY <1>6, <1>7, <1>8 DEF A

LEMMA TypesOut ==
  ASSUME OutInv
  PROVE  /\ BUF_SIZE \in Nat \ {0} /\ Indices = 0..(BUF_SIZE - 1)
         /\ outbuffer \in [Indices -> Chars] /\ outnext \in Indices
         /\ outcount \in 0..BUF_SIZE /\ outlast \in 0..BUF_SIZE
         /\ sent \in Seq(Chars) /\ queued \in Seq(Chars)
         /\ \/ outlast = outnext + outcount
            \/ outlast = outnext + outcount - BUF_SIZE
            \/ outlast = outnext + outcount + BUF_SIZE
  BY SioAssumption DEF OutInv, Ring, Indices

LEMMA WriteSendingOut ==
  ASSUME OutInv, NEW m \in Messages, WriteSending(m), UNCHANGED outnext,
         outlast \in Indices \/ Fits(m, 0) <= 0
  PROVE  OutInv'
  <1> DEFINE n == Fits(m, 0)
             x == SubSeq(m, 1, n)
  <1>1. m \in Seq(Chars) /\ Len(m) \in Nat /\ Len(m) >= 1
    BY MessageChars
  <1>2. n \in Nat /\ n <= Len(m) /\ n <= BUF_SIZE - outcount
    BY <1>1, TypesOut DEF Fits, Lesser
  <1>3. /\ outbuffer' = Appended(m, 0, n)
        /\ outlast' = IF n = 0 THEN outlast ELSE Wrapped(outlast + n)
        /\ outcount' = outcount + n /\ queued' = queued \o x
        /\ UNCHANGED <<outnext, sending, sent>> /\ sending
    BY DEF WriteSending
  <1>4. n = 0 \/ outlast \in Indices
    BY <1>2
  <1> HIDE DEF n
  <1>5. x \in Seq(Chars) /\ Len(x) = n /\ \A j \in 1..n : x[j] = m[j]
    BY <1>1, <1>2
  <1>6. Ring(outbuffer', outnext, outcount + n, sent, queued \o x)
    <2> DEFINE A == Appended(m, 0, n)
    <2>1. 0 \in Nat /\ 0 + n <= Len(m)
      BY <1>2
    <2>2. /\ A \in [Indices -> Chars]
          /\ \A i \in 1..outcount : A[Wrapped(outnext + i - 1)] =
                                      outbuffer[Wrapped(outnext + i - 1)]
          /\ \A j \in 1..n : A[Wrapped(outnext + (outcount + j) - 1)] = m[0 + j]
      BY <1>1, <1>2, <1>4, <2>1, AppendedAt
    <2> HIDE DEF A
    <2>3. \A j \in 1..n : m[0 + j] = x[j]
      BY <1>2, <1>5
    <2> HIDE DEF x
    <2>4. Ring(A, outnext, outcount + Len(x), sent, queued \o x)
      BY <1>2, <1>5, <2>2, <2>3, PutRing DEF OutInv
    <2>5. QED BY <1>3, <1>5, <2>4 DEF A
  <1> HIDE DEF x
  <1>7. Ring(outbuffer', outnext', outcount', sent', queued')
    BY <1>3, <1>6
  <1>8. /\ outlast' \in 0..BUF_SIZE
        /\ \/ outlast' = outnext' + outcount'
           \/ outlast' = outnext' + outcount' - BUF_SIZE
           \/ outlast' = outnext' + outcount' + BUF_SIZE
    <2>1. /\ outnext \in Int /\ outcount \in Int /\ outlast \in Int /\ BUF_SIZE \in Int
          /\ 0 <= outlast /\ outlast <= BUF_SIZE /\ 0 <= outcount /\ n \in Nat
          /\ n <= BUF_SIZE - outcount /\ BUF_SIZE > 0
          /\ 0 <= outnext /\ outnext < BUF_SIZE
      BY <1>2, TypesOut
    <2>2. outlast' = IF n = 0 THEN outlast
                     ELSE IF outlast + n >= BUF_SIZE THEN outlast + n - BUF_SIZE ELSE outlast + n
      BY <1>3, <2>1 DEF Wrapped
    <2>3. outnext' = outnext /\ outcount' = outcount + n
      BY <1>3
    <2>4. outlast' \in 0..BUF_SIZE
      BY <2>1, <2>2
    <2>5. \/ outlast = outnext + outcount
          \/ outlast = outnext + outcount - BUF_SIZE
          \/ outlast = outnext + outcount + BUF_SIZE
      BY TypesOut
    <2>6. QED BY <1>4, <2>1, <2>2, <2>3, <2>4, <2>5
  <1>9. QED BY <1>3, <1>7, <1>8 DEF OutInv

\* A character that goes to the UART at once: nothing waits before it.
LEMMA DirectRing ==
  ASSUME NEW buf, NEW next, NEW snt, NEW acc, Ring(buf, next, 0, snt, acc),
         NEW c \in Chars
  PROVE  Ring(buf, next, 0, Append(snt, c), Append(acc, c))
  <1>1. /\ snt \in Seq(Chars) /\ acc \in Seq(Chars) /\ Len(acc) = Len(snt)
        /\ \A i \in 1..Len(snt) : acc[i] = snt[i]
    BY DEF Ring
  <1>2. /\ Append(snt, c) \in Seq(Chars) /\ Append(acc, c) \in Seq(Chars)
        /\ Len(Append(acc, c)) = Len(Append(snt, c))
        /\ \A i \in 1..Len(Append(snt, c)) : Append(acc, c)[i] = Append(snt, c)[i]
    BY <1>1
  <1> DEFINE snt2 == Append(snt, c)
             acc2 == Append(acc, c)
  <1> HIDE DEF snt2, acc2
  <1>3. /\ buf \in [Indices -> Chars] /\ next \in Indices /\ 0 \in 0..BUF_SIZE
    BY DEF Ring
  <1>4. /\ snt2 \in Seq(Chars) /\ acc2 \in Seq(Chars) /\ Len(acc2) = Len(snt2) + 0
        /\ \A i \in 1..Len(snt2) : acc2[i] = snt2[i]
    <2>1. /\ snt2 \in Seq(Chars) /\ acc2 \in Seq(Chars) /\ Len(acc2) = Len(snt2)
          /\ \A i \in 1..Len(snt2) : acc2[i] = snt2[i]
      BY <1>2 DEF snt2, acc2
    <2>2. QED BY <2>1
  <1>5. Ring(buf, next, 0, snt2, acc2)
    BY <1>3, <1>4 DEF Ring
  <1>6. QED BY <1>5 DEF snt2, acc2

LEMMA WriteStartingOut ==
  ASSUME OutInv, NEW m \in Messages, WriteStarting(m), UNCHANGED outnext
  PROVE  OutInv'
  <1> DEFINE n == Fits(m, 1)
  <1>1. m \in Seq(Chars) /\ Len(m) \in Nat /\ Len(m) >= 1
    BY MessageChars
  <1>2. /\ ~sending /\ sending' /\ outlast = 0 /\ outnext = 0 /\ outcount = 0
        /\ Ring(outbuffer, 0, 0, sent, queued) /\ outnext' = 0
    BY DEF OutInv, WriteStarting, Prime
  <1>3. /\ BUF_SIZE \in Nat \ {0} /\ Indices = 0..(BUF_SIZE - 1) /\ 0 \in Indices
        /\ sent \in Seq(Chars) /\ queued \in Seq(Chars)
        /\ outbuffer \in [Indices -> Chars]
    BY TypesOut
  <1>4. n \in Nat /\ n + 1 <= Len(m) /\ n <= BUF_SIZE
    BY <1>1, <1>2, <1>3 DEF Fits, Lesser
  <1>5. /\ outbuffer' = Appended(m, 1, n)
        /\ outlast' = Wrapped(outlast + n)
        /\ outcount' = outcount + n
        /\ sent' = Append(sent, m[1])
        /\ queued' = queued \o SubSeq(m, 1, n + 1)
    BY DEF WriteStarting
  <1>6. QED
    <2> DEFINE x == SubSeq(m, 2, n + 1)
               A == Appended(m, 1, n)
    <2> HIDE DEF n
    <2>1. x \in Seq(Chars) /\ Len(x) = n /\ \A j \in 1..n : x[j] = m[1 + j]
      BY <1>1, <1>4
    <2>2. m[1] \in Chars
      BY <1>1
    <2>3. Append(queued, m[1]) \o x = queued \o SubSeq(m, 1, n + 1)
      <3> DEFINE u == queued \o SubSeq(m, 1, n + 1)
                 s == Append(queued, m[1])
                 y == SubSeq(m, 1, n + 1)
      <3>1. /\ y \in Seq(Chars) /\ Len(y) = n + 1
            /\ \A j \in 1..(n + 1) : y[j] = m[j]
        BY <1>1, <1>4
      <3> HIDE DEF y
      <3>2. /\ u \in Seq(Chars) /\ Len(u) = Len(queued) + (n + 1)
            /\ \A i \in 1..Len(queued) : u[i] = queued[i]
            /\ \A j \in 1..(n + 1) : u[Len(queued) + j] = y[j]
        <4>1. /\ queued \o y \in Seq(Chars)
              /\ Len(queued \o y) = Len(queued) + Len(y)
              /\ \A i \in 1..Len(queued) : (queued \o y)[i] = queued[i]
              /\ \A j \in 1..Len(y) : (queued \o y)[Len(queued) + j] = y[j]
          BY SMTT(30), <1>3, <3>1, Joined
        <4>2. QED BY <3>1, <4>1 DEF y
      <3>3. /\ s \in Seq(Chars) /\ Len(s) = Len(queued) + 1
            /\ \A i \in 1..Len(queued) : s[i] = queued[i]
            /\ s[Len(queued) + 1] = m[1]
        BY <1>3, <2>2
      <3> HIDE DEF u, s, x
      <3>4. Len(u) = Len(s) + Len(x) /\ Len(queued) \in Nat
        BY <1>3, <1>4, <2>1, <3>2, <3>3
      <3>5. ASSUME NEW i \in 1..Len(s)
            PROVE  u[i] = s[i]
        <4>1. CASE i \in 1..Len(queued)
          BY <3>2, <3>3, <4>1
        <4>2. CASE i = Len(queued) + 1
          <5>1. 1 \in 1..(n + 1)
            BY <1>4
          <5>2. QED BY <3>1, <3>2, <3>3, <4>2, <5>1
        <4>3. QED BY <3>3, <3>4, <4>1, <4>2
      <3>6. ASSUME NEW i \in 1..Len(x)
            PROVE  u[Len(s) + i] = x[i]
        <4>1. /\ i + 1 \in 1..(n + 1) /\ Len(s) + i = Len(queued) + (i + 1)
              /\ i \in 1..n /\ 1 + i = i + 1
          BY <1>4, <2>1, <3>3, <3>4
        <4>2. u[Len(s) + i] = m[1 + i]
          BY <3>1, <3>2, <4>1
        <4>3. QED BY <2>1, <4>1, <4>2
      <3>7. s \o x = u
        BY <2>1, <3>2, <3>3, <3>4, <3>5, <3>6, JoinedIs
      <3>8. QED BY <3>7 DEF s, u
    <2>4. Ring(outbuffer, 0, 0, Append(sent, m[1]), Append(queued, m[1]))
      BY <1>2, <2>2, DirectRing
    <2>5. /\ A \in [Indices -> Chars]
          /\ \A j \in 1..n : A[Wrapped(0 + (0 + j) - 1)] = m[1 + j]
      <3>1. 1 \in Nat /\ 1 + n <= Len(m) /\ n <= BUF_SIZE - outcount /\ outlast \in Indices
        BY <1>1, <1>2, <1>3, <1>4
      <3>2. /\ A \in [Indices -> Chars]
            /\ \A j \in 1..n : A[Wrapped(outnext + (outcount + j) - 1)] = m[1 + j]
        BY <1>1, <1>4, <3>1, AppendedAt
      <3>3. QED BY <1>2, <3>2
    <2> HIDE DEF x, A
    <2>6. Ring(A, 0, 0 + Len(x), Append(sent, m[1]), Append(queued, m[1]) \o x)
      <3>1. \A i \in 1..0 : A[Wrapped(0 + i - 1)] = outbuffer[Wrapped(0 + i - 1)]
        OBVIOUS
      <3>2. Len(x) <= BUF_SIZE - 0
        BY <1>3, <1>4, <2>1
      <3>3. \A j \in 1..Len(x) : A[Wrapped(0 + (0 + j) - 1)] = x[j]
        BY <2>1, <2>5
      <3>4. QED BY <2>1, <2>4, <2>5, <3>1, <3>2, <3>3, PutRing
    <2>7. 0 + Len(x) = n /\ outcount' = n
      BY <1>2, <1>4, <1>5, <2>1 DEF n
    <2>8. Ring(outbuffer', outnext', outcount', sent', queued')
      BY <1>2, <1>5, <2>3, <2>6, <2>7 DEF A, n
    <2>9. outlast' = IF n >= BUF_SIZE THEN n - BUF_SIZE ELSE n
      BY SMTT(30), <1>2, <1>4, <1>5 DEF Wrapped, n
    <2>10. /\ outlast' \in 0..BUF_SIZE
           /\ outlast' = outnext' + outcount' \/ outlast' = outnext' + outcount' - BUF_SIZE
      BY <1>2, <1>3, <1>4, <2>7, <2>9
    <2>11. QED BY <1>2, <2>8, <2>10 DEF OutInv

LEMMA WriteNewlineOut ==
  ASSUME OutInv, NEW m \in Messages, WriteNewline(m), UNCHANGED outnext, ~wild'
  PROVE  OutInv'
  <1> DEFINE n == Fits(m, 1)
             x == SubSeq(m, 2, n + 1)
             z == <<LF>>
             A == Appended(m, 1, n)
             B == [A EXCEPT ![n] = LF]
             snt == Append(sent, CR)
  <1>1. m \in Seq(Chars) /\ Len(m) \in Nat /\ Len(m) >= 1
    BY MessageChars
  <1>2. /\ ~sending /\ outlast = 0 /\ outnext = 0 /\ outcount = 0
        /\ Ring(outbuffer, 0, 0, sent, queued) /\ outnext' = 0
    BY DEF OutInv, WriteNewline
  <1>3. /\ BUF_SIZE \in Nat \ {0} /\ Indices = 0..(BUF_SIZE - 1) /\ 0 \in Indices
        /\ sent \in Seq(Chars) /\ queued \in Seq(Chars)
        /\ outbuffer \in [Indices -> Chars]
    BY TypesOut
  <1>4. n \in Nat /\ n + 1 <= Len(m) /\ n <= BUF_SIZE
    BY <1>1, <1>2, <1>3 DEF Fits, Lesser
  <1>5. CASE /\ outcount + n < BUF_SIZE
             /\ Prime
             /\ outbuffer' = [Appended(m, 1, n) EXCEPT ![Wrapped(outlast + n)] = LF]
             /\ outlast' = Wrapped(outlast + n) + 1
             /\ outcount' = outcount + n + 1
             /\ sent' = Append(sent, CR)
             /\ queued' = queued \o <<CR>> \o SubSeq(m, 2, n + 1) \o <<LF>>
    <2> HIDE DEF n
    <2>1. n \in Indices /\ Wrapped(outlast + n) = n
      BY <1>2, <1>3, <1>4, <1>5 DEF Wrapped
    <2>2. LF \in Chars /\ CR \in Chars
      BY DEF Chars
    <2>3. x \in Seq(Chars) /\ Len(x) = n /\ \A j \in 1..n : x[j] = m[1 + j]
      BY <1>1, <1>4
    <2>4. /\ A \in [Indices -> Chars]
          /\ \A j \in 1..n : A[Wrapped(0 + (0 + j) - 1)] = m[1 + j]
      <3>1. 1 \in Nat /\ 1 + n <= Len(m) /\ n <= BUF_SIZE - outcount /\ outlast \in Indices
        BY <1>1, <1>2, <1>3, <1>4
      <3>2. /\ A \in [Indices -> Chars]
            /\ \A j \in 1..n : A[Wrapped(outnext + (outcount + j) - 1)] = m[1 + j]
        BY <1>1, <1>4, <3>1, AppendedAt
      <3>3. QED BY <1>2, <3>2
    <2>5. Ring(outbuffer, 0, 0, snt, Append(queued, CR))
      BY <1>2, <2>2, DirectRing
    <2> HIDE DEF x, A
    <2>6. Ring(A, 0, 0 + Len(x), snt, Append(queued, CR) \o x)
      <3>1. \A i \in 1..0 : A[Wrapped(0 + i - 1)] = outbuffer[Wrapped(0 + i - 1)]
        OBVIOUS
      <3>2. Len(x) <= BUF_SIZE - 0
        BY <1>3, <1>4, <2>3
      <3>3. \A j \in 1..Len(x) : A[Wrapped(0 + (0 + j) - 1)] = x[j]
        BY <2>3, <2>4
      <3>4. QED BY <2>3, <2>4, <2>5, <3>1, <3>2, <3>3, PutRing
    <2>7. Ring(A, 0, n, snt, Append(queued, CR) \o x)
      <3>1. 0 + Len(x) = n
        BY <1>4, <2>3
      <3>2. QED BY <2>6, <3>1
    <2>8. /\ B \in [Indices -> Chars] /\ B[n] = LF
          /\ \A i \in Indices : i # n => B[i] = A[i]
      BY <2>1, <2>2, <2>4
    <2>9. z \in Seq(Chars) /\ Len(z) = 1 /\ z[1] = LF
      BY <2>2
    <2> HIDE DEF B, z
    <2>10. Ring(B, 0, n + Len(z), snt, (Append(queued, CR) \o x) \o z)
      <3>1. ASSUME NEW i \in 1..n
            PROVE  B[Wrapped(0 + i - 1)] = A[Wrapped(0 + i - 1)]
        <4>1. Wrapped(0 + i - 1) \in Indices /\ Wrapped(0 + i - 1) # n
          BY <1>3, <1>4, <2>1 DEF Wrapped
        <4>2. QED BY <2>8, <4>1
      <3>2. Len(z) <= BUF_SIZE - n
        BY <1>3, <2>1, <2>9
      <3>3. Wrapped(0 + (n + 1) - 1) = n
        BY <1>3, <2>1 DEF Wrapped
      <3>4. \A j \in 1..Len(z) : j = 1
        BY <2>9
      <3>5. \A j \in 1..Len(z) : B[Wrapped(0 + (n + j) - 1)] = z[j]
        BY <2>8, <2>9, <3>3, <3>4
      <3>6. QED BY <2>7, <2>8, <2>9, <3>1, <3>2, <3>5, PutRing
    <2>11. queued' = (Append(queued, CR) \o x) \o z
      <3>1. queued \o <<CR>> = Append(queued, CR)
        BY <1>3, <2>2
      <3>2. QED BY <1>5, <3>1 DEF x, z
    <2>12. /\ outbuffer' = B /\ outlast' = n + 1 /\ outcount' = n + 1 /\ sent' = snt
           /\ n + Len(z) = n + 1 /\ sending'
      BY <1>2, <1>4, <1>5, <2>1, <2>9 DEF A, B, Prime
    <2>13. Ring(outbuffer', outnext', outcount', sent', queued')
      BY <1>2, <2>10, <2>11, <2>12
    <2>14. outlast' \in 0..BUF_SIZE /\ outlast' = outnext' + outcount'
      BY <1>2, <1>3, <2>1, <2>12
    <2>15. QED BY <2>12, <2>13, <2>14 DEF OutInv
  <1>6. QED BY <1>5 DEF WriteNewline

LEMMA WritecOut ==
  ASSUME OutInv, sio_writec("c"), ~wild'
  PROVE  OutInv'
  <1>1. "c" \in Chars
    BY DEF Chars
  <1>2. CASE /\ sending /\ outlast \in Indices /\ outcount < BUF_SIZE
             /\ outbuffer' = [outbuffer EXCEPT ![outlast] = "c"]
             /\ outlast' = outlast + 1
             /\ outcount' = outcount + 1
             /\ queued' = Append(queued, "c")
             /\ UNCHANGED <<sending, sent, outnext>>
    <2> DEFINE x == <<"c">>
    <2>1. x \in Seq(Chars) /\ Len(x) = 1 /\ x[1] = "c"
      BY <1>1
    <2>2. outbuffer' \in [Indices -> Chars] /\ outbuffer'[outlast] = "c"
      BY <1>1, <1>2, TypesOut
    <2>3. Wrapped(outnext + (outcount + 1) - 1) = outlast
      <3>1. /\ outnext \in Int /\ outcount \in Int /\ outlast \in Int /\ BUF_SIZE \in Int
            /\ 0 <= outlast /\ outlast < BUF_SIZE /\ 0 <= outcount /\ outcount < BUF_SIZE
            /\ 0 <= outnext /\ outnext < BUF_SIZE
        BY <1>2, TypesOut
      <3>2. \/ outlast = outnext + outcount
            \/ outlast = outnext + outcount - BUF_SIZE
            \/ outlast = outnext + outcount + BUF_SIZE
        BY TypesOut
      <3>3. QED BY <3>1, <3>2 DEF Wrapped
    <2>4. ASSUME NEW i \in 1..outcount
          PROVE  outbuffer'[Wrapped(outnext + i - 1)] = outbuffer[Wrapped(outnext + i - 1)]
      <3>1. /\ outnext \in Int /\ outcount \in Int /\ i \in Int /\ BUF_SIZE \in Int
            /\ 1 <= i /\ i <= outcount /\ outcount < BUF_SIZE
            /\ 0 <= outnext /\ outnext < BUF_SIZE
        BY <1>2, TypesOut
      <3>2. /\ Wrapped(outnext + i - 1) # Wrapped(outnext + (outcount + 1) - 1)
            /\ Wrapped(outnext + i - 1) \in 0..(BUF_SIZE - 1)
        BY <3>1 DEF Wrapped
      <3>3. Wrapped(outnext + i - 1) \in Indices /\ Wrapped(outnext + i - 1) # outlast
        BY <2>3, <3>2 DEF Indices
      <3>4. QED BY <1>2, <3>3, TypesOut
    <2> HIDE DEF x
    <2>5. \A j \in 1..Len(x) : outbuffer'[Wrapped(outnext + (outcount + j) - 1)] = x[j]
      <3>1. \A j \in 1..Len(x) : j = 1
        BY <2>1
      <3>2. QED BY <2>1, <2>2, <2>3, <3>1
    <2>6. Len(x) <= BUF_SIZE - outcount /\ outcount + Len(x) = outcount'
      BY <1>2, <2>1, TypesOut
    <2>7. Ring(outbuffer', outnext, outcount + Len(x), sent, queued \o x)
      BY <2>1, <2>2, <2>4, <2>5, <2>6, PutRing DEF OutInv
    <2>8. queued \o x = Append(queued, "c")
      BY <1>1, TypesOut DEF x
    <2>9. Ring(outbuffer', outnext', outcount', sent', queued')
      BY <1>2, <2>6, <2>7, <2>8
    <2>10. outlast' \in 0..BUF_SIZE
      BY <1>2, TypesOut
    <2>11. \/ outlast' = outnext' + outcount'
           \/ outlast' = outnext' + outcount' - BUF_SIZE
           \/ outlast' = outnext' + outcount' + BUF_SIZE
      <3>1. /\ outnext \in Int /\ outcount \in Int /\ outlast \in Int /\ BUF_SIZE \in Int
            /\ outnext' = outnext /\ outcount' = outcount + 1 /\ outlast' = outlast + 1
        BY <1>2, TypesOut
      <3>2. \/ outlast = outnext + outcount
            \/ outlast = outnext + outcount - BUF_SIZE
            \/ outlast = outnext + outcount + BUF_SIZE
        BY TypesOut
      <3>3. QED BY <3>1, <3>2
    <2>12. QED BY <1>2, <2>9, <2>10, <2>11 DEF OutInv
  <1>3. CASE /\ ~sending /\ sending'
             /\ sent' = Append(sent, "c")
             /\ queued' = Append(queued, "c")
             /\ UNCHANGED <<outbuffer, outlast, outcount, outnext>>
    <2>1. outlast = 0 /\ outnext = 0 /\ outcount = 0 /\ Ring(outbuffer, outnext, 0, sent, queued)
      BY <1>3 DEF OutInv
    <2>2. Ring(outbuffer, outnext, 0, Append(sent, "c"), Append(queued, "c"))
      BY <1>1, <2>1, DirectRing
    <2>3. QED BY <1>3, <2>1, <2>2 DEF OutInv
  <1>4. QED BY <1>2, <1>3 DEF sio_writec, Prime

LEMMA TransmitOut ==
  ASSUME OutInv, sio_isr_TX
  PROVE  OutInv'
  <1>1. CASE /\ sending /\ outcount > 0
             /\ sent' = Append(sent, outbuffer[outnext])
             /\ outnext' = Wrapped(outnext + 1)
             /\ outcount' = outcount - 1
             /\ UNCHANGED <<outlast, sending, outbuffer, queued>>
    <2>1. Ring(outbuffer', outnext', outcount', sent', queued')
      BY <1>1, TakeRing DEF OutInv
    <2>2. outlast' \in 0..BUF_SIZE
      BY <1>1, TypesOut
    <2>3. /\ outnext \in Int /\ outcount \in Int /\ outlast \in Int /\ BUF_SIZE \in Int
          /\ 0 <= outlast /\ outlast <= BUF_SIZE /\ 0 < outcount /\ outcount <= BUF_SIZE
          /\ 0 <= outnext /\ outnext < BUF_SIZE
      BY <1>1, TypesOut
    <2>4. \/ outlast = outnext + outcount
          \/ outlast = outnext + outcount - BUF_SIZE
          \/ outlast = outnext + outcount + BUF_SIZE
      BY TypesOut
    <2>5. outnext' = IF outnext + 1 >= BUF_SIZE THEN 0 ELSE outnext + 1
      BY <1>1, <2>3 DEF Wrapped
    <2>6. \/ outlast' = outnext' + outcount'
          \/ outlast' = outnext' + outcount' - BUF_SIZE
          \/ outlast' = outnext' + outcount' + BUF_SIZE
      BY SMTT(30), <1>1, <2>3, <2>4, <2>5
    <2>7. QED BY <1>1, <2>1, <2>2, <2>6 DEF OutInv
  <1>2. CASE /\ ~(sending /\ outcount > 0)
             /\ outcount' = 0
             /\ outlast' = 0 /\ outnext' = 0
             /\ UNCHANGED <<sent, outbuffer, queued>>
    <2>1. outcount = 0
      BY <1>2, TypesOut DEF OutInv
    <2>2. 0 \in Indices /\ 0 \in 0..BUF_SIZE
      BY TypesOut
    <2>3. Ring(outbuffer, 0, 0, sent, queued)
      BY <2>1, <2>2 DEF OutInv, Ring
    <2>4. QED BY <1>2, <2>2, <2>3 DEF OutInv
  <1>3. QED BY <1>1, <1>2 DEF sio_isr_TX

\* Nothing waits to be sent when the kernel's main() ends its initialization.
LEMMA FlushOut ==
  ASSUME OutInv, main
  PROVE  OutInv'
  <1>1. /\ outcount' = 0 /\ outlast' = 0 /\ outnext' = 0 /\ queued' = sent
        /\ UNCHANGED <<outbuffer, sent>>
    BY DEF main, sio_flush
  <1>2. /\ 0 \in Indices /\ 0 \in 0..BUF_SIZE /\ outbuffer \in [Indices -> Chars]
        /\ sent \in Seq(Chars)
    BY TypesOut
  <1>3. Ring(outbuffer, 0, 0, sent, sent)
    <2>1. Len(sent) = Len(sent) + 0
      BY <1>2
    <2>2. QED BY <1>2, <2>1 DEF Ring
  <1>4. QED BY <1>1, <1>2, <1>3 DEF OutInv

LEMMA NextOut ==
  ASSUME OutputInv, [Next]_vars
  PROVE  OutputInv'
  <1>1. SUFFICES ASSUME ~wild'
                 PROVE  OutInv'
    BY DEF OutputInv
  <1>2. ~wild => OutInv
    BY DEF OutputInv
  <1>3. CASE main
    BY <1>2, <1>3, FlushOut DEF main
  <1>4. CASE sio_isr_TX
    BY <1>2, <1>4, TransmitOut DEF sio_isr_TX
  <1>5. CASE sio_writec("c")
    BY <1>1, <1>2, <1>5, WritecOut DEF sio_writec
  <1>6. ASSUME NEW m \in Messages, sio_write(m)
        PROVE  OutInv'
    <2>1. /\ OutInv /\ UNCHANGED outnext
          /\ WriteSending(m) \/ WriteStarting(m) \/ WriteNewline(m)
          /\ outlast \in Indices \/ ~(Fits(m, 0) > 0)
      BY <1>1, <1>2, <1>6 DEF sio_write
    <2>2. Fits(m, 0) \in Nat
      BY <2>1, MessageChars, TypesOut DEF Fits, Lesser
    <2>3. outlast \in Indices \/ Fits(m, 0) <= 0
      BY <2>1, <2>2
    <2>4. QED BY <1>1, <2>1, <2>3, WriteSendingOut, WriteStartingOut, WriteNewlineOut
  <1>7. CASE Transmitted \/ sio_isr_RX \/ (\E n \in ReadLens : sio_read(n)) \/ UNCHANGED vars
    <2>1. UNCHANGED <<outbuffer, outlast, outnext, outcount, sending, queued, sent>>
      BY <1>7 DEF Transmitted, sio_isr_RX, sio_read, vars, outVars
    <2>2. ~wild
      BY <1>1, <1>7 DEF Transmitted, sio_isr_RX, sio_read, vars
    <2>3. QED BY <1>2, <2>1, <2>2 DEF OutInv, Ring
  <1>8. QED BY <1>3, <1>4, <1>5, <1>6, <1>7 DEF Next

LEMMA InitOut ==
  ASSUME Init
  PROVE  OutputInv
  <1>1. /\ BUF_SIZE \in Nat \ {0} /\ 0 \in Indices /\ 0 \in 0..BUF_SIZE
    BY SioAssumption DEF Indices
  <1>2. outbuffer \in [Indices -> Chars]
    BY DEF Init, Chars
  <1>3. /\ outlast = 0 /\ outnext = 0 /\ outcount = 0 /\ queued = <<>> /\ sent = <<>>
    BY DEF Init
  <1>4. Ring(outbuffer, 0, 0, <<>>, <<>>)
    BY <1>1, <1>2 DEF Ring
  <1>5. QED BY <1>1, <1>3, <1>4 DEF OutputInv, OutInv

\* What was sent and what waits in the ring together are what was put in.
LEMMA OutputReaches ==
  ASSUME OutputInv
  PROVE  LineGetsOutput
  <1> SUFFICES ASSUME OutInv
               PROVE  sent \o Waiting = queued
    BY DEF OutputInv, LineGetsOutput
  <1>1. /\ BUF_SIZE \in Nat \ {0} /\ outcount \in 0..BUF_SIZE /\ outnext \in 0..(BUF_SIZE - 1)
        /\ Indices = 0..(BUF_SIZE - 1) /\ outbuffer \in [Indices -> Chars]
    BY TypesOut
  <1>2. ASSUME NEW i \in 1..outcount
        PROVE  /\ (outnext + i - 1) % BUF_SIZE = Wrapped(outnext + i - 1)
               /\ outbuffer[Wrapped(outnext + i - 1)] \in Chars
    <2> DEFINE a == outnext + i - 1
    <2>1. a \in Int /\ -BUF_SIZE <= a /\ a < 2 * BUF_SIZE /\ a >= 0
      BY <1>1
    <2> HIDE DEF a
    <2>2. a % BUF_SIZE = IF a < 0 THEN a + BUF_SIZE ELSE IF a >= BUF_SIZE THEN a - BUF_SIZE ELSE a
      BY <1>1, <2>1, OnceAround
    <2>4. a % BUF_SIZE = Wrapped(a)
      BY <2>1, <2>2 DEF Wrapped
    <2>5. Wrapped(a) \in Indices
      BY <1>1, <2>1 DEF Wrapped
    <2>6. QED BY <1>1, <2>4, <2>5 DEF a
  <1>3. /\ Waiting \in Seq(Chars) /\ Len(Waiting) = outcount
        /\ \A i \in 1..outcount : Waiting[i] = outbuffer[Wrapped(outnext + i - 1)]
    <2>1. Waiting = [i \in 1..outcount |-> outbuffer[Wrapped(outnext + i - 1)]]
      BY <1>2 DEF Waiting
    <2>2. outcount \in Nat
      BY <1>1
    <2> HIDE DEF Waiting
    <2>3. QED BY <1>2, <2>1, <2>2
  <1>4. /\ sent \in Seq(Chars) /\ queued \in Seq(Chars)
        /\ Len(queued) = Len(sent) + Len(Waiting)
        /\ \A i \in 1..Len(sent) : queued[i] = sent[i]
        /\ \A i \in 1..Len(Waiting) : queued[Len(sent) + i] = Waiting[i]
    BY <1>3 DEF OutInv, Ring
  <1> HIDE DEF Waiting
  <1>5. QED BY <1>3, <1>4, JoinedIs

\* The line gets every character that sio_write() and sio_writec() put in, once
\* and in the order in which they did, for any buffer size and any messages.
THEOREM LineServed == Spec => []LineGetsOutput
  <1>1. Init => OutputInv
    BY InitOut
  <1>2. OutputInv /\ [Next]_vars => OutputInv'
    BY NextOut
  <1>3. OutputInv => LineGetsOutput
    BY OutputReaches
  <1>4. QED BY <1>1, <1>2, <1>3, PTL DEF Spec
=============================================================================
